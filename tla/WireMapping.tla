----------------------------- MODULE WireMapping -----------------------------
(***************************************************************************)
(* The values of the domain, their wire types, and the mappings between    *)
(* them.  Whatever any participant of the DDS domain writes may arrive: a  *)
(* mapping from the wire either names the first defect of a sample or      *)
(* yields a value.  The constructors of the domain throw on a value they   *)
(* do not allow; "Is..." tells that they do not.                           *)
(*                                                                         *)
(* A coordinate is an element of Finite or of NonFinite (an infinity or    *)
(* not a number); a status outside the enumeration is in UnknownStatuses.  *)
(***************************************************************************)
EXTENDS Integers

CONSTANTS Identifiers, Finite, NonFinite, Milliseconds, UnknownStatuses, None

ASSUME WireAssumption ==
  /\ Identifiers \subseteq Nat
  /\ Milliseconds \subseteq Int
  /\ Finite \cap NonFinite = {}
  /\ None \notin Identifiers \cup {0}

-----------------------------------------------------------------------------
(* The domain.                                                             *)

IsTargetId(value) == value # 0
IsDroneId(value) == value # 0
IsExplosionEventId(value) == value # 0
IsInterceptionCommandId(value) == value # 0
IsTimestamp(timeSinceUnixEpoch) == timeSinceUnixEpoch >= 0

IsPosition(p) == p.xMeters \in Finite /\ p.yMeters \in Finite /\ p.zMeters \in Finite

StatusDemandsTarget(status) == status # "available"

IsAssignment(a) == IsDroneId(a.droneId) /\ IsTargetId(a.targetId)

IsInterceptionCommand(c) ==
  /\ IsInterceptionCommandId(c.commandId)
  /\ IsDroneId(c.droneId)
  /\ IsTargetId(c.targetId)

IsTargetTrack(t) ==
  IsTargetId(t.targetId) /\ IsPosition(t.position) /\ IsTimestamp(t.measuredAt)

IsDroneState(s) ==
  /\ IsDroneId(s.droneId) /\ IsPosition(s.position) /\ IsTimestamp(s.reportedAt)
  /\ s.assignedTargetId # None => IsTargetId(s.assignedTargetId)
  /\ StatusDemandsTarget(s.status) = (s.assignedTargetId # None)

IsExplosionEvent(e) ==
  /\ IsExplosionEventId(e.eventId)
  /\ IsDroneId(e.droneId)
  /\ IsTargetId(e.targetId)
  /\ IsPosition(e.position)
  /\ IsTimestamp(e.occurredAt)

Places == [xMeters : Finite, yMeters : Finite, zMeters : Finite]
Moments == {t \in Milliseconds : t >= 0}
Identities == Identifiers \ {0}

-----------------------------------------------------------------------------
(* The wire types, as the IDL declares them.                               *)

ToWireStatus ==
  [available |-> "DRONE_AVAILABLE", assigned |-> "DRONE_ASSIGNED",
   intercepting |-> "DRONE_INTERCEPTING",
   interceptionSucceeded |-> "DRONE_INTERCEPTION_SUCCEEDED",
   interceptionFailed |-> "DRONE_INTERCEPTION_FAILED"]

FromWireStatus ==
  [DRONE_AVAILABLE |-> "available", DRONE_ASSIGNED |-> "assigned",
   DRONE_INTERCEPTING |-> "intercepting",
   DRONE_INTERCEPTION_SUCCEEDED |-> "interceptionSucceeded",
   DRONE_INTERCEPTION_FAILED |-> "interceptionFailed"]

Statuses == DOMAIN ToWireStatus

ASSUME StatusAssumption == UnknownStatuses \cap DOMAIN FromWireStatus = {}

WireStatuses == DOMAIN FromWireStatus \cup UnknownStatuses

Coordinates == Finite \cup NonFinite
WirePositions == [x : Coordinates, y : Coordinates, z : Coordinates]

WireTargetTracks ==
  [target_id : Identifiers, position : WirePositions, measured_at_ms : Milliseconds]
WireDroneStates ==
  [drone_id : Identifiers, position : WirePositions, reported_at_ms : Milliseconds,
   status : WireStatuses, assigned_target_id : Identifiers \cup {None}]
WireAssignments == [drone_id : Identifiers, target_id : Identifiers]
WireInterceptionCommands ==
  [command_id : Identifiers, drone_id : Identifiers, target_id : Identifiers]
WireExplosionEvents ==
  [event_id : Identifiers, drone_id : Identifiers, target_id : Identifiers,
   position : WirePositions, occurred_at_ms : Milliseconds]

\* Mutant: the height is not looked at.
FiniteInThePlane(p) == p.x \in Finite /\ p.y \in Finite

HasFiniteCoordinates(p) == p.x \in Finite /\ p.y \in Finite /\ p.z \in Finite
RequiresAssignedTarget(status) == status # "available"

ToWirePosition(p) == [x |-> p.xMeters, y |-> p.yMeters, z |-> p.zMeters]
FromWirePosition(p) == [xMeters |-> p.x, yMeters |-> p.y, zMeters |-> p.z]

-----------------------------------------------------------------------------
(* The mappings.                                                           *)

ToWireTargetTrack(t) ==
  [target_id |-> t.targetId, position |-> ToWirePosition(t.position),
   measured_at_ms |-> t.measuredAt]

TargetTrackMappingError(w) ==
  IF w.target_id = 0 THEN "zeroTargetId"
  ELSE IF ~HasFiniteCoordinates(w.position) THEN "nonFinitePosition"
  ELSE IF w.measured_at_ms < 0 THEN "timestampBeforeUnixEpoch"
  ELSE "none"

FromWireTargetTrack(w) ==
  [targetId |-> w.target_id, position |-> FromWirePosition(w.position),
   measuredAt |-> w.measured_at_ms]

\* Mutant: the assigned target of a finished drone is not sent.
ToWireDropsFinishedTarget(s) ==
  [drone_id |-> s.droneId, position |-> ToWirePosition(s.position),
   reported_at_ms |-> s.reportedAt, status |-> ToWireStatus[s.status],
   assigned_target_id |->
     IF s.status \in {"assigned", "intercepting"} THEN s.assignedTargetId ELSE None]

ToWireDroneState(s) ==
  [drone_id |-> s.droneId, position |-> ToWirePosition(s.position),
   reported_at_ms |-> s.reportedAt, status |-> ToWireStatus[s.status],
   assigned_target_id |-> s.assignedTargetId]

DroneStateMappingError(w) ==
  IF w.drone_id = 0 THEN "zeroDroneId"
  ELSE IF ~HasFiniteCoordinates(w.position) THEN "nonFinitePosition"
  ELSE IF w.reported_at_ms < 0 THEN "timestampBeforeUnixEpoch"
  ELSE IF w.status \in UnknownStatuses THEN "unknownStatus"
  ELSE IF w.assigned_target_id = 0 THEN "zeroAssignedTargetId"
  ELSE IF RequiresAssignedTarget(FromWireStatus[w.status])
            # (w.assigned_target_id # None) THEN "assignmentDoesNotMatchStatus"
  ELSE "none"

FromWireDroneState(w) ==
  [droneId |-> w.drone_id, position |-> FromWirePosition(w.position),
   reportedAt |-> w.reported_at_ms, status |-> FromWireStatus[w.status],
   assignedTargetId |-> w.assigned_target_id]

ToWireAssignment(a) == [drone_id |-> a.droneId, target_id |-> a.targetId]

AssignmentMappingError(w) ==
  IF w.drone_id = 0 THEN "zeroDroneId"
  ELSE IF w.target_id = 0 THEN "zeroTargetId"
  ELSE "none"

FromWireAssignment(w) == [droneId |-> w.drone_id, targetId |-> w.target_id]

ToWireInterceptionCommand(c) ==
  [command_id |-> c.commandId, drone_id |-> c.droneId, target_id |-> c.targetId]

InterceptionCommandMappingError(w) ==
  IF w.command_id = 0 THEN "zeroCommandId"
  ELSE IF w.drone_id = 0 THEN "zeroDroneId"
  ELSE IF w.target_id = 0 THEN "zeroTargetId"
  ELSE "none"

FromWireInterceptionCommand(w) ==
  [commandId |-> w.command_id, droneId |-> w.drone_id, targetId |-> w.target_id]

ToWireExplosionEvent(e) ==
  [event_id |-> e.eventId, drone_id |-> e.droneId, target_id |-> e.targetId,
   position |-> ToWirePosition(e.position), occurred_at_ms |-> e.occurredAt]

ExplosionEventMappingError(w) ==
  IF w.event_id = 0 THEN "zeroEventId"
  ELSE IF w.drone_id = 0 THEN "zeroDroneId"
  ELSE IF w.target_id = 0 THEN "zeroTargetId"
  ELSE IF ~HasFiniteCoordinates(w.position) THEN "nonFinitePosition"
  ELSE IF w.occurred_at_ms < 0 THEN "timestampBeforeUnixEpoch"
  ELSE "none"

FromWireExplosionEvent(w) ==
  [eventId |-> w.event_id, droneId |-> w.drone_id, targetId |-> w.target_id,
   position |-> FromWirePosition(w.position), occurredAt |-> w.occurred_at_ms]
=============================================================================
