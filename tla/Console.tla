------------------------------- MODULE Console -------------------------------
(***************************************************************************)
(* The console processes without their polling loop: the projections of    *)
(* targets, drones and outcomes in console_core, the assignment and the    *)
(* interception command use cases, and the two DDS writers they publish    *)
(* through.  The operations may be called in any order and with any sample *)
(* here; InterceptionSystem.tla composes them with the polling loop.       *)
(*                                                                         *)
(* Several consoles may run; each has state of its own only.  A publish    *)
(* may fail: the exception leaves main and the process exits.              *)
(***************************************************************************)
EXTENDS Integers, FiniteSets

CONSTANTS
  Consoles,
  Drones,
  Targets,
  Positions,       \* places a sample may tell
  EventIds,        \* identities an explosion event may carry
  Times,           \* times a sample may carry
  MaxCommandId,    \* numeric_limits<uint64_t>::max()
  WritesMayFail,
  None

ASSUME ConsoleAssumption ==
  /\ Times \subseteq Nat
  /\ MaxCommandId \in Nat \ {0}
  /\ EventIds \subseteq Nat \ {0}
  /\ WritesMayFail \in BOOLEAN

VARIABLES
  targetTracks,        \* targetTracks_ of TargetProjection
  droneStates,         \* droneStates_ of DroneProjection
  outcomes,            \* outcomes_ of OutcomeProjection
  pendingAssignments,  \* pendingAssignments_ of AssignmentUseCase
  pendingStarts,       \* pendingStarts_ of InterceptionCommandUseCase
  nextCommandId,       \* nextCommandId_ of InterceptionCommandUseCase
  assignmentWriter,    \* newest sample written to drone.assignments, per drone
  commandWriter,       \* samples written to drone.interception_commands
  consoleExit          \* why the process left run(), "none" while it runs

projections == <<targetTracks, droneStates, outcomes>>
intents == <<pendingAssignments, pendingStarts, nextCommandId,
             assignmentWriter, commandWriter>>
cvars == <<targetTracks, droneStates, outcomes, pendingAssignments,
           pendingStarts, nextCommandId, assignmentWriter, commandWriter,
           consoleExit>>

TargetTracks == [targetId : Targets, position : Positions, measuredAt : Times]
DroneStates ==
  [droneId : Drones, position : Positions, reportedAt : Times,
   status : {"available"}, assignedTargetId : {None}]
  \cup
  [droneId : Drones, position : Positions, reportedAt : Times,
   status : {"assigned", "intercepting", "interceptionSucceeded",
             "interceptionFailed"},
   assignedTargetId : Targets]
ExplosionEvents ==
  [eventId : EventIds, droneId : Drones, targetId : Targets,
   position : Positions, occurredAt : Times]
InterceptionCommands ==
  [commandId : Nat, droneId : Drones, targetId : Targets]

ASSUME ConsoleNoneAssumption ==
  /\ None \notin Targets
  /\ None \notin TargetTracks
  /\ None \notin DroneStates
  /\ None \notin ExplosionEvents

-----------------------------------------------------------------------------
Running(c) == consoleExit[c] = "none"

Init ==
  /\ targetTracks = [c \in Consoles |-> [t \in Targets |-> None]]
  /\ droneStates = [c \in Consoles |-> [d \in Drones |-> None]]
  /\ outcomes = [c \in Consoles |-> [e \in EventIds |-> None]]
  /\ pendingAssignments = [c \in Consoles |-> [d \in Drones |-> None]]
  /\ pendingStarts = [c \in Consoles |-> {}]
  /\ nextCommandId = [c \in Consoles |-> 1]
  /\ assignmentWriter = [c \in Consoles |-> [d \in Drones |-> None]]
  /\ commandWriter = [c \in Consoles |-> {}]
  /\ consoleExit = [c \in Consoles |-> "none"]

-----------------------------------------------------------------------------
(* Projections.                                                            *)

TargetUpdateResult(c, track) ==
  LET current == targetTracks[c][track.targetId]
  IN IF current = None THEN "added"
     ELSE IF track = current THEN "duplicate"
     ELSE IF track.measuredAt < current.measuredAt THEN "stale"
     ELSE IF track.measuredAt = current.measuredAt THEN "conflicting"
     ELSE "updated"

ReceiveTarget(c, track) ==
  /\ Running(c)
  /\ targetTracks' =
       IF TargetUpdateResult(c, track) \in {"added", "updated"}
       THEN [targetTracks EXCEPT ![c][track.targetId] = track]
       ELSE targetTracks
  /\ UNCHANGED <<droneStates, outcomes, intents, consoleExit>>

\* Mutant: a late sample replaces a newer one.
DroneUpdateAcceptsStale(c, state) ==
  LET current == droneStates[c][state.droneId]
  IN IF current = None THEN "added"
     ELSE IF state = current THEN "duplicate"
     ELSE IF state.reportedAt = current.reportedAt THEN "conflicting"
     ELSE "updated"

DroneUpdateResult(c, state) ==
  LET current == droneStates[c][state.droneId]
  IN IF current = None THEN "added"
     ELSE IF state = current THEN "duplicate"
     ELSE IF state.reportedAt < current.reportedAt THEN "stale"
     ELSE IF state.reportedAt = current.reportedAt THEN "conflicting"
     ELSE "updated"

ReceiveDrone(c, state) ==
  /\ Running(c)
  /\ droneStates' =
       IF DroneUpdateResult(c, state) \in {"added", "updated"}
       THEN [droneStates EXCEPT ![c][state.droneId] = state]
       ELSE droneStates
  /\ UNCHANGED <<targetTracks, outcomes, intents, consoleExit>>

\* Mutant: an event is not correlated with the drone.
OutcomeUncorrelated(c, event) ==
  LET existing == outcomes[c][event.eventId]
  IN IF existing # None
     THEN IF existing = event THEN "duplicate" ELSE "conflicting"
     ELSE IF targetTracks[c][event.targetId] = None THEN "unrelated"
     ELSE "recorded"

\* Mutant: the event is expected to come after the final state.
OutcomeAfterFinalState(c, event) ==
  LET existing == outcomes[c][event.eventId]
      report == droneStates[c][event.droneId]
  IN IF existing # None
     THEN IF existing = event THEN "duplicate" ELSE "conflicting"
     ELSE IF \/ targetTracks[c][event.targetId] = None
             \/ report = None
             \/ report.assignedTargetId # event.targetId
             \/ report.status # "interceptionSucceeded"
     THEN "unrelated" ELSE "recorded"

\* Mutant: a contradicting event replaces the recorded one.
OutcomeReplaced(c, event) ==
  LET existing == outcomes[c][event.eventId]
      report == droneStates[c][event.droneId]
  IN IF existing = event THEN "duplicate"
     ELSE IF \/ targetTracks[c][event.targetId] = None
             \/ report = None
             \/ report.assignedTargetId # event.targetId
     THEN "unrelated" ELSE "recorded"

OutcomeUpdateResult(c, event) ==
  LET existing == outcomes[c][event.eventId]
      report == droneStates[c][event.droneId]
  IN IF existing # None
     THEN IF existing = event THEN "duplicate" ELSE "conflicting"
     ELSE IF \/ targetTracks[c][event.targetId] = None
             \/ report = None
             \/ report.assignedTargetId # event.targetId
     THEN "unrelated" ELSE "recorded"

ReceiveOutcome(c, event) ==
  /\ Running(c)
  /\ outcomes' = IF OutcomeUpdateResult(c, event) = "recorded"
                 THEN [outcomes EXCEPT ![c][event.eventId] = event]
                 ELSE outcomes
  /\ UNCHANGED <<targetTracks, droneStates, intents, consoleExit>>

-----------------------------------------------------------------------------
(* Operator intents.  Each is written before it is remembered as pending.  *)

\* Mutant: what is pending is not looked up.
AssignmentForgetsPending(c, d, t) ==
  IF droneStates[c][d] = None THEN "unknownDrone"
  ELSE IF targetTracks[c][t] = None THEN "unknownTarget"
  ELSE IF droneStates[c][d].status # "available" THEN "unavailableDrone"
  ELSE "assigned"

\* Mutant: the reported status is not looked at.
AssignmentOfBusyDrone(c, d, t) ==
  IF droneStates[c][d] = None THEN "unknownDrone"
  ELSE IF targetTracks[c][t] = None THEN "unknownTarget"
  ELSE IF pendingAssignments[c][d] = t THEN "duplicate"
  ELSE IF pendingAssignments[c][d] # None THEN "unavailableDrone"
  ELSE "assigned"

AssignmentResult(c, d, t) ==
  IF droneStates[c][d] = None THEN "unknownDrone"
  ELSE IF targetTracks[c][t] = None THEN "unknownTarget"
  ELSE IF pendingAssignments[c][d] = t THEN "duplicate"
  ELSE IF pendingAssignments[c][d] # None THEN "unavailableDrone"
  ELSE IF droneStates[c][d].status # "available" THEN "unavailableDrone"
  ELSE "assigned"

WriteFails(c) ==
  /\ WritesMayFail
  /\ consoleExit' = [consoleExit EXCEPT ![c] = "writeFailed"]
  /\ UNCHANGED intents

Assign(c, d, t) ==
  /\ Running(c)
  /\ UNCHANGED projections
  /\ \/ /\ AssignmentResult(c, d, t) = "assigned"
        /\ \/ /\ assignmentWriter' = [assignmentWriter EXCEPT ![c][d] = t]
              /\ pendingAssignments' = [pendingAssignments EXCEPT ![c][d] = t]
              /\ UNCHANGED <<pendingStarts, nextCommandId, commandWriter,
                             consoleExit>>
           \/ WriteFails(c)
     \/ /\ AssignmentResult(c, d, t) # "assigned"
        /\ UNCHANGED <<intents, consoleExit>>

\* Mutant: the drone need not have confirmed its assignment.
StartUnconfirmed(c, d) ==
  IF droneStates[c][d] = None THEN "unknownDrone"
  ELSE IF d \in pendingStarts[c] THEN "duplicate"
  ELSE IF nextCommandId[c] = MaxCommandId THEN "overflow"
  ELSE "started"

StartResult(c, d) ==
  IF droneStates[c][d] = None THEN "unknownDrone"
  ELSE IF d \in pendingStarts[c] THEN "duplicate"
  ELSE IF droneStates[c][d].status # "assigned" THEN "droneNotAssigned"
  ELSE IF nextCommandId[c] = MaxCommandId THEN "overflow"
  ELSE "started"

\* Mutant: the counter is not advanced.
AdvancedNever(n) == n

\* ++ on the unsigned counter.
Advanced(n) == IF n = MaxCommandId THEN 0 ELSE n + 1

\* Running out of identities throws overflow_error, which leaves main.
StartInterception(c, d) ==
  /\ Running(c)
  /\ UNCHANGED projections
  /\ \/ /\ StartResult(c, d) = "started"
        /\ \/ /\ commandWriter' = [commandWriter EXCEPT ![c] = @ \cup
                   {[commandId |-> nextCommandId[c], droneId |-> d,
                     targetId |-> droneStates[c][d].assignedTargetId]}]
              /\ pendingStarts' = [pendingStarts EXCEPT ![c] = @ \cup {d}]
              /\ nextCommandId' = [nextCommandId EXCEPT ![c] = Advanced(@)]
              /\ UNCHANGED <<pendingAssignments, assignmentWriter, consoleExit>>
           \/ WriteFails(c)
     \/ /\ StartResult(c, d) = "overflow"
        /\ consoleExit' = [consoleExit EXCEPT ![c] = "overflow"]
        /\ UNCHANGED intents
     \/ /\ StartResult(c, d) \notin {"started", "overflow"}
        /\ UNCHANGED <<intents, consoleExit>>

-----------------------------------------------------------------------------
Next ==
  \E c \in Consoles :
    \/ \E track \in TargetTracks : ReceiveTarget(c, track)
    \/ \E state \in DroneStates : ReceiveDrone(c, state)
    \/ \E event \in ExplosionEvents : ReceiveOutcome(c, event)
    \/ \E d \in Drones, t \in Targets : Assign(c, d, t)
    \/ \E d \in Drones : StartInterception(c, d)

Spec == Init /\ [][Next]_cvars

-----------------------------------------------------------------------------
(* Properties.                                                             *)

\* Every variable holds a value of its C++ type, and the maps are keyed by
\* the identity inside the value.
TypeOK ==
  /\ targetTracks \in [Consoles -> [Targets -> TargetTracks \cup {None}]]
  /\ droneStates \in [Consoles -> [Drones -> DroneStates \cup {None}]]
  /\ outcomes \in [Consoles -> [EventIds -> ExplosionEvents \cup {None}]]
  /\ pendingAssignments \in [Consoles -> [Drones -> Targets \cup {None}]]
  /\ pendingStarts \in [Consoles -> SUBSET Drones]
  /\ nextCommandId \in [Consoles -> 1..MaxCommandId]
  /\ assignmentWriter \in [Consoles -> [Drones -> Targets \cup {None}]]
  /\ commandWriter \in [Consoles -> SUBSET InterceptionCommands]
  /\ consoleExit \in [Consoles -> {"none", "writeFailed", "overflow"}]

\* Commands of one process never share an identity or a drone, none carries
\* the invalid identity zero or one not handed out yet, and a drone is
\* pending exactly when a command for it was written.
CommandIdentitiesUnique ==
  \A c \in Consoles :
    /\ \A a, b \in commandWriter[c] :
         a.commandId = b.commandId \/ a.droneId = b.droneId => a = b
    /\ \A a \in commandWriter[c] : a.commandId \in 1..(nextCommandId[c] - 1)
    /\ pendingStarts[c] = {a.droneId : a \in commandWriter[c]}

\* An operator's assignment is never replaced: what was written for a drone
\* stays what the process believes to be pending.
OneAssignmentPerDrone ==
  [][\A c \in Consoles, d \in Drones :
       assignmentWriter[c][d] # None =>
         /\ assignmentWriter'[c][d] = assignmentWriter[c][d]
         /\ pendingAssignments'[c][d] = assignmentWriter[c][d]]_cvars

\* A recorded outcome is never overwritten or dropped, whatever arrives.
OutcomesImmutable ==
  [][\A c \in Consoles, e \in EventIds :
       outcomes[c][e] # None => outcomes'[c][e] = outcomes[c][e]]_cvars
=============================================================================
