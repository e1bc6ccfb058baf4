---------------------------- MODULE DeliveryProofs ----------------------------
(***************************************************************************)
(* Proofs about what reaches the input ports of a process, for all five    *)
(* topics, any wire data and any number of samples.  First, a mapping and  *)
(* its inverse: what is mapped is a value of the domain, and what an own   *)
(* writer writes is mapped.  Then the invariant of a reader.               *)
(***************************************************************************)
EXTENDS SampleDelivery, TLAPS

-----------------------------------------------------------------------------
(* The mappings, one topic at a time.                                      *)

LEMMA StatusesMap ==
  /\ \A w \in DOMAIN FromWireStatus :
       /\ FromWireStatus[w] \in Statuses
       /\ ToWireStatus[FromWireStatus[w]] = w
  /\ \A s \in Statuses : /\ ToWireStatus[s] \in DOMAIN FromWireStatus
                         /\ FromWireStatus[ToWireStatus[s]] = s
<1>1. ASSUME NEW w \in DOMAIN FromWireStatus
      PROVE  FromWireStatus[w] \in Statuses /\ ToWireStatus[FromWireStatus[w]] = w
  <2>1. \/ w = "DRONE_AVAILABLE" \/ w = "DRONE_ASSIGNED" \/ w = "DRONE_INTERCEPTING"
        \/ w = "DRONE_INTERCEPTION_SUCCEEDED" \/ w = "DRONE_INTERCEPTION_FAILED"
    BY DEF FromWireStatus
  <2> QED
    BY <2>1 DEF FromWireStatus, ToWireStatus, Statuses
<1>2. ASSUME NEW s \in Statuses
      PROVE  /\ ToWireStatus[s] \in DOMAIN FromWireStatus
             /\ FromWireStatus[ToWireStatus[s]] = s
  <2>1. \/ s = "available" \/ s = "assigned" \/ s = "intercepting"
        \/ s = "interceptionSucceeded" \/ s = "interceptionFailed"
    BY DEF ToWireStatus, Statuses
  <2> QED
    BY <2>1 DEF FromWireStatus, ToWireStatus
<1> QED
  BY <1>1, <1>2

LEMMA PositionsMap ==
  /\ \A w \in WirePositions : HasFiniteCoordinates(w) =>
       FromWirePosition(w) \in Places /\ ToWirePosition(FromWirePosition(w)) = w
  /\ \A p \in Places : /\ ToWirePosition(p) \in WirePositions
                       /\ HasFiniteCoordinates(ToWirePosition(p))
  BY DEF WirePositions, HasFiniteCoordinates, FromWirePosition, ToWirePosition,
         Places, Coordinates

\* A time that is not before the epoch is one the domain allows, and vice versa.
LEMMA MomentsMap ==
  /\ \A t \in Milliseconds : ~(t < 0) => t \in Moments
  /\ \A t \in Moments : ~(t < 0)
  BY WireAssumption DEF Moments

LEMMA TracksMap ==
  /\ \A w \in WireTargetTracks : TargetTrackMappingError(w) = "none" =>
       /\ FromWireTargetTrack(w) \in TargetTracks
       /\ ToWireTargetTrack(FromWireTargetTrack(w)) = w
  /\ \A v \in TargetTracks : TargetTrackMappingError(ToWireTargetTrack(v)) = "none"
<1>1. ASSUME NEW w \in WireTargetTracks, TargetTrackMappingError(w) = "none"
      PROVE  /\ FromWireTargetTrack(w) \in TargetTracks
             /\ ToWireTargetTrack(FromWireTargetTrack(w)) = w
  <2>1. /\ w.target_id \in Identities
        /\ w.position \in WirePositions /\ HasFiniteCoordinates(w.position)
        /\ w.measured_at_ms \in Moments
    <3>1. /\ w.position \in WirePositions /\ HasFiniteCoordinates(w.position)
          /\ w.measured_at_ms \in Milliseconds /\ ~(w.measured_at_ms < 0)
      BY <1>1 DEF TargetTrackMappingError, WireTargetTracks
    <3> QED
      BY <1>1, <3>1, MomentsMap DEF TargetTrackMappingError, WireTargetTracks, Identities
  <2>2. /\ FromWirePosition(w.position) \in Places
        /\ ToWirePosition(FromWirePosition(w.position)) = w.position
    BY <2>1, PositionsMap
  <2> QED
    BY <2>1, <2>2 DEF FromWireTargetTrack, ToWireTargetTrack, TargetTracks,
                      WireTargetTracks
<1>2. ASSUME NEW v \in TargetTracks
      PROVE  TargetTrackMappingError(ToWireTargetTrack(v)) = "none"
  <2>1. v.targetId # 0 /\ v.position \in Places /\ v.measuredAt \in Moments
    BY DEF TargetTracks, Identities
  <2>2. HasFiniteCoordinates(ToWirePosition(v.position)) /\ ~(v.measuredAt < 0)
    BY <2>1, PositionsMap, MomentsMap
  <2> QED
    BY <2>1, <2>2 DEF TargetTrackMappingError, ToWireTargetTrack
<1> QED
  BY <1>1, <1>2

LEMMA StatesMap ==
  /\ \A w \in WireDroneStates : DroneStateMappingError(w) = "none" =>
       /\ FromWireDroneState(w) \in DroneStates
       /\ ToWireDroneState(FromWireDroneState(w)) = w
  /\ \A v \in DroneStates : DroneStateMappingError(ToWireDroneState(v)) = "none"
<1>1. ASSUME NEW w \in WireDroneStates, DroneStateMappingError(w) = "none"
      PROVE  /\ FromWireDroneState(w) \in DroneStates
             /\ ToWireDroneState(FromWireDroneState(w)) = w
  <2>1. /\ w.drone_id \in Identities
        /\ w.position \in WirePositions /\ HasFiniteCoordinates(w.position)
        /\ w.reported_at_ms \in Moments
    <3>1. /\ w.position \in WirePositions /\ HasFiniteCoordinates(w.position)
          /\ w.reported_at_ms \in Milliseconds /\ ~(w.reported_at_ms < 0)
      BY <1>1 DEF DroneStateMappingError, WireDroneStates
    <3> QED
      BY <1>1, <3>1, MomentsMap DEF DroneStateMappingError, WireDroneStates, Identities
  <2>2. /\ w.status \in DOMAIN FromWireStatus
        /\ w.assigned_target_id \in Identities \cup {None}
        /\ RequiresAssignedTarget(FromWireStatus[w.status])
             = (w.assigned_target_id # None)
    BY <1>1 DEF DroneStateMappingError, WireDroneStates, WireStatuses, Identities,
                RequiresAssignedTarget
  <2>3. /\ FromWireStatus[w.status] \in Statuses
        /\ ToWireStatus[FromWireStatus[w.status]] = w.status
    BY <2>2, StatusesMap
  <2>4. /\ FromWirePosition(w.position) \in Places
        /\ ToWirePosition(FromWirePosition(w.position)) = w.position
    BY <2>1, PositionsMap
  <2>5. FromWireDroneState(w) \in
          [droneId : Identities, position : Places, reportedAt : Moments,
           status : Statuses, assignedTargetId : Identities \cup {None}]
    BY <2>1, <2>2, <2>3, <2>4 DEF FromWireDroneState
  <2>6. IsDroneState(FromWireDroneState(w))
    <3>1. IsPosition(FromWirePosition(w.position))
      BY <2>4 DEF IsPosition, Places
    <3>2. /\ w.drone_id # 0 /\ w.reported_at_ms >= 0
          /\ w.assigned_target_id # None => w.assigned_target_id # 0
      BY <2>1, <2>2 DEF Identities, Moments
    <3> QED
      BY <2>2, <3>1, <3>2
         DEF FromWireDroneState, IsDroneState, IsDroneId, IsTargetId, IsTimestamp,
             StatusDemandsTarget, RequiresAssignedTarget
  <2>7. ToWireDroneState(FromWireDroneState(w)) = w
    BY <2>3, <2>4 DEF FromWireDroneState, ToWireDroneState, WireDroneStates
  <2> QED
    BY <2>5, <2>6, <2>7 DEF DroneStates
<1>2. ASSUME NEW v \in DroneStates
      PROVE  DroneStateMappingError(ToWireDroneState(v)) = "none"
  <2>1. /\ v.droneId # 0 /\ v.position \in Places /\ v.reportedAt \in Moments
        /\ v.status \in Statuses /\ v.assignedTargetId # 0
        /\ StatusDemandsTarget(v.status) = (v.assignedTargetId # None)
    BY WireAssumption DEF DroneStates, Identities, IsDroneState
  <2>2. HasFiniteCoordinates(ToWirePosition(v.position)) /\ ~(v.reportedAt < 0)
    BY <2>1, PositionsMap, MomentsMap
  <2>3. /\ ToWireStatus[v.status] \notin UnknownStatuses
        /\ FromWireStatus[ToWireStatus[v.status]] = v.status
    BY <2>1, StatusesMap, StatusAssumption
  <2> QED
    BY <2>1, <2>2, <2>3 DEF DroneStateMappingError, ToWireDroneState,
                            RequiresAssignedTarget, StatusDemandsTarget
<1> QED
  BY <1>1, <1>2

LEMMA AssignmentsMap ==
  /\ \A w \in WireAssignments : AssignmentMappingError(w) = "none" =>
       /\ FromWireAssignment(w) \in Assignments
       /\ ToWireAssignment(FromWireAssignment(w)) = w
  /\ \A v \in Assignments : AssignmentMappingError(ToWireAssignment(v)) = "none"
  BY DEF WireAssignments, AssignmentMappingError, FromWireAssignment,
         ToWireAssignment, Assignments, Identities

LEMMA CommandsMap ==
  /\ \A w \in WireInterceptionCommands : InterceptionCommandMappingError(w) = "none" =>
       /\ FromWireInterceptionCommand(w) \in InterceptionCommands
       /\ ToWireInterceptionCommand(FromWireInterceptionCommand(w)) = w
  /\ \A v \in InterceptionCommands :
       InterceptionCommandMappingError(ToWireInterceptionCommand(v)) = "none"
  BY DEF WireInterceptionCommands, InterceptionCommandMappingError,
         FromWireInterceptionCommand, ToWireInterceptionCommand,
         InterceptionCommands, Identities

LEMMA EventsMap ==
  /\ \A w \in WireExplosionEvents : ExplosionEventMappingError(w) = "none" =>
       /\ FromWireExplosionEvent(w) \in ExplosionEvents
       /\ ToWireExplosionEvent(FromWireExplosionEvent(w)) = w
  /\ \A v \in ExplosionEvents :
       ExplosionEventMappingError(ToWireExplosionEvent(v)) = "none"
<1>1. ASSUME NEW w \in WireExplosionEvents, ExplosionEventMappingError(w) = "none"
      PROVE  /\ FromWireExplosionEvent(w) \in ExplosionEvents
             /\ ToWireExplosionEvent(FromWireExplosionEvent(w)) = w
  <2>1. /\ w.event_id \in Identities /\ w.drone_id \in Identities
        /\ w.target_id \in Identities
        /\ w.position \in WirePositions /\ HasFiniteCoordinates(w.position)
        /\ w.occurred_at_ms \in Moments
    <3>1. /\ w.position \in WirePositions /\ HasFiniteCoordinates(w.position)
          /\ w.occurred_at_ms \in Milliseconds /\ ~(w.occurred_at_ms < 0)
      BY <1>1 DEF ExplosionEventMappingError, WireExplosionEvents
    <3> QED
      BY <1>1, <3>1, MomentsMap DEF ExplosionEventMappingError, WireExplosionEvents, Identities
  <2>2. /\ FromWirePosition(w.position) \in Places
        /\ ToWirePosition(FromWirePosition(w.position)) = w.position
    BY <2>1, PositionsMap
  <2> QED
    BY <2>1, <2>2 DEF FromWireExplosionEvent, ToWireExplosionEvent,
                      ExplosionEvents, WireExplosionEvents
<1>2. ASSUME NEW v \in ExplosionEvents
      PROVE  ExplosionEventMappingError(ToWireExplosionEvent(v)) = "none"
  <2>1. /\ v.eventId # 0 /\ v.droneId # 0 /\ v.targetId # 0
        /\ v.position \in Places /\ v.occurredAt \in Moments
    BY DEF ExplosionEvents, Identities
  <2>2. HasFiniteCoordinates(ToWirePosition(v.position)) /\ ~(v.occurredAt < 0)
    BY <2>1, PositionsMap, MomentsMap
  <2> QED
    BY <2>1, <2>2 DEF ExplosionEventMappingError, ToWireExplosionEvent
<1> QED
  BY <1>1, <1>2
-----------------------------------------------------------------------------
(* The topics together.                                                    *)

MappingError(t, w) ==
  CASE t = "target_tracks" -> TargetTrackMappingError(w)
    [] t = "drone_states" -> DroneStateMappingError(w)
    [] t = "assignments" -> AssignmentMappingError(w)
    [] t = "interception_commands" -> InterceptionCommandMappingError(w)
    [] t = "explosion_events" -> ExplosionEventMappingError(w)

FromWire(t, w) ==
  CASE t = "target_tracks" -> FromWireTargetTrack(w)
    [] t = "drone_states" -> FromWireDroneState(w)
    [] t = "assignments" -> FromWireAssignment(w)
    [] t = "interception_commands" -> FromWireInterceptionCommand(w)
    [] t = "explosion_events" -> FromWireExplosionEvent(w)

\* All readers answer alike.
LEMMA ReadersAnswer ==
  ASSUME NEW t \in AllTopics, NEW s
  PROVE  /\ TakeNext(t, s).issue = "none" =>
              /\ s.valid /\ MappingError(t, s.data) = "none"
              /\ TakeNext(t, s).value = FromWire(t, s.data)
         /\ TakeNext(t, s).issue = "discardedMalformedData" =>
              s.valid /\ MappingError(t, s.data) # "none"
<1>1. CASE t = "target_tracks"
  BY <1>1 DEF TakeNext, TakeTargetTrack, Taken, MappingError, FromWire
<1>2. CASE t = "drone_states"
  BY <1>2 DEF TakeNext, TakeDroneState, Taken, MappingError, FromWire
<1>3. CASE t = "assignments"
  BY <1>3 DEF TakeNext, TakeAssignment, Taken, MappingError, FromWire
<1>4. CASE t = "interception_commands"
  BY <1>4 DEF TakeNext, TakeInterceptionCommand, Taken, MappingError, FromWire
<1>5. CASE t = "explosion_events"
  BY <1>5 DEF TakeNext, TakeExplosionEvent, Taken, MappingError, FromWire
<1> QED
  BY <1>1, <1>2, <1>3, <1>4, <1>5 DEF AllTopics

LEMMA TopicsMap ==
  ASSUME NEW t \in AllTopics
  PROVE  /\ \A w \in WireData(t) : MappingError(t, w) = "none" =>
              FromWire(t, w) \in Values(t) /\ ToWire(t, FromWire(t, w)) = w
         /\ \A v \in Values(t) : MappingError(t, ToWire(t, v)) = "none"
<1>1. CASE t = "target_tracks"
  BY <1>1, TracksMap DEF WireData, MappingError, FromWire, Values, ToWire
<1>2. CASE t = "drone_states"
  BY <1>2, StatesMap DEF WireData, MappingError, FromWire, Values, ToWire
<1>3. CASE t = "assignments"
  BY <1>3, AssignmentsMap DEF WireData, MappingError, FromWire, Values, ToWire
<1>4. CASE t = "interception_commands"
  BY <1>4, CommandsMap DEF WireData, MappingError, FromWire, Values, ToWire
<1>5. CASE t = "explosion_events"
  BY <1>5, EventsMap DEF WireData, MappingError, FromWire, Values, ToWire
<1> QED
  BY <1>1, <1>2, <1>3, <1>4, <1>5 DEF AllTopics

-----------------------------------------------------------------------------
(* The invariant of a reader.                                              *)

\* The data in the cache arrived, and is of the reader's topic.
CacheIsFromTheWire ==
  /\ topic \in AllTopics
  /\ arrived \in Seq(WireData(topic))
  /\ \A s \in cache : s.valid => \E k \in 1..Len(arrived) : arrived[k] = s.data

\* What was handed over is a value of the domain, and came from the wire.
HandedIsFromTheWire ==
  /\ handed \in Seq(Values(topic))
  /\ \A i \in 1..Len(handed) :
       \E k \in 1..Len(arrived) : arrived[k] = ToWire(topic, handed[i])

RefusedIsMalformed == \A w \in refused : MappingError(topic, w) # "none"

DInv ==
  /\ CacheIsFromTheWire
  /\ HandedIsFromTheWire
  /\ RefusedIsMalformed
  /\ CommandsAreHandedOnce

LEMMA InitDInv == Init => DInv
  BY DeliveryAssumption DEF Init, DInv, CacheIsFromTheWire, HandedIsFromTheWire,
                            RefusedIsMalformed, CommandsAreHandedOnce

LEMMA ArriveKeeps ==
  ASSUME DInv, Arrive
  PROVE  DInv'
<1>1. PICK w \in WireData(topic) :
        /\ cache' = {x \in cache : x.key # KeyOf(topic, w)} \cup
                      {[key |-> KeyOf(topic, w), valid |-> TRUE, data |-> w]}
        /\ arrived' = Append(arrived, w)
  BY DEF Arrive, Put
<1>2. UNCHANGED <<topic, handed, refused, deliveredCommandIds>>
  BY DEF Arrive
<1>3. /\ arrived \in Seq(WireData(topic)) /\ arrived' \in Seq(WireData(topic))
      /\ Len(arrived') = Len(arrived) + 1 /\ Len(arrived) \in Nat
      /\ \A k \in 1..Len(arrived) : arrived'[k] = arrived[k]
      /\ arrived'[Len(arrived) + 1] = w
  BY <1>1 DEF DInv, CacheIsFromTheWire
<1>4. 1..Len(arrived) \subseteq 1..Len(arrived') /\ Len(arrived) + 1 \in 1..Len(arrived')
  BY <1>3
<1>5. \A s \in cache' : s.valid => \E k \in 1..Len(arrived') : arrived'[k] = s.data
  BY <1>1, <1>3, <1>4 DEF DInv, CacheIsFromTheWire
<1>6. CacheIsFromTheWire'
  BY <1>2, <1>3, <1>5 DEF DInv, CacheIsFromTheWire
<1>7. HandedIsFromTheWire'
  BY <1>2, <1>3, <1>4 DEF DInv, HandedIsFromTheWire
<1> QED
  BY <1>2, <1>6, <1>7 DEF DInv, RefusedIsMalformed, CommandsAreHandedOnce

LEMMA NotifyKeeps ==
  ASSUME DInv, NotifyInstance
  PROVE  DInv'
<1>1. /\ UNCHANGED <<topic, arrived, handed, refused, deliveredCommandIds>>
      /\ \A s \in cache' : s \in cache \/ s.valid = FALSE
  BY DEF NotifyInstance, Put
<1>2. CacheIsFromTheWire'
  BY <1>1 DEF DInv, CacheIsFromTheWire
<1> QED
  BY <1>1, <1>2 DEF DInv, HandedIsFromTheWire, RefusedIsMalformed, CommandsAreHandedOnce

\* A sample in the cache that a reader maps yields a value that came from the wire.
LEMMA TakenIsFromTheWire ==
  ASSUME DInv, NEW s \in cache, TakeNext(topic, s).issue = "none"
  PROVE  /\ TakeNext(topic, s).value \in Values(topic)
         /\ \E k \in 1..Len(arrived) :
              arrived[k] = ToWire(topic, TakeNext(topic, s).value)
<1>1. /\ s.valid /\ MappingError(topic, s.data) = "none"
      /\ TakeNext(topic, s).value = FromWire(topic, s.data)
  BY ReadersAnswer DEF DInv, CacheIsFromTheWire
<1>2. PICK k \in 1..Len(arrived) : arrived[k] = s.data
  BY <1>1 DEF DInv, CacheIsFromTheWire
<1>3. s.data \in WireData(topic)
  BY <1>2 DEF DInv, CacheIsFromTheWire
<1> QED
  BY <1>1, <1>2, <1>3, TopicsMap DEF DInv, CacheIsFromTheWire

\* Removing a sample leaves the cache from the wire.
LEMMA TakingKeepsTheCache ==
  ASSUME DInv, NEW s, Take(s), UNCHANGED <<topic, arrived>>
  PROVE  CacheIsFromTheWire'
  BY DEF DInv, Take, CacheIsFromTheWire

\* A value from the wire may be appended to those handed over.
LEMMA HandingOver ==
  ASSUME DInv, NEW v \in Values(topic),
         \E k \in 1..Len(arrived) : arrived[k] = ToWire(topic, v),
         handed' = Append(handed, v), UNCHANGED <<topic, arrived>>
  PROVE  /\ HandedIsFromTheWire'
         /\ Len(handed') = Len(handed) + 1 /\ Len(handed) \in Nat
         /\ \A i \in 1..Len(handed) : handed'[i] = handed[i]
         /\ handed'[Len(handed) + 1] = v
<1>1. /\ handed' \in Seq(Values(topic))
      /\ Len(handed') = Len(handed) + 1 /\ Len(handed) \in Nat
      /\ \A i \in 1..Len(handed) : handed'[i] = handed[i]
      /\ handed'[Len(handed) + 1] = v
  BY DEF DInv, HandedIsFromTheWire
<1>2. ASSUME NEW i \in 1..Len(handed')
      PROVE  \E k \in 1..Len(arrived) : arrived[k] = ToWire(topic, handed'[i])
  <2>1. i \in 1..Len(handed) \/ i = Len(handed) + 1
    BY <1>1
  <2> QED
    BY <1>1, <2>1 DEF DInv, HandedIsFromTheWire
<1> QED
  BY <1>1, <1>2 DEF HandedIsFromTheWire

LEMMA DiscardKeeps ==
  ASSUME DInv, NEW s \in cache, DiscardInvalid(s) \/ DiscardMalformed(s)
  PROVE  DInv'
<1>1. CacheIsFromTheWire'
  BY TakingKeepsTheCache DEF DiscardInvalid, DiscardMalformed
<1>2. RefusedIsMalformed'
  BY ReadersAnswer DEF DInv, CacheIsFromTheWire, RefusedIsMalformed,
                       DiscardInvalid, DiscardMalformed
<1>3. UNCHANGED <<topic, arrived, handed, deliveredCommandIds>>
  BY DEF DiscardInvalid, DiscardMalformed
<1> QED
  BY <1>1, <1>2, <1>3 DEF DInv, HandedIsFromTheWire, CommandsAreHandedOnce

LEMMA HandOverKeeps ==
  ASSUME DInv, NEW s \in cache, HandOver(s)
  PROVE  DInv'
<1>1. CacheIsFromTheWire'
  BY TakingKeepsTheCache DEF HandOver
<1>2. HandedIsFromTheWire'
  BY TakenIsFromTheWire, HandingOver DEF HandOver
<1> QED
  BY <1>1, <1>2 DEF DInv, HandOver, RefusedIsMalformed, CommandsAreHandedOnce

LEMMA HandOverCommandKeeps ==
  ASSUME DInv, NEW s \in cache, HandOverCommand(s)
  PROVE  DInv'
<1> DEFINE command == TakeNext(topic, s).value
<1>1. /\ deliveredCommandIds' = deliveredCommandIds \cup {command.commandId}
      /\ handed' = IF command.commandId \in deliveredCommandIds THEN handed
                   ELSE Append(handed, command)
      /\ topic = "interception_commands"
      /\ UNCHANGED <<topic, arrived, refused>>
  BY DEF HandOverCommand
<1>2. CacheIsFromTheWire'
  BY <1>1, TakingKeepsTheCache DEF HandOverCommand
<1>3. /\ command \in Values(topic)
      /\ \E k \in 1..Len(arrived) : arrived[k] = ToWire(topic, command)
  BY TakenIsFromTheWire DEF HandOverCommand
<1>4. RefusedIsMalformed'
  BY <1>1 DEF DInv, RefusedIsMalformed
<1> HIDE DEF command
<1>5. CASE command.commandId \in deliveredCommandIds
  <2>1. UNCHANGED <<handed, deliveredCommandIds>>
    BY <1>1, <1>5
  <2> QED
    BY <1>1, <1>2, <1>4, <2>1 DEF DInv, HandedIsFromTheWire, CommandsAreHandedOnce
<1>6. CASE command.commandId \notin deliveredCommandIds
  <2>1. handed' = Append(handed, command)
    BY <1>1, <1>6
  <2>2. /\ HandedIsFromTheWire'
        /\ Len(handed') = Len(handed) + 1 /\ Len(handed) \in Nat
        /\ \A i \in 1..Len(handed) : handed'[i] = handed[i]
        /\ handed'[Len(handed) + 1] = command
    BY <1>1, <1>3, <2>1, HandingOver
  <2>3. /\ deliveredCommandIds = {handed[i].commandId : i \in 1..Len(handed)}
        /\ \A i, k \in 1..Len(handed) :
             handed[i].commandId = handed[k].commandId => i = k
    BY <1>1 DEF DInv, CommandsAreHandedOnce
  <2>4. 1..Len(handed') = 1..Len(handed) \cup {Len(handed) + 1}
    BY <2>2
  <2>5. ASSUME NEW i \in 1..Len(handed'), NEW k \in 1..Len(handed'),
               handed'[i].commandId = handed'[k].commandId
        PROVE  i = k
    BY <1>6, <2>2, <2>3, <2>4, <2>5
  <2>6. deliveredCommandIds' = {handed'[i].commandId : i \in 1..Len(handed')}
    BY <1>1, <2>2, <2>3, <2>4
  <2>7. CommandsAreHandedOnce'
    BY <2>5, <2>6 DEF CommandsAreHandedOnce
  <2> QED
    BY <1>2, <1>4, <2>2, <2>7 DEF DInv
<1> QED
  BY <1>5, <1>6

LEMMA DInvInductive == DInv /\ [Next]_vars => DInv'
<1> SUFFICES ASSUME DInv, [Next]_vars PROVE DInv'
  OBVIOUS
<1>1. CASE Arrive
  BY <1>1, ArriveKeeps
<1>2. CASE NotifyInstance
  BY <1>2, NotifyKeeps
<1>3. ASSUME NEW s \in cache, DiscardInvalid(s) \/ DiscardMalformed(s)
      PROVE  DInv'
  BY <1>3, DiscardKeeps
<1>4. ASSUME NEW s \in cache, HandOver(s)
      PROVE  DInv'
  BY <1>4, HandOverKeeps
<1>5. ASSUME NEW s \in cache, HandOverCommand(s)
      PROVE  DInv'
  BY <1>5, HandOverCommandKeeps
<1>6. ASSUME UNCHANGED <<topic, cache, arrived, handed, refused, deliveredCommandIds>>
      PROVE  DInv'
  BY <1>6 DEF DInv, CacheIsFromTheWire, HandedIsFromTheWire, RefusedIsMalformed,
              CommandsAreHandedOnce
<1> QED
  BY <1>1, <1>2, <1>3, <1>4, <1>5, <1>6 DEF Next, ReceiveNext, TakeSample, TakeFails, vars

\* The invariant of a reader, its subscriber and the wire.
THEOREM DeliveryInvariance == Spec => []DInv
  BY InitDInv, DInvInductive, PTL DEF Spec

-----------------------------------------------------------------------------
(* The types, on top of that invariant.                                    *)

\* A sample put into the cache is the only one of its key.
LEMMA PutKeepsTypes ==
  ASSUME TypeOK, NEW x, Put(x), topic' = topic,
         x.valid => x.data \in WireData(topic) /\ x.key = KeyOf(topic, x.data)
  PROVE  /\ \A s \in cache' :
              s.valid => s.data \in WireData(topic') /\ s.key = KeyOf(topic', s.data)
         /\ \A s, y \in cache' : s.key = y.key => s = y
  BY DEF TypeOK, Put

LEMMA ArrivingKeepsTypes ==
  ASSUME TypeOK, DInv, DInv', Arrive
  PROVE  TypeOK'
<1>1. PICK w \in WireData(topic) :
        /\ Put([key |-> KeyOf(topic, w), valid |-> TRUE, data |-> w])
        /\ arrived' = Append(arrived, w)
  BY DEF Arrive
<1>2. UNCHANGED <<topic, handed, refused, deliveredCommandIds, exit>>
  BY DEF Arrive
<1>3. arrived' \in Seq(WireData(topic))
  BY <1>1 DEF DInv, CacheIsFromTheWire
<1>4. \A i \in 1..Len(arrived') : arrived'[i] \in WireData(topic')
  BY <1>2, <1>3
<1>5. /\ \A s \in cache' :
           s.valid => s.data \in WireData(topic') /\ s.key = KeyOf(topic', s.data)
      /\ \A s, y \in cache' : s.key = y.key => s = y
  BY <1>1, <1>2, PutKeepsTypes
<1>6. (handed \in Seq(Values(topic)))'
  BY DEF DInv, HandedIsFromTheWire
<1> QED
  BY <1>2, <1>4, <1>5, <1>6 DEF TypeOK

LEMMA NotifyingKeepsTypes ==
  ASSUME TypeOK, DInv', NotifyInstance
  PROVE  TypeOK'
<1>1. PICK i \in 1..Len(arrived) :
        Put([key |-> KeyOf(topic, arrived[i]), valid |-> FALSE, data |-> None])
  BY DEF NotifyInstance
<1>2. UNCHANGED <<topic, arrived, handed, refused, deliveredCommandIds, exit>>
  BY DEF NotifyInstance
<1>3. /\ \A s \in cache' :
           s.valid => s.data \in WireData(topic') /\ s.key = KeyOf(topic', s.data)
      /\ \A s, y \in cache' : s.key = y.key => s = y
  BY <1>1, <1>2, PutKeepsTypes
<1>4. (handed \in Seq(Values(topic)))'
  BY DEF DInv, HandedIsFromTheWire
<1> QED
  BY <1>2, <1>3, <1>4 DEF TypeOK

LEMMA TakingKeepsTypes ==
  ASSUME TypeOK, DInv, DInv', NEW s \in cache,
         \/ DiscardInvalid(s) \/ DiscardMalformed(s)
         \/ HandOver(s) \/ HandOverCommand(s)
  PROVE  TypeOK'
<1>1. cache' = cache \ {s} /\ UNCHANGED <<topic, arrived, exit>>
  BY DEF DiscardInvalid, DiscardMalformed, HandOver, HandOverCommand, Take
<1>2. refused' \subseteq WireData(topic)
  <2>1. CASE DiscardMalformed(s)
    <3>1. s.valid
      BY <2>1, ReadersAnswer DEF DiscardMalformed, DInv, CacheIsFromTheWire
    <3> QED
      BY <2>1, <3>1 DEF TypeOK, DiscardMalformed
  <2> QED
    BY <2>1 DEF TypeOK, DiscardInvalid, HandOver, HandOverCommand
<1>3. deliveredCommandIds' \subseteq Identifiers
  <2>1. CASE HandOverCommand(s)
    <3>1. /\ topic = "interception_commands"
          /\ deliveredCommandIds' =
               deliveredCommandIds \cup {TakeNext(topic, s).value.commandId}
          /\ TakeNext(topic, s).value \in Values(topic)
      BY <2>1, TakenIsFromTheWire DEF HandOverCommand
    <3>2. TakeNext(topic, s).value.commandId \in Identifiers
      BY <3>1 DEF Values, InterceptionCommands, Identities
    <3> QED
      BY <3>1, <3>2 DEF TypeOK
  <2> QED
    BY <2>1 DEF TypeOK, DiscardInvalid, DiscardMalformed, HandOver
<1>4. (handed \in Seq(Values(topic)))'
  BY DEF DInv, HandedIsFromTheWire
<1> QED
  BY <1>1, <1>2, <1>3, <1>4 DEF TypeOK

\* Every variable of a reader and its subscriber keeps its type, what the input
\* port got included, and the cache holds one sample of each key.
THEOREM DeliveryTypes == Spec => []TypeOK
<1>1. Init => TypeOK
  BY DeliveryAssumption DEF Init, TypeOK
<1>2. TypeOK /\ DInv /\ DInv' /\ [Next]_vars => TypeOK'
  <2> SUFFICES ASSUME TypeOK, DInv, DInv', [Next]_vars PROVE TypeOK'
    OBVIOUS
  <2>1. CASE Arrive
    BY <2>1, ArrivingKeepsTypes
  <2>2. CASE NotifyInstance
    BY <2>2, NotifyingKeepsTypes
  <2>3. CASE TakeSample
    BY <2>3, TakingKeepsTypes DEF TakeSample
  <2>4. CASE \E s \in cache : TakeFails(s)
    BY <2>4 DEF TypeOK, TakeFails
  <2>5. CASE UNCHANGED vars
    BY <2>5 DEF TypeOK, vars
  <2> QED
    BY <2>1, <2>2, <2>3, <2>4, <2>5 DEF Next, ReceiveNext
<1> QED
  BY <1>1, <1>2, DeliveryInvariance, PTL DEF Spec

-----------------------------------------------------------------------------
(* Theorems about delivery.                                                *)

\* Whatever anybody writes, the constructors of the domain never throw while a
\* sample is mapped, and the core gets values it was written for.
THEOREM PortsGetValidValues == Spec => []PortsSeeOnlyValidValues
<1>1. DInv => PortsSeeOnlyValidValues
  BY DEF DInv, HandedIsFromTheWire, PortsSeeOnlyValidValues
<1> QED
  BY <1>1, DeliveryInvariance, PTL

\* No field is lost, exchanged or made up between the wire and the core.
THEOREM ValuesComeFromTheWire == Spec => []NothingIsInvented
<1>1. DInv => NothingIsInvented
  BY DEF DInv, HandedIsFromTheWire, NothingIsInvented
<1> QED
  BY <1>1, DeliveryInvariance, PTL

\* What the checks of the readers refuse is nothing the writers can write.
THEOREM WritersAreUnderstood == Spec => []OwnSamplesAreUnderstood
<1>1. DInv => OwnSamplesAreUnderstood
  BY TopicsMap DEF DInv, CacheIsFromTheWire, RefusedIsMalformed, OwnSamplesAreUnderstood
<1> QED
  BY <1>1, DeliveryInvariance, PTL

\* The core gets a command identity once, however often it is written, and an
\* identity is used up by nothing else.
THEOREM CommandsComeOnce == Spec => []CommandsAreHandedOnce
<1>1. DInv => CommandsAreHandedOnce
  BY DEF DInv
<1> QED
  BY <1>1, DeliveryInvariance, PTL
=============================================================================
