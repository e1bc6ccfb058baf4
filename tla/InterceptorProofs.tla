--------------------------- MODULE InterceptorProofs ---------------------------
(***************************************************************************)
(* Proofs about Interceptor for every value of its constants: the          *)
(* inductive invariant IInv and the safety properties it implies.  There   *)
(* is one lemma per action that changes the state, and in it one step per  *)
(* conjunct of the invariant.                                              *)
(***************************************************************************)
EXTENDS Interceptor, FiniteSetTheorems, TLAPS

VehicleSamples == [position : Int, measuredAt : Nat]

-----------------------------------------------------------------------------
(* Facts about the operators the actions are built from.                   *)

\* Flying one interval keeps the vehicle on the line.
LEMMA NextPositionType ==
  ASSUME NEW p \in Int, NEW q \in Int
  PROVE NextPosition(p, q) \in Int
BY GeometryAssumption DEF NextPosition, Distance

\* A report is a drone state, and so is never mistaken for no state at all.
LEMMA ReportType ==
  ASSUME NEW sample \in VehicleSamples, NEW status \in Statuses,
         NEW t \in Targets \cup {None}
  PROVE /\ Report(sample, status, t) \in DroneStates
        /\ Report(sample, status, t) # None
BY IdentityAssumption, NoneAssumption DEF Report, DroneStates, VehicleSamples

\* A pursuit has a target to fly to, and flying takes one time unit.
LEMMA FlownType ==
  ASSUME TypeOK, Pursuing
  PROVE /\ Flown \in VehicleSamples
        /\ Flown.measuredAt = vehicle.measuredAt + 1
        /\ state \in DroneStates
        /\ state.assignedTargetId \in Targets
        /\ latestTargetTrack \in TargetTracks
<1>1. state \in DroneStates /\ latestTargetTrack \in TargetTracks
  BY DEF TypeOK, Pursuing, Started
<1>2. state.assignedTargetId \in Targets
  BY <1>1 DEF TypeOK, Pursuing, Started, DroneStates
<1>3. latestTargetTrack.position \in Int /\ vehicle \in VehicleSamples
  BY <1>1, GeometryAssumption DEF TypeOK, TargetTracks, VehicleSamples
<1>4. NextPosition(vehicle.position, latestTargetTrack.position) \in Int
  BY <1>3, NextPositionType DEF VehicleSamples
<1> QED
  BY <1>1, <1>2, <1>3, <1>4 DEF Flown, VehicleSamples

-----------------------------------------------------------------------------
(* The inductive invariant.                                                *)

\* The initial state satisfies the invariant.
LEMMA InitIInv == Init => IInv
BY GeometryAssumption
   DEF Init, IInv, TypeOK, NothingBeforeStart, StateIsPublished,
       PursuitOwnsIdentity, PursuitIsAuthorised, CommandMeansPursuit,
       EffectAtMostOnce, EventTellsTheState, SuccessIsTold,
       StateTellsTheVehicle, NeverLogicError, Started, Running

\* Announcing the drone as available preserves the invariant.
LEMMA StartPreserves == IInv /\ Start => IInv'
<1> SUFFICES ASSUME IInv, Start PROVE IInv'
  OBVIOUS
<1> USE DEF Start, ReportState
<1>1. vehicle \in VehicleSamples
  BY DEF IInv, TypeOK, VehicleSamples
<1>2. state' \in DroneStates /\ state' # None
  BY <1>1, ReportType DEF Statuses
<1>3. /\ state'.status = "available" /\ state'.assignedTargetId = None
      /\ state'.reportedAt = vehicle.measuredAt
      /\ state'.position = vehicle.position
  BY DEF Report
<1>4. /\ latestTargetTrack = None /\ startedCommandId = None
      /\ eventWriter = {} /\ effects = 0 /\ stateWriter = None
  BY DEF IInv, NothingBeforeStart
<1>5. TypeOK'
  BY <1>2, <1>3 DEF IInv, TypeOK, Started, Running
<1>6. (NothingBeforeStart /\ StateIsPublished /\ PursuitOwnsIdentity)'
  BY <1>2, <1>3 DEF NothingBeforeStart, StateIsPublished,
                    PursuitOwnsIdentity, Started, Running
<1>7. (PursuitIsAuthorised /\ CommandMeansPursuit /\ EffectAtMostOnce)'
  BY <1>2, <1>3, <1>4 DEF PursuitIsAuthorised, CommandMeansPursuit,
                          EffectAtMostOnce, Outcomes, Started
<1>8. (EventTellsTheState /\ SuccessIsTold)'
  BY <1>3, <1>4 DEF EventTellsTheState, SuccessIsTold
<1>9. (StateTellsTheVehicle /\ NeverLogicError)'
  BY <1>1, <1>3 DEF StateTellsTheVehicle, NeverLogicError, Running, VehicleSamples
<1> QED
  BY <1>5, <1>6, <1>7, <1>8, <1>9 DEF IInv

\* The clock running on preserves the invariant.
LEMMA AdvanceTimePreserves == IInv /\ AdvanceTime => IInv'
<1> SUFFICES ASSUME IInv, AdvanceTime PROVE IInv'
  OBVIOUS
<1> USE DEF AdvanceTime
<1>1. /\ vehicle \in VehicleSamples
      /\ vehicle'.measuredAt = vehicle.measuredAt + 1
      /\ vehicle' \in VehicleSamples
  BY DEF IInv, TypeOK, VehicleSamples
<1>2. TypeOK'
  BY <1>1 DEF IInv, TypeOK, Started, VehicleSamples
<1>3. /\ (NothingBeforeStart /\ StateIsPublished /\ PursuitOwnsIdentity)'
      /\ (PursuitIsAuthorised /\ EffectAtMostOnce /\ EventTellsTheState)'
      /\ (CommandMeansPursuit /\ SuccessIsTold /\ NeverLogicError)'
  BY DEF IInv, NothingBeforeStart, StateIsPublished, PursuitOwnsIdentity,
         PursuitIsAuthorised, CommandMeansPursuit, EffectAtMostOnce, EventTellsTheState,
         SuccessIsTold, NeverLogicError, Started, Running
<1>4. Started => state.reportedAt \in Nat
  BY DEF IInv, TypeOK, DroneStates, Started
<1>5. StateTellsTheVehicle'
  BY <1>1, <1>4 DEF IInv, StateTellsTheVehicle, Started, VehicleSamples
<1> QED
  BY <1>2, <1>3, <1>5 DEF IInv

\* Taking or refusing an assignment preserves the invariant.
LEMMA AssignmentPreserves ==
  ASSUME NEW a \in Assignments, IInv, OnAssignment(a)
  PROVE IInv'
<1>1. CASE AssignmentResult(a) # "applied"
  BY <1>1 DEF OnAssignment, vars, IInv, TypeOK, NothingBeforeStart,
     StateIsPublished, PursuitOwnsIdentity, PursuitIsAuthorised,
     CommandMeansPursuit, EffectAtMostOnce, EventTellsTheState, SuccessIsTold, StateTellsTheVehicle,
     NeverLogicError, Started, Running
<1>2. CASE AssignmentResult(a) = "applied"
  <2>1. /\ Running /\ ReportState(Report(vehicle, "assigned", a.targetId))
        /\ UNCHANGED <<latestTargetTrack, startedCommandId, pendingEventId,
                       vehicle, deliveredCommandIds, eventWriter, effects>>
    BY <1>2 DEF OnAssignment
  <2>2. Started /\ state.assignedTargetId = None
    BY <1>2 DEF AssignmentResult, Tasked
  <2>3. state.status = "available"
    BY <2>2 DEF IInv, TypeOK
  <2>4. vehicle \in VehicleSamples /\ a.targetId \in Targets /\ a.targetId # None
    BY NoneAssumption DEF IInv, TypeOK, VehicleSamples, Assignments
  <2>5. state' \in DroneStates /\ state' # None
    BY <2>1, <2>4, ReportType DEF ReportState, Statuses
  <2>6. /\ state'.status = "assigned" /\ state'.assignedTargetId = a.targetId
        /\ state'.reportedAt = vehicle.measuredAt
        /\ state'.position = vehicle.position
    BY <2>1 DEF ReportState, Report
  <2>7. /\ latestTargetTrack = None /\ startedCommandId = None
        /\ eventWriter = {} /\ effects = 0
    <3>1. latestTargetTrack = None
      BY <2>2, NoneAssumption DEF IInv, TypeOK, PursuitIsAuthorised, TargetTracks
    <3> QED
      BY <3>1, <2>2, <2>3 DEF IInv, CommandMeansPursuit, EventTellsTheState,
         EffectAtMostOnce, Outcomes
  <2>8. TypeOK'
    BY <2>1, <2>4, <2>5, <2>6 DEF IInv, TypeOK, ReportState, Started, Running
  <2>9. (NothingBeforeStart /\ StateIsPublished /\ PursuitOwnsIdentity)'
    BY <2>1, <2>5, <2>6 DEF NothingBeforeStart, StateIsPublished,
       PursuitOwnsIdentity, ReportState, Started, Running
  <2>10. (PursuitIsAuthorised /\ CommandMeansPursuit /\ EffectAtMostOnce)'
    BY <2>1, <2>5, <2>6, <2>7 DEF IInv, PursuitIsAuthorised,
       CommandMeansPursuit, EffectAtMostOnce, Outcomes, Started
  <2>11. (EventTellsTheState /\ SuccessIsTold)'
    BY <2>1, <2>6, <2>7 DEF EventTellsTheState, SuccessIsTold
  <2>12. (StateTellsTheVehicle /\ NeverLogicError)'
    BY <2>1, <2>4, <2>6 DEF StateTellsTheVehicle, NeverLogicError, ReportState,
       Running, VehicleSamples
  <2> QED
    BY <2>8, <2>9, <2>10, <2>11, <2>12 DEF IInv
<1> QED
  BY <1>1, <1>2

\* Accepting or dropping a track preserves the invariant.
LEMMA TrackPreserves ==
  ASSUME NEW track \in TargetTracks, IInv, OnTargetTrack(track)
  PROVE IInv'
<1> USE DEF OnTargetTrack
<1>1. TypeOK'
  BY DEF IInv, TypeOK, Started
<1>2. /\ (StateIsPublished /\ PursuitOwnsIdentity /\ EffectAtMostOnce)'
      /\ (EventTellsTheState /\ SuccessIsTold /\ StateTellsTheVehicle)'
      /\ (CommandMeansPursuit /\ NeverLogicError)'
  BY DEF IInv, StateIsPublished, PursuitOwnsIdentity, CommandMeansPursuit,
         EffectAtMostOnce,
         EventTellsTheState, SuccessIsTold, StateTellsTheVehicle,
         NeverLogicError, Started, Running
<1>3. latestTargetTrack' # latestTargetTrack =>
        Started /\ latestTargetTrack'.targetId = state.assignedTargetId
  BY DEF TrackResult, Tasked
<1>4. (NothingBeforeStart /\ PursuitIsAuthorised)'
  BY <1>3 DEF IInv, NothingBeforeStart, PursuitIsAuthorised, Started, Running
<1> QED
  BY <1>1, <1>2, <1>4 DEF IInv

\* Taking, refusing or ignoring a command preserves the invariant.
LEMMA CommandPreserves ==
  ASSUME NEW c \in InterceptionCommands, IInv, ReceiveCommand(c)
  PROVE IInv'
<1>1. /\ c.commandId \in CommandIds /\ c.commandId # None
      /\ deliveredCommandIds' = deliveredCommandIds \cup {c.commandId}
      /\ UNCHANGED <<latestTargetTrack, vehicle, eventWriter, effects>>
  BY NoneAssumption DEF ReceiveCommand, InterceptionCommands
<1>2. CASE UNCHANGED <<state, startedCommandId, pendingEventId, stateWriter, exit>>
  BY <1>1, <1>2 DEF IInv, TypeOK, NothingBeforeStart, StateIsPublished,
     PursuitOwnsIdentity, PursuitIsAuthorised, CommandMeansPursuit,
     EffectAtMostOnce, EventTellsTheState, SuccessIsTold, StateTellsTheVehicle,
     NeverLogicError, Started, Running
<1>3. CASE /\ StartResult(c) = "started"
           /\ ReportState(Report(vehicle, "intercepting", c.targetId))
           /\ IF exit' = "none"
              THEN startedCommandId' = c.commandId /\ pendingEventId' = c.commandId
              ELSE UNCHANGED <<startedCommandId, pendingEventId>>
  <2>1. /\ Running /\ Started /\ state.status = "assigned"
        /\ state.assignedTargetId = c.targetId
    BY <1>3 DEF ReceiveCommand, StartResult
  <2>2. vehicle \in VehicleSamples /\ c.targetId \in Targets /\ c.targetId # None
    BY NoneAssumption DEF IInv, TypeOK, VehicleSamples, InterceptionCommands
  <2>3. state' \in DroneStates /\ state' # None
    BY <1>3, <2>2, ReportType DEF ReportState, Statuses
  <2>4. /\ state'.status = "intercepting"
        /\ state'.assignedTargetId = state.assignedTargetId
        /\ state'.reportedAt = vehicle.measuredAt
        /\ state'.position = vehicle.position
    BY <1>3, <2>1 DEF ReportState, Report
  <2>5. eventWriter = {} /\ effects = 0
    BY <2>1 DEF IInv, EventTellsTheState, EffectAtMostOnce, Outcomes
  <2>6. TypeOK'
    BY <1>1, <1>3, <2>1, <2>2, <2>3, <2>4
       DEF IInv, TypeOK, ReportState, Started, Running
  <2>7. (NothingBeforeStart /\ StateIsPublished /\ PursuitOwnsIdentity)'
    BY <1>1, <1>3, <2>3, <2>4 DEF NothingBeforeStart, StateIsPublished,
       PursuitOwnsIdentity, ReportState, Started, Running
  <2>8. (PursuitIsAuthorised /\ CommandMeansPursuit)'
    BY <1>1, <1>3, <2>3, <2>4 DEF IInv, PursuitIsAuthorised,
       CommandMeansPursuit, Started, Running
  <2>9. (EffectAtMostOnce /\ EventTellsTheState /\ SuccessIsTold)'
    BY <1>1, <2>4, <2>5 DEF EffectAtMostOnce, EventTellsTheState,
       SuccessIsTold, Outcomes
  <2>10. (StateTellsTheVehicle /\ NeverLogicError)'
    BY <1>1, <1>3, <2>1, <2>2, <2>4 DEF StateTellsTheVehicle, NeverLogicError,
       ReportState, Running, VehicleSamples
  <2> QED
    BY <2>6, <2>7, <2>8, <2>9, <2>10 DEF IInv
<1> QED
  BY <1>2, <1>3 DEF ReceiveCommand, StartInterception

\* One interval of flight that does not reach the target preserves the
\* invariant.
LEMMA MovePreserves ==
  ASSUME IInv, TickMoves
  PROVE IInv'
<1> USE DEF TickMoves
<1>1. TypeOK /\ Pursuing /\ Started /\ state.status = "intercepting"
  BY DEF IInv, Pursuing
<1>2. /\ Flown \in VehicleSamples
      /\ Flown.measuredAt = vehicle.measuredAt + 1
      /\ state.assignedTargetId \in Targets
  BY <1>1, FlownType
<1>3. state' \in DroneStates /\ state' # None
  BY <1>2, ReportType DEF ReportState, Statuses
<1>4. /\ state'.status = "intercepting"
      /\ state'.assignedTargetId = state.assignedTargetId
      /\ state'.reportedAt = Flown.measuredAt
      /\ state'.position = Flown.position
  BY DEF ReportState, Report
<1>5. eventWriter = {} /\ effects = 0
  BY <1>1 DEF IInv, EventTellsTheState, EffectAtMostOnce, Outcomes
<1>6. TypeOK'
  <2>1. state'.assignedTargetId # None
    BY <1>2, <1>4, NoneAssumption
  <2> QED
    BY <1>1, <1>2, <1>3, <1>4, <2>1
       DEF TypeOK, VehicleSamples, ReportState, Started, Running
<1>7. (NothingBeforeStart /\ StateIsPublished /\ PursuitOwnsIdentity)'
  BY <1>1, <1>3, <1>4 DEF IInv, NothingBeforeStart, StateIsPublished,
     PursuitOwnsIdentity, ReportState, Started, Running
<1>8. (PursuitIsAuthorised /\ CommandMeansPursuit)'
  BY <1>1, <1>3, <1>4 DEF IInv, PursuitIsAuthorised, CommandMeansPursuit,
     PursuitOwnsIdentity, Started, Running
<1>9. (EffectAtMostOnce /\ EventTellsTheState /\ SuccessIsTold)'
  BY <1>4, <1>5 DEF EffectAtMostOnce, EventTellsTheState, SuccessIsTold,
     Outcomes
<1>10. (StateTellsTheVehicle /\ NeverLogicError)'
  BY <1>2, <1>4 DEF StateTellsTheVehicle, NeverLogicError, ReportState, Running,
     VehicleSamples
<1> QED
  BY <1>6, <1>7, <1>8, <1>9, <1>10 DEF IInv

\* Reaching the target, with either answer of the effect port and with or
\* without a failing write, preserves the invariant.
LEMMA ArrivePreserves ==
  ASSUME NEW result \in EffectResults, IInv, TickArrives(result)
  PROVE IInv'
<1> DEFINE outcome == IF result = "succeeded" THEN "interceptionSucceeded"
                                              ELSE "interceptionFailed"
<1>1. TypeOK /\ Pursuing /\ Started /\ state.status = "intercepting" /\ Running
  BY DEF IInv, Pursuing, TickArrives
<1>2. /\ Flown \in VehicleSamples
      /\ state \in DroneStates
      /\ state.assignedTargetId \in Targets
      /\ latestTargetTrack \in TargetTracks
  BY <1>1, FlownType
<1>3. outcome \in Outcomes /\ outcome \in Statuses
  BY DEF Outcomes, Statuses
<1>4. /\ vehicle' = Flown /\ effects' = effects + 1
      /\ state' = Report(Flown, outcome, state.assignedTargetId)
      /\ UNCHANGED <<latestTargetTrack, startedCommandId, deliveredCommandIds>>
  BY DEF TickArrives
<1>5. state' \in DroneStates /\ state' # None
  BY <1>2, <1>3, <1>4, ReportType
<1>6. /\ state'.status = outcome /\ state'.droneId = droneId
      /\ state'.assignedTargetId = state.assignedTargetId
      /\ state'.position = Flown.position
      /\ state'.reportedAt = Flown.measuredAt
  BY <1>4 DEF Report
<1>7. /\ eventWriter = {} /\ effects = 0
      /\ startedCommandId # None /\ pendingEventId = startedCommandId
      /\ startedCommandId \in CommandIds
      /\ latestTargetTrack.targetId = state.assignedTargetId
  <2>1. eventWriter = {} /\ effects = 0
    BY <1>1 DEF IInv, EventTellsTheState, EffectAtMostOnce, Outcomes
  <2>2. startedCommandId # None /\ pendingEventId = startedCommandId
    BY <1>1 DEF IInv, PursuitOwnsIdentity
  <2>3. startedCommandId \in CommandIds
    BY <2>2 DEF IInv, TypeOK
  <2>4. latestTargetTrack.targetId = state.assignedTargetId
    BY <1>1 DEF IInv, PursuitIsAuthorised, Pursuing
  <2> QED
    BY <2>1, <2>2, <2>3, <2>4
\* The three ways a tick that arrives may end.
<1> DEFINE event == [eventId |-> pendingEventId, droneId |-> droneId,
                     targetId |-> latestTargetTrack.targetId,
                     position |-> Flown.position,
                     occurredAt |-> Flown.measuredAt]
           told == /\ stateWriter' = state' /\ result = "succeeded"
                   /\ eventWriter' = {event}
                   /\ pendingEventId' = None /\ exit' = exit
           failed == /\ stateWriter' = state' /\ result # "succeeded"
                     /\ UNCHANGED <<eventWriter, pendingEventId, exit>>
           broken == /\ stateWriter' \in {stateWriter, state'}
                     /\ exit' = "writeFailed"
                     /\ UNCHANGED <<eventWriter, pendingEventId>>
<1>8. told \/ failed \/ broken
  BY <1>7 DEF TickArrives, PublishEvent
<1>9. /\ event \in ExplosionEvents
      /\ event.eventId = startedCommandId /\ event.droneId = state'.droneId
      /\ event.targetId = state'.assignedTargetId
      /\ event.position = state'.position
      /\ event.occurredAt = state'.reportedAt
  BY <1>2, <1>6, <1>7, IdentityAssumption
     DEF ExplosionEvents, VehicleSamples
<1> HIDE DEF event
<1>10. TypeOK'
  <2>1. eventWriter' \subseteq ExplosionEvents
    BY <1>7, <1>8, <1>9
  <2>2. /\ stateWriter' \in DroneStates \cup {None}
        /\ pendingEventId' \in CommandIds \cup {None}
        /\ exit' \in {"none", "writeFailed", "logicError"}
    BY <1>1, <1>5, <1>8 DEF TypeOK
  <2>3. vehicle' \in [position : Int, measuredAt : Nat] /\ effects' \in Nat
    BY <1>2, <1>4, <1>7 DEF VehicleSamples
  <2>4. state'.assignedTargetId # None /\ state'.status # "available"
    BY <1>2, <1>3, <1>6, NoneAssumption DEF Outcomes
  <2> QED
    BY <1>1, <1>4, <1>5, <2>1, <2>2, <2>3, <2>4 DEF TypeOK, Started
<1>11. (NothingBeforeStart /\ StateIsPublished /\ PursuitOwnsIdentity)'
  BY <1>3, <1>5, <1>6, <1>8 DEF NothingBeforeStart, StateIsPublished,
     PursuitOwnsIdentity, Outcomes, Started, Running
<1>12. (PursuitIsAuthorised /\ CommandMeansPursuit)'
  BY <1>3, <1>4, <1>5, <1>6, <1>7 DEF IInv, PursuitIsAuthorised,
     CommandMeansPursuit, Started, Running
<1>13. EffectAtMostOnce'
  BY <1>3, <1>4, <1>5, <1>6, <1>7 DEF EffectAtMostOnce, Started
<1>14. EventTellsTheState'
  BY <1>4, <1>6, <1>7, <1>8, <1>9 DEF EventTellsTheState
<1>15. SuccessIsTold'
  BY <1>6, <1>8 DEF SuccessIsTold, Running
<1>16. (StateTellsTheVehicle /\ NeverLogicError)'
  BY <1>1, <1>2, <1>4, <1>6, <1>8
     DEF StateTellsTheVehicle, NeverLogicError, Running, VehicleSamples
<1> QED
  BY <1>10, <1>11, <1>12, <1>13, <1>14, <1>15, <1>16 DEF IInv

\* Every step, stuttering included, preserves the invariant.
LEMMA NextPreserves == IInv /\ [Next]_vars => IInv'
<1> SUFFICES ASSUME IInv, [Next]_vars PROVE IInv'
  OBVIOUS
<1>1. CASE Start
  BY <1>1, StartPreserves
<1>2. CASE AdvanceTime
  BY <1>2, AdvanceTimePreserves
<1>3. CASE \E a \in Assignments : OnAssignment(a)
  BY <1>3, AssignmentPreserves
<1>4. CASE \E t \in Targets, p \in Positions, m \in 0..MaxTime :
             OnTargetTrack([targetId |-> t, position |-> p, measuredAt |-> m])
  <2>1. PICK t \in Targets, p \in Positions, m \in 0..MaxTime :
          OnTargetTrack([targetId |-> t, position |-> p, measuredAt |-> m])
    BY <1>4
  <2>2. [targetId |-> t, position |-> p, measuredAt |-> m] \in TargetTracks
    BY BoundAssumption DEF TargetTracks
  <2> QED
    BY <2>1, <2>2, TrackPreserves
<1>5. CASE \E c \in InterceptionCommands : ReceiveCommand(c)
  BY <1>5, CommandPreserves
<1>6. CASE TickMoves
  BY <1>6, MovePreserves
<1>7. CASE \E result \in EffectResults : TickArrives(result)
  BY <1>7, ArrivePreserves
<1>8. CASE UNCHANGED vars
  BY <1>8 DEF vars, IInv, TypeOK, NothingBeforeStart, StateIsPublished,
     PursuitOwnsIdentity, PursuitIsAuthorised, CommandMeansPursuit,
     EffectAtMostOnce, EventTellsTheState, SuccessIsTold, StateTellsTheVehicle,
     NeverLogicError, Started, Running
<1>9. TickIdle => UNCHANGED vars
  BY DEF TickIdle
<1> QED
  BY <1>1, <1>2, <1>3, <1>4, <1>5, <1>6, <1>7, <1>8, <1>9 DEF Next, Tick

-----------------------------------------------------------------------------
(* The theorems.                                                           *)

\* The invariant holds in every reachable state.
THEOREM Invariance == Spec => []IInv
<1> QED
  BY InitIInv, NextPreserves, PTL DEF Spec

\* Every variable keeps its type, and a drone state names a target exactly
\* when it is not available.
THEOREM TypeCorrect == Spec => []TypeOK
<1>1. IInv => TypeOK
  BY DEF IInv
<1> QED
  BY <1>1, Invariance, PTL

\* Whatever the inputs, the effect is triggered at most once in a process
\* life, and exactly when the machine took a final status.
THEOREM EffectTriggeredOnce == Spec => []EffectAtMostOnce
<1>1. IInv => EffectAtMostOnce
  BY DEF IInv
<1> QED
  BY <1>1, Invariance, PTL

\* The throw of logic_error in tick() is dead code.
THEOREM LogicErrorUnreachable == Spec => []NeverLogicError
<1>1. IInv => NeverLogicError
  BY DEF IInv
<1> QED
  BY <1>1, Invariance, PTL

\* An explosion event is never visible without the succeeded state, and
\* agrees with it and with the started command in every field.
THEOREM EventsAreTruthful == Spec => []EventTellsTheState
<1>1. IInv => EventTellsTheState
  BY DEF IInv
<1> QED
  BY <1>1, Invariance, PTL

\* A running process has published one event if it reports success, and none
\* otherwise.
THEOREM SuccessHasOneEvent == Spec => []OneEventPerSuccess
<1>1. IInv => OneEventPerSuccess
  <2> SUFFICES ASSUME IInv, Running PROVE
        IF Started /\ state.status = "interceptionSucceeded"
        THEN Cardinality(eventWriter) = 1 /\ pendingEventId = None
        ELSE eventWriter = {}
    BY DEF OneEventPerSuccess
  <2>1. CASE Started /\ state.status = "interceptionSucceeded"
    <3>1. (\E e \in eventWriter : eventWriter = {e}) /\ pendingEventId = None
      BY <2>1 DEF IInv, SuccessIsTold
    <3> QED
      BY <2>1, <3>1, FS_Singleton
  <2>2. CASE ~(Started /\ state.status = "interceptionSucceeded")
    BY <2>2 DEF IInv, EventTellsTheState, NothingBeforeStart
  <2> QED
    BY <2>1, <2>2
<1> QED
  BY <1>1, Invariance, PTL

\* The machine chases only the target it was assigned and pursues only for a
\* command that reached its subscriber.
THEOREM PursuitsAreAuthorised == Spec => []PursuitIsAuthorised
<1>1. IInv => PursuitIsAuthorised
  BY DEF IInv
<1> QED
  BY <1>1, Invariance, PTL

\* As long as the process runs, its newest published state is its state.
THEOREM StatesArePublished == Spec => []StateIsPublished
<1>1. IInv => StateIsPublished
  BY DEF IInv
<1> QED
  BY <1>1, Invariance, PTL

\* A machine that has accepted a command never accepts another.
THEOREM OnePursuitPerLife == Spec => CommandStartsOnce
<1>1. IInv /\ [Next]_vars =>
        [startedCommandId # None => startedCommandId' = startedCommandId]_vars
  <2> SUFFICES ASSUME IInv, Next, startedCommandId # None
               PROVE  startedCommandId' = startedCommandId
    BY DEF vars
  <2>1. Started /\ state.status # "assigned"
    BY DEF IInv, CommandMeansPursuit, Outcomes
  <2>2. ASSUME NEW c \in InterceptionCommands, ReceiveCommand(c)
        PROVE startedCommandId' = startedCommandId
    BY <2>1, <2>2 DEF ReceiveCommand, StartInterception, StartResult
  <2> QED
    BY <2>2 DEF Next, Start, AdvanceTime, OnAssignment, OnTargetTrack, Tick,
       TickIdle, TickMoves, TickArrives, vars
<1> QED
  BY <1>1, Invariance, PTL DEF Spec, CommandStartsOnce

\* A track replaces the one being chased only when it is strictly newer.
THEOREM TracksOnlyAdvance == Spec => TrackOnlyNewer
<1>1. IInv /\ [Next]_vars =>
        [latestTargetTrack' # latestTargetTrack =>
           /\ latestTargetTrack' # None
           /\ latestTargetTrack # None =>
                latestTargetTrack'.measuredAt > latestTargetTrack.measuredAt]_vars
  <2> SUFFICES ASSUME IInv, Next, latestTargetTrack' # latestTargetTrack
               PROVE  /\ latestTargetTrack' # None
                      /\ latestTargetTrack # None =>
                           latestTargetTrack'.measuredAt > latestTargetTrack.measuredAt
    BY DEF vars
  <2>1. PICK t \in Targets, p \in Positions, m \in 0..MaxTime :
          OnTargetTrack([targetId |-> t, position |-> p, measuredAt |-> m])
    BY DEF Next, Start, AdvanceTime, OnAssignment, ReceiveCommand, Tick,
       TickIdle, TickMoves, TickArrives, vars
  <2> DEFINE track == [targetId |-> t, position |-> p, measuredAt |-> m]
  <2>2. latestTargetTrack' = track /\ TrackResult(track) \in {"accepted", "updated"}
    BY <2>1 DEF OnTargetTrack
  <2>3. track \in TargetTracks /\ track # None
    BY BoundAssumption, NoneAssumption DEF TargetTracks
  <2>4. ASSUME latestTargetTrack # None
        PROVE  track.measuredAt > latestTargetTrack.measuredAt
    <3>1. latestTargetTrack.measuredAt \in Nat /\ track.measuredAt \in Nat
      BY <2>3, <2>4 DEF IInv, TypeOK, TargetTracks
    <3>2. TrackResult(track) = "updated"
      BY <2>2, <2>4 DEF TrackResult
    <3> HIDE DEF track
    <3>3. /\ ~(track.measuredAt < latestTargetTrack.measuredAt)
          /\ track.measuredAt # latestTargetTrack.measuredAt
      BY <3>2, <2>4 DEF TrackResult
    <3> QED
      BY <3>1, <3>3
  <2> QED
    BY <2>2, <2>3, <2>4
<1> QED
  BY <1>1, Invariance, PTL DEF Spec, TrackOnlyNewer
\* A new report that follows the one before it: the next stage, or one more
\* movement, never an earlier time or another target.
LEMMA NextReport ==
  ASSUME IInv, NEW sample \in VehicleSamples, sample.measuredAt >= vehicle.measuredAt,
         NEW status \in Statuses, NEW t \in Targets \cup {None},
         state' = Report(sample, status, t),
         \/ ~Started /\ status = "available"
         \/ /\ Started /\ state.status = "available" /\ status = "assigned"
            /\ ~Tasked
         \/ /\ Started /\ state.status = "assigned" /\ status = "intercepting"
            /\ t = state.assignedTargetId
         \/ /\ Started /\ state.status = "intercepting"
            /\ status \in {"intercepting"} \cup Outcomes
            /\ t = state.assignedTargetId
  PROVE  /\ state' # None
         /\ Rank(state') - Rank(state) \in {0, 1}
         /\ Rank(state') = Rank(state) => Rank(state) = 3
         /\ state # None => state'.reportedAt >= state.reportedAt
         /\ Tasked => state'.assignedTargetId = state.assignedTargetId
<1>1. /\ state' # None /\ state'.status = status /\ state'.assignedTargetId = t
      /\ state'.reportedAt = sample.measuredAt
  BY ReportType DEF Report
<1>2. state # None => state'.reportedAt >= state.reportedAt
  <2> SUFFICES ASSUME Started PROVE state'.reportedAt >= state.reportedAt
    BY DEF Started
  <2>1. /\ state.reportedAt \in Nat /\ vehicle.measuredAt \in Nat
        /\ sample.measuredAt \in Nat
    BY DEF IInv, TypeOK, DroneStates, VehicleSamples, Started
  <2>2. state.reportedAt <= vehicle.measuredAt
    BY DEF IInv, StateTellsTheVehicle
  <2> QED
    BY <1>1, <2>1, <2>2
<1>3. CASE ~Started /\ status = "available"
  <2>1. Rank(state') = 1 /\ Rank(state) = 0
    BY <1>1, <1>3 DEF Rank, Started, Outcomes
  <2> QED
    BY <1>1, <1>2, <1>3, <2>1 DEF Tasked
<1>4. CASE Started /\ state.status = "available" /\ status = "assigned" /\ ~Tasked
  <2>1. Rank(state') = 2 /\ Rank(state) = 1
    BY <1>1, <1>4 DEF Rank, Started, Outcomes
  <2> QED
    BY <1>1, <1>2, <1>4, <2>1
<1>5. CASE /\ Started /\ state.status = "assigned" /\ status = "intercepting"
           /\ t = state.assignedTargetId
  <2>1. Rank(state') = 3 /\ Rank(state) = 2
    BY <1>1, <1>5 DEF Rank, Started, Outcomes
  <2> QED
    BY <1>1, <1>2, <1>5, <2>1
<1>6. CASE /\ Started /\ state.status = "intercepting"
           /\ status \in {"intercepting"} \cup Outcomes
           /\ t = state.assignedTargetId
  <2>1. Rank(state') \in {3, 4} /\ Rank(state) = 3
    BY <1>1, <1>6 DEF Rank, Started, Outcomes
  <2> QED
    BY <1>1, <1>2, <1>6, <2>1
<1> QED
  BY <1>3, <1>4, <1>5, <1>6

\* Whatever a machine reports anew follows what it reported before.
LEMMA StepAdvances ==
  ASSUME IInv, Next, state' # state
  PROVE  /\ state' # None
         /\ Rank(state') - Rank(state) \in {0, 1}
         /\ Rank(state') = Rank(state) => Rank(state) = 3
         /\ state # None => state'.reportedAt >= state.reportedAt
         /\ Tasked => state'.assignedTargetId = state.assignedTargetId
<1> DEFINE Advance ==
        /\ state' # None
        /\ Rank(state') - Rank(state) \in {0, 1}
        /\ Rank(state') = Rank(state) => Rank(state) = 3
        /\ state # None => state'.reportedAt >= state.reportedAt
        /\ Tasked => state'.assignedTargetId = state.assignedTargetId
<1>1. vehicle \in VehicleSamples /\ vehicle.measuredAt >= vehicle.measuredAt
  BY DEF IInv, TypeOK, VehicleSamples
<1>2. CASE Start
  BY <1>1, <1>2, NextReport DEF Start, ReportState, Statuses
<1>3. ASSUME NEW a \in Assignments, OnAssignment(a)
      PROVE  Advance
  <2>1. /\ state' = Report(vehicle, "assigned", a.targetId) /\ a.targetId \in Targets
        /\ Started /\ ~Tasked
    BY <1>3 DEF OnAssignment, AssignmentResult, ReportState, Assignments, vars
  <2>2. state.status = "available"
    BY <2>1 DEF Tasked, IInv, TypeOK
  <2> QED
    BY <1>1, <2>1, <2>2, NextReport DEF Statuses
<1>4. ASSUME NEW c \in InterceptionCommands, ReceiveCommand(c)
      PROVE  Advance
  <2>1. /\ state' = Report(vehicle, "intercepting", c.targetId)
        /\ StartResult(c) = "started" /\ c.targetId \in Targets
    BY <1>4 DEF ReceiveCommand, StartInterception, ReportState, InterceptionCommands
  <2>2. Started /\ state.status = "assigned" /\ c.targetId = state.assignedTargetId
    BY <2>1 DEF StartResult
  <2> QED
    BY <1>1, <2>1, <2>2, NextReport DEF Statuses
<1>5. ASSUME Pursuing, NEW status \in {"intercepting"} \cup Outcomes,
             state' = Report(Flown, status, state.assignedTargetId)
      PROVE  Advance
  <2>1. /\ Flown \in VehicleSamples /\ Flown.measuredAt = vehicle.measuredAt + 1
        /\ state.assignedTargetId \in Targets
    BY <1>5, FlownType DEF IInv
  <2>2. vehicle.measuredAt \in Nat /\ Flown.measuredAt >= vehicle.measuredAt
    BY <2>1 DEF IInv, TypeOK
  <2>3. Started /\ state.status = "intercepting" /\ status \in Statuses
    BY <1>5 DEF Pursuing, Statuses, Outcomes
  <2> QED
    BY <1>5, <2>1, <2>2, <2>3, NextReport
<1>6. CASE TickMoves
  BY <1>5, <1>6 DEF TickMoves, ReportState
<1>7. ASSUME NEW result \in EffectResults, TickArrives(result)
      PROVE  Advance
  BY <1>5, <1>7 DEF TickArrives, Outcomes
<1>8. \/ Start \/ TickMoves
      \/ \E a \in Assignments : OnAssignment(a)
      \/ \E c \in InterceptionCommands : ReceiveCommand(c)
      \/ \E result \in EffectResults : TickArrives(result)
  BY DEF Next, AdvanceTime, OnTargetTrack, Tick, TickIdle, vars
<1> QED
  BY <1>2, <1>3, <1>4, <1>6, <1>7, <1>8

\* The reports of a machine only advance, by one stage at a time, with the
\* target they began with and times that never go back.
THEOREM ReportsOnlyAdvance == Spec => ReportsAdvance
<1>1. IInv /\ [Next]_vars =>
        [state' # state =>
           /\ state' # None
           /\ Rank(state') - Rank(state) \in {0, 1}
           /\ Rank(state') = Rank(state) => Rank(state) = 3
           /\ state # None => state'.reportedAt >= state.reportedAt
           /\ Tasked => state'.assignedTargetId = state.assignedTargetId]_vars
  BY StepAdvances DEF vars
<1> QED
  BY <1>1, Invariance, PTL DEF Spec, ReportsAdvance

\* A final status is reported later than whatever was reported before it.
LEMMA OutcomeIsLater ==
  ASSUME IInv, Next, state' # state, state'.status \in Outcomes
  PROVE  Started /\ state.reportedAt < state'.reportedAt
<1>1. PICK result \in EffectResults : TickArrives(result)
  <2>1. ASSUME NEW sample, NEW t, NEW status \in {"available", "assigned", "intercepting"}
        PROVE  ~ReportState(Report(sample, status, t))
    BY <2>1 DEF ReportState, Report, Outcomes
  <2> QED
    BY <2>1 DEF Next, Start, AdvanceTime, OnAssignment, OnTargetTrack,
       ReceiveCommand, StartInterception, Tick, TickIdle, TickMoves, vars
<1>2. Pursuing /\ state' = Report(Flown, state'.status, state.assignedTargetId)
  BY <1>1 DEF TickArrives, Report
<1>3. /\ Flown.measuredAt = vehicle.measuredAt + 1
      /\ state.reportedAt \in Nat /\ vehicle.measuredAt \in Nat
      /\ state.reportedAt <= vehicle.measuredAt
  BY <1>2, FlownType DEF IInv, TypeOK, DroneStates, StateTellsTheVehicle, Pursuing
<1>4. state'.reportedAt = Flown.measuredAt
  BY <1>2 DEF Report
<1> QED
  BY <1>2, <1>3, <1>4 DEF Pursuing

\* A process whose writes do not fail runs for ever.
LEMMA ExitsOnFailureOnly ==
  ASSUME IInv, [Next]_vars, Running, ~WritesMayFail
  PROVE  Running'
<1>1. exit' # "logicError"
  BY NextPreserves DEF IInv, NeverLogicError
<1> QED
  BY <1>1 DEF Running, Next, Start, AdvanceTime, OnAssignment, OnTargetTrack,
     ReceiveCommand, StartInterception, ReportState, Tick, TickIdle, TickMoves,
     TickArrives, PublishEvent, vars

-----------------------------------------------------------------------------
(* The process implements ReportedPursuit: each of its steps is a step of  *)
(* the promise made to the readers of its two writers, or leaves both      *)
(* writers alone.                                                          *)

\* What publishing one report shows to readers: the new state, or nothing.
LEMMA ReportShowsOrHides ==
  ASSUME NEW s, ReportState(s)
  PROVE stateWriter' \in {s, stateWriter}
BY DEF ReportState

\* A report that names a status and a target is a sample of the promise.
LEMMA ReportIsSample ==
  ASSUME NEW sample \in VehicleSamples, NEW status, NEW t
  PROVE Report(sample, status, t) \in Promise!Sample(status, t)
BY DEF Report, VehicleSamples, Promise!Sample

\* Announcing the drone is Announce, or unseen when the write fails.
LEMMA StartPromised ==
  ASSUME IInv, Start
  PROVE [Promise!Next]_(Promise!pvars)
<1>1. stateWriter = None /\ eventWriter' = eventWriter
  BY DEF IInv, NothingBeforeStart, Start
<1>2. vehicle \in VehicleSamples
  BY DEF IInv, TypeOK, VehicleSamples
<1>3. stateWriter' \in {Report(vehicle, "available", None), stateWriter}
  BY ReportShowsOrHides DEF Start
<1>4. Report(vehicle, "available", None) \in Promise!Sample("available", None)
  BY <1>2, ReportIsSample
<1> QED
  BY <1>1, <1>3, <1>4 DEF Promise!Next, Promise!Announce, Promise!pvars

\* Accepting an assignment is Assign.
LEMMA AssignmentPromised ==
  ASSUME NEW a \in Assignments, IInv, OnAssignment(a)
  PROVE [Promise!Next]_(Promise!pvars)
<1>1. CASE AssignmentResult(a) # "applied"
  BY <1>1 DEF OnAssignment, vars, Promise!pvars
<1>2. CASE AssignmentResult(a) = "applied"
  <2> DEFINE s == Report(vehicle, "assigned", a.targetId)
  <2>1. Running /\ ReportState(s) /\ eventWriter' = eventWriter
    BY <1>2 DEF OnAssignment
  <2>2. Started /\ state.assignedTargetId = None
    BY <1>2 DEF AssignmentResult, Tasked
  <2>3. /\ stateWriter = state /\ state # None /\ state.status = "available"
        /\ state.position = vehicle.position
        /\ state.reportedAt <= vehicle.measuredAt
    BY <2>1, <2>2 DEF IInv, TypeOK, StateIsPublished, StateTellsTheVehicle,
       Started
  <2>4. vehicle \in VehicleSamples /\ a.targetId \in Targets
    BY DEF IInv, TypeOK, VehicleSamples, Assignments
  <2>5. /\ s \in Promise!Sample("assigned", a.targetId)
        /\ s.reportedAt >= stateWriter.reportedAt
        /\ s.position = stateWriter.position
    <3>1. state.reportedAt \in Nat
      BY <2>2 DEF IInv, TypeOK, DroneStates, Started
    <3>2. s.reportedAt = vehicle.measuredAt /\ s.position = vehicle.position
      BY DEF Report
    <3> QED
      BY <2>3, <2>4, <3>1, <3>2, ReportIsSample DEF VehicleSamples
  <2>6. stateWriter' \in {s, stateWriter}
    BY <2>1, ReportShowsOrHides
  <2> HIDE DEF s
  <2> QED
    BY <2>1, <2>3, <2>4, <2>5, <2>6
       DEF Promise!Next, Promise!Assign, Promise!pvars
<1> QED
  BY <1>1, <1>2

\* Starting a pursuit is Engage; any other command is unseen.
LEMMA CommandPromised ==
  ASSUME NEW c \in InterceptionCommands, IInv, ReceiveCommand(c)
  PROVE [Promise!Next]_(Promise!pvars)
<1> DEFINE s == Report(vehicle, "intercepting", c.targetId)
<1>1. eventWriter' = eventWriter
  BY DEF ReceiveCommand
<1>2. CASE stateWriter' = stateWriter
  BY <1>1, <1>2 DEF Promise!pvars
<1>3. CASE StartResult(c) = "started" /\ ReportState(s)
  <2>1. /\ Running /\ Started /\ state.status = "assigned"
        /\ state.assignedTargetId = c.targetId
    BY <1>3 DEF ReceiveCommand, StartResult
  <2>2. /\ stateWriter = state /\ state # None
        /\ state.position = vehicle.position
        /\ state.reportedAt <= vehicle.measuredAt
    BY <2>1 DEF IInv, StateIsPublished, StateTellsTheVehicle, Started
  <2>3. /\ s \in Promise!Sample("intercepting", stateWriter.assignedTargetId)
        /\ s.reportedAt >= stateWriter.reportedAt
        /\ s.position = stateWriter.position
    <3>1. vehicle \in VehicleSamples
      BY DEF IInv, TypeOK, VehicleSamples
    <3>2. state.reportedAt \in Nat
      BY <2>1 DEF IInv, TypeOK, DroneStates, Started
    <3>3. s.reportedAt = vehicle.measuredAt /\ s.position = vehicle.position
      BY DEF Report
    <3> QED
      BY <2>1, <2>2, <3>1, <3>2, <3>3, ReportIsSample DEF VehicleSamples
  <2>4. stateWriter' \in {s, stateWriter}
    BY <1>3, ReportShowsOrHides
  <2> HIDE DEF s
  <2> QED
    BY <1>1, <2>1, <2>2, <2>3, <2>4
       DEF Promise!Next, Promise!Engage, Promise!pvars
<1> QED
  BY <1>2, <1>3 DEF ReceiveCommand, StartInterception

\* What a pursuit reports after one interval is a strictly newer sample for
\* the same target.
LEMMA FlightIsNewer ==
  ASSUME IInv, Running, Pursuing, NEW status
  PROVE LET s == Report(Flown, status, state.assignedTargetId)
        IN /\ s \in Promise!Sample(status, stateWriter.assignedTargetId)
           /\ s.reportedAt > stateWriter.reportedAt
           /\ stateWriter # None /\ stateWriter.status = "intercepting"
<1>1. /\ Flown \in VehicleSamples
      /\ Flown.measuredAt = vehicle.measuredAt + 1
      /\ state \in DroneStates
  BY FlownType DEF IInv
<1>2. /\ stateWriter = state /\ state # None /\ state.status = "intercepting"
      /\ state.reportedAt <= vehicle.measuredAt
  BY DEF IInv, StateIsPublished, StateTellsTheVehicle, Pursuing, Started
<1>3. state.reportedAt \in Nat /\ vehicle.measuredAt \in Nat
  BY <1>1 DEF IInv, TypeOK, DroneStates
<1>4. /\ Report(Flown, status, state.assignedTargetId).reportedAt
           = Flown.measuredAt
      /\ Report(Flown, status, state.assignedTargetId)
           \in Promise!Sample(status, state.assignedTargetId)
  BY <1>1, ReportIsSample DEF Report
<1> QED
  BY <1>1, <1>2, <1>3, <1>4

\* An interval short of the target is Pursue.
LEMMA MovePromised ==
  ASSUME IInv, TickMoves
  PROVE [Promise!Next]_(Promise!pvars)
<1> DEFINE s == Report(Flown, "intercepting", state.assignedTargetId)
<1>1. Running /\ Pursuing /\ eventWriter' = eventWriter
  BY DEF TickMoves
<1>2. stateWriter' \in {s, stateWriter}
  BY ReportShowsOrHides DEF TickMoves
<1>3. /\ s \in Promise!Sample("intercepting", stateWriter.assignedTargetId)
      /\ s.reportedAt > stateWriter.reportedAt
      /\ stateWriter # None /\ stateWriter.status = "intercepting"
  BY <1>1, FlightIsNewer
<1> HIDE DEF s
<1> QED
  BY <1>1, <1>2, <1>3
     DEF Promise!Next, Promise!Pursue, Promise!Fly, Promise!pvars

\* The arrival is Fail or Succeed, with or without the event, or unseen when
\* the state could not be written.
LEMMA ArrivePromised ==
  ASSUME NEW result \in EffectResults, IInv, TickArrives(result)
  PROVE [Promise!Next]_(Promise!pvars)
<1> DEFINE outcome == IF result = "succeeded" THEN "interceptionSucceeded"
                                              ELSE "interceptionFailed"
           s == Report(Flown, outcome, state.assignedTargetId)
           event == [eventId |-> pendingEventId, droneId |-> droneId,
                     targetId |-> latestTargetTrack.targetId,
                     position |-> Flown.position,
                     occurredAt |-> Flown.measuredAt]
<1>1. Running /\ Pursuing
  BY DEF TickArrives
<1>2. /\ s \in Promise!Sample(outcome, stateWriter.assignedTargetId)
      /\ s.reportedAt > stateWriter.reportedAt
      /\ stateWriter # None /\ stateWriter.status = "intercepting"
  BY <1>1, FlightIsNewer
<1>3. \/ UNCHANGED <<stateWriter, eventWriter>>
      \/ stateWriter' = s /\ eventWriter' = eventWriter
      \/ /\ stateWriter' = s /\ result = "succeeded" /\ pendingEventId # None
         /\ eventWriter' = eventWriter \cup {event}
  BY DEF TickArrives, PublishEvent
<1>4. pendingEventId # None => pendingEventId \in CommandIds
  BY DEF IInv, TypeOK
<1>5. /\ event.targetId = s.assignedTargetId /\ event.position = s.position
      /\ event.occurredAt = s.reportedAt /\ event.eventId = pendingEventId
      /\ event = [eventId |-> pendingEventId, droneId |-> droneId,
                  targetId |-> s.assignedTargetId, position |-> s.position,
                  occurredAt |-> s.reportedAt]
  <2>1. latestTargetTrack.targetId = state.assignedTargetId
    BY <1>1 DEF IInv, PursuitIsAuthorised, Pursuing
  <2> QED
    BY <2>1 DEF Report
<1> HIDE DEF s, event
<1>6. CASE UNCHANGED <<stateWriter, eventWriter>>
  BY <1>6 DEF Promise!pvars
<1>7. CASE stateWriter' = s /\ eventWriter' = eventWriter
  <2>1. Promise!Fail \/ Promise!Succeed
    BY <1>2, <1>7 DEF Promise!Fail, Promise!Succeed, Promise!Fly
  <2> QED
    BY <2>1 DEF Promise!Next
<1>8. CASE /\ stateWriter' = s /\ result = "succeeded" /\ pendingEventId # None
           /\ eventWriter' = eventWriter \cup {event}
  <2>1. Promise!Succeed
    BY <1>2, <1>4, <1>5, <1>8 DEF Promise!Succeed, Promise!Fly
  <2> QED
    BY <2>1 DEF Promise!Next
<1> QED
  BY <1>3, <1>6, <1>7, <1>8

\* Readers of drone.drone_states and drone.explosion_events see exactly what
\* ReportedPursuit promises, whatever arrives and whichever write fails.
THEOREM InterceptorKeepsPromise == Spec => KeepsPromise
<1>1. Init => Promise!Init
  BY DEF Init, Promise!Init
<1>2. IInv /\ [Next]_vars => [Promise!Next]_(Promise!pvars)
  <2> SUFFICES ASSUME IInv, [Next]_vars
               PROVE  [Promise!Next]_(Promise!pvars)
    OBVIOUS
  <2>1. ASSUME UNCHANGED <<stateWriter, eventWriter>>
        PROVE  [Promise!Next]_(Promise!pvars)
    BY <2>1 DEF Promise!pvars
  <2>2. CASE Start
    BY <2>2, StartPromised
  <2>3. CASE \E a \in Assignments : OnAssignment(a)
    BY <2>3, AssignmentPromised
  <2>4. CASE \E c \in InterceptionCommands : ReceiveCommand(c)
    BY <2>4, CommandPromised
  <2>5. CASE TickMoves
    BY <2>5, MovePromised
  <2>6. CASE \E result \in EffectResults : TickArrives(result)
    BY <2>6, ArrivePromised
  <2>7. AdvanceTime \/ TickIdle \/ UNCHANGED vars
          => UNCHANGED <<stateWriter, eventWriter>>
    BY DEF AdvanceTime, TickIdle, vars
  <2>8. ASSUME NEW track, OnTargetTrack(track)
        PROVE  UNCHANGED <<stateWriter, eventWriter>>
    BY <2>8 DEF OnTargetTrack
  <2> QED
    BY <2>1, <2>2, <2>3, <2>4, <2>5, <2>6, <2>7, <2>8 DEF Next, Tick
<1> QED
  BY <1>1, <1>2, Invariance, PTL DEF Spec, KeepsPromise, Promise!Spec
=============================================================================
