----------------------------- MODULE Interceptor -----------------------------
(***************************************************************************)
(* One interceptor process without its control loop: the state machine of  *)
(* interceptor_core, the simulated vehicle it flies, the subscribers that  *)
(* feed it and the two DDS writers it publishes through.  The operations   *)
(* may be called in any order here, as the ports allow; composed with  *)
(* its control loop in InterceptionSystem.tla.                             *)
(*                                                                         *)
(* Positions lie on a line and times count control intervals.  A publish   *)
(* may fail: the writer turns a return code other than OK into an          *)
(* exception, nothing catches it before main, and the process exits.       *)
(***************************************************************************)
EXTENDS Integers, FiniteSets

CONSTANTS
  Drones,          \* identities an assignment or a command may name
  droneId,         \* the identity this process was configured with
  Targets,
  CommandIds,
  Positions,       \* where a target may be measured
  StartPosition,   \* where the vehicle starts
  Stride,          \* maximum speed times control interval
  Tolerance,       \* arrivalToleranceMeters_
  EffectResults,   \* what the effect port may answer
  WritesMayFail,   \* whether a DDS write may report an error
  MaxTime,         \* bound on the simulated clock
  None

ASSUME IdentityAssumption == droneId \in Drones
ASSUME GeometryAssumption ==
  /\ Positions \subseteq Int
  /\ StartPosition \in Int
  /\ Stride \in Nat \ {0}
  /\ Tolerance \in Nat
ASSUME EffectAssumption == EffectResults \subseteq {"succeeded", "failed"}
ASSUME BoundAssumption == MaxTime \in Nat /\ WritesMayFail \in BOOLEAN

VARIABLES
  state,                \* state_
  latestTargetTrack,    \* latestTargetTrack_
  startedCommandId,     \* startedCommandId_
  pendingEventId,       \* pendingEventId_
  vehicle,              \* position_ and measuredAt_ of the simulated vehicle
  deliveredCommandIds,  \* identities the command subscriber has forwarded
  stateWriter,          \* newest sample written to drone.drone_states
  eventWriter,          \* samples written to drone.explosion_events
  effects,              \* how often the effect port was triggered
  exit                  \* why the process left run(), "none" while it runs

vars == <<state, latestTargetTrack, startedCommandId, pendingEventId, vehicle,
          deliveredCommandIds, stateWriter, eventWriter, effects, exit>>

Statuses == {"available", "assigned", "intercepting",
             "interceptionSucceeded", "interceptionFailed"}
Outcomes == {"interceptionSucceeded", "interceptionFailed"}

DroneStates == [droneId : Drones, position : Int, reportedAt : Nat,
                status : Statuses, assignedTargetId : Targets \cup {None}]
Assignments == [droneId : Drones, targetId : Targets]
TargetTracks == [targetId : Targets, position : Positions, measuredAt : Nat]
InterceptionCommands ==
  [commandId : CommandIds, droneId : Drones, targetId : Targets]
ExplosionEvents ==
  [eventId : CommandIds, droneId : Drones, targetId : Targets,
   position : Int, occurredAt : Nat]

ASSUME NoneAssumption ==
  /\ None \notin Targets
  /\ None \notin CommandIds
  /\ None \notin DroneStates
  /\ None \notin TargetTracks

-----------------------------------------------------------------------------
Running == exit = "none"
Started == state # None
Tasked == Started /\ state.assignedTargetId # None

\* The state the machine builds when currentPosition() answers with sample.
Report(sample, status, target) ==
  [droneId |-> droneId, position |-> sample.position,
   reportedAt |-> sample.measuredAt, status |-> status,
   assignedTargetId |-> target]

\* state_.emplace, then stateOutput_.publish, which throws when the writer
\* reports an error.
ReportState(s) ==
  /\ state' = s
  /\ \/ stateWriter' = s /\ exit' = exit
     \/ /\ WritesMayFail
        /\ stateWriter' = stateWriter
        /\ exit' = "writeFailed"

Distance(a, b) == IF a < b THEN b - a ELSE a - b

NextPosition(current, destination) ==
  IF Distance(current, destination) <= Stride THEN destination
  ELSE IF current < destination THEN current + Stride ELSE current - Stride

AtTarget(position) == Distance(position, latestTargetTrack.position) <= Tolerance

-----------------------------------------------------------------------------
Init ==
  /\ state = None
  /\ latestTargetTrack = None
  /\ startedCommandId = None
  /\ pendingEventId = None
  /\ vehicle = [position |-> StartPosition, measuredAt |-> 0]
  /\ deliveredCommandIds = {}
  /\ stateWriter = None
  /\ eventWriter = {}
  /\ effects = 0
  /\ exit = "none"

Start ==
  /\ Running
  /\ ~Started
  /\ ReportState(Report(vehicle, "available", None))
  /\ UNCHANGED <<latestTargetTrack, startedCommandId, pendingEventId, vehicle,
                 deliveredCommandIds, eventWriter, effects>>

AdvanceTime ==
  /\ Running
  /\ vehicle.measuredAt < MaxTime
  /\ vehicle' = [vehicle EXCEPT !.measuredAt = @ + 1]
  /\ UNCHANGED <<state, latestTargetTrack, startedCommandId, pendingEventId,
                 deliveredCommandIds, stateWriter, eventWriter, effects, exit>>

\* Mutant: a drone that already has a target may be given another one.
AssignmentReassigns(a) ==
  IF a.droneId # droneId THEN "wrongDrone"
  ELSE IF ~Started THEN "notStarted"
  ELSE IF state.assignedTargetId = a.targetId THEN "duplicate"
  ELSE "applied"

AssignmentResult(a) ==
  IF a.droneId # droneId THEN "wrongDrone"
  ELSE IF ~Started THEN "notStarted"
  ELSE IF ~Tasked THEN "applied"
  ELSE IF state.assignedTargetId = a.targetId THEN "duplicate"
  ELSE "conflicting"

OnAssignment(a) ==
  /\ Running
  /\ \/ /\ AssignmentResult(a) = "applied"
        /\ ReportState(Report(vehicle, "assigned", a.targetId))
        /\ UNCHANGED <<latestTargetTrack, startedCommandId, pendingEventId,
                       vehicle, deliveredCommandIds, eventWriter, effects>>
     \/ AssignmentResult(a) # "applied" /\ UNCHANGED vars

TrackResult(track) ==
  IF ~Tasked \/ track.targetId # state.assignedTargetId THEN "unrelated"
  ELSE IF latestTargetTrack = None THEN "accepted"
  ELSE IF track = latestTargetTrack THEN "duplicate"
  ELSE IF track.measuredAt < latestTargetTrack.measuredAt THEN "stale"
  ELSE IF track.measuredAt = latestTargetTrack.measuredAt THEN "conflicting"
  ELSE "updated"

OnTargetTrack(track) ==
  /\ Running
  /\ latestTargetTrack' = IF TrackResult(track) \in {"accepted", "updated"}
                          THEN track ELSE latestTargetTrack
  /\ UNCHANGED <<state, startedCommandId, pendingEventId, vehicle,
                 deliveredCommandIds, stateWriter, eventWriter, effects, exit>>

StartResult(c) ==
  IF c.droneId # droneId THEN "wrongDrone"
  ELSE IF startedCommandId = c.commandId THEN "duplicate"
  ELSE IF ~Started \/ state.status # "assigned" THEN "notAssigned"
  ELSE IF state.assignedTargetId # c.targetId THEN "targetMismatch"
  ELSE "started"

\* Mutant: the event identity is not reserved.
StartForgetsEvent(c) ==
  \/ /\ StartResult(c) = "started"
     /\ ReportState(Report(vehicle, "intercepting", c.targetId))
     /\ startedCommandId' = IF exit' = "none" THEN c.commandId ELSE startedCommandId
     /\ pendingEventId' = pendingEventId
  \/ /\ StartResult(c) # "started"
     /\ UNCHANGED <<state, startedCommandId, pendingEventId, stateWriter, exit>>

\* Mutant: the new state is published but not kept.
StartForgetsState(c) ==
  \/ /\ StartResult(c) = "started"
     /\ stateWriter' = Report(vehicle, "intercepting", c.targetId)
     /\ startedCommandId' = c.commandId /\ pendingEventId' = c.commandId
     /\ UNCHANGED <<state, exit>>
  \/ /\ StartResult(c) # "started"
     /\ UNCHANGED <<state, startedCommandId, pendingEventId, stateWriter, exit>>

\* The identities are recorded after the publish, so a failed one leaves
\* the machine intercepting without them.
StartInterception(c) ==
  \/ /\ StartResult(c) = "started"
     /\ ReportState(Report(vehicle, "intercepting", c.targetId))
     /\ IF exit' = "none"
        THEN startedCommandId' = c.commandId /\ pendingEventId' = c.commandId
        ELSE UNCHANGED <<startedCommandId, pendingEventId>>
  \/ /\ StartResult(c) # "started"
     /\ UNCHANGED <<state, startedCommandId, pendingEventId, stateWriter, exit>>

\* The subscriber remembers the identity before it asks the state machine.
ReceiveCommand(c) ==
  /\ Running
  /\ deliveredCommandIds' = deliveredCommandIds \cup {c.commandId}
  /\ IF c.commandId \in deliveredCommandIds
     THEN UNCHANGED <<state, startedCommandId, pendingEventId, stateWriter, exit>>
     ELSE StartInterception(c)
  /\ UNCHANGED <<latestTargetTrack, vehicle, eventWriter, effects>>

-----------------------------------------------------------------------------
(* One control interval of pursuit.                                        *)

\* Mutant: the vehicle moves, but its clock stands still.
FlownKeepsTime ==
  [position |-> NextPosition(vehicle.position, latestTargetTrack.position),
   measuredAt |-> vehicle.measuredAt]

Flown ==
  [position |-> NextPosition(vehicle.position, latestTargetTrack.position),
   measuredAt |-> vehicle.measuredAt + 1]

Pursuing == Started /\ state.status = "intercepting" /\ latestTargetTrack # None

TickIdle == Running /\ ~Pursuing /\ UNCHANGED vars

TickMoves ==
  /\ Running /\ Pursuing
  /\ vehicle.measuredAt < MaxTime
  /\ ~AtTarget(Flown.position)
  /\ vehicle' = Flown
  /\ ReportState(Report(Flown, "intercepting", state.assignedTargetId))
  /\ UNCHANGED <<latestTargetTrack, startedCommandId, pendingEventId,
                 deliveredCommandIds, eventWriter, effects>>

\* Mutant: the event tells where the vehicle was before the interval.
PublishStalePosition ==
  \/ /\ pendingEventId # None
     /\ eventWriter' = eventWriter \cup
          {[eventId |-> pendingEventId, droneId |-> droneId,
            targetId |-> latestTargetTrack.targetId,
            position |-> vehicle.position, occurredAt |-> Flown.measuredAt]}
     /\ pendingEventId' = None
     /\ exit' = exit
  \/ /\ WritesMayFail \/ pendingEventId = None
     /\ exit' = IF pendingEventId = None THEN "logicError" ELSE "writeFailed"
     /\ UNCHANGED <<eventWriter, pendingEventId>>

\* Mutant: the exception of a failed event is swallowed, so that a running
\* machine has succeeded without an event.
PublishSwallowsFailure ==
  /\ \/ /\ pendingEventId # None
        /\ eventWriter' = eventWriter \cup
             {[eventId |-> pendingEventId, droneId |-> droneId,
               targetId |-> latestTargetTrack.targetId,
               position |-> Flown.position, occurredAt |-> Flown.measuredAt]}
        /\ pendingEventId' = None
     \/ WritesMayFail /\ UNCHANGED <<eventWriter, pendingEventId>>
  /\ exit' = exit

\* The explosion event is written after the succeeded state; a tick without
\* a pending identity throws logic_error between the two.
PublishEvent ==
  \/ /\ pendingEventId # None
     /\ eventWriter' = eventWriter \cup
          {[eventId |-> pendingEventId, droneId |-> droneId,
            targetId |-> latestTargetTrack.targetId,
            position |-> Flown.position, occurredAt |-> Flown.measuredAt]}
     /\ pendingEventId' = None
     /\ exit' = exit
  \/ /\ WritesMayFail \/ pendingEventId = None
     /\ exit' = IF pendingEventId = None THEN "logicError" ELSE "writeFailed"
     /\ UNCHANGED <<eventWriter, pendingEventId>>

TickArrives(result) ==
  LET outcome == IF result = "succeeded" THEN "interceptionSucceeded"
                                         ELSE "interceptionFailed"
  IN /\ Running /\ Pursuing
     /\ vehicle.measuredAt < MaxTime
     /\ AtTarget(Flown.position)
     /\ vehicle' = Flown
     /\ effects' = effects + 1
     /\ state' = Report(Flown, outcome, state.assignedTargetId)
     /\ \/ /\ stateWriter' = state'
           /\ IF result = "succeeded" THEN PublishEvent
              ELSE UNCHANGED <<eventWriter, pendingEventId, exit>>
        \/ /\ WritesMayFail
           /\ exit' = "writeFailed"
           /\ UNCHANGED <<stateWriter, eventWriter, pendingEventId>>
     /\ UNCHANGED <<latestTargetTrack, startedCommandId, deliveredCommandIds>>

Tick == TickIdle \/ TickMoves \/ \E result \in EffectResults : TickArrives(result)

-----------------------------------------------------------------------------
\* Tracks are measured no later than the clock bound.
Next ==
  \/ Start
  \/ AdvanceTime
  \/ \E a \in Assignments : OnAssignment(a)
  \/ \E t \in Targets, p \in Positions, m \in 0..MaxTime :
       OnTargetTrack([targetId |-> t, position |-> p, measuredAt |-> m])
  \/ \E c \in InterceptionCommands : ReceiveCommand(c)
  \/ Tick

Spec == Init /\ [][Next]_vars

-----------------------------------------------------------------------------
(* Properties.                                                             *)

\* Every variable holds a value of its C++ type; a drone state has a target
\* exactly when it is not available, as the DroneState constructor demands.
TypeOK ==
  /\ state \in DroneStates \cup {None}
  /\ latestTargetTrack \in TargetTracks \cup {None}
  /\ startedCommandId \in CommandIds \cup {None}
  /\ pendingEventId \in CommandIds \cup {None}
  /\ vehicle \in [position : Int, measuredAt : Nat]
  /\ deliveredCommandIds \subseteq CommandIds
  /\ stateWriter \in DroneStates \cup {None}
  /\ eventWriter \subseteq ExplosionEvents
  /\ effects \in Nat
  /\ exit \in {"none", "writeFailed", "logicError"}
  /\ Started => (state.status = "available" <=> state.assignedTargetId = None)

\* The effect is triggered once per process life at most, and the machine is
\* in a final status exactly when it was.
EffectAtMostOnce ==
  effects = IF Started /\ state.status \in Outcomes THEN 1 ELSE 0

\* The logic_error of tick() is unreachable: whoever pursues still owns the
\* event identity that the started command gave it.
NeverLogicError == exit # "logicError"

\* An explosion event is visible only after the succeeded state it belongs
\* to, and tells the same command, target, place and time as that state.
EventTellsTheState ==
  \A e \in eventWriter :
    /\ stateWriter = state
    /\ state.status = "interceptionSucceeded"
    /\ e.eventId = startedCommandId
    /\ e.droneId = state.droneId
    /\ e.targetId = state.assignedTargetId
    /\ e.position = state.position
    /\ e.occurredAt = state.reportedAt

\* A running process that reports success has published exactly one event
\* and gave its identity away; any other has published none.
OneEventPerSuccess ==
  Running =>
    IF Started /\ state.status = "interceptionSucceeded"
    THEN Cardinality(eventWriter) = 1 /\ pendingEventId = None
    ELSE eventWriter = {}

\* A pursuit flies after the assigned target only, and the command that
\* started it went through the subscriber.
PursuitIsAuthorised ==
  /\ latestTargetTrack # None =>
       Started /\ latestTargetTrack.targetId = state.assignedTargetId
  /\ startedCommandId # None => startedCommandId \in deliveredCommandIds
  /\ Running /\ Started /\ state.status \in {"intercepting"} \cup Outcomes =>
       startedCommandId # None

\* Readers of drone.drone_states know what the running machine does: no
\* change of state stays unpublished.
StateIsPublished == Running => stateWriter = state

Rank(s) == IF s = None THEN 0
           ELSE CASE s.status = "available" -> 1
                  [] s.status = "assigned" -> 2
                  [] s.status = "intercepting" -> 3
                  [] s.status \in Outcomes -> 4

\* What the machine reports never goes back: the status only advances, one
\* stage at a time, the target is never exchanged, a final state is never
\* left and the report time never decreases.
ReportsAdvance ==
  [][state' # state =>
       /\ state' # None
       /\ Rank(state') - Rank(state) \in {0, 1}
       /\ Rank(state') = Rank(state) => Rank(state) = 3
       /\ state # None => state'.reportedAt >= state.reportedAt
       /\ Tasked => state'.assignedTargetId = state.assignedTargetId]_vars

\* The track being chased is only ever replaced by a strictly newer one.
TrackOnlyNewer ==
  [][latestTargetTrack' # latestTargetTrack =>
       /\ latestTargetTrack' # None
       /\ latestTargetTrack # None =>
            latestTargetTrack'.measuredAt > latestTargetTrack.measuredAt]_vars

\* A command identity opens a pursuit once: after a command was accepted, no
\* later one, not even with another identity, changes the started command.
CommandStartsOnce ==
  [][startedCommandId # None => startedCommandId' = startedCommandId]_vars

\* Before start() the machine has done nothing.
NothingBeforeStart ==
  ~Started =>
    /\ latestTargetTrack = None /\ startedCommandId = None
    /\ pendingEventId = None /\ stateWriter = None
    /\ eventWriter = {} /\ effects = 0

\* While a running machine pursues, the event identity it reserved is the
\* identity of the command it started.
PursuitOwnsIdentity ==
  Running /\ Started /\ state.status = "intercepting" =>
    startedCommandId # None /\ pendingEventId = startedCommandId

\* Only a machine that left "assigned" has started a command.
CommandMeansPursuit ==
  startedCommandId # None =>
    Started /\ state.status \in {"intercepting"} \cup Outcomes

\* The success of a running machine is told by one event.
SuccessIsTold ==
  Running /\ Started /\ state.status = "interceptionSucceeded" =>
    (\E e \in eventWriter : eventWriter = {e}) /\ pendingEventId = None

\* The state tells where the vehicle is, and a time the vehicle has reached.
StateTellsTheVehicle ==
  Started => /\ state.position = vehicle.position
             /\ state.reportedAt <= vehicle.measuredAt

\* The inductive invariant the proofs use.
IInv ==
  /\ TypeOK
  /\ NothingBeforeStart
  /\ StateIsPublished
  /\ PursuitOwnsIdentity
  /\ PursuitIsAuthorised
  /\ CommandMeansPursuit
  /\ EffectAtMostOnce
  /\ EventTellsTheState
  /\ SuccessIsTold
  /\ StateTellsTheVehicle
  /\ NeverLogicError

\* What readers of the two writers are promised, with the writers mapped to
\* themselves (ReportedPursuit.tla).
Promise == INSTANCE ReportedPursuit WITH reported <- stateWriter,
                                         outcomes <- eventWriter

\* Every step of the process is a step of the promise or leaves both writers
\* alone, failed writes included.
KeepsPromise == Promise!Spec
=============================================================================
