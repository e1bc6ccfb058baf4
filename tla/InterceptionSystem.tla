-------------------------- MODULE InterceptionSystem --------------------------
(***************************************************************************)
(* The observer, the consoles and the interceptor, connected by the five   *)
(* DDS topics and scheduled by the loops of their main.cpp files: one      *)
(* target and one drone, as the executables configure.                     *)
(*                                                                         *)
(* Each receive, each tick and each automated intent is a step of its own; *)
(* discovery and deliveries interleave with them.  A process may be killed *)
(* and started again: it loses all its state, and its endpoints vanish.    *)
(***************************************************************************)
EXTENDS Integers, FiniteSets

CONSTANTS
  Consoles,        \* console processes
  Automated,       \* those started with --auto-pursuit
  Late,            \* those started only after an explosion event was written
  drone, target,   \* drone 1 and target 1 of the executables
  TargetStart, TargetVelocity, MaxTicks,
  ReservedTicks,   \* radar ticks kept until the interceptor has a target
  StartPosition, Stride, Tolerance,
  MaxCommandId,
  MaxTime,         \* bound on the interceptor's clock
  IdleTime,        \* how far the clock may run on without a report
  Mortal,          \* processes that may be killed and restarted
  MaxRestarts,
  Acquainted,      \* processes that discover each other before any writes
  None

CommandIds == 1..MaxCommandId

ASSUME SystemAssumption ==
  /\ Automated \subseteq Consoles /\ Late \subseteq Consoles
  /\ Mortal \subseteq Consoles \cup {"interceptor", "observer"}
  /\ {MaxTicks, Stride, MaxCommandId} \subseteq Nat \ {0}
  /\ {MaxTime, IdleTime, Tolerance, MaxRestarts, ReservedTicks} \subseteq Nat
  /\ {TargetStart, TargetVelocity, StartPosition} \subseteq Int
  /\ Consoles \cap {"observer", "interceptor"} = {}

VARIABLES
  tickIndex, trackWriter,                                   \* Observer
  state, latestTargetTrack, startedCommandId, pendingEventId, vehicle,
  deliveredCommandIds, stateWriter, eventWriter, effects, exit,
  targetTracks, droneStates, outcomes, pendingAssignments, pendingStarts,
  nextCommandId, assignmentWriter, commandWriter, consoleExit,
  matched, unsent, inbox,                                   \* Dds
  interceptorPc,  \* next step of the interceptor's loop
  consolePc,      \* consolePc[c], next step of console c's loop
  automation,     \* automation[c], match flags and AutomatedPursuitState
  restarts,       \* how many times a process was killed and restarted
  fresh           \* history: intents written in this interceptor's life

O == INSTANCE Observer
I == INSTANCE Interceptor WITH
       Drones <- {drone}, droneId <- drone, Targets <- {target},
       Positions <- Int, EffectResults <- {"succeeded"},
       WritesMayFail <- FALSE
C == INSTANCE Console WITH
       Drones <- {drone}, Targets <- {target}, EventIds <- CommandIds,
       Positions <- Int, Times <- Nat, WritesMayFail <- FALSE

\* None is no sample and no identity.
ASSUME SystemNoneAssumption ==
  /\ None \notin {target} /\ None \notin CommandIds
  /\ None \notin I!DroneStates /\ None \notin I!TargetTracks
  /\ None \notin C!DroneStates /\ None \notin C!TargetTracks
  /\ None \notin C!ExplosionEvents

Endpoint(t, w, r) == [topic |-> t, writer |-> w, reader |-> r]

\* The writers of a console without --auto-pursuit never carry a sample.
Endpoints ==
  {Endpoint("target_tracks", "observer", r) : r \in Consoles \cup {"interceptor"}}
  \cup {Endpoint(t, "interceptor", c) :
          t \in {"drone_states", "explosion_events"}, c \in Consoles}
  \cup {Endpoint(t, c, "interceptor") :
          t \in {"assignments", "interception_commands"}, c \in Automated}

D == INSTANCE Dds

observed == <<tickIndex, trackWriter>>
machine == <<state, latestTargetTrack, startedCommandId, pendingEventId,
             vehicle, deliveredCommandIds, stateWriter, eventWriter, effects,
             exit>>
desks == <<targetTracks, droneStates, outcomes, pendingAssignments,
           pendingStarts, nextCommandId, assignmentWriter, commandWriter,
           consoleExit>>
network == <<matched, unsent, inbox>>

interceptorVars == <<machine, interceptorPc>>
consoleVars == <<desks, consolePc, automation>>
vars == <<observed, machine, desks, network, interceptorPc, consolePc,
          automation, restarts, fresh>>

-----------------------------------------------------------------------------
(* What the writers hold, as samples of their topics.                      *)

Sample(t, w, k, v) == [topic |-> t, writer |-> w, key |-> k, value |-> v]

WrittenTracks ==
  {Sample("target_tracks", "observer", target, x) : x \in {trackWriter} \ {None}}

WrittenStates ==
  {Sample("drone_states", "interceptor", drone, x) : x \in {stateWriter} \ {None}}

WrittenEvents ==
  {Sample("explosion_events", "interceptor", e.eventId, e) : e \in eventWriter}

WrittenAssignments ==
  {Sample("assignments", c, drone,
          [droneId |-> drone, targetId |-> assignmentWriter[c][drone]]) :
     c \in {x \in Consoles : assignmentWriter[x][drone] # None}}

WrittenCommands ==
  UNION {{Sample("interception_commands", c, m.commandId, m) :
            m \in commandWriter[c]} : c \in Consoles}

Written ==
  WrittenTracks \cup WrittenStates \cup WrittenEvents
  \cup WrittenAssignments \cup WrittenCommands

\* Whatever a step adds to the writers is sent.
SendWritten == D!Send(Written' \ Written)

-----------------------------------------------------------------------------
Init ==
  /\ O!Init /\ I!Init /\ C!Init
  /\ D!Init({e \in Endpoints : {e.writer, e.reader} \subseteq Acquainted})
  /\ interceptorPc = "start"
  /\ consolePc = [c \in Consoles |-> IF c \in Late THEN "off" ELSE "match"]
  /\ automation = [c \in Consoles |->
       [assignmentReaderMatched |-> FALSE, commandReaderMatched |-> FALSE,
        assignmentSent |-> FALSE, startSent |-> FALSE]]
  /\ restarts = 0
  /\ fresh = {}

-----------------------------------------------------------------------------
(* The observer.  It ticks for ever.  Where a run is about progress, the    *)
(* last ReservedTicks of the MaxTicks ticks are kept until the interceptor  *)
(* has a target, so that the bound does not silence the radar before the    *)
(* pursuit: tracks received without a target are dropped.                   *)

ObserverStep ==
  /\ tickIndex + ReservedTicks < MaxTicks \/ I!Tasked
  /\ O!RadarTick
  /\ UNCHANGED <<inbox, interceptorVars, consoleVars, restarts, fresh>>
  /\ SendWritten

-----------------------------------------------------------------------------
(* The interceptor's loop.                                                 *)

Loop(from, to) == interceptorPc = from /\ interceptorPc' = to

InterceptorOnly ==
  /\ UNCHANGED <<observed, consoleVars, restarts, fresh>>
  /\ SendWritten

StartInterceptor ==
  /\ Loop("start", "advance")
  /\ I!Start
  /\ InterceptorOnly
  /\ inbox' = inbox

\* Outside a pursuit every interval advances the clock.  Once the clock is
\* ahead of the last report, further intervals up to the next report change
\* no comparison of times: the model lets the clock run on only to IdleTime.
AdvanceClock ==
  /\ Loop("advance", "assignment")
  /\ IF state.status = "intercepting" THEN UNCHANGED machine
     ELSE \/ /\ \/ vehicle.measuredAt = state.reportedAt
                \/ vehicle.measuredAt < IdleTime
             /\ I!AdvanceTime
          \/ vehicle.measuredAt > state.reportedAt /\ UNCHANGED machine
  /\ InterceptorOnly
  /\ inbox' = inbox

NothingFor(topic, reader) == D!Cached(topic, reader) = {} /\ inbox' = inbox

ReceiveAssignment ==
  /\ Loop("assignment", "target")
  /\ \/ NothingFor("assignments", "interceptor") /\ UNCHANGED machine
     \/ \E m \in D!Cached("assignments", "interceptor") :
          D!Take(m) /\ I!OnAssignment(m.value)
  /\ InterceptorOnly

ReceiveTrack ==
  /\ Loop("target", "command")
  /\ \/ NothingFor("target_tracks", "interceptor") /\ UNCHANGED machine
     \/ \E m \in D!Cached("target_tracks", "interceptor") :
          D!Take(m) /\ I!OnTargetTrack(m.value)
  /\ InterceptorOnly

ReceiveCommand ==
  /\ Loop("command", "tick")
  /\ \/ NothingFor("interception_commands", "interceptor") /\ UNCHANGED machine
     \/ \E m \in D!Cached("interception_commands", "interceptor") :
          D!Take(m) /\ I!ReceiveCommand(m.value)
  /\ InterceptorOnly

Tick ==
  /\ Loop("tick", "advance")
  /\ I!Tick
  /\ InterceptorOnly
  /\ inbox' = inbox

InterceptorStep ==
  \/ StartInterceptor
  \/ AdvanceClock
  \/ ReceiveAssignment
  \/ ReceiveTrack
  \/ ReceiveCommand
  \/ Tick

-----------------------------------------------------------------------------
(* A console's loop.                                                       *)

Poll(c, from, to) ==
  consolePc[c] = from /\ consolePc' = [consolePc EXCEPT ![c] = to]

ConsoleOnly ==
  /\ UNCHANGED <<observed, interceptorVars, restarts>>
  /\ SendWritten

MatchedReader(topic, c) == Endpoint(topic, c, "interceptor") \in matched

\* A match flag is set once and never cleared.
PollMatches(c) ==
  /\ Poll(c, "match", "target")
  /\ automation' = [automation EXCEPT
       ![c].assignmentReaderMatched = @ \/ MatchedReader("assignments", c),
       ![c].commandReaderMatched = @ \/ MatchedReader("interception_commands", c)]
  /\ UNCHANGED <<desks, inbox, fresh>>
  /\ ConsoleOnly

ReceiveTarget(c) ==
  /\ Poll(c, "target", "drone")
  /\ \/ NothingFor("target_tracks", c) /\ UNCHANGED desks
     \/ \E m \in D!Cached("target_tracks", c) :
          D!Take(m) /\ C!ReceiveTarget(c, m.value)
  /\ UNCHANGED <<automation, fresh>>
  /\ ConsoleOnly

ReceiveDrone(c) ==
  /\ Poll(c, "drone", "outcome")
  /\ \/ NothingFor("drone_states", c) /\ UNCHANGED desks
     \/ \E m \in D!Cached("drone_states", c) :
          D!Take(m) /\ C!ReceiveDrone(c, m.value)
  /\ UNCHANGED <<automation, fresh>>
  /\ ConsoleOnly

ReceiveOutcome(c) ==
  /\ Poll(c, "outcome", IF c \in Automated THEN "pursue" ELSE "match")
  /\ \/ NothingFor("explosion_events", c) /\ UNCHANGED desks
     \/ \E m \in D!Cached("explosion_events", c) :
          D!Take(m) /\ C!ReceiveOutcome(c, m.value)
  /\ UNCHANGED <<automation, fresh>>
  /\ ConsoleOnly

MayAssign(c) ==
  /\ ~automation[c].assignmentSent
  /\ automation[c].assignmentReaderMatched
  /\ C!AssignmentResult(c, drone, target) = "assigned"

MayStart(c) ==
  /\ automation[c].assignmentSent
  /\ ~automation[c].startSent
  /\ automation[c].commandReaderMatched
  /\ C!StartResult(c, drone) = "started"

\* An assignment is sent for an available drone only, so that the start right
\* after it in the same call is always refused.
AutomatePursuit(c) ==
  /\ Poll(c, "pursue", "match")
  /\ \/ /\ MayAssign(c)
        /\ C!Assign(c, drone, target)
        /\ automation' = [automation EXCEPT ![c].assignmentSent = TRUE]
        /\ fresh' = fresh \cup {[intent |-> "assignment", by |-> c]}
     \/ /\ MayStart(c)
        /\ C!StartInterception(c, drone)
        /\ automation' = [automation EXCEPT ![c].startSent = TRUE]
        /\ fresh' = fresh \cup {[intent |-> "command", by |-> c]}
     \/ /\ ~MayAssign(c) /\ ~MayStart(c)
        /\ UNCHANGED <<desks, automation, fresh>>
  /\ inbox' = inbox
  /\ ConsoleOnly

\* A bound: a behaviour has late consoles or restarts, not both.
Launch(c) ==
  /\ eventWriter # {} /\ restarts = 0
  /\ Poll(c, "off", "match")
  /\ UNCHANGED <<desks, automation, network, observed, interceptorVars,
                 restarts, fresh>>

ConsoleStep(c) ==
  \/ PollMatches(c)
  \/ ReceiveTarget(c)
  \/ ReceiveDrone(c)
  \/ ReceiveOutcome(c)
  \/ AutomatePursuit(c)
  \/ Launch(c)

-----------------------------------------------------------------------------
(* The middleware.                                                         *)

Quiet == UNCHANGED <<observed, interceptorVars, consoleVars, restarts, fresh>>

Running(process) == process \in Consoles => consolePc[process] # "off"

Discover(e) ==
  /\ Running(e.reader) /\ Running(e.writer)
  /\ D!Match(e, Written)
  /\ Quiet

Deliver(e) ==
  /\ \E u \in unsent : \E s \in Written :
       /\ u.endpoint = e
       /\ s.topic = e.topic /\ s.writer = e.writer /\ s.key = u.key
       /\ D!Deliver(u, s.value)
  /\ Quiet

-----------------------------------------------------------------------------
(* Crashes.  A killed process is started again with nothing it knew.       *)

Kill(process) ==
  /\ process \in Mortal
  /\ restarts < MaxRestarts
  /\ \A c \in Late : consolePc[c] = "off"
  /\ restarts' = restarts + 1
  /\ D!Leave(process)

RestartInterceptor ==
  /\ Kill("interceptor")
  /\ interceptorPc' = "start"
  /\ state' = None
  /\ latestTargetTrack' = None
  /\ startedCommandId' = None
  /\ pendingEventId' = None
  /\ vehicle' = [position |-> StartPosition, measuredAt |-> 0]
  /\ deliveredCommandIds' = {}
  /\ stateWriter' = None
  /\ eventWriter' = {}
  /\ effects' = 0
  /\ exit' = "none"
  /\ fresh' = {}
  /\ UNCHANGED <<observed, consoleVars>>

RestartConsole(c) ==
  /\ Kill(c)
  /\ consolePc' = [consolePc EXCEPT ![c] = "match"]
  /\ automation' = [automation EXCEPT ![c] =
       [assignmentReaderMatched |-> FALSE, commandReaderMatched |-> FALSE,
        assignmentSent |-> FALSE, startSent |-> FALSE]]
  /\ targetTracks' = [targetTracks EXCEPT ![c] = [t \in {target} |-> None]]
  /\ droneStates' = [droneStates EXCEPT ![c] = [d \in {drone} |-> None]]
  /\ outcomes' = [outcomes EXCEPT ![c] = [e \in CommandIds |-> None]]
  /\ pendingAssignments' =
       [pendingAssignments EXCEPT ![c] = [d \in {drone} |-> None]]
  /\ pendingStarts' = [pendingStarts EXCEPT ![c] = {}]
  /\ nextCommandId' = [nextCommandId EXCEPT ![c] = 1]
  /\ assignmentWriter' = [assignmentWriter EXCEPT ![c] = [d \in {drone} |-> None]]
  /\ commandWriter' = [commandWriter EXCEPT ![c] = {}]
  /\ consoleExit' = [consoleExit EXCEPT ![c] = "none"]
  /\ UNCHANGED <<observed, interceptorVars, fresh>>

RestartObserver ==
  /\ Kill("observer")
  /\ tickIndex' = 0
  /\ trackWriter' = None
  /\ UNCHANGED <<interceptorVars, consoleVars, fresh>>

Restart ==
  \/ RestartInterceptor
  \/ \E c \in Consoles : RestartConsole(c)
  \/ RestartObserver

-----------------------------------------------------------------------------
Next ==
  \/ ObserverStep
  \/ InterceptorStep
  \/ \E c \in Consoles : ConsoleStep(c)
  \/ \E e \in Endpoints : Discover(e) \/ Deliver(e)
  \/ Restart

\* Every loop keeps running (it only ever sleeps for one interval), endpoints
\* left to match do match, and RELIABLE delivery goes on while anything is
\* unsent; both are finite work.  Nothing is promised about restarts.
Fairness ==
  /\ WF_vars(ObserverStep)
  /\ WF_vars(InterceptorStep)
  /\ \A c \in Consoles : WF_vars(ConsoleStep(c))
  /\ WF_vars(\E e \in Endpoints : Discover(e))
  /\ WF_vars(\E e \in Endpoints : Deliver(e))

Spec == Init /\ [][Next]_vars
FairSpec == Spec /\ Fairness

-----------------------------------------------------------------------------
(* Properties.                                                             *)

\* Commands and assignments under way to the interceptor.
UnderWay(topic) ==
  {m.value : m \in D!Cached(topic, "interceptor")} \cup
  {s.value : s \in {x \in Written : \E u \in unsent :
     /\ x.topic = topic /\ u.endpoint.topic = topic
     /\ u.endpoint.writer = x.writer /\ u.key = x.key}}

\* Without restarts, what a console believes about the drone and the target
\* lags behind what their owners reported and never runs ahead of it, however
\* discovery and the topics interleave.
ConsoleLagsBehind ==
  \A c \in Consoles :
    LET seen == droneStates[c][drone]
        track == targetTracks[c][target]
    IN /\ seen # None =>
            /\ state # None
            /\ seen.reportedAt <= state.reportedAt
            /\ I!Rank(seen) <= I!Rank(state)
       /\ track # None =>
            trackWriter # None /\ track.measuredAt <= trackWriter.measuredAt

\* With one console and no restart, no intent is refused: an assignment or a
\* command under way finds the interceptor in the state the console checked,
\* although the check was made on a stale projection.
IntentsAreAccepted ==
  /\ \A a \in UnderWay("assignments") : I!AssignmentResult(a) = "applied"
  /\ \A m \in UnderWay("interception_commands") :
       /\ I!StartResult(m) = "started"
       /\ m.commandId \notin deliveredCommandIds

\* An outcome a console shows is the outcome of a command some console gave:
\* same identity, drone and target, at the place and time of the final state.
OutcomesAreEarned ==
  \A c \in Consoles, id \in CommandIds :
    LET e == outcomes[c][id]
    IN e # None =>
         /\ effects = 1
         /\ state.status = "interceptionSucceeded"
         /\ e.position = state.position /\ e.occurredAt = state.reportedAt
         /\ [commandId |-> id, droneId |-> e.droneId, targetId |-> e.targetId]
              \in UNION {commandWriter[x] : x \in Consoles}

\* Console c has matched the writer of the topic and taken all it retains.
Drained(c, topic, writer, keys) ==
  LET link == Endpoint(topic, writer, c)
  IN /\ link \in matched
     /\ \A k \in keys :
          /\ [endpoint |-> link, key |-> k] \notin unsent
          /\ \A m \in D!Cached(topic, c) : m.key # k

\* A console that has taken all there is, late or not, shows the newest track
\* and the final state of the drone.  What it may show instead is never older:
\* something of a former life after a restart, or of two states reported at one
\* time the first.
DrainedConsoleIsCurrent ==
  \A c \in Consoles :
    LET track == targetTracks[c][target]
        seen == droneStates[c][drone]
    IN /\ /\ Drained(c, "target_tracks", "observer", {target})
          /\ trackWriter # None /\ track # trackWriter
          => /\ track # None /\ track.measuredAt >= trackWriter.measuredAt
             /\ restarts > 0
       /\ /\ Drained(c, "drone_states", "interceptor", {drone})
          /\ I!Started /\ seen # state
          => /\ seen # None /\ seen.reportedAt >= state.reportedAt
             /\ restarts > 0 \/ state.status \notin I!Outcomes

\* An explosion event that a console has taken from its reader is recorded
\* there: the console knew the target and the assigned drone by then.
TakenOutcomeIsRecorded ==
  \A c \in Consoles, e \in eventWriter :
    Drained(c, "explosion_events", "interceptor", {e.eventId}) =>
      outcomes[c][e.eventId] = e

\* An interceptor acts on intents of its own life only: operator intent from
\* before a restart is never replayed to it.
FreshIntentOnly ==
  /\ I!Tasked => \E i \in fresh : i.intent = "assignment"
  /\ startedCommandId # None => \E i \in fresh : i.intent = "command"

\* A volatile intent is written while the interceptor's reader is matched, so
\* that somebody receives it.
SentOnlyWhenMatched ==
  [][\A c \in Consoles :
       /\ assignmentWriter'[c] # assignmentWriter[c] /\ consolePc[c] = "pursue"
            => MatchedReader("assignments", c)
       /\ commandWriter'[c] # commandWriter[c] /\ consolePc[c] = "pursue"
            => MatchedReader("interception_commands", c)]_vars

\* The automated pursuit reaches its end: the console that started it shows
\* the outcome.
PursuitCompletes ==
  \A c \in Automated : <>(\E id \in CommandIds : outcomes[c][id] # None)

\* Every console ends up with the interceptor's last state.
ConsolesConverge ==
  \A c \in Consoles : <>[](state # None /\ droneStates[c][drone] = state)
=============================================================================
