----------------------------- MODULE SystemProofs -----------------------------
(***************************************************************************)
(* Proofs about InterceptionSystem, for any number of consoles, any target *)
(* and any bounds.  The proofs about the two processes are instantiated    *)
(* here, the consoles' without their history and their terminal; what is   *)
(* new is the network between the processes.                               *)
(***************************************************************************)
EXTENDS InterceptionSystem, TLAPS

IP == INSTANCE InterceptorProofs WITH
        Drones <- {drone}, droneId <- drone, Targets <- {target},
        Positions <- Int, EffectResults <- {"succeeded"},
        WritesMayFail <- FALSE
CP == INSTANCE ConsoleProofs WITH
        Drones <- {drone}, Targets <- {target}, EventIds <- CommandIds,
        Positions <- Int, Times <- Nat, WritesMayFail <- FALSE,
        MaxSamples <- 0, received <- {},
        Rounded <- [p \in Int |-> p], Digits <- [t \in {target} |-> "target"],
        Numbers <- {}, NotANumber <- None, screen <- <<>>, told <- <<>>

-----------------------------------------------------------------------------
(* The assumptions of the two processes hold here.                         *)

LEMMA MachineAssumptions ==
  /\ drone \in {drone}
  /\ /\ Int \subseteq Int
     /\ StartPosition \in Int
     /\ Stride \in Nat \ {0}
     /\ Tolerance \in Nat
  /\ {"succeeded"} \subseteq {"succeeded", "failed"}
  /\ MaxTime \in Nat /\ FALSE \in BOOLEAN
  /\ /\ None \notin {target}
     /\ None \notin CommandIds
     /\ None \notin IP!DroneStates
     /\ None \notin IP!TargetTracks
<1>1. None \notin IP!DroneStates /\ None \notin IP!TargetTracks
  BY SystemNoneAssumption DEF I!DroneStates, IP!DroneStates, I!Statuses,
     IP!Statuses, I!TargetTracks, IP!TargetTracks
<1> QED
  BY <1>1, SystemAssumption, SystemNoneAssumption

LEMMA DeskAssumptions ==
  /\ /\ Nat \subseteq Nat
     /\ MaxCommandId \in Nat \ {0}
     /\ CommandIds \subseteq Nat \ {0}
     /\ FALSE \in BOOLEAN
  /\ /\ None \notin {target}
     /\ None \notin CP!TargetTracks
     /\ None \notin CP!DroneStates
     /\ None \notin CP!ExplosionEvents
  /\ /\ Int \subseteq DOMAIN [p \in Int |-> p]
        /\ {target} \subseteq DOMAIN [t \in {target} |-> "target"]
     /\ \A t \in {target} : [x \in {target} |-> "target"][t] # "-"
     /\ {} \subseteq {drone} \cup {0, None}
<1>1. /\ None \notin CP!TargetTracks /\ None \notin CP!DroneStates
      /\ None \notin CP!ExplosionEvents
  BY SystemNoneAssumption DEF C!TargetTracks, CP!TargetTracks, C!DroneStates,
     CP!DroneStates, C!ExplosionEvents, CP!ExplosionEvents
<1> QED
  BY <1>1, SystemAssumption, SystemNoneAssumption DEF CommandIds

-----------------------------------------------------------------------------
(* A step of a process of the system is a step of that process.            *)

LEMMA MachineLinks ==
  /\ I!Init <=> IP!Init
  /\ I!Start <=> IP!Start
  /\ I!AdvanceTime <=> IP!AdvanceTime
  /\ \A a : I!OnAssignment(a) <=> IP!OnAssignment(a)
  /\ \A x : I!OnTargetTrack(x) <=> IP!OnTargetTrack(x)
  /\ \A m : I!ReceiveCommand(m) <=> IP!ReceiveCommand(m)
  /\ I!Tick <=> IP!Tick
<1> USE DEF I!Running, IP!Running, I!Started, IP!Started, I!Tasked, IP!Tasked,
            I!Report, IP!Report, I!ReportState, IP!ReportState, I!vars, IP!vars
<1>1. I!Init <=> IP!Init
  BY DEF I!Init, IP!Init
<1>2. I!Start <=> IP!Start
  BY DEF I!Start, IP!Start
<1>3. I!AdvanceTime <=> IP!AdvanceTime
  BY DEF I!AdvanceTime, IP!AdvanceTime
<1>4. ASSUME NEW a PROVE I!OnAssignment(a) <=> IP!OnAssignment(a)
  BY DEF I!OnAssignment, IP!OnAssignment, I!AssignmentResult, IP!AssignmentResult
<1>5. ASSUME NEW x PROVE I!OnTargetTrack(x) <=> IP!OnTargetTrack(x)
  BY DEF I!OnTargetTrack, IP!OnTargetTrack, I!TrackResult, IP!TrackResult
<1>6. ASSUME NEW m PROVE I!ReceiveCommand(m) <=> IP!ReceiveCommand(m)
  BY DEF I!ReceiveCommand, IP!ReceiveCommand, I!StartInterception,
     IP!StartInterception, I!StartResult, IP!StartResult
<1>7. I!Tick <=> IP!Tick
  BY DEF I!Tick, IP!Tick, I!TickIdle, IP!TickIdle, I!TickMoves, IP!TickMoves,
     I!TickArrives, IP!TickArrives, I!Pursuing, IP!Pursuing, I!AtTarget,
     IP!AtTarget, I!Flown, IP!Flown, I!NextPosition, IP!NextPosition,
     I!Distance, IP!Distance, I!PublishEvent, IP!PublishEvent
<1> QED
  BY <1>1, <1>2, <1>3, <1>4, <1>5, <1>6, <1>7

LEMMA DeskLinks ==
  /\ C!Init <=> CP!Init
  /\ \A c, x : C!ReceiveTarget(c, x) <=> CP!ReceiveTarget(c, x)
  /\ \A c, x : C!ReceiveDrone(c, x) <=> CP!ReceiveDrone(c, x)
  /\ \A c, x : C!ReceiveOutcome(c, x) <=> CP!ReceiveOutcome(c, x)
  /\ \A c, d, t : C!Assign(c, d, t) <=> CP!Assign(c, d, t)
  /\ \A c, d : C!StartInterception(c, d) <=> CP!StartInterception(c, d)
<1> USE DEF C!Running, CP!Running, C!projections, CP!projections, C!intents,
            CP!intents, C!WriteFails, CP!WriteFails
<1>1. C!Init <=> CP!Init
  BY DEF C!Init, CP!Init
<1>2. ASSUME NEW c, NEW x PROVE C!ReceiveTarget(c, x) <=> CP!ReceiveTarget(c, x)
  BY DEF C!ReceiveTarget, CP!ReceiveTarget, C!TargetUpdateResult, CP!TargetUpdateResult
<1>3. ASSUME NEW c, NEW x PROVE C!ReceiveDrone(c, x) <=> CP!ReceiveDrone(c, x)
  BY DEF C!ReceiveDrone, CP!ReceiveDrone, C!DroneUpdateResult, CP!DroneUpdateResult
<1>4. ASSUME NEW c, NEW x PROVE C!ReceiveOutcome(c, x) <=> CP!ReceiveOutcome(c, x)
  BY DEF C!ReceiveOutcome, CP!ReceiveOutcome, C!OutcomeUpdateResult, CP!OutcomeUpdateResult
<1>5. ASSUME NEW c, NEW d, NEW t PROVE C!Assign(c, d, t) <=> CP!Assign(c, d, t)
  BY DEF C!Assign, CP!Assign, C!AssignmentResult, CP!AssignmentResult
<1>6. ASSUME NEW c, NEW d PROVE C!StartInterception(c, d) <=> CP!StartInterception(c, d)
  BY DEF C!StartInterception, CP!StartInterception, C!StartResult, CP!StartResult,
     C!Advanced, CP!Advanced
<1> QED
  BY <1>1, <1>2, <1>3, <1>4, <1>5, <1>6

-----------------------------------------------------------------------------
(* The inductive invariant: what holds between the processes and the       *)
(* samples under way.                                                      *)

\* The track the radar makes of one tick.
Measured(k) ==
  [targetId |-> target, position |-> TargetStart + TargetVelocity * k,
   measuredAt |-> k]

\* What readers have been given so far and still hold or show.
Arrived(topic) == {m.value : m \in {x \in inbox : x.topic = topic}}

PastTracks ==
  Arrived("target_tracks")
  \cup ({targetTracks[c][target] : c \in Consoles} \ {None})

PastStates ==
  Arrived("drone_states")
  \cup ({droneStates[c][drone] : c \in Consoles} \ {None})

PastEvents ==
  Arrived("explosion_events")
  \cup ({outcomes[c][id] : c \in Consoles, id \in CommandIds} \ {None})

Commands == UNION {commandWriter[c] : c \in Consoles}

\* Samples of a topic that are written and not delivered, or not taken yet.
Unsent(topic) == \E u \in unsent : u.endpoint.topic = topic
Waiting(topic) == \E m \in inbox : m.topic = topic
Coming(topic) == Unsent(topic) \/ Waiting(topic)

ObserverOK ==
  /\ tickIndex \in 0..MaxTicks
  /\ trackWriter = IF tickIndex = 0 THEN None ELSE Measured(tickIndex - 1)

MachineOK == IP!IInv /\ exit = "none"

DesksOK == CP!CInv

LoopsOK ==
  /\ automation \in [Consoles -> [assignmentReaderMatched : BOOLEAN,
                                  commandReaderMatched : BOOLEAN,
                                  assignmentSent : BOOLEAN,
                                  startSent : BOOLEAN]]
  /\ consolePc \in [Consoles -> {"off", "match", "target", "drone", "outcome",
                                 "pursue"}]
  /\ restarts \in Nat
  /\ \A c \in Consoles : consolePc[c] = "pursue" => c \in Automated

\* A console that sent an assignment is automated and knows the target, and
\* it writes nothing before.
SentOK ==
  \A c \in Consoles :
    /\ automation[c].assignmentSent =>
         c \in Automated /\ targetTracks[c][target] # None
    /\ assignmentWriter[c][drone] # None => automation[c].assignmentSent
    /\ commandWriter[c] # {} => automation[c].assignmentSent

UnsentOK ==
  /\ matched \subseteq Endpoints
  /\ \A u \in unsent :
       /\ u = [endpoint |-> u.endpoint, key |-> u.key]
       /\ u.endpoint \in matched
       /\ u.endpoint.topic = "assignments" => u.key = drone
       /\ u.endpoint.topic = "interception_commands" =>
            \E m \in commandWriter[u.endpoint.writer] : m.commandId = u.key

IsTrackMessage(m) ==
  /\ m.topic = "target_tracks" /\ m.key = target
  /\ m.value = Measured(m.value.measuredAt) /\ m.value.measuredAt \in Nat
IsStateMessage(m) ==
  /\ m.topic = "drone_states" /\ m.key = drone
  /\ m.value \in CP!DroneStates
IsEventMessage(m) ==
  /\ m.topic = "explosion_events" /\ m.key = m.value.eventId
  /\ m.value \in CP!ExplosionEvents
IsAssignmentMessage(m) ==
  /\ m.topic = "assignments" /\ m.reader = "interceptor" /\ m.key = drone
  /\ m.value = [droneId |-> drone, targetId |-> target]
IsCommandMessage(m) ==
  /\ m.topic = "interception_commands" /\ m.reader = "interceptor"
  /\ m.key = m.value.commandId
  /\ m.value \in IP!InterceptionCommands

InboxOK ==
  \A m \in inbox :
    /\ m = [topic |-> m.topic, reader |-> m.reader, key |-> m.key,
            value |-> m.value]
    /\ \/ IsTrackMessage(m)
       \/ IsStateMessage(m)
       \/ IsEventMessage(m)
       \/ IsAssignmentMessage(m)
       \/ IsCommandMessage(m)

TypesOK ==
  /\ ObserverOK /\ MachineOK /\ DesksOK /\ LoopsOK /\ SentOK /\ UnsentOK
  /\ InboxOK

\* Nothing a console holds or shows is newer than its owner's last word, and
\* of two reports the later one is not at an earlier stage.
PastTracksOK ==
  \A x \in PastTracks :
    /\ x = Measured(x.measuredAt) /\ x.measuredAt \in Nat
    /\ restarts = 0 =>
         trackWriter # None /\ x.measuredAt <= trackWriter.measuredAt

PastStatesOK ==
  restarts = 0 =>
    /\ \A v \in PastStates :
         /\ state # None
         /\ v.reportedAt <= state.reportedAt
         /\ I!Rank(v) <= I!Rank(state)
         /\ v.reportedAt = state.reportedAt /\ state.status \in I!Outcomes
              => v = state
    /\ \A v, w \in PastStates :
         v.reportedAt < w.reportedAt => I!Rank(v) <= I!Rank(w)

PastEventsOK ==
  /\ \A c \in Consoles, id \in CommandIds :
       outcomes[c][id] # None => outcomes[c][id].eventId = id
  /\ restarts = 0 => PastEvents \subseteq eventWriter

\* Whatever the interceptor acts on or will be given was written in its life.
FreshOK ==
  /\ I!Tasked \/ Coming("assignments") =>
       \E i \in fresh : i.intent = "assignment"
  /\ startedCommandId # None \/ Coming("interception_commands") =>
       \E i \in fresh : i.intent = "command"

\* Without restarts, whatever the interceptor acts on is still remembered by
\* the console that wrote it, and a console that gave a command has seen the
\* drone assigned.
KnownOK ==
  restarts = 0 =>
    /\ I!Tasked \/ Coming("assignments") =>
         \E c \in Consoles : assignmentWriter[c][drone] # None
    /\ \A m \in inbox : m.topic = "interception_commands" => m.value \in Commands
    /\ startedCommandId # None =>
         \E m \in Commands : m.commandId = startedCommandId
    /\ \A id \in deliveredCommandIds : \E m \in Commands : m.commandId = id
    /\ \A c \in Consoles : commandWriter[c] # {} =>
         droneStates[c][drone] # None /\ droneStates[c][drone].status # "available"

\* With one automated console, an intent under way is the only one of its
\* kind and finds the interceptor waiting for it.
AcceptOK ==
  restarts = 0 /\ (\A a, b \in Automated : a = b) =>
    /\ Coming("assignments") => I!Started /\ ~I!Tasked
    /\ Coming("interception_commands") =>
         /\ I!Started /\ state.status = "assigned"
         /\ deliveredCommandIds = {} /\ startedCommandId = None
    /\ ~(Unsent("assignments") /\ Waiting("assignments"))
    /\ ~(Unsent("interception_commands") /\ Waiting("interception_commands"))

\* What a writer holds for a reader it has matched is under way, waits to be
\* taken, or has been taken.
Delivered(topic, writer, c, k) ==
  /\ Endpoint(topic, writer, c) \in matched
  /\ [endpoint |-> Endpoint(topic, writer, c), key |-> k] \notin unsent

Holding(topic, c, k) ==
  {m \in inbox : m.topic = topic /\ m.reader = c /\ m.key = k}

TracksServed ==
  \A c \in Consoles :
    trackWriter # None /\ Delivered("target_tracks", "observer", c, target) =>
      IF Holding("target_tracks", c, target) = {}
      THEN /\ targetTracks[c][target] # None
           /\ targetTracks[c][target].measuredAt >= trackWriter.measuredAt
      ELSE \A m \in Holding("target_tracks", c, target) : m.value = trackWriter

StatesServed ==
  \A c \in Consoles :
    state # None /\ Delivered("drone_states", "interceptor", c, drone) =>
      IF Holding("drone_states", c, drone) = {}
      THEN /\ droneStates[c][drone] # None
           /\ droneStates[c][drone].reportedAt >= state.reportedAt
      ELSE \A m \in Holding("drone_states", c, drone) : m.value = state

EventsServed ==
  \A c \in Consoles, e \in eventWriter :
    Delivered("explosion_events", "interceptor", c, e.eventId) =>
      IF Holding("explosion_events", c, e.eventId) = {}
      THEN restarts = 0 /\ Consoles = {c} => outcomes[c][e.eventId] = e
      ELSE \A m \in Holding("explosion_events", c, e.eventId) : m.value = e

SInv ==
  /\ TypesOK
  /\ PastTracksOK /\ PastStatesOK /\ PastEventsOK
  /\ FreshOK /\ KnownOK /\ AcceptOK
  /\ TracksServed /\ StatesServed /\ EventsServed

-----------------------------------------------------------------------------
(* What the invariants of the processes say, in the words of the system.   *)

Statuses == {"available", "assigned", "intercepting",
             "interceptionSucceeded", "interceptionFailed"}

\* The machine's report, its vehicle and its intents.
LEMMA MachineSays ==
  ASSUME MachineOK
  PROVE  /\ stateWriter = state
         /\ state # None =>
              /\ state \in CP!DroneStates
              /\ state.reportedAt <= vehicle.measuredAt
         /\ state = None => startedCommandId = None
         /\ startedCommandId # None =>
              /\ startedCommandId \in CommandIds
              /\ state # None
              /\ state.status \in {"intercepting", "interceptionSucceeded",
                                   "interceptionFailed"}
         /\ state # None /\ state.status \notin {"available", "assigned"} =>
              startedCommandId # None
         /\ deliveredCommandIds \subseteq CommandIds
         /\ eventWriter \subseteq CP!ExplosionEvents
<1>1. stateWriter = state
  BY DEF MachineOK, IP!IInv, IP!StateIsPublished, IP!Running
<1>2. state # None =>
        /\ state \in IP!DroneStates /\ state.reportedAt <= vehicle.measuredAt
        /\ (state.status = "available") <=> (state.assignedTargetId = None)
  BY DEF MachineOK, IP!IInv, IP!TypeOK, IP!StateTellsTheVehicle, IP!Started
<1>3. state # None => state \in CP!DroneStates
  BY <1>2, MachineAssumptions DEF IP!DroneStates, IP!Statuses, CP!DroneStates
<1>4. /\ state = None => startedCommandId = None
      /\ startedCommandId # None =>
           /\ startedCommandId \in CommandIds
           /\ state # None
           /\ state.status \in {"intercepting", "interceptionSucceeded",
                                "interceptionFailed"}
      /\ deliveredCommandIds \subseteq CommandIds
  BY DEF MachineOK, IP!IInv, IP!TypeOK, IP!CommandMeansPursuit, IP!Outcomes,
     IP!Started, IP!NothingBeforeStart
<1>5. state # None /\ state.status \notin {"available", "assigned"} =>
        startedCommandId # None
  BY <1>2 DEF MachineOK, IP!IInv, IP!PursuitIsAuthorised, IP!Running,
     IP!Started, IP!Outcomes, IP!DroneStates, IP!Statuses
<1>6. eventWriter \subseteq CP!ExplosionEvents
  BY DEF MachineOK, IP!IInv, IP!TypeOK, IP!ExplosionEvents, CP!ExplosionEvents
<1> QED
  BY <1>1, <1>2, <1>3, <1>4, <1>5, <1>6

\* A report of the drone, as readers see it.
LEMMA StateFields ==
  ASSUME NEW v \in CP!DroneStates
  PROVE  /\ v.droneId = drone /\ v.reportedAt \in Nat /\ v.status \in Statuses
         /\ v.status = "available" <=> v.assignedTargetId = None
         /\ v.status # "available" => v.assignedTargetId = target
         /\ v # None
BY DeskAssumptions DEF CP!DroneStates, Statuses

LEMMA EventFields ==
  ASSUME NEW e \in CP!ExplosionEvents
  PROVE  /\ e.eventId \in CommandIds /\ e.droneId = drone /\ e.targetId = target
         /\ e # None
BY DeskAssumptions DEF CP!ExplosionEvents

\* The stages of a report.
LEMMA Stages ==
  ASSUME NEW v \in CP!DroneStates
  PROVE  /\ I!Rank(v) \in 1..4
         /\ I!Rank(v) = 1 <=> v.status = "available"
         /\ I!Rank(v) = 2 <=> v.status = "assigned"
         /\ I!Rank(v) = 3 <=> v.status = "intercepting"
         /\ I!Rank(v) = 4 <=> v.status \in I!Outcomes
         /\ I!Rank(v) = IP!Rank(v)
BY StateFields DEF I!Rank, IP!Rank, I!Outcomes, IP!Outcomes, Statuses

\* What the radar measures is a track, and no two tracks share a time.
LEMMA MeasuredIsTrack ==
  ASSUME NEW k \in Nat
  PROVE  /\ Measured(k) \in CP!TargetTracks /\ Measured(k) \in IP!TargetTracks
         /\ Measured(k).measuredAt = k /\ Measured(k).targetId = target
         /\ Measured(k) # None
<1>1. TargetStart + TargetVelocity * k \in Int
  BY SystemAssumption
<1>2. Measured(k) \in CP!TargetTracks /\ Measured(k) \in IP!TargetTracks
  BY <1>1 DEF Measured, CP!TargetTracks, IP!TargetTracks
<1> QED
  BY <1>2, DeskAssumptions DEF Measured

\* The desks, entry by entry.
LEMMA DesksSay ==
  ASSUME DesksOK, NEW c \in Consoles
  PROVE  /\ targetTracks[c][target] \in CP!TargetTracks \cup {None}
         /\ droneStates[c][drone] \in CP!DroneStates \cup {None}
         /\ \A id \in CommandIds : outcomes[c][id] \in CP!ExplosionEvents \cup {None}
         /\ pendingAssignments[c][drone] = assignmentWriter[c][drone]
         /\ assignmentWriter[c][drone] \in {target, None}
         /\ commandWriter[c] \subseteq IP!InterceptionCommands
         /\ \A m \in commandWriter[c] :
              /\ m.commandId \in CommandIds
              /\ m = [commandId |-> m.commandId, droneId |-> drone, targetId |-> target]
         /\ drone \in pendingStarts[c] <=> commandWriter[c] # {}
         /\ \A m, n \in commandWriter[c] : m = n
<1>1. CP!TypeOK /\ CP!CommandIdentitiesUnique /\ CP!PendingIsWritten
  BY DEF DesksOK, CP!CInv
<1>2. /\ targetTracks[c][target] \in CP!TargetTracks \cup {None}
      /\ droneStates[c][drone] \in CP!DroneStates \cup {None}
      /\ \A id \in CommandIds : outcomes[c][id] \in CP!ExplosionEvents \cup {None}
      /\ assignmentWriter[c][drone] \in {target, None}
      /\ commandWriter[c] \subseteq CP!InterceptionCommands
      /\ nextCommandId[c] \in 1..MaxCommandId
  BY <1>1 DEF CP!TypeOK
<1>3. \A m \in commandWriter[c] :
        /\ m = [commandId |-> m.commandId, droneId |-> drone, targetId |-> target]
        /\ m.droneId = drone
  BY <1>2 DEF CP!InterceptionCommands
<1>4. \A m \in commandWriter[c] : m.commandId \in CommandIds
  BY <1>1, <1>2, SystemAssumption DEF CP!CommandIdentitiesUnique, CommandIds
<1>5. commandWriter[c] \subseteq IP!InterceptionCommands
  BY <1>3, <1>4 DEF IP!InterceptionCommands
<1>6. /\ drone \in pendingStarts[c] <=> commandWriter[c] # {}
      /\ \A m, n \in commandWriter[c] : m = n
  BY <1>1, <1>3 DEF CP!CommandIdentitiesUnique
<1>7. pendingAssignments[c][drone] = assignmentWriter[c][drone]
  BY <1>1 DEF CP!PendingIsWritten
<1> QED
  BY <1>2, <1>3, <1>4, <1>5, <1>6, <1>7

-----------------------------------------------------------------------------
(* The network.                                                            *)

Topics == {"target_tracks", "drone_states", "explosion_events", "assignments",
           "interception_commands"}

\* Who writes and who reads a topic.
LEMMA EndpointParts ==
  ASSUME NEW e \in Endpoints
  PROVE  /\ e = Endpoint(e.topic, e.writer, e.reader)
         /\ \/ /\ e.topic = "target_tracks" /\ e.writer = "observer"
               /\ e.reader \in Consoles \cup {"interceptor"}
            \/ /\ e.topic \in {"drone_states", "explosion_events"}
               /\ e.writer = "interceptor" /\ e.reader \in Consoles
            \/ /\ e.topic \in {"assignments", "interception_commands"}
               /\ e.writer \in Automated /\ e.writer \in Consoles
               /\ e.reader = "interceptor"
BY SystemAssumption DEF Endpoints, Endpoint

\* What is written, topic by topic, before and after a step.
LEMMA WrittenParts ==
  /\ \A s : s \in Written <=>
       \/ trackWriter # None
          /\ s = Sample("target_tracks", "observer", target, trackWriter)
       \/ stateWriter # None
          /\ s = Sample("drone_states", "interceptor", drone, stateWriter)
       \/ \E e \in eventWriter :
            s = Sample("explosion_events", "interceptor", e.eventId, e)
       \/ \E c \in Consoles : assignmentWriter[c][drone] # None
            /\ s = Sample("assignments", c, drone,
                     [droneId |-> drone, targetId |-> assignmentWriter[c][drone]])
       \/ \E c \in Consoles : \E m \in commandWriter[c] :
            s = Sample("interception_commands", c, m.commandId, m)
  /\ \A s : s \in Written' <=>
       \/ trackWriter' # None
          /\ s = Sample("target_tracks", "observer", target, trackWriter')
       \/ stateWriter' # None
          /\ s = Sample("drone_states", "interceptor", drone, stateWriter')
       \/ \E e \in eventWriter' :
            s = Sample("explosion_events", "interceptor", e.eventId, e)
       \/ \E c \in Consoles : assignmentWriter'[c][drone] # None
            /\ s = Sample("assignments", c, drone,
                     [droneId |-> drone, targetId |-> assignmentWriter'[c][drone]])
       \/ \E c \in Consoles : \E m \in commandWriter'[c] :
            s = Sample("interception_commands", c, m.commandId, m)
<1> USE DEF Written, WrittenTracks, WrittenStates, WrittenEvents,
            WrittenAssignments, WrittenCommands
<1>1. /\ \A s : s \in WrittenTracks <=> trackWriter # None
             /\ s = Sample("target_tracks", "observer", target, trackWriter)
      /\ \A s : s \in WrittenTracks' <=> trackWriter' # None
             /\ s = Sample("target_tracks", "observer", target, trackWriter')
  OBVIOUS
<1>2. /\ \A s : s \in WrittenStates <=> stateWriter # None
             /\ s = Sample("drone_states", "interceptor", drone, stateWriter)
      /\ \A s : s \in WrittenStates' <=> stateWriter' # None
             /\ s = Sample("drone_states", "interceptor", drone, stateWriter')
  OBVIOUS
<1>3. /\ \A s : s \in WrittenEvents <=> \E e \in eventWriter :
             s = Sample("explosion_events", "interceptor", e.eventId, e)
      /\ \A s : s \in WrittenEvents' <=> \E e \in eventWriter' :
             s = Sample("explosion_events", "interceptor", e.eventId, e)
  OBVIOUS
<1>4. /\ \A s : s \in WrittenAssignments <=>
           \E c \in Consoles : assignmentWriter[c][drone] # None
             /\ s = Sample("assignments", c, drone,
                     [droneId |-> drone, targetId |-> assignmentWriter[c][drone]])
      /\ \A s : s \in WrittenAssignments' <=>
           \E c \in Consoles : assignmentWriter'[c][drone] # None
             /\ s = Sample("assignments", c, drone,
                     [droneId |-> drone, targetId |-> assignmentWriter'[c][drone]])
  OBVIOUS
<1>5. /\ \A s : s \in WrittenCommands <=> \E c \in Consoles : \E m \in commandWriter[c] :
             s = Sample("interception_commands", c, m.commandId, m)
      /\ \A s : s \in WrittenCommands' <=> \E c \in Consoles : \E m \in commandWriter'[c] :
             s = Sample("interception_commands", c, m.commandId, m)
  OBVIOUS
<1> HIDE DEF WrittenTracks, WrittenStates, WrittenEvents, WrittenAssignments,
             WrittenCommands
<1> QED
  BY <1>1, <1>2, <1>3, <1>4, <1>5

\* The samples that travel over an endpoint.
LEMMA OverParts ==
  ASSUME NEW E, NEW S
  PROVE  /\ \A u \in D!Over(E, S) :
              /\ u = [endpoint |-> u.endpoint, key |-> u.key] /\ u.endpoint \in E
              /\ \E s \in S : /\ s.topic = u.endpoint.topic
                              /\ s.writer = u.endpoint.writer /\ s.key = u.key
         /\ \A e \in E, s \in S : e.topic = s.topic /\ e.writer = s.writer =>
              [endpoint |-> e, key |-> s.key] \in D!Over(E, S)
<1> DEFINE P == {q \in E \X S : q[1].topic = q[2].topic /\ q[1].writer = q[2].writer}
<1>1. ASSUME NEW u \in D!Over(E, S)
      PROVE  /\ u = [endpoint |-> u.endpoint, key |-> u.key] /\ u.endpoint \in E
             /\ \E s \in S : /\ s.topic = u.endpoint.topic
                             /\ s.writer = u.endpoint.writer /\ s.key = u.key
  <2>1. PICK p \in P : u = [endpoint |-> p[1], key |-> p[2].key]
    BY DEF D!Over
  <2>2. /\ p[1] \in E /\ p[2] \in S /\ p[1].topic = p[2].topic
        /\ p[1].writer = p[2].writer
    OBVIOUS
  <2> QED
    BY <2>1, <2>2
<1>2. ASSUME NEW e \in E, NEW s \in S, e.topic = s.topic, e.writer = s.writer
      PROVE  [endpoint |-> e, key |-> s.key] \in D!Over(E, S)
  <2>1. <<e, s>> \in P
    BY <1>2
  <2>2. [endpoint |-> <<e, s>>[1], key |-> <<e, s>>[2].key] \in D!Over(E, S)
    BY <2>1 DEF D!Over
  <2> QED
    BY <2>2
<1> QED
  BY <1>1, <1>2

\* What a process step adds to what is under way: nothing but the samples it
\* has written, and each of them on every matched endpoint.
LEMMA SendParts ==
  ASSUME SendWritten
  PROVE  /\ matched' = matched /\ unsent \subseteq unsent'
         /\ \A u \in unsent' \ unsent :
              /\ u = [endpoint |-> u.endpoint, key |-> u.key]
              /\ u.endpoint \in matched
              /\ \E s \in Written' \ Written :
                   /\ s.topic = u.endpoint.topic
                   /\ s.writer = u.endpoint.writer /\ s.key = u.key
         /\ \A e \in matched, s \in Written' \ Written :
              e.topic = s.topic /\ e.writer = s.writer =>
                [endpoint |-> e, key |-> s.key] \in unsent'
<1>1. /\ unsent' = unsent \cup D!Over(matched, Written' \ Written)
      /\ matched' = matched
  BY DEF SendWritten, D!Send
<1> QED
  BY <1>1, OverParts

\* What discovery adds: what the writer retains, on the new endpoint.
LEMMA MatchParts ==
  ASSUME NEW e, D!Match(e, Written)
  PROVE  /\ matched' = matched \cup {e} /\ e \in Endpoints \ matched
         /\ unsent \subseteq unsent' /\ inbox' = inbox
         /\ \A u \in unsent' \ unsent :
              /\ u = [endpoint |-> u.endpoint, key |-> u.key] /\ u.endpoint = e
              /\ e.topic \notin {"assignments", "interception_commands"}
         /\ e.topic \in {"target_tracks", "drone_states", "explosion_events"} =>
              \A s \in Written : e.topic = s.topic /\ e.writer = s.writer =>
                [endpoint |-> e, key |-> s.key] \in unsent'
<1>1. /\ e \in Endpoints \ matched /\ matched' = matched \cup {e}
      /\ unsent' = unsent \cup
           IF D!Durability[e.topic] = "TRANSIENT_LOCAL" THEN D!Over({e}, Written) ELSE {}
      /\ inbox' = inbox
  BY DEF D!Match
<1>2. /\ e.topic \in Topics
      /\ e.topic \in {"assignments", "interception_commands"}
           <=> D!Durability[e.topic] # "TRANSIENT_LOCAL"
  BY <1>1, EndpointParts DEF D!Durability, Topics
<1> QED
  BY <1>1, <1>2, OverParts

-----------------------------------------------------------------------------
(* The steps of the system, by what they may touch.                        *)

\* The steps of the processes that leave discovery alone.
Acts ==
  \/ ObserverStep
  \/ InterceptorStep
  \/ \E c \in Consoles :
       \/ PollMatches(c) \/ ReceiveTarget(c) \/ ReceiveDrone(c)
       \/ ReceiveOutcome(c) \/ AutomatePursuit(c)

\* A console is launched, or nothing happens.
Rests ==
  /\ UNCHANGED <<observed, machine, desks, network, interceptorPc, automation,
                 restarts, fresh>>
  /\ \/ consolePc' = consolePc
     \/ \E c \in Consoles : consolePc' = [consolePc EXCEPT ![c] = "match"]

LEMMA StepKinds ==
  ASSUME [Next]_vars
  PROVE  \/ Acts \/ Rests
         \/ \E e \in Endpoints : Discover(e)
         \/ \E e \in Endpoints : Deliver(e)
         \/ RestartInterceptor
         \/ \E c \in Consoles : RestartConsole(c)
         \/ RestartObserver
<1>1. ASSUME NEW c \in Consoles, ConsoleStep(c) PROVE Acts \/ Rests
  BY <1>1 DEF ConsoleStep, Acts, Rests, Launch, Poll, interceptorVars
<1>2. CASE UNCHANGED vars
  BY <1>2 DEF vars, Rests
<1> QED
  BY <1>1, <1>2 DEF Next, Restart, Acts

LEMMA ActsNetwork ==
  ASSUME Acts
  PROVE  SendWritten /\ restarts' = restarts /\ inbox' \subseteq inbox
<1>1. ASSUME NEW m, D!Take(m) PROVE inbox' \subseteq inbox
  BY <1>1 DEF D!Take
<1>2. ObserverStep => SendWritten /\ restarts' = restarts /\ inbox' = inbox
  BY DEF ObserverStep
<1>3. InterceptorStep => SendWritten /\ restarts' = restarts /\ inbox' \subseteq inbox
  BY <1>1 DEF InterceptorStep, StartInterceptor, AdvanceClock,
     ReceiveAssignment, ReceiveTrack, ReceiveCommand, Tick, InterceptorOnly,
     NothingFor
<1>4. ASSUME NEW c \in Consoles,
             \/ PollMatches(c) \/ ReceiveTarget(c) \/ ReceiveDrone(c)
             \/ ReceiveOutcome(c) \/ AutomatePursuit(c)
      PROVE  SendWritten /\ restarts' = restarts /\ inbox' \subseteq inbox
  BY <1>1, <1>4 DEF PollMatches, ReceiveTarget, ReceiveDrone, ReceiveOutcome,
     AutomatePursuit, ConsoleOnly, NothingFor
<1> QED
  BY <1>2, <1>3, <1>4 DEF Acts

\* What a reader is given.
LEMMA CachedParts ==
  ASSUME InboxOK, NEW topic, NEW r, NEW m \in D!Cached(topic, r)
  PROVE  /\ m \in inbox /\ m.topic = topic /\ m.reader = r
         /\ m = [topic |-> m.topic, reader |-> m.reader, key |-> m.key,
                 value |-> m.value]
         /\ topic = "target_tracks" => IsTrackMessage(m)
         /\ topic = "drone_states" => IsStateMessage(m)
         /\ topic = "explosion_events" => IsEventMessage(m)
         /\ topic = "assignments" => IsAssignmentMessage(m)
         /\ topic = "interception_commands" => IsCommandMessage(m)
BY DEF D!Cached, InboxOK, IsTrackMessage, IsStateMessage, IsEventMessage,
   IsAssignmentMessage, IsCommandMessage

\* The interceptor of the system does what the interceptor alone may do.
LEMMA MachineSteps ==
  ASSUME InboxOK, [Next]_vars
  PROVE  \/ IP!Next
         \/ UNCHANGED machine
         \/ \E m \in D!Cached("target_tracks", "interceptor") :
              IP!OnTargetTrack(m.value)
         \/ RestartInterceptor
<1>1. CASE InterceptorStep
  <2>1. CASE StartInterceptor \/ AdvanceClock \/ Tick
    BY <2>1, MachineLinks DEF StartInterceptor, AdvanceClock, Tick, IP!Next
  <2>2. CASE ReceiveAssignment
    <3>1. ASSUME NEW m \in D!Cached("assignments", "interceptor")
          PROVE  m.value \in IP!Assignments
      BY CachedParts DEF IsAssignmentMessage, IP!Assignments
    <3> QED
      BY <2>2, <3>1, MachineLinks DEF ReceiveAssignment, IP!Next
  <2>3. CASE ReceiveTrack
    BY <2>3, MachineLinks DEF ReceiveTrack
  <2>4. CASE ReceiveCommand
    <3>1. ASSUME NEW m \in D!Cached("interception_commands", "interceptor")
          PROVE  m.value \in IP!InterceptionCommands
      BY CachedParts DEF IsCommandMessage
    <3> QED
      BY <2>4, <3>1, MachineLinks DEF ReceiveCommand, IP!Next
  <2> QED
    BY <1>1, <2>1, <2>2, <2>3, <2>4 DEF InterceptorStep
<1>2. CASE ObserverStep
  BY <1>2 DEF ObserverStep, interceptorVars
<1>3. ASSUME NEW c \in Consoles,
             \/ PollMatches(c) \/ ReceiveTarget(c) \/ ReceiveDrone(c)
             \/ ReceiveOutcome(c) \/ AutomatePursuit(c)
      PROVE  UNCHANGED machine
  BY <1>3 DEF PollMatches, ReceiveTarget, ReceiveDrone, ReceiveOutcome,
     AutomatePursuit, ConsoleOnly, interceptorVars
<1>4. CASE Rests \/ (\E e \in Endpoints : Discover(e) \/ Deliver(e))
  BY <1>4 DEF Rests, Discover, Deliver, Quiet, interceptorVars
<1>5. CASE RestartObserver \/ \E c \in Consoles : RestartConsole(c)
  BY <1>5 DEF RestartObserver, RestartConsole, interceptorVars
<1> QED
  BY <1>1, <1>2, <1>3, <1>4, <1>5, StepKinds DEF Acts

\* The consoles of the system do what consoles alone may do.
LEMMA DeskSteps ==
  ASSUME InboxOK, [Next]_vars
  PROVE  \/ CP!Next
         \/ UNCHANGED desks
         \/ \E c \in Consoles : RestartConsole(c)
<1>1. ASSUME NEW c \in Consoles,
             \/ PollMatches(c) \/ ReceiveTarget(c) \/ ReceiveDrone(c)
             \/ ReceiveOutcome(c) \/ AutomatePursuit(c)
      PROVE  CP!Next \/ UNCHANGED desks
  <2>1. CASE PollMatches(c)
    BY <2>1 DEF PollMatches
  <2>2. CASE ReceiveTarget(c)
    <3>1. ASSUME NEW m \in D!Cached("target_tracks", c)
          PROVE  m.value \in CP!TargetTracks
      BY CachedParts, MeasuredIsTrack DEF IsTrackMessage
    <3> QED
      BY <2>2, <3>1, DeskLinks DEF ReceiveTarget, CP!Next
  <2>3. CASE ReceiveDrone(c)
    <3>1. ASSUME NEW m \in D!Cached("drone_states", c)
          PROVE  m.value \in CP!DroneStates
      BY CachedParts DEF IsStateMessage
    <3> QED
      BY <2>3, <3>1, DeskLinks DEF ReceiveDrone, CP!Next
  <2>4. CASE ReceiveOutcome(c)
    <3>1. ASSUME NEW m \in D!Cached("explosion_events", c)
          PROVE  m.value \in CP!ExplosionEvents
      BY CachedParts DEF IsEventMessage
    <3> QED
      BY <2>4, <3>1, DeskLinks DEF ReceiveOutcome, CP!Next
  <2>5. CASE AutomatePursuit(c)
    BY <2>5, DeskLinks DEF AutomatePursuit, CP!Next
  <2> QED
    BY <1>1, <2>1, <2>2, <2>3, <2>4, <2>5
<1>2. CASE ObserverStep \/ InterceptorStep
  BY <1>2 DEF ObserverStep, InterceptorStep, StartInterceptor, AdvanceClock,
     ReceiveAssignment, ReceiveTrack, ReceiveCommand, Tick, InterceptorOnly,
     consoleVars
<1>3. CASE Rests \/ (\E e \in Endpoints : Discover(e) \/ Deliver(e))
  BY <1>3 DEF Rests, Discover, Deliver, Quiet, consoleVars
<1>4. CASE RestartObserver \/ RestartInterceptor
  BY <1>4 DEF RestartObserver, RestartInterceptor, consoleVars
<1> QED
  BY <1>1, <1>2, <1>3, <1>4, StepKinds DEF Acts

-----------------------------------------------------------------------------
(* The parts of TypesOK are kept.                                          *)

\* Who changes what the observer wrote.
LEMMA ObserverSteps ==
  ASSUME [Next]_vars
  PROVE  UNCHANGED observed \/ O!RadarTick \/ RestartObserver
<1>1. CASE Acts
  BY <1>1 DEF Acts, ObserverStep, InterceptorStep, StartInterceptor,
     AdvanceClock, ReceiveAssignment, ReceiveTrack, ReceiveCommand, Tick,
     InterceptorOnly, PollMatches, ReceiveTarget, ReceiveDrone, ReceiveOutcome,
     AutomatePursuit, ConsoleOnly
<1>2. CASE Rests \/ (\E e \in Endpoints : Discover(e) \/ Deliver(e))
  BY <1>2 DEF Rests, Discover, Deliver, Quiet
<1>3. CASE RestartInterceptor \/ \E c \in Consoles : RestartConsole(c)
  BY <1>3 DEF RestartInterceptor, RestartConsole
<1> QED
  BY <1>1, <1>2, <1>3, StepKinds

LEMMA ObserverKept ==
  ASSUME ObserverOK, [Next]_vars
  PROVE  ObserverOK'
<1>1. CASE UNCHANGED observed
  BY <1>1 DEF observed, ObserverOK, Measured
<1>2. CASE O!RadarTick
  <2>1. /\ tickIndex \in 0..(MaxTicks - 1) /\ tickIndex' = tickIndex + 1
        /\ trackWriter' = Measured(tickIndex)
    BY <1>2, SystemAssumption DEF O!RadarTick, O!OnDetection, O!Detection,
       Measured, ObserverOK
  <2>2. tickIndex' - 1 = tickIndex /\ tickIndex' # 0 /\ tickIndex' \in 0..MaxTicks
    BY <2>1, SystemAssumption
  <2> HIDE DEF Measured
  <2>3. trackWriter' = Measured(tickIndex' - 1)
    BY <2>1, <2>2
  <2> QED
    BY <2>2, <2>3 DEF ObserverOK, Measured
<1>3. CASE RestartObserver
  BY <1>3, SystemAssumption DEF RestartObserver, ObserverOK
<1> QED
  BY <1>1, <1>2, <1>3, ObserverSteps

LEMMA MachineKept ==
  ASSUME InboxOK, MachineOK, [Next]_vars
  PROVE  MachineOK'
<1>1. CASE IP!Next \/ UNCHANGED machine
  <2>1. IP!IInv /\ IP!Running /\ [IP!Next]_(IP!vars)
    BY <1>1 DEF MachineOK, machine, IP!vars, IP!Running
  <2>2. IP!IInv'
    BY <2>1, IP!NextPreserves, MachineAssumptions
  <2>3. IP!Running'
    BY <2>1, IP!ExitsOnFailureOnly, MachineAssumptions
  <2> QED
    BY <2>2, <2>3 DEF MachineOK, IP!Running
<1>2. ASSUME NEW m \in D!Cached("target_tracks", "interceptor"),
             IP!OnTargetTrack(m.value)
      PROVE  MachineOK'
  <2>1. m.value \in IP!TargetTracks
    BY CachedParts, MeasuredIsTrack DEF IsTrackMessage
  <2>2. IP!IInv'
    BY <1>2, <2>1, IP!TrackPreserves, MachineAssumptions DEF MachineOK
  <2> QED
    BY <1>2, <2>2 DEF MachineOK, IP!OnTargetTrack
<1>3. CASE RestartInterceptor
  <2> USE DEF RestartInterceptor
  <2>1. vehicle' \in [position : Int, measuredAt : Nat] /\ state' = None
    BY <1>3, SystemAssumption
  <2>2. IP!TypeOK'
    BY <1>3, <2>1 DEF IP!TypeOK, IP!Started
  <2>3. (IP!NothingBeforeStart /\ IP!StateIsPublished /\ IP!PursuitOwnsIdentity)'
    BY <1>3 DEF IP!NothingBeforeStart, IP!StateIsPublished,
       IP!PursuitOwnsIdentity, IP!Started
  <2>4. (IP!PursuitIsAuthorised /\ IP!CommandMeansPursuit /\ IP!EffectAtMostOnce)'
    BY <1>3 DEF IP!PursuitIsAuthorised, IP!CommandMeansPursuit,
       IP!EffectAtMostOnce, IP!Started
  <2>5. (IP!EventTellsTheState /\ IP!SuccessIsTold)'
    BY <1>3 DEF IP!EventTellsTheState, IP!SuccessIsTold, IP!Started
  <2>6. (IP!StateTellsTheVehicle /\ IP!NeverLogicError)'
    BY <1>3 DEF IP!StateTellsTheVehicle, IP!NeverLogicError, IP!Started
  <2> QED
    BY <1>3, <2>2, <2>3, <2>4, <2>5, <2>6 DEF MachineOK, IP!IInv
<1> QED
  BY <1>1, <1>2, <1>3, MachineSteps

LEMMA DesksKept ==
  ASSUME InboxOK, DesksOK, [Next]_vars
  PROVE  DesksOK'
<1>1. CASE CP!Next \/ UNCHANGED desks
  BY <1>1, CP!CInvInductive, DeskAssumptions DEF DesksOK, desks, CP!cvars
<1>2. ASSUME NEW c \in Consoles, RestartConsole(c) PROVE DesksOK'
  <2> USE DEF RestartConsole
  <2>1. CP!TypeOK /\ CP!CommandIdentitiesUnique /\ CP!PendingIsWritten
    BY DEF DesksOK, CP!CInv
  <2>2. /\ targetTracks' \in [Consoles -> [{target} -> CP!TargetTracks \cup {None}]]
        /\ droneStates' \in [Consoles -> [{drone} -> CP!DroneStates \cup {None}]]
        /\ outcomes' \in [Consoles -> [CommandIds -> CP!ExplosionEvents \cup {None}]]
    BY <1>2, <2>1 DEF CP!TypeOK
  <2>3. /\ pendingAssignments' \in [Consoles -> [{drone} -> {target} \cup {None}]]
        /\ assignmentWriter' \in [Consoles -> [{drone} -> {target} \cup {None}]]
    BY <1>2, <2>1 DEF CP!TypeOK
  <2>7. /\ pendingStarts' \in [Consoles -> SUBSET {drone}]
        /\ commandWriter' \in [Consoles -> SUBSET CP!InterceptionCommands]
    BY <1>2, <2>1 DEF CP!TypeOK
  <2>8. nextCommandId' \in [Consoles -> 1..MaxCommandId]
    <3>1. 1 \in 1..MaxCommandId
      BY SystemAssumption
    <3> QED
      BY <1>2, <2>1, <3>1 DEF CP!TypeOK
  <2>9. consoleExit' \in [Consoles -> {"none", "writeFailed", "overflow"}]
    BY <1>2, <2>1 DEF CP!TypeOK
  <2>4. CP!TypeOK'
    BY <2>2, <2>3, <2>7, <2>8, <2>9 DEF CP!TypeOK
  <2>5. CP!CommandIdentitiesUnique'
    <3> SUFFICES ASSUME NEW x \in Consoles
                 PROVE  /\ \A a, b \in commandWriter'[x] :
                             a.commandId = b.commandId \/ a.droneId = b.droneId => a = b
                        /\ \A a \in commandWriter'[x] :
                             a.commandId \in 1..(nextCommandId'[x] - 1)
                        /\ pendingStarts'[x] = {a.droneId : a \in commandWriter'[x]}
      BY DEF CP!CommandIdentitiesUnique
    <3>1. CASE x = c
      <4>1. commandWriter'[x] = {} /\ pendingStarts'[x] = {}
        BY <1>2, <3>1, <2>1 DEF CP!TypeOK
      <4> QED
        BY <4>1
    <3>2. CASE x # c
      <4>1. /\ commandWriter'[x] = commandWriter[x]
            /\ pendingStarts'[x] = pendingStarts[x]
            /\ nextCommandId'[x] = nextCommandId[x]
        BY <1>2, <3>2, <2>1 DEF CP!TypeOK
      <4> QED
        BY <4>1, <2>1 DEF CP!CommandIdentitiesUnique
    <3> QED
      BY <3>1, <3>2
  <2>6. CP!PendingIsWritten'
    BY <1>2, <2>1 DEF CP!PendingIsWritten
  <2> QED
    BY <2>4, <2>5, <2>6 DEF DesksOK, CP!CInv
<1> QED
  BY <1>1, <1>2, DeskSteps

\* One console's entries change by what that console takes from its readers,
\* and are lost in its restart.
LEMMA ProjectionMoves ==
  ASSUME DesksOK, InboxOK, [Next]_vars, NEW c \in Consoles
  PROVE  /\ \/ targetTracks'[c] = targetTracks[c]
            \/ RestartConsole(c)
            \/ \E m \in D!Cached("target_tracks", c) :
                 D!Take(m) /\ C!ReceiveTarget(c, m.value) /\ ReceiveTarget(c)
         /\ \/ droneStates'[c] = droneStates[c]
            \/ RestartConsole(c)
            \/ \E m \in D!Cached("drone_states", c) :
                 D!Take(m) /\ C!ReceiveDrone(c, m.value) /\ ReceiveDrone(c)
         /\ \/ outcomes'[c] = outcomes[c]
            \/ RestartConsole(c)
            \/ \E m \in D!Cached("explosion_events", c) :
                 D!Take(m) /\ C!ReceiveOutcome(c, m.value) /\ ReceiveOutcome(c)
<1>1. CASE UNCHANGED desks
  BY <1>1 DEF desks
<1>2. ASSUME NEW x \in Consoles, RestartConsole(x)
      PROVE  x = c \/ (/\ targetTracks'[c] = targetTracks[c]
                       /\ droneStates'[c] = droneStates[c]
                       /\ outcomes'[c] = outcomes[c])
  BY <1>2 DEF RestartConsole, DesksOK, CP!CInv, CP!TypeOK
<1>3. ASSUME NEW x \in Consoles, ReceiveTarget(x)
      PROVE  /\ \/ targetTracks'[c] = targetTracks[c]
                \/ \E m \in D!Cached("target_tracks", c) :
                     D!Take(m) /\ C!ReceiveTarget(c, m.value) /\ ReceiveTarget(c)
             /\ droneStates' = droneStates /\ outcomes' = outcomes
  BY <1>3 DEF ReceiveTarget, C!ReceiveTarget, desks, DesksOK, CP!CInv, CP!TypeOK
<1>4. ASSUME NEW x \in Consoles, ReceiveDrone(x)
      PROVE  /\ \/ droneStates'[c] = droneStates[c]
                \/ \E m \in D!Cached("drone_states", c) :
                     D!Take(m) /\ C!ReceiveDrone(c, m.value) /\ ReceiveDrone(c)
             /\ targetTracks' = targetTracks /\ outcomes' = outcomes
  BY <1>4 DEF ReceiveDrone, C!ReceiveDrone, desks, DesksOK, CP!CInv, CP!TypeOK
<1>5. ASSUME NEW x \in Consoles, ReceiveOutcome(x)
      PROVE  /\ \/ outcomes'[c] = outcomes[c]
                \/ \E m \in D!Cached("explosion_events", c) :
                     D!Take(m) /\ C!ReceiveOutcome(c, m.value) /\ ReceiveOutcome(c)
             /\ targetTracks' = targetTracks /\ droneStates' = droneStates
  BY <1>5 DEF ReceiveOutcome, C!ReceiveOutcome, desks, DesksOK, CP!CInv, CP!TypeOK
<1>6. ASSUME NEW x \in Consoles, PollMatches(x) \/ AutomatePursuit(x)
      PROVE  UNCHANGED <<targetTracks, droneStates, outcomes>>
  BY <1>6 DEF PollMatches, AutomatePursuit, desks, C!Assign,
     C!StartInterception, C!projections
<1>7. ASSUME \/ ObserverStep \/ InterceptorStep \/ Rests
             \/ \E e \in Endpoints : Discover(e) \/ Deliver(e)
             \/ RestartObserver \/ RestartInterceptor
      PROVE  UNCHANGED desks
  BY <1>7 DEF ObserverStep, InterceptorStep, StartInterceptor, AdvanceClock,
     ReceiveAssignment, ReceiveTrack, ReceiveCommand, Tick, InterceptorOnly,
     Rests, Discover, Deliver, Quiet, RestartObserver, RestartInterceptor,
     consoleVars
<1> QED
  BY <1>1, <1>2, <1>3, <1>4, <1>5, <1>6, <1>7, StepKinds DEF Acts

\* The intents of a console change by its automated pursuit only.
LEMMA IntentMoves ==
  ASSUME DesksOK, InboxOK, LoopsOK, [Next]_vars, NEW c \in Consoles
  PROVE  \/ /\ assignmentWriter'[c] = assignmentWriter[c]
            /\ commandWriter'[c] = commandWriter[c]
            /\ automation'[c].assignmentSent = automation[c].assignmentSent
         \/ RestartConsole(c)
         \/ /\ AutomatePursuit(c) /\ MayAssign(c)
            /\ assignmentWriter'[c][drone] = target
            /\ commandWriter'[c] = commandWriter[c]
            /\ automation'[c].assignmentSent
         \/ /\ AutomatePursuit(c) /\ MayStart(c)
            /\ commandWriter'[c] = commandWriter[c] \cup
                 {[commandId |-> nextCommandId[c], droneId |-> drone,
                   targetId |-> droneStates[c][drone].assignedTargetId]}
            /\ assignmentWriter'[c] = assignmentWriter[c]
            /\ automation'[c].assignmentSent = automation[c].assignmentSent
<1> DEFINE Same == /\ assignmentWriter'[c] = assignmentWriter[c]
                   /\ commandWriter'[c] = commandWriter[c]
                   /\ automation'[c].assignmentSent = automation[c].assignmentSent
<1>1. CASE UNCHANGED <<assignmentWriter, commandWriter, automation>>
  BY <1>1
<1>2. ASSUME NEW x \in Consoles, RestartConsole(x), x # c
      PROVE  Same
  BY <1>2 DEF RestartConsole, DesksOK, CP!CInv, CP!TypeOK, LoopsOK
<1>3. ASSUME NEW x \in Consoles, ReceiveTarget(x) \/ ReceiveDrone(x) \/ ReceiveOutcome(x)
      PROVE  UNCHANGED <<assignmentWriter, commandWriter, automation>>
  BY <1>3 DEF ReceiveTarget, ReceiveDrone, ReceiveOutcome, C!ReceiveTarget,
     C!ReceiveDrone, C!ReceiveOutcome, C!intents, desks
<1>4. ASSUME NEW x \in Consoles, PollMatches(x) PROVE Same
  BY <1>4 DEF PollMatches, desks, LoopsOK
<1>5. ASSUME NEW x \in Consoles, AutomatePursuit(x)
      PROVE  \/ Same
             \/ /\ x = c /\ MayAssign(c)
                /\ assignmentWriter'[c][drone] = target
                /\ commandWriter'[c] = commandWriter[c]
                /\ automation'[c].assignmentSent
             \/ /\ x = c /\ MayStart(c)
                /\ commandWriter'[c] = commandWriter[c] \cup
                     {[commandId |-> nextCommandId[c], droneId |-> drone,
                       targetId |-> droneStates[c][drone].assignedTargetId]}
                /\ assignmentWriter'[c] = assignmentWriter[c]
                /\ automation'[c].assignmentSent = automation[c].assignmentSent
  <2>1. CASE MayAssign(x) /\ C!Assign(x, drone, target)
             /\ automation' = [automation EXCEPT ![x].assignmentSent = TRUE]
    <3>1. /\ assignmentWriter' = [assignmentWriter EXCEPT ![x][drone] = target]
          /\ commandWriter' = commandWriter
      BY <2>1 DEF MayAssign, C!Assign, C!WriteFails
    <3>2. /\ assignmentWriter'[x][drone] = target
          /\ x # c => assignmentWriter'[c] = assignmentWriter[c]
      BY <3>1 DEF DesksOK, CP!CInv, CP!TypeOK
    <3>3. /\ automation'[x].assignmentSent
          /\ x # c => automation'[c] = automation[c]
      BY <2>1 DEF LoopsOK
    <3> QED
      BY <2>1, <3>1, <3>2, <3>3
  <2>2. CASE MayStart(x) /\ C!StartInterception(x, drone)
             /\ automation' = [automation EXCEPT ![x].startSent = TRUE]
    <3>1. /\ commandWriter' = [commandWriter EXCEPT ![x] = @ \cup
               {[commandId |-> nextCommandId[x], droneId |-> drone,
                 targetId |-> droneStates[x][drone].assignedTargetId]}]
          /\ assignmentWriter' = assignmentWriter
      BY <2>2 DEF MayStart, C!StartInterception, C!WriteFails
    <3>2. automation'[c].assignmentSent = automation[c].assignmentSent
      BY <2>2 DEF LoopsOK
    <3>3. /\ commandWriter'[x] = commandWriter[x] \cup
               {[commandId |-> nextCommandId[x], droneId |-> drone,
                 targetId |-> droneStates[x][drone].assignedTargetId]}
          /\ x # c => commandWriter'[c] = commandWriter[c]
      BY <3>1 DEF DesksOK, CP!CInv, CP!TypeOK
    <3> QED
      BY <2>2, <3>1, <3>2, <3>3
  <2>3. CASE UNCHANGED <<desks, automation>>
    BY <2>3 DEF desks
  <2> QED
    BY <1>5, <2>1, <2>2, <2>3 DEF AutomatePursuit
<1>6. ASSUME \/ ObserverStep \/ InterceptorStep \/ Rests
             \/ \E e \in Endpoints : Discover(e) \/ Deliver(e)
             \/ RestartObserver \/ RestartInterceptor
      PROVE  UNCHANGED <<assignmentWriter, commandWriter, automation>>
  BY <1>6 DEF ObserverStep, InterceptorStep, StartInterceptor, AdvanceClock,
     ReceiveAssignment, ReceiveTrack, ReceiveCommand, Tick, InterceptorOnly,
     Rests, Discover, Deliver, Quiet, RestartObserver, RestartInterceptor,
     consoleVars, desks
<1> QED
  BY <1>1, <1>2, <1>3, <1>4, <1>5, <1>6, StepKinds DEF Acts

LEMMA LoopsKept ==
  ASSUME LoopsOK, [Next]_vars
  PROVE  LoopsOK'
<1> DEFINE Flags == [assignmentReaderMatched : BOOLEAN,
                     commandReaderMatched : BOOLEAN,
                     assignmentSent : BOOLEAN, startSent : BOOLEAN]
           Pcs == {"off", "match", "target", "drone", "outcome", "pursue"}
<1>1. ASSUME NEW x \in Consoles, NEW a \in Pcs, NEW b \in Pcs, Poll(x, a, b),
             b = "pursue" => x \in Automated
      PROVE  /\ consolePc' \in [Consoles -> Pcs]
             /\ \A c \in Consoles : consolePc'[c] = "pursue" => c \in Automated
  BY <1>1 DEF Poll, LoopsOK
<1>2. automation' \in [Consoles -> Flags]
  <2>1. ASSUME NEW x \in Consoles, PollMatches(x) PROVE automation' \in [Consoles -> Flags]
    <3>1. /\ MatchedReader("assignments", x) \in BOOLEAN
          /\ MatchedReader("interception_commands", x) \in BOOLEAN
      BY DEF MatchedReader
    <3> QED
      BY <2>1, <3>1 DEF PollMatches, LoopsOK
  <2>2. ASSUME NEW x \in Consoles, AutomatePursuit(x) \/ RestartConsole(x)
        PROVE  automation' \in [Consoles -> Flags]
    <3>1. \/ automation' = automation
          \/ automation' = [automation EXCEPT ![x].assignmentSent = TRUE]
          \/ automation' = [automation EXCEPT ![x].startSent = TRUE]
          \/ automation' = [automation EXCEPT ![x] =
                              [assignmentReaderMatched |-> FALSE,
                               commandReaderMatched |-> FALSE,
                               assignmentSent |-> FALSE, startSent |-> FALSE]]
      BY <2>2 DEF AutomatePursuit, RestartConsole
    <3>2. automation \in [Consoles -> Flags]
      BY DEF LoopsOK
    <3>3. \A f \in Flags : /\ [f EXCEPT !.assignmentSent = TRUE] \in Flags
                          /\ [f EXCEPT !.startSent = TRUE] \in Flags
      OBVIOUS
    <3>4. \E f \in Flags : automation' \in {automation, [automation EXCEPT ![x] = f]}
      <4>1. [assignmentReaderMatched |-> FALSE, commandReaderMatched |-> FALSE,
             assignmentSent |-> FALSE, startSent |-> FALSE] \in Flags
        OBVIOUS
      <4>2. automation[x] \in Flags
        BY <3>2
      <4> HIDE DEF Flags
      <4> QED
        BY <3>1, <3>3, <4>1, <4>2
    <3> HIDE DEF Flags
    <3> QED
      BY <3>2, <3>4
  <2>3. ASSUME NEW x \in Consoles, ReceiveTarget(x) \/ ReceiveDrone(x) \/ ReceiveOutcome(x)
        PROVE  automation' = automation
    BY <2>3 DEF ReceiveTarget, ReceiveDrone, ReceiveOutcome
  <2>4. ASSUME \/ ObserverStep \/ InterceptorStep \/ Rests
               \/ \E e \in Endpoints : Discover(e) \/ Deliver(e)
               \/ RestartObserver \/ RestartInterceptor
        PROVE  automation' = automation
    BY <2>4 DEF ObserverStep, InterceptorStep, StartInterceptor, AdvanceClock,
       ReceiveAssignment, ReceiveTrack, ReceiveCommand, Tick, InterceptorOnly,
       Rests, Discover, Deliver, Quiet, RestartObserver, RestartInterceptor,
       consoleVars
  <2>5. automation' = automation => automation' \in [Consoles -> Flags]
    BY DEF LoopsOK
  <2> QED
    BY <2>1, <2>2, <2>3, <2>4, <2>5, StepKinds DEF Acts
<1>3. restarts' \in Nat
  <2>1. Acts \/ Rests \/ (\E e \in Endpoints : Discover(e) \/ Deliver(e))
          => restarts' = restarts
    BY ActsNetwork DEF Rests, Discover, Deliver, Quiet
  <2>2. RestartInterceptor \/ (\E c \in Consoles : RestartConsole(c)) \/ RestartObserver
          => restarts' = restarts + 1
    BY DEF RestartInterceptor, RestartConsole, RestartObserver, Kill
  <2> QED
    BY <2>1, <2>2, StepKinds DEF LoopsOK
<1>4. /\ consolePc' \in [Consoles -> Pcs]
      /\ \A c \in Consoles : consolePc'[c] = "pursue" => c \in Automated
  <2>1. ASSUME NEW x \in Consoles,
               \/ PollMatches(x) \/ ReceiveTarget(x) \/ ReceiveDrone(x)
               \/ ReceiveOutcome(x) \/ AutomatePursuit(x)
        PROVE  /\ consolePc' \in [Consoles -> Pcs]
               /\ \A c \in Consoles : consolePc'[c] = "pursue" => c \in Automated
    <3>1. PollMatches(x) => Poll(x, "match", "target")
      BY DEF PollMatches
    <3>2. ReceiveTarget(x) => Poll(x, "target", "drone")
      BY DEF ReceiveTarget
    <3>3. ReceiveDrone(x) => Poll(x, "drone", "outcome")
      BY DEF ReceiveDrone
    <3>4. ReceiveOutcome(x) =>
            Poll(x, "outcome", IF x \in Automated THEN "pursue" ELSE "match")
      BY DEF ReceiveOutcome
    <3>5. AutomatePursuit(x) => Poll(x, "pursue", "match")
      BY DEF AutomatePursuit
    <3> HIDE DEF Pcs
    <3>6. {"match", "target", "drone", "outcome", "pursue"} \subseteq Pcs
      BY DEF Pcs
    <3> QED
      BY <2>1, <1>1, <3>1, <3>2, <3>3, <3>4, <3>5, <3>6
  <2>2. ASSUME NEW x \in Consoles, consolePc' = [consolePc EXCEPT ![x] = "match"]
        PROVE  /\ consolePc' \in [Consoles -> Pcs]
               /\ \A c \in Consoles : consolePc'[c] = "pursue" => c \in Automated
    BY <2>2 DEF LoopsOK
  <2>3. ASSUME consolePc' = consolePc
        PROVE  /\ consolePc' \in [Consoles -> Pcs]
               /\ \A c \in Consoles : consolePc'[c] = "pursue" => c \in Automated
    BY <2>3 DEF LoopsOK
  <2>4. ASSUME \/ ObserverStep \/ InterceptorStep
               \/ \E e \in Endpoints : Discover(e) \/ Deliver(e)
               \/ RestartObserver \/ RestartInterceptor
        PROVE  consolePc' = consolePc
    BY <2>4 DEF ObserverStep, InterceptorStep, StartInterceptor, AdvanceClock,
       ReceiveAssignment, ReceiveTrack, ReceiveCommand, Tick, InterceptorOnly,
       Discover, Deliver, Quiet, RestartObserver, RestartInterceptor, consoleVars
  <2>5. ASSUME NEW x \in Consoles, RestartConsole(x)
        PROVE  consolePc' = [consolePc EXCEPT ![x] = "match"]
    BY <2>5 DEF RestartConsole
  <2>6. Rests => \/ consolePc' = consolePc
                 \/ \E x \in Consoles : consolePc' = [consolePc EXCEPT ![x] = "match"]
    BY DEF Rests
  <2> HIDE DEF Pcs
  <2> QED
    BY <2>1, <2>2, <2>3, <2>4, <2>5, <2>6, StepKinds DEF Acts
<1> QED
  BY <1>2, <1>3, <1>4 DEF LoopsOK

\* What the checks of the automated pursuit rest on.
LEMMA MayAssignSays ==
  ASSUME DesksOK, NEW c \in Consoles, MayAssign(c)
  PROVE  /\ targetTracks[c][target] # None /\ droneStates[c][drone] # None
         /\ droneStates[c][drone].status = "available"
         /\ assignmentWriter[c][drone] = None
         /\ ~automation[c].assignmentSent
BY DesksSay, DeskAssumptions DEF MayAssign, C!AssignmentResult

LEMMA MayStartSays ==
  ASSUME DesksOK, NEW c \in Consoles, MayStart(c)
  PROVE  /\ droneStates[c][drone] # None
         /\ droneStates[c][drone].status = "assigned"
         /\ droneStates[c][drone].assignedTargetId = target
         /\ commandWriter[c] = {}
         /\ automation[c].assignmentSent
<1>1. /\ droneStates[c][drone] # None
      /\ droneStates[c][drone].status = "assigned"
      /\ drone \notin pendingStarts[c]
      /\ automation[c].assignmentSent
  BY DEF MayStart, C!StartResult
<1> QED
  BY <1>1, DesksSay, StateFields

\* A track that a console takes is what it then shows, or it shows a newer one.
LEMMA TakenTrack ==
  ASSUME DesksOK, NEW c \in Consoles, NEW x \in CP!TargetTracks,
         C!ReceiveTarget(c, x)
  PROVE  /\ targetTracks'[c][target] \in {x, targetTracks[c][target]}
         /\ targetTracks'[c][target] # None
         /\ targetTracks'[c][target].measuredAt >= x.measuredAt
<1>1. /\ x.targetId = target /\ x.measuredAt \in Nat /\ x # None
      /\ targetTracks[c][target] # None => targetTracks[c][target].measuredAt \in Nat
  BY DesksSay, DeskAssumptions DEF CP!TargetTracks
<1>2. targetTracks' = IF C!TargetUpdateResult(c, x) \in {"added", "updated"}
                      THEN [targetTracks EXCEPT ![c][target] = x]
                      ELSE targetTracks
  BY <1>1 DEF C!ReceiveTarget
<1>3. CASE C!TargetUpdateResult(c, x) \in {"added", "updated"}
  <2>1. targetTracks'[c][target] = x
    BY <1>2, <1>3 DEF DesksOK, CP!CInv, CP!TypeOK
  <2> QED
    BY <1>1, <2>1
<1>4. CASE C!TargetUpdateResult(c, x) \notin {"added", "updated"}
  <2>1. /\ targetTracks[c][target] # None
        /\ \/ x = targetTracks[c][target]
           \/ x.measuredAt <= targetTracks[c][target].measuredAt
    BY <1>1, <1>4 DEF C!TargetUpdateResult
  <2> QED
    BY <1>1, <1>2, <1>4, <2>1
<1> QED
  BY <1>3, <1>4

\* The same for the drone's reports.  The one that is replaced is older.
LEMMA TakenState ==
  ASSUME DesksOK, NEW c \in Consoles, NEW v \in CP!DroneStates,
         C!ReceiveDrone(c, v)
  PROVE  /\ droneStates'[c][drone] \in {v, droneStates[c][drone]}
         /\ droneStates'[c][drone] # None
         /\ droneStates'[c][drone].reportedAt >= v.reportedAt
         /\ droneStates[c][drone] # None =>
              \/ droneStates'[c][drone] = droneStates[c][drone]
              \/ droneStates[c][drone].reportedAt < v.reportedAt
<1>1. /\ v.droneId = drone /\ v.reportedAt \in Nat /\ v # None
      /\ droneStates[c][drone] # None => droneStates[c][drone].reportedAt \in Nat
  BY DesksSay, StateFields
<1>2. droneStates' = IF C!DroneUpdateResult(c, v) \in {"added", "updated"}
                     THEN [droneStates EXCEPT ![c][drone] = v]
                     ELSE droneStates
  BY <1>1 DEF C!ReceiveDrone
<1>3. CASE C!DroneUpdateResult(c, v) \in {"added", "updated"}
  <2>1. droneStates'[c][drone] = v
    BY <1>2, <1>3 DEF DesksOK, CP!CInv, CP!TypeOK
  <2>2. droneStates[c][drone] # None => droneStates[c][drone].reportedAt < v.reportedAt
    BY <1>1, <1>3 DEF C!DroneUpdateResult
  <2> QED
    BY <1>1, <2>1, <2>2
<1>4. CASE C!DroneUpdateResult(c, v) \notin {"added", "updated"}
  <2>1. /\ droneStates[c][drone] # None
        /\ \/ v = droneStates[c][drone]
           \/ v.reportedAt <= droneStates[c][drone].reportedAt
    BY <1>1, <1>4 DEF C!DroneUpdateResult
  <2> QED
    BY <1>1, <1>2, <1>4, <2>1
<1> QED
  BY <1>3, <1>4

\* An outcome is recorded under its identity, or the table stays as it is.
LEMMA TakenEvent ==
  ASSUME DesksOK, NEW c \in Consoles, NEW e \in CP!ExplosionEvents,
         C!ReceiveOutcome(c, e)
  PROVE  \/ outcomes' = outcomes /\ C!OutcomeUpdateResult(c, e) # "recorded"
         \/ /\ outcomes'[c][e.eventId] = e
            /\ \A id \in CommandIds : id # e.eventId => outcomes'[c][id] = outcomes[c][id]
BY EventFields DEF C!ReceiveOutcome, DesksOK, CP!CInv, CP!TypeOK

\* A console never forgets, except in a restart.
LEMMA SentKept ==
  ASSUME SentOK, LoopsOK, DesksOK, InboxOK, [Next]_vars
  PROVE  SentOK'
<1> SUFFICES ASSUME NEW c \in Consoles
             PROVE  /\ automation'[c].assignmentSent =>
                         c \in Automated /\ targetTracks'[c][target] # None
                    /\ assignmentWriter'[c][drone] # None =>
                         automation'[c].assignmentSent
                    /\ commandWriter'[c] # {} => automation'[c].assignmentSent
  BY DEF SentOK
<1>1. CASE RestartConsole(c)
  BY <1>1 DEF RestartConsole, LoopsOK, DesksOK, CP!CInv, CP!TypeOK
<1>2. ASSUME ~RestartConsole(c), targetTracks[c][target] # None
      PROVE  targetTracks'[c][target] # None
  <2>1. ASSUME NEW m \in D!Cached("target_tracks", c), C!ReceiveTarget(c, m.value)
        PROVE  targetTracks'[c][target] # None
    BY <2>1, TakenTrack, CachedParts, MeasuredIsTrack DEF IsTrackMessage
  <2> QED
    BY <1>2, <2>1, ProjectionMoves
<1>3. CASE AutomatePursuit(c) /\ MayAssign(c) /\ ~RestartConsole(c)
  <2>1. c \in Automated
    BY <1>3 DEF AutomatePursuit, Poll, LoopsOK
  <2> QED
    BY <1>2, <1>3, <2>1, MayAssignSays, IntentMoves, MayStartSays DEF SentOK
<1>4. CASE AutomatePursuit(c) /\ MayStart(c) /\ ~RestartConsole(c)
  BY <1>2, <1>4, IntentMoves, MayStartSays, MayAssignSays DEF SentOK
<1>5. CASE /\ ~RestartConsole(c)
           /\ assignmentWriter'[c] = assignmentWriter[c]
           /\ commandWriter'[c] = commandWriter[c]
           /\ automation'[c].assignmentSent = automation[c].assignmentSent
  BY <1>2, <1>5 DEF SentOK
<1> QED
  BY <1>1, <1>3, <1>4, <1>5, IntentMoves

\* A delivery: one sample of one endpoint replaces what the reader held of its
\* key, and nothing else happens.
LEMMA DeliverParts ==
  ASSUME UnsentOK, NEW e \in Endpoints, Deliver(e)
  PROVE  /\ Quiet /\ e \in matched /\ matched' = matched
         /\ \E s \in Written :
              /\ s.topic = e.topic /\ s.writer = e.writer
              /\ [endpoint |-> e, key |-> s.key] \in unsent
              /\ unsent' = unsent \ {[endpoint |-> e, key |-> s.key]}
              /\ inbox' = {m \in inbox : ~ /\ m.topic = e.topic
                                           /\ m.reader = e.reader
                                           /\ m.key = s.key}
                          \cup {[topic |-> e.topic, reader |-> e.reader,
                                 key |-> s.key, value |-> s.value]}
<1>1. PICK u \in unsent, s \in Written :
        /\ u.endpoint = e
        /\ s.topic = e.topic /\ s.writer = e.writer /\ s.key = u.key
        /\ D!Deliver(u, s.value)
  BY DEF Deliver
<1>2. u = [endpoint |-> e, key |-> s.key] /\ e \in matched
  BY <1>1 DEF UnsentOK
<1>3. /\ matched' = matched /\ unsent' = unsent \ {u}
      /\ inbox' = {m \in inbox : ~ /\ m.topic = e.topic
                                   /\ m.reader = e.reader
                                   /\ m.key = s.key}
                  \cup {[topic |-> e.topic, reader |-> e.reader,
                         key |-> s.key, value |-> s.value]}
  BY <1>1 DEF D!Deliver
<1> QED
  BY <1>1, <1>2, <1>3 DEF Deliver

\* A process that leaves takes its endpoints with it.
LEMMA LeaveParts ==
  ASSUME NEW p, D!Leave(p)
  PROVE  /\ matched' = {e \in matched : e.writer # p /\ e.reader # p}
         /\ unsent' = {u \in unsent : u.endpoint.writer # p /\ u.endpoint.reader # p}
         /\ inbox' = {m \in inbox : m.reader # p}
BY DEF D!Leave

LEMMA Restarts ==
  /\ RestartInterceptor => D!Leave("interceptor") /\ restarts' = restarts + 1
  /\ \A c \in Consoles : RestartConsole(c) => D!Leave(c) /\ restarts' = restarts + 1
  /\ RestartObserver => D!Leave("observer") /\ restarts' = restarts + 1
BY DEF RestartInterceptor, RestartConsole, RestartObserver, Kill

\* Whatever is written is a message of its topic.
LEMMA WrittenTyped ==
  ASSUME ObserverOK, MachineOK, DesksOK, NEW s \in Written
  PROVE  \/ /\ s.topic = "target_tracks" /\ s.writer = "observer"
            /\ s.key = target /\ trackWriter # None /\ s.value = trackWriter
            /\ s.value = Measured(s.value.measuredAt) /\ s.value.measuredAt \in Nat
         \/ /\ s.topic = "drone_states" /\ s.writer = "interceptor"
            /\ s.key = drone /\ state # None /\ s.value = state
            /\ s.value \in CP!DroneStates
         \/ /\ s.topic = "explosion_events" /\ s.writer = "interceptor"
            /\ s.key = s.value.eventId /\ s.value \in eventWriter
            /\ s.value \in CP!ExplosionEvents
         \/ /\ s.topic = "assignments" /\ s.writer \in Consoles /\ s.key = drone
            /\ assignmentWriter[s.writer][drone] # None
            /\ s.value = [droneId |-> drone, targetId |-> target]
         \/ /\ s.topic = "interception_commands" /\ s.writer \in Consoles
            /\ s.key = s.value.commandId /\ s.value \in commandWriter[s.writer]
            /\ s.value \in IP!InterceptionCommands
<1> USE DEF Sample
<1>1. CASE trackWriter # None
           /\ s = Sample("target_tracks", "observer", target, trackWriter)
  <2>1. tickIndex - 1 \in Nat /\ trackWriter = Measured(tickIndex - 1)
    BY <1>1, SystemAssumption DEF ObserverOK
  <2>2. Measured(tickIndex - 1).measuredAt = tickIndex - 1
    BY DEF Measured
  <2> QED
    BY <1>1, <2>1, <2>2
<1>2. CASE stateWriter # None
           /\ s = Sample("drone_states", "interceptor", drone, stateWriter)
  BY <1>2, MachineSays
<1>3. CASE \E e \in eventWriter :
             s = Sample("explosion_events", "interceptor", e.eventId, e)
  BY <1>3, MachineSays
<1>4. CASE \E c \in Consoles : assignmentWriter[c][drone] # None
             /\ s = Sample("assignments", c, drone,
                      [droneId |-> drone, targetId |-> assignmentWriter[c][drone]])
  BY <1>4, DesksSay
<1>5. CASE \E c \in Consoles : \E m \in commandWriter[c] :
             s = Sample("interception_commands", c, m.commandId, m)
  BY <1>5, DesksSay
<1> QED
  BY <1>1, <1>2, <1>3, <1>4, <1>5, WrittenParts

LEMMA InboxKept ==
  ASSUME ObserverOK, MachineOK, DesksOK, UnsentOK, InboxOK, [Next]_vars
  PROVE  InboxOK'
<1> DEFINE Good(m) ==
      /\ m = [topic |-> m.topic, reader |-> m.reader, key |-> m.key,
              value |-> m.value]
      /\ \/ IsTrackMessage(m) \/ IsStateMessage(m) \/ IsEventMessage(m)
         \/ IsAssignmentMessage(m) \/ IsCommandMessage(m)
<1>1. ASSUME \A m \in inbox' : Good(m) PROVE InboxOK'
  BY <1>1 DEF InboxOK, IsTrackMessage, IsStateMessage, IsEventMessage,
     IsAssignmentMessage, IsCommandMessage, Measured, CP!DroneStates,
     CP!ExplosionEvents, IP!InterceptionCommands
<1>2. \A m \in inbox : Good(m)
  BY DEF InboxOK
<1>3. CASE inbox' \subseteq inbox
  BY <1>1, <1>2, <1>3
<1>4. ASSUME NEW e \in Endpoints, Deliver(e)
      PROVE  InboxOK'
  <2>1. PICK s \in Written :
          /\ s.topic = e.topic /\ s.writer = e.writer
          /\ inbox' \subseteq inbox \cup
               {[topic |-> e.topic, reader |-> e.reader, key |-> s.key,
                 value |-> s.value]}
    BY <1>4, DeliverParts
  <2> DEFINE new == [topic |-> e.topic, reader |-> e.reader, key |-> s.key,
                     value |-> s.value]
  <2>2. Good(new)
    <3>1. e.topic \in {"assignments", "interception_commands"} =>
            e.reader = "interceptor"
      BY EndpointParts
    <3> QED
      BY <2>1, <3>1, WrittenTyped DEF IsTrackMessage, IsStateMessage,
         IsEventMessage, IsAssignmentMessage, IsCommandMessage
  <2> HIDE DEF new
  <2>3. inbox' \subseteq inbox \cup {new}
    BY <2>1 DEF new
  <2> HIDE DEF Good
  <2> QED
    BY <1>1, <1>2, <2>2, <2>3
<1>5. ~(\E e \in Endpoints : Deliver(e)) => inbox' \subseteq inbox
  BY StepKinds, ActsNetwork, MatchParts, LeaveParts, Restarts
     DEF Rests, network, Discover
<1> QED
  BY <1>3, <1>4, <1>5

LEMMA UnsentKept ==
  ASSUME LoopsOK, DesksOK, UnsentOK, InboxOK, [Next]_vars
  PROVE  UnsentOK'
<1> DEFINE Good(u) ==
      /\ u = [endpoint |-> u.endpoint, key |-> u.key]
      /\ u.endpoint.topic = "assignments" => u.key = drone
      /\ u.endpoint.topic = "interception_commands" =>
           \E m \in commandWriter'[u.endpoint.writer] : m.commandId = u.key
<1>1. ASSUME matched' \subseteq Endpoints,
             \A u \in unsent' : u.endpoint \in matched' /\ Good(u)
      PROVE  UnsentOK'
  BY <1>1 DEF UnsentOK, Endpoints, Endpoint
<1>2. ASSUME NEW u \in unsent, ~RestartConsole(u.endpoint.writer)
      PROVE  Good(u)
  <2>1. u.endpoint \in Endpoints
    BY DEF UnsentOK
  <2>2. u.endpoint.topic = "interception_commands" => u.endpoint.writer \in Consoles
    BY <2>1, EndpointParts
  <2>3. ASSUME NEW c \in Consoles, ~RestartConsole(c)
        PROVE  commandWriter[c] \subseteq commandWriter'[c]
    BY <2>3, IntentMoves
  <2> QED
    BY <1>2, <2>2, <2>3 DEF UnsentOK
<1>3. ASSUME NEW p, D!Leave(p) PROVE UnsentOK'
  <2>1. /\ matched' = {e \in matched : e.writer # p /\ e.reader # p}
        /\ unsent' = {u \in unsent : u.endpoint.writer # p /\ u.endpoint.reader # p}
    BY <1>3, LeaveParts
  <2>2. \A u \in unsent' : u.endpoint \in matched'
    BY <2>1 DEF UnsentOK
  <2>3. \A u \in unsent' : Good(u)
    <3> SUFFICES ASSUME NEW u \in unsent' PROVE Good(u)
      OBVIOUS
    <3>1. u \in unsent /\ u.endpoint.writer # p
      BY <2>1
    <3>2. CASE u.endpoint.writer \in Consoles
      BY <1>2, <3>1, <3>2, LeaveParts, Restarts
    <3>3. CASE u.endpoint.writer \notin Consoles
      <4>1. u.endpoint.topic \notin {"assignments", "interception_commands"}
        BY <3>1, <3>3, EndpointParts DEF UnsentOK
      <4> QED
        BY <3>1, <4>1 DEF UnsentOK
    <3> QED
      BY <3>2, <3>3
  <2> QED
    BY <1>1, <2>1, <2>2, <2>3 DEF UnsentOK
<1>4. CASE Acts
  <2>1. ASSUME NEW u \in unsent' \ unsent PROVE u.endpoint \in matched /\ Good(u)
    <3>1. PICK s \in Written' :
            /\ s.topic = u.endpoint.topic
            /\ s.writer = u.endpoint.writer /\ s.key = u.key
      BY <1>4, ActsNetwork, SendParts
    <3>2. /\ s.topic = "assignments" => s.key = drone
          /\ s.topic = "interception_commands" =>
               \E m \in commandWriter'[s.writer] : m.commandId = s.key
      BY <3>1, WrittenParts DEF Sample
    <3> QED
      BY <1>4, <3>1, <3>2, ActsNetwork, SendParts
  <2>2. ASSUME NEW u \in unsent' \cap unsent PROVE u.endpoint \in matched /\ Good(u)
    <3>1. CASE RestartConsole(u.endpoint.writer)
      BY <2>2, <3>1 DEF RestartConsole, Kill, D!Leave
    <3> QED
      BY <1>2, <3>1 DEF UnsentOK
  <2> QED
    BY <1>1, <1>4, <2>1, <2>2, ActsNetwork, SendParts DEF UnsentOK
<1>5. ASSUME matched' = matched, unsent' \subseteq unsent,
             \A c \in Consoles : commandWriter'[c] = commandWriter[c]
      PROVE  UnsentOK'
  <2>1. ASSUME NEW u \in unsent PROVE u.endpoint \in matched /\ Good(u)
    <3>1. u.endpoint.topic = "interception_commands" => u.endpoint.writer \in Consoles
      BY EndpointParts DEF UnsentOK
    <3> QED
      BY <1>5, <3>1 DEF UnsentOK
  <2> QED
    BY <1>1, <1>5, <2>1 DEF UnsentOK
<1>6. ASSUME NEW e \in Endpoints, Discover(e) PROVE UnsentOK'
  <2>1. /\ matched' = matched \cup {e} /\ D!Match(e, Written)
        /\ commandWriter' = commandWriter
    BY <1>6, MatchParts DEF Discover, Quiet, consoleVars, desks
  <2>2. ASSUME NEW u \in unsent' \ unsent PROVE u.endpoint \in matched' /\ Good(u)
    BY <2>1, <2>2, MatchParts
  <2>3. ASSUME NEW u \in unsent PROVE u.endpoint \in matched' /\ Good(u)
    BY <2>1 DEF UnsentOK
  <2> QED
    BY <1>1, <2>1, <2>2, <2>3 DEF UnsentOK
<1>7. ASSUME NEW e \in Endpoints, Deliver(e) PROVE UnsentOK'
  BY <1>5, <1>7, DeliverParts DEF Quiet, consoleVars, desks
<1>8. CASE Rests
  BY <1>5, <1>8 DEF Rests, network, desks
<1> QED
  BY <1>3, <1>4, <1>6, <1>7, <1>8, StepKinds, Restarts

LEMMA TypesKept ==
  ASSUME TypesOK, [Next]_vars
  PROVE  TypesOK'
BY ObserverKept, MachineKept, DesksKept, LoopsKept, SentKept, UnsentKept,
   InboxKept DEF TypesOK

-----------------------------------------------------------------------------
(* What readers hold and show comes from the past of the writers.          *)

LEMMA ArrivedParts ==
  /\ \A topic, v : v \in Arrived(topic) <=>
       \E m \in inbox : m.topic = topic /\ v = m.value
  /\ \A topic, v : v \in Arrived(topic)' <=>
       \E m \in inbox' : m.topic = topic /\ v = m.value
BY DEF Arrived

LEMMA ArrivedGrows ==
  ASSUME UnsentOK, [Next]_vars, NEW topic, NEW v \in Arrived(topic)'
  PROVE  v \in Arrived(topic) \/ \E s \in Written : s.topic = topic /\ v = s.value
<1>1. PICK m \in inbox' : m.topic = topic /\ v = m.value
  BY ArrivedParts
<1>2. CASE m \in inbox
  BY <1>1, <1>2, ArrivedParts
<1>3. ASSUME NEW e \in Endpoints, Deliver(e), m \notin inbox
      PROVE  \E s \in Written : s.topic = topic /\ v = s.value
  <2>1. PICK s \in Written :
          /\ s.topic = e.topic
          /\ inbox' = {x \in inbox : ~ /\ x.topic = e.topic
                                       /\ x.reader = e.reader
                                       /\ x.key = s.key}
                      \cup {[topic |-> e.topic, reader |-> e.reader,
                             key |-> s.key, value |-> s.value]}
    BY <1>3, DeliverParts
  <2>2. m = [topic |-> e.topic, reader |-> e.reader, key |-> s.key,
             value |-> s.value]
    BY <1>3, <2>1
  <2> QED
    BY <1>1, <2>1, <2>2
<1>4. ~(\E e \in Endpoints : Deliver(e)) => inbox' \subseteq inbox
  BY StepKinds, ActsNetwork, MatchParts, LeaveParts, Restarts
     DEF Rests, network, Discover
<1> QED
  BY <1>2, <1>3, <1>4

\* The values of the past are of the type of their topic.
LEMMA PastTyped ==
  ASSUME DesksOK, InboxOK, PastTracksOK
  PROVE  /\ \A x \in PastTracks : /\ x \in CP!TargetTracks /\ x # None
                                  /\ x.measuredAt \in Nat
         /\ PastStates \subseteq CP!DroneStates
         /\ PastEvents \subseteq CP!ExplosionEvents
<1>1. \A x \in PastTracks : /\ x \in CP!TargetTracks /\ x # None
                            /\ x.measuredAt \in Nat
  BY MeasuredIsTrack DEF PastTracksOK
<1>2. /\ Arrived("drone_states") \subseteq CP!DroneStates
      /\ Arrived("explosion_events") \subseteq CP!ExplosionEvents
  BY ArrivedParts DEF InboxOK, IsTrackMessage, IsStateMessage, IsEventMessage,
     IsAssignmentMessage, IsCommandMessage
<1> QED
  BY <1>1, <1>2, DesksSay DEF PastStates, PastEvents

\* A step adds to the past what the writers held, and nothing else.
LEMMA PastGrows ==
  ASSUME TypesOK, [Next]_vars
  PROVE  /\ PastTracks' \subseteq PastTracks \cup ({trackWriter} \ {None})
         /\ PastStates' \subseteq PastStates \cup ({state} \ {None})
         /\ PastEvents' \subseteq PastEvents \cup eventWriter
<1> USE DEF TypesOK
<1>1. ASSUME NEW v \in Arrived("target_tracks")'
      PROVE  v \in Arrived("target_tracks") \cup ({trackWriter} \ {None})
  BY ArrivedGrows, WrittenTyped
<1>2. ASSUME NEW v \in Arrived("drone_states")'
      PROVE  v \in Arrived("drone_states") \cup ({state} \ {None})
  BY ArrivedGrows, WrittenTyped
<1>3. ASSUME NEW v \in Arrived("explosion_events")'
      PROVE  v \in Arrived("explosion_events") \cup eventWriter
  BY ArrivedGrows, WrittenTyped
<1>4. ASSUME NEW c \in Consoles, targetTracks'[c][target] # None
      PROVE  targetTracks'[c][target] \in PastTracks
  <2>1. ASSUME NEW m \in D!Cached("target_tracks", c), C!ReceiveTarget(c, m.value)
        PROVE  targetTracks'[c][target] \in {m.value, targetTracks[c][target]}
               /\ m.value \in Arrived("target_tracks")
    BY <2>1, TakenTrack, CachedParts, MeasuredIsTrack, ArrivedParts DEF IsTrackMessage
  <2>2. RestartConsole(c) => targetTracks'[c][target] = None
    BY DEF RestartConsole, DesksOK, CP!CInv, CP!TypeOK
  <2> QED
    BY <1>4, <2>1, <2>2, ProjectionMoves DEF PastTracks
<1>5. ASSUME NEW c \in Consoles, droneStates'[c][drone] # None
      PROVE  droneStates'[c][drone] \in PastStates
  <2>1. ASSUME NEW m \in D!Cached("drone_states", c), C!ReceiveDrone(c, m.value)
        PROVE  droneStates'[c][drone] \in {m.value, droneStates[c][drone]}
               /\ m.value \in Arrived("drone_states")
    BY <2>1, TakenState, CachedParts, ArrivedParts DEF IsStateMessage
  <2>2. RestartConsole(c) => droneStates'[c][drone] = None
    BY DEF RestartConsole, DesksOK, CP!CInv, CP!TypeOK
  <2> QED
    BY <1>5, <2>1, <2>2, ProjectionMoves DEF PastStates
<1>6. ASSUME NEW c \in Consoles, NEW id \in CommandIds, outcomes'[c][id] # None
      PROVE  outcomes'[c][id] \in PastEvents
  <2>1. ASSUME NEW m \in D!Cached("explosion_events", c), C!ReceiveOutcome(c, m.value)
        PROVE  outcomes'[c][id] \in {m.value, outcomes[c][id]}
               /\ m.value \in Arrived("explosion_events")
    BY <2>1, TakenEvent, CachedParts, ArrivedParts DEF IsEventMessage
  <2>2. RestartConsole(c) => outcomes'[c][id] = None
    BY DEF RestartConsole, DesksOK, CP!CInv, CP!TypeOK
  <2> QED
    BY <1>6, <2>1, <2>2, ProjectionMoves DEF PastEvents
<1>7. PastTracks' \subseteq PastTracks \cup ({trackWriter} \ {None})
  BY <1>1, <1>4 DEF PastTracks
<1>8. PastStates' \subseteq PastStates \cup ({state} \ {None})
  BY <1>2, <1>5 DEF PastStates
<1>9. PastEvents' \subseteq PastEvents \cup eventWriter
  BY <1>3, <1>6 DEF PastEvents
<1> QED
  BY <1>7, <1>8, <1>9

\* Without a restart, the writers move forward.
LEMMA WritersAdvance ==
  ASSUME TypesOK, [Next]_vars, restarts' = 0
  PROVE  /\ restarts = 0
         /\ \/ trackWriter' = trackWriter
            \/ /\ trackWriter' # None
               /\ trackWriter # None => trackWriter.measuredAt <= trackWriter'.measuredAt
         /\ \/ state' = state
            \/ /\ state' # None
               /\ state # None => /\ state.reportedAt <= state'.reportedAt
                                  /\ I!Rank(state) <= I!Rank(state')
               /\ state # None /\ state'.status \in I!Outcomes =>
                    state.reportedAt < state'.reportedAt
         /\ eventWriter \subseteq eventWriter'
<1> USE DEF TypesOK
<1>1. /\ restarts = 0 /\ ~RestartInterceptor /\ ~RestartObserver
      /\ \A c \in Consoles : ~RestartConsole(c)
  <2>1. restarts' = restarts \/ restarts' = restarts + 1
    BY StepKinds, ActsNetwork, Restarts DEF Rests, Discover, Deliver, Quiet
  <2> QED
    BY <2>1, Restarts DEF LoopsOK
<1>2. \/ trackWriter' = trackWriter
      \/ /\ trackWriter' # None
         /\ trackWriter # None => trackWriter.measuredAt <= trackWriter'.measuredAt
  <2>1. CASE O!RadarTick
    <3>1. trackWriter' = Measured(tickIndex) /\ tickIndex \in Nat
      BY <2>1, SystemAssumption DEF O!RadarTick, O!OnDetection, O!Detection,
         Measured, ObserverOK
    <3>2. trackWriter # None =>
            trackWriter = Measured(tickIndex - 1) /\ tickIndex - 1 \in Nat
      BY SystemAssumption DEF ObserverOK
    <3> QED
      BY <3>1, <3>2, MeasuredIsTrack
  <2> QED
    BY <1>1, <2>1, ObserverSteps DEF observed
<1>3. /\ \/ state' = state
         \/ /\ state' # None
            /\ state # None => /\ state.reportedAt <= state'.reportedAt
                               /\ I!Rank(state) <= I!Rank(state')
            /\ state # None /\ state'.status \in I!Outcomes =>
                 state.reportedAt < state'.reportedAt
      /\ eventWriter \subseteq eventWriter'
  <2>1. CASE UNCHANGED machine
    BY <2>1 DEF machine
  <2>2. CASE \E m \in D!Cached("target_tracks", "interceptor") :
               IP!OnTargetTrack(m.value)
    BY <2>2 DEF IP!OnTargetTrack
  <2>3. CASE IP!Next
    <3>1. eventWriter \subseteq eventWriter'
      BY <2>3 DEF IP!Next, IP!Start, IP!AdvanceTime, IP!OnAssignment,
         IP!OnTargetTrack, IP!ReceiveCommand, IP!Tick, IP!TickIdle,
         IP!TickMoves, IP!TickArrives, IP!PublishEvent, IP!vars
    <3>2. ASSUME state' # state
          PROVE  /\ state' # None
                 /\ IP!Rank(state') - IP!Rank(state) \in {0, 1}
                 /\ state # None => state'.reportedAt >= state.reportedAt
                 /\ state'.status \in IP!Outcomes =>
                      state.reportedAt < state'.reportedAt
      BY <2>3, <3>2, IP!StepAdvances, IP!OutcomeIsLater, MachineAssumptions
         DEF MachineOK
    <3>3. state' # None => state' \in CP!DroneStates
      BY MachineKept, MachineAssumptions DEF MachineOK, IP!IInv, IP!TypeOK,
         IP!DroneStates, IP!Statuses, CP!DroneStates, IP!Started
    <3>4. state # None => /\ state \in CP!DroneStates
                          /\ state.reportedAt \in Nat
      BY MachineSays, StateFields
    <3>5. state # None /\ state' # None =>
            /\ I!Rank(state) = IP!Rank(state) /\ I!Rank(state') = IP!Rank(state')
            /\ I!Rank(state) \in Nat /\ I!Rank(state') \in Nat
            /\ state'.reportedAt \in Nat
      BY <3>3, <3>4, Stages, StateFields
    <3> QED
      BY <3>1, <3>2, <3>4, <3>5 DEF I!Outcomes, IP!Outcomes
  <2> QED
    BY <1>1, <2>1, <2>2, <2>3, MachineSteps
<1> QED
  BY <1>1, <1>2, <1>3

\* The next report is a report.
LEMMA NextReport ==
  ASSUME TypesOK, [Next]_vars
  PROVE  /\ TypesOK'
         /\ state' # None => /\ state' \in CP!DroneStates
                             /\ state'.reportedAt \in Nat /\ I!Rank(state') \in 1..4
         /\ stateWriter' = state'
<1>1. TypesOK'
  BY TypesKept
<1>2. state' # None => state' \in CP!DroneStates
  BY <1>1, MachineAssumptions DEF TypesOK, MachineOK, IP!IInv, IP!TypeOK,
     IP!DroneStates, IP!Statuses, CP!DroneStates, IP!Started
<1>3. stateWriter' = state'
  BY <1>1 DEF TypesOK, MachineOK, IP!IInv, IP!StateIsPublished, IP!Running
<1> QED
  BY <1>1, <1>2, <1>3, StateFields, Stages

LEMMA PastTracksKept ==
  ASSUME TypesOK, PastTracksOK, [Next]_vars
  PROVE  PastTracksOK'
<1> SUFFICES ASSUME NEW x \in PastTracks'
             PROVE  /\ x = Measured(x.measuredAt) /\ x.measuredAt \in Nat
                    /\ restarts' = 0 => /\ trackWriter' # None
                                        /\ x.measuredAt <= trackWriter'.measuredAt
  BY DEF PastTracksOK, Measured
<1>1. \A y : y = trackWriter /\ y # None =>
        y = Measured(y.measuredAt) /\ y.measuredAt \in Nat
  <2>1. trackWriter # None =>
          trackWriter = Measured(tickIndex - 1) /\ tickIndex - 1 \in Nat
    BY SystemAssumption DEF TypesOK, ObserverOK
  <2> QED
    BY <2>1, MeasuredIsTrack
<1>2. trackWriter' # None => trackWriter'.measuredAt \in Nat
  <2>1. ObserverOK'
    BY NextReport DEF TypesOK
  <2>2. trackWriter' =
          IF tickIndex' = 0 THEN None
          ELSE [targetId |-> target,
                position |-> TargetStart + TargetVelocity * (tickIndex' - 1),
                measuredAt |-> tickIndex' - 1]
    BY <2>1 DEF ObserverOK, Measured
  <2>3. trackWriter' # None => /\ trackWriter'.measuredAt = tickIndex' - 1
                              /\ tickIndex' # 0
    BY <2>2
  <2>4. MaxTicks \in Nat
    BY SystemAssumption
  <2>5. tickIndex' \in 0..MaxTicks
    BY <2>1 DEF ObserverOK
  <2>6. \A k \in 0..MaxTicks : k # 0 => k - 1 \in Nat
    BY <2>4
  <2> QED
    BY <2>3, <2>5, <2>6
<1>3. x \in PastTracks \/ (x = trackWriter /\ x # None)
  BY PastGrows
<1>4. /\ x = Measured(x.measuredAt) /\ x.measuredAt \in Nat
      /\ restarts = 0 => /\ trackWriter # None
                         /\ x.measuredAt <= trackWriter.measuredAt
  BY <1>1, <1>3 DEF PastTracksOK
<1>5. ASSUME restarts' = 0
      PROVE  trackWriter' # None /\ x.measuredAt <= trackWriter'.measuredAt
  BY <1>1, <1>2, <1>4, <1>5, WritersAdvance
<1> QED
  BY <1>4, <1>5

LEMMA PastStatesKept ==
  ASSUME TypesOK, PastTracksOK, PastStatesOK, [Next]_vars
  PROVE  PastStatesOK'
<1> USE DEF TypesOK
<1> SUFFICES ASSUME restarts' = 0
             PROVE  /\ \A v \in PastStates' :
                         /\ state' # None
                         /\ v.reportedAt <= state'.reportedAt
                         /\ I!Rank(v) <= I!Rank(state')
                         /\ v.reportedAt = state'.reportedAt
                            /\ state'.status \in I!Outcomes => v = state'
                    /\ \A v, w \in PastStates' :
                         v.reportedAt < w.reportedAt => I!Rank(v) <= I!Rank(w)
  BY DEF PastStatesOK, I!Rank, I!Outcomes
<1>1. restarts = 0
  BY WritersAdvance
<1>2. \A v \in PastStates' : v \in PastStates \/ (v = state /\ v # None)
  BY PastGrows
<1>3. state # None => /\ state \in CP!DroneStates /\ state.reportedAt \in Nat
                      /\ I!Rank(state) \in 1..4
  BY MachineSays, StateFields, Stages
<1>4. ASSUME NEW v \in PastStates'
      PROVE  /\ v \in CP!DroneStates /\ v.reportedAt \in Nat /\ I!Rank(v) \in 1..4
             /\ state # None
             /\ v.reportedAt <= state.reportedAt /\ I!Rank(v) <= I!Rank(state)
             /\ v.reportedAt = state.reportedAt /\ state.status \in I!Outcomes
                  => v = state
  <2>1. CASE v \in PastStates
    <3>1. v \in CP!DroneStates
      BY <2>1, PastTyped
    <3> QED
      BY <1>1, <2>1, <3>1, StateFields, Stages DEF PastStatesOK
  <2>2. CASE v = state /\ v # None
    BY <1>3, <2>2
  <2> QED
    BY <1>2, <2>1, <2>2
<1>5. ASSUME NEW v \in PastStates'
      PROVE  /\ state' # None
             /\ v.reportedAt <= state'.reportedAt /\ I!Rank(v) <= I!Rank(state')
             /\ v.reportedAt = state'.reportedAt /\ state'.status \in I!Outcomes
                  => v = state'
  <2>1. CASE state' = state
    <3>1. I!Rank(state') = I!Rank(state)
      BY <2>1
    <3> QED
      BY <1>4, <2>1, <3>1
  <2>2. CASE state' # state
    BY <1>3, <1>4, <2>2, WritersAdvance, NextReport
  <2> QED
    BY <2>1, <2>2
<1>6. ASSUME NEW v \in PastStates', NEW w \in PastStates',
             v.reportedAt < w.reportedAt
      PROVE  I!Rank(v) <= I!Rank(w)
  <2>1. v \in PastStates \/ w.reportedAt <= v.reportedAt
    BY <1>2, <1>4
  <2>2. v \in PastStates
    BY <1>4, <1>6, <2>1
  <2>3. CASE w \in PastStates
    BY <1>1, <1>6, <2>2, <2>3 DEF PastStatesOK
  <2>4. CASE w = state
    BY <1>4, <2>4
  <2> QED
    BY <1>2, <2>3, <2>4
<1> QED
  BY <1>5, <1>6

LEMMA PastEventsKept ==
  ASSUME TypesOK, PastTracksOK, PastEventsOK, [Next]_vars
  PROVE  PastEventsOK'
<1> USE DEF TypesOK
<1>1. ASSUME NEW c \in Consoles, NEW id \in CommandIds, outcomes'[c][id] # None
      PROVE  outcomes'[c][id].eventId = id
  <2>1. ASSUME NEW m \in D!Cached("explosion_events", c), C!ReceiveOutcome(c, m.value)
        PROVE  \/ outcomes'[c][id] = outcomes[c][id]
               \/ outcomes'[c][id] = m.value /\ m.value.eventId = id
    BY <2>1, TakenEvent, CachedParts DEF IsEventMessage
  <2>2. RestartConsole(c) => outcomes'[c][id] = None
    BY DEF RestartConsole, DesksOK, CP!CInv, CP!TypeOK
  <2> QED
    BY <1>1, <2>1, <2>2, ProjectionMoves DEF PastEventsOK
<1>2. restarts' = 0 => PastEvents' \subseteq eventWriter'
  BY WritersAdvance, PastGrows DEF PastEventsOK
<1> QED
  BY <1>1, <1>2 DEF PastEventsOK

-----------------------------------------------------------------------------
(* Intents: who sends them, how they travel, who acts on them.             *)

\* An intent comes under way when a console's automated pursuit writes it.
LEMMA NewUnsent ==
  ASSUME TypesOK, [Next]_vars, NEW u \in unsent' \ unsent
  PROVE  /\ u.endpoint.topic = "assignments" =>
              /\ u.endpoint.writer \in Consoles
              /\ AutomatePursuit(u.endpoint.writer) /\ MayAssign(u.endpoint.writer)
         /\ u.endpoint.topic = "interception_commands" =>
              /\ u.endpoint.writer \in Consoles
              /\ AutomatePursuit(u.endpoint.writer) /\ MayStart(u.endpoint.writer)
<1> USE DEF TypesOK
<1>1. CASE Acts
  <2>1. PICK s \in Written' \ Written :
          s.topic = u.endpoint.topic /\ s.writer = u.endpoint.writer
    BY <1>1, ActsNetwork, SendParts
  <2>2. ASSUME NEW c \in Consoles
        PROVE  RestartConsole(c) =>
                 assignmentWriter'[c][drone] = None /\ commandWriter'[c] = {}
    BY DEF RestartConsole, DesksOK, CP!CInv, CP!TypeOK
  <2>3. CASE s.topic = "assignments"
    <3>1. PICK c \in Consoles :
            /\ assignmentWriter'[c][drone] # None
            /\ s = Sample("assignments", c, drone,
                     [droneId |-> drone, targetId |-> assignmentWriter'[c][drone]])
      BY <2>1, <2>3, WrittenParts DEF Sample
    <3>2. assignmentWriter'[c] # assignmentWriter[c]
      BY <2>1, <3>1, WrittenParts
    <3>3. c = u.endpoint.writer
      BY <2>1, <3>1 DEF Sample
    <3> QED
      BY <2>1, <2>2, <2>3, <3>1, <3>2, <3>3, IntentMoves
  <2>4. CASE s.topic = "interception_commands"
    <3>1. PICK c \in Consoles : \E m \in commandWriter'[c] :
            s = Sample("interception_commands", c, m.commandId, m)
      BY <2>1, <2>4, WrittenParts DEF Sample
    <3>2. commandWriter'[c] # commandWriter[c]
      BY <2>1, <3>1, WrittenParts
    <3>3. c = u.endpoint.writer
      BY <2>1, <3>1 DEF Sample
    <3> QED
      BY <2>1, <2>2, <2>4, <3>1, <3>2, <3>3, IntentMoves
  <2> QED
    BY <2>1, <2>3, <2>4
<1>2. CASE \E e \in Endpoints : Discover(e)
  BY <1>2, MatchParts DEF Discover
<1>3. CASE Rests \/ \E e \in Endpoints : Deliver(e)
  BY <1>3, DeliverParts DEF Rests, network
<1>4. CASE RestartInterceptor \/ RestartObserver \/ \E c \in Consoles : RestartConsole(c)
  BY <1>4, Restarts, LeaveParts
<1> QED
  BY <1>1, <1>2, <1>3, <1>4, StepKinds

\* A sample waits for its reader when it is delivered.
LEMMA NewWaiting ==
  ASSUME TypesOK, [Next]_vars, NEW m \in inbox' \ inbox
  PROVE  \E e \in Endpoints :
           /\ Deliver(e) /\ m.topic = e.topic /\ m.reader = e.reader
           /\ \E s \in Written :
                /\ s.topic = e.topic /\ s.writer = e.writer
                /\ m.key = s.key /\ m.value = s.value
                /\ [endpoint |-> e, key |-> s.key] \in unsent
                /\ unsent' = unsent \ {[endpoint |-> e, key |-> s.key]}
<1> USE DEF TypesOK
<1>1. ASSUME NEW e \in Endpoints, Deliver(e)
      PROVE  /\ m.topic = e.topic /\ m.reader = e.reader
             /\ \E s \in Written :
                  /\ s.topic = e.topic /\ s.writer = e.writer
                  /\ m.key = s.key /\ m.value = s.value
                  /\ [endpoint |-> e, key |-> s.key] \in unsent
                  /\ unsent' = unsent \ {[endpoint |-> e, key |-> s.key]}
  <2>1. PICK s \in Written :
          /\ s.topic = e.topic /\ s.writer = e.writer
          /\ [endpoint |-> e, key |-> s.key] \in unsent
          /\ unsent' = unsent \ {[endpoint |-> e, key |-> s.key]}
          /\ inbox' = {x \in inbox : ~ /\ x.topic = e.topic
                                       /\ x.reader = e.reader
                                       /\ x.key = s.key}
                      \cup {[topic |-> e.topic, reader |-> e.reader,
                             key |-> s.key, value |-> s.value]}
    BY <1>1, DeliverParts
  <2>2. m = [topic |-> e.topic, reader |-> e.reader, key |-> s.key,
             value |-> s.value]
    BY <2>1
  <2> QED
    BY <2>1, <2>2
<1>2. ~(\E e \in Endpoints : Deliver(e)) => inbox' \subseteq inbox
  BY StepKinds, ActsNetwork, MatchParts, LeaveParts, Restarts
     DEF Rests, network, Discover
<1> QED
  BY <1>1, <1>2

\* What may change the machine, and by which of its readers.
LEMMA MachineMoves ==
  ASSUME [Next]_vars
  PROVE  \/ UNCHANGED machine \/ RestartInterceptor
         \/ I!Start \/ I!AdvanceTime \/ I!Tick
         \/ \E m \in D!Cached("assignments", "interceptor") :
              ReceiveAssignment /\ D!Take(m) /\ I!OnAssignment(m.value)
         \/ \E m \in D!Cached("target_tracks", "interceptor") :
              I!OnTargetTrack(m.value)
         \/ \E m \in D!Cached("interception_commands", "interceptor") :
              ReceiveCommand /\ D!Take(m) /\ I!ReceiveCommand(m.value)
<1>1. CASE InterceptorStep
  BY <1>1 DEF InterceptorStep, StartInterceptor, AdvanceClock,
     ReceiveAssignment, ReceiveTrack, ReceiveCommand, Tick
<1>2. CASE ObserverStep
  BY <1>2 DEF ObserverStep, interceptorVars
<1>3. ASSUME NEW c \in Consoles,
             \/ PollMatches(c) \/ ReceiveTarget(c) \/ ReceiveDrone(c)
             \/ ReceiveOutcome(c) \/ AutomatePursuit(c)
      PROVE  UNCHANGED machine
  BY <1>3 DEF PollMatches, ReceiveTarget, ReceiveDrone, ReceiveOutcome,
     AutomatePursuit, ConsoleOnly, interceptorVars
<1>4. CASE Rests \/ (\E e \in Endpoints : Discover(e) \/ Deliver(e))
  BY <1>4 DEF Rests, Discover, Deliver, Quiet, interceptorVars
<1>5. CASE RestartObserver \/ \E c \in Consoles : RestartConsole(c)
  BY <1>5 DEF RestartObserver, RestartConsole, interceptorVars
<1> QED
  BY <1>1, <1>2, <1>3, <1>4, <1>5, StepKinds DEF Acts

\* The machine is tasked by an assignment it was given.
LEMMA TaskedBy ==
  ASSUME TypesOK, [Next]_vars, I!Tasked', ~I!Tasked
  PROVE  \E m \in D!Cached("assignments", "interceptor") :
           D!Take(m) /\ I!OnAssignment(m.value)
<1> USE DEF I!Tasked, I!Started
<1>1. CASE UNCHANGED machine \/ RestartInterceptor
  BY <1>1 DEF machine, RestartInterceptor
<1>2. CASE I!Start \/ I!AdvanceTime
  BY <1>2 DEF I!Start, I!AdvanceTime, I!ReportState, I!Report
<1>3. CASE I!Tick
  BY <1>3 DEF I!Tick, I!TickIdle, I!TickMoves, I!TickArrives, I!ReportState,
     I!Report, I!Pursuing, I!vars
<1>4. ASSUME NEW m, I!OnTargetTrack(m) PROVE FALSE
  BY <1>4 DEF I!OnTargetTrack
<1>5. ASSUME NEW m \in D!Cached("interception_commands", "interceptor"),
             I!ReceiveCommand(m.value)
      PROVE  FALSE
  <2>1. m.value.targetId = target
    BY CachedParts DEF TypesOK, IsCommandMessage, IP!InterceptionCommands
  <2>2. I!StartResult(m.value) = "started" => I!Tasked
    BY <2>1, SystemNoneAssumption DEF I!StartResult
  <2> QED
    BY <1>5, <2>2 DEF I!ReceiveCommand, I!StartInterception
<1> QED
  BY <1>1, <1>2, <1>3, <1>4, <1>5, MachineMoves

\* A pursuit is started by a command the machine was given.
LEMMA StartedBy ==
  ASSUME [Next]_vars, startedCommandId' # startedCommandId
  PROVE  \/ RestartInterceptor
         \/ \E m \in D!Cached("interception_commands", "interceptor") :
              /\ D!Take(m) /\ I!ReceiveCommand(m.value)
              /\ startedCommandId' = m.value.commandId
<1>1. CASE UNCHANGED machine
  BY <1>1 DEF machine
<1>2. ASSUME \/ I!Start \/ I!AdvanceTime \/ I!Tick
             \/ (\E m : I!OnAssignment(m)) \/ (\E m : I!OnTargetTrack(m))
      PROVE  FALSE
  BY <1>2 DEF I!Start, I!AdvanceTime, I!Tick, I!TickIdle, I!TickMoves,
     I!TickArrives, I!OnAssignment, I!OnTargetTrack, I!vars
<1>3. ASSUME NEW m, I!ReceiveCommand(m) PROVE startedCommandId' = m.commandId
  BY <1>3 DEF I!ReceiveCommand, I!StartInterception
<1> QED
  BY <1>1, <1>2, <1>3, MachineMoves

\* The history of intents.
LEMMA FreshMoves ==
  ASSUME [Next]_vars
  PROVE  /\ RestartInterceptor \/ fresh \subseteq fresh'
         /\ \A c \in Consoles : AutomatePursuit(c) =>
              /\ MayAssign(c) => \E i \in fresh' : i.intent = "assignment"
              /\ MayStart(c) => \E i \in fresh' : i.intent = "command"
<1>1. ASSUME NEW c \in Consoles, AutomatePursuit(c)
      PROVE  /\ fresh \subseteq fresh'
             /\ MayAssign(c) => \E i \in fresh' : i.intent = "assignment"
             /\ MayStart(c) => \E i \in fresh' : i.intent = "command"
  <2>1. ~(MayAssign(c) /\ MayStart(c))
    BY DEF MayAssign, MayStart
  <2>2. \/ MayAssign(c) /\ fresh' = fresh \cup {[intent |-> "assignment", by |-> c]}
        \/ MayStart(c) /\ fresh' = fresh \cup {[intent |-> "command", by |-> c]}
        \/ ~MayAssign(c) /\ ~MayStart(c) /\ fresh' = fresh
    BY <1>1 DEF AutomatePursuit
  <2>3. ASSUME NEW k, fresh' = fresh \cup {[intent |-> k, by |-> c]}
        PROVE  \E i \in fresh' : i.intent = k
    <3>1. [intent |-> k, by |-> c] \in fresh'
      BY <2>3
    <3> QED
      BY <3>1
  <2> QED
    BY <2>1, <2>2, <2>3
<1>2. ASSUME ~RestartInterceptor PROVE fresh \subseteq fresh'
  <2>1. CASE ObserverStep \/ InterceptorStep
    BY <2>1 DEF ObserverStep, InterceptorStep, StartInterceptor, AdvanceClock,
       ReceiveAssignment, ReceiveTrack, ReceiveCommand, Tick, InterceptorOnly
  <2>2. ASSUME NEW c \in Consoles,
               \/ PollMatches(c) \/ ReceiveTarget(c) \/ ReceiveDrone(c)
               \/ ReceiveOutcome(c)
        PROVE  fresh' = fresh
    BY <2>2 DEF PollMatches, ReceiveTarget, ReceiveDrone, ReceiveOutcome
  <2>3. CASE Rests \/ (\E e \in Endpoints : Discover(e) \/ Deliver(e))
    BY <2>3 DEF Rests, Discover, Deliver, Quiet
  <2>4. CASE RestartObserver \/ \E c \in Consoles : RestartConsole(c)
    BY <2>4 DEF RestartObserver, RestartConsole
  <2> QED
    BY <1>1, <1>2, <2>1, <2>2, <2>3, <2>4, StepKinds DEF Acts
<1> QED
  BY <1>1, <1>2

\* An intent comes from a console, and a restarted interceptor is sent none.
LEMMA ComingMoves ==
  ASSUME TypesOK, [Next]_vars
  PROVE  /\ Coming("assignments")' =>
              /\ ~RestartInterceptor
              /\ \/ Coming("assignments")
                 \/ \E c \in Consoles : AutomatePursuit(c) /\ MayAssign(c)
         /\ Coming("interception_commands")' =>
              /\ ~RestartInterceptor
              /\ \/ Coming("interception_commands")
                 \/ \E c \in Consoles : AutomatePursuit(c) /\ MayStart(c)
<1> DEFINE Intents == {"assignments", "interception_commands"}
<1>1. ASSUME NEW u \in unsent', u.endpoint.topic \in Intents
      PROVE  /\ ~RestartInterceptor
             /\ \/ Unsent(u.endpoint.topic)
                \/ /\ u.endpoint.topic = "assignments"
                   /\ \E c \in Consoles : AutomatePursuit(c) /\ MayAssign(c)
                \/ /\ u.endpoint.topic = "interception_commands"
                   /\ \E c \in Consoles : AutomatePursuit(c) /\ MayStart(c)
  <2>1. CASE u \in unsent
    <3>1. u.endpoint.reader = "interceptor"
      BY <1>1, <2>1, EndpointParts DEF TypesOK, UnsentOK
    <3> QED
      BY <2>1, <3>1, Restarts, LeaveParts DEF Unsent
  <2>2. CASE u \notin unsent
    <3>1. ~RestartInterceptor
      BY <2>2, Restarts, LeaveParts
    <3> QED
      BY <1>1, <2>2, <3>1, NewUnsent
  <2> QED
    BY <2>1, <2>2
<1>2. ASSUME NEW m \in inbox', m.topic \in Intents
      PROVE  ~RestartInterceptor /\ Coming(m.topic)
  <2>1. CASE m \in inbox
    <3>1. m.reader = "interceptor"
      BY <1>2, <2>1 DEF TypesOK, InboxOK, IsTrackMessage, IsStateMessage,
         IsEventMessage, IsAssignmentMessage, IsCommandMessage
    <3> QED
      BY <2>1, <3>1, Restarts, LeaveParts DEF Coming, Waiting
  <2>2. CASE m \notin inbox
    <3>1. PICK e \in Endpoints :
            /\ m.topic = e.topic
            /\ \E s \in Written : [endpoint |-> e, key |-> s.key] \in unsent
      BY <2>2, NewWaiting
    <3>2. Unsent(m.topic)
      <4>1. PICK k : [endpoint |-> e, key |-> k] \in unsent
        BY <3>1
      <4>2. [endpoint |-> e, key |-> k].endpoint = e
        OBVIOUS
      <4> QED
        BY <3>1, <4>1, <4>2 DEF Unsent
    <3>3. ~RestartInterceptor
      BY <2>2, Restarts, LeaveParts
    <3> QED
      BY <3>2, <3>3 DEF Coming
  <2> QED
    BY <2>1, <2>2
<1>3. ASSUME NEW t \in Intents,
             (\E u \in unsent' : u.endpoint.topic = t) \/ (\E m \in inbox' : m.topic = t)
      PROVE  /\ ~RestartInterceptor
             /\ \/ Coming(t)
                \/ /\ t = "assignments"
                   /\ \E c \in Consoles : AutomatePursuit(c) /\ MayAssign(c)
                \/ /\ t = "interception_commands"
                   /\ \E c \in Consoles : AutomatePursuit(c) /\ MayStart(c)
  BY <1>1, <1>2, <1>3 DEF Coming
<1>4. /\ Coming("assignments")' <=>
           \/ \E u \in unsent' : u.endpoint.topic = "assignments"
           \/ \E m \in inbox' : m.topic = "assignments"
      /\ Coming("interception_commands")' <=>
           \/ \E u \in unsent' : u.endpoint.topic = "interception_commands"
           \/ \E m \in inbox' : m.topic = "interception_commands"
  BY DEF Coming, Unsent, Waiting
<1> QED
  BY <1>3, <1>4

LEMMA FreshKept ==
  ASSUME TypesOK, FreshOK, [Next]_vars
  PROVE  FreshOK'
<1>1. CASE RestartInterceptor
  <2>1. ~I!Tasked' /\ startedCommandId' = None
    BY <1>1 DEF RestartInterceptor, I!Tasked, I!Started
  <2> QED
    BY <1>1, <2>1, ComingMoves DEF FreshOK
<1>2. CASE ~RestartInterceptor
  <2>1. I!Tasked' \/ Coming("assignments")' =>
          \/ I!Tasked \/ Coming("assignments")
          \/ \E c \in Consoles : AutomatePursuit(c) /\ MayAssign(c)
    <3>1. ASSUME NEW m \in D!Cached("assignments", "interceptor")
          PROVE  Coming("assignments")
      BY CachedParts DEF TypesOK, Coming, Waiting
    <3> QED
      BY <3>1, TaskedBy, ComingMoves
  <2>2. startedCommandId' # None \/ Coming("interception_commands")' =>
          \/ startedCommandId # None \/ Coming("interception_commands")
          \/ \E c \in Consoles : AutomatePursuit(c) /\ MayStart(c)
    <3>1. ASSUME NEW m \in D!Cached("interception_commands", "interceptor")
          PROVE  Coming("interception_commands")
      BY CachedParts DEF TypesOK, Coming, Waiting
    <3> QED
      BY <1>2, <3>1, StartedBy, ComingMoves
  <2>3. (I!Tasked \/ Coming("assignments"))
          => \E i \in fresh' : i.intent = "assignment"
    BY <1>2, FreshMoves DEF FreshOK
  <2>4. (startedCommandId # None \/ Coming("interception_commands"))
          => \E i \in fresh' : i.intent = "command"
    BY <1>2, FreshMoves DEF FreshOK
  <2>5. (I!Tasked' \/ Coming("assignments")') => \E i \in fresh' : i.intent = "assignment"
    BY <2>1, <2>3, FreshMoves
  <2>6. (startedCommandId' # None \/ Coming("interception_commands")')
          => \E i \in fresh' : i.intent = "command"
    BY <2>2, <2>4, FreshMoves
  <2> QED
    BY <2>5, <2>6 DEF FreshOK
<1> QED
  BY <1>1, <1>2

\* What an automated intent writes.
LEMMA PursueParts ==
  ASSUME DesksOK, LoopsOK, NEW c \in Consoles, AutomatePursuit(c)
  PROVE  /\ MayAssign(c) =>
              /\ assignmentWriter'[c][drone] = target /\ commandWriter' = commandWriter
              /\ \A x \in Consoles : x # c => assignmentWriter'[x] = assignmentWriter[x]
         /\ MayStart(c) =>
              /\ assignmentWriter' = assignmentWriter
              /\ commandWriter'[c] = commandWriter[c] \cup
                   {[commandId |-> nextCommandId[c], droneId |-> drone,
                     targetId |-> droneStates[c][drone].assignedTargetId]}
              /\ \A x \in Consoles : x # c => commandWriter'[x] = commandWriter[x]
         /\ UNCHANGED <<machine, targetTracks, droneStates, outcomes, inbox>>
<1>1. ~(MayAssign(c) /\ MayStart(c))
  BY DEF MayAssign, MayStart
<1>2. ASSUME MayAssign(c)
      PROVE  /\ assignmentWriter' = [assignmentWriter EXCEPT ![c][drone] = target]
             /\ commandWriter' = commandWriter
  <2>1. C!Assign(c, drone, target)
    BY <1>1, <1>2 DEF AutomatePursuit
  <2> QED
    BY <1>2, <2>1 DEF MayAssign, C!Assign, C!WriteFails
<1>3. ASSUME MayStart(c)
      PROVE  /\ assignmentWriter' = assignmentWriter
             /\ commandWriter' = [commandWriter EXCEPT ![c] = @ \cup
                  {[commandId |-> nextCommandId[c], droneId |-> drone,
                    targetId |-> droneStates[c][drone].assignedTargetId]}]
  <2>1. C!StartInterception(c, drone)
    BY <1>1, <1>3 DEF AutomatePursuit
  <2> QED
    BY <1>3, <2>1 DEF MayStart, C!StartInterception, C!WriteFails
<1>4. UNCHANGED <<machine, targetTracks, droneStates, outcomes, inbox>>
  BY DEF AutomatePursuit, ConsoleOnly, interceptorVars, desks, C!Assign,
     C!StartInterception, C!projections
<1> QED
  BY <1>2, <1>3, <1>4 DEF DesksOK, CP!CInv, CP!TypeOK

\* Without a restart no console forgets what it wrote.
LEMMA IntentsRemembered ==
  ASSUME TypesOK, [Next]_vars, restarts' = 0
  PROVE  /\ restarts = 0 /\ Commands \subseteq Commands'
         /\ ~RestartInterceptor /\ \A c \in Consoles : ~RestartConsole(c)
         /\ \A c \in Consoles : assignmentWriter[c][drone] # None =>
              assignmentWriter'[c][drone] # None
<1> USE DEF TypesOK
<1>1. restarts = 0
  BY WritersAdvance
<1>2. ~RestartInterceptor /\ \A c \in Consoles : ~RestartConsole(c)
  BY <1>1, Restarts
<1>3. ASSUME NEW c \in Consoles PROVE commandWriter[c] \subseteq commandWriter'[c]
  BY <1>2, IntentMoves
<1>4. ASSUME NEW c \in Consoles, assignmentWriter[c][drone] # None
      PROVE  assignmentWriter'[c][drone] # None
  BY <1>2, <1>4, IntentMoves, SystemNoneAssumption
<1>5. Commands \subseteq Commands'
  BY <1>3 DEF Commands
<1> QED
  BY <1>1, <1>2, <1>4, <1>5

LEMMA KnownKept ==
  ASSUME TypesOK, PastTracksOK, PastStatesOK, KnownOK, [Next]_vars
  PROVE  KnownOK'
<1> USE DEF TypesOK
<1> SUFFICES ASSUME restarts' = 0
             PROVE  /\ I!Tasked' \/ Coming("assignments")' =>
                         \E c \in Consoles : assignmentWriter'[c][drone] # None
                    /\ \A m \in inbox' :
                         m.topic = "interception_commands" => m.value \in Commands'
                    /\ startedCommandId' # None =>
                         \E m \in Commands' : m.commandId = startedCommandId'
                    /\ \A id \in deliveredCommandIds' :
                         \E m \in Commands' : m.commandId = id
                    /\ \A c \in Consoles : commandWriter'[c] # {} =>
                         /\ droneStates'[c][drone] # None
                         /\ droneStates'[c][drone].status # "available"
  BY DEF KnownOK
<1>1. /\ restarts = 0 /\ Commands \subseteq Commands'
      /\ ~RestartInterceptor /\ \A c \in Consoles : ~RestartConsole(c)
      /\ \A c \in Consoles : assignmentWriter[c][drone] # None =>
           assignmentWriter'[c][drone] # None
  BY IntentsRemembered
<1>2. I!Tasked' \/ Coming("assignments")' =>
        \E c \in Consoles : assignmentWriter'[c][drone] # None
  <2>1. ASSUME NEW m \in D!Cached("assignments", "interceptor")
        PROVE  Coming("assignments")
    BY CachedParts DEF Coming, Waiting
  <2>2. ASSUME NEW c \in Consoles, AutomatePursuit(c), MayAssign(c)
        PROVE  assignmentWriter'[c][drone] # None
    BY <2>2, PursueParts, SystemNoneAssumption
  <2>3. I!Tasked \/ Coming("assignments") =>
          \E c \in Consoles : assignmentWriter[c][drone] # None
    BY <1>1 DEF KnownOK
  <2> QED
    BY <1>1, <2>1, <2>2, <2>3, TaskedBy, ComingMoves
<1>3. ASSUME NEW m \in inbox', m.topic = "interception_commands"
      PROVE  m.value \in Commands'
  <2>1. CASE m \in inbox
    BY <1>1, <1>3, <2>1 DEF KnownOK
  <2>2. CASE m \notin inbox
    <3>0. PICK e \in Endpoints :
            /\ Deliver(e) /\ m.topic = e.topic /\ m.reader = e.reader
            /\ \E s \in Written :
                 /\ s.topic = e.topic /\ s.writer = e.writer
                 /\ m.key = s.key /\ m.value = s.value
                 /\ [endpoint |-> e, key |-> s.key] \in unsent
                 /\ unsent' = unsent \ {[endpoint |-> e, key |-> s.key]}
      BY <2>2, NewWaiting
    <3>1. PICK s \in Written : s.topic = "interception_commands" /\ m.value = s.value
      BY <1>3, <3>0
    <3>2. s.writer \in Consoles /\ s.value \in commandWriter[s.writer]
      BY <3>1, WrittenTyped
    <3>3. s.value \in Commands
      BY <3>2 DEF Commands
    <3> QED
      BY <1>1, <3>1, <3>3
  <2> QED
    BY <2>1, <2>2
<1>4. ASSUME NEW m \in D!Cached("interception_commands", "interceptor")
      PROVE  m.value \in Commands
  BY <1>1, CachedParts DEF KnownOK
<1>5. startedCommandId' # None =>
        \E m \in Commands' : m.commandId = startedCommandId'
  BY <1>1, <1>4, StartedBy DEF KnownOK
<1>6. ASSUME NEW id \in deliveredCommandIds'
      PROVE  \E m \in Commands' : m.commandId = id
  <2>1. ASSUME \/ UNCHANGED machine
               \/ I!Start \/ I!AdvanceTime \/ I!Tick
               \/ (\E m : I!OnAssignment(m)) \/ (\E m : I!OnTargetTrack(m))
        PROVE  deliveredCommandIds' = deliveredCommandIds
    BY <2>1 DEF machine, I!Start, I!AdvanceTime, I!Tick, I!TickIdle,
       I!TickMoves, I!TickArrives, I!OnAssignment, I!OnTargetTrack, I!vars
  <2>2. ASSUME NEW m \in D!Cached("interception_commands", "interceptor"),
               I!ReceiveCommand(m.value)
        PROVE  id \in deliveredCommandIds \/ id = m.value.commandId
    BY <1>6, <2>2 DEF I!ReceiveCommand
  <2> QED
    BY <1>1, <1>4, <1>6, <2>1, <2>2, MachineMoves DEF KnownOK
<1>7. ASSUME NEW c \in Consoles, commandWriter'[c] # {}
      PROVE  /\ droneStates'[c][drone] # None
             /\ droneStates'[c][drone].status # "available"
  <2>1. CASE AutomatePursuit(c) /\ MayStart(c)
    BY <2>1, PursueParts, MayStartSays
  <2>2. CASE ~(AutomatePursuit(c) /\ MayStart(c))
    <3>1. commandWriter[c] # {}
      BY <1>1, <1>7, <2>2, IntentMoves
    <3>2. /\ droneStates[c][drone] # None
          /\ droneStates[c][drone].status # "available"
      BY <1>1, <3>1 DEF KnownOK
    <3>3. ASSUME NEW m \in D!Cached("drone_states", c), C!ReceiveDrone(c, m.value)
          PROVE  /\ droneStates'[c][drone] # None
                 /\ droneStates'[c][drone].status # "available"
      <4>1. /\ m.value \in CP!DroneStates /\ m.value \in PastStates
            /\ droneStates[c][drone] \in CP!DroneStates
            /\ droneStates[c][drone] \in PastStates
        BY <3>2, CachedParts, ArrivedParts, DesksSay DEF IsStateMessage, PastStates
      <4>2. \/ droneStates'[c][drone] = droneStates[c][drone]
            \/ /\ droneStates'[c][drone] = m.value
               /\ droneStates[c][drone].reportedAt < m.value.reportedAt
        BY <3>2, <3>3, <4>1, TakenState
      <4>3. droneStates[c][drone].reportedAt < m.value.reportedAt =>
              I!Rank(droneStates[c][drone]) <= I!Rank(m.value)
        BY <1>1, <4>1 DEF PastStatesOK
      <4>4. ASSUME NEW v \in CP!DroneStates, NEW w \in CP!DroneStates,
                   v.status # "available", I!Rank(v) <= I!Rank(w)
            PROVE  w.status # "available" /\ w # None
        BY <4>4, Stages, StateFields
      <4> QED
        BY <3>2, <4>1, <4>2, <4>3, <4>4
    <3> QED
      BY <1>1, <3>2, <3>3, ProjectionMoves
  <2> QED
    BY <2>1, <2>2
<1> QED
  BY <1>2, <1>3, <1>5, <1>6, <1>7

-----------------------------------------------------------------------------
(* One automated console: its intents find the interceptor waiting.        *)

\* At most one intent of a kind is unsent, and at most one waits.
LEMMA SameIntents ==
  ASSUME TypesOK, KnownOK, restarts = 0, \A a, b \in Automated : a = b
  PROVE  /\ \A u, v \in unsent :
              /\ u.endpoint.topic = v.endpoint.topic
              /\ u.endpoint.topic \in {"assignments", "interception_commands"}
              => u = v
         /\ \A m, n \in inbox :
              /\ m.topic = n.topic
              /\ m.topic \in {"assignments", "interception_commands"}
              => m = n
<1> USE DEF TypesOK
<1>1. \A x \in Consoles : commandWriter[x] # {} => x \in Automated
  BY DEF SentOK
<1>2. \A m, n \in Commands : m = n
  <2> SUFFICES ASSUME NEW x \in Consoles, NEW m \in commandWriter[x],
                      NEW y \in Consoles, NEW n \in commandWriter[y]
               PROVE  m = n
    BY DEF Commands
  <2>1. x = y
    BY <1>1
  <2> QED
    BY <2>1, DesksSay
<1>3. ASSUME NEW u \in unsent, NEW v \in unsent,
             u.endpoint.topic = v.endpoint.topic,
             u.endpoint.topic \in {"assignments", "interception_commands"}
      PROVE  u = v
  <2>1. /\ u = [endpoint |-> u.endpoint, key |-> u.key]
        /\ v = [endpoint |-> v.endpoint, key |-> v.key]
        /\ u.endpoint \in Endpoints /\ v.endpoint \in Endpoints
    BY DEF UnsentOK
  <2>2. /\ u.endpoint.writer \in Automated \cap Consoles
        /\ v.endpoint.writer \in Automated \cap Consoles
        /\ u.endpoint.reader = "interceptor" /\ v.endpoint.reader = "interceptor"
    BY <1>3, <2>1, EndpointParts
  <2>3. u.endpoint.writer = v.endpoint.writer
    BY <2>2
  <2>4. u.endpoint = v.endpoint
    BY <1>3, <2>1, <2>2, <2>3, EndpointParts
  <2>5. CASE u.endpoint.topic = "assignments"
    BY <1>3, <2>1, <2>4, <2>5 DEF UnsentOK
  <2>6. CASE u.endpoint.topic = "interception_commands"
    <3>1. PICK m \in commandWriter[u.endpoint.writer] : m.commandId = u.key
      BY <2>6 DEF UnsentOK
    <3>2. PICK n \in commandWriter[u.endpoint.writer] : n.commandId = v.key
      BY <1>3, <2>3, <2>6 DEF UnsentOK
    <3>3. m = n
      BY <2>2, DesksSay
    <3> QED
      BY <2>1, <2>4, <3>1, <3>2, <3>3
  <2> QED
    BY <1>3, <2>5, <2>6
<1>4. ASSUME NEW m \in inbox, NEW n \in inbox, m.topic = n.topic,
             m.topic \in {"assignments", "interception_commands"}
      PROVE  m = n
  <2>1. /\ m = [topic |-> m.topic, reader |-> m.reader, key |-> m.key, value |-> m.value]
        /\ n = [topic |-> n.topic, reader |-> n.reader, key |-> n.key, value |-> n.value]
    BY DEF InboxOK
  <2>2. CASE m.topic = "assignments"
    <3>1. IsAssignmentMessage(m) /\ IsAssignmentMessage(n)
      BY <1>4, <2>2 DEF InboxOK, IsTrackMessage, IsStateMessage, IsEventMessage,
         IsCommandMessage
    <3> QED
      BY <2>1, <3>1 DEF IsAssignmentMessage
  <2>3. CASE m.topic = "interception_commands"
    <3>1. IsCommandMessage(m) /\ IsCommandMessage(n)
      BY <1>4, <2>3 DEF InboxOK, IsTrackMessage, IsStateMessage, IsEventMessage,
         IsAssignmentMessage
    <3>2. m.value = n.value
      BY <1>2, <1>4, <2>3 DEF KnownOK
    <3> QED
      BY <2>1, <3>1, <3>2 DEF IsCommandMessage
  <2> QED
    BY <1>4, <2>2, <2>3
<1> QED
  BY <1>3, <1>4

\* The only automated console assigns a drone that nobody has assigned.
LEMMA FirstAssignment ==
  ASSUME TypesOK, PastStatesOK, KnownOK, restarts = 0,
         \A a, b \in Automated : a = b,
         NEW c \in Consoles, AutomatePursuit(c), MayAssign(c)
  PROVE  I!Started /\ ~I!Tasked /\ ~Coming("assignments")
<1> USE DEF TypesOK
<1>1. c \in Automated
  BY DEF AutomatePursuit, Poll, LoopsOK
<1>2. /\ droneStates[c][drone] # None /\ assignmentWriter[c][drone] = None
  BY MayAssignSays
<1>3. I!Started
  BY <1>2 DEF PastStatesOK, PastStates, I!Started
<1>4. \A x \in Consoles : assignmentWriter[x][drone] = None
  BY <1>1, <1>2 DEF SentOK
<1> QED
  BY <1>3, <1>4 DEF KnownOK

\* It starts a pursuit that nobody has started.
LEMMA FirstCommand ==
  ASSUME TypesOK, PastTracksOK, PastStatesOK, KnownOK, restarts = 0,
         \A a, b \in Automated : a = b,
         NEW c \in Consoles, AutomatePursuit(c), MayStart(c)
  PROVE  /\ I!Started /\ state.status = "assigned"
         /\ deliveredCommandIds = {} /\ startedCommandId = None
         /\ ~Coming("interception_commands")
<1> USE DEF TypesOK
<1>1. c \in Automated
  BY DEF AutomatePursuit, Poll, LoopsOK
<1>2. /\ droneStates[c][drone] # None /\ droneStates[c][drone].status = "assigned"
      /\ commandWriter[c] = {}
  BY MayStartSays
<1>3. \A x \in Consoles : commandWriter[x] = {}
  BY <1>1, <1>2 DEF SentOK
<1>4. Commands = {}
  BY <1>3 DEF Commands
<1>5. deliveredCommandIds = {} /\ startedCommandId = None
  BY <1>4 DEF KnownOK
<1>6. I!Started /\ I!Rank(droneStates[c][drone]) <= I!Rank(state)
  BY <1>2 DEF PastStatesOK, PastStates, I!Started
<1>7. state.status = "assigned"
  <2>1. state \in CP!DroneStates /\ droneStates[c][drone] \in CP!DroneStates
    BY <1>2, <1>6, MachineSays, DesksSay DEF I!Started
  <2>2. state.status # "available"
    BY <1>2, <1>6, <2>1, Stages
  <2> QED
    BY <1>5, <1>6, <2>2, MachineSays DEF I!Started
<1>8. ~Unsent("interception_commands")
  <2> SUFFICES ASSUME NEW u \in unsent, u.endpoint.topic = "interception_commands"
               PROVE  FALSE
    BY DEF Unsent
  <2>1. u.endpoint.writer \in Consoles
    BY EndpointParts DEF UnsentOK
  <2> QED
    BY <1>3, <2>1 DEF UnsentOK
<1>9. ~Waiting("interception_commands")
  BY <1>4 DEF KnownOK, Waiting
<1> QED
  BY <1>5, <1>6, <1>7, <1>8, <1>9 DEF Coming

\* Once it is taken, the only intent of its kind is no longer on its way.
LEMMA TakenIntent ==
  ASSUME TypesOK, KnownOK, AcceptOK, restarts = 0,
         \A a, b \in Automated : a = b, [Next]_vars, ~RestartInterceptor,
         NEW t \in {"assignments", "interception_commands"},
         NEW m \in D!Cached(t, "interceptor"), D!Take(m), ~UNCHANGED machine
  PROVE  /\ \A u \in unsent' : u.endpoint.topic # t
         /\ \A n \in inbox' : n.topic # t
<1> USE DEF TypesOK
<1>1. m \in inbox /\ m.topic = t /\ inbox' = inbox \ {m}
  BY CachedParts DEF D!Take
<1>2. \A n \in inbox' : n.topic # t
  BY <1>1, SameIntents
<1>3. ~Unsent(t)
  BY <1>1 DEF AcceptOK, Waiting
<1>4. ASSUME NEW u \in unsent', u.endpoint.topic = t
      PROVE  FALSE
  <2>1. u \notin unsent
    BY <1>3, <1>4 DEF Unsent
  <2>2. u.endpoint.writer \in Consoles /\ AutomatePursuit(u.endpoint.writer)
    BY <1>4, <2>1, NewUnsent
  <2> QED
    BY <2>2, PursueParts
<1> QED
  BY <1>2, <1>4

\* An intent of the only automated console is on one stretch of its way.
LEMMA OnePlace ==
  ASSUME TypesOK, PastTracksOK, PastStatesOK, KnownOK, AcceptOK, restarts = 0,
         \A a, b \in Automated : a = b, [Next]_vars,
         NEW t \in {"assignments", "interception_commands"},
         NEW u \in unsent', u.endpoint.topic = t
  PROVE  \A m \in inbox' : m.topic # t
<1> USE DEF TypesOK
<1> SUFFICES ASSUME NEW m \in inbox', m.topic = t
             PROVE  FALSE
  OBVIOUS
<1>1. CASE u \notin unsent
  <2>1. /\ u.endpoint.writer \in Consoles
        /\ AutomatePursuit(u.endpoint.writer)
        /\ \/ t = "assignments" /\ MayAssign(u.endpoint.writer)
           \/ t = "interception_commands" /\ MayStart(u.endpoint.writer)
    BY <1>1, NewUnsent
  <2>2. ~Coming(t)
    BY <2>1, FirstAssignment, FirstCommand
  <2>3. m \in inbox
    BY <2>1, PursueParts
  <2> QED
    BY <2>2, <2>3 DEF Coming, Waiting
<1>2. CASE u \in unsent /\ m \in inbox
  BY <1>2 DEF AcceptOK, Unsent, Waiting
<1>3. CASE u \in unsent /\ m \notin inbox
  <2>1. PICK e \in Endpoints :
          /\ Deliver(e) /\ m.topic = e.topic /\ m.reader = e.reader
          /\ \E s \in Written :
               /\ s.topic = e.topic /\ s.writer = e.writer
               /\ m.key = s.key /\ m.value = s.value
               /\ [endpoint |-> e, key |-> s.key] \in unsent
               /\ unsent' = unsent \ {[endpoint |-> e, key |-> s.key]}
    BY <1>3, NewWaiting
  <2>2. PICK s \in Written :
          /\ [endpoint |-> e, key |-> s.key] \in unsent
          /\ unsent' = unsent \ {[endpoint |-> e, key |-> s.key]}
    BY <2>1
  <2>3. [endpoint |-> e, key |-> s.key].endpoint.topic = u.endpoint.topic
    BY <2>1
  <2>4. u = [endpoint |-> e, key |-> s.key]
    BY <1>3, <2>2, <2>3, SameIntents
  <2> QED
    BY <2>2, <2>4
<1> QED
  BY <1>1, <1>2, <1>3

\* The assigned machine waits for its command.
LEMMA AssignedWaits ==
  ASSUME TypesOK, [Next]_vars, ~RestartInterceptor,
         I!Started, state.status = "assigned", startedCommandId = None,
         deliveredCommandIds = {}
  PROVE  \/ /\ I!Started' /\ state'.status = "assigned"
            /\ startedCommandId' = None /\ deliveredCommandIds' = {}
         \/ \E m \in D!Cached("interception_commands", "interceptor") :
              D!Take(m) /\ I!ReceiveCommand(m.value)
<1> USE DEF TypesOK, I!Started
<1>1. I!Tasked
  BY MachineSays, StateFields, SystemNoneAssumption DEF I!Tasked
<1>2. CASE UNCHANGED machine
  BY <1>2 DEF machine
<1>3. CASE I!Start \/ I!AdvanceTime \/ I!Tick
  BY <1>3 DEF I!Start, I!AdvanceTime, I!Tick, I!TickIdle, I!TickMoves,
     I!TickArrives, I!Pursuing, I!vars
<1>4. ASSUME NEW a, I!OnAssignment(a) PROVE UNCHANGED machine
  BY <1>1, <1>4 DEF I!OnAssignment, I!AssignmentResult, I!vars, machine
<1>5. ASSUME NEW x, I!OnTargetTrack(x)
      PROVE  UNCHANGED <<state, startedCommandId, deliveredCommandIds>>
  BY <1>5 DEF I!OnTargetTrack
<1> QED
  BY <1>2, <1>3, <1>4, <1>5, MachineMoves

LEMMA AcceptKept ==
  ASSUME TypesOK, PastTracksOK, PastStatesOK, KnownOK, AcceptOK, [Next]_vars
  PROVE  AcceptOK'
<1> USE DEF TypesOK
<1> SUFFICES ASSUME restarts' = 0, \A x, y \in Automated : x = y
             PROVE  /\ Coming("assignments")' => I!Started' /\ ~I!Tasked'
                    /\ Coming("interception_commands")' =>
                         /\ I!Started' /\ state'.status = "assigned"
                         /\ deliveredCommandIds' = {} /\ startedCommandId' = None
                    /\ ~(Unsent("assignments")' /\ Waiting("assignments")')
                    /\ ~(Unsent("interception_commands")'
                         /\ Waiting("interception_commands")')
  BY DEF AcceptOK
<1>1. restarts = 0 /\ ~RestartInterceptor
  BY IntentsRemembered
<1>2. ASSUME Coming("assignments")' PROVE I!Started' /\ ~I!Tasked'
  <2>1. CASE \E c \in Consoles : AutomatePursuit(c) /\ MayAssign(c)
    <3>1. PICK c \in Consoles : AutomatePursuit(c) /\ MayAssign(c)
      BY <2>1
    <3>2. I!Started /\ ~I!Tasked
      BY <1>1, <3>1, FirstAssignment
    <3>3. state' = state
      BY <3>1, PursueParts DEF machine
    <3> QED
      BY <3>2, <3>3 DEF I!Started, I!Tasked
  <2>2. CASE Coming("assignments")
    <3>1. I!Started /\ ~I!Tasked
      BY <1>1, <2>2 DEF AcceptOK
    <3>2. I!Started'
      BY <3>1, WritersAdvance DEF I!Started
    <3>3. ASSUME I!Tasked' PROVE FALSE
      <4>1. PICK m \in D!Cached("assignments", "interceptor") :
              D!Take(m) /\ I!OnAssignment(m.value)
        BY <3>1, <3>3, TaskedBy
      <4>2. ~UNCHANGED machine
        BY <3>1, <3>3 DEF machine, I!Tasked, I!Started
      <4>3. /\ \A u \in unsent' : u.endpoint.topic # "assignments"
            /\ \A n \in inbox' : n.topic # "assignments"
        BY <1>1, <4>1, <4>2, TakenIntent
      <4> QED
        BY <1>2, <4>3 DEF Coming, Unsent, Waiting
    <3> QED
      BY <3>2, <3>3
  <2> QED
    BY <1>2, <2>1, <2>2, ComingMoves
<1>3. ASSUME Coming("interception_commands")'
      PROVE  /\ I!Started' /\ state'.status = "assigned"
             /\ deliveredCommandIds' = {} /\ startedCommandId' = None
  <2>1. CASE \E c \in Consoles : AutomatePursuit(c) /\ MayStart(c)
    <3>1. PICK c \in Consoles : AutomatePursuit(c) /\ MayStart(c)
      BY <2>1
    <3>2. /\ I!Started /\ state.status = "assigned"
          /\ deliveredCommandIds = {} /\ startedCommandId = None
      BY <1>1, <3>1, FirstCommand
    <3>3. UNCHANGED <<state, deliveredCommandIds, startedCommandId>>
      BY <3>1, PursueParts DEF machine
    <3> QED
      BY <3>2, <3>3 DEF I!Started
  <2>2. CASE Coming("interception_commands")
    <3>1. /\ I!Started /\ state.status = "assigned"
          /\ deliveredCommandIds = {} /\ startedCommandId = None
      BY <1>1, <2>2 DEF AcceptOK
    <3>2. ASSUME NEW m \in D!Cached("interception_commands", "interceptor"),
                 D!Take(m), I!ReceiveCommand(m.value)
          PROVE  FALSE
      <4>1. ~UNCHANGED machine
        BY <3>1, <3>2 DEF machine, I!ReceiveCommand
      <4>2. /\ \A u \in unsent' : u.endpoint.topic # "interception_commands"
            /\ \A n \in inbox' : n.topic # "interception_commands"
        BY <1>1, <3>2, <4>1, TakenIntent
      <4> QED
        BY <1>3, <4>2 DEF Coming, Unsent, Waiting
    <3> QED
      BY <1>1, <3>1, <3>2, AssignedWaits
  <2> QED
    BY <1>3, <2>1, <2>2, ComingMoves
<1>4. ~(Unsent("assignments")' /\ Waiting("assignments")')
  BY <1>1, OnePlace DEF Unsent, Waiting
<1>5. ~(Unsent("interception_commands")' /\ Waiting("interception_commands")')
  BY <1>1, OnePlace DEF Unsent, Waiting
<1> QED
  BY <1>2, <1>3, <1>4, <1>5

-----------------------------------------------------------------------------
(* What has been delivered: it waits for its reader, or it was taken.      *)

\* Who takes a sample, and what it does with it.
LEMMA TakenBy ==
  ASSUME InboxOK, Acts
  PROVE  \/ inbox' = inbox
         \/ \E m \in inbox :
              /\ inbox' = inbox \ {m} /\ UNCHANGED observed
              /\ \/ m.reader = "interceptor"
                 \/ /\ m.reader \in Consoles /\ UNCHANGED machine
                    /\ \/ /\ m.topic = "target_tracks" /\ IsTrackMessage(m)
                          /\ C!ReceiveTarget(m.reader, m.value)
                       \/ /\ m.topic = "drone_states" /\ IsStateMessage(m)
                          /\ C!ReceiveDrone(m.reader, m.value)
                       \/ /\ m.topic = "explosion_events" /\ IsEventMessage(m)
                          /\ C!ReceiveOutcome(m.reader, m.value)
<1>1. CASE ObserverStep
  BY <1>1 DEF ObserverStep
<1>2. CASE InterceptorStep
  <2>1. ASSUME NEW t, NEW m \in D!Cached(t, "interceptor"), D!Take(m)
        PROVE  m \in inbox /\ inbox' = inbox \ {m} /\ m.reader = "interceptor"
    BY <2>1 DEF D!Cached, D!Take
  <2>2. UNCHANGED observed
    BY <1>2 DEF InterceptorStep, StartInterceptor, AdvanceClock,
       ReceiveAssignment, ReceiveTrack, ReceiveCommand, Tick, InterceptorOnly
  <2> QED
    BY <1>2, <2>1, <2>2 DEF InterceptorStep, StartInterceptor, AdvanceClock,
       ReceiveAssignment, ReceiveTrack, ReceiveCommand, Tick, NothingFor
<1>3. ASSUME NEW c \in Consoles, PollMatches(c) \/ AutomatePursuit(c)
      PROVE  inbox' = inbox
  BY <1>3 DEF PollMatches, AutomatePursuit
<1>4. ASSUME NEW c \in Consoles, ReceiveTarget(c) \/ ReceiveDrone(c) \/ ReceiveOutcome(c)
      PROVE  \/ inbox' = inbox
             \/ \E m \in inbox :
                  /\ inbox' = inbox \ {m} /\ UNCHANGED observed
                  /\ m.reader \in Consoles /\ UNCHANGED machine
                  /\ \/ /\ m.topic = "target_tracks" /\ IsTrackMessage(m)
                        /\ C!ReceiveTarget(m.reader, m.value)
                     \/ /\ m.topic = "drone_states" /\ IsStateMessage(m)
                        /\ C!ReceiveDrone(m.reader, m.value)
                     \/ /\ m.topic = "explosion_events" /\ IsEventMessage(m)
                        /\ C!ReceiveOutcome(m.reader, m.value)
  <2>1. UNCHANGED observed /\ UNCHANGED machine
    BY <1>4 DEF ReceiveTarget, ReceiveDrone, ReceiveOutcome, ConsoleOnly, interceptorVars
  <2>2. ASSUME NEW t, NEW m \in D!Cached(t, c), D!Take(m)
        PROVE  m \in inbox /\ inbox' = inbox \ {m} /\ m.reader = c /\ m.topic = t
    BY <2>2 DEF D!Cached, D!Take
  <2>3. CASE ReceiveTarget(c)
    BY <2>1, <2>2, <2>3, CachedParts DEF ReceiveTarget, NothingFor
  <2>4. CASE ReceiveDrone(c)
    BY <2>1, <2>2, <2>4, CachedParts DEF ReceiveDrone, NothingFor
  <2>5. CASE ReceiveOutcome(c)
    BY <2>1, <2>2, <2>5, CachedParts DEF ReceiveOutcome, NothingFor
  <2> QED
    BY <1>4, <2>3, <2>4, <2>5
<1> QED
  BY <1>1, <1>2, <1>3, <1>4 DEF Acts

\* The topics that consoles read, and their only writers.
Feeds == {<<"target_tracks", "observer">>, <<"drone_states", "interceptor">>,
          <<"explosion_events", "interceptor">>}

\* The writers of a feed hold the same samples as long as they are left alone.
LEMMA FeedUntouched ==
  ASSUME NEW f \in Feeds, NEW s \in Written', s.topic = f[1],
         f[1] = "target_tracks" => UNCHANGED observed,
         f[1] # "target_tracks" => UNCHANGED machine
  PROVE  s \in Written
<1>1. /\ f[1] \in {"target_tracks", "drone_states", "explosion_events"}
      /\ f[1] = "target_tracks" => trackWriter' = trackWriter
      /\ f[1] # "target_tracks" => stateWriter' = stateWriter /\ eventWriter' = eventWriter
  BY DEF Feeds, observed, machine
<1>2. \/ trackWriter' # None
         /\ s = Sample("target_tracks", "observer", target, trackWriter')
      \/ stateWriter' # None
         /\ s = Sample("drone_states", "interceptor", drone, stateWriter')
      \/ \E e \in eventWriter' :
           s = Sample("explosion_events", "interceptor", e.eventId, e)
  BY <1>1, WrittenParts DEF Sample
<1>3. s.topic = f[1]
  OBVIOUS
<1> QED
  BY <1>1, <1>2, <1>3, WrittenParts DEF Sample

\* The ways to have been served.
LEMMA ServedMoves ==
  ASSUME TypesOK, [Next]_vars, NEW c \in Consoles, NEW f \in Feeds, NEW k,
         NEW s \in Written', s.topic = f[1], s.writer = f[2], s.key = k,
         Delivered(f[1], f[2], c, k)'
  PROVE  \/ /\ UNCHANGED observed /\ UNCHANGED machine
            /\ \E r \in Written :
                 /\ r.topic = f[1] /\ r.key = k
                 /\ Holding(f[1], c, k)' =
                      {[topic |-> f[1], reader |-> c, key |-> k, value |-> r.value]}
         \/ /\ s \in Written /\ Delivered(f[1], f[2], c, k)
            /\ UNCHANGED observed /\ UNCHANGED machine
            /\ \E m \in Holding(f[1], c, k) :
                 /\ Holding(f[1], c, k)' = Holding(f[1], c, k) \ {m}
                 /\ \/ /\ f[1] = "target_tracks" /\ IsTrackMessage(m)
                       /\ C!ReceiveTarget(c, m.value)
                    \/ /\ f[1] = "drone_states" /\ IsStateMessage(m)
                       /\ C!ReceiveDrone(c, m.value)
                    \/ /\ f[1] = "explosion_events" /\ IsEventMessage(m)
                       /\ C!ReceiveOutcome(c, m.value)
         \/ /\ s \in Written /\ Delivered(f[1], f[2], c, k)
            /\ Holding(f[1], c, k)' = Holding(f[1], c, k)
            /\ ~RestartConsole(c)
<1> USE DEF TypesOK, Holding, Delivered
<1> DEFINE e == Endpoint(f[1], f[2], c)
           link == [endpoint |-> e, key |-> k]
<1>1. /\ e \in matched' /\ link \notin unsent'
      /\ e.topic = f[1] /\ e.writer = f[2] /\ e.reader = c
  BY DEF Endpoint
<1>2. /\ f[1] \in {"target_tracks", "drone_states", "explosion_events"}
      /\ f[2] = IF f[1] = "target_tracks" THEN "observer" ELSE "interceptor"
      /\ f[2] # c /\ c \notin {"observer", "interceptor"}
  BY SystemAssumption DEF Feeds
<1> HIDE DEF e
<1>3. CASE Acts
  <2>1. SendWritten /\ matched' = matched /\ unsent \subseteq unsent'
    BY <1>3, ActsNetwork, SendParts
  <2>2. e \in matched /\ link \notin unsent
    BY <1>1, <2>1
  <2>3. s \in Written
    <3>1. s \notin Written => [endpoint |-> e, key |-> s.key] \in unsent'
      BY <1>1, <2>1, <2>2, SendParts
    <3> QED
      BY <1>1, <3>1
  <2>4. ~RestartConsole(c)
    BY <1>1, <1>2, Restarts, LeaveParts
  <2>5. CASE inbox' = inbox
    BY <2>2, <2>3, <2>4, <2>5 DEF e
  <2>6. ASSUME NEW m \in inbox, inbox' = inbox \ {m}, m \notin Holding(f[1], c, k)
        PROVE  Holding(f[1], c, k)' = Holding(f[1], c, k)
    BY <2>6
  <2>7. ASSUME NEW m \in inbox, inbox' = inbox \ {m}, m \in Holding(f[1], c, k)
        PROVE  Holding(f[1], c, k)' = Holding(f[1], c, k) \ {m}
    BY <2>7
  <2>8. ASSUME NEW m \in Holding(f[1], c, k)
        PROVE  m.reader = c /\ m.topic = f[1] /\ m.reader # "interceptor"
    BY <1>2
  <2> HIDE DEF Holding
  <2> QED
    BY <1>2, <1>3, <2>2, <2>3, <2>4, <2>5, <2>6, <2>7, <2>8, TakenBy DEF e
<1>4. ASSUME NEW x \in Endpoints, Discover(x)
      PROVE  /\ s \in Written /\ e \in matched /\ link \notin unsent
             /\ inbox' = inbox /\ ~RestartConsole(c)
  <2>1. /\ D!Match(x, Written) /\ UNCHANGED observed /\ UNCHANGED machine
        /\ restarts' = restarts
    BY <1>4 DEF Discover, Quiet, interceptorVars
  <2>2. s \in Written
    BY <2>1, FeedUntouched
  <2>3. /\ matched' = matched \cup {x} /\ unsent \subseteq unsent' /\ inbox' = inbox
    BY <2>1, MatchParts
  <2>4. x = e => [endpoint |-> e, key |-> s.key] \in unsent'
    BY <1>1, <1>2, <2>1, <2>2, MatchParts
  <2>5. ~RestartConsole(c)
    BY <2>1, Restarts DEF LoopsOK
  <2> QED
    BY <1>1, <2>2, <2>3, <2>4, <2>5
<1>5. ASSUME NEW x \in Endpoints, Deliver(x)
      PROVE  \/ /\ UNCHANGED observed /\ UNCHANGED machine
                /\ \E r \in Written :
                     /\ r.topic = f[1] /\ r.key = k
                     /\ Holding(f[1], c, k)' =
                          {[topic |-> f[1], reader |-> c, key |-> k, value |-> r.value]}
             \/ /\ s \in Written /\ e \in matched /\ link \notin unsent
                /\ Holding(f[1], c, k)' = Holding(f[1], c, k) /\ ~RestartConsole(c)
  <2>1. /\ UNCHANGED observed /\ UNCHANGED machine /\ restarts' = restarts
        /\ matched' = matched
    BY <1>5, DeliverParts DEF Quiet, interceptorVars
  <2>2. PICK r \in Written :
          /\ r.topic = x.topic /\ r.writer = x.writer
          /\ unsent' = unsent \ {[endpoint |-> x, key |-> r.key]}
          /\ inbox' = {m \in inbox : ~ /\ m.topic = x.topic
                                       /\ m.reader = x.reader
                                       /\ m.key = r.key}
                      \cup {[topic |-> x.topic, reader |-> x.reader,
                             key |-> r.key, value |-> r.value]}
    BY <1>5, DeliverParts
  <2>3. s \in Written /\ ~RestartConsole(c)
    BY <2>1, FeedUntouched, Restarts DEF LoopsOK
  <2>4. CASE x.topic = f[1] /\ x.reader = c /\ r.key = k
    BY <2>1, <2>2, <2>4
  <2>5. CASE ~(x.topic = f[1] /\ x.reader = c /\ r.key = k)
    <3>1. Holding(f[1], c, k)' = Holding(f[1], c, k)
      BY <2>2, <2>5
    <3>2. link # [endpoint |-> x, key |-> r.key]
      BY <1>1, <2>5
    <3> QED
      BY <1>1, <2>1, <2>2, <2>3, <3>1, <3>2
  <2> QED
    BY <2>4, <2>5
<1>6. CASE Rests
  <2>1. /\ UNCHANGED observed /\ UNCHANGED machine /\ restarts' = restarts
        /\ matched' = matched /\ unsent' = unsent /\ inbox' = inbox
    BY <1>6 DEF Rests, network
  <2>2. s \in Written /\ ~RestartConsole(c)
    BY <2>1, FeedUntouched, Restarts DEF LoopsOK
  <2> QED
    BY <1>1, <2>1, <2>2 DEF e
<1>7. ASSUME NEW p, D!Leave(p), p # f[2] =>
               /\ f[1] = "target_tracks" => UNCHANGED observed
               /\ f[1] # "target_tracks" => UNCHANGED machine
      PROVE  /\ s \in Written /\ e \in matched /\ link \notin unsent /\ p # c
             /\ Holding(f[1], c, k)' = Holding(f[1], c, k)
  <2>1. p # f[2] /\ p # c /\ e \in matched
    BY <1>1, <1>7, LeaveParts
  <2>2. s \in Written
    BY <1>7, <2>1, FeedUntouched
  <2>3. link \notin unsent
    BY <1>1, <1>7, <2>1, LeaveParts
  <2>4. inbox' = {m \in inbox : m.reader # p}
    BY <1>7, LeaveParts
  <2> QED
    BY <2>1, <2>2, <2>3, <2>4
<1>8. /\ RestartInterceptor => D!Leave("interceptor") /\ UNCHANGED observed
      /\ RestartObserver => D!Leave("observer") /\ UNCHANGED machine
      /\ \A x \in Consoles : RestartConsole(x) =>
           D!Leave(x) /\ UNCHANGED observed /\ UNCHANGED machine
  BY Restarts DEF RestartInterceptor, RestartObserver, RestartConsole, interceptorVars
<1>9. CASE RestartInterceptor \/ RestartObserver \/ \E x \in Consoles : RestartConsole(x)
  <2>1. \E p : D!Leave(p) /\ (p # f[2] =>
               /\ f[1] = "target_tracks" => UNCHANGED observed
               /\ f[1] # "target_tracks" => UNCHANGED machine)
    BY <1>2, <1>8, <1>9
  <2>2. RestartConsole(c) => e \notin matched'
    BY <1>1, <1>8, LeaveParts
  <2> HIDE DEF Holding
  <2> QED
    BY <1>1, <1>7, <2>1, <2>2 DEF e
<1> QED
  BY <1>3, <1>4, <1>5, <1>6, <1>9, StepKinds DEF e

\* The interceptor's event, if it wrote one, tells its final state.
LEMMA EventsSay ==
  ASSUME MachineOK, NEW e \in eventWriter
  PROVE  /\ startedCommandId # None /\ e.eventId = startedCommandId
         /\ state # None /\ state.status = "interceptionSucceeded"
         /\ e.position = state.position /\ e.occurredAt = state.reportedAt
         /\ effects = 1
         /\ \A d \in eventWriter : d = e
<1>1. e \in CP!ExplosionEvents /\ e.eventId \in CommandIds
  BY MachineSays, EventFields
<1>2. \A d \in eventWriter :
        /\ state.status = "interceptionSucceeded"
        /\ d.eventId = startedCommandId
        /\ d.position = state.position /\ d.occurredAt = state.reportedAt
  BY DEF MachineOK, IP!IInv, IP!EventTellsTheState
<1>3. startedCommandId # None /\ state # None
  BY <1>1, <1>2, SystemNoneAssumption, MachineSays
<1>4. effects = 1
  BY <1>2, <1>3 DEF MachineOK, IP!IInv, IP!EffectAtMostOnce, IP!Started, IP!Outcomes
<1>5. \A d \in eventWriter : d = e
  <2>1. \A d \in eventWriter :
          d = [eventId |-> d.eventId, droneId |-> drone, targetId |-> target,
               position |-> d.position, occurredAt |-> d.occurredAt]
    BY MachineSays DEF CP!ExplosionEvents
  <2> QED
    BY <1>2, <2>1
<1> QED
  BY <1>2, <1>3, <1>4, <1>5

LEMMA TracksServedKept ==
  ASSUME TypesOK, TracksServed, [Next]_vars
  PROVE  TracksServed'
<1> USE DEF TypesOK
<1> DEFINE f == <<"target_tracks", "observer">>
<1> SUFFICES ASSUME NEW c \in Consoles, trackWriter' # None,
                    Delivered("target_tracks", "observer", c, target)'
             PROVE  IF Holding("target_tracks", c, target)' = {}
                    THEN /\ targetTracks'[c][target] # None
                         /\ targetTracks'[c][target].measuredAt >= trackWriter'.measuredAt
                    ELSE \A m \in Holding("target_tracks", c, target)' :
                           m.value = trackWriter'
  BY DEF TracksServed
<1>1. f \in Feeds /\ f[1] = "target_tracks" /\ f[2] = "observer"
  BY DEF Feeds
<1>2. PICK s \in Written' : s = Sample("target_tracks", "observer", target, trackWriter')
  BY WrittenParts
<1>3. /\ s.topic = f[1] /\ s.writer = f[2] /\ s.key = target /\ s.value = trackWriter'
  BY <1>1, <1>2 DEF Sample
<1> DEFINE held == Holding("target_tracks", c, target)
<1>4. ASSUME s \in Written, Delivered("target_tracks", "observer", c, target)
      PROVE  /\ trackWriter' = trackWriter
             /\ IF held = {}
                THEN /\ targetTracks[c][target] # None
                     /\ targetTracks[c][target].measuredAt >= trackWriter.measuredAt
                ELSE \A m \in held : m.value = trackWriter
  <2>1. trackWriter' = trackWriter
    BY <1>1, <1>3, <1>4, WrittenTyped
  <2> QED
    BY <1>4, <2>1 DEF TracksServed
<1> HIDE DEF f, held
<1>5. CASE /\ UNCHANGED observed
           /\ \E r \in Written :
                /\ r.topic = f[1] /\ r.key = target
                /\ held' = {[topic |-> f[1], reader |-> c, key |-> target,
                             value |-> r.value]}
  <2>1. PICK r \in Written :
          /\ r.topic = "target_tracks"
          /\ held' = {[topic |-> f[1], reader |-> c, key |-> target, value |-> r.value]}
    BY <1>1, <1>5
  <2>2. r.value = trackWriter'
    BY <1>5, <2>1, WrittenTyped DEF observed
  <2>3. held' # {} /\ \A m \in held' : m.value = trackWriter'
    BY <2>1, <2>2
  <2> QED
    BY <2>3 DEF held
<1>6. CASE /\ s \in Written /\ Delivered(f[1], f[2], c, target)
           /\ \E m \in held :
                /\ held' = held \ {m}
                /\ IsTrackMessage(m) /\ C!ReceiveTarget(c, m.value)
  <2>1. PICK m \in held :
          held' = held \ {m} /\ IsTrackMessage(m) /\ C!ReceiveTarget(c, m.value)
    BY <1>6
  <2>2. /\ trackWriter' = trackWriter /\ \A n \in held : n.value = trackWriter
    BY <1>1, <1>4, <1>6
  <2>3. /\ targetTracks'[c][target] # None
        /\ targetTracks'[c][target].measuredAt >= m.value.measuredAt
    BY <2>1, TakenTrack, MeasuredIsTrack DEF IsTrackMessage
  <2> QED
    BY <2>1, <2>2, <2>3 DEF held
<1>7. CASE /\ s \in Written /\ Delivered(f[1], f[2], c, target)
           /\ held' = held /\ ~RestartConsole(c)
  <2>1. /\ trackWriter' = trackWriter
        /\ IF held = {}
           THEN /\ targetTracks[c][target] # None
                /\ targetTracks[c][target].measuredAt >= trackWriter.measuredAt
           ELSE \A m \in held : m.value = trackWriter
    BY <1>1, <1>4, <1>7
  <2>2. held = {} => targetTracks'[c] = targetTracks[c]
    <3>1. \A m \in D!Cached("target_tracks", c) : m \in held
      BY CachedParts DEF IsTrackMessage, Holding, held
    <3> QED
      BY <1>7, <3>1, ProjectionMoves
  <2> QED
    BY <1>7, <2>1, <2>2 DEF held
<1> QED
  BY <1>1, <1>3, <1>5, <1>6, <1>7, ServedMoves DEF f, held

LEMMA StatesServedKept ==
  ASSUME TypesOK, StatesServed, [Next]_vars
  PROVE  StatesServed'
<1> USE DEF TypesOK
<1> DEFINE f == <<"drone_states", "interceptor">>
<1> SUFFICES ASSUME NEW c \in Consoles, state' # None,
                    Delivered("drone_states", "interceptor", c, drone)'
             PROVE  IF Holding("drone_states", c, drone)' = {}
                    THEN /\ droneStates'[c][drone] # None
                         /\ droneStates'[c][drone].reportedAt >= state'.reportedAt
                    ELSE \A m \in Holding("drone_states", c, drone)' : m.value = state'
  BY DEF StatesServed
<1>1. f \in Feeds /\ f[1] = "drone_states" /\ f[2] = "interceptor"
  BY DEF Feeds
<1>2. PICK s \in Written' : s = Sample("drone_states", "interceptor", drone, state')
  BY WrittenParts, NextReport
<1>3. /\ s.topic = f[1] /\ s.writer = f[2] /\ s.key = drone /\ s.value = state'
  BY <1>1, <1>2 DEF Sample
<1> DEFINE held == Holding("drone_states", c, drone)
<1>4. ASSUME s \in Written, Delivered("drone_states", "interceptor", c, drone)
      PROVE  /\ state' = state
             /\ IF held = {}
                THEN /\ droneStates[c][drone] # None
                     /\ droneStates[c][drone].reportedAt >= state.reportedAt
                ELSE \A m \in held : m.value = state
  <2>1. state' = state
    BY <1>1, <1>3, <1>4, WrittenTyped
  <2> QED
    BY <1>4, <2>1 DEF StatesServed
<1> HIDE DEF f, held
<1>5. CASE /\ UNCHANGED machine
           /\ \E r \in Written :
                /\ r.topic = f[1] /\ r.key = drone
                /\ held' = {[topic |-> f[1], reader |-> c, key |-> drone,
                             value |-> r.value]}
  <2>1. PICK r \in Written :
          /\ r.topic = "drone_states"
          /\ held' = {[topic |-> f[1], reader |-> c, key |-> drone, value |-> r.value]}
    BY <1>1, <1>5
  <2>2. r.value = state'
    BY <1>5, <2>1, WrittenTyped DEF machine
  <2>3. held' # {} /\ \A m \in held' : m.value = state'
    BY <2>1, <2>2
  <2> QED
    BY <2>3 DEF held
<1>6. CASE /\ s \in Written /\ Delivered(f[1], f[2], c, drone)
           /\ \E m \in held :
                /\ held' = held \ {m}
                /\ IsStateMessage(m) /\ C!ReceiveDrone(c, m.value)
  <2>1. PICK m \in held :
          held' = held \ {m} /\ IsStateMessage(m) /\ C!ReceiveDrone(c, m.value)
    BY <1>6
  <2>2. /\ state' = state /\ \A n \in held : n.value = state
    BY <1>1, <1>4, <1>6
  <2>3. /\ droneStates'[c][drone] # None
        /\ droneStates'[c][drone].reportedAt >= m.value.reportedAt
    BY <2>1, TakenState DEF IsStateMessage
  <2> QED
    BY <2>1, <2>2, <2>3 DEF held
<1>7. CASE /\ s \in Written /\ Delivered(f[1], f[2], c, drone)
           /\ held' = held /\ ~RestartConsole(c)
  <2>1. /\ state' = state
        /\ IF held = {}
           THEN /\ droneStates[c][drone] # None
                /\ droneStates[c][drone].reportedAt >= state.reportedAt
           ELSE \A m \in held : m.value = state
    BY <1>1, <1>4, <1>7
  <2>2. held = {} => droneStates'[c] = droneStates[c]
    <3>1. \A m \in D!Cached("drone_states", c) : m \in held
      BY CachedParts DEF IsStateMessage, Holding, held
    <3> QED
      BY <1>7, <3>1, ProjectionMoves
  <2> QED
    BY <1>7, <2>1, <2>2 DEF held
<1> QED
  BY <1>1, <1>3, <1>5, <1>6, <1>7, ServedMoves DEF f, held

\* The only console knows what it needs to record the event.
LEMMA OnlyConsoleKnows ==
  ASSUME TypesOK, KnownOK, restarts = 0, NEW c \in Consoles, Consoles = {c},
         eventWriter # {}
  PROVE  /\ targetTracks[c][target] # None /\ droneStates[c][drone] # None
         /\ droneStates[c][drone].assignedTargetId = target
<1> USE DEF TypesOK
<1>1. startedCommandId # None
  BY EventsSay
<1>2. Commands # {}
  BY <1>1 DEF KnownOK
<1>3. commandWriter[c] # {}
  BY <1>2 DEF Commands
<1>4. targetTracks[c][target] # None
  BY <1>3 DEF SentOK
<1>5. droneStates[c][drone] # None /\ droneStates[c][drone].status # "available"
  BY <1>3 DEF KnownOK
<1> QED
  BY <1>4, <1>5, DesksSay, StateFields

LEMMA EventsServedKept ==
  ASSUME TypesOK, PastTracksOK, PastEventsOK, KnownOK, EventsServed, [Next]_vars
  PROVE  EventsServed'
<1> USE DEF TypesOK
<1> DEFINE f == <<"explosion_events", "interceptor">>
<1> SUFFICES ASSUME NEW c \in Consoles, NEW e \in eventWriter',
                    Delivered("explosion_events", "interceptor", c, e.eventId)'
             PROVE  IF Holding("explosion_events", c, e.eventId)' = {}
                    THEN restarts' = 0 /\ Consoles = {c} =>
                           outcomes'[c][e.eventId] = e
                    ELSE \A m \in Holding("explosion_events", c, e.eventId)' :
                           m.value = e
  BY DEF EventsServed
<1> DEFINE k == e.eventId
           held == Holding("explosion_events", c, k)
<1>1. f \in Feeds /\ f[1] = "explosion_events" /\ f[2] = "interceptor"
  BY DEF Feeds
<1>2. PICK s \in Written' : s = Sample("explosion_events", "interceptor", k, e)
  BY WrittenParts
<1>3. s.topic = f[1] /\ s.writer = f[2] /\ s.key = k /\ s.value = e
  BY <1>1, <1>2 DEF Sample
<1>4. s \in Written => e \in eventWriter
  BY <1>1, <1>3, WrittenTyped
<1>5. ASSUME s \in Written, Delivered("explosion_events", "interceptor", c, k)
      PROVE  IF held = {}
             THEN restarts = 0 /\ Consoles = {c} => outcomes[c][k] = e
             ELSE \A m \in held : m.value = e
  BY <1>4, <1>5 DEF EventsServed
<1>6. restarts' = 0 => restarts = 0
  BY WritersAdvance
<1> HIDE DEF f, k, held
<1>7. CASE /\ UNCHANGED machine
           /\ \E r \in Written :
                /\ r.topic = f[1] /\ r.key = k
                /\ held' = {[topic |-> f[1], reader |-> c, key |-> k,
                             value |-> r.value]}
  <2>1. PICK r \in Written :
          /\ r.topic = "explosion_events"
          /\ held' = {[topic |-> f[1], reader |-> c, key |-> k, value |-> r.value]}
    BY <1>1, <1>7
  <2>2. r.value \in eventWriter /\ e \in eventWriter
    BY <1>7, <2>1, WrittenTyped DEF machine
  <2>3. r.value = e
    BY <2>2, EventsSay
  <2>4. held' # {} /\ \A m \in held' : m.value = e
    BY <2>1, <2>3
  <2> QED
    BY <2>4 DEF held, k
<1>8. CASE /\ s \in Written /\ Delivered(f[1], f[2], c, k)
           /\ \E m \in held :
                /\ held' = held \ {m}
                /\ IsEventMessage(m) /\ C!ReceiveOutcome(c, m.value)
  <2>1. PICK m \in held :
          held' = held \ {m} /\ IsEventMessage(m) /\ C!ReceiveOutcome(c, m.value)
    BY <1>8
  <2>2. e \in eventWriter /\ \A n \in held : n.value = e
    BY <1>1, <1>4, <1>5, <1>8
  <2>3. m.value = e /\ e \in CP!ExplosionEvents /\ k \in CommandIds
    BY <2>1, <2>2, MachineSays, EventFields DEF k
  <2>4. ASSUME restarts' = 0, Consoles = {c} PROVE outcomes'[c][k] = e
    <3>1. CASE outcomes' = outcomes /\ C!OutcomeUpdateResult(c, e) # "recorded"
      <4>1. /\ targetTracks[c][target] # None /\ droneStates[c][drone] # None
            /\ droneStates[c][drone].assignedTargetId = target
        BY <1>6, <2>2, <2>4, OnlyConsoleKnows
      <4>2. outcomes[c][k] # None
        BY <2>3, <3>1, <4>1, EventFields DEF C!OutcomeUpdateResult, k
      <4>3. outcomes[c][k] \in eventWriter
        BY <1>6, <2>3, <2>4, <4>2 DEF PastEventsOK, PastEvents
      <4> QED
        BY <2>2, <3>1, <4>3, EventsSay
    <3>2. CASE outcomes'[c][e.eventId] = e
      BY <3>2 DEF k
    <3> QED
      BY <2>1, <2>3, <3>1, <3>2, TakenEvent
  <2> QED
    BY <2>1, <2>2, <2>4 DEF held, k
<1>9. CASE /\ s \in Written /\ Delivered(f[1], f[2], c, k)
           /\ held' = held /\ ~RestartConsole(c)
  <2>1. IF held = {}
        THEN restarts = 0 /\ Consoles = {c} => outcomes[c][k] = e
        ELSE \A m \in held : m.value = e
    BY <1>1, <1>5, <1>9
  <2>2. e \in CP!ExplosionEvents /\ k \in CommandIds
    BY <1>4, <1>9, MachineSays, EventFields DEF k
  <2>3. ASSUME held = {} PROVE outcomes'[c][k] = outcomes[c][k]
    <3>1. ASSUME NEW m \in D!Cached("explosion_events", c),
                 C!ReceiveOutcome(c, m.value)
          PROVE  outcomes'[c][k] = outcomes[c][k]
      <4>1. /\ m \in inbox /\ m.topic = "explosion_events" /\ m.reader = c
            /\ m.key = m.value.eventId /\ m.value \in CP!ExplosionEvents
        BY CachedParts DEF IsEventMessage
      <4>2. m.value.eventId # k
        BY <2>3, <4>1 DEF Holding, held
      <4> QED
        BY <2>2, <3>1, <4>1, <4>2, TakenEvent
    <3> QED
      BY <1>9, <3>1, ProjectionMoves
  <2> QED
    BY <1>6, <1>9, <2>1, <2>3 DEF held, k
<1> QED
  BY <1>1, <1>3, <1>7, <1>8, <1>9, ServedMoves DEF f, held, k

-----------------------------------------------------------------------------
(* The invariant of the system.                                            *)

LEMMA InitSInv ==
  ASSUME Init
  PROVE  SInv
<1> USE DEF Init
<1>1. IP!Init /\ CP!Init /\ O!Init
  BY MachineLinks, DeskLinks
<1>2. MachineOK
  BY <1>1, IP!InitIInv, MachineAssumptions DEF MachineOK, IP!Init
<1>3. DesksOK
  BY <1>1, CP!InitCInv, DeskAssumptions DEF DesksOK
<1>4. ObserverOK
  BY <1>1, SystemAssumption DEF O!Init, ObserverOK
<1>5. /\ LoopsOK
      /\ \A c \in Consoles : ~automation[c].assignmentSent
  <2>1. consolePc \in [Consoles -> {"off", "match"}]
    OBVIOUS
  <2> QED
    BY <2>1 DEF LoopsOK
<1>6. \A c \in Consoles :
        /\ targetTracks[c][target] = None /\ droneStates[c][drone] = None
        /\ \A id \in CommandIds : outcomes[c][id] = None
        /\ assignmentWriter[c][drone] = None /\ commandWriter[c] = {}
  BY <1>1 DEF CP!Init
<1>7. unsent = {} /\ inbox = {} /\ matched \subseteq Endpoints
  BY DEF D!Init
<1>8. TypesOK
  BY <1>2, <1>3, <1>4, <1>5, <1>6, <1>7 DEF TypesOK, SentOK, UnsentOK, InboxOK
<1>9. \A t : ~Coming(t) /\ Arrived(t) = {}
  BY <1>7 DEF Coming, Unsent, Waiting, Arrived
<1>10. PastTracks = {} /\ PastStates = {} /\ PastEvents = {}
  BY <1>6, <1>9 DEF PastTracks, PastStates, PastEvents
<1>11. PastTracksOK /\ PastStatesOK /\ PastEventsOK
  BY <1>6, <1>10 DEF PastTracksOK, PastStatesOK, PastEventsOK
<1>12. /\ state = None /\ trackWriter = None /\ eventWriter = {}
       /\ startedCommandId = None /\ deliveredCommandIds = {}
  BY <1>1 DEF IP!Init, O!Init
<1>13. FreshOK /\ KnownOK /\ AcceptOK
  BY <1>6, <1>7, <1>9, <1>12 DEF FreshOK, KnownOK, AcceptOK, Coming, Waiting,
     Unsent, I!Tasked, I!Started
<1>14. TracksServed /\ StatesServed /\ EventsServed
  BY <1>12 DEF TracksServed, StatesServed, EventsServed
<1> QED
  BY <1>8, <1>11, <1>13, <1>14 DEF SInv

LEMMA SInvKept ==
  ASSUME SInv, [Next]_vars
  PROVE  SInv'
BY TypesKept, PastTracksKept, PastStatesKept, PastEventsKept, FreshKept,
   KnownKept, AcceptKept, TracksServedKept, StatesServedKept, EventsServedKept
   DEF SInv

\* The system keeps its invariant in every interleaving of its loops,
\* discovery, deliveries and restarts.
THEOREM SystemInvariance == Spec => []SInv
<1>1. Init => SInv
  BY InitSInv
<1>2. SInv /\ [Next]_vars => SInv'
  BY SInvKept
<1> QED
  BY <1>1, <1>2, PTL DEF Spec

-----------------------------------------------------------------------------
(* The properties of the system.                                           *)

\* No interceptor acts on operator intent of before its own start: intents
\* are volatile and are not replayed to a restarted process.
THEOREM IntentIsFresh == Spec => []FreshIntentOnly
<1>1. SInv => FreshIntentOnly
  BY DEF SInv, FreshOK, FreshIntentOnly
<1> QED
  BY <1>1, SystemInvariance, PTL

\* Without a restart, no console is ahead of what the interceptor and the
\* observer have said.
THEOREM ConsolesNeverRunAhead == Spec => [](restarts = 0 => ConsoleLagsBehind)
<1>1. SInv => (restarts = 0 => ConsoleLagsBehind)
  BY DEF SInv, PastStatesOK, PastTracksOK, PastStates, PastTracks,
     ConsoleLagsBehind
<1> QED
  BY <1>1, SystemInvariance, PTL

\* Without a restart, the outcome a console shows is the final state of a
\* pursuit that some console commanded.
THEOREM OutcomesAreOfCommands == Spec => [](restarts = 0 => OutcomesAreEarned)
<1>1. ASSUME SInv, restarts = 0, NEW c \in Consoles, NEW id \in CommandIds,
             outcomes[c][id] # None
      PROVE  LET e == outcomes[c][id]
             IN /\ effects = 1
                /\ state.status = "interceptionSucceeded"
                /\ e.position = state.position /\ e.occurredAt = state.reportedAt
                /\ [commandId |-> id, droneId |-> e.droneId, targetId |-> e.targetId]
                     \in UNION {commandWriter[x] : x \in Consoles}
  <2> DEFINE e == outcomes[c][id]
  <2> USE DEF SInv, TypesOK
  <2>1. e \in eventWriter /\ e.eventId = id
    BY <1>1 DEF PastEventsOK, PastEvents
  <2>2. /\ e.droneId = drone /\ e.targetId = target
        /\ startedCommandId # None /\ id = startedCommandId
    BY <1>1, <2>1, MachineSays, EventFields, EventsSay
  <2>3. PICK m \in Commands : m.commandId = id
    BY <1>1, <2>2 DEF KnownOK
  <2>4. m = [commandId |-> id, droneId |-> drone, targetId |-> target]
    BY <1>1, <2>3, DesksSay DEF Commands
  <2> QED
    BY <1>1, <2>1, <2>2, <2>3, <2>4, EventsSay DEF Commands
<1>2. SInv => (restarts = 0 => OutcomesAreEarned)
  BY <1>1 DEF OutcomesAreEarned
<1> QED
  BY <1>2, SystemInvariance, PTL

\* With one automated console and no restart, every intent under way will be
\* accepted, although its console checked a stale projection.
THEOREM IntentsFindAcceptance ==
  Spec => [](restarts = 0 /\ (\A a, b \in Automated : a = b) => IntentsAreAccepted)
<1> USE DEF TypesOK
<1>1. ASSUME TypesOK, NEW t \in {"assignments", "interception_commands"},
             NEW v \in UnderWay(t)
      PROVE  /\ Coming(t)
             /\ t = "assignments" => v = [droneId |-> drone, targetId |-> target]
             /\ t = "interception_commands" =>
                  v.droneId = drone /\ v.targetId = target /\ v.commandId \in CommandIds
  <2>1. ASSUME NEW m \in D!Cached(t, "interceptor"), v = m.value
        PROVE  /\ Waiting(t)
               /\ t = "assignments" => v = [droneId |-> drone, targetId |-> target]
               /\ t = "interception_commands" => v \in IP!InterceptionCommands
    BY <1>1, <2>1, CachedParts DEF Waiting, IsAssignmentMessage, IsCommandMessage
  <2>2. ASSUME NEW s \in Written, NEW u \in unsent, s.topic = t,
               u.endpoint.topic = t, v = s.value
        PROVE  /\ Unsent(t)
               /\ t = "assignments" => v = [droneId |-> drone, targetId |-> target]
               /\ t = "interception_commands" => v \in IP!InterceptionCommands
    BY <1>1, <2>2, WrittenTyped DEF Unsent
  <2>3. \/ \E m \in D!Cached(t, "interceptor") : v = m.value
        \/ \E s \in Written, u \in unsent :
             s.topic = t /\ u.endpoint.topic = t /\ v = s.value
    <3>1. \/ v \in {m.value : m \in D!Cached(t, "interceptor")}
          \/ v \in {s.value : s \in {x \in Written : \E u \in unsent :
               /\ x.topic = t /\ u.endpoint.topic = t
               /\ u.endpoint.writer = x.writer /\ u.key = x.key}}
      BY <1>1 DEF UnderWay
    <3>2. CASE v \in {m.value : m \in D!Cached(t, "interceptor")}
      BY <3>2
    <3>3. ASSUME NEW s \in {x \in Written : \E u \in unsent :
                   /\ x.topic = t /\ u.endpoint.topic = t
                   /\ u.endpoint.writer = x.writer /\ u.key = x.key},
                 v = s.value
          PROVE  \E r \in Written, u \in unsent :
                   r.topic = t /\ u.endpoint.topic = t /\ v = r.value
      BY <3>3
    <3> QED
      BY <3>1, <3>2, <3>3
  <2>4. /\ Coming(t)
        /\ t = "assignments" => v = [droneId |-> drone, targetId |-> target]
        /\ t = "interception_commands" => v \in IP!InterceptionCommands
    BY <2>1, <2>2, <2>3 DEF Coming
  <2> QED
    BY <2>4 DEF IP!InterceptionCommands
<1>2. ASSUME SInv, restarts = 0, \A a, b \in Automated : a = b
      PROVE  IntentsAreAccepted
  <2>1. ASSUME NEW a \in UnderWay("assignments")
        PROVE  I!AssignmentResult(a) = "applied"
    <3>1. a.droneId = drone /\ Coming("assignments")
      BY <1>1, <1>2 DEF SInv
    <3>2. I!Started /\ ~I!Tasked
      BY <1>2, <3>1 DEF SInv, AcceptOK
    <3> QED
      BY <3>1, <3>2 DEF I!AssignmentResult
  <2>2. ASSUME NEW m \in UnderWay("interception_commands")
        PROVE  /\ I!StartResult(m) = "started"
               /\ m.commandId \notin deliveredCommandIds
    <3>1. /\ m.droneId = drone /\ m.targetId = target /\ m.commandId \in CommandIds
          /\ Coming("interception_commands")
      BY <1>1, <1>2 DEF SInv
    <3>2. /\ I!Started /\ state.status = "assigned"
          /\ deliveredCommandIds = {} /\ startedCommandId = None
      BY <1>2, <3>1 DEF SInv, AcceptOK
    <3>3. state.assignedTargetId = target
      BY <1>2, <3>2, MachineSays, StateFields DEF SInv, I!Started
    <3> QED
      BY <3>1, <3>2, <3>3, SystemNoneAssumption DEF I!StartResult
  <2> QED
    BY <2>1, <2>2 DEF IntentsAreAccepted
<1>3. SInv => (restarts = 0 /\ (\A a, b \in Automated : a = b) => IntentsAreAccepted)
  BY <1>2
<1> QED
  BY <1>3, SystemInvariance, PTL

\* What a console has drained for a key it has been delivered, and nothing
\* of it waits.
LEMMA DrainedParts ==
  ASSUME NEW topic, NEW writer, NEW c, NEW keys, Drained(c, topic, writer, keys),
         NEW k \in keys
  PROVE  Delivered(topic, writer, c, k) /\ Holding(topic, c, k) = {}
BY DEF Drained, Delivered, Holding, D!Cached

\* A console, late or not, that has taken all it was given shows the newest
\* track and report, or, after a restart, something no older.
THEOREM DrainedConsolesAreCurrent == Spec => []DrainedConsoleIsCurrent
<1>1. ASSUME SInv PROVE DrainedConsoleIsCurrent
  <2> USE DEF TypesOK
  <2>1. ASSUME NEW c \in Consoles,
               Drained(c, "target_tracks", "observer", {target}), trackWriter # None,
               targetTracks[c][target] # trackWriter
        PROVE  /\ targetTracks[c][target] # None
               /\ targetTracks[c][target].measuredAt >= trackWriter.measuredAt
               /\ restarts > 0
    <3> DEFINE track == targetTracks[c][target]
    <3>1. track # None /\ track.measuredAt >= trackWriter.measuredAt
      BY <1>1, <2>1, DrainedParts DEF SInv, TracksServed
    <3>2. /\ track = Measured(track.measuredAt) /\ track.measuredAt \in Nat
          /\ restarts = 0 => track.measuredAt <= trackWriter.measuredAt
      BY <1>1, <3>1 DEF SInv, PastTracksOK, PastTracks
    <3>3. trackWriter = Measured(trackWriter.measuredAt) /\ trackWriter.measuredAt \in Nat
      <4>1. trackWriter = Measured(tickIndex - 1) /\ tickIndex - 1 \in Nat
        BY <1>1, <2>1, SystemAssumption DEF SInv, ObserverOK
      <4> QED
        BY <4>1, MeasuredIsTrack
    <3>4. restarts = 0 => track.measuredAt = trackWriter.measuredAt
      BY <3>1, <3>2, <3>3
    <3>5. restarts # 0
      BY <2>1, <3>2, <3>3, <3>4
    <3> QED
      BY <1>1, <3>1, <3>5 DEF SInv, LoopsOK
  <2>2. ASSUME NEW c \in Consoles,
               Drained(c, "drone_states", "interceptor", {drone}), I!Started,
               droneStates[c][drone] # state
        PROVE  /\ droneStates[c][drone] # None
               /\ droneStates[c][drone].reportedAt >= state.reportedAt
               /\ restarts > 0 \/ state.status \notin I!Outcomes
    <3> DEFINE seen == droneStates[c][drone]
    <3>1. seen # None /\ seen.reportedAt >= state.reportedAt
      BY <1>1, <2>2, DrainedParts DEF SInv, StatesServed, I!Started
    <3>2. /\ seen \in PastStates
          /\ seen.reportedAt \in Nat /\ state.reportedAt \in Nat
      BY <1>1, <2>2, <3>1, DesksSay, MachineSays, StateFields
         DEF SInv, PastStates, I!Started
    <3>3. restarts = 0 => /\ seen.reportedAt <= state.reportedAt
                          /\ seen.reportedAt = state.reportedAt
                             /\ state.status \in I!Outcomes => seen = state
      BY <1>1, <3>2 DEF SInv, PastStatesOK
    <3>4. restarts = 0 => state.status \notin I!Outcomes
      BY <2>2, <3>1, <3>2, <3>3
    <3> QED
      BY <1>1, <3>1, <3>4 DEF SInv, LoopsOK
  <2> QED
    BY <2>1, <2>2 DEF DrainedConsoleIsCurrent
<1> QED
  BY <1>1, SystemInvariance, PTL

\* The only console of a system without restarts records every explosion
\* event it takes: it knew the target and the assigned drone by then.
THEOREM OnlyConsoleRecordsOutcomes ==
  Spec => [](restarts = 0 /\ (\E a \in Consoles : Consoles = {a})
               => TakenOutcomeIsRecorded)
<1>1. ASSUME SInv, restarts = 0, NEW a \in Consoles, Consoles = {a}
      PROVE  TakenOutcomeIsRecorded
  <2>1. ASSUME NEW c \in Consoles, NEW e \in eventWriter,
               Drained(c, "explosion_events", "interceptor", {e.eventId})
        PROVE  outcomes[c][e.eventId] = e
    BY <1>1, <2>1, DrainedParts DEF SInv, EventsServed
  <2> QED
    BY <2>1 DEF TakenOutcomeIsRecorded
<1>2. SInv => (restarts = 0 /\ (\E a \in Consoles : Consoles = {a})
                 => TakenOutcomeIsRecorded)
  BY <1>1
<1> QED
  BY <1>2, SystemInvariance, PTL
===============================================================================
