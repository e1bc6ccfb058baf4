---------------------------- MODULE SampleDelivery ----------------------------
(***************************************************************************)
(* One DDS reader of a process and the subscriber that polls it: what      *)
(* arrives in the reader's cache is taken, checked, mapped and handed to   *)
(* the input port of the core.  Any participant of the domain may write    *)
(* any sample of the topic's wire type, and the middleware puts            *)
(* notifications about an instance, without data, among the samples.       *)
(*                                                                         *)
(* The five readers and the five subscribers differ in their topic, which  *)
(* is chosen initially.  The cache holds the newest sample of each key.    *)
(***************************************************************************)
EXTENDS WireMapping, Sequences

CONSTANTS
  Topics,         \* the topics a run is about
  MaxArrivals,    \* bound on the samples that arrive, for each topic
  TakesMayFail

AllTopics == {"target_tracks", "drone_states", "assignments",
              "interception_commands", "explosion_events"}

ASSUME DeliveryAssumption ==
  Topics \subseteq AllTopics /\ MaxArrivals \in [Topics -> Nat] /\ TakesMayFail \in BOOLEAN

VARIABLES
  topic,                \* the topic of the reader
  cache,                \* untaken samples of the reader, one per key
  arrived,              \* data that arrived, in order
  handed,               \* values handed to the input port, in order
  refused,              \* data discarded as malformed
  deliveredCommandIds,  \* deliveredCommandIds_ of the command subscriber
  exit                  \* why the process left run(), "none" while it runs

vars == <<topic, cache, arrived, handed, refused, deliveredCommandIds, exit>>

-----------------------------------------------------------------------------
(* The topics: what is on the wire, what it means, how it is told apart.   *)

WireData(t) ==
  CASE t = "target_tracks" -> WireTargetTracks
    [] t = "drone_states" -> WireDroneStates
    [] t = "assignments" -> WireAssignments
    [] t = "interception_commands" -> WireInterceptionCommands
    [] t = "explosion_events" -> WireExplosionEvents

KeyOf(t, w) ==
  CASE t = "target_tracks" -> w.target_id
    [] t = "drone_states" -> w.drone_id
    [] t = "assignments" -> w.drone_id
    [] t = "interception_commands" -> w.command_id
    [] t = "explosion_events" -> w.event_id

\* The values the domain allows.
TargetTracks == [targetId : Identities, position : Places, measuredAt : Moments]
DroneStates ==
  {s \in [droneId : Identities, position : Places, reportedAt : Moments,
          status : Statuses, assignedTargetId : Identities \cup {None}] :
     IsDroneState(s)}
Assignments == [droneId : Identities, targetId : Identities]
InterceptionCommands ==
  [commandId : Identities, droneId : Identities, targetId : Identities]
ExplosionEvents ==
  [eventId : Identities, droneId : Identities, targetId : Identities,
   position : Places, occurredAt : Moments]

Values(t) ==
  CASE t = "target_tracks" -> TargetTracks
    [] t = "drone_states" -> DroneStates
    [] t = "assignments" -> Assignments
    [] t = "interception_commands" -> InterceptionCommands
    [] t = "explosion_events" -> ExplosionEvents

ToWire(t, v) ==
  CASE t = "target_tracks" -> ToWireTargetTrack(v)
    [] t = "drone_states" -> ToWireDroneState(v)
    [] t = "assignments" -> ToWireAssignment(v)
    [] t = "interception_commands" -> ToWireInterceptionCommand(v)
    [] t = "explosion_events" -> ToWireExplosionEvent(v)

-----------------------------------------------------------------------------
(* takeNext of the five readers, in the words of their subscribers.        *)

Taken(s, error, value) ==
  IF ~s.valid THEN [issue |-> "discardedInvalidData"]
  ELSE IF error # "none" THEN [issue |-> "discardedMalformedData"]
  ELSE [issue |-> "none", value |-> value]

TakeTargetTrack(s) ==
  Taken(s, TargetTrackMappingError(s.data), FromWireTargetTrack(s.data))
TakeDroneState(s) ==
  Taken(s, DroneStateMappingError(s.data), FromWireDroneState(s.data))
TakeAssignment(s) ==
  Taken(s, AssignmentMappingError(s.data), FromWireAssignment(s.data))
TakeInterceptionCommand(s) ==
  Taken(s, InterceptionCommandMappingError(s.data), FromWireInterceptionCommand(s.data))
TakeExplosionEvent(s) ==
  Taken(s, ExplosionEventMappingError(s.data), FromWireExplosionEvent(s.data))

TakeNext(t, s) ==
  CASE t = "target_tracks" -> TakeTargetTrack(s)
    [] t = "drone_states" -> TakeDroneState(s)
    [] t = "assignments" -> TakeAssignment(s)
    [] t = "interception_commands" -> TakeInterceptionCommand(s)
    [] t = "explosion_events" -> TakeExplosionEvent(s)

-----------------------------------------------------------------------------
Init ==
  /\ topic \in Topics
  /\ cache = {} /\ arrived = <<>> /\ handed = <<>> /\ refused = {}
  /\ deliveredCommandIds = {}
  /\ exit = "none"

Put(s) == cache' = {x \in cache : x.key # s.key} \cup {s}

Arrive ==
  /\ Len(arrived) < MaxArrivals[topic]
  /\ \E w \in WireData(topic) :
       /\ Put([key |-> KeyOf(topic, w), valid |-> TRUE, data |-> w])
       /\ arrived' = Append(arrived, w)
  /\ UNCHANGED <<topic, handed, refused, deliveredCommandIds, exit>>

\* The last writer of an instance disposes of it or vanishes.
NotifyInstance ==
  /\ \E i \in 1..Len(arrived) :
       LET key == KeyOf(topic, arrived[i])
       IN /\ \A x \in cache : x.key # key
          /\ Put([key |-> key, valid |-> FALSE, data |-> None])
  /\ UNCHANGED <<topic, arrived, handed, refused, deliveredCommandIds, exit>>

-----------------------------------------------------------------------------
(* receiveNext of a subscriber.                                            *)

\* Mutant: what cannot be used stays in the cache.
KeepUnusable(s) ==
  /\ exit = "none" /\ s \in cache
  /\ cache' = IF TakeNext(topic, s).issue = "none" THEN cache \ {s} ELSE cache

\* take_next_sample removes the sample, whatever becomes of it.
Take(s) == exit = "none" /\ s \in cache /\ cache' = cache \ {s}

DiscardInvalid(s) ==
  /\ Take(s)
  /\ TakeNext(topic, s).issue = "discardedInvalidData"
  /\ UNCHANGED <<topic, arrived, handed, refused, deliveredCommandIds, exit>>

DiscardMalformed(s) ==
  /\ Take(s)
  /\ TakeNext(topic, s).issue = "discardedMalformedData"
  /\ refused' = refused \cup {s.data}
  /\ UNCHANGED <<topic, arrived, handed, deliveredCommandIds, exit>>

HandOver(s) ==
  /\ topic # "interception_commands"
  /\ Take(s)
  /\ TakeNext(topic, s).issue = "none"
  /\ handed' = Append(handed, TakeNext(topic, s).value)
  /\ UNCHANGED <<topic, arrived, refused, deliveredCommandIds, exit>>

\* Mutant: the identity is remembered only when the set was empty.
HandOverAgain(s) ==
  /\ topic = "interception_commands"
  /\ Take(s)
  /\ TakeNext(topic, s).issue = "none"
  /\ handed' = Append(handed, TakeNext(topic, s).value)
  /\ deliveredCommandIds' =
       IF deliveredCommandIds = {} THEN {TakeNext(topic, s).value.commandId}
       ELSE deliveredCommandIds
  /\ UNCHANGED <<topic, arrived, refused, exit>>

HandOverCommand(s) ==
  /\ topic = "interception_commands"
  /\ Take(s)
  /\ TakeNext(topic, s).issue = "none"
  /\ LET command == TakeNext(topic, s).value
     IN /\ deliveredCommandIds' = deliveredCommandIds \cup {command.commandId}
        /\ handed' = IF command.commandId \in deliveredCommandIds THEN handed
                     ELSE Append(handed, command)
  /\ UNCHANGED <<topic, arrived, refused, exit>>

\* take_next_sample is refused: the exception leaves main.
TakeFails(s) ==
  /\ TakesMayFail
  /\ exit = "none" /\ s \in cache
  /\ exit' = "takeFailed"
  /\ UNCHANGED <<topic, cache, arrived, handed, refused, deliveredCommandIds>>

TakeSample ==
  \E s \in cache :
    \/ DiscardInvalid(s)
    \/ DiscardMalformed(s)
    \/ HandOver(s)
    \/ HandOverCommand(s)

ReceiveNext == TakeSample \/ \E s \in cache : TakeFails(s)

-----------------------------------------------------------------------------
Next == Arrive \/ NotifyInstance \/ ReceiveNext

Spec == Init /\ [][Next]_vars

\* The loop that polls goes on; nothing is promised about arrivals or failures.
FairSpec == Spec /\ WF_vars(TakeSample)

-----------------------------------------------------------------------------
(* Properties.                                                             *)

\* The cache holds samples of the topic or notifications, one per key, and the
\* input port gets values of the topic.
TypeOK ==
  /\ topic \in Topics
  /\ \A s \in cache :
       s.valid => s.data \in WireData(topic) /\ s.key = KeyOf(topic, s.data)
  /\ \A s, x \in cache : s.key = x.key => s = x
  /\ \A i \in 1..Len(arrived) : arrived[i] \in WireData(topic)
  /\ handed \in Seq(Values(topic))
  /\ refused \subseteq WireData(topic)
  /\ deliveredCommandIds \subseteq Identifiers
  /\ exit \in {"none", "takeFailed"}

\* Whatever anybody writes, an input port gets values the domain allows: the
\* constructors called while a sample is mapped never throw.
PortsSeeOnlyValidValues ==
  \A i \in 1..Len(handed) : handed[i] \in Values(topic)

\* What the port gets is what somebody wrote, field by field.
NothingIsInvented ==
  \A i \in 1..Len(handed) :
    \E k \in 1..Len(arrived) : arrived[k] = ToWire(topic, handed[i])

\* A sample that one of the system's own writers can write is never taken for
\* malformed by its readers, whose checks are written separately.
OwnSamplesAreUnderstood == \A v \in Values(topic) : ToWire(topic, v) \notin refused

\* A command identity is handed on once, and a sample that was refused or
\* without data does not use an identity up.
CommandsAreHandedOnce ==
  topic = "interception_commands" =>
    /\ \A i, k \in 1..Len(handed) :
         handed[i].commandId = handed[k].commandId => i = k
    /\ deliveredCommandIds = {handed[i].commandId : i \in 1..Len(handed)}

\* A sample that cannot be used does not block those behind it: when nothing
\* new arrives any more, the cache is emptied, unless the process ends.
EverySampleIsTaken ==
  <>[][ReceiveNext]_vars => <>[](cache = {} \/ exit # "none")
=============================================================================
