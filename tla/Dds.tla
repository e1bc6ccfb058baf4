--------------------------------- MODULE Dds ---------------------------------
(***************************************************************************)
(* The middleware as the transport classes configure and use it.  All five *)
(* topics are RELIABLE and KEEP_LAST(1) per key.  A writer keeps the       *)
(* newest sample of a key; a reader cache keeps the newest arrived sample  *)
(* of a key until it is taken.  A sample that is replaced before it was    *)
(* delivered, or before it was taken, is never seen.                       *)
(*                                                                         *)
(* Discovery is per writer and reader, at any time and in any order.       *)
(* A writer sends to the readers it has matched; on a match, it also sends *)
(* what it retains when the topic is TRANSIENT_LOCAL.  Deliveries of       *)
(* different keys, topics and readers are not ordered.                     *)
(***************************************************************************)
EXTENDS FiniteSets

CONSTANTS
  Endpoints   \* the [topic, writer, reader] that may discover each other

VARIABLES
  matched,    \* the endpoints that have discovered each other
  unsent,     \* [endpoint, key] whose newest sample is not delivered yet
  inbox       \* the untaken samples, [topic, reader, key, value]

dvars == <<matched, unsent, inbox>>

\* Mutant: operator intent is retained for readers that join later.
RetainedIntents ==
  [target_tracks |-> "TRANSIENT_LOCAL", drone_states |-> "TRANSIENT_LOCAL",
   assignments |-> "TRANSIENT_LOCAL", interception_commands |-> "VOLATILE",
   explosion_events |-> "TRANSIENT_LOCAL"]

\* Mutant: the drone state is not retained for readers that join later.
VolatileStates ==
  [target_tracks |-> "TRANSIENT_LOCAL", drone_states |-> "VOLATILE",
   assignments |-> "VOLATILE", interception_commands |-> "VOLATILE",
   explosion_events |-> "TRANSIENT_LOCAL"]

Durability ==
  [target_tracks |-> "TRANSIENT_LOCAL", drone_states |-> "TRANSIENT_LOCAL",
   assignments |-> "VOLATILE", interception_commands |-> "VOLATILE",
   explosion_events |-> "TRANSIENT_LOCAL"]

\* Endpoints may have discovered each other before anything is written.
Init(early) == matched = early /\ unsent = {} /\ inbox = {}

\* The [endpoint, key] over which the given written samples have to travel.
Over(endpoints, samples) ==
  {[endpoint |-> p[1], key |-> p[2].key] :
     p \in {q \in endpoints \X samples :
              q[1].topic = q[2].topic /\ q[1].writer = q[2].writer}}

Match(e, retained) ==
  /\ e \in Endpoints \ matched
  /\ matched' = matched \cup {e}
  /\ unsent' = unsent \cup
       IF Durability[e.topic] = "TRANSIENT_LOCAL" THEN Over({e}, retained) ELSE {}
  /\ inbox' = inbox

\* samples were written by a process step.
Send(samples) ==
  /\ unsent' = unsent \cup Over(matched, samples)
  /\ matched' = matched

Cached(topic, reader) == {m \in inbox : m.topic = topic /\ m.reader = reader}

\* value is the writer's newest sample for the key.
Deliver(u, value) ==
  /\ u \in unsent
  /\ unsent' = unsent \ {u}
  /\ inbox' = {m \in inbox : ~ /\ m.topic = u.endpoint.topic
                               /\ m.reader = u.endpoint.reader
                               /\ m.key = u.key}
              \cup {[topic |-> u.endpoint.topic, reader |-> u.endpoint.reader,
                     key |-> u.key, value |-> value]}
  /\ matched' = matched

\* take_next_sample on a reader; which of several keys comes first is open.
Take(m) == m \in inbox /\ inbox' = inbox \ {m}

\* A process ends: its writers and readers disappear with what they hold.
Leave(process) ==
  /\ matched' = {e \in matched : process \notin {e.writer, e.reader}}
  /\ unsent' = {u \in unsent : process \notin {u.endpoint.writer, u.endpoint.reader}}
  /\ inbox' = {m \in inbox : m.reader # process}
=============================================================================
