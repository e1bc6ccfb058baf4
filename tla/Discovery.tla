------------------------------ MODULE Discovery ------------------------------
(***************************************************************************)
(* The writers and readers of one topic of the catalog: the QoS each       *)
(* offers or requests, what its listener records of the endpoints the      *)
(* middleware finds and loses, and what a bounded writer does with a       *)
(* sample.  The middleware itself is external: it discovers per endpoint,  *)
(* in any order, and tells a listener later.                               *)
(***************************************************************************)
EXTENDS Integers, FiniteSets

CONSTANTS
  Topics,       \* the topics a run is about
  Writers, Readers,
  Keys,
  Capacity,     \* max_instances and max_samples of each topic
  Present,      \* the endpoints of each topic
  MaxWrites     \* bound on the writes of a writer, for each topic

AllTopics == {"target_tracks", "drone_states", "assignments",
              "interception_commands", "explosion_events"}

ASSUME DiscoveryAssumption ==
  /\ Topics \subseteq AllTopics
  /\ Capacity \in [AllTopics -> Nat \ {0}]
  /\ Writers \cap Readers = {} /\ MaxWrites \in [Topics -> Nat]
  /\ Present \in [Topics -> SUBSET (Writers \cup Readers)]

-----------------------------------------------------------------------------
(* The catalog.                                                            *)

Catalog(reliability, durability, capacity) ==
  [reliability |-> reliability, durability |-> durability,
   maxInstances |-> capacity, maxSamples |-> capacity, maxSamplesPerInstance |-> 1]

TargetTrackQos == Catalog("RELIABLE", "TRANSIENT_LOCAL", Capacity["target_tracks"])
DroneStateQos == Catalog("RELIABLE", "TRANSIENT_LOCAL", Capacity["drone_states"])
AssignmentQos == Catalog("RELIABLE", "VOLATILE", Capacity["assignments"])
InterceptionCommandQos ==
  Catalog("RELIABLE", "VOLATILE", Capacity["interception_commands"])

ExplosionEventQos ==
  Catalog("RELIABLE", "TRANSIENT_LOCAL", Capacity["explosion_events"])

\* The offers of the two experiments, each weaker in one policy.
TargetTrackBestEffortQos == [TargetTrackQos EXCEPT !.reliability = "BEST_EFFORT"]
TargetTrackVolatileQos == [TargetTrackQos EXCEPT !.durability = "VOLATILE"]

Qos(t) ==
  CASE t = "target_tracks" -> TargetTrackQos
    [] t = "drone_states" -> DroneStateQos
    [] t = "assignments" -> AssignmentQos
    [] t = "interception_commands" -> InterceptionCommandQos
    [] t = "explosion_events" -> ExplosionEventQos

\* What a writer of the topic offers: the catalog's QoS, or, for target tracks,
\* what an experiment hands to its second constructor.
OfferedQos(t) ==
  {Qos(t)} \cup (IF t = "target_tracks"
                 THEN {TargetTrackBestEffortQos, TargetTrackVolatileQos} ELSE {})

\* The rule of DDS: the policy that makes an offer too weak for a request.
IncompatiblePolicy(offer, request) ==
  IF offer.reliability = "BEST_EFFORT" /\ request.reliability = "RELIABLE"
  THEN "RELIABILITY"
  ELSE IF offer.durability = "VOLATILE" /\ request.durability = "TRANSIENT_LOCAL"
  THEN "DURABILITY"
  ELSE "INVALID"

-----------------------------------------------------------------------------
VARIABLES
  topic,
  offered,      \* the QoS of each writer
  alive,        \* endpoints that exist
  found,        \* <<e, p>>: endpoint e has found its peer p
  counts,       \* what the middleware has counted for each endpoint
  discoveryStatus,  \* what its listener has recorded
  joined,       \* writes of a writer before it found the reader
  written,      \* writes of a writer that returned
  retained,     \* the newest retained write of each key, 0 for none
  latest,       \* the newest returned write of each key, 0 for none
  flight,       \* samples under way
  received      \* the newest write of each key a reader got from a writer

vars == <<topic, offered, alive, found, counts, discoveryStatus, joined, written,
          retained, latest, flight, received>>

data == <<written, retained, latest>>

Endpoints == Writers \cup Readers
Peers(e) == IF e \in Writers THEN Readers ELSE Writers

Unmatched ==
  [totalMatchCount |-> 0, currentMatchCount |-> 0, incompatibleQosCount |-> 0,
   lastIncompatibleQosPolicy |-> "INVALID"]

Init ==
  /\ topic \in Topics
  /\ offered \in [Writers -> OfferedQos(topic)]
  /\ alive = Present[topic]
  /\ found = {}
  /\ counts = [e \in Endpoints |-> Unmatched]
  /\ discoveryStatus = [e \in Endpoints |-> Unmatched]
  /\ joined = [p \in Writers \X Readers |-> 0]
  /\ written = [w \in Writers |-> 0]
  /\ retained = [w \in Writers |-> [k \in Keys |-> 0]]
  /\ latest = [w \in Writers |-> [k \in Keys |-> 0]]
  /\ flight = {}
  /\ received = [p \in Writers \X Readers |-> [k \in Keys |-> 0]]

Verdict(e, p) ==
  IncompatiblePolicy(offered[IF e \in Writers THEN e ELSE p], Qos(topic))

Matches(e, p) == Verdict(e, p) = "INVALID"

Sample(w, r, k, n) == [writer |-> w, reader |-> r, key |-> k, n |-> n]

\* Endpoint e finds a peer: a match, with what a durable writer retains, or an
\* incompatible one.
Discover(e, p) ==
  /\ {e, p} \subseteq alive /\ <<e, p>> \notin found
  /\ found' = found \cup {<<e, p>>}
  /\ IF Matches(e, p)
     THEN counts' = [counts EXCEPT ![e].totalMatchCount = @ + 1,
                                   ![e].currentMatchCount = @ + 1]
     ELSE counts' = [counts EXCEPT ![e].incompatibleQosCount = @ + 1,
                                   ![e].lastIncompatibleQosPolicy = Verdict(e, p)]
  /\ IF e \in Writers /\ Matches(e, p)
     THEN /\ joined' = [joined EXCEPT ![<<e, p>>] = written[e]]
          /\ flight' = flight \cup
               (IF offered[e].durability = "TRANSIENT_LOCAL"
                THEN {Sample(e, p, k, retained[e][k]) :
                        k \in {x \in Keys : retained[e][x] > 0}}
                ELSE {})
     ELSE UNCHANGED <<joined, flight>>
  /\ UNCHANGED <<topic, offered, alive, discoveryStatus, data, received>>

\* Endpoint e notices that a matched peer is gone.
Lose(e, p) ==
  /\ e \in alive /\ p \notin alive /\ <<e, p>> \in found
  /\ found' = found \ {<<e, p>>}
  /\ counts' = IF Matches(e, p) THEN [counts EXCEPT ![e].currentMatchCount = @ - 1]
               ELSE counts
  /\ UNCHANGED <<topic, offered, alive, discoveryStatus, joined, data, flight, received>>

Gone(e) ==
  /\ alive' = alive \ {e}
  /\ flight' = {s \in flight : e \notin {s.writer, s.reader}}

\* The destructor of an endpoint.
Leave(e) ==
  /\ e \in alive
  /\ Gone(e)
  /\ UNCHANGED <<topic, offered, found, counts, discoveryStatus, joined, data, received>>

-----------------------------------------------------------------------------
(* The listeners of the target track endpoints.                            *)

\* Mutant: the record is made anew.
MatchedForgetsIncompatible(e) ==
  /\ e \in alive
  /\ discoveryStatus' = [discoveryStatus EXCEPT
       ![e] = [Unmatched EXCEPT !.totalMatchCount = counts[e].totalMatchCount,
                                !.currentMatchCount = counts[e].currentMatchCount]]
  /\ UNCHANGED <<topic, offered, alive, found, counts, joined, data, flight, received>>

OnMatched(e) ==
  /\ e \in alive
  /\ discoveryStatus' = [discoveryStatus EXCEPT
       ![e].totalMatchCount = counts[e].totalMatchCount,
       ![e].currentMatchCount = counts[e].currentMatchCount]
  /\ UNCHANGED <<topic, offered, alive, found, counts, joined, data, flight, received>>

OnIncompatibleQos(e) ==
  /\ e \in alive
  /\ discoveryStatus' = [discoveryStatus EXCEPT
       ![e].incompatibleQosCount = counts[e].incompatibleQosCount,
       ![e].lastIncompatibleQosPolicy = counts[e].lastIncompatibleQosPolicy]
  /\ UNCHANGED <<topic, offered, alive, found, counts, joined, data, flight, received>>

-----------------------------------------------------------------------------
(* write() of the writers, and the way of a sample.                        *)

MatchedReaders(w) == {r \in Readers : <<w, r>> \in found /\ Matches(w, r) /\ r \in alive}

Fits(w, k) ==
  \/ retained[w][k] > 0
  \/ Cardinality({x \in Keys : retained[w][x] > 0}) < offered[w].maxInstances

Accept(w, k) ==
  /\ retained' = [retained EXCEPT ![w][k] = written[w] + 1]
  /\ latest' = [latest EXCEPT ![w][k] = written[w] + 1]
  /\ written' = [written EXCEPT ![w] = @ + 1]
  /\ flight' = flight \cup {Sample(w, r, k, written[w] + 1) : r \in MatchedReaders(w)}

\* Mutant: the return code is not looked at.
WriteUnchecked(w, k) ==
  /\ w \in alive /\ written[w] < MaxWrites[topic]
  /\ \/ Fits(w, k) /\ Accept(w, k)
     \/ /\ ~Fits(w, k)
        /\ latest' = [latest EXCEPT ![w][k] = written[w] + 1]
        /\ written' = [written EXCEPT ![w] = @ + 1]
        /\ UNCHANGED <<retained, flight>>
  /\ UNCHANGED <<topic, offered, alive, found, counts, discoveryStatus, joined, received>>

\* A sample that does not fit is refused; the exception ends the process.
Write(w, k) ==
  /\ w \in alive /\ written[w] < MaxWrites[topic]
  /\ \/ Fits(w, k) /\ Accept(w, k) /\ UNCHANGED alive
     \/ ~Fits(w, k) /\ Gone(w) /\ UNCHANGED data
  /\ UNCHANGED <<topic, offered, found, counts, discoveryStatus, joined, received>>

Deliver(s) ==
  /\ s \in flight
  /\ <<s.reader, s.writer>> \in found
  /\ \A x \in flight : <<x.writer, x.reader>> = <<s.writer, s.reader>> => s.n <= x.n
  /\ flight' = flight \ {s}
  /\ received' = [received EXCEPT ![<<s.writer, s.reader>>][s.key] = s.n]
  /\ UNCHANGED <<topic, offered, alive, found, counts, discoveryStatus, joined, data>>

-----------------------------------------------------------------------------
Told(e) == OnMatched(e) \/ OnIncompatibleQos(e)

Next ==
  \/ \E e \in Endpoints : Leave(e) \/ Told(e)
  \/ \E e \in Endpoints : \E p \in Peers(e) : Discover(e, p) \/ Lose(e, p)
  \/ \E w \in Writers, k \in Keys : Write(w, k)
  \/ \E s \in flight : Deliver(s)

\* The middleware finds, loses, tells and delivers.
Fairness ==
  /\ \A e \in Endpoints :
       /\ WF_vars(OnMatched(e))
       /\ WF_vars(OnIncompatibleQos(e))
       /\ \A p \in Peers(e) : WF_vars(Discover(e, p)) /\ WF_vars(Lose(e, p))
  /\ WF_vars(\E s \in flight : Deliver(s))

Spec == Init /\ [][Next]_vars /\ Fairness

-----------------------------------------------------------------------------
(* Properties.                                                             *)

\* What the catalog promises a reader, however late it joins: when nothing is
\* under way, it has the newest write of each key that the writer made, of
\* transient topics since ever, of volatile ones since the match.  A write
\* that returned normally is never missing, also at the limit of instances.
ReaderHasWhatIsPromised ==
  \A w \in Writers \cap alive, r \in Readers \cap alive :
    /\ {<<w, r>>, <<r, w>>} \subseteq found /\ Matches(w, r)
    /\ \A s \in flight : <<s.writer, s.reader>> # <<w, r>>
    => \A k \in Keys :
         received[<<w, r>>][k] =
           IF topic \in {"assignments", "interception_commands"}
                /\ latest[w][k] <= joined[<<w, r>>]
           THEN 0 ELSE latest[w][k]

\* Each listener ends up with the truth about the endpoints that remain: how
\* many match, and that the others do not, each counted.  The policy it names is
\* the one that made a peer incompatible, and of a single such peer its own.
StatusBecomesTrue ==
  <>[](\A e \in alive :
         LET status == discoveryStatus[e]
             incompatible == {p \in Peers(e) \cap alive : ~Matches(e, p)}
         IN /\ status.currentMatchCount = Cardinality((Peers(e) \cap alive) \ incompatible)
            /\ status.incompatibleQosCount >= Cardinality(incompatible)
            /\ status.incompatibleQosCount > 0 =>
                 status.lastIncompatibleQosPolicy \in {Verdict(e, p) : p \in Peers(e)} \ {"INVALID"}
            /\ status.incompatibleQosCount = 1 =>
                 \A p \in incompatible : status.lastIncompatibleQosPolicy = Verdict(e, p))
=============================================================================
