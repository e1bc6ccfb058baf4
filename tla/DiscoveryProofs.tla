---------------------------- MODULE DiscoveryProofs ----------------------------
(***************************************************************************)
(* What the catalog promises a reader, for any number of endpoints, keys   *)
(* and writes and any limit of instances.  Between a writer and a reader   *)
(* that both exist, each key is in one of these states: the newest write   *)
(* is older than a volatile match and nothing of it is under way, or it is *)
(* under way, or it has arrived; and what is under way is newer than what  *)
(* has arrived.                                                            *)
(***************************************************************************)
EXTENDS Discovery, TLAPS

Volatile == topic \in {"assignments", "interception_commands"}

\* Which samples are under way from a writer to a reader.
Pending(w, r, s) == s.writer = w /\ s.reader = r

-----------------------------------------------------------------------------
(* The inductive invariant.                                                *)

DataTypes ==
  /\ topic \in AllTopics
  /\ offered \in [Writers -> OfferedQos(topic)]
  /\ alive \subseteq Endpoints
  /\ written \in [Writers -> Nat]
  /\ latest \in [Writers -> [Keys -> Nat]]
  /\ retained \in [Writers -> [Keys -> Nat]]
  /\ joined \in [Writers \X Readers -> Nat]
  /\ received \in [Writers \X Readers -> [Keys -> Nat]]
  /\ flight \subseteq [writer : Writers, reader : Readers, key : Keys, n : Nat]

\* A writer retains what it wrote last, and counts its writes.
WriterRetains ==
  /\ \A w \in Writers, k \in Keys :
       latest[w][k] <= written[w] /\ (w \in alive => retained[w][k] = latest[w][k])
  /\ \A w \in Writers, r \in Readers : joined[<<w, r>>] <= written[w]

\* Nothing goes to a reader the writer has not found or does not match.
StrangersGetNothing ==
  \A w \in Writers \cap alive, r \in Readers \cap alive :
    <<w, r>> \notin found \/ ~Matches(w, r) =>
      /\ \A s \in flight : ~Pending(w, r, s)
      /\ \A k \in Keys : received[<<w, r>>][k] = 0

\* What was written before a volatile match, and what was never written.
Missed(w, r, k) == Volatile /\ latest[w][k] <= joined[<<w, r>>]

KeyIsServed(w, r, k) ==
  IF Missed(w, r, k)
  THEN /\ received[<<w, r>>][k] = 0
       /\ \A s \in flight : Pending(w, r, s) => s.key # k
  ELSE \/ received[<<w, r>>][k] = latest[w][k]
       \/ Sample(w, r, k, latest[w][k]) \in flight

MatchedAreServed ==
  \A w \in Writers \cap alive, r \in Readers \cap alive :
    <<w, r>> \in found /\ Matches(w, r) => \A k \in Keys : KeyIsServed(w, r, k)

\* What is under way is newer than what arrived, and nothing is made up.
FlightIsNewer ==
  \A s \in flight :
    /\ received[<<s.writer, s.reader>>][s.key] < s.n
    /\ s.n <= latest[s.writer][s.key]

PromiseInvariant ==
  /\ DataTypes
  /\ WriterRetains
  /\ StrangersGetNothing
  /\ MatchedAreServed
  /\ FlightIsNewer

-----------------------------------------------------------------------------
(* Facts about the catalog and the samples.                                *)

\* An offer that matches has the durability of its topic.
LEMMA DurabilityIsTheTopics ==
  ASSUME NEW t \in AllTopics, NEW q \in OfferedQos(t),
         IncompatiblePolicy(q, Qos(t)) = "INVALID"
  PROVE  q.durability = "TRANSIENT_LOCAL" <=>
           t \notin {"assignments", "interception_commands"}
<1>1. Qos(t).durability = "TRANSIENT_LOCAL" <=>
        t \notin {"assignments", "interception_commands"}
  BY DEF Qos, AllTopics, TargetTrackQos, DroneStateQos, AssignmentQos,
         InterceptionCommandQos, ExplosionEventQos, Catalog
<1>2. CASE q = Qos(t)
  BY <1>1, <1>2
<1>3. CASE t = "target_tracks" /\ q = TargetTrackBestEffortQos
  <2>1. q.durability = "TRANSIENT_LOCAL"
    BY <1>3 DEF TargetTrackBestEffortQos, TargetTrackQos, Catalog
  <2> QED
    BY <1>3, <2>1
<1>4. CASE t = "target_tracks" /\ q = TargetTrackVolatileQos
  <2>1. q.durability = "VOLATILE" /\ q.reliability = "RELIABLE"
    BY <1>4 DEF TargetTrackVolatileQos, TargetTrackQos, Catalog
  <2>2. Qos(t).durability = "TRANSIENT_LOCAL"
    BY <1>1, <1>4
  <2> QED
    BY <2>1, <2>2 DEF IncompatiblePolicy
<1> QED
  BY <1>2, <1>3, <1>4 DEF OfferedQos

LEMMA SampleFields ==
  ASSUME NEW w, NEW r, NEW k, NEW n
  PROVE  /\ Sample(w, r, k, n).writer = w /\ Sample(w, r, k, n).reader = r
         /\ Sample(w, r, k, n).key = k /\ Sample(w, r, k, n).n = n
  BY DEF Sample

-----------------------------------------------------------------------------
(* One lemma per action.                                                   *)

LEMMA InitPromise == Init => PromiseInvariant
<1> SUFFICES ASSUME Init PROVE PromiseInvariant
  OBVIOUS
<1>0. topic \in Topics /\ alive \subseteq Endpoints
  BY DiscoveryAssumption DEF Init, Endpoints
<1>1. DataTypes
  BY <1>0, DiscoveryAssumption DEF Init, DataTypes
<1>2. WriterRetains
  BY DEF Init, WriterRetains
<1>3. StrangersGetNothing
  BY DEF Init, StrangersGetNothing
<1>4. MatchedAreServed
  BY DEF Init, MatchedAreServed
<1>5. FlightIsNewer
  BY DEF Init, FlightIsNewer
<1> QED
  BY <1>1, <1>2, <1>3, <1>4, <1>5 DEF PromiseInvariant

\* Counting, recording and losing what is gone touch no sample.
LEMMA ListenersKeep ==
  ASSUME PromiseInvariant,
         UNCHANGED <<topic, offered, alive, joined, data, flight, received>>,
         \A w \in Writers \cap alive, r \in Readers \cap alive :
           <<w, r>> \in found' <=> <<w, r>> \in found
  PROVE  PromiseInvariant'
<1>1. DataTypes' /\ WriterRetains' /\ FlightIsNewer'
  BY DEF PromiseInvariant, DataTypes, WriterRetains, FlightIsNewer, data
<1>2. StrangersGetNothing'
  BY DEF PromiseInvariant, StrangersGetNothing, Matches, Verdict, Pending
<1>3. MatchedAreServed'
  BY DEF PromiseInvariant, MatchedAreServed, KeyIsServed, Missed, Volatile,
         Matches, Verdict, Pending, data
<1> QED
  BY <1>1, <1>2, <1>3 DEF PromiseInvariant

LEMMA LeaveKeeps ==
  ASSUME PromiseInvariant, NEW e, Gone(e),
         UNCHANGED <<topic, offered, found, joined, data, received>>
  PROVE  PromiseInvariant'
<1>1. /\ alive' \subseteq alive /\ flight' \subseteq flight /\ e \notin alive'
      /\ \A s \in flight : e \notin {s.writer, s.reader} => s \in flight'
  BY DEF Gone
<1>2. DataTypes' /\ WriterRetains' /\ FlightIsNewer'
  BY <1>1 DEF PromiseInvariant, DataTypes, WriterRetains, FlightIsNewer, data
<1>3. StrangersGetNothing'
  BY <1>1 DEF PromiseInvariant, StrangersGetNothing, Matches, Verdict, Pending
<1>4. ASSUME NEW w \in Writers \cap alive', NEW r \in Readers \cap alive',
             <<w, r>> \in found, Matches(w, r), NEW k \in Keys
      PROVE  KeyIsServed(w, r, k)'
  <2>1. w # e /\ r # e /\ KeyIsServed(w, r, k)
    BY <1>1, <1>4 DEF PromiseInvariant, MatchedAreServed
  <2>2. Missed(w, r, k)' <=> Missed(w, r, k)
    BY DEF Missed, Volatile, data
  <2>3. CASE Missed(w, r, k)
    BY <1>1, <2>1, <2>2, <2>3 DEF KeyIsServed, Pending
  <2>4. CASE ~Missed(w, r, k)
    BY <1>1, <2>1, <2>2, <2>4, SampleFields DEF KeyIsServed, data
  <2> QED
    BY <2>3, <2>4
<1>5. MatchedAreServed'
  BY <1>4 DEF MatchedAreServed, Matches, Verdict
<1> QED
  BY <1>2, <1>3, <1>5 DEF PromiseInvariant

LEMMA ReaderDiscovers ==
  ASSUME PromiseInvariant, NEW e \in Readers, NEW p \in Writers, Discover(e, p)
  PROVE  PromiseInvariant'
<1>1. /\ e \notin Writers /\ found' = found \cup {<<e, p>>}
      /\ UNCHANGED <<topic, offered, alive, joined, data, flight, received>>
  BY DiscoveryAssumption DEF Discover
<1>2. \A w \in Writers \cap alive, r \in Readers \cap alive :
        <<w, r>> \in found' <=> <<w, r>> \in found
  BY <1>1
<1> QED
  BY <1>1, <1>2, ListenersKeep

LEMMA WriterDiscovers ==
  ASSUME PromiseInvariant, NEW e \in Writers, NEW p \in Readers, Discover(e, p)
  PROVE  PromiseInvariant'
<1>1. /\ e \in alive /\ p \in alive /\ <<e, p>> \notin found
      /\ found' = found \cup {<<e, p>>}
      /\ UNCHANGED <<topic, offered, alive, data, received>>
  BY DEF Discover
<1>2. CASE ~Matches(e, p)
  <2>1. UNCHANGED <<joined, flight>>
    BY <1>2 DEF Discover
  <2>2. DataTypes' /\ WriterRetains' /\ FlightIsNewer'
    BY <1>1, <2>1 DEF PromiseInvariant, DataTypes, WriterRetains, FlightIsNewer, data
  <2>3. StrangersGetNothing'
    <3>1. \A w \in Writers, r \in Readers : Matches(w, r)' <=> Matches(w, r)
      BY <1>1 DEF Matches, Verdict
    <3>2. \A w \in Writers \cap alive, r \in Readers \cap alive :
            <<w, r>> \notin found' \/ ~Matches(w, r)
            => /\ \A s \in flight : ~Pending(w, r, s)
               /\ \A k \in Keys : received[<<w, r>>][k] = 0
      BY <1>1 DEF PromiseInvariant, StrangersGetNothing
    <3> SUFFICES ASSUME NEW w \in Writers \cap alive', NEW r \in Readers \cap alive',
                        <<w, r>> \notin found' \/ ~Matches(w, r)'
                 PROVE  /\ \A s \in flight' : ~Pending(w, r, s)
                        /\ \A k \in Keys : received'[<<w, r>>][k] = 0
      BY DEF StrangersGetNothing, Pending
    <3>3. w \in Writers \cap alive /\ r \in Readers \cap alive
      BY <1>1
    <3>4. <<w, r>> \notin found' \/ ~Matches(w, r)
      BY <3>1
    <3> QED
      BY <1>1, <2>1, <3>2, <3>3, <3>4
  <2>4. MatchedAreServed'
    BY <1>1, <1>2, <2>1 DEF PromiseInvariant, MatchedAreServed, KeyIsServed, Missed,
                            Volatile, Matches, Verdict, Pending, data
  <2> QED
    BY <2>2, <2>3, <2>4 DEF PromiseInvariant
<1>3. CASE Matches(e, p)
  <2> DEFINE late == IF offered[e].durability = "TRANSIENT_LOCAL"
                     THEN {Sample(e, p, k, retained[e][k]) :
                             k \in {x \in Keys : retained[e][x] > 0}}
                     ELSE {}
  <2>1. /\ joined' = [joined EXCEPT ![<<e, p>>] = written[e]]
        /\ flight' = flight \cup late
    BY <1>3 DEF Discover
  <2>2. offered[e].durability = "TRANSIENT_LOCAL" <=> ~Volatile
    BY <1>3, DurabilityIsTheTopics
    DEF PromiseInvariant, DataTypes, Volatile, Matches, Verdict
  <2>3. \A s \in late : \E k \in Keys :
          /\ s = Sample(e, p, k, latest[e][k]) /\ latest[e][k] > 0
          /\ ~Volatile
    BY <1>1, <2>2 DEF PromiseInvariant, WriterRetains
  <2>4. \A k \in Keys : ~Volatile /\ latest[e][k] > 0 =>
          Sample(e, p, k, latest[e][k]) \in late
    BY <1>1, <2>2 DEF PromiseInvariant, WriterRetains
  <2>5. /\ \A s \in flight : ~Pending(e, p, s)
        /\ \A k \in Keys : received[<<e, p>>][k] = 0
    BY <1>1 DEF PromiseInvariant, StrangersGetNothing
  <2> HIDE DEF late
  <2>6. \A s \in late :
          /\ s \in [writer : Writers, reader : Readers, key : Keys, n : Nat]
          /\ Pending(e, p, s)
          /\ s.n > 0 /\ s.n = latest[e][s.key] /\ ~Volatile
    <3> SUFFICES ASSUME NEW s \in late
                 PROVE  /\ s \in [writer : Writers, reader : Readers, key : Keys, n : Nat]
                        /\ Pending(e, p, s)
                        /\ s.n > 0 /\ s.n = latest[e][s.key] /\ ~Volatile
      OBVIOUS
    <3>1. PICK k \in Keys : /\ s = Sample(e, p, k, latest[e][k]) /\ latest[e][k] > 0
                            /\ ~Volatile
      BY <2>3
    <3>2. latest[e][k] \in Nat
      BY DEF PromiseInvariant, DataTypes
    <3> QED
      BY <3>1, <3>2 DEF Sample, Pending
  <2>7. joined' \in [Writers \X Readers -> Nat]
    BY <2>1 DEF PromiseInvariant, DataTypes
  <2>8. DataTypes'
    BY <1>1, <2>1, <2>6, <2>7 DEF PromiseInvariant, DataTypes, data
  <2>9. WriterRetains'
    <3>1. \A w \in Writers, r \in Readers :
            joined'[<<w, r>>] = IF w = e /\ r = p THEN written[e] ELSE joined[<<w, r>>]
      BY <2>1 DEF PromiseInvariant, DataTypes
    <3>2. \A w \in Writers : written[w] <= written[w]
      BY DEF PromiseInvariant, DataTypes
    <3> QED
      BY <1>1, <3>1, <3>2 DEF PromiseInvariant, WriterRetains, data
  <2>10. FlightIsNewer'
    <3> SUFFICES ASSUME NEW s \in flight'
                 PROVE  /\ received[<<s.writer, s.reader>>][s.key] < s.n
                        /\ s.n <= latest[s.writer][s.key]
      BY <1>1 DEF FlightIsNewer, data
    <3>1. CASE s \in flight
      BY <3>1 DEF PromiseInvariant, FlightIsNewer
    <3>2. CASE s \in late
      <4>1. /\ s.writer = e /\ s.reader = p /\ s.key \in Keys /\ s.n \in Nat
            /\ s.n > 0 /\ s.n = latest[e][s.key]
        BY <2>6, <3>2 DEF Pending
      <4>2. received[<<s.writer, s.reader>>][s.key] = 0
        BY <2>5, <4>1
      <4> QED
        BY <4>1, <4>2
    <3> QED
      BY <2>1, <3>1, <3>2
  <2>11. StrangersGetNothing'
    <3> SUFFICES ASSUME NEW w \in Writers \cap alive, NEW r \in Readers \cap alive,
                        <<w, r>> \notin found' \/ ~Matches(w, r)
                 PROVE  /\ \A s \in flight' : ~Pending(w, r, s)
                        /\ \A k \in Keys : received[<<w, r>>][k] = 0
      BY <1>1 DEF StrangersGetNothing, Matches, Verdict, Pending
    <3>1. ~(w = e /\ r = p) /\ (<<w, r>> \notin found \/ ~Matches(w, r))
      BY <1>1, <1>3
    <3>2. \A s \in late : ~Pending(w, r, s)
      BY <2>6, <3>1 DEF Pending
    <3> QED
      BY <2>1, <3>1, <3>2 DEF PromiseInvariant, StrangersGetNothing
  <2>12. ASSUME NEW w \in Writers \cap alive, NEW r \in Readers \cap alive,
                <<w, r>> \in found', Matches(w, r), NEW k \in Keys
         PROVE  KeyIsServed(w, r, k)'
    <3>1. CASE w = e /\ r = p
      <4>1. joined'[<<w, r>>] = written[e]
        BY <2>1, <3>1 DEF PromiseInvariant, DataTypes
      <4>2. Missed(w, r, k)' <=> Volatile
        BY <1>1, <3>1, <4>1 DEF Missed, Volatile, PromiseInvariant, WriterRetains, data
      <4>3. received'[<<w, r>>][k] = 0 /\ latest' = latest
        BY <1>1, <2>5, <3>1 DEF data
      <4>4. CASE Volatile
        <5>1. \A s \in flight' : ~Pending(w, r, s)
          BY <2>1, <2>5, <2>6, <3>1, <4>4
        <5> QED
          BY <4>2, <4>3, <4>4, <5>1 DEF KeyIsServed, Pending
      <4>5. CASE ~Volatile
        <5>1. latest[e][k] \in Nat
          BY DEF PromiseInvariant, DataTypes
        <5>2. latest[e][k] = 0 \/ Sample(e, p, k, latest[e][k]) \in flight'
          BY <2>1, <2>4, <4>5, <5>1
        <5> QED
          BY <3>1, <4>2, <4>3, <4>5, <5>2 DEF KeyIsServed
      <4> QED
        BY <4>4, <4>5
    <3>2. CASE ~(w = e /\ r = p)
      <4>1. KeyIsServed(w, r, k)
        BY <1>1, <2>12, <3>2 DEF PromiseInvariant, MatchedAreServed
      <4>2. joined'[<<w, r>>] = joined[<<w, r>>]
        BY <2>1, <3>2 DEF PromiseInvariant, DataTypes
      <4>3. /\ flight \subseteq flight'
            /\ \A s \in flight' : Pending(w, r, s) => s \in flight
        BY <2>1, <2>6, <3>2 DEF Pending
      <4>4. Missed(w, r, k)' <=> Missed(w, r, k)
        BY <1>1, <4>2 DEF Missed, Volatile, data
      <4>5. received' = received /\ latest' = latest
        BY <1>1 DEF data
      <4>6. CASE Missed(w, r, k)
        BY <4>1, <4>3, <4>4, <4>5, <4>6 DEF KeyIsServed, Pending
      <4>7. CASE ~Missed(w, r, k)
        BY <4>1, <4>3, <4>4, <4>5, <4>7 DEF KeyIsServed
      <4> QED
        BY <4>6, <4>7
    <3> QED
      BY <3>1, <3>2
  <2>13. MatchedAreServed'
    BY <1>1, <2>12 DEF MatchedAreServed, Matches, Verdict
  <2> QED
    BY <2>8, <2>9, <2>10, <2>11, <2>13 DEF PromiseInvariant
<1> QED
  BY <1>2, <1>3
LEMMA AcceptKeeps ==
  ASSUME PromiseInvariant, NEW w \in Writers \cap alive, NEW k \in Keys,
         Accept(w, k), UNCHANGED <<topic, offered, alive, found, joined, received>>
  PROVE  PromiseInvariant'
<1> DEFINE n == written[w] + 1
           sent == {Sample(w, r, k, n) : r \in MatchedReaders(w)}
<1>1. /\ retained' = [retained EXCEPT ![w][k] = n]
      /\ latest' = [latest EXCEPT ![w][k] = n]
      /\ written' = [written EXCEPT ![w] = n]
      /\ flight' = flight \cup sent
  BY DEF Accept
<1>2. n \in Nat /\ latest[w][k] < n /\ written[w] \in Nat /\ n = written[w] + 1
  BY DEF PromiseInvariant, DataTypes, WriterRetains
<1>3. \A s \in sent : \E r \in MatchedReaders(w) : s = Sample(w, r, k, n)
  OBVIOUS
<1>4. \A r \in MatchedReaders(w) : Sample(w, r, k, n) \in sent
  OBVIOUS
<1> HIDE DEF n, sent
<1>5. \A s \in sent :
        /\ s \in [writer : Writers, reader : Readers, key : Keys, n : Nat]
        /\ s.writer = w /\ s.reader \in MatchedReaders(w) /\ s.key = k /\ s.n = n
  <2> SUFFICES ASSUME NEW s \in sent
               PROVE  /\ s \in [writer : Writers, reader : Readers, key : Keys, n : Nat]
                      /\ s.writer = w /\ s.reader \in MatchedReaders(w)
                      /\ s.key = k /\ s.n = n
    OBVIOUS
  <2>1. PICK r \in MatchedReaders(w) : s = Sample(w, r, k, n)
    BY <1>3
  <2>2. r \in Readers
    BY DEF MatchedReaders
  <2> QED
    BY <1>2, <2>1, <2>2 DEF Sample
<1>6. /\ \A x \in Writers, j \in Keys :
           /\ latest'[x][j] = IF x = w /\ j = k THEN n ELSE latest[x][j]
           /\ retained'[x][j] = IF x = w /\ j = k THEN n ELSE retained[x][j]
      /\ \A x \in Writers : written'[x] = IF x = w THEN n ELSE written[x]
  BY <1>1 DEF PromiseInvariant, DataTypes
<1>7. DataTypes'
  <2>1. /\ latest' \in [Writers -> [Keys -> Nat]]
        /\ retained' \in [Writers -> [Keys -> Nat]]
        /\ written' \in [Writers -> Nat]
    BY <1>1, <1>2 DEF PromiseInvariant, DataTypes
  <2> QED
    BY <1>1, <1>5, <2>1 DEF PromiseInvariant, DataTypes
<1>8. \A x \in Writers, j \in Keys :
        /\ latest[x][j] \in Nat /\ latest'[x][j] \in Nat
        /\ latest[x][j] <= latest'[x][j]
  BY <1>2, <1>6 DEF PromiseInvariant, DataTypes
<1>9. \A x \in Writers, r \in Readers : joined[<<x, r>>] <= written'[x]
  <2> SUFFICES ASSUME NEW x \in Writers, NEW r \in Readers
               PROVE  joined[<<x, r>>] <= written'[x]
    OBVIOUS
  <2>1. /\ joined[<<x, r>>] <= written[x] /\ joined[<<x, r>>] \in Nat
        /\ written[x] \in Nat
    BY DEF PromiseInvariant, WriterRetains, DataTypes
  <2> QED
    BY <1>2, <1>6, <2>1
<1>10. WriterRetains'
  <2> SUFFICES ASSUME NEW x \in Writers, NEW j \in Keys
               PROVE  /\ latest'[x][j] <= written'[x]
                      /\ x \in alive => retained'[x][j] = latest'[x][j]
    BY <1>9 DEF WriterRetains
  <2>1. /\ latest[x][j] <= written[x] /\ latest[x][j] \in Nat /\ written[x] \in Nat
        /\ x \in alive => retained[x][j] = latest[x][j]
    BY DEF PromiseInvariant, WriterRetains, DataTypes
  <2> QED
    BY <1>2, <1>6, <2>1
<1>11. \A x \in Writers, r \in Readers : Matches(x, r)' <=> Matches(x, r)
  BY DEF Matches, Verdict
<1>12. FlightIsNewer'
  <2> SUFFICES ASSUME NEW s \in flight'
               PROVE  /\ received[<<s.writer, s.reader>>][s.key] < s.n
                      /\ s.n <= latest'[s.writer][s.key]
    BY DEF FlightIsNewer
  <2>1. CASE s \in flight
    <3>1. /\ s.writer \in Writers /\ s.key \in Keys /\ s.n \in Nat
          /\ received[<<s.writer, s.reader>>][s.key] < s.n
          /\ s.n <= latest[s.writer][s.key]
      BY <2>1 DEF PromiseInvariant, DataTypes, FlightIsNewer
    <3> QED
      BY <1>8, <3>1
  <2>2. CASE s \in sent
    <3>1. /\ s.writer = w /\ s.key = k /\ s.n = n
          /\ s.reader \in Readers \cap alive
          /\ <<w, s.reader>> \in found /\ Matches(w, s.reader)
      BY <1>5, <2>2 DEF MatchedReaders
    <3>2. received[<<w, s.reader>>][k] \in Nat
      BY <3>1 DEF PromiseInvariant, DataTypes
    <3>3. received[<<w, s.reader>>][k] <= latest[w][k]
      <4>1. KeyIsServed(w, s.reader, k)
        BY <3>1 DEF PromiseInvariant, MatchedAreServed
      <4>2. CASE Sample(w, s.reader, k, latest[w][k]) \in flight
        <5>1. received[<<w, s.reader>>][k] < latest[w][k]
          BY <4>2, SampleFields DEF PromiseInvariant, FlightIsNewer
        <5> QED
          BY <1>8, <3>2, <5>1
      <4>3. CASE received[<<w, s.reader>>][k] \in {0, latest[w][k]}
        BY <1>8, <4>3
      <4> QED
        BY <4>1, <4>2, <4>3 DEF KeyIsServed
    <3>4. s.n <= latest'[s.writer][s.key]
      BY <1>2, <1>6, <3>1
    <3>5. received[<<w, s.reader>>][k] < n
      BY <1>2, <1>8, <3>2, <3>3
    <3> QED
      BY <3>1, <3>4, <3>5
  <2> QED
    BY <1>1, <2>1, <2>2
<1>13. ASSUME NEW x \in Writers \cap alive, NEW r \in Readers \cap alive,
              <<x, r>> \notin found \/ ~Matches(x, r)
       PROVE  /\ \A s \in flight' : ~Pending(x, r, s)
              /\ \A j \in Keys : received[<<x, r>>][j] = 0
  <2>1. \A s \in sent : ~Pending(x, r, s)
    BY <1>5, <1>13 DEF Pending, MatchedReaders
  <2> QED
    BY <1>1, <1>13, <2>1 DEF PromiseInvariant, StrangersGetNothing
<1>14. StrangersGetNothing'
  BY <1>13 DEF StrangersGetNothing, Matches, Verdict, Pending
<1>15. ASSUME NEW x \in Writers \cap alive, NEW r \in Readers \cap alive,
              <<x, r>> \in found, Matches(x, r), NEW j \in Keys
       PROVE  KeyIsServed(x, r, j)'
  <2>1. KeyIsServed(x, r, j)
    BY <1>15 DEF PromiseInvariant, MatchedAreServed
  <2>2. CASE x = w /\ j = k
    <3>1. /\ joined[<<w, r>>] \in Nat /\ joined[<<w, r>>] <= written[w]
          /\ latest'[w][k] = n
      BY <1>6 DEF PromiseInvariant, DataTypes, WriterRetains
    <3>2. r \in MatchedReaders(w)
      BY <1>15, <2>2 DEF MatchedReaders
    <3>3. Sample(w, r, k, n) \in flight'
      BY <1>1, <1>4, <3>2
    <3>4. CASE ~Missed(w, r, k)'
      BY <2>2, <3>1, <3>3, <3>4 DEF KeyIsServed
    <3>5. CASE Missed(w, r, k)'
      BY <1>2, <2>2, <3>1, <3>5 DEF Missed
    <3> QED
      BY <3>4, <3>5
  <2>3. CASE ~(x = w /\ j = k)
    <3>1. latest'[x][j] = latest[x][j]
      BY <1>6, <2>3
    <3>2. Missed(x, r, j)' <=> Missed(x, r, j)
      BY <3>1 DEF Missed, Volatile
    <3>3. \A s \in flight' : Pending(x, r, s) /\ s.key = j => s \in flight
      BY <1>1, <1>5, <2>3 DEF Pending
    <3>4. CASE Missed(x, r, j)
      BY <2>1, <3>2, <3>3, <3>4 DEF KeyIsServed, Pending
    <3>5. CASE ~Missed(x, r, j)
      BY <1>1, <2>1, <3>1, <3>2, <3>5 DEF KeyIsServed
    <3> QED
      BY <3>4, <3>5
  <2> QED
    BY <2>2, <2>3
<1>16. MatchedAreServed'
  BY <1>11, <1>15 DEF MatchedAreServed
<1> QED
  BY <1>7, <1>12, <1>10, <1>16, <1>14 DEF PromiseInvariant
LEMMA DeliverKeeps ==
  ASSUME PromiseInvariant, NEW s, Deliver(s)
  PROVE  PromiseInvariant'
<1> DEFINE w == s.writer
           r == s.reader
           k == s.key
<1>1. /\ s \in flight /\ s.n \in Nat
      /\ w \in Writers /\ r \in Readers /\ k \in Keys
      /\ s = Sample(w, r, k, s.n)
  BY DEF Deliver, PromiseInvariant, DataTypes, Sample
<1>2. /\ flight' = flight \ {s}
      /\ received' = [received EXCEPT ![<<w, r>>][k] = s.n]
      /\ UNCHANGED <<topic, offered, alive, found, joined, data>>
      /\ \A x \in flight : x.writer = w /\ x.reader = r => s.n <= x.n
  BY DEF Deliver
<1>3. \A x \in Writers, y \in Readers, j \in Keys :
        received'[<<x, y>>][j] = IF x = w /\ y = r /\ j = k THEN s.n
                                 ELSE received[<<x, y>>][j]
  BY <1>1, <1>2 DEF PromiseInvariant, DataTypes
<1>4. DataTypes'
  <2>1. received' \in [Writers \X Readers -> [Keys -> Nat]]
    BY <1>1, <1>2 DEF PromiseInvariant, DataTypes
  <2> QED
    BY <1>2, <2>1 DEF PromiseInvariant, DataTypes, data
<1>5. WriterRetains'
  BY <1>2 DEF PromiseInvariant, WriterRetains, data
<1>6. FlightIsNewer'
  <2> SUFFICES ASSUME NEW x \in flight'
               PROVE  /\ received'[<<x.writer, x.reader>>][x.key] < x.n
                      /\ x.n <= latest[x.writer][x.key]
    BY <1>2 DEF FlightIsNewer, data
  <2>1. /\ x \in flight /\ x # s /\ x.n \in Nat
        /\ x.writer \in Writers /\ x.reader \in Readers /\ x.key \in Keys
        /\ x = Sample(x.writer, x.reader, x.key, x.n)
    BY <1>2 DEF PromiseInvariant, DataTypes, Sample
  <2>2. /\ received[<<x.writer, x.reader>>][x.key] < x.n
        /\ x.n <= latest[x.writer][x.key]
    BY <2>1 DEF PromiseInvariant, FlightIsNewer
  <2>3. CASE x.writer = w /\ x.reader = r /\ x.key = k
    <3>1. s.n <= x.n /\ s.n # x.n
      BY <1>1, <1>2, <2>1, <2>3
    <3>2. received'[<<x.writer, x.reader>>][x.key] = s.n
      BY <1>3, <2>1, <2>3
    <3> QED
      BY <1>1, <2>1, <2>2, <3>1, <3>2
  <2>4. CASE ~(x.writer = w /\ x.reader = r /\ x.key = k)
    BY <1>3, <2>1, <2>2, <2>4
  <2> QED
    BY <2>3, <2>4
<1>7. ASSUME NEW x \in Writers \cap alive, NEW y \in Readers \cap alive,
             <<x, y>> \notin found \/ ~Matches(x, y)
      PROVE  /\ \A z \in flight' : ~Pending(x, y, z)
             /\ \A j \in Keys : received'[<<x, y>>][j] = 0
  <2>1. /\ \A z \in flight : ~Pending(x, y, z)
        /\ \A j \in Keys : received[<<x, y>>][j] = 0
    BY <1>7 DEF PromiseInvariant, StrangersGetNothing
  <2>2. ~(x = w /\ y = r)
    BY <1>1, <2>1 DEF Pending
  <2> QED
    BY <1>2, <1>3, <2>1, <2>2
<1>8. StrangersGetNothing'
  BY <1>2, <1>7 DEF StrangersGetNothing, Matches, Verdict, Pending
<1>9. ASSUME NEW x \in Writers \cap alive, NEW y \in Readers \cap alive,
             <<x, y>> \in found, Matches(x, y), NEW j \in Keys
      PROVE  KeyIsServed(x, y, j)'
  <2>1. KeyIsServed(x, y, j)
    BY <1>9 DEF PromiseInvariant, MatchedAreServed
  <2>2. Missed(x, y, j)' <=> Missed(x, y, j)
    BY <1>2 DEF Missed, Volatile, data
  <2>3. CASE x = w /\ y = r /\ j = k
    <3>1. ~Missed(x, y, j)
      BY <1>1, <2>1, <2>3 DEF KeyIsServed, Pending
    <3>2. /\ received[<<w, r>>][k] < s.n /\ s.n <= latest[w][k]
          /\ received[<<w, r>>][k] \in Nat /\ latest[w][k] \in Nat
      BY <1>1 DEF PromiseInvariant, FlightIsNewer, DataTypes
    <3>3. Sample(w, r, k, latest[w][k]) \in flight
      BY <1>1, <2>1, <2>3, <3>1, <3>2 DEF KeyIsServed
    <3>4. received'[<<w, r>>][k] = s.n
      BY <1>1, <1>3
    <3>5. CASE s.n = latest[w][k]
      BY <1>2, <2>2, <2>3, <3>1, <3>4, <3>5 DEF KeyIsServed, data
    <3>6. CASE s.n # latest[w][k]
      <4>1. Sample(w, r, k, latest[w][k]) \in flight'
        BY <1>2, <3>3, <3>6, SampleFields
      <4> QED
        BY <1>2, <2>2, <2>3, <3>1, <4>1 DEF KeyIsServed, data
    <3> QED
      BY <3>5, <3>6
  <2>4. CASE ~(x = w /\ y = r /\ j = k)
    <3>1. received'[<<x, y>>][j] = received[<<x, y>>][j] /\ latest' = latest
      BY <1>2, <1>3, <2>4 DEF data
    <3>2. CASE Missed(x, y, j)
      BY <1>2, <2>1, <2>2, <3>1, <3>2 DEF KeyIsServed, Pending
    <3>3. CASE ~Missed(x, y, j)
      <4>1. Sample(x, y, j, latest[x][j]) # s
        BY <1>1, <2>4, SampleFields
      <4> QED
        BY <1>2, <2>1, <2>2, <3>1, <3>3, <4>1 DEF KeyIsServed
    <3> QED
      BY <3>2, <3>3
  <2> QED
    BY <2>3, <2>4
<1>10. MatchedAreServed'
  BY <1>2, <1>9 DEF MatchedAreServed, Matches, Verdict
<1> QED
  BY <1>4, <1>5, <1>6, <1>8, <1>10 DEF PromiseInvariant

LEMMA PromiseInductive == PromiseInvariant /\ [Next]_vars => PromiseInvariant'
<1> SUFFICES ASSUME PromiseInvariant, [Next]_vars PROVE PromiseInvariant'
  OBVIOUS
<1>1. ASSUME NEW e \in Endpoints, Leave(e)
      PROVE  PromiseInvariant'
  BY <1>1, LeaveKeeps DEF Leave
<1>2. ASSUME NEW e \in Endpoints, Told(e)
      PROVE  PromiseInvariant'
  BY <1>2, ListenersKeep DEF Told, OnMatched, OnIncompatibleQos
<1>3. ASSUME NEW e \in Endpoints, NEW p \in Peers(e), Discover(e, p)
      PROVE  PromiseInvariant'
  <2>1. CASE e \in Writers
    BY <1>3, <2>1, WriterDiscovers DEF Peers
  <2>2. CASE e \in Readers
    <3>1. p \in Writers
      BY <2>2, DiscoveryAssumption DEF Peers
    <3> QED
      BY <1>3, <2>2, <3>1, ReaderDiscovers
  <2> QED
    BY <2>1, <2>2 DEF Endpoints
<1>4. ASSUME NEW e \in Endpoints, NEW p \in Peers(e), Lose(e, p)
      PROVE  PromiseInvariant'
  <2>1. \A w \in Writers \cap alive, r \in Readers \cap alive :
          <<w, r>> \in found' <=> <<w, r>> \in found
    BY <1>4 DEF Lose
  <2> QED
    BY <1>4, <2>1, ListenersKeep DEF Lose
<1>5. ASSUME NEW w \in Writers, NEW k \in Keys, Write(w, k)
      PROVE  PromiseInvariant'
  <2>1. CASE Accept(w, k) /\ UNCHANGED alive
    BY <1>5, <2>1, AcceptKeeps DEF Write
  <2>2. CASE Gone(w) /\ UNCHANGED data
    BY <1>5, <2>2, LeaveKeeps DEF Write
  <2> QED
    BY <1>5, <2>1, <2>2 DEF Write
<1>6. ASSUME NEW s \in flight, Deliver(s)
      PROVE  PromiseInvariant'
  BY <1>6, DeliverKeeps
<1>7. CASE UNCHANGED vars
  BY <1>7, ListenersKeep DEF vars, data
<1> QED
  BY <1>1, <1>2, <1>3, <1>4, <1>5, <1>6, <1>7 DEF Next

\* The invariant of matching, writing, repair and acknowledgement.
THEOREM PromiseInvariance == Spec => []PromiseInvariant
  BY InitPromise, PromiseInductive, PTL DEF Spec

-----------------------------------------------------------------------------
\* When nothing is under way, a reader has the newest write of each key its
\* topic promises it, whatever it missed while it was not there and however
\* often writers met their limit.
THEOREM ReadersHaveWhatIsPromised == Spec => []ReaderHasWhatIsPromised
<1>1. PromiseInvariant => ReaderHasWhatIsPromised
  <2> SUFFICES ASSUME PromiseInvariant,
                      NEW w \in Writers \cap alive, NEW r \in Readers \cap alive,
                      {<<w, r>>, <<r, w>>} \subseteq found, Matches(w, r),
                      \A s \in flight : <<s.writer, s.reader>> # <<w, r>>,
                      NEW k \in Keys
               PROVE  received[<<w, r>>][k] =
                        IF Missed(w, r, k) THEN 0 ELSE latest[w][k]
    BY DEF ReaderHasWhatIsPromised, Missed, Volatile
  <2>1. KeyIsServed(w, r, k)
    BY DEF PromiseInvariant, MatchedAreServed
  <2>2. Sample(w, r, k, latest[w][k]) \notin flight
    BY SampleFields
  <2> QED
    BY <2>1, <2>2 DEF KeyIsServed
<1> QED
  BY <1>1, PromiseInvariance, PTL
=============================================================================
