------------------------------ MODULE TimeProofs ------------------------------
(***************************************************************************)
(* The clocks of SimulatedTime for every width of the integers and every   *)
(* interval: no time that wraps is ever written.  Both terms of a sum are  *)
(* below Half, hence the sum is below 2 * Half, where the wrapped value is *)
(* the exact one or negative.                                              *)
(***************************************************************************)
EXTENDS SimulatedTime, TLAPS

TimeTypes ==
  /\ interval \in [Clocks -> Intervals]
  /\ ticks \in [Clocks -> Nat]
  /\ measuredAt \in Nat
  /\ running \in [Clocks -> BOOLEAN]
  /\ life \in [Clocks -> Nat]
  /\ written \in [Clocks -> Nat \cup {None}]
  /\ shown \in [Clocks -> Nat \X (Nat \cup {None})]
  /\ taken \in [Clocks -> Nat \cup {None}]

\* The last product the radar has formed was a time.
RadarStaysBelow ==
  ticks["radar"] > 0 => interval["radar"] * (ticks["radar"] - 1) < Half

\* The projection shows nothing older than what was taken in this life.
TakenIsShown ==
  \A c \in Clocks : taken[c] # None => shown[c][2] # None /\ taken[c] <= shown[c][2]

TimeInvariant ==
  /\ TimeTypes
  /\ RadarStaysBelow
  /\ TimeIsExact
  /\ TakenIsShown

-----------------------------------------------------------------------------
\* A number below the modulus is its own remainder.
LEMMA SmallRemainder ==
  ASSUME NEW n \in Nat, NEW k \in Nat, n < k
  PROVE  n % k = n
  OBVIOUS

\* What is below 2 * Half is read as itself or as a negative number.
LEMMA SignedBelowTwice ==
  ASSUME NEW n \in Nat, n < 2 * Half
  PROVE  /\ Signed(n) \in Int
         /\ IsTimestamp(Signed(n)) <=> n < Half
         /\ n < Half => Signed(n) = n
<1>1. Half \in Nat /\ 2 * Half \in Nat
  BY TimeAssumption
<1>2. Unsigned(n) = n
  BY <1>1, SmallRemainder DEF Unsigned
<1> QED BY <1>1, <1>2 DEF Signed, IsTimestamp

\* One more interval.
LEMMA NextProduct ==
  ASSUME NEW i \in Nat, NEW t \in Nat
  PROVE  i * t \in Nat /\ i * (t + 1) = i * t + i
  OBVIOUS

LEMMA PreviousProduct ==
  ASSUME NEW i \in Nat, NEW t \in Nat, t > 0
  PROVE  i * (t - 1) \in Nat /\ i * t = i * (t - 1) + i
<1>1. t - 1 \in Nat /\ (t - 1) + 1 = t
  OBVIOUS
<1> QED BY <1>1, NextProduct

\* The facts about the types that the steps need.
LEMMA TypesOfClocks ==
  ASSUME TimeTypes
  PROVE  /\ Half \in Nat /\ Half > 1 /\ None \notin Nat
         /\ \A c \in Clocks : interval[c] \in 1..(Half - 1) /\ ticks[c] \in Nat
         /\ "radar" \in Clocks /\ "vehicle" \in Clocks
  BY TimeAssumption DEF TimeTypes, Clocks

\* The clocks start in the invariant.
LEMMA TimeStarts == Init => TimeInvariant
<1> SUFFICES ASSUME Init PROVE TimeInvariant
  OBVIOUS
<1>1. Half \in Nat /\ Half > 1 /\ None \notin Nat
  BY TimeAssumption
<1>2. TimeTypes
  BY <1>1 DEF Init, TimeTypes, Clocks
<1>3. interval["vehicle"] \in Nat
  BY <1>1, <1>2, TypesOfClocks
<1>4. interval["vehicle"] * 0 = 0
  BY <1>3
<1>5. TimeIsExact
  BY <1>1, <1>4 DEF Init, TimeIsExact, Clocks
<1>6. RadarStaysBelow /\ TakenIsShown
  BY DEF Init, RadarStaysBelow, TakenIsShown, Clocks
<1> QED BY <1>2, <1>5, <1>6 DEF TimeInvariant

-----------------------------------------------------------------------------
\* A tick of the radar.
LEMMA RadarKeeps ==
  ASSUME TimeInvariant, RadarTick
  PROVE  TimeInvariant'
<1> USE DEF TimeInvariant
<1> DEFINE i == interval["radar"]
           t == ticks["radar"]
           product == i * t
<1>1. i \in Nat /\ i < Half /\ t \in Nat /\ product \in Nat /\ Half \in Nat
  BY TypesOfClocks, NextProduct
<1>2. product < 2 * Half
  <2>1. CASE t = 0
    <3>1. i * 0 = 0
      BY <1>1
    <3> QED BY <1>1, <2>1, <3>1, TypesOfClocks
  <2>2. CASE t > 0
    <3>1. i * (t - 1) \in Nat /\ product = i * (t - 1) + i
      BY <1>1, <2>2, PreviousProduct
    <3>2. i * (t - 1) < Half
      BY <2>2 DEF RadarStaysBelow
    <3> QED BY <1>1, <3>1, <3>2
  <2> QED BY <1>1, <2>1, <2>2
<1>3. /\ IsTimestamp(Signed(product)) <=> product < Half
      /\ product < Half => Signed(product) = product
  BY <1>1, <1>2, SignedBelowTwice
<1> HIDE DEF product
<1>4. CASE product < Half
  <2>1. /\ written' = [written EXCEPT !["radar"] = product]
        /\ ticks' = [ticks EXCEPT !["radar"] = @ + 1]
        /\ UNCHANGED <<interval, measuredAt, running, life, shown, taken>>
    BY <1>3, <1>4 DEF RadarTick, product
  <2>2. TimeTypes'
    BY <1>1, <2>1 DEF TimeTypes, Clocks
  <2>3. ticks'["radar"] = t + 1 /\ written'["radar"] = product /\ interval' = interval
    BY <2>1 DEF TimeTypes, Clocks
  <2>4. ticks'["vehicle"] = ticks["vehicle"] /\ written'["vehicle"] = written["vehicle"]
    BY <2>1 DEF TimeTypes, Clocks
  <2>5. (t + 1) - 1 = t /\ t + 1 > 0
    BY <1>1
  <2>6. RadarStaysBelow'
    BY <1>4, <2>3, <2>5 DEF RadarStaysBelow, product
  <2>7. TimeIsExact'
    BY <1>1, <1>4, <2>1, <2>3, <2>4, <2>5 DEF TimeIsExact, product
  <2>8. TakenIsShown'
    BY <2>1 DEF TakenIsShown
  <2> QED BY <2>2, <2>6, <2>7, <2>8
<1>5. CASE ~(product < Half)
  <2>1. /\ running' = [running EXCEPT !["radar"] = FALSE]
        /\ UNCHANGED <<interval, ticks, measuredAt, life, written, shown, taken>>
    BY <1>3, <1>5 DEF RadarTick, Overflow, product
  <2> QED BY <2>1 DEF TimeTypes, RadarStaysBelow, TimeIsExact, TakenIsShown
<1> QED BY <1>4, <1>5

\* A step of the vehicle.
LEMMA VehicleKeeps ==
  ASSUME TimeInvariant, VehicleStep
  PROVE  TimeInvariant'
<1> USE DEF TimeInvariant
<1> DEFINE i == interval["vehicle"]
           t == ticks["vehicle"]
           sum == measuredAt + i
<1>1. i \in Nat /\ i < Half /\ t \in Nat /\ sum \in Nat /\ Half \in Nat
  BY TypesOfClocks DEF TimeTypes
<1>2. measuredAt = i * t /\ measuredAt \in 0..(Half - 1)
  BY DEF TimeIsExact
<1>3. sum < 2 * Half /\ sum = i * (t + 1)
  BY <1>1, <1>2, NextProduct
<1>4. /\ IsTimestamp(Signed(sum)) <=> sum < Half
      /\ sum < Half => Signed(sum) = sum
  BY <1>1, <1>3, SignedBelowTwice
<1> HIDE DEF sum
<1>5. CASE sum < Half
  <2>1. /\ measuredAt' = sum
        /\ ticks' = [ticks EXCEPT !["vehicle"] = @ + 1]
        /\ UNCHANGED <<interval, running, life, written, shown, taken>>
    BY <1>4, <1>5 DEF VehicleStep, sum
  <2>2. TimeTypes'
    BY <1>1, <2>1 DEF TimeTypes, Clocks
  <2>3. ticks'["vehicle"] = t + 1 /\ ticks'["radar"] = ticks["radar"]
    BY <2>1 DEF TimeTypes, Clocks
  <2>4. RadarStaysBelow'
    BY <2>1, <2>3 DEF RadarStaysBelow
  <2>5. sum >= measuredAt
    BY <1>1, <1>2 DEF sum
  <2>6. TimeIsExact'
    BY <1>1, <1>2, <1>3, <1>5, <2>1, <2>3, <2>5 DEF TimeIsExact
  <2>7. TakenIsShown'
    BY <2>1 DEF TakenIsShown
  <2> QED BY <2>2, <2>4, <2>6, <2>7
<1>6. CASE ~(sum < Half)
  <2>1. /\ running' = [running EXCEPT !["vehicle"] = FALSE]
        /\ UNCHANGED <<interval, ticks, measuredAt, life, written, shown, taken>>
    BY <1>4, <1>6 DEF VehicleStep, Overflow, sum
  <2> QED BY <2>1 DEF TimeTypes, RadarStaysBelow, TimeIsExact, TakenIsShown
<1> QED BY <1>5, <1>6

\* A report.
LEMMA ReportKeeps ==
  ASSUME TimeInvariant, VehicleReport
  PROVE  TimeInvariant'
<1> USE DEF TimeInvariant, VehicleReport
<1>1. measuredAt \in 0..(Half - 1) /\ Half \in Nat
  BY TypesOfClocks DEF TimeIsExact
<1>2. /\ written'["vehicle"] = measuredAt /\ written'["radar"] = written["radar"]
      /\ written' \in [Clocks -> Nat \cup {None}]
  BY <1>1 DEF TimeTypes, Clocks
<1>3. TimeTypes' /\ RadarStaysBelow' /\ TakenIsShown'
  BY <1>2 DEF TimeTypes, RadarStaysBelow, TakenIsShown
<1>4. TimeIsExact'
  BY <1>1, <1>2 DEF TimeIsExact
<1> QED BY <1>3, <1>4

\* The console takes a sample.
LEMMA TakeKeeps ==
  ASSUME TimeInvariant, NEW c \in Clocks, ConsoleTakes(c)
  PROVE  TimeInvariant'
<1> USE DEF TimeInvariant, ConsoleTakes
<1>1. written[c] \in Nat /\ life[c] \in Nat /\ shown[c] \in Nat \X (Nat \cup {None})
  BY DEF TimeTypes
<1>2. shown' \in [Clocks -> Nat \X (Nat \cup {None})] /\ taken' \in [Clocks -> Nat \cup {None}]
  BY <1>1 DEF TimeTypes
<1>3. TimeTypes' /\ RadarStaysBelow' /\ TimeIsExact'
  BY <1>2 DEF TimeTypes, RadarStaysBelow, TimeIsExact
<1>4. ASSUME NEW d \in Clocks, taken'[d] # None
      PROVE  shown'[d][2] # None /\ taken'[d] <= shown'[d][2]
  <2>1. CASE d # c
    <3>1. taken'[d] = taken[d] /\ shown'[d] = shown[d]
      BY <2>1 DEF TimeTypes
    <3> QED BY <1>4, <3>1 DEF TakenIsShown
  <2>2. CASE d = c /\ (shown[c][2] = None \/ written[c] > shown[c][2])
    <3>1. taken'[c] = written[c] /\ shown'[c] = <<life[c], written[c]>>
      BY <2>2 DEF TimeTypes
    <3> QED BY <1>1, <2>2, <3>1
  <2>3. CASE d = c /\ ~(shown[c][2] = None \/ written[c] > shown[c][2])
    <3>1. taken'[c] = written[c] /\ shown'[c] = shown[c]
      BY <2>3 DEF TimeTypes
    <3> QED BY <1>1, <2>3, <3>1
  <2> QED BY <2>1, <2>2, <2>3
<1> QED BY <1>3, <1>4 DEF TakenIsShown

\* A process is started again.
LEMMA RestartKeeps ==
  ASSUME TimeInvariant, NEW c \in Clocks, Restart(c)
  PROVE  TimeInvariant'
<1> USE DEF TimeInvariant, Restart
<1>1. PICK i \in Intervals : interval' = [interval EXCEPT ![c] = i]
  OBVIOUS
<1>2. Half \in Nat /\ Half > 1 /\ i \in 1..(Half - 1)
  BY TimeAssumption
<1>3. TimeTypes'
  BY <1>1, <1>2 DEF TimeTypes
<1>4. TakenIsShown'
  BY DEF TimeTypes, TakenIsShown
<1>5. CASE c = "radar"
  <2>1. /\ interval'["vehicle"] = interval["vehicle"] /\ ticks'["vehicle"] = ticks["vehicle"]
        /\ written'["vehicle"] = written["vehicle"] /\ written'["radar"] = None
        /\ measuredAt' = measuredAt /\ ticks'["radar"] = 0
    BY <1>1, <1>5 DEF TimeTypes, Clocks
  <2>2. RadarStaysBelow' /\ TimeIsExact'
    BY <2>1 DEF RadarStaysBelow, TimeIsExact
  <2> QED BY <1>3, <1>4, <2>2
<1>6. CASE c = "vehicle"
  <2>1. /\ interval'["radar"] = interval["radar"] /\ ticks'["radar"] = ticks["radar"]
        /\ written'["radar"] = written["radar"] /\ written'["vehicle"] = 0
        /\ measuredAt' = 0 /\ ticks'["vehicle"] = 0 /\ interval'["vehicle"] = i
    BY <1>1, <1>6 DEF TimeTypes, Clocks
  <2>2. i * 0 = 0
    BY <1>2
  <2>3. RadarStaysBelow' /\ TimeIsExact'
    BY <1>2, <2>1, <2>2 DEF RadarStaysBelow, TimeIsExact
  <2> QED BY <1>3, <1>4, <2>3
<1> QED BY <1>5, <1>6 DEF Clocks

-----------------------------------------------------------------------------
\* Every step keeps the invariant.
LEMMA TimeKeeps == TimeInvariant /\ [Next]_vars => TimeInvariant'
<1> SUFFICES ASSUME TimeInvariant, [Next]_vars PROVE TimeInvariant'
  OBVIOUS
<1>1. CASE UNCHANGED vars
  BY <1>1 DEF vars, TimeInvariant, TimeTypes, RadarStaysBelow, TimeIsExact, TakenIsShown
<1>2. CASE Next
  BY <1>2, RadarKeeps, VehicleKeeps, ReportKeeps, TakeKeeps, RestartKeeps DEF Next
<1> QED BY <1>1, <1>2

\* The invariant of the clocks.
THEOREM TimeInvariance == Spec => []TimeInvariant
<1> QED BY TimeStarts, TimeKeeps, PTL DEF Spec

\* What a process writes is the exact sum of its intervals, however large they
\* are and however narrow the integers.
THEOREM TimesAreExact == Spec => []TimeIsExact
<1>1. TimeInvariant => TimeIsExact
  BY DEF TimeInvariant
<1> QED BY <1>1, TimeInvariance, PTL

\* A sample of a new life that is newer than what the console shows of the old
\* one is shown.
THEOREM NothingNewIsHidden == Spec => []OnlyTheStaleIsHidden
<1>1. TimeInvariant => OnlyTheStaleIsHidden
  BY DEF TimeInvariant, TakenIsShown, OnlyTheStaleIsHidden
<1> QED BY <1>1, TimeInvariance, PTL

\* Within a life the written times advance, although nothing checks it.
THEOREM TimesAdvance == Spec => TimeAdvances
<1> DEFINE Advance ==
      \A c \in Clocks :
        (life'[c] = life[c] /\ written[c] # None /\ written'[c] # written[c]) =>
           written'[c] > written[c]
<1>1. TimeInvariant /\ [Next]_vars => [Advance]_vars
  <2> SUFFICES ASSUME TimeInvariant, Next, NEW c \in Clocks,
                      life'[c] = life[c], written[c] # None, written'[c] # written[c]
               PROVE  written'[c] > written[c]
    OBVIOUS
  <2> USE DEF TimeInvariant
  <2>1. CASE RadarTick
    <3> DEFINE i == interval["radar"]
               t == ticks["radar"]
    <3>1. i \in Nat /\ i > 0 /\ t \in Nat /\ i * t \in Nat
      BY TypesOfClocks, NextProduct
    <3>2. c = "radar" /\ written'["radar"] = Signed(i * t)
      BY <2>1 DEF RadarTick, Overflow, TimeTypes, Clocks
    <3>3. t > 0 /\ written["radar"] = i * (t - 1)
      BY <3>2 DEF TimeIsExact
    <3>4. i * t = i * (t - 1) + i /\ i * (t - 1) \in Nat
      BY <3>1, <3>3, PreviousProduct
    <3>5. TimeIsExact'
      BY <2>1, RadarKeeps
    <3>6. written'["radar"] = i * t
      BY <2>1, <3>1, <3>2, <3>3, <3>4, SignedBelowTwice, TypesOfClocks
         DEF RadarStaysBelow, RadarTick, Overflow
    <3> QED BY <3>1, <3>2, <3>3, <3>4, <3>6
  <2>2. CASE VehicleReport
    <3>1. c = "vehicle" /\ written'["vehicle"] = measuredAt
      BY <2>2 DEF VehicleReport, TimeTypes, Clocks
    <3>2. written["vehicle"] \in 0..measuredAt /\ measuredAt \in Nat
      BY <3>1 DEF TimeIsExact, TimeTypes
    <3> QED BY <3>1, <3>2
  <2>3. CASE VehicleStep \/ \E d \in Clocks : ConsoleTakes(d)
    BY <2>3 DEF VehicleStep, Overflow, ConsoleTakes
  <2>4. ASSUME NEW d \in Clocks, Restart(d) PROVE FALSE
    <3>1. CASE d = c
      BY <2>4, <3>1 DEF Restart, TimeTypes
    <3>2. CASE d # c
      BY <2>4, <3>2 DEF Restart, TimeTypes, Clocks
    <3> QED BY <3>1, <3>2
  <2> QED BY <2>1, <2>2, <2>3, <2>4 DEF Next
<1> QED BY <1>1, TimeInvariance, PTL DEF Spec, TimeAdvances
=============================================================================
