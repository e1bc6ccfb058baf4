---------------------------- MODULE SimulatedTime ----------------------------
(***************************************************************************)
(* The two clocks of the simulation and the console that goes by them.     *)
(* The radar multiplies its interval by a count of ticks, the vehicle adds *)
(* its interval to what it has; both in 64 bits, both from zero in every   *)
(* life of their process.  An interval may be as large as the type allows. *)
(* What cannot be a Timestamp is thrown out and ends the process.          *)
(*                                                                         *)
(* Integers have the range -Half .. Half - 1.                              *)
(***************************************************************************)
EXTENDS Integers

CONSTANTS
  Half,         \* 2^63
  Intervals,    \* values of --tick-ms
  MaxLives,     \* bound on the lives of a process
  None

ASSUME TimeAssumption ==
  /\ Half \in Nat /\ Half > 1
  /\ Intervals \subseteq 1..(Half - 1)
  /\ MaxLives \in Nat
  /\ None \notin Nat

Clocks == {"radar", "vehicle"}

VARIABLES
  interval,     \* tickInterval of the process
  ticks,        \* tickIndex_ of the radar, steps of the vehicle
  measuredAt,   \* measuredAt_ of the vehicle
  running,
  life,         \* which life of the process this is
  written,      \* newest time written in this life, None before
  shown,        \* the sample in the projection: <<life, time>>
  taken         \* history: the newest time of this life that was taken

vars == <<interval, ticks, measuredAt, running, life, written, shown, taken>>

-----------------------------------------------------------------------------
Unsigned(n) == n % (2 * Half)

\* The same bits as a signed count of milliseconds.
Signed(n) == IF Unsigned(n) < Half THEN Unsigned(n) ELSE Unsigned(n) - 2 * Half

\* Mutant: times before the epoch are let through.
AnyTimestamp(t) == TRUE

IsTimestamp(t) == t >= 0

Init ==
  /\ interval \in [Clocks -> Intervals]
  /\ ticks = [c \in Clocks |-> 0]
  /\ measuredAt = 0
  /\ running = [c \in Clocks |-> TRUE]
  /\ life = [c \in Clocks |-> 1]
  /\ written = [radar |-> None, vehicle |-> 0]
  /\ shown = [c \in Clocks |-> <<0, None>>]
  /\ taken = [c \in Clocks |-> None]

\* The constructor of Timestamp throws.
Overflow(c) ==
  /\ running' = [running EXCEPT ![c] = FALSE]
  /\ UNCHANGED <<interval, ticks, measuredAt, life, written, shown, taken>>

-----------------------------------------------------------------------------
\* Unsigned arithmetic: the product has the type of the count.
RadarTick ==
  /\ running["radar"]
  /\ LET detectedAt == Signed(interval["radar"] * ticks["radar"])
     IN IF IsTimestamp(detectedAt)
        THEN /\ written' = [written EXCEPT !["radar"] = detectedAt]
             /\ ticks' = [ticks EXCEPT !["radar"] = @ + 1]
             /\ UNCHANGED <<interval, measuredAt, running, life, shown, taken>>
        ELSE Overflow("radar")

\* Signed arithmetic: the sum wraps in the build of the repository.
VehicleStep ==
  /\ running["vehicle"]
  /\ LET next == Signed(measuredAt + interval["vehicle"])
     IN IF IsTimestamp(next)
        THEN /\ measuredAt' = next
             /\ ticks' = [ticks EXCEPT !["vehicle"] = @ + 1]
             /\ UNCHANGED <<interval, running, life, written, shown, taken>>
        ELSE Overflow("vehicle")

\* A report of the interceptor carries the time of its vehicle.
VehicleReport ==
  /\ running["vehicle"]
  /\ written' = [written EXCEPT !["vehicle"] = measuredAt]
  /\ UNCHANGED <<interval, ticks, measuredAt, running, life, shown, taken>>

\* Mutant: of two samples the console keeps the first.
TakeFirst(c) ==
  /\ written[c] # None
  /\ shown' = IF shown[c][2] = None
              THEN [shown EXCEPT ![c] = <<life[c], written[c]>>] ELSE shown
  /\ taken' = [taken EXCEPT ![c] = written[c]]
  /\ UNCHANGED <<interval, ticks, measuredAt, running, life, written>>

\* The projections keep what is newer by the time it carries.
ConsoleTakes(c) ==
  /\ written[c] # None
  /\ shown' = IF shown[c][2] = None \/ written[c] > shown[c][2]
              THEN [shown EXCEPT ![c] = <<life[c], written[c]>>] ELSE shown
  /\ taken' = [taken EXCEPT ![c] = written[c]]
  /\ UNCHANGED <<interval, ticks, measuredAt, running, life, written>>

\* The process is started again, with any interval; the interceptor reports
\* at once.
Restart(c) ==
  /\ life[c] < MaxLives
  /\ life' = [life EXCEPT ![c] = @ + 1]
  /\ running' = [running EXCEPT ![c] = TRUE]
  /\ ticks' = [ticks EXCEPT ![c] = 0]
  /\ \E i \in Intervals : interval' = [interval EXCEPT ![c] = i]
  /\ IF c = "vehicle"
     THEN measuredAt' = 0 /\ written' = [written EXCEPT !["vehicle"] = 0]
     ELSE measuredAt' = measuredAt /\ written' = [written EXCEPT !["radar"] = None]
  /\ taken' = [taken EXCEPT ![c] = None]
  /\ UNCHANGED shown

-----------------------------------------------------------------------------
Next ==
  \/ RadarTick \/ VehicleStep \/ VehicleReport
  \/ \E c \in Clocks : ConsoleTakes(c) \/ Restart(c)

\* Both loops go on, and the console polls; restarts are not promised.
Spec ==
  /\ Init /\ [][Next]_vars
  /\ WF_vars(RadarTick) /\ WF_vars(VehicleStep)
  /\ \A c \in Clocks : WF_vars(ConsoleTakes(c))

-----------------------------------------------------------------------------
(* Properties.                                                             *)

\* No interval, however large, makes a clock show a wrapped time: what a
\* process writes is the exact sum of its intervals until it ends.
TimeIsExact ==
  /\ measuredAt = interval["vehicle"] * ticks["vehicle"]
  /\ measuredAt \in 0..(Half - 1)
  /\ written["vehicle"] # None => written["vehicle"] \in 0..measuredAt
  /\ written["radar"] # None =>
       /\ ticks["radar"] > 0
       /\ written["radar"] = interval["radar"] * (ticks["radar"] - 1)
       /\ written["radar"] \in 0..(Half - 1)

\* Within a life the written times never go back, and those of the radar
\* strictly advance: the readers' rule "newer wins" loses nothing.
TimeAdvances ==
  [][\A c \in Clocks :
       life'[c] = life[c] /\ written[c] # None /\ written'[c] # written[c] =>
         written'[c] > written[c]]_vars

\* After a restart the projection may go on showing the former life, but it
\* hides only what carries no newer time: a sample of the new life is shown
\* as soon as its clock has passed the one the console has seen.
OnlyTheStaleIsHidden ==
  \A c \in Clocks :
    shown[c][1] < life[c] /\ taken[c] # None => taken[c] <= shown[c][2]

\* The blindness to a restarted observer ends: the console shows the new life,
\* unless that life ends as well, or its clock breaks before it has passed the
\* time the console has seen.
RestartIsNoticed ==
  \A l \in 1..MaxLives :
    life["radar"] = l ~>
      \/ shown["radar"][1] = l
      \/ life["radar"] # l
      \/ /\ ~running["radar"] /\ None \notin {written["radar"], shown["radar"][2]}
         /\ written["radar"] <= shown["radar"][2]
=============================================================================
