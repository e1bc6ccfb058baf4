------------------------------ MODULE Observer ------------------------------
(***************************************************************************)
(* The observer process: the simulated radar measures a target that moves  *)
(* with constant velocity, the tracker turns the detection into a track    *)
(* and the publisher writes it.  One tick is one action, as in the code,   *)
(* where the detection is handed on by direct calls.                       *)
(***************************************************************************)
EXTENDS Integers

CONSTANTS
  target,          \* targetId of the radar scenario
  TargetStart,     \* initialPosition
  TargetVelocity,  \* distance the target moves per radar interval
  MaxTicks,        \* bound on the number of ticks (--tick-count when given)
  None

VARIABLES
  tickIndex,    \* tickIndex_ of SimulatedRadar
  trackWriter   \* newest sample written to drone.target_tracks

ovars == <<tickIndex, trackWriter>>

Init == tickIndex = 0 /\ trackWriter = None

Detection ==
  [targetId |-> target,
   position |-> TargetStart + TargetVelocity * tickIndex,
   detectedAt |-> tickIndex]

OnDetection(detection) ==
  trackWriter' = [targetId |-> detection.targetId,
                  position |-> detection.position,
                  measuredAt |-> detection.detectedAt]

RadarTick ==
  /\ tickIndex < MaxTicks
  /\ OnDetection(Detection)
  /\ tickIndex' = tickIndex + 1
=============================================================================
