--------------------------- MODULE ReportedPursuit ---------------------------
(***************************************************************************)
(* What the readers of drone.drone_states and drone.explosion_events are   *)
(* promised about one life of one interceptor process: the statuses it     *)
(* reports, in order, and the outcome that may follow the last of them.    *)
(* How the process decides is left out (Interceptor.tla implements this).  *)
(***************************************************************************)
EXTENDS Integers

CONSTANTS droneId, Targets, CommandIds, None

VARIABLES
  reported,   \* newest drone state written, None before the first
  outcomes    \* explosion events written

pvars == <<reported, outcomes>>

Init == reported = None /\ outcomes = {}

Sample(status, target) ==
  [droneId : {droneId}, position : Int, reportedAt : Nat,
   status : {status}, assignedTargetId : {target}]

Announce ==
  /\ reported = None
  /\ reported' \in Sample("available", None)
  /\ outcomes' = outcomes

Assign(target) ==
  /\ reported # None
  /\ reported.status = "available"
  /\ reported' \in Sample("assigned", target)
  /\ reported'.reportedAt >= reported.reportedAt
  /\ reported'.position = reported.position
  /\ outcomes' = outcomes

Engage ==
  /\ reported # None
  /\ reported.status = "assigned"
  /\ reported' \in Sample("intercepting", reported.assignedTargetId)
  /\ reported'.reportedAt >= reported.reportedAt
  /\ reported'.position = reported.position
  /\ outcomes' = outcomes

\* While it pursues, every report is strictly newer than the one before.
Fly(status) ==
  /\ reported # None
  /\ reported.status = "intercepting"
  /\ reported' \in Sample(status, reported.assignedTargetId)
  /\ reported'.reportedAt > reported.reportedAt

Pursue == Fly("intercepting") /\ outcomes' = outcomes

Fail == Fly("interceptionFailed") /\ outcomes' = outcomes

\* The event may be missing when its write failed, never differ from the state.
Succeed ==
  /\ Fly("interceptionSucceeded")
  /\ \/ outcomes' = outcomes
     \/ \E id \in CommandIds :
          outcomes' = outcomes \cup
            {[eventId |-> id, droneId |-> droneId,
              targetId |-> reported'.assignedTargetId,
              position |-> reported'.position,
              occurredAt |-> reported'.reportedAt]}

Next ==
  \/ Announce
  \/ \E target \in Targets : Assign(target)
  \/ Engage
  \/ Pursue
  \/ Fail
  \/ Succeed

Spec == Init /\ [][Next]_pvars
=============================================================================
