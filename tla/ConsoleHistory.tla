--------------------------- MODULE ConsoleHistory ---------------------------
(***************************************************************************)
(* Console with a history variable: the samples each console has consumed. *)
(* It restricts nothing; it lets a property relate what a console believes *)
(* and does to everything it has seen, in whatever order it came.          *)
(***************************************************************************)
EXTENDS Console

\* Bound on the different samples a console consumes, not counting one more
\* event after an outcome was recorded under its identity.
CONSTANT MaxSamples

VARIABLE received  \* received[c], the samples console c has consumed

hvars == <<cvars, received>>

HInit == Init /\ received = [c \in Consoles |-> {}]

\* An event that comes when its identity has an outcome.
IsLateEvent(c, sample) ==
  sample \in ExplosionEvents /\ outcomes[c][sample.eventId] # None

Consume(c, sample) ==
  /\ received' = [received EXCEPT ![c] = @ \cup {sample}]
  /\ Cardinality(received'[c]) <=
       IF IsLateEvent(c, sample) THEN MaxSamples + 1 ELSE MaxSamples

HNext ==
  \E c \in Consoles :
    \/ \E track \in TargetTracks : ReceiveTarget(c, track) /\ Consume(c, track)
    \/ \E state \in DroneStates : ReceiveDrone(c, state) /\ Consume(c, state)
    \/ \E event \in ExplosionEvents : ReceiveOutcome(c, event) /\ Consume(c, event)
    \/ \E d \in Drones, t \in Targets : Assign(c, d, t) /\ UNCHANGED received
    \/ \E d \in Drones : StartInterception(c, d) /\ UNCHANGED received

HSpec == HInit /\ [][HNext]_hvars

-----------------------------------------------------------------------------
Tracks(c, t) == {s \in received[c] \cap TargetTracks : s.targetId = t}
Reports(c, d) == {s \in received[c] \cap DroneStates : s.droneId = d}

\* However samples are reordered or repeated, a projection holds one of the
\* consumed samples and none of the others is newer.
ProjectionIsNewest ==
  \A c \in Consoles :
    /\ \A t \in Targets :
         IF Tracks(c, t) = {} THEN targetTracks[c][t] = None
         ELSE /\ targetTracks[c][t] \in Tracks(c, t)
              /\ \A s \in Tracks(c, t) :
                   s.measuredAt <= targetTracks[c][t].measuredAt
    /\ \A d \in Drones :
         IF Reports(c, d) = {} THEN droneStates[c][d] = None
         ELSE /\ droneStates[c][d] \in Reports(c, d)
              /\ \A s \in Reports(c, d) :
                   s.reportedAt <= droneStates[c][d].reportedAt

\* An intent is published only on evidence: an assignment after the drone
\* reported itself available and the target was tracked, a command after the
\* drone reported itself assigned to that very target.
IntentsAreGrounded ==
  \A c \in Consoles :
    /\ \A d \in Drones : assignmentWriter[c][d] # None =>
         /\ \E s \in Reports(c, d) : s.status = "available"
         /\ Tracks(c, assignmentWriter[c][d]) # {}
    /\ \A m \in commandWriter[c] :
         \E s \in Reports(c, m.droneId) :
           s.status = "assigned" /\ s.assignedTargetId = m.targetId

\* A recorded outcome was received, and the console had seen the target and
\* the drone assigned to it.
OutcomesAreCorrelated ==
  \A c \in Consoles, e \in EventIds :
    LET event == outcomes[c][e]
    IN event # None =>
         /\ event \in received[c] /\ event.eventId = e
         /\ Tracks(c, event.targetId) # {}
         /\ \E s \in Reports(c, event.droneId) :
              s.assignedTargetId = event.targetId
=============================================================================
