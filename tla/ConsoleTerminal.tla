--------------------------- MODULE ConsoleTerminal ---------------------------
(***************************************************************************)
(* What an operator sees of a console and types into it: the view that is  *)
(* printed after every sample that was consumed, and the action that       *)
(* starts an interception by a line of text.  A row keeps what it shows:   *)
(* identities, times, the status by its name, and positions rounded to two *)
(* decimals.                                                               *)
(*                                                                         *)
(* A drone is the number of its identity, which is never 0.                *)
(***************************************************************************)
EXTENDS Console

CONSTANTS
  Rounded,      \* what a position looks like
  Digits,       \* what the identity of a target looks like
  Numbers,      \* what the text after "start " may be: a number or not
  NotANumber

\* No identity is written as the sign of a drone without a target.
ASSUME TerminalAssumption ==
  /\ Positions \subseteq DOMAIN Rounded /\ Targets \subseteq DOMAIN Digits
  /\ \A t \in Targets : Digits[t] # "-"
  /\ Numbers \subseteq Drones \cup {0, NotANumber}

VARIABLES
  screen,      \* the last snapshot that was printed
  told         \* answers to actions that name a drone: <<drone, result>>

tvars == <<cvars, screen, told>>

-----------------------------------------------------------------------------
(* The view.                                                               *)

StatusName ==
  [available |-> "available", assigned |-> "assigned", intercepting |-> "intercepting",
   interceptionSucceeded |-> "succeeded", interceptionFailed |-> "failed"]

\* A table has a row for each entry of a map.
Shown(entries) == {id \in DOMAIN entries : entries[id] # None}

TargetRow(track) == <<track.targetId, Rounded[track.position], track.measuredAt>>

DroneRow(state) ==
  <<state.droneId, Rounded[state.position], StatusName[state.status],
    IF state.assignedTargetId = None THEN "-" ELSE Digits[state.assignedTargetId],
    state.reportedAt>>

OutcomeRow(event) ==
  <<event.eventId, event.droneId, event.targetId, Rounded[event.position],
    event.occurredAt>>

RenderTargets(tracks) == [id \in Shown(tracks) |-> TargetRow(tracks[id])]
RenderDrones(states) == [id \in Shown(states) |-> DroneRow(states[id])]
RenderOutcomes(events) == [id \in Shown(events) |-> OutcomeRow(events[id])]

Snapshot(c) ==
  [targets |-> RenderTargets(targetTracks[c]),
   drones |-> RenderDrones(droneStates[c]),
   outcomes |-> RenderOutcomes(outcomes[c])]

Render(c) == screen' = [screen EXCEPT ![c] = Snapshot(c)']

TerminalInit ==
  /\ Init
  /\ screen = [c \in Consoles |-> Snapshot(c)]
  /\ told = [c \in Consoles |-> {}]

-----------------------------------------------------------------------------
(* One receive of the loop: the view is printed also when the projection   *)
(* did not take the sample.                                                *)

ShowTarget(c, track) == ReceiveTarget(c, track) /\ Render(c) /\ UNCHANGED told
ShowDrone(c, state) == ReceiveDrone(c, state) /\ Render(c) /\ UNCHANGED told
ShowOutcome(c, event) == ReceiveOutcome(c, event) /\ Render(c) /\ UNCHANGED told

-----------------------------------------------------------------------------
(* The action.                                                             *)

\* The drone a line names; a line that names none is answered invalidSyntax.
ParseStartAction(starts, number) ==
  IF ~starts \/ number \in {NotANumber, 0} THEN None ELSE number

\* Mutant: an unconfirmed assignment is answered like a start.
AnswerOptimistically(result) == IF result = "droneNotAssigned" THEN "started" ELSE result

ToTerminalResult(result) == result

Execute(c, starts, number) ==
  LET drone == ParseStartAction(starts, number)
  IN /\ Running(c)
     /\ \/ /\ drone = None
           /\ UNCHANGED <<cvars, told>>
        \/ /\ drone # None
           /\ StartInterception(c, drone)
           /\ told' = IF consoleExit'[c] # "none" THEN told
                      ELSE [told EXCEPT ![c] = @ \cup
                              {<<drone, ToTerminalResult(StartResult(c, drone))>>}]
     /\ UNCHANGED screen

\* An assignment changes nothing an operator sees.
AssignUnseen(c, d, t) == Assign(c, d, t) /\ UNCHANGED <<screen, told>>

-----------------------------------------------------------------------------
TerminalNext ==
  \E c \in Consoles :
    \/ \E track \in TargetTracks : ShowTarget(c, track)
    \/ \E state \in DroneStates : ShowDrone(c, state)
    \/ \E event \in ExplosionEvents : ShowOutcome(c, event)
    \/ \E starts \in BOOLEAN, number \in Numbers : Execute(c, starts, number)
    \/ \E d \in Drones, t \in Targets : AssignUnseen(c, d, t)

TerminalSpec == TerminalInit /\ [][TerminalNext]_tvars

-----------------------------------------------------------------------------
(* Properties.                                                             *)

\* What an operator has read is not taken back: no row leaves the view, a row
\* of a target or a drone gives way only to one of a later time, and the row of
\* an outcome never changes, in whatever order samples come, repeated, late or
\* contradicting one another.
ScreenNeverGoesBack ==
  [][\A c \in Consoles :
       LET old == screen[c]
           new == screen'[c]
       IN /\ \A t \in DOMAIN old.targets :
               /\ t \in DOMAIN new.targets
               /\ \/ new.targets[t] = old.targets[t]
                  \/ new.targets[t][3] > old.targets[t][3]
          /\ \A d \in DOMAIN old.drones :
               /\ d \in DOMAIN new.drones
               /\ \/ new.drones[d] = old.drones[d]
                  \/ new.drones[d][5] > old.drones[d][5]
          /\ \A e \in DOMAIN old.outcomes :
               /\ e \in DOMAIN new.outcomes
               /\ new.outcomes[e] = old.outcomes[e]]_screen

\* The operator is told "started" for exactly the drones for which a command
\* was written, and "duplicate" for no other.
AnswersAreTrue ==
  \A c \in Consoles :
    /\ {x[1] : x \in {y \in told[c] : y[2] = "started"}} =
         {a.droneId : a \in commandWriter[c]}
    /\ \A x \in told[c] : x[2] = "duplicate" => <<x[1], "started">> \in told[c]
=============================================================================
