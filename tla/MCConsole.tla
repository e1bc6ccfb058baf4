------------------------------ MODULE MCConsole ------------------------------
(* One console with its terminal, and the history of what it consumed: each *)
(* step is one of ConsoleTerminal and, but for a line that names no drone,  *)
(* one of ConsoleHistory.  Two targets and two times, so that samples can   *)
(* be repeated, stale, conflicting and newer; three drones, so that the     *)
(* third command is the one that meets the end of the identities.           *)
EXTENDS ConsoleHistory, ConsoleTerminal, TLC

\* Bound: all that is heard of these drones is that they are assigned, once,
\* and a line names them only to start them.
CONSTANT SpareDrones

MCPositions == {1234}
MCRounded == [p \in MCPositions |-> 120]
MCTimes == 0..1

\* Identities are told apart and not compared, so any two are alike; what is
\* typed or shown of one is the model value itself.
MCNumbers == Drones \cup {0, NotANumber}
MCDigits == [t \in Targets |-> t]
Symmetry == Permutations(Drones \ SpareDrones) \cup Permutations(Targets)

Heard(state) ==
  state.droneId \in SpareDrones => state.status = "assigned" /\ state.reportedAt = 0

Typed(c, number) ==
  number \in SpareDrones => StartResult(c, number) \in {"started", "overflow"}

MCInit == HInit /\ TerminalInit
MCNext ==
  \E c \in Consoles :
    \/ \E track \in TargetTracks : ShowTarget(c, track) /\ Consume(c, track)
    \/ \E state \in {s \in DroneStates : Heard(s)} :
         ShowDrone(c, state) /\ Consume(c, state)
    \/ \E event \in {e \in ExplosionEvents : e.droneId \notin SpareDrones} :
         ShowOutcome(c, event) /\ Consume(c, event)
    \/ /\ UNCHANGED received
       /\ \/ \E starts \in BOOLEAN, number \in {n \in Numbers : Typed(c, n)} :
               Execute(c, starts, number)
          \/ \E d \in Drones, t \in Targets : AssignUnseen(c, d, t)
MCSpec == MCInit /\ [][MCNext]_<<hvars, screen, told>>
=============================================================================
