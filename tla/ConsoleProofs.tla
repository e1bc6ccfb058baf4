---------------------------- MODULE ConsoleProofs ----------------------------
(***************************************************************************)
(* Proofs about the console processes, for any number of consoles, drones, *)
(* targets, samples and identities: their types, the identities of their   *)
(* commands, and what never changes again.  The second part is about       *)
(* ConsoleHistory and needs no bound on the samples consumed.              *)
(***************************************************************************)
EXTENDS ConsoleHistory, ConsoleTerminal, TLAPS

-----------------------------------------------------------------------------
(* What the results of the operations entail.                              *)

\* A track is stored only if it is the first or newer than the stored one.
LEMMA StoredTrackIsNewer ==
  ASSUME NEW c \in Consoles, NEW track \in TargetTracks, TypeOK,
         TargetUpdateResult(c, track) \in {"added", "updated"},
         targetTracks[c][track.targetId] # None
  PROVE  targetTracks[c][track.targetId].measuredAt < track.measuredAt
<1>1. track.targetId \in Targets /\ track.measuredAt \in Nat
  BY ConsoleAssumption DEF TargetTracks
<1>2. targetTracks[c][track.targetId] \in TargetTracks
  BY <1>1 DEF TypeOK
<1>3. targetTracks[c][track.targetId].measuredAt \in Nat
  BY <1>2, ConsoleAssumption DEF TargetTracks
<1> QED
  BY <1>1, <1>3 DEF TargetUpdateResult

\* A track is left out only if the stored one is as new.
LEMMA DroppedTrackIsNotNewer ==
  ASSUME NEW c \in Consoles, NEW track \in TargetTracks, TypeOK,
         TargetUpdateResult(c, track) \notin {"added", "updated"}
  PROVE  /\ targetTracks[c][track.targetId] # None
         /\ track.measuredAt <= targetTracks[c][track.targetId].measuredAt
<1>1. track.targetId \in Targets /\ track.measuredAt \in Nat
  BY ConsoleAssumption DEF TargetTracks
<1>2. targetTracks[c][track.targetId] # None
  BY DEF TargetUpdateResult
<1>3. targetTracks[c][track.targetId] \in TargetTracks
  BY <1>1, <1>2 DEF TypeOK
<1>4. targetTracks[c][track.targetId].measuredAt \in Nat
  BY <1>3, ConsoleAssumption DEF TargetTracks
<1> QED
  BY <1>1, <1>2, <1>4 DEF TargetUpdateResult

\* A drone's report is stored only if it is the first or newer.
LEMMA StoredReportIsNewer ==
  ASSUME NEW c \in Consoles, NEW state \in DroneStates, TypeOK,
         DroneUpdateResult(c, state) \in {"added", "updated"},
         droneStates[c][state.droneId] # None
  PROVE  droneStates[c][state.droneId].reportedAt < state.reportedAt
<1>1. /\ state.droneId \in Drones
      /\ state.reportedAt \in Nat
      /\ droneStates[c][state.droneId] \in DroneStates
  BY ConsoleAssumption DEF TypeOK, DroneStates
<1>2. droneStates[c][state.droneId].reportedAt \in Nat
  BY <1>1, ConsoleAssumption DEF DroneStates
<1> QED
  BY <1>1, <1>2 DEF DroneUpdateResult

\* A drone's report is left out only if the stored one is as new.
LEMMA DroppedReportIsNotNewer ==
  ASSUME NEW c \in Consoles, NEW state \in DroneStates, TypeOK,
         DroneUpdateResult(c, state) \notin {"added", "updated"}
  PROVE  /\ droneStates[c][state.droneId] # None
         /\ state.reportedAt <= droneStates[c][state.droneId].reportedAt
<1>1. state.droneId \in Drones /\ state.reportedAt \in Nat
  BY ConsoleAssumption DEF DroneStates
<1>2. droneStates[c][state.droneId] # None
  BY DEF DroneUpdateResult
<1>3. droneStates[c][state.droneId].reportedAt \in Nat
  BY <1>1, <1>2, ConsoleAssumption DEF TypeOK, DroneStates
<1> QED
  BY <1>1, <1>2, <1>3 DEF DroneUpdateResult

\* A start is decided for a drone that reported itself assigned, while there
\* is an identity left.
LEMMA StartIsGrounded ==
  ASSUME NEW c \in Consoles, NEW d \in Drones, TypeOK,
         StartResult(c, d) = "started"
  PROVE  /\ droneStates[c][d] \in DroneStates
         /\ droneStates[c][d].status = "assigned"
         /\ droneStates[c][d].assignedTargetId \in Targets
         /\ d \notin pendingStarts[c]
         /\ nextCommandId[c] \in 1..(MaxCommandId - 1)
<1>1. /\ droneStates[c][d] # None /\ droneStates[c][d].status = "assigned"
      /\ d \notin pendingStarts[c] /\ nextCommandId[c] # MaxCommandId
  BY DEF StartResult
<1>2. droneStates[c][d] \in DroneStates
  BY <1>1 DEF TypeOK
<1>3. droneStates[c][d].assignedTargetId \in Targets
  BY <1>1, <1>2 DEF DroneStates
<1>4. nextCommandId[c] \in 1..MaxCommandId
  BY DEF TypeOK
<1>5. nextCommandId[c] \in 1..(MaxCommandId - 1)
  BY <1>1, <1>4, ConsoleAssumption
<1> QED
  BY <1>1, <1>2, <1>3, <1>5

\* An assignment is decided for a drone that reported itself available and a
\* target that is tracked, while none is pending.
LEMMA AssignmentIsGrounded ==
  ASSUME NEW c \in Consoles, NEW d \in Drones, NEW t \in Targets,
         AssignmentResult(c, d, t) = "assigned"
  PROVE  /\ droneStates[c][d] # None
         /\ droneStates[c][d].status = "available"
         /\ targetTracks[c][t] # None
         /\ pendingAssignments[c][d] = None
  BY DEF AssignmentResult

-----------------------------------------------------------------------------
(* The invariant of the consoles.                                          *)

\* What is pending is what was written.
PendingIsWritten == pendingAssignments = assignmentWriter

CInv == TypeOK /\ CommandIdentitiesUnique /\ PendingIsWritten

LEMMA InitCInv == Init => CInv
<1> SUFFICES ASSUME Init PROVE CInv
  OBVIOUS
<1>1. TypeOK
  BY ConsoleAssumption DEF Init, TypeOK
<1>2. CommandIdentitiesUnique
  BY DEF Init, CommandIdentitiesUnique
<1> QED
  BY <1>1, <1>2 DEF Init, CInv, PendingIsWritten

LEMMA ReceiveTargetKeeps ==
  ASSUME CInv, NEW c \in Consoles, NEW track \in TargetTracks,
         ReceiveTarget(c, track)
  PROVE  CInv'
<1>1. track.targetId \in Targets
  BY DEF TargetTracks
<1>2. targetTracks' \in [Consoles -> [Targets -> TargetTracks \cup {None}]]
  BY <1>1 DEF CInv, TypeOK, ReceiveTarget
<1>3. TypeOK'
  BY <1>2 DEF CInv, TypeOK, ReceiveTarget, intents
<1> QED
  BY <1>3 DEF CInv, CommandIdentitiesUnique, PendingIsWritten, ReceiveTarget, intents

LEMMA ReceiveDroneKeeps ==
  ASSUME CInv, NEW c \in Consoles, NEW state \in DroneStates,
         ReceiveDrone(c, state)
  PROVE  CInv'
<1>1. state.droneId \in Drones
  BY DEF DroneStates
<1>2. droneStates' \in [Consoles -> [Drones -> DroneStates \cup {None}]]
  BY <1>1 DEF CInv, TypeOK, ReceiveDrone
<1>3. TypeOK'
  BY <1>2 DEF CInv, TypeOK, ReceiveDrone, intents
<1> QED
  BY <1>3 DEF CInv, CommandIdentitiesUnique, PendingIsWritten, ReceiveDrone, intents

LEMMA ReceiveOutcomeKeeps ==
  ASSUME CInv, NEW c \in Consoles, NEW event \in ExplosionEvents,
         ReceiveOutcome(c, event)
  PROVE  CInv'
<1>1. event.eventId \in EventIds
  BY DEF ExplosionEvents
<1>2. outcomes' \in [Consoles -> [EventIds -> ExplosionEvents \cup {None}]]
  BY <1>1 DEF CInv, TypeOK, ReceiveOutcome
<1>3. TypeOK'
  BY <1>2 DEF CInv, TypeOK, ReceiveOutcome, intents
<1> QED
  BY <1>3 DEF CInv, CommandIdentitiesUnique, PendingIsWritten, ReceiveOutcome, intents

\* A write that fails ends the process and leaves everything else alone.
LEMMA FailedWriteKeeps ==
  ASSUME CInv, NEW c \in Consoles, UNCHANGED <<projections, intents>>,
         consoleExit' \in {consoleExit,
                           [consoleExit EXCEPT ![c] = "writeFailed"],
                           [consoleExit EXCEPT ![c] = "overflow"]}
  PROVE  CInv'
<1>1. consoleExit' \in [Consoles -> {"none", "writeFailed", "overflow"}]
  BY DEF CInv, TypeOK
<1>2. TypeOK'
  BY <1>1 DEF CInv, TypeOK, projections, intents
<1> QED
  BY <1>2 DEF CInv, CommandIdentitiesUnique, PendingIsWritten, projections, intents

LEMMA AssignKeeps ==
  ASSUME CInv, NEW c \in Consoles, NEW d \in Drones, NEW t \in Targets,
         Assign(c, d, t)
  PROVE  CInv'
<1>1. CASE UNCHANGED intents /\ (UNCHANGED consoleExit \/ WriteFails(c))
  BY <1>1, FailedWriteKeeps DEF Assign, WriteFails
<1>2. CASE /\ assignmentWriter' = [assignmentWriter EXCEPT ![c][d] = t]
           /\ pendingAssignments' = [pendingAssignments EXCEPT ![c][d] = t]
           /\ UNCHANGED <<pendingStarts, nextCommandId, commandWriter, consoleExit>>
  <2>1. /\ assignmentWriter' \in [Consoles -> [Drones -> Targets \cup {None}]]
        /\ pendingAssignments' \in [Consoles -> [Drones -> Targets \cup {None}]]
    BY <1>2 DEF CInv, TypeOK
  <2>2. TypeOK'
    BY <1>2, <2>1 DEF CInv, TypeOK, Assign, projections
  <2>3. CommandIdentitiesUnique'
    BY <1>2 DEF CInv, CommandIdentitiesUnique
  <2> QED
    BY <1>2, <2>2, <2>3 DEF CInv, PendingIsWritten
<1> QED
  BY <1>1, <1>2 DEF Assign, WriteFails

\* A command is written, the identity counter passes it.
StartWrites(c, d) ==
  /\ commandWriter' = [commandWriter EXCEPT ![c] = @ \cup
       {[commandId |-> nextCommandId[c], droneId |-> d,
         targetId |-> droneStates[c][d].assignedTargetId]}]
  /\ pendingStarts' = [pendingStarts EXCEPT ![c] = @ \cup {d}]
  /\ nextCommandId' = [nextCommandId EXCEPT ![c] = Advanced(@)]
  /\ UNCHANGED <<projections, pendingAssignments, assignmentWriter, consoleExit>>

LEMMA StartWritesKeeps ==
  ASSUME CInv, NEW c \in Consoles, NEW d \in Drones,
         StartResult(c, d) = "started", StartWrites(c, d)
  PROVE  CInv'
<1> DEFINE command == [commandId |-> nextCommandId[c], droneId |-> d,
                       targetId |-> droneStates[c][d].assignedTargetId]
<1>1. /\ droneStates[c][d].assignedTargetId \in Targets
      /\ d \notin pendingStarts[c]
      /\ nextCommandId[c] \in 1..(MaxCommandId - 1)
  BY StartIsGrounded DEF CInv
<1>2. command \in InterceptionCommands
  BY <1>1 DEF InterceptionCommands
<1>3. commandWriter' = [commandWriter EXCEPT ![c] = @ \cup {command}]
  BY DEF StartWrites
<1> HIDE DEF command
<1>4. commandWriter' \in [Consoles -> SUBSET InterceptionCommands]
  BY <1>2, <1>3 DEF CInv, TypeOK
<1>5. pendingStarts' \in [Consoles -> SUBSET Drones]
  BY DEF StartWrites, CInv, TypeOK
<1>6. nextCommandId' = [nextCommandId EXCEPT ![c] = nextCommandId[c] + 1]
  <2>1. Advanced(nextCommandId[c]) = nextCommandId[c] + 1
    BY <1>1, ConsoleAssumption DEF Advanced
  <2> QED
    BY <2>1 DEF StartWrites
<1>7. nextCommandId' \in [Consoles -> 1..MaxCommandId]
  BY <1>1, <1>6, ConsoleAssumption DEF CInv, TypeOK
<1>8. TypeOK'
  BY <1>4, <1>5, <1>7 DEF StartWrites, CInv, TypeOK, projections
<1>9. CommandIdentitiesUnique'
  <2> SUFFICES ASSUME NEW x \in Consoles
               PROVE  /\ \A a, b \in commandWriter'[x] :
                           \/ a.commandId # b.commandId /\ a.droneId # b.droneId
                           \/ a = b
                      /\ \A a \in commandWriter'[x] :
                           a.commandId \in 1..(nextCommandId'[x] - 1)
                      /\ pendingStarts'[x] = {a.droneId : a \in commandWriter'[x]}
    BY DEF CommandIdentitiesUnique
  <2>1. CASE x # c
    <3>1. /\ commandWriter'[x] = commandWriter[x]
          /\ nextCommandId'[x] = nextCommandId[x]
          /\ pendingStarts'[x] = pendingStarts[x]
      BY <2>1, <1>3 DEF StartWrites, CInv, TypeOK
    <3> QED
      BY <3>1 DEF CInv, CommandIdentitiesUnique
  <2>2. CASE x = c
    <3>1. /\ commandWriter'[c] = commandWriter[c] \cup {command}
          /\ nextCommandId'[c] = nextCommandId[c] + 1
          /\ pendingStarts'[c] = pendingStarts[c] \cup {d}
      BY <1>3, <1>6 DEF StartWrites, CInv, TypeOK
    <3>2. command.commandId = nextCommandId[c] /\ command.droneId = d
      BY DEF command
    <3>3. /\ pendingStarts[c] = {a.droneId : a \in commandWriter[c]}
          /\ \A a \in commandWriter[c] : a.commandId \in 1..(nextCommandId[c] - 1)
          /\ \A a, b \in commandWriter[c] :
               a.commandId = b.commandId \/ a.droneId = b.droneId => a = b
      BY DEF CInv, CommandIdentitiesUnique
    <3>4. \A a \in commandWriter[c] : a.commandId # command.commandId
      BY <1>1, <3>2, <3>3
    <3>5. \A a \in commandWriter[c] : a.droneId # command.droneId
      BY <1>1, <3>2, <3>3
    <3>6. \A a, b \in commandWriter'[c] :
            \/ a.commandId # b.commandId /\ a.droneId # b.droneId
            \/ a = b
      BY <3>1, <3>3, <3>4, <3>5
    <3>7. \A a \in commandWriter'[c] : a.commandId \in 1..(nextCommandId'[c] - 1)
      BY <1>1, <3>1, <3>2, <3>3
    <3>8. pendingStarts'[c] = {a.droneId : a \in commandWriter'[c]}
      BY <3>1, <3>2, <3>3
    <3> QED
      BY <2>2, <3>6, <3>7, <3>8
  <2> QED
    BY <2>1, <2>2
<1> QED
  BY <1>8, <1>9 DEF CInv, PendingIsWritten, StartWrites

LEMMA StartKeeps ==
  ASSUME CInv, NEW c \in Consoles, NEW d \in Drones, StartInterception(c, d)
  PROVE  CInv'
<1>1. CASE StartResult(c, d) = "started" /\ StartWrites(c, d)
  BY <1>1, StartWritesKeeps
<1>2. CASE /\ UNCHANGED intents
           /\ \/ UNCHANGED consoleExit
              \/ WriteFails(c)
              \/ consoleExit' = [consoleExit EXCEPT ![c] = "overflow"]
  BY <1>2, FailedWriteKeeps DEF StartInterception, WriteFails
<1> QED
  BY <1>1, <1>2 DEF StartInterception, WriteFails, StartWrites

LEMMA CInvInductive == CInv /\ [Next]_cvars => CInv'
<1> SUFFICES ASSUME CInv, [Next]_cvars PROVE CInv'
  OBVIOUS
<1>1. ASSUME NEW c \in Consoles, NEW track \in TargetTracks, ReceiveTarget(c, track)
      PROVE  CInv'
  BY <1>1, ReceiveTargetKeeps
<1>2. ASSUME NEW c \in Consoles, NEW state \in DroneStates, ReceiveDrone(c, state)
      PROVE  CInv'
  BY <1>2, ReceiveDroneKeeps
<1>3. ASSUME NEW c \in Consoles, NEW event \in ExplosionEvents, ReceiveOutcome(c, event)
      PROVE  CInv'
  BY <1>3, ReceiveOutcomeKeeps
<1>4. ASSUME NEW c \in Consoles, NEW d \in Drones, NEW t \in Targets, Assign(c, d, t)
      PROVE  CInv'
  BY <1>4, AssignKeeps
<1>5. ASSUME NEW c \in Consoles, NEW d \in Drones, StartInterception(c, d)
      PROVE  CInv'
  BY <1>5, StartKeeps
<1>6. CASE UNCHANGED cvars
  BY <1>6 DEF cvars, CInv, TypeOK, CommandIdentitiesUnique, PendingIsWritten
<1> QED
  BY <1>1, <1>2, <1>3, <1>4, <1>5, <1>6 DEF Next

\* The invariant of the consoles holds at every moment.
THEOREM ConsoleInvariance == Spec => []CInv
  BY InitCInv, CInvInductive, PTL DEF Spec

-----------------------------------------------------------------------------
(* Theorems about the consoles.                                            *)

\* Every variable of a console keeps its type: the projections and the
\* intents are keyed by the identity inside the value.
THEOREM ConsoleTypes == Spec => []TypeOK
<1>1. CInv => TypeOK
  BY DEF CInv
<1> QED
  BY <1>1, ConsoleInvariance, PTL

\* The commands of a process have identities and drones of their own, and a
\* start is pending exactly when its command was written.
THEOREM CommandsAreUnique == Spec => []CommandIdentitiesUnique
<1>1. CInv => CommandIdentitiesUnique
  BY DEF CInv
<1> QED
  BY <1>1, ConsoleInvariance, PTL

\* What an operator assigned to a drone is never replaced by this console.
THEOREM AssignmentsStay == Spec => OneAssignmentPerDrone
<1> DEFINE Kept ==
      \A c \in Consoles, d \in Drones :
        assignmentWriter[c][d] # None =>
          /\ assignmentWriter'[c][d] = assignmentWriter[c][d]
          /\ pendingAssignments'[c][d] = assignmentWriter[c][d]
<1>1. ASSUME CInv, NEW x \in Consoles, NEW e \in Drones, NEW t \in Targets,
             Assign(x, e, t)
      PROVE  Kept
  <2>1. CASE UNCHANGED <<assignmentWriter, pendingAssignments>>
    BY <1>1, <2>1 DEF CInv, PendingIsWritten
  <2>2. CASE /\ AssignmentResult(x, e, t) = "assigned"
             /\ assignmentWriter' = [assignmentWriter EXCEPT ![x][e] = t]
             /\ pendingAssignments' = [pendingAssignments EXCEPT ![x][e] = t]
    <3>1. assignmentWriter[x][e] = None
      BY <1>1, <2>2, AssignmentIsGrounded DEF CInv, PendingIsWritten
    <3>2. ASSUME NEW c \in Consoles, NEW d \in Drones, assignmentWriter[c][d] # None
          PROVE  /\ assignmentWriter'[c][d] = assignmentWriter[c][d]
                 /\ pendingAssignments'[c][d] = pendingAssignments[c][d]
      BY <1>1, <2>2, <3>1, <3>2 DEF CInv, TypeOK
    <3> QED
      BY <1>1, <3>2 DEF CInv, PendingIsWritten
  <2> QED
    BY <1>1, <2>1, <2>2 DEF Assign, WriteFails, intents
<1>2. ASSUME CInv, [Next]_cvars, UNCHANGED <<assignmentWriter, pendingAssignments>>
      PROVE  Kept
  BY <1>2 DEF CInv, PendingIsWritten
<1>3. CInv /\ [Next]_cvars => [Kept]_cvars
  <2> SUFFICES ASSUME CInv, [Next]_cvars PROVE Kept
    OBVIOUS
  <2>1. ASSUME NEW c \in Consoles, NEW d \in Drones, StartInterception(c, d)
        PROVE  UNCHANGED <<assignmentWriter, pendingAssignments>>
    BY <2>1 DEF StartInterception, WriteFails, intents
  <2>2. ASSUME NEW c \in Consoles,
               \/ \E track \in TargetTracks : ReceiveTarget(c, track)
               \/ \E state \in DroneStates : ReceiveDrone(c, state)
               \/ \E event \in ExplosionEvents : ReceiveOutcome(c, event)
        PROVE  UNCHANGED <<assignmentWriter, pendingAssignments>>
    BY <2>2 DEF ReceiveTarget, ReceiveDrone, ReceiveOutcome, intents
  <2>3. CASE UNCHANGED cvars
    BY <2>3, <1>2 DEF cvars
  <2> QED
    BY <1>1, <1>2, <2>1, <2>2, <2>3 DEF Next
<1> QED
  BY <1>3, ConsoleInvariance, PTL DEF Spec, OneAssignmentPerDrone

\* Whatever arrives, a recorded outcome stays as it is.
THEOREM OutcomesStay == Spec => OutcomesImmutable
<1> DEFINE Kept == \A c \in Consoles, e \in EventIds :
                     outcomes[c][e] # None => outcomes'[c][e] = outcomes[c][e]
<1>1. ASSUME CInv, NEW x \in Consoles, NEW event \in ExplosionEvents,
             ReceiveOutcome(x, event)
      PROVE  Kept
  <2>1. CASE OutcomeUpdateResult(x, event) # "recorded"
    BY <1>1, <2>1 DEF ReceiveOutcome
  <2>2. CASE OutcomeUpdateResult(x, event) = "recorded"
    <3>1. outcomes[x][event.eventId] = None
      BY <2>2 DEF OutcomeUpdateResult
    <3>2. outcomes' = [outcomes EXCEPT ![x][event.eventId] = event]
      BY <1>1, <2>2 DEF ReceiveOutcome
    <3> QED
      BY <1>1, <3>1, <3>2 DEF CInv, TypeOK
  <2> QED
    BY <2>1, <2>2
<1>2. CInv /\ [Next]_cvars => [Kept]_cvars
  <2> SUFFICES ASSUME CInv, [Next]_cvars PROVE Kept
    OBVIOUS
  <2>1. ASSUME NEW c \in Consoles, NEW d \in Drones,
               \/ StartInterception(c, d)
               \/ \E t \in Targets : Assign(c, d, t)
        PROVE  UNCHANGED outcomes
    BY <2>1 DEF StartInterception, Assign, projections
  <2>2. ASSUME NEW c \in Consoles,
               \/ \E track \in TargetTracks : ReceiveTarget(c, track)
               \/ \E state \in DroneStates : ReceiveDrone(c, state)
        PROVE  UNCHANGED outcomes
    BY <2>2 DEF ReceiveTarget, ReceiveDrone
  <2>3. CASE UNCHANGED cvars
    BY <2>3 DEF cvars
  <2> QED
    BY <1>1, <2>1, <2>2, <2>3 DEF Next
<1> QED
  BY <1>2, ConsoleInvariance, PTL DEF Spec, OutcomesImmutable
-----------------------------------------------------------------------------
(* The consoles and what they have consumed.                               *)

\* What a console consumes is a sample of one of its three topics.
ReceivedOK == received \in [Consoles -> SUBSET (TargetTracks \cup DroneStates
                                                \cup ExplosionEvents)]

HInv ==
  CInv /\ ReceivedOK /\ ProjectionIsNewest /\ IntentsAreGrounded /\ OutcomesAreCorrelated

\* The three kinds of samples are different things.
LEMMA SampleKinds ==
  /\ \A s \in TargetTracks : s \notin DroneStates /\ s \notin ExplosionEvents
  /\ \A s \in DroneStates : s \notin TargetTracks /\ s \notin ExplosionEvents
  /\ \A s \in ExplosionEvents : s \notin TargetTracks /\ s \notin DroneStates
<1>1. \A s \in TargetTracks : "status" \notin DOMAIN s /\ "eventId" \notin DOMAIN s
  BY DEF TargetTracks
<1>2. \A s \in DroneStates : "status" \in DOMAIN s /\ "eventId" \notin DOMAIN s
  BY DEF DroneStates
<1>3. \A s \in ExplosionEvents : "status" \notin DOMAIN s /\ "eventId" \in DOMAIN s
  BY DEF ExplosionEvents
<1> QED
  BY <1>1, <1>2, <1>3

\* A consumed track is among the tracks of its target and changes nothing else.
LEMMA TrackConsumed ==
  ASSUME ReceivedOK, NEW c \in Consoles, NEW track \in TargetTracks, Consume(c, track)
  PROVE  /\ ReceivedOK'
         /\ \A x \in Consoles, t \in Targets :
              Tracks(x, t)' = IF x = c /\ t = track.targetId
                              THEN Tracks(x, t) \cup {track} ELSE Tracks(x, t)
         /\ \A x \in Consoles, d \in Drones : Reports(x, d)' = Reports(x, d)
         /\ \A x \in Consoles : received[x] \subseteq received'[x]
<1>1. /\ received' = [received EXCEPT ![c] = @ \cup {track}]
      /\ received \in [Consoles -> SUBSET (TargetTracks \cup DroneStates
                                            \cup ExplosionEvents)]
      /\ track \notin DroneStates
  BY SampleKinds DEF Consume, ReceivedOK
<1>2. \A x \in Consoles :
        received'[x] = IF x = c THEN received[x] \cup {track} ELSE received[x]
  BY <1>1
<1> QED
  BY <1>1, <1>2 DEF ReceivedOK, Tracks, Reports

\* A consumed report is among the reports of its drone and changes nothing else.
LEMMA ReportConsumed ==
  ASSUME ReceivedOK, NEW c \in Consoles, NEW state \in DroneStates, Consume(c, state)
  PROVE  /\ ReceivedOK'
         /\ \A x \in Consoles, t \in Targets : Tracks(x, t)' = Tracks(x, t)
         /\ \A x \in Consoles, d \in Drones :
              Reports(x, d)' = IF x = c /\ d = state.droneId
                               THEN Reports(x, d) \cup {state} ELSE Reports(x, d)
         /\ \A x \in Consoles : received[x] \subseteq received'[x]
<1>1. /\ received' = [received EXCEPT ![c] = @ \cup {state}]
      /\ received \in [Consoles -> SUBSET (TargetTracks \cup DroneStates
                                            \cup ExplosionEvents)]
      /\ state \notin TargetTracks
  BY SampleKinds DEF Consume, ReceivedOK
<1>2. \A x \in Consoles :
        received'[x] = IF x = c THEN received[x] \cup {state} ELSE received[x]
  BY <1>1
<1> QED
  BY <1>1, <1>2 DEF ReceivedOK, Tracks, Reports

\* A consumed event is neither a track nor a report.
LEMMA EventConsumed ==
  ASSUME ReceivedOK, NEW c \in Consoles, NEW event \in ExplosionEvents, Consume(c, event)
  PROVE  /\ ReceivedOK'
         /\ \A x \in Consoles, t \in Targets : Tracks(x, t)' = Tracks(x, t)
         /\ \A x \in Consoles, d \in Drones : Reports(x, d)' = Reports(x, d)
         /\ \A x \in Consoles : received[x] \subseteq received'[x]
         /\ event \in received'[c]
<1>1. /\ received' = [received EXCEPT ![c] = @ \cup {event}]
      /\ received \in [Consoles -> SUBSET (TargetTracks \cup DroneStates
                                            \cup ExplosionEvents)]
      /\ event \notin TargetTracks /\ event \notin DroneStates
  BY SampleKinds DEF Consume, ReceivedOK
<1>2. \A x \in Consoles :
        received'[x] = IF x = c THEN received[x] \cup {event} ELSE received[x]
  BY <1>1
<1> QED
  BY <1>1, <1>2 DEF ReceivedOK, Tracks, Reports

\* What a projection holds was consumed.
LEMMA BeliefsAreConsumed ==
  ASSUME ProjectionIsNewest, NEW c \in Consoles
  PROVE  /\ \A t \in Targets : targetTracks[c][t] # None =>
              targetTracks[c][t] \in Tracks(c, t)
         /\ \A d \in Drones : droneStates[c][d] # None =>
              droneStates[c][d] \in Reports(c, d)
  BY DEF ProjectionIsNewest

-----------------------------------------------------------------------------
(* The parts of ProjectionIsNewest, for one target and for one drone.      *)

NewestTrack(c, t) ==
  IF Tracks(c, t) = {} THEN targetTracks[c][t] = None
  ELSE /\ targetTracks[c][t] \in Tracks(c, t)
       /\ \A s \in Tracks(c, t) : s.measuredAt <= targetTracks[c][t].measuredAt

NewestReport(c, d) ==
  IF Reports(c, d) = {} THEN droneStates[c][d] = None
  ELSE /\ droneStates[c][d] \in Reports(c, d)
       /\ \A s \in Reports(c, d) : s.reportedAt <= droneStates[c][d].reportedAt

LEMMA NewestParts ==
  ProjectionIsNewest <=>
    \A c \in Consoles : /\ \A t \in Targets : NewestTrack(c, t)
                        /\ \A d \in Drones : NewestReport(c, d)
  BY DEF ProjectionIsNewest, NewestTrack, NewestReport

LEMMA TrackStaysNewest ==
  ASSUME HInv, NEW c \in Consoles, NEW track \in TargetTracks,
         ReceiveTarget(c, track), Consume(c, track),
         NEW x \in Consoles, NEW t \in Targets
  PROVE  NewestTrack(x, t)'
<1> DEFINE touched == x = c /\ t = track.targetId
           stored == TargetUpdateResult(c, track) \in {"added", "updated"}
<1>1. /\ NewestTrack(x, t) /\ TypeOK
      /\ track.targetId \in Targets /\ track.measuredAt \in Nat
  BY NewestParts, ConsoleAssumption DEF HInv, CInv, TargetTracks
<1>2. Tracks(x, t)' = IF touched THEN Tracks(x, t) \cup {track} ELSE Tracks(x, t)
  BY TrackConsumed DEF HInv
<1>3. targetTracks'[x][t] = IF touched /\ stored THEN track ELSE targetTracks[x][t]
  BY <1>1 DEF ReceiveTarget, TypeOK
<1>4. \A s \in Tracks(x, t) : s.measuredAt \in Nat
  BY ConsoleAssumption DEF Tracks, TargetTracks
<1>5. CASE ~touched
  BY <1>1, <1>2, <1>3, <1>5 DEF NewestTrack
<1>6. CASE touched /\ stored
  <2>1. \A s \in Tracks(x, t) : s.measuredAt <= track.measuredAt
    <3>1. CASE Tracks(x, t) = {}
      BY <3>1
    <3>2. CASE Tracks(x, t) # {}
      <4>1. /\ targetTracks[x][t] \in Tracks(x, t)
            /\ \A s \in Tracks(x, t) : s.measuredAt <= targetTracks[x][t].measuredAt
        BY <1>1, <3>2 DEF NewestTrack
      <4>2. targetTracks[x][t] # None
        BY <4>1, ConsoleNoneAssumption DEF Tracks
      <4>3. targetTracks[x][t].measuredAt < track.measuredAt
        BY <1>1, <1>6, <4>2, StoredTrackIsNewer
      <4> QED
        BY <1>1, <1>4, <4>1, <4>3
    <3> QED
      BY <3>1, <3>2
  <2> QED
    BY <1>1, <1>2, <1>3, <1>6, <2>1 DEF NewestTrack
<1>7. CASE touched /\ ~stored
  <2>1. /\ targetTracks[x][t] # None
        /\ track.measuredAt <= targetTracks[x][t].measuredAt
    BY <1>1, <1>7, DroppedTrackIsNotNewer
  <2>2. /\ targetTracks[x][t] \in Tracks(x, t)
        /\ \A s \in Tracks(x, t) : s.measuredAt <= targetTracks[x][t].measuredAt
    BY <1>1, <2>1 DEF NewestTrack
  <2> QED
    BY <1>2, <1>3, <1>7, <2>1, <2>2 DEF NewestTrack
<1> QED
  BY <1>5, <1>6, <1>7

LEMMA ReportStaysNewest ==
  ASSUME HInv, NEW c \in Consoles, NEW state \in DroneStates,
         ReceiveDrone(c, state), Consume(c, state),
         NEW x \in Consoles, NEW d \in Drones
  PROVE  NewestReport(x, d)'
<1> DEFINE touched == x = c /\ d = state.droneId
           stored == DroneUpdateResult(c, state) \in {"added", "updated"}
<1>1. /\ NewestReport(x, d) /\ TypeOK
      /\ state.droneId \in Drones /\ state.reportedAt \in Nat
  BY NewestParts, ConsoleAssumption DEF HInv, CInv, DroneStates
<1>2. Reports(x, d)' = IF touched THEN Reports(x, d) \cup {state} ELSE Reports(x, d)
  BY ReportConsumed DEF HInv
<1>3. droneStates'[x][d] = IF touched /\ stored THEN state ELSE droneStates[x][d]
  BY <1>1 DEF ReceiveDrone, TypeOK
<1>4. \A s \in Reports(x, d) : s.reportedAt \in Nat
  BY ConsoleAssumption DEF Reports, DroneStates
<1>5. CASE ~touched
  BY <1>1, <1>2, <1>3, <1>5 DEF NewestReport
<1>6. CASE touched /\ stored
  <2>1. \A s \in Reports(x, d) : s.reportedAt <= state.reportedAt
    <3>1. CASE Reports(x, d) = {}
      BY <3>1
    <3>2. CASE Reports(x, d) # {}
      <4>1. /\ droneStates[x][d] \in Reports(x, d)
            /\ \A s \in Reports(x, d) : s.reportedAt <= droneStates[x][d].reportedAt
        BY <1>1, <3>2 DEF NewestReport
      <4>2. droneStates[x][d] # None
        BY <4>1, ConsoleNoneAssumption DEF Reports
      <4>3. droneStates[x][d].reportedAt < state.reportedAt
        BY <1>1, <1>6, <4>2, StoredReportIsNewer
      <4> QED
        BY <1>1, <1>4, <4>1, <4>3
    <3> QED
      BY <3>1, <3>2
  <2> QED
    BY <1>1, <1>2, <1>3, <1>6, <2>1 DEF NewestReport
<1>7. CASE touched /\ ~stored
  <2>1. /\ droneStates[x][d] # None
        /\ state.reportedAt <= droneStates[x][d].reportedAt
    BY <1>1, <1>7, DroppedReportIsNotNewer
  <2>2. /\ droneStates[x][d] \in Reports(x, d)
        /\ \A s \in Reports(x, d) : s.reportedAt <= droneStates[x][d].reportedAt
    BY <1>1, <2>1 DEF NewestReport
  <2> QED
    BY <1>2, <1>3, <1>7, <2>1, <2>2 DEF NewestReport
<1> QED
  BY <1>5, <1>6, <1>7
-----------------------------------------------------------------------------
(* Evidence is never lost: more samples bear out what fewer did.           *)

EvidenceGrows ==
  \A x \in Consoles :
    /\ received[x] \subseteq received'[x]
    /\ \A t \in Targets : Tracks(x, t) \subseteq Tracks(x, t)'
    /\ \A d \in Drones : Reports(x, d) \subseteq Reports(x, d)'

\* The parts of IntentsAreGrounded and OutcomesAreCorrelated.
GroundedAssignment(c, d, t) ==
  assignmentWriter[c][d] = t =>
    /\ \E s \in Reports(c, d) : s.status = "available"
    /\ Tracks(c, t) # {}

GroundedCommand(c, m) ==
  m \in commandWriter[c] =>
    \E s \in Reports(c, m.droneId) :
      s.status = "assigned" /\ s.assignedTargetId = m.targetId

CorrelatedOutcome(c, e, event) ==
  outcomes[c][e] = event =>
    /\ event \in received[c] /\ event.eventId = e
    /\ Tracks(c, event.targetId) # {}
    /\ \E s \in Reports(c, event.droneId) : s.assignedTargetId = event.targetId

Grounded ==
  \A c \in Consoles :
    /\ \A d \in Drones, t \in Targets : GroundedAssignment(c, d, t)
    /\ \A m \in InterceptionCommands : GroundedCommand(c, m)

Correlated ==
  \A c \in Consoles, e \in EventIds, event \in ExplosionEvents :
    CorrelatedOutcome(c, e, event)

LEMMA GroundedParts == TypeOK => (IntentsAreGrounded <=> Grounded)
<1> SUFFICES ASSUME TypeOK PROVE IntentsAreGrounded <=> Grounded
  OBVIOUS
<1>1. \A c \in Consoles :
        /\ \A d \in Drones : assignmentWriter[c][d] # None <=>
                             assignmentWriter[c][d] \in Targets
        /\ \A m \in commandWriter[c] : m \in InterceptionCommands
  BY ConsoleNoneAssumption DEF TypeOK
<1> QED
  BY <1>1 DEF IntentsAreGrounded, Grounded, GroundedAssignment, GroundedCommand

LEMMA CorrelatedParts == TypeOK => (OutcomesAreCorrelated <=> Correlated)
<1> SUFFICES ASSUME TypeOK PROVE OutcomesAreCorrelated <=> Correlated
  OBVIOUS
<1>1. \A c \in Consoles, e \in EventIds : outcomes[c][e] # None <=>
                                          outcomes[c][e] \in ExplosionEvents
  BY ConsoleNoneAssumption DEF TypeOK
<1> QED
  BY <1>1 DEF OutcomesAreCorrelated, Correlated, CorrelatedOutcome

LEMMA PartsNext ==
  TypeOK' => /\ IntentsAreGrounded' <=> Grounded'
             /\ OutcomesAreCorrelated' <=> Correlated'
  BY GroundedParts, CorrelatedParts, PTL

LEMMA IntentsStayGrounded ==
  ASSUME HInv, CInv', EvidenceGrows, UNCHANGED <<assignmentWriter, commandWriter>>
  PROVE  IntentsAreGrounded'
<1>1. Grounded
  BY GroundedParts DEF HInv, CInv
<1>2. ASSUME NEW c \in Consoles, NEW d \in Drones, NEW t \in Targets
      PROVE  GroundedAssignment(c, d, t)'
  BY <1>1 DEF Grounded, GroundedAssignment, EvidenceGrows
<1>3. ASSUME NEW c \in Consoles, NEW m \in InterceptionCommands
      PROVE  GroundedCommand(c, m)'
  <2>1. m.droneId \in Drones
    BY DEF InterceptionCommands
  <2> QED
    BY <1>1, <2>1 DEF Grounded, GroundedCommand, EvidenceGrows
<1>4. Grounded'
  BY <1>2, <1>3 DEF Grounded
<1> QED
  BY <1>4, PartsNext DEF CInv

\* An outcome that was recorded before stays correlated.
LEMMA RecordedStaysCorrelated ==
  ASSUME HInv, EvidenceGrows,
         NEW c \in Consoles, NEW e \in EventIds, NEW event \in ExplosionEvents,
         outcomes'[c][e] = outcomes[c][e]
  PROVE  CorrelatedOutcome(c, e, event)'
<1>1. Correlated
  BY CorrelatedParts DEF HInv, CInv
<1>2. event.droneId \in Drones /\ event.targetId \in Targets
  BY DEF ExplosionEvents
<1>3. /\ received[c] \subseteq received'[c]
      /\ Tracks(c, event.targetId) \subseteq Tracks(c, event.targetId)'
      /\ Reports(c, event.droneId) \subseteq Reports(c, event.droneId)'
  BY <1>2 DEF EvidenceGrows
<1>4. CorrelatedOutcome(c, e, event)
  BY <1>1 DEF Correlated
<1> QED
  BY <1>3, <1>4 DEF CorrelatedOutcome

LEMMA OutcomesStayCorrelated ==
  ASSUME HInv, CInv', EvidenceGrows, UNCHANGED outcomes
  PROVE  OutcomesAreCorrelated'
<1>1. Correlated'
  BY RecordedStaysCorrelated DEF Correlated
<1> QED
  BY <1>1, PartsNext DEF CInv

\* A console that acts consumes nothing, and believes what it believed.
LEMMA ActingKeepsBeliefs ==
  ASSUME HInv, CInv', UNCHANGED <<projections, received>>
  PROVE  /\ ReceivedOK' /\ ProjectionIsNewest' /\ OutcomesAreCorrelated'
         /\ EvidenceGrows
<1>1. EvidenceGrows
  BY DEF EvidenceGrows, Tracks, Reports
<1>2. ReceivedOK' /\ ProjectionIsNewest'
  BY DEF HInv, ReceivedOK, ProjectionIsNewest, Tracks, Reports, projections
<1>3. OutcomesAreCorrelated'
  BY <1>1, OutcomesStayCorrelated DEF projections
<1> QED
  BY <1>1, <1>2, <1>3

-----------------------------------------------------------------------------
(* One lemma per operation.                                                *)

LEMMA InitHInv == HInit => HInv
<1> SUFFICES ASSUME HInit PROVE HInv
  OBVIOUS
<1>1. CInv
  BY InitCInv DEF HInit
<1>2. \A c \in Consoles : received[c] = {}
  BY DEF HInit
<1>3. ReceivedOK
  BY DEF HInit, ReceivedOK
<1>4. ProjectionIsNewest
  BY <1>2 DEF HInit, Init, ProjectionIsNewest, Tracks, Reports
<1>5. IntentsAreGrounded
  BY DEF HInit, Init, IntentsAreGrounded
<1>6. OutcomesAreCorrelated
  BY DEF HInit, Init, OutcomesAreCorrelated
<1> QED
  BY <1>1, <1>3, <1>4, <1>5, <1>6 DEF HInv

LEMMA TargetStep ==
  ASSUME HInv, NEW c \in Consoles, NEW track \in TargetTracks,
         ReceiveTarget(c, track), Consume(c, track)
  PROVE  HInv'
<1>1. CInv'
  BY ReceiveTargetKeeps DEF HInv
<1>2. /\ ReceivedOK'
      /\ \A x \in Consoles, d \in Drones : Reports(x, d)' = Reports(x, d)
  BY TrackConsumed DEF HInv
<1>3. EvidenceGrows
  BY TrackConsumed DEF HInv, EvidenceGrows
<1>4. \A x \in Consoles, d \in Drones : NewestReport(x, d)'
  <2> SUFFICES ASSUME NEW x \in Consoles, NEW d \in Drones
               PROVE  NewestReport(x, d)'
    OBVIOUS
  <2>1. NewestReport(x, d) /\ droneStates' = droneStates
    BY NewestParts DEF HInv, ReceiveTarget
  <2> QED
    BY <1>2, <2>1 DEF NewestReport
<1>5. ProjectionIsNewest'
  <2>1. \A x \in Consoles, t \in Targets : NewestTrack(x, t)'
    BY TrackStaysNewest
  <2> QED
    BY <1>4, <2>1 DEF ProjectionIsNewest, NewestTrack, NewestReport
<1>6. IntentsAreGrounded' /\ OutcomesAreCorrelated'
  BY <1>1, <1>3, IntentsStayGrounded, OutcomesStayCorrelated DEF ReceiveTarget, intents
<1> QED
  BY <1>1, <1>2, <1>5, <1>6 DEF HInv

LEMMA DroneStep ==
  ASSUME HInv, NEW c \in Consoles, NEW state \in DroneStates,
         ReceiveDrone(c, state), Consume(c, state)
  PROVE  HInv'
<1>1. CInv'
  BY ReceiveDroneKeeps DEF HInv
<1>2. /\ ReceivedOK'
      /\ \A x \in Consoles, t \in Targets : Tracks(x, t)' = Tracks(x, t)
  BY ReportConsumed DEF HInv
<1>3. EvidenceGrows
  BY ReportConsumed DEF HInv, EvidenceGrows
<1>4. \A x \in Consoles, t \in Targets : NewestTrack(x, t)'
  <2> SUFFICES ASSUME NEW x \in Consoles, NEW t \in Targets
               PROVE  NewestTrack(x, t)'
    OBVIOUS
  <2>1. NewestTrack(x, t) /\ targetTracks' = targetTracks
    BY NewestParts DEF HInv, ReceiveDrone
  <2> QED
    BY <1>2, <2>1 DEF NewestTrack
<1>5. ProjectionIsNewest'
  <2>1. \A x \in Consoles, d \in Drones : NewestReport(x, d)'
    BY ReportStaysNewest
  <2> QED
    BY <1>4, <2>1 DEF ProjectionIsNewest, NewestTrack, NewestReport
<1>6. IntentsAreGrounded' /\ OutcomesAreCorrelated'
  BY <1>1, <1>3, IntentsStayGrounded, OutcomesStayCorrelated DEF ReceiveDrone, intents
<1> QED
  BY <1>1, <1>2, <1>5, <1>6 DEF HInv

LEMMA OutcomeStep ==
  ASSUME HInv, NEW c \in Consoles, NEW event \in ExplosionEvents,
         ReceiveOutcome(c, event), Consume(c, event)
  PROVE  HInv'
<1>1. CInv'
  BY ReceiveOutcomeKeeps DEF HInv
<1>2. /\ ReceivedOK' /\ event \in received'[c]
      /\ \A x \in Consoles, t \in Targets : Tracks(x, t)' = Tracks(x, t)
      /\ \A x \in Consoles, d \in Drones : Reports(x, d)' = Reports(x, d)
      /\ \A x \in Consoles : received[x] \subseteq received'[x]
  BY EventConsumed DEF HInv
<1>3. EvidenceGrows
  BY <1>2 DEF EvidenceGrows
<1>4. ProjectionIsNewest'
  BY <1>2 DEF HInv, ReceiveOutcome, ProjectionIsNewest
<1>5. IntentsAreGrounded'
  BY <1>1, <1>3, IntentsStayGrounded DEF ReceiveOutcome, intents
<1>6. CASE OutcomeUpdateResult(c, event) # "recorded"
  <2>1. OutcomesAreCorrelated'
    BY <1>1, <1>3, <1>6, OutcomesStayCorrelated DEF ReceiveOutcome
  <2> QED
    BY <1>1, <1>2, <1>4, <1>5, <2>1 DEF HInv
<1>7. CASE OutcomeUpdateResult(c, event) = "recorded"
  <2>1. /\ targetTracks[c][event.targetId] # None
        /\ droneStates[c][event.droneId] # None
        /\ droneStates[c][event.droneId].assignedTargetId = event.targetId
    BY <1>7 DEF OutcomeUpdateResult
  <2>2. /\ event.eventId \in EventIds
        /\ event.targetId \in Targets /\ event.droneId \in Drones
    BY DEF ExplosionEvents
  <2>3. /\ targetTracks[c][event.targetId] \in Tracks(c, event.targetId)
        /\ droneStates[c][event.droneId] \in Reports(c, event.droneId)
    BY <2>1, <2>2, BeliefsAreConsumed DEF HInv
  <2>4. /\ Tracks(c, event.targetId)' # {}
        /\ \E s \in Reports(c, event.droneId)' : s.assignedTargetId = event.targetId
    BY <1>2, <2>1, <2>2, <2>3
  <2>5. outcomes' = [outcomes EXCEPT ![c][event.eventId] = event]
    BY <1>7 DEF ReceiveOutcome
  <2>6. ASSUME NEW x \in Consoles, NEW e \in EventIds, NEW other \in ExplosionEvents
        PROVE  CorrelatedOutcome(x, e, other)'
    <3>1. CASE x = c /\ e = event.eventId
      <4>1. outcomes'[x][e] = event
        BY <2>2, <2>5, <3>1 DEF HInv, CInv, TypeOK
      <4> QED
        BY <1>2, <2>4, <3>1, <4>1 DEF CorrelatedOutcome
    <3>2. CASE ~(x = c /\ e = event.eventId)
      <4>1. outcomes'[x][e] = outcomes[x][e]
        BY <2>2, <2>5, <3>2 DEF HInv, CInv, TypeOK
      <4> QED
        BY <1>3, <4>1, RecordedStaysCorrelated
    <3> QED
      BY <3>1, <3>2
  <2>7. OutcomesAreCorrelated'
    <3>1. Correlated'
      BY <2>6 DEF Correlated
    <3> QED
      BY <1>1, <3>1, PartsNext DEF CInv
  <2> QED
    BY <1>1, <1>2, <1>4, <1>5, <2>7 DEF HInv
<1> QED
  BY <1>6, <1>7

LEMMA AssignStep ==
  ASSUME HInv, NEW c \in Consoles, NEW d \in Drones, NEW t \in Targets,
         Assign(c, d, t), UNCHANGED received
  PROVE  HInv'
<1>1. CInv'
  BY AssignKeeps DEF HInv
<1>2. /\ ReceivedOK' /\ ProjectionIsNewest' /\ OutcomesAreCorrelated'
      /\ EvidenceGrows
  BY <1>1, ActingKeepsBeliefs DEF Assign
<1>3. CASE UNCHANGED <<assignmentWriter, commandWriter>>
  BY <1>1, <1>2, <1>3, IntentsStayGrounded DEF HInv
<1>4. CASE /\ AssignmentResult(c, d, t) = "assigned"
           /\ assignmentWriter' = [assignmentWriter EXCEPT ![c][d] = t]
           /\ UNCHANGED commandWriter
  <2>1. \A x \in Consoles :
          /\ \A e \in Drones : Reports(x, e)' = Reports(x, e)
          /\ \A u \in Targets : Tracks(x, u)' = Tracks(x, u)
    BY DEF Reports, Tracks
  <2>2. /\ \E s \in Reports(c, d)' : s.status = "available"
        /\ Tracks(c, t)' # {}
    BY <1>4, <2>1, AssignmentIsGrounded, BeliefsAreConsumed DEF HInv
  <2>3. Grounded
    BY GroundedParts DEF HInv, CInv
  <2>4. ASSUME NEW x \in Consoles, NEW e \in Drones, NEW u \in Targets
        PROVE  GroundedAssignment(x, e, u)'
    <3>1. CASE x = c /\ e = d
      <4>1. assignmentWriter'[x][e] = t
        BY <1>4, <3>1 DEF HInv, CInv, TypeOK
      <4> QED
        BY <2>2, <3>1, <4>1 DEF GroundedAssignment
    <3>2. CASE ~(x = c /\ e = d)
      <4>1. assignmentWriter'[x][e] = assignmentWriter[x][e]
        BY <1>4, <3>2 DEF HInv, CInv, TypeOK
      <4> QED
        BY <2>1, <2>3, <4>1 DEF Grounded, GroundedAssignment
    <3> QED
      BY <3>1, <3>2
  <2>5. ASSUME NEW x \in Consoles, NEW m \in InterceptionCommands
        PROVE  GroundedCommand(x, m)'
    <3>1. m.droneId \in Drones
      BY DEF InterceptionCommands
    <3> QED
      BY <1>4, <2>1, <2>3, <3>1 DEF Grounded, GroundedCommand
  <2>6. Grounded'
    BY <2>4, <2>5 DEF Grounded
  <2> QED
    BY <1>1, <1>2, <2>6, PartsNext DEF HInv, CInv
<1> QED
  BY <1>3, <1>4 DEF Assign, WriteFails, intents

LEMMA StartStep ==
  ASSUME HInv, NEW c \in Consoles, NEW d \in Drones,
         StartInterception(c, d), UNCHANGED received
  PROVE  HInv'
<1>1. CInv'
  BY StartKeeps DEF HInv
<1>2. /\ ReceivedOK' /\ ProjectionIsNewest' /\ OutcomesAreCorrelated'
      /\ EvidenceGrows
  BY <1>1, ActingKeepsBeliefs DEF StartInterception
<1>3. CASE UNCHANGED <<assignmentWriter, commandWriter>>
  BY <1>1, <1>2, <1>3, IntentsStayGrounded DEF HInv
<1>4. CASE StartResult(c, d) = "started" /\ StartWrites(c, d)
  <2> DEFINE command == [commandId |-> nextCommandId[c], droneId |-> d,
                         targetId |-> droneStates[c][d].assignedTargetId]
  <2>1. \A x \in Consoles :
          /\ \A e \in Drones : Reports(x, e)' = Reports(x, e)
          /\ \A u \in Targets : Tracks(x, u)' = Tracks(x, u)
    BY DEF Reports, Tracks
  <2>2. /\ command.droneId = d
        /\ \E s \in Reports(c, d) :
             s.status = "assigned" /\ s.assignedTargetId = command.targetId
    <3>1. droneStates[c][d] # None /\ droneStates[c][d].status = "assigned"
      BY <1>4 DEF StartResult
    <3>2. droneStates[c][d] \in Reports(c, d)
      BY <3>1, BeliefsAreConsumed DEF HInv
    <3> QED
      BY <3>1, <3>2
  <2>3. \A x \in Consoles :
          commandWriter'[x] = IF x = c THEN commandWriter[c] \cup {command}
                              ELSE commandWriter[x]
    BY <1>4 DEF StartWrites, HInv, CInv, TypeOK
  <2> HIDE DEF command
  <2>4. Grounded
    BY GroundedParts DEF HInv, CInv
  <2>5. ASSUME NEW x \in Consoles, NEW m \in InterceptionCommands
        PROVE  GroundedCommand(x, m)'
    <3>1. m.droneId \in Drones
      BY DEF InterceptionCommands
    <3>2. CASE x = c /\ m = command
      BY <2>1, <2>2, <3>2 DEF GroundedCommand
    <3>3. CASE ~(x = c /\ m = command)
      BY <2>1, <2>3, <2>4, <3>1, <3>3 DEF Grounded, GroundedCommand
    <3> QED
      BY <3>2, <3>3
  <2>6. ASSUME NEW x \in Consoles, NEW e \in Drones, NEW u \in Targets
        PROVE  GroundedAssignment(x, e, u)'
    BY <1>4, <2>1, <2>4 DEF StartWrites, Grounded, GroundedAssignment
  <2>7. Grounded'
    BY <2>5, <2>6 DEF Grounded
  <2> QED
    BY <1>1, <1>2, <2>7, PartsNext DEF HInv, CInv
<1> QED
  BY <1>3, <1>4 DEF StartInterception, StartWrites, WriteFails, intents

LEMMA HInvInductive == HInv /\ [HNext]_hvars => HInv'
<1> SUFFICES ASSUME HInv, [HNext]_hvars PROVE HInv'
  OBVIOUS
<1>1. ASSUME NEW c \in Consoles, NEW track \in TargetTracks,
             ReceiveTarget(c, track), Consume(c, track)
      PROVE  HInv'
  BY <1>1, TargetStep
<1>2. ASSUME NEW c \in Consoles, NEW state \in DroneStates,
             ReceiveDrone(c, state), Consume(c, state)
      PROVE  HInv'
  BY <1>2, DroneStep
<1>3. ASSUME NEW c \in Consoles, NEW event \in ExplosionEvents,
             ReceiveOutcome(c, event), Consume(c, event)
      PROVE  HInv'
  BY <1>3, OutcomeStep
<1>4. ASSUME NEW c \in Consoles, NEW d \in Drones, NEW t \in Targets,
             Assign(c, d, t), UNCHANGED received
      PROVE  HInv'
  BY <1>4, AssignStep
<1>5. ASSUME NEW c \in Consoles, NEW d \in Drones,
             StartInterception(c, d), UNCHANGED received
      PROVE  HInv'
  BY <1>5, StartStep
<1>6. CASE UNCHANGED hvars
  <2>1. CInv'
    BY <1>6, CInvInductive DEF hvars, HInv
  <2>2. /\ ReceivedOK' /\ ProjectionIsNewest' /\ OutcomesAreCorrelated'
        /\ EvidenceGrows
    BY <1>6, <2>1, ActingKeepsBeliefs DEF hvars, cvars, projections
  <2>3. IntentsAreGrounded'
    BY <1>6, <2>1, <2>2, IntentsStayGrounded DEF hvars, cvars
  <2> QED
    BY <2>1, <2>2, <2>3 DEF HInv
<1> QED
  BY <1>1, <1>2, <1>3, <1>4, <1>5, <1>6 DEF HNext

\* The invariant of the consoles and what they consumed holds at every moment.
THEOREM HistoryInvariance == HSpec => []HInv
  BY InitHInv, HInvInductive, PTL DEF HSpec

-----------------------------------------------------------------------------
(* Theorems about the consoles and their history.                          *)

\* In whatever order samples come, a projection holds the newest of those
\* consumed.
THEOREM ProjectionsAreNewest == HSpec => []ProjectionIsNewest
<1>1. HInv => ProjectionIsNewest
  BY DEF HInv
<1> QED
  BY <1>1, HistoryInvariance, PTL

\* No assignment and no command is published without the reports that allow it.
THEOREM IntentsRestOnEvidence == HSpec => []IntentsAreGrounded
<1>1. HInv => IntentsAreGrounded
  BY DEF HInv
<1> QED
  BY <1>1, HistoryInvariance, PTL

\* A recorded outcome belongs to a drone that was seen assigned to its target.
THEOREM OutcomesBelong == HSpec => []OutcomesAreCorrelated
<1>1. HInv => OutcomesAreCorrelated
  BY DEF HInv
<1> QED
  BY <1>1, HistoryInvariance, PTL

-----------------------------------------------------------------------------
(* The terminal: what is printed and what is answered.                     *)

\* The last snapshot of every console is the one of this moment.
ScreenShows == screen = [c \in Consoles |-> Snapshot(c)]

Results == {"unknownDrone", "duplicate", "droneNotAssigned", "overflow", "started"}

\* A drone was answered "started" exactly when it is pending, and
\* "duplicate" only then.
ToldOK ==
  /\ told \in [Consoles -> SUBSET (Drones \X Results)]
  /\ \A c \in Consoles, d \in Drones :
       /\ <<d, "started">> \in told[c] <=> d \in pendingStarts[c]
       /\ <<d, "duplicate">> \in told[c] => d \in pendingStarts[c]

TInv == CInv /\ ScreenShows /\ ToldOK

\* A snapshot shows nothing but the projections of its console.
LEMMA OtherSnapshotsStay ==
  ASSUME NEW c \in Consoles,
         /\ targetTracks'[c] = targetTracks[c]
         /\ droneStates'[c] = droneStates[c]
         /\ outcomes'[c] = outcomes[c]
  PROVE  Snapshot(c)' = Snapshot(c)
BY DEF Snapshot

LEMMA RenderKeeps ==
  ASSUME ScreenShows, NEW c \in Consoles, Render(c),
         \A d \in Consoles \ {c} :
           /\ targetTracks'[d] = targetTracks[d]
           /\ droneStates'[d] = droneStates[d]
           /\ outcomes'[d] = outcomes[d]
  PROVE  ScreenShows'
<1>1. screen' = [screen EXCEPT ![c] = Snapshot(c)']
  BY DEF Render
<1>2. \A d \in Consoles \ {c} : Snapshot(d)' = Snapshot(d)
  BY OtherSnapshotsStay
<1>3. \A d \in Consoles : screen'[d] = Snapshot(d)'
  BY <1>1, <1>2 DEF ScreenShows
<1> QED
  BY <1>1, <1>3 DEF ScreenShows

LEMMA InitTInv == TerminalInit => TInv
<1> SUFFICES ASSUME TerminalInit PROVE TInv
  OBVIOUS
<1>1. CInv
  BY InitCInv DEF TerminalInit
<1>2. ScreenShows
  BY DEF TerminalInit, ScreenShows
<1>3. ToldOK
  BY DEF TerminalInit, ToldOK, Init
<1> QED
  BY <1>1, <1>2, <1>3 DEF TInv

\* A sample reaches one projection of one console, which prints it.
LEMMA ShowKeeps ==
  ASSUME TInv, NEW c \in Consoles, Render(c), UNCHANGED told,
         CInv', UNCHANGED intents,
         \A d \in Consoles \ {c} :
           /\ targetTracks'[d] = targetTracks[d]
           /\ droneStates'[d] = droneStates[d]
           /\ outcomes'[d] = outcomes[d]
  PROVE  TInv'
<1>1. ScreenShows'
  BY RenderKeeps DEF TInv
<1>2. ToldOK'
  BY DEF TInv, ToldOK, intents
<1> QED
  BY <1>1, <1>2 DEF TInv

LEMMA ShowTargetKeeps ==
  ASSUME TInv, NEW c \in Consoles, NEW track \in TargetTracks, ShowTarget(c, track)
  PROVE  TInv'
<1>1. CInv'
  BY ReceiveTargetKeeps DEF TInv, ShowTarget
<1>2. \A d \in Consoles \ {c} :
        /\ targetTracks'[d] = targetTracks[d]
        /\ droneStates'[d] = droneStates[d]
        /\ outcomes'[d] = outcomes[d]
  BY DEF TInv, CInv, TypeOK, ShowTarget, ReceiveTarget
<1>3. UNCHANGED intents /\ Render(c) /\ UNCHANGED told
  BY DEF ShowTarget, ReceiveTarget
<1> QED
  BY <1>1, <1>2, <1>3, ShowKeeps

LEMMA ShowDroneKeeps ==
  ASSUME TInv, NEW c \in Consoles, NEW state \in DroneStates, ShowDrone(c, state)
  PROVE  TInv'
<1>1. CInv'
  BY ReceiveDroneKeeps DEF TInv, ShowDrone
<1>2. \A d \in Consoles \ {c} :
        /\ targetTracks'[d] = targetTracks[d]
        /\ droneStates'[d] = droneStates[d]
        /\ outcomes'[d] = outcomes[d]
  BY DEF TInv, CInv, TypeOK, ShowDrone, ReceiveDrone
<1>3. UNCHANGED intents /\ Render(c) /\ UNCHANGED told
  BY DEF ShowDrone, ReceiveDrone
<1> QED
  BY <1>1, <1>2, <1>3, ShowKeeps

LEMMA ShowOutcomeKeeps ==
  ASSUME TInv, NEW c \in Consoles, NEW event \in ExplosionEvents,
         ShowOutcome(c, event)
  PROVE  TInv'
<1>1. CInv'
  BY ReceiveOutcomeKeeps DEF TInv, ShowOutcome
<1>2. \A d \in Consoles \ {c} :
        /\ targetTracks'[d] = targetTracks[d]
        /\ droneStates'[d] = droneStates[d]
        /\ outcomes'[d] = outcomes[d]
  BY DEF TInv, CInv, TypeOK, ShowOutcome, ReceiveOutcome
<1>3. UNCHANGED intents /\ Render(c) /\ UNCHANGED told
  BY DEF ShowOutcome, ReceiveOutcome
<1> QED
  BY <1>1, <1>2, <1>3, ShowKeeps

\* What changes no projection changes nothing that is printed.
LEMMA UnseenKeeps ==
  ASSUME ScreenShows, UNCHANGED <<projections, screen>>
  PROVE  ScreenShows'
<1>1. \A d \in Consoles : Snapshot(d)' = Snapshot(d)
  BY OtherSnapshotsStay DEF projections
<1> QED
  BY <1>1 DEF ScreenShows

LEMMA AssignUnseenKeeps ==
  ASSUME TInv, NEW c \in Consoles, NEW d \in Drones, NEW t \in Targets,
         AssignUnseen(c, d, t)
  PROVE  TInv'
<1>1. CInv'
  BY AssignKeeps DEF TInv, AssignUnseen
<1>2. ScreenShows'
  BY UnseenKeeps DEF TInv, AssignUnseen, Assign
<1>3. UNCHANGED <<pendingStarts, told>>
  BY DEF AssignUnseen, Assign, WriteFails, intents
<1>4. ToldOK'
  BY <1>3 DEF TInv, ToldOK
<1> QED
  BY <1>1, <1>2, <1>4 DEF TInv

\* An answer is given only when the process goes on: it says "started" when
\* the command was written and something else when nothing was.
LEMMA AnswersFollowStarts ==
  ASSUME TInv, NEW c \in Consoles, NEW d \in Drones, StartInterception(c, d),
         told' = IF consoleExit'[c] # "none" THEN told
                 ELSE [told EXCEPT ![c] = @ \cup {<<d, StartResult(c, d)>>}]
  PROVE  ToldOK'
<1>1. /\ told \in [Consoles -> SUBSET (Drones \X Results)]
      /\ pendingStarts \in [Consoles -> SUBSET Drones]
      /\ consoleExit \in [Consoles -> {"none", "writeFailed", "overflow"}]
      /\ \A x \in Consoles, e \in Drones :
           /\ <<e, "started">> \in told[x] <=> e \in pendingStarts[x]
           /\ <<e, "duplicate">> \in told[x] => e \in pendingStarts[x]
  BY DEF TInv, CInv, TypeOK, ToldOK
<1>2. StartResult(c, d) \in Results
  BY DEF StartResult, Results
<1>3. StartResult(c, d) = "duplicate" => d \in pendingStarts[c]
  BY DEF StartResult
<1>4. CASE consoleExit'[c] # "none"
  <2>1. UNCHANGED <<told, pendingStarts>>
    BY <1>4 DEF StartInterception, WriteFails, Running, intents
  <2> QED
    BY <2>1, <1>1 DEF ToldOK
<1>5. CASE consoleExit'[c] = "none"
  <2>1. told' = [told EXCEPT ![c] = @ \cup {<<d, StartResult(c, d)>>}]
    BY <1>5
  <2>2. told' \in [Consoles -> SUBSET (Drones \X Results)]
    BY <2>1, <1>1, <1>2
  <2>3. \A x \in Consoles \ {c} : told'[x] = told[x]
    BY <2>1, <1>1
  <2>4. told'[c] = told[c] \cup {<<d, StartResult(c, d)>>}
    BY <2>1, <1>1
  <2>5. \A e \in Drones, r \in Results :
          <<e, r>> \in told'[c] <=>
            <<e, r>> \in told[c] \/ (e = d /\ r = StartResult(c, d))
    BY <2>4
  <2>6. CASE StartResult(c, d) = "started"
    <3>1. ~WriteFails(c)
      BY <1>1, <1>5 DEF WriteFails
    <3>2. pendingStarts' = [pendingStarts EXCEPT ![c] = @ \cup {d}]
      BY <2>6, <3>1 DEF StartInterception
    <3>3. /\ pendingStarts'[c] = pendingStarts[c] \cup {d}
          /\ \A x \in Consoles \ {c} : pendingStarts'[x] = pendingStarts[x]
      BY <3>2, <1>1
    <3>4. \A e \in Drones :
            /\ <<e, "started">> \in told'[c] <=> e \in pendingStarts'[c]
            /\ <<e, "duplicate">> \in told'[c] => e \in pendingStarts'[c]
      BY <2>5, <2>6, <3>3, <1>1 DEF Results
    <3> QED
      BY <2>2, <2>3, <3>3, <3>4, <1>1 DEF ToldOK
  <2>7. CASE StartResult(c, d) # "started"
    <3>1. pendingStarts' = pendingStarts
      BY <2>7 DEF StartInterception, intents
    <3>2. \A e \in Drones :
            /\ <<e, "started">> \in told'[c] <=> e \in pendingStarts'[c]
            /\ <<e, "duplicate">> \in told'[c] => e \in pendingStarts'[c]
      BY <2>5, <2>7, <3>1, <1>1, <1>3 DEF Results
    <3> QED
      BY <2>2, <2>3, <3>1, <3>2, <1>1 DEF ToldOK
  <2> QED
    BY <2>6, <2>7
<1> QED
  BY <1>4, <1>5

LEMMA ExecuteKeeps ==
  ASSUME TInv, NEW c \in Consoles, NEW starts \in BOOLEAN, NEW number \in Numbers,
         Execute(c, starts, number)
  PROVE  TInv'
<1> DEFINE d == ParseStartAction(starts, number)
<1>1. UNCHANGED screen
  BY DEF Execute
<1>2. CASE d = None /\ UNCHANGED <<cvars, told>>
  <2>1. CInv'
    BY <1>2, CInvInductive DEF TInv
  <2>2. ScreenShows'
    BY <1>1, <1>2, UnseenKeeps DEF TInv, cvars, projections
  <2>3. ToldOK'
    BY <1>2 DEF TInv, ToldOK, cvars
  <2> QED
    BY <2>1, <2>2, <2>3 DEF TInv
<1>3. CASE /\ d # None
           /\ StartInterception(c, d)
           /\ told' = IF consoleExit'[c] # "none" THEN told
                      ELSE [told EXCEPT ![c] = @ \cup {<<d, StartResult(c, d)>>}]
  <2>1. d \in Drones
    BY <1>3, TerminalAssumption DEF ParseStartAction
  <2> HIDE DEF d
  <2>2. CInv'
    BY <1>3, <2>1, StartKeeps DEF TInv
  <2>3. ScreenShows'
    BY <1>1, <1>3, UnseenKeeps DEF TInv, StartInterception
  <2>4. ToldOK'
    BY <1>3, <2>1, AnswersFollowStarts
  <2> QED
    BY <2>2, <2>3, <2>4 DEF TInv
<1> QED
  BY <1>2, <1>3 DEF Execute, ToTerminalResult

LEMMA TInvInductive == TInv /\ [TerminalNext]_tvars => TInv'
<1> SUFFICES ASSUME TInv, [TerminalNext]_tvars PROVE TInv'
  OBVIOUS
<1>1. ASSUME NEW c \in Consoles, NEW track \in TargetTracks, ShowTarget(c, track)
      PROVE  TInv'
  BY <1>1, ShowTargetKeeps
<1>2. ASSUME NEW c \in Consoles, NEW state \in DroneStates, ShowDrone(c, state)
      PROVE  TInv'
  BY <1>2, ShowDroneKeeps
<1>3. ASSUME NEW c \in Consoles, NEW event \in ExplosionEvents, ShowOutcome(c, event)
      PROVE  TInv'
  BY <1>3, ShowOutcomeKeeps
<1>4. ASSUME NEW c \in Consoles, NEW starts \in BOOLEAN, NEW number \in Numbers,
             Execute(c, starts, number)
      PROVE  TInv'
  BY <1>4, ExecuteKeeps
<1>5. ASSUME NEW c \in Consoles, NEW d \in Drones, NEW t \in Targets,
             AssignUnseen(c, d, t)
      PROVE  TInv'
  BY <1>5, AssignUnseenKeeps
<1>6. CASE UNCHANGED tvars
  <2>1. CInv'
    BY <1>6, CInvInductive DEF TInv, tvars
  <2>2. ScreenShows'
    BY <1>6, UnseenKeeps DEF TInv, tvars, cvars, projections
  <2>3. ToldOK'
    BY <1>6 DEF TInv, ToldOK, tvars, cvars
  <2> QED
    BY <2>1, <2>2, <2>3 DEF TInv
<1> QED
  BY <1>1, <1>2, <1>3, <1>4, <1>5, <1>6 DEF TerminalNext

\* The invariant of the terminal holds at every moment.
THEOREM TerminalInvariance == TerminalSpec => []TInv
  BY InitTInv, TInvInductive, PTL DEF TerminalSpec

\* No projection gives up an entry; a track or a report gives way to a newer one.
Advance ==
  \A c \in Consoles :
    /\ \A t \in Targets : targetTracks[c][t] # None =>
         \/ targetTracks'[c][t] = targetTracks[c][t]
         \/ /\ targetTracks'[c][t] # None
            /\ targetTracks'[c][t].measuredAt > targetTracks[c][t].measuredAt
    /\ \A d \in Drones : droneStates[c][d] # None =>
         \/ droneStates'[c][d] = droneStates[c][d]
         \/ /\ droneStates'[c][d] # None
            /\ droneStates'[c][d].reportedAt > droneStates[c][d].reportedAt
    /\ \A e \in EventIds : outcomes[c][e] # None => outcomes'[c][e] = outcomes[c][e]

LEMMA TracksAdvance ==
  ASSUME TypeOK, NEW x \in Consoles, NEW track \in TargetTracks, ReceiveTarget(x, track)
  PROVE  Advance
<1>1. UNCHANGED <<droneStates, outcomes>>
  BY DEF ReceiveTarget
<1>2. CASE TargetUpdateResult(x, track) \notin {"added", "updated"}
  BY <1>1, <1>2 DEF ReceiveTarget, Advance
<1>3. CASE TargetUpdateResult(x, track) \in {"added", "updated"}
  <2>1. targetTracks' = [targetTracks EXCEPT ![x][track.targetId] = track]
    BY <1>3 DEF ReceiveTarget
  <2>2. track # None /\ track.targetId \in Targets /\ track.measuredAt \in Nat
    BY ConsoleNoneAssumption, ConsoleAssumption DEF TargetTracks
  <2>3. ASSUME NEW c \in Consoles, NEW t \in Targets, targetTracks[c][t] # None
        PROVE  \/ targetTracks'[c][t] = targetTracks[c][t]
               \/ /\ targetTracks'[c][t] # None
                  /\ targetTracks'[c][t].measuredAt > targetTracks[c][t].measuredAt
    <3>1. CASE c = x /\ t = track.targetId
      <4>1. targetTracks'[c][t] = track
        BY <2>1, <3>1 DEF TypeOK
      <4>2. targetTracks[c][t].measuredAt < track.measuredAt
        BY <1>3, <2>3, <3>1, StoredTrackIsNewer
      <4>3. targetTracks[c][t] \in TargetTracks
        BY <2>3 DEF TypeOK
      <4>4. targetTracks[c][t].measuredAt \in Nat
        BY <4>3, ConsoleAssumption DEF TargetTracks
      <4> QED
        BY <2>2, <4>1, <4>2, <4>4
    <3>2. CASE ~(c = x /\ t = track.targetId)
      BY <2>1, <3>2 DEF TypeOK
    <3> QED
      BY <3>1, <3>2
  <2> QED
    BY <1>1, <2>3 DEF Advance
<1> QED
  BY <1>2, <1>3

LEMMA ReportsAdvance ==
  ASSUME TypeOK, NEW x \in Consoles, NEW state \in DroneStates, ReceiveDrone(x, state)
  PROVE  Advance
<1>1. UNCHANGED <<targetTracks, outcomes>>
  BY DEF ReceiveDrone
<1>2. CASE DroneUpdateResult(x, state) \notin {"added", "updated"}
  BY <1>1, <1>2 DEF ReceiveDrone, Advance
<1>3. CASE DroneUpdateResult(x, state) \in {"added", "updated"}
  <2>1. droneStates' = [droneStates EXCEPT ![x][state.droneId] = state]
    BY <1>3 DEF ReceiveDrone
  <2>2. state # None /\ state.droneId \in Drones /\ state.reportedAt \in Nat
    BY ConsoleNoneAssumption, ConsoleAssumption DEF DroneStates
  <2>3. ASSUME NEW c \in Consoles, NEW d \in Drones, droneStates[c][d] # None
        PROVE  \/ droneStates'[c][d] = droneStates[c][d]
               \/ /\ droneStates'[c][d] # None
                  /\ droneStates'[c][d].reportedAt > droneStates[c][d].reportedAt
    <3>1. CASE c = x /\ d = state.droneId
      <4>1. droneStates'[c][d] = state
        BY <2>1, <3>1 DEF TypeOK
      <4>2. droneStates[c][d].reportedAt < state.reportedAt
        BY <1>3, <2>3, <3>1, StoredReportIsNewer
      <4>3. droneStates[c][d] \in DroneStates
        BY <2>3 DEF TypeOK
      <4>4. droneStates[c][d].reportedAt \in Nat
        BY <4>3, ConsoleAssumption DEF DroneStates
      <4> QED
        BY <2>2, <4>1, <4>2, <4>4
    <3>2. CASE ~(c = x /\ d = state.droneId)
      BY <2>1, <3>2 DEF TypeOK
    <3> QED
      BY <3>1, <3>2
  <2> QED
    BY <1>1, <2>3 DEF Advance
<1> QED
  BY <1>2, <1>3

LEMMA EventsAdvance ==
  ASSUME TypeOK, NEW x \in Consoles, NEW event \in ExplosionEvents,
         ReceiveOutcome(x, event)
  PROVE  Advance
<1>1. UNCHANGED <<targetTracks, droneStates>>
  BY DEF ReceiveOutcome
<1>2. CASE OutcomeUpdateResult(x, event) # "recorded"
  BY <1>1, <1>2 DEF ReceiveOutcome, Advance
<1>3. CASE OutcomeUpdateResult(x, event) = "recorded"
  <2>1. outcomes[x][event.eventId] = None
    BY <1>3 DEF OutcomeUpdateResult
  <2>2. outcomes' = [outcomes EXCEPT ![x][event.eventId] = event]
    BY <1>3 DEF ReceiveOutcome
  <2>3. \A c \in Consoles, e \in EventIds :
          outcomes[c][e] # None => outcomes'[c][e] = outcomes[c][e]
    BY <2>1, <2>2 DEF TypeOK
  <2> QED
    BY <1>1, <2>3 DEF Advance
<1> QED
  BY <1>2, <1>3

LEMMA ProjectionsAdvance == TInv /\ [TerminalNext]_tvars => Advance
<1> SUFFICES ASSUME TInv, [TerminalNext]_tvars PROVE Advance
  OBVIOUS
<1>1. TypeOK
  BY DEF TInv, CInv
<1>2. ASSUME NEW c \in Consoles, NEW track \in TargetTracks, ShowTarget(c, track)
      PROVE  Advance
  BY <1>1, <1>2, TracksAdvance DEF ShowTarget
<1>3. ASSUME NEW c \in Consoles, NEW state \in DroneStates, ShowDrone(c, state)
      PROVE  Advance
  BY <1>1, <1>3, ReportsAdvance DEF ShowDrone
<1>4. ASSUME NEW c \in Consoles, NEW event \in ExplosionEvents, ShowOutcome(c, event)
      PROVE  Advance
  BY <1>1, <1>4, EventsAdvance DEF ShowOutcome
<1>5. CASE UNCHANGED projections
  BY <1>5 DEF projections, Advance
<1>6. ASSUME NEW c \in Consoles, NEW starts \in BOOLEAN, NEW number \in Numbers,
             Execute(c, starts, number)
      PROVE  UNCHANGED projections
  BY <1>6 DEF Execute, StartInterception, cvars, projections
<1>7. ASSUME NEW c \in Consoles, NEW d \in Drones, NEW t \in Targets,
             AssignUnseen(c, d, t)
      PROVE  UNCHANGED projections
  BY <1>7 DEF AssignUnseen, Assign
<1>8. CASE UNCHANGED tvars
  BY <1>5, <1>8 DEF tvars, cvars, projections
<1> QED
  BY <1>2, <1>3, <1>4, <1>5, <1>6, <1>7, <1>8 DEF TerminalNext

\* A table has a row for each entry, and no other.
LEMMA TargetRows ==
  ASSUME NEW tracks
  PROVE  /\ DOMAIN RenderTargets(tracks) = Shown(tracks)
         /\ \A t \in Shown(tracks) : RenderTargets(tracks)[t] = TargetRow(tracks[t])
BY DEF RenderTargets

LEMMA DroneRows ==
  ASSUME NEW states
  PROVE  /\ DOMAIN RenderDrones(states) = Shown(states)
         /\ \A d \in Shown(states) : RenderDrones(states)[d] = DroneRow(states[d])
BY DEF RenderDrones

LEMMA OutcomeRows ==
  ASSUME NEW events
  PROVE  /\ DOMAIN RenderOutcomes(events) = Shown(events)
         /\ \A e \in Shown(events) : RenderOutcomes(events)[e] = OutcomeRow(events[e])
BY DEF RenderOutcomes

\* What an operator has read of a target, a drone or an outcome is replaced by
\* nothing older, is not contradicted and does not disappear.
THEOREM TheScreenNeverGoesBack == TerminalSpec => ScreenNeverGoesBack
<1> DEFINE Forward ==
      \A c \in Consoles :
        LET old == screen[c]
            new == screen'[c]
        IN /\ \A t \in DOMAIN old.targets :
                /\ t \in DOMAIN new.targets
                /\ \/ new.targets[t] = old.targets[t]
                   \/ new.targets[t][3] > old.targets[t][3]
           /\ \A d \in DOMAIN old.drones :
                /\ d \in DOMAIN new.drones
                /\ \/ new.drones[d] = old.drones[d]
                   \/ new.drones[d][5] > old.drones[d][5]
           /\ \A e \in DOMAIN old.outcomes :
                /\ e \in DOMAIN new.outcomes
                /\ new.outcomes[e] = old.outcomes[e]
<1>1. ASSUME TInv, TInv', Advance PROVE Forward
  <2>0. ASSUME NEW c \in Consoles
        PROVE  /\ \A t \in DOMAIN screen[c].targets :
                    /\ t \in DOMAIN screen'[c].targets
                    /\ \/ screen'[c].targets[t] = screen[c].targets[t]
                       \/ screen'[c].targets[t][3] > screen[c].targets[t][3]
               /\ \A d \in DOMAIN screen[c].drones :
                    /\ d \in DOMAIN screen'[c].drones
                    /\ \/ screen'[c].drones[d] = screen[c].drones[d]
                       \/ screen'[c].drones[d][5] > screen[c].drones[d][5]
               /\ \A e \in DOMAIN screen[c].outcomes :
                    /\ e \in DOMAIN screen'[c].outcomes
                    /\ screen'[c].outcomes[e] = screen[c].outcomes[e]
    <3>1. /\ screen[c].targets = RenderTargets(targetTracks[c])
          /\ screen[c].drones = RenderDrones(droneStates[c])
          /\ screen[c].outcomes = RenderOutcomes(outcomes[c])
      BY <1>1 DEF TInv, ScreenShows, Snapshot
    <3>2. /\ screen'[c].targets = RenderTargets(targetTracks'[c])
          /\ screen'[c].drones = RenderDrones(droneStates'[c])
          /\ screen'[c].outcomes = RenderOutcomes(outcomes'[c])
      BY <1>1 DEF TInv, ScreenShows, Snapshot
    <3>3. /\ DOMAIN targetTracks[c] = Targets /\ DOMAIN targetTracks'[c] = Targets
          /\ DOMAIN droneStates[c] = Drones /\ DOMAIN droneStates'[c] = Drones
          /\ DOMAIN outcomes[c] = EventIds /\ DOMAIN outcomes'[c] = EventIds
      BY <1>1 DEF TInv, CInv, TypeOK
    <3>4. ASSUME NEW t \in DOMAIN screen[c].targets
          PROVE  /\ t \in DOMAIN screen'[c].targets
                 /\ \/ screen'[c].targets[t] = screen[c].targets[t]
                    \/ screen'[c].targets[t][3] > screen[c].targets[t][3]
      <4> DEFINE track == targetTracks[c][t]
                 next == targetTracks'[c][t]
      <4>1. t \in Targets /\ track # None /\ t \in Shown(targetTracks[c])
        BY <3>1, <3>3, <3>4, TargetRows DEF Shown
      <4>2. next # None /\ (next = track \/ next.measuredAt > track.measuredAt)
        BY <1>1, <4>1 DEF Advance
      <4>3. t \in Shown(targetTracks'[c])
        BY <3>3, <4>1, <4>2 DEF Shown
      <4>4. /\ screen[c].targets[t] = TargetRow(track)
            /\ screen'[c].targets[t] = TargetRow(next)
            /\ t \in DOMAIN screen'[c].targets
        BY <3>1, <3>2, <4>1, <4>3, TargetRows
      <4>5. TargetRow(track)[3] = track.measuredAt /\ TargetRow(next)[3] = next.measuredAt
        BY DEF TargetRow
      <4> QED
        BY <4>2, <4>4, <4>5
    <3>5. ASSUME NEW d \in DOMAIN screen[c].drones
          PROVE  /\ d \in DOMAIN screen'[c].drones
                 /\ \/ screen'[c].drones[d] = screen[c].drones[d]
                    \/ screen'[c].drones[d][5] > screen[c].drones[d][5]
      <4> DEFINE state == droneStates[c][d]
                 next == droneStates'[c][d]
      <4>1. d \in Drones /\ state # None /\ d \in Shown(droneStates[c])
        BY <3>1, <3>3, <3>5, DroneRows DEF Shown
      <4>2. next # None /\ (next = state \/ next.reportedAt > state.reportedAt)
        BY <1>1, <4>1 DEF Advance
      <4>3. d \in Shown(droneStates'[c])
        BY <3>3, <4>1, <4>2 DEF Shown
      <4>4. /\ screen[c].drones[d] = DroneRow(state)
            /\ screen'[c].drones[d] = DroneRow(next)
            /\ d \in DOMAIN screen'[c].drones
        BY <3>1, <3>2, <4>1, <4>3, DroneRows
      <4>5. DroneRow(state)[5] = state.reportedAt /\ DroneRow(next)[5] = next.reportedAt
        BY DEF DroneRow
      <4> QED
        BY <4>2, <4>4, <4>5
    <3>6. ASSUME NEW e \in DOMAIN screen[c].outcomes
          PROVE  /\ e \in DOMAIN screen'[c].outcomes
                 /\ screen'[c].outcomes[e] = screen[c].outcomes[e]
      <4>1. e \in EventIds /\ outcomes[c][e] # None /\ e \in Shown(outcomes[c])
        BY <3>1, <3>3, <3>6, OutcomeRows DEF Shown
      <4>2. outcomes'[c][e] = outcomes[c][e]
        BY <1>1, <4>1 DEF Advance
      <4>3. e \in Shown(outcomes'[c])
        BY <3>3, <4>1, <4>2 DEF Shown
      <4> QED
        BY <3>1, <3>2, <4>1, <4>2, <4>3, OutcomeRows
    <3> QED
      BY <3>4, <3>5, <3>6
  <2> QED
    BY <2>0
<1>2. TInv /\ TInv' /\ [TerminalNext]_tvars => [Forward]_screen
  BY <1>1, ProjectionsAdvance
<1> QED
  BY <1>2, TerminalInvariance, PTL DEF TerminalSpec, ScreenNeverGoesBack

\* An operator is told "started" for exactly the drones with a command, and
\* "duplicate" for no other drone.
THEOREM TheAnswersAreTrue == TerminalSpec => []AnswersAreTrue
<1>1. ASSUME TInv PROVE AnswersAreTrue
  <2> SUFFICES ASSUME NEW c \in Consoles
               PROVE  /\ {x[1] : x \in {y \in told[c] : y[2] = "started"}} =
                           {a.droneId : a \in commandWriter[c]}
                      /\ \A x \in told[c] :
                           x[2] = "duplicate" => <<x[1], "started">> \in told[c]
    BY DEF AnswersAreTrue
  <2>1. /\ told[c] \subseteq Drones \X Results
        /\ \A d \in Drones :
             /\ <<d, "started">> \in told[c] <=> d \in pendingStarts[c]
             /\ <<d, "duplicate">> \in told[c] => d \in pendingStarts[c]
        /\ pendingStarts[c] \subseteq Drones
        /\ pendingStarts[c] = {a.droneId : a \in commandWriter[c]}
    BY <1>1 DEF TInv, CInv, TypeOK, ToldOK, CommandIdentitiesUnique
  <2>2. \A x \in told[c] : x = <<x[1], x[2]>> /\ x[1] \in Drones
    BY <2>1
  <2>3. {x[1] : x \in {y \in told[c] : y[2] = "started"}} = pendingStarts[c]
    <3>1. ASSUME NEW x \in told[c], x[2] = "started" PROVE x[1] \in pendingStarts[c]
      BY <2>1, <2>2, <3>1
    <3>2. ASSUME NEW d \in pendingStarts[c]
          PROVE  \E x \in told[c] : x[2] = "started" /\ x[1] = d
      <4>1. <<d, "started">> \in told[c]
        BY <2>1
      <4> QED
        BY <4>1
    <3> QED
      BY <3>1, <3>2
  <2>4. ASSUME NEW x \in told[c], x[2] = "duplicate"
        PROVE  <<x[1], "started">> \in told[c]
    BY <2>1, <2>2, <2>4
  <2> QED
    BY <2>1, <2>3, <2>4
<1> QED
  BY <1>1, TerminalInvariance, PTL
=============================================================================
