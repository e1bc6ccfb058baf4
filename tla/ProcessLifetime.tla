--------------------------- MODULE ProcessLifetime ---------------------------
(***************************************************************************)
(* The life of one of the three processes, from main to its exit code: the *)
(* shutdown monitor that turns SIGINT and SIGTERM into a request, the      *)
(* objects that run() constructs and destroys, and the loop between them.  *)
(* A signal may come at any moment; whatever may throw may throw.          *)
(***************************************************************************)
EXTENDS DroneExecutables, Integers, Sequences, FiniteSets

CONSTANTS
  Unlimited,      \* the tick count that was not given
  TickCounts,     \* values of --tick-count
  Slices          \* waits of shutdownResponseInterval in one tick interval

ASSUME LifetimeAssumption ==
  TickCounts \subseteq Nat \ {0} /\ Unlimited \notin Nat /\ Slices \in Nat \ {0}

Signals == {"SIGINT", "SIGTERM"}

\* Mutant: a subscriber is constructed before the machine it delivers to.
ObjectsSwapped ==
  [observer |-> <<"publisher", "tracker", "radar">>,
   console |-> <<"targets", "drones", "outcomes", "subscriber", "outcomeSubscriber",
                 "assignmentPublisher", "commandPublisher", "assignment", "command">>,
   interceptor |-> <<"statePublisher", "eventPublisher", "vehicle",
                     "assignmentSubscriber", "stateMachine", "commandSubscriber",
                     "targetSubscriber">>]

\* The objects of run(), in the order of their construction.
Objects ==
  [observer |-> <<"publisher", "tracker", "radar">>,
   console |-> <<"targets", "drones", "outcomes", "subscriber", "outcomeSubscriber",
                 "assignmentPublisher", "commandPublisher", "assignment", "command">>,
   interceptor |-> <<"statePublisher", "eventPublisher", "vehicle", "stateMachine",
                     "assignmentSubscriber", "commandSubscriber", "targetSubscriber">>]

\* The objects an object keeps references to.
Needs ==
  [publisher |-> {}, tracker |-> {"publisher"}, radar |-> {"tracker"},
   targets |-> {}, drones |-> {}, outcomes |-> {"targets", "drones"},
   subscriber |-> {"targets", "drones"}, outcomeSubscriber |-> {"outcomes"},
   assignmentPublisher |-> {}, commandPublisher |-> {},
   assignment |-> {"targets", "drones", "assignmentPublisher"},
   command |-> {"drones", "commandPublisher"},
   statePublisher |-> {}, eventPublisher |-> {}, vehicle |-> {},
   stateMachine |-> {"vehicle", "statePublisher", "eventPublisher"},
   assignmentSubscriber |-> {"stateMachine"}, commandSubscriber |-> {"stateMachine"},
   targetSubscriber |-> {"stateMachine"}]

VARIABLES
  tickCount,      \* the option of the observer
  inherited,      \* the handlers the process was started with
  handler,        \* the handlers in force
  previous,       \* what the monitor remembers of them
  shutdownRequested,
  pc,             \* what main does next
  built,          \* objects of run() that exist
  publishedTicks,
  slices,         \* waits left in waitFor
  thrown,         \* an exception is on its way to main
  complete,       \* "shutdown complete" was printed
  late            \* iterations and waits done since a request

lvars == <<executable, tickCount, inherited, handler, previous, shutdownRequested, pc,
           built, publishedTicks, slices, thrown, complete, late>>

fixed == <<executable, tickCount, inherited>>
monitor == <<handler, previous>>
loop == <<publishedTicks, slices, late>>

LifetimeInit ==
  /\ executable \in Executables
  /\ tickCount \in {Unlimited} \cup (IF executable = "observer" THEN TickCounts ELSE {})
  /\ inherited \in [Signals -> {"default", "ignore"}]
  /\ handler = inherited
  /\ previous = [s \in Signals |-> "default"]
  /\ shutdownRequested = FALSE
  /\ pc = "parse"
  /\ built = 0 /\ publishedTicks = 0 /\ slices = 0 /\ late = 0
  /\ thrown = FALSE /\ complete = FALSE

Goto(label) == pc' = label

Ended == pc \in {"exit0", "exit1", "killed"}

-----------------------------------------------------------------------------
(* A signal, and the handler of the monitor.                               *)

RequestShutdown == shutdownRequested' = TRUE

Signal(s) ==
  /\ ~Ended
  /\ \/ /\ handler[s] = "default"
        /\ Goto("killed")
        /\ UNCHANGED shutdownRequested
     \/ /\ handler[s] = "requestShutdown"
        /\ RequestShutdown
        /\ UNCHANGED pc
  /\ UNCHANGED <<fixed, monitor, built, loop, thrown, complete>>

-----------------------------------------------------------------------------
(* main until run() is called.                                             *)

Parse ==
  /\ pc = "parse"
  /\ Goto("installInterrupt") \/ Goto("exit1")
  /\ UNCHANGED <<fixed, monitor, shutdownRequested, built, loop, thrown, complete>>

InstallInterrupt ==
  /\ pc = "installInterrupt"
  /\ \/ /\ previous' = [previous EXCEPT !["SIGINT"] = handler["SIGINT"]]
        /\ handler' = [handler EXCEPT !["SIGINT"] = "requestShutdown"]
        /\ Goto("installTermination")
     \/ Goto("exit1") /\ UNCHANGED monitor
  /\ shutdownRequested' = FALSE
  /\ UNCHANGED <<fixed, built, loop, thrown, complete>>

\* Mutant: the first handler stays when the second cannot be installed.
InstallLeavesFirst ==
  /\ pc = "installTermination"
  /\ \/ /\ previous' = [previous EXCEPT !["SIGTERM"] = handler["SIGTERM"]]
        /\ handler' = [handler EXCEPT !["SIGTERM"] = "requestShutdown"]
        /\ Goto("construct")
     \/ Goto("exit1") /\ UNCHANGED monitor
  /\ UNCHANGED <<fixed, shutdownRequested, built, loop, thrown, complete>>

InstallTermination ==
  /\ pc = "installTermination"
  /\ \/ /\ previous' = [previous EXCEPT !["SIGTERM"] = handler["SIGTERM"]]
        /\ handler' = [handler EXCEPT !["SIGTERM"] = "requestShutdown"]
        /\ Goto("construct")
     \/ /\ handler' = [handler EXCEPT !["SIGINT"] = previous["SIGINT"]]
        /\ Goto("exit1")
        /\ UNCHANGED previous
  /\ UNCHANGED <<fixed, shutdownRequested, built, loop, thrown, complete>>

-----------------------------------------------------------------------------
(* run().                                                                  *)

Throw ==
  /\ thrown' = TRUE
  /\ Goto("destroy")

\* Composed names, creation of DDS entities and start() may throw.
Construct ==
  /\ pc = "construct"
  /\ \/ /\ built < Len(Objects[executable])
        /\ built' = built + 1
        /\ UNCHANGED <<pc, thrown>>
     \/ /\ built = Len(Objects[executable])
        /\ Goto("test")
        /\ UNCHANGED <<built, thrown>>
     \/ Throw /\ UNCHANGED built
  /\ UNCHANGED <<fixed, monitor, shutdownRequested, loop, complete>>

TicksLeft == tickCount = Unlimited \/ publishedTicks < tickCount

\* Mutant: the loop goes on without asking for a request.
TestTicksOnly ==
  /\ pc = "test"
  /\ IF TicksLeft THEN Goto("body") ELSE Goto("destroy")
  /\ UNCHANGED <<fixed, monitor, shutdownRequested, built, loop, thrown, complete>>

Test ==
  /\ pc = "test"
  /\ IF ~shutdownRequested /\ TicksLeft THEN Goto("body") ELSE Goto("destroy")
  /\ UNCHANGED <<fixed, monitor, shutdownRequested, built, loop, thrown, complete>>

\* Something is done although the process was asked to stop; counted up to two,
\* which is one too many.
CountLate == late' = IF shutdownRequested /\ late < 2 THEN late + 1 ELSE late

\* One iteration up to its wait; ticks are counted only as far as they matter.
Body ==
  /\ pc = "body"
  /\ CountLate
  /\ \/ /\ publishedTicks' = IF tickCount = Unlimited THEN 0 ELSE publishedTicks + 1
        /\ IF tickCount = Unlimited \/ publishedTicks' < tickCount
           THEN Goto("wait") /\ slices' = Slices
           ELSE Goto("test") /\ UNCHANGED slices
        /\ UNCHANGED thrown
     \/ Throw /\ UNCHANGED <<publishedTicks, slices>>
  /\ UNCHANGED <<fixed, monitor, shutdownRequested, built, complete>>

\* Mutant: the wait looks at the request only when it is over.
WaitThrough ==
  /\ pc = "wait"
  /\ IF slices > 0 THEN Goto("sleep")
     ELSE IF executable = "observer" /\ shutdownRequested THEN Goto("destroy")
     ELSE Goto("test")
  /\ UNCHANGED <<fixed, monitor, shutdownRequested, built, loop, thrown, complete>>

\* The loop of waitFor and what its answer leads to: the observer breaks.
Wait ==
  /\ pc = "wait"
  /\ IF ~shutdownRequested /\ slices > 0 THEN Goto("sleep")
     ELSE IF executable = "observer" /\ shutdownRequested THEN Goto("destroy")
     ELSE Goto("test")
  /\ UNCHANGED <<fixed, monitor, shutdownRequested, built, loop, thrown, complete>>

Sleep ==
  /\ pc = "sleep"
  /\ CountLate
  /\ slices' = slices - 1
  /\ Goto("wait")
  /\ UNCHANGED <<fixed, monitor, shutdownRequested, built, publishedTicks, thrown,
                 complete>>

\* The objects of run() go in the reverse order of their construction.
DestroyLast ==
  /\ pc = "destroy" /\ built > 0
  /\ built' = built - 1
  /\ UNCHANGED <<fixed, monitor, shutdownRequested, pc, loop, thrown, complete>>

-----------------------------------------------------------------------------
(* The end of main.                                                        *)

\* Mutant: the handlers are given back before the objects are destroyed.
LeaveEarly ==
  /\ pc = "destroy"
  /\ complete' = ~thrown
  /\ Goto("restoreTermination")
  /\ UNCHANGED <<fixed, monitor, shutdownRequested, built, loop, thrown>>

Leave ==
  /\ pc = "destroy" /\ built = 0
  /\ complete' = ~thrown
  /\ Goto("restoreTermination")
  /\ UNCHANGED <<fixed, monitor, shutdownRequested, built, loop, thrown>>

RestoreTermination ==
  /\ pc = "restoreTermination"
  /\ handler' = [handler EXCEPT !["SIGTERM"] = previous["SIGTERM"]]
  /\ Goto("restoreInterrupt")
  /\ UNCHANGED <<fixed, previous, shutdownRequested, built, loop, thrown, complete>>

RestoreInterrupt ==
  /\ pc = "restoreInterrupt"
  /\ handler' = [handler EXCEPT !["SIGINT"] = previous["SIGINT"]]
  /\ Goto(IF thrown THEN "exit1" ELSE "exit0")
  /\ UNCHANGED <<fixed, previous, shutdownRequested, built, loop, thrown, complete>>

-----------------------------------------------------------------------------
Start == Parse \/ InstallInterrupt \/ InstallTermination
Run == Construct \/ Test \/ Body \/ Wait \/ Sleep \/ DestroyLast
Finish == Leave \/ RestoreTermination \/ RestoreInterrupt

Step == Start \/ Run \/ Finish

LifetimeNext == Step \/ \E s \in Signals : Signal(s)

\* The main thread goes on; sleeps and iterations end.
LifetimeSpec == LifetimeInit /\ [][LifetimeNext]_lvars /\ WF_lvars(Step)

-----------------------------------------------------------------------------
(* Properties.                                                             *)

Alive == {Objects[executable][i] : i \in 1..built}

\* No object of run() is destroyed before one that refers to it, on every way
\* out, from a constructor that throws to an orderly shutdown.
ReferencesStayValid == \A o \in Alive : Needs[o] \subseteq Alive

\* A signal ends the process only while it owns no DDS entity: what exists is
\* cleaned up, whenever the signal comes and however often.
NoSignalSkipsCleanUp == Ended => built = 0

\* A process that ends by itself has given back the handlers it found, whichever
\* step of the start failed.
HandlersAreRestored == pc \in {"exit0", "exit1"} => handler = inherited

\* After a request at most one more thing is done: the iteration the request
\* came too late for, or one slice of the wait, never both.
StopIsPrompt == late <= 1

\* "shutdown complete" and the exit code 0 mean that nothing was thrown, and
\* that there was a request or the observer has published what it was told to.
SuccessIsEarned ==
  /\ pc = "exit0" => complete
  /\ complete =>
       /\ ~thrown /\ built = 0
       /\ ~shutdownRequested => publishedTicks = tickCount

\* The inductive invariant, by the place in main.
Early == {"parse", "installInterrupt"}
InRun == {"construct", "test", "body", "wait", "sleep", "destroy"}
Restoring == {"restoreTermination", "restoreInterrupt"}
Places == Early \cup {"installTermination"} \cup InRun \cup Restoring
            \cup {"exit0", "exit1", "killed"}

LifetimeTypes ==
  /\ executable \in Executables
  /\ tickCount \in {Unlimited} \cup TickCounts
  /\ inherited \in [Signals -> {"default", "ignore"}]
  /\ handler \in [Signals -> {"default", "ignore", "requestShutdown"}]
  /\ previous \in [Signals -> {"default", "ignore"}]
  /\ shutdownRequested \in BOOLEAN /\ thrown \in BOOLEAN /\ complete \in BOOLEAN
  /\ pc \in Places
  /\ built \in Nat /\ publishedTicks \in Nat /\ slices \in Nat /\ late \in Nat
  /\ pc = "sleep" => slices > 0

\* Which handlers are in force and which are remembered.
HandlersFollow ==
  /\ pc \in Early \cup {"exit0", "exit1"} => handler = inherited
  /\ pc = "installTermination" =>
       /\ handler["SIGINT"] = "requestShutdown"
       /\ handler["SIGTERM"] = inherited["SIGTERM"]
       /\ previous["SIGINT"] = inherited["SIGINT"]
  /\ pc \in InRun => \A s \in Signals : handler[s] = "requestShutdown"
  /\ pc \in InRun \cup Restoring => previous = inherited
  /\ pc = "restoreInterrupt" => handler["SIGTERM"] = inherited["SIGTERM"]

\* What is late was done last: nothing else is begun after it.
LateIsLast ==
  /\ late <= 1
  /\ late > 0 => shutdownRequested
  /\ pc \in {"construct", "body", "sleep"} \/ pc \in Early \/ pc = "installTermination"
       => late = 0

TicksAreCounted ==
  /\ tickCount # Unlimited => publishedTicks <= tickCount
  /\ pc \in {"body", "wait", "sleep"} => TicksLeft
  /\ pc \in {"destroy", "exit0"} \cup Restoring /\ ~thrown =>
       shutdownRequested \/ publishedTicks = tickCount
  /\ pc \in Early \cup {"installTermination", "construct"} => publishedTicks = 0

CompletionFollows ==
  /\ pc \in Restoring => complete = ~thrown
  /\ pc = "exit0" => complete
  /\ complete => pc \in Restoring \cup {"exit0", "killed"}

LifetimeInvariant ==
  /\ LifetimeTypes
  /\ HandlersFollow
  /\ pc \notin InRun => built = 0
  /\ LateIsLast
  /\ TicksAreCounted
  /\ CompletionFollows
  /\ SuccessIsEarned

\* No more is built than run() has, so that what exists is a prefix of Objects.
PrefixIsBuilt ==
  executable \in Executables /\ built \in 0..Len(Objects[executable])

\* A request is honoured: the process ends.
StopIsHonoured == shutdownRequested ~> Ended
=============================================================================
