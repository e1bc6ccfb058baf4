-------------------------- MODULE TransportEndpoints --------------------------
(***************************************************************************)
(* One participant and the readers or writers that share it, from their    *)
(* constructors to their destructors: the entities they create in the      *)
(* middleware, each of which may be refused, and the match counts that the *)
(* middleware's thread hands to a listener while the main thread polls,    *)
(* waits or destroys.                                                      *)
(*                                                                         *)
(* The ten reader and writer classes differ in names only; "group" is the  *)
(* Subscriber of a reader or the Publisher of a writer.  The middleware    *)
(* runs one listener call per endpoint at a time.  It refuses to delete    *)
(* what something else still uses, and nobody looks at its answer.         *)
(***************************************************************************)
EXTENDS Integers

CONSTANTS
  EndpointCount,  \* endpoints that share the participant
  MaxMatches      \* bound on the endpoints that match one of them

ASSUME EndpointAssumption == EndpointCount \in Nat \ {0} /\ MaxMatches \in Nat

Objects == 1..EndpointCount

VARIABLES
  pc,            \* next step of the main thread, and the object it is about
  participant,   \* whether the participant exists in the middleware
  types, topics, groups, endpoints,  \* objects whose entity exists there
  listeners,     \* objects whose mutex and condition variable exist
  mutex,         \* objects whose mutex the main thread holds
  callback,      \* progress of the listener call of each object
  matches,       \* matched endpoints, as the middleware knows them
  matchCount,    \* currentMatchCount_
  notified,      \* whether the sleeping main thread was notified
  answer         \* what the last wait returned

entities == <<participant, types, topics, groups, endpoints, listeners>>
waiting == <<mutex, notified, answer>>
matching == <<callback, matches, matchCount>>
vars == <<pc, entities, waiting, matching>>

At(step, i) == pc = [at |-> step, of |-> i]
GoTo(step, i) == pc' = [at |-> step, of |-> i]

Init ==
  /\ pc = [at |-> "createParticipant", of |-> 0]
  /\ participant = FALSE
  /\ types = {} /\ topics = {} /\ groups = {} /\ endpoints = {}
  /\ listeners = {} /\ mutex = {}
  /\ callback = [i \in Objects |-> "none"]
  /\ matches = [i \in Objects |-> 0]
  /\ matchCount = [i \in Objects |-> 0]
  /\ notified = FALSE /\ answer = FALSE

-----------------------------------------------------------------------------
(* Constructors.  An exception destroys what was constructed before it.    *)

\* Object i is gone: the one before it is next, then the participant.
DestroyPrevious(i) ==
  IF i = 1 THEN GoTo("deleteParticipant", 0) ELSE GoTo("deleteEndpoint", i - 1)

CreateParticipant ==
  /\ At("createParticipant", 0)
  /\ \/ participant' = TRUE /\ GoTo("registerType", 1)
     \/ participant' = FALSE /\ GoTo("gone", 0)
  /\ UNCHANGED <<types, topics, groups, endpoints, listeners, waiting, matching>>

RegisterType(i) ==
  /\ At("registerType", i)
  /\ \/ types' = types \cup {i} /\ GoTo("createTopic", i)
     \/ types' = types /\ DestroyPrevious(i)
  /\ UNCHANGED <<participant, topics, groups, endpoints, listeners, waiting,
                 matching>>

\* The destructor of the topic does not run for a constructor that throws:
\* the type is unregistered on the spot.
CreateTopic(i) ==
  /\ At("createTopic", i)
  /\ \/ /\ topics' = topics \cup {i} /\ types' = types
        /\ listeners' = listeners \cup {i}
        /\ GoTo("createGroup", i)
     \/ /\ types' = types \ {i} /\ topics' = topics /\ listeners' = listeners
        /\ DestroyPrevious(i)
  /\ UNCHANGED <<participant, groups, endpoints, waiting, matching>>

CreateGroup(i) ==
  /\ At("createGroup", i)
  /\ \/ groups' = groups \cup {i} /\ GoTo("createEndpoint", i)
     \/ groups' = groups /\ GoTo("destroyMembers", i)
  /\ UNCHANGED <<participant, types, topics, endpoints, listeners, waiting,
                 matching>>

\* Mutant: the constructor throws without deleting the group it created.
EndpointFailureKeepsGroup(i) ==
  /\ At("createEndpoint", i)
  /\ groups' = groups
  /\ \/ /\ endpoints' = endpoints \cup {i}
        /\ IF i = EndpointCount THEN GoTo("running", 0)
           ELSE GoTo("registerType", i + 1)
     \/ endpoints' = endpoints /\ GoTo("destroyMembers", i)
  /\ UNCHANGED <<participant, types, topics, listeners, waiting, matching>>

CreateEndpoint(i) ==
  /\ At("createEndpoint", i)
  /\ \/ /\ endpoints' = endpoints \cup {i} /\ groups' = groups
        /\ IF i = EndpointCount THEN GoTo("running", 0)
           ELSE GoTo("registerType", i + 1)
     \/ /\ groups' = groups \ {i} /\ endpoints' = endpoints
        /\ GoTo("destroyMembers", i)
  /\ UNCHANGED <<participant, types, topics, listeners, waiting, matching>>

Construct ==
  \/ CreateParticipant
  \/ \E i \in Objects : RegisterType(i) \/ CreateTopic(i) \/ CreateGroup(i)
                        \/ CreateEndpoint(i)

-----------------------------------------------------------------------------
(* Destructors, in the reverse order: body, members, previous object.      *)

Shutdown ==
  /\ At("running", 0)
  /\ GoTo("deleteEndpoint", EndpointCount)
  /\ UNCHANGED <<entities, waiting, matching>>

\* Mutant: the endpoint is left to the participant's destructor.
EndpointLeftToParticipant(i) ==
  /\ At("deleteEndpoint", i)
  /\ GoTo("deleteGroup", i)
  /\ UNCHANGED <<entities, waiting, matching>>

\* Mutant: the destructor holds the mutex while it deletes the endpoint.
DeleteEndpointLocked(i) ==
  \/ /\ At("deleteEndpoint", i) /\ i \notin mutex
     /\ mutex' = mutex \cup {i}
     /\ UNCHANGED <<pc, entities, notified, answer, matching>>
  \/ /\ At("deleteEndpoint", i) /\ i \in mutex
     /\ callback[i] = "none"
     /\ endpoints' = endpoints \ {i}
     /\ mutex' = mutex \ {i}
     /\ GoTo("deleteGroup", i)
     /\ UNCHANGED <<participant, types, topics, groups, listeners, notified,
                    answer, matching>>

\* The middleware lets a running listener call end before it answers.
DeleteEndpoint(i) ==
  /\ At("deleteEndpoint", i)
  /\ callback[i] = "none"
  /\ endpoints' = endpoints \ {i}
  /\ GoTo("deleteGroup", i)
  /\ UNCHANGED <<participant, types, topics, groups, listeners, waiting, matching>>

DeleteGroup(i) ==
  /\ At("deleteGroup", i)
  /\ groups' = IF i \in endpoints THEN groups ELSE groups \ {i}
  /\ GoTo("destroyMembers", i)
  /\ UNCHANGED <<participant, types, topics, endpoints, listeners, waiting,
                 matching>>

DestroyMembers(i) ==
  /\ At("destroyMembers", i)
  /\ listeners' = listeners \ {i}
  /\ GoTo("deleteTopic", i)
  /\ UNCHANGED <<participant, types, topics, groups, endpoints, waiting, matching>>

DeleteTopic(i) ==
  /\ At("deleteTopic", i)
  /\ topics' = IF i \in endpoints THEN topics ELSE topics \ {i}
  /\ GoTo("unregisterType", i)
  /\ UNCHANGED <<participant, types, groups, endpoints, listeners, waiting,
                 matching>>

UnregisterType(i) ==
  /\ At("unregisterType", i)
  /\ types' = IF i \in topics THEN types ELSE types \ {i}
  /\ DestroyPrevious(i)
  /\ UNCHANGED <<participant, topics, groups, endpoints, listeners, waiting,
                 matching>>

\* delete_contained_entities, then delete_participant.
DeleteParticipant ==
  /\ At("deleteParticipant", 0)
  /\ \A i \in endpoints : callback[i] = "none"
  /\ participant' = FALSE
  /\ types' = {} /\ topics' = {} /\ groups' = {} /\ endpoints' = {}
  /\ GoTo("gone", 0)
  /\ UNCHANGED <<listeners, waiting, matching>>

Destroy ==
  \/ Shutdown
  \/ \E i \in Objects : DeleteEndpoint(i) \/ DeleteGroup(i) \/ DestroyMembers(i)
                        \/ DeleteTopic(i) \/ UnregisterType(i)
  \/ DeleteParticipant

-----------------------------------------------------------------------------
(* wait_for with its predicate, one step per point where it may be         *)
(* interrupted.  With a timeout of zero it is Lock, Test, Sleep, Expire.   *)

Lock(i) ==
  /\ At("running", 0)
  /\ mutex' = mutex \cup {i}
  /\ GoTo("test", i)
  /\ UNCHANGED <<entities, notified, answer, matching>>

Return(i, result) ==
  /\ answer' = result
  /\ mutex' = mutex \ {i}
  /\ GoTo("running", 0)
  /\ notified' = FALSE

Test(i) ==
  /\ At("test", i)
  /\ \/ matchCount[i] > 0 /\ Return(i, TRUE)
     \/ matchCount[i] = 0 /\ GoTo("sleep", i) /\ UNCHANGED waiting
  /\ UNCHANGED <<entities, matching>>

Sleep(i) ==
  /\ At("sleep", i)
  /\ mutex' = mutex \ {i}
  /\ notified' = FALSE
  /\ GoTo("asleep", i)
  /\ UNCHANGED <<entities, answer, matching>>

\* Awake by a notification, or by none.
Awake(i) ==
  /\ At("asleep", i)
  /\ mutex' = mutex \cup {i}
  /\ GoTo("test", i)
  /\ UNCHANGED <<entities, notified, answer, matching>>

Expire(i) ==
  /\ At("asleep", i)
  /\ Return(i, matchCount[i] > 0)
  /\ UNCHANGED <<entities, matching>>

Wait ==
  \E i \in Objects : Lock(i) \/ Test(i) \/ Sleep(i) \/ Awake(i) \/ Expire(i)

-----------------------------------------------------------------------------
(* The middleware's thread.                                                *)

\* An endpoint elsewhere is matched or lost: the listener is called, unless
\* the endpoint is being deleted.
MatchesChange(i) ==
  /\ i \in endpoints /\ ~At("deleteEndpoint", i)
  /\ callback[i] = "none"
  /\ \E n \in {matches[i] - 1, matches[i] + 1} \cap 0..MaxMatches :
       matches' = [matches EXCEPT ![i] = n]
  /\ callback' = [callback EXCEPT ![i] = "called"]
  /\ UNCHANGED <<pc, entities, waiting, matchCount>>

\* Mutant: the count is stored without the mutex.
RecordUnlocked(i) ==
  /\ callback[i] = "called"
  /\ matchCount' = [matchCount EXCEPT ![i] = matches[i]]
  /\ callback' = [callback EXCEPT ![i] = "recorded"]
  /\ UNCHANGED <<pc, entities, waiting, matches>>

Record(i) ==
  /\ callback[i] = "called"
  /\ i \notin mutex
  /\ matchCount' = [matchCount EXCEPT ![i] = matches[i]]
  /\ callback' = [callback EXCEPT ![i] = "recorded"]
  /\ UNCHANGED <<pc, entities, waiting, matches>>

Notify(i) ==
  /\ callback[i] = "recorded"
  /\ notified' = (notified \/ At("asleep", i))
  /\ callback' = [callback EXCEPT ![i] = "none"]
  /\ UNCHANGED <<pc, entities, mutex, answer, matches, matchCount>>

Listen(i) == Record(i) \/ Notify(i)

-----------------------------------------------------------------------------
Main == Construct \/ Destroy \/ Wait
Next == Main \/ \E i \in Objects : MatchesChange(i) \/ Listen(i)

Spec == Init /\ [][Next]_vars

\* Both threads run; endpoints elsewhere come and go as they like.
FairSpec == Spec /\ WF_vars(Main) /\ \A i \in Objects : WF_vars(Listen(i))

-----------------------------------------------------------------------------
(* Properties.                                                             *)

Whole == {"createParticipant", "running", "deleteParticipant", "gone"}
Waiting == {"test", "sleep", "asleep"}
Steps ==
  {"registerType", "createTopic", "createGroup", "createEndpoint",
   "deleteEndpoint", "deleteGroup", "destroyMembers", "deleteTopic",
   "unregisterType"} \cup Waiting

AtStep == pc \in [at : Whole, of : {0}] \cup [at : Steps, of : Objects]

\* The main thread is at a step about one object or about the whole; the
\* variables have their types.
TypeOK ==
  /\ AtStep
  /\ participant \in BOOLEAN /\ notified \in BOOLEAN /\ answer \in BOOLEAN
  /\ types \subseteq Objects /\ topics \subseteq Objects
  /\ groups \subseteq Objects /\ endpoints \subseteq Objects
  /\ listeners \subseteq Objects /\ mutex \subseteq Objects
  /\ callback \in [Objects -> {"none", "called", "recorded"}]
  /\ matches \in [Objects -> 0..MaxMatches]
  /\ matchCount \in [Objects -> 0..MaxMatches]

\* Whichever creation fails, every constructor and destructor cleans up after
\* itself: the participant's sweep finds nothing, so that no deletion before it
\* was refused.
CleanUpIsComplete ==
  pc.at \in {"deleteParticipant", "gone"} =>
    types = {} /\ topics = {} /\ groups = {} /\ endpoints = {} /\ listeners = {}

\* A listener call finds its mutex and its condition variable: they are
\* constructed before the middleware learns of the listener, and destroyed only
\* after the last call has ended.
CallbackIsSafe == \A i \in Objects : callback[i] # "none" => i \in listeners

\* No wake-up is lost: a main thread that sleeps although a match is recorded
\* was notified, or is about to be.
SleeperIsTold ==
  \A i \in Objects :
    At("asleep", i) /\ matchCount[i] > 0 => notified \/ callback[i] = "recorded"

\* A wait answers by the count at its end, so that a match which races with
\* the timeout is not missed.
MatchIsNotMissed ==
  [][\A i \in Objects :
       pc.of = i /\ pc.at \in {"test", "asleep"} /\ pc'.at = "running" =>
         answer' = (matchCount[i] > 0)]_vars

\* Destruction ends, though it waits for listener calls that may themselves
\* wait for the mutex.
TearDownEnds == pc.at = "deleteEndpoint" ~> pc.at = "gone"

-----------------------------------------------------------------------------
(* The inductive invariant of the proofs.                                  *)

Operating == {"running"} \cup Waiting
Level == IF pc.at \in Operating THEN EndpointCount ELSE pc.of

\* Objects below the one in progress have everything, those above nothing.
Held(steps) ==
  IF pc.at \in Operating \cup steps THEN 1..Level ELSE 1..(Level - 1)

\* What exists is a stack: each step adds or removes its top.
StackDiscipline ==
  /\ types = Held({"createTopic", "createGroup", "createEndpoint",
                   "deleteEndpoint", "deleteGroup", "destroyMembers",
                   "deleteTopic", "unregisterType"})
  /\ topics = Held({"createGroup", "createEndpoint", "deleteEndpoint",
                    "deleteGroup", "destroyMembers", "deleteTopic"})
  /\ listeners = Held({"createGroup", "createEndpoint", "deleteEndpoint",
                       "deleteGroup", "destroyMembers"})
  /\ groups = Held({"createEndpoint", "deleteEndpoint", "deleteGroup"})
  /\ endpoints = Held({"deleteEndpoint"})

\* The objects before i are whole, and nothing else exists.
WholeBelow(i) ==
  /\ types = 1..(i - 1) /\ topics = 1..(i - 1) /\ listeners = 1..(i - 1)
  /\ groups = 1..(i - 1) /\ endpoints = 1..(i - 1)

\* Listeners are called for existing endpoints only.
CallbackHasEndpoint == \A i \in Objects : callback[i] # "none" => i \in endpoints

\* The mutex is held from the test to the sleep, so that the count which was
\* tested is still zero.
SleepIsDecidedLocked ==
  /\ mutex = IF pc.at \in {"test", "sleep"} THEN {pc.of} ELSE {}
  /\ \A i \in Objects : At("sleep", i) => matchCount[i] = 0

EndpointInvariant ==
  /\ TypeOK
  /\ StackDiscipline
  /\ CallbackHasEndpoint
  /\ SleepIsDecidedLocked
  /\ SleeperIsTold
=============================================================================
