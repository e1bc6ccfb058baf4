--------------------------- MODULE TransportProofs ---------------------------
(***************************************************************************)
(* Proofs about TransportEndpoints, for any number of readers or writers   *)
(* on a participant and any number of matches: construction and            *)
(* destruction handle what exists as a stack, whichever creation fails,    *)
(* and listener calls run only on top of it.                               *)
(***************************************************************************)
EXTENDS TransportEndpoints, TLAPS

\* The count that a listener call stores is the one of the middleware.
LEMMA RecordedCountType ==
  ASSUME TypeOK, NEW i \in Objects
  PROVE [matchCount EXCEPT ![i] = matches[i]] \in [Objects -> 0..MaxMatches]
BY DEF TypeOK

\* Going to a step of the whole is well-formed.
LEMMA WholeIsStep ==
  ASSUME NEW step \in Whole, GoTo(step, 0)
  PROVE AtStep'
BY DEF GoTo, AtStep

\* So is going to a step of an object.
LEMMA ObjectIsStep ==
  ASSUME NEW step \in Steps, NEW i \in Objects, GoTo(step, i)
  PROVE AtStep'
BY DEF GoTo, AtStep

\* The step after an object is gone is well-formed.
LEMMA PreviousIsStep ==
  ASSUME NEW i \in Objects, DestroyPrevious(i)
  PROVE AtStep'
<1>1. CASE i = 1
  BY <1>1, WholeIsStep DEF DestroyPrevious, Whole
<1>2. CASE i # 1
  <2>1. i - 1 \in Objects
    BY <1>2, EndpointAssumption DEF Objects
  <2>2. GoTo("deleteEndpoint", i - 1)
    BY <1>2 DEF DestroyPrevious
  <2> QED
    BY <2>1, <2>2, ObjectIsStep DEF Steps
<1> QED
  BY <1>1, <1>2

\* Adding or removing the top of a stack of objects.
LEMMA PushAndPop ==
  ASSUME NEW i \in Objects
  PROVE /\ (1..(i - 1)) \cup {i} = 1..i
        /\ (1..i) \ {i} = 1..(i - 1)
        /\ i \notin 1..(i - 1)
BY EndpointAssumption DEF Objects

\* When nothing is left of object i, the one before it is the top.
LEMMA PreviousIsTop ==
  ASSUME NEW i \in Objects, DestroyPrevious(i), WholeBelow(i)'
  PROVE StackDiscipline'
<1>1. CASE i = 1
  BY <1>1, EndpointAssumption
     DEF DestroyPrevious, GoTo, WholeBelow, StackDiscipline, Held, Level,
         Operating, Waiting
<1>2. CASE i # 1
  BY <1>2, EndpointAssumption
     DEF DestroyPrevious, GoTo, WholeBelow, StackDiscipline, Held, Level,
         Operating, Waiting, Objects
<1> QED
  BY <1>1, <1>2

\* Before anything is created the stack is empty.
LEMMA InitInvariant == Init => EndpointInvariant
<1> SUFFICES ASSUME Init PROVE EndpointInvariant
  OBVIOUS
<1>1. TypeOK
  <2>1. AtStep
    BY DEF Init, AtStep, Whole
  <2>2. 0 \in 0..MaxMatches
    BY EndpointAssumption
  <2> QED
    BY <2>1, <2>2 DEF Init, TypeOK
<1>2. StackDiscipline
  BY DEF Init, StackDiscipline, Held, Level, Operating, Waiting
<1>3. CallbackHasEndpoint
  BY DEF Init, CallbackHasEndpoint
<1>4. SleepIsDecidedLocked /\ SleeperIsTold
  BY DEF Init, SleepIsDecidedLocked, SleeperIsTold, At
<1> QED
  BY <1>1, <1>2, <1>3, <1>4 DEF EndpointInvariant

\* Creating an entity pushes it; a creation that fails pops what its own
\* constructor had created.
LEMMA ConstructPreserves == EndpointInvariant /\ Construct => EndpointInvariant'
<1> SUFFICES ASSUME EndpointInvariant, Construct PROVE EndpointInvariant'
  OBVIOUS
<1>1. ASSUME CreateParticipant PROVE EndpointInvariant'
  <2>1. AtStep'
    BY <1>1, WholeIsStep, ObjectIsStep, EndpointAssumption
       DEF CreateParticipant, Whole, Steps, Waiting, Objects
  <2>2. TypeOK'
    BY <1>1, <2>1
       DEF EndpointInvariant, TypeOK, CreateParticipant, entities, waiting,
           matching
  <2>3. StackDiscipline'
    BY <1>1, PushAndPop, EndpointAssumption
       DEF EndpointInvariant, TypeOK, CreateParticipant, At, GoTo, Objects,
           entities, StackDiscipline, Held, Level, Operating, Waiting
  <2>4. CallbackHasEndpoint'
    BY <1>1
       DEF EndpointInvariant, TypeOK, CreateParticipant, CallbackHasEndpoint,
           entities, matching
  <2>5. SleepIsDecidedLocked' /\ SleeperIsTold'
    BY <1>1
       DEF EndpointInvariant, TypeOK, CreateParticipant, At, GoTo,
           SleepIsDecidedLocked, SleeperIsTold, entities, waiting, matching
  <2> QED
    BY <2>2, <2>3, <2>4, <2>5 DEF EndpointInvariant
<1>2. ASSUME NEW i \in Objects, RegisterType(i) PROVE EndpointInvariant'
  <2>1. AtStep'
    BY <1>2, WholeIsStep, ObjectIsStep, EndpointAssumption, PreviousIsStep
       DEF RegisterType, Whole, Steps, Waiting, Objects
  <2>2. TypeOK'
    BY <1>2, <2>1
       DEF EndpointInvariant, TypeOK, RegisterType, entities, waiting,
           matching
  <2>3. StackDiscipline'
    <3>1. CASE GoTo("createTopic", i) /\ types' = types \cup {i}
      BY <1>2, <3>1, PushAndPop
         DEF EndpointInvariant, RegisterType, At, GoTo, Objects,
             StackDiscipline, Held, Level, Operating, Waiting
    <3>2. CASE DestroyPrevious(i) /\ types' = types
      <4>1. WholeBelow(i)'
        BY <1>2, <3>2, PushAndPop
           DEF EndpointInvariant, WholeBelow, RegisterType, At, Objects,
               StackDiscipline, Held, Level, Operating, Waiting
      <4> QED
        BY <4>1, <3>2, PreviousIsTop
    <3> QED
      BY <1>2, <3>1, <3>2 DEF RegisterType
  <2>4. CallbackHasEndpoint'
    BY <1>2
       DEF EndpointInvariant, TypeOK, RegisterType, CallbackHasEndpoint,
           entities, matching
  <2>5. SleepIsDecidedLocked' /\ SleeperIsTold'
    BY <1>2
       DEF EndpointInvariant, TypeOK, RegisterType, DestroyPrevious, At, GoTo,
           SleepIsDecidedLocked, SleeperIsTold, entities, waiting, matching
  <2> QED
    BY <2>2, <2>3, <2>4, <2>5 DEF EndpointInvariant
<1>3. ASSUME NEW i \in Objects, CreateTopic(i) PROVE EndpointInvariant'
  <2>1. AtStep'
    BY <1>3, WholeIsStep, ObjectIsStep, EndpointAssumption, PreviousIsStep
       DEF CreateTopic, Whole, Steps, Waiting, Objects
  <2>2. TypeOK'
    BY <1>3, <2>1
       DEF EndpointInvariant, TypeOK, CreateTopic, entities, waiting, matching
  <2>3. StackDiscipline'
    <3>1. CASE /\ GoTo("createGroup", i) /\ types' = types
               /\ topics' = topics \cup {i} /\ listeners' = listeners \cup {i}
      BY <1>3, <3>1, PushAndPop
         DEF EndpointInvariant, CreateTopic, At, GoTo, Objects,
             StackDiscipline, Held, Level, Operating, Waiting
    <3>2. CASE /\ DestroyPrevious(i) /\ types' = types \ {i}
               /\ topics' = topics /\ listeners' = listeners
      <4>1. WholeBelow(i)'
        BY <1>3, <3>2, PushAndPop
           DEF EndpointInvariant, WholeBelow, CreateTopic, At, Objects,
               StackDiscipline, Held, Level, Operating, Waiting
      <4> QED
        BY <4>1, <3>2, PreviousIsTop
    <3> QED
      BY <1>3, <3>1, <3>2 DEF CreateTopic
  <2>4. CallbackHasEndpoint'
    BY <1>3
       DEF EndpointInvariant, TypeOK, CreateTopic, CallbackHasEndpoint,
           entities, matching
  <2>5. SleepIsDecidedLocked' /\ SleeperIsTold'
    BY <1>3
       DEF EndpointInvariant, TypeOK, CreateTopic, DestroyPrevious, At, GoTo,
           SleepIsDecidedLocked, SleeperIsTold, entities, waiting, matching
  <2> QED
    BY <2>2, <2>3, <2>4, <2>5 DEF EndpointInvariant
<1>4. ASSUME NEW i \in Objects, CreateGroup(i) PROVE EndpointInvariant'
  <2>1. AtStep'
    BY <1>4, WholeIsStep, ObjectIsStep, EndpointAssumption
       DEF CreateGroup, Whole, Steps, Waiting, Objects
  <2>2. TypeOK'
    BY <1>4, <2>1
       DEF EndpointInvariant, TypeOK, CreateGroup, entities, waiting, matching
  <2>3. StackDiscipline'
    <3>1. CASE GoTo("createEndpoint", i) /\ groups' = groups \cup {i}
      BY <1>4, <3>1, PushAndPop, EndpointAssumption
         DEF EndpointInvariant, CreateGroup, At, GoTo, Objects,
             StackDiscipline, Held, Level, Operating, Waiting
    <3>2. CASE GoTo("destroyMembers", i) /\ groups' = groups
      BY <1>4, <3>2, PushAndPop, EndpointAssumption
         DEF EndpointInvariant, CreateGroup, At, GoTo, Objects,
             StackDiscipline, Held, Level, Operating, Waiting
    <3> QED
      BY <1>4, <3>1, <3>2 DEF CreateGroup
  <2>4. CallbackHasEndpoint'
    BY <1>4
       DEF EndpointInvariant, TypeOK, CreateGroup, CallbackHasEndpoint,
           entities, matching
  <2>5. SleepIsDecidedLocked' /\ SleeperIsTold'
    BY <1>4
       DEF EndpointInvariant, TypeOK, CreateGroup, At, GoTo,
           SleepIsDecidedLocked, SleeperIsTold, entities, waiting, matching
  <2> QED
    BY <2>2, <2>3, <2>4, <2>5 DEF EndpointInvariant
<1>5. ASSUME NEW i \in Objects, CreateEndpoint(i) PROVE EndpointInvariant'
  <2>1. AtStep'
    <3>1. i # EndpointCount => i + 1 \in Objects
      BY EndpointAssumption DEF Objects
    <3> QED
      BY <1>5, <3>1, WholeIsStep, ObjectIsStep
         DEF CreateEndpoint, Whole, Steps
  <2>2. TypeOK'
    BY <1>5, <2>1
       DEF EndpointInvariant, TypeOK, CreateEndpoint, entities, waiting,
           matching
  <2>3. StackDiscipline'
    <3>1. CASE GoTo("running", 0) /\ i = EndpointCount /\ groups' = groups
            /\ endpoints' = endpoints \cup {i}
      BY <1>5, <3>1, PushAndPop, EndpointAssumption
         DEF EndpointInvariant, CreateEndpoint, At, GoTo, Objects,
             StackDiscipline, Held, Level, Operating, Waiting
    <3>2. CASE GoTo("registerType", i + 1) /\ groups' = groups
            /\ endpoints' = endpoints \cup {i}
      BY <1>5, <3>2, PushAndPop, EndpointAssumption
         DEF EndpointInvariant, CreateEndpoint, At, GoTo, Objects,
             StackDiscipline, Held, Level, Operating, Waiting
    <3>3. CASE GoTo("destroyMembers", i) /\ groups' = groups \ {i}
            /\ endpoints' = endpoints
      BY <1>5, <3>3, PushAndPop, EndpointAssumption
         DEF EndpointInvariant, CreateEndpoint, At, GoTo, Objects,
             StackDiscipline, Held, Level, Operating, Waiting
    <3> QED
      BY <1>5, <3>1, <3>2, <3>3 DEF CreateEndpoint
  <2>4. CallbackHasEndpoint'
    BY <1>5
       DEF EndpointInvariant, TypeOK, CreateEndpoint, CallbackHasEndpoint,
           entities, matching
  <2>5. SleepIsDecidedLocked' /\ SleeperIsTold'
    BY <1>5
       DEF EndpointInvariant, TypeOK, CreateEndpoint, At, GoTo,
           SleepIsDecidedLocked, SleeperIsTold, entities, waiting, matching
  <2> QED
    BY <2>2, <2>3, <2>4, <2>5 DEF EndpointInvariant
<1> QED
  BY <1>1, <1>2, <1>3, <1>4, <1>5 DEF Construct

\* Destruction pops what exists, and no deletion is refused.
LEMMA DestroyPreserves == EndpointInvariant /\ Destroy => EndpointInvariant'
<1> SUFFICES ASSUME EndpointInvariant, Destroy PROVE EndpointInvariant'
  OBVIOUS
<1>1. ASSUME Shutdown PROVE EndpointInvariant'
  <2>1. AtStep'
    BY <1>1, WholeIsStep, ObjectIsStep, EndpointAssumption
       DEF Shutdown, Whole, Steps, Waiting, Objects
  <2>2. TypeOK'
    BY <1>1, <2>1
       DEF EndpointInvariant, TypeOK, Shutdown, entities, waiting, matching
  <2>3. StackDiscipline'
    BY <1>1, PushAndPop, EndpointAssumption
       DEF EndpointInvariant, TypeOK, Shutdown, At, GoTo, Objects, entities,
           StackDiscipline, Held, Level, Operating, Waiting
  <2>4. CallbackHasEndpoint'
    BY <1>1
       DEF EndpointInvariant, TypeOK, Shutdown, CallbackHasEndpoint, entities,
           matching
  <2>5. SleepIsDecidedLocked' /\ SleeperIsTold'
    BY <1>1
       DEF EndpointInvariant, TypeOK, Shutdown, At, GoTo,
           SleepIsDecidedLocked, SleeperIsTold, entities, waiting, matching
  <2> QED
    BY <2>2, <2>3, <2>4, <2>5 DEF EndpointInvariant
<1>2. ASSUME NEW i \in Objects, DeleteEndpoint(i) PROVE EndpointInvariant'
  <2>1. AtStep'
    BY <1>2, WholeIsStep, ObjectIsStep, EndpointAssumption
       DEF DeleteEndpoint, Whole, Steps, Waiting, Objects
  <2>2. TypeOK'
    BY <1>2, <2>1
       DEF EndpointInvariant, TypeOK, DeleteEndpoint, entities, waiting,
           matching
  <2>3. StackDiscipline'
    BY <1>2, PushAndPop, EndpointAssumption
       DEF EndpointInvariant, TypeOK, DeleteEndpoint, At, GoTo, Objects,
           entities, StackDiscipline, Held, Level, Operating, Waiting
  <2>4. CallbackHasEndpoint'
    BY <1>2
       DEF EndpointInvariant, TypeOK, DeleteEndpoint, CallbackHasEndpoint,
           entities, matching
  <2>5. SleepIsDecidedLocked' /\ SleeperIsTold'
    BY <1>2
       DEF EndpointInvariant, TypeOK, DeleteEndpoint, At, GoTo,
           SleepIsDecidedLocked, SleeperIsTold, entities, waiting, matching
  <2> QED
    BY <2>2, <2>3, <2>4, <2>5 DEF EndpointInvariant
<1>3. ASSUME NEW i \in Objects, DeleteGroup(i) PROVE EndpointInvariant'
  <2>1. AtStep'
    BY <1>3, WholeIsStep, ObjectIsStep, EndpointAssumption
       DEF DeleteGroup, Whole, Steps, Waiting, Objects
  <2>2. TypeOK'
    BY <1>3, <2>1
       DEF EndpointInvariant, TypeOK, DeleteGroup, entities, waiting, matching
  <2>3. StackDiscipline'
    BY <1>3, PushAndPop, EndpointAssumption
       DEF EndpointInvariant, TypeOK, DeleteGroup, At, GoTo, Objects,
           entities, StackDiscipline, Held, Level, Operating, Waiting
  <2>4. CallbackHasEndpoint'
    BY <1>3
       DEF EndpointInvariant, TypeOK, DeleteGroup, CallbackHasEndpoint,
           entities, matching
  <2>5. SleepIsDecidedLocked' /\ SleeperIsTold'
    BY <1>3
       DEF EndpointInvariant, TypeOK, DeleteGroup, At, GoTo,
           SleepIsDecidedLocked, SleeperIsTold, entities, waiting, matching
  <2> QED
    BY <2>2, <2>3, <2>4, <2>5 DEF EndpointInvariant
<1>4. ASSUME NEW i \in Objects, DestroyMembers(i) PROVE EndpointInvariant'
  <2>1. AtStep'
    BY <1>4, WholeIsStep, ObjectIsStep, EndpointAssumption
       DEF DestroyMembers, Whole, Steps, Waiting, Objects
  <2>2. TypeOK'
    BY <1>4, <2>1
       DEF EndpointInvariant, TypeOK, DestroyMembers, entities, waiting,
           matching
  <2>3. StackDiscipline'
    BY <1>4, PushAndPop, EndpointAssumption
       DEF EndpointInvariant, TypeOK, DestroyMembers, At, GoTo, Objects,
           entities, StackDiscipline, Held, Level, Operating, Waiting
  <2>4. CallbackHasEndpoint'
    BY <1>4
       DEF EndpointInvariant, TypeOK, DestroyMembers, CallbackHasEndpoint,
           entities, matching
  <2>5. SleepIsDecidedLocked' /\ SleeperIsTold'
    BY <1>4
       DEF EndpointInvariant, TypeOK, DestroyMembers, At, GoTo,
           SleepIsDecidedLocked, SleeperIsTold, entities, waiting, matching
  <2> QED
    BY <2>2, <2>3, <2>4, <2>5 DEF EndpointInvariant
<1>5. ASSUME NEW i \in Objects, DeleteTopic(i) PROVE EndpointInvariant'
  <2>1. AtStep'
    BY <1>5, WholeIsStep, ObjectIsStep, EndpointAssumption
       DEF DeleteTopic, Whole, Steps, Waiting, Objects
  <2>2. TypeOK'
    BY <1>5, <2>1
       DEF EndpointInvariant, TypeOK, DeleteTopic, entities, waiting, matching
  <2>3. StackDiscipline'
    BY <1>5, PushAndPop, EndpointAssumption
       DEF EndpointInvariant, TypeOK, DeleteTopic, At, GoTo, Objects,
           entities, StackDiscipline, Held, Level, Operating, Waiting
  <2>4. CallbackHasEndpoint'
    BY <1>5
       DEF EndpointInvariant, TypeOK, DeleteTopic, CallbackHasEndpoint,
           entities, matching
  <2>5. SleepIsDecidedLocked' /\ SleeperIsTold'
    BY <1>5
       DEF EndpointInvariant, TypeOK, DeleteTopic, At, GoTo,
           SleepIsDecidedLocked, SleeperIsTold, entities, waiting, matching
  <2> QED
    BY <2>2, <2>3, <2>4, <2>5 DEF EndpointInvariant
<1>6. ASSUME NEW i \in Objects, UnregisterType(i) PROVE EndpointInvariant'
  <2>1. AtStep'
    BY <1>6, WholeIsStep, ObjectIsStep, EndpointAssumption, PreviousIsStep
       DEF UnregisterType, Whole, Steps, Waiting, Objects
  <2>2. TypeOK'
    BY <1>6, <2>1
       DEF EndpointInvariant, TypeOK, UnregisterType, entities, waiting,
           matching
  <2>3. StackDiscipline'
    <3>1. WholeBelow(i)'
      BY <1>6, PushAndPop
         DEF EndpointInvariant, WholeBelow, UnregisterType, At, Objects,
             StackDiscipline, Held, Level, Operating, Waiting, waiting,
             matching
    <3> QED
      BY <1>6, <3>1, PreviousIsTop DEF UnregisterType
  <2>4. CallbackHasEndpoint'
    BY <1>6
       DEF EndpointInvariant, TypeOK, UnregisterType, CallbackHasEndpoint,
           entities, matching
  <2>5. SleepIsDecidedLocked' /\ SleeperIsTold'
    BY <1>6
       DEF EndpointInvariant, TypeOK, UnregisterType, DestroyPrevious, At,
           GoTo, SleepIsDecidedLocked, SleeperIsTold, entities, waiting,
           matching
  <2> QED
    BY <2>2, <2>3, <2>4, <2>5 DEF EndpointInvariant
<1>7. ASSUME DeleteParticipant PROVE EndpointInvariant'
  <2>1. AtStep'
    BY <1>7, WholeIsStep, ObjectIsStep, EndpointAssumption
       DEF DeleteParticipant, Whole, Steps, Waiting, Objects
  <2>2. TypeOK'
    BY <1>7, <2>1
       DEF EndpointInvariant, TypeOK, DeleteParticipant, entities, waiting,
           matching
  <2>3. StackDiscipline'
    BY <1>7, PushAndPop, EndpointAssumption
       DEF EndpointInvariant, TypeOK, DeleteParticipant, At, GoTo, Objects,
           entities, StackDiscipline, Held, Level, Operating, Waiting
  <2>4. CallbackHasEndpoint'
    BY <1>7
       DEF EndpointInvariant, TypeOK, DeleteParticipant, CallbackHasEndpoint,
           entities, matching
  <2>5. SleepIsDecidedLocked' /\ SleeperIsTold'
    BY <1>7
       DEF EndpointInvariant, TypeOK, DeleteParticipant, At, GoTo,
           SleepIsDecidedLocked, SleeperIsTold, entities, waiting, matching
  <2> QED
    BY <2>2, <2>3, <2>4, <2>5 DEF EndpointInvariant
<1> QED
  BY <1>1, <1>2, <1>3, <1>4, <1>5, <1>6, <1>7 DEF Destroy

\* The mutex is held from the test to the sleep.
LEMMA WaitPreserves == EndpointInvariant /\ Wait => EndpointInvariant'
<1> SUFFICES ASSUME EndpointInvariant, Wait PROVE EndpointInvariant'
  OBVIOUS
<1>1. ASSUME NEW i \in Objects, Lock(i) PROVE EndpointInvariant'
  <2>1. AtStep'
    BY <1>1, WholeIsStep, ObjectIsStep, EndpointAssumption
       DEF Lock, Whole, Steps, Waiting, Objects
  <2>2. TypeOK'
    BY <1>1, <2>1
       DEF EndpointInvariant, TypeOK, Lock, entities, waiting, matching
  <2>3. StackDiscipline'
    BY <1>1, PushAndPop, EndpointAssumption
       DEF EndpointInvariant, TypeOK, Lock, At, GoTo, Objects, entities,
           StackDiscipline, Held, Level, Operating, Waiting
  <2>4. CallbackHasEndpoint'
    BY <1>1
       DEF EndpointInvariant, TypeOK, Lock, CallbackHasEndpoint, entities,
           matching
  <2>5. SleepIsDecidedLocked' /\ SleeperIsTold'
    BY <1>1
       DEF EndpointInvariant, TypeOK, Lock, At, GoTo, SleepIsDecidedLocked,
           SleeperIsTold, entities, waiting, matching
  <2> QED
    BY <2>2, <2>3, <2>4, <2>5 DEF EndpointInvariant
<1>2. ASSUME NEW i \in Objects, Test(i) PROVE EndpointInvariant'
  <2>1. AtStep'
    BY <1>2, WholeIsStep, ObjectIsStep, EndpointAssumption
       DEF Test, Return, Whole, Steps, Waiting, Objects
  <2>2. TypeOK'
    BY <1>2, <2>1
       DEF EndpointInvariant, TypeOK, Test, Return, entities, waiting,
           matching
  <2>3. StackDiscipline'
    BY <1>2, PushAndPop, EndpointAssumption
       DEF EndpointInvariant, TypeOK, Test, Return, At, GoTo, Objects,
           entities, StackDiscipline, Held, Level, Operating, Waiting
  <2>4. CallbackHasEndpoint'
    BY <1>2
       DEF EndpointInvariant, TypeOK, Test, Return, CallbackHasEndpoint,
           entities, matching
  <2>5. SleepIsDecidedLocked' /\ SleeperIsTold'
    BY <1>2
       DEF EndpointInvariant, TypeOK, Test, Return, At, GoTo,
           SleepIsDecidedLocked, SleeperIsTold, entities, waiting, matching
  <2> QED
    BY <2>2, <2>3, <2>4, <2>5 DEF EndpointInvariant
<1>3. ASSUME NEW i \in Objects, Sleep(i) PROVE EndpointInvariant'
  <2>1. AtStep'
    BY <1>3, WholeIsStep, ObjectIsStep, EndpointAssumption
       DEF Sleep, Whole, Steps, Waiting, Objects
  <2>2. TypeOK'
    BY <1>3, <2>1
       DEF EndpointInvariant, TypeOK, Sleep, entities, waiting, matching
  <2>3. StackDiscipline'
    BY <1>3, PushAndPop, EndpointAssumption
       DEF EndpointInvariant, TypeOK, Sleep, At, GoTo, Objects, entities,
           StackDiscipline, Held, Level, Operating, Waiting
  <2>4. CallbackHasEndpoint'
    BY <1>3
       DEF EndpointInvariant, TypeOK, Sleep, CallbackHasEndpoint, entities,
           matching
  <2>5. SleepIsDecidedLocked' /\ SleeperIsTold'
    BY <1>3
       DEF EndpointInvariant, TypeOK, Sleep, At, GoTo, SleepIsDecidedLocked,
           SleeperIsTold, entities, waiting, matching
  <2> QED
    BY <2>2, <2>3, <2>4, <2>5 DEF EndpointInvariant
<1>4. ASSUME NEW i \in Objects, Awake(i) PROVE EndpointInvariant'
  <2>1. AtStep'
    BY <1>4, WholeIsStep, ObjectIsStep, EndpointAssumption
       DEF Awake, Whole, Steps, Waiting, Objects
  <2>2. TypeOK'
    BY <1>4, <2>1
       DEF EndpointInvariant, TypeOK, Awake, entities, waiting, matching
  <2>3. StackDiscipline'
    BY <1>4, PushAndPop, EndpointAssumption
       DEF EndpointInvariant, TypeOK, Awake, At, GoTo, Objects, entities,
           StackDiscipline, Held, Level, Operating, Waiting
  <2>4. CallbackHasEndpoint'
    BY <1>4
       DEF EndpointInvariant, TypeOK, Awake, CallbackHasEndpoint, entities,
           matching
  <2>5. SleepIsDecidedLocked' /\ SleeperIsTold'
    BY <1>4
       DEF EndpointInvariant, TypeOK, Awake, At, GoTo, SleepIsDecidedLocked,
           SleeperIsTold, entities, waiting, matching
  <2> QED
    BY <2>2, <2>3, <2>4, <2>5 DEF EndpointInvariant
<1>5. ASSUME NEW i \in Objects, Expire(i) PROVE EndpointInvariant'
  <2>1. AtStep'
    BY <1>5, WholeIsStep, ObjectIsStep, EndpointAssumption
       DEF Expire, Return, Whole, Steps, Waiting, Objects
  <2>2. TypeOK'
    <3>1. answer' \in BOOLEAN
      BY <1>5 DEF Expire, Return
    <3> QED
      BY <1>5, <2>1, <3>1
         DEF EndpointInvariant, TypeOK, Expire, Return, entities, matching
  <2>3. StackDiscipline'
    BY <1>5, PushAndPop, EndpointAssumption
       DEF EndpointInvariant, TypeOK, Expire, Return, At, GoTo, Objects,
           entities, StackDiscipline, Held, Level, Operating, Waiting
  <2>4. CallbackHasEndpoint'
    BY <1>5
       DEF EndpointInvariant, TypeOK, Expire, Return, CallbackHasEndpoint,
           entities, matching
  <2>5. SleepIsDecidedLocked' /\ SleeperIsTold'
    BY <1>5
       DEF EndpointInvariant, TypeOK, Expire, Return, At, GoTo,
           SleepIsDecidedLocked, SleeperIsTold, entities, waiting, matching
  <2> QED
    BY <2>2, <2>3, <2>4, <2>5 DEF EndpointInvariant
<1> QED
  BY <1>1, <1>2, <1>3, <1>4, <1>5 DEF Wait

\* A listener call begins on an existing endpoint and stores its count under
\* the mutex.
LEMMA ListenPreserves ==
  ASSUME NEW i \in Objects, EndpointInvariant, MatchesChange(i) \/ Listen(i)
  PROVE EndpointInvariant'
<1>1. ASSUME MatchesChange(i) PROVE EndpointInvariant'
  <2>1. AtStep'
    BY <1>1 DEF EndpointInvariant, TypeOK, AtStep, MatchesChange
  <2>2. TypeOK'
    BY <1>1, <2>1
       DEF EndpointInvariant, TypeOK, MatchesChange, entities, waiting,
           matching
  <2>3. StackDiscipline'
    BY <1>1, PushAndPop, EndpointAssumption
       DEF EndpointInvariant, TypeOK, MatchesChange, At, GoTo, Objects,
           entities, StackDiscipline, Held, Level, Operating, Waiting
  <2>4. CallbackHasEndpoint'
    BY <1>1
       DEF EndpointInvariant, TypeOK, MatchesChange, CallbackHasEndpoint,
           entities, matching
  <2>5. SleepIsDecidedLocked' /\ SleeperIsTold'
    BY <1>1
       DEF EndpointInvariant, TypeOK, MatchesChange, At, GoTo,
           SleepIsDecidedLocked, SleeperIsTold, entities, waiting, matching
  <2> QED
    BY <2>2, <2>3, <2>4, <2>5 DEF EndpointInvariant
<1>2. ASSUME Record(i) PROVE EndpointInvariant'
  <2>1. AtStep'
    BY <1>2 DEF EndpointInvariant, TypeOK, AtStep, Record
  <2>2. TypeOK'
    BY <1>2, <2>1, RecordedCountType
       DEF EndpointInvariant, TypeOK, Record, entities, waiting, matching
  <2>3. StackDiscipline'
    BY <1>2, PushAndPop, EndpointAssumption
       DEF EndpointInvariant, TypeOK, Record, At, GoTo, Objects, entities,
           StackDiscipline, Held, Level, Operating, Waiting
  <2>4. CallbackHasEndpoint'
    BY <1>2
       DEF EndpointInvariant, TypeOK, Record, CallbackHasEndpoint, entities,
           matching
  <2>5. SleepIsDecidedLocked' /\ SleeperIsTold'
    BY <1>2
       DEF EndpointInvariant, TypeOK, Record, At, GoTo, SleepIsDecidedLocked,
           SleeperIsTold, entities, waiting, matching
  <2> QED
    BY <2>2, <2>3, <2>4, <2>5 DEF EndpointInvariant
<1>3. ASSUME Notify(i) PROVE EndpointInvariant'
  <2>1. AtStep'
    BY <1>3 DEF EndpointInvariant, TypeOK, AtStep, Notify
  <2>2. TypeOK'
    BY <1>3, <2>1
       DEF EndpointInvariant, TypeOK, Notify, entities, waiting, matching
  <2>3. StackDiscipline'
    BY <1>3, PushAndPop, EndpointAssumption
       DEF EndpointInvariant, TypeOK, Notify, At, GoTo, Objects, entities,
           StackDiscipline, Held, Level, Operating, Waiting
  <2>4. CallbackHasEndpoint'
    BY <1>3
       DEF EndpointInvariant, TypeOK, Notify, CallbackHasEndpoint, entities,
           matching
  <2>5. SleepIsDecidedLocked' /\ SleeperIsTold'
    BY <1>3
       DEF EndpointInvariant, TypeOK, Notify, At, GoTo, SleepIsDecidedLocked,
           SleeperIsTold, entities, waiting, matching
  <2> QED
    BY <2>2, <2>3, <2>4, <2>5 DEF EndpointInvariant
<1> QED
  BY <1>1, <1>2, <1>3 DEF Listen

\* Every step preserves the invariant.
LEMMA NextPreserves == EndpointInvariant /\ [Next]_vars => EndpointInvariant'
<1> SUFFICES ASSUME EndpointInvariant, [Next]_vars PROVE EndpointInvariant'
  OBVIOUS
<1>1. CASE UNCHANGED vars
  BY <1>1 DEF EndpointInvariant, TypeOK, AtStep, StackDiscipline, Held, Level,
     CallbackHasEndpoint, SleepIsDecidedLocked, SleeperIsTold, At, vars,
     entities, waiting, matching
<1> QED
  BY <1>1, ConstructPreserves, DestroyPreserves, WaitPreserves, ListenPreserves
     DEF Next, Main

\* The inductive invariant holds in every reachable state.
THEOREM EndpointInvariance == Spec => []EndpointInvariant
<1> QED
  BY InitInvariant, NextPreserves, PTL DEF Spec

\* The main thread's steps and the variables keep their types.
THEOREM EndpointTypes == Spec => []TypeOK
<1>1. EndpointInvariant => TypeOK
  BY DEF EndpointInvariant
<1> QED
  BY <1>1, EndpointInvariance, PTL

\* Whichever creation fails, nothing is left to the participant's destructor.
THEOREM EverythingIsCleanedUp == Spec => []CleanUpIsComplete
<1>1. EndpointInvariant => CleanUpIsComplete
  <2> SUFFICES ASSUME EndpointInvariant, pc.at \in {"deleteParticipant", "gone"}
               PROVE /\ types = {} /\ topics = {} /\ groups = {}
                     /\ endpoints = {} /\ listeners = {}
    BY DEF CleanUpIsComplete
  <2>1. pc.of = 0
    BY DEF EndpointInvariant, TypeOK, AtStep, Whole, Steps, Waiting
  <2>2. 1..(0 - 1) = {}
    OBVIOUS
  <2> QED
    BY <2>1, <2>2
       DEF EndpointInvariant, StackDiscipline, Held, Level, Operating, Waiting
<1> QED
  BY <1>1, EndpointInvariance, PTL

\* A listener call never touches a mutex that is not constructed or no more.
THEOREM CallbacksAreSafe == Spec => []CallbackIsSafe
<1>1. EndpointInvariant => endpoints \subseteq listeners
  <2> SUFFICES ASSUME EndpointInvariant PROVE endpoints \subseteq listeners
    OBVIOUS
  <2>1. Level \in Int
    BY EndpointAssumption DEF EndpointInvariant, TypeOK, AtStep, Level, Objects
  <2>2. 1..(Level - 1) \subseteq 1..Level
    BY <2>1
  <2> QED
    BY <2>2 DEF EndpointInvariant, StackDiscipline, Held
<1>2. EndpointInvariant => CallbackIsSafe
  BY <1>1 DEF EndpointInvariant, CallbackHasEndpoint, CallbackIsSafe
<1> QED
  BY <1>2, EndpointInvariance, PTL

\* No wake-up is lost between the test of the count and the sleep.
THEOREM NoLostWakeUp == Spec => []SleeperIsTold
<1>1. EndpointInvariant => SleeperIsTold
  BY DEF EndpointInvariant
<1> QED
  BY <1>1, EndpointInvariance, PTL

\* A wait answers by the count at its end: only Test and Expire lead back from
\* a wait to the loop.
THEOREM WaitsAnswerTheCount == Spec => MatchIsNotMissed
<1>1. ASSUME [Next]_vars, NEW i \in Objects,
             pc.of = i, pc.at \in {"test", "asleep"}, pc'.at = "running"
      PROVE answer' = (matchCount[i] > 0)
  <2>1. pc.of = i /\ pc.at \in {"test", "asleep"} /\ pc'.at = "running"
    BY <1>1
  <2>2. CASE UNCHANGED vars
    BY <2>1, <2>2 DEF vars
  <2>3. CASE Construct
    BY <2>1, <2>3 DEF Construct, CreateParticipant, RegisterType, CreateTopic,
       CreateGroup, CreateEndpoint, At
  <2>4. CASE Destroy
    BY <2>1, <2>4 DEF Destroy, Shutdown, DeleteEndpoint, DeleteGroup,
       DestroyMembers, DeleteTopic, UnregisterType, DeleteParticipant, At
  <2>5. CASE \E j \in Objects : MatchesChange(j) \/ Listen(j)
    BY <2>1, <2>5 DEF MatchesChange, Listen, Record, Notify
  <2>6. ASSUME NEW j \in Objects, Lock(j) \/ Sleep(j) \/ Awake(j) PROVE FALSE
    BY <2>1, <2>6 DEF Lock, Sleep, Awake, At, GoTo
  <2>7. ASSUME NEW j \in Objects, Test(j) PROVE answer' = (matchCount[i] > 0)
    <3>1. j = i
      BY <2>1, <2>7 DEF Test, At
    <3>2. ~GoTo("sleep", i)
      BY <2>1 DEF GoTo
    <3> QED
      BY <2>7, <3>1, <3>2 DEF Test, Return
  <2>8. ASSUME NEW j \in Objects, Expire(j) PROVE answer' = (matchCount[i] > 0)
    <3>1. j = i
      BY <2>1, <2>8 DEF Expire, At
    <3> QED
      BY <2>8, <3>1 DEF Expire, Return
  <2> QED
    BY <2>2, <2>3, <2>4, <2>5, <2>6, <2>7, <2>8, <1>1 DEF Next, Main, Wait
<1>2. [Next]_vars =>
        [\A i \in Objects :
           pc.of = i /\ pc.at \in {"test", "asleep"} /\ pc'.at = "running"
             => answer' = (matchCount[i] > 0)]_vars
  BY <1>1
<1> QED
  BY <1>2, PTL DEF Spec, MatchIsNotMissed
=============================================================================
