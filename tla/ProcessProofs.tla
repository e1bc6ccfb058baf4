---------------------------- MODULE ProcessProofs ----------------------------
(***************************************************************************)
(* Proofs about one process: that its parser reads the grammar, for any    *)
(* number of arguments and any texts, and that its life is orderly, for    *)
(* every tick count and any length of the wait.                            *)
(*                                                                         *)
(* The parser: HasRead says that the positions read so far are those every *)
(* reading of the command line has before index, so a refusal at index     *)
(* refutes them all and the end of the arguments leaves exactly one.       *)
(* The life: LifetimeInvariant says for each place in main which           *)
(* handlers are in force, which are remembered, and what may be late; each *)
(* property follows from it in one step.                                   *)
(***************************************************************************)
EXTENDS ProcessConfiguration, ProcessLifetime, TLAPS

\* P holds the positions of options among the first n arguments.
OptionsStart(P, n) ==
  \A i \in 1..n : i \in P <=> (i = 1 \/ i - 1 \notin P \/ arguments[i - 1] \notin Valued)

\* What stands at P is known, given once, and has a good value where it takes one.
OptionsAreGood(P, n) ==
  \A i \in P :
    /\ arguments[i] \in Options /\ Accepts(arguments[i])
    /\ \A k \in P : arguments[k] = arguments[i] => k = i
    /\ arguments[i] \in Valued => i < n /\ ValueIsGood(arguments[i], arguments[i + 1])

\* The configuration says what the options at P say.
SaysWhat(P) ==
  /\ \A i \in P : arguments[i] = "--domain-id" =>
       configuration.domainId = NumberOf[arguments[i + 1]]
  /\ (\A i \in P : arguments[i] # "--domain-id") => configuration.domainId = 0
  /\ \A i \in P : arguments[i] = "--participant-name" =>
       configuration.participantName = arguments[i + 1]
  /\ (\A i \in P : arguments[i] # "--participant-name") =>
       configuration.participantName = Specification[executable].defaultParticipantName
  /\ \A i \in P : arguments[i] = "--tick-ms" =>
       configuration.tickInterval = NumberOf[arguments[i + 1]]
  /\ (\A i \in P : arguments[i] # "--tick-ms") =>
       configuration.tickInterval = Specification[executable].defaultTickInterval
  /\ \A i \in P : arguments[i] = "--tick-count" =>
       configuration.tickCount = NumberOf[arguments[i + 1]]
  /\ (\A i \in P : arguments[i] # "--tick-count") => configuration.tickCount = None
  /\ \A i \in P : arguments[i] = "--auto-pursuit" => configuration.automatePursuit = TRUE
  /\ (\A i \in P : arguments[i] # "--auto-pursuit") => configuration.automatePursuit = FALSE

\* Before index the loop has read the options at P, as any reading must.
HasRead(P) ==
  /\ P \subseteq 1..(index - 1)
  /\ OptionsStart(P, index - 1)
  /\ index = 1 \/ index - 1 \notin P \/ arguments[index - 1] \notin Valued
  /\ OptionsAreGood(P, index - 1)
  /\ seen = {arguments[i] : i \in P}
  /\ \A Q \in SUBSET (1..Len(arguments)) :
       OptionsStart(Q, Len(arguments)) => Q \cap (1..(index - 1)) = P

\* Names a participant may have before a suffix is added.
ParticipantNames ==
  {t \in Texts \cup {Specification[e].defaultParticipantName : e \in Executables} :
     LengthOf[t] \in 1..MaxNameLength}

\* The configurations every later check accepts.
Configurations ==
  [domainId : 0..MaxDomainId,
   participantName : ParticipantNames,
   tickInterval : 1..MaxTickInterval,
   tickCount : {None} \cup (Nat \ {0}),
   automatePursuit : BOOLEAN]

\* The first n names are the configured one with the first n suffixes.
ComposedFrom(n) ==
  \A i \in 1..n :
    /\ names[i] = <<configuration.participantName, EndpointSuffixes[executable][i]>>
    /\ ComposedLength(configuration.participantName, EndpointSuffixes[executable][i])
         \in 1..MaxNameLength

\* The suffixes of all executables.
SuffixTexts ==
  {""} \cup UNION {{EndpointSuffixes[e][k] : k \in 1..Len(EndpointSuffixes[e])} :
                     e \in Executables}

\* How the parser refuses.
Errors ==
  {"unknownOption", "specifiedTwice", "valueMissing", "notANumber", "domainIdTooLarge",
   "nameEmpty", "nameTooLong", "tickNotPositive", "tickTooLarge", "countNotPositive"}

\* The types of the state.
ConfigurationTypes ==
  /\ executable \in Executables
  /\ arguments \in Seq(Texts)
  /\ index \in 1..(Len(arguments) + 1)
  /\ configuration \in Configurations
  /\ names \in Seq(ParticipantNames \X SuffixTexts)

\* Which names have been composed.
NamesFollow ==
  /\ status = "parsing" => names = <<>>
  /\ status = "composing" =>
       Len(names) <= Len(EndpointSuffixes[executable]) /\ ComposedFrom(Len(names))
  /\ ReadyMeansUsable

\* While the loop runs, some positions are what it has read.
ReadingInvariant ==
  /\ status = "parsing" => \E P : HasRead(P) /\ SaysWhat(P)
  /\ ParserReadsTheGrammar

-----------------------------------------------------------------------------
(* Facts about the tables.                                                 *)

\* The observer composes no names, the others some, no suffix twice.
LEMMA SuffixesOfAnExecutable ==
  \A e \in Executables :
    /\ Len(EndpointSuffixes[e]) \in Nat
    /\ e # "observer" => Len(EndpointSuffixes[e]) > 0
    /\ \A i, k \in 1..Len(EndpointSuffixes[e]) :
         EndpointSuffixes[e][i] = EndpointSuffixes[e][k] => i = k
<1> TAKE e \in Executables
<1>1. CASE e = "observer"
  BY ONLY <1>1 DEF EndpointSuffixes
<1>2. CASE e = "console"
  <2> DEFINE s == <<"", "explosion-reader", "assignment-writer", "command-writer">>
  <2>1. EndpointSuffixes[e] = s
    BY ONLY <1>2 DEF EndpointSuffixes
  <2>5. Len(s) = 4
    OBVIOUS
  <2>6. s[1] = "" /\ s[2] = "explosion-reader" /\ s[3] = "assignment-writer"
        /\ s[4] = "command-writer"
    OBVIOUS
  <2>7. \A i \in 1..4 : i = 1 \/ i = 2 \/ i = 3 \/ i = 4
    OBVIOUS
  <2>3. \A i, j \in 1..4 : s[i] = s[j] => i = j
    BY ONLY <2>6, <2>7
  <2> HIDE DEF s
  <2>4. \A i, j \in 1..Len(s) : s[i] = s[j] => i = j
    BY ONLY <2>5, <2>3
  <2> QED BY ONLY <2>1, <2>4, <2>5
<1>3. CASE e = "interceptor"
  <2> DEFINE s == <<"", "explosion-writer", "assignment-reader", "command-reader",
                   "target-reader">>
  <2>1. EndpointSuffixes[e] = s
    BY ONLY <1>3 DEF EndpointSuffixes
  <2>5. Len(s) = 5
    OBVIOUS
  <2>6. s[1] = "" /\ s[2] = "explosion-writer" /\ s[3] = "assignment-reader"
        /\ s[4] = "command-reader" /\ s[5] = "target-reader"
    OBVIOUS
  <2>7. \A i \in 1..5 : i = 1 \/ i = 2 \/ i = 3 \/ i = 4 \/ i = 5
    OBVIOUS
  <2>3. \A i, j \in 1..5 : s[i] = s[j] => i = j
    BY ONLY <2>6, <2>7
  <2> HIDE DEF s
  <2>4. \A i, j \in 1..Len(s) : s[i] = s[j] => i = j
    BY ONLY <2>5, <2>3
  <2> QED BY ONLY <2>1, <2>4, <2>5
<1> QED BY <1>1, <1>2, <1>3 DEF Executables

\* Every suffix is one of the texts a name may end with.
LEMMA SuffixesAreTexts ==
  \A e \in Executables : \A k \in 1..Len(EndpointSuffixes[e]) :
    EndpointSuffixes[e][k] \in SuffixTexts
<1> SUFFICES ASSUME NEW e \in Executables, NEW k \in 1..Len(EndpointSuffixes[e])
             PROVE  EndpointSuffixes[e][k] \in SuffixTexts
  OBVIOUS
<1> DEFINE T(x) == {EndpointSuffixes[x][i] : i \in 1..Len(EndpointSuffixes[x])}
<1>1. EndpointSuffixes[e][k] \in T(e)
  OBVIOUS
<1>2. T(e) \in {T(x) : x \in Executables}
  OBVIOUS
<1> HIDE DEF T
<1>3. EndpointSuffixes[e][k] \in UNION {T(x) : x \in Executables}
  BY <1>1, <1>2
<1> USE DEF T
<1> QED BY <1>3 DEF SuffixTexts

\* A composed name is not empty, and one without a suffix is the name itself.
LEMMA ComposedLengths ==
  ASSUME NEW name, NEW suffix, LengthOf[name] \in Nat \ {0},
         suffix = "" \/ LengthOf[suffix] \in Nat
  PROVE  /\ ComposedLength(name, suffix) \in Nat \ {0}
         /\ ComposedLength(name, "") = LengthOf[name]
<1>1. (IF "" = "" THEN 0 ELSE 1 + LengthOf[""]) = 0
  OBVIOUS
<1>2. ComposedLength(name, "") = LengthOf[name] + 0
  BY <1>1 DEF ComposedLength
<1> DEFINE n == LengthOf[name]
<1>6. n \in Nat \ {0}
  OBVIOUS
<1> HIDE DEF n
<1>7. n + 0 = n
  BY ONLY <1>6
<1>3. ComposedLength(name, "") = LengthOf[name]
  BY <1>2, <1>7 DEF n
<1>4. CASE suffix = ""
  BY <1>3, <1>4
<1>5. CASE suffix # ""
  <2>1. (IF suffix = "" THEN 0 ELSE 1 + LengthOf[suffix]) = 1 + LengthOf[suffix]
    BY <1>5
  <2>2. ComposedLength(name, suffix) = LengthOf[name] + (1 + LengthOf[suffix])
    BY <2>1 DEF ComposedLength
  <2>3. \A m \in Nat : n + (1 + m) \in Nat \ {0}
    BY ONLY <1>6
  <2>4. n + (1 + LengthOf[suffix]) \in Nat \ {0}
    BY <1>5, <2>3
  <2> QED BY <1>3, <2>2, <2>4 DEF n
<1> QED BY <1>4, <1>5

\* The arguments are a sequence of texts.
LEMMA ArgumentsAreTexts == Init => arguments \in Seq(Texts)
<1> SUFFICES ASSUME Init PROVE arguments \in Seq(Texts)
  OBVIOUS
<1>1. PICK m \in 0..MaxArguments : arguments \in [1..m -> Texts]
  BY DEF Init, BoundedSeq, SeqOf
<1>2. m \in Nat
  BY <1>1, ConfigurationAssumption
<1> QED BY <1>1, <1>2

\* What an executable starts from is acceptable.
LEMMA DefaultsAreAcceptable ==
  \A e \in Executables : DefaultConfiguration(e) \in Configurations
<1> TAKE e \in Executables
<1>1. 0 \in 0..MaxDomainId
  BY ConfigurationAssumption
<1>2. Specification[e].defaultParticipantName \in ParticipantNames
  BY DefaultsAssumption DEF ParticipantNames
<1>3. Specification[e].defaultTickInterval \in 1..MaxTickInterval
  BY DefaultsAssumption
<1> QED BY <1>1, <1>2, <1>3 DEF DefaultConfiguration, Configurations

-----------------------------------------------------------------------------
(* The state has its types.                                                *)

\* The process starts with the right types.
LEMMA TypesStart == Init => ConfigurationTypes
<1> SUFFICES ASSUME Init PROVE ConfigurationTypes
  OBVIOUS
<1>1. arguments \in Seq(Texts)
  BY ArgumentsAreTexts
<1>2. index \in 1..(Len(arguments) + 1)
  BY <1>1 DEF Init
<1>3. configuration \in Configurations
  BY DefaultsAreAcceptable DEF Init
<1>4. names \in Seq(ParticipantNames \X SuffixTexts)
  BY DEF Init
<1> QED BY <1>1, <1>2, <1>3, <1>4 DEF Init, ConfigurationTypes

\* An option with a value is either refused or stored with a good value.
LEMMA ValuedOption ==
  ASSUME ConfigurationTypes, NEW option \in Valued, NEW field, NEW error, NEW meaning,
         ParseValued(option, field, error, meaning),
         error \in Errors \cup {"none"},
         index < Len(arguments) => (error = "none" <=> ValueIsGood(option, Value))
  PROVE  /\ status = "parsing" /\ index <= Len(arguments) /\ arguments[index] = option
         /\ UNCHANGED <<executable, arguments, names>>
         /\ \/ /\ index < Len(arguments) /\ Accepts(option) /\ option \notin seen
               /\ ValueIsGood(option, Value)
               /\ configuration' = [configuration EXCEPT ![field] = meaning]
               /\ seen' = seen \cup {option} /\ index' = index + 2 /\ status' = status
            \/ /\ UNCHANGED <<index, configuration, seen>>
               /\ status' \in Errors
               /\ \/ ~Accepts(option) \/ option \in seen \/ index = Len(arguments)
                  \/ index < Len(arguments) /\ ~ValueIsGood(option, Value)
<1>1. Len(arguments) \in Nat /\ index \in Nat
  BY DEF ConfigurationTypes
<1>2. status = "parsing" /\ index <= Len(arguments) /\ arguments[index] = option
  BY DEF ParseValued, At
<1>3. CASE OptionError(option, TRUE) # "none"
  <2>1. Fail(OptionError(option, TRUE))
    BY <1>3 DEF ParseValued
  <2>2. \/ OptionError(option, TRUE) = "unknownOption" /\ ~Accepts(option)
        \/ OptionError(option, TRUE) = "specifiedTwice" /\ option \in seen
        \/ OptionError(option, TRUE) = "valueMissing" /\ index = Len(arguments)
    BY <1>3 DEF OptionError
  <2>3. OptionError(option, TRUE) \in Errors
    BY <2>2 DEF Errors
  <2> QED BY <1>2, <2>1, <2>2, <2>3 DEF Fail
<1>4. CASE OptionError(option, TRUE) = "none"
  <2>1. Accepts(option) /\ option \notin seen /\ index # Len(arguments)
    BY <1>4 DEF OptionError
  <2>2. index < Len(arguments)
    BY <1>1, <1>2, <2>1
  <2>3. CASE error # "none"
    BY <1>2, <1>4, <2>2, <2>3 DEF ParseValued, Fail, Errors
  <2>4. CASE error = "none"
    BY <1>2, <1>4, <2>1, <2>2, <2>4 DEF ParseValued, Store
  <2> QED BY <2>3, <2>4
<1> QED BY <1>3, <1>4

\* The option at index has been stored, with its value where it takes one.
Stored ==
  LET option == arguments[index]
      value == arguments[index + 1]
  IN /\ option \in Options /\ Accepts(option) /\ option \notin seen
     /\ option \in Valued =>
          index < Len(arguments) /\ ValueIsGood(option, value) /\ index' = index + 2
     /\ option \notin Valued => index' = index + 1
     /\ seen' = seen \cup {option}
     /\ status' = status
     /\ option = "--domain-id" =>
          configuration' = [configuration EXCEPT !.domainId = NumberOf[value]]
     /\ option = "--participant-name" =>
          configuration' = [configuration EXCEPT !.participantName = value]
     /\ option = "--tick-ms" =>
          configuration' = [configuration EXCEPT !.tickInterval = NumberOf[value]]
     /\ option = "--tick-count" =>
          configuration' = [configuration EXCEPT !.tickCount = NumberOf[value]]
     /\ option = "--auto-pursuit" =>
          configuration' = [configuration EXCEPT !.automatePursuit = TRUE]

\* The option at index has been refused, for a reason the grammar knows.
Refused ==
  LET option == arguments[index]
  IN /\ \/ option \notin Options \/ ~Accepts(option) \/ option \in seen
        \/ option \in Valued /\ index = Len(arguments)
        \/ option \in Valued /\ index < Len(arguments)
             /\ ~ValueIsGood(option, arguments[index + 1])
     /\ status' \in Errors
     /\ UNCHANGED <<index, configuration, seen>>

\* The checks of a value are those of the reference.
LEMMA ChecksAgree ==
  ASSUME NEW value \in Texts
  PROVE  /\ DomainIdError(value) = "none" <=> ValueIsGood("--domain-id", value)
         /\ ParticipantNameError(value) = "none" <=> ValueIsGood("--participant-name", value)
         /\ TickIntervalError(value) = "none" <=> ValueIsGood("--tick-ms", value)
         /\ TickCountError(value) = "none" <=> ValueIsGood("--tick-count", value)
<1>1. NumberOf[value] \in Nat \cup {NotANumber} /\ LengthOf[value] \in Nat
        /\ NotANumber \notin Nat
  BY ConfigurationAssumption
<1>2. MaxDomainId \in Nat /\ MaxNameLength \in Nat /\ MaxTickInterval \in Nat
  BY ConfigurationAssumption
<1>3. DomainIdError(value) = "none" <=> ValueIsGood("--domain-id", value)
  BY <1>1, <1>2 DEF DomainIdError, ValueIsGood
<1>4. ParticipantNameError(value) = "none" <=> ValueIsGood("--participant-name", value)
  BY <1>1, <1>2 DEF ParticipantNameError, ValueIsGood
<1>5. TickIntervalError(value) = "none" <=> ValueIsGood("--tick-ms", value)
  BY <1>1, <1>2 DEF TickIntervalError, ValueIsGood
<1>6. TickCountError(value) = "none" <=> ValueIsGood("--tick-count", value)
  BY <1>1, <1>2 DEF TickCountError, ValueIsGood
<1> QED BY <1>3, <1>4, <1>5, <1>6

\* One iteration of the loop stores the option at index or refuses it.
LEMMA OneIteration ==
  ASSUME ConfigurationTypes, ParseOption
  PROVE  /\ status = "parsing" /\ index <= Len(arguments)
         /\ UNCHANGED <<executable, arguments, names>>
         /\ Stored \/ Refused
<1>1. index < Len(arguments) => Value \in Texts
  BY DEF ConfigurationTypes, Value
<1>2. CASE ParseDomainId
  <2>1. DomainIdError(Value) \in Errors \cup {"none"}
    BY DEF DomainIdError, Errors
  <2>2. index < Len(arguments) =>
          (DomainIdError(Value) = "none" <=> ValueIsGood("--domain-id", Value))
    BY <1>1, ChecksAgree
  <2>3. "--domain-id" \in Valued /\ Valued \subseteq Options
    BY DEF Valued, Options
  <2>4. ParseValued("--domain-id", "domainId", DomainIdError(Value), Number)
    BY <1>2 DEF ParseDomainId
  <2> HIDE DEF ParseDomainId
  <2> QED BY <2>1, <2>2, <2>3, <2>4, ValuedOption DEF Stored, Refused, Value, Number
<1>3. CASE ParseParticipantName
  <2>1. ParticipantNameError(Value) \in Errors \cup {"none"}
    BY DEF ParticipantNameError, Errors
  <2>2. index < Len(arguments) =>
          (ParticipantNameError(Value) = "none" <=> ValueIsGood("--participant-name", Value))
    BY <1>1, ChecksAgree
  <2>3. "--participant-name" \in Valued /\ Valued \subseteq Options
    BY DEF Valued, Options
  <2>4. ParseValued("--participant-name", "participantName", ParticipantNameError(Value),
                    Value)
    BY <1>3 DEF ParseParticipantName
  <2> QED BY <2>1, <2>2, <2>3, <2>4, ValuedOption DEF Stored, Refused, Value
<1>4. CASE ParseTickInterval
  <2>1. TickIntervalError(Value) \in Errors \cup {"none"}
    BY DEF TickIntervalError, Errors
  <2>2. index < Len(arguments) =>
          (TickIntervalError(Value) = "none" <=> ValueIsGood("--tick-ms", Value))
    BY <1>1, ChecksAgree
  <2>3. "--tick-ms" \in Valued /\ Valued \subseteq Options
    BY DEF Valued, Options
  <2>4. ParseValued("--tick-ms", "tickInterval", TickIntervalError(Value), Number)
    BY <1>4 DEF ParseTickInterval
  <2> QED BY <2>1, <2>2, <2>3, <2>4, ValuedOption DEF Stored, Refused, Value, Number
<1>5. CASE ParseTickCount
  <2>1. TickCountError(Value) \in Errors \cup {"none"}
    BY DEF TickCountError, Errors
  <2>2. index < Len(arguments) =>
          (TickCountError(Value) = "none" <=> ValueIsGood("--tick-count", Value))
    BY <1>1, ChecksAgree
  <2>3. "--tick-count" \in Valued /\ Valued \subseteq Options
    BY DEF Valued, Options
  <2>4. ParseValued("--tick-count", "tickCount", TickCountError(Value), Number)
    BY <1>5 DEF ParseTickCount
  <2> QED BY <2>1, <2>2, <2>3, <2>4, ValuedOption DEF Stored, Refused, Value, Number
<1>6. CASE ParseAutomatedPursuit
  BY <1>6 DEF ParseAutomatedPursuit, At, OptionError, Fail, Store, Stored, Refused,
       Errors, Options, Valued
<1>7. CASE ParseUnknown
  BY <1>7 DEF ParseUnknown, Fail, Refused, Errors
<1> QED BY <1>2, <1>3, <1>4, <1>5, <1>6, <1>7 DEF ParseOption

\* What is stored keeps the configuration acceptable.
LEMMA StoredIsAcceptable ==
  ASSUME ConfigurationTypes, Stored
  PROVE  configuration' \in Configurations
<1> DEFINE value == arguments[index + 1]
<1>1. configuration \in Configurations
  BY DEF ConfigurationTypes
<1>2. arguments[index] \in Valued => value \in Texts /\ ValueIsGood(arguments[index], value)
  BY DEF ConfigurationTypes, Stored
<1>3. arguments[index] \in Options
  BY DEF Stored
<1>4. CASE arguments[index] = "--domain-id"
  <2>1. NumberOf[value] \in 0..MaxDomainId
    BY <1>2, <1>4 DEF ValueIsGood, Valued, Options
  <2>2. configuration' = [configuration EXCEPT !.domainId = NumberOf[value]]
    BY <1>4 DEF Stored
  <2> QED BY <1>1, <2>1, <2>2 DEF Configurations
<1>5. CASE arguments[index] = "--participant-name"
  <2>1. value \in ParticipantNames
    BY <1>2, <1>5 DEF ValueIsGood, Valued, Options, ParticipantNames
  <2>2. configuration' = [configuration EXCEPT !.participantName = value]
    BY <1>5 DEF Stored
  <2> QED BY <1>1, <2>1, <2>2 DEF Configurations
<1>6. CASE arguments[index] = "--tick-ms"
  <2>1. NumberOf[value] \in 1..MaxTickInterval
    BY <1>2, <1>6 DEF ValueIsGood, Valued, Options
  <2>2. configuration' = [configuration EXCEPT !.tickInterval = NumberOf[value]]
    BY <1>6 DEF Stored
  <2> QED BY <1>1, <2>1, <2>2 DEF Configurations
<1>7. CASE arguments[index] = "--tick-count"
  <2>1. NumberOf[value] \in Nat \ {0}
    BY <1>2, <1>7 DEF ValueIsGood, Valued, Options
  <2>2. configuration' = [configuration EXCEPT !.tickCount = NumberOf[value]]
    BY <1>7 DEF Stored
  <2> QED BY <1>1, <2>1, <2>2 DEF Configurations
<1>8. CASE arguments[index] = "--auto-pursuit"
  BY <1>1, <1>8 DEF Stored, Configurations
<1> QED BY <1>3, <1>4, <1>5, <1>6, <1>7, <1>8 DEF Options

\* The steps after the loop change the names and the status only.
LEMMA LaterSteps ==
  ASSUME Return \/ ComposeParticipantName \/ NamesReady
  PROVE  UNCHANGED <<executable, arguments, index, configuration, seen>>
BY DEF Return, ComposeParticipantName, NamesReady, Fail

\* Every step keeps the types.
LEMMA TypesKept == ConfigurationTypes /\ [Next]_vars => ConfigurationTypes'
<1> SUFFICES ASSUME ConfigurationTypes, [Next]_vars PROVE ConfigurationTypes'
  OBVIOUS
<1>1. Len(arguments) \in Nat
  BY DEF ConfigurationTypes
<1>2. CASE ParseOption
  <2>1. UNCHANGED <<executable, arguments, names>>
    BY <1>2, OneIteration
  <2>2. CASE Stored
    <3>1. configuration' \in Configurations
      BY <2>2, StoredIsAcceptable
    <3>2. index' \in 1..(Len(arguments) + 1)
      <4>1. index <= Len(arguments)
        BY <1>2, OneIteration
      <4>2. index' = index + 1 \/ (index' = index + 2 /\ index < Len(arguments))
        BY <2>2 DEF Stored
      <4> QED BY <1>1, <4>1, <4>2 DEF ConfigurationTypes
    <3> QED BY <2>1, <3>1, <3>2 DEF ConfigurationTypes
  <2>3. CASE Refused
    BY <2>1, <2>3 DEF Refused, ConfigurationTypes
  <2> QED BY <1>2, <2>2, <2>3, OneIteration
<1>3. CASE Return \/ ComposeParticipantName \/ NamesReady
  <2>1. UNCHANGED <<executable, arguments, index, configuration, seen>>
    BY <1>3, LaterSteps
  <2>2. names' \in Seq(ParticipantNames \X SuffixTexts)
    <3>1. names \in Seq(ParticipantNames \X SuffixTexts)
            /\ configuration.participantName \in ParticipantNames
      BY DEF ConfigurationTypes, Configurations
    <3>2. CASE Return
      BY <3>1, <3>2 DEF Return
    <3>3. CASE ComposeParticipantName
      <4>1. Len(names) + 1 \in 1..Len(EndpointSuffixes[executable])
        BY <3>1, <3>3, SuffixesOfAnExecutable
           DEF ComposeParticipantName, ConfigurationTypes
      <4>2. EndpointSuffixes[executable][Len(names) + 1] \in SuffixTexts
        BY <4>1, SuffixesAreTexts DEF ConfigurationTypes
      <4>3. <<configuration.participantName, EndpointSuffixes[executable][Len(names) + 1]>>
              \in ParticipantNames \X SuffixTexts
        BY <3>1, <4>2
      <4> HIDE DEF SuffixTexts
      <4> QED BY <3>1, <3>3, <4>3 DEF ComposeParticipantName, Fail
    <3>4. CASE NamesReady
      <4>1. "" \in SuffixTexts
        BY DEF SuffixTexts
      <4>2. <<configuration.participantName, "">> \in ParticipantNames \X SuffixTexts
        BY <3>1, <4>1
      <4>3. <<<<configuration.participantName, "">>>> \in Seq(ParticipantNames \X SuffixTexts)
        <5>1. \A S : \A x \in S : <<x>> \in Seq(S)
          OBVIOUS
        <5> QED BY ONLY <4>2, <5>1
      <4> QED BY <3>1, <3>4, <4>3 DEF NamesReady
    <3> QED BY <1>3, <3>2, <3>3, <3>4
  <2> QED BY <2>1, <2>2 DEF ConfigurationTypes
<1>4. CASE UNCHANGED vars
  BY <1>4 DEF vars, ConfigurationTypes
<1> QED BY <1>2, <1>3, <1>4 DEF Next

-----------------------------------------------------------------------------
(* The names that are composed.                                            *)

\* No name is composed at the start.
LEMMA NamesStart == Init => NamesFollow
BY DEF Init, NamesFollow, ReadyMeansUsable

\* Every step keeps what is known of the names.
LEMMA NamesKept ==
  ConfigurationTypes /\ NamesFollow /\ [Next]_vars => NamesFollow'
<1> SUFFICES ASSUME ConfigurationTypes, NamesFollow, [Next]_vars PROVE NamesFollow'
  OBVIOUS
<1> DEFINE suffixes == EndpointSuffixes[executable]
           name == configuration.participantName
<1>1. /\ Len(suffixes) \in Nat /\ Len(names) \in Nat
      /\ names \in Seq(ParticipantNames \X SuffixTexts)
      /\ executable # "observer" => Len(suffixes) > 0
  BY SuffixesOfAnExecutable DEF ConfigurationTypes
<1>2. LengthOf[name] \in 1..MaxNameLength /\ MaxNameLength \in Nat
  BY ConfigurationAssumption DEF ConfigurationTypes, Configurations, ParticipantNames
<1>3. CASE ParseOption
  <2>1. status = "parsing" /\ names' = names /\ names = <<>>
    BY <1>3, OneIteration DEF NamesFollow
  <2>2. status' = "parsing" \/ status' \in Errors
    BY <1>3, <2>1, OneIteration DEF Stored, Refused
  <2> QED BY <2>1, <2>2 DEF NamesFollow, ReadyMeansUsable, Errors
<1>4. CASE Return
  BY <1>1, <1>4 DEF Return, NamesFollow, ReadyMeansUsable, ComposedFrom
<1>5. CASE ComposeParticipantName
  <2>1. UNCHANGED <<executable, configuration>> /\ status = "composing"
          /\ Len(names) < Len(suffixes)
    BY <1>5, LaterSteps DEF ComposeParticipantName
  <2> DEFINE suffix == suffixes[Len(names) + 1]
  <2>2. CASE ComposedLength(name, suffix) > MaxNameLength
    <3>1. status' = "composedNameTooLong"
      BY <1>5, <2>2 DEF ComposeParticipantName, Fail
    <3> QED BY <3>1 DEF NamesFollow, ReadyMeansUsable
  <2>3. CASE ~(ComposedLength(name, suffix) > MaxNameLength)
    <3>1. names' = Append(names, <<name, suffix>>) /\ status' = status
      BY <1>5, <2>3 DEF ComposeParticipantName
    <3>2. ComposedLength(name, suffix) \in 1..MaxNameLength
      <4>1. Len(names) + 1 \in 1..Len(suffixes)
        BY <1>1, <2>1
      <4>2. LengthOf[suffix] \in Nat
        BY <4>1, DefaultsAssumption DEF ConfigurationTypes
      <4> HIDE DEF suffix, name
      <4>3. ComposedLength(name, suffix) \in Nat \ {0}
        <5>1. LengthOf[name] \in Nat \ {0}
          BY <1>2
        <5> QED BY <4>2, <5>1, ComposedLengths
      <4> QED BY <1>2, <2>3, <4>3
    <3>3. Len(names') = Len(names) + 1
      BY <1>1, <3>1
    <3>4. \A i \in 1..Len(names') : names'[i] = <<name, suffixes[i]>>
            /\ ComposedLength(name, suffixes[i]) \in 1..MaxNameLength
      <4> SUFFICES ASSUME NEW i \in 1..Len(names')
                   PROVE  names'[i] = <<name, suffixes[i]>>
                            /\ ComposedLength(name, suffixes[i]) \in 1..MaxNameLength
        OBVIOUS
      <4>1. CASE i \in 1..Len(names)
        BY <1>1, <2>1, <3>1, <4>1 DEF NamesFollow, ComposedFrom
      <4>2. CASE i = Len(names) + 1
        BY <1>1, <3>1, <3>2, <4>2
      <4> QED BY <1>1, <3>3, <4>1, <4>2
    <3>5. ComposedFrom(Len(names))'
      BY <2>1, <3>4 DEF ComposedFrom, ComposedLength
    <3> QED BY <1>1, <2>1, <3>1, <3>3, <3>5 DEF NamesFollow, ReadyMeansUsable
  <2> QED BY <2>2, <2>3
<1>6. CASE NamesReady
  <2>1. UNCHANGED <<executable, configuration>> /\ status = "composing"
          /\ Len(names) = Len(suffixes) /\ status' = "ready"
          /\ names' = IF executable = "observer" THEN <<<<name, "">>>> ELSE names
    BY <1>6 DEF NamesReady
  <2>2. /\ configuration'.domainId <= MaxDomainId
        /\ configuration'.tickInterval \in 1..MaxTickInterval
        /\ configuration'.tickCount # 0
    <3>1. configuration.domainId \in 0..MaxDomainId
            /\ configuration.tickInterval \in 1..MaxTickInterval
            /\ configuration.tickCount \in {None} \cup (Nat \ {0})
      BY DEF ConfigurationTypes, Configurations
    <3>2. 0 \notin {None} \cup (Nat \ {0}) /\ MaxDomainId \in Nat
      BY ConfigurationAssumption
    <3>3. configuration.domainId <= MaxDomainId /\ configuration.tickCount # 0
      BY <3>1, <3>2
    <3> QED BY <2>1, <3>1, <3>3
  <2>3. CASE executable = "observer"
    <3>1. names' = <<<<name, "">>>>
      BY <2>1, <2>3
    <3>2. Len(names') = 1 /\ names'[1] = <<name, "">> /\ names' # <<>>
      <4>1. \A x : Len(<<x>>) = 1 /\ <<x>>[1] = x /\ <<x>> # <<>>
        OBVIOUS
      <4> QED BY ONLY <3>1, <4>1
    <3>6. Len(names') = 1
      BY <3>2
    <3>3. \A i \in 1..Len(names') : i = 1
      <4>1. \A i \in 1..1 : i = 1
        OBVIOUS
      <4> QED BY ONLY <3>6, <4>1
    <3>4. ComposedLength(name, "") \in 1..MaxNameLength
      BY <1>2 DEF ComposedLength
    <3>7. \A i \in 1..Len(names') : names'[i] = <<name, "">>
      BY <3>2, <3>3
    <3>5. \A i \in 1..Len(names') :
            ComposedLength(names'[i][1], names'[i][2]) \in 1..MaxNameLength
      <4> SUFFICES ASSUME NEW i \in 1..Len(names')
                   PROVE  ComposedLength(names'[i][1], names'[i][2]) \in 1..MaxNameLength
        OBVIOUS
      <4>1. names'[i] = <<name, "">>
        BY <3>7
      <4> HIDE DEF name
      <4>3. \A t, a, b : t = <<a, b>> => t[1] = a /\ t[2] = b
        OBVIOUS
      <4>2. names'[i][1] = name /\ names'[i][2] = ""
        BY ONLY <4>1, <4>3, Zenon
      <4> QED BY <3>4, <4>2
    <3> QED BY <2>1, <2>2, <3>2, <3>3, <3>5
            DEF NamesFollow, ReadyMeansUsable, ComposedLength
  <2>4. CASE executable # "observer"
    <3>1. names' = names /\ Len(names) > 0
      BY <1>1, <2>1, <2>4
    <3>2. \A i \in 1..Len(names) : names[i] = <<name, suffixes[i]>>
            /\ ComposedLength(name, suffixes[i]) \in 1..MaxNameLength
      BY <2>1 DEF NamesFollow, ComposedFrom
    <3>3. \A i \in 1..Len(names) :
            ComposedLength(names[i][1], names[i][2]) \in 1..MaxNameLength
      BY <3>2
    <3>4. \A i, k \in 1..Len(names) : names[i] = names[k] => i = k
      <4> SUFFICES ASSUME NEW i \in 1..Len(names), NEW k \in 1..Len(names),
                          names[i] = names[k]
                   PROVE  i = k
        OBVIOUS
      <4>1. suffixes[i] = suffixes[k]
        BY <3>2
      <4> QED BY <2>1, <4>1, SuffixesOfAnExecutable DEF ConfigurationTypes
    <3>5. names # <<>>
      BY <3>1
    <3> QED BY <2>1, <2>2, <3>1, <3>3, <3>4, <3>5
            DEF NamesFollow, ReadyMeansUsable, ComposedLength
  <2> QED BY <2>3, <2>4
<1>7. CASE UNCHANGED vars
  BY <1>7 DEF vars, NamesFollow, ReadyMeansUsable, ComposedFrom, ComposedLength
<1> QED BY <1>3, <1>4, <1>5, <1>6, <1>7 DEF Next

\* What run() gets satisfies every check made after the parser.
THEOREM ReadyIsUsable == Spec => []ReadyMeansUsable
<1>1. ConfigurationTypes /\ NamesFollow /\ [Next]_vars
        => (ConfigurationTypes /\ NamesFollow)'
  BY TypesKept, NamesKept
<1>2. NamesFollow => ReadyMeansUsable
  BY DEF NamesFollow
<1> QED BY <1>1, <1>2, TypesStart, NamesStart, PTL DEF Spec

-----------------------------------------------------------------------------
(* What the loop has read.                                                 *)

\* At the start nothing has been read.
LEMMA ReadingStarts == Init => ReadingInvariant
<1> SUFFICES ASSUME Init PROVE ReadingInvariant
  OBVIOUS
<1>1. index = 1 /\ status = "parsing" /\ seen = {}
        /\ configuration = DefaultConfiguration(executable)
  BY DEF Init
<1>2. 1..(index - 1) = {}
  BY <1>1
<1>3. HasRead({})
  BY <1>1, <1>2 DEF HasRead, OptionsStart, OptionsAreGood
<1>4. SaysWhat({})
  BY <1>1 DEF SaysWhat, DefaultConfiguration
<1> QED BY <1>1, <1>3, <1>4 DEF ReadingInvariant, ParserReadsTheGrammar, Parsed

\* Every reading agrees with what was read and has an option at index.
LEMMA IndexIsNext ==
  ASSUME ConfigurationTypes, NEW P, HasRead(P), index <= Len(arguments),
         NEW Q \in SUBSET (1..Len(arguments)), OptionsStart(Q, Len(arguments))
  PROVE  index \in Q /\ Q \cap (1..(index - 1)) = P
<1>1. Q \cap (1..(index - 1)) = P
  BY DEF HasRead
<1>2. Len(arguments) \in Nat /\ index \in 1..Len(arguments)
  BY DEF ConfigurationTypes
<1>3. index # 1 => index - 1 \in 1..(index - 1)
  BY <1>2
<1>4. index = 1 \/ index - 1 \notin Q \/ arguments[index - 1] \notin Valued
  BY <1>1, <1>3 DEF HasRead
<1> QED BY <1>1, <1>2, <1>4 DEF OptionsStart

\* What is refused has no reading.
LEMMA RefusedHasNoReading ==
  ASSUME ConfigurationTypes, NEW P, HasRead(P), index <= Len(arguments), Refused
  PROVE  Readings = {}
<1> SUFFICES ASSUME NEW Q \in Readings PROVE FALSE
  OBVIOUS
<1>1. Q \in SUBSET (1..Len(arguments)) /\ Reads(Q)
  BY DEF Readings
<1>2. OptionsStart(Q, Len(arguments))
  BY <1>1 DEF Reads, OptionsStart
<1>3. index \in Q /\ Q \cap (1..(index - 1)) = P
  BY <1>1, <1>2, IndexIsNext
<1>4. /\ arguments[index] \in Options /\ Accepts(arguments[index])
      /\ \A k \in Q : arguments[k] = arguments[index] => k = index
      /\ arguments[index] \in Valued =>
           index < Len(arguments) /\ ValueIsGood(arguments[index], arguments[index + 1])
  BY <1>1, <1>3 DEF Reads
<1>5. index \in Nat /\ Len(arguments) \in Nat
  BY DEF ConfigurationTypes
<1>6. arguments[index] \notin seen
  <2> SUFFICES ASSUME arguments[index] \in seen PROVE FALSE
    OBVIOUS
  <2>1. PICK k \in P : arguments[k] = arguments[index]
    BY DEF HasRead
  <2>2. k \in Q /\ k \in 1..(index - 1)
    BY <1>3
  <2>3. k # index
    BY <1>5, <2>2
  <2> QED BY <1>4, <2>1, <2>2, <2>3
<1> QED BY <1>4, <1>5, <1>6 DEF Refused

\* A stored option is one more that has been read.
LEMMA StoredIsRead ==
  ASSUME ConfigurationTypes, NEW P, HasRead(P), index <= Len(arguments), Stored,
         UNCHANGED <<executable, arguments>>, NEW R, R = P \cup {index}
  PROVE  HasRead(R)'
<1> DEFINE option == arguments[index]
<1>1. /\ index \in Nat \ {0} /\ Len(arguments) \in Nat
      /\ index' \in {index + 1, index + 2}
      /\ option \in Valued <=> index' = index + 2
      /\ option \in Valued => index < Len(arguments)
      /\ index' - 1 <= Len(arguments)
  <2>1. index \in 1..(Len(arguments) + 1) /\ Len(arguments) \in Nat
    BY DEF ConfigurationTypes
  <2>2. CASE option \in Valued
    BY <2>1, <2>2 DEF Stored
  <2>3. CASE option \notin Valued
    BY <2>1, <2>3 DEF Stored
  <2> QED BY <2>2, <2>3
<1>10. \/ option \in Valued /\ index' = index + 2 /\ index' - 1 = index + 1
       \/ option \notin Valued /\ index' = index + 1 /\ index' - 1 = index
  <2>1. (index + 2) - 1 = index + 1 /\ (index + 1) - 1 = index
    BY <1>1
  <2>2. option \in Valued => index' = index + 2
    BY DEF Stored
  <2>3. option \notin Valued => index' = index + 1
    BY DEF Stored
  <2> HIDE DEF option
  <2>4. CASE option \in Valued
    BY ONLY <2>1, <2>2, <2>4
  <2>5. CASE option \notin Valued
    BY ONLY <2>1, <2>3, <2>5
  <2> QED BY <2>4, <2>5
<1>15. /\ index \in Nat \ {0}
       /\ \/ index' = index + 2 /\ index' - 1 = index + 1
          \/ index' = index + 1 /\ index' - 1 = index
  BY <1>1, <1>10
<1>2. P \subseteq 1..(index - 1)
  BY DEF HasRead
<1>3. R \subseteq 1..(index' - 1)
  <2>1. CASE index' - 1 = index
    BY <1>2, <1>15, <2>1
  <2>2. CASE index' - 1 = index + 1
    BY <1>2, <1>15, <2>2
  <2> QED BY <1>15, <2>1, <2>2
<1>4. index = 1 \/ index - 1 \notin P \/ arguments[index - 1] \notin Valued
  BY DEF HasRead
<1>5. \A i \in 1..(index' - 1) :
        i \in R <=> (i = 1 \/ i - 1 \notin R \/ arguments[i - 1] \notin Valued)
  <2> SUFFICES ASSUME NEW i \in 1..(index' - 1)
               PROVE  i \in R <=> (i = 1 \/ i - 1 \notin R \/ arguments[i - 1] \notin Valued)
    OBVIOUS
  <2>1. CASE i \in 1..(index - 1)
    <3>1. i # index /\ i - 1 # index
      BY <1>1, <2>1
    <3> QED BY <2>1, <3>1 DEF HasRead, OptionsStart
  <2>2. CASE i = index
    <3>1. i - 1 # index
      BY <1>1, <2>2
    <3> QED BY <1>4, <2>2, <3>1
  <2>3. CASE i = index + 1 /\ index' = index + 2
    <3>1. i # 1 /\ i - 1 = index /\ i \notin P
      BY <1>1, <1>2, <2>3
    <3> QED BY <1>1, <2>3, <3>1
  <2>4. i \in 1..(index - 1) \/ i = index \/ (i = index + 1 /\ index' = index + 2)
    <3>1. CASE index' = index + 2 /\ index' - 1 = index + 1
      BY <1>15, <3>1
    <3>2. CASE index' - 1 = index
      BY <1>15, <3>2
    <3> QED BY <1>15, <3>1, <3>2
  <2> QED BY <2>1, <2>2, <2>3, <2>4
<1>6. index' = 1 \/ index' - 1 \notin R \/ arguments[index' - 1] \notin Valued
  <2>1. CASE option \in Valued
    <3>1. index' - 1 = index + 1
      BY <1>10, <2>1
    <3>2. index + 1 \notin R
      BY <1>1, <1>2
    <3> QED BY <3>1, <3>2
  <2>2. CASE option \notin Valued
    <3>1. index' - 1 = index
      BY <1>10, <2>2
    <3> QED BY <2>2, <3>1
  <2> QED BY <2>1, <2>2
<1>7. \A i \in R :
        /\ arguments[i] \in Options /\ Accepts(arguments[i])
        /\ \A k \in R : arguments[k] = arguments[i] => k = i
        /\ arguments[i] \in Valued =>
             i < index' - 1 /\ ValueIsGood(arguments[i], arguments[i + 1])
  <2>1. \A i \in P : arguments[i] # option
    BY DEF HasRead, Stored
  <2>2. \A i \in P : i < index - 1 => i < index' - 1
    <3> SUFFICES ASSUME NEW i \in P, i < index - 1 PROVE i < index' - 1
      OBVIOUS
    <3>1. i \in 1..(index - 1)
      BY <1>2
    <3>2. CASE index' - 1 = index + 1
      BY <1>15, <3>1, <3>2
    <3>3. CASE index' - 1 = index
      BY <1>15, <3>1, <3>3
    <3> QED BY <1>15, <3>2, <3>3
  <2>3. option \in Valued => index < index' - 1
    <3>1. index < index + 1
      BY <1>15
    <3> HIDE DEF option
    <3> QED BY ONLY <1>10, <3>1
  <2>4. option \in Options /\ Accepts(option)
          /\ (option \in Valued => ValueIsGood(option, arguments[index + 1]))
    BY DEF Stored
  <2> QED BY <2>1, <2>2, <2>3, <2>4 DEF HasRead, OptionsAreGood
<1>8. seen' = {arguments[i] : i \in R}
  BY DEF HasRead, Stored
<1>9. \A Q \in SUBSET (1..Len(arguments)) :
        OptionsStart(Q, Len(arguments)) => Q \cap (1..(index' - 1)) = R
  <2> SUFFICES ASSUME NEW Q \in SUBSET (1..Len(arguments)),
                      OptionsStart(Q, Len(arguments))
               PROVE  Q \cap (1..(index' - 1)) = R
    OBVIOUS
  <2>1. index \in Q /\ Q \cap (1..(index - 1)) = P
    BY IndexIsNext
  <2>2. CASE index' = index + 1
    <3>1. 1..(index' - 1) = (1..(index - 1)) \cup {index}
      BY <1>1, <2>2
    <3> QED BY <2>1, <3>1
  <2>3. CASE index' = index + 2
    <3>1. 1..(index' - 1) = (1..(index - 1)) \cup {index, index + 1}
      BY <1>1, <2>3
    <3>2. index + 1 \in 1..Len(arguments) /\ index + 1 # 1 /\ (index + 1) - 1 = index
      BY <1>1, <2>3
    <3>3. index + 1 \notin Q
      BY <1>1, <2>1, <2>3, <3>2 DEF OptionsStart
    <3> QED BY <2>1, <3>1, <3>3
  <2> QED BY <1>1, <2>2, <2>3
<1>14. \A o : Accepts(o)' <=> Accepts(o)
  BY DEF Accepts
<1>11. OptionsStart(R, index - 1)' <=> \A i \in 1..(index' - 1) :
        i \in R <=> (i = 1 \/ i - 1 \notin R \/ arguments[i - 1] \notin Valued)
  BY DEF OptionsStart
<1>12. OptionsAreGood(R, index - 1)'
  BY <1>7, <1>14 DEF OptionsAreGood
<1>13. \A Q : OptionsStart(Q, Len(arguments))' <=> OptionsStart(Q, Len(arguments))
  BY DEF OptionsStart
<1> QED
  BY <1>3, <1>5, <1>6, <1>8, <1>9, <1>11, <1>12, <1>13 DEF HasRead

\* What is stored is what the option says; the other fields stay.
LEMMA StoredIsSaid ==
  ASSUME ConfigurationTypes, NEW P, HasRead(P), SaysWhat(P), Stored,
         UNCHANGED <<executable, arguments>>, NEW R, R = P \cup {index}
  PROVE  SaysWhat(R)'
<1> DEFINE option == arguments[index]
           value == arguments[index + 1]
<1>1. \A i \in P : arguments[i] # option
  BY DEF HasRead, Stored
<1>2. \A i \in R : i = index \/ i \in P
  OBVIOUS
<1>3. index \in R /\ P \subseteq R
  OBVIOUS
<1>4. option \in Options
  BY DEF Stored
<1>5. configuration \in Configurations
  BY DEF ConfigurationTypes
<1>6. \A o : (\A i \in R : arguments[i] # o) => o # option /\ \A i \in P : arguments[i] # o
  BY <1>3
<1>7. UNCHANGED <<executable, arguments>>
  OBVIOUS
<1>8. CASE option = "--domain-id"
  <2>1. configuration' = [configuration EXCEPT !.domainId = NumberOf[value]]
    BY <1>8 DEF Stored
  <2>2. /\ configuration'.domainId = NumberOf[value]
        /\ configuration'.participantName = configuration.participantName
        /\ configuration'.tickInterval = configuration.tickInterval
        /\ configuration'.tickCount = configuration.tickCount
        /\ configuration'.automatePursuit = configuration.automatePursuit
    BY <1>5, <2>1 DEF Configurations
  <2> QED BY <1>1, <1>2, <1>3, <1>6, <1>7, <1>8, <2>2 DEF SaysWhat
<1>9. CASE option = "--participant-name"
  <2>1. configuration' = [configuration EXCEPT !.participantName = value]
    BY <1>9 DEF Stored
  <2>2. /\ configuration'.domainId = configuration.domainId
        /\ configuration'.participantName = value
        /\ configuration'.tickInterval = configuration.tickInterval
        /\ configuration'.tickCount = configuration.tickCount
        /\ configuration'.automatePursuit = configuration.automatePursuit
    BY <1>5, <2>1 DEF Configurations
  <2> QED BY <1>1, <1>2, <1>3, <1>6, <1>7, <1>9, <2>2 DEF SaysWhat
<1>10. CASE option = "--tick-ms"
  <2>1. configuration' = [configuration EXCEPT !.tickInterval = NumberOf[value]]
    BY <1>10 DEF Stored
  <2>2. /\ configuration'.domainId = configuration.domainId
        /\ configuration'.participantName = configuration.participantName
        /\ configuration'.tickInterval = NumberOf[value]
        /\ configuration'.tickCount = configuration.tickCount
        /\ configuration'.automatePursuit = configuration.automatePursuit
    BY <1>5, <2>1 DEF Configurations
  <2> QED BY <1>1, <1>2, <1>3, <1>6, <1>7, <1>10, <2>2 DEF SaysWhat
<1>11. CASE option = "--tick-count"
  <2>1. configuration' = [configuration EXCEPT !.tickCount = NumberOf[value]]
    BY <1>11 DEF Stored
  <2>2. /\ configuration'.domainId = configuration.domainId
        /\ configuration'.participantName = configuration.participantName
        /\ configuration'.tickInterval = configuration.tickInterval
        /\ configuration'.tickCount = NumberOf[value]
        /\ configuration'.automatePursuit = configuration.automatePursuit
    BY <1>5, <2>1 DEF Configurations
  <2> QED BY <1>1, <1>2, <1>3, <1>6, <1>7, <1>11, <2>2 DEF SaysWhat
<1>12. CASE option = "--auto-pursuit"
  <2>1. configuration' = [configuration EXCEPT !.automatePursuit = TRUE]
    BY <1>12 DEF Stored
  <2>2. /\ configuration'.domainId = configuration.domainId
        /\ configuration'.participantName = configuration.participantName
        /\ configuration'.tickInterval = configuration.tickInterval
        /\ configuration'.tickCount = configuration.tickCount
        /\ configuration'.automatePursuit = TRUE
    BY <1>5, <2>1 DEF Configurations
  <2> QED BY <1>1, <1>2, <1>3, <1>6, <1>7, <1>12, <2>2 DEF SaysWhat
<1> QED BY <1>4, <1>8, <1>9, <1>10, <1>11, <1>12 DEF Options

\* The end of the arguments makes what was read a reading.
LEMMA AllIsRead ==
  ASSUME ConfigurationTypes, NEW P, HasRead(P), SaysWhat(P), index > Len(arguments)
  PROVE  \E Q \in Readings : configuration = Meant(Q)
<1>1. index - 1 = Len(arguments)
  BY DEF ConfigurationTypes
<1>2. P \in Readings
  BY <1>1 DEF HasRead, OptionsStart, OptionsAreGood, Readings, Reads
<1>3. configuration = Meant(P)
  <2> DEFINE At1(o) == CHOOSE i \in P : arguments[i] = o
             Of(o) == arguments[1 + At1(o)]
  <2>1. \A o : (\E i \in P : arguments[i] = o) => At1(o) \in P /\ arguments[At1(o)] = o
    OBVIOUS
  <2>2. \A i \in P : 1 + i = i + 1
    BY DEF HasRead, ConfigurationTypes
  <2>3. \A o : (\E i \in P : arguments[i] = o) =>
          At1(o) \in P /\ arguments[At1(o)] = o /\ Of(o) = arguments[At1(o) + 1]
    BY <2>1, <2>2
  <2>4. configuration.domainId =
          IF \E i \in P : arguments[i] = "--domain-id" THEN NumberOf[Of("--domain-id")]
          ELSE 0
    <3> HIDE DEF At1, Of
    <3> QED BY <2>3 DEF SaysWhat
  <2>5. configuration.participantName =
          IF \E i \in P : arguments[i] = "--participant-name" THEN Of("--participant-name")
          ELSE Specification[executable].defaultParticipantName
    <3> HIDE DEF At1, Of
    <3> QED BY <2>3 DEF SaysWhat
  <2>6. configuration.tickInterval =
          IF \E i \in P : arguments[i] = "--tick-ms" THEN NumberOf[Of("--tick-ms")]
          ELSE Specification[executable].defaultTickInterval
    <3> HIDE DEF At1, Of
    <3> QED BY <2>3 DEF SaysWhat
  <2>7. configuration.tickCount =
          IF \E i \in P : arguments[i] = "--tick-count" THEN NumberOf[Of("--tick-count")]
          ELSE None
    <3> HIDE DEF At1, Of
    <3> QED BY <2>3 DEF SaysWhat
  <2>8. configuration.automatePursuit = \E i \in P : arguments[i] = "--auto-pursuit"
    BY DEF SaysWhat
  <2>9. configuration =
          [domainId |-> configuration.domainId,
           participantName |-> configuration.participantName,
           tickInterval |-> configuration.tickInterval,
           tickCount |-> configuration.tickCount,
           automatePursuit |-> configuration.automatePursuit]
    BY DEF ConfigurationTypes, Configurations
  <2> QED BY <2>4, <2>5, <2>6, <2>7, <2>8, <2>9 DEF Meant
<1> QED BY <1>2, <1>3

\* Every step keeps what is known of the readings.
LEMMA ReadingKept ==
  ConfigurationTypes /\ ReadingInvariant /\ [Next]_vars => ReadingInvariant'
<1> SUFFICES ASSUME ConfigurationTypes, ReadingInvariant, [Next]_vars
             PROVE  ReadingInvariant'
  OBVIOUS
<1>1. UNCHANGED <<executable, arguments, configuration>> =>
        (Readings' = Readings
           /\ ((\E Q \in Readings : configuration = Meant(Q))
                 => (\E Q \in Readings : configuration = Meant(Q))'))
  <2> SUFFICES ASSUME executable' = executable, arguments' = arguments,
                      configuration' = configuration
               PROVE  /\ Readings' = Readings
                      /\ (\E Q \in Readings : configuration = Meant(Q))
                           => (\E Q \in Readings : configuration = Meant(Q))'
    OBVIOUS
  <2>1. Readings' = Readings
    BY DEF Readings, Reads, Accepts
  <2>2. ASSUME NEW Q PROVE Meant(Q)' = Meant(Q)
    <3>1. \A o : (\E i \in Q : arguments'[i] = o) <=> (\E i \in Q : arguments[i] = o)
      OBVIOUS
    <3>2. \A o : (CHOOSE i \in Q : arguments'[i] = o) = (CHOOSE i \in Q : arguments[i] = o)
      BY Zenon
    <3> QED BY <3>1, <3>2 DEF Meant
  <2> QED BY <2>1, <2>2
<1>2. UNCHANGED arguments /\ UNCHANGED executable => Readings' = Readings
  BY DEF Readings, Reads, Accepts
<1>3. CASE ParseOption
  <2>1. status = "parsing" /\ index <= Len(arguments) /\ UNCHANGED <<executable, arguments>>
    BY <1>3, OneIteration
  <2>2. PICK P : HasRead(P) /\ SaysWhat(P)
    BY <2>1 DEF ReadingInvariant
  <2>3. CASE Stored
    <3>1. status' = "parsing"
      BY <2>1, <2>3 DEF Stored
    <3>2. PICK R : R = P \cup {index}
      OBVIOUS
    <3>3. HasRead(R)' /\ SaysWhat(R)'
      BY <2>1, <2>2, <2>3, <3>2, StoredIsRead, StoredIsSaid
    <3> QED BY <3>1, <3>3 DEF ReadingInvariant, ParserReadsTheGrammar, Parsed
  <2>4. CASE Refused
    <3>1. Readings' = {}
      BY <1>2, <2>1, <2>2, <2>4, RefusedHasNoReading
    <3>2. status' \in Errors
      BY <2>4 DEF Refused
    <3> QED BY <3>1, <3>2 DEF ReadingInvariant, ParserReadsTheGrammar, Parsed, Errors
  <2> QED BY <1>3, <2>3, <2>4, OneIteration
<1>4. CASE Return
  <2>1. status = "parsing" /\ index > Len(arguments) /\ status' = "composing"
          /\ UNCHANGED <<executable, arguments, configuration>>
    BY <1>4 DEF Return
  <2>2. PICK P : HasRead(P) /\ SaysWhat(P)
    BY <2>1 DEF ReadingInvariant
  <2>3. \E Q \in Readings : configuration = Meant(Q)
    BY <2>1, <2>2, AllIsRead
  <2> QED BY <1>1, <2>1, <2>3 DEF ReadingInvariant, ParserReadsTheGrammar, Parsed
<1>5. CASE ComposeParticipantName \/ NamesReady
  <2>1. UNCHANGED <<executable, arguments, configuration>>
    BY <1>5, LaterSteps
  <2>2. status = "composing" /\ status' \in {"composing", "composedNameTooLong", "ready"}
    BY <1>5 DEF ComposeParticipantName, NamesReady, Fail
  <2>3. \E Q \in Readings : configuration = Meant(Q)
    BY <2>2 DEF ReadingInvariant, ParserReadsTheGrammar, Parsed
  <2> QED BY <1>1, <2>1, <2>2, <2>3 DEF ReadingInvariant, ParserReadsTheGrammar, Parsed
<1>6. CASE UNCHANGED vars
  <2>1. \A P : (HasRead(P) /\ SaysWhat(P)) => (HasRead(P) /\ SaysWhat(P))'
    BY <1>6 DEF vars, HasRead, SaysWhat, OptionsStart, OptionsAreGood, Accepts
  <2> QED BY <1>1, <1>6, <2>1 DEF vars, ReadingInvariant, ParserReadsTheGrammar, Parsed
<1> QED BY <1>3, <1>4, <1>5, <1>6 DEF Next

\* The parser accepts what can be read, and means what it reads.
THEOREM ParserIsTheGrammar == Spec => []ParserReadsTheGrammar
<1>1. ConfigurationTypes /\ ReadingInvariant /\ [Next]_vars
        => (ConfigurationTypes /\ ReadingInvariant)'
  BY TypesKept, ReadingKept
<1>2. ReadingInvariant => ParserReadsTheGrammar
  BY DEF ReadingInvariant
<1> QED BY <1>1, <1>2, TypesStart, ReadingStarts, PTL DEF Spec

-----------------------------------------------------------------------------
(* The life of the process.                                                *)

USE DEF Signals, Early, InRun, Restoring, Places, Ended

\* The process starts in the invariant.
LEMMA StartsRight == LifetimeInit => LifetimeInvariant
<1> SUFFICES ASSUME LifetimeInit PROVE LifetimeInvariant
  OBVIOUS
<1>1. LifetimeTypes
  BY DEF LifetimeInit, LifetimeTypes
<1>2. HandlersFollow /\ LateIsLast /\ CompletionFollows /\ SuccessIsEarned
  BY DEF LifetimeInit, HandlersFollow, LateIsLast, CompletionFollows,
       SuccessIsEarned
<1>3. TicksAreCounted
  <2>1. tickCount # Unlimited => tickCount \in Nat
    BY <1>1, LifetimeAssumption DEF LifetimeTypes
  <2> QED BY <2>1 DEF LifetimeInit, TicksAreCounted
<1> QED BY <1>1, <1>2, <1>3 DEF LifetimeInit, LifetimeInvariant

\* Every step, of the process or of a signal, keeps the invariant.
LEMMA StepsKeep ==
  LifetimeInvariant /\ [LifetimeNext]_lvars => LifetimeInvariant'
<1> SUFFICES ASSUME LifetimeInvariant, [LifetimeNext]_lvars PROVE LifetimeInvariant'
  OBVIOUS
<1> USE LifetimeAssumption
<1> USE DEF LifetimeInvariant, LifetimeTypes, Goto, fixed, monitor, loop
<1>1. ASSUME NEW s \in Signals, Signal(s) PROVE LifetimeInvariant'
  <2> USE <1>1 DEF Signal, RequestShutdown
  <2>1. LifetimeTypes'
    OBVIOUS
  <2>2. HandlersFollow'
    BY DEF HandlersFollow
  <2>3. LateIsLast'
    BY DEF LateIsLast
  <2>4. TicksAreCounted'
    BY DEF TicksAreCounted, TicksLeft
  <2>5. CompletionFollows' /\ SuccessIsEarned'
    BY DEF CompletionFollows, SuccessIsEarned, HandlersFollow
  <2>6. (pc \notin InRun => built = 0)'
    BY DEF HandlersFollow
  <2> QED BY <2>1, <2>2, <2>3, <2>4, <2>5, <2>6
<1>2. ASSUME Start PROVE LifetimeInvariant'
  <2> USE <1>2 DEF Start, Parse, InstallInterrupt, InstallTermination
  <2>1. LifetimeTypes'
    <3>1. CASE Parse
      BY <3>1
    <3>2. CASE InstallInterrupt
      BY <3>2 DEF HandlersFollow
    <3>3. CASE InstallTermination
      BY <3>3 DEF HandlersFollow
    <3> QED BY <3>1, <3>2, <3>3
  <2>2. HandlersFollow'
    <3>1. CASE Parse
      BY <3>1 DEF HandlersFollow
    <3>2. CASE InstallInterrupt
      BY <3>2 DEF HandlersFollow
    <3>3. CASE InstallTermination
      <4>1. CASE pc' = "construct"
        <5>1. \A s \in Signals : handler'[s] = "requestShutdown"
          BY <3>3, <4>1 DEF HandlersFollow
        <5>2. \A s \in Signals : previous'[s] = inherited[s]
          BY <3>3, <4>1 DEF HandlersFollow
        <5>3. previous' = inherited
          BY <2>1, <5>2
        <5> QED BY <4>1, <5>1, <5>3 DEF HandlersFollow
      <4>2. CASE pc' = "exit1"
        <5>1. \A s \in Signals : handler'[s] = inherited[s]
          BY <3>3, <4>2 DEF HandlersFollow
        <5>2. handler' = inherited
          BY <2>1, <5>1
        <5> QED BY <4>2, <5>2 DEF HandlersFollow
      <4> QED BY <3>3, <4>1, <4>2
    <3> QED BY <3>1, <3>2, <3>3
  <2>3. LateIsLast'
    BY DEF LateIsLast
  <2>4. TicksAreCounted'
    BY DEF TicksAreCounted, TicksLeft
  <2>5. CompletionFollows' /\ SuccessIsEarned'
    BY DEF CompletionFollows, SuccessIsEarned
  <2>6. (pc \notin InRun => built = 0)'
    OBVIOUS
  <2> QED BY <2>1, <2>2, <2>3, <2>4, <2>5, <2>6
<1>3. ASSUME Run PROVE LifetimeInvariant'
  <2> USE <1>3 DEF Run, Construct, Test, Body, Wait, Sleep,
       DestroyLast, Throw, CountLate
  <2>1. LifetimeTypes'
    <3>1. CASE Construct
      <4>1. CASE built' = built + 1 /\ UNCHANGED <<pc, thrown>>
        BY <3>1, <4>1
      <4>2. CASE Goto("test") /\ UNCHANGED <<built, thrown>>
        BY <3>1, <4>2
      <4>3. CASE Throw /\ UNCHANGED built
        BY <3>1, <4>3
      <4> QED BY <3>1, <4>1, <4>2, <4>3
    <3>5. CASE Test
      BY <3>5
    <3>6. CASE DestroyLast
      BY <3>6
    <3>4. CASE Wait
      BY <3>4
    <3>2. CASE Body
      <4>1. publishedTicks' \in Nat /\ slices' \in Nat /\ late' \in Nat
        BY <3>2
      <4>2. thrown' \in BOOLEAN /\ pc' \in {"wait", "test", "destroy"}
        BY <3>2
      <4> QED BY <3>2, <4>1, <4>2
    <3>3. CASE Sleep
      <4>1. slices' \in Nat /\ late' \in Nat
        BY <3>3
      <4> QED BY <3>3, <4>1
    <3> QED BY <3>1, <3>2, <3>3, <3>4, <3>5, <3>6
  <2>2. HandlersFollow'
    BY DEF HandlersFollow
  <2>3. LateIsLast'
    BY DEF LateIsLast
  <2>4. TicksAreCounted'
    <3>1. tickCount # Unlimited => tickCount \in Nat \ {0}
      OBVIOUS
    <3>2. CASE Construct \/ Test
      BY <3>1, <3>2 DEF TicksAreCounted, TicksLeft
    <3>3. CASE Body
      BY <3>1, <3>3 DEF TicksAreCounted, TicksLeft
    <3>4. CASE Wait
      BY <3>4 DEF TicksAreCounted, TicksLeft
    <3>5. CASE Sleep \/ DestroyLast
      BY <3>5 DEF TicksAreCounted, TicksLeft
    <3> QED BY <3>2, <3>3, <3>4, <3>5
  <2>5. CompletionFollows' /\ SuccessIsEarned'
    BY DEF CompletionFollows, SuccessIsEarned
  <2>6. (pc \notin InRun => built = 0)'
    OBVIOUS
  <2> QED BY <2>1, <2>2, <2>3, <2>4, <2>5, <2>6
<1>4. ASSUME Finish PROVE LifetimeInvariant'
  <2> USE <1>4 DEF Finish, Leave, RestoreTermination, RestoreInterrupt
  <2>1. LifetimeTypes'
    OBVIOUS
  <2>2. HandlersFollow'
    BY DEF HandlersFollow
  <2>3. LateIsLast'
    BY DEF LateIsLast
  <2>4. TicksAreCounted'
    BY DEF TicksAreCounted, TicksLeft
  <2>5. CompletionFollows' /\ SuccessIsEarned'
    BY DEF CompletionFollows, SuccessIsEarned, TicksAreCounted
  <2>6. (pc \notin InRun => built = 0)'
    OBVIOUS
  <2> QED BY <2>1, <2>2, <2>3, <2>4, <2>5, <2>6
<1>5. CASE UNCHANGED lvars
  BY <1>5 DEF lvars, HandlersFollow, LateIsLast, TicksAreCounted, TicksLeft,
       CompletionFollows, SuccessIsEarned
<1> QED BY <1>1, <1>2, <1>3, <1>4, <1>5 DEF LifetimeNext, Step

\* Wherever main is, the handlers, the ticks and the lateness are as the place
\* says.
THEOREM LifetimeInvariance == LifetimeSpec => []LifetimeInvariant
<1>1. LifetimeInit => LifetimeInvariant
  BY StartsRight
<1>2. LifetimeInvariant /\ [LifetimeNext]_lvars => LifetimeInvariant'
  BY StepsKeep
<1> QED BY <1>1, <1>2, PTL DEF LifetimeSpec

\* A signal never ends a process that owns objects.
THEOREM SignalsSkipNoCleanUp == LifetimeSpec => []NoSignalSkipsCleanUp
<1>1. LifetimeInvariant => NoSignalSkipsCleanUp
  BY DEF LifetimeInvariant, NoSignalSkipsCleanUp
<1> QED BY <1>1, LifetimeInvariance, PTL

\* A process that ends by itself leaves the handlers as it found them.
THEOREM HandlersComeBack == LifetimeSpec => []HandlersAreRestored
<1>1. LifetimeInvariant => HandlersAreRestored
  BY DEF LifetimeInvariant, HandlersFollow, HandlersAreRestored
<1> QED BY <1>1, LifetimeInvariance, PTL

\* At most one iteration or one slice of a wait follows a request, however long
\* the tick interval is.
THEOREM StopsPromptly == LifetimeSpec => []StopIsPrompt
<1>1. LifetimeInvariant => StopIsPrompt
  BY DEF LifetimeInvariant, LateIsLast, StopIsPrompt
<1> QED BY <1>1, LifetimeInvariance, PTL

\* Exit code 0 is given only for a requested or a complete run.
THEOREM SuccessMeansDone == LifetimeSpec => []SuccessIsEarned
<1>1. LifetimeInvariant => SuccessIsEarned
  BY DEF LifetimeInvariant
<1> QED BY <1>1, LifetimeInvariance, PTL

-----------------------------------------------------------------------------
(* The objects of run().                                                   *)

\* run() has a number of objects.
LEMMA ObjectsAreCounted == \A e \in Executables : Len(Objects[e]) \in Nat
<1>1. Len(Objects["observer"]) = 3 /\ Len(Objects["console"]) = 9
        /\ Len(Objects["interceptor"]) = 7
  BY DEF Objects
<1> QED BY <1>1 DEF Executables

\* What exists is a prefix of the objects, in the order of their construction.
LEMMA BuildingKeepsOrder == PrefixIsBuilt /\ [LifetimeNext]_lvars => PrefixIsBuilt'
<1> SUFFICES ASSUME PrefixIsBuilt, [LifetimeNext]_lvars PROVE PrefixIsBuilt'
  OBVIOUS
<1> USE DEF PrefixIsBuilt, fixed
<1>1. Len(Objects[executable]) \in Nat
  BY ObjectsAreCounted
<1>2. executable' = executable
  BY DEF LifetimeNext, Step, Start, Run, Finish, Signal, Parse,
     InstallInterrupt, InstallTermination, Construct, Test, Body, Wait,
     Sleep, DestroyLast, Leave, RestoreTermination, RestoreInterrupt, lvars
<1>3. built' \in {built, built + 1, built - 1} /\ (built' = built + 1 => Construct)
        /\ (built' = built - 1 => built > 0)
  BY <1>1 DEF LifetimeNext, Step, Start, Run, Finish, Signal, Parse,
     InstallInterrupt, InstallTermination, Construct, Test, Body, Wait,
     Sleep, DestroyLast, Leave, RestoreTermination, RestoreInterrupt, lvars
<1>4. built' = built + 1 => built < Len(Objects[executable])
  BY <1>1, <1>3 DEF Construct
<1> QED BY <1>1, <1>2, <1>3, <1>4

\* Every object refers only to objects constructed before it.
LEMMA ObjectsInOrder ==
  \A e \in Executables : \A i \in 1..Len(Objects[e]) :
     Needs[Objects[e][i]] \subseteq {Objects[e][j] : j \in 1..(i - 1)}
<1>1. \A i \in 1..3 : Needs[Objects["observer"][i]]
                       \subseteq {Objects["observer"][j] : j \in 1..(i - 1)}
  BY DEF Objects, Needs
<1>2. \A i \in 1..9 : Needs[Objects["console"][i]]
                       \subseteq {Objects["console"][j] : j \in 1..(i - 1)}
  BY DEF Objects, Needs
<1>3. \A i \in 1..7 : Needs[Objects["interceptor"][i]]
                       \subseteq {Objects["interceptor"][j] : j \in 1..(i - 1)}
  BY DEF Objects, Needs
<1>4. Len(Objects["observer"]) = 3 /\ Len(Objects["console"]) = 9
        /\ Len(Objects["interceptor"]) = 7
  BY DEF Objects
<1>5. \A i \in 1..Len(Objects["observer"]) :
        Needs[Objects["observer"][i]]
          \subseteq {Objects["observer"][j] : j \in 1..(i - 1)}
  BY <1>1, <1>4
<1>6. \A i \in 1..Len(Objects["console"]) :
        Needs[Objects["console"][i]]
          \subseteq {Objects["console"][j] : j \in 1..(i - 1)}
  BY <1>2, <1>4
<1>7. \A i \in 1..Len(Objects["interceptor"]) :
        Needs[Objects["interceptor"][i]]
          \subseteq {Objects["interceptor"][j] : j \in 1..(i - 1)}
  BY <1>3, <1>4
<1> TAKE e \in Executables
<1>8. CASE e = "observer"
  BY ONLY <1>5, <1>8
<1>9. CASE e = "console"
  BY ONLY <1>6, <1>9
<1>10. CASE e = "interceptor"
  BY ONLY <1>7, <1>10
<1> QED BY <1>8, <1>9, <1>10 DEF Executables

\* On every way out of run() an object goes before the objects it refers to.
THEOREM NoReferenceDangles == LifetimeSpec => []ReferencesStayValid
<1>1. LifetimeInit => PrefixIsBuilt
  BY ObjectsAreCounted DEF LifetimeInit, PrefixIsBuilt
<1>2. PrefixIsBuilt => ReferencesStayValid
  <2> SUFFICES ASSUME PrefixIsBuilt, NEW o \in Alive
               PROVE  Needs[o] \subseteq Alive
    BY DEF ReferencesStayValid
  <2> PICK i \in 1..built : o = Objects[executable][i]
    BY DEF Alive
  <2>1. i \in 1..Len(Objects[executable])
    BY ObjectsAreCounted DEF PrefixIsBuilt
  <2>2. Needs[Objects[executable][i]]
          \subseteq {Objects[executable][j] : j \in 1..(i - 1)}
    BY <2>1, ObjectsInOrder DEF PrefixIsBuilt
  <2>3. 1..(i - 1) \subseteq 1..built
    BY ObjectsAreCounted DEF PrefixIsBuilt
  <2>4. {Objects[executable][j] : j \in 1..(i - 1)} \subseteq Alive
    BY <2>3 DEF Alive
  <2> QED BY <2>2, <2>4
<1>3. LifetimeSpec => []PrefixIsBuilt
  BY <1>1, BuildingKeepsOrder, PTL DEF LifetimeSpec
<1> QED BY <1>2, <1>3, PTL
=============================================================================
