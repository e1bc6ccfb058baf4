------------------------- MODULE ProcessConfiguration -------------------------
(***************************************************************************)
(* From the command line to the names of the DDS participants: the parser  *)
(* the three executables share, one iteration of its loop per step, and    *)
(* what each of them makes of the configuration before it owns anything.   *)
(*                                                                         *)
(* An argument is a text; what from_chars makes of it is NumberOf.         *)
(***************************************************************************)
EXTENDS DroneExecutables, Integers, Sequences, SequencesExt, FiniteSets

CONSTANTS
  Texts,              \* the texts an argument may be
  NumberOf,           \* the unsigned integer a text is, or NotANumber
  LengthOf,           \* the length of a text, default name or suffix
  NotANumber,
  None,
  MaxArguments,       \* bound on the arguments
  MaxDomainId,        \* maximumDefaultPortDomainId
  MaxNameLength,      \* maximumParticipantNameLength
  MaxTickInterval     \* the largest value of milliseconds::rep

ASSUME ConfigurationAssumption ==
  /\ \A t \in Texts : NumberOf[t] \in Nat \cup {NotANumber} /\ LengthOf[t] \in Nat
  /\ NotANumber \notin Nat /\ None \notin Nat
  /\ {MaxArguments, MaxDomainId, MaxNameLength, MaxTickInterval} \subseteq Nat

\* What each executable starts from is itself acceptable.
ASSUME DefaultsAssumption ==
  \A e \in Executables :
    /\ LengthOf[Specification[e].defaultParticipantName] \in 1..MaxNameLength
    /\ Specification[e].defaultTickInterval \in 1..MaxTickInterval
    /\ \A k \in 1..Len(EndpointSuffixes[e]) : LengthOf[EndpointSuffixes[e][k]] \in Nat

Options == {"--domain-id", "--participant-name", "--tick-ms", "--tick-count",
            "--auto-pursuit"}

VARIABLES
  arguments,      \* what follows the program's name
  index,          \* the argument the loop looks at next
  configuration,
  seen,
  names,          \* participant names composed so far: <<configured, suffix>>
  status          \* "parsing", "composing", "ready" or the error

vars == <<executable, arguments, index, configuration, seen, names, status>>

-----------------------------------------------------------------------------
Accepts(option) ==
  CASE option = "--tick-count" -> Specification[executable].acceptsTickCount
    [] option = "--auto-pursuit" -> Specification[executable].acceptsAutomatedPursuit
    [] OTHER -> TRUE

DefaultConfiguration(e) ==
  [domainId |-> 0, participantName |-> Specification[e].defaultParticipantName,
   tickInterval |-> Specification[e].defaultTickInterval,
   tickCount |-> None, automatePursuit |-> FALSE]

Init ==
  /\ executable \in Executables
  /\ arguments \in BoundedSeq(Texts, MaxArguments)
  /\ index = 1
  /\ configuration = DefaultConfiguration(executable)
  /\ seen = {}
  /\ names = <<>>
  /\ status = "parsing"

Fail(error) ==
  /\ status' = error
  /\ UNCHANGED <<executable, arguments, index, configuration, seen, names>>

\* The option at index stores a value and the loop goes on after it.
Store(option, field, value, width) ==
  /\ configuration' = [configuration EXCEPT ![field] = value]
  /\ seen' = seen \cup {option}
  /\ index' = index + width
  /\ UNCHANGED <<executable, arguments, names, status>>

At(option) == status = "parsing" /\ index <= Len(arguments) /\ arguments[index] = option

\* The outcome of the checks made before a value of the option is looked at.
OptionError(option, takesValue) ==
  IF ~Accepts(option) THEN "unknownOption"
  ELSE IF option \in seen THEN "specifiedTwice"
  ELSE IF takesValue /\ index = Len(arguments) THEN "valueMissing"
  ELSE "none"

Value == arguments[index + 1]
Number == NumberOf[Value]

DomainIdError(value) ==
  IF NumberOf[value] = NotANumber THEN "notANumber"
  ELSE IF NumberOf[value] > MaxDomainId THEN "domainIdTooLarge"
  ELSE "none"

ParticipantNameError(value) ==
  IF LengthOf[value] = 0 THEN "nameEmpty"
  ELSE IF LengthOf[value] > MaxNameLength THEN "nameTooLong"
  ELSE "none"

TickIntervalError(value) ==
  IF NumberOf[value] = NotANumber THEN "notANumber"
  ELSE IF NumberOf[value] = 0 THEN "tickNotPositive"
  ELSE IF NumberOf[value] > MaxTickInterval THEN "tickTooLarge"
  ELSE "none"

TickCountError(value) ==
  IF NumberOf[value] = NotANumber THEN "notANumber"
  ELSE IF NumberOf[value] = 0 THEN "countNotPositive"
  ELSE "none"

ParseValued(option, field, error, meaning) ==
  /\ At(option)
  /\ IF OptionError(option, TRUE) # "none" THEN Fail(OptionError(option, TRUE))
     ELSE IF error # "none" THEN Fail(error)
     ELSE Store(option, field, meaning, 2)

ParseDomainId ==
  ParseValued("--domain-id", "domainId", DomainIdError(Value), Number)
ParseParticipantName ==
  ParseValued("--participant-name", "participantName", ParticipantNameError(Value), Value)

\* Mutant: the value stays where the loop looks for the next option.
IntervalLeavesValue ==
  /\ At("--tick-ms")
  /\ IF OptionError("--tick-ms", TRUE) # "none" THEN Fail(OptionError("--tick-ms", TRUE))
     ELSE IF TickIntervalError(Value) # "none" THEN Fail(TickIntervalError(Value))
     ELSE Store("--tick-ms", "tickInterval", Number, 1)

ParseTickInterval ==
  ParseValued("--tick-ms", "tickInterval", TickIntervalError(Value), Number)
ParseTickCount ==
  ParseValued("--tick-count", "tickCount", TickCountError(Value), Number)

ParseAutomatedPursuit ==
  /\ At("--auto-pursuit")
  /\ IF OptionError("--auto-pursuit", FALSE) # "none"
     THEN Fail(OptionError("--auto-pursuit", FALSE))
     ELSE Store("--auto-pursuit", "automatePursuit", TRUE, 1)

ParseUnknown ==
  /\ status = "parsing" /\ index <= Len(arguments)
  /\ arguments[index] \notin Options
  /\ Fail("unknownOption")

Return ==
  /\ status = "parsing" /\ index > Len(arguments)
  /\ status' = "composing"
  /\ UNCHANGED <<executable, arguments, index, configuration, seen, names>>

-----------------------------------------------------------------------------
(* What run() does with the name before it constructs anything.            *)

ComposedLength(name, suffix) ==
  LengthOf[name] + IF suffix = "" THEN 0 ELSE 1 + LengthOf[suffix]

\* Mutant: only the configured name is measured.
ComposeUnmeasured ==
  /\ status = "composing"
  /\ Len(names) < Len(EndpointSuffixes[executable])
  /\ names' = Append(names, <<configuration.participantName,
                              EndpointSuffixes[executable][Len(names) + 1]>>)
  /\ UNCHANGED <<executable, arguments, index, configuration, seen, status>>

ComposeParticipantName ==
  /\ status = "composing"
  /\ Len(names) < Len(EndpointSuffixes[executable])
  /\ LET suffix == EndpointSuffixes[executable][Len(names) + 1]
     IN IF ComposedLength(configuration.participantName, suffix) > MaxNameLength
        THEN Fail("composedNameTooLong")
        ELSE /\ names' = Append(names, <<configuration.participantName, suffix>>)
             /\ UNCHANGED <<executable, arguments, index, configuration, seen, status>>

\* The observer's one participant has the configured name itself.
NamesReady ==
  /\ status = "composing"
  /\ Len(names) = Len(EndpointSuffixes[executable])
  /\ names' = IF executable = "observer" THEN <<<<configuration.participantName, "">>>>
              ELSE names
  /\ status' = "ready"
  /\ UNCHANGED <<executable, arguments, index, configuration, seen>>

ParseOption ==
  ParseDomainId \/ ParseParticipantName \/ ParseTickInterval \/ ParseTickCount
    \/ ParseAutomatedPursuit \/ ParseUnknown

Next == ParseOption \/ Return \/ ComposeParticipantName \/ NamesReady

Spec == Init /\ [][Next]_vars

-----------------------------------------------------------------------------
(* A reference for the command line: a set P of positions that hold        *)
(* options, the argument after each valued one being its value.            *)

Valued == Options \ {"--auto-pursuit"}

ValueIsGood(option, value) ==
  CASE option = "--domain-id" -> NumberOf[value] \in 0..MaxDomainId
    [] option = "--participant-name" -> LengthOf[value] \in 1..MaxNameLength
    [] option = "--tick-ms" -> NumberOf[value] \in 1..MaxTickInterval
    [] option = "--tick-count" -> NumberOf[value] \in Nat \ {0}

\* P reads the arguments as options of this executable, none of them twice.
Reads(P) ==
  /\ \A i \in 1..Len(arguments) :
       i \in P <=> (i = 1 \/ i - 1 \notin P \/ arguments[i - 1] \notin Valued)
  /\ \A i \in P :
       /\ arguments[i] \in Options /\ Accepts(arguments[i])
       /\ \A k \in P : arguments[k] = arguments[i] => k = i
       /\ arguments[i] \in Valued =>
            i < Len(arguments) /\ ValueIsGood(arguments[i], arguments[i + 1])

\* The configuration that such a reading means.
Meant(P) ==
  LET Given(option) == \E i \in P : arguments[i] = option
      Of(option) == arguments[1 + CHOOSE i \in P : arguments[i] = option]
      default == Specification[executable]
  IN [domainId |-> IF Given("--domain-id") THEN NumberOf[Of("--domain-id")] ELSE 0,
      participantName |->
        IF Given("--participant-name") THEN Of("--participant-name")
        ELSE default.defaultParticipantName,
      tickInterval |->
        IF Given("--tick-ms") THEN NumberOf[Of("--tick-ms")]
        ELSE default.defaultTickInterval,
      tickCount |-> IF Given("--tick-count") THEN NumberOf[Of("--tick-count")] ELSE None,
      automatePursuit |-> Given("--auto-pursuit")]

Readings == {P \in SUBSET (1..Len(arguments)) : Reads(P)}

Parsed == status \in {"composing", "ready", "composedNameTooLong"}

\* The parser accepts exactly the command lines that can be read as options
\* with good values, none twice, in any order, and means what they say; a
\* value that looks like an option is still a value.
ParserReadsTheGrammar ==
  /\ Parsed => \E P \in Readings : configuration = Meant(P)
  /\ ~Parsed /\ status # "parsing" => Readings = {}

\* What is accepted satisfies every check made after it: DomainParticipantOwner
\* on domain and names, the scenario of the radar, the step of the vehicle.
ReadyMeansUsable ==
  status = "ready" =>
    /\ configuration.domainId <= MaxDomainId
    /\ configuration.tickInterval \in 1..MaxTickInterval
    /\ configuration.tickCount # 0
    /\ names # <<>>
    /\ \A i \in 1..Len(names) :
         ComposedLength(names[i][1], names[i][2]) \in 1..MaxNameLength
    /\ \A i, k \in 1..Len(names) : names[i] = names[k] => i = k
=============================================================================
