# Verification of the drone interception system

Three kinds of processes cooperate over DDS. An *observer* measures a target and publishes its
track. A *console* projects tracks, drone states and outcomes, and turns operator intent into an
assignment and an interception command. An *interceptor* owns the life of one drone: it reports its
state, accepts one assignment and one command, flies after the tracked target, triggers the effect
and publishes an explosion event. This directory holds TLA+ models of these processes and of the
middleware between them, the TLC runs that check them, and proofs, checked by TLAPS, about the
processes, their clocks, the transport and the whole system. Paths below are relative to the
repository.

## 1. Inventory

| Component | State it keeps | Operations | What makes it correct |
| --- | --- | --- | --- |
| interceptor core (`src/interceptor_core`) | reported state, chased track, started command, reserved event identity | `start`, `handle` of an assignment, a track and a command, `tick` | one life-cycle per process; effect once; event agrees with the state; nothing unpublished |
| interceptor application and adapter (`src/interceptor_app`, `src/interceptor_dds_adapter`) | set of delivered command identities | control loop; `receiveNext` of three subscribers; two publishers | a command acts once; a failed write ends the process |
| simulated vehicle (`src/simulated_vehicle_adapter`) | position and clock | `advanceTime`, `moveTowards`, `trigger` | a report is where and when the vehicle is; the clock never goes back |
| console core (`src/console_core`) | three projections, pending assignments, pending starts, identity counter | `receive` of three samples, `assign`, `start` | newest sample wins; outcomes are never replaced; intent only on evidence, once |
| console application and adapter (`src/console_app`, `src/console_dds_adapter`) | two match flags, two sent flags | polling loop, `AutomatedPursuitState` | intents are sent to a reader that exists and lead to an outcome |
| console terminal (`src/console_ui_adapter`) | none; what is printed stays on the screen | `render` after every sample the loop consumed; `execute` of a line of text, which the executable does not call | what was shown is not taken back; an answer agrees with what was written |
| observer and radar (`src/observer_core`, `src/observer_app`, `src/observer_dds_adapter`, `src/simulated_radar_adapter`) | tick index | one tick: measure, track, publish | a strictly newer track at every tick |
| DDS transport (`src/drone_dds_transport`) | entities, match counts, caches of the middleware | map, write, take, wait, match, construct, destroy | intent is not replayed, snapshots are retained, errors are reported |
| wire types (`src/drone_dds_types`) | - | IDL from which code is generated | the domain's values fit in |
| domain values (`src/drone_domain`) | immutable values | constructors that validate | a value that exists is valid |
| application support (`src/application_support`) | stop flag, previous handlers, parsed options | signal-driven shutdown, option parsing, composed names | no missed stop request, clean-up whatever the signal; no accepted nonsense |

Interaction: observer -> `drone.target_tracks` -> consoles and interceptor; console ->
`drone.assignments`, `drone.interception_commands` -> interceptor; interceptor ->
`drone.drone_states`, `drone.explosion_events` -> consoles. Each writer and each reader has a
participant of its own, except that a console reads tracks and states through one; the five topics
are discovered and delivered independently. Inside a process the components call each other
directly, and an exception leaves `main`.

What is hard here:

- **Ordering.** Discovery, delivery and the polling loops interleave freely. An event may overtake
  the state it belongs to; a track taken before the assignment is dropped for good.
- **Stale reads.** A console decides on a projection that lags behind the interceptor; its match
  flags are never cleared.
- **Partial failure.** A state transition stores the state, writes it, and only then goes on; a
  write that fails leaves the rest undone.
- **Restart.** Every process forgets everything, its clock and its identity counter included, while
  the other processes remember its former life.
- **Threads.** Listener callbacks update match counts beside a main thread that polls, waits or
  destroys the object they belong to.
- **Signals.** A stop request comes between any two steps, during construction and destruction too.
- **Foreign samples.** Any participant of the domain may write what the wire types allow, and the
  middleware puts notifications without data among the samples.
- **Boundaries.** Instance limits of the topics, the identity counter, the signed time arithmetic,
  the lengths of composed names.

`PROJECT.json` lists each of these hazards at its line with the properties aimed at it.

## 2. Modules

| Module | Models | State and actions |
| --- | --- | --- |
| `Interceptor` | state machine, vehicle, subscribers' duplicate detection, the two writers | a variable per member; `Start`, `AdvanceTime`, `OnAssignment`, `OnTargetTrack`, `ReceiveCommand`, `Tick` in any order |
| `ReportedPursuit` | abstract: what readers of the interceptor's two topics are promised | `Announce`, `Assign`, `Engage`, `Pursue`, `Fail`, `Succeed` |
| `InterceptorProofs` | theorems about `Interceptor`, one of which says that it implements `ReportedPursuit` | - |
| `Console` | projections, use cases, the two writers, for a set of console processes | `ReceiveTarget`, `ReceiveDrone`, `ReceiveOutcome`, `Assign`, `StartInterception` with any sample in any order |
| `ConsoleHistory` | `Console` and a history variable: the samples consumed | as `Console` |
| `Observer` | radar, tracker and publisher: one tick | `RadarTick`, which calls `OnDetection` |
| `Dds` | the middleware as the transport configures it | `Match`, `Send`, `Deliver`, `Take`, `Leave` |
| `TransportEndpoints` | one participant with its readers or writers, from constructor to destructor; listener and waits | `Create*`, `Delete*` and `DestroyMembers` in the order of the code; `Lock`, `Test`, `Sleep`, `Awake`, `Expire` of a wait; `MatchesChange`, `Record`, `Notify` of the middleware's thread |
| `TransportProofs` | theorems about `TransportEndpoints` | - |
| `WireMapping` | the domain's values, the wire types and the ten mappings | operators only: `Is...` of a constructor, `ToWire...`, `...MappingError`, `FromWire...` |
| `SampleDelivery` | one reader and its subscriber, for each of the five topics | `Arrive`, `NotifyInstance`; `DiscardInvalid`, `DiscardMalformed`, `HandOver`, `HandOverCommand`, `TakeFails` of `receiveNext` |
| `DeliveryProofs` | theorems about `SampleDelivery` and the mappings | - |
| `Discovery` | writers and readers of one topic: QoS, discovery per side, listeners' records, instance limits | `Discover`, `Lose`, `Leave`, `OnMatched`, `OnIncompatibleQos`, `Write`, `Deliver` |
| `DiscoveryProofs` | theorem about `Discovery` | - |
| `DroneExecutables` | the three programs: what each hands to the parser, and the names it composes; shared by the next two | `executable` |
| `ProcessConfiguration` | command line and participant names of the three executables | one iteration of the parser's loop per step, then one composed name per step |
| `ProcessLifetime` | `main`, `run` and the shutdown monitor of the three executables | `Signal` at any moment; one action per step of `main`, of the loop and of `waitFor` |
| `ProcessProofs` | theorems about `ProcessConfiguration` and `ProcessLifetime` | - |
| `ConsoleTerminal` | `Console` with the printed view and the terminal action | `Show*`: a receive and its print; `Execute` of a line |
| `ConsoleProofs` | theorems about `Console`, `ConsoleHistory` and `ConsoleTerminal` | - |
| `SimulatedTime` | both simulated clocks in bounded integers, and the console that goes by them | `RadarTick`, `VehicleStep`, `VehicleReport`, `ConsoleTakes`, `Restart` |
| `TimeProofs` | theorems about `SimulatedTime` | - |
| `InterceptionSystem` | composition of the four by INSTANCE, the loops of the three `main.cpp`, restarts | one action per step of a loop, `Discover`, `Deliver`, `Restart*` |
| `SystemProofs` | theorems about `InterceptionSystem`, which use those about the processes by INSTANCE | - |
| `MC*` | constants of the runs | - |

Operators whose comment begins with "Mutant" are plausible mistakes in the definition that follows
them. They are in no behaviour; each shows that some property notices the mistake.

### Interceptor

An operation that the code answers with a refusal is a step that changes nothing, or, for a command,
only remembers the identity: `interception_command_subscriber.cpp` inserts it before it knows
whether the machine accepts. `ReportState` is `state_.emplace` and `publish`: the write either shows
the state or fails, and then `exit` records that the process is gone. `TickArrives` keeps the order
of the code: effect, state, write of the state, write of the event. The composition of write
failures with every operation is what `WritesMayFail` turns on.

Positions lie on a line and times count control intervals: the machine compares positions only by
distance to a tolerance and times only by order. `NextPosition` is `moveTowards`: the destination
when it is within one stride, otherwise one stride closer. The effect port may answer
failure in `MCInterceptor`; the simulated vehicle, which always succeeds, is what
`InterceptionSystem` instantiates.

### Console

`Console` holds a map per console process. Failing writes and an identity counter that reaches its
maximum end the process. `MaxCommandId` stands for the maximum of a 64-bit counter, behind which
`Advanced` wraps to zero; the maximum itself is never written.

### Dds

All topics are `RELIABLE` and `KEEP_LAST(1)` per key. Hence a writer holds the newest sample per
key, and what is still to be delivered is a set of (endpoint, key): a newer sample replaces an older
one before it is delivered, and again in the reader's cache before it is taken. `Match` adds what
the writer retains if the topic is `TRANSIENT_LOCAL`. No order is assumed between keys, topics or
readers. Matching takes effect on both sides in one step; one-sided matches, QoS that do not fit and
instance limits are `Discovery`'s. Instance-state notifications and malformed samples, which leave a
process as it was, are `SampleDelivery`'s and do not occur here. Middleware behaviour is not in the
repository; it is modelled as the QoS factories configure it and as `docs/dds-topic-catalog.md`
relies on.

### TransportEndpoints

The five readers and the five writers are one algorithm, and `pc` names the object it is about; the
map in `PROJECT.json` cites one class per definition, readers and writers alike. A
creation that is refused throws: the constructor has cleaned up what its own body created, its
members are destroyed (`DestroyMembers`, `DeleteTopic`, `UnregisterType`), and the objects before it
follow in reverse order (`DestroyPrevious`). The null checks in the destructors are always true for
an object that was constructed. The destructors ignore what the middleware answers; the model lets
it refuse to delete what something else still uses, so that a wrong order is a leak which
`CleanUpIsComplete` sees. `delete_contained_entities` would hide such a leak in the program.

`wait_for` with a predicate is a loop: `Lock`, `Test`, and while the count is zero `Sleep`, which
releases the mutex, then `Awake` (also without a notification) or `Expire`, which reads the
count once more. `Record` needs the mutex, `Notify` does not. Two things are assumed of the
middleware, since the destructors depend on them: it runs one listener call per endpoint at a time,
and the deletion of an endpoint starts no further call and returns after the running one has ended.
The separate count of incompatible QoS in the target track classes is `Discovery`'s.

### WireMapping and SampleDelivery

A coordinate is finite or not, which is all a mapping looks at; identifiers and times are numbers.
The mapping from the wire is the chain of checks of the code in its order (`...MappingError`)
followed by the conversion, and the checks of the domain's constructors are written separately
(`Is...`), as in the code, where they would throw. That no sample passes the first and fails the
second is `PortsSeeOnlyValidValues`, and that no sample of an own writer fails the first is
`OwnSamplesAreUnderstood`. The cache of a reader keeps one sample per key and may be taken in
any order; a notification enters it only when no untaken sample of its instance is left.

### Discovery

Each side finds and loses the other in a step of its own, and its listener is told later:
`counts` is what the middleware has counted, `discoveryStatus` what the callback recorded.
All five topics record matches; the callback for incompatible QoS is that of the
target track classes, whose writer takes its QoS as an argument: `OfferedQos` has the catalog's, the
`BEST_EFFORT` offer of the discovery experiment and the `VOLATILE` one of
`tests/qos_experiments_test.cpp`, so that each policy can be the one that does not fit. The reader
names the policy of the writer it found last (`StatusBecomesTrue`).
A durable writer sends what it retains to a reader it finds. A writer
holds at most `Capacity` instances; a write that does not fit is refused, `write()` throws and the
process is gone. That a refused write of a bounded `RELIABLE` writer is reported, and that samples
between two endpoints keep their order, is assumed of the middleware, as is the
rule that decides which QoS fit together.

### ProcessConfiguration

An argument is one of a few texts, of which the parser only asks whether it is an option, which
number it is and how long it is. `ParserReadsTheGrammar` compares the loop with a definition that
does not loop: a command line has a meaning if some set of positions can be read as options, each
with its value behind it, none twice. The names are composed after parsing, in `run()` of each
executable, before anything is constructed.

### ProcessLifetime

`pc` is the place in `main`. Whatever may throw may throw: the parser, both `signal` calls, every
constructor, every iteration. `Signal` kills the process where the handler in force is the default
one; the handlers a process inherits are arbitrary. Objects of `run()` are a list per executable,
with the references each keeps (`Needs`). `waitFor` is a loop of slices, between which it looks at
the flag. Ticks are counted only if there is a tick count. The handler only sets the flag,
so that a signal is one step.

### ConsoleTerminal

The loop prints all three tables after each sample it consumed, also when the projection ignored it.
A table is a function from identities to rows, in which the order of the map is implied; a row keeps
identities, times, the status by its name and a rounded position; widths and words are left out.
`Rounded` and `Digits` say what a position and the identity of a target look like; all that is
assumed of the second is that it is never the sign "-" of a drone without a target. `Execute` is the
terminal action; a line is whether it begins with the keyword and which number follows.

### SimulatedTime

`Half` stands for 2^63. `Signed` and `Unsigned` are the conversions of the two's complement. The
radar multiplies its interval with an unsigned count, so that the product wraps by the rules of the
language; the vehicle adds two signed counts, whose overflow is undefined in C++. The build of the
repository compiles the addition and the check of its sign in different translation units, without
link-time optimisation, so that the sum wraps and the constructor of `Timestamp` sees the wrapped
value; the model takes this outcome. A build that optimises across the units may do otherwise.
`ConsoleTakes` is the rule of the projections: newer wins.

### InterceptionSystem

The program counters `interceptorPc` and `consolePc` are the loop bodies: each `receiveNext`, each
tick and each automated intent is one step, and takes at most one sample, as in the code.
`SendWritten` sends whatever a step wrote. One drone and one target are the
executables' configuration (`drone 1`, `target 1`). A console without `--auto-pursuit` never writes,
so it has no writer endpoints. The console polls both match flags in one step.

Four abstractions keep the state space finite; they are constants, to which each run gives values:

- `IdleTime`: outside a pursuit every loop advances the clock. Once the clock is ahead of the last
  report, more of these intervals change no comparison, since times are only compared with times of
  the same origin; the model lets the clock run on to `IdleTime` only.
- `ReservedTicks`: the radar ticks for ever and the model `MaxTicks` times. In `system` one
  tick is kept until the interceptor is tasked, so that the bound does not silence the radar.
- `Acquainted`: processes that discovered each other before anything is written. Runs about other
  questions than discovery use it.
- `Late`: consoles launched only after an explosion event has been written and, to keep the two
  questions apart, only in behaviours without a restart (`Launch`, `Kill`).

The vehicle of the system runs is as fast as the target moves per radar tick; the radar and the
control loop are not synchronised, so that the vehicle catches up while the radar rests.

## 3. Runs

| Run | Configuration | Bounds | Checks |
| --- | --- | --- | --- |
| `interceptor` | `MCInterceptor.cfg` | 2 drones, 2 targets, 2 command identities, 2 positions, clock to 3, effects succeed or fail, writes may fail | `NeverLogicError`, `EventTellsTheState`, `OneEventPerSuccess`, `ReportsAdvance`, and `KeepsPromise`, the refinement of `ReportedPursuit` |
| `console` | `MCConsole.cfg` | 1 console and its terminal, 2 drones and a spare one, 2 targets, 2 times, 3 samples and one event more, counter ends at 3, writes may fail; the 2 drones and the targets are symmetric | `CommandIdentitiesUnique`, `OneAssignmentPerDrone`, `ProjectionIsNewest`, `IntentsAreGrounded`, `OutcomesAreCorrelated`, `AnswersAreTrue`, `ScreenNeverGoesBack` |
| `system` | `MCSystem.cfg` | 1 automated console, 2 radar ticks of which one is reserved, free discovery, fairness | `ConsoleLagsBehind`, `IntentsAreAccepted`, `OutcomesAreEarned`, `TakenOutcomeIsRecorded`, `PursuitCompletes`, `ConsolesConverge` |
| `system_faults` | `MCSystemFaults.cfg` | 1 automated console and 1 late passive one, 1 radar tick; any one process killed once at any point, or a late launch | `FreshIntentOnly`, `DrainedConsoleIsCurrent` |
| `transport` | `MCTransport.cfg` | 2 readers on one participant, up to 2 matches each, any creation may fail | `CleanUpIsComplete`, `CallbackIsSafe`, `SleeperIsTold`, `TearDownEnds` |
| `delivery` | `MCDelivery.cfg` | each topic; identities 0 to 2, finite and non-finite coordinates, times -1 and 0, an unknown status; 3 commands, 2 assignments or 1 other sample; takes may fail | `PortsSeeOnlyValidValues`, `OwnSamplesAreUnderstood`, `CommandsAreHandedOnce`, `EverySampleIsTaken` |
| `configuration` | `MCConfiguration.cfg` | every command line of up to 4 of 14 texts, for each executable; limits 232, 55 and 1000 | `ParserReadsTheGrammar`, `ReadyMeansUsable` |
| `lifetime` | `MCLifetime.cfg` | each executable, 3 slices, tick count 1, 2 or none | `ReferencesStayValid`, `NoSignalSkipsCleanUp`, `HandlersAreRestored`, `StopIsPrompt`, `StopIsHonoured` |
| `discovery` | `MCDiscovery.cfg` | target tracks: 2 writers with 1 write each, which offer the catalog's QoS, `BEST_EFFORT` or `VOLATILE`; any other topic: 1 writer with 4 writes; 1 reader, 3 keys of which 2 fit | `ReaderHasWhatIsPromised`, `StatusBecomesTrue` |
| `time` | `MCTime.cfg` | four-bit integers, intervals 2 and 5, 2 lives | `TimeIsExact`, `OnlyTheStaleIsHidden`, `RestartIsNoticed` |
| `late_outcome` | `MCLateOutcome.cfg` | 1 automated and 1 late passive console, no restart | violates `TakenOutcomeIsRecorded` |
| `stale_match` | `MCStaleMatch.cfg` | interceptor killed once | violates `SentOnlyWhenMatched` |

`MCConsole` composes the history and the terminal of one console: a step is one of `ConsoleTerminal`
and, but for a line that names no drone, one of `ConsoleHistory`.

What they show. An interceptor fed with anything in any order triggers the effect once, never
reaches the `logic_error` in `tick()`, and never tells a reader of its topics something that its
state does not bear out, also when it dies between two writes. A console's projection is the newest
of what it consumed in whatever order, its intents rest on samples it had, and it issues each of
them once. In the system a decision taken on a stale projection is still accepted by the interceptor
when one console acts (`IntentsAreAccepted`): the interceptor never leaves "available" or "assigned"
without that console. An event that overtakes the state it belongs to is recorded nevertheless,
since correlation asks for the assigned target and not for the final status. The automated pursuit
completes, and `VOLATILE` intent is never replayed to a restarted interceptor. A console that has
taken everything shows, per key, what a living writer retains or something not older, whenever it
was launched and whichever process was restarted. Construction and destruction of the transport
classes leave nothing behind whichever creation fails, a listener never outlives its mutex, a match
is not missed between test and sleep, and destruction ends.

Whatever is on the wire, an input port gets valid values, and a sample that cannot be used neither
blocks the reader nor uses a command identity up. The parser accepts the command lines of its usage
text and no others, and what it accepts satisfies every check made later. No signal ends a process
that owns a DDS entity, at most one iteration or one slice of a wait follows a request, and the
handlers are given back on every way out. A matched reader ends up with the newest write of each key
its topic promises it, in whatever order the two sides found each other; a write beyond the limit of
instances ends the process but is never silently lost. What is recorded of matches and of
incompatible endpoints becomes true once peers stop coming and going. What an operator has read is
never taken back by a late, repeated or contradicting sample. No interval makes a clock show a
wrapped time, for the vehicle in a build where its signed sum wraps (see `SimulatedTime` above), and
a restarted observer is noticed once its clock has passed the old one.

Why the bounds are enough. A second drone and target are what an input may wrongly name; a second
command identity is what a second command needs; the clock must allow assignment, start, one
movement and an arrival, and one idle interval. Two radar ticks give a track before and after the
assignment, and three samples a first one, a repeated or conflicting one and a newer one. They also
let three drones confirm an assignment: two are sent commands, whose identities must differ, and the
third command meets the end of the counter. The third is a spare drone (`SpareDrones`): all that is
heard of it is one report that it is assigned, and it is only named to be started, since two drones
already show what else may happen to one. An outcome takes three samples to be recorded, and the
event after it may contradict it. Drones and targets are only told apart, never compared, which
makes the permutations of those that are treated alike symmetries. One restart separates two lives,
and a behaviour has a restart or a late launch, not both. Two endpoints are the most a participant
has (`ConsoleSubscriber`), and two matches allow a count to rise and fall without becoming zero. The
mappings look at one sample at a time, and three commands make a first, a duplicate and another.
Four arguments hold two options with their values, or a repeated option, or an option as the value
of another; longer lines repeat these. `MaxNameLength` 55 stands for 255, with names one below, at
and beyond what the longest suffix leaves. Three slices make a request fall before, between and
after them. Three keys of which two fit make the third write of a new key fail; two writers, each
with any of three offers, let a match and an incompatibility, or two different incompatibilities,
meet at one reader. In four-bit integers the interval 5 overflows at its second step and 2 at its
fourth, and two lives have every pair of intervals. The proofs remove the bounds of these runs where
they apply.

Deadlock is checked in the system runs, where the loops never stop. It is not in the others, which
all end: a failed write ends the only process (`interceptor`, `console`),
everything is destroyed (`transport`), samples run out (`delivery`), a command line is read to its
end (`configuration`), processes exit (`lifetime`), endpoints leave (`discovery`), clocks overflow
(`time`).

### Fairness

`FairSpec` has weak fairness of the observer's step, of the interceptor's step and of each console's
step: each is a loop that waits for one interval with a timeout and runs again. It has weak fairness
of discovery and of delivery as a whole: the middleware goes on as long as an endpoint is left to
match or a sample is left to send, which `RELIABLE` entails between living processes. Both are
finite work once the writers rest, so that no single endpoint can be starved for ever. In
`TransportEndpoints` the main thread and each listener call are threads that the operating system
runs; matches come and go without fairness, and nothing obliges the main thread to shut down.
`SampleDelivery` has weak fairness of the loop that polls, not of arrivals or failures, and
`EverySampleIsTaken` asks only about behaviours in which arrivals end. `ProcessLifetime` has weak
fairness of the main thread. In `Discovery` the middleware finds, loses and tells every endpoint and
goes on delivering; nobody is obliged to write or leave. In `SimulatedTime` the loops of the radar
and the interceptor go on and the console polls. No fairness is assumed of restarts, and `system`,
the run with liveness, has none.

### Findings

- `late_outcome`: a console that joins after the outcome may take the explosion event before it has
  a track or the drone's state. The projection calls it unrelated
  (`src/console_core/outcome_projection.cpp`) and a taken sample does not come back, so that the
  outcome is never shown, although `docs/dds-topic-catalog.md` promises it to late consoles.
- `stale_match`: `src/console_app/main.cpp` sets a match flag and never clears it. After the
  interceptor restarted, the assignment is written while no reader is matched and stays pending for
  ever, against `docs/demonstration-runbook.md`. A reading, which needs no run: command identities
  are the keys of a topic and what the interceptor tells duplicates by, but every console counts
  them from 1, so that two consoles that act use the same ones, although `docs/dds-topic-catalog.md`
  calls the key a unique command identity.

## 4. Proofs

### The interceptor

`InterceptorProofs` holds for every set of drones, targets, command identities and positions, every
stride, tolerance and clock bound, with or without failing writes.
They rest on the named assumptions of `Interceptor`: the process' own identity is a drone, positions
are integers, the stride is positive, the effect port answers success or failure, the bounds
have their types, and `None` is none of the values.

The invariants are not inductive one by one. `IInv` conjoins them and adds:

- `NothingBeforeStart`: before `start()` no operation has left a trace, without which `Start` could
  announce an available drone that already had an event.
- `PursuitOwnsIdentity`: a pursuing machine still has the event identity of its command. It makes
  the `logic_error` unreachable and gives the published event the right identity.
- `CommandMeansPursuit`: only a machine that left "assigned" has a started command, so that a start,
  which requires "assigned", never replaces one.
- `SuccessIsTold`: a successful running machine has published one event, in a form without
  cardinalities; `OneEventPerSuccess` follows from it.
- `StateTellsTheVehicle`: the state shows the vehicle's position and a time not after its clock, so
  that each report while flying is strictly newer than the one before.

`InitIInv` and one lemma per operation (`StartPreserves`, ..., `ArrivePreserves`) give
`NextPreserves`, and `Invariance` follows. The theorems named in `PROJECT.json` project it; the
action properties `OnePursuitPerLife` and `TracksOnlyAdvance` use it at both ends of a step, and
`ReportsOnlyAdvance` rests on `StateTellsTheVehicle` (lemma `NextReport`).
`InterceptorKeepsPromise` maps both writers to themselves: each operation is one step of
`ReportedPursuit`, or leaves both writers alone when it is refused or its write fails; an arrival
whose event write fails is the `Succeed` step without an event.

### The console

`ConsoleProofs` holds for every set of consoles, drones, targets, events, positions and times, any
end of the identity counter and, for the history, any number of samples. `CInv` is `TypeOK`,
`CommandIdentitiesUnique` and `PendingIsWritten`: what a process believes to be pending is what it
has written. The counter is stopped before it wraps and is ahead of every identity in use, hence a
new command has a new one, and a drone with a command is pending, hence gets no second one; the same
argument for assignments is `OneAssignmentPerDrone`. `HInv` adds the three properties of
`ConsoleHistory`, which are inductive together: an outcome is recorded, and an intent decided, on
projections that show samples of the history. The three kinds of samples differ in their fields
(`SampleKinds`), so that what is received of one kind does not disturb what is known of the others.

For the terminal, `TInv` adds to `CInv` that the screen of every console is the snapshot of this
moment (`ScreenShows`) and that "started" was answered for exactly the pending drones (`ToldOK`). A
receive changes the projections of one console and prints that console; nothing else changes a
projection, and a snapshot shows nothing but the projections of its console
(`OtherSnapshotsStay`). `TheScreenNeverGoesBack` combines this with what a step may do to the
projections (`Advance`): a stored track or report is newer than the one it replaces, and an event is
stored only under an identity that has no outcome. `TheAnswersAreTrue` needs
`CommandIdentitiesUnique`, by which the pending drones are those of the written commands; an answer
is given only if the process goes on, and then a "started" was written (`AnswersFollowStarts`).

### The system

`SystemProofs` holds for any set of consoles, automated or not and launched late or not, any number
of radar ticks and restarts, any speeds, positions and bounds, under the two assumptions of
`InterceptionSystem`; its positions are all integers and its times all naturals. A step of a process
in the system is a step of that process (`MachineLinks`, `DeskLinks`), so that the invariants `IInv`
and `CInv` proved for any input carry over; what is new is the network. `SInv` has three groups of
conjuncts:

- `TypesOK`: what every loop, every sample under way and every cache may hold. A command on its way
  has the key of a command its console wrote.
- What has arrived: a track that anybody holds is one the radar made (`PastTracksOK`), of
  two reports the later one is not at an earlier stage (`PastStatesOK`), an event is one of the
  interceptor's (`PastEventsOK`); an intent that is under way or was acted on is of this life
  (`FreshOK`), and until a restart its console remembers it (`KnownOK`). `AcceptOK` says that with one
  automated console an intent under way finds the interceptor waiting for it, and is the only one of
  its kind: a second would need a console that forgot the first.
- What must have arrived (`TracksServed`, `StatesServed`, `EventsServed`): once a reader is matched
  and nothing of a key is under way, what the writer holds is in the reader's cache, or its console
  shows that or something not older.

The theorems about stale projections and outcomes are conditional where the property is: they say
`restarts = 0 => ...`, since a restarted process starts its clock and its life-cycle anew,
`IntentsFindAcceptance` asks for at most one automated console, and `OnlyConsoleRecordsOutcomes` for
one console in all. `late_outcome` refutes the last one for a second, late console. `IntentIsFresh`
and `DrainedConsolesAreCurrent` have no such condition.

### The transport

`TransportProofs` holds for any number of endpoints and matches, from `EndpointAssumption`: both
counts are naturals and there is an endpoint. The inductive invariant `EndpointInvariant` says that
what exists is a stack (`StackDiscipline`): for each kind of entity, the objects below the one at
work have theirs, those above have none, and the step says which kinds the one at work has. A step
pushes or pops the top (`PushAndPop`), and when an object is gone the one before it is the top
(`PreviousIsTop`). At the participant's destructor the stack is empty, which is
`EverythingIsCleanedUp`; endpoints lie above listeners, and calls are made for endpoints only, which
is `CallbacksAreSafe`. `SleepIsDecidedLocked` adds that the mutex is held from the test to the
sleep, hence the count is still zero when the main thread falls asleep: `NoLostWakeUp`.
`WaitsAnswerTheCount` needs no invariant.

`DeliveryProofs` first shows, topic by topic, that the two directions of a mapping are inverse on
values the domain allows, that a sample without a defect maps to such a value, and that a value maps
to a sample without a defect. The invariant `DInv` then says that what is in the cache was written,
what was handed over was written and is the image of it, and what was refused has a defect. It holds
for any identifiers, coordinates, times and number of arrivals, and gives the types
(`DeliveryTypes`). It assumes that an unknown status is none of the known ones (`StatusAssumption`)
and the types in `WireAssumption`.

`DiscoveryProofs` holds for any endpoints, keys, limits and number of writes. Between a writer and a
reader that both exist, each key is in one of three states (`KeyIsServed`): all of it is older than
a volatile match and nothing is under way; or its newest write is under way; or that has arrived.
What is under way is newer than what has arrived (`FlightIsNewer`), which delivery in order keeps
true. When nothing is under way only the first and the third state remain.

### Processes and clocks

The first part of `ProcessProofs` is about the parser and holds for command lines of any length and
any texts that a table describes (`ConfigurationAssumption`), if the defaults of the executables
pass the parser's own checks (`DefaultsAssumption`). The reference is a set of positions that can be
read as options, and a loop that goes from left to right must be shown to find the only one:
`HasRead` says that the positions read so far are those every reading has before the index, so that
an option refused there refutes every reading (`RefusedHasNoReading`), and a stored one is in each
(`IndexIsNext`, `StoredIsRead`). At the end of the arguments what was read is a reading
(`AllIsRead`). `ReadyIsUsable` follows the names instead: after n of them, each is the configured
one with a suffix and fits (`NamesFollow`).

The second part holds for any tick counts and number of slices (`LifetimeAssumption`).
`LifetimeInvariant` says for each
place in `main` which handlers are in force and which are remembered, that objects exist only
inside `run()`, where the monitor's handler is installed, and that a step done late was the last.
`NoReferenceDangles` rests on two facts: what exists is a prefix of the executable's list
(`PrefixIsBuilt`), also while a failed construction is undone, and in that list an object only
refers to earlier ones (`ObjectsInOrder`).

`TimeProofs` holds for integers of any width. An interval and a clock are both below `Half`, so that
their sum is below 2 * `Half`, where the wrapped value is the exact one or negative
(`SignedBelowTwice`); a negative one is thrown out. The radar's product is the last one plus an
interval, and the last one was a time (`RadarStaysBelow`).

### Proved and not run

Some properties are proved and in no configuration, since a run would only repeat the theorem on one
instance: the type invariants, `IInv`, `EffectAtMostOnce`, `PursuitIsAuthorised`,
`StateIsPublished`, `TrackOnlyNewer` and `CommandStartsOnce` of the interceptor, `OutcomesImmutable`
of the console, `EndpointInvariant` and `MatchIsNotMissed` of the transport, `NothingIsInvented` of
the delivery, `LifetimeInvariant` and `SuccessIsEarned` of the processes, `TimeAdvances` of the
clocks, and `SInv` of the system, with the constants of `MCSystemFaults.cfg`. Each was
model-checked before it was proved.

### Only model-checked

`TearDownEnds`, `PursuitCompletes`, `ConsolesConverge`, `EverySampleIsTaken`, `StopIsHonoured`,
`StatusBecomesTrue` and `RestartIsNoticed` are liveness, and together with deadlock freedom out of
the prover's reach, since it does not handle ENABLED. Every safety property of a passing run is a
theorem.

## 5. Not modelled, and why

- The code generated from the IDL: it is not in the repository; its types are `WireMapping`'s.
- Floating-point geometry: positions lie on a line in `Interceptor`, are finite or not in
  `WireMapping`, and rounded for the screen by a function in `ConsoleTerminal`. Rounding errors
  of distances, and coordinates that become infinite while a vehicle moves, are not covered.
- Wording and layout of the terminal and of the log.
- Failing output streams, memory exhaustion, a second process with the same drone identity.
- `AutomatedPursuit` and everything else for more than one drone: the executables configure one.
- Build, scripts and tests; the experiment executables among the tests were read for how they use
  the transport.

## 6. Plan

Modelled so far, in the order of importance: the interceptor with its proofs, the console, the
composition, the transport's endpoints; then delivery and the wire, discovery and limits, the
processes with their signals and command lines, the terminal and the clocks, each with its run;
then proofs for all of these, last the parser, the terminal and the composed system. Next:

1. An abstract projection (a set of samples and the newest of them) that `Console` implements, and
   `Dds` as an abstraction of `Discovery`, each with its proof.
2. What of the system's properties survives a restart: which of the conjuncts under `restarts = 0` hold
   for the tracks or the reports of a process that was not the one restarted.
3. Liveness after a restart in the composed system: the state space at the present grain exceeds a
   run; one step per loop iteration instead of one per `receiveNext` would make it fit.
   `SimulatedTime` covers the clocks alone.
4. Event identities across restarts of a console that was assigned the same drone.
