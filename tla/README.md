# Verification of the Caelus flight software

TLA+ models of the flight software in `src/` (C++, PlatformIO, one thread on a
Teensy), the TLC configurations that check them, and theorems proved with
TLAPS. Code is quoted as `File.cpp:line`; unless another directory is named,
the file is in `src/src/modules/` or `src/include/flight/modules/`.

    tlc  -config MCValveTask.cfg MCValveTask.tla      # one run
    tlapm ValveTaskProofs.tla                         # one module of proofs

`PROJECT.json` lists the components, the runs, the source lines behind each
definition, the hazards, the findings and the theorems.

## 1. The system

`main` builds a `Supervisor`, initializes it and calls `run()`, an endless
loop of three phases: every *task* reads, every *control* executes, every task
actuates. The program has one thread and the loop never waits. Components do
not call each other: they meet in two global objects, `global_registry` (what
is known: sensor values, valve states, the stage, the soft abort, received
packets) and `global_flag` (what is asked for: valve requests, a progression,
packets to send). No code catches an exception on its way to `main`, so the
first exception ends the program.

| Component | State it keeps | Operations | What must be right |
|---|---|---|---|
| `Supervisor`, `ControlTask` | position in the loop, the LED | `run`, `read`, `control`, `actuate` | the fixed order of the controls, on which sensor, abort and valve control depend |
| `Registry`, `Flag` | maps and queues shared by all | `operator[]` (which inserts), `send_packet` | an entry or request has the meaning its reader gives it |
| `ValveTask`, `ValveDriver` | driver state, last actuation and level of each pin | `read`, `actuate`; `actuate` of the driver | pin, driver and registry agree; no request is lost; priorities |
| `StageControl` | stage, its start time, times of the last request and data | `execute`: status, progression, valve requests, data | stages in order, on request; engine valves not early; every request answered |
| `TelemetryControl` | none of its own | one handler per header | an acknowledged command has its effect; a refused one is reported |
| `ValveControl` | `aborted`, last send time | `check_abort`, VAL batch | it follows the soft abort |
| `AbortControl` | none | `execute` | a critical sensor raises the soft abort |
| `SensorTask` | `pin_sensor_mappings`, one map of pins for all types of sensors | `read` | every sensor shows the reading of its own pin, a pressure by its own slope and bias |
| sensor drivers | last reading of each pin | `read`, `getPressureValue` and its like | the value found for a pin is the one read there |
| `SensorControl`, `Kalman` | filters, grades | `execute` | grades follow the configured boundaries |
| `PressureControl` | `matchups` | `check_pressure` | it never blocks requests for a configured valve |
| `TelemetryTask`, `Flag::send_packet` | priority queues of packets | `read`, `actuate`, `enqueue` | what is queued is sent, in an order the ground can make sense of |
| `XBee` | receive buffer, send queue | `read`, `write` | what arrives whole is handled once |
| `Log`, `Util` | none | `toString`, `from_string`, `generateChecksum`, `hex`, `split` | what is written is read back; damage is noticed |
| `Config` | the parsed configuration | constructor | every boundary that is used has been read |
| `Telemetry` (desktop) | socket, send queue | `connect`, `read`, `write` | what is queued is sent, one packet per loop |

### What is hard here

There is no preemption; the difficulty is elsewhere.

* *Order within the loop.* Six controls read and write the same maps one after
  the other. A reply can be queued for a request that a later control
  overwrites; a soft abort can be raised and taken back in one loop.
* *Exceptions in the middle.* Codes of the ground are used unchecked. A bad one
  throws in the middle of the loop over the valves, or after a reply was queued.
* *Stale state.* The registry is told of valve movements by `ValveTask` only,
  and only for two of four actuation types; `ValveControl` keeps a copy of the
  soft abort; `StageControl` computes one status with the start time of
  another stage.
* *Time.* `StageControl` subtracts `start_time` twice, requests and data have
  their own intervals, and a loop may take any time.
* *Two clocks in one queue.* Packets leave newest first, batches of states and
  reports of actuations among them, so what the ground sees last need not be
  the latest.
* *Text.* A packet is cut out of a stream that loses characters; its checksum
  ignores the first character; its timestamp is written in one base and read in
  another.
* *Lookups by the wrong key.* Sensors share one map of pins; load cells are
  looked up among their forces.
* *Shared pins.* The LED that `Supervisor::run` blinks is on pin 13, as is a
  solenoid of `full_config.json`.
* *Uninitialized data.* Half of the sensor boundaries are never read from the
  configuration.
* *Entries that appear.* `operator[]` on the registry inserts valves that no
  configuration has.

## 2. The modules

| Module | Models |
|---|---|
| `FlightTypes` | `Enums.hpp`, the valve records of `Registry.hpp` and `Flag.hpp` |
| `ValveTask` | `ValveTask::actuate`, `ValveDriver`, with the writers of requests as environment |
| `StageControl` | `StageControl`, with the ground (SGP and SAC), pressure and valve task as environment |
| `StageSequence` | abstract: what `StageControl` promises the ground |
| `SensorTask` | `SensorTask::read` and the three drivers of the board, on any pins |
| `SensorControl` | `Kalman`, `SensorControl` |
| `AbortControl`, `ValveControl`, `PressureControl` | the control of that name |
| `TelemetryControl` | every handler of a ground command |
| `TelemetryTask` | the task's side of the packet queues, as sets |
| `Downlink` | the way of a packet to the ground: both priority queues, the driver's queue, `write()` of either build |
| `XBeeLink` | `XBee::read` with the ground and the radio as environment |
| `PacketLink` | abstract: what the receiving side of `XBee` promises the tasks |
| `PacketText` | `Log`, the conversions of `Util` and the framing of `XBee::read_buffer`, on texts in which one mistake happens |
| `FlightLoop` | the main loop, composing the tasks and controls |
| `ValveTaskProofs`, `SensorTaskProofs`, `StageControlProofs`, `XBeeLinkProofs`, `DownlinkProofs`, `PacketTextProofs` | theorems about one component |
| `FlightLoopProofs`, `StageLoopProofs` | theorems about the loop |
| `MC*` | the instances that are checked |

`ValveTask`, `SensorTask`, `StageControl`, `XBeeLink`, `Downlink` and
`PacketText` stand alone, each with a `Spec` of its own. `FlightLoop` takes every
task and control by `INSTANCE` and shares the variables between them, as the
code shares `global_registry` and `global_flag`; there the environment of a
component is the other components. `ValveTask`, `SensorTask` and `StageControl`
are used both ways.

### State and actions

* `flagValves`, `regValves` are the `"solenoid"` maps of the two globals. A
  location that has no entry yet is represented by the value an insertion
  gives it; `regKeys` remembers which entries exist, because `valve_exists`
  asks that. Types and priorities are their integers, so that a code the
  enumerations do not have (a digit of a packet, cast unchecked at
  `TelemetryControl.cpp:127`) can be in a flag.
* `driver` is `ValveDriver`'s three vectors and the level last written to the
  pin. A pin is its location; configurations with a valve task have distinct
  pins. The LED's pin is the one that a solenoid can share: `LedValves` are the
  configured valves on pin 13.
* `ValveTask!Actuate` is the whole loop over `valve_list`. `Served` are the
  valves reached and granted: the loop stops at the first code that has no
  name, because the log line that prints it uses `.at()`. `Reports` are the
  packets it queues.
* `StageControl!Execute` is one call of `execute()`: one of `Advance`,
  `Refuse`, `AskGround`, `Wait`, each ending in `Finish`
  (`stage_valve_control` and `send_data`, in that order). `Status` is
  `calculate_status`. The pressure may be negative, and so may the status of
  the pressurization, which the code bounds from above only
  (`StageControl.cpp:64`). `WholePart` is the truncation of `pressure / 4.9`;
  where the quotient is a whole number, the build may round it to just below
  (`RoundsDown`): 490 psi is 99 % with 4.9 as a double, and 100 % in single
  precision, which the repository leaves to the toolchain. `GroundActuate` is
  the ground's SAC for an engine valve it has a code for, in any stage;
  `HeldValves`, the igniter, are the others.
* `TelemetryControl!Ingest` is one turn of the `while` in `execute()`: one
  disjunct per handler. A refused request queues its reply *and* throws.
* `SensorTask!Read` is all of `SensorTask::read`: every driver reads all its pins
  (`vals`), and the owner of each pin, the last sensor `initialize` enters
  with it, gets a reading in the registry (`measured`), a pressure `Converted`
  by its slope and bias (in thousandths, the result rounded down to a whole unit).
  `First` is the lookup
  of a pin in a driver, `ForceValue` the one of `LoadCellDriver`, and `LastKind`
  the type whose loop comes last in `read()`. Any assignment of pins is an
  initial state.
* `SensorControl!Execute` filters and grades all sensors. The gain of the
  filter is in [0, 1], so the new estimate is any value between the old one
  and the reading.
* `FlightLoop` has `phase` and `step`, the position in `Tasks` or
  `ControlOrder`. A control that is not configured is a turn of `Idle`. Each
  loop begins with the LED: `Blink` turns it over when it is due, and with it
  the level of the `LedValves`, but not their recorded state.
* `XBeeLink!Read` is `XBee::read(-1)` with `read_buffer`: all that has arrived
  is appended to `rcvd`, and at most one packet cut off. A packet is its `^`,
  its text, its checksum and its `$`, each of which can be lost; `Start` and
  `Incoming` keep the two unsigned subtractions that wrap around when a `$` is
  at the front. `Flush` is the `begin()` in `write()`. A checksum matches the
  text it was computed of and no other.
* `Downlink` follows packets about one valve, whose `position` at the driver it
  keeps beside the registry's `regState`, through a loop of four turns:
  `Command` (TelemetryControl's reply, for any actuation type), `Report`
  (ValveControl's batch), `ValveActuate` (the report of an actuation, of which
  the registry follows two types, the driver a `PULSE` too) and `TelemetryActuate`, which
  empties the flag's priority queue into the driver's queue and calls
  `write()`. `Orders` are the orders in which a priority queue may give its
  packets: newest first, equal timestamps in any order. `Written` is how many
  of them `write()` sends: all on the board, one on the desktop. `batch` counts
  the loops that had something to send.
* `PacketText` takes one packet at a time: `Write` is `Log::toString`, `^` and
  `$` included, then at most one character is taken for another, which may be a
  `^` or `$`, or two neighbours are swapped. `Receive` is one `read()` of the
  driver with `Log::from_string`: as much of the text as has `arrived` is
  searched for its first `$`, what is in front of it up to the last `^` is
  tested and taken apart, and `cut` remembers how much is gone. So a text may
  arrive in parts and be cut into several packets; the driver starts with an
  empty buffer (`XBeeLink` has what is left there by others). Texts are
  sequences of character codes here, because the properties are about the
  frame, the checksum and the digits.
* `crashed` is an exception that has left `main`. In `FlightLoop` only what
  follows `~crashed` can happen then: nothing.
* `now` is `Util::getTime`. An `execute()` takes no time; time passes between
  turns (`Tick`), by any amount up to `MaxTime`.
* In `FlightLoop`, queues of packets are sets of the packets that matter: no step
  of the program depends on the order in which packets leave (`Downlink` has
  it), and of packets received there is never more than one
  (`OneCommandPerLoop`, which is proved, not among the runs).

### Abstractions that lose something

The text of packets (but for `PacketText`) and of log lines; the numbers inside
`SEN` and `SDT`; the packets announcing each part at start-up; the exact
estimate of the Kalman filter; the fraction of a millisecond in
times and of a psi or degree in readings, estimates and boundaries; the wrap of `millis()` after 49 days. On the
desktop `getTime` is the time of day, so that `now - start - start` is
negative for ever and the engine valves never open; the model takes the clock
of the board, which starts at power-on.

## 3. The runs

| Run | Instance | Shows |
|---|---|---|
| `valve_task` | two valves of opposite natural positions, four actuations and an unknown code, four priorities | `OpenReportTrusted`, `ClosedReportExplained`, `RequestNotLost` |
| `stage_control` | PT-2 at -23, 0, 490 or 491 psi, SGP and SAC at any time, tick 2.5 s | `NoPostburn`, `IgnitionNotEarly`, `StatusesAgree`, `PressurizedBeforeAutosequence`, and that it implements `StageSequence` |
| `command_loop` | controls of `nitrous_config.json`, every kind of ground command, malformed ones too | `AckMeansActuated`, `RefusalsUnsent`, `MovesAreAnswered`, `RequestsServed` |
| `abort_loop` | all controls but stage, PT-2, one valve | `AbortFollowed`, `FlagsDrained`, `CriticalAborts` |
| `stage_loop` | telemetry, valve and stage control, igniter, and nitrous_mpv on the LED's pin | `IgniterHeld`, `SignalsMeanStates`, `NoCrashIfWellFormed`, `ProgressionAnswered` |
| `sensor_task` | five sensors of all types on any of two pins, slopes and biases of `full_config.json` | `OwnPinShown`, `SharedPinSilences`, `ForceNeverShown` |
| `xbee_link` | three packets, any symbol of which can be lost | `OnlyWholeTexts`, `RepeatsExplained`, `IntactDelivered`, and that it implements `PacketLink` |
| `downlink` | four packets about one valve, three times, both builds, every actuation type | `ArrivalOrder`, `StaleViewExplained`, `AllReceived` |
| `packet_text` | 29 packets in their frames, every place damaged | `UndamagedComesBack`, `TimestampReadsLow`, `SubstitutionCaught`, `SwapCaught`, `ThrowsOnlyAtFirst` |

`TypeOK` is an invariant of `valve_task`, `stage_control`, `stage_loop` (for
`FlightLoop`), `sensor_task`, `downlink` and `packet_text`. Three more runs each
end in a counterexample (section 5).

What the properties say:

* `OpenReportTrusted`: a valve the registry shows open is open at its driver.
* `ClosedReportExplained`: the converse fails, and only so: a valve shown closed
  is open if its last actuation was a `PULSE` (recorded by nobody, ended by
  nobody) or `NONE`, or if it is normally open and was never actuated.
  `ValveTask::read`, which says it "Reads all actuation states from valve and
  updates registry" (`ValveTask.cpp:28`), reads nothing.
* `RequestNotLost`: a request that passes the test against the current priority
  leaves its flag only by reaching the driver or by being overwritten, also
  when another valve's request throws. Of one that fails the test nothing is
  claimed: there the code and its comment disagree (section 5).
* `SignalsMeanStates`: a pin is HIGH exactly when the driver records its valve
  away from its natural position, also before the first actuation and after a
  `NONE`; but a solenoid on the LED's pin may have the level of the LED instead,
  and the driver, the registry and the VAL packets then say what is not so.
* `NoPostburn`: the flight never leaves the autosequence, and the stage
  control never throws. This is what the code does, not what it is for: see
  section 5.
* `IgnitionNotEarly`, `IgniterHeld`: the igniter is asked to open, and is open,
  only in the autosequence and after its delay. The second follows the request
  through the flag, the valve task and the driver. Of the other engine valves
  neither is claimed: the ground has codes for them and may open them in any
  stage, which it does in both runs.
* `StatusesAgree`: the reply to an SGP and the SGD packet of the same turn tell
  the same stage and the same status, but for the one reply that enters the
  autosequence: its status is computed with the start time of the stage before
  (`StageControl.cpp:127`), the SGD says 0.
* `PressurizedBeforeAutosequence`: no estimate below 490 psi lets the flight into
  the autosequence, nor 490 psi itself where the build rounds it down.
* `ImplementsSequence`: stages in order, one at a time, each on a request;
  the igniter's opening is asked for only in the autosequence and never in the
  step that enters it; every request is answered.
* `AckMeansActuated`: when a "-1" goes out, its valve is configured and the
  driver has that actuation. With a stage control it fails (section 5), for two
  reasons: the flag is overwritten, or `operator[]` has inserted an entry for a
  valve that no configuration has (`StageControl.cpp:174`), which makes
  `valve_exists` true.
* `RefusalsUnsent`: the "-0" that stands for a failure
  (`TelemetryControl.cpp:111`) never goes out for an SAC, SRQ or VRQ: the next
  line throws, and the program ends before any task actuates.
* `MovesAreAnswered`: no valve changes its recorded position, and none but those
  on the LED's pin its level, without the acknowledgement of the request that
  asked for it. An abort moves nothing: the list of valves
  `ValveControl` walks is empty (`ValveControl.cpp:52`).
* `RequestsServed`, `ProgressionAnswered`: what the ground asked for is taken
  up, or the program ends.
* `AbortFollowed`: when the tasks actuate, `ValveControl` agrees with the
  registry about the soft abort.
* `FlagsDrained`: a loop begins without requests left from the last one.
* `CriticalAborts`: past the controls, a critical sensor means a soft abort, or
  an undo by the ground in this very loop.
* `NoCrashIfWellFormed`: commands that name configured valves and enumerated
  codes, and are not INF, never end the program.
* `OwnPinShown`: from the first `read()` on, a thermocouple that has its pin to
  itself shows what its driver read, and a pressure sensor that reading by its own
  slope and bias, a negative pressure included.
* `SharedPinSilences`: of two sensors on one pin, one shows 0 for ever, and is
  graded by it. `nitrous_config.json` and `ethanol_config.json` give every
  sensor pin -1.
* `ForceNeverShown`: `LoadCellDriver::getForceValue` looks for the pin among the
  forces (`LoadCellDriver.cpp:29`), so a load cell shows 0, or its pin's number.
* `OnlyWholeTexts`: a packet is returned by `read()` only if its text and its
  checksum arrived, however the remains of several packets run together.
* `RepeatsExplained`: a packet is returned more than once only if packets before
  it lost everything but their `$`, once for each. A `$` at the front of the
  buffer makes `read_buffer` (`XBee.cpp:89`) search the whole buffer, take the
  packet whose own `$` is still on its way, and take it again when that has
  come. So without losses each packet is handled once; with them, one SGP can
  ask for two progressions.
* `ImplementsLink`: the driver implements `PacketLink`: packets are returned in the
  order they were sent and once each, as long as none has worn down to its `$`
  or to nothing; each that has allows one repetition of the packets after it.
* `IntactDelivered`: packets of which nothing was lost are all returned, though
  each `read()` cuts one packet, and whatever was lost around them.
* `ArrivalOrder`: loops in order, but the packets of one loop newest first, also
  when the desktop build is loops behind: the report of an actuation reaches
  the ground before the reply that accepts it.
* `StaleViewExplained`: once all is sent, a ground that believes the last report
  is wrong about the valve, that is about what the driver records, in two cases
  only, both times by a batch of `ValveControl`: it says `CLOSED` after a `PULSE`,
  or of a valve that is open by nature and that nothing has moved, because the
  registry was never told; or it was put behind the newer report of the
  actuation that followed it in the same loop.
* `AllReceived`: every packet queued is received, on the desktop too, though its
  backlog grows while a loop queues more than one packet.
* `UndamagedComesBack`: header and message come back as they were written, a
  message with a delimiter in it up to the delimiter, in whatever parts the
  text arrives. This and the next four are about messages without `^` and `$`
  (`Plain`): a message that holds one is cut there, and `packet_text` has both.
* `TimestampReadsLow`: the timestamp is written in hexadecimal digits and read as
  decimal ones (`Log.cpp:44`): from 10 on it comes back too small.
* `SubstitutionCaught`, `SwapCaught`: frame and checksum notice every exchange of
  two neighbours and every change of one character, but for these. The first
  character behind the `^` has no weight, and 999 is 27 times 37, so a change
  there or behind the 27th may go unseen. A digit of the checksum that turns
  into a delimiter, or changes places with the one before it, leaves a shorter
  checksum for another text, which may fit (`SAC|AB|NNNNNNNNNN|885` read as
  `SAC|AB|NNNNNNNNNN|8|5`). A character read as `$` or `^` leaves another packet
  (`SGP|2310||682` with its 0 read as `$` is cut to `SGP|231`, and 231 is the
  checksum of `SGP`); a `^` that changes places with the first character leaves
  the packet without it.
* `ThrowsOnlyAtFirst`: one mistake that leaves no new `^` or `$` never makes
  `from_string` read past its sections, and makes it throw, which ends the
  program, only by turning the first character into a delimiter. With a new `$`
  it does read past them: `SGP|231` has one section, and `Log.cpp:41` takes the
  second. The run reaches that state too.

For each property there is a mutant of a mapped definition (a *slip*: a dropped
test, a missing reset, swapped operands) under which the run reports a
violation; the slips stand before the definitions they change.

### Bounds

* *Valves*: two. They interact only through the exception of one that stops
  the loop before or after the other; two in both orders show that.
* *Time*: `MaxTime` stops the clock. In `stage_control`, ticks of 2.5 s make
  `AUTOSEQUENCE_DELAY` 2 and `request_interval` 4 ticks; entering the
  autosequence at tick 2 opens the valves after tick 6 (the doubled
  subtraction), and 8 ticks also hold two requests to the ground. In the loop
  of `stage_loop` a tick is 5 s. The other runs depend on the clock for the
  batches only.
* *Levels*: in `abort_loop`, four readings show values that tell the ends of the
  ranges of `full_config.json` apart: below (PT-2 at rest, less than 0), at the
  lower end of safe, at the upper end of warn, above. An unread boundary is below,
  within or above them. `InitEstimate` is
  above all, as the configured `kalman_value` (1000) is.
* *Commands*: `Arrivals` has one packet of every header and, for SAC,
  combinations that reach every branch. In each loop at most one packet
  arrives (what `XBee::read` delivers), possibly one that has arrived before.
* *Pressures of the stage machine*: -23 psi is PT-2 of `full_config.json` at
  rest; 490 is the one whole pressure whose quotient is 100; 491 is full.
* *The LED*: `BlinkInterval` is 0, so that it is due with every tick.
* *Sensors*: two load cells, two pressure sensors and a thermocouple on two pins
  give every way in which sensors of one type or of different types share a
  pin, in both orders. The readings are 0, the number of a pin (which a force may
  equal), and 420, the fault of a thermocouple; slopes and biases are those of
  `full_config.json`, and 0 for the sensors that have none.
* *Packets to the ground*: four hold a loop with a command, a batch and a report,
  and one of another loop, or a batch of each of four loops; three times let the
  three packets of a loop differ.
* *Texts*: five messages, one with a delimiter in it, one long enough for
  weights above 27, and two for which a damaged last delimiter leaves a fitting
  checksum; timestamps on both sides of 10 and of a second digit; two packets
  that a mistake in the frame leaves with a fitting checksum, and two whose
  messages hold a `^` and a `$`; any character may become one of these, a delimiter, a digit or a letter, among them characters
  whose codes are 27 and 37 apart. So each exception that `SubstitutionCaught` and
  `SwapCaught` allow occurs. The theorems are about all messages and timestamps.
* *Packets on the radio*: three. Two lost but for their `$` and a whole one
  show a packet returned three times; a damaged packet between whole ones shows
  that neither suffers.

### Configurations

No configuration in the repository has everything the code can do.
`nitrous_config.json` and `ethanol_config.json` have the controls of
`command_loop`, but valves the ground has no codes for;
`full_config.json` has the valves, and no telemetry control;
`config.json` has the igniter, at pin -1, and only the telemetry task. So
`command_loop` joins the controls of the first with valves of
`full_config.json`, and `stage_loop` and `abort_loop` enable controls that
`ControlTask` offers and no configuration enables together.

### Fairness and deadlock

`FlightLoop` assumes weak fairness of `LoopStep`, `Downlink` of `Loop`, and
`StageControl` of the steps of the loop it stands in: `Supervisor::run` is
`while (true)` without a wait, so a running program takes its next step.
`XBeeLink` assumes the same of `Read`, and of what is on the air that it arrives
or gets lost. Nothing is assumed of the ground, of sensors or of time.
Deadlock is checked in all runs but two: where bad commands arrive
(`valve_task`, `command_loop`) an exception ends the program. Elsewhere the
loop never gets stuck.

## 4. The proofs

Every theorem is for all values of the constants that satisfy the named
assumptions.

**`ValveTaskProofs`** (assumption `ValveAssumption`: the valves are distinct
locations, codes are digits). `SignalMatchesState` (a level means the state the
driver records) is here about `ValveTask` and its driver alone; in the loop the LED
may be on a valve's pin, and `SignalsMeanStates` is what is left of it. `TypeCorrect`; `OpenReportsAreTrue`;
`ClosedReportsAreExplained`; `SignalsMatchStates`; `RequestsAreNotLost`.
`SignalMatchesState` is inductive as it stands; `OpenReportTrusted` and
`ClosedReportExplained` need the types, because a state is recorded for a
location of the map. The one lemma of substance is that a served valve
carries a code the driver knows (`ServedCodes`).

**`StageControlProofs`** (assumption `StageAssumption`). `NoPostburn` is not
inductive: that the status stays below 100 depends on a registry field of
`main_propellant_valve` that `StageControl` only reads, so the invariant
`StageInvariant` adds `NothingRecorded`, that no component ever records an
actuation type; the stage start time lies in the past, without which the
elapsed time of a waiting opening could shrink. From it follow
`StageTypeCorrect`, `PostburnNotReached`, `IgnitionWaits`, `StatusesDoAgree`
(the statuses agree as the packets are queued, `FinishAgrees`) and `SequenceKept`,
the safety part of `ImplementsSequence`: each branch of `execute()` maps to an
advance or a stay of the abstract machine. `PressurizedFirst` proves the action
property `PressurizedBeforeAutosequence`; the lemma it needs, `FullAbove490`, is
about the arithmetic of `calculate_status()`: 490 psi is the one pressure where
the quotient is exactly 100, and where the build rounds it down it is cut to 99.
Pressures are any integers here, and what the ground asks of its valves is any request.

**`FlightLoopProofs`** (assumption `LoopAssumption`). `AbortsAreFollowed`: the
invariant `Caught` extends `AbortFollowed` to the turns after the valve
control, and the proof is the argument about the order: both controls that
change the soft abort come before turn 4. `RequestsAreDrained` holds where a
valve task is configured and no valve is called `PRESSURE_RELIEF`, the location
`PressureControl` raises the priority of: `RequestsOK` says that configured
valves have no current priority, so that none of their requests is denied, and
`Drained` follows the loop from the valve task's turn to the next controls.

Then about what the ground may rely on, in four parts. `OneCommand` and `CriticalSensorsAbort`
assume `TelemetryLast`, that the telemetry task is the last of the tasks, as in
every configuration: so a loop that reads a command has the link up and no
read follows. `OneCommand` proves `OneCommandPerLoop`: no loop finds two commands
in the queue, and none leaves one to the next, so that the newest-first order of the
queue never matters and a reply answers the command of its loop. `QueueOK` is its
inductive form; it says up to which turn a command may wait. `AbortKnown` is the one of `CriticalAborts`: from the
abort control's turn on, a critical grade means a soft abort or a `UAB` reply
in the outbox, which no later turn removes before the task actuates.
`RefusalsAreNotSent` holds in every configuration: a refusal is in the outbox
only of a program that has ended (`RefusalsWait`). `AcksAreTrue` assumes
`CommandConfig`: `TelemetryLast`, a valve task, no stage control, and that
neither a valve, nor a code of the ground, nor a sensor is spelled as `PressureControl`
spells its valve. Its invariant `RepliesOK` says of every "-1" in the outbox where its
request is (`Underway`): in the flag until the valve task's turn, at the
driver after it; no later command can have overwritten it, because there is
one per loop. `MovesHaveReplies` proves `MovesAreAnswered` under the same assumption: a
pending request always has its reply in the outbox (`Answered`), because only the
telemetry control writes requests, and the outbox is emptied only when all are
served.

**`SensorTaskProofs`** (assumption `SensorAssumption`: slopes and biases are any
integers, and `Values` holds what they make of a reading). `ShownOK` adds to the
properties that a sensor that does not own its pin shows 0; `OneOwner` says a pin has
one owner. `SensorTypeCorrect`, `SharedPinsAreSilent`, `ForcesAreNeverShown` and
`OwnPinsAreShown` follow.

**`StageLoopProofs`** joins the components: `LoopInvariant` is the conjunction
of `SensorsOK` (the invariant of `SensorTaskProofs`, whose module is taken by
`INSTANCE`), `RequestsOK`, `NothingRecorded`, `StageOK` (the stage is at most the
autosequence, its start lies in the past), `RestOK` and `LedOK` (the types of
the rest and of the LED). `LoopTypeCorrect`:
`FlightLoop`'s `TypeOK`, where no valve is spelled as `PressureControl` does.
`IgniterWaits`: `IgniterHeld`, where moreover the ground has no code for the
igniter; `IgniterOK` says that a request to open it, and an open igniter, exist
only when the autosequence is `Late`, and `LateStays` that it remains so.
`WellFormedNeverCrash`: well-formed arrivals put only enumerated codes into the
flags (`CodesOK`), so no lookup throws.

The rest of the module carries the results about single components over to the
loop, where their environment is the real one. `StageMoves` says what a turn of
the stage control does and `StagesStay` that no other turn moves a stage; from
them follow `LoopStopsBeforePostburn`, `LoopPressurizesFirst`
(`PressurizedBeforeAutosequence` with the filter's estimates as pressures) and
`LoopFollowsSequence`: with the mapping `IgniterSequence`, each turn is a step of
`StageSequence` or a stutter (`StageTurnRefines`, `OtherTurnsRefine`), where the
ground has no code for the igniter. For the two engine valves that do have a code
it would be false: a `SAC` opens them in any stage. `LoopShowsReadings` carries over the
properties of `SensorTask` and `LoopReportsTrue` three of `ValveTask`; its
invariant `ReportsOK` is their conjunction, which is inductive once `DriverKeeps`
says that a served valve carries a known code. All but `LoopShowsReadings` assume
that no valve is spelled as `PressureControl` does.

**`XBeeLinkProofs`** (assumption `LinkAssumption`), in three steps.
`LinkInvariant` says that every symbol of a packet is in one place: on the air, in
the serial buffer, in `rcvd`, or gone. `LinkTypeCorrect` and `WholeTextsOnly`
follow. `OrderOK` says that losses do not change the order of what is left.
`CutUpTo(c)` is the heart: the last `$` cut off was the one of packet c;
everything before it is gone, and of every later packet all is pending or lost;
a packet has been returned at most once for each packet up to c of which only the end
arrived, and once more if its own text is gone. `ReadCuts` and `MarkMoves` show
how `read()` moves the mark, `MarkStays` that nothing else does.
`RepeatsAreExplained` follows, and `PromiseKept`: the driver implements
`PacketLink`, by the mapping under which `ImplementsLink` is checked. That a set
of packets has a first and a last one is proved from `WFMin` (`LeastNumber`,
`GreatestNumber`).

**`DownlinkProofs`** (assumption `DownlinkAssumption`). `ActuateAppends`:
`TelemetryTask::actuate` puts the flag's packets behind all that was sent, in one
of their `Orders`, and neither build's `write()` changes the order. The invariant
adds to `ArrivalOrder` which batch the packets of each queue belong to
(`PacketsOK`), and what the reports and the valve have to do with each other
(`ReportsOK`): the last report of an actuation that moves the valve tells what the
valve is, the registry does so unless that was a `PULSE`, and a batch with which the
registry no longer agrees has a report behind it. `ArrivalsInOrder` and
`StaleViewsExplained` follow, for any number of packets, any times and any sequence
of the four actuation types.

**`PacketTextProofs`** (assumptions `TextAssumption`: header and message are
printable, the header has three characters, none of them `|`, `^` or `$`; and
`TimestampAssumption`: a timestamp has at most 11 hexadecimal digits, as
milliseconds have until the year 2527, and the board's `long` anyway). The text
is computed by recursions, for which the module first proves what they need:
`RecursionSolved`, that a recursion along a falling measure has a solution, and
`RecursionInduction`. From these follow the rules of `Digits`, `ValueOf`,
`WeighedSum` and `Split`: `ValueOfDigits` (the digits of a number stand for it, so
that no two numbers have the same), `ReadsLow`, `SumOfSubstituted` and
`SumOfSwapped` (by how much the weighed sum changes), `SplitThree`. `TextInv` says that the text is the packet's own with at most
one mistake (`OneMistake`), that what is cut off ends with a `$` of it (`Placed`), and
that the outcome is the verdict on some part of it that begins there (`ReadSome`).
`FramedReads` then brings the frame down to the text within it: where a mistake in a
packet without `^` and `$` of its own makes no new one, what has been read is the
whole text, as what is between its first and its last character, or it was rejected.
The exchanges at the two ends, where this does not hold, have lemmas of their own
(`EarlyEndNoticed`, `ShortNoticed`): the checksum that has lost its last digit to the
other side of the `$` does not fit. `UndamagedAlwaysComesBack` and `TimestampAlwaysReadsLow` follow from the shape of the text
(`WriteShape`, `UndamagedParts`); `SubstitutionAlwaysCaught` and `SwapAlwaysCaught`
because a weight of 1 to 26 times a difference of two printable codes is no multiple
of 999 (`WeighedChangeShows`). `OnlyFirstEverThrows` goes through the places a
mistake can hit: three delimiters in the right places make three sections
(`HeaderHolds`), and where the mistake takes one away the checksum notices it. The case
that needs arithmetic is a lost last delimiter (`LostDelimNoticed`): the message,
the false character and the old checksum would together have to be the
checksum of what stands before them, so they are three digits at most, and no
timestamp of up to 11 digits makes the sums agree. With 12 digits some would.

### Only model-checked

* Liveness: `RequestsServed`, `ProgressionAnswered`, `IntactDelivered`,
  `AllReceived`, and the fairness part of `ImplementsSequence`: under fairness,
  which needs ENABLED, TLAPS proves nothing.
* The counterexamples of section 5.

## 5. Where the code and its texts disagree

| Run | The text | The code |
|---|---|---|
| `kept_asking` | the SGP handler "Progresses the rocket to the next stage of flight" (`TelemetryControl.cpp:192`) | the autosequence is complete only when the registry's `actuation_type` of `main_propellant_valve` is OPEN_VENT (`StageControl.cpp:73`), which nothing writes: POSTBURN is never reached |
| `accepted_not_actuated` | "Successfully controlled solenoid at" (`TelemetryControl.cpp:137`) | `StageControl` overwrites the request, ABORT_PRIORITY or not, before the valve task sees it (`StageControl.cpp:176`) |
| `unsafe_graded_safe` | "safe": [100, 500] (`src/full_config.json:80`) | `Config` reads `safe[0]` and `warn[1]` only; the other ends are uninitialized (`Config.cpp:46`) |

Other disagreements are stated as properties of what the code does, and hold:
`RefusalsUnsent`, `ClosedReportExplained`, `MovesAreAnswered`, `ForceNeverShown`,
`SharedPinSilences`, `TimestampReadsLow` (section 3). And two more:

* `ValveTask.cpp:57-63`, over `actuate()`, says that a request is allowed if its
  priority "is greater than the current priority", and that otherwise the task
  will "deny the request to actuate this solenoid, revert back to the current
  actuation". The code compares with `>=` (`ValveTask.cpp:81`), and there is no
  else: a denied request stays in the flag and is compared again in every loop,
  and nothing is reverted. `Granted` is the code's test, and `RequestNotLost`
  leaves the denied requests out. In the loop the difference never shows: a
  configured valve has the current priority NONE for ever (`RequestsAreDrained`).
* `full_config.json:298` puts `nitrous_mpv` on pin 13, which `Supervisor::run` turns
  over once a second as the LED's (`Supervisor.cpp:80`): the valve then opens and
  closes with the LED, and nothing the ground is told says so
  (`SignalsMeanStates`).

## 6. Not modelled

By far the most lines of the repository are vendored: asio, ArduinoJson and the
thermocouple library under `src/include/`. They are third-party code, and asio
is used by the desktop build only; what the program takes from them is in the
models of the drivers and the constants. Of the program itself:

* *The Kalman gain and the conversion of analog levels in the drivers*: floating
  point. Every reading, and every estimate between the last and the reading, is
  allowed. Pressures are whole psi: that 490.5 psi is 100 % in any build is not seen. The random
  readings of the `Pseudo` drivers of the desktop build are among them.
* *Texts that lose characters*: `PacketText` damages single characters, and
  `XBeeLink` loses whole parts of a packet and takes the checksum to tell packets
  apart. A part of a text lost while the checksum happens to fit is in neither.
* *Several damaged characters at once*, in `PacketText`.
* *`Telemetry::read`* makes a string of a buffer that is not initialized and not
  terminated; nothing can be said of its outcome. `connect` and `reset` retry a
  TCP connection; `XBee::connect`, `reset` and `end` open and close the port.
* *JSON parsing*: its outcome is the constants.
* *`Log::save`*, console output, `Util::to_string` of a double: nothing on
  board reads what they write.
* *Pulsing and special handling of valves* (`ValveDriver::control`): nothing
  calls it, so a pulse stays open; `Drive` models that.
* `main`, the calibration sketches and the build scripts.

## 7. What is left

1. A run of `FlightLoop` with all six controls and sensors on shared pins, as
   large as TLC allows; the theorems cover these configurations.
2. `XBeeLink` with texts of several characters, so that a loss inside a text and
   the checksum meet.
