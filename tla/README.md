# Verification of the M1M3 support system

`ts-M1M3supportd` supports the primary/tertiary mirror of the Rubin telescope: it
raises the mirror from its static supports onto force actuators, positions it with
hardpoints, balances it while the telescope moves, and lowers it again. Glass that is
raised, held or lowered by the wrong rule breaks; most of the rules are spread over 18
state classes and a dozen controllers that no unit test runs together. This directory
holds TLA+ models of that control logic, the TLC runs that check them and TLAPS proofs.
Paths below are relative to `src/src/LSST/M1M3/SS/`.

## The system's parts

| Part | State it keeps | Operations | Correct when |
|---|---|---|---|
| States (`States/`, `Context/`) | the detailed state, a singleton object per state | one handler per command, and `update` | every handler ends in `checkSafety` or leaves the state alone; each state's promise about mirror, air, power holds on every way into it |
| `MirrorRaiseController`, `MirrorLowerController`, `RaisingLoweringInfo` | share of the weight supported, pause flags, time-outs, "moved to lower position" | start, run loop, complete, timeout, pause, resume, abort | the load moves in bounded steps in the right direction; an operation ends; pauses do not lengthen or shorten it |
| `SafetyController` | the latched error code, sliding windows of samples | some sixty notifications, `checkSafety` | the first fault is kept until acted on, and the transition to `LoweringFault` switches the mirror off; a window trips at its threshold |
| `PositionController` | motion state, target and counters of six hardpoints | chase, move, step, stop, tolerance of a raise | no motion outlives the state it was started in; limits stop a hardpoint; a raise is held up only while forces are out of range |
| `ForceController`, `ForceComponents/` | enabled components, ramps | apply, zero, update | a component that is disabled ramps to zero and adds nothing; sums stay within limits |
| `SlewController`, `PID/` | saved balance and PID settings, frozen outputs | enter, exit | exit restores what enter found, and neither makes a force jump |
| `BumpTestController`, `HardpointTestController` | stage and timers of each test | start, run loop, kill | one test does not leave forces or motion behind; a pass was measured |
| Power, air, lights, heartbeat, interlock | commanded outputs, sensors, timers | switch, poll | commanded off in `Disabled` and the fault states; only broken equipment faults the mirror, and it always does |
| ILCs (`ILC/`, `BusLists/`), FPGA (`FPGA/`) | mode of 190 inner-loop controllers on five subnets, expected responses | write, trigger, wait, read, verify | a subnet that is silent does not hide a fault; what is expected is what was asked |
| Threads (`Threads/`, `ts-M1M3supportd.cpp`) | command queue, update mutex, keep-running flags | controller, outer loop, subscriber, PPS, signal handler, start, stop, join | one command at a time; shutdown ends; no thread waits for ever |

Commands come from SAL (the observatory's middleware) in any order through
`SubscriberThread`; `OuterLoopClockThread` adds an update command every FPGA clock
tick; `ControllerThread` executes them one at a time. A handler may end in an exception
when a subnet or the FPGA does not answer; `ControllerThread` logs it and goes on. The
controllers are called by the states and call each other directly; all of them report
to `SafetyController`, whose verdict the state's handler returns.

What is hard here: the order of commands (a pause, an abort, a resume, an engineering
session between any two updates), handlers that end half way, faults that are latched
in one handler and acted on in another, timers that run across pauses, singletons
that survive the restart that replaces the controllers around them, responses of
the ILCs that are lost, late or left over from an earlier list, and the order in which
threads that share a queue and two mutexes stop.
`PROJECT.json` lists each hazard at its line.

## Modules

| Module | Models | Status |
|---|---|---|
| `DetailedStates` | the eighteen states and the groups the other modules speak of | used by `MirrorControl`, `Supervision` |
| `MirrorControl` | the state machine, raise/lower controllers, `checkSafety`, and the parts of the other controllers that transitions touch | checked, proved |
| `MirrorSupport` | the abstract promise: summary state and supported weight | implemented by `MirrorControl` (checked and proved) |
| `HardpointMotion` | `PositionController` as operators on motion states | used by `MirrorControl`, implemented by `Hardpoints` (checked and proved) |
| `Hardpoints` | `PositionController` and `HardpointTestController` in detail: steps, encoders, forces, limit switches | checked, proved |
| `ForceControl` | force components, PIDs, `SlewController` | checked, proved |
| `ForceDistribution` | the tables, sums, disabled actuators, set points, checks and reports at every actuator and axis | checked, proved |
| `BumpTest` | `BumpTestController`, its statuses and the commands around it | checked, proved |
| `ILCs` | bus lists, expected responses, response queues, modes | checked, proved |
| `Supervision` | air, lights, heartbeat, interlock relays, fault windows, booster valves | checked, proved |
| `Threads` | the threads of the daemon, the command queue, the update mutex, signal handlers, shutdown | checked, proved |
| `SerialExecutor` | the abstract promise: commands are executed one at a time in the order accepted | implemented by `Threads` (checked and proved) |
| `MC...` | instances for TLC | |
| `...Proofs` | TLAPS proofs | all obligations proved |

How they fit together: `MirrorControl` has the commands and states in full, with every
controller reduced to what decides a transition. `Hardpoints`, `ForceControl`,
`BumpTest`, `ILCs` and `Supervision` each take one controller in full and the states
only as far as they drive it; `ForceDistribution` takes one force component at a time and
follows it to every actuator. `Threads` justifies that a handler is one atomic step
(`OneUpdate`, `ImplementsSerialExecutor`) and that updates keep coming
(`UpdatesKeepComing`), which is the fairness all the others assume.

### MirrorControl

One action is one whole handler, because `ControllerThread` executes one command at a
time. Its last conjunct is normally `CheckSafety(next, code, f, p)`: with nothing latched
the state becomes `next`, otherwise `LoweringFault`, with the force components and the
auxiliary power switched off (`LoweringFaultState::ensureFaulted`) and the latch
cleared. `Detect(errorCode)` is the monitors (telemetry, ILC responses, applied forces,
position limits): any of them may find a fault in any update, so they are one
nondeterministic choice. Handlers that can end in an exception have a second action
(`StartThrows`, `EnableThrows`, `UpdateThrows`, ...) that does what the handler had done
before the exception and leaves the state as it was.

* `weight` is `weightSupportedPercent`; `RaiseRunLoop` and `LowerRunLoop` are the two
  `runLoop` methods. Whether hardpoint and actuator forces are within tolerance decides
  if an increment happens: a nondeterministic choice, never a fairness assumption.
* `forces` is the set of enabled components that some handler treats differently from
  the others: elevation, static, balance, offset. `ForceControl` has them all.
* `motion` has one of three values for a hardpoint: standing by, chasing (a motion only a command
  ends), moving (a motion that ends by itself).
* `clock` holds times in ticks. `timeLeft` is `timeTimeout - now` with `NaN` for "no
  time-out" (pause writes NAN), `remaining` is `_remaininingTimedout`, `elapsed` is
  `now - _cachedStartTime`, and `ran` is a history variable: the time the operation ran
  unpaused. All are capped by `MaxTimeout`.
* A command that the state does not accept is rejected (`State.cpp`) without a change
  and is no action. Start, raise with bypass, tests and profiles have their parameters
  enumerated; invalid parameters are refused by the command's `validate` and are not
  modelled.

### ForceControl

`comp[c]` is a `ForceComponent` seen at one actuator, the one with the largest
difference between target and current force: `update` scales all others by the same
factor. `current` and `target` are the component's, `applied` is what its Applied event
holds, `flag` its bit in `ForceControllerState`. A start makes new components, and the
constructor of `ForceController` ends in `reset()`: all are disabled, with their flags cleared
and zeroes published, whatever the events held (`NewComponent`). `UpdateComponent` is
`ForceComponent::update`; `Enable`, `Disable`, `Reset` are its other operations.
`ApplyIf` and `ZeroIf` are the guards of `ForceController`'s `apply...` and `zero...`
methods. The six PIDs get the same calls and are one: `Freeze`, `Thaw`, `GetOffset`.
`EnterSlew...`, `ExitSlew...` follow the order of `SlewController.cpp`. A command to
change the slew settings is validated when it arrives (`ArriveSettings`) and executed
later (`ExecuteSettings`). `Update` is `updateAppliedForces` with all that the raise and lower
controllers switch in the same handler.

### ForceDistribution

`component` and `final` are the target, current and applied forces of one `ForceComponent` and
of `FinalForceComponent`, each a function of `Places`: an axis and an index on it, as the code
counts actuators by `z`, `x` and `y` indices. `Tabled` is what `ForceActuatorSettings`
calculates from a sample, `Approach` one step of the ramp, `ApplyForcesByComponents` the sum with
the share of the disabled actuators, `ForcesToSetpoints` and `ToMirror` the two conversions between
axes and cylinders, `Notifications` the checks, `CheckChanges` the publication of clipped
forces. Numbers are integers; the forces of a secondary cylinder are counted along the
axis. `settled` and `still` are history variables: updates since the last change, and
updates that changed nothing. The share of a disabled actuator is a `float` in the code and
divided as an integer here, so `QuadrantForcesArrive` says what a quadrant gets but for the remainder
(`Undivided`).

### Hardpoints

`hard[i]` is what `PositionController` keeps of a hardpoint. An update is `Updated`
(`updateSteps`, only every `Period` updates, when the list that moves hardpoints is
sent), then `Exchange`: the motors run, and with a budget one hardpoint is off its steps
or is loaded differently. `Tolerance` is `hpRaiseLowerForcesInTolerance` with its
waiting states: a hardpoint that can see tension (or compression) waits only below
`IgnoreTension` (`IgnoreCompression`), the elevation at which the force begins to count, and one that can
see neither (`NO_WAIT`) never does. `elevation` changes with the telemetry, in
`Exchange`, with a budget of its own. One that is not known yet compares as a high one, and one
that a message of the telescope brings between two updates is one of
those changes. `RunHardpointLoop` is the hardpoint test. A motor step is as long as an
encoder count. `MirrorStep` says which operator of `HardpointMotion` each step is.

### BumpTest

`stage`, `final`, `timer`, `cylinders` belong to the two objects that the test is spread
over; `buffer` says whether `_bump_test_data` exists, because `stopAll` without it
crashes. `Cycle` is one `runLoop` over all actuators in the order of their indices, with a
result for each measurement chosen freely. An actuator has a primary axis and, if it is dual, a
secondary one along X (`AlongX`) or Y; `LooksAt(ax, other)` says whose status the end of a test
looks at: that of every axis, but of no Y axis in an X test and of no X axis in a Y test. Two things are merged: the
status of an axis as a cylinder and as a direction is one result (for the primary one the code itself makes
`_test_rms` of `Primary` fall through to `Z`), and only the axes in `Suspects` may show warnings
and errors, which the proofs do not need. A test is checked when it arrives (`Request`) and
executed later (`Execute`).

### ILCs

A handler is a sequence of lists (`todo`); each list is one `Exchange`: the ILCs answer
(except for one fault of the bus), the FPGA queues what they sent, and the subnets are read in
order until one holds nothing, which ends the handler by an exception. `expected` is
`ILCResponseParser`'s count, which carries over from list to list until `Verify`.
`UpdateList` is the round robin of the three lists that change. The queues are those of
`SimulatedFPGA`, whose time stamps are kept with the responses: the parser skips one per
read, so a second list in a queue costs a frame.

### Supervision

`dev` holds air and lights: command, output, sensor and the time since the command.
`Faulty` is `DigitalInputOutput::processData`. `window` is one sliding window, filled by the
monitor of the scenario, with `tally` counting what went in. An update that a silent ILC ends
with an exception has parsed the subnets before it: `Glimpse` pushes the monitor's
reading or not (its ILC may be on either side of the silent one), and latches the fault for
the next `checkSafety`; `SomeFollowingErrors` are the following errors read by then. The window
of the ILC timeouts is filled only after the last subnet. That a silent
ILC leaves its sample out is not a reading, so `WindowIsExact` counts the readings taken. `relays` are both channels of
the two interlock relays; an exception leaves the second channel behind the first.
`valves` is `BoosterValveStatus`.

### Threads

`Threads` is about the steps in between: what the five threads (`main`, `pps`,
`subscriber`, `controller`, `outerLoop`) and the handlers of SIGINT and SIGTERM do to each
other. `pc[p]` is where thread or handler `p` is. One step reaches from one access
to something shared (a mutex, the queue, a keep-running flag) to the next:

| Code | Actions |
|---|---|
| `ControllerThread::enqueue` | `LockQueue`, `Push` (and unlock), `Notify` |
| `ControllerThread::run` | `ControllerCheck`, `Lock`, `Test`, `Wait`, `SpuriousWakeup`, `Pop`, `Unlock` |
| `ControllerThread::_execute` | `Execute` (until `execute` returns or throws), `FinishCommand` (last acknowledgement and `delete`, which unlocks the update mutex) |
| `ControllerThread::stop`, `_clear` | `LockToStop`, `StopController`, `NotifyStop`; `Clear` |
| `OuterLoopClockThread::run` | `OuterLoopCheck`, `OuterLoopTick`, `ConstructUpdate`, `Enqueue`, `AwaitUpdate`, `AcknowledgeClock` |
| `SubscriberThread::run` | `SubscriberCheck`, `AcceptCommand`, `Enqueue`, `EndPass` |
| `PPSThread::run` | `PPSEnds`, `PPSThrows` |
| `runFPGAs` | `StartThread`, `WaitForExitControl`, `StopThread`, `Join` |
| `sigKill` | `Deliver`, `Enqueue`, `Return` |

* A command is its sender and its kind. The state is `Offline`, `Standby` or
  `Operating` (all the others, the subject of `MirrorControl`): the three that
  `EnterControl`, `Start`, `Standby`, `ExitControl` and `Update` tell apart. `Outcomes` is what
  executing one may come to, exceptions included.
* The keep-running flags are plain `bool`s (the controller's is also read outside its
  lock, at the head of its loop). A thread reads its flag in a step of its own that may
  come at any time, so it may read the old value for as long as it likes.
* A signal runs on the stack of a thread of `Receivers` (`frames`), which goes on when the
  handler returns. POSIX lets the system choose any thread that does not block the
  signal, and none does. A handler that waits for the mutex of the thread below it waits for
  ever: `SelfDeadlock`. What `malloc` and logging do in a handler is left out.
* `_updateMutex` and `Model::_mutex` are unlocked by a thread that did not lock them. The
  standard does not define that; the model has what the mutexes of the target's C library
  do, which is to unlock. An exception that leaves a thread ends the process
  (`Terminated`). `_clear` on a queue that is not empty ends in `Undefined`.

## Runs

| Run | Question | Instance |
|---|---|---|
| `mirror` | what is true of mirror, hardpoints, air and power in each state; load moves in bounded steps, in the right direction and in bounded time; no latched fault survives a transition; every operation and fault ends; `MirrorSupport` is implemented | 1 hardpoint, increments of 60 %, time-outs of 1 tick |
| `threads` | the queue is guarded, no wake-up is lost, the update mutex agrees with the update; `SerialExecutor` is implemented; updates keep coming, commands are answered, the shutdown ends but for two named ways of hanging | 1 client command, 1 signal to the controller |
| `force_control` | forces ramp through every command, restart and fault; a slew freezes the balance forces without a bump and gives back what it found; disabling ends | one component at a time (`MCWatched`), forces -1, 0, 2, rate 1, limit 2 |
| `ilcs` | what a list expects is what it asks for; mode changes are verified; the count recovers; every enabled actuator's status is polled | subnets f1 f2 f3 and h1 m1; three scenarios: reconfiguration, 3 silent or late answers, 2 silent or dead ones |
| `bump_test` | pushes end, the far neighbour check is off exactly while needed, a pass was measured, tests end | a single actuator and three dual ones, two along Y and one along X; errors on the single one and, at rest, in each direction; 2 commands, or 1 and a fault |
| `hardpoints` | limits hold, a wait for a force happens once and ends steadily, tests see the switches and end; `HardpointMotion` is implemented | a tension and a compression hardpoint and one that waits for neither, elevations 20, 85 and 95 with limits 80 and 90, 8 encoder counts, eight scenarios |
| `supervision` | only broken equipment faults the mirror and always does; the relays tell the truth; windows trip at their threshold, also when exceptions end the updates that fill them; booster valves close | air timer 2, lights 1, window 3 with threshold 2, one part misused, broken or silent per scenario |
| `force_distribution` | forces come to rest and every actuator reports what the tables ask of it; disabled actuators leave their `z` force to their quadrant; clipped forces that stay are published | six actuators with every orientation in two quadrants, ten components, up to 2 disabled |
| `exit_ends`, `paused_lowering`, `disabled_adds_nothing`, `quadrants` | statements of the code's own documentation that the code does not keep (see Findings) | those of the component's passing run |

Why the bounds are enough. `MirrorControl`'s hardpoints interact only through "all stand
by". Increments of 60 per cent give a raise that overshoots 100 and is capped, and
cross the threshold for the static forces (50) in between. The proofs drop these bounds.
In `Threads` the outer loop runs for ever, so updates are not bounded; one command of any kind can
arrive during the shutdown, and one signal handler can interrupt the controller in
its critical section. The theorems hold for any number of commands, signals and receivers.
In `ForceControl` no component's update depends on another's, so each is followed by itself; forces of
both signs, one of them two ramp steps and the limit away from the other side, give
ramps that are cut, overtaken and reversed. `ILCs` has a round robin of three with one
disabled, a neighbours table that is not symmetric (as the real one), queues of two lists, and
more faults than it takes to fill one. `BumpTest` has an actuator of each kind and, of the dual ones, one to be tested and one at rest in
either direction; the passes over the actuators interact only through "is any other under test"
and "did any other that is looked at see an error". `Hardpoints` has one hardpoint of each kind, and
an elevation below both settings, between them and above both; hardpoints start near the low end and near the high one, a
range of four update steps, and both step budgets and jolts that leave a hardpoint between
its targets; the three forces tell "in range", "out of range" and "too far" apart, four loads
are enough to leave the range, return, leave and return, and two turns to rise above the
elevation and come back while a hardpoint waits.
`ForceDistribution` has each orientation, a different table entry for
every actuator, axis and column, so that no two mix-ups cancel, and limits that some samples
pass. `LargestForce` 108 is the largest force that these tables give, and `SettleTime` 17 the least that
`SettleAssumption` admits: longer than the component's ramp and then that of the sum take from one end of
their ranges to the other, so two changes leave time for both to come to rest, or catch them half
way; `MaxDelay` 2 is the least that can be half over. `Supervision`'s windows need only tell a run of bad readings from a mixture,
and its timers "in time" from "late".

`CHECK_DEADLOCK FALSE`: the program may be told nothing in `Offline` or `Standby`, the daemon of
`Threads` ends or hangs as the findings say, and the bump test may crash it.

Fairness. The outer loop enqueues an update every 20 ms, for ever (`UpdatesKeepComing`), so
every module has weak fairness of its update: `WF(UpdateSucceeds)` in `MirrorControl`
(the ILCs do not stay silent for ever), `WF(Tick)` there because time passes; of an update that does
not fault in `ForceControl`, because an update that throws has moved the forces already and nothing
says that a fault ever comes; of `Cycle` in `ILCs`, `BumpTest` and `Hardpoints`; of `Update` in
`Supervision`, whose throws are bounded by the scenario. No fairness is asked of any command,
of the forces on the hardpoints, of faults or of measurements. So a raise that never gets into
tolerance ends only by its time-out, and a bump test without a usable measurement only by its own.

In `Threads`, `Fairness` has weak fairness for each thread and handler, and strong
fairness for taking the queue's mutex: `std::mutex` promises none, but a
controller with nothing to do waits on its condition variable, which leaves the
mutex free for most of each 20 ms period of the outer loop. No fairness is asked of
signals, clients' commands, spurious wake-ups or exceptions.

Every property has a mutant in `PROJECT.json`: a plausible bug in a mapped definition
(the definitions commented "Mutant") that TLC finds under the run's own configuration.

## Findings

With a run each:

1. **A paused lowering takes load.** `PausedLoweringState::update` and its engineering
   twin call `MirrorRaiseController::runLoop`; the raise controller is not paused, so
   every update within tolerance adds an increment. (`paused_lowering`)
2. **The daemon may not end.** `main` stops the controller before the outer loop. The
   controller then ends without a last look at the queue when its flag is cleared between
   two batches; an update enqueued then is never deleted, the outer loop waits for its
   mutex, and `main` for the outer loop. `ShutdownEnds` says that this (`Stranded`) and
   `SelfDeadlock` are the only ways to hang, and `NoThirdDeadlock`, proved, that waiting in a
   circle has no third form. (`exit_ends`)
3. **A disabled component still pushes.** `ForceComponent::reset` disables at once and publishes
   what the component was applying; nothing updates it again, and the sum of the forces takes
   what is published. After a disable and an enable, without a start in between, the forces of
   before are back in the sum until the component is enabled; so they are in
   `ParkedEngineering` when an ILC that does not answer ends `disable` after its first reset. A standby and a start end it: the
   constructor of `ForceController` publishes zeroes. (`disabled_adds_nothing`)
4. **A disabled actuator costs a neighbour its share.** The sum gives the force meant for disabled
   actuators to the others of the quadrant. Along `x` and `y` it looks for the `x` or `y` index
   of an actuator among the `z` indices of the disabled ones, so an enabled actuator may be
   left out and the quadrant's force is not what was asked. (`quadrants`)

Seen while modelling and part of the models, without a run:

* Both paused engineering states resume to `Raising` or `Lowering`
  (`PausedLoweringEngineeringState.cpp:48`), against their header comments;
  `exitEngineering` and its clean-up are skipped.
* The time since the start is subtracted again at every pause
  (`MirrorRaiseController.cpp:266`), so a raise paused twice times out early.
* While an ILC stays silent every update throws in `SSILCs::read` before `checkSafety`; in
  `Disabled` nothing else acts on a latched fault.
* A command that its state rejects is acknowledged as failed, then as complete
  (`ControllerThread.cpp:92`). Commands that arrive after the controller ended get no answer.
* A panic leaves the air on (`LoweringFaultState.cpp:43` switches the force components and the
  auxiliary power off), while `BoosterValveController.h:40` says that it removes the air.
* Waiting for tension counts to the number of readings set for compression
  (`PositionController.cpp:276`); the setting for tension is never used, and
  `HardpointActuatorSettings.cpp:125` loads `inRangeAfterRaiseLoops` under a name that
  `_init.yaml` does not have.
* The near neighbour flag of an actuator stays as it was when the actuator is disabled, and the
  flags that say "any" in `ForceActuatorForceWarning` are never reset.
* A clipped force is compared with the last one published, where
  `tests/test_PreclippedForces.cpp:66` speaks of the last call.
* The bump test singletons survive fault and restart: a test that a fault interrupted goes on
  in the next engineering session, and one that is restarted half way leaves its push until the
  tests are stopped (`restarted`). Two kills in a row, or a kill before the first update,
  use data that does not exist (`Crashed`). `minimal_tested_distance` leaves out the
  actuator's index among Z and among secondary cylinders alike. A warning in a later stage
  turns an earlier failure into a pass.
* The end of an X (Y) bump test looks at the other actuators in Z and in X (Y) alone
  (`BumpTestController.cpp:308`; `FABumpTestData.cpp:323` has no answer for the others): an X
  test passes while a Y cylinder at rest is out of tolerance, where `doc/bump_test.md:48`
  fails a test for any non-tested actuator out of tolerance. `VerdictIsEarned` says what the code
  keeps.
* The far neighbours table is not symmetric, so whether two actuators may both be disabled
  depends on the order. A quadrant's `x` axis whose actuators are all disabled divides by
  zero (`FinalForceComponent.cpp:172`); `Switch` leaves such sets out.
* Slew settings are validated on arrival and executed later: they may change during a slew.
* A standby commanded between a fault and the next update leaves the interlock relays on
  (`untold` in `Supervision`).
* `killHardpointTest(-1)` reads `testState[-1]`.
* `TMA::checkTimestamps` is skipped when inclinometer, gyro and accelerometers are
  all selected, although the azimuth forces follow the TMA's azimuth even then.

## Proofs

`MirrorControlProofs` proves, for every set of hardpoints and
all settings that `SettingsAssumption` admits (increments 1..100, positive time-outs,
a static threshold below 100):

* `Invariance`: `Inductive` is an invariant. It is `TypeOK`, the six statements of
  `SupportInv`, and `OperationInv`. `SupportInv` needs no strengthening beyond
  `TypeOK`: no handler relies on what another operation left. `PauseFlagsAgree` does:
  `abortRaiseM1M3` does not reset `_loweringPaused`, so `NoStalePause` records that the flag only
  survives in the fault states, `Standby` and `Offline`, and that the next start clears
  it. `TimeIsBounded` needs `TimeBudget`: a pause subtracts `elapsed`, at least the time
  that ran, so what is left never exceeds the unused part of the time-out.
* From it, `SupportInv`, each of its statements and `TimeIsBounded`.
* `WeightFollowsState`: from `WeightStep`, which lists the four things
  any step may do to the weight. `FaultPreemptsCommands`: by cases on the actions.
* `Refinement`: `MirrorControl` implements `MirrorSupport`, from `WeightStep` and
  `StateStep` (where a step may lead).

`ThreadsProofs` does the same for `Threads`, for any sets of clients, signals and
receivers (`ThreadsAssumption` only says that their names differ):

* `Invariance`: the five safety invariants are not inductive alone. `QueueIsGuarded`
  makes every step on the queue exclusive. `NoLostWakeup` needs `WaitsForNothing`: from the
  test of the predicate to the wait nobody can push. `OneUpdate` needs
  `OuterLoopIsFree`: the outer loop only builds an update when the last is deleted.
  `ExitIsFinal` needs `EnterControlIsFirst`, which rules out an `EnterControl` queued
  behind `ExitControl`. `NotYetStarted` and `CommandInHand` tie threads and commands
  to their places.
* `QuietMove` covers all steps between places that the invariant does not mention; the
  steps that take or give back the mutex, and those on the queue, have a lemma each.
* `NoDangling` follows from `OuterLoopIsFree` and `OneUpdate`.
* `ShutdownHasNoThirdDeadlock` and `OperationHasNoDeadlock` are the parts of `ShutdownEnds` and
  `UpdatesKeepComing` that need no fairness, for any number of signals. `Waits(p, W)` says of each place of
  the code whom a thread or handler there waits for; `Deadlocked(t)`, that a set with `t` in it waits
  only for its own members. A second invariant, `OnTheWay`, is inductive relative to `TypeOK`: a handler
  is on one stack, once, while it runs (`Stacks`), `main` has started, and told to stop, every
  thread by the time it joins the first, and before `ExitControl` is executed nobody stops. The
  argument follows the waiting. The owner of the mutex waits only when interrupted, and the innermost handler
  above it then waits for it: `SelfDeadlock` (`OwnerWaits`). So nobody waits for the mutex, nor for a
  handler (`WaitsElsewhere`), and a controller that waits has an empty queue and was not told to stop, by
  `NoLostWakeup` (`WorkerWaits`). In the shutdown `main` can then only wait for an outer loop whose
  update was left behind by a controller that has ended, `Stranded` (`MainGoesOn`); in operation the
  outer loop's update, by `OneUpdate`, is in the queue or being executed, so the controller does not wait
  (`ProducersGoOn`). No run lists the two properties; what `threads` checks is that the shutdown ends and
  that updates keep coming, under fairness, for one signal.
* `Refinement`: only a push, a pop and the end of a command are steps of `SerialExecutor`
  (`RestOfNext`); a push finds nothing being executed because the controller executes with
  the mutex locked.

`ForceControlProofs`, for all sets of components, forces, rates and limits that
`ForceAssumption` admits:

* `Invariance`: `ForceInv` has, for each component, which modes, forces and events go together
  (`EventsAgree`), and that out of control every component is disabled (`IdleOutOfControl`). It
  needs one more fact: a slew entered once has saved what it found (`SlewSaved`).
* Every operation on a component is one of a few moves, which compose. So
  `ForcesRamp` (no published force jumps, through all commands and faults; a start drops what is
  left to zero at once, and only in `Standby`, where nobody sums the forces),
  `SlewEntryIsBumpless` and `SlewRestoresBalance` follow action by action.

`SupervisionProofs`, for any grace times, window lengths and thresholds:

* `Invariance`: in a working device the time since its command never exceeds what its
  sensor still needs, which makes `NoSpuriousFault` inductive (`CodesFit`). A window is exact
  because it holds no more bad readings than were counted (`HoldsCounted`) and ends with all of the
  latest run of them (`EndsWithRun`): both are proved of the operators on sequences first. An
  exception after the reading that fills the window leaves the fault latched (`GlimpseFits`),
  and what is latched no step but a start or a standby forgets without acting on it
  (`Latched`).
* From it `TypeOK`, `NoSpuriousFault`, `RelaysAreTruthful`, `WindowIsExact` and
  `TriggersEndWithTheirReason`.

`BumpTestProofs`, for any number of actuators, any neighbours and overlapping tests:

* `InductiveInvariant`: `BumpInv` and `SilencedWhileTesting` with what a fault or a restart
  leaves behind (`QuietBeforeStart`, `OnlyLeftovers`). `BumpInv` was not true of restarted
  tests at first: a test that is requested again while it pushes starts anew without taking
  its force back. The history variable `restarted` names these.
* `PassesAreEarned`: a pass was measured, with no error on an actuator at rest that its test looks at, under the hypothesis `Capacity <= Settle`, that a
  stage lasts for as many updates as the statistics take samples. `_init.yaml` (3.5 s, 100 samples) fulfils
  it; `ForceActuatorSettings.cpp:201` loads both and compares nothing, and without it a stage
  that times out passes unmeasured.

`HardpointsProofs`, for any number of hardpoints, any ranges, budgets, loads and settings that
the assumptions admit:

* `InductiveInvariant`: types, limits, and for each hardpoint what its state of waiting and its
  test say of what has happened (`WaitFits`, `SeenFits`). Nobody waits where forces are not
  checked, so a mode left while waiting cannot resume later. A waiting hardpoint's count of
  steady readings stands still while the mirror is above the elevation, in the code and in
  the history alike.
* From it `HardpointInv`, `PassedSawLimits` and `ResumesSteadily`. The last one needs that
  a refused command leaves the count of steady readings alone.
* `RefinesHardpointMotion`: every step of `Hardpoints` is a step of `HardpointMotion`, by classes
  of motions and by which of them arrive; so `MirrorControl`, which uses `HardpointMotion`,
  rests on the detailed controller.

`ILCsProofs`, for any subnets, hardpoints, monitors and neighbours with a pair of mutual far
neighbours in every subnet:

* `InductiveInvariant`: every subnet keeps an enabled force actuator, since two mutual
  far neighbours are never both disabled, so the turns of the update lists are defined and
  `ILCInv` holds. Counts are exact (`QueuesFit`) only while nothing went wrong: as soon as a subnet
  is late or dead, a timeout is latched. That is why `ModesAreVerified` holds all the same:
  either the counts are exact and an ILC that missed the change of its mode is owed a response
  (`ModesFit`), or the handler's `checkSafety` finds the latch.

`ForceDistributionProofs`, for any actuators, tables, samples, limits and rates that
`DistributionAssumption` and `SettleAssumption` admit (the tables give numbers, none larger than
`LargestForce`, and `SettleTime` is longer than both ramps):

* The sums are folds over finite sets. That they are defined, and numbers, is shown by a least
  set for which they are not, which `WFMin` gives. So is the largest of the
  differences by which a ramp is scaled (`LargestAt`).
* `ForcesReachTheirActuators`: when an update leaves a ramp where it was, it was at its target
  (`ApproachFacts`: the largest difference moves by a whole `MaxRateOfChange`); nothing
  clipped means that applied forces, set points and cylinders are those of the target;
  and the two conversions are inverse to each other for every orientation
  (`ConversionsAgree`).
* `ForcesReachTheirQuadrants` has two parts. That forces come to rest is a variant argument within an
  invariant. An update takes a whole `MaxRateOfChange` off the largest difference and never makes another
  one larger, whatever is lost when each part is cut to an integer (`ApproachCloses`). The invariant
  therefore bounds the differences by the updates since the last change: first those of the component, and
  those of the sum from when the component's ramp must have ended (`Closer`). A change may come in
  the middle of a ramp and send it back, so it also bounds where the ramps can be (`InRange`): by
  the tables, and for the sum by the force limit of the actuators that one may stand in
  for. That each quadrant gets its z force is `QuadrantKeepsZ`: along z the index of an actuator is its
  number, so the set the code skips is the set of the disabled ones, what they were to give is divided among
  as many as get a share, and the shares add up to it but for the remainder (`SumOfRaised`). Along x and
  y the two sets differ, which is the finding of `quadrants`.
* `ClippedForcesAreKnown` needs `HeldBack`: the count since the last publication is ahead of the
  count of unchanged updates, unless it has reached the delay.

The proofs have one step or lemma per action. All safety and action properties and all three
refinements that the passing runs check are proved. All liveness properties (`OperationEnds`,
`LatchedFaultIsActedOn`, `ShutdownEnds`, `UpdatesKeepComing`, `CommandsAreAnswered`, `DisablingEnds`,
`CountRecovers`, `StatusPolled`, `TestingEnds`, `TestsEnd`, `StuckDeviceIsFound`, `BoosterCloses`) are only
model-checked: the prover has no rule for fairness. `ShutdownEnds` and `UpdatesKeepComing` have their
safety halves proved (`ShutdownHasNoThirdDeadlock`, `OperationHasNoDeadlock`). `TypeOK` is proved for every component and is part of the
invariants that the runs check, or, for `MirrorControl`, `Threads`, `Supervision` and
`ForceDistribution`, of the inductive invariant only.

## Not modelled

* FPGA registers and FIFOs, `NiFpga`: the FPGA program is not in the repository.
* Telemetry publishing (`Publisher/`) and SAL: output only.
* Sensors (gyro, inclinometer, accelerometers, displacement): conversions, no control state.
* How settings files are read and merged, the difference equation of the PIDs, the contents of Modbus frames: data, abstracted to a few values or to
  a nondeterministic choice.
* Main power networks and currents: the same pattern as the auxiliary power, with limits
  that only raise a fault.
* The command line tool and the development utilities: not part of the daemon.
