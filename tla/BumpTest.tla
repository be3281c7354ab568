------------------------------ MODULE BumpTest ------------------------------
(***************************************************************************)
(* The bump test of the force actuators: BumpTestController, the statuses  *)
(* in ForceActuatorBumpTestStatus, the measurements of FABumpTestData, the *)
(* commands that start and stop tests, and the far neighbour check that is *)
(* suspended while actuators are pushed.                                   *)
(*                                                                         *)
(* An axis is <<z, cylinder>>: actuator z (its Z index) and its "primary"  *)
(* (Z) or, for a dual actuator, its "secondary" (X or Y) cylinder.  Time   *)
(* is counted in update cycles.                                            *)
(***************************************************************************)
EXTENDS Integers, FiniteSets, Sequences

CONSTANTS
  Count,     \* FA_COUNT: actuators are 0 .. Count - 1
  Dual,      \* the dual axis actuators
  AlongX,    \* those whose secondary cylinder pushes along X; the others push along Y
  Near,      \* pairs of actuators no further than MinimalDistance from each other
  Settle,    \* SettleTime, in update cycles
  Capacity,  \* Measurements: the samples FABumpTestData keeps
  Commands,  \* the actuators, kinds and cylinders bump tests are requested for
  Suspects,  \* the axes that may show warnings and errors
  Budgets    \* bounds on a behaviour: commands that start or stop tests, transitions to Fault

Actuators == 0 .. Count - 1

ASSUME BumpTestAssumption ==
  /\ Count \in Nat \ {0}
  /\ Dual \subseteq Actuators /\ AlongX \subseteq Dual
  /\ Near \subseteq Actuators \X Actuators
  /\ \A z \in Actuators : <<z, z>> \in Near
  /\ Settle \in Nat \ {0} /\ Capacity \in Nat \ {0}
  /\ Commands \subseteq [z : Actuators, cylinders : BOOLEAN, axes : SUBSET {"primary", "secondary"}]
  /\ Budgets \subseteq [commands : Nat, faults : Nat]

VARIABLES
  mode,      \* the state; Fresh is Standby before the first start, Enabled every state from
             \* Disabled to Active but ParkedEngineering, Crashed the end of the process
  queue,     \* accepted bump tests that wait for the controller thread
  stage,     \* primaryTest and secondaryTest
  final,     \* _final_primary_states and _final_secondary_states
  timer,     \* cycles until _test_timeout, 0 when it is not in the future
  cylinders, \* _cylinders
  buffer,    \* whether _bump_test_data exists
  same,      \* samples in the buffer since an actuator's stages last changed, at most Capacity
  result,    \* primary_status and secondary_status, or the x, y and z ones
  offset,    \* the target of the offset forces: 1, -1 or 0 times _test_force
  farCheck,  \* FaultOnFarNeighborCheck
  budget,    \* commands and faults still to come
  clean,     \* history: axes triggered since Start on an actuator that was not under test
  restarted  \* history: actuators a test was ordered for while they were under test, since
             \* Start or the last stop

history == <<clean, restarted>>
vars == <<mode, queue, stage, final, timer, cylinders, buffer, same, result, offset, farCheck,
          budget, history>>

Axes == {<<z, "primary">> : z \in Actuators} \cup {<<z, "secondary">> : z \in Dual}
AxesOf(z) == {ax \in Axes : ax[1] = z}

Modes == {"Fresh", "Standby", "Enabled", "ParkedEngineering", "Fault", "Crashed"}
Running == {"Triggered", "TestingPositive", "TestingPositiveWait", "TestingNegative",
            "TestingNegativeWait"}
Verdicts == {"Passed", "Failed", "NonTestedProblem"}
Stages == {"NotTested"} \cup Running \cup Verdicts
Results == {"none", "passed", "warning", "error"}

\* ForceActuatorBumpTestStatus::is_tested
IsTested(ax) == stage[ax] \in Running
UnderTest(z) == \E ax \in AxesOf(z) : IsTested(ax)

----------------------------------------------------------------------------
(* A bump test is checked when it arrives, on the subscriber thread, and    *)
(* executed later, on the controller thread.  The other commands have no    *)
(* check that matters here: they are modelled when they are executed.       *)

\* ZIndexToSecondaryCylinderIndex and SecondaryCylinderIndexToZIndex
SIndex(z) == Cardinality({d \in Dual : d < z})
ZIndex(s) == CHOOSE z \in Dual : SIndex(z) = s

\* minimal_tested_distance(index) <= MinimalDistance.  The loop leaves i = index out, as a Z
\* index and as an index of the secondary cylinders alike.
TooClose(index) ==
  \E i \in Actuators \ {index} :
    \/ IsTested(<<i, "primary">>) /\ <<index, i>> \in Near
    \/ /\ i < Cardinality(Dual)
       /\ IsTested(<<ZIndex(i), "secondary">>)
       /\ <<index, ZIndex(i)>> \in Near

\* ForceActuatorBumpTestCommand::validate.  A rejected command changes nothing.
Request ==
  /\ mode \notin {"Fresh", "Crashed"} /\ budget.commands > 0
  /\ \E c \in Commands : ~TooClose(c.z) /\ queue' = Append(queue, c)
  /\ budget' = [budget EXCEPT !.commands = @ - 1]
  /\ UNCHANGED <<mode, stage, final, timer, cylinders, buffer, same, result, offset, farCheck,
                 history>>

\* validate before the first start: Model has no ILC to ask whether the actuator is disabled.
RequestTooEarly ==
  /\ mode = "Fresh" /\ budget.commands > 0
  /\ mode' = "Crashed" /\ budget' = [budget EXCEPT !.commands = @ - 1]
  /\ UNCHANGED <<queue, stage, final, timer, cylinders, buffer, same, result, offset, farCheck,
                 history>>

\* setBumpTestActuator.  A secondary test of a single axis actuator throws half way.
SetBumpTestActuator(c) ==
  LET z == c.z
      wanted == {<<z, a>> : a \in c.axes}
      axes == wanted \cap Axes
      throws == wanted # axes
  IN /\ farCheck' = FALSE
     /\ timer' = [timer EXCEPT ![z] = Settle]
     /\ cylinders' = [cylinders EXCEPT ![z] = c.cylinders]
     /\ final' = [ax \in Axes |-> IF ax \in axes THEN "Passed" ELSE final[ax]]
     /\ stage' = [ax \in Axes |-> IF ax \in axes /\ ~throws THEN "Triggered" ELSE stage[ax]]
     /\ same' = IF stage' = stage THEN same ELSE [same EXCEPT ![z] = 0]
     /\ clean' = IF UnderTest(z) THEN clean \ AxesOf(z)
                 ELSE IF throws THEN clean ELSE clean \cup axes
     /\ restarted' = IF UnderTest(z) THEN restarted \cup {z} ELSE restarted

\* ParkedEngineeringState::forceActuatorBumpTest; every other state rejects the command.
Execute ==
  /\ mode # "Crashed" /\ queue # <<>>
  /\ queue' = Tail(queue)
  /\ IF mode = "ParkedEngineering"
       THEN SetBumpTestActuator(Head(queue))
       ELSE UNCHANGED <<stage, final, timer, cylinders, same, farCheck, history>>
  /\ UNCHANGED <<mode, buffer, result, offset, budget>>

----------------------------------------------------------------------------
(* runLoop: one pass over the actuators, in the order of their indices, with *)
(* the results r of the measurements.                                       *)

\* _collect_results and test_mirror: statistics exist once all samples in the buffer were
\* taken in the same stages.  A warning tells only for an axis under test.
Sampled == [z \in Actuators |-> IF same[z] < Capacity THEN same[z] + 1 ELSE Capacity]
Known == {ax \in Axes : Sampled[ax[1]] = Capacity}
Outcome(known, bad, fair) == [ax \in Axes |-> CASE ax \in bad -> "error"
                                                 [] ax \in fair -> "warning"
                                                 [] ax \in known \ (bad \cup fair) -> "passed"
                                                 [] OTHER -> "none"]
Measured ==
  LET known == Known
      tested == {ax \in known : IsTested(ax)}
  IN UNION {{Outcome(known, bad, fair) : fair \in SUBSET ((tested \cap Suspects) \ bad)} :
              bad \in SUBSET (known \cap Suspects)}

\* _test_timeout <= now
Due(z) == timer[z] <= 1

\* Mutant: a step that times out is not left.
StepOverNever(ax, r) == r[ax] = "passed"

\* A stage ends when its measurement passed or its time is over.
StepOver(ax, r) == r[ax] = "passed" \/ Due(ax[1])

Primary(ax) == <<ax[1], "primary">>

\* Whether _run_axis moves an axis on.  A secondary cylinder waits until the primary's test is
\* over; if that happens in this pass the actuator has just got a new timeout.
Moves(ax, r) ==
  /\ IsTested(ax)
  /\ IF ax[2] = "secondary" /\ IsTested(Primary(ax))
       THEN stage[Primary(ax)] = "TestingNegativeWait" /\ StepOver(Primary(ax), r) /\ r[ax] = "passed"
       ELSE StepOver(ax, r)

\* Actuators that are not being tested when the pass reaches ax: their timeout is over, and
\* the pass has not renewed it.
NotTested(z, ax, r) ==
  /\ Due(z)
  /\ ~\E m \in AxesOf(z) \ {ax} : Moves(m, r) /\ (z < ax[1] \/ (z = ax[1] /\ m = Primary(ax)))

\* The axes whose status the test of ax looks at: a test of cylinders at all of them, a Z
\* test at all axes, but an X test at no Y axis and a Y test at no X axis, which are
\* INVALID_ACTUATOR in the statuses of its direction.
SameDirection(z1, z2) == z1 \in AlongX <=> z2 \in AlongX
LooksAt(ax, other) ==
  \/ "primary" \in {ax[2], other[2]}
  \/ cylinders[ax[1]]
  \/ SameDirection(ax[1], other[1])

\* Mutant: the secondary cylinders of other actuators are not looked at.
NonTestedPrimary(ax, r) ==
  \E other \in Axes \ {ax} : other[2] = "primary" /\ r[other] = "error" /\ NotTested(other[1], ax, r)

\* The loop of _finalize_test over the actuators that are not being tested.
NonTestedProblem(ax, r) ==
  \E other \in Axes \ {ax} : r[other] = "error" /\ LooksAt(ax, other) /\ NotTested(other[1], ax, r)

\* _finalize_test and status_to_sal: a warning is a pass, and overwrites an earlier failure.
\* Without statistics (std::out_of_range) nothing is recorded.
Verdict(ax, r) ==
  LET own == CASE r[ax] \in {"none", "passed"} -> final[ax]
               [] r[ax] = "warning" -> "Passed"
               [] r[ax] = "error" -> "Failed"
  IN IF r[ax] # "none" /\ own = "Passed" /\ NonTestedProblem(ax, r) THEN "NonTestedProblem" ELSE own

NextStep == [Triggered |-> "TestingPositive", TestingPositive |-> "TestingPositiveWait",
             TestingPositiveWait |-> "TestingNegative", TestingNegative |-> "TestingNegativeWait"]
NextStage(ax, r) == IF stage[ax] = "TestingNegativeWait" THEN Verdict(ax, r) ELSE NextStep[stage[ax]]

\* The offset a stage asks for, in units of _test_force.
Push(st) == CASE st = "TestingPositive" -> 1 [] st = "TestingNegative" -> -1 [] OTHER -> 0

\* Mutant: the end of the negative test leaves the force on.
OffsetHeld(ax, r) ==
  IF cylinders[ax[1]] \/ stage[ax] = "TestingNegative" THEN offset[ax] ELSE Push(NextStage(ax, r))

\* OffsetForceComponent::applyActuatorOffset knows the axes X, Y and Z: the pushes of a test of
\* cylinders (P and S) reach no force.
Offset(ax, r) == IF cylinders[ax[1]] THEN offset[ax] ELSE Push(NextStage(ax, r))

\* Mutant: only tests of primary cylinders are counted.
TestedPrimary == {ax \in Axes : ax[2] = "primary" /\ IsTested(ax)}

\* What tested_count counts is not zero as long as a test runs.
Tested == {ax \in Axes : IsTested(ax)}

\* Whether every _test_timeout is over.
Exits == \A z \in Actuators : Due(z)

\* ParkedEngineeringState::update
Cycle ==
  /\ mode = "ParkedEngineering"
  /\ UNCHANGED <<mode, queue, cylinders, budget, history>>
  /\ buffer' = TRUE
  /\ \E r \in Measured :
       LET moving == {ax \in Axes : Moves(ax, r)}
           moved == {ax[1] : ax \in moving}
       IN /\ result' = r
          /\ stage' = [ax \in Axes |-> IF ax \in moving THEN NextStage(ax, r) ELSE stage[ax]]
          /\ final' = [ax \in Axes |-> IF ax \in moving THEN Verdict(ax, r) ELSE final[ax]]
          /\ offset' = [ax \in Axes |-> IF ax \in moving THEN Offset(ax, r) ELSE offset[ax]]
          /\ timer' = [z \in Actuators |-> IF z \in moved THEN Settle
                                           ELSE IF Due(z) THEN 0 ELSE timer[z] - 1]
          /\ same' = [z \in Actuators |-> IF z \in moved THEN 0 ELSE Sampled[z]]
  /\ farCheck' = (farCheck \/ (Tested = {} /\ Exits))

----------------------------------------------------------------------------
(* The end of tests. *)

\* stopAll of a controller whose data exist, with _reset_progress
Stop(forced) ==
  /\ stage' = [ax \in Axes |-> "NotTested"]
  /\ timer' = [z \in Actuators |-> 0] /\ cylinders' = [z \in Actuators |-> FALSE]
  /\ buffer' = FALSE /\ same' = [z \in Actuators |-> 0]
  /\ offset' = [ax \in Axes |-> 0]
  /\ farCheck' = (farCheck \/ forced) /\ restarted' = {}

\* stopAll(forced) on the way to state to.  _reset_progress uses _bump_test_data, which does
\* not exist before the first runLoop and after another stopAll.
StopAll(forced, to) ==
  IF buffer
    THEN Stop(forced) /\ mode' = to
    ELSE /\ mode' = "Crashed"
         /\ stage' = [ax \in Axes |-> "NotTested"]
         /\ timer' = [z \in Actuators |-> 0] /\ cylinders' = [z \in Actuators |-> FALSE]
         /\ UNCHANGED <<buffer, same, offset, farCheck, restarted>>

\* ParkedEngineeringState::killForceActuatorBumpTest
Kill ==
  /\ mode = "ParkedEngineering" /\ budget.commands > 0
  /\ budget' = [budget EXCEPT !.commands = @ - 1]
  /\ StopAll(FALSE, mode)
  /\ UNCHANGED <<queue, final, result, clean>>

\* ParkedEngineeringState::raiseM1M3, exitEngineering and disable
Leave ==
  /\ mode = "ParkedEngineering" /\ budget.commands > 0
  /\ budget' = [budget EXCEPT !.commands = @ - 1]
  /\ StopAll(TRUE, "Enabled")
  /\ UNCHANGED <<queue, final, result, clean>>

\* ParkedState::enterEngineering
EnterEngineering ==
  /\ mode = "Enabled"
  /\ mode' = "ParkedEngineering"
  /\ UNCHANGED <<queue, stage, final, timer, cylinders, buffer, same, result, offset, farCheck,
                 budget, history>>

\* checkSafety finds a fault: nobody tells BumpTestController.
Fault ==
  /\ mode \in {"Enabled", "ParkedEngineering"} /\ budget.faults > 0
  /\ mode' = "Fault" /\ budget' = [budget EXCEPT !.faults = @ - 1]
  /\ UNCHANGED <<queue, stage, final, timer, cylinders, buffer, same, result, offset, farCheck,
                 history>>

\* FaultState::standby: ForceController::reset.  By then every timer is over.
Standby ==
  /\ mode = "Fault"
  /\ mode' = "Standby"
  /\ offset' = [ax \in Axes |-> 0] /\ timer' = [z \in Actuators |-> 0]
  /\ UNCHANGED <<queue, stage, final, cylinders, buffer, same, result, farCheck, budget,
                 history>>

\* StandbyState::start.  BumpTestController and ForceActuatorBumpTestStatus are not created
\* anew by Model::loadSettings.
Start ==
  /\ mode \in {"Fresh", "Standby"}
  /\ mode' = "Enabled" /\ farCheck' = TRUE /\ clean' = {}
  /\ restarted' = {z \in Actuators : UnderTest(z)}
  /\ UNCHANGED <<queue, stage, final, timer, cylinders, buffer, same, result, offset, budget>>

----------------------------------------------------------------------------
Init ==
  /\ mode = "Fresh" /\ queue = <<>>
  /\ stage = [ax \in Axes |-> "NotTested"] /\ final = [ax \in Axes |-> "Passed"]
  /\ timer = [z \in Actuators |-> 0] /\ cylinders = [z \in Actuators |-> FALSE]
  /\ buffer = FALSE /\ same = [z \in Actuators |-> 0]
  /\ result = [ax \in Axes |-> "none"] /\ offset = [ax \in Axes |-> 0]
  /\ farCheck = TRUE /\ budget \in Budgets /\ clean = {} /\ restarted = {}

Next == Request \/ RequestTooEarly \/ Execute \/ Cycle \/ Kill \/ Leave \/ EnterEngineering \/ Fault \/ Standby
        \/ Start

\* Fairness: the outer loop queues an update every 20 ms.
Spec == Init /\ [][Next]_vars /\ WF_vars(Cycle)

----------------------------------------------------------------------------
\* Every variable has its type.
TypeOK ==
  /\ mode \in Modes /\ queue \in Seq(Commands)
  /\ stage \in [Axes -> Stages] /\ final \in [Axes -> Verdicts]
  /\ timer \in [Actuators -> 0 .. Settle] /\ cylinders \in [Actuators -> BOOLEAN]
  /\ buffer \in BOOLEAN /\ same \in [Actuators -> 0 .. Capacity]
  /\ result \in [Axes -> Results] /\ offset \in [Axes -> -1 .. 1]
  /\ farCheck \in BOOLEAN /\ budget \in [commands : Nat, faults : Nat]
  /\ clean \subseteq Axes /\ restarted \subseteq Actuators

\* As long as a test that was started in this session runs, the far neighbour check stays
\* off, whatever the other tests, timeouts and stop commands did: the push itself would
\* otherwise end in Fault.
SilencedWhileTesting ==
  mode = "ParkedEngineering" => \A ax \in clean : IsTested(ax) => ~farCheck

\* In ParkedEngineering the force on an axis is the one its stage names, none once its test is
\* over or was stopped, and none in a test of cylinders.  A test that is restarted half way may
\* leave its force on until all tests are stopped.
ForceMatchesStage ==
  mode = "ParkedEngineering" =>
    \A ax \in Axes : ax[1] \in restarted \/ offset[ax] = IF cylinders[ax[1]] THEN 0 ELSE Push(stage[ax])

\* However engineering mode was left, no push remains on the mirror and the far neighbour
\* check is on again.
SafeOutsideEngineering ==
  mode = "Enabled" => farCheck /\ \A ax \in Axes : offset[ax] = 0

\* The forces of the bump tests are those their stages ask for, and none after engineering.
BumpInv == TypeOK /\ ForceMatchesStage /\ SafeOutsideEngineering

\* Axes of actuators that are not being tested.
Resting == {ax \in Axes : timer[ax[1]] = 0 /\ ~UnderTest(ax[1])}

\* A test that ends Passed was measured in its last step, without an error, and no actuator
\* that is not being tested showed an error at that moment in Z or in the direction of the
\* test (in no direction, if Z or the cylinders are tested).  An X test does not see an error
\* in Y, nor a Y test one in X: doc/bump_test.md knows no such exception.
VerdictIsEarned ==
  [][\A ax \in clean : IsTested(ax) /\ stage'[ax] = "Passed" =>
       /\ result'[ax] \in {"passed", "warning"}
       /\ \A other \in Resting : LooksAt(ax, other) => result'[other] # "error"]_vars

\* Every test comes to an end, whatever the actuators answer (no step waits longer for a
\* measurement than its time to settle), and the far neighbour check is on again after the
\* last test, after a kill and after a test that could not be started.
TestingEnds ==
  (mode = "ParkedEngineering" /\ (Tested # {} \/ ~farCheck))
    ~> (mode # "ParkedEngineering" \/ (Tested = {} /\ farCheck))

=============================================================================
