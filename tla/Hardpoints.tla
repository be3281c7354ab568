----------------------------- MODULE Hardpoints -----------------------------
(***************************************************************************)
(* The hardpoints, in detail: PositionController, which turns forces and   *)
(* encoder readings into motor steps and decides whether a raise or a      *)
(* lowering may go on, and HardpointTestController, which sends a hardpoint *)
(* to its limit switches.  HardpointMotion is what MirrorControl keeps of  *)
(* all this; ImplementsHardpointMotion below relates the two.              *)
(*                                                                         *)
(* A step of the model is as long as an encoder count.  A hardpoint may    *)
(* see tension (its force is negative and it wants to extend), or          *)
(* compression, or is one of those whose force counts whatever happens.    *)
(***************************************************************************)
EXTENDS Integers, FiniteSets, FiniteSetsExt

CONSTANTS
  Hardpoints,
  Tension,        \* hp_can_see_tension
  Compression,    \* hp_can_see_compression
  Top,            \* the limit switches operate at 0 and below, and at Top and above
  NearLow,        \* LowProximity and HighProximity, encoder readings
  NearHigh,
  Reference,      \* the encoder reading of the reference position
  Starts,         \* encoder readings the parked hardpoints start from
  Forces,         \* measured forces; 0 is what chasing aims at
  Elevations,     \* what TMA::getElevation returns; none yet compares as a high one
  IgnoreTension,  \* IgnoreTensionRaisingLoweringElevation
  IgnoreCompression,  \* IgnoreCompressionRaisingLoweringElevation
  RaiseLimits,    \* HPForceLimitLow and High while the mirror is raised and lowered
  LowerLimits,
  MaxSteps,       \* MaxStepsPerLoop
  Margin,         \* encoder counts QuickPositioning stays short of its target, 4 in the code
  Fine,           \* encoder counts FinePositioning closes step by step, 2 in the code
  CompressionReadouts,  \* InRangeReadoutsToChaseFromWaitingCompression; the code never uses
                        \* InRangeReadoutsToChaseFromWaitingTension
  Period,         \* updates for each list that moves hardpoints, 3 in the code
  Full,           \* increments of the support percentage
  FarAway,        \* the steps of a test to a limit switch, 999999999 in the code,
  ReferenceSteps, \* and to the reference position
  Jolt,           \* encoder counts a hardpoint may be off the steps it was sent
  Targets,        \* encoder readings the mirror is moved to, steps hardpoints are moved by
  MoveSteps,
  Scenarios       \* the commands of a behaviour, bounds on commands, jolts and changes of load or
                  \* elevation, and the elevation at the start

Kinds == {"test", "motion", "position", "raise"}

ASSUME HardpointAssumption ==
  /\ IsFiniteSet(Hardpoints) /\ Tension \subseteq Hardpoints /\ Compression \subseteq Hardpoints
  /\ Tension \cap Compression = {}
  /\ Elevations \subseteq Int /\ {IgnoreTension, IgnoreCompression} \subseteq Int
  /\ \A c \in {Top, MaxSteps, CompressionReadouts, Period, Full} : c \in Nat \ {0}
  /\ \A c \in {NearLow, NearHigh, Reference, Margin, Fine} : c \in Nat
  /\ FarAway \in Nat /\ FarAway > Top /\ ReferenceSteps \in Nat \ {0} /\ Jolt \in Nat
  /\ Starts \subseteq [Hardpoints -> 0 .. Top] /\ Forces \subseteq Int /\ 0 \in Forces
  /\ RaiseLimits \in [low : Int, high : Int] /\ LowerLimits \in [low : Int, high : Int]
  /\ Targets \subseteq 1 .. Top - 1 /\ MoveSteps \subseteq Int
  /\ Scenarios \subseteq [kinds : SUBSET Kinds, commands : Nat, jolts : Nat, loads : Nat, turns : Nat,
                           elevation : Elevations, start : Starts]

VARIABLES
  mode,     \* the engineering state, or Parked for every state in which hardpoints stand by
  weight,   \* the support percentage, in increments
  moved,    \* _movedToLowerPosition
  toggle,   \* _controlListToggle
  hard,     \* what PositionController keeps of each hardpoint
  encoder,  \* telemetry
  force,
  elevation,
  test,     \* testState
  budget,   \* commands, jolts, loads and turns of the telescope still to come
  history   \* of each hardpoint: waits since the last start, readings in range in a row, switches
            \* the test saw, whether the test is undisturbed

telemetry == <<encoder, force, elevation>>
vars == <<mode, weight, moved, toggle, hard, telemetry, test, budget, history>>

Modes == {"Parked", "ParkedEngineering", "RaisingEngineering", "ActiveEngineering",
          "LoweringEngineering"}
Waiting == {"WaitingTension", "WaitingCompression"}
Motions == {"Standby", "Chasing", "Stepping", "QuickPositioning", "FinePositioning"} \cup Waiting
Tested == {"MovingNegative", "TestingPositive", "TestingNegative", "MovingReference"}
Tests == {"NotTested", "Passed", "Failed"} \cup Tested

\* HardpointTestController::isTested
IsTested(i) == test[i] \in Tested

\* motionComplete
MotionComplete(h) == \A i \in Hardpoints : h[i].motion = "Standby"

CoerceIntoRange(low, high, v) == IF v < low THEN low ELSE IF v > high THEN high ELSE v
Abs(v) == IF v < 0 THEN -v ELSE v

----------------------------------------------------------------------------
(* Starting and stopping: operators on hard.                                *)

Stopped(s) == [s EXCEPT !.motion = "Standby", !.queued = 0]
StopMotion(h) == [i \in Hardpoints |-> Stopped(h[i])]

\* Mutant: enableChaseAll does not refuse.
EnableChaseAlways(h) == [i \in Hardpoints |-> [h[i] EXCEPT !.motion = "Chasing"]]

\* enableChaseAll and disableChaseAll
EnableChaseAll(h) ==
  IF MotionComplete(h) THEN [i \in Hardpoints |-> [h[i] EXCEPT !.motion = "Chasing"]] ELSE h
DisableChaseAll(h) == [i \in Hardpoints |-> [h[i] EXCEPT !.motion = "Standby"]]

\* _reset_wait_compression_tension
FirstWait(i) == IF i \in Tension \cup Compression THEN "CanWait" ELSE "NoWait"
ResetWait(h) == [i \in Hardpoints |-> [h[i] EXCEPT !.wait = FirstWait(i), !.samples = 0]]

\* _scaledMaxStepsPerLoop: the hardpoints arrive together, at one step per loop at least.  (When
\* nothing is queued the code divides zero by zero; the result is replaced before it is used.)
Scaled(h) ==
  LET longest == Max({Abs(h[i].queued) : i \in Hardpoints})
      share(q) == IF longest = 0 THEN 0 ELSE (MaxSteps * Abs(q)) \div longest
  IN [i \in Hardpoints |-> [h[i] EXCEPT !.scaled = IF share(h[i].queued) = 0 THEN 1
                                                   ELSE share(h[i].queued)]]

\* moveHardpoint, for a number of steps that is not zero
MoveHardpoint(h, i, n) == Scaled([h EXCEPT ![i].queued = n, ![i].motion = "Stepping"])

\* move: refused when a hardpoint that does not stand by is given steps.
Move(h, n) ==
  IF \E i \in Hardpoints : h[i].motion # "Standby" /\ n[i] # 0 THEN h
  ELSE Scaled([i \in Hardpoints |->
         [h[i] EXCEPT !.queued = n[i], !.motion = IF n[i] # 0 THEN "Stepping" ELSE "Standby"]])

\* moveToEncoder: stop Margin counts short of the target.
Quick(delta) == IF Abs(delta) <= Margin THEN 0
                ELSE IF delta > 0 THEN delta - Margin ELSE delta + Margin
MoveToEncoder(h, t) ==
  IF \E i \in Hardpoints : h[i].motion # "Standby" /\ t[i] # encoder[i] THEN h
  ELSE Scaled([i \in Hardpoints |->
         LET n == Quick(t[i] - encoder[i])
         IN [h[i] EXCEPT !.target = t[i], !.stable = 0, !.queued = n,
                         !.motion = IF n # 0 THEN "QuickPositioning" ELSE "Standby"]])

----------------------------------------------------------------------------
(* updateSteps, for one hardpoint with state s, encoder reading e and measured force f. *)

\* Mutant: a motor is not stopped at the limit switch.
CheckNoLimits(s, e) == s

\* checkLimits
CheckLimits(s, e) ==
  IF (s.steps < 0 /\ e <= 0) \/ (s.steps > 0 /\ e >= Top) THEN [s EXCEPT !.steps = 0] ELSE s

Chase(f) == CoerceIntoRange(-MaxSteps, MaxSteps, -f)

\* Stepping and QuickPositioning: the loop after the last step goes on to next.
Advance(s, next) ==
  LET n == CoerceIntoRange(-s.scaled, s.scaled, s.queued)
  IN [s EXCEPT !.queued = @ - n, !.steps = n,
               !.motion = IF s.queued = 0 THEN next ELSE @]

\* FinePositioning.  A wide reading leaves the count of stable ones alone.
Settle(s, e) ==
  LET delta == s.target - e
      stable == IF Abs(delta) > Fine THEN s.stable ELSE IF delta = 0 THEN s.stable + 1 ELSE 0
      steps == IF Abs(delta) > Fine THEN CoerceIntoRange(-MaxSteps, MaxSteps, delta)
               ELSE CoerceIntoRange(-1, 1, delta)
  IN IF delta = 0 /\ stable >= 2
       THEN [s EXCEPT !.stable = 0, !.steps = 0, !.motion = "Standby"]
       ELSE [s EXCEPT !.stable = stable, !.steps = steps]

UpdateSteps(s, e, f) ==
  CheckLimits(
    CASE s.motion = "Standby" -> [s EXCEPT !.steps = 0, !.queued = 0]
      [] s.motion = "Chasing" -> [s EXCEPT !.steps = Chase(f)]
      [] s.motion = "Stepping" -> Advance(s, "Standby")
      [] s.motion = "QuickPositioning" -> Advance(s, "FinePositioning")
      [] s.motion = "FinePositioning" -> Settle(s, e)
      [] s.motion = "WaitingTension" -> [s EXCEPT !.steps = CoerceIntoRange(-MaxSteps, 0, Chase(f))]
      [] s.motion = "WaitingCompression" -> [s EXCEPT !.steps = CoerceIntoRange(0, MaxSteps, Chase(f))],
    e)

----------------------------------------------------------------------------
(* hpRaiseLowerForcesInTolerance, for hardpoint i with the limits of a raise or a lowering: *)
(* its new state and whether its force lets the support percentage change.                  *)

\* A hardpoint that waits has a tighter limit: half of the low one, the middle of both.
ForceInRange(i, s, limits) ==
  LET f == force[i]
      low == IF s.motion = "WaitingTension" THEN 2 * f >= limits.low ELSE f >= limits.low
      high == IF s.motion = "WaitingCompression" THEN 2 * f <= limits.low + limits.high
              ELSE f <= limits.high
  IN low /\ high

\* At the end of its range, where chasing cannot reduce the force.
AtTheEnd(i) == IF i \in Tension THEN encoder[i] > NearHigh ELSE encoder[i] < NearLow
Excessive(i, limits) == IF i \in Tension THEN force[i] <= limits.low ELSE force[i] >= limits.high
WaitMotion(i) == IF i \in Tension THEN "WaitingTension" ELSE "WaitingCompression"

MayWait(s) == s.wait = "CanWait"

\* With the mirror low enough, excess force of the kind the hardpoint may see is ignored.
Ignoring(i) ==
  \/ i \in Tension /\ elevation < IgnoreTension
  \/ i \in Compression /\ elevation < IgnoreCompression

\* Both kinds of hardpoints wait for the number of readings that is set for compression.
Enough(n) == n >= CompressionReadouts

\* Mutant: readings out of range do not restart the count.
KeepWaiting(s) == s

StillWaiting(s) == [s EXCEPT !.samples = 0]

Tolerance(i, s, limits) ==
  LET inRange == ForceInRange(i, s, limits)
      result(t, ok) == [state |-> CheckLimits(t, encoder[i]), ok |-> ok]
  IN CASE ~Ignoring(i) -> result(s, inRange)
       [] Ignoring(i) /\ s.motion = "Chasing" /\ AtTheEnd(i) /\ ~MayWait(s) ->
            result([s EXCEPT !.wait = "AlreadyWaited"], inRange)
       [] Ignoring(i) /\ s.motion = "Chasing" /\ AtTheEnd(i) /\ MayWait(s) /\ Excessive(i, limits) ->
            result([s EXCEPT !.motion = WaitMotion(i), !.steps = 0, !.wait = "Waiting"], TRUE)
       [] Ignoring(i) /\ s.motion = WaitMotion(i) /\ ~inRange -> result(StillWaiting(s), TRUE)
       [] Ignoring(i) /\ s.motion = WaitMotion(i) /\ inRange /\ ~Enough(s.samples + 1) ->
            result([s EXCEPT !.samples = @ + 1], FALSE)
       [] Ignoring(i) /\ s.motion = WaitMotion(i) /\ inRange /\ Enough(s.samples + 1) ->
            result([s EXCEPT !.samples = 0, !.motion = "Chasing"], TRUE)
       [] OTHER -> result(s, inRange)

Checked(h, limits) == [i \in Hardpoints |-> Tolerance(i, h[i], limits)]
States(c) == [i \in Hardpoints |-> c[i].state]
InTolerance(c) == \A i \in Hardpoints : c[i].ok

----------------------------------------------------------------------------
(* One update.  The list that moves the hardpoints is sent every Period updates; the other  *)
(* list reads the telemetry only.                                                           *)

Updated(h) ==
  IF toggle # 0 THEN h ELSE [i \in Hardpoints |-> UpdateSteps(h[i], encoder[i], force[i])]

Driven(h, i) == IF toggle # 0 THEN encoder[i] ELSE encoder[i] + h[i].steps

\* writeControlListBuffer and readAll: the motors run, unless a hardpoint is off its steps or
\* is loaded differently.  The elevation is the inclinometer's, read with the rest; one the
\* telescope sends instead arrives between two updates as well.
Exchange(h) ==
  /\ toggle' = (toggle + 1) % Period
  /\ \/ /\ encoder' = [i \in Hardpoints |-> Driven(h, i)]
        /\ UNCHANGED <<force, elevation, budget>>
     \/ /\ budget.jolts > 0 /\ budget' = [budget EXCEPT !.jolts = @ - 1]
        /\ \E i \in Hardpoints, n \in -Jolt .. Jolt :
             encoder' = [j \in Hardpoints |-> IF j # i THEN Driven(h, j)
                           ELSE CoerceIntoRange(0, Top, Driven(h, i) + n)]
        /\ UNCHANGED <<force, elevation>>
     \/ /\ budget.loads > 0 /\ budget' = [budget EXCEPT !.loads = @ - 1]
        /\ \E i \in Hardpoints, f \in Forces : force' = [force EXCEPT ![i] = f]
        /\ encoder' = [i \in Hardpoints |-> Driven(h, i)]
        /\ UNCHANGED elevation
     \/ /\ budget.turns > 0 /\ budget' = [budget EXCEPT !.turns = @ - 1]
        /\ elevation' \in Elevations
        /\ encoder' = [i \in Hardpoints |-> Driven(h, i)]
        /\ UNCHANGED force

\* What history keeps of an update with the limits in force, if any.
Seen(i) ==
  LET k == history[i].seen
      low == encoder'[i] <= 0
      high == encoder'[i] >= Top
  IN IF IsTested(i) /\ ((k = 0 /\ low) \/ (k = 1 /\ high) \/ (k = 2 /\ low)) THEN k + 1 ELSE k
Recorded(limits) ==
  history' = [i \in Hardpoints |->
    LET s == hard[i]
    IN [history[i] EXCEPT
          !.waits = IF s.motion \notin Waiting /\ hard'[i].motion \in Waiting THEN @ + 1 ELSE @,
          !.steady = IF ~(s.motion \in Waiting /\ hard'[i].motion \in Waiting) THEN 0
                     ELSE IF ~Ignoring(i) THEN @
                     ELSE IF limits # {} /\ \A l \in limits : ForceInRange(i, s, l) THEN @ + 1 ELSE 0,
          !.seen = Seen(i)]]

\* ParkedState::update and ActiveEngineeringState::update
SteadyUpdate ==
  /\ mode \in {"Parked", "ActiveEngineering"}
  /\ hard' = Updated(hard)
  /\ Exchange(hard')
  /\ Recorded({})
  /\ UNCHANGED <<mode, weight, moved, test>>

\* Mutant: the test takes the other switch for the low one.
LowSwitchSwapped(i) == encoder'[i] >= Top

\* Mutant: the test looks at the encoder and wants it beyond the switch.
LowSwitchPassed(i) == encoder'[i] < 0

LowSwitch(i) == encoder'[i] <= 0

\* _runHardpointLoop: the next test state and the steps that are ordered, if any.  No test
\* fails: moveHardpoint refuses only a move by zero steps.
RunHardpointLoop(h, i) ==
  CASE test[i] = "MovingNegative" /\ LowSwitch(i) -> <<"TestingPositive", FarAway>>
    [] test[i] = "MovingNegative" /\ ~LowSwitch(i) /\ h[i].motion # "Stepping" ->
         <<"MovingNegative", -FarAway>>
    [] test[i] = "TestingPositive" /\ encoder'[i] >= Top -> <<"TestingNegative", -FarAway>>
    [] test[i] = "TestingNegative" /\ LowSwitch(i) -> <<"MovingReference", ReferenceSteps>>
    [] test[i] = "MovingReference" /\ h[i].motion = "Standby" -> <<"Passed", 0>>
    [] OTHER -> <<test[i], 0>>

\* ParkedEngineeringState::update, with the new telemetry
TestUpdate ==
  /\ mode = "ParkedEngineering"
  /\ LET h == Updated(hard)
         sent == {i \in Hardpoints : RunHardpointLoop(h, i)[2] # 0}
     IN /\ Exchange(h)
        /\ test' = [i \in Hardpoints |-> RunHardpointLoop(h, i)[1]]
        /\ hard' = IF sent = {} THEN h
                   ELSE Scaled([i \in Hardpoints |-> IF i \notin sent THEN h[i]
                          ELSE [h[i] EXCEPT !.queued = RunHardpointLoop(h, i)[2],
                                            !.motion = "Stepping"]])
  /\ Recorded({})
  /\ UNCHANGED <<mode, weight, moved>>

\* RaisingEngineeringState::update.  Low air pressure and the force actuators may hold the
\* raise back as well; the forces on the hardpoints are looked at first, with the readings of
\* the last update.
RaiseUpdate ==
  /\ mode = "RaisingEngineering"
  /\ LET c == Checked(hard, RaiseLimits)
         checked == IF weight < Full THEN States(c) ELSE hard
         there == [i \in Hardpoints |-> Reference]
     IN \E raised \in BOOLEAN, bypass \in BOOLEAN :
          /\ raised => weight < Full /\ InTolerance(c)
          /\ weight' = IF raised THEN weight + 1 ELSE weight
          /\ hard' = Updated(IF ~raised \/ weight' < Full THEN checked
                             ELSE IF bypass THEN DisableChaseAll(checked)
                             ELSE MoveToEncoder(DisableChaseAll(checked), there))
  /\ Exchange(hard')
  /\ Recorded(IF weight < Full THEN {RaiseLimits} ELSE {})
  /\ mode' \in {mode} \cup IF weight' = Full /\ MotionComplete(hard') THEN {"ActiveEngineering"} ELSE {}
  /\ UNCHANGED <<moved, test>>

\* LoweringEngineeringState::update: go to the lower position, chase, and take the weight off.
LowerUpdate ==
  /\ mode = "LoweringEngineering"
  /\ LET c == Checked(hard, LowerLimits)
         checks == moved /\ weight > 0
         h == Updated(IF checks THEN States(c) ELSE IF moved THEN hard ELSE EnableChaseAll(hard))
     IN /\ moved' = (moved \/ MotionComplete(hard))
        /\ weight' = IF checks /\ InTolerance(c) THEN weight - 1 ELSE weight
        /\ hard' = IF weight' = 0 THEN DisableChaseAll(h) ELSE h
        /\ Exchange(h)
        /\ Recorded(IF checks THEN {LowerLimits} ELSE {})
  /\ mode' = IF weight' = 0 THEN "ParkedEngineering" ELSE mode
  /\ UNCHANGED test

Cycle == SteadyUpdate \/ TestUpdate \/ RaiseUpdate \/ LowerUpdate

----------------------------------------------------------------------------
(* Commands.                                                                 *)

Ordered(kind) ==
  /\ kind \in budget.kinds /\ budget.commands > 0
  /\ budget' = [budget EXCEPT !.commands = @ - 1]
  /\ UNCHANGED <<toggle, telemetry>>

\* TestHardpointCommand::validate and startHardpointTest
StartTest ==
  /\ Ordered("test") /\ mode = "ParkedEngineering"
  /\ \E i \in Hardpoints :
       /\ ~IsTested(i)
       /\ test' = [test EXCEPT ![i] = "MovingNegative"]
       /\ history' = [history EXCEPT ![i].seen = 0, ![i].clean = TRUE]
  /\ UNCHANGED <<mode, weight, moved, hard>>

\* KillHardpointTestCommand::validate and killHardpointTest
KillTest ==
  /\ Ordered("test") /\ mode = "ParkedEngineering"
  /\ \E i \in Hardpoints :
       /\ IsTested(i)
       /\ test' = [test EXCEPT ![i] = "NotTested"]
       /\ hard' = [hard EXCEPT ![i] = Stopped(@)]
  /\ UNCHANGED <<mode, weight, moved, history>>

\* killHardpointTest(-1) looks at testState[-1], whatever is there, before it stops all tests.
KillTests == test' \in {test, [i \in Hardpoints |-> "NotTested"]}

Disturbed == history' = [i \in Hardpoints |-> [history[i] EXCEPT !.clean = FALSE]]

\* ParkedEngineeringState::exitEngineering and disable
Leave ==
  /\ Ordered("test") /\ mode = "ParkedEngineering"
  /\ mode' = "Parked" /\ KillTests /\ hard' = StopMotion(hard)
  /\ Disturbed
  /\ UNCHANGED <<weight, moved>>

EnterEngineering ==
  /\ mode = "Parked"
  /\ mode' = "ParkedEngineering"
  /\ UNCHANGED <<weight, moved, toggle, hard, telemetry, test, budget, history>>

\* stopHardpointMotion, moveHardpointActuators, enableHardpointChase, disableHardpointChase
MoveHardpoints ==
  /\ Ordered("motion") /\ mode # "Parked"
  /\ \/ hard' \in {StopMotion(hard), EnableChaseAll(hard), DisableChaseAll(hard)}
     \/ \E n \in [Hardpoints -> MoveSteps] : (\E i \in Hardpoints : n[i] # 0) /\ hard' = Move(hard, n)
  /\ Disturbed
  /\ UNCHANGED <<mode, weight, moved, test>>

\* translateM1M3 and positionM1M3
PositionMirror ==
  /\ Ordered("position") /\ mode = "ActiveEngineering"
  /\ \E t \in [Hardpoints -> Targets] : hard' = MoveToEncoder(hard, t)
  /\ UNCHANGED <<mode, weight, moved, test, history>>

\* What history forgets when a raise or a lowering starts.
Restarted == history' = [i \in Hardpoints |-> [history[i] EXCEPT !.waits = 0, !.steady = 0, !.clean = FALSE]]

\* ParkedEngineeringState::raiseM1M3 and MirrorRaiseController::start: startRaise
RaiseM1M3 ==
  /\ Ordered("raise") /\ mode = "ParkedEngineering"
  /\ mode' = "RaisingEngineering" /\ weight' = 0
  /\ KillTests
  /\ hard' = ResetWait(EnableChaseAll(StopMotion(hard)))
  /\ Restarted
  /\ UNCHANGED moved

\* MirrorLowerController::start: startLower
LowerM1M3 ==
  /\ Ordered("raise") /\ mode = "ActiveEngineering"
  /\ mode' = "LoweringEngineering" /\ weight' = Full /\ moved' = FALSE
  /\ \E t \in [Hardpoints -> Targets] : hard' = MoveToEncoder(ResetWait(StopMotion(hard)), t)
  /\ Restarted
  /\ UNCHANGED test

\* abortRaiseM1M3, which leaves what the raise noted about waiting.
AbortRaise ==
  /\ Ordered("raise") /\ mode = "RaisingEngineering"
  /\ mode' = "LoweringEngineering" /\ moved' = TRUE
  /\ hard' = EnableChaseAll(StopMotion(hard))
  /\ Disturbed
  /\ UNCHANGED <<weight, test>>

----------------------------------------------------------------------------
Init ==
  /\ mode = "ParkedEngineering" /\ weight = 0 /\ moved = FALSE /\ toggle = 0
  /\ hard = [i \in Hardpoints |-> [motion |-> "Standby", queued |-> 0, steps |-> 0, scaled |-> MaxSteps,
                                   target |-> 0, stable |-> 0, wait |-> FirstWait(i), samples |-> 0]]
  /\ budget \in Scenarios /\ encoder = budget.start /\ elevation = budget.elevation
  /\ force = [i \in Hardpoints |-> 0] /\ test = [i \in Hardpoints |-> "NotTested"]
  /\ history = [i \in Hardpoints |-> [waits |-> 0, steady |-> 0, seen |-> 0, clean |-> FALSE]]

Next ==
  \/ Cycle
  \/ StartTest \/ KillTest \/ Leave \/ EnterEngineering
  \/ MoveHardpoints \/ PositionMirror \/ RaiseM1M3 \/ LowerM1M3 \/ AbortRaise

\* Fairness: the outer loop queues an update every 20 ms.
Spec == Init /\ [][Next]_vars /\ WF_vars(Cycle)

----------------------------------------------------------------------------
\* What PositionController keeps of a hardpoint.
StepCounts == -MaxSteps .. MaxSteps
Shares == 1 .. MaxSteps
StableCounts == 0 .. 1
Waits == {"NoWait", "CanWait", "Waiting", "AlreadyWaited"}
ReadingCounts == 0 .. CompressionReadouts - 1
Counts == Int
HardStates == [motion : Motions, queued : Counts, steps : StepCounts, scaled : Shares, target : Counts,
               stable : StableCounts, wait : Waits, samples : ReadingCounts]

\* Every variable has its type.
TypeOK ==
  /\ mode \in Modes /\ weight \in 0 .. Full /\ moved \in BOOLEAN /\ toggle \in 0 .. Period - 1
  /\ hard \in [Hardpoints -> HardStates]
  /\ encoder \in [Hardpoints -> Int] /\ force \in [Hardpoints -> Forces]
  /\ elevation \in Elevations
  /\ test \in [Hardpoints -> Tests]
  /\ budget \in [kinds : SUBSET Kinds, commands : Nat, jolts : Nat, loads : Nat, turns : Nat, elevation : Elevations, start : Starts]

\* No motion, of whatever kind and however it was started, drives a hardpoint beyond a limit
\* switch by more than the steps of the update in which the switch operated.
WithinLimits == \A i \in Hardpoints : encoder[i] \in 1 - MaxSteps .. Top + MaxSteps - 1

\* In a raise, the lowering that aborts it included, and in a lowering, a hardpoint suspends the
\* check of its force at most once, also when commands stop it and make it chase again and when
\* the mirror moves across the elevation; one that may see neither kind of force never does.
WaitsOnce == \A i \in Hardpoints :
  history[i].waits <= IF i \in Tension \cup Compression THEN 1 ELSE 0

\* What PositionController keeps of the hardpoints is consistent: types, limits and waits.
HardpointInv == TypeOK /\ WithinLimits /\ WaitsOnce

\* A hardpoint that waits chases again only below the elevation, and only after
\* CompressionReadouts readings in range that were taken there, with none out of range between
\* them that was taken there too.  What is read above the elevation neither counts nor restarts
\* the count: a hardpoint that waits when the mirror rises beyond it goes on waiting.
ResumesSteadily ==
  [][\A i \in Hardpoints : hard[i].motion \in Waiting /\ hard'[i].motion = "Chasing" /\ mode' = mode
       => Ignoring(i) /\ history[i].steady + 1 >= CompressionReadouts]_vars

\* A test that ends Passed saw the low switch, then the high one and then the low one again,
\* since it was started, whatever commands interfered.
PassedSawLimits == \A i \in Hardpoints : test[i] = "Passed" => history[i].seen = 3

\* A test that no other command disturbs comes to an end, also when other hardpoints are
\* tested at the same time.
TestsEnd == []<>(\A i \in Hardpoints : ~(mode = "ParkedEngineering" /\ IsTested(i) /\ history[i].clean))

\* The refinement: what MirrorControl keeps of the motions, and what it lets an action do to them.
M == INSTANCE HardpointMotion
Motion(h) == [i \in Hardpoints |->
  CASE h[i].motion = "Standby" -> "Standby"
    [] h[i].motion \in {"Chasing"} \cup Waiting -> "Chasing"
    [] OTHER -> "Moving"]
MirrorStep(m, n) ==
  LET ordered == budget'.commands < budget.commands
      raised == mode = "RaisingEngineering" /\ weight < Full /\ weight' = Full
      inPosition == mode = "LoweringEngineering" /\ mode' = mode /\ ~moved /\ m = M!AllStandby
      lowered == mode = "LoweringEngineering" /\ mode' # mode
      stopsOne == {[m EXCEPT ![i] = "Standby"] : i \in Hardpoints}
  IN IF ordered
     THEN /\ mode' = mode => n \in {M!AllStandby, M!EnableChaseAll(m)} \cup M!Moves(m)
                                   \cup IF mode = "ParkedEngineering" THEN stopsOne ELSE {}
          /\ mode' # mode /\ mode' = "Parked" => n = M!AllStandby
          /\ mode' # mode /\ "RaisingEngineering" \in {mode, mode'} => n = M!AllChasing
          /\ mode' # mode /\ mode = "ActiveEngineering" => n \in M!Moves(M!AllStandby)
     ELSE /\ mode = "ParkedEngineering" =>
               \E u \in M!UpdateSteps(m), sent \in SUBSET {i \in Hardpoints : IsTested(i)} : n = M!SendTo(u, sent)
          /\ raised => \E u \in M!Moves(M!AllStandby) : n \in M!UpdateSteps(u)
          /\ inPosition => n = M!AllChasing
          /\ lowered => n = M!AllStandby
          /\ mode # "ParkedEngineering" /\ ~raised /\ ~inPosition /\ ~lowered => n \in M!UpdateSteps(m)

\* Every step of the detailed controller is one that MirrorControl allows in that state.
ImplementsHardpointMotion == [][MirrorStep(Motion(hard), Motion(hard'))]_vars

=============================================================================
