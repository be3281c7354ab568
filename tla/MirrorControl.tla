--------------------------- MODULE MirrorControl ---------------------------
(***************************************************************************)
(* The state machine of the M1M3 support system: the 18 detailed states,   *)
(* the commands that move between them, the periodic update, and the       *)
(* controllers a raise or a lower of the mirror goes through               *)
(* (MirrorRaiseController, MirrorLowerController, RaisingLoweringInfo,     *)
(* SafetyController).                                                      *)
(*                                                                         *)
(* ControllerThread executes one command at a time, update included, so a  *)
(* handler is one action.  A handler ends in SafetyController::checkSafety *)
(* or in an exception; the second leaves the state and what the handler    *)
(* had not reached as they were.  A command a state does not accept        *)
(* changes nothing (State::rejectCommandInvalidState) and is no action.    *)
(***************************************************************************)
EXTENDS Integers, HardpointMotion, DetailedStates

CONSTANTS
  RaiseIncrement,    \* RaiseIncrementPercentage
  LowerDecrement,    \* LowerDecrementPercentage
  StaticThreshold,   \* EnableStaticForcesSupportedPercentage
  RaiseTimeout,      \* RaiseOperation.Timeout, in ticks
  LowerTimeout,      \* LowerOperation.Timeout, in ticks
  FaultOnTimeout     \* {Raise,Lower}Operation.FaultOnTimeout

ASSUME SettingsAssumption ==
  /\ RaiseIncrement \in 1..100
  /\ LowerDecrement \in 1..100
  /\ StaticThreshold \in 0..99
  /\ RaiseTimeout \in Nat \ {0}
  /\ LowerTimeout \in Nat \ {0}
  /\ FaultOnTimeout \in BOOLEAN

VARIABLES
  state,      \* Context::_currentState
  errorCode,  \* SafetyController's latched fault
  ilcMode,    \* the mode the ILCs were last put in
  air,        \* is the main air valve commanded open
  aux,        \* is an auxiliary power network (force actuators) commanded on
  weight,     \* RaisingLoweringInfo::weightSupportedPercent
  forces,     \* the enabled force components
  motion,     \* motionState of each hardpoint
  tested,     \* hardpoints with a test in progress
  bumpTest,   \* is a force actuator bump test in progress
  raise,      \* MirrorRaiseController
  lower,      \* MirrorLowerController
  clock       \* timeTimeout and the start time of the running operation

mirror == <<weight, forces, motion>>
plant == <<ilcMode, air>>
tests == <<tested, bumpTest>>
controllers == <<raise, lower>>
vars == <<state, errorCode, ilcMode, air, aux, weight, forces, motion, tested,
          bumpTest, raise, lower, clock>>

----------------------------------------------------------------------------
(* SafetyController. *)

\* "NoController": before the first start command there is no SafetyController.
Faults == {"UserPanic", "RaiseOperationTimeout", "LowerOperationTimeout", "Monitor"}
ErrorCodes == Faults \cup {"NoFault", "NoController"}

\* _updateOverride: only the first fault is kept.
Latch(code, fault) == IF code = "NoFault" THEN fault ELSE code

\* The monitors a handler runs (telemetry, ILC responses, applied forces, position
\* limits) may or may not find something.
Detect(code) == {code, Latch(code, "Monitor")}

\* The force components that are enabled and disabled: ForceController's static,
\* balance and offset components and the elevation component.
Components == {"Elevation", "Static", "Balance", "Offset"}

\* checkSafety(next): a latched fault turns into the transition to LoweringFault
\* (LoweringFaultState::ensureFaulted) and is cleared.  f and p are the force
\* components and the auxiliary power as the handler left them.
CheckSafety(next, code, f, p) ==
  /\ errorCode' = "NoFault"
  /\ IF code = "NoFault"
     THEN state' = next /\ forces' = f /\ aux' = p
     ELSE state' = "LoweringFault" /\ forces' = {} /\ aux' = FALSE

----------------------------------------------------------------------------
(* RaisingLoweringInfo and the times of the running operation. *)

Full == 100
NaN == -1            \* timeTimeout = NAN: no timeout while paused

AtMost(a, b) == IF a < b THEN a ELSE b
AtLeast0(a) == IF a < 0 THEN 0 ELSE a

\* Mutant: the last increment is not capped.
IncWithoutCap(w) == w + RaiseIncrement

IncSupportPercentage(w) == AtMost(w + RaiseIncrement, Full)
DecSupportPercentage(w) == AtLeast0(w - LowerDecrement)

\* clock.timeLeft:  timeTimeout - now, or NaN; 0 once the timeout passed
\* clock.remaining: _remaininingTimedout of the controller that runs
\* clock.elapsed:   now - _cachedStartTime of that controller, up to MaxTimeout
\* clock.ran:       time the operation ran unpaused, up to MaxTimeout (a history variable)
MaxTimeout == IF RaiseTimeout < LowerTimeout THEN LowerTimeout ELSE RaiseTimeout

Clocks == [timeLeft : {NaN} \cup 0..MaxTimeout, remaining : 0..MaxTimeout,
           elapsed : 0..MaxTimeout, ran : 0..MaxTimeout]

StartClock(timeout) ==
  [timeLeft |-> timeout, remaining |-> timeout, elapsed |-> 0, ran |-> 0]
\* Mutant: the pause does not subtract what the operation has used.
PauseClockUncounted == [clock EXCEPT !.timeLeft = NaN]

PauseClock ==
  [clock EXCEPT !.timeLeft = NaN, !.remaining = AtLeast0(@ - clock.elapsed)]
ResumeClock == [clock EXCEPT !.timeLeft = clock.remaining]

\* Mutant: the timeout is never noticed.
NeverTimedOut == FALSE

\* checkTimeout
TimedOut == clock.timeLeft = 0

\* Time passes between two commands.
Tick ==
  /\ state \in OperationStates
  /\ clock' = [clock EXCEPT
        !.timeLeft = IF @ = NaN THEN NaN ELSE AtLeast0(@ - 1),
        !.elapsed = AtMost(@ + 1, MaxTimeout),
        !.ran = IF clock.timeLeft = NaN THEN @ ELSE AtMost(@ + 1, MaxTimeout)]
  /\ UNCHANGED <<state, errorCode, plant, aux, mirror, tests, controllers>>

----------------------------------------------------------------------------
(* Offline, Standby and Disabled. *)

Init ==
  /\ state = "Offline"
  /\ errorCode = "NoController"
  /\ ilcMode = "Standby"
  /\ air = FALSE
  /\ aux = FALSE
  /\ weight = 0
  /\ forces = {}
  /\ motion = AllStandby
  /\ tested = {}
  /\ bumpTest = FALSE
  /\ raise = [paused |-> FALSE, bypass |-> FALSE]
  /\ lower = [paused |-> FALSE, moved |-> FALSE]
  /\ clock = StartClock(0)

EnterControl ==
  /\ state = "Offline"
  /\ state' = "Standby"
  /\ air' = FALSE
  /\ UNCHANGED <<errorCode, ilcMode, aux, mirror, tests, controllers, clock>>

ExitControl ==
  /\ state = "Standby"
  /\ state' = "Offline"
  /\ UNCHANGED <<errorCode, plant, aux, mirror, tests, controllers, clock>>

\* Model::loadSettings replaces the controllers by new ones: none keeps its state.
\* weight belongs to RaisingLoweringInfo, a singleton, and is left alone.
LoadSettings ==
  /\ raise' = [paused |-> FALSE, bypass |-> FALSE]
  /\ lower' = [paused |-> FALSE, moved |-> FALSE]
  /\ clock' = StartClock(0)
  /\ motion' = AllStandby
  /\ tested' = {}
  /\ UNCHANGED <<weight, bumpTest>>

Start ==
  /\ state = "Standby"
  /\ LoadSettings
  /\ ilcMode' = "Disabled"
  /\ air' = FALSE
  /\ \E code \in Detect("NoFault") : CheckSafety("Disabled", code, {}, FALSE)

\* An ILC that does not answer (SSILCs::read) ends start with an exception.
StartThrows ==
  /\ state = "Standby"
  /\ LoadSettings
  /\ ilcMode' \in {ilcMode, "Disabled"}
  /\ errorCode' \in Detect("NoFault")
  /\ forces' = {}
  /\ air' = FALSE
  /\ aux' = FALSE
  /\ UNCHANGED state

\* Mutant: an update that runs the monitors and does not call checkSafety.
DisabledUpdateUnchecked ==
  /\ state = "Disabled"
  /\ errorCode' \in Detect(errorCode)
  /\ UNCHANGED <<state, plant, aux, mirror, tests, controllers, clock>>

DisabledUpdate ==
  /\ state = "Disabled"
  /\ \E code \in Detect(errorCode) : CheckSafety("Disabled", code, forces, aux)
  /\ UNCHANGED <<plant, weight, motion, tests, controllers, clock>>

Enable ==
  /\ state = "Disabled"
  /\ ilcMode' = "Enabled"
  /\ air' = TRUE
  /\ \E code \in Detect(errorCode) : CheckSafety("Parked", code, forces, TRUE)
  /\ UNCHANGED <<weight, motion, tests, controllers, clock>>

StandbyFromDisabled ==
  /\ state = "Disabled"
  /\ ilcMode' = "Standby"
  /\ \E code \in Detect(errorCode) : CheckSafety("Standby", code, forces, FALSE)
  /\ UNCHANGED <<air, weight, motion, tests, controllers, clock>>

\* enable, standby and disable: the ILCs are addressed first, and an ILC that
\* does not answer ends the command there.  They may have changed mode.
ModeChangeThrows(mode) ==
  /\ ilcMode' \in {ilcMode, mode}
  /\ errorCode' \in Detect(errorCode)
  /\ UNCHANGED <<state, air, aux, mirror, tests, controllers, clock>>

EnableThrows == state = "Disabled" /\ ModeChangeThrows("Enabled")
StandbyThrows == state \in FaultStates \cup {"Disabled"} /\ ModeChangeThrows("Standby")

----------------------------------------------------------------------------
(* LoweringFault and Fault. *)

\* FaultState::update runs the monitors and does not call checkSafety.
LoweringFaultUpdate ==
  /\ state = "LoweringFault"
  /\ state' = "Fault"
  /\ errorCode' \in Detect(errorCode)
  /\ forces' = {}
  /\ aux' = FALSE
  /\ UNCHANGED <<plant, weight, motion, tests, controllers, clock>>

LoweringFaultUpdateThrows ==
  /\ state = "LoweringFault"
  /\ errorCode' \in Detect(errorCode)
  /\ forces' = {}
  /\ aux' = FALSE
  /\ UNCHANGED <<state, plant, weight, motion, tests, controllers, clock>>

FaultUpdate ==
  /\ state = "Fault"
  /\ errorCode' \in Detect(errorCode)
  /\ UNCHANGED <<state, plant, aux, mirror, tests, controllers, clock>>

StandbyFromFault ==
  /\ state \in FaultStates
  /\ state' = "Standby"
  /\ ilcMode' = "Standby"
  /\ errorCode' = "NoFault"
  /\ weight' = 0
  /\ forces' = {}
  /\ UNCHANGED <<air, aux, motion, tests, controllers, clock>>

\* PanicCommand::execute latches the fault and leaves it to the next checkSafety.
Panic ==
  /\ errorCode # "NoController"
  /\ errorCode' = Latch(errorCode, "UserPanic")
  /\ UNCHANGED <<state, plant, aux, mirror, tests, controllers, clock>>

----------------------------------------------------------------------------
(* Parked, and the engineering commands. *)

\* Mutant: disable accepted with the mirror raised.
DisableRaised ==
  /\ state \in {"Parked", "Active"}
  /\ ilcMode' = "Disabled"
  /\ air' = FALSE
  /\ \E code \in Detect(errorCode) : CheckSafety("Disabled", code, {}, FALSE)
  /\ UNCHANGED <<weight, motion, tests, controllers, clock>>

\* Mutant: disable goes to Disabled whatever is latched.
DisableUnchecked ==
  /\ state = "Parked"
  /\ state' = "Disabled"
  /\ ilcMode' = "Disabled"
  /\ air' = FALSE
  /\ forces' = {}
  /\ aux' = FALSE
  /\ UNCHANGED <<errorCode, weight, motion, tests, controllers, clock>>

Disable ==
  /\ state = "Parked"
  /\ ilcMode' = "Disabled"
  /\ air' = FALSE
  /\ \E code \in Detect(errorCode) : CheckSafety("Disabled", code, {}, FALSE)
  /\ UNCHANGED <<weight, motion, tests, controllers, clock>>

DisableThrows == state = "Parked" /\ ModeChangeThrows("Disabled")

\* BumpTestController::stopAll and HardpointTestController::killHardpointTest(-1).
\* The second reads testState[-1], outside the array: it kills every test or none.
StopTests ==
  /\ bumpTest' = FALSE
  /\ tested' \in {tested, {}}

DisableEngineering ==
  /\ state = "ParkedEngineering"
  /\ StopTests
  /\ motion' = AllStandby
  /\ ilcMode' = "Disabled"
  /\ air' = FALSE
  /\ \E code \in Detect(errorCode) : CheckSafety("Disabled", code, {}, FALSE)
  /\ UNCHANGED <<weight, controllers, clock>>

DisableEngineeringThrows ==
  /\ state = "ParkedEngineering"
  /\ StopTests
  /\ motion' = AllStandby
  /\ ilcMode' \in {ilcMode, "Disabled"}
  /\ errorCode' \in Detect(errorCode)
  /\ forces' = {}
  /\ UNCHANGED <<state, air, aux, weight, controllers, clock>>

EnterEngineering ==
  /\ \/ state = "Parked" /\ CheckSafety("ParkedEngineering", errorCode, forces, aux)
     \/ state = "Active" /\ CheckSafety("ActiveEngineering", errorCode, forces, aux)
  /\ UNCHANGED <<plant, weight, motion, tests, controllers, clock>>

\* Mutant: without stopMotion.
ExitEngineeringMoving ==
  /\ state = "ParkedEngineering"
  /\ StopTests
  /\ \E code \in Detect(errorCode) :
        CheckSafety("Parked", code, forces \ {"Offset"}, aux)
  /\ air' = TRUE
  /\ UNCHANGED <<ilcMode, weight, motion, controllers, clock>>

ExitEngineeringParked ==
  /\ state = "ParkedEngineering"
  /\ StopTests
  /\ motion' = AllStandby
  /\ \E code \in Detect(errorCode) :
        CheckSafety("Parked", code, forces \ {"Offset"}, aux)
  /\ air' = TRUE
  /\ UNCHANGED <<ilcMode, weight, controllers, clock>>

\* resetPIDs, PIDs and main power are not modelled; auxiliary power stays as it is.
ExitEngineeringActive ==
  /\ state = "ActiveEngineering"
  /\ motion' = AllStandby
  /\ \E code \in Detect(errorCode) :
        CheckSafety("Active", code, (forces \ {"Offset"}) \cup {"Balance"}, aux)
  /\ air' = TRUE
  /\ UNCHANGED <<ilcMode, weight, tests, controllers, clock>>

\* stopHardpointMotion, disableHardpointChase, enableHardpointChase,
\* moveHardpointActuators, and in ActiveEngineering translateM1M3 and positionM1M3.
MoveHardpoints ==
  /\ state \in EngineeringStates
  /\ motion' \in {AllStandby, EnableChaseAll(motion)} \cup Moves(motion)
  /\ CheckSafety(state, errorCode, forces, aux)
  /\ UNCHANGED <<plant, weight, tests, controllers, clock>>

\* applyOffsetForces, applyOffsetForcesByMirrorForce and clearOffsetForces.
OffsetForces ==
  /\ state \in EngineeringStates
  /\ \E code \in Detect(errorCode), f \in {forces \cup {"Offset"}, forces \ {"Offset"}} :
        CheckSafety(state, code, f, aux)
  /\ UNCHANGED <<plant, weight, motion, tests, controllers, clock>>

\* turnAirOn and turnAirOff.
AirValve ==
  /\ state \in EngineeringStates
  /\ air' \in BOOLEAN
  /\ CheckSafety(state, errorCode, forces, aux)
  /\ UNCHANGED <<ilcMode, weight, motion, tests, controllers, clock>>

\* turnPowerOn and turnPowerOff name the networks: switching off some of the
\* auxiliary networks may leave others on.
AuxPower ==
  /\ state \in EngineeringStates
  /\ \E p \in BOOLEAN : CheckSafety(state, errorCode, forces, p)
  /\ UNCHANGED <<plant, weight, motion, tests, controllers, clock>>

\* enable/disableHardpointCorrections (Balance) and enableDisableForceComponent,
\* which reaches every component except Elevation.
ForceComponents ==
  /\ state = "ActiveEngineering"
  /\ \E c \in {"Static", "Balance", "Offset"} :
       \E f \in {forces \cup {c}, forces \ {c}} : CheckSafety(state, errorCode, f, aux)
  /\ UNCHANGED <<plant, weight, motion, tests, controllers, clock>>

\* SlewController::enterSlew and exitSlew switch the balance forces on or off; which
\* way depends on the slew settings and on what enterSlew found.
SlewFlag ==
  /\ state \in {"Active", "ActiveEngineering"}
  /\ \E f \in {forces \cup {"Balance"}, forces \ {"Balance"}} :
        CheckSafety(state, errorCode, f, aux)
  /\ UNCHANGED <<plant, weight, motion, tests, controllers, clock>>

\* Accepted commands that change nothing of this model but end in checkSafety:
\* TMA samples, active optics, PIDs, lights, booster valve, main
\* power, force actuators and slew settings; raiseM1M3 with bypass when Parked.
OtherCommand ==
  /\ state \in EnabledStates
  /\ \E code \in Detect(errorCode) : CheckSafety(state, code, forces, aux)
  /\ UNCHANGED <<plant, weight, motion, tests, controllers, clock>>

StartTest ==
  /\ state = "ParkedEngineering"
  /\ \/ \E hp \in Hardpoints \ tested : tested' = tested \cup {hp} /\ UNCHANGED bumpTest
     \/ bumpTest' = TRUE /\ UNCHANGED tested
  /\ CheckSafety(state, errorCode, forces, aux)
  /\ UNCHANGED <<plant, weight, motion, controllers, clock>>

KillTest ==
  /\ state = "ParkedEngineering"
  /\ \/ /\ \E hp \in tested :
              /\ tested' = tested \ {hp}
              /\ motion' = [motion EXCEPT ![hp] = "Standby"]
        /\ CheckSafety(state, errorCode, forces, aux)
        /\ UNCHANGED bumpTest
     \/ /\ bumpTest' = FALSE
        /\ \E code \in Detect(errorCode) :
              CheckSafety(state, code, forces \ {"Offset"}, aux)
        /\ UNCHANGED <<tested, motion>>
  /\ UNCHANGED <<plant, weight, controllers, clock>>

----------------------------------------------------------------------------
(* Raising and lowering: the commands. *)

\* MirrorRaiseController::start
RaiseM1M3 ==
  /\ \/ /\ state = "Parked"
        /\ UNCHANGED tests
        /\ raise' = [paused |-> FALSE, bypass |-> FALSE]
        /\ CheckSafety("Raising", errorCode, {"Elevation"}, aux)
     \/ /\ state = "ParkedEngineering"
        /\ StopTests
        /\ \E bypass \in BOOLEAN : raise' = [paused |-> FALSE, bypass |-> bypass]
        /\ \E code \in Detect(errorCode) :
              CheckSafety("RaisingEngineering", code, {"Elevation"}, aux)
  /\ motion' = AllChasing
  /\ weight' = 0
  /\ clock' = StartClock(RaiseTimeout)
  /\ UNCHANGED <<plant, lower>>

\* MirrorLowerController::abortRaiseM1M3: the weight is what the raise reached,
\* and _loweringPaused is left alone.
AbortRaise ==
  /\ \/ state = "Raising" /\ CheckSafety("Lowering", errorCode, {"Elevation"}, aux)
     \/ /\ state = "RaisingEngineering"
        /\ CheckSafety("LoweringEngineering", errorCode, {"Elevation"}, aux)
  /\ motion' = AllChasing
  /\ lower' = [lower EXCEPT !.moved = TRUE]
  /\ clock' = StartClock(LowerTimeout)
  /\ UNCHANGED <<plant, weight, tests, raise>>

\* MirrorLowerController::start.  moveToLowerPosition follows stopMotion, so it is
\* never refused.
LowerM1M3 ==
  /\ \/ state = "Active" /\ CheckSafety("Lowering", errorCode, {"Elevation"}, aux)
     \/ /\ state = "ActiveEngineering"
        /\ CheckSafety("LoweringEngineering", errorCode, {"Elevation"}, aux)
  /\ motion' \in Moves(AllStandby)
  /\ weight' = Full
  /\ lower' = [paused |-> FALSE, moved |-> FALSE]
  /\ clock' = StartClock(LowerTimeout)
  /\ UNCHANGED <<plant, tests, raise>>

PauseRaising ==
  /\ \/ state = "Raising" /\ CheckSafety("PausedRaising", errorCode, forces, aux)
     \/ /\ state = "RaisingEngineering"
        /\ CheckSafety("PausedRaisingEngineering", errorCode, forces, aux)
  /\ raise' = [raise EXCEPT !.paused = TRUE]
  /\ clock' = PauseClock
  /\ UNCHANGED <<plant, weight, motion, tests, lower>>

PauseLowering ==
  /\ \/ state = "Lowering" /\ CheckSafety("PausedLowering", errorCode, forces, aux)
     \/ /\ state = "LoweringEngineering"
        /\ CheckSafety("PausedLoweringEngineering", errorCode, forces, aux)
  /\ lower' = [lower EXCEPT !.paused = TRUE]
  /\ clock' = PauseClock
  /\ UNCHANGED <<plant, weight, motion, tests, raise>>

\* Both paused states resume to the state outside engineering.
ResumeRaising ==
  /\ state \in PausedRaisingStates
  /\ raise' = [raise EXCEPT !.paused = FALSE]
  /\ clock' = ResumeClock
  /\ CheckSafety("Raising", errorCode, forces, aux)
  /\ UNCHANGED <<plant, weight, motion, tests, lower>>

ResumeLowering ==
  /\ state \in PausedLoweringStates
  /\ lower' = [lower EXCEPT !.paused = FALSE]
  /\ clock' = ResumeClock
  /\ CheckSafety("Lowering", errorCode, forces, aux)
  /\ UNCHANGED <<plant, weight, motion, tests, raise>>

----------------------------------------------------------------------------
(* The periodic update in the states that derive from EnabledState. *)

Mirror(w, f, m) == [weight |-> w, forces |-> f, motion |-> m]

\* Mutant: runLoop does not look at the pause flag.
RaiseRunLoopUnpaused ==
  LET w == IncSupportPercentage(weight)
      f == IF w > StaticThreshold THEN forces \cup {"Static"} ELSE forces
      m == IF w < Full THEN {motion}
           ELSE IF raise.bypass THEN {AllStandby} ELSE Moves(AllStandby)
  IN {Mirror(weight, forces, motion)} \cup
     (IF weight >= Full THEN {} ELSE {Mirror(w, f, n) : n \in m})

\* MirrorRaiseController::runLoop.  The forces on the hardpoints and the air
\* pressure decide whether an increment is transferred; with the last one the
\* hardpoints stop chasing and go to the reference position.
RaiseRunLoop ==
  LET w == IncSupportPercentage(weight)
      f == IF w > StaticThreshold THEN forces \cup {"Static"} ELSE forces
      m == IF w < Full THEN {motion}
           ELSE IF raise.bypass THEN {AllStandby} ELSE Moves(AllStandby)
  IN {Mirror(weight, forces, motion)} \cup
     (IF raise.paused \/ weight >= Full THEN {} ELSE {Mirror(w, f, n) : n \in m})

\* MirrorLowerController::runLoop, once the hardpoints are at the lower position:
\* the forces on the hardpoints decide whether a decrement is transferred.
LowerRunLoop ==
  {Mirror(weight, forces, motion)} \cup
  (IF lower.paused \/ ~lower.moved THEN {}
   ELSE {Mirror(DecSupportPercentage(weight), forces, motion)})

\* The rest of that runLoop: chase once the move to the lower position is complete.
MoveToLowerPosition ==
  IF lower.paused \/ lower.moved \/ motion # AllStandby
  THEN motion' \in UpdateSteps(motion) /\ UNCHANGED lower
  ELSE motion' = AllChasing /\ lower' = [lower EXCEPT !.moved = TRUE]

\* Raising and RaisingEngineering, until raiseCompleted.  A raise that has the
\* full weight and stands by may still wait for the hardpoint forces to settle.
RaisingUpdate ==
  /\ state \in RaisingStates
  /\ \E h \in RaiseRunLoop, code \in Detect(errorCode) :
       LET timeout == TimedOut /\ FaultOnTimeout
       IN /\ weight' = h.weight
          /\ motion' \in UpdateSteps(h.motion)
          /\ CheckSafety(state, IF timeout THEN Latch(code, "RaiseOperationTimeout") ELSE code,
                         h.forces, aux)
  /\ UNCHANGED <<plant, tests, controllers, clock>>

\* checkComplete and complete.  Balance forces are switched on unless the settings
\* say no or a hardpoint took too long to settle.
RaiseCompletes ==
  /\ state \in RaisingStates
  /\ \E h \in RaiseRunLoop, code \in Detect(errorCode), balance \in {{}, {"Balance"}} :
       /\ h.weight >= Full
       /\ AllStandby \in UpdateSteps(h.motion)
       /\ CheckSafety(IF state = "Raising" THEN "Active" ELSE "ActiveEngineering",
                      code, {"Elevation", "Static"} \cup balance, aux)
  /\ weight' = Full
  /\ motion' = AllStandby
  /\ UNCHANGED <<plant, tests, controllers, clock>>

\* Lowering and LoweringEngineering, until lowerCompleted.
LoweringUpdate ==
  /\ state \in LoweringStates
  /\ MoveToLowerPosition
  /\ \E h \in LowerRunLoop, code \in Detect(errorCode) :
       LET timeout == TimedOut /\ FaultOnTimeout
       IN /\ h.weight > 0
          /\ weight' = h.weight
          /\ CheckSafety(state, IF timeout THEN Latch(code, "LowerOperationTimeout") ELSE code,
                         h.forces, aux)
  /\ UNCHANGED <<plant, tests, raise, clock>>

LowerCompletes ==
  /\ state \in LoweringStates
  /\ \E h \in LowerRunLoop, code \in Detect(errorCode) :
       /\ h.weight <= 0
       /\ CheckSafety(IF state = "Lowering" THEN "Parked" ELSE "ParkedEngineering",
                      code, {}, aux)
  /\ weight' = 0
  /\ motion' = AllStandby
  /\ UNCHANGED <<plant, tests, controllers, clock>>

\* Every paused state runs the raise controller, the paused lowering ones too.
PausedUpdate ==
  /\ state \in PausedRaisingStates \cup PausedLoweringStates
  /\ \E h \in RaiseRunLoop, code \in Detect(errorCode) :
       /\ weight' = h.weight
       /\ motion' \in UpdateSteps(h.motion)
       /\ CheckSafety(state, code, h.forces, aux)
  /\ UNCHANGED <<plant, tests, controllers, clock>>

SteadyUpdate ==
  /\ state \in {"Parked", "Active", "ActiveEngineering"}
  /\ motion' \in UpdateSteps(motion)
  /\ \E code \in Detect(errorCode) : CheckSafety(state, code, forces, aux)
  /\ UNCHANGED <<plant, weight, tests, controllers, clock>>

\* The update runs the bump test (offset forces) and then the hardpoint tests.
ParkedEngineeringUpdate ==
  /\ state = "ParkedEngineering"
  /\ \E m \in UpdateSteps(motion), sent \in SUBSET tested :
       /\ motion' = SendTo(m, sent)
       /\ \E passed \in SUBSET {hp \in tested \ sent : m[hp] = "Standby"} :
             tested' = tested \ passed
  /\ \/ UNCHANGED bumpTest /\ \E code \in Detect(errorCode) : CheckSafety(state, code, forces, aux)
     \/ /\ bumpTest
        /\ bumpTest' \in BOOLEAN
        /\ \E code \in Detect(errorCode) :
              CheckSafety(state, code, forces \cup {"Offset"}, aux)
  /\ UNCHANGED <<plant, weight, controllers, clock>>

ProfileUpdate ==
  /\ state = "ProfileHardpointCorrection"
  /\ motion' \in UpdateSteps(motion)
  /\ \E code \in Detect(errorCode), next \in {state, "ActiveEngineering"} :
        CheckSafety(next, code, forces \cup {"Offset"}, aux)
  /\ UNCHANGED <<plant, weight, tests, controllers, clock>>

RunMirrorForceProfile ==
  /\ state = "ActiveEngineering"
  /\ CheckSafety("ProfileHardpointCorrection", errorCode, forces, aux)
  /\ UNCHANGED <<plant, weight, motion, tests, controllers, clock>>

AbortProfile ==
  /\ state = "ProfileHardpointCorrection"
  /\ CheckSafety("ActiveEngineering", errorCode, forces \ {"Offset"}, aux)
  /\ UNCHANGED <<plant, weight, motion, tests, controllers, clock>>

\* EnabledState::runLoop ends in an exception when a subnet does not answer: the
\* raise or lower controller and the steps have been done, checkSafety has not.
UpdateThrows ==
  /\ state \in EnabledStates
  /\ errorCode' \in Detect(errorCode)
  /\ \/ /\ state \in RaisingStates \cup PausedRaisingStates \cup PausedLoweringStates
        /\ \E h \in RaiseRunLoop :
             /\ weight' = h.weight
             /\ forces' = h.forces
             /\ motion' \in UpdateSteps(h.motion)
        /\ UNCHANGED lower
     \/ /\ state \in LoweringStates
        /\ MoveToLowerPosition
        /\ \E h \in LowerRunLoop : weight' = h.weight
        /\ UNCHANGED forces
     \/ /\ state = "ProfileHardpointCorrection"
        /\ motion' \in UpdateSteps(motion)
        /\ forces' = forces \cup {"Offset"}
        /\ UNCHANGED <<weight, lower>>
     \/ /\ state \in ParkedStates \cup {"Active", "ActiveEngineering"}
        /\ motion' \in UpdateSteps(motion)
        /\ UNCHANGED <<weight, forces, lower>>
  /\ UNCHANGED <<state, plant, aux, tests, raise, clock>>

DisabledUpdateThrows ==
  /\ state = "Disabled"
  /\ errorCode' \in Detect(errorCode)
  /\ UNCHANGED <<state, plant, aux, mirror, tests, controllers, clock>>

----------------------------------------------------------------------------
(* The specification. *)

\* Commands arrive in any order at any time.
Command ==
  \/ EnterControl \/ ExitControl \/ Start \/ StartThrows \/ Panic
  \/ Enable \/ EnableThrows \/ StandbyFromDisabled \/ StandbyFromFault \/ StandbyThrows
  \/ Disable \/ DisableThrows \/ DisableEngineering \/ DisableEngineeringThrows
  \/ EnterEngineering \/ ExitEngineeringParked \/ ExitEngineeringActive
  \/ MoveHardpoints \/ OffsetForces \/ AirValve \/ AuxPower
  \/ ForceComponents \/ SlewFlag \/ OtherCommand
  \/ StartTest \/ KillTest \/ RunMirrorForceProfile \/ AbortProfile
  \/ RaiseM1M3 \/ AbortRaise \/ LowerM1M3
  \/ PauseRaising \/ PauseLowering \/ ResumeRaising \/ ResumeLowering

\* The update command that OuterLoopClockThread enqueues every cycle.
UpdateSucceeds ==
  \/ DisabledUpdate \/ LoweringFaultUpdate \/ FaultUpdate
  \/ RaisingUpdate \/ RaiseCompletes \/ LoweringUpdate \/ LowerCompletes
  \/ PausedUpdate \/ SteadyUpdate \/ ParkedEngineeringUpdate \/ ProfileUpdate

UpdateFails == UpdateThrows \/ DisabledUpdateThrows \/ LoweringFaultUpdateThrows

Next == Command \/ UpdateSucceeds \/ UpdateFails \/ Tick

Spec == Init /\ [][Next]_vars

\* The outer loop enqueues updates for ever, the ILCs do not stay silent for ever
\* (some update succeeds), and time passes.
FairSpec == Spec /\ WF_vars(UpdateSucceeds) /\ WF_vars(Tick)

----------------------------------------------------------------------------
(* Properties. *)

\* Every variable holds a value of its kind (the types of the C++ members).
TypeOK ==
  /\ state \in States
  /\ errorCode \in ErrorCodes
  /\ ilcMode \in {"Standby", "Disabled", "Enabled"}
  /\ air \in BOOLEAN
  /\ aux \in BOOLEAN
  /\ weight \in 0..Full
  /\ forces \subseteq Components
  /\ motion \in Motions
  /\ tested \subseteq Hardpoints
  /\ bumpTest \in BOOLEAN
  /\ raise \in [paused : BOOLEAN, bypass : BOOLEAN]
  /\ lower \in [paused : BOOLEAN, moved : BOOLEAN]
  /\ clock \in Clocks

\* In the states reached by a completed raise the force actuators carry the whole
\* mirror and the elevation forces that do so are enabled, whatever way the raise
\* went (paused, resumed, bypassing the reference position) and whatever force
\* components the engineer switched since.
SupportedWhenRaised == state \in RaisedStates => weight = Full /\ "Elevation" \in forces

\* In the states where the mirror rests on its static supports no weight is
\* assigned to the actuators and no force component pushes, except the offset
\* forces of a test or of an engineer in ParkedEngineering.
RestingWhenParked ==
  state \in ParkedStates \cup {"Offline", "Standby", "Disabled"} =>
    /\ weight = 0
    /\ forces \subseteq (IF state = "ParkedEngineering" THEN {"Offset"} ELSE {})

\* Outside engineering the hardpoints hold still when the mirror is parked,
\* disabled or active: no chase or motion an engineer, a test, a raise or a lower
\* started survives into those states, where no command could stop it.
HardpointsHoldStill == state \in {"Disabled", "Parked", "Active"} => motion = AllStandby

\* No offset force an engineer, a bump test or a profile applied is left on the
\* mirror in the states where clearOffsetForces is not accepted any more.
NoStrayOffsets == state \in {"Disabled", "Parked", "Active"} => "Offset" \notin forces

\* A faulted mirror has its force actuators off: no component enabled and no
\* auxiliary power, whatever handler detected the fault and at what point.
FaultedIsOff == state \in FaultStates => forces = {} /\ ~aux

\* "Disabled state. Mirror is on static supports, everything is powered off"
\* (DisabledState.h): no way into Disabled leaves the air or the force actuators on,
\* and an enable that fails half way has not switched them on yet.
DisabledIsOff == state = "Disabled" => ~air /\ ~aux

\* The pause flags of the two controllers agree with the state.  abortRaiseM1M3
\* does not reset _loweringPaused, so an aborted raise lowers the mirror only
\* because no earlier pause, fault or restart can leave the flag set.
PauseFlagsAgree ==
  /\ state \in RaisingStates => ~raise.paused
  /\ state \in LoweringStates => ~lower.paused
  /\ state \in PausedRaisingStates => raise.paused
  /\ state \in PausedLoweringStates => lower.paused

\* A running operation never gets more time than its timeout, however often it is
\* paused and resumed and however the timeouts of the two controllers differ.
TimeIsBounded ==
  state \in RaisingStates \cup LoweringStates /\ ~TimedOut =>
    clock.ran + clock.timeLeft <=
       (IF state \in RaisingStates THEN RaiseTimeout ELSE LowerTimeout)

\* The support of the mirror is never thrown from one side to the other: outside
\* the fault states the supported weight changes by at most one increment or
\* decrement a step, through every start, abort, completion, pause and restart.
NoWeightJump ==
  [][state \notin FaultStates =>
       /\ weight' - weight <= RaiseIncrement
       /\ weight - weight' <= LowerDecrement]_vars

\* The actuators take load only while raising (or in a paused lowering, which runs
\* the raise controller) and give it back only while lowering or leaving a fault.
WeightFollowsState ==
  [][/\ weight' > weight => state \in RaisingStates \cup PausedLoweringStates
     /\ weight' < weight => state \in LoweringStates \cup FaultStates]_vars

\* PausedLoweringState.h: "Pause mirror lowering": the load stays where it is.
PausedLoweringHoldsTheWeight ==
  [][(state \in PausedLoweringStates) => weight' = weight]_vars

\* A handler that ends in a change of state never carries a latched fault past
\* checkSafety: the mirror leaves a supervised state only for LoweringFault.
FaultPreemptsCommands ==
  [][(/\ state \in EnabledStates \cup {"Disabled"}
       /\ errorCode \in Faults
       /\ state' # state)
      => state' = "LoweringFault"]_vars

\* A latched fault is acted on: the supervised states do not keep it for ever.
LatchedFaultIsActedOn ==
  state \in EnabledStates \cup {"Disabled"} /\ errorCode \in Faults
    ~> state \in FaultStates

\* A raise or a lower does not go on for ever: it completes, is aborted or paused,
\* or its timeout faults the mirror.
OperationEnds ==
  /\ state \in RaisingStates ~> state \notin RaisingStates
  /\ state \in LoweringStates ~> state \notin LoweringStates

----------------------------------------------------------------------------
(* The inductive invariant of the proofs in MirrorControlProofs. *)

\* _loweringPaused survives a fault, and only until the start command that follows:
\* no raise, and so no aborted raise, ever finds it set.
NoStalePause ==
  lower.paused => state \in PausedLoweringStates \cup FaultStates \cup {"Offline", "Standby"}

\* What is left of an operation's timeout, running or paused, never exceeds what
\* the operation has not yet used.
Limit == IF state \in RaisingStates \cup PausedRaisingStates THEN RaiseTimeout ELSE LowerTimeout

TimeBudget ==
  state \in OperationStates =>
    /\ clock.ran <= clock.elapsed
    /\ clock.remaining <= Limit
    /\ state \in RaisingStates \cup LoweringStates =>
         clock.timeLeft # NaN /\ (clock.timeLeft > 0 => clock.ran + clock.timeLeft <= Limit)
    /\ state \in PausedRaisingStates \cup PausedLoweringStates =>
         clock.timeLeft = NaN /\ (clock.remaining > 0 => clock.ran + clock.remaining <= Limit)

\* What carries the mirror in each state.  In Active and ActiveEngineering, whatever
\* way the raise went and whatever was switched since, the actuators carry all of it
\* and the elevation forces are on; at rest no weight is assigned and nothing pushes;
\* no motion of a hardpoint and no offset force that an engineer, a test or a profile
\* started is left over in a state without a command to stop it; and a faulted or
\* disabled mirror has its power (and, in Disabled, its air) off.
SupportInv ==
  /\ SupportedWhenRaised
  /\ RestingWhenParked
  /\ HardpointsHoldStill
  /\ NoStrayOffsets
  /\ FaultedIsOff
  /\ DisabledIsOff
OperationInv == PauseFlagsAgree /\ NoStalePause /\ TimeBudget

\* Everything the system keeps true, and keeps true because it was true before.
Inductive == TypeOK /\ SupportInv /\ OperationInv

----------------------------------------------------------------------------
(* The abstract specification this one implements. *)

\* The summary state published for a detailed state (Model::publishStateChange).
SummaryState ==
  IF state \in EnabledStates THEN "Enabled"
  ELSE IF state \in FaultStates THEN "Fault" ELSE state

Support == INSTANCE MirrorSupport WITH
  MaxStep <- IF RaiseIncrement < LowerDecrement THEN LowerDecrement ELSE RaiseIncrement,
  summaryState <- SummaryState,
  weightSupported <- weight

\* Through all raises, lowers, pauses, aborts, exceptions and faults the summary
\* state and the supported weight that are published behave as MirrorSupport says.
ImplementsMirrorSupport == Support!Spec

=============================================================================
