---------------------------- MODULE ForceControl ----------------------------
(***************************************************************************)
(* The force components of ForceController (ramps, enable, disable,        *)
(* reset), the PIDs of the balance forces (freeze and thaw) and            *)
(* SlewController, driven by the commands of the states that touch them.   *)
(*                                                                         *)
(* A component is seen at one actuator, the one with the largest           *)
(* difference between target and current force: ForceComponent::update     *)
(* scales all others by the same factor.  The six PIDs are treated alike   *)
(* by every handler modelled here and are one.                             *)
(***************************************************************************)
EXTENDS Integers

CONSTANTS
  Watched,      \* sets of force components: a behaviour follows those of one set
  Forces,       \* forces that commands, telemetry and the PID may ask for
  Rate,         \* MaxRateOfChange, per update
  NearZero,     \* NearZeroValue
  Limit,        \* HighFault = -LowFault of the limit tables
  ThawStep,     \* THAW_STEP
  SlewSettings, \* the slew settings that differ between settings files and that commands set
  Loaded        \* the SlewControllerSettings a settings file may hold

ComponentNames == {"Acceleration", "ActiveOptic", "Azimuth", "Balance", "Elevation",
                   "Offset", "Static", "Thermal", "Velocity"}

ASSUME ForceAssumption ==
  /\ Watched \subseteq SUBSET ComponentNames
  /\ Forces \subseteq Int
  /\ 0 \in Forces
  /\ Rate \in Nat \ {0}
  /\ NearZero \in Nat \ {0}
  /\ Limit \in Nat
  /\ ThawStep \in Nat \ {0}
  /\ SlewSettings \subseteq {"Acceleration", "Velocity", "Balance"}
  /\ Loaded \subseteq SUBSET SlewSettings
  /\ Loaded # {}

VARIABLES
  state,     \* where the mirror is: MirrorControl's states, by the commands they accept
  comp,      \* the ForceComponents
  pid,       \* the PID of the balance forces
  slew,      \* SlewController, its settings and the slew flag; entries (setSlewFlag since
             \* the last clear, up to 2) and found (the balance forces at the first) are history
  pending    \* a SetSlewControllerSettings that was validated and waits in the queue

vars == <<state, comp, pid, slew, pending>>

\* Raising and Lowering stand for their engineering and paused twins as well,
\* ActiveEngineering for the profile state, Fault for LoweringFault.
States == {"Standby", "Disabled", "Parked", "ParkedEngineering", "Raising", "Active",
           "ActiveEngineering", "Lowering", "Fault"}
\* The components followed: no component's update depends on another one.
Components == DOMAIN comp

BalanceEnabled == "Balance" \in Components /\ comp["Balance"].mode = "Enabled"

EnabledStates == States \ {"Standby", "Disabled", "Fault"}
EngineeringStates == {"ParkedEngineering", "Raising", "ActiveEngineering", "Lowering"}

----------------------------------------------------------------------------
(* ForceComponent.  applied is the force in the component's Applied event,  *)
(* the one FinalForceComponent sums; flag its bit in ForceControllerState.  *)

\* INITIALISING is not among them: ForceController's constructor resets every component.
Modes == {"Disabled", "Enabled", "Disabling"}

Abs(x) == IF x < 0 THEN -x ELSE x

\* Range::CoerceIntoRange
Coerce(x) == IF x < -Limit THEN -Limit ELSE IF x > Limit THEN Limit ELSE x

\* postUpdateActions
Publish(x) == [x EXCEPT !.applied = Coerce(x.current)]

Enable(x) == [x EXCEPT !.mode = "Enabled", !.target = 0, !.flag = TRUE]
Disable(x) == [x EXCEPT !.mode = "Disabling", !.target = 0]

\* reset leaves the current force as it was, and publishes it once more.
Reset(x) == Publish([x EXCEPT !.mode = "Disabled", !.flag = FALSE])

\* Mutant: the target is taken at once.
ApproachAtOnce(current, target) == target

\* One outer loop cycle on the way from the current force to the target.
Approach(current, target) ==
  IF Abs(target - current) <= Rate THEN target
  ELSE IF target > current THEN current + Rate ELSE current - Rate

NearlyZero(x) == x.mode = "Disabling" /\ Abs(x.current) < NearZero

\* One update ramps the current force to the target; a component that is being disabled
\* ends when it is near zero.
UpdateComponent(x) ==
  IF NearlyZero(x) THEN [x EXCEPT !.mode = "Disabled", !.current = 0, !.applied = 0, !.flag = FALSE]
  ELSE IF x.mode = "Disabled" THEN x
  ELSE Publish([x EXCEPT !.current = Approach(@, x.target)])

----------------------------------------------------------------------------
(* ForceController's commands on components, as functions of comp. *)

\* apply...Forces and zero...Forces: only a component that is not yet enabled is
\* enabled, only an enabled one is disabled.
ApplyIf(x) == IF x.mode = "Enabled" THEN x ELSE Enable(x)
ZeroIf(x) == IF x.mode = "Enabled" THEN Disable(x) ELSE x

\* zeroOffsetForces zeroes the target in any case.
ZeroForces(c, x) == IF c = "Offset" THEN [ZeroIf(x) EXCEPT !.target = 0] ELSE ZeroIf(x)

\* What a raise or a lower does to the components: those in on are enabled, all
\* others disabled.  applyStaticForces sets the target of what it enables.
Switch(f, on, static) ==
  [c \in Components |->
     IF c \notin on THEN ZeroForces(c, f[c])
     ELSE IF c = "Static" /\ f[c].mode # "Enabled" THEN [Enable(f[c]) EXCEPT !.target = static]
     ELSE ApplyIf(f[c])]

ResetAll(f) == [c \in Components |-> Reset(f[c])]

\* With the changes of f, the handler ends in SafetyController::checkSafety: in next,
\* or in the fault state with all components reset (LoweringFaultState::ensureFaulted).
Finish(next, f) ==
  \/ state' = next /\ comp' = f
  \/ state' = "Fault" /\ comp' = ResetAll(f)

----------------------------------------------------------------------------
(* PID. *)

NewPID == [control |-> 0, offset |-> 0, frozen |-> FALSE]

\* resetPreviousValues, from updateParameters and restoreInitialParameters
ResetControl(p) == [p EXCEPT !.control = 0]

Freeze(p) == [p EXCEPT !.offset = p.control, !.frozen = TRUE]
Thaw(p) == [p EXCEPT !.frozen = FALSE]

\* getOffset: the offset of a PID that is not frozen shrinks every time it is asked for.
GetOffset(p) ==
  IF p.frozen \/ p.offset = 0 THEN p
  ELSE IF Abs(p.offset) < ThawStep + 1 THEN [p EXCEPT !.offset = 0]
  ELSE [p EXCEPT !.offset = IF @ > 0 THEN @ - ThawStep ELSE @ + ThawStep]

\* The process of an enabled balance component; its output is control + offset.
Process(p) == {GetOffset([p EXCEPT !.control = u]) : u \in Forces}

----------------------------------------------------------------------------
(* SlewController. *)

\* In SlewController.cpp's order: PIDs freeze, then velocity, acceleration and balance
\* forces are switched as the settings say.
SlewComponents(on) == (IF "Velocity" \in on THEN {"Velocity"} ELSE {}) \cup
                      (IF "Acceleration" \in on THEN {"Acceleration"} ELSE {})

EnterSlewComponents ==
  [c \in Components |->
     IF c = "Balance" THEN IF "Balance" \in slew.settings THEN ApplyIf(comp[c]) ELSE ZeroIf(comp[c])
     ELSE IF c \in SlewComponents(slew.settings) THEN ApplyIf(comp[c]) ELSE comp[c]]

\* Mutant: the new parameters, which reset the PIDs, are set before they are frozen.
EnterSlewPIDUnfrozen ==
  IF "Balance" \in slew.settings THEN Freeze(ResetControl(pid)) ELSE Freeze(pid)

EnterSlewPID == IF "Balance" \in slew.settings THEN ResetControl(Freeze(pid)) ELSE Freeze(pid)

\* Mutant: the state of the balance forces is saved after they are switched.
EnterSlewFlagLate ==
  [slew EXCEPT !.flag = TRUE, !.restore = "Balance" \in slew.settings,
               !.entries = IF @ = 2 THEN 2 ELSE @ + 1,
               !.found = IF slew.entries = 0 THEN BalanceEnabled ELSE @]

EnterSlewFlag ==
  [slew EXCEPT !.flag = TRUE, !.restore = BalanceEnabled,
               !.entries = IF @ = 2 THEN 2 ELSE @ + 1,
               !.found = IF slew.entries = 0 THEN BalanceEnabled ELSE @]

\* exitSlew on the components f: what _balanceForcesEnabled says of the balance forces.
ExitSlewComponents(f) ==
  [c \in Components |->
     IF c = "Balance" THEN (IF slew.restore THEN ApplyIf(f[c]) ELSE ZeroIf(f[c]))
     ELSE IF c \in SlewComponents(slew.settings) THEN ZeroIf(f[c]) ELSE f[c]]

ExitSlewPID == Thaw(IF "Balance" \in slew.settings THEN ResetControl(pid) ELSE pid)

ExitSlewFlag == [slew EXCEPT !.flag = FALSE, !.entries = 0, !.found = FALSE]

----------------------------------------------------------------------------
(* Commands. *)

\* A component of a new ForceController, whose constructor ends in reset(): disabled, and
\* both events published.
NewComponent == [mode |-> "Disabled", current |-> 0, target |-> 0, applied |-> 0, flag |-> FALSE]

\* Before the first start there is no ForceController; the events say what a new one will.
\* _balanceForcesEnabled is not initialised by the constructor.
Init ==
  /\ state = "Standby"
  /\ \E S \in Watched : comp = [c \in S |-> NewComponent]
  /\ pid = NewPID
  /\ slew \in [flag : {FALSE}, restore : BOOLEAN, settings : {{}}, entries : {0}, found : {FALSE}]
  /\ pending = {}

\* Model::loadSettings makes a new ForceController, which publishes the events of all its
\* components at once.  The slew settings are loaded again.
Start ==
  /\ state = "Standby"
  /\ comp' = [c \in Components |-> NewComponent]
  /\ pid' = NewPID
  /\ slew' \in {[slew EXCEPT !.settings = s] : s \in Loaded}
  /\ state' \in {"Disabled", "Standby", "Fault"}
  /\ UNCHANGED pending

EnableMirror ==
  /\ state = "Disabled"
  /\ Finish("Parked", comp)
  /\ UNCHANGED <<pid, slew, pending>>

StandbyFromDisabled ==
  /\ state = "Disabled"
  /\ Finish("Standby", comp)
  /\ UNCHANGED <<pid, slew, pending>>

StandbyFromFault ==
  /\ state = "Fault"
  /\ state' = "Standby"
  /\ comp' = ResetAll(ExitSlewComponents(comp))
  /\ pid' = ExitSlewPID
  /\ slew' = ExitSlewFlag
  /\ UNCHANGED pending

\* disable, and the disable of ParkedEngineering that an ILC which does not answer
\* ends after its first reset.
DisableMirror ==
  /\ state \in {"Parked", "ParkedEngineering"}
  /\ \/ Finish("Disabled", ResetAll(comp))
     \/ state = "ParkedEngineering" /\ comp' = ResetAll(comp) /\ UNCHANGED state
  /\ UNCHANGED <<pid, slew, pending>>

EnterEngineering ==
  /\ state \in {"Parked", "Active"}
  /\ Finish(IF state = "Parked" THEN "ParkedEngineering" ELSE "ActiveEngineering", comp)
  /\ UNCHANGED <<pid, slew, pending>>

\* From ActiveEngineering the balance forces are applied and the PIDs reset.
ExitEngineering ==
  /\ state \in {"ParkedEngineering", "ActiveEngineering"}
  /\ LET f == [c \in Components |->
                 IF c = "Offset" THEN ZeroForces(c, comp[c])
                 ELSE IF c = "Balance" /\ state = "ActiveEngineering" THEN ApplyIf(comp[c])
                 ELSE comp[c]]
     IN Finish(IF state = "ParkedEngineering" THEN "Parked" ELSE "Active", f)
  /\ pid' = (IF state = "ActiveEngineering" THEN ResetControl(pid) ELSE pid)
  /\ UNCHANGED <<slew, pending>>

\* MirrorRaiseController::start
Raise ==
  /\ state \in {"Parked", "ParkedEngineering"}
  /\ Finish("Raising", Switch(comp, {"Elevation"}, 0))
  /\ UNCHANGED <<pid, slew, pending>>

AbortRaise ==
  /\ state = "Raising"
  /\ Finish("Lowering", Switch(comp, {"Elevation"}, 0))
  /\ UNCHANGED <<pid, slew, pending>>

\* Mutant: lowerM1M3 without the reset of the slew controller.
LowerStillSlewing ==
  /\ state \in {"Active", "ActiveEngineering"}
  /\ pid' = ResetControl(pid)
  /\ UNCHANGED slew
  /\ Finish("Lowering", Switch(comp, {"Elevation"}, 0))
  /\ UNCHANGED pending

\* EnabledActiveState::lowerM1M3: SlewController::reset, resetPIDs and
\* MirrorLowerController::start.
Lower ==
  /\ state \in {"Active", "ActiveEngineering"}
  /\ pid' = ResetControl(ExitSlewPID)
  /\ slew' = ExitSlewFlag
  /\ Finish("Lowering", Switch(ExitSlewComponents(comp), {"Elevation"}, 0))
  /\ UNCHANGED pending

\* applyOffsetForces (ByMirrorForce, and the bump tests' applyActuatorOffset),
\* applyActiveOpticForces, and the commands that clear these forces.
CommandedForces ==
  /\ \/ "Offset" \in Components /\ state \in EngineeringStates
     \/ "ActiveOptic" \in Components /\ state \in {"Active", "ActiveEngineering"}
  /\ \E c \in Components \cap {"ActiveOptic", "Offset"} :
       \/ \E z \in Forces : Finish(state, [comp EXCEPT ![c] = [ApplyIf(@) EXCEPT !.target = z]])
       \/ Finish(state, [comp EXCEPT ![c] = ZeroForces(c, @)])
  /\ UNCHANGED <<pid, slew, pending>>

\* enable- and disableHardpointCorrections
HardpointCorrections ==
  /\ state = "ActiveEngineering"
  /\ "Balance" \in Components
  /\ \/ Finish(state, [comp EXCEPT !["Balance"] = ApplyIf(@)])
     \/ Finish(state, [comp EXCEPT !["Balance"] = ZeroIf(@)])
  /\ UNCHANGED <<pid, slew, pending>>

\* enableDisableForceComponent, which publishes the flag of what it disables at once.
EnableDisableForceComponent ==
  /\ state = "ActiveEngineering"
  /\ \E c \in Components \ {"Elevation"} :
       \/ Finish(state, [comp EXCEPT ![c] =
             IF @.mode = "Enabled" THEN [@ EXCEPT !.flag = TRUE] ELSE Enable(@)])
       \/ Finish(state, [comp EXCEPT ![c] = [ZeroIf(@) EXCEPT !.flag = FALSE]])
  /\ UNCHANGED <<pid, slew, pending>>

PIDParameters ==
  /\ state = "ActiveEngineering"
  /\ pid' = ResetControl(pid)
  /\ Finish(state, comp)
  /\ UNCHANGED <<slew, pending>>

\* A TMA azimuth sample gives enabled azimuth forces a new target.
AzimuthSample ==
  /\ state \in EnabledStates
  /\ "Azimuth" \in Components
  /\ \E z \in Forces :
       Finish(state, [comp EXCEPT !["Azimuth"] =
                         IF @.mode = "Enabled" THEN [@ EXCEPT !.target = z] ELSE @])
  /\ UNCHANGED <<pid, slew, pending>>

SetSlewFlag ==
  /\ state \in {"Active", "ActiveEngineering"}
  /\ comp' = EnterSlewComponents
  /\ pid' = EnterSlewPID
  /\ slew' = EnterSlewFlag
  /\ UNCHANGED <<state, pending>>

ClearSlewFlag ==
  /\ state \in {"Active", "ActiveEngineering"}
  /\ comp' = ExitSlewComponents(comp)
  /\ pid' = ExitSlewPID
  /\ slew' = ExitSlewFlag
  /\ UNCHANGED <<state, pending>>

\* SubscriberThread calls SetSlewControllerSettingsCommand::validate when the command
\* arrives, which refuses it while the slew flag is set.  At most one waits.
ArriveSettings ==
  /\ pending = {}
  /\ ~slew.flag
  /\ pending' \in {{s} : s \in SlewSettings}
  /\ UNCHANGED <<state, comp, pid, slew>>

\* ControllerThread executes it after the commands queued before it.
ExecuteSettings ==
  /\ pending # {}
  /\ slew' \in (IF state \in EngineeringStates
                THEN {[slew EXCEPT !.settings = s] : s \in {slew.settings \cup pending, slew.settings \ pending}}
                ELSE {slew})
  /\ pending' = {}
  /\ UNCHANGED <<state, comp, pid>>

\* ensureFaulted is called from any handler whose monitors find a fault, and again
\* by the update of LoweringFault.
Fault ==
  /\ state # "Standby"
  /\ state' = "Fault"
  /\ comp' = ResetAll(comp)
  /\ UNCHANGED <<pid, slew, pending>>

----------------------------------------------------------------------------
(* The update in the states that derive from EnabledState. *)

\* The components whose target follows telemetry in every update while enabled.
Following == Components \cap {"Acceleration", "Elevation", "Velocity"}

Retarget(x, t) == UpdateComponent([x EXCEPT !.target = t])

\* Mutant: a balance component that is being disabled still follows its PID.
UpdateAppliedForcesFollowing(f, p, demand) ==
  [c \in Components |->
     IF c = "Balance" THEN Retarget(f[c], p.control + p.offset)
     ELSE IF c \in Following /\ f[c].mode = "Enabled" THEN Retarget(f[c], demand[c])
     ELSE UpdateComponent(f[c])]

\* ForceController::updateAppliedForces, with the PID p as it leaves it.  The balance
\* forces follow the PID while enabled and its offset otherwise; a disabled component
\* is not updated, whatever its target.
UpdateAppliedForces(f, p, demand) ==
  [c \in Components |->
     IF c = "Balance"
     THEN IF f[c].mode = "Enabled" THEN Retarget(f[c], p.control + p.offset)
          ELSE Retarget(f[c], p.offset)
     ELSE IF c \in Following /\ f[c].mode = "Enabled" THEN Retarget(f[c], demand[c])
     ELSE UpdateComponent(f[c])]

\* MirrorRaiseController::runLoop, which paused lowering states call as well: static
\* forces are applied once enough of the weight is.
StaticApplied(static) ==
  [c \in Components |->
     IF c = "Static" /\ comp[c].mode # "Enabled" THEN [Enable(comp[c]) EXCEPT !.target = static]
     ELSE comp[c]]

\* MirrorRaiseController::complete: zeroBalanceForces may be followed by
\* applyBalanceForces.
RaiseCompleted(f, static, balance) ==
  LET g == Switch(f, {"Azimuth", "Elevation", "Static", "Thermal"}, static)
  IN [c \in Components |-> IF c = "Balance" /\ balance THEN ApplyIf(g[c]) ELSE g[c]]

\* An exception after updateAppliedForces (an ILC that does not answer) ends the update
\* there: state and components are as in an update that completes nothing.
Update ==
  /\ state \in EnabledStates
  /\ \E demand \in [Following -> Forces], static \in Forces :
     \E p \in (IF BalanceEnabled THEN Process(pid) ELSE {GetOffset(pid)}) :
     \E f \in {comp} \cup (IF state \in {"Raising", "Lowering"} THEN {StaticApplied(static)} ELSE {}) :
       LET g == UpdateAppliedForces(f, p, demand)
       IN /\ pid' = p
          /\ \/ Finish(state, g)
             \/ /\ state = "Raising"
                /\ \E balance \in BOOLEAN, next \in {"Active", "ActiveEngineering"} :
                     Finish(next, RaiseCompleted(g, static, balance))
             \/ /\ state = "Lowering"
                /\ \E next \in {"Parked", "ParkedEngineering"} : Finish(next, Switch(g, {}, 0))
  /\ UNCHANGED <<slew, pending>>

----------------------------------------------------------------------------
(* The specification. *)

Command ==
  \/ Start \/ EnableMirror \/ StandbyFromDisabled \/ StandbyFromFault \/ DisableMirror
  \/ EnterEngineering \/ ExitEngineering \/ Raise \/ AbortRaise \/ Lower
  \/ CommandedForces \/ HardpointCorrections
  \/ EnableDisableForceComponent \/ PIDParameters \/ AzimuthSample
  \/ SetSlewFlag \/ ClearSlewFlag \/ ArriveSettings \/ ExecuteSettings \/ Fault

Next == Command \/ Update

Spec == Init /\ [][Next]_vars

\* The outer loop updates for ever, and an update that throws has updated the forces;
\* nothing says that a fault ever comes.
FairSpec == Spec /\ WF_vars(Update /\ state' # "Fault")

----------------------------------------------------------------------------
(* Properties. *)

ComponentStates == [mode : Modes, current : Int, target : Int, applied : -Limit..Limit,
                    flag : BOOLEAN]

\* Every variable holds a value of its kind; no published force exceeds its limit.
TypeOK ==
  /\ state \in States
  /\ \E S \in Watched : comp \in [S -> ComponentStates]
  /\ pid \in [control : Int, offset : Int, frozen : BOOLEAN]
  /\ slew \in [flag : BOOLEAN, restore : BOOLEAN, settings : SUBSET SlewSettings,
               entries : 0..2, found : BOOLEAN]
  /\ pending \in SUBSET SlewSettings

\* The PIDs are frozen exactly while the slew flag is set, and a slew does not outlive
\* the raised mirror: no way down, fault or restart leaves the flag set (which would
\* refuse slew settings for ever) or the balance forces held where a slew froze them.
SlewIsTidy ==
  /\ slew.flag <=> pid.frozen
  /\ slew.flag => state \in {"Active", "ActiveEngineering", "Fault"}

\* ForceControllerState and the Applied event agree with the component through enable,
\* disable, reset, fault and the restart that replaces the components under the events.
EventsAgree ==
  \A c \in Components :
    /\ comp[c].mode = "Enabled" => comp[c].flag
    /\ comp[c].mode = "Disabled" => ~comp[c].flag
    /\ comp[c].applied = Coerce(comp[c].current)

\* No way out of control leaves a component enabled or on its way down, where no update
\* would ever end it.
IdleOutOfControl ==
  state \notin EnabledStates => \A c \in Components : comp[c].mode = "Disabled"

\* Types and limits, the slew flag with the frozen PIDs, the components with the events
\* that report them, and the components with the state agree.
ForceInv == TypeOK /\ SlewIsTidy /\ EventsAgree /\ IdleOutOfControl

\* No command, fault or reset makes a published force jump: it changes by at most
\* MaxRateOfChange a step, or falls to zero from below NearZeroValue.  A restart alone
\* drops what an earlier reset left in the event to zero at once, and only in standby,
\* where nothing sums the events: in every state that sums them the forces ramp.
ForcesRamp ==
  [][\A c \in Components :
       \/ Abs(comp'[c].applied - comp[c].applied) <= Rate
       \/ Abs(comp[c].applied) < NearZero /\ comp'[c].applied = 0
       \/ state = "Standby" /\ comp'[c].applied = 0]_vars

\* Freezing the PIDs for a slew does not drop the balance forces that hold the mirror:
\* unless an earlier slew is still being thawed, the PID output before enterSlew is
\* what the frozen PIDs go on with.
SlewEntryIsBumpless ==
  [][~slew.flag /\ slew'.flag /\ pid.offset = 0 =>
       pid.control = (IF BalanceEnabled' THEN pid'.control + pid'.offset
                      ELSE pid'.offset)]_vars

\* clearSlewFlag leaves the balance forces as the one setSlewFlag before it found them,
\* whatever the slew settings and whatever an engineer switched during the slew.
SlewRestoresBalance ==
  [][slew.flag /\ ~slew'.flag /\ slew.entries = 1 /\ state' \in {"Active", "ActiveEngineering"}
     /\ "Balance" \in Components =>
       (BalanceEnabled' <=> slew.found)]_vars

Settled == \A c \in Components : comp[c].mode = "Disabling" => c = "Balance" /\ pid.frozen

\* Once no more commands interfere, every component that is being disabled gets there:
\* the PID offset it may be held at thaws, and no ramp stops above NearZeroValue.
\* Balance forces frozen by a slew wait for its end.
DisablingEnds == <>[][Update]_vars => <>[]Settled

\* "When it is disabled, its contribution is scaled linearly to zero to prevent
\* overstressing the mirror" (ForceComponent.h): a disabled component adds nothing to
\* the forces of a mirror that is in control.
DisabledAddsNothing ==
  state \in EnabledStates => \A c \in Components : comp[c].mode = "Disabled" => comp[c].applied = 0

=============================================================================
