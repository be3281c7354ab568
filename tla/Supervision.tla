---------------------------- MODULE Supervision ----------------------------
(***************************************************************************)
(* What the daemon senses and commands besides forces and motion: the air  *)
(* valve and the cell lights (DigitalInputOutput), the heartbeat and the   *)
(* two relays the global interlock system listens to, the sliding windows  *)
(* of SafetyController, and the booster valves (BoosterValveController).   *)
(*                                                                         *)
(* MirrorControl gives the states and their commands in full; here a       *)
(* handler does what it does to these parts.  An update is one period of   *)
(* the outer loop: the sensors move and the timers run in updates only.    *)
(***************************************************************************)
EXTENDS Integers, Sequences, FiniteSets, DetailedStates

CONSTANTS
  Grace,       \* updates before a sensor must agree: ValveTransitionTimeout, 100 ms for lights
  BeatPeriod,  \* updates between two toggles of the heartbeat, HEARTBEAT_PERIOD
  Period,      \* of a sliding window, and
  Threshold,   \* the bad readings in it that fault the mirror
  Actuators,   \* force actuators
  Scenarios    \* what users and equipment do in a behaviour, and how often

Devices == {"air", "lights"}
Outputs == [air |-> "airOutput", lights |-> "lightsOutput"]
Parts == Devices \cup {"airOutput", "lightsOutput", "beat", "interlock"}
Monitors == {"none", "ilc", "fa", "hp", "pressure"}
Errors == {"NoController", "None", "Equipment", "Window", "Panic"}

ASSUME SupervisionAssumption ==
  /\ Grace \in [Devices -> Nat \ {0}] /\ BeatPeriod \in Nat \ {0}
  /\ Period \in Nat \ {0} /\ Threshold \in 2 .. Period
  /\ Scenarios \subseteq [users : SUBSET (Devices \cup Actuators \cup {"booster", "slew", "panic"}),
                          breaks : SUBSET Parts, monitor : Monitors, valves : BOOLEAN,
                          toggles : Nat, silences : Nat]

VARIABLES
  state,     \* Context::_currentState
  error,     \* the latched fault
  cause,     \* the fault that checkSafety acted on, until standby
  dev,       \* air and lights: commanded state, output, sensor, time since the command, and
             \* how long the sensor has been on its way
  beat,      \* heartbeatCommandedState, heartbeatOutputState, updates since the last toggle
  relays,    \* both channels of the mirror raised and the system operational relay
  window,    \* the sliding window of one monitor
  tally,     \* of its readings since start: how many were bad, how many are bad in a row
  valves,    \* BoosterValveStatus
  trigger,   \* SlewControllerSettings::triggerBoosterValves
  fe,        \* following error of each force actuator: 0 may close, 2 opens
  disabled,  \* disabled force actuators: their following error is not updated
  calm,      \* from now on no following error and no acceleration
  untold,    \* relays a standby from LoweringFault left on
  broken,    \* parts that stay as they are
  scenario

equipment == <<dev, beat, broken>>
windows == <<window, tally>>
booster == <<valves, trigger, fe, disabled>>
environment == <<calm, scenario>>
vars == <<state, error, cause, equipment, relays, windows, booster, untold, environment>>

Min2(a, b) == IF a < b THEN a ELSE b

\* _updateOverride: only the first fault is kept.
Latch(code, condition, fault) == IF code = "None" /\ condition THEN fault ELSE code

\* checkSafety(next)
CheckSafety(next, code) ==
  /\ error' = "None"
  /\ IF code = "None" THEN state' = next /\ UNCHANGED cause
     ELSE state' = "LoweringFault" /\ cause' = code

----------------------------------------------------------------------------
(* Air valve and cell lights. *)

Position(on) == IF on THEN 2 ELSE 0     \* 1: neither opened nor closed

\* Mutant: the timer is not restarted.
CommandKeepingTime(d, on, d0) == [d0 EXCEPT ![d].commanded = on]

\* turnAirOn/Off, which restart the timer when the command changes
\* (AirSupplyStatus::setAirCommanded), and turnCellLightsOn/Off, which restart it always.
Command(d, on, d0) ==
  [d0 EXCEPT ![d].commanded = on,
             ![d].age = IF d = "air" /\ d0["air"].commanded = on THEN @ ELSE 0]

\* What pullTelemetry finds an update later.  An output follows its command.  A sensor
\* follows the output, and arrives within the time it is given, unless it is broken.
Moved(d) ==
  LET old == dev[d]
      target == IF Outputs[d] \in broken THEN old.output ELSE old.commanded
      travel == IF target = old.output THEN Min2(old.travel + 1, Grace[d]) ELSE 1
      between == IF travel = Grace[d] THEN {} ELSE {old.sensor} \cup IF d = "air" THEN {1} ELSE {}
      sensors == IF d \in broken \/ old.sensor = Position(target)
                 THEN {old.sensor} ELSE between \cup {Position(target)}
  IN {[old EXCEPT !.output = target, !.sensor = s, !.age = Min2(@ + 1, Grace[d]),
                  !.travel = IF s = Position(target) THEN 0 ELSE travel] : s \in sensors}

Elapsed == {[air |-> a, lights |-> l] : a \in Moved("air"), l \in Moved("lights")}

HeartbeatOutput == IF "beat" \in broken THEN beat.output ELSE beat.commanded

\* Mutant: a valve that has not arrived is not reported.
FaultyOutputs(d0) ==
  \/ \E d \in Devices : d0[d].output # d0[d].commanded
  \/ HeartbeatOutput # beat.commanded
  \/ "interlock" \in broken

\* DigitalInputOutput::processData, outside Disabled and Standby.
Faulty(d0) ==
  \/ \E d \in Devices :
       \/ d0[d].output # d0[d].commanded
       \/ d0[d].age = Grace[d] /\ d0[d].sensor # Position(d0[d].commanded)
  \/ HeartbeatOutput # beat.commanded
  \/ "interlock" \in broken

\* Heartbeat::tryToggle, after the telemetry was pulled.
TryToggle ==
  beat' = IF beat.age + 1 < BeatPeriod
          THEN [beat EXCEPT !.output = HeartbeatOutput, !.age = @ + 1]
          ELSE [commanded |-> ~beat.commanded, output |-> HeartbeatOutput, age |-> 0]

Relay(name, channels, on) ==
  [relays EXCEPT ![name] = [c \in 1 .. 2 |-> IF c \in channels THEN on ELSE @[c]]]

Unraised == [c \in 1 .. 2 |-> FALSE]
AllOff == [name \in {"MirrorRaised", "SystemOperational"} |-> Unraised]

----------------------------------------------------------------------------
(* The sliding windows of SafetyController. *)

Low(w) == Cardinality({i \in 1 .. Period : w[i] < 0})
High(w) == Cardinality({i \in 1 .. Period : w[i] > 0})

\* Mutant: readings of both signs cancel out.
TripsOneSided(w) == High(w) - Low(w) >= Threshold \/ Low(w) - High(w) >= Threshold

\* ilcCommunicationTimeout, forceActuatorFollowingError, hardpointActuatorMeasuredForce
\* and hardpointActuatorAirPressure, which sums its readings with and without their sign.
Trips(w) ==
  \/ High(w) - Low(w) >= Threshold \/ Low(w) - High(w) >= Threshold
  \/ Low(w) + High(w) >= Threshold

Zeros == [i \in 1 .. Period |-> 0]

\* What the monitor may find in a state: ILCResponseParser checks the air pressure in
\* these states, and the forces of the hardpoints once they carry the mirror.
Readings ==
  CASE scenario.monitor = "pressure" ->
         IF state \in RaisingStates \cup LoweringStates \cup {"Active", "ActiveEngineering"}
         THEN -1 .. 1 ELSE {0}
    [] scenario.monitor = "hp" ->
         IF state \in OperationStates \cup RaisedStates \cup FaultStates THEN 0 .. 1 ELSE {0}
    [] scenario.monitor \in {"ilc", "fa"} -> 0 .. 1
    [] OTHER -> {0}

Count(r) ==
  IF r = 0 THEN [tally EXCEPT !.run = 0]
  ELSE [bad |-> Min2(tally.bad + 1, Threshold), run |-> Min2(tally.run + 1, Threshold)]

Push(r) ==
  /\ window' = Append(Tail(window), r)
  /\ tally' = Count(r)

\* The monitor followed sees nothing; in Disabled the following errors are ignored.
Blind == scenario.monitor = "none" \/ (scenario.monitor = "fa" /\ state = "Disabled")

\* verifyResponses and the checks of what the ILCs sent, then checkSafety.
Verify(s, code) ==
  IF Blind THEN UNCHANGED windows /\ CheckSafety(s, code)
  ELSE \E r \in Readings : Push(r) /\ CheckSafety(s, Latch(code, Trips(window'), "Window"))

\* The fault states only latch what they find.
VerifyFaulted(code) ==
  IF Blind THEN UNCHANGED windows /\ error' = code
  ELSE \E r \in Readings : Push(r) /\ error' = Latch(code, Trips(window'), "Window")

\* The subnets are read one after the other, and what an ILC sent is checked when it is
\* parsed: of an update that ends with an exception, the readings before it count, and the
\* fault they are waits in the latch.  The ILC timeouts are counted after the last subnet.
Glimpse(code) ==
  \/ UNCHANGED windows /\ error' = code
  \/ /\ ~Blind /\ scenario.monitor # "ilc"
     /\ \E r \in Readings : Push(r) /\ error' = Latch(code, Trips(window'), "Window")

\* Changing the mode of the ILCs is answered too; no forces are measured.
VerifyMode(s, code) ==
  IF scenario.monitor # "ilc" THEN UNCHANGED windows /\ CheckSafety(s, code)
  ELSE \E r \in 0 .. 1 : Push(r) /\ CheckSafety(s, Latch(code, Trips(window'), "Window"))

----------------------------------------------------------------------------
(* Booster valves. *)

Shut == [slew |-> FALSE, user |-> FALSE, error |-> FALSE, shake |-> FALSE, opened |-> FALSE]

\* BoosterValveStatus: enterSlew, exitSlew, setUserTriggered, ..., and log.
Set(v, field, on) ==
  LET w == [v EXCEPT ![field] = on]
  IN IF v[field] = on THEN v
     ELSE [w EXCEPT !.opened = w.slew \/ w.user \/ w.error \/ w.shake]

\* Mutant: the error has to exceed the upper threshold for the close to be looked at.
CheckFollowingErrorsAbove(v, e) ==
  IF \E a \in Actuators : e[a] > 1 THEN Set(v, "error", TRUE)
  ELSE IF v.error /\ \E a \in Actuators : e[a] > 1 THEN Set(v, "error", FALSE) ELSE v

\* checkFollowingErrors: the valves open above one threshold and close below another.
CheckFollowingErrors(v, e) ==
  IF ~v.error THEN IF \E a \in Actuators : e[a] > 1 THEN Set(v, "error", TRUE) ELSE v
  ELSE IF \A a \in Actuators : e[a] = 0 THEN Set(v, "error", FALSE) ELSE v

\* checkAccelerometer, of the largest angular acceleration.
CheckAccelerometer(v, acceleration) ==
  IF ~v.shake THEN IF acceleration > 1 THEN Set(v, "shake", TRUE) ELSE v
  ELSE IF acceleration = 0 THEN Set(v, "shake", FALSE) ELSE v

\* ForceActuatorForceWarning::checkPrimary: the following errors an update may read.  A
\* disabled force actuator is not read, and keeps its last one.
ErrorsRead(a) == IF a \in disabled THEN {fe[a]} ELSE IF calm \/ ~scenario.valves THEN {0} ELSE 0 .. 2

FollowingErrors == {e \in [Actuators -> 0 .. 2] : \A a \in Actuators : e[a] \in ErrorsRead(a)}

\* Those of an update that ends with an exception, which may not read them all.
SomeFollowingErrors ==
  {e \in [Actuators -> 0 .. 2] : \A a \in Actuators : e[a] \in {fe[a]} \cup ErrorsRead(a)}

Accelerations == IF calm \/ ~scenario.valves THEN {0} ELSE 0 .. 2

\* SlewController::exitSlew
ExitSlew(v) == IF trigger THEN Set(v, "slew", FALSE) ELSE v

----------------------------------------------------------------------------
(* The periodic update. *)

Silent == scenario.silences > 0

\* A silent ILC ends the update with an exception (SSILCs::read).
Silence == scenario' = [scenario EXCEPT !.silences = @ - 1]

StandbyUpdate ==
  /\ state = "Standby"
  /\ dev' \in Elapsed
  /\ TryToggle
  /\ UNCHANGED <<state, error, cause, relays, windows, booster, broken, untold, environment>>

DisabledUpdate ==
  /\ state = "Disabled"
  /\ dev' \in Elapsed
  /\ TryToggle
  /\ fe' \in FollowingErrors
  /\ Verify("Disabled", error)
  /\ UNCHANGED <<relays, valves, trigger, disabled, broken, untold, environment>>

DisabledUpdateThrows ==
  /\ state = "Disabled"
  /\ Silent /\ Silence
  /\ dev' \in Elapsed
  /\ TryToggle
  /\ fe' \in SomeFollowingErrors
  /\ Glimpse(error)
  /\ UNCHANGED <<state, cause, relays, valves, trigger, disabled, broken, untold, calm>>

\* FaultState::update; nothing acts on what it finds.
FaultUpdate ==
  /\ state \in FaultStates
  /\ dev' \in Elapsed
  /\ TryToggle
  /\ fe' \in FollowingErrors
  /\ VerifyFaulted(Latch(error, Faulty(dev'), "Equipment"))
  /\ state' = "Fault"
  /\ relays' = AllOff
  /\ untold' = {}
  /\ UNCHANGED <<cause, valves, trigger, disabled, broken, environment>>

FaultUpdateThrows ==
  /\ state \in FaultStates
  /\ Silent /\ Silence
  /\ dev' \in Elapsed
  /\ TryToggle
  /\ fe' \in SomeFollowingErrors
  /\ Glimpse(Latch(error, Faulty(dev'), "Equipment"))
  /\ relays' = [name \in DOMAIN relays |-> [relays[name] EXCEPT ![1] = FALSE]]
  /\ UNCHANGED <<state, cause, valves, trigger, disabled, broken, untold, calm>>

\* The relays an update has on when it reaches the end of these channels.  Only
\* ActiveState::update tells that the mirror is raised.
Told(channels) ==
  [name \in DOMAIN relays |->
     [c \in 1 .. 2 |-> \/ relays[name][c]
                       \/ c \in channels /\ (name = "SystemOperational" \/ state = "Active")]]

\* raiseCompleted, lowerCompleted, incMirrorForceProfile
Completes ==
  {<<"Raising", "Active">>, <<"RaisingEngineering", "ActiveEngineering">>,
   <<"Lowering", "Parked">>, <<"LoweringEngineering", "ParkedEngineering">>,
   <<"ProfileHardpointCorrection", "ActiveEngineering">>}

\* EnabledState::runLoop, and checkSafety.
EnabledUpdate ==
  /\ state \in EnabledStates
  /\ dev' \in Elapsed
  /\ TryToggle
  /\ fe' \in FollowingErrors
  /\ \E acceleration \in Accelerations :
       valves' = CheckAccelerometer(CheckFollowingErrors(valves, fe'), acceleration)
  /\ \E s \in {state} \cup {t[2] : t \in {c \in Completes : c[1] = state}} :
       Verify(s, Latch(error, Faulty(dev'), "Equipment"))
  /\ relays' = Told({1, 2})
  /\ UNCHANGED <<trigger, disabled, broken, untold, environment>>

\* The exception leaves the booster valves and the second channel as they were, what was
\* read before it in the windows, and what was latched to the next checkSafety.
EnabledUpdateThrows ==
  /\ state \in EnabledStates
  /\ Silent /\ Silence
  /\ dev' \in Elapsed
  /\ TryToggle
  /\ fe' \in SomeFollowingErrors
  /\ Glimpse(Latch(error, Faulty(dev'), "Equipment"))
  /\ relays' = Told({1})
  /\ UNCHANGED <<state, cause, valves, trigger, disabled, broken, untold, calm>>

----------------------------------------------------------------------------
(* Commands that switch something. *)

\* StandbyState::start: a new SafetyController, the valves and the air off, the disabled
\* force actuators as the settings have them.  The heartbeat is toggled throughout.
Restart ==
  /\ state = "Standby"
  /\ valves' = Shut
  /\ dev' = Command("air", FALSE, dev)
  /\ \E on \in BOOLEAN : beat' = [beat EXCEPT !.commanded = on, !.age = 0]
  /\ disabled' = {}
  /\ UNCHANGED <<relays, trigger, fe, broken, calm, untold>>

Start ==
  /\ Restart
  /\ \E r \in IF scenario.monitor = "ilc" THEN 0 .. 1 ELSE {0} :
       /\ window' = [Zeros EXCEPT ![Period] = r]
       /\ tally' = [bad |-> r, run |-> r]
  /\ CheckSafety("Disabled", "None")
  /\ UNCHANGED scenario

StartThrows ==
  /\ Silent /\ Silence
  /\ Restart
  /\ window' = Zeros
  /\ tally' = [bad |-> 0, run |-> 0]
  /\ error' = "None"
  /\ UNCHANGED <<state, cause>>

Enable ==
  /\ state = "Disabled"
  /\ dev' = Command("air", TRUE, dev)
  /\ VerifyMode("Parked", error)
  /\ UNCHANGED <<beat, relays, booster, broken, untold, environment>>

StandbyFromDisabled ==
  /\ state = "Disabled"
  /\ VerifyMode("Standby", error)
  /\ UNCHANGED <<equipment, relays, booster, untold, environment>>

\* FaultState::standby, which LoweringFault inherits: clearErrorCode clears the error,
\* and every window but that of the ILC timeouts, which has the answers to the change of
\* mode.  The air stays as it is.
StandbyFromFault ==
  /\ state \in FaultStates
  /\ state' = "Standby"
  /\ error' = "None" /\ cause' = "None"
  /\ window' \in IF scenario.monitor = "ilc"
                 THEN {Append(Tail(window), r) : r \in 0 .. 1} ELSE {Zeros}
  /\ tally' = [bad |-> 0, run |-> 0]
  /\ valves' = ExitSlew(valves)
  /\ untold' = untold \cup {name \in DOMAIN relays : TRUE \in {relays[name][c] : c \in 1 .. 2}}
  /\ UNCHANGED <<equipment, relays, trigger, fe, disabled, environment>>

\* Mutant: disable leaves the relay to the next update.
DisableUntold ==
  /\ state \in ParkedStates
  /\ dev' = Command("air", FALSE, dev)
  /\ VerifyMode("Disabled", error)
  /\ UNCHANGED <<beat, relays, booster, broken, untold, environment>>

\* EnabledState::disableMirror
Disable ==
  /\ state \in ParkedStates
  /\ relays' = Relay("SystemOperational", {1, 2}, FALSE)
  /\ untold' = untold \ {"SystemOperational"}
  /\ dev' = Command("air", FALSE, dev)
  /\ VerifyMode("Disabled", error)
  /\ UNCHANGED <<beat, booster, broken, environment>>

\* The ILCs are addressed before anything else is switched.
DisableThrows ==
  /\ state \in ParkedStates
  /\ Silent /\ Silence
  /\ relays' = Relay("SystemOperational", {1}, FALSE)
  /\ UNCHANGED <<state, error, cause, equipment, windows, booster, untold, calm>>

\* exitEngineering: air on, lights off and the valves no longer the user's.
ExitEngineering ==
  /\ state \in {"ParkedEngineering", "ActiveEngineering"}
  /\ scenario.toggles > 0
  /\ dev' = Command("lights", FALSE, Command("air", TRUE, dev))
  /\ valves' = Set(valves, "user", FALSE)
  /\ CheckSafety(IF state = "ParkedEngineering" THEN "Parked" ELSE "Active", error)
  /\ scenario' = [scenario EXCEPT !.toggles = @ - 1]
  /\ UNCHANGED <<beat, relays, windows, trigger, fe, disabled, broken, untold, calm>>

\* raiseM1M3
RaiseM1M3 ==
  /\ \/ state = "Parked" /\ UNCHANGED valves /\ CheckSafety("Raising", error)
     \/ /\ state = "ParkedEngineering"
        /\ valves' = Set(valves, "user", FALSE)
        /\ CheckSafety("RaisingEngineering", error)
  /\ UNCHANGED <<equipment, relays, windows, trigger, fe, disabled, untold, environment>>

\* Mutant: the slew is not ended.
LowerM1M3Slewing ==
  /\ \/ state = "Active" /\ UNCHANGED valves /\ CheckSafety("Lowering", error)
     \/ /\ state = "ActiveEngineering"
        /\ valves' = Set(valves, "user", FALSE)
        /\ CheckSafety("LoweringEngineering", error)
  /\ relays' = Relay("MirrorRaised", {1, 2}, FALSE)
  /\ untold' = untold \ {"MirrorRaised"}
  /\ UNCHANGED <<equipment, windows, trigger, fe, disabled, environment>>

\* lowerM1M3
LowerM1M3 ==
  /\ \/ state = "Active" /\ valves' = ExitSlew(valves) /\ CheckSafety("Lowering", error)
     \/ /\ state = "ActiveEngineering"
        /\ valves' = ExitSlew(Set(valves, "user", FALSE))
        /\ CheckSafety("LoweringEngineering", error)
  /\ relays' = Relay("MirrorRaised", {1, 2}, FALSE)
  /\ untold' = untold \ {"MirrorRaised"}
  /\ UNCHANGED <<equipment, windows, trigger, fe, disabled, environment>>

\* enterEngineering, abortRaiseM1M3, pause and resume (which leaves engineering),
\* runMirrorForceProfile and abortProfile.
Transfers ==
  {<<"Parked", "ParkedEngineering">>, <<"Active", "ActiveEngineering">>,
   <<"Raising", "Lowering">>, <<"RaisingEngineering", "LoweringEngineering">>,
   <<"Raising", "PausedRaising">>, <<"RaisingEngineering", "PausedRaisingEngineering">>,
   <<"Lowering", "PausedLowering">>, <<"LoweringEngineering", "PausedLoweringEngineering">>,
   <<"PausedRaising", "Raising">>, <<"PausedRaisingEngineering", "Raising">>,
   <<"PausedLowering", "Lowering">>, <<"PausedLoweringEngineering", "Lowering">>,
   <<"ActiveEngineering", "ProfileHardpointCorrection">>,
   <<"ProfileHardpointCorrection", "ActiveEngineering">>}

Transfer ==
  /\ \E t \in Transfers : t[1] = state /\ CheckSafety(t[2], error)
  /\ UNCHANGED <<equipment, relays, windows, booster, untold, environment>>

\* turnAirOn, turnAirOff, turnLightsOn, turnLightsOff
Turn ==
  /\ state \in EngineeringStates
  /\ scenario.toggles > 0
  /\ \E d \in Devices \cap scenario.users, on \in BOOLEAN : dev' = Command(d, on, dev)
  /\ CheckSafety(state, error)
  /\ scenario' = [scenario EXCEPT !.toggles = @ - 1]
  /\ UNCHANGED <<beat, relays, windows, booster, broken, untold, calm>>

\* boosterValveOpen, boosterValveClose
Booster ==
  /\ state \in EngineeringStates /\ "booster" \in scenario.users
  /\ \E on \in BOOLEAN : valves' = Set(valves, "user", on)
  /\ CheckSafety(state, error)
  /\ UNCHANGED <<equipment, relays, windows, trigger, fe, disabled, untold, environment>>

\* setSlewFlag, clearSlewFlag
SlewFlag ==
  /\ state \in {"Active", "ActiveEngineering"} /\ "slew" \in scenario.users
  /\ valves' \in {IF trigger THEN Set(valves, "slew", TRUE) ELSE valves, ExitSlew(valves)}
  /\ CheckSafety(state, error)
  /\ UNCHANGED <<equipment, relays, windows, trigger, fe, disabled, untold, environment>>

\* setSlewControllerSettings
SetSlewControllerSettings ==
  /\ state \in EngineeringStates /\ "slew" \in scenario.users
  /\ trigger' \in BOOLEAN
  /\ CheckSafety(state, error)
  /\ UNCHANGED <<equipment, relays, windows, valves, fe, disabled, untold, environment>>

\* disableForceActuator, enableForceActuator
ForceActuators ==
  /\ state \in EngineeringStates
  /\ \E a \in Actuators \cap scenario.users : disabled' \in {disabled \cup {a}, disabled \ {a}}
  /\ CheckSafety(state, error)
  /\ UNCHANGED <<equipment, relays, windows, valves, trigger, fe, untold, environment>>

\* PanicCommand leaves the fault to the next checkSafety.
Panic ==
  /\ error # "NoController" /\ "panic" \in scenario.users
  /\ error' = Latch(error, TRUE, "Panic")
  /\ UNCHANGED <<state, cause, equipment, relays, windows, booster, untold, environment>>

----------------------------------------------------------------------------

\* A device sticks, or the global interlock system drops a permit.
Break ==
  /\ \E p \in scenario.breaks : broken' = broken \cup {p}
  /\ scenario' = [scenario EXCEPT !.breaks = {}]
  /\ UNCHANGED <<state, error, cause, dev, beat, relays, windows, booster, untold, calm>>

Calm ==
  /\ ~calm /\ scenario.valves
  /\ calm' = TRUE
  /\ UNCHANGED <<state, error, cause, equipment, relays, windows, booster, untold, scenario>>

\* After OfflineState::enterControl, which turns the air and the lights off.
Init ==
  /\ state = "Standby" /\ error = "NoController" /\ cause = "None"
  /\ dev = [d \in Devices |-> [commanded |-> FALSE, output |-> FALSE, sensor |-> 0, age |-> 0,
                           travel |-> 0]]
  /\ beat = [commanded |-> FALSE, output |-> FALSE, age |-> 0]
  /\ relays = AllOff /\ untold = {}
  /\ window = Zeros /\ tally = [bad |-> 0, run |-> 0]
  /\ valves = Shut /\ trigger = TRUE
  /\ fe = [a \in Actuators |-> 0] /\ disabled = {} /\ calm = FALSE
  /\ broken = {}
  /\ scenario \in Scenarios

Update == StandbyUpdate \/ DisabledUpdate \/ FaultUpdate \/ EnabledUpdate
UpdateThrows == DisabledUpdateThrows \/ FaultUpdateThrows \/ EnabledUpdateThrows
Switch == Turn \/ Booster \/ SlewFlag \/ SetSlewControllerSettings \/ ForceActuators \/ Panic
Next ==
  \/ Update \/ UpdateThrows \/ Switch \/ Transfer
  \/ Start \/ StartThrows \/ Enable \/ StandbyFromDisabled \/ StandbyFromFault
  \/ Disable \/ DisableThrows \/ ExitEngineering \/ RaiseM1M3 \/ LowerM1M3
  \/ Break \/ Calm

\* The outer loop enqueues an update every period.
Spec == Init /\ [][Next]_vars /\ WF_vars(Update)

----------------------------------------------------------------------------
(* Properties. *)

\* Every part has its type.  The heartbeat is never late, whatever the ILCs do
\* (Heartbeat::tryToggle), and the booster valves are open for a reason
\* (BoosterValveStatus::log).
TypeOK ==
  /\ state \in States /\ error \in Errors /\ cause \in Errors \ {"NoController"}
  /\ dev \in [Devices -> [commanded : BOOLEAN, output : BOOLEAN, sensor : 0 .. 2, age : Nat,
                      travel : Nat]]
  /\ \A d \in Devices : dev[d].age <= Grace[d] /\ dev[d].travel <= Grace[d]
  /\ beat \in [commanded : BOOLEAN, output : BOOLEAN, age : 0 .. BeatPeriod - 1]
  /\ relays \in [DOMAIN AllOff -> [1 .. 2 -> BOOLEAN]] /\ untold \subseteq DOMAIN AllOff
  /\ window \in [1 .. Period -> -1 .. 1]
  /\ tally \in [bad : 0 .. Threshold, run : 0 .. Threshold]
  /\ valves \in [{"slew", "user", "error", "shake", "opened"} -> BOOLEAN]
  /\ valves.opened = (valves.slew \/ valves.user \/ valves.error \/ valves.shake)
  /\ trigger \in BOOLEAN /\ calm \in BOOLEAN
  /\ fe \in [Actuators -> 0 .. 2] /\ disabled \subseteq Actuators
  /\ broken \subseteq Parts

\* Air, lights and heartbeat fault the mirror only when one of them is broken: whatever
\* is switched and when, the valve and the lights have their time, and the heartbeat's
\* output is compared with the state it was last sent (DigitalInputOutput::processData).
NoSpuriousFault == "Equipment" \in {error, cause} => broken # {}

\* The interlock system is never told of a raised mirror that is not, or of a system in
\* operation that is not enabled, except between a fault and the update that follows it.
\* A standby commanded in between leaves the relays on; that is counted in untold.
RelaysAreTruthful ==
  \A name \in DOMAIN relays :
    (\E c \in 1 .. 2 : relays[name][c]) =>
       \/ name \in untold
       \/ state = "LoweringFault"
       \/ name = "MirrorRaised" /\ state \in RaisedStates
       \/ name = "SystemOperational" /\ state \in EnabledStates

\* A window faults the mirror for Threshold bad readings since start and not for fewer,
\* and Threshold in a row always do, whichever side of the limits each is on and however
\* many of the updates that read them end with an exception.  The fault of such an update
\* waits, latched, for the next checkSafety (SafetyController, SSILCs::readAll).
WindowIsExact ==
  /\ error = "Window" \/ (state = "LoweringFault" /\ cause = "Window") => tally.bad = Threshold
  /\ tally.run = Threshold => state \in FaultStates \/ error # "None"

LeavesEngineering ==
  /\ state \in EngineeringStates \ {"PausedRaisingEngineering", "PausedLoweringEngineering"}
  /\ state' \in EnabledStates \ (EngineeringStates \cup {"ProfileHardpointCorrection"})

EndsSlew == state \in RaisedStates /\ state' \in LoweringStates

\* The user's trigger does not survive into a state without engineering commands, unless
\* a pause is resumed there; and a slew that opened the valves does not keep them open
\* when the mirror is lowered (BoosterValveStatus, EnabledActiveState::lowerM1M3).
TriggersEndWithTheirReason ==
  [][/\ LeavesEngineering => ~valves'.user
     /\ EndsSlew /\ trigger => ~valves'.slew]_vars

\* While the mirror is enabled, a valve or lights that do not do what they were commanded
\* fault it in the end, silent ILCs or not, as users do not switch them forever.
StuckDeviceIsFound ==
  []<>(state \in EnabledStates =>
         \A d \in Devices : dev[d].sensor = Position(dev[d].commanded))

\* Once the mirror is calm the booster valves that following errors or accelerations
\* opened close again, unless a disabled force actuator left a following error behind.
BoosterCloses ==
  []<>(calm /\ state \in EnabledStates /\ (valves.error \/ valves.shake) =>
         \E a \in disabled : fe[a] > 0)
=============================================================================
