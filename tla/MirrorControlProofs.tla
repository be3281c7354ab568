------------------------ MODULE MirrorControlProofs ------------------------
(***************************************************************************)
(* Proofs about MirrorControl, for every set of hardpoints and every       *)
(* setting that SettingsAssumption admits.                                 *)
(***************************************************************************)
EXTENDS MirrorControl, TLAPS

----------------------------------------------------------------------------
(* Lemmas about the operators the actions are built from. *)

\* The two motions that name no single hardpoint are motions.
LEMMA StandbyIsMotion == AllStandby \in Motions /\ AllChasing \in Motions
BY DEF AllStandby, AllChasing, Motions

\* enableChaseAll yields a motion.
LEMMA ChaseIsMotion ==
  ASSUME NEW m \in Motions
  PROVE  EnableChaseAll(m) \in Motions
BY StandbyIsMotion DEF EnableChaseAll

\* So does a move of the hardpoints, accepted or refused.
LEMMA MovesAreMotions ==
  ASSUME NEW m \in Motions, NEW n \in Moves(m)
  PROVE  n \in Motions
BY DEF Moves, Motions

\* So does updateSteps.
LEMMA StepsAreMotions ==
  ASSUME NEW m, NEW n \in UpdateSteps(m)
  PROVE  n \in Motions
BY DEF UpdateSteps

\* So does an update of the hardpoint tests.
LEMMA SendIsMotion ==
  ASSUME NEW m \in Motions, NEW sent
  PROVE  SendTo(m, sent) \in Motions
BY DEF SendTo, Motions

\* Hardpoints that all stand by stay so: a step starts no motion.
LEMMA StandbyStays == UpdateSteps(AllStandby) = {AllStandby}
<1>1. ASSUME NEW n \in UpdateSteps(AllStandby)
      PROVE  n = AllStandby
  <2>1. n \in Motions /\ \A hp \in Hardpoints : n[hp] = "Standby"
    BY <1>1 DEF UpdateSteps, AllStandby
  <2> QED BY <2>1 DEF Motions, AllStandby
<1>2. AllStandby \in UpdateSteps(AllStandby)
  BY StandbyIsMotion DEF UpdateSteps
<1> QED BY <1>1, <1>2

\* _updateOverride latches an error code.
LEMMA LatchIsErrorCode ==
  ASSUME NEW code \in ErrorCodes, NEW fault \in Faults
  PROVE  Latch(code, fault) \in ErrorCodes
BY DEF Latch, ErrorCodes, Faults

\* What the monitors leave latched is an error code.
LEMMA DetectIsErrorCode ==
  ASSUME NEW code \in ErrorCodes, NEW c \in Detect(code)
  PROVE  c \in ErrorCodes
BY DEF Latch, Detect, ErrorCodes, Faults

\* Both timeouts are positive and at most MaxTimeout.
LEMMA MaxTimeoutBounds ==
  /\ MaxTimeout \in Nat \ {0}
  /\ RaiseTimeout \in 1..MaxTimeout
  /\ LowerTimeout \in 1..MaxTimeout
BY SettingsAssumption DEF MaxTimeout

\* An increment keeps the weight within its range and adds at most RaiseIncrement.
LEMMA IncrementBounds ==
  ASSUME NEW w \in 0..100
  PROVE  /\ IncSupportPercentage(w) \in 0..100
         /\ IncSupportPercentage(w) >= w
         /\ IncSupportPercentage(w) - w <= RaiseIncrement
BY SettingsAssumption DEF IncSupportPercentage, AtMost, Full

\* A decrement keeps the weight within its range and takes at most LowerDecrement.
LEMMA DecrementBounds ==
  ASSUME NEW w \in 0..100
  PROVE  /\ DecSupportPercentage(w) \in 0..100
         /\ DecSupportPercentage(w) <= w
         /\ w - DecSupportPercentage(w) <= LowerDecrement
BY SettingsAssumption DEF DecSupportPercentage, AtLeast0

\* What MirrorRaiseController::runLoop may do to the mirror.
LEMMA RaiseRunLoopEffect ==
  ASSUME TypeOK, NEW h \in RaiseRunLoop
  PROVE  /\ h.weight \in 0..100
         /\ h.weight >= weight
         /\ h.weight - weight <= RaiseIncrement
         /\ raise.paused => h.weight = weight
         /\ h.motion \in Motions
         /\ h.forces \subseteq forces \cup {"Static"}
         /\ forces \subseteq h.forces
<1>1. CASE h = Mirror(weight, forces, motion)
  BY <1>1, SettingsAssumption DEF Mirror, TypeOK, Full
<1>2. CASE h # Mirror(weight, forces, motion)
  <2> DEFINE w == IncSupportPercentage(weight)
             f == IF w > StaticThreshold THEN forces \cup {"Static"} ELSE forces
             m == IF w < Full THEN {motion}
                  ELSE IF raise.bypass THEN {AllStandby} ELSE Moves(AllStandby)
  <2>1. ~raise.paused /\ h \in {Mirror(w, f, n) : n \in m}
    BY <1>2 DEF RaiseRunLoop
  <2>2. PICK n \in m : h = Mirror(w, f, n)
    BY <2>1
  <2>3. n \in Motions
    BY StandbyIsMotion, MovesAreMotions DEF TypeOK
  <2>4. h.weight = w /\ h.forces = f /\ h.motion = n
    BY <2>2 DEF Mirror
  <2>5. weight \in 0..100
    BY DEF TypeOK, Full
  <2> HIDE DEF m
  <2> QED BY <2>1, <2>3, <2>4, <2>5, IncrementBounds
<1> QED BY <1>1, <1>2

\* What MirrorLowerController::runLoop may do to the mirror.
LEMMA LowerRunLoopEffect ==
  ASSUME TypeOK, NEW h \in LowerRunLoop
  PROVE  /\ h.weight \in 0..100
         /\ h.weight <= weight
         /\ weight - h.weight <= LowerDecrement
         /\ h.forces = forces
         /\ h.motion = motion
<1>1. weight \in 0..100
  BY DEF TypeOK, Full
<1>2. CASE h = Mirror(weight, forces, motion)
  BY <1>1, <1>2, SettingsAssumption DEF Mirror
<1>3. CASE h = Mirror(DecSupportPercentage(weight), forces, motion)
  BY <1>1, <1>3, DecrementBounds DEF Mirror
<1> QED BY <1>2, <1>3 DEF LowerRunLoop

\* Waiting for the lower position does not touch _loweringPaused.
LEMMA MoveToLowerPositionTypes ==
  ASSUME TypeOK, MoveToLowerPosition
  PROVE  /\ motion' \in Motions
         /\ lower' \in [paused : BOOLEAN, moved : BOOLEAN]
         /\ lower'.paused = lower.paused
BY StandbyIsMotion, StepsAreMotions DEF MoveToLowerPosition, TypeOK

\* The clock an operation starts with, and the one of a freshly loaded controller.
LEMMA StartIsClock ==
  /\ StartClock(0) \in Clocks
  /\ StartClock(RaiseTimeout) \in Clocks
  /\ StartClock(LowerTimeout) \in Clocks
BY MaxTimeoutBounds DEF StartClock, Clocks, NaN

\* Pausing yields a clock, however much time has passed.
LEMMA PauseIsClock == clock \in Clocks => PauseClock \in Clocks
<1> SUFFICES ASSUME clock \in Clocks PROVE PauseClock \in Clocks
  OBVIOUS
<1> DEFINE left == AtLeast0(clock.remaining - clock.elapsed)
<1>1. left \in 0..MaxTimeout
  BY MaxTimeoutBounds DEF Clocks, AtLeast0, NaN
<1>2. PauseClock = [clock EXCEPT !.timeLeft = NaN, !.remaining = left]
  BY DEF PauseClock
<1> HIDE DEF left
<1> QED BY <1>1, <1>2 DEF Clocks

\* Resuming yields a clock.
LEMMA ResumeIsClock == clock \in Clocks => ResumeClock \in Clocks
BY DEF ResumeClock, Clocks

\* The passing of time yields a clock.
LEMMA TickIsClock == clock \in Clocks /\ Tick => clock' \in Clocks
<1> SUFFICES ASSUME clock \in Clocks, Tick PROVE clock' \in Clocks
  OBVIOUS
<1> DEFINE l == IF clock.timeLeft = NaN THEN NaN ELSE AtLeast0(clock.timeLeft - 1)
           e == AtMost(clock.elapsed + 1, MaxTimeout)
           r == IF clock.timeLeft = NaN THEN clock.ran ELSE AtMost(clock.ran + 1, MaxTimeout)
<1>1. /\ clock.timeLeft \in {NaN} \cup 0..MaxTimeout
      /\ clock.elapsed \in 0..MaxTimeout
      /\ clock.ran \in 0..MaxTimeout
  BY DEF Clocks
<1>2. l \in {NaN} \cup 0..MaxTimeout /\ e \in 0..MaxTimeout /\ r \in 0..MaxTimeout
  BY <1>1, MaxTimeoutBounds DEF AtLeast0, AtMost, NaN
<1>3. clock' = [clock EXCEPT !.timeLeft = l, !.elapsed = e, !.ran = r]
  BY DEF Tick
<1> HIDE DEF l, e, r
<1> QED BY <1>2, <1>3 DEF Clocks

\* The raise controller leaves the mirror with values of their types.
LEMMA RaiseRunLoopTypes ==
  ASSUME TypeOK, NEW h \in RaiseRunLoop
  PROVE  h.weight \in 0..Full /\ h.motion \in Motions /\ h.forces \subseteq Components
BY RaiseRunLoopEffect DEF TypeOK, Components, Full

\* So does the lower controller.
LEMMA LowerRunLoopTypes ==
  ASSUME TypeOK, NEW h \in LowerRunLoop
  PROVE  h.weight \in 0..Full /\ h.motion \in Motions /\ h.forces \subseteq Components
BY LowerRunLoopEffect DEF TypeOK, Components, Full

----------------------------------------------------------------------------
(* Type correctness. *)

\* The names that handlers transition to are states.
LEMMA NamesAreStates ==
  /\ "Offline" \in States /\ "Standby" \in States /\ "Disabled" \in States
  /\ "LoweringFault" \in States /\ "Fault" \in States
  /\ "Parked" \in States /\ "ParkedEngineering" \in States
  /\ "Active" \in States /\ "ActiveEngineering" \in States
  /\ "ProfileHardpointCorrection" \in States
  /\ "Raising" \in States /\ "RaisingEngineering" \in States
  /\ "PausedRaising" \in States /\ "PausedRaisingEngineering" \in States
  /\ "Lowering" \in States /\ "LoweringEngineering" \in States
  /\ "PausedLowering" \in States /\ "PausedLoweringEngineering" \in States
BY DEF States, EnabledStates, FaultStates, OperationStates, RaisedStates, ParkedStates,
       RaisingStates, LoweringStates, PausedRaisingStates, PausedLoweringStates

\* Every handler keeps every variable within its type.
LEMMA TypeStep == TypeOK /\ Next => TypeOK'
<1> SUFFICES ASSUME TypeOK, Next PROVE TypeOK'
  OBVIOUS
<1> USE DEF TypeOK, mirror, plant, tests, controllers
<1>1. CASE Tick
  BY <1>1, TickIsClock DEF Tick
<1>2. CASE EnterControl
  BY <1>2, NamesAreStates DEF EnterControl
<1>3. CASE ExitControl
  BY <1>3, NamesAreStates DEF ExitControl
<1>4. CASE Start
  BY <1>4, NamesAreStates, StandbyIsMotion, StartIsClock
     DEF Start, LoadSettings, CheckSafety, ErrorCodes
<1>5. CASE StartThrows
  BY <1>5, StandbyIsMotion, StartIsClock, DetectIsErrorCode
     DEF StartThrows, LoadSettings, ErrorCodes
<1>6. CASE Panic
  BY <1>6 DEF Panic, Latch, ErrorCodes, Faults
<1>7. CASE Enable
  BY <1>7, NamesAreStates DEF Enable, CheckSafety, ErrorCodes
<1>8. CASE EnableThrows
  BY <1>8, DetectIsErrorCode DEF EnableThrows, ModeChangeThrows
<1>9. CASE StandbyFromDisabled
  BY <1>9, NamesAreStates DEF StandbyFromDisabled, CheckSafety, ErrorCodes
<1>10. CASE StandbyFromFault
  BY <1>10, NamesAreStates DEF StandbyFromFault, Full, ErrorCodes
<1>11. CASE StandbyThrows
  BY <1>11, DetectIsErrorCode DEF StandbyThrows, ModeChangeThrows
<1>12. CASE Disable
  BY <1>12, NamesAreStates DEF Disable, CheckSafety, ErrorCodes
<1>13. CASE DisableThrows
  BY <1>13, DetectIsErrorCode DEF DisableThrows, ModeChangeThrows
<1>14. CASE DisableEngineering
  BY <1>14, NamesAreStates, StandbyIsMotion
     DEF DisableEngineering, StopTests, CheckSafety, ErrorCodes
<1>15. CASE DisableEngineeringThrows
  BY <1>15, StandbyIsMotion, DetectIsErrorCode DEF DisableEngineeringThrows, StopTests
<1>16. CASE EnterEngineering
  BY <1>16, NamesAreStates DEF EnterEngineering, CheckSafety, ErrorCodes
<1>17. CASE ExitEngineeringParked
  BY <1>17, NamesAreStates, StandbyIsMotion
     DEF ExitEngineeringParked, StopTests, CheckSafety, ErrorCodes
<1>18. CASE ExitEngineeringActive
  BY <1>18, NamesAreStates, StandbyIsMotion
     DEF ExitEngineeringActive, Components, CheckSafety, ErrorCodes
<1>19. CASE MoveHardpoints
  BY <1>19, NamesAreStates, StandbyIsMotion, ChaseIsMotion, MovesAreMotions
     DEF MoveHardpoints, CheckSafety, ErrorCodes
<1>20. CASE OffsetForces
  BY <1>20, NamesAreStates DEF OffsetForces, Components, CheckSafety, ErrorCodes
<1>21. CASE AirValve
  BY <1>21, NamesAreStates DEF AirValve, CheckSafety, ErrorCodes
<1>22. CASE AuxPower
  BY <1>22, NamesAreStates DEF AuxPower, CheckSafety, ErrorCodes
<1>23. CASE ForceComponents
  <2>1. PICK f \in SUBSET Components : CheckSafety(state, errorCode, f, aux)
    BY <1>23 DEF ForceComponents, Components
  <2> QED BY <1>23, <2>1, NamesAreStates DEF ForceComponents, CheckSafety, ErrorCodes
<1>24. CASE SlewFlag
  BY <1>24, NamesAreStates DEF SlewFlag, Components, CheckSafety, ErrorCodes
<1>25. CASE OtherCommand
  BY <1>25, NamesAreStates DEF OtherCommand, CheckSafety, ErrorCodes
<1>26. CASE StartTest
  BY <1>26, NamesAreStates DEF StartTest, CheckSafety, ErrorCodes
<1>27. CASE KillTest
  BY <1>27, NamesAreStates DEF KillTest, Motions, CheckSafety, ErrorCodes
<1>28. CASE RunMirrorForceProfile
  BY <1>28, NamesAreStates DEF RunMirrorForceProfile, CheckSafety, ErrorCodes
<1>29. CASE AbortProfile
  BY <1>29, NamesAreStates DEF AbortProfile, CheckSafety, ErrorCodes
<1>30. CASE RaiseM1M3
  <2>1. /\ state' \in States /\ errorCode' \in ErrorCodes
        /\ forces' \subseteq Components /\ aux' \in BOOLEAN
    BY <1>30, NamesAreStates
       DEF RaiseM1M3, CheckSafety, ErrorCodes, Components
  <2>2. /\ ilcMode' \in {"Standby", "Disabled", "Enabled"} /\ air' \in BOOLEAN
        /\ weight' \in 0..Full /\ motion' \in Motions
    BY <1>30, StandbyIsMotion DEF RaiseM1M3, Full
  <2>3. PICK bypass \in BOOLEAN : raise' = [paused |-> FALSE, bypass |-> bypass]
    BY <1>30 DEF RaiseM1M3
  <2>4. /\ tested' \subseteq Hardpoints /\ bumpTest' \in BOOLEAN
        /\ lower' \in [paused : BOOLEAN, moved : BOOLEAN]
        /\ clock' \in Clocks
    BY <1>30, StartIsClock DEF RaiseM1M3, StopTests
  <2> QED BY <2>1, <2>2, <2>3, <2>4
<1>31. CASE AbortRaise
  BY <1>31, NamesAreStates, StandbyIsMotion, StartIsClock
     DEF AbortRaise, Full, Components, CheckSafety, ErrorCodes
<1>32. CASE LowerM1M3
  <2>1. /\ state' \in States /\ errorCode' \in ErrorCodes
        /\ forces' \subseteq Components /\ aux' \in BOOLEAN
    BY <1>32, NamesAreStates
       DEF LowerM1M3, CheckSafety, ErrorCodes, Components
  <2>2. /\ ilcMode' \in {"Standby", "Disabled", "Enabled"} /\ air' \in BOOLEAN
        /\ weight' \in 0..Full /\ motion' \in Motions
    BY <1>32, StandbyIsMotion, MovesAreMotions DEF LowerM1M3, Full
  <2>3. /\ tested' \subseteq Hardpoints /\ bumpTest' \in BOOLEAN
        /\ raise' \in [paused : BOOLEAN, bypass : BOOLEAN]
        /\ lower' \in [paused : BOOLEAN, moved : BOOLEAN]
        /\ clock' \in Clocks
    BY <1>32, StartIsClock DEF LowerM1M3, StopTests
  <2> QED BY <2>1, <2>2, <2>3
<1>33. CASE PauseRaising
  BY <1>33, NamesAreStates, PauseIsClock DEF PauseRaising, CheckSafety, ErrorCodes
<1>34. CASE PauseLowering
  BY <1>34, NamesAreStates, PauseIsClock DEF PauseLowering, CheckSafety, ErrorCodes
<1>35. CASE ResumeRaising
  BY <1>35, NamesAreStates, ResumeIsClock DEF ResumeRaising, CheckSafety, ErrorCodes
<1>36. CASE ResumeLowering
  BY <1>36, NamesAreStates, ResumeIsClock DEF ResumeLowering, CheckSafety, ErrorCodes
<1>37. CASE DisabledUpdate
  BY <1>37, NamesAreStates DEF DisabledUpdate, CheckSafety, ErrorCodes
<1>38. CASE LoweringFaultUpdate
  BY <1>38, NamesAreStates, DetectIsErrorCode DEF LoweringFaultUpdate
<1>39. CASE FaultUpdate
  BY <1>39, DetectIsErrorCode DEF FaultUpdate
<1>40. CASE RaisingUpdate
  BY <1>40, NamesAreStates, RaiseRunLoopTypes, StepsAreMotions
     DEF RaisingUpdate, CheckSafety, ErrorCodes
<1>41. CASE RaiseCompletes
  <2>1. /\ state' \in States /\ errorCode' \in ErrorCodes
        /\ forces' \subseteq Components /\ aux' \in BOOLEAN
    BY <1>41, NamesAreStates
       DEF RaiseCompletes, CheckSafety, ErrorCodes, Components
  <2>2. /\ ilcMode' \in {"Standby", "Disabled", "Enabled"} /\ air' \in BOOLEAN
        /\ weight' \in 0..Full /\ motion' \in Motions
    BY <1>41, StandbyIsMotion DEF RaiseCompletes, Full
  <2>3. /\ tested' \subseteq Hardpoints /\ bumpTest' \in BOOLEAN
        /\ raise' \in [paused : BOOLEAN, bypass : BOOLEAN]
        /\ lower' \in [paused : BOOLEAN, moved : BOOLEAN]
        /\ clock' \in Clocks
    BY <1>41, StartIsClock DEF RaiseCompletes, StopTests
  <2> QED BY <2>1, <2>2, <2>3
<1>42. CASE LoweringUpdate
  BY <1>42, NamesAreStates, LowerRunLoopTypes, MoveToLowerPositionTypes
     DEF LoweringUpdate, CheckSafety, ErrorCodes
<1>43. CASE LowerCompletes
  <2>1. /\ state' \in States /\ errorCode' \in ErrorCodes
        /\ forces' \subseteq Components /\ aux' \in BOOLEAN
    BY <1>43, NamesAreStates
       DEF LowerCompletes, CheckSafety, ErrorCodes, Components
  <2>2. /\ ilcMode' \in {"Standby", "Disabled", "Enabled"} /\ air' \in BOOLEAN
        /\ weight' \in 0..Full /\ motion' \in Motions
    BY <1>43, StandbyIsMotion DEF LowerCompletes, Full
  <2>3. /\ tested' \subseteq Hardpoints /\ bumpTest' \in BOOLEAN
        /\ raise' \in [paused : BOOLEAN, bypass : BOOLEAN]
        /\ lower' \in [paused : BOOLEAN, moved : BOOLEAN]
        /\ clock' \in Clocks
    BY <1>43, StartIsClock DEF LowerCompletes, StopTests
  <2> QED BY <2>1, <2>2, <2>3
<1>44. CASE PausedUpdate
  BY <1>44, NamesAreStates, RaiseRunLoopTypes, StepsAreMotions
     DEF PausedUpdate, CheckSafety, ErrorCodes
<1>45. CASE SteadyUpdate
  BY <1>45, NamesAreStates, StepsAreMotions DEF SteadyUpdate, CheckSafety, ErrorCodes
<1>46. CASE ParkedEngineeringUpdate
  <2>1. /\ state' \in States /\ errorCode' \in ErrorCodes
        /\ forces' \subseteq Components /\ aux' \in BOOLEAN
    BY <1>46, NamesAreStates
       DEF ParkedEngineeringUpdate, CheckSafety, ErrorCodes, Components
  <2>2. /\ ilcMode' \in {"Standby", "Disabled", "Enabled"} /\ air' \in BOOLEAN
        /\ weight' \in 0..Full /\ motion' \in Motions
    BY <1>46, StepsAreMotions, SendIsMotion DEF ParkedEngineeringUpdate, Full
  <2>3. /\ tested' \subseteq Hardpoints /\ bumpTest' \in BOOLEAN
        /\ raise' \in [paused : BOOLEAN, bypass : BOOLEAN]
        /\ lower' \in [paused : BOOLEAN, moved : BOOLEAN]
        /\ clock' \in Clocks
    BY <1>46, StartIsClock DEF ParkedEngineeringUpdate, StopTests
  <2> QED BY <2>1, <2>2, <2>3
<1>47. CASE ProfileUpdate
  BY <1>47, NamesAreStates, StepsAreMotions
     DEF ProfileUpdate, Components, CheckSafety, ErrorCodes
<1>48. CASE UpdateThrows
  BY <1>48, RaiseRunLoopTypes, StepsAreMotions, LowerRunLoopTypes,
     MoveToLowerPositionTypes, DetectIsErrorCode DEF UpdateThrows, Components
<1>49. CASE DisabledUpdateThrows
  BY <1>49, DetectIsErrorCode DEF DisabledUpdateThrows
<1>50. CASE LoweringFaultUpdateThrows
  BY <1>50, DetectIsErrorCode DEF LoweringFaultUpdateThrows
<1> QED BY <1>1, <1>2, <1>3, <1>4, <1>5, <1>6, <1>7, <1>8, <1>9, <1>10, <1>11, <1>12,
            <1>13, <1>14, <1>15, <1>16, <1>17, <1>18, <1>19, <1>20, <1>21, <1>22, <1>23,
            <1>24, <1>25, <1>26, <1>27, <1>28, <1>29, <1>30, <1>31, <1>32, <1>33, <1>34,
            <1>35, <1>36, <1>37, <1>38, <1>39, <1>40, <1>41, <1>42, <1>43, <1>44, <1>45,
            <1>46, <1>47, <1>48, <1>49, <1>50
         DEF Next, Command, UpdateSucceeds, UpdateFails

----------------------------------------------------------------------------
(* What the mirror, the air and the power are in each state.  TypeOK and the parts *)
(* of SupportInv are enough: no handler relies on a property of another operation. *)

\* Every handler keeps SupportInv.
LEMMA SupportStep == TypeOK /\ SupportInv /\ Next => SupportInv'
<1> SUFFICES ASSUME TypeOK, SupportInv, Next PROVE SupportInv'
  OBVIOUS
<1> USE DEF SupportInv, SupportedWhenRaised, RestingWhenParked, HardpointsHoldStill,
            NoStrayOffsets, FaultedIsOff, DisabledIsOff, mirror, plant,
            FaultStates, RaisedStates, ParkedStates
<1>1. CASE Tick
  BY <1>1
     DEF Tick, OperationStates, RaisingStates, LoweringStates, PausedRaisingStates,
         PausedLoweringStates
<1>2. CASE EnterControl
  BY <1>2 DEF EnterControl
<1>3. CASE ExitControl
  BY <1>3 DEF ExitControl
<1>4. CASE Start
  BY <1>4 DEF Start, CheckSafety, LoadSettings
<1>5. CASE StartThrows
  BY <1>5 DEF StartThrows, LoadSettings
<1>6. CASE Panic
  BY <1>6 DEF Panic
<1>7. CASE Enable
  BY <1>7 DEF Enable, CheckSafety
<1>8. CASE EnableThrows
  BY <1>8 DEF EnableThrows, ModeChangeThrows
<1>9. CASE StandbyFromDisabled
  BY <1>9 DEF StandbyFromDisabled, CheckSafety
<1>10. CASE StandbyFromFault
  BY <1>10 DEF StandbyFromFault
<1>11. CASE StandbyThrows
  BY <1>11 DEF StandbyThrows, ModeChangeThrows
<1>12. CASE Disable
  BY <1>12 DEF Disable, CheckSafety
<1>13. CASE DisableThrows
  BY <1>13 DEF DisableThrows, ModeChangeThrows
<1>14. CASE DisableEngineering
  BY <1>14 DEF DisableEngineering, CheckSafety, StopTests
<1>15. CASE DisableEngineeringThrows
  BY <1>15 DEF DisableEngineeringThrows, StopTests
<1>16. CASE EnterEngineering
  BY <1>16 DEF EnterEngineering, CheckSafety
<1>17. CASE ExitEngineeringParked
  BY <1>17 DEF ExitEngineeringParked, CheckSafety, StopTests
<1>18. CASE ExitEngineeringActive
  BY <1>18 DEF ExitEngineeringActive, CheckSafety
<1>19. CASE MoveHardpoints
  BY <1>19 DEF MoveHardpoints, CheckSafety, EngineeringStates
<1>20. CASE OffsetForces
  BY <1>20 DEF OffsetForces, CheckSafety, EngineeringStates
<1>21. CASE AirValve
  BY <1>21 DEF AirValve, CheckSafety, EngineeringStates
<1>22. CASE AuxPower
  BY <1>22 DEF AuxPower, CheckSafety, EngineeringStates
<1>23. CASE ForceComponents
  BY <1>23 DEF ForceComponents, CheckSafety
<1>24. CASE SlewFlag
  BY <1>24 DEF SlewFlag, CheckSafety
<1>25. CASE OtherCommand
  BY <1>25
     DEF OtherCommand, CheckSafety, EnabledStates, OperationStates, RaisingStates,
         LoweringStates, PausedRaisingStates, PausedLoweringStates
<1>26. CASE StartTest
  BY <1>26 DEF StartTest, CheckSafety
<1>27. CASE KillTest
  BY <1>27 DEF KillTest, CheckSafety
<1>28. CASE RunMirrorForceProfile
  BY <1>28 DEF RunMirrorForceProfile, CheckSafety
<1>29. CASE AbortProfile
  BY <1>29 DEF AbortProfile, CheckSafety
<1>30. CASE RaiseM1M3
  BY <1>30 DEF RaiseM1M3, CheckSafety, StopTests
<1>31. CASE AbortRaise
  BY <1>31 DEF AbortRaise, CheckSafety
<1>32. CASE LowerM1M3
  BY <1>32 DEF LowerM1M3, CheckSafety
<1>33. CASE PauseRaising
  BY <1>33 DEF PauseRaising, CheckSafety
<1>34. CASE PauseLowering
  BY <1>34 DEF PauseLowering, CheckSafety
<1>35. CASE ResumeRaising
  BY <1>35 DEF ResumeRaising, CheckSafety, PausedRaisingStates
<1>36. CASE ResumeLowering
  BY <1>36 DEF ResumeLowering, CheckSafety, PausedLoweringStates
<1>37. CASE DisabledUpdate
  BY <1>37 DEF DisabledUpdate, CheckSafety
<1>38. CASE LoweringFaultUpdate
  BY <1>38 DEF LoweringFaultUpdate
<1>39. CASE FaultUpdate
  BY <1>39 DEF FaultUpdate
<1>40. CASE RaisingUpdate
  BY <1>40, StandbyStays DEF RaisingUpdate, CheckSafety, RaisingStates
<1>41. CASE RaiseCompletes
  BY <1>41, StandbyStays DEF RaiseCompletes, CheckSafety, RaisingStates
<1>42. CASE LoweringUpdate
  BY <1>42 DEF LoweringUpdate, CheckSafety, LoweringStates
<1>43. CASE LowerCompletes
  BY <1>43 DEF LowerCompletes, CheckSafety, LoweringStates
<1>44. CASE PausedUpdate
  BY <1>44, StandbyStays
     DEF PausedUpdate, CheckSafety, PausedRaisingStates, PausedLoweringStates
<1>45. CASE SteadyUpdate
  BY <1>45, StandbyStays DEF SteadyUpdate, CheckSafety
<1>46. CASE ParkedEngineeringUpdate
  BY <1>46, StandbyStays DEF ParkedEngineeringUpdate, CheckSafety
<1>47. CASE ProfileUpdate
  BY <1>47, StandbyStays DEF ProfileUpdate, CheckSafety
<1>48. CASE UpdateThrows
  BY <1>48, StandbyStays
     DEF UpdateThrows, EnabledStates, RaisingStates, LoweringStates, PausedRaisingStates,
         PausedLoweringStates, OperationStates
<1>49. CASE DisabledUpdateThrows
  BY <1>49 DEF DisabledUpdateThrows
<1>50. CASE LoweringFaultUpdateThrows
  BY <1>50 DEF LoweringFaultUpdateThrows
<1> QED BY <1>1, <1>2, <1>3, <1>4, <1>5, <1>6, <1>7, <1>8, <1>9, <1>10, <1>11, <1>12,
            <1>13, <1>14, <1>15, <1>16, <1>17, <1>18, <1>19, <1>20, <1>21, <1>22, <1>23,
            <1>24, <1>25, <1>26, <1>27, <1>28, <1>29, <1>30, <1>31, <1>32, <1>33, <1>34,
            <1>35, <1>36, <1>37, <1>38, <1>39, <1>40, <1>41, <1>42, <1>43, <1>44, <1>45,
            <1>46, <1>47, <1>48, <1>49, <1>50
         DEF Next, Command, UpdateSucceeds, UpdateFails

----------------------------------------------------------------------------
(* The pause flags and the times of an operation. *)

\* The fields of the clock.
LEMMA ClockFields ==
  ASSUME TypeOK
  PROVE  /\ clock.timeLeft \in {NaN} \cup 0..MaxTimeout
         /\ clock.remaining \in 0..MaxTimeout
         /\ clock.elapsed \in 0..MaxTimeout
         /\ clock.ran \in 0..MaxTimeout
BY DEF TypeOK, Clocks

\* What the passing of time does to each field of the clock.
LEMMA TickFields ==
  ASSUME TypeOK, Tick
  PROVE  /\ clock'.timeLeft = IF clock.timeLeft = NaN THEN NaN ELSE AtLeast0(clock.timeLeft - 1)
         /\ clock'.remaining = clock.remaining
         /\ clock'.elapsed = AtMost(clock.elapsed + 1, MaxTimeout)
         /\ clock'.ran = IF clock.timeLeft = NaN THEN clock.ran ELSE AtMost(clock.ran + 1, MaxTimeout)
BY DEF TypeOK, Clocks, Tick

\* What a pause does to each field of the clock.
LEMMA PauseFields ==
  ASSUME TypeOK
  PROVE  /\ PauseClock.timeLeft = NaN
         /\ PauseClock.remaining = AtLeast0(clock.remaining - clock.elapsed)
         /\ PauseClock.elapsed = clock.elapsed
         /\ PauseClock.ran = clock.ran
BY DEF TypeOK, Clocks, PauseClock

\* What a resume does to each field of the clock.
LEMMA ResumeFields ==
  ASSUME TypeOK
  PROVE  /\ ResumeClock.timeLeft = clock.remaining
         /\ ResumeClock.remaining = clock.remaining
         /\ ResumeClock.elapsed = clock.elapsed
         /\ ResumeClock.ran = clock.ran
BY DEF TypeOK, Clocks, ResumeClock

\* Every handler, and the passing of time, keeps OperationInv.
LEMMA OperationStep == TypeOK /\ OperationInv /\ Next => OperationInv'
<1> SUFFICES ASSUME TypeOK, OperationInv, Next PROVE OperationInv'
  OBVIOUS
<1> USE DEF OperationInv, PauseFlagsAgree, NoStalePause, controllers, OperationStates,
            RaisingStates, LoweringStates, PausedRaisingStates, PausedLoweringStates,
            FaultStates
<1>1. CASE Tick
  <2>1. PauseFlagsAgree' /\ NoStalePause'
    BY <1>1 DEF Tick
  <2>2. TimeBudget'
    BY <1>1, ClockFields, TickFields, MaxTimeoutBounds
       DEF Tick, AtLeast0, AtMost, TimeBudget, Limit, NaN
  <2> QED BY <2>1, <2>2
<1>2. CASE EnterControl
  BY <1>2 DEF EnterControl, TimeBudget, Limit
<1>3. CASE ExitControl
  BY <1>3 DEF ExitControl, TimeBudget, Limit
<1>4. CASE Start
  BY <1>4 DEF Start, CheckSafety, LoadSettings, TimeBudget, Limit
<1>5. CASE StartThrows
  BY <1>5 DEF StartThrows, LoadSettings, TimeBudget, Limit
<1>6. CASE Panic
  BY <1>6 DEF Panic, TimeBudget, Limit
<1>7. CASE Enable
  BY <1>7 DEF Enable, CheckSafety, TimeBudget, Limit
<1>8. CASE EnableThrows
  BY <1>8 DEF EnableThrows, ModeChangeThrows, TimeBudget, Limit
<1>9. CASE StandbyFromDisabled
  BY <1>9 DEF StandbyFromDisabled, CheckSafety, TimeBudget, Limit
<1>10. CASE StandbyFromFault
  BY <1>10 DEF StandbyFromFault, TimeBudget, Limit
<1>11. CASE StandbyThrows
  BY <1>11 DEF StandbyThrows, ModeChangeThrows, TimeBudget, Limit
<1>12. CASE Disable
  BY <1>12 DEF Disable, CheckSafety, TimeBudget, Limit
<1>13. CASE DisableThrows
  BY <1>13 DEF DisableThrows, ModeChangeThrows, TimeBudget, Limit
<1>14. CASE DisableEngineering
  BY <1>14 DEF DisableEngineering, CheckSafety, TimeBudget, Limit
<1>15. CASE DisableEngineeringThrows
  BY <1>15 DEF DisableEngineeringThrows, TimeBudget, Limit
<1>16. CASE EnterEngineering
  BY <1>16 DEF EnterEngineering, CheckSafety, TimeBudget, Limit
<1>17. CASE ExitEngineeringParked
  BY <1>17 DEF ExitEngineeringParked, CheckSafety, TimeBudget, Limit
<1>18. CASE ExitEngineeringActive
  BY <1>18 DEF ExitEngineeringActive, CheckSafety, TimeBudget, Limit
<1>19. CASE MoveHardpoints
  BY <1>19 DEF MoveHardpoints, CheckSafety, EngineeringStates, TimeBudget, Limit
<1>20. CASE OffsetForces
  BY <1>20 DEF OffsetForces, CheckSafety, EngineeringStates, TimeBudget, Limit
<1>21. CASE AirValve
  BY <1>21 DEF AirValve, CheckSafety, EngineeringStates, TimeBudget, Limit
<1>22. CASE AuxPower
  BY <1>22 DEF AuxPower, CheckSafety, EngineeringStates, TimeBudget, Limit
<1>23. CASE ForceComponents
  BY <1>23 DEF ForceComponents, CheckSafety, TimeBudget, Limit
<1>24. CASE SlewFlag
  BY <1>24 DEF SlewFlag, CheckSafety, TimeBudget, Limit
<1>25. CASE OtherCommand
  BY <1>25 DEF OtherCommand, CheckSafety, EnabledStates, TimeBudget, Limit
<1>26. CASE StartTest
  BY <1>26 DEF StartTest, CheckSafety, TimeBudget, Limit
<1>27. CASE KillTest
  BY <1>27 DEF KillTest, CheckSafety, TimeBudget, Limit
<1>28. CASE RunMirrorForceProfile
  BY <1>28 DEF RunMirrorForceProfile, CheckSafety, TimeBudget, Limit
<1>29. CASE AbortProfile
  BY <1>29 DEF AbortProfile, CheckSafety, TimeBudget, Limit
<1>30. CASE RaiseM1M3
  <2>1. PauseFlagsAgree' /\ NoStalePause'
    BY <1>30 DEF RaiseM1M3, CheckSafety, TypeOK
  <2>2. TimeBudget'
    BY <1>30, MaxTimeoutBounds
       DEF RaiseM1M3, CheckSafety, StartClock, TimeBudget, Limit, NaN
  <2> QED BY <2>1, <2>2
<1>31. CASE AbortRaise
  <2>1. PauseFlagsAgree' /\ NoStalePause'
    BY <1>31 DEF AbortRaise, CheckSafety, TypeOK
  <2>2. TimeBudget'
    BY <1>31, MaxTimeoutBounds
       DEF AbortRaise, CheckSafety, StartClock, TimeBudget, Limit, NaN
  <2> QED BY <2>1, <2>2
<1>32. CASE LowerM1M3
  <2>1. PauseFlagsAgree' /\ NoStalePause'
    BY <1>32 DEF LowerM1M3, CheckSafety, TypeOK
  <2>2. TimeBudget'
    BY <1>32, MaxTimeoutBounds
       DEF LowerM1M3, CheckSafety, StartClock, TimeBudget, Limit, NaN
  <2> QED BY <2>1, <2>2
<1>33. CASE PauseRaising
  <2>1. PauseFlagsAgree' /\ NoStalePause'
    BY <1>33 DEF PauseRaising, CheckSafety, TypeOK
  <2>2. TimeBudget'
    BY <1>33, ClockFields, PauseFields, MaxTimeoutBounds
       DEF PauseRaising, CheckSafety, AtLeast0, TimeBudget, Limit, NaN
  <2> QED BY <2>1, <2>2
<1>34. CASE PauseLowering
  <2>1. PauseFlagsAgree' /\ NoStalePause'
    BY <1>34 DEF PauseLowering, CheckSafety, TypeOK
  <2>2. TimeBudget'
    BY <1>34, ClockFields, PauseFields, MaxTimeoutBounds
       DEF PauseLowering, CheckSafety, AtLeast0, TimeBudget, Limit, NaN
  <2> QED BY <2>1, <2>2
<1>35. CASE ResumeRaising
  <2>1. PauseFlagsAgree' /\ NoStalePause'
    BY <1>35 DEF ResumeRaising, CheckSafety, TypeOK
  <2>2. TimeBudget'
    BY <1>35, ClockFields, ResumeFields, MaxTimeoutBounds
       DEF ResumeRaising, CheckSafety, TimeBudget, Limit, NaN
  <2> QED BY <2>1, <2>2
<1>36. CASE ResumeLowering
  <2>1. PauseFlagsAgree' /\ NoStalePause'
    BY <1>36 DEF ResumeLowering, CheckSafety, TypeOK
  <2>2. TimeBudget'
    BY <1>36, ClockFields, ResumeFields, MaxTimeoutBounds
       DEF ResumeLowering, CheckSafety, TimeBudget, Limit, NaN
  <2> QED BY <2>1, <2>2
<1>37. CASE DisabledUpdate
  BY <1>37 DEF DisabledUpdate, CheckSafety, TimeBudget, Limit
<1>38. CASE LoweringFaultUpdate
  BY <1>38 DEF LoweringFaultUpdate, TimeBudget, Limit
<1>39. CASE FaultUpdate
  BY <1>39 DEF FaultUpdate, TimeBudget, Limit
<1>40. CASE RaisingUpdate
  BY <1>40 DEF RaisingUpdate, CheckSafety, TimeBudget, Limit
<1>41. CASE RaiseCompletes
  BY <1>41 DEF RaiseCompletes, CheckSafety, TimeBudget, Limit
<1>42. CASE LoweringUpdate
  <2>1. PauseFlagsAgree' /\ NoStalePause'
    BY <1>42, MoveToLowerPositionTypes DEF LoweringUpdate, CheckSafety
  <2>2. TimeBudget'
    BY <1>42 DEF LoweringUpdate, CheckSafety, TimeBudget, Limit
  <2> QED BY <2>1, <2>2
<1>43. CASE LowerCompletes
  BY <1>43 DEF LowerCompletes, CheckSafety, TimeBudget, Limit
<1>44. CASE PausedUpdate
  BY <1>44 DEF PausedUpdate, CheckSafety, TimeBudget, Limit
<1>45. CASE SteadyUpdate
  BY <1>45 DEF SteadyUpdate, CheckSafety, TimeBudget, Limit
<1>46. CASE ParkedEngineeringUpdate
  BY <1>46 DEF ParkedEngineeringUpdate, CheckSafety, TimeBudget, Limit
<1>47. CASE ProfileUpdate
  BY <1>47 DEF ProfileUpdate, CheckSafety, TimeBudget, Limit
<1>48. CASE UpdateThrows
  <2>1. PauseFlagsAgree' /\ NoStalePause'
    BY <1>48, MoveToLowerPositionTypes DEF UpdateThrows, EnabledStates
  <2>2. TimeBudget'
    BY <1>48 DEF UpdateThrows, TimeBudget, Limit
  <2> QED BY <2>1, <2>2
<1>49. CASE DisabledUpdateThrows
  BY <1>49 DEF DisabledUpdateThrows, TimeBudget, Limit
<1>50. CASE LoweringFaultUpdateThrows
  BY <1>50 DEF LoweringFaultUpdateThrows, TimeBudget, Limit
<1> QED BY <1>1, <1>2, <1>3, <1>4, <1>5, <1>6, <1>7, <1>8, <1>9, <1>10, <1>11, <1>12,
            <1>13, <1>14, <1>15, <1>16, <1>17, <1>18, <1>19, <1>20, <1>21, <1>22, <1>23,
            <1>24, <1>25, <1>26, <1>27, <1>28, <1>29, <1>30, <1>31, <1>32, <1>33, <1>34,
            <1>35, <1>36, <1>37, <1>38, <1>39, <1>40, <1>41, <1>42, <1>43, <1>44, <1>45,
            <1>46, <1>47, <1>48, <1>49, <1>50
         DEF Next, Command, UpdateSucceeds, UpdateFails

----------------------------------------------------------------------------
(* The theorems. *)

\* A program that has just started satisfies the invariant.
LEMMA InitInductive == Init => Inductive
<1> SUFFICES ASSUME Init PROVE Inductive
  OBVIOUS
<1>1. TypeOK
  <2>1. /\ state \in States /\ errorCode \in ErrorCodes
        /\ ilcMode \in {"Standby", "Disabled", "Enabled"} /\ air \in BOOLEAN
        /\ aux \in BOOLEAN /\ bumpTest \in BOOLEAN
    BY NamesAreStates DEF Init, ErrorCodes
  <2>2. /\ weight \in 0..Full /\ forces \subseteq Components
        /\ motion \in Motions /\ tested \subseteq Hardpoints
    BY StandbyIsMotion DEF Init, Full
  <2>3. /\ raise \in [paused : BOOLEAN, bypass : BOOLEAN]
        /\ lower \in [paused : BOOLEAN, moved : BOOLEAN]
        /\ clock \in Clocks
    BY StartIsClock DEF Init
  <2> QED BY <2>1, <2>2, <2>3 DEF TypeOK
<1>2. SupportInv
  BY DEF Init, SupportInv, SupportedWhenRaised, RestingWhenParked, HardpointsHoldStill,
         NoStrayOffsets, FaultedIsOff, DisabledIsOff, RaisedStates, ParkedStates, FaultStates
<1>3. OperationInv
  BY DEF Init, OperationInv, PauseFlagsAgree, NoStalePause, TimeBudget, OperationStates,
         RaisingStates, LoweringStates, PausedRaisingStates, PausedLoweringStates
<1> QED BY <1>1, <1>2, <1>3 DEF Inductive

\* A step that changes no variable keeps the invariant.
LEMMA StutterInductive == Inductive /\ UNCHANGED vars => Inductive'
<1> SUFFICES ASSUME Inductive, UNCHANGED vars PROVE Inductive'
  OBVIOUS
<1> USE DEF vars, Inductive
<1>1. TypeOK'
  BY DEF TypeOK
<1>2. SupportInv'
  BY DEF SupportInv, SupportedWhenRaised, RestingWhenParked, HardpointsHoldStill,
         NoStrayOffsets, FaultedIsOff, DisabledIsOff
<1>3. OperationInv'
  BY DEF OperationInv, PauseFlagsAgree, NoStalePause, TimeBudget, Limit
<1> QED BY <1>1, <1>2, <1>3

\* The inductive invariant holds in every behaviour of the support system.
THEOREM Invariance == Spec => []Inductive
<1>1. Inductive /\ [Next]_vars => Inductive'
  BY TypeStep, SupportStep, OperationStep, StutterInductive DEF Inductive
<1> QED BY <1>1, InitInductive, PTL DEF Spec

\* Every variable always holds a value of its type.
THEOREM TypeCorrect == Spec => []TypeOK
<1>1. Inductive => TypeOK
  BY DEF Inductive
<1> QED BY <1>1, Invariance, PTL

\* In every state the mirror is carried by what should carry it: SupportInv, of which the
\* six theorems that follow are the parts.
THEOREM Supported == Spec => []SupportInv
<1>1. Inductive => SupportInv
  BY DEF Inductive
<1> QED BY <1>1, Invariance, PTL

\* A raised mirror always has its full weight on the actuators and the elevation
\* forces enabled.
THEOREM RaisedIsSupported == Spec => []SupportedWhenRaised
<1>1. Inductive => SupportedWhenRaised
  BY DEF Inductive, SupportInv, OperationInv
<1> QED BY <1>1, Invariance, PTL

\* A parked, disabled or switched-off mirror never has weight on the actuators, nor
\* any force component but the offset forces of ParkedEngineering.
THEOREM ParkedIsResting == Spec => []RestingWhenParked
<1>1. Inductive => RestingWhenParked
  BY DEF Inductive, SupportInv, OperationInv
<1> QED BY <1>1, Invariance, PTL

\* No hardpoint moves or chases in Disabled, Parked or Active.
THEOREM HoldingStill == Spec => []HardpointsHoldStill
<1>1. Inductive => HardpointsHoldStill
  BY DEF Inductive, SupportInv, OperationInv
<1> QED BY <1>1, Invariance, PTL

\* No offset force is left on the mirror in Disabled, Parked or Active.
THEOREM OffsetsCleared == Spec => []NoStrayOffsets
<1>1. Inductive => NoStrayOffsets
  BY DEF Inductive, SupportInv, OperationInv
<1> QED BY <1>1, Invariance, PTL

\* In the fault states every force component and the auxiliary power are off.
THEOREM FaultSwitchesOff == Spec => []FaultedIsOff
<1>1. Inductive => FaultedIsOff
  BY DEF Inductive, SupportInv, OperationInv
<1> QED BY <1>1, Invariance, PTL

\* In Disabled the air and the auxiliary power are off.
THEOREM DisabledSwitchesOff == Spec => []DisabledIsOff
<1>1. Inductive => DisabledIsOff
  BY DEF Inductive, SupportInv, OperationInv
<1> QED BY <1>1, Invariance, PTL

\* The pause flags of the raise and the lower controller agree with the state.
THEOREM FlagsAgree == Spec => []PauseFlagsAgree
<1>1. Inductive => PauseFlagsAgree
  BY DEF Inductive, SupportInv, OperationInv
<1> QED BY <1>1, Invariance, PTL

\* A raise or a lower never gets more running time than its timeout.
THEOREM TimesBounded == Spec => []TimeIsBounded
<1>1. Inductive => TimeIsBounded
  <2> SUFFICES ASSUME Inductive, state \in RaisingStates \cup LoweringStates, ~TimedOut
               PROVE  clock.ran + clock.timeLeft <=
                        (IF state \in RaisingStates THEN RaiseTimeout ELSE LowerTimeout)
    BY DEF TimeIsBounded
  <2>1. TypeOK /\ TimeBudget
    BY DEF Inductive, OperationInv
  <2>2. clock.timeLeft # NaN /\ (clock.timeLeft > 0 => clock.ran + clock.timeLeft <= Limit)
    BY <2>1 DEF TimeBudget, OperationStates
  <2>3. clock.timeLeft > 0
    BY <2>1, <2>2, ClockFields, MaxTimeoutBounds DEF TimedOut
  <2>4. Limit = IF state \in RaisingStates THEN RaiseTimeout ELSE LowerTimeout
    BY DEF Limit, RaisingStates, PausedRaisingStates, LoweringStates
  <2> QED BY <2>2, <2>3, <2>4
<1> QED BY <1>1, Invariance, PTL

----------------------------------------------------------------------------
(* Action properties, and that MirrorControl implements MirrorSupport. *)

\* The four things a step may do to the supported weight.
WeightMove ==
  \/ weight' = weight
  \/ /\ state \in RaisingStates \cup PausedLoweringStates
     /\ weight' \in 0..100 /\ weight' >= weight /\ weight' - weight <= RaiseIncrement
  \/ /\ state \in LoweringStates
     /\ weight' \in 0..100 /\ weight' <= weight /\ weight - weight' <= LowerDecrement
  \/ state \in FaultStates /\ state' = "Standby" /\ weight' = 0

\* Every step does one of these things to the weight.
LEMMA WeightStep == TypeOK /\ SupportInv /\ OperationInv /\ Next => WeightMove
<1> SUFFICES ASSUME TypeOK, SupportInv, OperationInv, Next PROVE WeightMove
  OBVIOUS
<1> USE DEF WeightMove
<1>0. weight \in 0..100
  BY DEF TypeOK, Full
<1>1. CASE StandbyFromFault
  BY <1>1 DEF StandbyFromFault
<1>2. CASE RaiseM1M3
  BY <1>2 DEF RaiseM1M3, SupportInv, RestingWhenParked, ParkedStates
<1>3. CASE LowerM1M3
  BY <1>3 DEF LowerM1M3, SupportInv, SupportedWhenRaised, RaisedStates
<1>4. CASE RaisingUpdate
  BY <1>4, RaiseRunLoopEffect DEF RaisingUpdate
<1>5. CASE RaiseCompletes
  <2>1. PICK h \in RaiseRunLoop : h.weight >= Full
    BY <1>5 DEF RaiseCompletes
  <2>2. h.weight = Full
    BY <2>1, RaiseRunLoopEffect DEF Full
  <2> QED BY <1>5, <2>2, RaiseRunLoopEffect DEF RaiseCompletes, Full
<1>6. CASE LoweringUpdate
  BY <1>6, LowerRunLoopEffect DEF LoweringUpdate
<1>7. CASE LowerCompletes
  <2>1. PICK h \in LowerRunLoop : h.weight <= 0
    BY <1>7 DEF LowerCompletes
  <2>2. h.weight = 0
    BY <2>1, LowerRunLoopEffect
  <2> QED BY <1>7, <2>2, LowerRunLoopEffect DEF LowerCompletes
<1>8. CASE PausedUpdate
  <2>1. PICK h \in RaiseRunLoop : weight' = h.weight
    BY <1>8 DEF PausedUpdate
  <2> QED BY <1>8, <2>1, RaiseRunLoopEffect DEF PausedUpdate, OperationInv,
           PauseFlagsAgree
<1>9. CASE UpdateThrows
  <2>1. CASE state \in PausedRaisingStates
    BY <1>9, <2>1, RaiseRunLoopEffect DEF UpdateThrows, OperationInv, PauseFlagsAgree,
           RaisingStates, PausedRaisingStates, PausedLoweringStates, LoweringStates, ParkedStates
  <2>2. CASE state \in RaisingStates \cup PausedLoweringStates
    BY <1>9, <2>2, RaiseRunLoopEffect DEF UpdateThrows,
       RaisingStates, PausedRaisingStates, PausedLoweringStates, LoweringStates, ParkedStates
  <2>3. CASE state \in LoweringStates
    BY <1>9, <2>3, LowerRunLoopEffect DEF UpdateThrows,
       RaisingStates, PausedRaisingStates, PausedLoweringStates, LoweringStates, ParkedStates
  <2>4. CASE state \notin OperationStates
    BY <1>9, <2>4 DEF UpdateThrows, OperationStates
  <2> QED BY <2>1, <2>2, <2>3, <2>4 DEF OperationStates
<1>10. CASE Start \/ StartThrows
  BY <1>10 DEF Start, StartThrows, LoadSettings
<1>11. CASE Tick \/ EnterControl \/ ExitControl \/ Panic \/
        Enable \/ EnableThrows \/ StandbyFromDisabled \/ StandbyThrows \/
        Disable \/ DisableThrows \/ DisableEngineering \/ DisableEngineeringThrows \/
        EnterEngineering \/ ExitEngineeringParked \/ ExitEngineeringActive \/ MoveHardpoints \/
        OffsetForces \/ AirValve \/ AuxPower \/ ForceComponents \/
        SlewFlag \/ OtherCommand \/ StartTest \/ KillTest \/
        RunMirrorForceProfile \/ AbortProfile \/ AbortRaise \/ PauseRaising \/
        PauseLowering \/ ResumeRaising \/ ResumeLowering \/ DisabledUpdate \/
        LoweringFaultUpdate \/ FaultUpdate \/ SteadyUpdate \/ ParkedEngineeringUpdate \/
        ProfileUpdate \/ DisabledUpdateThrows \/ LoweringFaultUpdateThrows
  BY <1>11
     DEF mirror, ModeChangeThrows, Tick, EnterControl, ExitControl, Panic, Enable,
            EnableThrows, StandbyFromDisabled, StandbyThrows, Disable, DisableThrows,
            DisableEngineering, DisableEngineeringThrows, EnterEngineering,
            ExitEngineeringParked, ExitEngineeringActive, MoveHardpoints, OffsetForces,
            AirValve, AuxPower, ForceComponents, SlewFlag, OtherCommand, StartTest,
            KillTest, RunMirrorForceProfile, AbortProfile, AbortRaise, PauseRaising,
            PauseLowering, ResumeRaising, ResumeLowering, DisabledUpdate,
            LoweringFaultUpdate, FaultUpdate, SteadyUpdate, ParkedEngineeringUpdate,
            ProfileUpdate, DisabledUpdateThrows, LoweringFaultUpdateThrows
<1> QED BY <1>1, <1>2, <1>3, <1>4, <1>5, <1>6, <1>7, <1>8, <1>9, <1>10, <1>11 DEF Next,
         Command, UpdateSucceeds, UpdateFails

\* Where a step may lead.
StateMove ==
  \/ state' = state
  \/ state \in EnabledStates /\ state' \in EnabledStates \cup {"LoweringFault"}
  \/ state \in ParkedStates /\ state' = "Disabled"
  \/ state = "Disabled" /\ state' \in {"Parked", "Standby", "LoweringFault"}
  \/ state = "Offline" /\ state' = "Standby"
  \/ state = "Standby" /\ state' \in {"Offline", "Disabled", "LoweringFault"}
  \/ state \in FaultStates /\ state' = "Fault"
  \/ state \in FaultStates /\ state' = "Standby" /\ weight' = 0

\* Every step makes one of these moves.
LEMMA StateStep == Next => StateMove
<1> SUFFICES ASSUME Next PROVE StateMove
  OBVIOUS
<1> USE DEF StateMove, CheckSafety, FaultStates, ParkedStates, EnabledStates,
       OperationStates, RaisedStates, RaisingStates, LoweringStates, PausedRaisingStates,
       PausedLoweringStates
<1>1. CASE Tick
  BY <1>1 DEF Tick
<1>2. CASE EnterControl
  BY <1>2 DEF EnterControl
<1>3. CASE ExitControl
  BY <1>3 DEF ExitControl
<1>4. CASE Start
  BY <1>4 DEF Start
<1>5. CASE StartThrows
  BY <1>5 DEF StartThrows
<1>6. CASE Panic
  BY <1>6 DEF Panic
<1>7. CASE Enable
  BY <1>7 DEF Enable
<1>8. CASE EnableThrows
  BY <1>8 DEF EnableThrows, ModeChangeThrows
<1>9. CASE StandbyFromDisabled
  BY <1>9 DEF StandbyFromDisabled
<1>10. CASE StandbyFromFault
  BY <1>10 DEF StandbyFromFault
<1>11. CASE StandbyThrows
  BY <1>11 DEF StandbyThrows, ModeChangeThrows
<1>12. CASE Disable
  BY <1>12 DEF Disable
<1>13. CASE DisableThrows
  BY <1>13 DEF DisableThrows, ModeChangeThrows
<1>14. CASE DisableEngineering
  BY <1>14 DEF DisableEngineering
<1>15. CASE DisableEngineeringThrows
  BY <1>15 DEF DisableEngineeringThrows
<1>16. CASE EnterEngineering
  BY <1>16 DEF EnterEngineering
<1>17. CASE ExitEngineeringParked
  BY <1>17 DEF ExitEngineeringParked
<1>18. CASE ExitEngineeringActive
  BY <1>18 DEF ExitEngineeringActive
<1>19. CASE MoveHardpoints
  BY <1>19 DEF MoveHardpoints, EngineeringStates
<1>20. CASE OffsetForces
  BY <1>20 DEF OffsetForces, EngineeringStates
<1>21. CASE AirValve
  BY <1>21 DEF AirValve, EngineeringStates
<1>22. CASE AuxPower
  BY <1>22 DEF AuxPower, EngineeringStates
<1>23. CASE ForceComponents
  BY <1>23 DEF ForceComponents
<1>24. CASE SlewFlag
  BY <1>24 DEF SlewFlag
<1>25. CASE OtherCommand
  BY <1>25 DEF OtherCommand
<1>26. CASE StartTest
  BY <1>26 DEF StartTest
<1>27. CASE KillTest
  BY <1>27 DEF KillTest
<1>28. CASE RunMirrorForceProfile
  BY <1>28 DEF RunMirrorForceProfile
<1>29. CASE AbortProfile
  BY <1>29 DEF AbortProfile
<1>30. CASE RaiseM1M3
  BY <1>30 DEF RaiseM1M3
<1>31. CASE AbortRaise
  BY <1>31 DEF AbortRaise
<1>32. CASE LowerM1M3
  BY <1>32 DEF LowerM1M3
<1>33. CASE PauseRaising
  BY <1>33 DEF PauseRaising
<1>34. CASE PauseLowering
  BY <1>34 DEF PauseLowering
<1>35. CASE ResumeRaising
  BY <1>35 DEF ResumeRaising
<1>36. CASE ResumeLowering
  BY <1>36 DEF ResumeLowering
<1>37. CASE DisabledUpdate
  BY <1>37 DEF DisabledUpdate
<1>38. CASE LoweringFaultUpdate
  BY <1>38 DEF LoweringFaultUpdate
<1>39. CASE FaultUpdate
  BY <1>39 DEF FaultUpdate
<1>40. CASE RaisingUpdate
  BY <1>40 DEF RaisingUpdate
<1>41. CASE RaiseCompletes
  BY <1>41 DEF RaiseCompletes
<1>42. CASE LoweringUpdate
  BY <1>42 DEF LoweringUpdate
<1>43. CASE LowerCompletes
  BY <1>43 DEF LowerCompletes
<1>44. CASE PausedUpdate
  BY <1>44 DEF PausedUpdate
<1>45. CASE SteadyUpdate
  BY <1>45 DEF SteadyUpdate
<1>46. CASE ParkedEngineeringUpdate
  BY <1>46 DEF ParkedEngineeringUpdate
<1>47. CASE ProfileUpdate
  BY <1>47 DEF ProfileUpdate
<1>48. CASE UpdateThrows
  BY <1>48 DEF UpdateThrows
<1>49. CASE DisabledUpdateThrows
  BY <1>49 DEF DisabledUpdateThrows
<1>50. CASE LoweringFaultUpdateThrows
  BY <1>50 DEF LoweringFaultUpdateThrows
<1> QED BY <1>1, <1>2, <1>3, <1>4, <1>5, <1>6, <1>7, <1>8, <1>9, <1>10, <1>11, <1>12,
         <1>13, <1>14, <1>15, <1>16, <1>17, <1>18, <1>19, <1>20, <1>21, <1>22, <1>23,
         <1>24, <1>25, <1>26, <1>27, <1>28, <1>29, <1>30, <1>31, <1>32, <1>33, <1>34,
         <1>35, <1>36, <1>37, <1>38, <1>39, <1>40, <1>41, <1>42, <1>43, <1>44, <1>45,
         <1>46, <1>47, <1>48, <1>49, <1>50 DEF Next, Command, UpdateSucceeds, UpdateFails

\* Every step is a step of MirrorSupport or leaves what is published unchanged.
LEMMA RefinementStep ==
  TypeOK /\ SupportInv /\ OperationInv /\ Next
    => Support!Next \/ UNCHANGED <<SummaryState, weight>>
<1> SUFFICES ASSUME TypeOK, SupportInv, OperationInv, Next
             PROVE  Support!Next \/ UNCHANGED <<SummaryState, weight>>
  OBVIOUS
<1> USE DEF EnabledStates, OperationStates, RaisedStates, ParkedStates, FaultStates,
       RaisingStates,
       LoweringStates, PausedRaisingStates, PausedLoweringStates
<1>1. WeightMove /\ StateMove
  BY WeightStep, StateStep
<1>2. weight \in 0..100
  BY DEF TypeOK, Full
<1>3. CASE state \in EnabledStates /\ state' \in EnabledStates \cup {"LoweringFault"}
  <2>1. SummaryState = "Enabled" /\ SummaryState' \in {"Enabled", "Fault"}
    BY <1>3 DEF SummaryState
  <2>2. Support!Within(weight')
    BY <1>1, <1>2, <1>3, SettingsAssumption DEF WeightMove, Support!Within
  <2> QED BY <2>1, <2>2 DEF Support!Transfer, Support!Next
<1>4. CASE state \in ParkedStates /\ state' = "Disabled"
  <2>1. SummaryState = "Enabled" /\ SummaryState' = "Disabled"
    BY <1>4 DEF SummaryState
  <2>2. weight = 0 /\ weight' = 0
    BY <1>1, <1>4 DEF WeightMove, SupportInv, RestingWhenParked
  <2> QED BY <2>1, <2>2 DEF Support!Disable, Support!Resting, Support!Next
<1>5. CASE state = "Disabled" /\ state' \in {"Parked", "Standby", "LoweringFault"}
  <2>1. SummaryState = "Disabled" /\ SummaryState' \in {"Enabled", "Standby", "Fault"}
    BY <1>5 DEF SummaryState
  <2>2. weight = 0 /\ weight' = 0
    BY <1>1, <1>5 DEF WeightMove, SupportInv, RestingWhenParked
  <2> QED BY <2>1, <2>2 DEF Support!Enable, Support!Standby, Support!FaultWhileDisabled,
                          Support!Resting, Support!Next
<1>6. CASE state = "Offline" /\ state' = "Standby"
  <2>1. SummaryState = "Offline" /\ SummaryState' = "Standby"
    BY <1>6 DEF SummaryState
  <2>2. weight = 0 /\ weight' = 0
    BY <1>1, <1>6 DEF WeightMove, SupportInv, RestingWhenParked
  <2> QED BY <2>1, <2>2 DEF Support!EnterControl, Support!Resting, Support!Next
<1>7. CASE state = "Standby" /\ state' \in {"Offline", "Disabled", "LoweringFault"}
  <2>1. SummaryState = "Standby" /\ SummaryState' \in {"Offline", "Disabled", "Fault"}
    BY <1>7 DEF SummaryState
  <2>2. weight = 0 /\ weight' = 0
    BY <1>1, <1>7 DEF WeightMove, SupportInv, RestingWhenParked
  <2> QED BY <2>1, <2>2 DEF Support!ExitControl, Support!Start, Support!Resting,
           Support!Next
<1>8. CASE state \in FaultStates /\ state' = "Standby"
  <2>1. SummaryState = "Fault" /\ SummaryState' = "Standby"
    BY <1>8 DEF SummaryState
  <2>2. weight' = 0
    BY <1>1, <1>8 DEF StateMove
  <2> QED BY <2>1, <2>2 DEF Support!Recover, Support!Next
<1>9. CASE state' = state \/ (state \in FaultStates /\ state' = "Fault")
  <2>1. SummaryState' = SummaryState
    BY <1>9 DEF SummaryState
  <2>2. CASE state \in EnabledStates
    BY <1>3, <1>9, <2>2
  <2>3. CASE state \notin EnabledStates
    BY <1>1, <1>9, <2>1, <2>3 DEF WeightMove
  <2> QED BY <2>2, <2>3
<1> QED BY <1>1, <1>3, <1>4, <1>5, <1>6, <1>7, <1>8, <1>9 DEF StateMove

\* A step that leaves a supervised state with a fault latched leads to LoweringFault.
LEMMA PreemptStep ==
  /\ Next
  /\ state \in EnabledStates \cup {"Disabled"} /\ errorCode \in Faults /\ state' # state
  => state' = "LoweringFault"
<1> SUFFICES ASSUME Next, state \in EnabledStates \cup {"Disabled"}, errorCode \in Faults,
                    state' # state
             PROVE  state' = "LoweringFault"
  OBVIOUS
<1> USE DEF CheckSafety, Detect, Latch, Faults, FaultStates, ParkedStates, EnabledStates,
            OperationStates, RaisedStates, RaisingStates, LoweringStates, PausedRaisingStates,
            PausedLoweringStates
<1>1. CASE Tick
  BY <1>1 DEF Tick
<1>2. CASE EnterControl
  BY <1>2 DEF EnterControl
<1>3. CASE ExitControl
  BY <1>3 DEF ExitControl
<1>4. CASE Start
  BY <1>4 DEF Start
<1>5. CASE StartThrows
  BY <1>5 DEF StartThrows
<1>6. CASE Panic
  BY <1>6 DEF Panic
<1>7. CASE Enable
  BY <1>7 DEF Enable
<1>8. CASE EnableThrows
  BY <1>8 DEF EnableThrows, ModeChangeThrows
<1>9. CASE StandbyFromDisabled
  BY <1>9 DEF StandbyFromDisabled
<1>10. CASE StandbyFromFault
  BY <1>10 DEF StandbyFromFault
<1>11. CASE StandbyThrows
  BY <1>11 DEF StandbyThrows, ModeChangeThrows
<1>12. CASE Disable
  BY <1>12 DEF Disable
<1>13. CASE DisableThrows
  BY <1>13 DEF DisableThrows, ModeChangeThrows
<1>14. CASE DisableEngineering
  BY <1>14 DEF DisableEngineering
<1>15. CASE DisableEngineeringThrows
  BY <1>15 DEF DisableEngineeringThrows
<1>16. CASE EnterEngineering
  BY <1>16 DEF EnterEngineering
<1>17. CASE ExitEngineeringParked
  BY <1>17 DEF ExitEngineeringParked
<1>18. CASE ExitEngineeringActive
  BY <1>18 DEF ExitEngineeringActive
<1>19. CASE MoveHardpoints
  BY <1>19 DEF MoveHardpoints, EngineeringStates
<1>20. CASE OffsetForces
  BY <1>20 DEF OffsetForces, EngineeringStates
<1>21. CASE AirValve
  BY <1>21 DEF AirValve, EngineeringStates
<1>22. CASE AuxPower
  BY <1>22 DEF AuxPower, EngineeringStates
<1>23. CASE ForceComponents
  BY <1>23 DEF ForceComponents
<1>24. CASE SlewFlag
  BY <1>24 DEF SlewFlag
<1>25. CASE OtherCommand
  BY <1>25 DEF OtherCommand
<1>26. CASE StartTest
  BY <1>26 DEF StartTest
<1>27. CASE KillTest
  BY <1>27 DEF KillTest
<1>28. CASE RunMirrorForceProfile
  BY <1>28 DEF RunMirrorForceProfile
<1>29. CASE AbortProfile
  BY <1>29 DEF AbortProfile
<1>30. CASE RaiseM1M3
  BY <1>30 DEF RaiseM1M3
<1>31. CASE AbortRaise
  BY <1>31 DEF AbortRaise
<1>32. CASE LowerM1M3
  BY <1>32 DEF LowerM1M3
<1>33. CASE PauseRaising
  BY <1>33 DEF PauseRaising
<1>34. CASE PauseLowering
  BY <1>34 DEF PauseLowering
<1>35. CASE ResumeRaising
  BY <1>35 DEF ResumeRaising
<1>36. CASE ResumeLowering
  BY <1>36 DEF ResumeLowering
<1>37. CASE DisabledUpdate
  BY <1>37 DEF DisabledUpdate
<1>38. CASE LoweringFaultUpdate
  BY <1>38 DEF LoweringFaultUpdate
<1>39. CASE FaultUpdate
  BY <1>39 DEF FaultUpdate
<1>40. CASE RaisingUpdate
  BY <1>40 DEF RaisingUpdate
<1>41. CASE RaiseCompletes
  BY <1>41 DEF RaiseCompletes
<1>42. CASE LoweringUpdate
  BY <1>42 DEF LoweringUpdate
<1>43. CASE LowerCompletes
  BY <1>43 DEF LowerCompletes
<1>44. CASE PausedUpdate
  BY <1>44 DEF PausedUpdate
<1>45. CASE SteadyUpdate
  BY <1>45 DEF SteadyUpdate
<1>46. CASE ParkedEngineeringUpdate
  BY <1>46 DEF ParkedEngineeringUpdate
<1>47. CASE ProfileUpdate
  BY <1>47 DEF ProfileUpdate
<1>48. CASE UpdateThrows
  BY <1>48 DEF UpdateThrows
<1>49. CASE DisabledUpdateThrows
  BY <1>49 DEF DisabledUpdateThrows
<1>50. CASE LoweringFaultUpdateThrows
  BY <1>50 DEF LoweringFaultUpdateThrows
<1> QED BY <1>1, <1>2, <1>3, <1>4, <1>5, <1>6, <1>7, <1>8, <1>9, <1>10, <1>11, <1>12,
            <1>13, <1>14, <1>15, <1>16, <1>17, <1>18, <1>19, <1>20, <1>21, <1>22, <1>23,
            <1>24, <1>25, <1>26, <1>27, <1>28, <1>29, <1>30, <1>31, <1>32, <1>33, <1>34,
            <1>35, <1>36, <1>37, <1>38, <1>39, <1>40, <1>41, <1>42, <1>43, <1>44, <1>45,
            <1>46, <1>47, <1>48, <1>49, <1>50
         DEF Next, Command, UpdateSucceeds, UpdateFails

----------------------------------------------------------------------------
(* The theorems. *)

\* Outside the fault states the weight never changes by more than an increment or a
\* decrement.
THEOREM LoadMovesInSteps == Spec => NoWeightJump
<1> DEFINE Bounded == state \notin FaultStates =>
                        weight' - weight <= RaiseIncrement /\ weight - weight' <= LowerDecrement
<1>1. Inductive /\ [Next]_vars => [Bounded]_vars
  <2> SUFFICES ASSUME Inductive, Next PROVE Bounded
    OBVIOUS
  <2>1. WeightMove
    BY WeightStep DEF Inductive
  <2>2. weight \in 0..100
    BY DEF Inductive, TypeOK, Full
  <2> QED BY <2>1, <2>2, SettingsAssumption DEF WeightMove
<1> QED BY <1>1, Invariance, PTL DEF Spec, NoWeightJump

\* The actuators take load only in the raising and the paused lowering states, and
\* give it back only in the lowering and the fault states.
THEOREM LoadFollowsState == Spec => WeightFollowsState
<1> DEFINE Follows == /\ weight' > weight => state \in RaisingStates \cup PausedLoweringStates
                      /\ weight' < weight => state \in LoweringStates \cup FaultStates
<1>1. Inductive /\ [Next]_vars => [Follows]_vars
  <2> SUFFICES ASSUME Inductive, Next PROVE Follows
    OBVIOUS
  <2>1. WeightMove
    BY WeightStep DEF Inductive
  <2>2. weight \in 0..100
    BY DEF Inductive, TypeOK, Full
  <2> QED BY <2>1, <2>2 DEF WeightMove
<1> QED BY <1>1, Invariance, PTL DEF Spec, WeightFollowsState

\* No command and no update carries a latched fault into another state than
\* LoweringFault.
THEOREM FaultsPreempt == Spec => FaultPreemptsCommands
<1> DEFINE Preempts == (/\ state \in EnabledStates \cup {"Disabled"}
                        /\ errorCode \in Faults
                        /\ state' # state)
                       => state' = "LoweringFault"
<1>1. [Next]_vars => [Preempts]_vars
  BY PreemptStep
<1> QED BY <1>1, PTL DEF Spec, FaultPreemptsCommands

\* What the support system publishes behaves as MirrorSupport promises.
THEOREM Refinement == Spec => ImplementsMirrorSupport
<1>1. Init => Support!Init
  BY DEF Init, Support!Init, SummaryState, EnabledStates, OperationStates, RaisedStates,
         ParkedStates, FaultStates, RaisingStates, LoweringStates, PausedRaisingStates,
         PausedLoweringStates
<1>2. Inductive /\ [Next]_vars => [Support!Next]_<<SummaryState, weight>>
  <2>1. CASE Next
    BY <2>1, RefinementStep DEF Inductive
  <2>2. CASE UNCHANGED vars
    BY <2>2 DEF vars, SummaryState
  <2> QED BY <2>1, <2>2
<1> QED BY <1>1, <1>2, Invariance, PTL DEF Spec, ImplementsMirrorSupport, Support!Spec

=============================================================================
