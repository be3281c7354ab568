--------------------------- MODULE BumpTestProofs ---------------------------
(***************************************************************************)
(* Proofs about BumpTest, for every number of actuators, every table of    *)
(* neighbours and all times and capacities that BumpTestAssumption admits. *)
(***************************************************************************)
EXTENDS BumpTest, TLAPS

----------------------------------------------------------------------------
(* The inductive invariant. *)

\* Before the first start and in Standby no force is left, and before the first start no test.
QuietBeforeStart ==
  /\ mode \in {"Fresh", "Standby"} => \A ax \in Axes : offset[ax] = 0
  /\ mode = "Fresh" => \A ax \in Axes : ~IsTested(ax)

\* Out of engineering the only tests are those a fault interrupted in an earlier session.
OnlyLeftovers ==
  mode = "Enabled" => \A ax \in Axes : IsTested(ax) => ax[1] \in restarted /\ ax \notin clean

\* A test that nobody restarted has taken a sample for every cycle of its time.
SamplesFollowTime ==
  mode = "ParkedEngineering" =>
    \A ax \in clean : IsTested(ax) => \/ same[ax[1]] = Capacity
                                      \/ same[ax[1]] + timer[ax[1]] >= Settle

Inductive ==
  BumpInv /\ SilencedWhileTesting /\ QuietBeforeStart /\ OnlyLeftovers /\ SamplesFollowTime

----------------------------------------------------------------------------
(* Axes and the results of a pass. *)

\* An axis belongs to an actuator, and an actuator is under test with any of its axes.
LEMMA AxisFacts ==
  ASSUME NEW ax \in Axes
  PROVE  /\ ax[1] \in Actuators /\ ax \in AxesOf(ax[1])
         /\ IsTested(ax) => UnderTest(ax[1])
<1>1. ax[1] \in Actuators
  BY BumpTestAssumption DEF Axes
<1>2. ax \in AxesOf(ax[1])
  BY DEF AxesOf
<1> QED BY <1>1, <1>2 DEF UnderTest

\* What a pass measures: a result for every axis, and one that tells something exactly when
\* all samples were taken in the same stages.
LEMMA MeasuredFacts ==
  ASSUME NEW r \in Measured
  PROVE  /\ r \in [Axes -> Results]
         /\ \A ax \in Axes : Sampled[ax[1]] = Capacity => r[ax] # "none"
<1>1. PICK bad, fair : r = Outcome(Known, bad, fair)
  BY DEF Measured
<1>2. ASSUME NEW ax \in Axes
      PROVE  /\ Outcome(Known, bad, fair)[ax] \in Results
             /\ ax \in Known => Outcome(Known, bad, fair)[ax] # "none"
  BY DEF Results, Outcome
<1> QED BY <1>1, <1>2 DEF Outcome, Known

\* The verdicts, steps and forces of a pass have their types.
LEMMA VerdictType ==
  ASSUME TypeOK, NEW ax \in Axes, NEW r \in Measured
  PROVE  Verdict(ax, r) \in Verdicts
<1>1. r[ax] \in Results /\ final[ax] \in Verdicts
  BY MeasuredFacts DEF TypeOK
<1> QED BY <1>1 DEF Verdict, Results, Verdicts

\* A test moves on to another stage of its own, or to its verdict.
LEMMA NextStageType ==
  ASSUME TypeOK, NEW ax \in Axes, NEW r \in Measured, Moves(ax, r)
  PROVE  /\ IsTested(ax)
         /\ NextStage(ax, r) \in Stages
         /\ NextStage(ax, r) \in Verdicts <=> stage[ax] = "TestingNegativeWait"
<1>1. IsTested(ax) /\ stage[ax] \in Running
  BY DEF Moves, IsTested
<1>2. CASE stage[ax] = "TestingNegativeWait"
  BY <1>1, <1>2, VerdictType DEF NextStage, Stages
<1>3. CASE stage[ax] # "TestingNegativeWait"
  BY <1>1, <1>3 DEF NextStage, NextStep, Running, Stages, Verdicts
<1> QED BY <1>1, <1>2, <1>3

\* The force a pass leaves on an axis that moves on: none in a test of cylinders, else the
\* one of the new stage.
LEMMA OffsetFollowsStage ==
  ASSUME NEW ax \in Axes, NEW r
  PROVE  Offset(ax, r) = IF cylinders[ax[1]] THEN offset[ax] ELSE Push(NextStage(ax, r))
BY DEF Offset

LEMMA PushType ==
  ASSUME NEW st
  PROVE  Push(st) \in -1 .. 1 /\ (st \notin Running => Push(st) = 0) /\ Push("Triggered") = 0
BY DEF Push, Running

\* The samples of an actuator are counted up to the capacity.
LEMMA SampledFacts ==
  ASSUME TypeOK, NEW z \in Actuators
  PROVE  /\ Sampled[z] \in 0 .. Capacity
         /\ Sampled[z] = Capacity \/ Sampled[z] = same[z] + 1
         /\ same[z] = Capacity => Sampled[z] = Capacity
<1>1. same[z] \in 0 .. Capacity /\ Capacity \in Nat \ {0}
  BY BumpTestAssumption DEF TypeOK
<1> QED BY <1>1 DEF Sampled

----------------------------------------------------------------------------
(* The initial states. *)

LEMMA InitInductive == Init => Inductive
<1> SUFFICES ASSUME Init PROVE Inductive
  OBVIOUS
<1>1. TypeOK
  <2>1. budget \in [commands : Nat, faults : Nat] /\ Settle \in Nat /\ Capacity \in Nat
    BY BumpTestAssumption DEF Init
  <2>2. queue \in Seq(Commands)
    BY DEF Init
  <2>3. timer \in [Actuators -> 0 .. Settle] /\ same \in [Actuators -> 0 .. Capacity]
    BY <2>1 DEF Init
  <2>4. /\ stage \in [Axes -> Stages] /\ final \in [Axes -> Verdicts]
        /\ result \in [Axes -> Results] /\ offset \in [Axes -> -1 .. 1]
    BY DEF Init, Stages, Verdicts, Results
  <2>5. cylinders \in [Actuators -> BOOLEAN] /\ buffer \in BOOLEAN /\ farCheck \in BOOLEAN
        /\ clean \subseteq Axes /\ restarted \subseteq Actuators /\ mode \in Modes
    BY DEF Init, Modes
  <2> QED BY <2>1, <2>2, <2>3, <2>4, <2>5 DEF TypeOK
<1>2. \A ax \in Axes : ~IsTested(ax) /\ offset[ax] = 0
  BY DEF Init, IsTested, Running
<1> QED BY <1>1, <1>2
        DEF Init, Inductive, BumpInv, ForceMatchesStage, SafeOutsideEngineering, SilencedWhileTesting,
            QuietBeforeStart, OnlyLeftovers, SamplesFollowTime

----------------------------------------------------------------------------
(* One lemma for each action. *)

\* A command takes one from the bound on commands.
LEMMA Spending ==
  ASSUME TypeOK, budget.commands > 0, budget' = [budget EXCEPT !.commands = @ - 1]
  PROVE  budget' \in [commands : Nat, faults : Nat]
<1>1. budget \in [commands : Nat, faults : Nat]
  BY DEF TypeOK
<1> QED BY <1>1

\* What Inductive says does not depend on the queue.
LEMMA RequestKeeps ==
  ASSUME Inductive, Request
  PROVE  Inductive'
<1>1. TypeOK'
  <2>1. PICK c \in Commands : queue' = Append(queue, c)
    BY DEF Request
  <2>4. queue \in Seq(Commands)
    BY DEF Inductive, BumpInv, TypeOK
  <2>2. queue' \in Seq(Commands)
    BY <2>1, <2>4
  <2>3. budget' \in [commands : Nat, faults : Nat]
    BY Spending DEF Request, Inductive, BumpInv
  <2> QED BY <2>2, <2>3 DEF Request, Inductive, BumpInv, TypeOK, history
<1> QED BY <1>1
        DEF Request, Inductive, BumpInv, ForceMatchesStage, SafeOutsideEngineering, SilencedWhileTesting,
            QuietBeforeStart, OnlyLeftovers, SamplesFollowTime, IsTested, history

LEMMA RequestTooEarlyKeeps ==
  ASSUME Inductive, RequestTooEarly
  PROVE  Inductive'
<1>1. TypeOK'
  <2>1. budget' \in [commands : Nat, faults : Nat]
    BY Spending DEF RequestTooEarly, Inductive, BumpInv
  <2> QED BY <2>1 DEF RequestTooEarly, Inductive, BumpInv, TypeOK, Modes, history
<1> QED BY <1>1
        DEF RequestTooEarly, Inductive, BumpInv, ForceMatchesStage, SafeOutsideEngineering,
            SilencedWhileTesting, QuietBeforeStart, OnlyLeftovers, SamplesFollowTime

LEMMA EnterEngineeringKeeps ==
  ASSUME Inductive, EnterEngineering
  PROVE  Inductive'
<1>1. TypeOK'
  BY DEF EnterEngineering, Inductive, BumpInv, TypeOK, Modes, history
<1>2. UNCHANGED <<stage, cylinders, offset, same, timer, farCheck, clean, restarted>>
  BY DEF EnterEngineering, history
<1>3. \A ax \in Axes : offset[ax] = 0 /\ (IsTested(ax) => ax[1] \in restarted /\ ax \notin clean)
  BY DEF EnterEngineering, Inductive, BumpInv, SafeOutsideEngineering, OnlyLeftovers
<1>4. ForceMatchesStage'
  <2> SUFFICES ASSUME NEW ax \in Axes, ax[1] \notin restarted
               PROVE  offset[ax] = IF cylinders[ax[1]] THEN 0 ELSE Push(stage[ax])
    BY <1>2 DEF ForceMatchesStage
  <2>1. Push(stage[ax]) = 0
    BY <1>3, PushType DEF IsTested
  <2> QED BY <1>3, <2>1
<1>5. SilencedWhileTesting' /\ SamplesFollowTime'
  <2>1. \A ax \in clean : ~IsTested(ax)
    BY <1>3 DEF Inductive, BumpInv, TypeOK
  <2> QED BY <1>2, <2>1 DEF SilencedWhileTesting, SamplesFollowTime, IsTested
<1> QED BY <1>1, <1>4, <1>5
        DEF EnterEngineering, Inductive, BumpInv, SafeOutsideEngineering, QuietBeforeStart, OnlyLeftovers

LEMMA FaultKeeps ==
  ASSUME Inductive, Fault
  PROVE  Inductive'
<1>1. TypeOK'
  <2>1. budget' \in [commands : Nat, faults : Nat]
    BY DEF Fault, Inductive, BumpInv, TypeOK
  <2> QED BY <2>1 DEF Fault, Inductive, BumpInv, TypeOK, Modes, history
<1> QED BY <1>1
        DEF Fault, Inductive, BumpInv, ForceMatchesStage, SafeOutsideEngineering, SilencedWhileTesting,
            QuietBeforeStart, OnlyLeftovers, SamplesFollowTime

LEMMA StandbyKeeps ==
  ASSUME Inductive, Standby
  PROVE  Inductive'
<1>1. TypeOK'
  BY BumpTestAssumption DEF Standby, Inductive, BumpInv, TypeOK, Modes, history
<1> QED BY <1>1
        DEF Standby, Inductive, BumpInv, ForceMatchesStage, SafeOutsideEngineering, SilencedWhileTesting,
            QuietBeforeStart, OnlyLeftovers, SamplesFollowTime

LEMMA StartKeeps ==
  ASSUME Inductive, Start
  PROVE  Inductive'
<1>1. TypeOK'
  BY DEF Start, Inductive, BumpInv, TypeOK, Modes
<1>2. \A ax \in Axes : offset[ax] = 0
  BY DEF Start, Inductive, QuietBeforeStart
<1>3. \A ax \in Axes : IsTested(ax) => ax[1] \in restarted'
  BY AxisFacts DEF Start
<1> QED BY <1>1, <1>2, <1>3
        DEF Start, Inductive, BumpInv, ForceMatchesStage, SafeOutsideEngineering, SilencedWhileTesting,
            QuietBeforeStart, OnlyLeftovers, SamplesFollowTime, IsTested

\* A stop leaves neither tests nor forces, or ends the process.
LEMMA StopAllKeeps ==
  ASSUME Inductive, NEW forced \in BOOLEAN, NEW to \in Modes, StopAll(forced, to),
         mode = "ParkedEngineering", to = "ParkedEngineering" \/ (to = "Enabled" /\ forced),
         budget' \in [commands : Nat, faults : Nat], UNCHANGED <<queue, final, result, clean>>
  PROVE  Inductive'
<1>1. /\ \A ax \in Axes : ~IsTested(ax)' /\ stage'[ax] = "NotTested"
      /\ stage' \in [Axes -> Stages] /\ timer' \in [Actuators -> 0 .. Settle]
      /\ cylinders' \in [Actuators -> BOOLEAN] /\ cylinders' = [z \in Actuators |-> FALSE]
  <2>1. stage' = [ax \in Axes |-> "NotTested"] /\ timer' = [z \in Actuators |-> 0]
        /\ cylinders' = [z \in Actuators |-> FALSE]
    BY DEF StopAll, Stop
  <2> QED BY <2>1, BumpTestAssumption DEF IsTested, Running, Stages
<1>2. CASE buffer
  <2>1. /\ mode' = to /\ buffer' = FALSE /\ same' = [z \in Actuators |-> 0]
        /\ offset' = [ax \in Axes |-> 0] /\ farCheck' = (farCheck \/ forced) /\ restarted' = {}
    BY <1>2 DEF StopAll, Stop
  <2>2. TypeOK'
    <3>1. TypeOK
      BY DEF Inductive, BumpInv
    <3>2. farCheck' \in BOOLEAN /\ mode' \in Modes
      BY <2>1, <3>1 DEF TypeOK
    <3>3. same' \in [Actuators -> 0 .. Capacity] /\ offset' \in [Axes -> -1 .. 1]
      BY <2>1, BumpTestAssumption
    <3> QED BY <1>1, <2>1, <3>1, <3>2, <3>3 DEF TypeOK
  <2>3. ForceMatchesStage' /\ SafeOutsideEngineering'
    BY <1>1, <2>1, AxisFacts, PushType DEF ForceMatchesStage, SafeOutsideEngineering, Running
  <2>4. SilencedWhileTesting' /\ QuietBeforeStart' /\ OnlyLeftovers' /\ SamplesFollowTime'
    <3>1. clean' \subseteq Axes
      BY <2>2 DEF TypeOK
    <3> QED BY <1>1, <2>1, <3>1
            DEF SilencedWhileTesting, QuietBeforeStart, OnlyLeftovers, SamplesFollowTime
  <2> QED BY <2>2, <2>3, <2>4 DEF Inductive, BumpInv
<1>3. CASE ~buffer
  <2>1. mode' = "Crashed" /\ UNCHANGED <<buffer, same, offset, farCheck, restarted>>
    BY <1>3 DEF StopAll
  <2>2. TypeOK'
    BY <1>1, <2>1 DEF Inductive, BumpInv, TypeOK, Modes
  <2> QED BY <2>1, <2>2
          DEF Inductive, BumpInv, ForceMatchesStage, SafeOutsideEngineering, SilencedWhileTesting,
              QuietBeforeStart, OnlyLeftovers, SamplesFollowTime
<1> QED BY <1>2, <1>3

LEMMA KillKeeps ==
  ASSUME Inductive, Kill
  PROVE  Inductive'
<1>1. budget' \in [commands : Nat, faults : Nat]
  BY Spending DEF Kill, Inductive, BumpInv
<1> QED BY <1>1, StopAllKeeps DEF Kill, Modes

LEMMA LeaveKeeps ==
  ASSUME Inductive, Leave
  PROVE  Inductive'
<1>1. budget' \in [commands : Nat, faults : Nat]
  BY Spending DEF Leave, Inductive, BumpInv
<1> QED BY <1>1, StopAllKeeps DEF Leave, Modes

\* Starting a test leaves the others alone.  An actuator that is not under test has no force
\* on it, unless an earlier test was restarted.
LEMMA SetBumpTestActuatorKeeps ==
  ASSUME Inductive, mode = "ParkedEngineering", NEW c \in Commands, SetBumpTestActuator(c),
         queue' \in Seq(Commands), UNCHANGED <<mode, buffer, result, offset, budget>>
  PROVE  Inductive'
<1> DEFINE z == c.z
           wanted == {<<z, a>> : a \in c.axes}
           axes == wanted \cap Axes
           throws == wanted # axes
<1>1. z \in Actuators /\ c.cylinders \in BOOLEAN /\ axes \subseteq Axes /\ \A ax \in axes : ax[1] = z
  BY BumpTestAssumption
<1>2. /\ farCheck' = FALSE
      /\ timer' = [timer EXCEPT ![z] = Settle]
      /\ cylinders' = [cylinders EXCEPT ![z] = c.cylinders]
      /\ final' = [ax \in Axes |-> IF ax \in axes THEN "Passed" ELSE final[ax]]
      /\ stage' = [ax \in Axes |-> IF ax \in axes /\ ~throws THEN "Triggered" ELSE stage[ax]]
      /\ same' = IF stage' = stage THEN same ELSE [same EXCEPT ![z] = 0]
      /\ clean' = IF UnderTest(z) THEN clean \ AxesOf(z) ELSE IF throws THEN clean ELSE clean \cup axes
      /\ restarted' = IF UnderTest(z) THEN restarted \cup {z} ELSE restarted
  BY DEF SetBumpTestActuator
<1>t. TypeOK
  BY DEF Inductive, BumpInv
<1> HIDE DEF z, axes, throws
<1>3. TypeOK'
  <2>1. timer' \in [Actuators -> 0 .. Settle] /\ cylinders' \in [Actuators -> BOOLEAN]
        /\ same' \in [Actuators -> 0 .. Capacity]
    BY <1>1, <1>2, <1>t, BumpTestAssumption DEF TypeOK
  <2>2. stage' \in [Axes -> Stages] /\ final' \in [Axes -> Verdicts]
    BY <1>2, <1>t DEF TypeOK, Stages, Running, Verdicts
  <2>3. clean' \subseteq Axes /\ restarted' \subseteq Actuators
    BY <1>1, <1>2, <1>t DEF TypeOK
  <2> QED BY <1>2, <1>t, <2>1, <2>2, <2>3 DEF TypeOK
<1>4. ASSUME NEW ax \in Axes, ax \notin axes \/ throws
      PROVE  stage'[ax] = stage[ax]
  BY <1>2, <1>4, <1>t DEF TypeOK
<1>5. ForceMatchesStage'
  <2> SUFFICES ASSUME NEW ax \in Axes, ax[1] \notin restarted'
               PROVE  offset[ax] = IF cylinders'[ax[1]] THEN 0 ELSE Push(stage'[ax])
    BY DEF ForceMatchesStage
  <2>1. ax[1] \notin restarted /\ offset[ax] = IF cylinders[ax[1]] THEN 0 ELSE Push(stage[ax])
    BY <1>2 DEF Inductive, BumpInv, ForceMatchesStage
  <2>2. CASE ax[1] # z
    <3>1. stage'[ax] = stage[ax]
      BY <1>1, <1>4, <2>2
    <3>2. cylinders'[ax[1]] = cylinders[ax[1]]
      BY <1>1, <1>2, <1>t, <2>2, AxisFacts DEF TypeOK
    <3> QED BY <2>1, <3>1, <3>2
  <2>3. CASE ax[1] = z
    <3>1. ~IsTested(ax)
      BY <1>2, <2>3, AxisFacts
    <3>2. offset[ax] = 0
      BY <2>1, <3>1, PushType DEF IsTested
    <3>3. stage'[ax] \in {stage[ax], "Triggered"}
      BY <1>2
    <3> QED BY <3>1, <3>2, <3>3, PushType DEF IsTested
  <2> QED BY <2>2, <2>3
<1>6. SamplesFollowTime'
  <2> SUFFICES ASSUME NEW ax \in clean', IsTested(ax)'
               PROVE  same'[ax[1]] = Capacity \/ same'[ax[1]] + timer'[ax[1]] >= Settle
    BY DEF SamplesFollowTime
  <2>1. ax \in Axes /\ ax[1] \in Actuators
    BY <1>3, AxisFacts DEF TypeOK
  <2>2. CASE ax[1] # z
    <3>1. ax \in clean /\ IsTested(ax)
      BY <1>1, <1>2, <1>4, <2>1, <2>2 DEF IsTested
    <3>2. same'[ax[1]] = same[ax[1]] /\ timer'[ax[1]] = timer[ax[1]]
      BY <1>1, <1>2, <1>t, <2>1, <2>2 DEF TypeOK
    <3> QED BY <3>1, <3>2 DEF Inductive, SamplesFollowTime
  <2>3. CASE ax[1] = z
    <3>1. timer'[z] = Settle /\ same'[z] \in 0 .. Capacity /\ Settle \in Nat
      BY <1>1, <1>2, <1>3, <1>t, BumpTestAssumption DEF TypeOK
    <3> QED BY <2>3, <3>1
  <2> QED BY <2>2, <2>3
<1>7. SilencedWhileTesting' /\ SafeOutsideEngineering' /\ QuietBeforeStart' /\ OnlyLeftovers'
  BY <1>2 DEF SilencedWhileTesting, SafeOutsideEngineering, QuietBeforeStart, OnlyLeftovers
<1> QED BY <1>3, <1>5, <1>6, <1>7 DEF Inductive, BumpInv

LEMMA ExecuteKeeps ==
  ASSUME Inductive, Execute
  PROVE  Inductive'
<1>1. queue \in Seq(Commands) /\ queue # <<>>
  BY DEF Execute, Inductive, BumpInv, TypeOK
<1>2. queue' \in Seq(Commands) /\ Head(queue) \in Commands
  BY <1>1 DEF Execute
<1>3. CASE mode = "ParkedEngineering"
  BY <1>2, <1>3, SetBumpTestActuatorKeeps DEF Execute
<1>4. CASE mode # "ParkedEngineering"
  <2>1. UNCHANGED <<stage, final, timer, cylinders, same, farCheck, clean, restarted, mode, buffer,
                    result, offset, budget>>
    BY <1>4 DEF Execute, history
  <2> QED BY <1>2, <2>1
          DEF Inductive, BumpInv, TypeOK, ForceMatchesStage, SafeOutsideEngineering, SilencedWhileTesting,
              QuietBeforeStart, OnlyLeftovers, SamplesFollowTime, IsTested
<1> QED BY <1>3, <1>4

----------------------------------------------------------------------------
(* A pass of runLoop. *)

\* What a pass does, with the results r.
PassOver(r) ==
  LET moving == {ax \in Axes : Moves(ax, r)}
      moved == {ax[1] : ax \in moving}
  IN /\ result' = r
     /\ stage' = [ax \in Axes |-> IF ax \in moving THEN NextStage(ax, r) ELSE stage[ax]]
     /\ final' = [ax \in Axes |-> IF ax \in moving THEN Verdict(ax, r) ELSE final[ax]]
     /\ offset' = [ax \in Axes |-> IF ax \in moving THEN Offset(ax, r) ELSE offset[ax]]
     /\ timer' = [z \in Actuators |-> IF z \in moved THEN Settle
                                      ELSE IF Due(z) THEN 0 ELSE timer[z] - 1]
     /\ same' = [z \in Actuators |-> IF z \in moved THEN 0 ELSE Sampled[z]]

LEMMA CycleIsAPass ==
  ASSUME Cycle
  PROVE  \E r \in Measured : PassOver(r)
BY DEF Cycle, PassOver

\* After a pass the force on an axis that is not exempt is still the one of its stage.
LEMMA PassMovesForces ==
  ASSUME TypeOK, NEW r \in Measured, PassOver(r), NEW ax \in Axes, cylinders' = cylinders,
         offset[ax] = IF cylinders[ax[1]] THEN 0 ELSE Push(stage[ax])
  PROVE  offset'[ax] = IF cylinders'[ax[1]] THEN 0 ELSE Push(stage'[ax])
<1>1. CASE Moves(ax, r)
  <2>1. stage'[ax] = NextStage(ax, r) /\ offset'[ax] = Offset(ax, r)
    BY <1>1 DEF PassOver
  <2> QED BY <2>1, OffsetFollowsStage
<1>2. CASE ~Moves(ax, r)
  <2>1. stage'[ax] = stage[ax] /\ offset'[ax] = offset[ax]
    BY <1>2 DEF PassOver
  <2> QED BY <2>1
<1> QED BY <1>1, <1>2

\* A test that is still running has moved on and starts its time and its samples anew, or is
\* a cycle and a sample further.
LEMMA PassFollowsTime ==
  ASSUME TypeOK, NEW r \in Measured, PassOver(r), NEW ax \in Axes, IsTested(ax)',
         IsTested(ax) => same[ax[1]] = Capacity \/ same[ax[1]] + timer[ax[1]] >= Settle
  PROVE  same'[ax[1]] = Capacity \/ same'[ax[1]] + timer'[ax[1]] >= Settle
<1> DEFINE z == ax[1]
           moved == {m[1] : m \in {m \in Axes : Moves(m, r)}}
<1>1. z \in Actuators /\ Settle \in Nat \ {0} /\ Capacity \in Nat \ {0}
      /\ same[z] \in 0 .. Capacity /\ timer[z] \in 0 .. Settle
  BY AxisFacts, BumpTestAssumption DEF TypeOK
<1>2. timer'[z] = (IF z \in moved THEN Settle ELSE IF Due(z) THEN 0 ELSE timer[z] - 1)
      /\ same'[z] = (IF z \in moved THEN 0 ELSE Sampled[z])
  BY <1>1 DEF PassOver
<1>3. CASE z \in moved
  BY <1>1, <1>2, <1>3
<1>4. CASE z \notin moved
  <2>1. ~Moves(ax, r)
    BY <1>4
  <2>2. stage'[ax] = stage[ax]
    BY <2>1 DEF PassOver
  <2>3. same[z] = Capacity \/ same[z] + timer[z] >= Settle
    BY <2>2 DEF IsTested
  <2>4. /\ Sampled[z] \in 0 .. Capacity
        /\ Sampled[z] = Capacity \/ Sampled[z] = same[z] + 1
        /\ same[z] = Capacity => Sampled[z] = Capacity
    BY <1>1, SampledFacts
  <2>5. timer'[z] = (IF timer[z] <= 1 THEN 0 ELSE timer[z] - 1) /\ same'[z] = Sampled[z]
    BY <1>2, <1>4 DEF Due
  <2> HIDE DEF z, moved
  <2>6. same'[z] = Capacity \/ same'[z] + timer'[z] >= Settle
    BY <1>1, <2>3, <2>4, <2>5
  <2> QED BY <2>6 DEF z
<1> QED BY <1>3, <1>4

LEMMA CycleKeeps ==
  ASSUME Inductive, Cycle
  PROVE  Inductive'
<1>1. PICK r \in Measured : PassOver(r)
  BY CycleIsAPass
<1>2. mode = "ParkedEngineering" /\ buffer' = TRUE
      /\ UNCHANGED <<mode, queue, cylinders, budget, clean, restarted>>
      /\ farCheck' = (farCheck \/ (Tested = {} /\ Exits))
  BY DEF Cycle, history
<1>t. TypeOK
  BY DEF Inductive, BumpInv
<1>3. TypeOK'
  <2>1. result' \in [Axes -> Results]
    BY <1>1, MeasuredFacts DEF PassOver
  <2>2. stage' \in [Axes -> Stages]
    <3>1. \A ax \in Axes : (IF Moves(ax, r) THEN NextStage(ax, r) ELSE stage[ax]) \in Stages
      BY <1>t, NextStageType DEF TypeOK
    <3> QED BY <1>1, <3>1 DEF PassOver
  <2>3. final' \in [Axes -> Verdicts]
    <3>1. \A ax \in Axes : (IF Moves(ax, r) THEN Verdict(ax, r) ELSE final[ax]) \in Verdicts
      BY <1>t, VerdictType DEF TypeOK
    <3> QED BY <1>1, <3>1 DEF PassOver
  <2>4. offset' \in [Axes -> -1 .. 1]
    <3>1. \A ax \in Axes : (IF Moves(ax, r) THEN Offset(ax, r) ELSE offset[ax]) \in -1 .. 1
      BY <1>t, OffsetFollowsStage, PushType DEF TypeOK
    <3> QED BY <1>1, <3>1 DEF PassOver
  <2>5. timer' \in [Actuators -> 0 .. Settle]
    <3>1. \A z \in Actuators : timer[z] \in 0 .. Settle /\ Settle \in Nat \ {0}
      BY <1>t, BumpTestAssumption DEF TypeOK
    <3>2. \A z \in Actuators : /\ (IF Due(z) THEN 0 ELSE timer[z] - 1) \in 0 .. Settle
                               /\ Settle \in 0 .. Settle
      BY <3>1 DEF Due
    <3> QED BY <1>1, <3>2 DEF PassOver
  <2>6. same' \in [Actuators -> 0 .. Capacity]
    <3>1. \A z \in Actuators : Sampled[z] \in 0 .. Capacity /\ 0 \in 0 .. Capacity
      BY <1>t, SampledFacts, BumpTestAssumption
    <3> QED BY <1>1, <3>1 DEF PassOver
  <2>7. farCheck' \in BOOLEAN
    BY <1>2, <1>t DEF TypeOK
  <2> QED BY <1>2, <1>t, <2>1, <2>2, <2>3, <2>4, <2>5, <2>6, <2>7 DEF TypeOK
<1>4. ForceMatchesStage'
  <2> SUFFICES ASSUME NEW ax \in Axes, ax[1] \notin restarted'
               PROVE  offset'[ax] = IF cylinders'[ax[1]] THEN 0 ELSE Push(stage'[ax])
    BY DEF ForceMatchesStage
  <2>1. offset[ax] = IF cylinders[ax[1]] THEN 0 ELSE Push(stage[ax])
    BY <1>2 DEF Inductive, BumpInv, ForceMatchesStage
  <2> QED BY <1>1, <1>2, <1>t, <2>1, PassMovesForces
<1>5. SilencedWhileTesting'
  <2> SUFFICES ASSUME NEW ax \in clean, IsTested(ax)'
               PROVE  ~farCheck'
    BY <1>2 DEF SilencedWhileTesting
  <2>1. ax \in Axes
    BY <1>t DEF TypeOK
  <2>2. IsTested(ax)
    <3>1. CASE Moves(ax, r)
      BY <1>t, <2>1, <3>1, NextStageType
    <3>2. CASE ~Moves(ax, r)
      BY <1>1, <2>1, <3>2 DEF PassOver, IsTested
    <3> QED BY <3>1, <3>2
  <2>3. ~farCheck
    BY <1>2, <2>2 DEF Inductive, SilencedWhileTesting
  <2>4. Tested # {}
    BY <2>1, <2>2 DEF Tested
  <2> QED BY <1>2, <2>3, <2>4
<1>6. SamplesFollowTime'
  <2> SUFFICES ASSUME NEW ax \in clean, IsTested(ax)'
               PROVE  same'[ax[1]] = Capacity \/ same'[ax[1]] + timer'[ax[1]] >= Settle
    BY <1>2 DEF SamplesFollowTime
  <2>1. ax \in Axes
    BY <1>t DEF TypeOK
  <2>2. IsTested(ax) => same[ax[1]] = Capacity \/ same[ax[1]] + timer[ax[1]] >= Settle
    BY <1>2 DEF Inductive, SamplesFollowTime
  <2> QED BY <1>1, <1>t, <2>1, <2>2, PassFollowsTime
<1>7. SafeOutsideEngineering' /\ QuietBeforeStart' /\ OnlyLeftovers'
  BY <1>2 DEF SafeOutsideEngineering, QuietBeforeStart, OnlyLeftovers
<1> QED BY <1>3, <1>4, <1>5, <1>6, <1>7 DEF Inductive, BumpInv

----------------------------------------------------------------------------
(* The theorems. *)

\* Every action keeps the inductive invariant, in which the forces and the far neighbour check
\* need the tests that a fault or a restart left behind and the samples their time.
THEOREM InductiveInvariant == Spec => []Inductive
<1>1. Inductive /\ [Next]_vars => Inductive'
  <2> SUFFICES ASSUME Inductive, [Next]_vars PROVE Inductive'
    OBVIOUS
  <2>1. CASE Next
    BY <2>1, RequestKeeps, RequestTooEarlyKeeps, ExecuteKeeps, CycleKeeps, KillKeeps, LeaveKeeps,
       EnterEngineeringKeeps, FaultKeeps, StandbyKeeps, StartKeeps DEF Next
  <2>2. CASE UNCHANGED vars
    BY <2>2 DEF vars, history, Inductive, BumpInv, TypeOK, ForceMatchesStage, SafeOutsideEngineering,
                SilencedWhileTesting, QuietBeforeStart, OnlyLeftovers, SamplesFollowTime, IsTested
  <2> QED BY <2>1, <2>2
<1> QED BY <1>1, InitInductive, PTL DEF Spec

\* The forces of the bump tests are those their stages ask for, none is left when engineering
\* mode is left, and the far neighbour check is then on again (BumpTestController::runLoop and
\* stopAll).
THEOREM ForcesFollowTheTests == Spec => []BumpInv
<1>1. Inductive => BumpInv
  BY DEF Inductive
<1> QED BY <1>1, InductiveInvariant, PTL

\* The far neighbour check stays off as long as a test runs that was started in this session
\* (setBumpTestActuator, tested_count and the exit of runLoop).
THEOREM TestsAreSilenced == Spec => []SilencedWhileTesting
<1>1. Inductive => SilencedWhileTesting
  BY DEF Inductive
<1> QED BY <1>1, InductiveInvariant, PTL

\* A pass ends a test as Passed only with a measurement of its last step that is no error, and
\* with no error it looks at on an actuator that is not being tested.
LEMMA PassedIsEarned ==
  ASSUME Capacity <= Settle, Inductive, Cycle, NEW ax \in clean, IsTested(ax), stage'[ax] = "Passed"
  PROVE  /\ result'[ax] \in {"passed", "warning"}
         /\ \A other \in Resting : LooksAt(ax, other) => result'[other] # "error"
<1>1. PICK r \in Measured : PassOver(r)
  BY CycleIsAPass
<1>2. TypeOK /\ mode = "ParkedEngineering" /\ ax \in Axes /\ result' = r
  BY <1>1 DEF Inductive, BumpInv, TypeOK, Cycle, PassOver
<1>3. Moves(ax, r) /\ NextStage(ax, r) = "Passed"
  BY <1>1, <1>2 DEF PassOver, IsTested, Running
<1>4. stage[ax] = "TestingNegativeWait" /\ Verdict(ax, r) = "Passed"
  <2>1. NextStage(ax, r) \in Verdicts
    BY <1>3 DEF Verdicts
  <2>2. stage[ax] = "TestingNegativeWait"
    BY <1>2, <1>3, <2>1, NextStageType
  <2> QED BY <1>3, <2>2 DEF NextStage
<1>5. r[ax] # "none"
  <2>1. r[ax] = "passed" \/ Due(ax[1])
    BY <1>3 DEF Moves, StepOver
  <2>2. ASSUME Due(ax[1])
        PROVE  Sampled[ax[1]] = Capacity
    <3>1. same[ax[1]] = Capacity \/ same[ax[1]] + timer[ax[1]] >= Settle
      BY <1>2 DEF Inductive, SamplesFollowTime
    <3>2. /\ ax[1] \in Actuators /\ same[ax[1]] \in 0 .. Capacity /\ timer[ax[1]] \in 0 .. Settle
          /\ Settle \in Nat /\ Capacity \in Nat
      BY <1>2, AxisFacts, BumpTestAssumption DEF TypeOK
    <3>3. /\ Sampled[ax[1]] \in 0 .. Capacity
          /\ Sampled[ax[1]] = Capacity \/ Sampled[ax[1]] = same[ax[1]] + 1
          /\ same[ax[1]] = Capacity => Sampled[ax[1]] = Capacity
      BY <1>2, <3>2, SampledFacts
    <3> QED BY <2>2, <3>1, <3>2, <3>3 DEF Due
  <2> QED BY <1>2, <2>1, <2>2, MeasuredFacts
<1>6. r[ax] \in {"passed", "warning"}
  <2>1. r[ax] \in Results
    BY <1>2, MeasuredFacts
  <2> QED BY <1>4, <1>5, <2>1 DEF Verdict, Results
<1>7. ~NonTestedProblem(ax, r)
  BY <1>4, <1>5 DEF Verdict
<1>8. ASSUME NEW other \in Resting, LooksAt(ax, other)
      PROVE  r[other] # "error"
  <2>0. other \in Axes /\ timer[other[1]] = 0 /\ ~UnderTest(other[1])
    BY DEF Resting
  <2>1. other # ax
    BY <1>2, <2>0, AxisFacts
  <2>2. Due(other[1])
    BY <2>0 DEF Due
  <2>3. \A m \in AxesOf(other[1]) : ~Moves(m, r)
    BY <2>0 DEF Moves, UnderTest
  <2>4. NotTested(other[1], ax, r)
    BY <2>2, <2>3 DEF NotTested
  <2> QED BY <1>7, <1>8, <2>0, <2>1, <2>4 DEF NonTestedProblem
<1> QED BY <1>2, <1>6, <1>8

\* Tests pass only on measurements, when a step has time for as many samples as the
\* statistics need.  SettleTime and Measurements in _init.yaml leave that time; the code does
\* not check it, and without it a step that times out unmeasured counts as passed.
THEOREM PassesAreEarned == ASSUME Capacity <= Settle PROVE Spec => VerdictIsEarned
<1>1. Inductive /\ [Next]_vars =>
        [\A ax \in clean : IsTested(ax) /\ stage'[ax] = "Passed" =>
           /\ result'[ax] \in {"passed", "warning"}
           /\ \A other \in Resting : LooksAt(ax, other) => result'[other] # "error"]_vars
  <2> SUFFICES ASSUME Inductive, Next, NEW ax \in clean, IsTested(ax), stage'[ax] = "Passed"
               PROVE  Cycle
    BY PassedIsEarned
  <2>1. ax \in Axes
    BY DEF Inductive, BumpInv, TypeOK
  <2>2. stage' # stage /\ stage[ax] # "Passed"
    BY DEF IsTested, Running
  <2>3. ~Execute
    BY <2>1, <2>2 DEF Execute, SetBumpTestActuator
  <2>4. ~Kill /\ ~Leave
    BY <2>1 DEF Kill, Leave, StopAll, Stop
  <2> QED BY <2>2, <2>3, <2>4
          DEF Next, Request, RequestTooEarly, EnterEngineering, Fault, Standby, Start
<1> QED BY <1>1, InductiveInvariant, PTL DEF Spec, VerdictIsEarned

=============================================================================
