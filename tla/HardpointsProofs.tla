-------------------------- MODULE HardpointsProofs --------------------------
(***************************************************************************)
(* Proofs about Hardpoints, for any finite set of hardpoints and all       *)
(* lengths, forces, limits and numbers of readings that HardpointAssumption *)
(* admits.                                                                 *)
(***************************************************************************)
EXTENDS Hardpoints, FiniteSetTheorems, WellFoundedInduction, TLAPS

----------------------------------------------------------------------------
(* Numbers. *)

LEMMA CoerceFacts ==
  ASSUME NEW low \in Int, NEW high \in Int, NEW v \in Int, low <= high
  PROVE  /\ CoerceIntoRange(low, high, v) \in Int
         /\ low <= CoerceIntoRange(low, high, v) /\ CoerceIntoRange(low, high, v) <= high
BY DEF CoerceIntoRange

\* A share of m parts is at most m.
LEMMA ShareFacts ==
  ASSUME NEW m \in Nat, NEW a \in Nat, NEW b \in Nat, 0 < b, a <= b
  PROVE  (m * a) \div b \in 0 .. m
<1> DEFINE d == (m * a) \div b
<1>1. m * a \in Nat /\ m * b \in Nat /\ m * a <= m * b
  BY SMTT(30)
<1>2. d \in Int /\ b * d <= m * a /\ m * a < b * d + b
  BY <1>1, SMTT(30)
<1>3. d <= m
  <2>1. SUFFICES ASSUME d >= m + 1 PROVE FALSE
    BY <1>2
  <2>2. b * d >= b * (m + 1)
    BY <1>2, <2>1, SMTT(30)
  <2>3. b * (m + 1) = m * b + b
    BY SMTT(30)
  <2> QED BY <1>1, <1>2, <2>2, <2>3
<1>4. d >= 0
  BY <1>1, <1>2, SMTT(30)
<1> QED BY <1>2, <1>3, <1>4

\* A finite set of numbers that is not empty has a largest one.
LEMMA LargestExists ==
  ASSUME NEW S \in SUBSET Int, IsFiniteSet(S), S # {}
  PROVE  \E x \in S : \A y \in S : x >= y
<1> DEFINE T == {U \in FiniteSubsetsOf(Int) : U # {} /\ ~\E x \in U : \A y \in U : x >= y}
<1> SUFFICES ASSUME T # {} PROVE FALSE
  BY DEF FiniteSubsetsOf
<1>1. PICK U \in T : \A V \in T : ~(<<V, U>> \in StrictSubsetOrdering(Int))
  <2>1. IsWellFoundedOn(StrictSubsetOrdering(Int), FiniteSubsetsOf(Int))
    BY FS_StrictSubsetOrderingWellFounded
  <2>2. T \subseteq FiniteSubsetsOf(Int)
    OBVIOUS
  <2> HIDE DEF T
  <2> QED BY <2>1, <2>2, WFMin
<1>2. U \subseteq Int /\ IsFiniteSet(U) /\ U # {} /\ ~\E x \in U : \A y \in U : x >= y
  BY DEF FiniteSubsetsOf
<1>3. PICK x \in U : TRUE
  BY <1>2
<1> DEFINE V == U \ {x}
<1>4. V \in FiniteSubsetsOf(Int) /\ <<V, U>> \in StrictSubsetOrdering(Int)
  BY <1>2, FS_RemoveElement DEF FiniteSubsetsOf, StrictSubsetOrdering
<1>5. V = {} \/ \E m \in V : \A y \in V : m >= y
  BY <1>1, <1>4
<1>6. CASE V = {}
  BY <1>2, <1>6
<1>7. CASE \E m \in V : \A y \in V : m >= y
  <2>1. PICK m \in V : \A y \in V : m >= y
    BY <1>7
  <2>2. m \in Int /\ x \in Int /\ \A y \in U : y \in Int /\ (y = x \/ m >= y)
    BY <1>2, <1>3, <2>1
  <2>3. CASE m >= x
    BY <1>2, <2>1, <2>2, <2>3
  <2>4. CASE x >= m
    <3>1. \A y \in U : x >= y
      BY <2>2, <2>4
    <3> QED BY <1>2, <1>3, <3>1
  <2> QED BY <2>2, <2>3, <2>4
<1> QED BY <1>5, <1>6, <1>7

----------------------------------------------------------------------------
(* One hardpoint. *)

LEMMA HardTypes ==
  ASSUME NEW s \in HardStates
  PROVE  /\ s.motion \in Motions /\ s.queued \in Int /\ s.target \in Int
         /\ s.steps \in Int /\ -MaxSteps <= s.steps /\ s.steps <= MaxSteps
         /\ s.scaled \in Int /\ 1 <= s.scaled /\ s.scaled <= MaxSteps
         /\ s.stable \in {0, 1} /\ s.wait \in Waits
         /\ s.samples \in Nat /\ s.samples < CompressionReadouts
<1>1. MaxSteps \in Nat /\ CompressionReadouts \in Nat
  BY HardpointAssumption
<1> QED BY <1>1 DEF HardStates, StepCounts, Shares, StableCounts, ReadingCounts, Counts

\* The values that start, stop or count.
LEMMA HardValues ==
  /\ 0 \in Counts /\ 0 \in StepCounts /\ 0 \in StableCounts /\ 1 \in StableCounts /\ 0 \in ReadingCounts
  /\ \A n \in Int : n \in Counts
  /\ \A w \in {"NoWait", "CanWait", "Waiting", "AlreadyWaited"} : w \in Waits
  /\ \A m \in {"Standby", "Chasing", "Stepping", "QuickPositioning", "FinePositioning"} :
       m \in Motions /\ m \notin Waiting
<1>1. MaxSteps \in Nat \ {0} /\ CompressionReadouts \in Nat \ {0}
  BY HardpointAssumption
<1> QED BY <1>1 DEF Counts, StepCounts, StableCounts, ReadingCounts, Waits, Motions, Waiting

\* What no update but the check of the forces does: note anything about waiting, or start to.
Quiet(s, t) ==
  /\ t.wait = s.wait /\ t.samples = s.samples
  /\ t.motion \in Waiting => t.motion = s.motion

LEMMA QuietComposes ==
  ASSUME NEW s, NEW t, NEW u, Quiet(s, t), Quiet(t, u)
  PROVE  Quiet(s, u)
BY DEF Quiet

LEMMA WaitingIsMotion == Waiting \subseteq Motions /\ "Standby" \notin Waiting /\ "Chasing" \notin Waiting
BY DEF Waiting, Motions

\* Steps that will not move a hardpoint further beyond a limit switch.
Stops(s, e) == (s.steps < 0 => e > 0) /\ (s.steps > 0 => e < Top)

LEMMA CheckLimitsFits ==
  ASSUME NEW s \in HardStates, NEW e \in Int
  PROVE  /\ CheckLimits(s, e) \in HardStates
         /\ Quiet(s, CheckLimits(s, e)) /\ CheckLimits(s, e).motion = s.motion
         /\ Stops(CheckLimits(s, e), e)
<1>1. s.steps \in Int /\ Top \in Nat
  BY HardpointAssumption, HardTypes
<1>2. CASE (s.steps < 0 /\ e <= 0) \/ (s.steps > 0 /\ e >= Top)
  <2>1. CheckLimits(s, e) = [s EXCEPT !.steps = 0]
    BY <1>2 DEF CheckLimits
  <2>2. [s EXCEPT !.steps = 0] \in HardStates
    BY HardValues DEF HardStates
  <2>3. /\ Quiet(s, [s EXCEPT !.steps = 0]) /\ [s EXCEPT !.steps = 0].motion = s.motion
        /\ [s EXCEPT !.steps = 0].steps = 0
    BY DEF HardStates, Quiet
  <2> QED BY <2>1, <2>2, <2>3 DEF Stops
<1>3. CASE ~((s.steps < 0 /\ e <= 0) \/ (s.steps > 0 /\ e >= Top))
  BY <1>1, <1>3 DEF CheckLimits, Quiet, Stops
<1> QED BY <1>2, <1>3

\* A motion that comes to an end, or to its last part.
Arrives(s, t) ==
  \/ t.motion = s.motion
  \/ s.motion \in {"Stepping", "FinePositioning"} /\ t.motion = "Standby"
  \/ s.motion = "QuickPositioning" /\ t.motion = "FinePositioning"

LEMMA AdvanceFits ==
  ASSUME NEW s \in HardStates, NEW next \in {"Standby", "FinePositioning"}
  PROVE  /\ Advance(s, next) \in HardStates /\ Advance(s, next).motion \in {s.motion, next}
         /\ Advance(s, next).wait = s.wait /\ Advance(s, next).samples = s.samples
<1> DEFINE n == CoerceIntoRange(-s.scaled, s.scaled, s.queued)
           m == IF s.queued = 0 THEN next ELSE s.motion
           q == s.queued - n
<1>1. /\ s.scaled \in Int /\ 1 <= s.scaled /\ s.scaled <= MaxSteps /\ s.queued \in Int /\ MaxSteps \in Nat
      /\ -s.scaled \in Int /\ -s.scaled <= s.scaled
  BY HardpointAssumption, HardTypes
<1>2. n \in Int /\ -s.scaled <= n /\ n <= s.scaled
  BY <1>1, CoerceFacts
<1>3. n \in StepCounts /\ q \in Counts
  <2> HIDE DEF n
  <2> QED BY <1>1, <1>2 DEF StepCounts, Counts
<1>4. m \in Motions /\ m \in {s.motion, next}
  BY HardValues, HardTypes
<1>5. Advance(s, next) = [s EXCEPT !.queued = q, !.steps = n, !.motion = m]
  BY DEF Advance
<1> HIDE DEF n, m, q
<1> QED BY <1>3, <1>4, <1>5 DEF HardStates

LEMMA SettleFits ==
  ASSUME NEW s \in HardStates, NEW e \in Int
  PROVE  /\ Settle(s, e) \in HardStates /\ Settle(s, e).motion \in {s.motion, "Standby"}
         /\ Settle(s, e).wait = s.wait /\ Settle(s, e).samples = s.samples
<1> DEFINE delta == s.target - e
           stable == IF Abs(delta) > Fine THEN s.stable ELSE IF delta = 0 THEN s.stable + 1 ELSE 0
           steps == IF Abs(delta) > Fine THEN CoerceIntoRange(-MaxSteps, MaxSteps, delta)
                    ELSE CoerceIntoRange(-1, 1, delta)
<1>1. delta \in Int /\ s.stable \in {0, 1} /\ MaxSteps \in Nat \ {0} /\ -MaxSteps \in Int /\ Fine \in Nat
  BY HardpointAssumption, HardTypes
<1>2. /\ CoerceIntoRange(-MaxSteps, MaxSteps, delta) \in StepCounts
      /\ CoerceIntoRange(-1, 1, delta) \in StepCounts
  <2> HIDE DEF delta
  <2>1. /\ CoerceIntoRange(-MaxSteps, MaxSteps, delta) \in Int
        /\ -MaxSteps <= CoerceIntoRange(-MaxSteps, MaxSteps, delta)
        /\ CoerceIntoRange(-MaxSteps, MaxSteps, delta) <= MaxSteps
    BY <1>1, CoerceFacts
  <2>2. /\ CoerceIntoRange(-1, 1, delta) \in Int
        /\ -1 <= CoerceIntoRange(-1, 1, delta) /\ CoerceIntoRange(-1, 1, delta) <= 1
    BY <1>1, CoerceFacts
  <2> QED BY <1>1, <2>1, <2>2 DEF StepCounts
<1>3. steps \in StepCounts
  BY <1>2
<1>4. ~(delta = 0 /\ stable >= 2) => stable \in StableCounts
  <2> HIDE DEF delta
  <2>1. CASE delta = 0
    <3>1. ~(Abs(delta) > Fine)
      BY <1>1, <2>1 DEF Abs
    <3>2. stable = s.stable + 1
      BY <2>1, <3>1
    <3> QED BY <1>1, <2>1, <3>2 DEF StableCounts
  <2>2. CASE delta # 0
    <3>1. stable \in {s.stable, 0}
      BY <2>2
    <3> QED BY <1>1, <3>1 DEF StableCounts
  <2> QED BY <2>1, <2>2
<1>5. Settle(s, e) = IF delta = 0 /\ stable >= 2
                       THEN [s EXCEPT !.stable = 0, !.steps = 0, !.motion = "Standby"]
                       ELSE [s EXCEPT !.stable = stable, !.steps = steps]
  BY DEF Settle
<1> HIDE DEF delta, stable, steps
<1>6. CASE delta = 0 /\ stable >= 2
  <2>1. Settle(s, e) = [s EXCEPT !.stable = 0, !.steps = 0, !.motion = "Standby"]
    BY <1>5, <1>6
  <2> QED BY <2>1, HardValues DEF HardStates
<1>7. CASE ~(delta = 0 /\ stable >= 2)
  <2>1. Settle(s, e) = [s EXCEPT !.stable = stable, !.steps = steps]
    BY <1>5, <1>7
  <2>2. stable \in StableCounts
    BY <1>4, <1>7
  <2> QED BY <1>3, <2>1, <2>2 DEF HardStates
<1> QED BY <1>6, <1>7

LEMMA ChaseFacts ==
  ASSUME NEW f \in Int
  PROVE  /\ Chase(f) \in StepCounts
         /\ CoerceIntoRange(-MaxSteps, 0, Chase(f)) \in StepCounts
         /\ CoerceIntoRange(0, MaxSteps, Chase(f)) \in StepCounts
<1> DEFINE c == Chase(f)
           l == -MaxSteps
<1>1. MaxSteps \in Nat /\ -f \in Int /\ l \in Int /\ l <= 0 /\ l <= MaxSteps
  BY HardpointAssumption
<1>2. c \in Int /\ l <= c /\ c <= MaxSteps
  BY <1>1, CoerceFacts DEF Chase
<1>3. StepCounts = l .. MaxSteps
  BY DEF StepCounts
<1> HIDE DEF c, l
<1>4. CoerceIntoRange(l, 0, c) \in Int /\ l <= CoerceIntoRange(l, 0, c) /\ CoerceIntoRange(l, 0, c) <= 0
  BY <1>1, <1>2, CoerceFacts
<1>5. CoerceIntoRange(0, MaxSteps, c) \in Int /\ 0 <= CoerceIntoRange(0, MaxSteps, c)
      /\ CoerceIntoRange(0, MaxSteps, c) <= MaxSteps
  BY <1>1, <1>2, CoerceFacts
<1>6. /\ c \in StepCounts /\ CoerceIntoRange(l, 0, c) \in StepCounts
      /\ CoerceIntoRange(0, MaxSteps, c) \in StepCounts
  BY <1>1, <1>2, <1>3, <1>4, <1>5
<1> QED BY <1>6 DEF c, l

\* updateSteps: the motion goes on or arrives, and the steps end at the limit switches.
LEMMA UpdateStepsFits ==
  ASSUME NEW s \in HardStates, NEW e \in Int, NEW f \in Int
  PROVE  /\ UpdateSteps(s, e, f) \in HardStates
         /\ Quiet(s, UpdateSteps(s, e, f)) /\ Arrives(s, UpdateSteps(s, e, f))
         /\ Stops(UpdateSteps(s, e, f), e)
<1>1. \E t \in HardStates : /\ UpdateSteps(s, e, f) = CheckLimits(t, e)
                            /\ t.wait = s.wait /\ t.samples = s.samples /\ Arrives(s, t)
  <2>0. s.motion \in Motions
    BY HardTypes
  <2>1. CASE s.motion = "Standby"
    <3> DEFINE t == [s EXCEPT !.steps = 0, !.queued = 0]
    <3>1. t \in HardStates
      BY HardValues DEF HardStates
    <3>2. t.wait = s.wait /\ t.samples = s.samples /\ t.motion = s.motion
      BY DEF HardStates
    <3>3. UpdateSteps(s, e, f) = CheckLimits(t, e)
      BY <2>1 DEF UpdateSteps
    <3> HIDE DEF t
    <3> QED BY <3>1, <3>2, <3>3 DEF Arrives
  <2>2. CASE s.motion = "Chasing"
    <3>1. [s EXCEPT !.steps = Chase(f)] \in HardStates
      BY ChaseFacts DEF HardStates
    <3> QED BY <2>2, <3>1 DEF UpdateSteps, Arrives, HardStates
  <2>3. CASE s.motion = "Stepping"
    BY <2>3, AdvanceFits DEF UpdateSteps, Arrives
  <2>4. CASE s.motion = "QuickPositioning"
    BY <2>4, AdvanceFits DEF UpdateSteps, Arrives
  <2>5. CASE s.motion = "FinePositioning"
    BY <2>5, SettleFits DEF UpdateSteps, Arrives
  <2>6. CASE s.motion = "WaitingTension"
    <3>1. [s EXCEPT !.steps = CoerceIntoRange(-MaxSteps, 0, Chase(f))] \in HardStates
      BY ChaseFacts DEF HardStates
    <3> QED BY <2>6, <3>1 DEF UpdateSteps, Arrives, HardStates
  <2>7. CASE s.motion = "WaitingCompression"
    <3>1. [s EXCEPT !.steps = CoerceIntoRange(0, MaxSteps, Chase(f))] \in HardStates
      BY ChaseFacts DEF HardStates
    <3> QED BY <2>7, <3>1 DEF UpdateSteps, Arrives, HardStates
  <2> QED BY <2>0, <2>1, <2>2, <2>3, <2>4, <2>5, <2>6, <2>7 DEF Motions, Waiting
<1>2. PICK t \in HardStates : /\ UpdateSteps(s, e, f) = CheckLimits(t, e)
                              /\ t.wait = s.wait /\ t.samples = s.samples /\ Arrives(s, t)
  BY <1>1
<1>3. /\ CheckLimits(t, e) \in HardStates
      /\ Quiet(t, CheckLimits(t, e)) /\ CheckLimits(t, e).motion = t.motion
      /\ Stops(CheckLimits(t, e), e)
  BY CheckLimitsFits
<1> QED BY <1>2, <1>3 DEF Quiet, Arrives, Waiting

----------------------------------------------------------------------------
(* The check of the forces. *)

\* What the check does to hardpoint i with state s: it starts to wait, goes on waiting with a
\* reading more, none or those it has, chases again, or does not wait.
StartsToWait(i, s, t) ==
  /\ Ignoring(i) /\ s.motion = "Chasing" /\ s.wait = "CanWait"
  /\ t.motion = WaitMotion(i) /\ t.wait = "Waiting" /\ t.samples = s.samples
KeepsWaiting(i, s, t, limits) ==
  /\ s.motion = WaitMotion(i) /\ t.motion = s.motion /\ t.wait = s.wait
  /\ \/ t.samples = 0
     \/ Ignoring(i) /\ ForceInRange(i, s, limits) /\ t.samples = s.samples + 1
     \/ ~Ignoring(i) /\ t.samples = s.samples
EndsWaiting(i, s, t, limits) ==
  /\ Ignoring(i) /\ s.motion = WaitMotion(i) /\ ForceInRange(i, s, limits) /\ s.samples + 1 >= CompressionReadouts
  /\ t.motion = "Chasing" /\ t.wait = s.wait /\ t.samples = 0
DoesNotWait(i, s, t) ==
  /\ s.motion # WaitMotion(i) /\ t.motion = s.motion /\ t.samples = s.samples
  /\ t.wait = s.wait \/ (s.wait # "CanWait" /\ t.wait = "AlreadyWaited")

TolerancePossible(i, s, t, limits) ==
  StartsToWait(i, s, t) \/ KeepsWaiting(i, s, t, limits) \/ EndsWaiting(i, s, t, limits) \/ DoesNotWait(i, s, t)

LEMMA WaitMotionFacts ==
  ASSUME NEW i
  PROVE  WaitMotion(i) \in Waiting /\ WaitMotion(i) \in Motions /\ WaitMotion(i) # "Chasing"
BY DEF WaitMotion, Waiting, Motions

LEMMA ToleranceFits ==
  ASSUME NEW i, NEW s \in HardStates, NEW limits, encoder[i] \in Int
  PROVE  /\ Tolerance(i, s, limits).state \in HardStates
         /\ TolerancePossible(i, s, Tolerance(i, s, limits).state, limits)
<1> DEFINE inRange == ForceInRange(i, s, limits)
           result(t, ok) == [state |-> CheckLimits(t, encoder[i]), ok |-> ok]
<1>0. s.samples \in Nat /\ s.samples < CompressionReadouts /\ CompressionReadouts \in Nat \ {0}
      /\ inRange \in BOOLEAN
  <2>1. inRange \in BOOLEAN
    BY DEF ForceInRange
  <2> HIDE DEF inRange
  <2> QED BY <2>1, HardpointAssumption, HardTypes
<1>1. SUFFICES \E t \in HardStates, ok \in BOOLEAN : /\ Tolerance(i, s, limits) = result(t, ok)
                                         /\ TolerancePossible(i, s, t, limits)
  <2>1. PICK t \in HardStates, ok \in BOOLEAN : /\ Tolerance(i, s, limits) = result(t, ok)
                                   /\ TolerancePossible(i, s, t, limits)
    BY <1>1
  <2>2. /\ CheckLimits(t, encoder[i]) \in HardStates
        /\ Quiet(t, CheckLimits(t, encoder[i])) /\ CheckLimits(t, encoder[i]).motion = t.motion
    BY CheckLimitsFits
  <2>3. Tolerance(i, s, limits).state = CheckLimits(t, encoder[i])
    BY <2>1
  <2> DEFINE u == CheckLimits(t, encoder[i])
  <2>4. u.motion = t.motion /\ u.wait = t.wait /\ u.samples = t.samples
    BY <2>2 DEF Quiet
  <2> HIDE DEF result, u
  <2>5. /\ StartsToWait(i, s, t) => StartsToWait(i, s, u)
        /\ KeepsWaiting(i, s, t, limits) => KeepsWaiting(i, s, u, limits)
        /\ EndsWaiting(i, s, t, limits) => EndsWaiting(i, s, u, limits)
        /\ DoesNotWait(i, s, t) => DoesNotWait(i, s, u)
    BY <2>4 DEF StartsToWait, KeepsWaiting, EndsWaiting, DoesNotWait
  <2>6. TolerancePossible(i, s, u, limits)
    BY <2>1, <2>5 DEF TolerancePossible
  <2> QED BY <2>2, <2>3, <2>6 DEF u
<1>2. CASE Ignoring(i) /\ s.motion = "Chasing" /\ AtTheEnd(i) /\ ~MayWait(s)
  <2>1. [s EXCEPT !.wait = "AlreadyWaited"] \in HardStates
    BY HardValues DEF HardStates
  <2>2. Tolerance(i, s, limits) = result([s EXCEPT !.wait = "AlreadyWaited"], inRange)
    BY <1>2, WaitMotionFacts DEF Tolerance
  <2>3. DoesNotWait(i, s, [s EXCEPT !.wait = "AlreadyWaited"])
    BY <1>2, WaitMotionFacts DEF DoesNotWait, MayWait, HardStates
  <2> HIDE DEF result, inRange
  <2> QED BY <1>0, <2>1, <2>2, <2>3 DEF TolerancePossible
<1>3. CASE Ignoring(i) /\ s.motion = "Chasing" /\ AtTheEnd(i) /\ MayWait(s) /\ Excessive(i, limits)
  <2> DEFINE t == [s EXCEPT !.motion = WaitMotion(i), !.steps = 0, !.wait = "Waiting"]
  <2>1. t \in HardStates
    BY WaitMotionFacts, HardValues DEF HardStates
  <2>2. Tolerance(i, s, limits) = result(t, TRUE)
    BY <1>3, WaitMotionFacts DEF Tolerance
  <2>3. StartsToWait(i, s, t)
    BY <1>3 DEF StartsToWait, MayWait, HardStates
  <2> HIDE DEF result, t
  <2> QED BY <2>1, <2>2, <2>3 DEF TolerancePossible
<1>4. CASE Ignoring(i) /\ s.motion = WaitMotion(i) /\ ~inRange
  <2>1. StillWaiting(s) \in HardStates
    BY HardValues DEF HardStates, StillWaiting
  <2>2. Tolerance(i, s, limits) = result(StillWaiting(s), TRUE)
    BY <1>4, WaitMotionFacts DEF Tolerance
  <2>3. KeepsWaiting(i, s, StillWaiting(s), limits)
    BY <1>4 DEF KeepsWaiting, StillWaiting, HardStates
  <2> HIDE DEF result, inRange
  <2> QED BY <2>1, <2>2, <2>3 DEF TolerancePossible
<1>5. CASE Ignoring(i) /\ s.motion = WaitMotion(i) /\ inRange /\ ~Enough(s.samples + 1)
  <2> DEFINE t == [s EXCEPT !.samples = @ + 1]
  <2>1. s.samples + 1 \in ReadingCounts
    BY <1>0, <1>5 DEF ReadingCounts, Enough
  <2>4. t \in HardStates
    BY <2>1 DEF HardStates
  <2>2. Tolerance(i, s, limits) = result(t, FALSE)
    BY <1>5, WaitMotionFacts DEF Tolerance
  <2>3. KeepsWaiting(i, s, t, limits)
    BY <1>5 DEF KeepsWaiting, HardStates
  <2> HIDE DEF result, t
  <2> QED BY <2>2, <2>3, <2>4 DEF TolerancePossible
<1>6. CASE Ignoring(i) /\ s.motion = WaitMotion(i) /\ inRange /\ Enough(s.samples + 1)
  <2> DEFINE t == [s EXCEPT !.samples = 0, !.motion = "Chasing"]
  <2>1. t \in HardStates
    BY HardValues DEF HardStates
  <2>2. Tolerance(i, s, limits) = result(t, TRUE)
    BY <1>6, WaitMotionFacts DEF Tolerance
  <2>3. EndsWaiting(i, s, t, limits)
    BY <1>6 DEF EndsWaiting, Enough, HardStates
  <2> HIDE DEF result, t
  <2> QED BY <2>1, <2>2, <2>3 DEF TolerancePossible
<1>7. CASE Ignoring(i) /\ s.motion # WaitMotion(i) /\ ~(s.motion = "Chasing" /\ AtTheEnd(i) /\ ~MayWait(s))
           /\ ~(s.motion = "Chasing" /\ AtTheEnd(i) /\ MayWait(s) /\ Excessive(i, limits))
  <2>2. Tolerance(i, s, limits) = result(s, inRange)
    BY <1>7 DEF Tolerance
  <2>3. DoesNotWait(i, s, s)
    BY <1>7 DEF DoesNotWait
  <2> HIDE DEF result, inRange
  <2> QED BY <1>0, <2>2, <2>3 DEF TolerancePossible
<1>8. CASE ~Ignoring(i)
  <2>2. Tolerance(i, s, limits) = result(s, inRange)
    BY <1>8 DEF Tolerance
  <2>3. DoesNotWait(i, s, s) \/ KeepsWaiting(i, s, s, limits)
    BY <1>8 DEF DoesNotWait, KeepsWaiting
  <2> HIDE DEF result, inRange
  <2> QED BY <1>0, <2>2, <2>3 DEF TolerancePossible
<1> HIDE DEF inRange, result
<1> QED BY <1>2, <1>3, <1>4, <1>5, <1>6, <1>7, <1>8

----------------------------------------------------------------------------
(* All hardpoints. *)

Tables == [Hardpoints -> HardStates]

\* What an operation makes of the hardpoints that has no part in waiting.
AllQuiet(h, g) == g \in Tables /\ \A i \in Hardpoints : Quiet(h[i], g[i])

LEMMA AllQuietComposes ==
  ASSUME NEW h \in Tables, NEW g, NEW k, AllQuiet(h, g), AllQuiet(g, k)
  PROVE  AllQuiet(h, k)
BY QuietComposes DEF AllQuiet

\* Orders change the motion and the steps to go.
Ordering(s, q, m) == [s EXCEPT !.queued = q, !.motion = m]
Targeting(s, e, q, m) == [s EXCEPT !.target = e, !.stable = 0, !.queued = q, !.motion = m]

Given == {"Standby", "Chasing", "Stepping", "QuickPositioning", "FinePositioning"}

LEMMA SwitchingIsQuiet ==
  ASSUME NEW s \in HardStates, NEW m \in Given
  PROVE  /\ [s EXCEPT !.motion = m] \in HardStates /\ Quiet(s, [s EXCEPT !.motion = m])
         /\ [s EXCEPT !.motion = m].motion = m
<1>1. m \in Motions /\ m \notin Waiting
  BY HardValues DEF Given
<1> QED BY <1>1 DEF HardStates, Quiet

LEMMA OrderingIsQuiet ==
  ASSUME NEW s \in HardStates, NEW m \in Given, NEW q \in Int
  PROVE  Ordering(s, q, m) \in HardStates /\ Quiet(s, Ordering(s, q, m)) /\ Ordering(s, q, m).motion = m
<1>1. m \in Motions /\ m \notin Waiting /\ q \in Counts
  BY HardValues DEF Given
<1>2. ASSUME NEW x \in Counts
      PROVE  Ordering(s, x, m) \in HardStates /\ Quiet(s, Ordering(s, x, m)) /\ Ordering(s, x, m).motion = m
  BY <1>1 DEF HardStates, Quiet, Ordering
<1> QED BY <1>1, <1>2

LEMMA TargetingIsQuiet ==
  ASSUME NEW s \in HardStates, NEW m \in Given, NEW q \in Int, NEW e \in Int
  PROVE  /\ Targeting(s, e, q, m) \in HardStates /\ Quiet(s, Targeting(s, e, q, m))
         /\ Targeting(s, e, q, m).motion = m
<1>1. m \in Motions /\ m \notin Waiting /\ q \in Counts /\ e \in Counts /\ 0 \in StableCounts
  BY HardValues DEF Given
<1>2. ASSUME NEW x \in Counts, NEW y \in Counts
      PROVE  /\ Targeting(s, y, x, m) \in HardStates /\ Quiet(s, Targeting(s, y, x, m))
             /\ Targeting(s, y, x, m).motion = m
  BY <1>1 DEF HardStates, Quiet, Targeting
<1> QED BY <1>1, <1>2

\* Scaling changes nothing but the share of the steps, which stays between 1 and MaxSteps.
LEMMA ScaledFits ==
  ASSUME NEW h \in Tables
  PROVE  /\ AllQuiet(h, Scaled(h))
         /\ \A i \in Hardpoints : Scaled(h)[i].motion = h[i].motion
<1> DEFINE f == [i \in Hardpoints |-> Abs(h[i].queued)]
           S == {Abs(h[i].queued) : i \in Hardpoints}
           longest == Max(S)
           share(q) == IF longest = 0 THEN 0 ELSE (MaxSteps * Abs(q)) \div longest
<1>1. \A i \in Hardpoints : Abs(h[i].queued) \in Nat
  <2>1. \A i \in Hardpoints : h[i].queued \in Int
    BY HardTypes DEF Tables
  <2> QED BY <2>1 DEF Abs
<1>2. S \in SUBSET Int
  BY <1>1
<1>3. IsFiniteSet(S)
  <2>1. f \in Surjection(Hardpoints, S)
    BY DEF Surjection
  <2> QED BY <2>1, FS_Surjection, HardpointAssumption
<1>4. ASSUME NEW i \in Hardpoints
      PROVE  longest \in Nat /\ Abs(h[i].queued) <= longest
  <2>1. S # {}
    OBVIOUS
  <2>2. \E x \in S : \A y \in S : x >= y
    BY <1>2, <1>3, <2>1, LargestExists
  <2>3. longest \in S /\ \A y \in S : longest >= y
    <3> HIDE DEF S
    <3> QED BY <2>2 DEF Max
  <2>4. longest \in Nat
    BY <1>1, <2>3
  <2>5. longest >= Abs(h[i].queued)
    BY <2>3
  <2> QED BY <1>1, <2>4, <2>5
<1>5. ASSUME NEW i \in Hardpoints
      PROVE  share(h[i].queued) \in 0 .. MaxSteps
  <2>1. longest \in Nat /\ Abs(h[i].queued) \in Nat /\ Abs(h[i].queued) <= longest /\ MaxSteps \in Nat
    BY <1>1, <1>4, HardpointAssumption
  <2> HIDE DEF longest
  <2>2. CASE longest = 0
    BY <2>1, <2>2
  <2>3. CASE longest # 0
    <3>1. (MaxSteps * Abs(h[i].queued)) \div longest \in 0 .. MaxSteps
      BY <2>1, <2>3, ShareFacts
    <3> QED BY <2>3, <3>1
  <2> QED BY <2>2, <2>3
<1>6. \A i \in Hardpoints : (IF share(h[i].queued) = 0 THEN 1 ELSE share(h[i].queued)) \in 1 .. MaxSteps
  <2> HIDE DEF share
  <2> QED BY <1>5, HardpointAssumption
<1>7. Scaled(h) = [i \in Hardpoints |-> [h[i] EXCEPT !.scaled = IF share(h[i].queued) = 0 THEN 1
                                                                ELSE share(h[i].queued)]]
  BY DEF Scaled
<1> HIDE DEF share
<1>8. ASSUME NEW i \in Hardpoints
      PROVE  /\ Scaled(h)[i] \in HardStates /\ Quiet(h[i], Scaled(h)[i])
             /\ Scaled(h)[i].motion = h[i].motion
  <2> DEFINE k == IF share(h[i].queued) = 0 THEN 1 ELSE share(h[i].queued)
  <2>1. k \in Shares /\ h[i] \in HardStates /\ Scaled(h)[i] = [h[i] EXCEPT !.scaled = k]
    BY <1>6, <1>7 DEF Shares, Tables
  <2> HIDE DEF k
  <2> QED BY <2>1 DEF HardStates, Quiet
<1>9. Scaled(h) \in Tables
  BY <1>7, <1>8 DEF Tables
<1> QED BY <1>8, <1>9 DEF AllQuiet

\* Stopping and starting, of one hardpoint and of all.
LEMMA SwitchesFit ==
  ASSUME NEW h \in Tables
  PROVE  /\ AllQuiet(h, StopMotion(h)) /\ AllQuiet(h, DisableChaseAll(h)) /\ AllQuiet(h, EnableChaseAll(h))
         /\ \A i \in Hardpoints : /\ StopMotion(h)[i].motion = "Standby"
                                 /\ DisableChaseAll(h)[i].motion = "Standby"
         /\ MotionComplete(h) => \A i \in Hardpoints : EnableChaseAll(h)[i].motion = "Chasing"
<1>1. ASSUME NEW i \in Hardpoints
      PROVE  /\ Stopped(h[i]) \in HardStates /\ Quiet(h[i], Stopped(h[i])) /\ Stopped(h[i]).motion = "Standby"
             /\ \A m \in {"Standby", "Chasing"} :
                  LET t == [h[i] EXCEPT !.motion = m]
                  IN t \in HardStates /\ Quiet(h[i], t) /\ t.motion = m
  <2>1. h[i] \in HardStates /\ 0 \in Int
    BY DEF Tables
  <2>2. Stopped(h[i]) = Ordering(h[i], 0, "Standby")
    BY DEF Stopped, Ordering
  <2>3. "Standby" \in Given /\ "Chasing" \in Given
    BY DEF Given
  <2>4. /\ Stopped(h[i]) \in HardStates /\ Quiet(h[i], Stopped(h[i])) /\ Stopped(h[i]).motion = "Standby"
    BY <2>1, <2>2, <2>3, OrderingIsQuiet
  <2>5. \A m \in {"Standby", "Chasing"} :
                  LET t == [h[i] EXCEPT !.motion = m]
                  IN t \in HardStates /\ Quiet(h[i], t) /\ t.motion = m
    BY <2>1, <2>3, SwitchingIsQuiet
  <2> QED BY <2>4, <2>5
<1>2. AllQuiet(h, StopMotion(h)) /\ \A i \in Hardpoints : StopMotion(h)[i].motion = "Standby"
  BY <1>1 DEF StopMotion, AllQuiet, Tables
<1>3. AllQuiet(h, DisableChaseAll(h)) /\ \A i \in Hardpoints : DisableChaseAll(h)[i].motion = "Standby"
  BY <1>1 DEF DisableChaseAll, AllQuiet, Tables
<1>4. AllQuiet(h, EnableChaseAll(h)) /\ (MotionComplete(h) => \A i \in Hardpoints : EnableChaseAll(h)[i].motion = "Chasing")
  <2>1. CASE MotionComplete(h)
    BY <1>1, <2>1 DEF EnableChaseAll, AllQuiet, Tables
  <2>2. CASE ~MotionComplete(h)
    BY <2>2 DEF EnableChaseAll, AllQuiet, Quiet
  <2> QED BY <2>1, <2>2
<1> QED BY <1>2, <1>3, <1>4

LEMMA ResetWaitFits ==
  ASSUME NEW h \in Tables
  PROVE  /\ ResetWait(h) \in Tables
         /\ \A i \in Hardpoints : /\ ResetWait(h)[i].motion = h[i].motion
                                 /\ ResetWait(h)[i].wait = FirstWait(i) /\ ResetWait(h)[i].samples = 0
<1>1. 0 \in ReadingCounts /\ \A i \in Hardpoints : FirstWait(i) \in Waits
  BY HardValues DEF FirstWait
<1>2. ASSUME NEW i \in Hardpoints
      PROVE  LET t == [h[i] EXCEPT !.wait = FirstWait(i), !.samples = 0]
             IN t \in HardStates /\ t.motion = h[i].motion /\ t.wait = FirstWait(i) /\ t.samples = 0
  BY <1>1 DEF Tables, HardStates
<1> QED BY <1>2 DEF ResetWait, Tables

\* Moving to an encoder reading or by a number of steps: a hardpoint that does not stand by
\* refuses, or has nothing to do and stands by.
MoveAccepted(h, g, m) ==
  \A i \in Hardpoints : g[i].motion \in {"Standby", m} /\ (h[i].motion # "Standby" => g[i].motion = "Standby")

LEMMA MoveFits ==
  ASSUME NEW h \in Tables, NEW n \in [Hardpoints -> Int]
  PROVE  /\ AllQuiet(h, Move(h, n))
         /\ Move(h, n) = h \/ MoveAccepted(h, Move(h, n), "Stepping")
<1>1. CASE \E i \in Hardpoints : h[i].motion # "Standby" /\ n[i] # 0
  BY <1>1 DEF Move, AllQuiet, Quiet
<1>2. CASE ~\E i \in Hardpoints : h[i].motion # "Standby" /\ n[i] # 0
  <2> DEFINE g == [i \in Hardpoints |-> [h[i] EXCEPT !.queued = n[i],
                                                    !.motion = IF n[i] # 0 THEN "Stepping" ELSE "Standby"]]
  <2>1. Move(h, n) = Scaled(g)
    BY <1>2 DEF Move
  <2>2. ASSUME NEW i \in Hardpoints
        PROVE  /\ g[i] \in HardStates /\ Quiet(h[i], g[i])
               /\ g[i].motion = IF n[i] # 0 THEN "Stepping" ELSE "Standby"
    <3>1. h[i] \in HardStates /\ n[i] \in Int
      BY DEF Tables
    <3>2. g[i] = Ordering(h[i], n[i], IF n[i] # 0 THEN "Stepping" ELSE "Standby")
      BY DEF Ordering
    <3> HIDE DEF g
    <3>3. (IF n[i] # 0 THEN "Stepping" ELSE "Standby") \in Given
      BY DEF Given
    <3> QED BY <3>1, <3>2, <3>3, OrderingIsQuiet
  <2>3. AllQuiet(h, g)
    BY <2>2 DEF AllQuiet, Tables
  <2> HIDE DEF g
  <2>4. AllQuiet(g, Scaled(g)) /\ \A i \in Hardpoints : Scaled(g)[i].motion = g[i].motion
    BY <2>3, ScaledFits DEF AllQuiet
  <2> QED BY <1>2, <2>1, <2>2, <2>3, <2>4, AllQuietComposes DEF MoveAccepted
<1> QED BY <1>1, <1>2

LEMMA MoveToEncoderFits ==
  ASSUME NEW h \in Tables, NEW t \in [Hardpoints -> Int], encoder \in [Hardpoints -> Int]
  PROVE  /\ AllQuiet(h, MoveToEncoder(h, t))
         /\ MoveToEncoder(h, t) = h \/ MoveAccepted(h, MoveToEncoder(h, t), "QuickPositioning")
<1>1. CASE \E i \in Hardpoints : h[i].motion # "Standby" /\ t[i] # encoder[i]
  BY <1>1 DEF MoveToEncoder, AllQuiet, Quiet
<1>2. CASE ~\E i \in Hardpoints : h[i].motion # "Standby" /\ t[i] # encoder[i]
  <2> DEFINE n(i) == Quick(t[i] - encoder[i])
             g == [i \in Hardpoints |-> [h[i] EXCEPT !.target = t[i], !.stable = 0, !.queued = n(i),
                                            !.motion = IF n(i) # 0 THEN "QuickPositioning" ELSE "Standby"]]
  <2>1. MoveToEncoder(h, t) = Scaled(g)
    BY <1>2 DEF MoveToEncoder
  <2>2. ASSUME NEW i \in Hardpoints
        PROVE  n(i) \in Int /\ (t[i] = encoder[i] => n(i) = 0)
    <3>1. t[i] - encoder[i] \in Int /\ Margin \in Nat /\ (t[i] = encoder[i] => t[i] - encoder[i] = 0)
      BY HardpointAssumption
    <3> QED BY <3>1 DEF Quick, Abs
  <2> HIDE DEF n
  <2>3. ASSUME NEW i \in Hardpoints
        PROVE  /\ g[i] \in HardStates /\ Quiet(h[i], g[i])
               /\ g[i].motion = IF n(i) # 0 THEN "QuickPositioning" ELSE "Standby"
    <3>1. h[i] \in HardStates /\ t[i] \in Int /\ n(i) \in Int
      BY <2>2 DEF Tables
    <3>2. g[i] = Targeting(h[i], t[i], n(i), IF n(i) # 0 THEN "QuickPositioning" ELSE "Standby")
      BY DEF Targeting
    <3> HIDE DEF g
    <3>3. (IF n(i) # 0 THEN "QuickPositioning" ELSE "Standby") \in Given
      BY DEF Given
    <3> QED BY <3>1, <3>2, <3>3, TargetingIsQuiet
  <2>4. AllQuiet(h, g)
    BY <2>3 DEF AllQuiet, Tables
  <2> HIDE DEF g
  <2>5. AllQuiet(g, Scaled(g)) /\ \A i \in Hardpoints : Scaled(g)[i].motion = g[i].motion
    BY <2>4, ScaledFits DEF AllQuiet
  <2> QED BY <1>2, <2>1, <2>2, <2>3, <2>4, <2>5, AllQuietComposes DEF MoveAccepted
<1> QED BY <1>1, <1>2

----------------------------------------------------------------------------
(* The parts of an update. *)

LEMMA ForcesAreNumbers ==
  ASSUME TypeOK
  PROVE  force \in [Hardpoints -> Int]
BY HardpointAssumption DEF TypeOK

\* updateSteps leaves waiting alone, and when the motors are driven it has stopped those that
\* reached a limit switch.
LEMMA UpdatedFits ==
  ASSUME TypeOK, NEW h \in Tables
  PROVE  /\ AllQuiet(h, Updated(h))
         /\ \A i \in Hardpoints : Arrives(h[i], Updated(h)[i])
         /\ toggle = 0 => \A i \in Hardpoints : Stops(Updated(h)[i], encoder[i])
<1>1. CASE toggle # 0
  BY <1>1 DEF Updated, AllQuiet, Quiet, Arrives
<1>2. CASE toggle = 0
  <2>1. Updated(h) = [i \in Hardpoints |-> UpdateSteps(h[i], encoder[i], force[i])]
    BY <1>2 DEF Updated
  <2>2. ASSUME NEW i \in Hardpoints
        PROVE  /\ UpdateSteps(h[i], encoder[i], force[i]) \in HardStates
               /\ Quiet(h[i], UpdateSteps(h[i], encoder[i], force[i]))
               /\ Arrives(h[i], UpdateSteps(h[i], encoder[i], force[i]))
               /\ Stops(UpdateSteps(h[i], encoder[i], force[i]), encoder[i])
    <3>1. h[i] \in HardStates /\ encoder[i] \in Int /\ force[i] \in Int
      BY ForcesAreNumbers DEF Tables, TypeOK
    <3> QED BY <3>1, UpdateStepsFits
  <2>3. Updated(h) \in Tables
    BY <2>1, <2>2 DEF Tables
  <2> QED BY <2>1, <2>2, <2>3 DEF AllQuiet
<1> QED BY <1>1, <1>2

LEMMA CheckedFits ==
  ASSUME TypeOK, NEW limits
  PROVE  /\ States(Checked(hard, limits)) \in Tables
         /\ \A i \in Hardpoints : TolerancePossible(i, hard[i], States(Checked(hard, limits))[i], limits)
<1>1. ASSUME NEW i \in Hardpoints
      PROVE  /\ Tolerance(i, hard[i], limits).state \in HardStates
             /\ TolerancePossible(i, hard[i], Tolerance(i, hard[i], limits).state, limits)
  BY ToleranceFits DEF TypeOK
<1>2. States(Checked(hard, limits)) = [i \in Hardpoints |-> Tolerance(i, hard[i], limits).state]
  BY DEF States, Checked
<1> QED BY <1>1, <1>2 DEF Tables

\* What the motors do stays within the limits, and a jolt stays within the switches.
LEMMA ExchangeFits ==
  ASSUME TypeOK, WithinLimits, NEW h \in Tables, Exchange(h),
         toggle = 0 => \A i \in Hardpoints : Stops(h[i], encoder[i])
  PROVE  /\ toggle' \in 0 .. Period - 1 /\ force' \in [Hardpoints -> Forces]
         /\ elevation' \in Elevations
         /\ encoder' \in [Hardpoints -> Int] /\ WithinLimits'
         /\ budget' \in [kinds : SUBSET Kinds, commands : Nat, jolts : Nat, loads : Nat, turns : Nat, elevation : Elevations, start : Starts]
         /\ budget'.commands = budget.commands
<1>0. Period \in Nat \ {0} /\ MaxSteps \in Nat \ {0} /\ Top \in Nat \ {0} /\ Jolt \in Nat
  BY HardpointAssumption
<1>1. toggle' \in 0 .. Period - 1
  BY <1>0 DEF Exchange, TypeOK
<1>2. ASSUME NEW i \in Hardpoints
      PROVE  Driven(h, i) \in Int /\ Driven(h, i) \in 1 - MaxSteps .. Top + MaxSteps - 1
  <2>1. encoder[i] \in Int /\ encoder[i] \in 1 - MaxSteps .. Top + MaxSteps - 1
        /\ h[i].steps \in -MaxSteps .. MaxSteps
    BY HardTypes DEF TypeOK, WithinLimits, Tables
  <2> QED BY <1>0, <2>1 DEF Driven, Stops
<1>3. ASSUME NEW i \in Hardpoints, NEW n \in -Jolt .. Jolt
      PROVE  CoerceIntoRange(0, Top, Driven(h, i) + n) \in 1 - MaxSteps .. Top + MaxSteps - 1
  <2> DEFINE v == Driven(h, i) + n
  <2>1. v \in Int
    BY <1>0, <1>2
  <2> HIDE DEF v
  <2>2. CoerceIntoRange(0, Top, v) \in Int /\ 0 <= CoerceIntoRange(0, Top, v) /\ CoerceIntoRange(0, Top, v) <= Top
    BY <1>0, <2>1, CoerceFacts
  <2>3. CoerceIntoRange(0, Top, v) \in 1 - MaxSteps .. Top + MaxSteps - 1
    BY <1>0, <2>2
  <2> QED BY <2>3 DEF v
<1>4. CASE encoder' = [i \in Hardpoints |-> Driven(h, i)] /\ UNCHANGED <<force, elevation, budget>>
  BY <1>1, <1>2, <1>4 DEF TypeOK, WithinLimits
<1>5. CASE /\ budget.jolts > 0 /\ budget' = [budget EXCEPT !.jolts = @ - 1]
           /\ \E i \in Hardpoints, n \in -Jolt .. Jolt :
                encoder' = [j \in Hardpoints |-> IF j # i THEN Driven(h, j)
                              ELSE CoerceIntoRange(0, Top, Driven(h, i) + n)]
           /\ UNCHANGED <<force, elevation>>
  <2>1. budget' \in [kinds : SUBSET Kinds, commands : Nat, jolts : Nat, loads : Nat, turns : Nat, elevation : Elevations, start : Starts]
        /\ budget'.commands = budget.commands
    <3>1. budget \in [kinds : SUBSET Kinds, commands : Nat, jolts : Nat, loads : Nat, turns : Nat, elevation : Elevations, start : Starts]
      BY DEF TypeOK
    <3> QED BY <1>5, <3>1
  <2>2. encoder' \in [Hardpoints -> Int] /\ WithinLimits'
    <3>1. PICK i \in Hardpoints, n \in -Jolt .. Jolt :
                encoder' = [j \in Hardpoints |-> IF j # i THEN Driven(h, j)
                              ELSE CoerceIntoRange(0, Top, Driven(h, i) + n)]
      BY <1>5
    <3>2. \A j \in Hardpoints : encoder'[j] \in 1 - MaxSteps .. Top + MaxSteps - 1
      BY <1>2, <1>3, <3>1
    <3>3. \A j \in Hardpoints : encoder'[j] \in Int
      BY <1>0, <3>2
    <3> QED BY <3>1, <3>2, <3>3 DEF WithinLimits
  <2> QED BY <1>1, <1>5, <2>1, <2>2 DEF TypeOK
<1>6. CASE /\ budget.loads > 0 /\ budget' = [budget EXCEPT !.loads = @ - 1]
           /\ \E i \in Hardpoints, f \in Forces : force' = [force EXCEPT ![i] = f]
           /\ encoder' = [i \in Hardpoints |-> Driven(h, i)]
           /\ UNCHANGED elevation
  <2>1. budget' \in [kinds : SUBSET Kinds, commands : Nat, jolts : Nat, loads : Nat, turns : Nat, elevation : Elevations, start : Starts]
        /\ budget'.commands = budget.commands
    <3>1. budget \in [kinds : SUBSET Kinds, commands : Nat, jolts : Nat, loads : Nat, turns : Nat, elevation : Elevations, start : Starts]
      BY DEF TypeOK
    <3> QED BY <1>6, <3>1
  <2>2. encoder' \in [Hardpoints -> Int] /\ WithinLimits'
    BY <1>2, <1>6 DEF WithinLimits
  <2>3. force' \in [Hardpoints -> Forces] /\ elevation' \in Elevations
    BY <1>6 DEF TypeOK
  <2> QED BY <1>1, <2>1, <2>2, <2>3
<1>7. CASE /\ budget.turns > 0 /\ budget' = [budget EXCEPT !.turns = @ - 1]
           /\ elevation' \in Elevations
           /\ encoder' = [i \in Hardpoints |-> Driven(h, i)]
           /\ UNCHANGED force
  <2>1. budget' \in [kinds : SUBSET Kinds, commands : Nat, jolts : Nat, loads : Nat, turns : Nat, elevation : Elevations, start : Starts]
        /\ budget'.commands = budget.commands
    <3>1. budget \in [kinds : SUBSET Kinds, commands : Nat, jolts : Nat, loads : Nat, turns : Nat, elevation : Elevations, start : Starts]
      BY DEF TypeOK
    <3> QED BY <1>7, <3>1
  <2>2. encoder' \in [Hardpoints -> Int] /\ WithinLimits'
    BY <1>2, <1>7 DEF WithinLimits
  <2>3. force' \in [Hardpoints -> Forces] /\ elevation' \in Elevations
    BY <1>7 DEF TypeOK
  <2> QED BY <1>1, <2>1, <2>2, <2>3
<1> QED BY <1>4, <1>5, <1>6, <1>7 DEF Exchange

----------------------------------------------------------------------------
(* The inductive invariant. *)

\* What the history keeps of a hardpoint.
Tallies == Nat
Switches == 0 .. 3
Histories == [waits : Tallies, steady : Tallies, seen : Switches, clean : BOOLEAN]

LEMMA HistoryTypes ==
  ASSUME NEW k \in Histories
  PROVE  k.waits \in Nat /\ k.steady \in Nat /\ k.seen \in 0 .. 3
BY DEF Histories, Tallies, Switches


\* A hardpoint that may still wait has not waited, one that waits has counted no more readings
\* than it had in range in a row where they count, and one that may see neither kind of force
\* has never waited.
WaitFits(i, s, k) ==
  /\ s.motion \in Waiting => s.motion = WaitMotion(i) /\ s.wait # "CanWait" /\ s.samples <= k.steady
  /\ s.wait = "CanWait" => s.samples = 0 /\ k.waits = 0
  /\ k.waits <= 1
  /\ i \notin Tension \cup Compression => k.waits = 0

\* Where the forces are checked; nowhere else a hardpoint waits.
Checks == \/ mode = "RaisingEngineering" /\ weight < Full
          \/ mode = "LoweringEngineering" /\ moved /\ weight > 0

\* A test has seen the switches of the legs it has behind it.
SeenFits(t, seen) ==
  /\ t = "TestingPositive" => seen >= 1
  /\ t = "TestingNegative" => seen >= 2
  /\ t \in {"MovingReference", "Passed"} => seen = 3

Inductive ==
  /\ TypeOK /\ WithinLimits
  /\ history \in [Hardpoints -> Histories]
  /\ \A i \in Hardpoints : WaitFits(i, hard[i], history[i]) /\ SeenFits(test[i], history[i].seen)
  /\ ~Checks => \A i \in Hardpoints : hard[i].motion \notin Waiting

\* What an update notes of a reading with the limits, when the hardpoint waits.
CountsReading(i, limits, steady) ==
  /\ ~Ignoring(i) => steady = history[i].steady
  /\ Ignoring(i) /\ limits # {} /\ (\A l \in limits : ForceInRange(i, hard[i], l))
       => steady = history[i].steady + 1

\* What an update notes.
LEMMA RecordedFits ==
  ASSUME Inductive, encoder' \in [Hardpoints -> Int], NEW limits, Recorded(limits)
  PROVE  /\ history' \in [Hardpoints -> Histories]
         /\ \A i \in Hardpoints :
              /\ history'[i].waits = IF hard[i].motion \notin Waiting /\ hard'[i].motion \in Waiting
                                      THEN history[i].waits + 1 ELSE history[i].waits
              /\ hard[i].motion \in Waiting /\ hard'[i].motion \in Waiting
                  => CountsReading(i, limits, history'[i].steady)
              /\ history'[i].seen = Seen(i) /\ Seen(i) >= history[i].seen
<1>1. ASSUME NEW i \in Hardpoints
      PROVE  Seen(i) \in 0 .. 3 /\ Seen(i) >= history[i].seen
  <2>1. history[i].seen \in 0 .. 3
    BY HistoryTypes DEF Inductive
  <2> QED BY <2>1 DEF Seen
<1> DEFINE new(i) == [history[i] EXCEPT
          !.waits = IF hard[i].motion \notin Waiting /\ hard'[i].motion \in Waiting THEN @ + 1 ELSE @,
          !.steady = IF ~(hard[i].motion \in Waiting /\ hard'[i].motion \in Waiting) THEN 0
                     ELSE IF ~Ignoring(i) THEN @
                     ELSE IF limits # {} /\ \A l \in limits : ForceInRange(i, hard[i], l) THEN @ + 1 ELSE 0,
          !.seen = Seen(i)]
<1>2. history' = [i \in Hardpoints |-> new(i)]
  BY DEF Recorded
<1>3. ASSUME NEW i \in Hardpoints
      PROVE  /\ new(i) \in Histories
             /\ new(i).waits = IF hard[i].motion \notin Waiting /\ hard'[i].motion \in Waiting
                                      THEN history[i].waits + 1 ELSE history[i].waits
             /\ hard[i].motion \in Waiting /\ hard'[i].motion \in Waiting
                  => CountsReading(i, limits, new(i).steady)
             /\ new(i).seen = Seen(i)
  <2> DEFINE k == history[i]
             w == IF hard[i].motion \notin Waiting /\ hard'[i].motion \in Waiting THEN k.waits + 1 ELSE k.waits
             y == IF ~(hard[i].motion \in Waiting /\ hard'[i].motion \in Waiting) THEN 0
                  ELSE IF ~Ignoring(i) THEN k.steady
                  ELSE IF limits # {} /\ \A l \in limits : ForceInRange(i, hard[i], l) THEN k.steady + 1 ELSE 0
             n == Seen(i)
  <2>1. k \in Histories /\ n \in Switches
    BY <1>1 DEF Inductive, Switches
  <2>2. k.waits \in Nat /\ k.steady \in Nat
    BY <2>1, HistoryTypes
  <2>3. w \in Tallies /\ y \in Tallies
    <3> HIDE DEF k
    <3> QED BY <2>2 DEF Tallies
  <2>4. new(i) = [k EXCEPT !.waits = w, !.steady = y, !.seen = n]
    OBVIOUS
  <2> HIDE DEF k, w, y, n, new
  <2>5. new(i) \in Histories /\ new(i).waits = w /\ new(i).steady = y /\ new(i).seen = n
    BY <2>1, <2>3, <2>4 DEF Histories
  <2>6. hard[i].motion \in Waiting /\ hard'[i].motion \in Waiting => CountsReading(i, limits, y)
    BY DEF CountsReading, y, k
  <2> QED BY <2>5, <2>6 DEF k, w, n
<1> HIDE DEF new
<1> QED BY <1>1, <1>2, <1>3

\* An update that does not check the forces leaves no hardpoint waiting.
LEMMA UncheckedUpdate ==
  ASSUME Inductive, encoder' \in [Hardpoints -> Int], NEW limits, Recorded(limits), AllQuiet(hard, hard'),
         \A i \in Hardpoints : hard[i].motion \notin Waiting
  PROVE  \A i \in Hardpoints : WaitFits(i, hard'[i], history'[i]) /\ hard'[i].motion \notin Waiting
<1> SUFFICES ASSUME NEW i \in Hardpoints
             PROVE  WaitFits(i, hard'[i], history'[i]) /\ hard'[i].motion \notin Waiting
  OBVIOUS
<1>1. Quiet(hard[i], hard'[i]) /\ hard[i].motion \notin Waiting /\ WaitFits(i, hard[i], history[i])
  BY DEF AllQuiet, Inductive
<1>2. hard'[i].motion \notin Waiting
  BY <1>1 DEF Quiet
<1>3. history'[i].waits = history[i].waits
  BY <1>2, RecordedFits
<1> QED BY <1>1, <1>2, <1>3 DEF WaitFits, Quiet

\* An update that checks them lets a hardpoint wait once, and counts its readings.
LEMMA CheckedUpdate ==
  ASSUME Inductive, encoder' \in [Hardpoints -> Int], NEW limits, Recorded({limits}), NEW g \in Tables,
         \A i \in Hardpoints : TolerancePossible(i, hard[i], g[i], limits), AllQuiet(g, hard')
  PROVE  \A i \in Hardpoints : WaitFits(i, hard'[i], history'[i])
<1> SUFFICES ASSUME NEW i \in Hardpoints
             PROVE  WaitFits(i, hard'[i], history'[i])
  OBVIOUS
<1> DEFINE s == hard[i]
           t == g[i]
           u == hard'[i]
           k == history[i]
           n == history'[i]
<1>1. /\ Quiet(t, u) /\ WaitFits(i, s, k) /\ TolerancePossible(i, s, t, limits)
      /\ s.samples \in Nat /\ k.waits \in Nat /\ k.steady \in Nat /\ n.waits \in Nat /\ n.steady \in Nat
  <2>1. s \in HardStates /\ k \in Histories
    BY DEF Inductive, TypeOK
  <2>2. n \in Histories
    BY RecordedFits
  <2>3. s.samples \in Nat /\ k.waits \in Nat /\ k.steady \in Nat /\ n.waits \in Nat /\ n.steady \in Nat
    <3> HIDE DEF s, k, n
    <3> QED BY <2>1, <2>2, HardTypes, HistoryTypes
  <2> QED BY <2>3 DEF AllQuiet, Inductive
<1>2. /\ n.waits = IF s.motion \notin Waiting /\ u.motion \in Waiting THEN k.waits + 1 ELSE k.waits
      /\ s.motion \in Waiting /\ u.motion \in Waiting /\ ~Ignoring(i) => n.steady = k.steady
      /\ s.motion \in Waiting /\ u.motion \in Waiting /\ Ignoring(i) /\ ForceInRange(i, s, limits)
           => n.steady = k.steady + 1
  <2>1. {limits} # {} /\ \A l \in {limits} : l = limits
    OBVIOUS
  <2> DEFINE one == {limits}
  <2>2. Recorded(one) /\ one # {} /\ \A l \in one : l = limits
    BY <2>1
  <2> HIDE DEF one
  <2>3. /\ n.waits = IF s.motion \notin Waiting /\ u.motion \in Waiting THEN k.waits + 1 ELSE k.waits
        /\ s.motion \in Waiting /\ u.motion \in Waiting => CountsReading(i, one, n.steady)
    BY <2>2, RecordedFits
  <2> QED BY <2>2, <2>3 DEF CountsReading
<1>3. /\ WaitMotion(i) \in Waiting /\ "Chasing" \notin Waiting
      /\ Ignoring(i) => i \in Tension \cup Compression
  BY WaitMotionFacts, WaitingIsMotion DEF Ignoring
<1> HIDE DEF s, t, u, k, n
<1>4. StartsToWait(i, s, t) => WaitFits(i, u, n)
  BY <1>1, <1>2, <1>3 DEF StartsToWait, WaitFits, Quiet
<1>5. KeepsWaiting(i, s, t, limits) => WaitFits(i, u, n)
  BY <1>1, <1>2, <1>3 DEF KeepsWaiting, WaitFits, Quiet
<1>6. EndsWaiting(i, s, t, limits) => WaitFits(i, u, n)
  BY <1>1, <1>2, <1>3 DEF EndsWaiting, WaitFits, Quiet
<1>7. DoesNotWait(i, s, t) => WaitFits(i, u, n)
  BY <1>1, <1>2, <1>3 DEF DoesNotWait, WaitFits, Quiet
<1> QED BY <1>1, <1>4, <1>5, <1>6, <1>7 DEF TolerancePossible, u, n

\* A command that keeps the history keeps what is noted about waiting.
LEMMA QuietCommand ==
  ASSUME Inductive, AllQuiet(hard, hard'),
         \A i \in Hardpoints : history'[i].waits = history[i].waits /\ history'[i].steady = history[i].steady
  PROVE  /\ \A i \in Hardpoints : WaitFits(i, hard'[i], history'[i])
         /\ \A i \in Hardpoints : hard'[i].motion \in Waiting => hard[i].motion \in Waiting
<1> SUFFICES ASSUME NEW i \in Hardpoints
             PROVE  /\ WaitFits(i, hard'[i], history'[i])
                    /\ hard'[i].motion \in Waiting => hard[i].motion \in Waiting
  OBVIOUS
<1>1. Quiet(hard[i], hard'[i]) /\ WaitFits(i, hard[i], history[i])
  BY DEF AllQuiet, Inductive
<1> QED BY <1>1 DEF WaitFits, Quiet

\* So does the history that a command disturbs, and one that is started anew forgets it.
LEMMA DisturbedFits ==
  ASSUME Inductive, Disturbed
  PROVE  /\ history' \in [Hardpoints -> Histories]
         /\ \A i \in Hardpoints : /\ history'[i].waits = history[i].waits
                                 /\ history'[i].steady = history[i].steady
                                 /\ history'[i].seen = history[i].seen
<1>1. ASSUME NEW i \in Hardpoints
      PROVE  LET n == [history[i] EXCEPT !.clean = FALSE]
             IN /\ n \in Histories
                /\ n.waits = history[i].waits /\ n.steady = history[i].steady /\ n.seen = history[i].seen
  <2>1. history[i] \in Histories
    BY DEF Inductive
  <2> QED BY <2>1 DEF Histories
<1> QED BY <1>1 DEF Disturbed

LEMMA RestartedFits ==
  ASSUME Inductive, Restarted
  PROVE  /\ history' \in [Hardpoints -> Histories]
         /\ \A i \in Hardpoints : /\ history'[i].waits = 0
                                 /\ history'[i].seen = history[i].seen
<1>1. ASSUME NEW i \in Hardpoints
      PROVE  LET n == [history[i] EXCEPT !.waits = 0, !.steady = 0, !.clean = FALSE]
             IN n \in Histories /\ n.waits = 0 /\ n.seen = history[i].seen
  <2>1. history[i] \in Histories
    BY DEF Inductive
  <2>2. 0 \in Tallies
    BY DEF Tallies
  <2> QED BY <2>1, <2>2 DEF Histories
<1> QED BY <1>1 DEF Restarted

\* A command takes one from the bound on commands.
LEMMA OrderedFits ==
  ASSUME TypeOK, NEW kind, Ordered(kind)
  PROVE  /\ budget' \in [kinds : SUBSET Kinds, commands : Nat, jolts : Nat, loads : Nat, turns : Nat, elevation : Elevations, start : Starts]
         /\ budget'.commands < budget.commands
         /\ UNCHANGED <<toggle, encoder, force, elevation>>
<1>1. budget \in [kinds : SUBSET Kinds, commands : Nat, jolts : Nat, loads : Nat, turns : Nat, elevation : Elevations, start : Starts]
  BY DEF TypeOK
<1>2. /\ budget.commands > 0 /\ budget' = [budget EXCEPT !.commands = @ - 1]
      /\ UNCHANGED <<toggle, encoder, force, elevation>>
  BY DEF Ordered, telemetry
<1> QED BY <1>1, <1>2

\* Stopping all tests forgets them, or leaves them as they are.
LEMMA KillTestsFits ==
  ASSUME Inductive, KillTests, \A i \in Hardpoints : history'[i].seen = history[i].seen
  PROVE  /\ test' \in [Hardpoints -> Tests]
         /\ \A i \in Hardpoints : SeenFits(test'[i], history'[i].seen)
BY DEF KillTests, Inductive, TypeOK, Tests, SeenFits

\* Where no test moves on, what it has seen only grows.
LEMMA SeenGrows ==
  ASSUME Inductive, encoder' \in [Hardpoints -> Int], NEW limits, Recorded(limits), test' = test
  PROVE  \A i \in Hardpoints : SeenFits(test'[i], history'[i].seen)
<1> SUFFICES ASSUME NEW i \in Hardpoints
             PROVE  SeenFits(test[i], history'[i].seen)
  OBVIOUS
<1>1. /\ SeenFits(test[i], history[i].seen) /\ history[i].seen \in 0 .. 3
      /\ history'[i].seen \in 0 .. 3 /\ history'[i].seen >= history[i].seen
  BY RecordedFits, HistoryTypes DEF Inductive
<1> QED BY <1>1 DEF SeenFits

----------------------------------------------------------------------------
(* The initial states. *)

LEMMA InitInductive == Init => Inductive
<1> SUFFICES ASSUME Init PROVE Inductive
  OBVIOUS
<1>1. /\ \A c \in {Top, MaxSteps, CompressionReadouts, Period, Full} : c \in Nat \ {0}
      /\ Starts \subseteq [Hardpoints -> 0 .. Top] /\ 0 \in Forces
      /\ Scenarios \subseteq [kinds : SUBSET Kinds, commands : Nat, jolts : Nat, loads : Nat, turns : Nat, elevation : Elevations, start : Starts]
  BY HardpointAssumption
<1>2. hard \in Tables /\ \A i \in Hardpoints : hard[i].motion = "Standby" /\ hard[i].samples = 0
  <2> DEFINE r(i) == [motion |-> "Standby", queued |-> 0, steps |-> 0, scaled |-> MaxSteps,
                      target |-> 0, stable |-> 0, wait |-> FirstWait(i), samples |-> 0]
  <2>1. MaxSteps \in Shares
    BY <1>1 DEF Shares
  <2>2. ASSUME NEW i \in Hardpoints
        PROVE  r(i) \in HardStates /\ r(i).motion = "Standby" /\ r(i).samples = 0
    <3>1. FirstWait(i) \in Waits
      BY HardValues DEF FirstWait
    <3> QED BY <2>1, <3>1, HardValues DEF HardStates
  <2>3. hard = [i \in Hardpoints |-> r(i)]
    BY DEF Init
  <2> HIDE DEF r
  <2> QED BY <2>2, <2>3 DEF Tables
<1>3. history \in [Hardpoints -> Histories] /\ \A i \in Hardpoints : history[i].waits = 0
  BY DEF Init, Histories, Tallies, Switches
<1>4. TypeOK
  <2>1. mode \in Modes /\ weight \in 0 .. Full /\ moved \in BOOLEAN /\ toggle \in 0 .. Period - 1
    <3>1. Full \in Nat \ {0} /\ Period \in Nat \ {0}
      BY <1>1
    <3>2. mode = "ParkedEngineering" /\ weight = 0 /\ moved = FALSE /\ toggle = 0
      BY DEF Init
    <3>3. weight \in 0 .. Full /\ toggle \in 0 .. Period - 1
      BY <3>1, <3>2
    <3> QED BY <3>2, <3>3 DEF Modes
  <2>2. force \in [Hardpoints -> Forces] /\ test \in [Hardpoints -> Tests]
    BY <1>1 DEF Init, Tests
  <2>3. encoder \in [Hardpoints -> Int]
    <3>1. encoder \in [Hardpoints -> 0 .. Top]
      BY <1>1 DEF Init
    <3> QED BY <3>1
  <2>5. elevation \in Elevations
    BY <1>1 DEF Init
  <2>4. budget \in [kinds : SUBSET Kinds, commands : Nat, jolts : Nat, loads : Nat, turns : Nat, elevation : Elevations, start : Starts]
    BY <1>1 DEF Init
  <2> QED BY <1>2, <2>1, <2>2, <2>3, <2>4, <2>5 DEF TypeOK, Tables
<1>5. WithinLimits
  <2>1. encoder \in [Hardpoints -> 0 .. Top]
    BY <1>1 DEF Init
  <2>2. \A e \in 0 .. Top : e \in 1 - MaxSteps .. Top + MaxSteps - 1
    <3>1. MaxSteps \in Nat \ {0} /\ Top \in Nat \ {0}
      BY <1>1
    <3> QED BY <3>1
  <2> QED BY <2>1, <2>2 DEF WithinLimits
<1>6. \A i \in Hardpoints : WaitFits(i, hard[i], history[i]) /\ hard[i].motion \notin Waiting
  BY <1>2, <1>3, WaitingIsMotion DEF WaitFits
<1>7. \A i \in Hardpoints : SeenFits(test[i], history[i].seen)
  BY DEF Init, SeenFits
<1> QED BY <1>3, <1>4, <1>5, <1>6, <1>7 DEF Inductive

----------------------------------------------------------------------------
(* The updates. *)

LEMMA SteadyUpdateKeeps ==
  ASSUME Inductive, SteadyUpdate
  PROVE  Inductive'
<1>1. TypeOK /\ WithinLimits /\ hard \in Tables /\ ~Checks
  BY DEF Inductive, TypeOK, Tables, SteadyUpdate, Checks
<1>2. AllQuiet(hard, hard') /\ (toggle = 0 => \A i \in Hardpoints : Stops(hard'[i], encoder[i]))
  BY <1>1, UpdatedFits DEF SteadyUpdate
<1>3. /\ toggle' \in 0 .. Period - 1 /\ force' \in [Hardpoints -> Forces]
      /\ elevation' \in Elevations
      /\ encoder' \in [Hardpoints -> Int] /\ WithinLimits'
      /\ budget' \in [kinds : SUBSET Kinds, commands : Nat, jolts : Nat, loads : Nat, turns : Nat, elevation : Elevations, start : Starts]
  BY <1>1, <1>2, ExchangeFits DEF SteadyUpdate, AllQuiet
<1>4. Recorded({}) /\ UNCHANGED <<mode, weight, moved, test>>
  BY DEF SteadyUpdate
<1>5. \A i \in Hardpoints : WaitFits(i, hard'[i], history'[i]) /\ hard'[i].motion \notin Waiting
  <2>1. \A i \in Hardpoints : hard[i].motion \notin Waiting
    BY <1>1 DEF Inductive
  <2> QED BY <1>2, <1>3, <1>4, <2>1, UncheckedUpdate
<1>6. history' \in [Hardpoints -> Histories] /\ \A i \in Hardpoints : SeenFits(test'[i], history'[i].seen)
  BY <1>3, <1>4, RecordedFits, SeenGrows
<1>7. TypeOK'
  BY <1>1, <1>2, <1>3, <1>4 DEF TypeOK, AllQuiet, Tables
<1> QED BY <1>3, <1>5, <1>6, <1>7 DEF Inductive

\* A step of the tests orders a number of steps and goes on only past the switch it waits for.
LEMMA TestStepFits ==
  ASSUME Inductive, encoder' \in [Hardpoints -> Int], NEW h, NEW i \in Hardpoints,
         history'[i].seen = Seen(i)
  PROVE  /\ RunHardpointLoop(h, i)[1] \in Tests /\ RunHardpointLoop(h, i)[2] \in Int
         /\ RunHardpointLoop(h, i)[2] # 0 => IsTested(i)
         /\ SeenFits(RunHardpointLoop(h, i)[1], history'[i].seen)
<1>1. FarAway \in Nat /\ FarAway > 0 /\ ReferenceSteps \in Nat \ {0}
  BY HardpointAssumption
<1>2. test[i] \in Tests /\ SeenFits(test[i], history[i].seen) /\ history[i].seen \in 0 .. 3
  BY HistoryTypes DEF Inductive, TypeOK
<1> DEFINE r == RunHardpointLoop(h, i)
           k == history[i].seen
<1>3. CASE test[i] = "MovingNegative" /\ LowSwitch(i)
  <2>1. r = <<"TestingPositive", FarAway>>
    BY <1>3 DEF RunHardpointLoop
  <2>2. history'[i].seen >= 1 /\ history'[i].seen \in 0 .. 3
    BY <1>2, <1>3 DEF Seen, IsTested, Tested, LowSwitch
  <2> QED BY <1>1, <1>3, <2>1, <2>2 DEF Tests, Tested, IsTested, SeenFits
<1>4. CASE test[i] = "MovingNegative" /\ ~LowSwitch(i) /\ h[i].motion # "Stepping"
  <2>1. r = <<"MovingNegative", -FarAway>>
    BY <1>4 DEF RunHardpointLoop
  <2> QED BY <1>1, <1>4, <2>1 DEF Tests, Tested, IsTested, SeenFits
<1>5. CASE test[i] = "TestingPositive" /\ encoder'[i] >= Top
  <2>1. r = <<"TestingNegative", -FarAway>>
    BY <1>5 DEF RunHardpointLoop
  <2>2. history'[i].seen >= 2 /\ history'[i].seen \in 0 .. 3
    BY <1>2, <1>5 DEF Seen, IsTested, Tested, SeenFits
  <2> QED BY <1>1, <1>5, <2>1, <2>2 DEF Tests, Tested, IsTested, SeenFits
<1>6. CASE test[i] = "TestingNegative" /\ LowSwitch(i)
  <2>1. r = <<"MovingReference", ReferenceSteps>>
    BY <1>6 DEF RunHardpointLoop
  <2>2. history'[i].seen = 3
    BY <1>2, <1>6 DEF Seen, IsTested, Tested, LowSwitch, SeenFits
  <2> QED BY <1>1, <1>6, <2>1, <2>2 DEF Tests, Tested, IsTested, SeenFits
<1>7. CASE test[i] = "MovingReference" /\ h[i].motion = "Standby"
  <2>1. r = <<"Passed", 0>>
    BY <1>7 DEF RunHardpointLoop
  <2>2. history'[i].seen = 3
    BY <1>2, <1>7 DEF Seen, SeenFits
  <2> QED BY <1>1, <2>1, <2>2 DEF Tests, SeenFits
<1>8. CASE /\ ~(test[i] = "MovingNegative" /\ LowSwitch(i))
           /\ ~(test[i] = "MovingNegative" /\ ~LowSwitch(i) /\ h[i].motion # "Stepping")
           /\ ~(test[i] = "TestingPositive" /\ encoder'[i] >= Top)
           /\ ~(test[i] = "TestingNegative" /\ LowSwitch(i))
           /\ ~(test[i] = "MovingReference" /\ h[i].motion = "Standby")
  <2>1. r = <<test[i], 0>>
    BY <1>8 DEF RunHardpointLoop
  <2>2. history'[i].seen >= k /\ history'[i].seen \in 0 .. 3
    BY <1>2 DEF Seen
  <2> QED BY <1>2, <2>1, <2>2 DEF SeenFits
<1> QED BY <1>3, <1>4, <1>5, <1>6, <1>7, <1>8

\* The hardpoints that are sent on step, the others are left alone.
SentOn(h) ==
  LET sent == {i \in Hardpoints : RunHardpointLoop(h, i)[2] # 0}
  IN IF sent = {} THEN h
     ELSE Scaled([i \in Hardpoints |-> IF i \notin sent THEN h[i]
                    ELSE [h[i] EXCEPT !.queued = RunHardpointLoop(h, i)[2], !.motion = "Stepping"]])

LEMMA SentOnFits ==
  ASSUME NEW h \in Tables, \A i \in Hardpoints : RunHardpointLoop(h, i)[2] \in Int
  PROVE  /\ AllQuiet(h, SentOn(h))
         /\ \A i \in Hardpoints : SentOn(h)[i].motion = IF RunHardpointLoop(h, i)[2] # 0 THEN "Stepping"
                                                       ELSE h[i].motion
<1> DEFINE sent == {i \in Hardpoints : RunHardpointLoop(h, i)[2] # 0}
           g == [i \in Hardpoints |-> IF i \notin sent THEN h[i]
                   ELSE [h[i] EXCEPT !.queued = RunHardpointLoop(h, i)[2], !.motion = "Stepping"]]
<1>1. CASE sent = {}
  BY <1>1 DEF SentOn, AllQuiet, Quiet
<1>2. CASE sent # {}
  <2>1. SentOn(h) = Scaled(g)
    BY <1>2 DEF SentOn
  <2>2. ASSUME NEW i \in Hardpoints
        PROVE  /\ g[i] \in HardStates /\ Quiet(h[i], g[i])
               /\ g[i].motion = IF RunHardpointLoop(h, i)[2] # 0 THEN "Stepping" ELSE h[i].motion
    <3> DEFINE q == RunHardpointLoop(h, i)[2]
    <3>1. q \in Int /\ h[i] \in HardStates
      BY DEF Tables
    <3>2. g[i] = IF q = 0 THEN h[i] ELSE [h[i] EXCEPT !.queued = q, !.motion = "Stepping"]
      OBVIOUS
    <3> HIDE DEF q, g
    <3>3. g[i] \in HardStates /\ Quiet(h[i], g[i]) /\ g[i].motion = IF q # 0 THEN "Stepping" ELSE h[i].motion
      <4>1. CASE q = 0
        BY <3>1, <3>2, <4>1 DEF Quiet
      <4>2. CASE q # 0
        <5>1. g[i] = Ordering(h[i], q, "Stepping")
          BY <3>2, <4>2 DEF Ordering
        <5>2. "Stepping" \in Given
          BY DEF Given
        <5> QED BY <3>1, <4>2, <5>1, <5>2, OrderingIsQuiet
      <4> QED BY <4>1, <4>2
    <3> QED BY <3>3 DEF q
  <2>3. AllQuiet(h, g)
    BY <2>2 DEF AllQuiet, Tables
  <2> HIDE DEF g
  <2>4. AllQuiet(g, Scaled(g)) /\ \A i \in Hardpoints : Scaled(g)[i].motion = g[i].motion
    BY <2>3, ScaledFits DEF AllQuiet
  <2> QED BY <2>1, <2>2, <2>3, <2>4, AllQuietComposes
<1> QED BY <1>1, <1>2

LEMMA TestUpdateKeeps ==
  ASSUME Inductive, TestUpdate
  PROVE  Inductive'
<1> DEFINE h == Updated(hard)
<1>1. TypeOK /\ WithinLimits /\ hard \in Tables /\ ~Checks
  BY DEF Inductive, TypeOK, Tables, TestUpdate, Checks
<1>2. /\ Exchange(h) /\ Recorded({}) /\ UNCHANGED <<mode, weight, moved>>
      /\ test' = [i \in Hardpoints |-> RunHardpointLoop(h, i)[1]]
      /\ hard' = SentOn(h)
  BY DEF TestUpdate, SentOn
<1>3. AllQuiet(hard, h) /\ (toggle = 0 => \A i \in Hardpoints : Stops(h[i], encoder[i]))
  BY <1>1, UpdatedFits
<1> HIDE DEF h
<1>4. /\ toggle' \in 0 .. Period - 1 /\ force' \in [Hardpoints -> Forces]
      /\ elevation' \in Elevations
      /\ encoder' \in [Hardpoints -> Int] /\ WithinLimits'
      /\ budget' \in [kinds : SUBSET Kinds, commands : Nat, jolts : Nat, loads : Nat, turns : Nat, elevation : Elevations, start : Starts]
  BY <1>1, <1>2, <1>3, ExchangeFits DEF AllQuiet
<1>5. history' \in [Hardpoints -> Histories] /\ \A i \in Hardpoints : history'[i].seen = Seen(i)
  BY <1>2, <1>4, RecordedFits
<1>6. \A i \in Hardpoints : /\ RunHardpointLoop(h, i)[1] \in Tests /\ RunHardpointLoop(h, i)[2] \in Int
                           /\ SeenFits(RunHardpointLoop(h, i)[1], history'[i].seen)
  BY <1>4, <1>5, TestStepFits
<1>7. AllQuiet(hard, hard')
  <2>1. AllQuiet(h, SentOn(h))
    BY <1>3, <1>6, SentOnFits DEF AllQuiet
  <2> QED BY <1>1, <1>2, <1>3, <2>1, AllQuietComposes
<1>8. \A i \in Hardpoints : WaitFits(i, hard'[i], history'[i]) /\ hard'[i].motion \notin Waiting
  <2>1. \A i \in Hardpoints : hard[i].motion \notin Waiting
    BY <1>1 DEF Inductive
  <2> QED BY <1>2, <1>4, <1>7, <2>1, UncheckedUpdate
<1>9. TypeOK'
  <2>1. test' \in [Hardpoints -> Tests]
    BY <1>2, <1>6
  <2> QED BY <1>1, <1>2, <1>4, <1>7, <2>1 DEF TypeOK, AllQuiet, Tables
<1> QED BY <1>2, <1>4, <1>5, <1>6, <1>8, <1>9 DEF Inductive

\* A hardpoint that stands by or moves with an end does not wait after the next update.
LEMMA ArrivesNotWaiting ==
  ASSUME NEW s, NEW t, Arrives(s, t), s.motion \notin Waiting
  PROVE  t.motion \notin Waiting
BY DEF Arrives, Waiting

\* The hardpoints when the raise comes to its end: the chase is over, and unless the raise is
\* bypassed they move to the reference position.
RaiseBase(checked, ends, bypass) ==
  IF ~ends THEN checked
  ELSE IF bypass THEN DisableChaseAll(checked)
  ELSE MoveToEncoder(DisableChaseAll(checked), [i \in Hardpoints |-> Reference])

LEMMA RaiseBaseFits ==
  ASSUME TypeOK, NEW h \in Tables, NEW ends \in BOOLEAN, NEW bypass \in BOOLEAN
  PROVE  /\ AllQuiet(h, RaiseBase(h, ends, bypass))
         /\ ends => \A i \in Hardpoints : /\ RaiseBase(h, ends, bypass)[i].motion \in {"Standby", "QuickPositioning"}
                                         /\ RaiseBase(h, ends, bypass)[i].motion \notin Waiting
<1> DEFINE d == DisableChaseAll(h)
           there == [i \in Hardpoints |-> Reference]
<1>1. AllQuiet(h, d) /\ \A i \in Hardpoints : d[i].motion = "Standby"
  BY SwitchesFit
<1>2. d \in Tables /\ there \in [Hardpoints -> Int] /\ encoder \in [Hardpoints -> Int]
  BY <1>1, HardpointAssumption DEF AllQuiet, TypeOK
<1>3. /\ AllQuiet(d, MoveToEncoder(d, there))
      /\ MoveToEncoder(d, there) = d \/ MoveAccepted(d, MoveToEncoder(d, there), "QuickPositioning")
  BY <1>2, MoveToEncoderFits
<1>4. \A i \in Hardpoints : MoveToEncoder(d, there)[i].motion \in {"Standby", "QuickPositioning"}
  BY <1>1, <1>3 DEF MoveAccepted
<1>5. AllQuiet(h, MoveToEncoder(d, there))
  BY <1>1, <1>3, AllQuietComposes
<1>6. AllQuiet(h, h)
  BY DEF AllQuiet, Quiet
<1>7. \A m \in {"Standby", "QuickPositioning"} : m \notin Waiting
  BY DEF Waiting
<1>8. RaiseBase(h, ends, bypass) = IF ~ends THEN h ELSE IF bypass THEN d ELSE MoveToEncoder(d, there)
  BY DEF RaiseBase
<1> HIDE DEF d, there
<1> QED BY <1>1, <1>4, <1>5, <1>6, <1>7, <1>8

\* What a raise does in an update.
LEMMA RaiseUpdateSteps ==
  ASSUME Inductive, RaiseUpdate
  PROVE  \E g \in Tables, ends \in BOOLEAN, bypass \in BOOLEAN :
           LET base == RaiseBase(g, ends, bypass)
           IN /\ IF weight < Full THEN \A i \in Hardpoints : TolerancePossible(i, hard[i], g[i], RaiseLimits)
                                  ELSE g = hard
              /\ AllQuiet(g, base) /\ AllQuiet(base, hard') /\ AllQuiet(g, hard')
              /\ \A i \in Hardpoints : Arrives(base[i], hard'[i])
              /\ weight' \in 0 .. Full /\ (ends <=> weight < Full /\ weight' = Full)
              /\ toggle = 0 => \A i \in Hardpoints : Stops(hard'[i], encoder[i])
<1> DEFINE c == Checked(hard, RaiseLimits)
           g == IF weight < Full THEN States(c) ELSE hard
<1>1. TypeOK /\ hard \in Tables /\ weight \in 0 .. Full /\ Full \in Nat \ {0}
  BY HardpointAssumption DEF Inductive, TypeOK, Tables
<1>2. PICK raised \in BOOLEAN, bypass \in BOOLEAN :
        /\ raised => weight < Full
        /\ weight' = IF raised THEN weight + 1 ELSE weight
        /\ hard' = Updated(IF ~raised \/ weight' < Full THEN g
                          ELSE IF bypass THEN DisableChaseAll(g)
                          ELSE MoveToEncoder(DisableChaseAll(g), [i \in Hardpoints |-> Reference]))
  BY DEF RaiseUpdate
<1>3. g \in Tables /\ IF weight < Full THEN \A i \in Hardpoints : TolerancePossible(i, hard[i], g[i], RaiseLimits)
                      ELSE g = hard
  BY <1>1, CheckedFits
<1> HIDE DEF g
<1> DEFINE ends == raised /\ weight' = Full
           base == RaiseBase(g, ends, bypass)
<1>4. weight' \in 0 .. Full /\ (ends <=> weight < Full /\ weight' = Full) /\ (~ends <=> ~raised \/ weight' < Full)
  BY <1>1, <1>2
<1>5. hard' = Updated(base)
  BY <1>2, <1>4 DEF RaiseBase
<1>6. ends \in BOOLEAN
  OBVIOUS
<1> HIDE DEF ends
<1>7. AllQuiet(g, base) /\ base \in Tables
  BY <1>1, <1>3, <1>6, RaiseBaseFits DEF AllQuiet
<1> HIDE DEF base
<1>8. /\ AllQuiet(base, hard') /\ \A i \in Hardpoints : Arrives(base[i], hard'[i])
      /\ toggle = 0 => \A i \in Hardpoints : Stops(hard'[i], encoder[i])
  BY <1>1, <1>5, <1>7, UpdatedFits
<1>9. AllQuiet(g, hard')
  BY <1>3, <1>7, <1>8, AllQuietComposes
<1> QED BY <1>3, <1>4, <1>6, <1>7, <1>8, <1>9 DEF base

LEMMA RaiseUpdateKeeps ==
  ASSUME Inductive, RaiseUpdate
  PROVE  Inductive'
<1> DEFINE base(g, ends, bypass) == RaiseBase(g, ends, bypass)
<1>1. TypeOK /\ WithinLimits /\ hard \in Tables /\ weight \in 0 .. Full /\ Full \in Nat \ {0}
      /\ mode = "RaisingEngineering"
  BY HardpointAssumption DEF Inductive, TypeOK, Tables, RaiseUpdate
<1>2. PICK g \in Tables, ends \in BOOLEAN, bypass \in BOOLEAN :
        /\ IF weight < Full THEN \A i \in Hardpoints : TolerancePossible(i, hard[i], g[i], RaiseLimits)
                            ELSE g = hard
        /\ AllQuiet(g, hard')
        /\ \A i \in Hardpoints : Arrives(base(g, ends, bypass)[i], hard'[i])
        /\ weight' \in 0 .. Full /\ (ends <=> weight < Full /\ weight' = Full)
        /\ toggle = 0 => \A i \in Hardpoints : Stops(hard'[i], encoder[i])
  BY RaiseUpdateSteps
<1>3. /\ Exchange(hard') /\ UNCHANGED <<moved, test>>
      /\ Recorded(IF weight < Full THEN {RaiseLimits} ELSE {})
      /\ mode' = mode \/ (mode' = "ActiveEngineering" /\ weight' = Full)
  BY DEF RaiseUpdate
<1>4. /\ toggle' \in 0 .. Period - 1 /\ force' \in [Hardpoints -> Forces]
      /\ elevation' \in Elevations
      /\ encoder' \in [Hardpoints -> Int] /\ WithinLimits'
      /\ budget' \in [kinds : SUBSET Kinds, commands : Nat, jolts : Nat, loads : Nat, turns : Nat, elevation : Elevations, start : Starts]
  BY <1>1, <1>2, <1>3, ExchangeFits DEF AllQuiet
<1>5. /\ \A i \in Hardpoints : WaitFits(i, hard'[i], history'[i])
      /\ ~Checks' => \A i \in Hardpoints : hard'[i].motion \notin Waiting
  <2>1. CASE weight < Full
    <3>1. Recorded({RaiseLimits}) /\ \A i \in Hardpoints : TolerancePossible(i, hard[i], g[i], RaiseLimits)
      BY <1>2, <1>3, <2>1
    <3>2. \A i \in Hardpoints : WaitFits(i, hard'[i], history'[i])
      BY <1>2, <1>4, <3>1, CheckedUpdate
    <3>3. ASSUME ~Checks', NEW i \in Hardpoints
          PROVE  hard'[i].motion \notin Waiting
      <4>1. ends
        BY <1>1, <1>2, <1>3, <2>1, <3>3 DEF Checks
      <4>2. base(g, ends, bypass)[i].motion \notin Waiting
        BY <1>1, <4>1, RaiseBaseFits
      <4> QED BY <1>2, <4>2, ArrivesNotWaiting
    <3> QED BY <3>2, <3>3
  <2>2. CASE ~(weight < Full)
    <3>1. Recorded({}) /\ AllQuiet(hard, hard')
      BY <1>2, <1>3, <2>2
    <3>2. \A i \in Hardpoints : hard[i].motion \notin Waiting
      BY <1>1, <2>2 DEF Inductive, Checks
    <3> QED BY <1>4, <3>1, <3>2, UncheckedUpdate
  <2> QED BY <2>1, <2>2
<1>6. history' \in [Hardpoints -> Histories] /\ \A i \in Hardpoints : SeenFits(test'[i], history'[i].seen)
  BY <1>3, <1>4, RecordedFits, SeenGrows
<1>7. TypeOK'
  BY <1>1, <1>2, <1>3, <1>4 DEF TypeOK, AllQuiet, Tables, Modes
<1> QED BY <1>4, <1>5, <1>6, <1>7 DEF Inductive

\* The end of a lowering, or its next update: the chase is over when no weight is left.
LEMMA LowerUpdateSteps ==
  ASSUME Inductive, LowerUpdate
  PROVE  \E g \in Tables, h \in Tables :
           /\ IF moved /\ weight > 0
                THEN \A i \in Hardpoints : TolerancePossible(i, hard[i], g[i], LowerLimits)
                ELSE g = IF moved THEN hard ELSE EnableChaseAll(hard)
           /\ AllQuiet(g, h) /\ \A i \in Hardpoints : Arrives(g[i], h[i])
           /\ AllQuiet(g, hard')
           /\ hard' = IF weight' = 0 THEN DisableChaseAll(h) ELSE h
           /\ Exchange(h) /\ (toggle = 0 => \A i \in Hardpoints : Stops(h[i], encoder[i]))
           /\ weight' \in 0 .. Full /\ (weight' # weight => moved /\ weight > 0)
<1> DEFINE c == Checked(hard, LowerLimits)
           checks == moved /\ weight > 0
           g == IF checks THEN States(c) ELSE IF moved THEN hard ELSE EnableChaseAll(hard)
           h == Updated(g)
<1>1. TypeOK /\ hard \in Tables /\ weight \in 0 .. Full /\ Full \in Nat \ {0}
  BY HardpointAssumption DEF Inductive, TypeOK, Tables
<1>2. /\ weight' = IF checks /\ InTolerance(c) THEN weight - 1 ELSE weight
      /\ hard' = IF weight' = 0 THEN DisableChaseAll(h) ELSE h
      /\ Exchange(h)
  BY DEF LowerUpdate
<1>3. weight' \in 0 .. Full /\ (weight' # weight => moved /\ weight > 0)
  <2> HIDE DEF c
  <2> QED BY <1>1, <1>2
<1>4. g \in Tables /\ IF moved /\ weight > 0
                       THEN \A i \in Hardpoints : TolerancePossible(i, hard[i], g[i], LowerLimits)
                       ELSE g = IF moved THEN hard ELSE EnableChaseAll(hard)
  <2>1. EnableChaseAll(hard) \in Tables
    BY <1>1, SwitchesFit DEF AllQuiet
  <2> QED BY <1>1, <2>1, CheckedFits
<1> HIDE DEF g
<1>5. /\ AllQuiet(g, h) /\ \A i \in Hardpoints : Arrives(g[i], h[i])
      /\ toggle = 0 => \A i \in Hardpoints : Stops(h[i], encoder[i])
  BY <1>1, <1>4, UpdatedFits
<1> HIDE DEF h
<1>6. AllQuiet(g, hard')
  <2>1. h \in Tables
    BY <1>5 DEF AllQuiet
  <2>2. AllQuiet(h, DisableChaseAll(h))
    BY <2>1, SwitchesFit
  <2> QED BY <1>2, <1>4, <1>5, <2>2, AllQuietComposes
<1>7. h \in Tables
  BY <1>5 DEF AllQuiet
<1> QED BY <1>2, <1>3, <1>4, <1>5, <1>6, <1>7

LEMMA LowerUpdateKeeps ==
  ASSUME Inductive, LowerUpdate
  PROVE  Inductive'
<1>1. TypeOK /\ WithinLimits /\ hard \in Tables /\ weight \in 0 .. Full /\ moved \in BOOLEAN
      /\ mode = "LoweringEngineering"
  BY DEF Inductive, TypeOK, Tables, LowerUpdate
<1>2. PICK g \in Tables, h \in Tables :
           /\ IF moved /\ weight > 0
                THEN \A i \in Hardpoints : TolerancePossible(i, hard[i], g[i], LowerLimits)
                ELSE g = IF moved THEN hard ELSE EnableChaseAll(hard)
           /\ AllQuiet(g, hard')
           /\ hard' = IF weight' = 0 THEN DisableChaseAll(h) ELSE h
           /\ Exchange(h) /\ (toggle = 0 => \A i \in Hardpoints : Stops(h[i], encoder[i]))
           /\ weight' \in 0 .. Full
  BY LowerUpdateSteps
<1>3. /\ moved' = (moved \/ MotionComplete(hard))
      /\ Recorded(IF moved /\ weight > 0 THEN {LowerLimits} ELSE {})
      /\ mode' = (IF weight' = 0 THEN "ParkedEngineering" ELSE mode)
      /\ UNCHANGED test
  BY DEF LowerUpdate
<1>4. /\ toggle' \in 0 .. Period - 1 /\ force' \in [Hardpoints -> Forces]
      /\ elevation' \in Elevations
      /\ encoder' \in [Hardpoints -> Int] /\ WithinLimits'
      /\ budget' \in [kinds : SUBSET Kinds, commands : Nat, jolts : Nat, loads : Nat, turns : Nat, elevation : Elevations, start : Starts]
  BY <1>1, <1>2, ExchangeFits
<1>5. /\ \A i \in Hardpoints : WaitFits(i, hard'[i], history'[i])
      /\ ~Checks' => \A i \in Hardpoints : hard'[i].motion \notin Waiting
  <2>1. CASE moved /\ weight > 0
    <3>1. Recorded({LowerLimits}) /\ \A i \in Hardpoints : TolerancePossible(i, hard[i], g[i], LowerLimits)
      BY <1>2, <1>3, <2>1
    <3>2. \A i \in Hardpoints : WaitFits(i, hard'[i], history'[i])
      BY <1>2, <1>4, <3>1, CheckedUpdate
    <3>3. ASSUME ~Checks', NEW i \in Hardpoints
          PROVE  hard'[i].motion \notin Waiting
      <4>1. weight' = 0
        <5>1. moved'
          BY <1>3, <2>1
        <5>2. CASE weight' # 0
          <6>1. mode' = "LoweringEngineering"
            BY <1>1, <1>3, <5>2
          <6>2. weight' > 0
            BY <1>2, <5>2
          <6> QED BY <3>3, <5>1, <6>1, <6>2 DEF Checks
        <5> QED BY <5>2
      <4>2. hard'[i].motion = "Standby"
        BY <1>2, <4>1, SwitchesFit
      <4> QED BY <4>2, WaitingIsMotion
    <3> QED BY <3>2, <3>3
  <2>2. CASE ~(moved /\ weight > 0)
    <3>1. Recorded({})
      BY <1>3, <2>2
    <3>2. AllQuiet(hard, g)
      <4>1. AllQuiet(hard, EnableChaseAll(hard)) /\ AllQuiet(hard, hard)
        BY <1>1, SwitchesFit DEF AllQuiet, Quiet
      <4> QED BY <1>2, <2>2, <4>1
    <3>3. AllQuiet(hard, hard')
      BY <1>1, <1>2, <3>2, AllQuietComposes
    <3>4. \A i \in Hardpoints : hard[i].motion \notin Waiting
      BY <1>1, <2>2 DEF Inductive, Checks
    <3> QED BY <1>4, <3>1, <3>3, <3>4, UncheckedUpdate
  <2> QED BY <2>1, <2>2
<1>6. history' \in [Hardpoints -> Histories] /\ \A i \in Hardpoints : SeenFits(test'[i], history'[i].seen)
  BY <1>3, <1>4, RecordedFits, SeenGrows
<1>7. TypeOK'
  BY <1>1, <1>2, <1>3, <1>4 DEF TypeOK, AllQuiet, Tables, Modes
<1> QED BY <1>4, <1>5, <1>6, <1>7 DEF Inductive

----------------------------------------------------------------------------
(* The commands. *)

LEMMA StartTestKeeps ==
  ASSUME Inductive, StartTest
  PROVE  Inductive'
<1>1. PICK i \in Hardpoints :
        /\ test' = [test EXCEPT ![i] = "MovingNegative"]
        /\ history' = [history EXCEPT ![i].seen = 0, ![i].clean = TRUE]
  BY DEF StartTest
<1>2. UNCHANGED <<mode, weight, moved, hard>> /\ Ordered("test")
  BY DEF StartTest
<1>3. /\ budget' \in [kinds : SUBSET Kinds, commands : Nat, jolts : Nat, loads : Nat, turns : Nat, elevation : Elevations, start : Starts]
      /\ UNCHANGED <<toggle, encoder, force, elevation>>
  BY <1>2, OrderedFits DEF Inductive
<1>4. test' \in [Hardpoints -> Tests]
  BY <1>1 DEF Inductive, TypeOK, Tests, Tested
<1>5. \A j \in Hardpoints :
        /\ history'[j] \in Histories
        /\ history'[j].waits = history[j].waits /\ history'[j].steady = history[j].steady
        /\ j # i => history'[j] = history[j]
  <2> SUFFICES ASSUME NEW j \in Hardpoints
               PROVE  /\ history'[j] \in Histories
                      /\ history'[j].waits = history[j].waits /\ history'[j].steady = history[j].steady
                      /\ j # i => history'[j] = history[j]
    OBVIOUS
  <2>1. history \in [Hardpoints -> Histories] /\ 0 \in Switches
    BY DEF Inductive, Switches
  <2>2. CASE j = i
    <3>1. history'[i] = [history[i] EXCEPT !.seen = 0, !.clean = TRUE]
      BY <1>1, <2>1
    <3>2. history[i] \in Histories
      BY <2>1
    <3> QED BY <2>1, <2>2, <3>1, <3>2 DEF Histories
  <2>3. CASE j # i
    BY <1>1, <2>1, <2>3
  <2> QED BY <2>2, <2>3
<1>6. history' \in [Hardpoints -> Histories]
  <2>1. history \in [Hardpoints -> Histories]
    BY DEF Inductive
  <2>2. DOMAIN history' = Hardpoints /\ history' = [j \in Hardpoints |-> history'[j]]
    BY <1>1, <2>1
  <2> QED BY <1>5, <2>2
<1>7. \A j \in Hardpoints : WaitFits(j, hard'[j], history'[j])
  BY <1>2, <1>5 DEF Inductive, WaitFits
<1>8. \A j \in Hardpoints : SeenFits(test'[j], history'[j].seen)
  <2> SUFFICES ASSUME NEW j \in Hardpoints PROVE SeenFits(test'[j], history'[j].seen)
    OBVIOUS
  <2>1. CASE j = i
    <3>1. test'[j] = "MovingNegative"
      BY <1>1, <2>1 DEF Inductive, TypeOK
    <3> QED BY <3>1 DEF SeenFits
  <2>2. CASE j # i
    BY <1>1, <1>5, <2>2 DEF Inductive, TypeOK
  <2> QED BY <2>1, <2>2
<1>9. TypeOK' /\ WithinLimits' /\ (Checks' <=> Checks)
  BY <1>2, <1>3, <1>4 DEF Inductive, TypeOK, WithinLimits, Checks
<1> QED BY <1>2, <1>6, <1>7, <1>8, <1>9 DEF Inductive

\* A command that notes nothing about waiting and lets the hardpoints be checked as before.
LEMMA QuietCommandKeeps ==
  ASSUME Inductive, NEW kind, Ordered(kind), AllQuiet(hard, hard'),
         mode' \in Modes, UNCHANGED <<weight, moved>>, test' \in [Hardpoints -> Tests],
         history' \in [Hardpoints -> Histories],
         \A i \in Hardpoints :
           /\ history'[i].waits = history[i].waits /\ history'[i].steady = history[i].steady
           /\ SeenFits(test'[i], history'[i].seen),
         ~Checks' => ~Checks
  PROVE  Inductive'
<1>1. /\ budget' \in [kinds : SUBSET Kinds, commands : Nat, jolts : Nat, loads : Nat, turns : Nat, elevation : Elevations, start : Starts]
      /\ UNCHANGED <<toggle, encoder, force, elevation>>
  BY OrderedFits DEF Inductive
<1>2. TypeOK' /\ WithinLimits'
  BY <1>1 DEF Inductive, TypeOK, WithinLimits, AllQuiet, Tables
<1>3. /\ \A i \in Hardpoints : WaitFits(i, hard'[i], history'[i])
      /\ \A i \in Hardpoints : hard'[i].motion \in Waiting => hard[i].motion \in Waiting
  BY QuietCommand
<1>4. ~Checks' => \A i \in Hardpoints : hard'[i].motion \notin Waiting
  BY <1>3 DEF Inductive
<1> QED BY <1>2, <1>3, <1>4 DEF Inductive

LEMMA KillTestKeeps ==
  ASSUME Inductive, KillTest
  PROVE  Inductive'
<1>1. PICK i \in Hardpoints :
        test' = [test EXCEPT ![i] = "NotTested"] /\ hard' = [hard EXCEPT ![i] = Stopped(@)]
  BY DEF KillTest
<1>2. UNCHANGED <<mode, weight, moved, history>> /\ Ordered("test")
  BY DEF KillTest
<1>3. hard \in Tables /\ test \in [Hardpoints -> Tests] /\ mode \in Modes
  BY DEF Inductive, TypeOK, Tables
<1>4. AllQuiet(hard, hard')
  <2>1. AllQuiet(hard, StopMotion(hard))
    BY <1>3, SwitchesFit
  <2>2. Stopped(hard[i]) \in HardStates /\ Quiet(hard[i], Stopped(hard[i]))
    BY <2>1 DEF AllQuiet, StopMotion, Tables
  <2>3. hard' \in Tables /\ \A j \in Hardpoints : hard'[j] = IF j = i THEN Stopped(hard[i]) ELSE hard[j]
    BY <1>1, <1>3, <2>2 DEF Tables
  <2> QED BY <2>2, <2>3 DEF AllQuiet, Quiet
<1>5. test' \in [Hardpoints -> Tests] /\ \A j \in Hardpoints : SeenFits(test'[j], history'[j].seen)
  BY <1>1, <1>2, <1>3 DEF Inductive, Tests, SeenFits
<1>6. Checks' <=> Checks
  BY <1>2 DEF Checks
<1> QED BY <1>2, <1>3, <1>4, <1>5, <1>6, QuietCommandKeeps DEF Inductive

LEMMA LeaveKeeps ==
  ASSUME Inductive, Leave
  PROVE  Inductive'
<1>1. /\ Ordered("test") /\ mode = "ParkedEngineering" /\ mode' = "Parked" /\ KillTests
      /\ hard' = StopMotion(hard) /\ Disturbed /\ UNCHANGED <<weight, moved>>
  BY DEF Leave
<1>2. AllQuiet(hard, hard')
  BY <1>1, SwitchesFit DEF Inductive, TypeOK, Tables
<1>3. /\ history' \in [Hardpoints -> Histories]
      /\ \A i \in Hardpoints : /\ history'[i].waits = history[i].waits
                              /\ history'[i].steady = history[i].steady
                              /\ history'[i].seen = history[i].seen
  BY <1>1, DisturbedFits
<1>4. test' \in [Hardpoints -> Tests] /\ \A i \in Hardpoints : SeenFits(test'[i], history'[i].seen)
  BY <1>1, <1>3, KillTestsFits
<1>5. mode' \in Modes /\ ~Checks
  BY <1>1 DEF Modes, Checks
<1> QED BY <1>1, <1>2, <1>3, <1>4, <1>5, QuietCommandKeeps

LEMMA EnterEngineeringKeeps ==
  ASSUME Inductive, EnterEngineering
  PROVE  Inductive'
<1>1. /\ mode = "Parked" /\ mode' = "ParkedEngineering"
      /\ UNCHANGED <<weight, moved, toggle, hard, encoder, force, elevation, test, budget, history>>
  BY DEF EnterEngineering, telemetry
<1>2. ~Checks /\ ~Checks' /\ mode' \in Modes
  BY <1>1 DEF Checks, Modes
<1>3. TypeOK' /\ WithinLimits'
  BY <1>1, <1>2 DEF Inductive, TypeOK, WithinLimits
<1> QED BY <1>1, <1>2, <1>3 DEF Inductive

LEMMA MoveHardpointsKeeps ==
  ASSUME Inductive, MoveHardpoints
  PROVE  Inductive'
<1>1. /\ Ordered("motion") /\ Disturbed /\ UNCHANGED <<mode, weight, moved, test>>
      /\ \/ hard' \in {StopMotion(hard), EnableChaseAll(hard), DisableChaseAll(hard)}
         \/ \E n \in [Hardpoints -> MoveSteps] : hard' = Move(hard, n)
  BY DEF MoveHardpoints
<1>2. hard \in Tables /\ mode \in Modes /\ test \in [Hardpoints -> Tests]
  BY DEF Inductive, TypeOK, Tables
<1>3. AllQuiet(hard, hard')
  <2>1. ASSUME NEW n \in [Hardpoints -> MoveSteps]
        PROVE  AllQuiet(hard, Move(hard, n))
    <3>1. n \in [Hardpoints -> Int]
      BY HardpointAssumption
    <3> QED BY <1>2, <3>1, MoveFits
  <2> QED BY <1>1, <1>2, <2>1, SwitchesFit
<1>4. /\ history' \in [Hardpoints -> Histories]
      /\ \A i \in Hardpoints : /\ history'[i].waits = history[i].waits
                              /\ history'[i].steady = history[i].steady
                              /\ history'[i].seen = history[i].seen
  BY <1>1, DisturbedFits
<1>5. \A i \in Hardpoints : SeenFits(test'[i], history'[i].seen)
  BY <1>1, <1>4 DEF Inductive
<1>6. Checks' <=> Checks
  BY <1>1 DEF Checks
<1>7. mode' \in Modes /\ test' \in [Hardpoints -> Tests] /\ UNCHANGED <<weight, moved>>
  BY <1>1, <1>2
<1> QED BY <1>1, <1>3, <1>4, <1>5, <1>6, <1>7, QuietCommandKeeps

LEMMA TargetsAreReadings ==
  ASSUME NEW t \in [Hardpoints -> Targets]
  PROVE  t \in [Hardpoints -> Int]
<1>1. Targets \subseteq 1 .. Top - 1 /\ 1 .. Top - 1 \subseteq Int
  BY HardpointAssumption
<1>2. Targets \subseteq Int
  BY <1>1
<1> QED BY <1>2

LEMMA PositionMirrorKeeps ==
  ASSUME Inductive, PositionMirror
  PROVE  Inductive'
<1>1. /\ Ordered("position") /\ UNCHANGED <<mode, weight, moved, test, history>>
      /\ \E t \in [Hardpoints -> Targets] : hard' = MoveToEncoder(hard, t)
  BY DEF PositionMirror
<1>2. hard \in Tables /\ mode \in Modes /\ test \in [Hardpoints -> Tests] /\ encoder \in [Hardpoints -> Int]
  BY DEF Inductive, TypeOK, Tables
<1>3. AllQuiet(hard, hard')
  <2>1. ASSUME NEW t \in [Hardpoints -> Targets]
        PROVE  AllQuiet(hard, MoveToEncoder(hard, t))
    <3>1. t \in [Hardpoints -> Int]
      BY TargetsAreReadings
    <3> QED BY <1>2, <3>1, MoveToEncoderFits
  <2> QED BY <1>1, <2>1
<1>4. Checks' <=> Checks
  BY <1>1 DEF Checks
<1>5. /\ history' \in [Hardpoints -> Histories]
      /\ \A i \in Hardpoints : /\ history'[i].waits = history[i].waits
                              /\ history'[i].steady = history[i].steady
                              /\ SeenFits(test'[i], history'[i].seen)
  BY <1>1 DEF Inductive
<1>6. mode' \in Modes /\ test' \in [Hardpoints -> Tests] /\ UNCHANGED <<weight, moved>>
  BY <1>1, <1>2
<1> QED BY <1>1, <1>3, <1>4, <1>5, <1>6, QuietCommandKeeps

\* A raise starts with hardpoints that chase, and that may wait.
LEMMA RaiseM1M3Keeps ==
  ASSUME Inductive, RaiseM1M3
  PROVE  Inductive'
<1> DEFINE stopped == StopMotion(hard)
           chasing == EnableChaseAll(stopped)
<1>1. /\ Ordered("raise") /\ mode' = "RaisingEngineering" /\ weight' = 0 /\ moved' = moved
      /\ KillTests /\ hard' = ResetWait(chasing) /\ Restarted
  BY DEF RaiseM1M3
<1>2. hard \in Tables /\ moved \in BOOLEAN /\ Full \in Nat
  BY HardpointAssumption DEF Inductive, TypeOK, Tables
<1>3. AllQuiet(hard, stopped) /\ \A i \in Hardpoints : stopped[i].motion = "Standby"
  BY <1>2, SwitchesFit
<1>4. stopped \in Tables /\ MotionComplete(stopped)
  BY <1>3 DEF AllQuiet, MotionComplete
<1> HIDE DEF stopped
<1>5. chasing \in Tables /\ \A i \in Hardpoints : chasing[i].motion = "Chasing"
  BY <1>4, SwitchesFit DEF AllQuiet
<1> HIDE DEF chasing
<1>6. hard' \in Tables /\ \A i \in Hardpoints : /\ hard'[i].motion = "Chasing" /\ hard'[i].samples = 0
  BY <1>1, <1>5, ResetWaitFits
<1>7. /\ history' \in [Hardpoints -> Histories]
      /\ \A i \in Hardpoints : history'[i].waits = 0 /\ history'[i].seen = history[i].seen
  BY <1>1, RestartedFits
<1>8. test' \in [Hardpoints -> Tests] /\ \A i \in Hardpoints : SeenFits(test'[i], history'[i].seen)
  BY <1>1, <1>7, KillTestsFits
<1>9. /\ budget' \in [kinds : SUBSET Kinds, commands : Nat, jolts : Nat, loads : Nat, turns : Nat, elevation : Elevations, start : Starts]
      /\ UNCHANGED <<toggle, encoder, force, elevation>>
  BY <1>1, OrderedFits DEF Inductive
<1>10. TypeOK' /\ WithinLimits'
  <2>1. mode' \in Modes /\ weight' \in 0 .. Full
    BY <1>1, <1>2 DEF Modes
  <2> QED BY <1>1, <1>2, <1>6, <1>8, <1>9, <2>1 DEF Inductive, TypeOK, WithinLimits, Tables
<1>11. \A i \in Hardpoints : WaitFits(i, hard'[i], history'[i]) /\ hard'[i].motion \notin Waiting
  BY <1>6, <1>7, WaitingIsMotion DEF WaitFits
<1> QED BY <1>7, <1>8, <1>10, <1>11 DEF Inductive

\* A lowering starts with hardpoints that move to the lower position, or stand by.
LEMMA LowerM1M3Keeps ==
  ASSUME Inductive, LowerM1M3
  PROVE  Inductive'
<1> DEFINE ready == ResetWait(StopMotion(hard))
<1>1. PICK t \in [Hardpoints -> Targets] : hard' = MoveToEncoder(ready, t)
  BY DEF LowerM1M3
<1>2. /\ Ordered("raise") /\ mode' = "LoweringEngineering" /\ weight' = Full /\ moved' = FALSE
      /\ Restarted /\ test' = test
  BY DEF LowerM1M3
<1>3. /\ hard \in Tables /\ encoder \in [Hardpoints -> Int] /\ test \in [Hardpoints -> Tests]
      /\ Full \in Nat /\ t \in [Hardpoints -> Int]
  BY HardpointAssumption, TargetsAreReadings DEF Inductive, TypeOK, Tables
<1>4. StopMotion(hard) \in Tables /\ \A i \in Hardpoints : StopMotion(hard)[i].motion = "Standby"
  BY <1>3, SwitchesFit DEF AllQuiet
<1>5. ready \in Tables /\ \A i \in Hardpoints : ready[i].motion = "Standby" /\ ready[i].samples = 0
  BY <1>4, ResetWaitFits
<1> HIDE DEF ready
<1>6. AllQuiet(ready, hard')
  BY <1>1, <1>3, <1>5, MoveToEncoderFits
<1>7. /\ history' \in [Hardpoints -> Histories]
      /\ \A i \in Hardpoints : history'[i].waits = 0 /\ history'[i].seen = history[i].seen
  BY <1>2, RestartedFits
<1>8. \A i \in Hardpoints : WaitFits(i, hard'[i], history'[i]) /\ hard'[i].motion \notin Waiting
  BY <1>5, <1>6, <1>7, WaitingIsMotion DEF AllQuiet, Quiet, WaitFits
<1>9. /\ budget' \in [kinds : SUBSET Kinds, commands : Nat, jolts : Nat, loads : Nat, turns : Nat, elevation : Elevations, start : Starts]
      /\ UNCHANGED <<toggle, encoder, force, elevation>>
  BY <1>2, OrderedFits DEF Inductive
<1>10. TypeOK' /\ WithinLimits'
  <2>1. mode' \in Modes /\ weight' \in 0 .. Full /\ moved' \in BOOLEAN
    <3>1. weight' \in 0 .. Full
      BY <1>2, <1>3
    <3> QED BY <1>2, <3>1 DEF Modes
  <2> QED BY <1>2, <1>3, <1>6, <1>9, <2>1 DEF Inductive, TypeOK, WithinLimits, AllQuiet, Tables
<1>11. \A i \in Hardpoints : SeenFits(test'[i], history'[i].seen)
  BY <1>2, <1>7 DEF Inductive
<1> QED BY <1>7, <1>8, <1>10, <1>11 DEF Inductive

\* A raise that is aborted goes on as a lowering, with what it noted about waiting.
LEMMA AbortRaiseKeeps ==
  ASSUME Inductive, AbortRaise
  PROVE  Inductive'
<1> DEFINE stopped == StopMotion(hard)
<1>1. /\ Ordered("raise") /\ mode' = "LoweringEngineering" /\ moved' = TRUE
      /\ hard' = EnableChaseAll(stopped) /\ Disturbed /\ UNCHANGED <<weight, test>>
  BY DEF AbortRaise
<1>2. hard \in Tables
  BY DEF Inductive, TypeOK, Tables
<1>3. AllQuiet(hard, stopped) /\ \A i \in Hardpoints : stopped[i].motion = "Standby"
  BY <1>2, SwitchesFit
<1>4. stopped \in Tables /\ MotionComplete(stopped)
  BY <1>3 DEF AllQuiet, MotionComplete
<1> HIDE DEF stopped
<1>5. AllQuiet(stopped, hard') /\ \A i \in Hardpoints : hard'[i].motion = "Chasing"
  BY <1>1, <1>4, SwitchesFit
<1>6. AllQuiet(hard, hard')
  BY <1>2, <1>3, <1>5, AllQuietComposes
<1>7. /\ history' \in [Hardpoints -> Histories]
      /\ \A i \in Hardpoints : /\ history'[i].waits = history[i].waits
                              /\ history'[i].steady = history[i].steady
                              /\ history'[i].seen = history[i].seen
  BY <1>1, DisturbedFits
<1>8. \A i \in Hardpoints : WaitFits(i, hard'[i], history'[i]) /\ hard'[i].motion \notin Waiting
  BY <1>5, <1>6, <1>7, QuietCommand, WaitingIsMotion
<1>9. /\ budget' \in [kinds : SUBSET Kinds, commands : Nat, jolts : Nat, loads : Nat, turns : Nat, elevation : Elevations, start : Starts]
      /\ UNCHANGED <<toggle, encoder, force, elevation>>
  BY <1>1, OrderedFits DEF Inductive
<1>10. TypeOK' /\ WithinLimits'
  <2>1. mode' \in Modes /\ moved' \in BOOLEAN
    BY <1>1 DEF Modes
  <2> QED BY <1>1, <1>6, <1>9, <2>1 DEF Inductive, TypeOK, WithinLimits, AllQuiet, Tables
<1>11. \A i \in Hardpoints : SeenFits(test'[i], history'[i].seen)
  BY <1>1, <1>7 DEF Inductive
<1> QED BY <1>7, <1>8, <1>10, <1>11 DEF Inductive

----------------------------------------------------------------------------
(* The theorems. *)

LEMMA StepKeeps == Inductive /\ [Next]_vars => Inductive'
<1> SUFFICES ASSUME Inductive, [Next]_vars PROVE Inductive'
  OBVIOUS
<1>1. CASE SteadyUpdate
  BY <1>1, SteadyUpdateKeeps
<1>2. CASE TestUpdate
  BY <1>2, TestUpdateKeeps
<1>3. CASE RaiseUpdate
  BY <1>3, RaiseUpdateKeeps
<1>4. CASE LowerUpdate
  BY <1>4, LowerUpdateKeeps
<1>5. CASE StartTest
  BY <1>5, StartTestKeeps
<1>6. CASE KillTest
  BY <1>6, KillTestKeeps
<1>7. CASE Leave
  BY <1>7, LeaveKeeps
<1>8. CASE EnterEngineering
  BY <1>8, EnterEngineeringKeeps
<1>9. CASE MoveHardpoints
  BY <1>9, MoveHardpointsKeeps
<1>10. CASE PositionMirror
  BY <1>10, PositionMirrorKeeps
<1>11. CASE RaiseM1M3
  BY <1>11, RaiseM1M3Keeps
<1>12. CASE LowerM1M3
  BY <1>12, LowerM1M3Keeps
<1>13. CASE AbortRaise
  BY <1>13, AbortRaiseKeeps
<1>14. CASE UNCHANGED vars
  BY <1>14 DEF vars, telemetry, Inductive, TypeOK, WithinLimits, Checks
<1> QED BY <1>1, <1>2, <1>3, <1>4, <1>5, <1>6, <1>7, <1>8, <1>9, <1>10, <1>11, <1>12, <1>13, <1>14
        DEF Next, Cycle

\* In every reachable state the hardpoints have their types and are within the limits, what is
\* noted about waiting fits what happened, and a hardpoint waits only where forces are checked.
THEOREM InductiveInvariant == Spec => []Inductive
BY InitInductive, StepKeeps, PTL DEF Spec

\* No motion drives a hardpoint beyond a limit switch by more than the steps of one update, and
\* a hardpoint suspends the check of its force at most once in a raise or a lowering.
THEOREM HardpointsStayConsistent == Spec => []HardpointInv
<1>1. Inductive => HardpointInv
  BY DEF Inductive, HardpointInv, WaitsOnce, WaitFits
<1> QED BY <1>1, InductiveInvariant, PTL

\* A hardpoint test that passed saw both limit switches, and the low one twice.
THEOREM PassedTestsSawTheSwitches == Spec => []PassedSawLimits
<1>1. Inductive => PassedSawLimits
  BY DEF Inductive, PassedSawLimits, SeenFits
<1> QED BY <1>1, InductiveInvariant, PTL

----------------------------------------------------------------------------
(* Waiting ends with enough readings in range. *)

\* What ResumesSteadily says of a hardpoint.
Steady(i) == hard[i].motion \in Waiting /\ hard'[i].motion = "Chasing"
               => Ignoring(i) /\ history[i].steady + 1 >= CompressionReadouts

\* A hardpoint that the check of the forces lets chase again had its readings in range.
LEMMA CheckIsSteady ==
  ASSUME Inductive, NEW i \in Hardpoints, NEW t, NEW limits, TolerancePossible(i, hard[i], t, limits),
         hard[i].motion \in Waiting, t.motion = "Chasing"
  PROVE  Ignoring(i) /\ history[i].steady + 1 >= CompressionReadouts
<1> DEFINE s == hard[i]
           k == history[i]
<1>1. s \in HardStates /\ k \in Histories /\ WaitFits(i, s, k)
  BY DEF Inductive, TypeOK
<1>2. s.samples \in Nat /\ k.steady \in Nat /\ CompressionReadouts \in Nat
  BY <1>1, HardTypes, HistoryTypes, HardpointAssumption
<1>3. s.motion # "Chasing" /\ WaitMotion(i) # "Chasing" /\ s.motion = WaitMotion(i)
  BY <1>1, WaitMotionFacts, WaitingIsMotion DEF WaitFits
<1>4. TolerancePossible(i, s, t, limits) /\ s.motion \in Waiting
  OBVIOUS
<1> HIDE DEF s
<1>5. EndsWaiting(i, s, t, limits)
  BY <1>3, <1>4 DEF TolerancePossible, StartsToWait, KeepsWaiting, DoesNotWait
<1>6. Ignoring(i) /\ s.samples + 1 >= CompressionReadouts /\ s.samples <= k.steady
  BY <1>1, <1>4, <1>5 DEF EndsWaiting, WaitFits
<1> QED BY <1>2, <1>6

LEMMA ArrivesChasing ==
  ASSUME NEW s, NEW t, Arrives(s, t), t.motion = "Chasing"
  PROVE  s.motion = "Chasing"
BY DEF Arrives

LEMMA RaiseIsSteady ==
  ASSUME Inductive, RaiseUpdate, NEW i \in Hardpoints
  PROVE  Steady(i)
<1> SUFFICES ASSUME hard[i].motion \in Waiting, hard'[i].motion = "Chasing"
             PROVE  Ignoring(i) /\ history[i].steady + 1 >= CompressionReadouts
  BY DEF Steady
<1>1. weight < Full
  <2>1. weight \in 0 .. Full /\ Checks /\ mode = "RaisingEngineering"
    BY DEF Inductive, TypeOK, RaiseUpdate
  <2> QED BY <2>1 DEF Checks
<1>2. PICK g \in Tables, ends \in BOOLEAN, bypass \in BOOLEAN :
        /\ IF weight < Full THEN \A j \in Hardpoints : TolerancePossible(j, hard[j], g[j], RaiseLimits)
                            ELSE g = hard
        /\ \A j \in Hardpoints : Arrives(RaiseBase(g, ends, bypass)[j], hard'[j])
  BY RaiseUpdateSteps
<1>3. RaiseBase(g, ends, bypass)[i].motion = "Chasing"
  BY <1>2, ArrivesChasing
<1>4. ~ends
  BY <1>3, RaiseBaseFits DEF Inductive
<1>5. g[i].motion = "Chasing"
  BY <1>3, <1>4 DEF RaiseBase
<1>6. TolerancePossible(i, hard[i], g[i], RaiseLimits)
  BY <1>1, <1>2
<1> QED BY <1>5, <1>6, CheckIsSteady

LEMMA LowerIsSteady ==
  ASSUME Inductive, LowerUpdate, NEW i \in Hardpoints
  PROVE  Steady(i)
<1> SUFFICES ASSUME hard[i].motion \in Waiting, hard'[i].motion = "Chasing"
             PROVE  Ignoring(i) /\ history[i].steady + 1 >= CompressionReadouts
  BY DEF Steady
<1>1. moved /\ weight > 0
  <2>1. Checks /\ mode = "LoweringEngineering"
    BY DEF Inductive, LowerUpdate
  <2> QED BY <2>1 DEF Checks
<1>2. PICK g \in Tables, h \in Tables :
           /\ IF moved /\ weight > 0
                THEN \A j \in Hardpoints : TolerancePossible(j, hard[j], g[j], LowerLimits)
                ELSE g = IF moved THEN hard ELSE EnableChaseAll(hard)
           /\ \A j \in Hardpoints : Arrives(g[j], h[j])
           /\ hard' = IF weight' = 0 THEN DisableChaseAll(h) ELSE h
  BY LowerUpdateSteps
<1>3. h[i].motion = "Chasing"
  <2>1. DisableChaseAll(h)[i].motion = "Standby"
    BY SwitchesFit
  <2> QED BY <1>2, <2>1
<1>4. g[i].motion = "Chasing"
  BY <1>2, <1>3, ArrivesChasing
<1>5. TolerancePossible(i, hard[i], g[i], LowerLimits)
  BY <1>1, <1>2
<1> QED BY <1>4, <1>5, CheckIsSteady

LEMMA MoveHardpointsIsSteady ==
  ASSUME Inductive, MoveHardpoints, NEW i \in Hardpoints
  PROVE  Steady(i)
<1>1. hard \in Tables
  BY DEF Inductive, TypeOK, Tables
<1>2. \/ hard' \in {StopMotion(hard), EnableChaseAll(hard), DisableChaseAll(hard)}
      \/ \E n \in [Hardpoints -> MoveSteps] : hard' = Move(hard, n)
  BY DEF MoveHardpoints
<1> SUFFICES ASSUME hard[i].motion \in Waiting, hard'[i].motion = "Chasing"
             PROVE  FALSE
  BY DEF Steady
<1>3. hard[i].motion \notin {"Standby", "Chasing"}
  BY WaitingIsMotion
<1>4. CASE hard' \in {StopMotion(hard), DisableChaseAll(hard)}
  BY <1>1, <1>4, SwitchesFit
<1>5. CASE hard' = EnableChaseAll(hard)
  BY <1>3, <1>5 DEF EnableChaseAll, MotionComplete
<1>6. CASE \E n \in [Hardpoints -> MoveSteps] : hard' = Move(hard, n)
  <2>1. PICK n \in [Hardpoints -> MoveSteps] : hard' = Move(hard, n)
    BY <1>6
  <2>2. n \in [Hardpoints -> Int]
    BY HardpointAssumption
  <2>3. hard' = hard \/ MoveAccepted(hard, hard', "Stepping")
    BY <1>1, <2>1, <2>2, MoveFits
  <2> QED BY <1>3, <2>3 DEF MoveAccepted
<1> QED BY <1>2, <1>4, <1>5, <1>6

\* A hardpoint that waits chases again, in the same state of the mirror, only below the elevation
\* and after enough readings in range in a row among those taken there.
THEOREM WaitingEndsSteadily == Spec => ResumesSteadily
<1>1. ASSUME Inductive, [Next]_vars, NEW i \in Hardpoints, mode' = mode
      PROVE  Steady(i)
  <2>1. ASSUME ~Checks PROVE Steady(i)
    BY <1>1, <2>1 DEF Inductive, Steady
  <2>2. CASE SteadyUpdate \/ TestUpdate \/ StartTest \/ KillTest \/ Leave \/ EnterEngineering
             \/ PositionMirror \/ RaiseM1M3 \/ LowerM1M3
    <3>1. mode \in {"Parked", "ParkedEngineering", "ActiveEngineering"}
      BY <2>2 DEF SteadyUpdate, TestUpdate, StartTest, KillTest, Leave, EnterEngineering, PositionMirror,
                  RaiseM1M3, LowerM1M3
    <3> QED BY <2>1, <3>1 DEF Checks
  <2>3. CASE RaiseUpdate
    BY <1>1, <2>3, RaiseIsSteady
  <2>4. CASE LowerUpdate
    BY <1>1, <2>4, LowerIsSteady
  <2>5. CASE MoveHardpoints
    BY <1>1, <2>5, MoveHardpointsIsSteady
  <2>6. CASE AbortRaise
    BY <1>1, <2>6 DEF AbortRaise
  <2>7. CASE UNCHANGED vars
    BY <2>7, WaitingIsMotion DEF vars, Steady
  <2> QED BY <1>1, <2>2, <2>3, <2>4, <2>5, <2>6, <2>7 DEF Next, Cycle
<1>2. Inductive /\ [Next]_vars
        => [\A i \in Hardpoints : hard[i].motion \in Waiting /\ hard'[i].motion = "Chasing" /\ mode' = mode
              => Ignoring(i) /\ history[i].steady + 1 >= CompressionReadouts]_vars
  BY <1>1 DEF Steady
<1> QED BY <1>2, InductiveInvariant, PTL DEF Spec, ResumesSteadily

----------------------------------------------------------------------------
(* What MirrorControl keeps of the motions. *)

Class(m) == IF m = "Standby" THEN "Standby" ELSE IF m \in {"Chasing"} \cup Waiting THEN "Chasing" ELSE "Moving"

LEMMA ClassFacts ==
  /\ Class("Standby") = "Standby" /\ Class("Chasing") = "Chasing"
  /\ Class("Stepping") = "Moving" /\ Class("QuickPositioning") = "Moving" /\ Class("FinePositioning") = "Moving"
  /\ \A m \in Waiting : Class(m) = "Chasing"
  /\ \A m : Class(m) \in {"Standby", "Chasing", "Moving"} /\ (Class(m) = "Standby" <=> m = "Standby")
BY DEF Class, Waiting

LEMMA MotionIsClass ==
  ASSUME NEW h
  PROVE  Motion(h) = [i \in Hardpoints |-> Class(h[i].motion)] /\ Motion(h) \in M!Motions
<1>1. Motion(h) = [i \in Hardpoints |-> Class(h[i].motion)]
  <2>1. ASSUME NEW i \in Hardpoints
        PROVE  (CASE h[i].motion = "Standby" -> "Standby"
                  [] h[i].motion \in {"Chasing"} \cup Waiting -> "Chasing"
                  [] OTHER -> "Moving") = Class(h[i].motion)
    BY DEF Class, Waiting
  <2> QED BY <2>1 DEF Motion
<1> QED BY <1>1, ClassFacts DEF M!Motions

LEMMA SameMotions ==
  ASSUME NEW h, NEW g, \A i \in Hardpoints : Class(g[i].motion) = Class(h[i].motion)
  PROVE  Motion(g) = Motion(h)
BY MotionIsClass

\* Motions that arrive are updates of the motions.
LEMMA ArrivalsAreUpdates ==
  ASSUME NEW h, NEW g, \A i \in Hardpoints : Arrives(h[i], g[i])
  PROVE  Motion(g) \in M!UpdateSteps(Motion(h))
<1>1. ASSUME NEW i \in Hardpoints
      PROVE  \/ Motion(g)[i] = Motion(h)[i]
             \/ Motion(h)[i] = "Moving" /\ Motion(g)[i] = "Standby"
  <2>1. Motion(g)[i] = Class(g[i].motion) /\ Motion(h)[i] = Class(h[i].motion)
    BY MotionIsClass
  <2> QED BY <2>1, ClassFacts DEF Arrives
<1> QED BY <1>1, MotionIsClass DEF M!UpdateSteps

\* The check of the forces starts and ends waiting, which is a way of chasing.
LEMMA ChecksKeepMotions ==
  ASSUME NEW g, NEW limits, \A i \in Hardpoints : TolerancePossible(i, hard[i], g[i], limits)
  PROVE  Motion(g) = Motion(hard)
<1>1. ASSUME NEW i \in Hardpoints PROVE Class(g[i].motion) = Class(hard[i].motion)
  <2>1. Class(WaitMotion(i)) = "Chasing" /\ Class("Chasing") = "Chasing"
    BY WaitMotionFacts, ClassFacts
  <2>2. TolerancePossible(i, hard[i], g[i], limits)
    OBVIOUS
  <2> QED BY <2>1, <2>2 DEF TolerancePossible, StartsToWait, KeepsWaiting, EndsWaiting, DoesNotWait
<1> QED BY <1>1, SameMotions

\* An accepted or refused move.
LEMMA MovesAreMoves ==
  ASSUME NEW h, NEW g, NEW m \in {"Stepping", "QuickPositioning"}, g = h \/ MoveAccepted(h, g, m)
  PROVE  Motion(g) \in M!Moves(Motion(h))
<1>1. CASE g = h
  BY <1>1 DEF M!Moves
<1>2. CASE MoveAccepted(h, g, m)
  <2>1. \A i \in Hardpoints : Motion(g)[i] = Class(g[i].motion) /\ Motion(h)[i] = Class(h[i].motion)
    BY MotionIsClass
  <2>2. ASSUME NEW i \in Hardpoints
        PROVE  Motion(g)[i] \in {"Standby", "Moving"} /\ (Motion(h)[i] # "Standby" => Motion(g)[i] = "Standby")
    BY <1>2, <2>1, ClassFacts DEF MoveAccepted
  <2>3. Motion(g) \in [Hardpoints -> {"Standby", "Moving"}]
    BY <2>2, MotionIsClass
  <2> QED BY <2>2, <2>3 DEF M!Moves
<1> QED BY <1>1, <1>2

LEMMA SwitchesAreSwitches ==
  ASSUME NEW h \in Tables
  PROVE  /\ Motion(StopMotion(h)) = M!AllStandby /\ Motion(DisableChaseAll(h)) = M!AllStandby
         /\ Motion(EnableChaseAll(h)) = M!EnableChaseAll(Motion(h))
         /\ MotionComplete(h) <=> Motion(h) = M!AllStandby
<1>1. /\ \A i \in Hardpoints : StopMotion(h)[i].motion = "Standby" /\ DisableChaseAll(h)[i].motion = "Standby"
      /\ MotionComplete(h) => \A i \in Hardpoints : EnableChaseAll(h)[i].motion = "Chasing"
      /\ ~MotionComplete(h) => EnableChaseAll(h) = h
  BY SwitchesFit DEF EnableChaseAll
<1>2. Motion(StopMotion(h)) = M!AllStandby /\ Motion(DisableChaseAll(h)) = M!AllStandby
  BY <1>1, MotionIsClass, ClassFacts DEF M!AllStandby
<1>3. MotionComplete(h) <=> Motion(h) = M!AllStandby
  <2>1. Motion(h) = [i \in Hardpoints |-> Class(h[i].motion)]
    BY MotionIsClass
  <2>2. Motion(h) = M!AllStandby <=> \A i \in Hardpoints : Class(h[i].motion) = "Standby"
    BY <2>1 DEF M!AllStandby
  <2> QED BY <2>2, ClassFacts DEF MotionComplete
<1>4. Motion(EnableChaseAll(h)) = M!EnableChaseAll(Motion(h))
  <2>1. CASE MotionComplete(h)
    <3>1. Motion(EnableChaseAll(h)) = M!AllChasing
      BY <1>1, <2>1, MotionIsClass, ClassFacts DEF M!AllChasing
    <3> QED BY <1>3, <2>1, <3>1 DEF M!EnableChaseAll
  <2>2. CASE ~MotionComplete(h)
    BY <1>1, <1>3, <2>2 DEF M!EnableChaseAll
  <2> QED BY <2>1, <2>2
<1> QED BY <1>2, <1>3, <1>4

\* An update leaves the bound on commands alone, which tells it from a command.
LEMMA UpdatesAreNotOrdered ==
  ASSUME TypeOK, budget'.commands = budget.commands
  PROVE  ~(budget'.commands < budget.commands)
<1>1. budget.commands \in Nat
  BY DEF TypeOK
<1> QED BY <1>1

LEMMA SteadyUpdateRefines ==
  ASSUME Inductive, SteadyUpdate
  PROVE  MirrorStep(Motion(hard), Motion(hard'))
<1>1. TypeOK /\ WithinLimits /\ hard \in Tables
  BY DEF Inductive, TypeOK, Tables
<1>2. /\ AllQuiet(hard, hard') /\ \A i \in Hardpoints : Arrives(hard[i], hard'[i])
      /\ toggle = 0 => \A i \in Hardpoints : Stops(hard'[i], encoder[i])
  BY <1>1, UpdatedFits DEF SteadyUpdate
<1>3. ~(budget'.commands < budget.commands)
  BY <1>1, <1>2, ExchangeFits, UpdatesAreNotOrdered DEF SteadyUpdate, AllQuiet
<1>4. Motion(hard') \in M!UpdateSteps(Motion(hard))
  BY <1>2, ArrivalsAreUpdates
<1>5. mode \notin {"ParkedEngineering", "RaisingEngineering", "LoweringEngineering"}
  BY DEF SteadyUpdate
<1> QED BY <1>3, <1>4, <1>5 DEF MirrorStep

LEMMA TestUpdateRefines ==
  ASSUME Inductive, TestUpdate
  PROVE  MirrorStep(Motion(hard), Motion(hard'))
<1> DEFINE h == Updated(hard)
           sent == {i \in Hardpoints : RunHardpointLoop(h, i)[2] # 0}
<1>1. TypeOK /\ WithinLimits /\ hard \in Tables
  BY DEF Inductive, TypeOK, Tables
<1>2. /\ Exchange(h) /\ Recorded({}) /\ mode = "ParkedEngineering" /\ hard' = SentOn(h)
  BY DEF TestUpdate, SentOn
<1>3. /\ AllQuiet(hard, h) /\ \A i \in Hardpoints : Arrives(hard[i], h[i])
      /\ toggle = 0 => \A i \in Hardpoints : Stops(h[i], encoder[i])
  BY <1>1, UpdatedFits
<1> HIDE DEF h
<1>4. h \in Tables /\ encoder' \in [Hardpoints -> Int] /\ budget'.commands = budget.commands
  BY <1>1, <1>2, <1>3, ExchangeFits DEF AllQuiet
<1>5. \A i \in Hardpoints : RunHardpointLoop(h, i)[2] \in Int /\ (RunHardpointLoop(h, i)[2] # 0 => IsTested(i))
  BY <1>2, <1>4, RecordedFits, TestStepFits
<1>6. \A i \in Hardpoints : hard'[i].motion = IF RunHardpointLoop(h, i)[2] # 0 THEN "Stepping" ELSE h[i].motion
  BY <1>2, <1>4, <1>5, SentOnFits
<1>7. Motion(hard') = M!SendTo(Motion(h), sent)
  <2>1. \A i \in Hardpoints : Class(hard'[i].motion) = IF i \in sent THEN "Moving" ELSE Class(h[i].motion)
    BY <1>6, ClassFacts
  <2> HIDE DEF sent
  <2> QED BY <2>1, MotionIsClass DEF M!SendTo
<1>8. Motion(h) \in M!UpdateSteps(Motion(hard)) /\ sent \in SUBSET {i \in Hardpoints : IsTested(i)}
  BY <1>3, <1>5, ArrivalsAreUpdates
<1>9. ~(budget'.commands < budget.commands)
  BY <1>1, <1>4, UpdatesAreNotOrdered
<1> HIDE DEF sent
<1> QED BY <1>2, <1>7, <1>8, <1>9 DEF MirrorStep

LEMMA RaiseUpdateRefines ==
  ASSUME Inductive, RaiseUpdate
  PROVE  MirrorStep(Motion(hard), Motion(hard'))
<1>1. TypeOK /\ WithinLimits /\ hard \in Tables /\ mode = "RaisingEngineering" /\ Exchange(hard')
  BY DEF Inductive, TypeOK, Tables, RaiseUpdate
<1>2. PICK g \in Tables, ends \in BOOLEAN, bypass \in BOOLEAN :
        /\ IF weight < Full THEN \A i \in Hardpoints : TolerancePossible(i, hard[i], g[i], RaiseLimits)
                            ELSE g = hard
        /\ AllQuiet(g, hard')
        /\ \A i \in Hardpoints : Arrives(RaiseBase(g, ends, bypass)[i], hard'[i])
        /\ ends <=> weight < Full /\ weight' = Full
        /\ toggle = 0 => \A i \in Hardpoints : Stops(hard'[i], encoder[i])
  BY RaiseUpdateSteps
<1>3. ~(budget'.commands < budget.commands)
  BY <1>1, <1>2, ExchangeFits, UpdatesAreNotOrdered DEF AllQuiet
<1> DEFINE base == RaiseBase(g, ends, bypass)
<1>4. Motion(hard') \in M!UpdateSteps(Motion(base))
  BY <1>2, ArrivalsAreUpdates
<1>5. CASE ends
  <2>1. \A i \in Hardpoints : base[i].motion \in {"Standby", "QuickPositioning"}
    BY <1>1, <1>5, RaiseBaseFits
  <2> HIDE DEF base
  <2>2. \A i \in Hardpoints : Motion(base)[i] \in {"Standby", "Moving"}
    BY <2>1, MotionIsClass, ClassFacts
  <2>3. Motion(base) \in [Hardpoints -> {"Standby", "Moving"}]
    BY <2>2, MotionIsClass
  <2>4. Motion(base) \in M!Moves(M!AllStandby)
    BY <2>3 DEF M!Moves, M!AllStandby
  <2> QED BY <1>1, <1>2, <1>3, <1>4, <1>5, <2>4 DEF MirrorStep
<1>6. CASE ~ends
  <2>1. Motion(g) = Motion(hard)
    BY <1>2, ChecksKeepMotions
  <2>2. base = g
    BY <1>6 DEF RaiseBase
  <2>3. Motion(hard') \in M!UpdateSteps(Motion(hard))
    BY <1>4, <2>1, <2>2
  <2> HIDE DEF base
  <2> QED BY <1>1, <1>2, <1>3, <1>6, <2>3 DEF MirrorStep
<1> QED BY <1>5, <1>6

LEMMA LowerUpdateRefines ==
  ASSUME Inductive, LowerUpdate
  PROVE  MirrorStep(Motion(hard), Motion(hard'))
<1>1. TypeOK /\ WithinLimits /\ hard \in Tables /\ mode = "LoweringEngineering"
      /\ mode' = (IF weight' = 0 THEN "ParkedEngineering" ELSE mode)
  BY DEF Inductive, TypeOK, Tables, LowerUpdate
<1>2. PICK g \in Tables, h \in Tables :
           /\ IF moved /\ weight > 0
                THEN \A i \in Hardpoints : TolerancePossible(i, hard[i], g[i], LowerLimits)
                ELSE g = IF moved THEN hard ELSE EnableChaseAll(hard)
           /\ \A i \in Hardpoints : Arrives(g[i], h[i])
           /\ hard' = IF weight' = 0 THEN DisableChaseAll(h) ELSE h
           /\ Exchange(h) /\ (toggle = 0 => \A i \in Hardpoints : Stops(h[i], encoder[i]))
  BY LowerUpdateSteps
<1>3. ~(budget'.commands < budget.commands)
  BY <1>1, <1>2, ExchangeFits, UpdatesAreNotOrdered
<1>4. CASE weight' = 0
  <2>1. Motion(hard') = M!AllStandby
    BY <1>2, <1>4, SwitchesAreSwitches
  <2>2. mode' # mode
    BY <1>1, <1>4
  <2> QED BY <1>1, <1>3, <2>1, <2>2 DEF MirrorStep
<1>5. CASE weight' # 0
  <2>1. mode' = mode /\ hard' = h
    BY <1>1, <1>2, <1>5
  <2>2. Motion(hard') \in M!UpdateSteps(Motion(g))
    BY <1>2, <2>1, ArrivalsAreUpdates
  <2>3. CASE ~moved /\ Motion(hard) = M!AllStandby
    <3>1. MotionComplete(hard) /\ g = EnableChaseAll(hard)
      BY <1>1, <1>2, <2>3, SwitchesAreSwitches
    <3>2. \A i \in Hardpoints : g[i].motion = "Chasing"
      BY <1>1, <3>1, SwitchesFit
    <3>3. \A i \in Hardpoints : hard'[i].motion = "Chasing"
      BY <1>2, <2>1, <3>2 DEF Arrives
    <3>4. Motion(hard') = M!AllChasing
      BY <3>3, MotionIsClass, ClassFacts DEF M!AllChasing
    <3> QED BY <1>1, <1>3, <2>1, <2>3, <3>4 DEF MirrorStep
  <2>4. CASE ~(~moved /\ Motion(hard) = M!AllStandby)
    <3>1. Motion(g) = Motion(hard)
      <4>1. CASE moved /\ weight > 0
        BY <1>2, <4>1, ChecksKeepMotions
      <4>2. CASE moved /\ ~(weight > 0)
        BY <1>2, <4>2
      <4>3. CASE ~moved
        <5>1. g = EnableChaseAll(hard) /\ Motion(hard) # M!AllStandby
          BY <1>2, <2>4, <4>3
        <5> QED BY <1>1, <5>1, SwitchesAreSwitches DEF M!EnableChaseAll
      <4> QED BY <4>1, <4>2, <4>3
    <3> QED BY <1>1, <1>3, <2>1, <2>2, <2>4, <3>1 DEF MirrorStep
  <2> QED BY <2>3, <2>4
<1> QED BY <1>4, <1>5

\* A motion that nothing changes is a refused move, and an update in which nothing arrives.
LEMMA NothingMoves ==
  ASSUME NEW h
  PROVE  Motion(h) \in M!Moves(Motion(h)) /\ Motion(h) \in M!UpdateSteps(Motion(h))
BY MotionIsClass DEF M!Moves, M!UpdateSteps

LEMMA TestCommandsRefine ==
  ASSUME Inductive, StartTest \/ KillTest
  PROVE  MirrorStep(Motion(hard), Motion(hard'))
<1>1. Ordered("test") /\ mode = "ParkedEngineering" /\ mode' = mode /\ hard \in Tables
  BY DEF StartTest, KillTest, Inductive, TypeOK, Tables
<1>2. budget'.commands < budget.commands
  BY <1>1, OrderedFits DEF Inductive
<1>3. CASE StartTest
  <2>1. Motion(hard') = Motion(hard)
    BY <1>3 DEF StartTest
  <2> QED BY <1>1, <1>2, <2>1, NothingMoves DEF MirrorStep
<1>4. CASE KillTest
  <2>1. PICK i \in Hardpoints : hard' = [hard EXCEPT ![i] = Stopped(@)]
    BY <1>4 DEF KillTest
  <2>2. Stopped(hard[i]).motion = "Standby"
    BY <1>1, SwitchesFit DEF StopMotion
  <2>3. \A j \in Hardpoints : hard'[j] = IF j = i THEN Stopped(hard[i]) ELSE hard[j]
    BY <1>1, <2>1 DEF Tables
  <2>4. Motion(hard') = [Motion(hard) EXCEPT ![i] = "Standby"]
    BY <2>2, <2>3, MotionIsClass, ClassFacts
  <2> QED BY <1>1, <1>2, <2>4 DEF MirrorStep
<1> QED BY <1>3, <1>4

LEMMA EngineeringRefines ==
  ASSUME Inductive, Leave \/ EnterEngineering
  PROVE  MirrorStep(Motion(hard), Motion(hard'))
<1>1. hard \in Tables /\ TypeOK
  BY DEF Inductive, TypeOK, Tables
<1>2. CASE Leave
  <2>1. Ordered("test") /\ mode = "ParkedEngineering" /\ mode' = "Parked" /\ hard' = StopMotion(hard)
    BY <1>2 DEF Leave
  <2>2. budget'.commands < budget.commands
    BY <1>1, <2>1, OrderedFits
  <2>3. Motion(hard') = M!AllStandby
    BY <1>1, <2>1, SwitchesAreSwitches
  <2> QED BY <2>1, <2>2, <2>3 DEF MirrorStep
<1>3. CASE EnterEngineering
  <2>1. mode = "Parked" /\ hard' = hard /\ budget' = budget
    BY <1>3 DEF EnterEngineering
  <2>2. ~(budget'.commands < budget.commands)
    BY <1>1, <2>1, UpdatesAreNotOrdered
  <2> QED BY <2>1, <2>2, NothingMoves DEF MirrorStep
<1> QED BY <1>2, <1>3

LEMMA MoveHardpointsRefines ==
  ASSUME Inductive, MoveHardpoints
  PROVE  MirrorStep(Motion(hard), Motion(hard'))
<1>1. /\ Ordered("motion") /\ mode' = mode
      /\ \/ hard' \in {StopMotion(hard), EnableChaseAll(hard), DisableChaseAll(hard)}
         \/ \E n \in [Hardpoints -> MoveSteps] : hard' = Move(hard, n)
  BY DEF MoveHardpoints
<1>2. hard \in Tables /\ budget'.commands < budget.commands
  BY <1>1, OrderedFits DEF Inductive, TypeOK, Tables
<1>3. Motion(hard') \in {M!AllStandby, M!EnableChaseAll(Motion(hard))} \cup M!Moves(Motion(hard))
  <2>1. ASSUME NEW n \in [Hardpoints -> MoveSteps], hard' = Move(hard, n)
        PROVE  Motion(hard') \in M!Moves(Motion(hard))
    <3>1. n \in [Hardpoints -> Int]
      BY HardpointAssumption
    <3> QED BY <1>2, <2>1, <3>1, MoveFits, MovesAreMoves
  <2> QED BY <1>1, <1>2, <2>1, SwitchesAreSwitches
<1> QED BY <1>1, <1>2, <1>3 DEF MirrorStep

LEMMA PositionMirrorRefines ==
  ASSUME Inductive, PositionMirror
  PROVE  MirrorStep(Motion(hard), Motion(hard'))
<1>1. /\ Ordered("position") /\ mode' = mode
      /\ \E t \in [Hardpoints -> Targets] : hard' = MoveToEncoder(hard, t)
  BY DEF PositionMirror
<1>2. hard \in Tables /\ encoder \in [Hardpoints -> Int] /\ budget'.commands < budget.commands
  BY <1>1, OrderedFits DEF Inductive, TypeOK, Tables
<1>3. Motion(hard') \in M!Moves(Motion(hard))
  BY <1>1, <1>2, TargetsAreReadings, MoveToEncoderFits, MovesAreMoves
<1> QED BY <1>1, <1>2, <1>3 DEF MirrorStep

\* A raise and the lowering that aborts it start with hardpoints that chase.
LEMMA ChasingStarts ==
  ASSUME Inductive, RaiseM1M3 \/ AbortRaise
  PROVE  MirrorStep(Motion(hard), Motion(hard'))
<1> DEFINE stopped == StopMotion(hard)
           chasing == EnableChaseAll(stopped)
<1>1. /\ Ordered("raise") /\ mode' # mode /\ "RaisingEngineering" \in {mode, mode'}
      /\ mode' # "Parked" /\ mode # "ActiveEngineering"
      /\ hard' = ResetWait(chasing) \/ hard' = chasing
  BY DEF RaiseM1M3, AbortRaise
<1>2. hard \in Tables /\ budget'.commands < budget.commands
  BY <1>1, OrderedFits DEF Inductive, TypeOK, Tables
<1>3. stopped \in Tables /\ MotionComplete(stopped)
  BY <1>2, SwitchesFit DEF AllQuiet, MotionComplete
<1> HIDE DEF stopped
<1>4. chasing \in Tables /\ \A i \in Hardpoints : chasing[i].motion = "Chasing"
  BY <1>3, SwitchesFit DEF AllQuiet
<1> HIDE DEF chasing
<1>5. \A i \in Hardpoints : hard'[i].motion = "Chasing"
  BY <1>1, <1>4, ResetWaitFits
<1>6. Motion(hard') = M!AllChasing
  BY <1>5, MotionIsClass, ClassFacts DEF M!AllChasing
<1> QED BY <1>1, <1>2, <1>6 DEF MirrorStep

LEMMA LowerM1M3Refines ==
  ASSUME Inductive, LowerM1M3
  PROVE  MirrorStep(Motion(hard), Motion(hard'))
<1> DEFINE ready == ResetWait(StopMotion(hard))
<1>1. /\ Ordered("raise") /\ mode = "ActiveEngineering" /\ mode' = "LoweringEngineering"
      /\ \E t \in [Hardpoints -> Targets] : hard' = MoveToEncoder(ready, t)
  BY DEF LowerM1M3
<1>2. hard \in Tables /\ encoder \in [Hardpoints -> Int] /\ budget'.commands < budget.commands
  BY <1>1, OrderedFits DEF Inductive, TypeOK, Tables
<1>3. StopMotion(hard) \in Tables /\ \A i \in Hardpoints : StopMotion(hard)[i].motion = "Standby"
  BY <1>2, SwitchesFit DEF AllQuiet
<1>4. ready \in Tables /\ \A i \in Hardpoints : ready[i].motion = "Standby"
  BY <1>3, ResetWaitFits
<1> HIDE DEF ready
<1>5. Motion(ready) = M!AllStandby
  BY <1>4, SwitchesAreSwitches DEF MotionComplete
<1>6. Motion(hard') \in M!Moves(M!AllStandby)
  BY <1>1, <1>2, <1>4, <1>5, TargetsAreReadings, MoveToEncoderFits, MovesAreMoves
<1> QED BY <1>1, <1>2, <1>6 DEF MirrorStep

\* Every step of the detailed controller is one that MirrorControl allows.
THEOREM RefinesHardpointMotion == Spec => ImplementsHardpointMotion
<1>1. ASSUME Inductive, Next
      PROVE  MirrorStep(Motion(hard), Motion(hard'))
  BY <1>1, SteadyUpdateRefines, TestUpdateRefines, RaiseUpdateRefines, LowerUpdateRefines,
     TestCommandsRefine, EngineeringRefines, MoveHardpointsRefines, PositionMirrorRefines,
     ChasingStarts, LowerM1M3Refines DEF Next, Cycle
<1>2. Inductive /\ [Next]_vars => [MirrorStep(Motion(hard), Motion(hard'))]_vars
  BY <1>1
<1> QED BY <1>2, InductiveInvariant, PTL DEF Spec, ImplementsHardpointMotion

=============================================================================
