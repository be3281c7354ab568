------------------------- MODULE SupervisionProofs --------------------------
(***************************************************************************)
(* Proofs about Supervision, for all timers, windows, thresholds, force    *)
(* actuators and scenarios that SupervisionAssumption admits.              *)
(***************************************************************************)
EXTENDS Supervision, FiniteSetTheorems, SequenceTheorems, TLAPS

----------------------------------------------------------------------------
(* The states. *)

\* The groups of states are made of states.
LEMMA GroupsOfStates ==
  /\ EnabledStates \subseteq States /\ FaultStates \subseteq States
  /\ FaultStates = {"LoweringFault", "Fault"}
  /\ EnabledStates \cap (FaultStates \cup {"Standby", "Disabled"}) = {}
  /\ ParkedStates \subseteq EnabledStates /\ EngineeringStates \subseteq EnabledStates
  /\ RaisedStates \subseteq EnabledStates
  /\ {"Standby", "Disabled", "LoweringFault", "Fault"} \subseteq States
  /\ {"Parked", "ParkedEngineering", "Active", "ActiveEngineering", "Raising", "RaisingEngineering",
      "Lowering", "LoweringEngineering", "PausedRaising", "PausedRaisingEngineering",
      "PausedLowering", "PausedLoweringEngineering", "ProfileHardpointCorrection"} \subseteq EnabledStates
  /\ {"Active", "ActiveEngineering", "ProfileHardpointCorrection"} = RaisedStates
BY DEF States, EnabledStates, FaultStates, ParkedStates, EngineeringStates, RaisedStates,
       OperationStates, RaisingStates, LoweringStates, PausedRaisingStates, PausedLoweringStates

----------------------------------------------------------------------------
(* The windows. *)

AnyReading == -1 .. 1
Windows == [1 .. Period -> AnyReading]
Tallies == [bad : 0 .. Threshold, run : 0 .. Threshold]

\* The bad readings in a window, and those of one sign.
Bad(w) == {i \in 1 .. Period : w[i] # 0}
Below(w) == {i \in 1 .. Period : w[i] < 0}
Above(w) == {i \in 1 .. Period : w[i] > 0}

\* The readings of the run are the last ones, and all of them are bad.
EndsWithRun(w, t) == \A i \in 1 .. Period : i > Period - t.run => w[i] # 0

\* The window holds no bad reading that was not counted.
HoldsCounted(w, t) == t.bad < Threshold => Cardinality(Bad(w)) <= t.bad

\* The numbers of bad readings are numbers.
LEMMA BadIsFinite ==
  ASSUME NEW w
  PROVE  /\ IsFiniteSet(Bad(w)) /\ Cardinality(Bad(w)) \in Nat
         /\ IsFiniteSet(Below(w)) /\ Cardinality(Below(w)) \in Nat
         /\ IsFiniteSet(Above(w)) /\ Cardinality(Above(w)) \in Nat
<1>1. IsFiniteSet(1 .. Period)
  BY SupervisionAssumption, FS_Interval
<1>2. /\ Bad(w) \in SUBSET (1 .. Period) /\ Below(w) \in SUBSET (1 .. Period)
      /\ Above(w) \in SUBSET (1 .. Period)
  BY DEF Bad, Below, Above
<1>3. IsFiniteSet(Bad(w)) /\ IsFiniteSet(Below(w)) /\ IsFiniteSet(Above(w))
  BY <1>1, <1>2, FS_Subset
<1> QED BY <1>3, FS_CardinalityType

\* A window trips for the number of bad readings in it, whichever side they are on.
LEMMA TripsCounts ==
  ASSUME NEW w \in Windows
  PROVE  Trips(w) <=> Cardinality(Bad(w)) >= Threshold
<1>1. Bad(w) = Below(w) \cup Above(w) /\ Below(w) \cap Above(w) = {}
  BY SupervisionAssumption DEF Bad, Below, Above, Windows, AnyReading
<1>2. Cardinality(Below(w) \cap Above(w)) = 0
  BY <1>1, FS_EmptySet
<1>3. Cardinality(Bad(w)) = Cardinality(Below(w)) + Cardinality(Above(w)) - Cardinality(Below(w) \cap Above(w))
  BY <1>1, BadIsFinite, FS_Union
<1>4. Low(w) = Cardinality(Below(w)) /\ High(w) = Cardinality(Above(w))
  BY DEF Low, High, Below, Above
<1> QED BY <1>2, <1>3, <1>4, BadIsFinite, SupervisionAssumption DEF Trips

\* Threshold bad readings in a row trip the window.
LEMMA RunTrips ==
  ASSUME NEW w \in Windows, NEW t \in Tallies, EndsWithRun(w, t), t.run = Threshold
  PROVE  Trips(w)
<1> DEFINE last == Period - Threshold + 1 .. Period
<1>1. Threshold \in Nat /\ Period \in Nat /\ Threshold <= Period
  BY SupervisionAssumption
<1>2. Cardinality(last) = Threshold
  BY <1>1, FS_Interval
<1>3. last \in SUBSET Bad(w)
  BY <1>1 DEF EndsWithRun, Bad
<1>4. Cardinality(last) <= Cardinality(Bad(w))
  BY <1>3, BadIsFinite, FS_Subset
<1> QED BY <1>1, <1>2, <1>4, TripsCounts, BadIsFinite

\* What a new reading does to a window: everything moves up by one.
LEMMA PushShifts ==
  ASSUME NEW w \in Windows, NEW r \in AnyReading
  PROVE  /\ Append(Tail(w), r) \in Windows
         /\ Append(Tail(w), r) = [i \in 1 .. Period |-> IF i = Period THEN r ELSE w[i + 1]]
<1>1. Period \in Nat \ {0}
  BY SupervisionAssumption
<1>2. w \in Seq(AnyReading) /\ Len(w) = Period
  BY <1>1 DEF Windows
<1>3. /\ Tail(w) \in Seq(AnyReading) /\ Len(Tail(w)) = Period - 1
      /\ \A i \in 1 .. Period - 1 : Tail(w)[i] = w[i + 1]
  BY <1>1, <1>2
<1>4. Append(Tail(w), r) = [i \in 1 .. Period |-> IF i = Period THEN r ELSE w[i + 1]]
  <2> DEFINE u == Append(Tail(w), r)
  <2>1. /\ u \in Seq(AnyReading) /\ Len(u) = Period
        /\ \A i \in 1 .. Period - 1 : u[i] = Tail(w)[i]
        /\ u[Period] = r
    BY <1>1, <1>3, AppendProperties
  <2>2. u \in [1 .. Period -> AnyReading]
    BY <2>1, LenProperties
  <2>3. \A i \in 1 .. Period : u[i] = IF i = Period THEN r ELSE w[i + 1]
    BY <1>1, <1>3, <2>1
  <2> HIDE DEF u
  <2>4. u = [i \in 1 .. Period |-> IF i = Period THEN r ELSE w[i + 1]]
    BY <2>2, <2>3
  <2> QED BY <2>4 DEF u
<1>5. Append(Tail(w), r) \in Windows
  BY <1>1, <1>4 DEF Windows
<1> QED BY <1>4, <1>5

\* It adds at most one to the bad readings, and none when it is good.
LEMMA PushCounts ==
  ASSUME NEW w \in Windows, NEW r \in AnyReading
  PROVE  Cardinality(Bad(Append(Tail(w), r))) <= Cardinality(Bad(w)) + IF r = 0 THEN 0 ELSE 1
<1> DEFINE u == Append(Tail(w), r)
           kept == Bad(u) \ {Period}
           f == [i \in kept |-> i + 1]
<1>1. u = [i \in 1 .. Period |-> IF i = Period THEN r ELSE w[i + 1]] /\ Period \in Nat \ {0}
  BY PushShifts, SupervisionAssumption
<1>2. \A i \in kept : i \in 1 .. Period - 1 /\ w[i + 1] # 0
  BY <1>1 DEF Bad
<1>3. f \in [kept -> Bad(w)]
  BY <1>1, <1>2 DEF Bad
<1>4. \A a, b \in kept : f[a] = f[b] => a = b
  BY <1>1, <1>2
<1>5. f \in Injection(kept, Bad(w))
  BY <1>3, <1>4 DEF Injection, IsInjective
<1>6. IsFiniteSet(kept) /\ Cardinality(kept) <= Cardinality(Bad(w))
  BY <1>5, BadIsFinite, FS_Injection
<1>7. CASE r = 0
  <2>1. kept = Bad(u)
    BY <1>1, <1>7 DEF Bad
  <2> QED BY <1>6, <1>7, <2>1, BadIsFinite
<1>8. CASE r # 0
  <2>1. Bad(u) = kept \cup {Period}
    BY <1>1, <1>8 DEF Bad
  <2> HIDE DEF kept, u
  <2>3. Cardinality(kept) \in Nat
    BY <1>6, FS_CardinalityType
  <2>4. Cardinality(kept \cup {Period}) = Cardinality(kept) + IF Period \in kept THEN 0 ELSE 1
    <3>1. Cardinality(kept \cup {Period})
            = IF Period \in kept THEN Cardinality(kept) ELSE Cardinality(kept) + 1
      BY <1>6, FS_AddElement
    <3> QED BY <2>3, <3>1
  <2>2. Cardinality(Bad(u)) <= Cardinality(kept) + 1
    BY <2>1, <2>3, <2>4
  <2>5. Cardinality(Bad(w)) \in Nat /\ Cardinality(Bad(u)) \in Nat
    BY BadIsFinite, <2>1, <1>6, <2>3, <2>4
  <2>6. Cardinality(Bad(u)) <= Cardinality(Bad(w)) + 1
    BY <1>6, <2>2, <2>3, <2>5
  <2> QED BY <1>8, <2>6 DEF u
<1> QED BY <1>7, <1>8

\* A window and its tally that fit: see WindowIsExact.
WindowFits(w, t) ==
  /\ w \in Windows /\ t \in Tallies
  /\ EndsWithRun(w, t) /\ HoldsCounted(w, t)

\* A new reading and its count keep a window fitting, and the window trips only when
\* Threshold bad readings were counted, and whenever as many of them are in a row.
LEMMA PushFits ==
  ASSUME WindowFits(window, tally), NEW r \in AnyReading, Push(r)
  PROVE  /\ WindowFits(window', tally')
         /\ Trips(window') => tally'.bad = Threshold
         /\ tally'.run = Threshold => Trips(window')
<1>1. window \in Windows /\ tally \in Tallies
  BY DEF WindowFits
<1>2. window' = Append(Tail(window), r) /\ tally' = Count(r)
  BY DEF Push
<1>3. /\ window' \in Windows
      /\ window' = [i \in 1 .. Period |-> IF i = Period THEN r ELSE window[i + 1]]
  BY <1>1, <1>2, PushShifts
<1>4. /\ tally' \in Tallies
      /\ tally'.bad = IF r = 0 THEN tally.bad ELSE Min2(tally.bad + 1, Threshold)
      /\ tally'.run = IF r = 0 THEN 0 ELSE Min2(tally.run + 1, Threshold)
  BY <1>1, <1>2, SupervisionAssumption DEF Count, Tallies, Min2
<1>5. EndsWithRun(window', tally')
  <2> SUFFICES ASSUME NEW i \in 1 .. Period, i > Period - tally'.run
               PROVE  window'[i] # 0
    BY DEF EndsWithRun
  <2>1. r # 0
    BY <1>4, SupervisionAssumption
  <2>2. CASE i = Period
    BY <1>3, <2>1, <2>2
  <2>3. CASE i # Period
    <3>1. i + 1 \in 1 .. Period /\ i + 1 > Period - tally.run
      BY <1>1, <1>4, <2>1, <2>3, SupervisionAssumption DEF Tallies, Min2
    <3>2. window[i + 1] # 0
      BY <3>1 DEF WindowFits, EndsWithRun
    <3> QED BY <1>3, <2>3, <3>2
  <2> QED BY <2>2, <2>3
<1>6. HoldsCounted(window', tally')
  <2> SUFFICES ASSUME tally'.bad < Threshold
               PROVE  Cardinality(Bad(window')) <= tally'.bad
    BY DEF HoldsCounted
  <2>1. Cardinality(Bad(window')) <= Cardinality(Bad(window)) + IF r = 0 THEN 0 ELSE 1
    BY <1>1, <1>2, PushCounts
  <2>2. tally.bad < Threshold /\ tally'.bad = tally.bad + IF r = 0 THEN 0 ELSE 1
    BY <1>1, <1>4, SupervisionAssumption DEF Tallies, Min2
  <2>3. Cardinality(Bad(window)) <= tally.bad
    BY <2>2 DEF WindowFits, HoldsCounted
  <2> QED BY <1>1, <1>4, <2>1, <2>2, <2>3, BadIsFinite DEF Tallies
<1>7. Trips(window') => tally'.bad = Threshold
  BY <1>3, <1>4, <1>6, TripsCounts, BadIsFinite, SupervisionAssumption DEF HoldsCounted, Tallies
<1>8. tally'.run = Threshold => Trips(window')
  BY <1>3, <1>4, <1>5, RunTrips
<1> QED BY <1>3, <1>4, <1>5, <1>6, <1>7, <1>8 DEF WindowFits

----------------------------------------------------------------------------
(* The state, the latch and the window. *)

\* The faults there may be: equipment is at fault only when it is broken.
Known == {"None", "Window", "Panic"} \cup IF broken = {} THEN {} ELSE {"Equipment"}

\* A fault is known; the latch holds one once there is a controller, which there is outside
\* Standby.
CodesFit ==
  /\ state \in States
  /\ error \in Known \cup {"NoController"} /\ cause \in Known
  /\ error = "NoController" => state = "Standby"

\* Back in Standby the window of the ILC timeouts still holds what was counted.
WindowsFit ==
  /\ window \in Windows /\ tally \in Tallies
  /\ EndsWithRun(window, tally)
  /\ state # "Standby" => HoldsCounted(window, tally)

Core == CodesFit /\ WindowsFit /\ WindowIsExact

Working == States \ (FaultStates \cup {"Standby"})

\* A fault that is latched from what was there and from what was found.
Latched(code) ==
  /\ code \in Known /\ (code = "Window" => error = "Window")
  /\ error \notin {"None", "NoController"} => code # "None"

\* A reading, and then checkSafety.
LEMMA ReadingFits ==
  ASSUME Core, state \in Working, UNCHANGED broken,
         NEW s \in States \ FaultStates, NEW code, Latched(code),
         NEW r \in AnyReading, Push(r), CheckSafety(s, Latch(code, Trips(window'), "Window"))
  PROVE  Core'
<1> DEFINE latched == Latch(code, Trips(window'), "Window")
<1>1. /\ state # "Standby" /\ WindowFits(window, tally) /\ Known' = Known
  BY DEF Working, Core, WindowsFit, WindowFits, Known
<1>2. /\ WindowFits(window', tally')
      /\ Trips(window') => tally'.bad = Threshold
      /\ tally'.run = Threshold => Trips(window')
  BY <1>1, PushFits
<1>3. latched \in Known /\ (Trips(window') => latched # "None")
  BY DEF Latch, Latched, Known
<1>4. CodesFit'
  BY <1>1, <1>3, GroupsOfStates DEF CheckSafety, Core, CodesFit, Known
<1>5. WindowsFit'
  BY <1>2 DEF WindowsFit, WindowFits
<1>6. ASSUME latched = "Window"
      PROVE  tally'.bad = Threshold
  <2>1. CASE Trips(window')
    BY <1>2, <2>1
  <2>2. CASE ~Trips(window')
    <3>1. error = "Window"
      BY <1>6, <2>2 DEF Latch, Latched
    <3>2. tally.bad = Threshold
      BY <3>1 DEF Core, WindowIsExact
    <3>3. tally \in Tallies /\ tally' = Count(r)
      BY DEF Core, WindowsFit, Push
    <3> QED BY <3>2, <3>3, SupervisionAssumption DEF Count, Tallies, Min2
  <2> QED BY <2>1, <2>2
<1>7. WindowIsExact'
  <2>1. error' = "None"
    BY DEF CheckSafety
  <2>2. CASE latched = "None"
    <3>1. state' = s /\ ~Trips(window')
      BY <1>3, <2>2 DEF CheckSafety
    <3> QED BY <1>2, <2>1, <3>1 DEF WindowIsExact, FaultStates
  <2>3. CASE latched # "None"
    <3>1. state' = "LoweringFault" /\ cause' = latched
      BY <2>3 DEF CheckSafety
    <3> QED BY <1>6, <2>1, <3>1 DEF WindowIsExact, FaultStates
  <2> QED BY <2>2, <2>3
<1> QED BY <1>4, <1>5, <1>7 DEF Core

\* checkSafety without a new reading, of what was latched.
LEMMA NoReadingFits ==
  ASSUME Core, state \in Working, UNCHANGED <<windows, broken>>,
         NEW s \in States \ FaultStates, NEW code, Latched(code), CheckSafety(s, code)
  PROVE  Core'
<1>1. /\ state # "Standby" /\ state \notin FaultStates /\ state # "LoweringFault"
  BY DEF Working, FaultStates
<1>2. Known' = Known
  BY DEF Known
<1>3. CodesFit'
  BY <1>1, <1>2, GroupsOfStates DEF CheckSafety, Core, CodesFit, Known, Latched
<1>4. WindowsFit'
  BY <1>1 DEF Core, WindowsFit, windows, EndsWithRun, HoldsCounted
<1>5. WindowIsExact'
  <2>1. error' = "None" /\ tally' = tally
    BY DEF CheckSafety, windows
  <2>2. CASE code = "None"
    <3>1. state' = s /\ error \in {"None", "NoController"}
      BY <2>2 DEF CheckSafety, Latched
    <3>2. error = "None"
      BY <1>1, <3>1 DEF Core, CodesFit
    <3> QED BY <1>1, <2>1, <3>1, <3>2 DEF Core, WindowIsExact, FaultStates
  <2>3. CASE code # "None"
    <3>1. state' = "LoweringFault" /\ cause' = code
      BY <2>3 DEF CheckSafety
    <3> QED BY <2>1, <3>1 DEF Core, WindowIsExact, FaultStates, Latched
  <2> QED BY <2>2, <2>3
<1> QED BY <1>3, <1>4, <1>5 DEF Core

\* A command that ends in checkSafety.
LEMMA CheckSafetyFits ==
  ASSUME Core, state \in Working, UNCHANGED <<windows, broken>>,
         NEW s \in States \ FaultStates, CheckSafety(s, error)
  PROVE  Core'
<1>1. Latched(error)
  BY DEF Latched, Core, CodesFit, Working
<1> QED BY <1>1, NoReadingFits

\* What a monitor reads is a reading.
LEMMA ReadingsAreReadings == Readings \subseteq AnyReading
BY DEF Readings, AnyReading

\* A check of what the ILCs sent, while the mirror is in use.
LEMMA VerifyFits ==
  ASSUME Core, state \in Working, UNCHANGED broken,
         NEW s \in States \ FaultStates, NEW code, Latched(code), Verify(s, code)
  PROVE  Core'
<1>1. CASE Blind
  BY <1>1, NoReadingFits DEF Verify
<1>2. CASE ~Blind
  <2>1. PICK r \in Readings : Push(r) /\ CheckSafety(s, Latch(code, Trips(window'), "Window"))
    BY <1>2 DEF Verify
  <2>2. r \in AnyReading
    BY ReadingsAreReadings
  <2> QED BY <2>1, <2>2, ReadingFits
<1> QED BY <1>1, <1>2

\* The same when the mode of the ILCs is changed.
LEMMA VerifyModeFits ==
  ASSUME Core, state \in Working, UNCHANGED broken,
         NEW s \in States \ FaultStates, NEW code, Latched(code), VerifyMode(s, code)
  PROVE  Core'
<1>1. CASE scenario.monitor # "ilc"
  BY <1>1, NoReadingFits DEF VerifyMode
<1>2. CASE scenario.monitor = "ilc"
  <2>1. PICK r \in 0 .. 1 : Push(r) /\ CheckSafety(s, Latch(code, Trips(window'), "Window"))
    BY <1>2 DEF VerifyMode
  <2>2. r \in AnyReading
    BY DEF AnyReading
  <2> QED BY <2>1, <2>2, ReadingFits
<1> QED BY <1>1, <1>2

\* What is checked before an exception is counted and latched, in whatever state.
LEMMA GlimpseFits ==
  ASSUME Core, state # "Standby", UNCHANGED <<state, cause, broken>>,
         NEW code, Latched(code), Glimpse(code)
  PROVE  Core'
<1>1. Known' = Known /\ "NoController" \notin Known /\ error # "NoController"
  BY DEF Known, Core, CodesFit
<1>2. CASE UNCHANGED windows /\ error' = code
  BY <1>1, <1>2 DEF Core, CodesFit, Latched, WindowsFit, EndsWithRun, HoldsCounted, WindowIsExact, windows
<1>3. CASE ~(UNCHANGED windows /\ error' = code)
  <2>1. PICK r \in Readings : Push(r) /\ error' = Latch(code, Trips(window'), "Window")
    BY <1>3 DEF Glimpse
  <2>2. WindowFits(window, tally) /\ r \in AnyReading
    BY ReadingsAreReadings DEF Core, WindowsFit, WindowFits
  <2>3. /\ WindowFits(window', tally') /\ (Trips(window') => tally'.bad = Threshold)
        /\ tally'.run = Threshold => Trips(window')
    BY <2>1, <2>2, PushFits
  <2>4. error' \in Known /\ (Trips(window') => error' # "None")
    BY <2>1 DEF Latch, Latched, Known
  <2>5. CodesFit'
    BY <1>1, <2>4 DEF CodesFit, Core
  <2>6. WindowsFit'
    BY <2>3 DEF WindowsFit, WindowFits
  <2>7. ASSUME error' = "Window" \/ (state = "LoweringFault" /\ cause = "Window")
        PROVE  tally'.bad = Threshold
    <3>1. CASE Trips(window')
      BY <2>3, <3>1
    <3>2. CASE ~Trips(window')
      <4>1. tally.bad = Threshold
        BY <2>1, <2>7, <3>2 DEF Latch, Latched, Core, WindowIsExact
      <4>2. tally \in Tallies /\ tally' = Count(r)
        BY <2>1 DEF Core, WindowsFit, Push
      <4> QED BY <4>1, <4>2, SupervisionAssumption DEF Count, Tallies, Min2
    <3> QED BY <3>1, <3>2
  <2>8. WindowIsExact'
    BY <2>3, <2>4, <2>7 DEF WindowIsExact
  <2> QED BY <2>5, <2>6, <2>8 DEF Core
<1> QED BY <1>2, <1>3

\* A check in a fault state, which latches what it finds and goes to Fault.
LEMMA VerifyFaultedFits ==
  ASSUME Core, state \in FaultStates, UNCHANGED <<cause, broken>>, state' = "Fault",
         NEW code, Latched(code), VerifyFaulted(code)
  PROVE  Core'
<1>1. Known' = Known /\ state # "Standby" /\ "Fault" \in States
  BY GroupsOfStates DEF Known, FaultStates
<1>2. CASE Blind
  <2>1. error' = code /\ UNCHANGED windows
    BY <1>2 DEF VerifyFaulted
  <2> QED BY <1>1, <2>1 DEF Core, CodesFit, WindowsFit, WindowIsExact, Latched, windows,
                            EndsWithRun, HoldsCounted, Known, FaultStates
<1>3. CASE ~Blind
  <2>1. PICK r \in Readings : Push(r) /\ error' = Latch(code, Trips(window'), "Window")
    BY <1>3 DEF VerifyFaulted
  <2>2. WindowFits(window, tally) /\ r \in AnyReading
    BY <1>1, ReadingsAreReadings DEF Core, WindowsFit, WindowFits
  <2>3. WindowFits(window', tally') /\ (Trips(window') => tally'.bad = Threshold)
    BY <2>1, <2>2, PushFits
  <2>4. error' \in Known
    BY <2>1 DEF Latch, Latched, Known
  <2>5. CodesFit'
    BY <1>1, <2>4 DEF CodesFit, Core, Known
  <2>6. WindowsFit'
    BY <2>3 DEF WindowsFit, WindowFits
  <2>7. ASSUME error' = "Window"
        PROVE  tally'.bad = Threshold
    <3>1. CASE Trips(window')
      BY <2>3, <3>1
    <3>2. CASE ~Trips(window')
      <4>1. tally.bad = Threshold
        BY <2>1, <2>7, <3>2 DEF Latch, Latched, Core, WindowIsExact
      <4>2. tally \in Tallies /\ tally' = Count(r)
        BY <2>1 DEF Core, WindowsFit, Push
      <4> QED BY <4>1, <4>2, SupervisionAssumption DEF Count, Tallies, Min2
    <3> QED BY <3>1, <3>2
  <2>8. WindowIsExact'
    BY <2>7 DEF WindowIsExact, FaultStates
  <2> QED BY <2>5, <2>6, <2>8 DEF Core
<1> QED BY <1>2, <1>3

----------------------------------------------------------------------------
(* Air, lights, heartbeat. *)

DeviceStates == [commanded : BOOLEAN, output : BOOLEAN, sensor : 0 .. 2, age : Nat, travel : Nat]

\* A device that works follows its command with the next update, and its sensor is on its
\* way for as long as the command is old: so when its time is up, the sensor has arrived.
OnTime(x) ==
  IF x.output # x.commanded THEN x.age = 0
  ELSE x.sensor # Position(x.output) => x.age <= x.travel

DevicesFit ==
  /\ dev \in [Devices -> DeviceStates]
  /\ \A d \in Devices : dev[d].age <= Grace[d] /\ dev[d].travel <= Grace[d]
  /\ broken = {} => \A d \in Devices : OnTime(dev[d])

\* What a command leaves of the state of a device.
Commanded(x, on, age) == [x EXCEPT !.commanded = on, !.age = age]

\* A device with a new command and time, all else as it was.
LEMMA CommandedState ==
  ASSUME NEW x \in DeviceStates, NEW on \in BOOLEAN, NEW age \in Nat
  PROVE  /\ Commanded(x, on, age) \in DeviceStates
         /\ Commanded(x, on, age).commanded = on /\ Commanded(x, on, age).output = x.output
         /\ Commanded(x, on, age).sensor = x.sensor
         /\ Commanded(x, on, age).age = age /\ Commanded(x, on, age).travel = x.travel
<1>1. Commanded(x, on, age) \in DeviceStates
  BY DEF DeviceStates, Commanded
<1>2. /\ Commanded(x, on, age).sensor = x.sensor /\ Commanded(x, on, age).age = age
      /\ Commanded(x, on, age).travel = x.travel
  BY DEF DeviceStates, Commanded
<1>3. Commanded(x, on, age).commanded = on
  BY DEF DeviceStates, Commanded
<1>4. Commanded(x, on, age).output = x.output
  BY DEF DeviceStates, Commanded
<1> QED BY <1>1, <1>2, <1>3, <1>4

\* A command given to one device.
LEMMA CommandFits ==
  ASSUME NEW v \in [Devices -> DeviceStates], NEW d \in Devices, NEW on \in BOOLEAN
  PROVE  /\ Command(d, on, v) \in [Devices -> DeviceStates]
         /\ \A x \in Devices : v[x].age <= Grace[x] /\ v[x].travel <= Grace[x]
                => Command(d, on, v)[x].age <= Grace[x] /\ Command(d, on, v)[x].travel <= Grace[x]
         /\ \A x \in Devices : OnTime(v[x]) => OnTime(Command(d, on, v)[x])
<1> DEFINE old == v[d]
           age == IF d = "air" /\ v["air"].commanded = on THEN old.age ELSE 0
           new == Commanded(old, on, age)
<1>1. old \in DeviceStates /\ old.age \in Nat /\ old.travel \in Nat
  BY DEF DeviceStates
<1>2. age \in Nat /\ age <= old.age
  BY <1>1
<1>3. /\ new \in DeviceStates
      /\ new.commanded = on /\ new.output = old.output /\ new.sensor = old.sensor
      /\ new.age = age /\ new.travel = old.travel
  <2> HIDE DEF age, old
  <2> QED BY <1>1, <1>2, CommandedState
<1>4. Command(d, on, v) = [v EXCEPT ![d] = new]
  BY DEF Command, Commanded
<1>5. age # 0 => age = old.age /\ on = old.commanded
  <2>1. CASE d = "air" /\ v["air"].commanded = on
    BY <2>1
  <2>2. CASE ~(d = "air" /\ v["air"].commanded = on)
    BY <2>2
  <2> QED BY <2>1, <2>2
<1> HIDE DEF new, age
<1>6. \A x \in Devices : Command(d, on, v)[x] = IF x = d THEN new ELSE v[x]
  BY <1>4
<1>7. OnTime(old) => OnTime(new)
  BY <1>1, <1>3, <1>5 DEF OnTime, DeviceStates
<1>8. Grace[d] \in Nat
  BY SupervisionAssumption
<1>9. old.age <= Grace[d] => new.age <= Grace[d]
  BY <1>1, <1>2, <1>3, <1>8
<1>10. Command(d, on, v) \in [Devices -> DeviceStates]
  BY <1>3, <1>4
<1> QED BY <1>3, <1>6, <1>7, <1>9, <1>10

\* So what was in order stays so.
LEMMA CommandedFits ==
  ASSUME DevicesFit, NEW d \in Devices, NEW on \in BOOLEAN, dev' = Command(d, on, dev), broken' = broken
  PROVE  DevicesFit'
<1>1. dev \in [Devices -> DeviceStates]
  BY DEF DevicesFit
<1> QED BY <1>1, CommandFits DEF DevicesFit

\* An update moves one device: it follows its command, and it is on time unless broken.
LEMMA MovedFits ==
  ASSUME DevicesFit, NEW d \in Devices, NEW x \in Moved(d)
  PROVE  /\ x \in DeviceStates /\ x.age <= Grace[d] /\ x.travel <= Grace[d]
         /\ broken = {} => /\ x.output = x.commanded /\ OnTime(x)
                           /\ x.age = Grace[d] => x.sensor = Position(x.commanded)
<1> DEFINE old == dev[d]
           target == IF Outputs[d] \in broken THEN old.output ELSE old.commanded
           travel == IF target = old.output THEN Min2(old.travel + 1, Grace[d]) ELSE 1
           between == IF travel = Grace[d] THEN {} ELSE {old.sensor} \cup IF d = "air" THEN {1} ELSE {}
           sensors == IF d \in broken \/ old.sensor = Position(target)
                      THEN {old.sensor} ELSE between \cup {Position(target)}
<1>1. /\ old.commanded \in BOOLEAN /\ old.output \in BOOLEAN /\ old.sensor \in 0 .. 2
      /\ old.age \in Nat /\ old.travel \in Nat /\ old.age <= Grace[d] /\ old.travel <= Grace[d]
      /\ old \in DeviceStates
  BY DEF DevicesFit, DeviceStates
<1>2. Grace[d] \in Nat \ {0}
  BY SupervisionAssumption
<1>3. target \in BOOLEAN /\ Position(target) \in 0 .. 2
  BY <1>1 DEF Position
<1>4. PICK s \in sensors :
        x = [old EXCEPT !.output = target, !.sensor = s, !.age = Min2(@ + 1, Grace[d]),
                        !.travel = IF s = Position(target) THEN 0 ELSE travel]
  BY DEF Moved
<1>5. s \in 0 .. 2
  BY <1>1, <1>3, <1>4
<1>6. travel \in Nat /\ travel <= Grace[d]
  BY <1>1, <1>2 DEF Min2
<1> DEFINE trip == IF s = Position(target) THEN 0 ELSE travel
<1>7. trip \in Nat /\ trip <= Grace[d]
  BY <1>2, <1>6
<1>8. x = [commanded |-> old.commanded, output |-> target, sensor |-> s,
           age |-> Min2(old.age + 1, Grace[d]), travel |-> trip]
  BY <1>1, <1>4 DEF DeviceStates
<1>9. Min2(old.age + 1, Grace[d]) \in Nat /\ Min2(old.age + 1, Grace[d]) <= Grace[d]
  BY <1>1, <1>2 DEF Min2
<1>10. x \in DeviceStates /\ x.age <= Grace[d] /\ x.travel <= Grace[d]
  <2> HIDE DEF target, trip
  <2> QED BY <1>1, <1>3, <1>5, <1>7, <1>8, <1>9 DEF DeviceStates
<1>11. ASSUME broken = {}
       PROVE  /\ x.output = x.commanded /\ OnTime(x)
              /\ x.age = Grace[d] => x.sensor = Position(x.commanded)
  <2>1. target = old.commanded /\ OnTime(old)
    BY <1>11 DEF DevicesFit
  <2>2. x.output = old.commanded /\ x.commanded = old.commanded /\ x.sensor = s
        /\ x.age = Min2(old.age + 1, Grace[d]) /\ x.travel = trip
    BY <1>8, <2>1
  <2>3. CASE s = Position(target)
    BY <2>1, <2>2, <2>3 DEF OnTime
  <2>4. CASE s # Position(target)
    <3>1. old.sensor # Position(target) /\ travel # Grace[d]
      BY <1>4, <1>11, <2>4
    <3>2. Min2(old.age + 1, Grace[d]) <= travel
      <4>1. CASE target = old.output
        <5>1. old.age <= old.travel
          BY <2>1, <3>1, <4>1 DEF OnTime
        <5> QED BY <1>1, <1>2, <4>1, <5>1 DEF Min2
      <4>2. CASE target # old.output
        <5>1. old.age = 0
          BY <2>1, <4>2 DEF OnTime
        <5> QED BY <1>2, <4>2, <5>1 DEF Min2
      <4> QED BY <4>1, <4>2
    <3>3. x.age <= x.travel /\ x.travel # Grace[d]
      BY <2>2, <2>4, <3>1, <3>2
    <3>4. x.age # Grace[d]
      BY <1>6, <1>2, <1>9, <2>2, <2>4, <3>1, <3>3
    <3> QED BY <2>2, <3>3, <3>4 DEF OnTime
  <2> QED BY <2>3, <2>4
<1> QED BY <1>10, <1>11

\* An update of the devices, in which only broken equipment is found at fault.
LEMMA ElapsedFits ==
  ASSUME DevicesFit, dev' \in Elapsed, broken' = broken
  PROVE  /\ DevicesFit'
         /\ broken = {} => ~Faulty(dev')
<1>1. PICK a \in Moved("air"), l \in Moved("lights") : dev' = [air |-> a, lights |-> l]
  BY DEF Elapsed
<1>2. dev' = [d \in Devices |-> IF d = "air" THEN a ELSE l]
  BY <1>1 DEF Devices
<1>3. \A d \in Devices : dev'[d] \in Moved(d)
  BY <1>1, <1>2 DEF Devices
<1>4. \A d \in Devices :
        /\ dev'[d] \in DeviceStates /\ dev'[d].age <= Grace[d] /\ dev'[d].travel <= Grace[d]
        /\ broken = {} => /\ dev'[d].output = dev'[d].commanded /\ OnTime(dev'[d])
                          /\ dev'[d].age = Grace[d] => dev'[d].sensor = Position(dev'[d].commanded)
  BY <1>3, MovedFits
<1>5. DevicesFit'
  BY <1>2, <1>4 DEF DevicesFit
<1>6. broken = {} => ~Faulty(dev')
  BY <1>4 DEF Faulty, HeartbeatOutput
<1> QED BY <1>5, <1>6

\* The heartbeat has its type, which says that it is never late.
BeatFits == beat \in [commanded : BOOLEAN, output : BOOLEAN, age : 0 .. BeatPeriod - 1]

\* The heartbeat after a toggle, or without one, is in time.
LEMMA BeatStep ==
  ASSUME BeatFits
  PROVE  /\ TryToggle => BeatFits'
         /\ \A on \in BOOLEAN : beat' = [beat EXCEPT !.commanded = on, !.age = 0] => BeatFits'
<1>1. /\ beat.commanded \in BOOLEAN /\ beat.output \in BOOLEAN /\ beat.age \in 0 .. BeatPeriod - 1
      /\ BeatPeriod \in Nat \ {0} /\ HeartbeatOutput \in BOOLEAN /\ (~beat.commanded) \in BOOLEAN
  BY SupervisionAssumption DEF BeatFits, HeartbeatOutput
<1>2. ASSUME TryToggle
      PROVE  BeatFits'
  <2>1. CASE beat.age + 1 < BeatPeriod
    <3>1. beat' = [beat EXCEPT !.output = HeartbeatOutput, !.age = @ + 1]
      BY <1>2, <2>1 DEF TryToggle
    <3>2. beat.age + 1 \in 0 .. BeatPeriod - 1
      BY <1>1, <2>1
    <3> QED BY <1>1, <3>1, <3>2 DEF BeatFits
  <2>2. CASE ~(beat.age + 1 < BeatPeriod)
    <3>1. beat' = [commanded |-> ~beat.commanded, output |-> HeartbeatOutput, age |-> 0]
      BY <1>2, <2>2 DEF TryToggle
    <3>2. 0 \in 0 .. BeatPeriod - 1
      BY <1>1
    <3> HIDE DEF HeartbeatOutput
    <3> QED BY <1>1, <3>1, <3>2 DEF BeatFits
  <2> QED BY <2>1, <2>2
<1>3. ASSUME NEW on \in BOOLEAN, beat' = [beat EXCEPT !.commanded = on, !.age = 0]
      PROVE  BeatFits'
  <2>1. beat' = [commanded |-> on, output |-> beat.output, age |-> 0]
    BY <1>3 DEF BeatFits
  <2>2. 0 \in 0 .. BeatPeriod - 1
    BY <1>1
  <2> QED BY <1>1, <2>1, <2>2 DEF BeatFits
<1> QED BY <1>2, <1>3

----------------------------------------------------------------------------
(* The relays. *)

Names == {"MirrorRaised", "SystemOperational"}

\* A relay is on when one of its channels is.
On(r, name) == r[name][1] \/ r[name][2]

RelaysFit ==
  /\ relays \in [Names -> [1 .. 2 -> BOOLEAN]] /\ untold \subseteq Names
  /\ RelaysAreTruthful

\* RelaysAreTruthful, of values.
Truthful(r, u, s) ==
  \A name \in Names : On(r, name) =>
    \/ name \in u
    \/ s = "LoweringFault"
    \/ name = "MirrorRaised" /\ s \in RaisedStates
    \/ name = "SystemOperational" /\ s \in EnabledStates

\* The invariant is a statement about those values.
LEMMA RelaysFitSays ==
  /\ RelaysFit <=> /\ relays \in [Names -> [1 .. 2 -> BOOLEAN]] /\ untold \subseteq Names
                   /\ Truthful(relays, untold, state)
  /\ RelaysFit' <=> /\ relays' \in [Names -> [1 .. 2 -> BOOLEAN]] /\ untold' \subseteq Names
                    /\ Truthful(relays', untold', state')
<1>1. relays \in [Names -> [1 .. 2 -> BOOLEAN]] =>
         (RelaysAreTruthful <=> Truthful(relays, untold, state))
  <2> SUFFICES ASSUME relays \in [Names -> [1 .. 2 -> BOOLEAN]]
               PROVE  RelaysAreTruthful <=> Truthful(relays, untold, state)
    OBVIOUS
  <2>1. DOMAIN relays = Names
    OBVIOUS
  <2>2. \A name \in Names : (\E c \in 1 .. 2 : relays[name][c]) <=> On(relays, name)
    <3>1. \A c : c \in 1 .. 2 <=> c = 1 \/ c = 2
      OBVIOUS
    <3> QED BY <3>1, Zenon DEF On
  <2> QED BY <2>1, <2>2, Zenon DEF RelaysAreTruthful, Truthful
<1>2. relays' \in [Names -> [1 .. 2 -> BOOLEAN]] =>
         (RelaysAreTruthful' <=> Truthful(relays', untold', state'))
  <2> SUFFICES ASSUME relays' \in [Names -> [1 .. 2 -> BOOLEAN]]
               PROVE  RelaysAreTruthful' <=> Truthful(relays', untold', state')
    OBVIOUS
  <2>1. DOMAIN relays' = Names
    OBVIOUS
  <2>2. \A name \in Names : (\E c \in 1 .. 2 : relays'[name][c]) <=> On(relays', name)
    <3>1. \A c : c \in 1 .. 2 <=> c = 1 \/ c = 2
      OBVIOUS
    <3> QED BY <3>1, Zenon DEF On
  <2> QED BY <2>1, <2>2, Zenon DEF RelaysAreTruthful, Truthful
<1> QED BY <1>1, <1>2 DEF RelaysFit

\* The states checkSafety leads to.
LEMMA Leads ==
  ASSUME NEW s, NEW code, CheckSafety(s, code) \/ Verify(s, code) \/ VerifyMode(s, code)
  PROVE  state' \in {s, "LoweringFault"}
BY DEF CheckSafety, Verify, VerifyMode

----------------------------------------------------------------------------
(* The booster valves and the rest. *)

Triggers == {"slew", "user", "error", "shake", "opened"}

\* Valves that are open for a reason.
ValveStates == {v \in [Triggers -> BOOLEAN] : v.opened <=> (v.slew \/ v.user \/ v.error \/ v.shake)}

ScenarioStates ==
  [users : SUBSET (Devices \cup Actuators \cup {"booster", "slew", "panic"}),
   breaks : SUBSET Parts, monitor : Monitors, valves : BOOLEAN, toggles : Nat, silences : Nat]

BoosterFits ==
  /\ valves \in ValveStates /\ trigger \in BOOLEAN /\ calm \in BOOLEAN
  /\ fe \in [Actuators -> 0 .. 2] /\ disabled \subseteq Actuators

RestFits == broken \subseteq Parts /\ scenario \in ScenarioStates

\* Every trigger keeps the valves open for a reason, and is the one that was set.
LEMMA SetFits ==
  ASSUME NEW v \in ValveStates, NEW field \in Triggers \ {"opened"}, NEW on \in BOOLEAN
  PROVE  /\ Set(v, field, on) \in ValveStates
         /\ Set(v, field, on)[field] = on
         /\ \A f \in Triggers \ {"opened", field} : Set(v, field, on)[f] = v[f]
<1> DEFINE w == [v EXCEPT ![field] = on]
           o == w.slew \/ w.user \/ w.error \/ w.shake
           u == [w EXCEPT !["opened"] = o]
<1>1. v \in [Triggers -> BOOLEAN]
  BY DEF ValveStates
<1>2. w \in [Triggers -> BOOLEAN] /\ \A f \in Triggers : w[f] = IF f = field THEN on ELSE v[f]
  BY <1>1
<1>3. o \in BOOLEAN
  BY <1>2
<1>4. /\ u \in [Triggers -> BOOLEAN]
      /\ \A f \in Triggers \ {"opened"} : u[f] = w[f]
      /\ u["opened"] = o
  <2> HIDE DEF w, o
  <2> QED BY <1>2, <1>3 DEF Triggers
<1>5. Set(v, field, on) = IF v[field] = on THEN v ELSE u
  BY DEF Set
<1>6. u \in ValveStates
  <2>1. u.slew = w.slew /\ u.user = w.user /\ u.error = w.error /\ u.shake = w.shake
    BY <1>4 DEF Triggers
  <2> HIDE DEF w, u
  <2> QED BY <1>4, <2>1 DEF ValveStates
<1> HIDE DEF u, w
<1> QED BY <1>2, <1>4, <1>5, <1>6


\* So do the checks of the following errors and of the acceleration.
LEMMA ChecksFit ==
  ASSUME NEW v \in ValveStates, NEW e, NEW acceleration
  PROVE  /\ CheckFollowingErrors(v, e) \in ValveStates
         /\ CheckAccelerometer(v, acceleration) \in ValveStates
         /\ ExitSlew(v) \in ValveStates
<1>1. /\ \A on \in BOOLEAN : Set(v, "error", on) \in ValveStates
      /\ \A on \in BOOLEAN : Set(v, "shake", on) \in ValveStates
      /\ \A on \in BOOLEAN : Set(v, "slew", on) \in ValveStates
  BY SetFits DEF Triggers
<1>2. CheckFollowingErrors(v, e) \in {v, Set(v, "error", TRUE), Set(v, "error", FALSE)}
  BY DEF CheckFollowingErrors
<1>3. CheckAccelerometer(v, acceleration) \in {v, Set(v, "shake", TRUE), Set(v, "shake", FALSE)}
  BY DEF CheckAccelerometer
<1>4. ExitSlew(v) \in {v, Set(v, "slew", FALSE)}
  BY DEF ExitSlew
<1> QED BY <1>1, <1>2, <1>3, <1>4

\* The valves are shut for no reason.
LEMMA ShutFits == Shut \in ValveStates
<1>1. Shut \in [Triggers -> BOOLEAN]
  <2>1. Shut = [t \in DOMAIN Shut |-> Shut[t]]
    BY DEF Shut
  <2>2. DOMAIN Shut = Triggers
    BY DEF Shut, Triggers
  <2>3. \A t \in Triggers : Shut[t] \in BOOLEAN
    <3>1. Shut.slew \in BOOLEAN /\ Shut.user \in BOOLEAN /\ Shut.error \in BOOLEAN
          /\ Shut.shake \in BOOLEAN /\ Shut.opened \in BOOLEAN
      BY DEF Shut
    <3> QED BY <3>1, Zenon DEF Triggers
  <2> HIDE DEF Shut
  <2> QED BY <2>1, <2>2, <2>3
<1> QED BY <1>1 DEF Shut, ValveStates

\* What a command or an update may make of the valves.
LEMMA SetsFit ==
  ASSUME NEW v \in ValveStates
  PROVE  /\ \A on \in BOOLEAN : Set(v, "user", on) \in ValveStates /\ Set(v, "slew", on) \in ValveStates
         /\ \A f \in {"slew", "error", "shake"}, on \in BOOLEAN : Set(v, "user", on)[f] = v[f]
         /\ \A on \in BOOLEAN : Set(v, "user", on).user = on /\ Set(v, "slew", on).slew = on
<1>1. \A on \in BOOLEAN : Set(v, "user", on) \in ValveStates /\ Set(v, "user", on)["user"] = on
  BY SetFits DEF Triggers
<1>2. \A on \in BOOLEAN : Set(v, "slew", on) \in ValveStates /\ Set(v, "slew", on)["slew"] = on
  BY SetFits DEF Triggers
<1>3. \A on \in BOOLEAN : \A f \in Triggers \ {"opened", "user"} : Set(v, "user", on)[f] = v[f]
  BY SetFits DEF Triggers
<1>4. {"slew", "error", "shake"} \subseteq Triggers \ {"opened", "user"}
  BY DEF Triggers
<1> QED BY <1>1, <1>2, <1>3, <1>4

----------------------------------------------------------------------------
(* The inductive invariant, and the steps. *)

Inductive == Core /\ DevicesFit /\ BeatFits /\ RelaysFit /\ BoosterFits /\ RestFits

\* The states in which a handler acts are states it works in.
LEMMA WorkingStates ==
  /\ EnabledStates \subseteq Working /\ "Disabled" \in Working
  /\ EngineeringStates \subseteq Working /\ ParkedStates \subseteq Working
  /\ RaisedStates \subseteq EnabledStates
  /\ Working \subseteq States \ FaultStates /\ "Standby" \in States \ FaultStates
  /\ \A c \in Completes : c[1] \in EnabledStates /\ c[2] \in EnabledStates
  /\ \A t \in Transfers : t[1] \in EnabledStates /\ t[2] \in EnabledStates
<1>1. /\ \A c \in Completes : c[1] \in EnabledStates /\ c[2] \in EnabledStates
      /\ \A t \in Transfers : t[1] \in EnabledStates /\ t[2] \in EnabledStates
  BY DEF Completes, Transfers, EnabledStates, OperationStates, RaisingStates, LoweringStates,
         PausedRaisingStates, PausedLoweringStates, RaisedStates, ParkedStates
<1>2. /\ EnabledStates \subseteq Working /\ "Disabled" \in Working
      /\ "Standby" \in States \ FaultStates
  BY GroupsOfStates DEF Working, FaultStates
<1>3. EngineeringStates \subseteq Working /\ ParkedStates \subseteq Working
  BY <1>2, GroupsOfStates
<1>4. Working \subseteq States \ FaultStates
  BY DEF Working
<1> QED BY <1>1, <1>2, <1>3, <1>4, GroupsOfStates

\* Nothing that Core is about changes.
LEMMA CoreKeeps ==
  ASSUME Core, UNCHANGED <<state, cause, windows, broken>>, error' = error
  PROVE  Core'
BY DEF Core, CodesFit, Known, WindowsFit, EndsWithRun, HoldsCounted, WindowIsExact, windows

\* What the devices are found at is a fault that may be there.
LEMMA FaultyLatched ==
  ASSUME Core, state # "Standby", broken = {} => ~Faulty(dev')
  PROVE  Latched(Latch(error, Faulty(dev'), "Equipment"))
BY DEF Latched, Latch, Core, CodesFit, Known

\* What is latched from elsewhere leaves the windows alone.
LEMMA LatchFits ==
  ASSUME Core, state # "Standby", UNCHANGED <<state, cause, windows, broken>>,
         NEW code, Latched(code), error' = code
  PROVE  Core'
<1>1. Glimpse(code)
  BY DEF Glimpse
<1> QED BY <1>1, GlimpseFits

\* The updates keep the core.
LEMMA CoreInUpdates ==
  ASSUME Inductive, Update \/ UpdateThrows
  PROVE  Core'
<1>1. CASE StandbyUpdate
  BY <1>1, CoreKeeps DEF StandbyUpdate, Inductive
<1>2. CASE DisabledUpdate
  <2>1. state \in Working /\ "Disabled" \in States \ FaultStates /\ Latched(error)
    BY <1>2, WorkingStates DEF DisabledUpdate, Inductive, Core, CodesFit, Latched
  <2> QED BY <1>2, <2>1, VerifyFits DEF DisabledUpdate, Inductive
<1>3. CASE DisabledUpdateThrows
  <2>1. state # "Standby" /\ Latched(error)
    BY <1>3 DEF DisabledUpdateThrows, Inductive, Core, CodesFit, Latched
  <2> QED BY <1>3, <2>1, GlimpseFits DEF DisabledUpdateThrows, Inductive
<1>4. CASE FaultUpdate
  <2>1. state \in FaultStates /\ state # "Standby"
    BY <1>4 DEF FaultUpdate, FaultStates
  <2>2. Latched(Latch(error, Faulty(dev'), "Equipment"))
    BY <1>4, <2>1, ElapsedFits, FaultyLatched DEF FaultUpdate, Inductive
  <2> QED BY <1>4, <2>1, <2>2, VerifyFaultedFits DEF FaultUpdate, Inductive
<1>5. CASE FaultUpdateThrows
  <2>1. state # "Standby"
    BY <1>5 DEF FaultUpdateThrows, FaultStates
  <2>2. Latched(Latch(error, Faulty(dev'), "Equipment"))
    BY <1>5, <2>1, ElapsedFits, FaultyLatched DEF FaultUpdateThrows, Inductive
  <2> QED BY <1>5, <2>1, <2>2, GlimpseFits DEF FaultUpdateThrows, Inductive
<1>6. CASE EnabledUpdate
  <2>1. state \in Working /\ state # "Standby"
    BY <1>6, WorkingStates DEF EnabledUpdate, Working
  <2>2. Latched(Latch(error, Faulty(dev'), "Equipment"))
    BY <1>6, <2>1, ElapsedFits, FaultyLatched DEF EnabledUpdate, Inductive
  <2>3. PICK s \in {state} \cup {t[2] : t \in {c \in Completes : c[1] = state}} :
          Verify(s, Latch(error, Faulty(dev'), "Equipment"))
    BY <1>6 DEF EnabledUpdate
  <2>4. s \in States \ FaultStates
    BY <2>1, WorkingStates
  <2> QED BY <1>6, <2>1, <2>2, <2>3, <2>4, VerifyFits DEF EnabledUpdate, Inductive
<1>7. CASE EnabledUpdateThrows
  <2>1. state # "Standby"
    BY <1>7, WorkingStates DEF EnabledUpdateThrows, Working
  <2>2. Latched(Latch(error, Faulty(dev'), "Equipment"))
    BY <1>7, <2>1, ElapsedFits, FaultyLatched DEF EnabledUpdateThrows, Inductive
  <2> QED BY <1>7, <2>1, <2>2, GlimpseFits DEF EnabledUpdateThrows, Inductive
<1> QED BY <1>1, <1>2, <1>3, <1>4, <1>5, <1>6, <1>7 DEF Update, UpdateThrows

\* What switches something and ends in checkSafety keeps the core.
LEMMA CoreInSwitches ==
  ASSUME Inductive, Switch \/ Transfer \/ ExitEngineering \/ RaiseM1M3 \/ LowerM1M3
  PROVE  Core'
<1>1. CASE Turn \/ Booster \/ SlewFlag \/ SetSlewControllerSettings \/ ForceActuators
  <2>1. /\ state \in Working /\ state \in States \ FaultStates
        /\ CheckSafety(state, error) /\ UNCHANGED <<windows, broken>>
    BY <1>1, WorkingStates, GroupsOfStates
       DEF Turn, Booster, SlewFlag, SetSlewControllerSettings, ForceActuators, equipment, RaisedStates
  <2> QED BY <2>1, CheckSafetyFits DEF Inductive
<1>2. CASE Panic
  <2>1. CASE state = "Standby"
    BY <1>2, <2>1 DEF Panic, Latch, Inductive, Core, CodesFit, Known, WindowsFit, EndsWithRun, HoldsCounted,
                      WindowIsExact, windows, equipment
  <2>2. CASE state # "Standby"
    <3>1. Latched(Latch(error, TRUE, "Panic"))
      BY <2>2 DEF Latched, Latch, Inductive, Core, CodesFit, Known
    <3> QED BY <1>2, <2>2, <3>1, LatchFits DEF Panic, Inductive, equipment
  <2> QED BY <2>1, <2>2
<1>3. CASE Transfer
  <2>1. PICK t \in Transfers : t[1] = state /\ CheckSafety(t[2], error)
    BY <1>3 DEF Transfer
  <2>2. state \in Working /\ t[2] \in States \ FaultStates
    BY <2>1, WorkingStates
  <2> QED BY <1>3, <2>1, <2>2, CheckSafetyFits DEF Transfer, Inductive, equipment
<1>4. CASE ExitEngineering
  <2>1. PICK s \in {"Parked", "Active"} : CheckSafety(s, error)
    BY <1>4 DEF ExitEngineering
  <2>2. state \in Working /\ s \in States \ FaultStates
    BY <1>4, WorkingStates, GroupsOfStates DEF ExitEngineering, ParkedStates
  <2> QED BY <1>4, <2>1, <2>2, CheckSafetyFits DEF ExitEngineering, Inductive
<1>5. CASE RaiseM1M3
  <2>1. PICK s \in {"Raising", "RaisingEngineering"} : CheckSafety(s, error)
    BY <1>5 DEF RaiseM1M3
  <2>2. state \in Working /\ s \in States \ FaultStates
    BY <1>5, WorkingStates, GroupsOfStates DEF RaiseM1M3, ParkedStates
  <2> QED BY <1>5, <2>1, <2>2, CheckSafetyFits DEF RaiseM1M3, Inductive, equipment
<1>6. CASE LowerM1M3
  <2>1. PICK s \in {"Lowering", "LoweringEngineering"} : CheckSafety(s, error)
    BY <1>6 DEF LowerM1M3
  <2>2. state \in Working /\ s \in States \ FaultStates
    BY <1>6, WorkingStates, GroupsOfStates DEF LowerM1M3
  <2> QED BY <1>6, <2>1, <2>2, CheckSafetyFits DEF LowerM1M3, Inductive, equipment
<1> QED BY <1>1, <1>2, <1>3, <1>4, <1>5, <1>6 DEF Switch

\* A window that was just filled with zeros and at most one reading.
LEMMA FreshWindow ==
  ASSUME NEW r \in 0 .. 1
  PROVE  /\ [Zeros EXCEPT ![Period] = r] \in Windows /\ Zeros \in Windows
         /\ [bad |-> r, run |-> r] \in Tallies /\ r < Threshold
         /\ EndsWithRun([Zeros EXCEPT ![Period] = r], [bad |-> r, run |-> r])
         /\ HoldsCounted([Zeros EXCEPT ![Period] = r], [bad |-> r, run |-> r])
         /\ Zeros = [Zeros EXCEPT ![Period] = 0]
<1> DEFINE w == [Zeros EXCEPT ![Period] = r]
           t == [bad |-> r, run |-> r]
<1>1. Period \in 1 .. Period /\ Period \in Nat /\ Threshold \in Nat /\ Threshold >= 2
  BY SupervisionAssumption
<1>2. /\ Zeros \in [1 .. Period -> AnyReading]
      /\ \A i \in 1 .. Period : Zeros[i] = 0
  BY DEF Zeros, AnyReading
<1>3. /\ w \in [1 .. Period -> AnyReading]
      /\ \A i \in 1 .. Period : w[i] = IF i = Period THEN r ELSE 0
  BY <1>1, <1>2 DEF AnyReading
<1>4. t \in Tallies /\ r < Threshold
  BY <1>1 DEF Tallies
<1>5. EndsWithRun(w, t)
  <2> SUFFICES ASSUME NEW i \in 1 .. Period, i > Period - r
               PROVE  w[i] # 0
    BY DEF EndsWithRun
  <2>1. r = 1 /\ i = Period
    BY <1>1
  <2> QED BY <1>1, <1>3, <2>1
<1>6. HoldsCounted(w, t)
  <2>0. t.bad = r
    OBVIOUS
  <2> HIDE DEF w, t
  <2>1. Bad(w) \subseteq {Period} /\ (r = 0 => Bad(w) = {})
    BY <1>1, <1>3 DEF Bad
  <2>2. Cardinality({}) = 0 /\ IsFiniteSet({Period}) /\ Cardinality({Period}) = 1
    BY FS_EmptySet, FS_Singleton
  <2>3. Cardinality(Bad(w)) <= 1
    BY <2>1, <2>2, FS_Subset
  <2>4. CASE r = 0
    BY <2>0, <2>1, <2>2, <2>4 DEF HoldsCounted
  <2>5. CASE r = 1
    BY <2>0, <2>3, <2>5 DEF HoldsCounted
  <2> QED BY <2>4, <2>5
<1>7. Zeros = [Zeros EXCEPT ![Period] = 0]
  BY <1>1, <1>2
<1> QED BY <1>2, <1>3, <1>4, <1>5, <1>6, <1>7 DEF Windows

\* A controller that was just started has latched nothing, whatever its window holds.
LEMMA StartedFits ==
  ASSUME Core, NEW s \in {"Standby", "Disabled"}, NEW r \in 0 .. 1,
         window' = [Zeros EXCEPT ![Period] = r], tally' = [bad |-> r, run |-> r],
         state' = s, error' = "None", UNCHANGED <<cause, broken>>
  PROVE  Core'
<1>1. /\ window' \in Windows /\ tally' \in Tallies /\ tally'.run # Threshold
      /\ EndsWithRun(window', tally') /\ HoldsCounted(window', tally')
  <2> DEFINE w == [Zeros EXCEPT ![Period] = r]
             t == [bad |-> r, run |-> r]
  <2>1. w \in Windows /\ t \in Tallies /\ r < Threshold /\ EndsWithRun(w, t) /\ HoldsCounted(w, t)
    BY FreshWindow
  <2>2. t.run = r /\ window' = w /\ tally' = t
    OBVIOUS
  <2> HIDE DEF w, t
  <2>3. t.run # Threshold
    BY <2>1, <2>2, SupervisionAssumption
  <2> QED BY <2>1, <2>2, <2>3, Zenon
<1>2. Known' = Known /\ "None" \in Known /\ s \in States
  BY GroupsOfStates DEF Known
<1> QED BY <1>1, <1>2 DEF Core, CodesFit, WindowsFit, WindowIsExact

\* Every other step keeps the core.
LEMMA CoreInTheRest ==
  ASSUME Inductive,
         \/ Start \/ StartThrows \/ Enable \/ StandbyFromDisabled \/ StandbyFromFault
         \/ Disable \/ DisableThrows \/ Break \/ Calm
  PROVE  Core'
<1>1. CASE Start
  <2>1. PICK r \in IF scenario.monitor = "ilc" THEN 0 .. 1 ELSE {0} :
          window' = [Zeros EXCEPT ![Period] = r] /\ tally' = [bad |-> r, run |-> r]
    BY <1>1 DEF Start
  <2>2. r \in 0 .. 1
    OBVIOUS
  <2>3. state' = "Disabled" /\ error' = "None" /\ UNCHANGED <<cause, broken>>
    BY <1>1 DEF Start, Restart, CheckSafety
  <2> QED BY <2>1, <2>2, <2>3, StartedFits DEF Inductive
<1>2. CASE StartThrows
  <2>1. window' = [Zeros EXCEPT ![Period] = 0] /\ tally' = [bad |-> 0, run |-> 0] /\ 0 \in 0 .. 1
    BY <1>2, FreshWindow DEF StartThrows
  <2>2. state' = "Standby" /\ error' = "None" /\ UNCHANGED <<cause, broken>>
    BY <1>2 DEF StartThrows, Restart
  <2> QED BY <2>1, <2>2, StartedFits DEF Inductive
<1>3. CASE Enable
  <2>1. state \in Working /\ "Parked" \in States \ FaultStates
    BY <1>3, WorkingStates, GroupsOfStates DEF Enable
  <2>2. Latched(error)
    BY <2>1 DEF Latched, Inductive, Core, CodesFit, Working
  <2> QED BY <1>3, <2>1, <2>2, VerifyModeFits DEF Enable, Inductive
<1>4. CASE StandbyFromDisabled
  <2>1. state \in Working /\ "Standby" \in States \ FaultStates
    BY <1>4, WorkingStates DEF StandbyFromDisabled
  <2>2. Latched(error)
    BY <2>1 DEF Latched, Inductive, Core, CodesFit, Working
  <2> QED BY <1>4, <2>1, <2>2, VerifyModeFits DEF StandbyFromDisabled, Inductive, equipment
<1>5. CASE StandbyFromFault
  <2>0. \A r \in 0 .. 1 : Append(Tail(window), r) \in Windows
    BY PushShifts DEF Inductive, Core, WindowsFit, AnyReading
  <2>1. /\ state' = "Standby" /\ error' = "None" /\ cause' = "None"
        /\ window' \in {Append(Tail(window), r) : r \in 0 .. 1} \cup {Zeros}
        /\ tally' = [bad |-> 0, run |-> 0] /\ UNCHANGED broken
    BY <1>5 DEF StandbyFromFault, equipment
  <2>2. window' \in Windows /\ tally' \in Tallies
    <3>1. Zeros \in Windows /\ 0 \in 0 .. 1 /\ [bad |-> 0, run |-> 0] \in Tallies
      BY FreshWindow
    <3>2. window' \in Windows
      BY <2>0, <2>1, <3>1, Zenon
    <3> QED BY <2>1, <3>1, <3>2, Zenon
  <2>3. EndsWithRun(window', tally')
    BY <2>1, SupervisionAssumption DEF EndsWithRun
  <2>4. "Standby" \in States /\ Known' = Known /\ "None" \in Known
    BY <2>1, GroupsOfStates DEF Known
  <2>5. WindowIsExact'
    BY <2>1, SupervisionAssumption DEF WindowIsExact
  <2> QED BY <2>1, <2>2, <2>3, <2>4, <2>5 DEF Core, CodesFit, WindowsFit
<1>6. CASE Disable
  <2>1. state \in Working /\ "Disabled" \in States \ FaultStates
    BY <1>6, WorkingStates, GroupsOfStates DEF Disable, ParkedStates
  <2>2. Latched(error)
    BY <2>1 DEF Latched, Inductive, Core, CodesFit, Working
  <2> QED BY <1>6, <2>1, <2>2, VerifyModeFits DEF Disable, Inductive
<1>7. CASE DisableThrows
  BY <1>7, CoreKeeps DEF DisableThrows, Inductive, equipment
<1>8. CASE Break
  <2>1. Known \subseteq Known' /\ UNCHANGED <<state, error, cause, windows>>
    BY <1>8 DEF Break, Known
  <2> QED BY <2>1 DEF Inductive, Core, CodesFit, WindowsFit, EndsWithRun, HoldsCounted, WindowIsExact, windows
<1>9. CASE Calm
  BY <1>9, CoreKeeps DEF Calm, Inductive, equipment
<1> QED BY <1>1, <1>2, <1>3, <1>4, <1>5, <1>6, <1>7, <1>8, <1>9

\* The core is kept by every step.
LEMMA CoreStep ==
  ASSUME Inductive, Next
  PROVE  Core'
BY CoreInUpdates, CoreInSwitches, CoreInTheRest DEF Next

\* The devices stay in order: an update moves them, and four commands switch them.
LEMMA DevicesStep ==
  ASSUME Inductive, Next
  PROVE  DevicesFit'
<1>1. CASE Update \/ UpdateThrows
  <2>1. dev' \in Elapsed /\ broken' = broken
    BY <1>1 DEF Update, UpdateThrows, StandbyUpdate, DisabledUpdate, DisabledUpdateThrows, FaultUpdate,
                FaultUpdateThrows, EnabledUpdate, EnabledUpdateThrows
  <2> QED BY <2>1, ElapsedFits DEF Inductive
<1>2. CASE UNCHANGED <<dev, broken>>
  BY <1>2 DEF Inductive, DevicesFit
<1>3. CASE Turn
  <2>1. PICK d \in Devices, on \in BOOLEAN : dev' = Command(d, on, dev)
    BY <1>3 DEF Turn
  <2>2. broken' = broken
    BY <1>3 DEF Turn
  <2> QED BY <2>1, <2>2, CommandedFits DEF Inductive
<1>4. CASE Start \/ StartThrows \/ Enable \/ Disable
  <2>1. PICK on \in BOOLEAN : dev' = Command("air", on, dev)
    BY <1>4 DEF Start, StartThrows, Restart, Enable, Disable
  <2>2. broken' = broken /\ "air" \in Devices
    BY <1>4 DEF Start, StartThrows, Restart, Enable, Disable, Devices
  <2> QED BY <2>1, <2>2, CommandedFits DEF Inductive
<1>5. CASE ExitEngineering
  <2> DEFINE v == Command("air", TRUE, dev)
  <2>1. dev' = Command("lights", FALSE, v) /\ broken' = broken
    BY <1>5 DEF ExitEngineering
  <2>2. dev \in [Devices -> DeviceStates] /\ "air" \in Devices /\ "lights" \in Devices
    BY DEF Inductive, DevicesFit, Devices
  <2>3. /\ v \in [Devices -> DeviceStates]
        /\ \A x \in Devices : v[x].age <= Grace[x] /\ v[x].travel <= Grace[x]
        /\ broken = {} => \A x \in Devices : OnTime(v[x])
    BY <2>2, CommandFits DEF Inductive, DevicesFit
  <2> HIDE DEF v
  <2> QED BY <2>1, <2>2, <2>3, CommandFits DEF DevicesFit
<1>6. CASE Break
  <2>1. dev' = dev /\ (broken' = {} => broken = {})
    BY <1>6 DEF Break
  <2> QED BY <2>1 DEF Inductive, DevicesFit
<1> QED BY <1>1, <1>2, <1>3, <1>4, <1>5, <1>6
        DEF Next, Switch, Transfer, Booster, SlewFlag, SetSlewControllerSettings, ForceActuators, Panic,
            StandbyFromDisabled, StandbyFromFault, DisableThrows, RaiseM1M3, LowerM1M3, Calm, equipment

\* The heartbeat is never late.
LEMMA HeartbeatStep ==
  ASSUME Inductive, Next
  PROVE  BeatFits'
<1>1. CASE Update \/ UpdateThrows
  <2>1. TryToggle
    BY <1>1 DEF Update, UpdateThrows, StandbyUpdate, DisabledUpdate, DisabledUpdateThrows, FaultUpdate,
                FaultUpdateThrows, EnabledUpdate, EnabledUpdateThrows
  <2> QED BY <2>1, BeatStep DEF Inductive
<1>2. CASE Start \/ StartThrows
  <2>1. \E on \in BOOLEAN : beat' = [beat EXCEPT !.commanded = on, !.age = 0]
    BY <1>2 DEF Start, StartThrows, Restart
  <2> QED BY <2>1, BeatStep DEF Inductive
<1>3. CASE beat' = beat
  <2>1. BeatFits
    BY DEF Inductive
  <2> QED BY <1>3, <2>1, Zenon DEF BeatFits
<1> QED BY <1>1, <1>2, <1>3
        DEF Next, Switch, Transfer, Turn, Booster, SlewFlag, SetSlewControllerSettings, ForceActuators, Panic,
            Enable, StandbyFromDisabled, StandbyFromFault, Disable, DisableThrows, ExitEngineering,
            RaiseM1M3, LowerM1M3, Break, Calm, equipment

RelaySets == [Names -> [1 .. 2 -> BOOLEAN]]

\* Switching a relay, both of its channels or the first.
LEMMA RelayFits ==
  ASSUME relays \in RelaySets, NEW name \in Names
  PROVE  /\ Relay(name, {1, 2}, FALSE) \in RelaySets
         /\ ~On(Relay(name, {1, 2}, FALSE), name)
         /\ Relay(name, {1}, FALSE) \in RelaySets
         /\ \A n \in Names : On(Relay(name, {1}, FALSE), n) => On(relays, n)
         /\ \A n \in Names \ {name} : Relay(name, {1, 2}, FALSE)[n] = relays[n]
<1> DEFINE both == [c \in 1 .. 2 |-> IF c \in {1, 2} THEN FALSE ELSE relays[name][c]]
           first == [c \in 1 .. 2 |-> IF c \in {1} THEN FALSE ELSE relays[name][c]]
<1>1. Relay(name, {1, 2}, FALSE) = [relays EXCEPT ![name] = both]
  BY DEF Relay, RelaySets
<1>2. Relay(name, {1}, FALSE) = [relays EXCEPT ![name] = first]
  BY DEF Relay, RelaySets
<1>3. relays[name] \in [1 .. 2 -> BOOLEAN]
  BY DEF RelaySets
<1>4. both \in [1 .. 2 -> BOOLEAN] /\ both[1] = FALSE /\ both[2] = FALSE
  BY <1>3
<1>5. first \in [1 .. 2 -> BOOLEAN] /\ first[1] = FALSE /\ first[2] = relays[name][2]
  BY <1>3
<1> HIDE DEF both, first
<1>6. Relay(name, {1, 2}, FALSE) \in RelaySets /\ Relay(name, {1}, FALSE) \in RelaySets
  BY <1>1, <1>2, <1>4, <1>5 DEF RelaySets
<1>7. \A n \in Names : /\ Relay(name, {1, 2}, FALSE)[n] = IF n = name THEN both ELSE relays[n]
                       /\ Relay(name, {1}, FALSE)[n] = IF n = name THEN first ELSE relays[n]
  BY <1>1, <1>2 DEF RelaySets
<1>8. ~On(Relay(name, {1, 2}, FALSE), name)
  BY <1>4, <1>7 DEF On
<1>9. \A n \in Names : On(Relay(name, {1}, FALSE), n) => On(relays, n)
  BY <1>5, <1>7 DEF On
<1> QED BY <1>6, <1>7, <1>8, <1>9

\* An update of an enabled mirror tells that it is in operation, and that an active one is
\* raised.
LEMMA ToldFits ==
  ASSUME relays \in RelaySets, NEW channels
  PROVE  /\ Told(channels) \in RelaySets
         /\ \A n \in Names : On(Told(channels), n) =>
              On(relays, n) \/ n = "SystemOperational" \/ state = "Active"
<1>1. DOMAIN relays = Names
  BY DEF RelaySets
<1>2. Told(channels) \in RelaySets
  BY <1>1 DEF Told, RelaySets
<1>3. \A n \in Names, c \in 1 .. 2 :
        Told(channels)[n][c] <=> \/ relays[n][c]
                                 \/ c \in channels /\ (n = "SystemOperational" \/ state = "Active")
  BY <1>1 DEF Told
<1>4. 1 \in 1 .. 2 /\ 2 \in 1 .. 2
  OBVIOUS
<1> QED BY <1>2, <1>3, <1>4, Zenon DEF On

\* An update that throws in a fault state switches the first channels off.
LEMMA FirstOffFits ==
  ASSUME relays \in RelaySets
  PROVE  LET r == [name \in DOMAIN relays |-> [relays[name] EXCEPT ![1] = FALSE]]
         IN r \in RelaySets /\ \A n \in Names : On(r, n) => On(relays, n)
<1> DEFINE r == [name \in DOMAIN relays |-> [relays[name] EXCEPT ![1] = FALSE]]
<1>1. DOMAIN relays = Names /\ \A n \in Names : relays[n] \in [1 .. 2 -> BOOLEAN]
  BY DEF RelaySets
<1>2. \A n \in Names : /\ [relays[n] EXCEPT ![1] = FALSE] \in [1 .. 2 -> BOOLEAN]
                       /\ [relays[n] EXCEPT ![1] = FALSE][1] = FALSE
                       /\ [relays[n] EXCEPT ![1] = FALSE][2] = relays[n][2]
  BY <1>1
<1>3. r \in RelaySets
  BY <1>1, <1>2 DEF RelaySets
<1>4. \A n \in Names : r[n] = [relays[n] EXCEPT ![1] = FALSE]
  BY <1>1
<1> HIDE DEF r
<1>5. \A n \in Names : r[n][1] = FALSE /\ r[n][2] = relays[n][2]
  <2> SUFFICES ASSUME NEW n \in Names
               PROVE  r[n][1] = FALSE /\ r[n][2] = relays[n][2]
    OBVIOUS
  <2>1. r[n] = [relays[n] EXCEPT ![1] = FALSE]
    BY <1>4
  <2>2. [relays[n] EXCEPT ![1] = FALSE][1] = FALSE /\ [relays[n] EXCEPT ![1] = FALSE][2] = relays[n][2]
    BY <1>2
  <2> QED BY <2>1, <2>2, Zenon
<1>6. \A n \in Names : On(r, n) => On(relays, n)
  BY <1>5, Zenon DEF On
<1> QED BY <1>3, <1>6 DEF r

\* No relay is on.
LEMMA AllOffFits == AllOff \in RelaySets /\ \A n \in Names : ~On(AllOff, n)
<1>1. AllOff = [n \in Names |-> Unraised] /\ Unraised \in [1 .. 2 -> BOOLEAN]
  BY DEF AllOff, Unraised, Names
<1>2. Unraised[1] = FALSE /\ Unraised[2] = FALSE
  BY DEF Unraised
<1> HIDE DEF AllOff, Unraised
<1> QED BY <1>1, <1>2 DEF RelaySets, On

\* What the relays told before a step.
LEMMA RelaysNow ==
  ASSUME Inductive
  PROVE  /\ relays \in RelaySets /\ untold \subseteq Names
         /\ \A n \in Names : On(relays, n) =>
              \/ n \in untold \/ state = "LoweringFault"
              \/ n = "MirrorRaised" /\ state \in RaisedStates
              \/ n = "SystemOperational" /\ state \in EnabledStates
BY RelaysFitSays DEF Inductive, Truthful, RelaySets

\* What the relays have to tell after it.
LEMMA RelaysThen ==
  ASSUME relays' \in RelaySets, untold' \subseteq Names,
         \A n \in Names : On(relays', n) =>
              \/ n \in untold' \/ state' = "LoweringFault"
              \/ n = "MirrorRaised" /\ state' \in RaisedStates
              \/ n = "SystemOperational" /\ state' \in EnabledStates
  PROVE  RelaysFit'
BY RelaysFitSays DEF Truthful, RelaySets

\* Nothing that the relays are about changes, but for a move that tells the same.
LEMMA RelaysKeep ==
  ASSUME Inductive, UNCHANGED <<relays, untold>>,
         \/ state' = "LoweringFault" \/ state' = state
         \/ /\ state # "LoweringFault" /\ state' \in EnabledStates
            /\ state \in RaisedStates => state' \in RaisedStates
         \/ state \notin EnabledStates /\ state # "LoweringFault"
  PROVE  RelaysFit'
<1>1. RaisedStates \subseteq EnabledStates
  BY GroupsOfStates
<1>2. \A n \in Names : On(relays', n) =>
        \/ n \in untold' \/ state' = "LoweringFault"
        \/ n = "MirrorRaised" /\ state' \in RaisedStates
        \/ n = "SystemOperational" /\ state' \in EnabledStates
  <2> SUFFICES ASSUME NEW n \in Names, On(relays', n)
               PROVE  \/ n \in untold' \/ state' = "LoweringFault"
                      \/ n = "MirrorRaised" /\ state' \in RaisedStates
                      \/ n = "SystemOperational" /\ state' \in EnabledStates
    OBVIOUS
  <2>1. On(relays, n)
    BY DEF On
  <2>2. \/ n \in untold \/ state = "LoweringFault"
        \/ n = "MirrorRaised" /\ state \in RaisedStates
        \/ n = "SystemOperational" /\ state \in EnabledStates
    BY <2>1, RelaysNow
  <2> QED BY <1>1, <2>2
<1>3. relays' \in RelaySets /\ untold' \subseteq Names
  BY RelaysNow
<1> QED BY <1>2, <1>3, RelaysThen

\* The updates tell the truth.
LEMMA RelaysInUpdates ==
  ASSUME Inductive, Update \/ UpdateThrows
  PROVE  RelaysFit'
<1>1. CASE StandbyUpdate \/ DisabledUpdateThrows
  BY <1>1, RelaysKeep DEF StandbyUpdate, DisabledUpdateThrows
<1>2. CASE DisabledUpdate
  <2>1. state' \in {"Disabled", "LoweringFault"} /\ state = "Disabled"
    BY <1>2, Leads DEF DisabledUpdate
  <2> QED BY <1>2, <2>1, RelaysKeep DEF DisabledUpdate
<1>3. CASE FaultUpdate
  <2>1. relays' = AllOff /\ untold' = {}
    BY <1>3 DEF FaultUpdate
  <2> QED BY <2>1, AllOffFits, RelaysThen
<1>4. CASE FaultUpdateThrows
  <2>1. /\ relays' \in RelaySets /\ \A n \in Names : On(relays', n) => On(relays, n)
        /\ untold' = untold /\ state' = state
    BY <1>4, RelaysNow, FirstOffFits DEF FaultUpdateThrows
  <2> QED BY <2>1, RelaysNow, RelaysThen
<1>5. CASE EnabledUpdate
  <2>1. PICK s \in {state} \cup {t[2] : t \in {c \in Completes : c[1] = state}} :
          Verify(s, Latch(error, Faulty(dev'), "Equipment"))
    BY <1>5 DEF EnabledUpdate
  <2>2. state' \in {s, "LoweringFault"} /\ state \in EnabledStates /\ untold' = untold
    BY <1>5, <2>1, Leads DEF EnabledUpdate
  <2>3. s \in EnabledStates /\ (state = "Active" => s = "Active") /\ (state \in RaisedStates => s \in RaisedStates)
    BY <2>2 DEF Completes, EnabledStates, OperationStates, RaisingStates, LoweringStates,
                PausedRaisingStates, PausedLoweringStates, RaisedStates, ParkedStates
  <2>4. /\ relays' \in RelaySets
        /\ \A n \in Names : On(relays', n) => On(relays, n) \/ n = "SystemOperational" \/ state = "Active"
    BY <1>5, RelaysNow, ToldFits DEF EnabledUpdate
  <2>5. "Active" \in RaisedStates /\ state # "LoweringFault"
    BY <2>2, GroupsOfStates
  <2> QED BY <2>2, <2>3, <2>4, <2>5, RelaysNow, RelaysThen DEF Names
<1>6. CASE EnabledUpdateThrows
  <2>1. /\ relays' \in RelaySets /\ untold' = untold /\ state' = state /\ state \in EnabledStates
        /\ \A n \in Names : On(relays', n) => On(relays, n) \/ n = "SystemOperational" \/ state = "Active"
    BY <1>6, RelaysNow, ToldFits DEF EnabledUpdateThrows
  <2>2. "Active" \in RaisedStates
    BY GroupsOfStates
  <2> QED BY <2>1, <2>2, RelaysNow, RelaysThen DEF Names
<1> QED BY <1>1, <1>2, <1>3, <1>4, <1>5, <1>6 DEF Update, UpdateThrows

\* What a standby leaves on is told nobody.
LEMMA StandbyTold ==
  ASSUME Inductive, StandbyFromFault
  PROVE  RelaysFit'
<1>1. /\ relays' = relays /\ relays \in RelaySets /\ DOMAIN relays = Names
      /\ untold' = untold \cup {name \in DOMAIN relays : TRUE \in {relays[name][c] : c \in 1 .. 2}}
      /\ untold \subseteq Names
  BY RelaysNow DEF StandbyFromFault, RelaySets
<1>2. \A n \in Names : On(relays, n) => TRUE \in {relays[n][c] : c \in 1 .. 2}
  <2> SUFFICES ASSUME NEW n \in Names, On(relays, n)
               PROVE  TRUE \in {relays[n][c] : c \in 1 .. 2}
    OBVIOUS
  <2>1. relays[n][1] \in BOOLEAN /\ relays[n][2] \in BOOLEAN /\ 1 \in 1 .. 2 /\ 2 \in 1 .. 2
    BY <1>1 DEF RelaySets
  <2>2. relays[n][1] = TRUE \/ relays[n][2] = TRUE
    BY <2>1 DEF On
  <2> QED BY <2>1, <2>2, Zenon
<1>3. untold' \subseteq Names /\ \A n \in Names : On(relays', n) => n \in untold'
  BY <1>1, <1>2
<1> QED BY <1>1, <1>3, RelaysThen

\* The relays tell the truth after every step.
LEMMA RelaysStep ==
  ASSUME Inductive, Next
  PROVE  RelaysFit'
<1>1. CASE Update \/ UpdateThrows
  BY <1>1, RelaysInUpdates
<1>2. CASE Panic \/ StartThrows \/ Break \/ Calm
  BY <1>2, RelaysKeep DEF Panic, StartThrows, Restart, Break, Calm
<1>3. CASE Turn \/ Booster \/ SlewFlag \/ SetSlewControllerSettings \/ ForceActuators
  <2>1. CheckSafety(state, error) /\ UNCHANGED <<relays, untold>>
    BY <1>3 DEF Turn, Booster, SlewFlag, SetSlewControllerSettings, ForceActuators
  <2> QED BY <2>1, Leads, RelaysKeep
<1>4. CASE Start \/ Enable \/ StandbyFromDisabled
  <2>1. state \in {"Standby", "Disabled"} /\ UNCHANGED <<relays, untold>>
    BY <1>4 DEF Start, Restart, Enable, StandbyFromDisabled
  <2>2. state \notin EnabledStates /\ state # "LoweringFault"
    BY <2>1, GroupsOfStates
  <2> QED BY <2>1, <2>2, RelaysKeep
<1>5. CASE Transfer
  <2>1. PICK t \in Transfers : t[1] = state /\ CheckSafety(t[2], error)
    BY <1>5 DEF Transfer
  <2>2. /\ t[1] # "LoweringFault" /\ t[2] \in EnabledStates
        /\ t[1] \in RaisedStates => t[2] \in RaisedStates
    BY DEF Transfers, EnabledStates, OperationStates, RaisingStates, LoweringStates,
           PausedRaisingStates, PausedLoweringStates, RaisedStates, ParkedStates
  <2>3. state' \in {t[2], "LoweringFault"} /\ UNCHANGED <<relays, untold>>
    BY <1>5, <2>1, Leads DEF Transfer
  <2> QED BY <2>1, <2>2, <2>3, RelaysKeep
<1>6. CASE ExitEngineering \/ RaiseM1M3
  <2>1. PICK s \in {"Parked", "Active", "Raising", "RaisingEngineering"} :
           CheckSafety(s, error) /\ (state \in RaisedStates => s = "Active")
    BY <1>6 DEF ExitEngineering, RaiseM1M3, RaisedStates
  <2>2. s \in EnabledStates /\ "Active" \in RaisedStates /\ state # "LoweringFault"
    BY <1>6, GroupsOfStates DEF ExitEngineering, RaiseM1M3
  <2>3. state' \in {s, "LoweringFault"} /\ UNCHANGED <<relays, untold>>
    BY <1>6, <2>1, Leads DEF ExitEngineering, RaiseM1M3
  <2> QED BY <2>1, <2>2, <2>3, RelaysKeep
<1>7. CASE LowerM1M3
  <2>1. PICK s \in {"Lowering", "LoweringEngineering"} : CheckSafety(s, error)
    BY <1>7 DEF LowerM1M3
  <2>2. state' \in {s, "LoweringFault"} /\ s \in EnabledStates /\ state \in EnabledStates
    BY <1>7, <2>1, Leads, GroupsOfStates DEF LowerM1M3
  <2>3. relays' = Relay("MirrorRaised", {1, 2}, FALSE) /\ untold' = untold \ {"MirrorRaised"}
    BY <1>7 DEF LowerM1M3
  <2>4. relays' \in RelaySets /\ ~On(relays', "MirrorRaised") /\ relays'["SystemOperational"] = relays["SystemOperational"]
    BY <2>3, RelaysNow, RelayFits DEF Names
  <2>5. On(relays', "SystemOperational") => On(relays, "SystemOperational")
    BY <2>4 DEF On
  <2> QED BY <2>2, <2>3, <2>4, <2>5, RelaysNow, RelaysThen, GroupsOfStates DEF Names
<1>8. CASE Disable
  <2>1. state' \in {"Disabled", "LoweringFault"} /\ state \in ParkedStates
    BY <1>8, Leads DEF Disable
  <2>2. state \in EnabledStates /\ state \notin RaisedStates /\ state # "LoweringFault"
    BY <2>1, GroupsOfStates DEF ParkedStates, RaisedStates
  <2>3. relays' = Relay("SystemOperational", {1, 2}, FALSE) /\ untold' = untold \ {"SystemOperational"}
    BY <1>8 DEF Disable
  <2>4. relays' \in RelaySets /\ ~On(relays', "SystemOperational") /\ relays'["MirrorRaised"] = relays["MirrorRaised"]
    BY <2>3, RelaysNow, RelayFits DEF Names
  <2>5. On(relays', "MirrorRaised") => On(relays, "MirrorRaised")
    BY <2>4 DEF On
  <2> QED BY <2>2, <2>3, <2>4, <2>5, RelaysNow, RelaysThen DEF Names
<1>9. CASE DisableThrows
  <2>1. relays' = Relay("SystemOperational", {1}, FALSE) /\ untold' = untold /\ state' = state
    BY <1>9 DEF DisableThrows
  <2>2. relays' \in RelaySets /\ \A n \in Names : On(relays', n) => On(relays, n)
    BY <2>1, RelaysNow, RelayFits DEF Names
  <2> QED BY <2>1, <2>2, RelaysNow, RelaysThen
<1> QED BY <1>1, <1>2, <1>3, <1>4, <1>5, <1>6, <1>7, <1>8, <1>9, StandbyTold DEF Next, Switch

\* The following errors an update reads have their range.
LEMMA FollowingErrorsFit ==
  FollowingErrors \subseteq [Actuators -> 0 .. 2] /\ SomeFollowingErrors \subseteq [Actuators -> 0 .. 2]
BY DEF FollowingErrors, SomeFollowingErrors

\* The booster valves are open for a reason after every step.
LEMMA BoosterStep ==
  ASSUME Inductive, Next
  PROVE  BoosterFits'
<1>1. /\ valves \in ValveStates /\ trigger \in BOOLEAN /\ calm \in BOOLEAN
      /\ fe \in [Actuators -> 0 .. 2] /\ disabled \subseteq Actuators
  BY DEF Inductive, BoosterFits
<1>2. CASE UNCHANGED <<valves, trigger, fe, disabled, calm>>
  BY <1>1, <1>2 DEF BoosterFits
<1>3. CASE DisabledUpdate \/ FaultUpdate
  BY <1>1, <1>3, FollowingErrorsFit DEF DisabledUpdate, FaultUpdate, BoosterFits, environment
<1>4. CASE EnabledUpdate
  <2>1. PICK acceleration \in Accelerations :
          valves' = CheckAccelerometer(CheckFollowingErrors(valves, fe'), acceleration)
    BY <1>4 DEF EnabledUpdate
  <2>2. valves' \in ValveStates
    BY <1>1, <2>1, ChecksFit
  <2> QED BY <1>1, <1>4, <2>2, FollowingErrorsFit DEF EnabledUpdate, BoosterFits, environment
<1>5. CASE Start \/ StartThrows
  BY <1>1, <1>5, ShutFits DEF Start, StartThrows, Restart, BoosterFits
<1>6. CASE StandbyFromFault \/ ExitEngineering \/ RaiseM1M3 \/ LowerM1M3
  <2>1. /\ ExitSlew(valves) \in ValveStates /\ Set(valves, "user", FALSE) \in ValveStates
        /\ ExitSlew(Set(valves, "user", FALSE)) \in ValveStates
    BY <1>1, ChecksFit, SetsFit
  <2>2. valves' \in {valves, ExitSlew(valves), Set(valves, "user", FALSE), ExitSlew(Set(valves, "user", FALSE))}
    BY <1>6 DEF StandbyFromFault, ExitEngineering, RaiseM1M3, LowerM1M3
  <2>3. UNCHANGED <<trigger, fe, disabled, calm>>
    BY <1>6 DEF StandbyFromFault, ExitEngineering, RaiseM1M3, LowerM1M3, environment
  <2> QED BY <1>1, <2>1, <2>2, <2>3 DEF BoosterFits
<1>7. CASE Booster \/ SlewFlag
  <2>1. ExitSlew(valves) \in ValveStates
    BY <1>1, ChecksFit
  <2>2. \A on \in BOOLEAN : Set(valves, "user", on) \in ValveStates /\ Set(valves, "slew", on) \in ValveStates
    BY <1>1, SetsFit
  <2>3. valves' \in ValveStates
    BY <1>1, <1>7, <2>1, <2>2 DEF Booster, SlewFlag
  <2>4. UNCHANGED <<trigger, fe, disabled, calm>>
    BY <1>7 DEF Booster, SlewFlag, environment
  <2> QED BY <1>1, <2>3, <2>4 DEF BoosterFits
<1>8. CASE SetSlewControllerSettings \/ ForceActuators \/ Calm
  BY <1>1, <1>8 DEF SetSlewControllerSettings, ForceActuators, Calm, BoosterFits, booster, environment
<1>9. CASE \/ StandbyUpdate \/ Turn \/ Panic \/ Transfer \/ Enable \/ StandbyFromDisabled
           \/ Disable \/ DisableThrows \/ Break
  BY <1>2, <1>9 DEF StandbyUpdate, Turn, Panic, Transfer, Enable, StandbyFromDisabled, Disable, DisableThrows,
                    Break, booster, environment
<1>10. CASE UpdateThrows
  BY <1>1, <1>10, FollowingErrorsFit
     DEF UpdateThrows, DisabledUpdateThrows, FaultUpdateThrows, EnabledUpdateThrows, BoosterFits
<1> QED BY <1>3, <1>4, <1>5, <1>6, <1>7, <1>8, <1>9, <1>10 DEF Next, Update, Switch

\* What a scenario has left stays a scenario.
LEMMA ScenarioCounts ==
  ASSUME NEW s \in ScenarioStates
  PROVE  /\ s.toggles > 0 => [s EXCEPT !.toggles = @ - 1] \in ScenarioStates
         /\ s.silences > 0 => [s EXCEPT !.silences = @ - 1] \in ScenarioStates
         /\ [s EXCEPT !.breaks = {}] \in ScenarioStates
         /\ s.breaks \subseteq Parts
<1>1. /\ s = [users |-> s.users, breaks |-> s.breaks, monitor |-> s.monitor, valves |-> s.valves,
              toggles |-> s.toggles, silences |-> s.silences]
      /\ s.users \in SUBSET (Devices \cup Actuators \cup {"booster", "slew", "panic"})
      /\ s.breaks \in SUBSET Parts /\ s.monitor \in Monitors /\ s.valves \in BOOLEAN
      /\ s.toggles \in Nat /\ s.silences \in Nat
  BY DEF ScenarioStates
<1>2. ASSUME s.toggles > 0
      PROVE  [s EXCEPT !.toggles = @ - 1] \in ScenarioStates
  <2>1. s.toggles - 1 \in Nat
    BY <1>1, <1>2
  <2> QED BY <1>1, <2>1 DEF ScenarioStates
<1>3. ASSUME s.silences > 0
      PROVE  [s EXCEPT !.silences = @ - 1] \in ScenarioStates
  <2>1. s.silences - 1 \in Nat
    BY <1>1, <1>3
  <2> QED BY <1>1, <2>1 DEF ScenarioStates
<1>4. [s EXCEPT !.breaks = {}] \in ScenarioStates
  BY <1>1 DEF ScenarioStates
<1> QED BY <1>1, <1>2, <1>3, <1>4

\* What breaks is a part, and the scenario stays one.
LEMMA RestStep ==
  ASSUME Inductive, Next
  PROVE  RestFits'
<1>1. broken \subseteq Parts /\ scenario \in ScenarioStates
  BY DEF Inductive, RestFits
<1>2. CASE UNCHANGED <<broken, scenario>>
  BY <1>1, <1>2 DEF RestFits
<1>3. CASE UpdateThrows \/ StartThrows \/ DisableThrows
  <2>1. broken' = broken /\ scenario.silences > 0 /\ scenario' = [scenario EXCEPT !.silences = @ - 1]
    BY <1>3 DEF UpdateThrows, DisabledUpdateThrows, FaultUpdateThrows, EnabledUpdateThrows, StartThrows,
                Restart, DisableThrows, Silent, Silence, equipment
  <2> QED BY <1>1, <2>1, ScenarioCounts DEF RestFits
<1>4. CASE ExitEngineering \/ Turn
  <2>1. broken' = broken /\ scenario.toggles > 0 /\ scenario' = [scenario EXCEPT !.toggles = @ - 1]
    BY <1>4 DEF ExitEngineering, Turn
  <2> QED BY <1>1, <2>1, ScenarioCounts DEF RestFits
<1>5. CASE Break
  <2>1. PICK x \in scenario.breaks : broken' = broken \cup {x}
    BY <1>5 DEF Break
  <2>2. scenario' = [scenario EXCEPT !.breaks = {}]
    BY <1>5 DEF Break
  <2> QED BY <1>1, <2>1, <2>2, ScenarioCounts DEF RestFits
<1> QED BY <1>2, <1>3, <1>4, <1>5
        DEF Next, Update, StandbyUpdate, DisabledUpdate, FaultUpdate, EnabledUpdate, Switch, Booster,
            SlewFlag, SetSlewControllerSettings, ForceActuators, Panic, Transfer, Start, Restart, Enable,
            StandbyFromDisabled, StandbyFromFault, Disable, RaiseM1M3, LowerM1M3, Calm, equipment, environment

\* It holds to begin with.
LEMMA InductiveInit ==
  ASSUME Init
  PROVE  Inductive
<1>1. Core
  <2>1. /\ window = [Zeros EXCEPT ![Period] = 0] /\ tally = [bad |-> 0, run |-> 0] /\ 0 \in 0 .. 1
    BY FreshWindow DEF Init
  <2>2. WindowsFit
    BY <2>1, FreshWindow DEF WindowsFit
  <2>3. CodesFit
    BY GroupsOfStates DEF Init, CodesFit, Known
  <2>4. WindowIsExact
    BY <2>1, SupervisionAssumption DEF Init, WindowIsExact
  <2> QED BY <2>2, <2>3, <2>4 DEF Core
<1>2. DevicesFit
  <2> DEFINE x == [commanded |-> FALSE, output |-> FALSE, sensor |-> 0, age |-> 0, travel |-> 0]
  <2>1. x \in DeviceStates /\ x.age = 0 /\ x.travel = 0 /\ OnTime(x)
    BY DEF DeviceStates, OnTime, Position
  <2>2. dev = [d \in Devices |-> x] /\ \A d \in Devices : Grace[d] \in Nat
    BY SupervisionAssumption DEF Init
  <2> HIDE DEF x
  <2> QED BY <2>1, <2>2 DEF DevicesFit
<1>3. BeatFits
  <2>1. 0 \in 0 .. BeatPeriod - 1
    BY SupervisionAssumption
  <2> QED BY <2>1 DEF Init, BeatFits
<1>4. RelaysFit
  BY AllOffFits, RelaysFitSays DEF Init, Truthful, RelaySets
<1>5. BoosterFits
  <2>1. fe \in [Actuators -> 0 .. 2] /\ disabled \subseteq Actuators
    BY DEF Init
  <2>2. valves \in ValveStates /\ trigger \in BOOLEAN /\ calm \in BOOLEAN
    BY ShutFits, Zenon DEF Init
  <2> QED BY <2>1, <2>2 DEF BoosterFits
<1>6. RestFits
  BY SupervisionAssumption DEF Init, RestFits, ScenarioStates
<1> QED BY <1>1, <1>2, <1>3, <1>4, <1>5, <1>6 DEF Inductive

\* Every step keeps it.
LEMMA InductiveStep ==
  ASSUME Inductive, [Next]_vars
  PROVE  Inductive'
<1>1. CASE Next
  BY <1>1, CoreStep, DevicesStep, HeartbeatStep, RelaysStep, BoosterStep, RestStep DEF Inductive
<1>2. CASE UNCHANGED vars
  <2>1. UNCHANGED <<state, error, cause, dev, beat, broken, relays, window, tally, valves, trigger, fe,
                    disabled, untold, calm, scenario>>
    BY <1>2 DEF vars, equipment, windows, booster, environment
  <2>2. Core' /\ DevicesFit'
    BY <2>1, CoreKeeps DEF Inductive, DevicesFit, windows
  <2>3. BeatFits'
    BY <2>1, Zenon DEF Inductive, BeatFits
  <2>4. RelaysFit'
    BY <2>1, RelaysKeep
  <2>5. BoosterFits' /\ RestFits'
    BY <2>1 DEF Inductive, BoosterFits, RestFits
  <2> QED BY <2>2, <2>3, <2>4, <2>5 DEF Inductive
<1> QED BY <1>1, <1>2

\* The inductive invariant is one.
THEOREM Invariance == Spec => []Inductive
<1>1. Init => Inductive
  BY InductiveInit
<1>2. Inductive /\ [Next]_vars => Inductive'
  BY InductiveStep
<1> QED BY <1>1, <1>2, PTL DEF Spec

----------------------------------------------------------------------------
(* What follows. *)

\* Every part has its type, the heartbeat is never late, and the booster valves are open for
\* a reason (Heartbeat::tryToggle, BoosterValveStatus::log).
THEOREM Types == Spec => []TypeOK
<1>1. Inductive => TypeOK
  <2> SUFFICES ASSUME Inductive
               PROVE  TypeOK
    OBVIOUS
  <2>1. state \in States /\ error \in Errors /\ cause \in Errors \ {"NoController"}
    BY DEF Inductive, Core, CodesFit, Known, Errors
  <2>2. /\ dev \in [Devices -> [commanded : BOOLEAN, output : BOOLEAN, sensor : 0 .. 2, age : Nat, travel : Nat]]
        /\ \A d \in Devices : dev[d].age <= Grace[d] /\ dev[d].travel <= Grace[d]
    BY DEF Inductive, DevicesFit, DeviceStates
  <2>3. beat \in [commanded : BOOLEAN, output : BOOLEAN, age : 0 .. BeatPeriod - 1]
    BY DEF Inductive, BeatFits
  <2>4. DOMAIN AllOff = Names
    BY DEF AllOff, Names
  <2>5. relays \in [DOMAIN AllOff -> [1 .. 2 -> BOOLEAN]] /\ untold \subseteq DOMAIN AllOff
    BY <2>4 DEF Inductive, RelaysFit
  <2>6. window \in [1 .. Period -> -1 .. 1] /\ tally \in [bad : 0 .. Threshold, run : 0 .. Threshold]
    BY DEF Inductive, Core, WindowsFit, Windows, Tallies, AnyReading
  <2>7. valves \in [{"slew", "user", "error", "shake", "opened"} -> BOOLEAN]
        /\ valves.opened = (valves.slew \/ valves.user \/ valves.error \/ valves.shake)
    BY DEF Inductive, BoosterFits, ValveStates, Triggers
  <2>8. /\ trigger \in BOOLEAN /\ calm \in BOOLEAN
        /\ fe \in [Actuators -> 0 .. 2] /\ disabled \subseteq Actuators /\ broken \subseteq Parts
    BY DEF Inductive, BoosterFits, RestFits
  <2> QED BY <2>1, <2>2, <2>3, <2>5, <2>6, <2>7, <2>8, Zenon DEF TypeOK
<1> QED BY <1>1, Invariance, PTL

\* Equipment that works is never found at fault, whatever is switched and when
\* (DigitalInputOutput::processData).
THEOREM NoFalseAlarm == Spec => []NoSpuriousFault
<1>1. Inductive => NoSpuriousFault
  BY DEF Inductive, Core, CodesFit, Known, NoSpuriousFault
<1> QED BY <1>1, Invariance, PTL

\* The interlock system is told the truth (DigitalInputOutput, LoweringFaultState).
THEOREM Relays == Spec => []RelaysAreTruthful
<1>1. Inductive => RelaysAreTruthful
  BY DEF Inductive, RelaysFit
<1> QED BY <1>1, Invariance, PTL

\* A window of any length faults the mirror for Threshold bad readings and not for fewer,
\* and as many in a row are always acted on, or latched for the next checkSafety when an
\* exception ended the update (SafetyController, SSILCs::readAll).
THEOREM WindowsAreExact == Spec => []WindowIsExact
<1>1. Inductive => WindowIsExact
  BY DEF Inductive, Core
<1> QED BY <1>1, Invariance, PTL

\* No step takes a user's trigger out of engineering, or the slew's into a lowering
\* (EnabledActiveState::lowerM1M3).
LEMMA TriggersEnd ==
  ASSUME Inductive, Next
  PROVE  /\ LeavesEngineering => ~valves'.user
         /\ EndsSlew /\ trigger => ~valves'.slew
<1>1. valves \in ValveStates
  BY DEF Inductive, BoosterFits
<1>2. CASE state' \in {state, "LoweringFault", "Fault", "Standby", "Disabled"}
  BY <1>2 DEF LeavesEngineering, EndsSlew, RaisedStates, LoweringStates, EnabledStates, OperationStates,
              RaisingStates, PausedRaisingStates, PausedLoweringStates, ParkedStates, EngineeringStates
<1>3. CASE ExitEngineering
  <2>1. valves' = Set(valves, "user", FALSE) /\ state' \in {"Parked", "Active", "LoweringFault"}
    BY <1>3 DEF ExitEngineering, CheckSafety
  <2>2. ~valves'.user
    BY <1>1, <2>1, SetsFit
  <2> QED BY <2>1, <2>2 DEF EndsSlew, LoweringStates
<1>4. CASE LowerM1M3
  <2>1. CASE state = "Active"
    <3>1. valves' = ExitSlew(valves)
      BY <1>4, <2>1 DEF LowerM1M3
    <3>2. trigger => ~valves'.slew
      BY <1>1, <3>1, SetsFit DEF ExitSlew
    <3> QED BY <2>1, <3>2 DEF LeavesEngineering, EngineeringStates
  <2>2. CASE state = "ActiveEngineering"
    <3>1. valves' = ExitSlew(Set(valves, "user", FALSE)) /\ state' \in {"LoweringEngineering", "LoweringFault"}
      BY <1>4, <2>2 DEF LowerM1M3, CheckSafety
    <3>2. Set(valves, "user", FALSE) \in ValveStates
      BY <1>1, SetsFit
    <3>3. trigger => ~valves'.slew
      BY <3>1, <3>2, SetsFit DEF ExitSlew
    <3>4. ~LeavesEngineering
      BY <3>1 DEF LeavesEngineering, EngineeringStates, EnabledStates, OperationStates, RaisingStates,
                  LoweringStates, PausedRaisingStates, PausedLoweringStates, RaisedStates, ParkedStates
    <3> QED BY <3>3, <3>4
  <2> QED BY <1>4, <2>1, <2>2 DEF LowerM1M3
<1>5. CASE RaiseM1M3
  <2>1. <<state, state'>> \in {"Parked"} \X States \/ state' \in {"RaisingEngineering", "LoweringFault"}
    BY <1>5, CoreStep DEF RaiseM1M3, CheckSafety, Core, CodesFit
  <2> QED BY <1>5, <2>1 DEF RaiseM1M3, LeavesEngineering, EndsSlew, EngineeringStates, RaisedStates, EnabledStates,
             OperationStates, RaisingStates, LoweringStates, PausedRaisingStates, PausedLoweringStates, ParkedStates
<1>6. CASE Transfer
  <2>1. PICK t \in Transfers : t[1] = state /\ state' \in {t[2], "LoweringFault"}
    BY <1>6 DEF Transfer, CheckSafety
  <2> QED BY <2>1 DEF Transfers, LeavesEngineering, EndsSlew, EngineeringStates, RaisedStates, EnabledStates,
             OperationStates, RaisingStates, LoweringStates, PausedRaisingStates, PausedLoweringStates, ParkedStates
<1>7. CASE EnabledUpdate
  <2>1. PICK s \in {state} \cup {t[2] : t \in {c \in Completes : c[1] = state}} :
           state' \in {s, "LoweringFault"}
    BY <1>7, Leads DEF EnabledUpdate
  <2> QED BY <2>1 DEF Completes, LeavesEngineering, EndsSlew, EngineeringStates, RaisedStates, EnabledStates,
             OperationStates, RaisingStates, LoweringStates, PausedRaisingStates, PausedLoweringStates, ParkedStates
<1>8. CASE Enable
  <2>1. state = "Disabled"
    BY <1>8 DEF Enable
  <2> QED BY <2>1 DEF LeavesEngineering, EndsSlew, EngineeringStates, RaisedStates
<1>9. CASE \/ StandbyUpdate \/ DisabledUpdate \/ FaultUpdate \/ UpdateThrows \/ Switch \/ Start \/ StartThrows
           \/ StandbyFromDisabled \/ StandbyFromFault \/ Disable \/ DisableThrows \/ Break \/ Calm
  <2>1. state' \in {state, "LoweringFault", "Fault", "Standby", "Disabled"}
    BY <1>9, Leads
       DEF StandbyUpdate, DisabledUpdate, FaultUpdate, UpdateThrows, DisabledUpdateThrows, FaultUpdateThrows,
           EnabledUpdateThrows, Switch, Turn, Booster, SlewFlag, SetSlewControllerSettings, ForceActuators,
           Panic, Start, StartThrows, Restart, StandbyFromDisabled, StandbyFromFault, Disable, DisableThrows,
           Break, Calm
  <2> QED BY <1>2, <2>1
<1> QED BY <1>3, <1>4, <1>5, <1>6, <1>7, <1>8, <1>9 DEF Next, Update

\* So no behaviour does.
THEOREM TriggersAreUndone == Spec => TriggersEndWithTheirReason
<1>1. Inductive /\ [Next]_vars => [/\ LeavesEngineering => ~valves'.user
                                   /\ EndsSlew /\ trigger => ~valves'.slew]_vars
  BY TriggersEnd
<1> QED BY <1>1, Invariance, PTL DEF Spec, TriggersEndWithTheirReason
=============================================================================
