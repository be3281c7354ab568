------------------------- MODULE ForceControlProofs -------------------------
(***************************************************************************)
(* Proofs about ForceControl, for all forces, rates, limits, components    *)
(* followed and slew settings that ForceAssumption admits.                 *)
(***************************************************************************)
EXTENDS ForceControl, TLAPS

----------------------------------------------------------------------------
(* The inductive invariant. *)

\* Components whose events agree with them: EventsAgree for one.
Fits == {x \in ComponentStates : /\ x.mode = "Enabled" => x.flag
                                 /\ x.mode = "Disabled" => ~x.flag
                                 /\ x.applied = Coerce(x.current)}

\* The controller has saved what the history variable remembers, as long as the slew
\* was entered once.
SlewSaved ==
  /\ slew.flag <=> slew.entries # 0
  /\ slew.entries = 1 => slew.restore = slew.found

Inductive == ForceInv /\ SlewSaved

\* The invariant says of comp that it is a function into Fits.
LEMMA CompFits ==
  ASSUME Inductive
  PROVE  comp \in [Components -> Fits] /\ Components \in Watched
<1>1. PICK S \in Watched : comp \in [S -> ComponentStates]
  BY DEF Inductive, ForceInv, TypeOK
<1>2. Components = S
  BY <1>1 DEF Components
<1> QED BY <1>1, <1>2 DEF Inductive, ForceInv, EventsAgree, Fits

----------------------------------------------------------------------------
(* Operations on one component. *)

\* Coercing into the limits never moves two forces apart, and leaves 0 alone.
LEMMA CoerceIsClose ==
  ASSUME NEW x \in Int, NEW y \in Int
  PROVE  /\ Coerce(x) \in -Limit..Limit
         /\ Abs(Coerce(x) - Coerce(y)) <= Abs(x - y)
         /\ Abs(Coerce(x)) <= Abs(x)
         /\ Coerce(0) = 0
BY ForceAssumption DEF Coerce, Abs

\* What a component publishes stays as it is.
Keeps(x, y) == y.current = x.current /\ y.applied = x.applied

\* A component moves towards its target: at most by the rate, or from near zero to zero,
\* and publishes where it is.
Moves(x, y) ==
  \/ Keeps(x, y)
  \/ /\ y.applied = Coerce(y.current)
     /\ \/ Abs(y.current - x.current) <= Rate
        \/ Abs(x.current) < NearZero /\ y.current = 0

\* A new component fits.
LEMMA NewFits == NewComponent \in Fits /\ NewComponent.mode = "Disabled" /\ NewComponent.applied = 0
<1>1. Coerce(0) = 0 /\ 0 \in -Limit..Limit
  BY ForceAssumption DEF Coerce
<1> QED BY <1>1 DEF NewComponent, Fits, ComponentStates, Modes

\* Enabling and disabling, guarded as in ForceController, publish nothing and fit.
LEMMA SwitchOneFits ==
  ASSUME NEW x \in Fits
  PROVE  /\ Enable(x) \in Fits /\ Keeps(x, Enable(x))
         /\ ApplyIf(x) \in Fits /\ Keeps(x, ApplyIf(x))
         /\ ZeroIf(x) \in Fits /\ Keeps(x, ZeroIf(x))
         /\ [ZeroIf(x) EXCEPT !.flag = FALSE] \in Fits /\ Keeps(x, [ZeroIf(x) EXCEPT !.flag = FALSE])
<1>1. Enable(x) \in Fits /\ Keeps(x, Enable(x))
  BY ForceAssumption DEF Enable, Fits, ComponentStates, Modes, Keeps
<1>2. Disable(x) \in Fits /\ Keeps(x, Disable(x))
  BY ForceAssumption DEF Disable, Fits, ComponentStates, Modes, Keeps
<1>3. ApplyIf(x) \in Fits /\ Keeps(x, ApplyIf(x))
  BY <1>1 DEF ApplyIf, Keeps
<1>4. ZeroIf(x) \in Fits /\ Keeps(x, ZeroIf(x))
  BY <1>2 DEF ZeroIf, Keeps
<1>5. [ZeroIf(x) EXCEPT !.flag = FALSE] \in Fits /\ Keeps(x, [ZeroIf(x) EXCEPT !.flag = FALSE])
  BY ForceAssumption DEF ZeroIf, Disable, Fits, ComponentStates, Modes, Keeps
<1> QED BY <1>1, <1>3, <1>4, <1>5

\* So does a new target.
LEMMA TargetFits ==
  ASSUME NEW x \in Fits, NEW z \in Int
  PROVE  [x EXCEPT !.target = z] \in Fits /\ Keeps(x, [x EXCEPT !.target = z])
BY ForceAssumption DEF Fits, ComponentStates, Keeps

\* So does a flag that is published again.
LEMMA FlagFits ==
  ASSUME NEW x \in Fits
  PROVE  x.mode = "Enabled" => /\ [x EXCEPT !.flag = TRUE] \in Fits
                               /\ Keeps(x, [x EXCEPT !.flag = TRUE])
BY ForceAssumption DEF Fits, ComponentStates, Keeps

\* zero...Forces, of any component.
LEMMA ZeroForcesFits ==
  ASSUME NEW x \in Fits, NEW c
  PROVE  ZeroForces(c, x) \in Fits /\ Keeps(x, ZeroForces(c, x))
<1>1. ZeroIf(x) \in Fits /\ Keeps(x, ZeroIf(x))
  BY SwitchOneFits
<1>2. [ZeroIf(x) EXCEPT !.target = 0] \in Fits /\ Keeps(ZeroIf(x), [ZeroIf(x) EXCEPT !.target = 0])
  BY <1>1, TargetFits
<1> QED BY <1>1, <1>2 DEF ZeroForces, Keeps

\* reset fits, and publishes the current force.
LEMMA ResetFits ==
  ASSUME NEW x \in Fits
  PROVE  /\ Reset(x) \in Fits
         /\ Reset(x).mode = "Disabled"
         /\ Reset(x).current = x.current
         /\ Reset(x).applied = Coerce(x.current)
<1>1. x.current \in Int
  BY DEF Fits, ComponentStates
<1>2. Coerce(x.current) \in -Limit..Limit
  BY <1>1, CoerceIsClose
<1> QED BY <1>2 DEF Reset, Publish, Fits, ComponentStates, Modes

\* An update fits and moves.
LEMMA UpdateFits ==
  ASSUME NEW x \in Fits
  PROVE  UpdateComponent(x) \in Fits /\ Moves(x, UpdateComponent(x))
<1>1. x.current \in Int /\ x.target \in Int
  BY DEF Fits, ComponentStates
<1>2. Approach(x.current, x.target) \in Int /\ Abs(Approach(x.current, x.target) - x.current) <= Rate
  BY <1>1, ForceAssumption DEF Approach, Abs
<1>3. /\ Coerce(x.current) \in -Limit..Limit
      /\ Coerce(Approach(x.current, x.target)) \in -Limit..Limit
      /\ Coerce(0) = 0 /\ 0 \in -Limit..Limit
  BY <1>1, <1>2, CoerceIsClose, ForceAssumption
<1>4. CASE NearlyZero(x)
  BY <1>1, <1>3, <1>4, ForceAssumption DEF UpdateComponent, NearlyZero, Fits, ComponentStates, Modes, Moves
<1>5. CASE ~NearlyZero(x) /\ x.mode = "Disabled"
  BY <1>5 DEF UpdateComponent, Moves, Keeps
<1>6. CASE ~NearlyZero(x) /\ x.mode # "Disabled"
  BY <1>1, <1>2, <1>3, <1>6 DEF UpdateComponent, Publish, Fits, ComponentStates, Modes, Moves
<1> QED BY <1>4, <1>5, <1>6

\* So does an update with a new target.
LEMMA RetargetFits ==
  ASSUME NEW x \in Fits, NEW t \in Int
  PROVE  Retarget(x, t) \in Fits /\ Moves(x, Retarget(x, t))
<1> DEFINE y == [x EXCEPT !.target = t]
<1>1. y \in Fits /\ Keeps(x, y)
  BY DEF Fits, ComponentStates, Keeps
<1>2. UpdateComponent(y) \in Fits /\ Moves(y, UpdateComponent(y))
  BY <1>1, UpdateFits
<1> QED BY <1>1, <1>2 DEF Retarget, Moves, Keeps

\* A move may follow, or be followed by, an operation that publishes nothing, and a reset.
LEMMA MovesCompose ==
  ASSUME NEW x \in Fits, NEW y \in Fits, NEW z \in Fits
  PROVE  /\ Keeps(x, y) /\ Moves(y, z) => Moves(x, z)
         /\ Moves(x, y) /\ Keeps(y, z) => Moves(x, z)
         /\ Moves(x, y) => Moves(x, Reset(y))
<1>1. (Keeps(x, y) /\ Moves(y, z) => Moves(x, z)) /\ (Moves(x, y) /\ Keeps(y, z) => Moves(x, z))
  BY DEF Moves, Keeps
<1>2. ASSUME Moves(x, y) PROVE Moves(x, Reset(y))
  <2>1. x.current \in Int /\ y.current \in Int
    BY DEF Fits, ComponentStates
  <2>2. Abs(x.current - x.current) <= Rate
    BY <2>1, ForceAssumption DEF Abs
  <2> QED BY <1>2, <2>1, <2>2, ResetFits DEF Moves, Keeps
<1> QED BY <1>1, <1>2

\* What a move publishes changes by no more than the rate, as what it finds in the event
\* is the component's own.
LEMMA MovesRamp ==
  ASSUME NEW x \in Fits, NEW y \in Fits, Moves(x, y)
  PROVE  \/ Abs(y.applied - x.applied) <= Rate
         \/ Abs(x.applied) < NearZero /\ y.applied = 0
<1>1. /\ x.current \in Int /\ y.current \in Int /\ x.applied \in Int /\ y.applied \in Int
      /\ x.applied = Coerce(x.current)
  BY ForceAssumption DEF Fits, ComponentStates
<1>2. CASE Keeps(x, y)
  BY <1>1, <1>2, ForceAssumption DEF Keeps, Abs
<1>3. CASE y.applied = Coerce(y.current) /\ Abs(y.current - x.current) <= Rate
  <2>1. Abs(Coerce(y.current) - Coerce(x.current)) <= Abs(y.current - x.current)
    BY <1>1, CoerceIsClose
  <2>2. Abs(Coerce(y.current) - Coerce(x.current)) \in Int /\ Abs(y.current - x.current) \in Int
    BY <1>1, ForceAssumption DEF Abs, Coerce
  <2> QED BY <1>1, <1>3, <2>1, <2>2, ForceAssumption
<1>4. CASE y.applied = Coerce(y.current) /\ Abs(x.current) < NearZero /\ y.current = 0
  <2>1. Abs(Coerce(x.current)) <= Abs(x.current) /\ Coerce(0) = 0
    BY <1>1, CoerceIsClose
  <2>2. Abs(Coerce(x.current)) \in Int /\ Abs(x.current) \in Int
    BY <1>1, ForceAssumption DEF Abs, Coerce
  <2> QED BY <1>1, <1>4, <2>1, <2>2, ForceAssumption
<1> QED BY <1>2, <1>3, <1>4 DEF Moves

----------------------------------------------------------------------------
(* Operations on all components. *)

\* What a handler makes of the components while nothing is published.
Switched(f, g) == g \in [Components -> Fits] /\ \A c \in Components : Keeps(f[c], g[c])

\* What it makes of them in the end.
Ramped(f, g) == g \in [Components -> Fits] /\ \A c \in Components : Moves(f[c], g[c])

\* A raise or a lower switches components.
LEMMA SwitchFits ==
  ASSUME NEW f \in [Components -> Fits], NEW on, NEW static \in Int
  PROVE  Switched(f, Switch(f, on, static))
<1>1. ASSUME NEW c \in Components
      PROVE  Switch(f, on, static)[c] \in Fits /\ Keeps(f[c], Switch(f, on, static)[c])
  <2>1. Switch(f, on, static)[c]
          \in {ZeroForces(c, f[c]), ApplyIf(f[c]), [Enable(f[c]) EXCEPT !.target = static]}
    BY DEF Switch
  <2>2. ZeroForces(c, f[c]) \in Fits /\ Keeps(f[c], ZeroForces(c, f[c]))
    BY ZeroForcesFits
  <2>3. /\ ApplyIf(f[c]) \in Fits /\ Keeps(f[c], ApplyIf(f[c]))
        /\ Enable(f[c]) \in Fits /\ Keeps(f[c], Enable(f[c]))
    BY SwitchOneFits
  <2>4. /\ [Enable(f[c]) EXCEPT !.target = static] \in Fits
        /\ Keeps(f[c], [Enable(f[c]) EXCEPT !.target = static])
    BY <2>3, TargetFits DEF Keeps
  <2> QED BY <2>1, <2>2, <2>3, <2>4
<1>2. Switch(f, on, static) = [c \in Components |-> Switch(f, on, static)[c]]
  BY DEF Switch
<1> QED BY <1>1, <1>2 DEF Switched

\* So do the entry and the end of a slew,
LEMMA EnterSlewFits ==
  ASSUME comp \in [Components -> Fits]
  PROVE  Switched(comp, EnterSlewComponents)
<1>1. ASSUME NEW c \in Components
      PROVE  EnterSlewComponents[c] \in Fits /\ Keeps(comp[c], EnterSlewComponents[c])
  <2>1. EnterSlewComponents[c] \in {comp[c], ApplyIf(comp[c]), ZeroIf(comp[c])}
    BY DEF EnterSlewComponents
  <2>2. comp[c] \in Fits /\ Keeps(comp[c], comp[c])
    BY DEF Keeps
  <2>3. /\ ApplyIf(comp[c]) \in Fits /\ Keeps(comp[c], ApplyIf(comp[c]))
        /\ ZeroIf(comp[c]) \in Fits /\ Keeps(comp[c], ZeroIf(comp[c]))
    BY <2>2, SwitchOneFits
  <2> QED BY <2>1, <2>2, <2>3
<1>2. EnterSlewComponents = [c \in Components |-> EnterSlewComponents[c]]
  BY DEF EnterSlewComponents
<1> QED BY <1>1, <1>2 DEF Switched

\* The end of a slew switches components, and leaves each one fit.
LEMMA ExitSlewFits ==
  ASSUME NEW f \in [Components -> Fits]
  PROVE  Switched(f, ExitSlewComponents(f))
<1>1. ASSUME NEW c \in Components
      PROVE  ExitSlewComponents(f)[c] \in Fits /\ Keeps(f[c], ExitSlewComponents(f)[c])
  <2>1. ExitSlewComponents(f)[c] \in {f[c], ApplyIf(f[c]), ZeroIf(f[c])}
    BY DEF ExitSlewComponents
  <2>2. f[c] \in Fits /\ Keeps(f[c], f[c])
    BY DEF Keeps
  <2>3. /\ ApplyIf(f[c]) \in Fits /\ Keeps(f[c], ApplyIf(f[c]))
        /\ ZeroIf(f[c]) \in Fits /\ Keeps(f[c], ZeroIf(f[c]))
    BY <2>2, SwitchOneFits
  <2> QED BY <2>1, <2>2, <2>3
<1>2. ExitSlewComponents(f) = [c \in Components |-> ExitSlewComponents(f)[c]]
  BY DEF ExitSlewComponents
<1> QED BY <1>1, <1>2 DEF Switched

\* the static forces of a raise,
LEMMA StaticFits ==
  ASSUME comp \in [Components -> Fits], NEW static \in Int
  PROVE  Switched(comp, StaticApplied(static))
<1>1. ASSUME NEW c \in Components
      PROVE  StaticApplied(static)[c] \in Fits /\ Keeps(comp[c], StaticApplied(static)[c])
  <2>1. StaticApplied(static)[c] \in {comp[c], [Enable(comp[c]) EXCEPT !.target = static]}
    BY DEF StaticApplied
  <2>2. Enable(comp[c]) \in Fits /\ Keeps(comp[c], Enable(comp[c])) /\ Keeps(comp[c], comp[c])
    BY SwitchOneFits DEF Keeps
  <2>3. /\ [Enable(comp[c]) EXCEPT !.target = static] \in Fits
        /\ Keeps(comp[c], [Enable(comp[c]) EXCEPT !.target = static])
    BY <2>2, TargetFits DEF Keeps
  <2> QED BY <2>1, <2>2, <2>3
<1>2. StaticApplied(static) = [c \in Components |-> StaticApplied(static)[c]]
  BY DEF StaticApplied
<1> QED BY <1>1, <1>2 DEF Switched

\* and the end of a raise.
LEMMA RaiseCompletedFits ==
  ASSUME NEW f \in [Components -> Fits], NEW static \in Int, NEW balance
  PROVE  Switched(f, RaiseCompleted(f, static, balance))
<1> DEFINE on == {"Azimuth", "Elevation", "Static", "Thermal"}
           g == Switch(f, on, static)
<1>1. Switched(f, g)
  BY SwitchFits
<1>2. ASSUME NEW c \in Components
      PROVE  /\ RaiseCompleted(f, static, balance)[c] \in Fits
             /\ Keeps(f[c], RaiseCompleted(f, static, balance)[c])
  <2>1. RaiseCompleted(f, static, balance)[c] \in {g[c], ApplyIf(g[c])}
    BY DEF RaiseCompleted
  <2>2. g[c] \in Fits /\ Keeps(f[c], g[c])
    BY <1>1 DEF Switched
  <2>3. ApplyIf(g[c]) \in Fits /\ Keeps(g[c], ApplyIf(g[c]))
    BY <2>2, SwitchOneFits
  <2> QED BY <2>1, <2>2, <2>3 DEF Keeps
<1>3. RaiseCompleted(f, static, balance)
        = [c \in Components |-> RaiseCompleted(f, static, balance)[c]]
  BY DEF RaiseCompleted
<1> QED BY <1>2, <1>3 DEF Switched

\* A change of one component.
LEMMA ExceptFits ==
  ASSUME comp \in [Components -> Fits], NEW c \in Components,
         NEW x \in Fits, Keeps(comp[c], x)
  PROVE  Switched(comp, [comp EXCEPT ![c] = x])
BY DEF Switched, Keeps

\* An update moves all components.
LEMMA UpdateAllFits ==
  ASSUME NEW f \in [Components -> Fits], NEW p \in [control : Int, offset : Int, frozen : BOOLEAN],
         NEW demand \in [Following -> Int]
  PROVE  Ramped(f, UpdateAppliedForces(f, p, demand))
<1>1. ASSUME NEW c \in Components
      PROVE  /\ UpdateAppliedForces(f, p, demand)[c] \in Fits
             /\ Moves(f[c], UpdateAppliedForces(f, p, demand)[c])
  <2>1. p.control + p.offset \in Int /\ p.offset \in Int
    OBVIOUS
  <2>2. c \in Following => demand[c] \in Int
    OBVIOUS
  <2>3. UpdateAppliedForces(f, p, demand)[c] = UpdateComponent(f[c])
        \/ \E t \in Int : UpdateAppliedForces(f, p, demand)[c] = Retarget(f[c], t)
    BY <2>1, <2>2 DEF UpdateAppliedForces
  <2> QED BY <2>3, UpdateFits, RetargetFits
<1>2. UpdateAppliedForces(f, p, demand) = [c \in Components |-> UpdateAppliedForces(f, p, demand)[c]]
  BY DEF UpdateAppliedForces
<1> QED BY <1>1, <1>2 DEF Ramped

\* Switching before or after an update does not add to the ramp.
LEMMA SwitchedRamps ==
  ASSUME NEW f \in [Components -> Fits], NEW g \in [Components -> Fits], NEW h
  PROVE  /\ Switched(f, h) => Ramped(f, h)
         /\ Switched(f, g) /\ Ramped(g, h) => Ramped(f, h)
         /\ Ramped(f, g) /\ Switched(g, h) => Ramped(f, h)
         /\ Switched(f, g) /\ Switched(g, h) => Switched(f, h)
BY MovesCompose DEF Switched, Ramped, Moves, Keeps

\* Nothing is switched when nothing is done.
LEMMA NothingSwitched ==
  ASSUME NEW f \in [Components -> Fits]
  PROVE  Switched(f, f)
BY DEF Switched, Keeps

\* A reset of all components publishes what they had.
LEMMA ResetAllFits ==
  ASSUME NEW f \in [Components -> Fits], NEW g \in [Components -> Fits], Ramped(f, g)
  PROVE  Ramped(f, ResetAll(g)) /\ \A c \in Components : ResetAll(g)[c].mode = "Disabled"
<1>1. ASSUME NEW c \in Components
      PROVE  /\ ResetAll(g)[c] \in Fits /\ ResetAll(g)[c].mode = "Disabled"
             /\ Moves(f[c], ResetAll(g)[c])
  BY ResetFits, MovesCompose DEF ResetAll, Ramped
<1>2. ResetAll(g) = [c \in Components |-> ResetAll(g)[c]]
  BY DEF ResetAll
<1> QED BY <1>1, <1>2 DEF Ramped

\* What a handler that ends in checkSafety leaves.
LEMMA FinishFits ==
  ASSUME comp \in [Components -> Fits], NEW f \in [Components -> Fits], Ramped(comp, f),
         NEW next, Finish(next, f)
  PROVE  /\ Ramped(comp, comp')
         /\ \/ state' = next /\ comp' = f
            \/ state' = "Fault" /\ \A c \in Components : comp'[c].mode = "Disabled"
BY ResetAllFits DEF Finish

----------------------------------------------------------------------------
(* The components through every action. *)

\* What a step makes of the components, and where it leaves them out of control.
CompStep ==
  /\ Ramped(comp, comp')
  /\ state' \in States
  /\ state' \notin EnabledStates => \A c \in Components : comp'[c].mode = "Disabled"

\* A handler that stays in control, or resets what it leaves behind.
LEMMA FinishStep ==
  ASSUME Inductive, NEW f, Ramped(comp, f), NEW next \in States, Finish(next, f),
         next \in EnabledStates \/ \A c \in Components : f[c].mode = "Disabled"
  PROVE  CompStep
<1>1. comp \in [Components -> Fits] /\ f \in [Components -> Fits]
  BY CompFits DEF Ramped
<1>2. /\ Ramped(comp, comp')
      /\ \/ state' = next /\ comp' = f
         \/ state' = "Fault" /\ \A c \in Components : comp'[c].mode = "Disabled"
  BY <1>1, FinishFits
<1> QED BY <1>2 DEF CompStep, States

\* A handler that only switches components and stays in control.
LEMMA SwitchStep ==
  ASSUME Inductive, NEW f, Switched(comp, f), NEW next \in EnabledStates, Finish(next, f)
  PROVE  CompStep
<1>1. comp \in [Components -> Fits]
  BY CompFits
<1>2. Ramped(comp, f)
  BY <1>1, SwitchedRamps
<1> QED BY <1>2, FinishStep DEF EnabledStates

\* The commands but for Start, which makes new components.
LEMMA CommandSteps ==
  ASSUME Inductive, Command, ~Start
  PROVE  CompStep
<1>1. comp \in [Components -> Fits] /\ state \in States
  BY CompFits DEF Inductive, ForceInv, TypeOK
<1>2. Switched(comp, comp) /\ Ramped(comp, comp)
  BY <1>1, NothingSwitched, SwitchedRamps
<1>3. Ramped(comp, ResetAll(comp)) /\ \A c \in Components : ResetAll(comp)[c].mode = "Disabled"
  BY <1>1, <1>2, ResetAllFits
<1>4. CASE EnableMirror
  BY <1>2, <1>4, SwitchStep DEF EnableMirror, EnabledStates, States
<1>5. CASE StandbyFromDisabled
  BY <1>2, <1>5, FinishStep DEF StandbyFromDisabled, Inductive, ForceInv, IdleOutOfControl, EnabledStates, States
<1>6. CASE StandbyFromFault
  <2>1. Switched(comp, ExitSlewComponents(comp))
    BY <1>1, ExitSlewFits
  <2>2. ExitSlewComponents(comp) \in [Components -> Fits] /\ Ramped(comp, ExitSlewComponents(comp))
    BY <1>1, <2>1, SwitchedRamps DEF Ramped
  <2> QED BY <1>1, <1>6, <2>2, ResetAllFits DEF StandbyFromFault, CompStep, States
<1>7. CASE DisableMirror
  <2>1. CASE Finish("Disabled", ResetAll(comp))
    BY <1>3, <2>1, FinishStep DEF States
  <2>2. CASE state = "ParkedEngineering" /\ comp' = ResetAll(comp) /\ UNCHANGED state
    BY <1>3, <2>2 DEF CompStep, EnabledStates, States
  <2> QED BY <1>7, <2>1, <2>2 DEF DisableMirror
<1>8. CASE EnterEngineering
  BY <1>2, <1>8, SwitchStep DEF EnterEngineering, EnabledStates, States
<1>9. CASE ExitEngineering
  <2> DEFINE f == [c \in Components |->
                     IF c = "Offset" THEN ZeroForces(c, comp[c])
                     ELSE IF c = "Balance" /\ state = "ActiveEngineering" THEN ApplyIf(comp[c])
                     ELSE comp[c]]
  <2>1. ASSUME NEW c \in Components PROVE f[c] \in Fits /\ Keeps(comp[c], f[c])
    <3>1. f[c] \in {comp[c], ApplyIf(comp[c]), ZeroForces(c, comp[c])}
      OBVIOUS
    <3>2. Keeps(comp[c], comp[c]) /\ ApplyIf(comp[c]) \in Fits /\ Keeps(comp[c], ApplyIf(comp[c]))
      BY <1>1, SwitchOneFits DEF Keeps
    <3>3. ZeroForces(c, comp[c]) \in Fits /\ Keeps(comp[c], ZeroForces(c, comp[c]))
      BY <1>1, ZeroForcesFits
    <3> QED BY <1>1, <3>1, <3>2, <3>3
  <2>2. Switched(comp, f)
    BY <2>1 DEF Switched
  <2>3. Finish(IF state = "ParkedEngineering" THEN "Parked" ELSE "Active", f)
    BY <1>9 DEF ExitEngineering
  <2> QED BY <2>2, <2>3, SwitchStep DEF EnabledStates, States
<1>10. CASE Raise
  <2>1. Switched(comp, Switch(comp, {"Elevation"}, 0))
    BY <1>1, SwitchFits
  <2> QED BY <1>10, <2>1, SwitchStep DEF Raise, EnabledStates, States
<1>11. CASE AbortRaise
  <2>1. Switched(comp, Switch(comp, {"Elevation"}, 0))
    BY <1>1, SwitchFits
  <2> QED BY <1>11, <2>1, SwitchStep DEF AbortRaise, EnabledStates, States
<1>12. CASE Lower
  <2> DEFINE f == ExitSlewComponents(comp)
             g == Switch(f, {"Elevation"}, 0)
  <2>1. Switched(comp, f) /\ f \in [Components -> Fits]
    BY <1>1, ExitSlewFits DEF Switched
  <2>2. Switched(f, g) /\ g \in [Components -> Fits]
    BY <2>1, SwitchFits DEF Switched
  <2>3. Switched(comp, g)
    BY <1>1, <2>1, <2>2, SwitchedRamps
  <2> QED BY <1>12, <2>3, SwitchStep DEF Lower, EnabledStates, States
<1>13. CASE CommandedForces
  <2>1. state \in EnabledStates
    BY <1>13 DEF CommandedForces, EngineeringStates, EnabledStates, States
  <2>2. PICK c \in Components \cap {"ActiveOptic", "Offset"} :
          \/ \E z \in Forces : Finish(state, [comp EXCEPT ![c] = [ApplyIf(@) EXCEPT !.target = z]])
          \/ Finish(state, [comp EXCEPT ![c] = ZeroForces(c, @)])
    BY <1>13 DEF CommandedForces
  <2>3. CASE \E z \in Forces : Finish(state, [comp EXCEPT ![c] = [ApplyIf(@) EXCEPT !.target = z]])
    <3>1. PICK z \in Forces : Finish(state, [comp EXCEPT ![c] = [ApplyIf(comp[c]) EXCEPT !.target = z]])
      BY <2>3
    <3>2. ApplyIf(comp[c]) \in Fits /\ Keeps(comp[c], ApplyIf(comp[c])) /\ z \in Int
      BY <1>1, SwitchOneFits, ForceAssumption
    <3>3. /\ [ApplyIf(comp[c]) EXCEPT !.target = z] \in Fits
          /\ Keeps(comp[c], [ApplyIf(comp[c]) EXCEPT !.target = z])
      BY <3>2, TargetFits DEF Keeps
    <3> QED BY <1>1, <2>1, <3>1, <3>3, ExceptFits, SwitchStep
  <2>4. CASE Finish(state, [comp EXCEPT ![c] = ZeroForces(c, @)])
    <3>1. ZeroForces(c, comp[c]) \in Fits /\ Keeps(comp[c], ZeroForces(c, comp[c]))
      BY <1>1, ZeroForcesFits
    <3> QED BY <1>1, <2>1, <2>4, <3>1, ExceptFits, SwitchStep
  <2> QED BY <2>2, <2>3, <2>4
<1>14. CASE HardpointCorrections
  <2>1. "Balance" \in Components /\ state \in EnabledStates
    BY <1>14 DEF HardpointCorrections, EnabledStates, States
  <2>2. /\ ApplyIf(comp["Balance"]) \in Fits /\ Keeps(comp["Balance"], ApplyIf(comp["Balance"]))
        /\ ZeroIf(comp["Balance"]) \in Fits /\ Keeps(comp["Balance"], ZeroIf(comp["Balance"]))
    BY <1>1, <2>1, SwitchOneFits
  <2>3. /\ Switched(comp, [comp EXCEPT !["Balance"] = ApplyIf(@)])
        /\ Switched(comp, [comp EXCEPT !["Balance"] = ZeroIf(@)])
    BY <1>1, <2>1, <2>2, ExceptFits
  <2> QED BY <1>14, <2>1, <2>3, SwitchStep DEF HardpointCorrections
<1>15. CASE EnableDisableForceComponent
  <2>1. state \in EnabledStates
    BY <1>15 DEF EnableDisableForceComponent, EnabledStates, States
  <2> DEFINE on(x) == IF x.mode = "Enabled" THEN [x EXCEPT !.flag = TRUE] ELSE Enable(x)
             off(x) == [ZeroIf(x) EXCEPT !.flag = FALSE]
  <2>2. PICK c \in Components : \/ Finish(state, [comp EXCEPT ![c] = on(comp[c])])
                               \/ Finish(state, [comp EXCEPT ![c] = off(comp[c])])
    BY <1>15 DEF EnableDisableForceComponent
  <2>3. on(comp[c]) \in Fits /\ Keeps(comp[c], on(comp[c]))
    <3>1. Enable(comp[c]) \in Fits /\ Keeps(comp[c], Enable(comp[c]))
      BY <1>1, SwitchOneFits
    <3>2. CASE comp[c].mode = "Enabled"
      BY <1>1, <3>2, FlagFits
    <3> QED BY <3>1, <3>2
  <2>4. off(comp[c]) \in Fits /\ Keeps(comp[c], off(comp[c]))
    BY <1>1, SwitchOneFits
  <2>5. Switched(comp, [comp EXCEPT ![c] = on(comp[c])]) /\ Switched(comp, [comp EXCEPT ![c] = off(comp[c])])
    <3> HIDE DEF on, off
    <3> QED BY <1>1, <2>3, <2>4, ExceptFits
  <2> QED BY <2>1, <2>2, <2>5, SwitchStep
<1>16. CASE PIDParameters
  BY <1>2, <1>16, SwitchStep DEF PIDParameters, EnabledStates, States
<1>17. CASE AzimuthSample
  <2>1. "Azimuth" \in Components /\ state \in EnabledStates
    BY <1>17 DEF AzimuthSample
  <2>2. PICK z \in Forces :
          Finish(state, [comp EXCEPT !["Azimuth"] =
                           IF comp["Azimuth"].mode = "Enabled" THEN [comp["Azimuth"] EXCEPT !.target = z]
                           ELSE comp["Azimuth"]])
    BY <1>17 DEF AzimuthSample
  <2>3. /\ [comp["Azimuth"] EXCEPT !.target = z] \in Fits
        /\ Keeps(comp["Azimuth"], [comp["Azimuth"] EXCEPT !.target = z])
        /\ Keeps(comp["Azimuth"], comp["Azimuth"])
    BY <1>1, <2>1, TargetFits, ForceAssumption DEF Keeps
  <2> QED BY <1>1, <2>1, <2>2, <2>3, ExceptFits, SwitchStep
<1>18. CASE SetSlewFlag
  BY <1>1, <1>18, EnterSlewFits, SwitchedRamps DEF SetSlewFlag, CompStep, EnabledStates, States
<1>19. CASE ClearSlewFlag
  BY <1>1, <1>19, ExitSlewFits, SwitchedRamps DEF ClearSlewFlag, CompStep, EnabledStates, States
<1>20. CASE ArriveSettings
  BY <1>1, <1>2, <1>20 DEF ArriveSettings, CompStep, Inductive, ForceInv, IdleOutOfControl
<1>21. CASE ExecuteSettings
  BY <1>1, <1>2, <1>21 DEF ExecuteSettings, CompStep, Inductive, ForceInv, IdleOutOfControl
<1>22. CASE Fault
  BY <1>3, <1>22 DEF Fault, CompStep, States
<1> QED BY <1>4, <1>5, <1>6, <1>7, <1>8, <1>9, <1>10, <1>11, <1>12, <1>13, <1>14, <1>15, <1>16,
           <1>17, <1>18, <1>19, <1>20, <1>21, <1>22 DEF Command

\* The PID that an update leaves is one.
LEMMA UpdatePIDTypes ==
  ASSUME Inductive, NEW p \in (IF BalanceEnabled THEN Process(pid) ELSE {GetOffset(pid)})
  PROVE  p \in [control : Int, offset : Int, frozen : BOOLEAN] /\ p.frozen = pid.frozen
<1> DEFINE PIDs == [control : Int, offset : Int, frozen : BOOLEAN]
<1>1. ASSUME NEW q \in PIDs PROVE GetOffset(q) \in PIDs /\ GetOffset(q).frozen = q.frozen
  BY ForceAssumption DEF GetOffset
<1>2. pid \in PIDs
  BY DEF Inductive, ForceInv, TypeOK
<1>3. ASSUME NEW u \in Forces
      PROVE  [pid EXCEPT !.control = u] \in PIDs /\ [pid EXCEPT !.control = u].frozen = pid.frozen
  BY <1>2, ForceAssumption
<1>4. CASE BalanceEnabled
  <2>1. PICK u \in Forces : p = GetOffset([pid EXCEPT !.control = u])
    BY <1>4 DEF Process
  <2> HIDE DEF PIDs
  <2>2. p \in PIDs /\ p.frozen = pid.frozen
    BY <1>1, <1>3, <2>1
  <2> QED BY <2>2 DEF PIDs
<1>5. CASE ~BalanceEnabled
  <2> HIDE DEF PIDs
  <2>1. p \in PIDs /\ p.frozen = pid.frozen
    BY <1>1, <1>2, <1>5
  <2> QED BY <2>1 DEF PIDs
<1> QED BY <1>4, <1>5

\* The update, with whatever the raise and lower controllers switch before and after it.
LEMMA UpdateStep ==
  ASSUME Inductive, Update
  PROVE  CompStep
<1>1. comp \in [Components -> Fits] /\ state \in EnabledStates
  BY CompFits DEF Update
<1>2. PICK demand \in [Following -> Forces], static \in Forces :
      \E p \in (IF BalanceEnabled THEN Process(pid) ELSE {GetOffset(pid)}) :
      \E f \in {comp} \cup (IF state \in {"Raising", "Lowering"} THEN {StaticApplied(static)} ELSE {}) :
        LET g == UpdateAppliedForces(f, p, demand)
        IN \/ Finish(state, g)
           \/ \E balance \in BOOLEAN, next \in {"Active", "ActiveEngineering"} :
                Finish(next, RaiseCompleted(g, static, balance))
           \/ \E next \in {"Parked", "ParkedEngineering"} : Finish(next, Switch(g, {}, 0))
  BY DEF Update
<1>3. PICK p \in (IF BalanceEnabled THEN Process(pid) ELSE {GetOffset(pid)}),
           f \in {comp, StaticApplied(static)} :
        LET g == UpdateAppliedForces(f, p, demand)
        IN \/ Finish(state, g)
           \/ \E balance \in BOOLEAN, next \in {"Active", "ActiveEngineering"} :
                Finish(next, RaiseCompleted(g, static, balance))
           \/ \E next \in {"Parked", "ParkedEngineering"} : Finish(next, Switch(g, {}, 0))
  BY <1>2
<1>4. static \in Int /\ demand \in [Following -> Int] /\ p \in [control : Int, offset : Int, frozen : BOOLEAN]
  BY ForceAssumption, UpdatePIDTypes
<1> DEFINE g == UpdateAppliedForces(f, p, demand)
<1>5. Switched(comp, f)
  BY <1>1, <1>3, <1>4, NothingSwitched, StaticFits
<1>6. f \in [Components -> Fits] /\ Ramped(f, g) /\ g \in [Components -> Fits]
  BY <1>4, <1>5, UpdateAllFits DEF Switched, Ramped
<1>7. Ramped(comp, g)
  BY <1>1, <1>5, <1>6, SwitchedRamps
<1>8. ASSUME NEW h, Switched(g, h), NEW next \in EnabledStates, Finish(next, h)
      PROVE  CompStep
  <2>1. Ramped(comp, h)
    BY <1>1, <1>6, <1>7, <1>8, SwitchedRamps
  <2> QED BY <2>1, <1>8, FinishStep DEF EnabledStates
<1>9. /\ {"Active", "ActiveEngineering", "Parked", "ParkedEngineering"} \subseteq EnabledStates
      /\ Switched(g, g) /\ Switched(g, Switch(g, {}, 0))
      /\ \A balance \in BOOLEAN : Switched(g, RaiseCompleted(g, static, balance))
  BY <1>4, <1>6, NothingSwitched, SwitchFits, RaiseCompletedFits DEF EnabledStates, States
<1>10. CASE Finish(state, g)
  BY <1>1, <1>8, <1>9, <1>10
<1>11. ASSUME NEW balance \in BOOLEAN, NEW next \in {"Active", "ActiveEngineering"},
              Finish(next, RaiseCompleted(g, static, balance))
       PROVE  CompStep
  BY <1>8, <1>9, <1>11
<1>12. ASSUME NEW next \in {"Parked", "ParkedEngineering"}, Finish(next, Switch(g, {}, 0))
       PROVE  CompStep
  BY <1>8, <1>9, <1>12
<1> QED BY <1>3, <1>10, <1>11, <1>12

\* A start makes new components, which fit at once, and drops what is left in the events.
LEMMA StartStep ==
  ASSUME Inductive, Start
  PROVE  /\ comp' \in [Components -> Fits] /\ state' \in States
         /\ \A c \in Components : comp'[c].mode = "Disabled" /\ comp'[c].applied = 0
<1>1. NewComponent \in Fits /\ NewComponent.mode = "Disabled" /\ NewComponent.applied = 0
  BY NewFits
<1>2. comp' = [c \in Components |-> NewComponent]
  BY DEF Start
<1> QED BY <1>1, <1>2 DEF Start, States

----------------------------------------------------------------------------
(* The slew controller and the PID through every action. *)

\* The part of the invariant that speaks of them.
SlewFits ==
  /\ pid \in [control : Int, offset : Int, frozen : BOOLEAN]
  /\ slew \in [flag : BOOLEAN, restore : BOOLEAN, settings : SUBSET SlewSettings,
                entries : 0..2, found : BOOLEAN]
  /\ pending \in SUBSET SlewSettings
  /\ SlewIsTidy /\ SlewSaved

\* Freezing, thawing and resetting yield a PID, frozen or not.
LEMMA PIDOperations ==
  ASSUME NEW p \in [control : Int, offset : Int, frozen : BOOLEAN]
  PROVE  /\ Freeze(p) \in [control : Int, offset : Int, frozen : BOOLEAN] /\ Freeze(p).frozen
         /\ Thaw(p) \in [control : Int, offset : Int, frozen : BOOLEAN] /\ ~Thaw(p).frozen
         /\ ResetControl(p) \in [control : Int, offset : Int, frozen : BOOLEAN]
         /\ ResetControl(p).frozen = p.frozen
         /\ NewPID \in [control : Int, offset : Int, frozen : BOOLEAN] /\ ~NewPID.frozen
<1>1. Freeze(p) \in [control : Int, offset : Int, frozen : BOOLEAN] /\ Freeze(p).frozen
  BY DEF Freeze
<1>2. Thaw(p) \in [control : Int, offset : Int, frozen : BOOLEAN] /\ ~Thaw(p).frozen
  BY DEF Thaw
<1>3. ResetControl(p) \in [control : Int, offset : Int, frozen : BOOLEAN] /\ ResetControl(p).frozen = p.frozen
  BY DEF ResetControl
<1>4. NewPID \in [control : Int, offset : Int, frozen : BOOLEAN] /\ ~NewPID.frozen
  BY DEF NewPID
<1> QED BY <1>1, <1>2, <1>3, <1>4

\* The end of a slew, in any state.
LEMMA ExitSlewFitsSlew ==
  ASSUME SlewFits, slew' = ExitSlewFlag, pid' \in {ExitSlewPID, ResetControl(ExitSlewPID)},
         UNCHANGED pending
  PROVE  SlewFits'
<1>1. /\ ExitSlewPID \in [control : Int, offset : Int, frozen : BOOLEAN]
      /\ ~ExitSlewPID.frozen
  BY PIDOperations DEF SlewFits, ExitSlewPID
<1>2. pid' \in [control : Int, offset : Int, frozen : BOOLEAN] /\ ~pid'.frozen
  BY <1>1, PIDOperations
<1>3. /\ slew' \in [flag : BOOLEAN, restore : BOOLEAN, settings : SUBSET SlewSettings,
                    entries : 0..2, found : BOOLEAN]
      /\ ~slew'.flag /\ slew'.entries = 0
  <2>1. slew \in [flag : BOOLEAN, restore : BOOLEAN, settings : SUBSET SlewSettings,
                 entries : 0..2, found : BOOLEAN]
    BY DEF SlewFits
  <2>2. slew' = [flag |-> FALSE, restore |-> slew.restore, settings |-> slew.settings,
                 entries |-> 0, found |-> FALSE]
    BY <2>1 DEF ExitSlewFlag
  <2> QED BY <2>1, <2>2
<1> QED BY <1>2, <1>3 DEF SlewFits, SlewIsTidy, SlewSaved

\* An action that leaves the slew controller alone and keeps the PID frozen or not.
LEMMA SlewUntouched ==
  ASSUME SlewFits, pid' \in [control : Int, offset : Int, frozen : BOOLEAN], pid'.frozen = pid.frozen,
         UNCHANGED <<slew, pending>>,
         slew.flag => state' \in {"Active", "ActiveEngineering", "Fault"}
  PROVE  SlewFits'
BY DEF SlewFits, SlewIsTidy, SlewSaved

\* Every step keeps what is saved for the end of a slew, its flag and its frozen PIDs in agreement.
LEMMA SlewStep ==
  ASSUME Inductive, Next
  PROVE  SlewFits'
<1>1. SlewFits
  BY DEF Inductive, ForceInv, TypeOK, SlewFits
<1>2. /\ pid \in [control : Int, offset : Int, frozen : BOOLEAN]
      /\ slew.flag => state \in {"Active", "ActiveEngineering", "Fault"}
  BY <1>1 DEF SlewFits, SlewIsTidy
<1>3. CASE Start
  <2>1. pid' \in [control : Int, offset : Int, frozen : BOOLEAN] /\ ~pid'.frozen
    BY <1>2, <1>3, PIDOperations DEF Start
  <2>2. PICK s \in Loaded : slew' = [slew EXCEPT !.settings = s]
    BY <1>3 DEF Start
  <2>3. ~slew.flag /\ s \in SUBSET SlewSettings
    BY <1>2, <1>3, ForceAssumption DEF Start
  <2> QED BY <1>1, <1>3, <2>1, <2>2, <2>3 DEF Start, SlewFits, SlewIsTidy, SlewSaved
<1>4. CASE EnableMirror
  BY <1>1, <1>2, <1>4, SlewUntouched DEF EnableMirror
<1>5. CASE StandbyFromDisabled
  BY <1>1, <1>2, <1>5, SlewUntouched DEF StandbyFromDisabled
<1>6. CASE StandbyFromFault
  BY <1>1, <1>6, ExitSlewFitsSlew DEF StandbyFromFault
<1>7. CASE DisableMirror
  BY <1>1, <1>2, <1>7, SlewUntouched DEF DisableMirror
<1>8. CASE EnterEngineering
  BY <1>1, <1>2, <1>8, SlewUntouched DEF EnterEngineering, Finish
<1>9. CASE ExitEngineering
  <2>1. pid' \in [control : Int, offset : Int, frozen : BOOLEAN] /\ pid'.frozen = pid.frozen
    BY <1>2, <1>9, PIDOperations DEF ExitEngineering
  <2>2. slew.flag => state' \in {"Active", "ActiveEngineering", "Fault"}
    BY <1>2, <1>9 DEF ExitEngineering, Finish
  <2> QED BY <1>1, <1>9, <2>1, <2>2, SlewUntouched DEF ExitEngineering
<1>10. CASE Raise
  BY <1>1, <1>2, <1>10, SlewUntouched DEF Raise
<1>11. CASE AbortRaise
  BY <1>1, <1>2, <1>11, SlewUntouched DEF AbortRaise
<1>12. CASE Lower
  BY <1>1, <1>12, ExitSlewFitsSlew DEF Lower
<1>13. CASE CommandedForces
  <2>1. state' \in {state, "Fault"}
    BY <1>13 DEF CommandedForces, Finish
  <2> QED BY <1>1, <1>2, <1>13, <2>1, SlewUntouched DEF CommandedForces
<1>14. CASE HardpointCorrections
  <2>1. state' \in {state, "Fault"}
    BY <1>14 DEF HardpointCorrections, Finish
  <2> QED BY <1>1, <1>2, <1>14, <2>1, SlewUntouched DEF HardpointCorrections
<1>15. CASE EnableDisableForceComponent
  <2>1. state' \in {state, "Fault"}
    BY <1>15 DEF EnableDisableForceComponent, Finish
  <2> QED BY <1>1, <1>2, <1>15, <2>1, SlewUntouched DEF EnableDisableForceComponent
<1>16. CASE PIDParameters
  <2>1. pid' \in [control : Int, offset : Int, frozen : BOOLEAN] /\ pid'.frozen = pid.frozen
    BY <1>2, <1>16, PIDOperations DEF PIDParameters
  <2>2. state' \in {state, "Fault"}
    BY <1>16 DEF PIDParameters, Finish
  <2> QED BY <1>1, <1>2, <1>16, <2>1, <2>2, SlewUntouched DEF PIDParameters
<1>17. CASE AzimuthSample
  <2>1. state' \in {state, "Fault"}
    BY <1>17 DEF AzimuthSample, Finish
  <2> QED BY <1>1, <1>2, <1>17, <2>1, SlewUntouched DEF AzimuthSample
<1>18. CASE SetSlewFlag
  <2>1. pid' \in [control : Int, offset : Int, frozen : BOOLEAN] /\ pid'.frozen
    BY <1>2, <1>18, PIDOperations DEF SetSlewFlag, EnterSlewPID
  <2>2. BalanceEnabled \in BOOLEAN
    BY DEF BalanceEnabled
  <2>3. /\ slew'.flag /\ slew'.entries # 0
        /\ slew'.entries = 1 => slew'.restore = slew'.found
        /\ slew' \in [flag : BOOLEAN, restore : BOOLEAN, settings : SUBSET SlewSettings,
                      entries : 0..2, found : BOOLEAN]
    <3> DEFINE n == IF slew.entries = 2 THEN 2 ELSE slew.entries + 1
               b == IF slew.entries = 0 THEN BalanceEnabled ELSE slew.found
    <3>1. /\ slew.entries \in 0..2 /\ slew.found \in BOOLEAN /\ slew.settings \in SUBSET SlewSettings
          /\ slew = [flag |-> slew.flag, restore |-> slew.restore, settings |-> slew.settings,
                     entries |-> slew.entries, found |-> slew.found]
      BY <1>1 DEF SlewFits
    <3>2. slew' = [flag |-> TRUE, restore |-> BalanceEnabled, settings |-> slew.settings,
                   entries |-> n, found |-> b]
      BY <1>18, <3>1 DEF SetSlewFlag, EnterSlewFlag
    <3>3. n \in 1..2 /\ (n = 1 => slew.entries = 0) /\ b \in BOOLEAN
      BY <2>2, <3>1
    <3>4. n = 1 => b = BalanceEnabled
      BY <3>3
    <3> HIDE DEF n, b
    <3> QED BY <2>2, <3>1, <3>2, <3>3, <3>4
  <2> QED BY <1>1, <1>18, <2>1, <2>3 DEF SetSlewFlag, SlewFits, SlewIsTidy, SlewSaved
<1>19. CASE ClearSlewFlag
  BY <1>1, <1>19, ExitSlewFitsSlew DEF ClearSlewFlag
<1>20. CASE ArriveSettings
  <2>1. pending' \in SUBSET SlewSettings
    BY <1>20 DEF ArriveSettings
  <2> QED BY <1>1, <1>20, <2>1 DEF ArriveSettings, SlewFits, SlewIsTidy, SlewSaved
<1>21. CASE ExecuteSettings
  <2>1. PICK s \in SUBSET SlewSettings : slew' = [slew EXCEPT !.settings = s]
    <3>1. slew = [slew EXCEPT !.settings = slew.settings]
      BY <1>1 DEF SlewFits
    <3> QED BY <1>1, <1>21, <3>1 DEF ExecuteSettings, SlewFits
  <2> QED BY <1>1, <1>21, <2>1 DEF ExecuteSettings, SlewFits, SlewIsTidy, SlewSaved
<1>22. CASE Fault
  BY <1>1, <1>2, <1>22, SlewUntouched DEF Fault
<1>23. CASE Update
  <2>1. pid' \in [control : Int, offset : Int, frozen : BOOLEAN] /\ pid'.frozen = pid.frozen
    BY <1>23, UpdatePIDTypes DEF Update
  <2>2. slew.flag => state' \in {"Active", "ActiveEngineering", "Fault"}
    BY <1>2, <1>23 DEF Update, Finish
  <2> QED BY <1>1, <1>23, <2>1, <2>2, SlewUntouched DEF Update
<1> QED BY <1>3, <1>4, <1>5, <1>6, <1>7, <1>8, <1>9, <1>10, <1>11, <1>12, <1>13, <1>14, <1>15, <1>16,
           <1>17, <1>18, <1>19, <1>20, <1>21, <1>22, <1>23 DEF Next, Command

----------------------------------------------------------------------------
(* The theorems. *)

\* The invariant, put together from its parts in the next state.
LEMMA Assembled ==
  ASSUME Inductive, comp' \in [Components -> Fits], state' \in States,
         state' \notin EnabledStates => \A c \in Components : comp'[c].mode = "Disabled",
         SlewFits'
  PROVE  Inductive'
<1>1. Components \in Watched /\ Components' = Components
  BY CompFits DEF Components
<1>2. TypeOK'
  BY <1>1 DEF TypeOK, SlewFits, Fits
<1>3. EventsAgree'
  BY <1>1 DEF EventsAgree, Fits
<1> QED BY <1>1, <1>2, <1>3 DEF Inductive, ForceInv, IdleOutOfControl, SlewFits

\* The inductive invariant holds in every behaviour of the force components, the PIDs and
\* the slew controller.
THEOREM Invariance == Spec => []Inductive
<1>1. Init => Inductive
  <2> SUFFICES ASSUME Init PROVE Inductive
    OBVIOUS
  <2>1. PICK S \in Watched : comp = [c \in S |-> NewComponent]
    BY DEF Init
  <2>2. Components = S
    BY <2>1 DEF Components
  <2>3. NewComponent \in Fits /\ NewComponent.mode = "Disabled"
    BY NewFits
  <2>4. comp \in [S -> ComponentStates] /\ comp \in [Components -> Fits]
    BY <2>1, <2>2, <2>3 DEF Fits
  <2>5. pid \in [control : Int, offset : Int, frozen : BOOLEAN] /\ ~pid.frozen
    BY DEF Init, NewPID
  <2>6. /\ slew \in [flag : BOOLEAN, restore : BOOLEAN, settings : SUBSET SlewSettings,
                     entries : 0..2, found : BOOLEAN]
        /\ ~slew.flag /\ slew.entries = 0
    <3>1. slew \in [flag : {FALSE}, restore : BOOLEAN, settings : {{}}, entries : {0}, found : {FALSE}]
      BY DEF Init
    <3>2. /\ slew.flag = FALSE /\ slew.restore \in BOOLEAN /\ slew.settings = {}
          /\ slew.entries = 0 /\ slew.found = FALSE
          /\ slew = [flag |-> slew.flag, restore |-> slew.restore, settings |-> slew.settings,
                     entries |-> slew.entries, found |-> slew.found]
      BY <3>1
    <3>3. {} \in SUBSET SlewSettings /\ 0 \in 0..2
      OBVIOUS
    <3>4. slew \in [flag : BOOLEAN, restore : BOOLEAN, settings : SUBSET SlewSettings,
                   entries : 0..2, found : BOOLEAN]
      BY <3>2, <3>3, Zenon
    <3> QED BY <3>2, <3>4
  <2>7. TypeOK
    BY <2>4, <2>5, <2>6 DEF TypeOK, Init, States
  <2>8. SlewIsTidy /\ EventsAgree /\ SlewSaved /\ IdleOutOfControl
    BY <2>1, <2>2, <2>3, <2>4, <2>5, <2>6
       DEF Init, SlewIsTidy, EventsAgree, SlewSaved, IdleOutOfControl, Fits
  <2> QED BY <2>7, <2>8 DEF Inductive, ForceInv
<1>2. Inductive /\ [Next]_vars => Inductive'
  <2> SUFFICES ASSUME Inductive, [Next]_vars PROVE Inductive'
    OBVIOUS
  <2>1. CASE Start
    BY <2>1, StartStep, SlewStep, Assembled DEF Next, Command
  <2>2. CASE Next /\ ~Start
    <3>1. CompStep
      BY <2>2, CommandSteps, UpdateStep DEF Next
    <3> QED BY <2>2, <3>1, SlewStep, Assembled DEF CompStep, Ramped
  <2>3. CASE UNCHANGED vars
    <3>1. Components' = Components
      BY <2>3 DEF vars, Components
    <3> QED BY <2>3, <3>1 DEF vars, Inductive, ForceInv, TypeOK, SlewIsTidy, EventsAgree,
                              IdleOutOfControl, SlewSaved
  <2> QED BY <2>1, <2>2, <2>3
<1> QED BY <1>1, <1>2, PTL DEF Spec

\* Types and limits hold, frozen PIDs and slew flag agree, and the events say what the
\* components are.
THEOREM ForcesAreSound == Spec => []ForceInv
<1>1. Inductive => ForceInv
  BY DEF Inductive
<1> QED BY <1>1, Invariance, PTL

\* Wherever the forces are summed they ramp; only a restart in standby drops what a reset
\* left in an event.
THEOREM Ramps == Spec => ForcesRamp
<1> DEFINE Ramp == \A c \in Components :
             \/ Abs(comp'[c].applied - comp[c].applied) <= Rate
             \/ Abs(comp[c].applied) < NearZero /\ comp'[c].applied = 0
             \/ state = "Standby" /\ comp'[c].applied = 0
<1>1. Inductive /\ [Next]_vars => [Ramp]_vars
  <2> SUFFICES ASSUME Inductive, Next, NEW c \in Components
               PROVE  \/ Abs(comp'[c].applied - comp[c].applied) <= Rate
                      \/ Abs(comp[c].applied) < NearZero /\ comp'[c].applied = 0
                      \/ state = "Standby" /\ comp'[c].applied = 0
    OBVIOUS
  <2>1. comp[c] \in Fits
    BY CompFits
  <2>2. CASE Start
    BY <2>2, StartStep DEF Start
  <2>3. CASE ~Start
    <3>1. Ramped(comp, comp')
      BY <2>3, CommandSteps, UpdateStep DEF Next, CompStep
    <3> QED BY <2>1, <3>1, MovesRamp DEF Ramped
  <2> QED BY <2>2, <2>3
<1> QED BY <1>1, Invariance, PTL DEF Spec, ForcesRamp

\* Which actions set the slew flag, and which clear it with the mirror raised.
LEMMA SlewFlagSteps ==
  ASSUME Inductive, Next
  PROVE  /\ ~slew.flag /\ slew'.flag => SetSlewFlag
         /\ slew.flag /\ ~slew'.flag /\ state' \in {"Active", "ActiveEngineering"} => ClearSlewFlag
<1>1. CASE Start
  <2>1. ~slew.flag /\ slew'.flag = slew.flag
    BY <1>1, ForceAssumption DEF Start, Inductive, ForceInv, TypeOK, SlewIsTidy
  <2> QED BY <2>1
<1>2. CASE StandbyFromFault
  BY <1>2 DEF StandbyFromFault, ExitSlewFlag, Inductive, ForceInv, TypeOK
<1>3. CASE Lower
  BY <1>3 DEF Lower, Finish, ExitSlewFlag, Inductive, ForceInv, TypeOK
<1>4. CASE SetSlewFlag
  <2>1. slew'.flag
    BY <1>4 DEF SetSlewFlag, EnterSlewFlag, Inductive, ForceInv, TypeOK
  <2> QED BY <1>4, <2>1
<1>5. CASE ClearSlewFlag
  <2>1. ~slew'.flag
    BY <1>5 DEF ClearSlewFlag, ExitSlewFlag, Inductive, ForceInv, TypeOK
  <2> QED BY <1>5, <2>1
<1>6. CASE ExecuteSettings
  <2>1. slew'.flag = slew.flag
    BY <1>6 DEF ExecuteSettings, Inductive, ForceInv, TypeOK
  <2> QED BY <2>1
<1>7. CASE Next /\ ~Start /\ ~StandbyFromFault /\ ~Lower /\ ~SetSlewFlag /\ ~ClearSlewFlag /\ ~ExecuteSettings
  BY <1>7 DEF Next, Command, EnableMirror, StandbyFromDisabled, DisableMirror, EnterEngineering,
              ExitEngineering, Raise, AbortRaise, CommandedForces, HardpointCorrections,
              EnableDisableForceComponent, PIDParameters, AzimuthSample, ArriveSettings, Fault, Update
<1> QED BY <1>1, <1>2, <1>3, <1>4, <1>5, <1>6, <1>7

\* The entry of a slew hands the PIDs' output on.
THEOREM EntryIsBumpless == Spec => SlewEntryIsBumpless
<1> DEFINE Bumpless == ~slew.flag /\ slew'.flag /\ pid.offset = 0 =>
             pid.control = (IF BalanceEnabled' THEN pid'.control + pid'.offset ELSE pid'.offset)
<1>1. Inductive /\ [Next]_vars => [Bumpless]_vars
  <2> SUFFICES ASSUME Inductive, Next, ~slew.flag, slew'.flag, pid.offset = 0
               PROVE  pid.control = (IF BalanceEnabled' THEN pid'.control + pid'.offset ELSE pid'.offset)
    OBVIOUS
  <2>1. SetSlewFlag
    BY SlewFlagSteps
  <2>2. pid \in [control : Int, offset : Int, frozen : BOOLEAN]
    BY DEF Inductive, ForceInv, TypeOK
  <2>3. CASE "Balance" \in slew.settings
    <3>1. pid'.control = 0 /\ pid'.offset = pid.control
      BY <2>1, <2>2, <2>3 DEF SetSlewFlag, EnterSlewPID, ResetControl, Freeze
    <3> QED BY <2>2, <3>1
  <2>4. CASE "Balance" \notin slew.settings
    <3>1. pid'.control = pid.control /\ pid'.offset = pid.control
      BY <2>1, <2>2, <2>4 DEF SetSlewFlag, EnterSlewPID, Freeze
    <3>2. ~BalanceEnabled'
      <4>1. ASSUME "Balance" \in Components
            PROVE  comp'["Balance"].mode # "Enabled"
        <5>1. comp'["Balance"] = ZeroIf(comp["Balance"])
          BY <2>1, <2>4, <4>1 DEF SetSlewFlag, EnterSlewComponents
        <5>2. comp["Balance"] \in ComponentStates
          BY <4>1, CompFits DEF Fits
        <5> QED BY <5>1, <5>2 DEF ZeroIf, Disable, ComponentStates
      <4>2. Components' = Components
        BY <2>1 DEF SetSlewFlag, EnterSlewComponents, Components
      <4> QED BY <4>1, <4>2 DEF BalanceEnabled
    <3> QED BY <3>1, <3>2
  <2> QED BY <2>3, <2>4
<1> QED BY <1>1, Invariance, PTL DEF Spec, SlewEntryIsBumpless

\* The end of a slew gives the balance forces back as the entry found them.
THEOREM SlewIsUndone == Spec => SlewRestoresBalance
<1> DEFINE Restores == slew.flag /\ ~slew'.flag /\ slew.entries = 1 /\ state' \in {"Active", "ActiveEngineering"}
                       /\ "Balance" \in Components => (BalanceEnabled' <=> slew.found)
<1>1. Inductive /\ [Next]_vars => [Restores]_vars
  <2> SUFFICES ASSUME Inductive, Next, slew.flag, ~slew'.flag, slew.entries = 1,
                      state' \in {"Active", "ActiveEngineering"}, "Balance" \in Components
               PROVE  BalanceEnabled' <=> slew.found
    OBVIOUS
  <2>1. ClearSlewFlag
    BY SlewFlagSteps
  <2>2. slew.restore = slew.found
    BY DEF Inductive, SlewSaved
  <2>3. comp["Balance"] \in ComponentStates
    BY CompFits DEF Fits
  <2>4. comp'["Balance"] = IF slew.restore THEN ApplyIf(comp["Balance"]) ELSE ZeroIf(comp["Balance"])
    BY <2>1 DEF ClearSlewFlag, ExitSlewComponents
  <2>5. comp'["Balance"].mode = "Enabled" <=> slew.restore
    <3>1. ApplyIf(comp["Balance"]).mode = "Enabled"
      BY <2>3 DEF ApplyIf, Enable, ComponentStates
    <3>2. ZeroIf(comp["Balance"]).mode # "Enabled"
      BY <2>3 DEF ZeroIf, Disable, ComponentStates
    <3> QED BY <2>4, <3>1, <3>2
  <2>6. Components' = Components
    BY <2>1 DEF ClearSlewFlag, ExitSlewComponents, Components
  <2> QED BY <2>2, <2>5, <2>6 DEF BalanceEnabled
<1> QED BY <1>1, Invariance, PTL DEF Spec, SlewRestoresBalance
=============================================================================
