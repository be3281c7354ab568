-------------------------- MODULE ForceDistribution --------------------------
(* From a sample of a sensor, or a command, to the force on each actuator:  *)
(* the tables of ForceActuatorSettings, one force component, the sum that   *)
(* FinalForceComponent spreads over the enabled actuators, the set points   *)
(* of the cylinders, the checks of ForceController, and the forces that the *)
(* inner loop controllers report back.  ForceControl has the components'    *)
(* modes; here one component at a time is enabled throughout, seen at every *)
(* actuator and axis.                                                       *)
EXTENDS Integers, FiniteSets, FiniteSetsExt

CONSTANTS Actuators,     \* number of rows of ForceActuatorApplicationSettings::Table
          Row,           \* [0 .. Actuators - 1 -> quadrant, orientation, x, y, z, near, far]
          Watched,       \* the components to follow
          Samples,       \* what each may be given
          Coefficient,   \* the tables: [component -> actuator -> axis -> coefficients]
          Ratios,        \* values of the support ratio, in percent
          MaxRateOfChange, ForceLimit, AppliedLimit, CylinderLimit,
          NetForceTolerance, NearLimit, WeightLimit, MomentLimit,
          IgnoreChanges, MaxDelay,
          LargestForce,  \* no force of the tables, and none of a command, is larger
          SettleTime,    \* bound: updates that are counted after a change
          FarFactor,
          MaxDisabled,   \* bound on the number of disabled actuators
          MaxChanges     \* bound on the number of samples, commands and actuators switched

VARIABLES watched, sample, ratio, disabled, changes,
          component,     \* target, current and applied forces of the component
          final,         \* those of the sum
          warned,        \* forceWarning: actuators whose force was clipped
          cylinders, limited,
          measured,      \* forces of the cylinders the ILCs report
          notified,      \* what the last update told the safety controller
          near,          \* nearNeighborWarning
          sent, sinceSent, unsent, \* the preclipped forces last published
          settled,       \* history: updates since the last change, up to SettleTime
          still          \* history: updates that found the forces unchanged, up to MaxDelay

inputs == <<sample, ratio, disabled, changes>>
outputs == <<component, final, warned, cylinders, limited, measured,
             notified, near, sent, sinceSent, unsent>>
vars == <<watched, sample, ratio, disabled, changes, component, final, warned, cylinders, limited,
          measured, notified, near, sent, sinceSent, unsent, settled, still>>

-----------------------------------------------------------------------------
(* The tables. *)

FAs == 0 .. Actuators - 1
Quadrants == {Row[a].quadrant : a \in FAs}
AxisOf(a) == CASE Row[a].orientation \in {"PositiveX", "NegativeX"} -> "x"
               [] Row[a].orientation \in {"PositiveY", "NegativeY"} -> "y"
               [] OTHER -> "NA"
Axes == {"x", "y", "z"}

\* Indices along an axis are given in the order of the actuators.
On(axis) == IF axis = "z" THEN FAs ELSE {a \in FAs : AxisOf(a) = axis}
Index == [axis \in Axes |-> [a \in FAs |-> IF a \in On(axis) THEN Cardinality({b \in On(axis) : b < a}) ELSE -1]]
Quadrant == [axis \in Axes |-> [q \in Quadrants |->
                {Index[axis][a] : a \in {b \in On(axis) : Row[b].quadrant = q}}]]

\* A force is exerted by an actuator of an axis, given by its index there.
Places == UNION {{<<axis, Index[axis][a]>> : a \in On(axis)} : axis \in Axes}
ActuatorAt == [p \in Places |-> CHOOSE a \in On(p[1]) : Index[p[1]][a] = p[2]]
Forces == [Places -> Int]
ZeroForces == [p \in Places |-> 0]
\* Tables give a force on each axis of every actuator; an actuator has only some.
OnAxes(Force(_, _)) == [p \in Places |-> Force(ActuatorAt[p], p[1])]
At(forces, axis, a) == IF Index[axis][a] = -1 THEN 0 ELSE forces[<<axis, Index[axis][a]>>]

Sum(axis, forces, S) == MapThenSumSet(LAMBDA i : forces[<<axis, i>>], S)
Abs(n) == IF n < 0 THEN -n ELSE n
Coerce(low, high, n) == IF n < low THEN low ELSE IF n > high THEN high ELSE n
\* The whole part of the square root, from that of a quarter.
Root[n \in Nat] == IF n = 0 THEN 0
                   ELSE Max({r \in {2 * s + bit : s \in {Root[n \div 4]}, bit \in {0, 1}} : r * r <= n})

ForcesAndMoments(forces) ==
    LET Over(F(_)) == MapThenSumSet(F, FAs)
        fx(a) == At(forces, "x", a)  fy(a) == At(forces, "y", a)  fz(a) == At(forces, "z", a)
        Fx == Over(fx)  Fy == Over(fy)  Fz == Over(fz)
    IN  [Fx |-> Fx, Fy |-> Fy, Fz |-> Fz,
         Mx |-> Over(LAMBDA a : fz(a) * Row[a].y - fy(a) * Row[a].z),
         My |-> Over(LAMBDA a : fx(a) * Row[a].z - fz(a) * Row[a].x),
         Mz |-> Over(LAMBDA a : fy(a) * Row[a].x - fx(a) * Row[a].y),
         ForceMagnitude |-> Root[Fx * Fx + Fy * Fy + Fz * Fz]]

-----------------------------------------------------------------------------
(* What the tables make of a sample. *)

C(c, a, axis) == Coefficient[c][a][axis]
Linear(k, v) == k[1] * v.x + k[2] * v.y + k[3] * v.z
WithProducts(k, v) == Linear(k, v) + k[4] * v.x * v.z + k[5] * v.y * v.z + k[6] * v.x * v.y
WithMoments(k, v) == Linear(k, v) + k[4] * v.mx + k[5] * v.my + k[6] * v.mz
Polynomial(k, v) == k[1] * v^5 + k[2] * v^4 + k[3] * v^3 + k[4] * v^2 + k[5] * v + k[6]

AccelerationForces(v) == OnAxes(LAMBDA a, axis : Linear(C("acceleration", a, axis), v))
VelocityForces(v) == OnAxes(LAMBDA a, axis : WithProducts(C("velocity", a, axis), v))
AzimuthForces(v) == OnAxes(LAMBDA a, axis : Polynomial(C("azimuth", a, axis), v))
ElevationForces(v, percent) ==
    OnAxes(LAMBDA a, axis : (Polynomial(C("elevation", a, axis), v) * percent) \div 100)
ThermalForces(v) == OnAxes(LAMBDA a, axis : Polynomial(C("thermal", a, axis), v))
BalanceForces(v) == OnAxes(LAMBDA a, axis : WithMoments(C("balance", a, axis), v))
OffsetForces(v) == OnAxes(LAMBDA a, axis : WithMoments(C("offset", a, axis), v))
StaticForces == OnAxes(LAMBDA a, axis : C("static", a, axis))
ActiveOpticForces(v) == [p \in Places |-> IF p[1] = "z" THEN v[p[2]] ELSE 0]
ActuatorOffset(v) == [component.target EXCEPT ![<<v.axis, v.index>>] = v.force]

Tabled(c, v, percent) ==
    CASE c = "acceleration" -> AccelerationForces(v)
      [] c = "velocity"     -> VelocityForces(v)
      [] c = "azimuth"      -> AzimuthForces(v)
      [] c = "elevation"    -> ElevationForces(v, percent)
      [] c = "thermal"      -> ThermalForces(v)
      [] c = "balance"      -> BalanceForces(v)
      [] c = "offset"       -> OffsetForces(v)
      [] c = "static"       -> StaticForces
      [] c = "active"       -> ActiveOpticForces(v)

Target(c, v, percent) == IF c = "single" THEN ActuatorOffset(v) ELSE Tabled(c, v, percent)

\* The rows and tables are complete, and hold numbers.
ASSUME DistributionAssumption ==
    /\ Actuators \in Nat \ {0}
    /\ \A c \in Watched : \A v \in Samples[c] :
          IF c = "single" THEN v.force \in Int ELSE \A percent \in Ratios : Tabled(c, v, percent) \in Forces
    /\ Ratios # {} /\ IsFiniteSet(Ratios) /\ Ratios \subseteq Nat
    /\ {MaxRateOfChange, MaxDelay} \subseteq Nat \ {0}
    /\ {ForceLimit, AppliedLimit, CylinderLimit, SettleTime, MaxDisabled, MaxChanges} \subseteq Nat

\* The updates a ramp takes for a distance.  The bound on the updates that are counted leaves
\* time for both ramps, from one end of their range to the other: a disabled actuator may leave
\* all its force to one other.
Ramp(distance) == (distance + MaxRateOfChange - 1) \div MaxRateOfChange
LargestSum == (MaxDisabled + 1) * ForceLimit
ASSUME SettleAssumption ==
    /\ LargestForce \in Nat \ {0}
    /\ \A c \in Watched : \A v \in Samples[c] :
          IF c = "single" THEN Abs(v.force) <= LargestForce
          ELSE \A percent \in Ratios, p \in Places : Abs(Tabled(c, v, percent)[p]) <= LargestForce
    /\ SettleTime > Ramp(2 * LargestForce) + Ramp(2 * LargestSum)

\* Read by every update; the others are set when their sample or command arrives.
SampledByUpdate == {"acceleration", "velocity", "elevation", "balance"}

-----------------------------------------------------------------------------
(* One update of a component and of the sum. *)

\* All forces take their step in proportion, the largest one MaxRateOfChange.
Approach(f) ==
    LET offset == [p \in Places |-> f.target[p] - f.current[p]]
        largest == Max({Abs(offset[p]) : p \in Places})
        Part(n) == IF n < 0 THEN -((-n * MaxRateOfChange) \div largest)
                            ELSE (n * MaxRateOfChange) \div largest
    IN  IF f.target # f.current /\ largest > MaxRateOfChange
        THEN [p \in Places |-> f.current[p] + Part(offset[p])]
        ELSE f.target

\* What is published as applied.
Coerced(forces, limit) ==
    LET coerced == [p \in Places |-> Coerce(-limit, limit, forces[p])]
    IN  IF coerced = forces THEN forces ELSE coerced

PostUpdateActions(f, target, limit) ==
    LET current == Approach([f EXCEPT !.target = target])
    IN  [target |-> target, current |-> current, applied |-> Coerced(current, limit)]

\* Actuators of which a force had to be clipped.
ClippedAt(f) == {ActuatorAt[p] : p \in {q \in Places : f.current[q] # f.applied[q]}}

\* Mutant: an actuator that is left out still counts among those that share its force.
ApplyForcesToAll(forces) ==
    LET Spread(axis, i) ==
            LET q == Row[ActuatorAt[<<axis, i>>]].quadrant
                off == {Index[axis][a] : a \in {b \in disabled : Row[b].quadrant = q}} \ {-1}
            IN  (IF i \in off THEN 0 ELSE forces[<<axis, i>>])
                + (IF i \in off THEN 0 ELSE Sum(axis, forces, off) \div Cardinality(Quadrant[axis][q]))
    IN  [p \in Places |-> Spread(p[1], p[2])]

\* The sum of what the components publish; what is meant for disabled actuators is
\* given to their quadrant.  The search for disabled ones among the actuators of an
\* axis compares the indices of that axis with the (z) indices of the disabled ones.
ApplyForcesByComponents(forces) ==
    LET Spread(axis, i) ==
            LET q == Row[ActuatorAt[<<axis, i>>]].quadrant
                skipped == {a \in disabled : Row[a].quadrant = q}
                off == {Index[axis][a] : a \in skipped} \ {-1}
                rest == Cardinality(Quadrant[axis][q]) - Cardinality(off)
            IN  (IF i \in off THEN 0 ELSE forces[<<axis, i>>])
                + (IF i \in skipped \/ off = {} THEN 0 ELSE Sum(axis, forces, off) \div rest)
    IN  [p \in Places |-> Spread(p[1], p[2])]

-----------------------------------------------------------------------------
(* The cylinders: both are along z in a single axis actuator, the secondary *)
(* one of a dual axis actuator is at 45 degrees.  Its force is counted here *)
(* by its component along an axis, 1 / sqrt 2 of the force in the code.     *)

\* Mutant: the orientation counts for the axis only.
LateralUnsigned(a, forces) == IF AxisOf(a) = "NA" THEN 0 ELSE At(forces, AxisOf(a), a)

Lateral(a, forces) == CASE Row[a].orientation \in {"PositiveX", "PositiveY"} -> At(forces, AxisOf(a), a)
                        [] Row[a].orientation \in {"NegativeX", "NegativeY"} -> -At(forces, AxisOf(a), a)
                        [] OTHER -> 0

\* Set points before they are clipped to the limits of the cylinders.
ForcesToSetpoints(forces) ==
    [a \in FAs |-> [primary |-> At(forces, "z", a) - Lateral(a, forces), secondary |-> Lateral(a, forces)]]
ClipCylinder(c) == [primary   |-> Coerce(-CylinderLimit, CylinderLimit, c.primary),
                    secondary |-> Coerce(-CylinderLimit, CylinderLimit, c.secondary)]

\* What ForceConverter makes of the forces that the cylinders report.
DAAPositive(c) == [lateral |-> c.secondary, z |-> c.secondary + c.primary]
DAANegative(c) == [lateral |-> -c.secondary, z |-> c.secondary + c.primary]
SAA(c) == [lateral |-> 0, z |-> c.primary]
ToMirror(a, c) == CASE Row[a].orientation \in {"PositiveX", "PositiveY"} -> DAAPositive(c)
                    [] Row[a].orientation \in {"NegativeX", "NegativeY"} -> DAANegative(c)
                    [] OTHER -> SAA(c)

-----------------------------------------------------------------------------
(* The checks of ForceController: actuators that are disabled are skipped,  *)
(* with the flag they have.                                                 *)

Enabled == FAs \ disabled

Uneven(a, forces) == LET n == Cardinality(Row[a].near)
                     IN  Abs(n * At(forces, "z", a) - Sum("z", forces, Row[a].near)) > n * NearLimit
CheckNearNeighbors(forces) == [a \in FAs |-> IF a \in Enabled THEN Uneven(a, forces) ELSE near[a]]

CheckMirrorWeight(forces) ==
    MapThenSumSet(LAMBDA p : Abs(forces[p]), Places) > WeightLimit

CheckMirrorMoments(fm) == \E m \in {fm.Mx, fm.My, fm.Mz} : Abs(m) > MomentLimit

CheckFarNeighbors(forces, fm) ==
    LET average == fm.ForceMagnitude \div Actuators
        tolerance == Max({1, average * FarFactor})
        Around(a, axis) == MapThenSumSet(LAMBDA b : At(forces, axis, b), Row[a].far \union {a})
        Magnitude(a) == Root[Around(a, "x")^2 + Around(a, "y")^2 + Around(a, "z")^2]
    IN  \E a \in Enabled : Abs(Magnitude(a) \div (Cardinality(Row[a].far) + 1) - average) > tolerance

\* ActiveOpticForceComponent also asks that its forces do not move the mirror.
ActiveOpticNetForce(fm) == \E n \in {fm.Fz, fm.Mx, fm.My} : Abs(n) > NetForceTolerance

-----------------------------------------------------------------------------
(* PreclippedForces: forces that had to be clipped are published when they  *)
(* changed, but not more often than every MaxDelay updates unless by much.  *)

\* Mutant: every change that is not published starts the delay again.
CheckChangesRestarting(forces) ==
    IF sent # forces /\ sinceSent >= MaxDelay
    THEN sent' = forces /\ sinceSent' = 1 /\ unsent' = FALSE
    ELSE /\ sinceSent' = IF sent # forces THEN 1 ELSE Min({sinceSent + 1, MaxDelay})
         /\ unsent' = (sent # forces)
         /\ UNCHANGED sent

CheckChanges(forces) ==
    LET changed == sent # forces
        Size(f) == ForcesAndMoments(f).ForceMagnitude
        much == sent # <<>> /\ Abs(Size(sent) - Size(forces)) > IgnoreChanges
    IN  IF ((changed \/ unsent) /\ sinceSent >= MaxDelay) \/ much
        THEN sent' = forces /\ sinceSent' = 1 /\ unsent' = FALSE
        ELSE /\ unsent' = (unsent \/ changed)
             /\ sinceSent' = Min({sinceSent + 1, MaxDelay})
             /\ UNCHANGED sent

-----------------------------------------------------------------------------
NoForces == [target |-> ZeroForces, current |-> ZeroForces, applied |-> ZeroForces]
NoCylinders == [a \in FAs |-> [primary |-> 0, secondary |-> 0]]

Init ==
    /\ watched \in Watched /\ sample \in Samples[watched] /\ ratio \in Ratios
    /\ watched # "elevation" => ratio = Max(Ratios)
    /\ disabled = {} /\ changes = 0
    /\ component = NoForces /\ final = NoForces /\ warned = {}
    /\ cylinders = NoCylinders /\ limited = {} /\ measured = NoCylinders
    /\ notified = {} /\ near = [a \in FAs |-> FALSE]
    /\ sent = <<>> /\ sinceSent = MaxDelay /\ unsent = FALSE /\ settled = 0 /\ still = 0

Change == changes < MaxChanges /\ changes' = changes + 1 /\ settled' = 0 /\ UNCHANGED still

\* A sensor has a new value, or a command or a sample of the telescope arrives.
Sample ==
    /\ Change
    /\ sample' \in Samples[watched]
    /\ component' = IF watched \in SampledByUpdate THEN component
                    ELSE [component EXCEPT !.target = Target(watched, sample', ratio)]
    /\ UNCHANGED <<watched, ratio, disabled, final, warned, cylinders, limited, measured,
                   notified, near, sent, sinceSent, unsent>>

\* The mirror is raised or lowered by another part of its weight.
Support ==
    /\ Change
    /\ watched = "elevation" /\ ratio' \in Ratios
    /\ UNCHANGED <<watched, sample, disabled>> /\ UNCHANGED outputs

\* No axis of a quadrant is left without an actuator: that divides by zero.
Switch ==
    /\ Change
    /\ \E a \in FAs : disabled' = IF a \in disabled THEN disabled \ {a} ELSE disabled \union {a}
    /\ Cardinality(disabled') <= MaxDisabled
    /\ \A axis \in Axes, q \in Quadrants :
        Quadrant[axis][q] = {} \/ Quadrant[axis][q] \ {Index[axis][a] : a \in disabled'} # {}
    /\ UNCHANGED <<watched, sample, ratio>> /\ UNCHANGED outputs

UpdateForces ==
    LET target == IF watched \in SampledByUpdate THEN Target(watched, sample, ratio) ELSE component.target
    IN  /\ component' = PostUpdateActions(component, target, ForceLimit)
        /\ final' = PostUpdateActions(final, ApplyForcesByComponents(component'.applied), AppliedLimit)
        /\ warned' = ClippedAt(final')
        /\ IF warned' = {} THEN UNCHANGED <<sent, unsent>> /\ sinceSent' = Min({sinceSent + 1, MaxDelay})
                           ELSE CheckChanges(final'.current)

Setpoints ==
    LET wanted == ForcesToSetpoints(final'.applied)
    IN  /\ cylinders' = [a \in FAs |-> ClipCylinder(wanted[a])]
        /\ limited' = {a \in FAs : cylinders'[a] # wanted[a]}

\* What the checks tell the safety controller of the forces of the component and of the sum.
Notifications(c, f, moments, cut, uneven) ==
    LET Checks == [ComponentClipping |-> ClippedAt(c) # {},
                   ActiveOpticNetForce |-> watched = "active" /\ ActiveOpticNetForce(ForcesAndMoments(c.applied)),
                   ForceClipping |-> ClippedAt(f) # {},
                   SafetyLimit |-> cut # {},
                   MomentLimit |-> CheckMirrorMoments(moments),
                   NearNeighborCheck |-> \E a \in Enabled : uneven[a],
                   MagnitudeLimit |-> CheckMirrorWeight(f.applied),
                   FarNeighborCheck |-> CheckFarNeighbors(f.applied, moments)]
    IN  {check \in DOMAIN Checks : Checks[check]}

ProcessAppliedForces ==
    \E f \in {final'} : \E moments \in {ForcesAndMoments(f.applied)} :
        /\ near' = CheckNearNeighbors(f.applied)
        /\ notified' = Notifications(component', f, moments, limited', near')

\* The enabled actuators get their set points and answer with the forces they
\* reached by the ones before.
Exchange == measured' = [a \in FAs |-> IF a \in Enabled THEN cylinders[a] ELSE measured[a]]

Update ==
    /\ UpdateForces /\ Setpoints /\ ProcessAppliedForces /\ Exchange
    /\ settled' = Min({settled + 1, SettleTime})
    /\ still' = IF UNCHANGED <<component, final, cylinders>> THEN Min({still + 1, MaxDelay}) ELSE 0
    /\ UNCHANGED <<watched, inputs>>

Next == Sample \/ Support \/ Switch \/ Update

Spec == Init /\ [][Next]_vars

-----------------------------------------------------------------------------
(* Properties. *)

\* What the tables ask for on an axis of an actuator, had nothing been clipped.
Demand == IF watched \in SampledByUpdate THEN Target(watched, sample, ratio) ELSE component.target

Unlimited == notified \intersect {"ComponentClipping", "ForceClipping", "SafetyLimit"} = {}

\* Every variable holds a value of its kind.
ForceKinds == [target : Forces, current : Forces, applied : Forces]
TypeOK ==
    /\ watched \in Watched /\ sample \in Samples[watched] /\ ratio \in Ratios
    /\ disabled \subseteq FAs /\ changes \in 0 .. MaxChanges
    /\ component \in ForceKinds /\ final \in ForceKinds
    /\ warned \subseteq FAs /\ limited \subseteq FAs
    /\ sinceSent \in 0 .. MaxDelay /\ unsent \in BOOLEAN
    /\ settled \in 0 .. SettleTime /\ still \in 0 .. MaxDelay

\* Forces that are asked for arrive: when an update after the last change finds nothing to
\* do, and unless a limit is in the way or an actuator is disabled, every actuator reports the
\* forces that the tables of the component have for it on each of its axes, through three
\* kinds of indices, two ramps and two conversions.
Arrived ==
    \A a \in FAs :
        /\ ToMirror(a, measured[a]).z = At(Demand, "z", a)
        /\ AxisOf(a) # "NA" => ToMirror(a, measured[a]).lateral = At(Demand, AxisOf(a), a)
ForcesArrive == still > 0 /\ settled > 0 /\ disabled = {} /\ Unlimited => Arrived

\* After a change the forces come to rest within SettleTime, and where they rest each quadrant
\* gets the z force meant for it, also with actuators disabled: only what is left when theirs is
\* divided, and the code's forces are not whole numbers, is missing.
Undivided(forces, q) ==
    LET off == {a \in disabled : Row[a].quadrant = q}
    IN  IF off = {} THEN 0 ELSE Sum("z", forces, off) % Cardinality(Quadrant["z"][q] \ off)
QuadrantForcesArrive ==
    /\ settled = SettleTime => still > 0
    /\ still > 0 /\ settled > 0 /\ Unlimited => \A demand \in {Demand}, q \in Quadrants :
           Sum("z", final.applied, Quadrant["z"][q]) + Undivided(demand, q)
           = Sum("z", demand, Quadrant["z"][q])

\* The sum of what a quadrant's enabled actuators exert on an axis is what was meant for it.
QuadrantsKeepTheirForces ==
    settled = SettleTime /\ Unlimited => \A demand \in {Demand} :
        \A axis \in Axes, q \in Quadrants :
            Sum(axis, final.applied, Quadrant[axis][q] \ {Index[axis][a] : a \in disabled})
            = Sum(axis, demand, Quadrant[axis][q])

\* Forces that stay clipped are known: what PreclippedForces last published is what is
\* asked for once that has not changed for MaxDelay updates, although small changes are held
\* back and larger ones may come at any time.
ClippedForcesArePublished ==
    still = MaxDelay /\ warned # {} => sent = final.current
=============================================================================
