SPECIFICATION Spec
CONSTANTS
    Actuators = 6
    Row <- MCRow
    Watched <- MCWatched
    Samples <- MCSamples
    Coefficient <- MCCoefficient
    Ratios = {50, 100}
    MaxRateOfChange = 60
    ForceLimit = 120
    AppliedLimit = 110
    CylinderLimit = 100
    NetForceTolerance = 20
    NearLimit = 30
    WeightLimit = 400
    MomentLimit = 500
    FarFactor = 1
    IgnoreChanges = 40
    MaxDelay = 2
    LargestForce = 108
    SettleTime = 17
    MaxDisabled = 2
    MaxChanges = 2
INVARIANT
    ForcesArrive
    QuadrantForcesArrive
    ClippedForcesArePublished
CHECK_DEADLOCK FALSE
