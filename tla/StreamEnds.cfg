SPECIFICATION EndsSpec
CONSTANTS
    Baseline = 250
    ConfiguredMax = Unset
    Unset = Unset
    HardCeiling = 1000
    Multiplier = 4
    Step = 50
    Sustained = 5
    EvalInterval = 2
    ConfiguredHold = 400
    NackDelay = 60
    ProbeMargin = 20
    MinHoldMargin = 20
    Rtts <- MCRtts
    Skews <- MCSkews
    MaxRestarts = 1
    TakeoverIdle = 1
    MaxOutstanding = 1
    ProbeIds = {1, 2}
    Probers <- BothEnds
    MaxInFlight = 2
INVARIANTS
    AdaptInStep
    GateInStep
PROPERTIES
    NarrowsOnlyWhenCalm
    HeardStreamStays
    WindowsRelax
    EndsReconverge
