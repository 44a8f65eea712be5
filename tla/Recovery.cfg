SPECIFICATION RecoverySpec
CONSTANTS
    SeqMax = 2
    Deadlines <- MCDeadlines
    Ceilings <- MCCeilings
    Ceiling <- MCCeiling
    HoldTimes <- MCHoldTimes
    HoldMax = 4
    OriginGraces = {0}
    MaxBuffered = 3
    DedupeWindow = 3
    Legs = {l1, l2}
    NoLeg = NoLeg
    InitialDelay = 1
    MaxPendings = {3}
    MaxGapScans = {3}
    MaxPackets = 2
    MaxResends = 1
SYMMETRY LegSymmetry
PROPERTIES
    AsksOnlyForTheLost
    ResendsAreBounded
    RingStaysFresh
