SPECIFICATION PathSpec
CONSTANTS
    SeqMax = 3
    Deadlines <- MCDeadlines
    Ceilings <- MCCeilings
    Ceiling <- MCCeiling
    OriginGraces = {0}
    MaxBuffered = 4
    DedupeWindow = 4
    Legs = {l1, l2}
    NoLeg = NoLeg
    InitialDelay = 1
    MaxPendings = {1, 4}
    MaxGapScans = {1, 4}
SYMMETRY LegSymmetry
INVARIANTS
    PendingTracksGaps
PROPERTIES
    AsksWhatIsDue
