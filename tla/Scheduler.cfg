SPECIFICATION Spec
CONSTANTS
    Paths = {p1, p2, p3}
    Deployments <- MCDeployments
    Fanout = 2
    Sustained = 2
    Unit = 6
    Losses = {"low", "mid", "high", "unknown"}
SYMMETRY PathSymmetry
CONSTRAINT Proven
INVARIANTS
    SchedulerConsistent
    SpreadsSmoothly
    DuplicatesWell
PROPERTIES
    WideningIsEarned
