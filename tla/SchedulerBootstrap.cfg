SPECIFICATION Spec
CONSTANTS
    Paths = {p1, p2}
    Deployments <- MCSprayOnly
    Fanout = 2
    Sustained = 2
    Unit = 6
    Losses = {"unknown"}
SYMMETRY PathSymmetry
INVARIANT SpreadsSmoothly
