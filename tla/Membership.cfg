SPECIFICATION MembershipSpec
CONSTANTS
    GateLegs = {"a", "b"}
    LegTier <- MCLegTier
    JoinStreakMin = 3
    MissPenalty = 2
    ProbationAfter = 2
    Rtts = {20, 240, 480}
    Losses = {0, 8, 20}
    LossStreak = 2
    RiseWindow = 3
    MaxRises = 1
    LegConfigWeight = 100
    CostRank = 1
    Grain = 80
    ShedLegs = {a, b}
    Samples = {1, 4, 10}
    Floor = 2
    ShedRatio = 3
    SpreadHalves = 3
    Fall <- MCFall
    LinkLegs = {a, b}
    Devices = {d1, d2}
    Homes = {h1}
    Relayed = {b}
    LanDevices = {d2}
    MaxPathId = 1
    Nobody = Nobody
    Fixed = {"wan"}
    Phones = {"a"}
    Announcements <- MCAnnouncements
    Edits <- MCEdits
    BaseTier = 1
    LeaseTicks = 1
INVARIANTS
    MembershipTypeOK
    LegsJoinFairly
    IdStandsForOneLeg
    
    RosterSettles
PROPERTIES
    ReadmissionIsEarned
