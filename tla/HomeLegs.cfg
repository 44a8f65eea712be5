SPECIFICATION FairSpec
CONSTANTS
    Legs = {1}
    Listener = 0
    NoAddress = NoAddress
    ProbeInterval = 1
    StanddownAge = 2
    StanddownCount = 2
    SilentAge = 3
    MaxOutstanding = 3
PROPERTY LegFollowsHearing HeardLegCarries
