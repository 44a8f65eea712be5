SPECIFICATION RosterSpec
CONSTANTS
    Fixed = {"wan"}
    Phones = {"a", "b"}
    Announcements <- MCAnnouncements
    Edits <- MCEdits
    BaseTier = 1
    LeaseTicks = 1
INVARIANTS
    FollowsTheBond
