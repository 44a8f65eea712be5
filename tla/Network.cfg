SPECIFICATION NetworkSpec
CONSTANTS
    first_leg = a
    second_leg = b
    Hops = {h1, h2}
    NoRoute = NoRoute
    EnterAfter = 2
    RecoverAfter = 2
    KickInterval = 1
    ForceEvery = 3
    ProveWindow = 3
    DeliverStale = 2
    MinPayloads = 2
    MinBulk = 1
    MaxDelivered = 4
    UpLegs = {u1}
    StaleAfter = 1
    HealCooldown = 1
    MaxEvents = 1
    TunnelLegs <- MCTunnelLegs
    Uplinks = {d1, d2}
    NoUplink = NoUplink
    RebuildEvery = 3
    ShapedLegs = {a, b}
    LegRates = {0, 8}
    MinRate = 2
    UciRate = 5
    FractionPct = 85
    HysteresisPct = 20
    Publics = {p1, p2}
    Private = Private
    NoAddress = NoAddress
    AddressTtl = 2
    MaxPass = 2
    ActiveInterval = 1
    IdleInterval = 8
    StaleTime = 12
    IdleAfter = 3
    NeverTx = 3
    MaxFails = 3
    StableMin = 2
    MaxRearms = 2
    RearmWindow = 2
    SoleRearmAfter = 2
INVARIANTS
    NetworkTypeOK
    UplinkLossHandled
    
    HomeStaysInReach
    WatchdogSound
PROPERTIES
    DefaultRouteSound
    
