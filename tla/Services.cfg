SPECIFICATION ServicesSpec
\* A hub that was told to stop stops, and so does its worker.
CHECK_DEADLOCK FALSE
CONSTANTS
    MonthDays <- MCMonthDays
    FirstDay = 2
    BillingDays = {1, 3}
    FlushEvery = 2
    MaxBytes = 1
    QueueMax = 3
    BatchMax = 2
    MaxItems = 6
    Routers = {r1, r2, r3}
    Misconfigured = {r3}
    Phones = {p1}
    PollInterval = 1
    PollTimeout = 2
    StaleCycles = 2
    RetainFor = 2
    PortLists <- MCPortLists
    TransportPort = 9
    Claims <- MCClaims
    ClientNames = {c1}
    PathNames = {p1, p2}
    MaxKeys = 2
    MaxServerKeys = 2
    Absent = Absent
    Broken = Broken
    Hosts = {1, 2, 3}
    Codes = {11, 12, 13, 14}
    MaxPending = 2
    RequestTtl = 1
    MaxGrants = 1
    MaxKey = 3
    CertDays = 2
INVARIANTS
    ServicesTypeOK
    BooksSound
    
    CredentialsSound

    
