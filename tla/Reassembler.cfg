SPECIFICATION FairSpec
CONSTANTS
    SeqMax = 4
    Deadlines <- MCDeadlines
    OriginGraces = {0, 1}
    MaxBuffered = 2
    DedupeWindow = 4
CONSTRAINT BoundedArrivals
INVARIANTS
    InOrderOnce
    BufferConsistent
PROPERTIES
    RefinesService
    NoEarlyAbandon
    Released
