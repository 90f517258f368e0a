\* Four calls, two per text, batches of two, a cache of one entry and two
\* timer tasks.
CONSTANTS
    k1 = k1
    k2 = k2
    c1 = c1
    c2 = c2
    t1 = t1
    t2 = t2
    Closer = Closer
    NoOne = NoOne
    Keys <- MCKeys
    Copies <- MCCopies
    Timers <- MCTimers
    MaxBatch = 2
    CacheSize = 1
SPECIFICATION FairSpec
INVARIANTS
    TypeOK
    NoFutureLost
    PendingWillBeFlushed
    NoForeignCancel
    SizesKept
PROPERTIES
    CloseDrains
    EveryCallEnds
