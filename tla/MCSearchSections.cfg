\* Two threads, three queries for a cache of two, every content of a store of
\* up to four sections.
CONSTANTS
    t1 = t1
    t2 = t2
    q1 = q1
    q2 = q2
    q3 = q3
    s1 = s1
    s2 = s2
    s3 = s3
    s4 = s4
    NoQuery = NoQuery
    Threads <- MCThreads
    Queries <- MCQueries
    Sections <- MCSections
    Score <- MCScore
    CacheSize = 2
    Threshold = 50
    TopKs = {1, 2}
SPECIFICATION HSpec
INVARIANTS
    TypeOK
    CacheBound
PROPERTIES
    EvictionExact
    LeastRecentlyUsed
    ResultsAreBest
