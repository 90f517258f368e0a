\* Two workers whose operations on one file do not overlap, a crash at any
\* moment.  The runs are bounded: the system stops.
CONSTANTS
    w1 = w1
    w2 = w2
    d1 = d1
    d2 = d2
    NoDoc = NoDoc
    Empty = Empty
    Garbage = Garbage
    NoContent = NoContent
    Workers <- MCTwoWorkers
    Docs <- MCDocs
    MaxRuns = 2
    MaxCrashes = 1
CHECK_DEADLOCK FALSE
SPECIFICATION Spec
CONSTRAINT Serial
INVARIANTS
    TypeOK
    KeptWhileReadable
PROPERTIES
    AtomicStore
