\* Two workers, one run per document.  The runs are bounded: the system stops.
CONSTANTS
    w1 = w1
    w2 = w2
    d1 = d1
    d2 = d2
    NoDoc = NoDoc
    Empty = Empty
    Garbage = Garbage
    NoContent = NoContent
    Workers <- MCTwoWorkers
    Docs <- MCDocs
    MaxRuns = 1
    MaxCrashes = 0
CHECK_DEADLOCK FALSE
SPECIFICATION Spec
INVARIANTS
    StatusAndHistoryKept
