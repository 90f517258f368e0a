\* Three documents, two job objects each, two workers, a queue of two: the
\* queue fills up, a task waits for the semaphore, scans overlap.
CONSTANTS
    d1 = d1
    d2 = d2
    d3 = d3
    c1 = c1
    c2 = c2
    h1 = h1
    Loop = Loop
    Docs <- MCDocs
    Copies <- MCCopies
    Handlers <- MCHandlers
    MaxWorkers = 2
    QueueCapacity = 2
SPECIFICATION FairSpec
INVARIANTS
    TypeOK
    OneLiveJobPerDoc
    TrackingExact
    WorkerBound
    ScanLockExact
PROPERTIES
    FirstComeFirstServed
    AcceptedJobStarts
