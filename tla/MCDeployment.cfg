\* Two replicas, one document, three faults.  It comes to rest when the document
\* is indexed and no fault is left.
CONSTANTS
    p1 = p1
    p2 = p2
    d1 = d1
    NoDoc = NoDoc
    Pods <- MCPods
    Docs <- MCDocs
    MaxFaults = 3
CHECK_DEADLOCK FALSE
SPECIFICATION FairSpec
INVARIANTS
    TypeOK
    ServiceAnswersAlike
    
PROPERTIES
    EventuallyServed
