\* One outage at a start is enough; no fault is needed.
CONSTANTS
    p1 = p1
    p2 = p2
    d1 = d1
    NoDoc = NoDoc
    Pods <- MCPods
    Docs <- MCDocs
    MaxFaults = 0
CHECK_DEADLOCK FALSE
SPECIFICATION Spec
INVARIANTS
    IndexedIsSearchable
