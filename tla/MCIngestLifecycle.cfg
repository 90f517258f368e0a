\* Two pods, two versions, two faults, runs of any length (EventuallyCurrent: runs
\* within the stale limit).  A behaviour is followed up to the first state in
\* which two runs are past the claim: MCClaimRace.cfg is about those.
CONSTANTS
    p1 = p1
    p2 = p2
    s1 = s1
    s2 = s2
    Pods <- MCTwoPods
    SectionIds <- MCSectionIds
    SectionsOf <- MCSectionsOf
    SecondOf <- MCDistinctSeconds
    MaxVersion = 2
    MaxFaults = 2
SPECIFICATION FairSpec
CONSTRAINT ExclusiveIngest
INVARIANTS
    TypeOK
    IndexedMeansWhole
PROPERTIES
    ReadersSeeOneVersion
    EventuallyCurrent
