\* Two runs of three sections, two permits.
CONSTANTS
    r1 = r1
    r2 = r2
    s1 = s1
    s2 = s2
    s3 = s3
    Runs <- MCRuns
    Sections <- MCSections
    MaxConcurrency = 2
SPECIFICATION FairSpec
INVARIANTS
    TypeOK
    PermitsExact
    CaptionedWhole
PROPERTIES
    CaptioningEnds
