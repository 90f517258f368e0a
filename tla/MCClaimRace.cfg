\* Two pods, one version, one fault; runs end within the stale limit, so that no
\* takeover of a run that still goes on is mistaken for the race.
CONSTANTS
    p1 = p1
    p2 = p2
    s1 = s1
    s2 = s2
    Pods <- MCTwoPods
    SectionIds <- MCSectionIds
    SectionsOf <- MCSectionsOf
    SecondOf <- MCDistinctSeconds
    MaxVersion = 1
    MaxFaults = 1
SPECIFICATION MCPromptSpec
PROPERTIES
    ClaimIsAtomic
