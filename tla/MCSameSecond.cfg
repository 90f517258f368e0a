\* One pod without any fault; both uploads fall within one second.
CONSTANTS
    p1 = p1
    p2 = p2
    s1 = s1
    s2 = s2
    Pods <- MCOnePod
    SectionIds <- MCSectionIds
    SectionsOf <- MCSectionsOf
    SecondOf <- MCSameSecond
    MaxVersion = 2
    MaxFaults = 0
SPECIFICATION FairSpec
PROPERTIES
    ChangedFileIsReindexed
