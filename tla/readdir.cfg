SPECIFICATION FairSpec
CONSTANTS
    PageWords = 40
    Count = 160
    VSNFS_MAXNAMLEN = 8
    Entry <- MCAny
    MaxEntries = 6
    UserSlots = 3
    Faults = TRUE
INVARIANTS
    TypeOK
    PageBound
    DecodeInBounds
    SeenIsPrefix
    EndMeansComplete
    NoEntryTwice
    PageReleased
PROPERTY FittingListingEnds
