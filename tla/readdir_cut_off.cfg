SPECIFICATION FairSpec
CONSTANTS
    PageWords = 24
    Count = 96
    VSNFS_MAXNAMLEN = 8
    Entry <- MCPlain
    MaxEntries = 3
    UserSlots = 5
    Faults = FALSE
PROPERTY ListingEnds
