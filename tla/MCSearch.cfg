CONSTANTS
    Jobs = {1, 2}
    None = 0
    MaxCrashes = 1
    MaxSearches = 2
    Slots = {1}
    MaxEvents = 2
SPECIFICATION FairSpec
INVARIANTS
    DownloadIsWhole
    OffersLastExport
PROPERTIES
    PollingEnds
CHECK_DEADLOCK FALSE
