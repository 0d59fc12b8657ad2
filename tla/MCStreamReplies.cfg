SPECIFICATION FairSpec
CONSTANTS
    Ids <- MCIds
    Starts <- MCStarts
    Bodies <- MCBodies
    Safe = 3
    Orders = {0, 3}
    Mine = "mine"
    Other = "other"
    MaxCount = 2
    MaxTaken = 3
    MaxCrashes = 1
INVARIANTS EveryEntryOnce HeldIsPending EntriesArrive InfoByName ThrowsOnlyFor
PROPERTIES HistoryRecovers
