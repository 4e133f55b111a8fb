CONSTANTS
    c1 = c1
    i1 = i1
    e1 = e1
    k1 = k1
    k2 = k2
    Role = {r, s}
    Channel = {c1}
    Index = {i1}
    Emoji = {e1}
    Category = {k1, k2}
    UserCategory = {o}
    Named = {k1}
    CategoryOf <- MCCategoryOf
    Length <- MCLength
    EmojiIn <- MCEmojiIn
    Busy = {i1}
    MaxRuns = 3
    MaxLosses = 2
    MaxFaults = 1
    MaxDeaths = 1
SPECIFICATION FairSpec
INVARIANTS RepairInv OnePost RepairComplete
PROPERTIES RepairEnds
CHECK_DEADLOCK FALSE
