CONSTANTS
    c1 = c1
    i1 = i1
    e1 = e1
    k1 = k1
    k2 = k2
    Role = {r}
    Channel = {c1}
    Index = {i1}
    Emoji = {e1}
    Category = {k1, k2}
    UserCategory = {o}
    Named = {k1}
    CategoryOf <- MCCategoryOf
    Length <- MCLength
    EmojiIn <- MCEmojiIn
    Busy = {i1}
    MaxRuns = 2
    MaxLosses = 1
    MaxFaults = 0
    MaxDeaths = 1
SPECIFICATION Spec
INVARIANTS RerunContinues
CHECK_DEADLOCK FALSE
