CONSTANTS
    c1 = c1
    c2 = c2
    k1 = k1
    k2 = k2
    e1 = e1
    e2 = e2
    p1 = p1
    Role = {r1}
    Channel = {c1, c2}
    Emoji = {m1}
    Avatar = {a1}
    Category = {k1, k2}
    CategoryOf <- MCCategoryOf
    Reaction = {e1, e2}
    Pin = {p1}
    Home <- MCHome
    MaxReactions = 1
    Continuations = {"resume", "incremental"}
    MaxRuns = 2
    MaxEnds = 1
    MaxLosses = 1
SPECIFICATION FairSpec
INVARIANTS MigrationInv PastChannels
PROPERTIES NothingTakenBack RunEnds
CHECK_DEADLOCK FALSE
