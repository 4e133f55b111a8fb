CONSTANTS
    c1 = c1
    c2 = c2
    k1 = k1
    k2 = k2
    e1 = e1
    e2 = e2
    p1 = p1
    Role = {r1}
    Channel = {c1, c2}
    Emoji = {m1}
    Avatar = {a1}
    Category = {k1, k2}
    CategoryOf <- MCCategoryOf
    Reaction = {e1}
    Pin = {p1}
    Home <- MCHome
    MaxReactions = 1
    Continuations = {"resume"}
    MaxRuns = 2
    MaxEnds = 1
    MaxLosses = 0
SPECIFICATION Spec
INVARIANT ReportedIsSent
CHECK_DEADLOCK FALSE
