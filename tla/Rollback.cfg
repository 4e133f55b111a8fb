CONSTANTS
    Rollback = rb
    Migrations = {m1}
    MaxStarts = 3
    MaxFaults = 1
    Mapped = {a, x}
    Elsewhere = {x}
    Untracked = {u}
    Role = {r}
    Emoji = {e}
    Category = {k}
    OtherCategory = {o}
    MaxConcurrentRequests = 2
SPECIFICATION FairSpec
INVARIANTS RollbackInv Exclusive
PROPERTIES RollbackEnds
CHECK_DEADLOCK FALSE
