CONSTANTS
    a = a
    b = b
    Source = {a, b}
    FirstLive = {a, b}
    FirstPosts <- MCPosts
    MaxStages = 6
    MaxTrouble = 1
    MaxRuns = 3
SPECIFICATION Spec
INVARIANTS PartialNeverReused
CHECK_DEADLOCK FALSE
