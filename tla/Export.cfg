CONSTANTS
    a = a
    b = b
    Source = {a, b}
    FirstLive = {a, b}
    FirstPosts <- MCPosts
    MaxStages = 6
    MaxTrouble = 2
    MaxRuns = 3
SPECIFICATION FairSpec
INVARIANTS ExportInv WitnessTrue NothingLost
PROPERTIES RunCompletes
CHECK_DEADLOCK FALSE
