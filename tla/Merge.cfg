CONSTANTS
    Threads = 2
    MaxMessages = 2
    Scenarios <- MCScenarios
SPECIFICATION Spec
INVARIANTS MergeInv NoDuplicate Accounted
CHECK_DEADLOCK FALSE
