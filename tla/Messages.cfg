CONSTANTS
    c1 = c1
    c2 = c2
    Channel = {c1, c2}
    Thread = {c1}
    MaxMessages = 2
    Scenarios <- MCScenarios
SPECIFICATION Spec
INVARIANTS PhaseInv NoDuplicate CountExact NobodyWaits
CHECK_DEADLOCK FALSE
