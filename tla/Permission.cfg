CONSTANTS
    r = r
    c1 = c1
    c2 = c2
    Role = {r}
    Channel = {c1, c2}
    Everyone = everyone
    Needs <- MCNeeds
    MaxSends = 2
    MaxFaults = 1
    MaxIntrusions = 2
SPECIFICATION Spec
INVARIANTS RuntimeInv ContentUnderProof ProofsCurrent
CHECK_DEADLOCK FALSE
