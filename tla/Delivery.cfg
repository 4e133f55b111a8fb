CONSTANTS
    d1 = d1
    d2 = d2
    Ref = {r1}
    Render = {d1, d2}
    PartsOf <- MCPartsOf
    MaxTries = 2
    MaxBegins = 3
    NoReceipt = NoReceipt
SPECIFICATION FairSpec
INVARIANTS NoDuplicate OutcomesTrue EvidenceKept
PROPERTIES ResentOnlyAfterRefusal ImplementsAtMostOnce CallsEnd
CHECK_DEADLOCK FALSE
