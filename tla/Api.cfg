CONSTANTS
    Requests = {m1, p1, p2}
    MessageSend = {m1}
    MaxConcurrent = 1
    MaxRetries = 2
    Threshold = 2
    Limit = 1
SPECIFICATION FairRequestSpec
INVARIANTS SharedSound
PROPERTIES ResentOnlyWhenLimited RequestsEnd
CHECK_DEADLOCK FALSE
