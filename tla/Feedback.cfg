SPECIFICATION ServiceSpec
CONSTANTS
  Handlers = {h1, h2}
  Sources = {s1, s2}
  Contents = {bug, idea}
  Ideas = {idea}
  Emails = {idea}
  Nobody = nobody
  Probe = probe
  Hour = 1
  Day = 2
  ChallengeLimit = 2
  HourLimit = 2
  DayLimit = 2
  GlobalLimit = 2
  ReceiptRetention = 2
  ContactRetention = 3
  CutoffMargin = 0
  MaxRequests = 2
  MaxSends = 3
  MaxTime = 2
  MaxEvents = 2
INVARIANTS ServiceInv NoDuplicate QuotaExact
CHECK_DEADLOCK FALSE
SYMMETRY Symmetric
