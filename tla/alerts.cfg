SPECIFICATION Spec
CONSTANTS
  btc = btc  why = why  None = None
  Users = {1, 2}
  Chats = {k1, k2}
  Codes = {c1}
  Webhooks = {h1, h2}
  CodeTtl = 1
  MaxTime = 1
  Markets = {btc}
  Evidence = {why}
  Scans <- MCScans
  PageSize = 1
  CustomerAlerts = TRUE
SYMMETRY Symmetry
INVARIANTS SentWhileEligible EachLinkedUserOnce
PROPERTIES ReplayBindsNothing
CHECK_DEADLOCK FALSE
