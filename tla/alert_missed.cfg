SPECIFICATION Spec
CONSTANTS
  btc = btc  why = why  None = None
  Users = {1}
  Chats = {k1, k2}
  Codes = {c1}
  Webhooks = {h1}
  CodeTtl = 1
  MaxTime = 1
  Markets = {btc}
  Evidence = {why}
  Scans <- MCScans
  PageSize = 1
  CustomerAlerts = FALSE
SYMMETRY Symmetry
PROPERTIES RisesAnnounced
CHECK_DEADLOCK FALSE
