SPECIFICATION Spec
CONSTANTS
  None = None
  Commands = {c1, c2}
  Digests = {d1, d2}
  ApprovalIds = {a1, a2}
  GateTtl = 2
  ApprovalTtl = 1
  MaxTime = 3
SYMMETRY Symmetry
INVARIANTS TypeOK ApprovedBeforePosted AuditTable VerifiedMeansLanded OneSubmissionAlone AttemptStaysSpentAlone
CHECK_DEADLOCK FALSE
