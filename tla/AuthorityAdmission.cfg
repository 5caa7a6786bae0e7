\* Approvals, interactive grants and profile edits against two racing calls.
CONSTANTS
  n1 = n1
  n2 = n2
  Nas = {n1}
  TokenId = {t1}
  Secret = {s1}
  Client = {}
  ApprovalId = {a1, a2}
  Call = {c1, c2}
  Body = {b1}
  TokenInput <- BothModes
  None = None
  Never = Never
  MaxProfiles = 1
  MaxPending = 1
  ApprovalTTL = 1
  PendingTTL = 1
  AccessTTL = 1
  RefreshTTL = 2
  MaxRevision = 2
  MaxTime = 1
SPECIFICATION Spec
SYMMETRY Symmetry
INVARIANTS
  TypeOK
  AdmissionBacked
PROPERTIES
  AdmissionIsCurrent
  ApprovalsAreLedger
