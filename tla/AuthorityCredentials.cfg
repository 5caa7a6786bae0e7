\* Rotation, expiry, revocation and OAuth renewal while NAS come and go.
CONSTANTS
  n1 = n1
  n2 = n2
  Nas = {n1, n2}
  TokenId = {t1, t2}
  Secret = {s1, s2, s3, s4}
  Client = {k1}
  ApprovalId = {}
  Call = {}
  Body = {b1}
  TokenInput <- Expiring
  None = None
  Never = Never
  MaxProfiles = 2
  MaxPending = 1
  ApprovalTTL = 1
  PendingTTL = 1
  AccessTTL = 1
  RefreshTTL = 2
  MaxRevision = 3
  MaxTime = 2
SPECIFICATION Spec
SYMMETRY Symmetry
INVARIANTS
  AllowlistKeepsIncarnation
  DigestIndexExact
  RefreshChainSound
