\* Every machine of MCSurfaces, at the bounds where its limits are met.
CONSTANTS
  \* the queue of pending approval requests at its limit
  n1 = n1
  n2 = n2
  Nas = {n1}
  TokenId = {t1}
  Secret = {s1}
  Client = {}
  ApprovalId = {}
  Call = {c1, c2}
  Body = {b1, b2, b3}
  TokenInput <- Planning
  None = None
  Never = Never
  MaxProfiles = 1
  MaxPending = 2
  ApprovalTTL = 1
  PendingTTL = 2
  AccessTTL = 1
  RefreshTTL = 1
  MaxRevision = 1
  MaxTime = 2
  \* one client, two things out of the ordinary
  MaxEach = 1
  MaxAttempts = 3
  MaxFaults = 2
  MaxCalls = 2
  \* two operators of the firewall
  Operator = {o1, o2}
  MaxEffort = 3
  \* the limits of the HTTP server
  Bearer = {k1, k2}
  McpSession = {m1, m2}
  HttpRequest = {h1, h2}
  RateLimit = 2
  RateWindow = 2
  MaxWindows = 1
  MaxBound = 1
  MaxConcurrent = 1
  SessionTTL = 2
  MaxEdgeTime = 5
  MaxBinderTime = 2
  NoSession = NoSession
  \* administrators
  AdminCall = {a1, a2}
  MaxAdminSessions = 2
  AdminSessionTTL = 2
  MaxSignIns = 3
  MaxPasswords = 3
  MaxAdminTime = 2
  \* one profile of the vault
  VaultURL = {w1, w2}
  Account = {u1, u2}
  Enrolment = {e1}
  MaxProfileIds = 2
  MaxVaultRevision = 4
  MaxSecretIds = 2
  NoProfile = NoProfile
  \* bytes near the limits of volumes, pools and machine words
  Gib = 2
  MinimumSize = 4
  WordMax = 11
  Capacity = {0, 4, 5, 8, 11}
  Limit = {0, 5}
  AskedSize = {0, 4, 5, 6, 8}
  MaxElsewhere = 1
SPECIFICATION MCSpec
CHECK_DEADLOCK FALSE
INVARIANTS
  SurfacesTypeOK
  RequestsBounded
  EffectsAuthorized
  CarriedOutOnce
  SelectionSound
  NeverLockedOut
  EdgeSafe
  OldPasswordRetired
  VaultSafe
  StorageSafe
PROPERTIES
  OldestRequestYields
  AdminCommits
  PasswordVerifiedHere
