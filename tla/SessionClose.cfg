\* What closing a client does to the stored session.
CONSTANTS
  p1 = p1
  p2 = p2
  r1 = r1
  r2 = r2
  a1 = a1
  a2 = a2
  Process = {p1, p2}
  Request = {r1, r2}
  Admin = {a1, a2}
  Home <- KeyringHome
  Client = {c1, c2, c3, c4}
  Sid = {s1, s2, s3, s4, s5, s6, s7}
  None = None
  Operation <- KeyringOperations
  HasPassword = TRUE
  MaxRevision = 1
  MaxFaults = 1
  MaxOperations = 2
SPECIFICATION Safety
PROPERTIES
  StoredSurvivesClose
