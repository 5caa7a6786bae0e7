\* One gateway process: requests against profile mutations.
CONSTANTS
  p1 = p1
  p2 = p2
  r1 = r1
  r2 = r2
  a1 = a1
  a2 = a2
  Process = {p1}
  Request = {r1, r2}
  Admin = {a1}
  Home <- GatewayHome
  Client = {c1, c2, c3, c4}
  Sid = {s1, s2, s3, s4, s5, s6}
  None = None
  Operation <- GatewayOperations
  HasPassword = FALSE
  MaxRevision = 3
  MaxFaults = 2
  MaxOperations = 2
SPECIFICATION Spec
PROPERTIES
  CallsReturn
