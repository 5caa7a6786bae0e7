\* Two callers patch what the plan observed.
CONSTANTS
  c1 = c1
  c2 = c2
  f1 = f1
  f2 = f2
  f3 = f3
  gateway = gateway
  cli = cli
  Caller = {c1, c2}
  Process = {gateway, cli}
  Gateway = gateway
  Home <- BothRemote
  Nas = {n1}
  Absent = Absent
  Field = {f1, f2}
  Section <- Pair
  Value = {0, 1}
  Request <- TwoFields
  Service <- FromObservation
  MaxClients = 1
  MaxEdits = 0
  MaxPlans = 2
SPECIFICATION Spec
PROPERTY UnspecifiedKept
CHECK_DEADLOCK FALSE
