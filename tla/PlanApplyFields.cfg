\* Two remote calls patch switches of the same and of different sections, each
\* of which DSM may carry out in part, while a DSM user changes one.
CONSTANTS
  c1 = c1
  c2 = c2
  f1 = f1
  f2 = f2
  f3 = f3
  gateway = gateway
  cli = cli
  Caller = {c1, c2}
  Process = {gateway, cli}
  Gateway = gateway
  Home <- BothRemote
  Nas = {n1}
  Absent = Absent
  Field = {f1, f2, f3}
  Section <- PairAndOne
  Value = {0, 1}
  Request <- SomeFields
  Service <- ByFields
  MaxClients = 1
  MaxEdits = 1
  MaxPlans = 2
SPECIFICATION Spec
SYMMETRY CallerSymmetry
INVARIANT AppliedIsTrue
PROPERTY UnspecifiedKept
CHECK_DEADLOCK FALSE
