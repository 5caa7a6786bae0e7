\* Every way to bind a plan and every way to write, called in the gateway and
\* in a CLI process, against profile edits, new clients, another configuration
\* file and changes made in DSM.
CONSTANTS
  c1 = c1
  c2 = c2
  f1 = f1
  f2 = f2
  f3 = f3
  gateway = gateway
  cli = cli
  Caller = {c1, c2}
  Process = {gateway, cli}
  Gateway = gateway
  Home <- RemoteAndLocal
  Nas = {n1, n2}
  Absent = Absent
  Field = {f1}
  Section <- Single
  Value = {0, 1}
  Request <- FieldOrSecret
  Service <- ByTarget
  MaxClients = 2
  MaxEdits = 1
  MaxPlans = 1
SPECIFICATION Spec
SYMMETRY NasSymmetry
INVARIANTS
  TypeOK
  FreshlyObserved
  TargetAsPlanned
CHECK_DEADLOCK FALSE
