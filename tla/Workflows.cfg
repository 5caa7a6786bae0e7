\* Every machine of MCWorkflows.  No symmetry: the run checks liveness.
CONSTANTS
  \* two sets are kept, and two restores queued
  Retention = 2
  MaxChanges = 1
  MaxQueued = 2
  MaxCrashes = 1
  MaxFileFaults = 2
  None = None
  \* two callers create a relation
  Applier = {1, 2}
  NoRelation = 0
  MaxAnswersLost = 2
  \* every dependency graph of three packages
  NPackages = 3
  Version = {1, 2}
  Shipped = {1}
  LocalVersion = 2
  Published <- AnyCatalogue
  MaxPlans = 2
  MaxDisturbances = 1
SPECIFICATION MCSpec
CHECK_DEADLOCK FALSE
INVARIANTS
  WorkflowsTypeOK
  ShelfSound
  ResultTruthful
  CredentialsAccounted
  ReportedSound
  InstallSafe
PROPERTIES
  RestoreIsAtomic
  WorkflowsEnd
