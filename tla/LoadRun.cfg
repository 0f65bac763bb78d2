SPECIFICATION Spec
CONSTANTS
  Depth = 4
  Inputs <- MCInputs
INVARIANTS
  MergeIsPatch
  VariantsPartition
  VerdictIsExact
  AcceptedRuns
  NoHollowTarget
  ShellIsAround
PROPERTIES
  LoadingEnds
CHECK_DEADLOCK FALSE
