SPECIFICATION Spec
CONSTANTS
  Name <- MCName
  Requests <- MCRequests
INVARIANTS
  ExcludedDependencyFails
CHECK_DEADLOCK FALSE
