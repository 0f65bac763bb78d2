SPECIFICATION Spec
CONSTANTS
  Channel <- MCChannel
  Default = "stable"
  MaxVersion = 2
  MaxCalls = 1
  MaxWaiting = 3
INVARIANTS
  NewVersionDoesTheWork
CHECK_DEADLOCK FALSE
