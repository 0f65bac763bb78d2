SPECIFICATION Spec
CONSTANTS
  Channel <- MCChannel
  Default = "stable"
  MaxVersion = 3
  MaxCalls = 1
  MaxWaiting = 3
INVARIANTS
  ToolchainUsable
  NeverAskedTwice
  ExitTellsRun
  RelaunchAdvances
  UpdateReported
PROPERTIES
  ConsentGiven
  UnattendedEnds
CHECK_DEADLOCK FALSE
