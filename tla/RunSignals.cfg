SPECIFICATION Spec
CONSTANTS
  Target <- MCTarget
  Command <- MCCommand
  Tool <- MCTool
  Signal <- MCSignal
  Jobs <- MCBrief
INVARIANTS
  OneLateSpawn
  OneSignalEverywhere
PROPERTIES
  SignalEndsProcess
  RunEnds
CHECK_DEADLOCK FALSE
