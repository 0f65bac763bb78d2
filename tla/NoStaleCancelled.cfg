SPECIFICATION Spec
CONSTANTS
  Target <- MCTarget
  Command <- MCCommand
  Tool <- MCTool
  Signal = {"SIGINT"}
  Jobs <- MCBrief
INVARIANTS
  NoStaleCancelled
CHECK_DEADLOCK FALSE
