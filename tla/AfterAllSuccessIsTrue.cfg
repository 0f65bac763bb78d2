SPECIFICATION Spec
CONSTANTS
  Target <- MCTarget
  Command <- MCCommand
  Tool <- MCTool
  Signal = {"SIGINT"}
  Jobs <- MCBrief
INVARIANTS
  AfterAllSuccessIsTrue
CHECK_DEADLOCK FALSE
