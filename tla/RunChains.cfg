SPECIFICATION Spec
CONSTANTS
  Target <- MCTarget
  Command <- MCCommand
  Tool <- MCTool
  Signal = {"SIGINT"}
  Jobs <- MCJobs
INVARIANTS
  TypeOK
  RunsInPlanOrder
  StopsAtFailure
  ToolsBeforeCommand
  ExitCodeExplained
  EventsPairUp
  AfterAllAgreesWithExit
PROPERTIES
  ImplementsChain
CHECK_DEADLOCK FALSE
