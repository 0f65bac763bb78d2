SPECIFICATION TimedSpec
CONSTANTS
  Target <- MCTarget
  Command <- MCCommand
  Tool <- MCTool
  Signal = {"SIGINT", "SIGTERM"}
  Jobs <- MCJobs
  Poll = 2
  Delay = 5
INVARIANTS
  NoCommandLeftRunning
CHECK_DEADLOCK FALSE
