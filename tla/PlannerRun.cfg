SPECIFICATION Spec
CONSTANTS
  Name <- MCName
  Requests <- MCRequests
INVARIANTS
  SegmentInOrder
  SegmentComplete
  PlanHonoursDependencies
  PlanRunsWhatRemains
PROPERTIES
  PlanningEnds
CHECK_DEADLOCK FALSE
