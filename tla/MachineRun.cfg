SPECIFICATION MCSpec
CONSTANTS
  Proc = {"p1", "p2", "p3"}
  Run = {"p1", "p2"}
  Key = {"k1", "k2", "forged"}
  Genuine = {"k1", "k2"}
  Tool = {"matrix", "jq", "git", "z"}
  MaxVersion = 2
  MaxMeddling = 1
  Commands <- MCCommands
  Works <- MCWorks
  Declared <- MCDeclared
  Nature <- MCNature
INVARIANTS
  LicenseDecision
  OneClientId
  RecordsTrue
  ToolsAreThere
PROPERTIES
  LicenseKept
  InstallIsNeeded
  EnsuringEnds
CHECK_DEADLOCK FALSE
