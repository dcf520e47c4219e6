SPECIFICATION FlowSpec
CONSTANTS
  MaxFlows = 2
  MaxProbes = 2
  GitCreateEnabled = TRUE
CHECK_DEADLOCK FALSE
INVARIANTS WorkspaceOfCurrentFlow RuntimeGated OneStepPerFlow CwdReadyIsCurrent
PROPERTIES RequestReachesTerminal
