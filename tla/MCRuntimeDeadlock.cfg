\* A model update that takes its locks in the inverse order, against a switch to MCP.
CONSTANTS
  Users = {h1}
  Switchers = {s1}
  NoOne = NoOne
  DefaultMode = "picoclaw"
  Expectations <- MCExpectations
  Requests <- MCRequests
  Edits = {}
  Restorers = {}
  HandlerJobs = {"start", "model"}
  SwitchJobs = {"mcp", "picoclaw"}
  Faults = FALSE
SPECIFICATION FairLifecycleSpec
PROPERTY TransitionEnds
