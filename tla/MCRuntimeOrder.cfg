\* Starts, which take the lease first, against a stop and a switch to MCP that may fail.
CONSTANTS
  Users = {h1}
  Switchers = {s1, s2}
  NoOne = NoOne
  DefaultMode = "picoclaw"
  Expectations <- MCExpectations
  Requests <- MCRequests
  Edits = {}
  Restorers = {}
  HandlerJobs = {"start"}
  SwitchJobs = {"mcp", "stop"}
  Faults = TRUE
SPECIFICATION FairLifecycleSpec
PROPERTY TransitionEnds
