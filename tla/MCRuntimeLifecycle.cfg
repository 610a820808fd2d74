\* A handler, the startup goroutine and two switchers (see MCScenes). The model
\* update and the startup goroutine can deadlock with a switch to MCP (the run
\* runtime_deadlock is about that), so a state without a successor is not an error.
CONSTANTS
  Users = {h1, h2}
  Switchers = {s1, s2}
  NoOne = NoOne
  DefaultMode = "picoclaw"
  Expectations <- MCExpectations
  Requests <- MCRequests
  Edits = {}
  Restorers = {h2}
  HandlerJobs = {"start", "model", "profile"}
  SwitchJobs = {"mcp", "picoclaw", "off", "stop"}
  Faults = FALSE
SPECIFICATION LifecycleSpec
CONSTRAINT MCScenes
CHECK_DEADLOCK FALSE
INVARIANT LifecycleTypeOK
INVARIANT LeaseHoldsMode
INVARIANT MCPExcludesRuntime
INVARIANT IntentInMCP
PROPERTY StartsUnderLease
