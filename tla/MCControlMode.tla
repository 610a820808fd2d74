---------------------------- MODULE MCControlMode ----------------------------
(* Model-checking instance of ControlMode. *)
EXTENDS ControlMode

\* An AI tool call that insists on MCP, and a manual input that takes any mode.
MCExpectations == {"any", "mcp"}

\* PUT /mode to MCP, and the conditional switch of a stop handler.
MCRequests == {[next |-> "mcp", expected |-> "any"],
               [next |-> "off", expected |-> "mcp"]}

\* An edit to a valid mode: what an administrator's script writes.
MCEdits == {"off"}
=============================================================================
