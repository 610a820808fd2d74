-------------------------- MODULE MCRuntimeLifecycle --------------------------
(* Model-checking instance of RuntimeLifecycle. *)
EXTENDS RuntimeLifecycle

\* The leases and the switches that the jobs ask for.
MCExpectations == {"picoclaw"}
MCRequests == {SwitchOf(j) : j \in SwitchJobs}

\* A handler and a switch have any jobs; the startup goroutine restores beside a start
\* and any switch. A second switch, to off, overlaps the first and a start alone: its
\* tail, which no lock covers, goes on while the next switch is made.
Second == CHOOSE s \in Switchers : TRUE
AtWork == {job[g] : g \in Goroutines} \ {"none"}
MCScenes ==
  /\ "restore" \in AtWork => AtWork \intersect {"model", "profile"} = {}
  /\ job[Second] # "none" => job[Second] = "off" /\ AtWork \subseteq {"start", "mcp", "picoclaw", "off"}
=============================================================================
