\* Two lease holders and two competing switches: enough for a refused second
\* check, a drain that times out on one lease while the other comes and goes,
\* and a second switch queued on the transition lock.
CONSTANTS
  Users = {u1, u2}
  Switchers = {s1, s2}
  NoOne = NoOne
  DefaultMode = "picoclaw"
  Expectations <- MCExpectations
  Requests <- MCRequests
  Edits <- MCEdits
SPECIFICATION FairSpec
INVARIANT TypeOK
INVARIANT GateAccounting
INVARIANT OneTransition
PROPERTY ArbiterSpec
PROPERTY SwitchReturns
