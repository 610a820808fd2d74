\* An MCP tool and the jiggler against two clients.
CONSTANTS
  c1 = c1  c2 = c2
  s1 = s1  s2 = s2
  Tools = {t1, t2}
  Jigglers = {t2}
  Sessions = {s1, s2}
  Callers = {c1, c2}
  SessionOf <- MCOwnSession
  Reports <- MCReports
  Leases = {l1, l2}
  Slots = {r1, r2}
  MaxGeneration = 2
SYMMETRY MCSymmetry
SPECIFICATION Spec
INVARIANT TypeOK
INVARIANT HidExclusion
INVARIANT ManualAccounting
INVARIANT WaitedForIsCanceled
INVARIANT OperationsRunInMCP
