\* One session that two goroutines share.
CONSTANTS
  c1 = c1  c2 = c2
  s1 = s1  s2 = s2
  Tools = {t1}
  Jigglers = {}
  Sessions = {s1}
  Callers = {c1, c2}
  SessionOf <- MCOneSession
  Reports <- MCReports
  Leases = {l1, l2}
  Slots = {r1, r2}
  MaxGeneration = 3
SPECIFICATION FairSpec
INVARIANT SessionBooks
PROPERTY ControlComesBack
