\* A report of one device fails while a key of another is down.
CONSTANTS
  c1 = c1  c2 = c2
  s1 = s1  s2 = s2
  Tools = {t1, t2}
  Jigglers = {t2}
  Sessions = {s1}
  Callers = {c1, c2}
  SessionOf <- MCOneSession
  Reports <- MCReports
  Leases = {l1, l2}
  Slots = {r1, r2}
  MaxGeneration = 2
SPECIFICATION Spec
INVARIANT HeldKeysBlockTools
