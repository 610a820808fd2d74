\* One client that uses both mice, on a gadget that may refuse every write.
CONSTANTS
  Clients = {c1}
  ReportsOf <- MCMice
  Capacity = 2
  Failing = {"relative", "absolute"}
  MaxMotion = 0
SPECIFICATION FairSpec
INVARIANT TypeOK
INVARIANT ReservationsAccounted
INVARIANT DownIsKnown
INVARIANT NothingStuck
PROPERTY ReleaseStaysPut
PROPERTY CloseReturns
\* A client that is closed stays closed.
CHECK_DEADLOCK FALSE
