CONSTANTS
  c1 = c1  c2 = c2
  Conns = {c1}
  NoConn = NoConn
  MaxHeaders = 2
  MaxWrites = 2
SPECIFICATION ServerSafeSpec
INVARIANT EchoIsIntact
CHECK_DEADLOCK FALSE
