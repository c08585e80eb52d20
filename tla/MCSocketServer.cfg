CONSTANTS
  c1 = c1  c2 = c2
  Conns <- MCConns
  NoConn = NoConn
  MaxHeaders = 2
  MaxWrites = 1
SPECIFICATION ServerSpec
INVARIANTS ListedIsAlive ListedIffConnected
PROPERTY BrokenIsFreed
CHECK_DEADLOCK FALSE
