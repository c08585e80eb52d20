CONSTANTS
  File <- MCFile
  Pts <- MCPts
  NoPts <- MCNoPts
  Wishes = {"open", "close", "play", "pause", "move"}
  NoTask = NoTask
  NoPacket = NoPacket
  MaxCalls = 3
SPECIFICATION Spec
INVARIANTS HeldOnce EofOncePerPlay OneStrayPicture
PROPERTIES FirstFileIsRead TerminateNowReturns
CHECK_DEADLOCK FALSE
