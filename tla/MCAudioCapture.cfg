CONSTANTS
  PacketSizes = {1, 3}
  SrcSize = 2
  Conversions = {1, 3}
  DstSize = 2
  MaxDelay = 1
  MaxStarts = 3
  MaxPackets = 4
SPECIFICATION Spec
INVARIANTS SafeUntilStopped QuietAfterStop FreshUnlessUnderway KeepsUp
CHECK_DEADLOCK FALSE
