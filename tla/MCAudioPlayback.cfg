CONSTANTS
  a = a  b = b
  Adders <- MCAdders
  Decoder = Decoder
  NoPacket = NoPacket
  DelayLimit = 1
  Keep = 0
  MaxAdds = 4
  MaxSkip = 1
SPECIFICATION PlaybackSpec
INVARIANTS PlayedInOrder DelayBounded
PROPERTIES EveryPacketIsHeard StuckOnlyTrimming
