CONSTANTS
  HeaderSize = 1
  Modulus = 3
  Sizes = {1, 2}
  MaxConnects = 2
  MaxSends = 2
  MaxPackets = 1
SPECIFICATION Spec
INVARIANTS PeerReadsWhatWasSent DisconnectIsFinal
PROPERTIES LossIsTold
CHECK_DEADLOCK FALSE
