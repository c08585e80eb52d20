CONSTANTS
  p1 = p1  p2 = p2  c1 = c1  c2 = c2  x = x  y = y
  Producers <- MCProducers
  Consumers <- MCConsumers
  Items <- MCItems
  NoItem = NoItem
  MaxPushes = 3
SPECIFICATION Spec
INVARIANTS NoMissedWakeup
PROPERTIES FifoSafe TerminateReleasesSleepers
