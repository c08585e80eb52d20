CONSTANTS
  BodyCalls = {"sleep", "sleepTight", "work"}
  MaxEnds = 3
SPECIFICATION Spec
INVARIANTS TerminatedEventOnce
PROPERTY SleeperIsJoined
CHECK_DEADLOCK FALSE
