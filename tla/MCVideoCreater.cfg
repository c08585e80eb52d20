CONSTANTS
  WriteSizes = {0, 1, 5}
  ReadSizes = {2}
  MaxWritten = 7
  MaxBuffers = 3
  FrameSize = 2
  VideoUnit = 3
  AudioUnit = 2
  Garbage = {0, 1}
  MaxOpens = 2
  MaxBitmaps = 3
SPECIFICATION CreaterSpec
INVARIANTS BuffersContiguous AudioInFrames TracksStayTogether NothingLeaksUnlessOpenFails
CHECK_DEADLOCK FALSE
