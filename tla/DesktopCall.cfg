SPECIFICATION MCSpec
CHECK_DEADLOCK FALSE
CONSTANTS
  MaxStarts = 2
  MaxEnds = 2
  MaxLinks = 1
  MaxTroubles = 1
  MaxFrames = 1
  ByHand = {0}
  Toggles <- AnyToggle
  MaxTime = 12
  Blocks <- BlockSizes
  StepNum = 3
  StepDen = 2
  FrameSize = 2
  QueueCap = 2
  DrainMax = 2
  PumpTicks <- TwoTicks
  t1 = t1
  t2 = t2
INVARIANTS
  CallsStayApart
  AudioIsTrue
PROPERTIES
  EndIsAnEnd
