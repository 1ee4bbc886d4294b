\* Users ask for times before the start and beyond the end, too.
SPECIFICATION Spec
CONSTANTS
  Start = 0
  End = 40
  NumberOfFrames = 5
  Steps = {0, 10, 30, 40}
  FramesPerTimestep = 2
  FrameTimes <- MCFrameTimes
  Instants <- MCInstants
  Never = 1000
  None = None
INVARIANTS TypeOK TimeIsShown
PROPERTIES NoFrameSkipped PlayEnds
