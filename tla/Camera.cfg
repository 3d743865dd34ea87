SPECIFICATION FairSpec
CONSTANTS
  Actors <- TwoActors
  Frames = {2}
  AcqModes = {"Single", "Accumulation"}
  Trigs = {"IntTrig", "IntTrigMult", "ExtGate"}
  MaxThrows = 1
INVARIANT FramesSuffice
INVARIANT FramesAreHeard
INVARIANT FramesFromPorts
INVARIANT StopStops
PROPERTY AcqEnds
