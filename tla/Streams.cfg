SPECIFICATION Spec
CONSTANTS
  d1 = d1
  d2 = d2
  d3 = d3
  None = None
  DSPs <- MCDSPs
  FadeLength = 5
  BufferSize = 2
INVARIANT NothingLeftOver
INVARIANT SilentWhenStopped
PROPERTY Smooth
PROPERTY ImplementsCrossfade
PROPERTY FullVolume
