SPECIFICATION Spec
CONSTANTS
  d1 = d1
  d2 = d2
  d3 = d3
  NoDSP = NoDSP
  DSPs <- MCDSPs
  NumIn <- MCNumIn
  NumOut <- MCNumOut
  FadeLength = 4
  BufferSize = 1
  MayTimeOut = FALSE
INVARIANT FadeMemory
PROPERTY ImplementsCrossfade
