SPECIFICATION Spec
CONSTANTS
  None = None
  Windows = {w1, w2}
  Files = {f1}
  Codes = {c1, c2}
  Units = {u1, u2, u3}
  LateNotices = FALSE
SYMMETRY Interchangeable
INVARIANT Ownership
INVARIANT DrivenDSPsLive
INVARIANT ShownWindowsWork
PROPERTY UpdateKeepsPlaying
