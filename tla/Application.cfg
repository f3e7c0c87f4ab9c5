SPECIFICATION Spec
CONSTANTS
  Windows = {w1, w2}
  MaxNum = 3
  Files = {f1, f2, f3}
  NoFile = NoFile
  NoSnapshot = NoSnapshot
  MaxRecent = 2
  LatePosts = {"asking", "saving"}
SYMMETRY Interchangeable
INVARIANT NumbersDistinct
INVARIANT SessionMatchesWindows
INVARIANT RecentMenu
