SPECIFICATION Spec
CONSTANTS
  None = None
  MaxWindows = 2
  MaxNumber = 3
  MaxFolders = 1
  Files = {f1}
  Codes = {c1, c2, empty}
  Default = empty
  Pasted = {c2, empty}
  Importing = {c1}
  MaxChanges = 3
  MayCrash = TRUE
  MaySnapshot = TRUE
CHECK_DEADLOCK FALSE
INVARIANT WindowsComeBack
INVARIANT SessionInv
INVARIANT RecalledAsTaken
PROPERTY ImportKeepsWindows
