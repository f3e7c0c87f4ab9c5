SPECIFICATION Spec
CONSTANTS
  None = None
  Copy = Copy
  w1 = w1
  w2 = w2
  f1 = f1
  f2 = f2
  d1 = d1
  Windows <- MCWindows
  Files <- MCFiles
  Dirs <- MCDirs
  DirOf <- MCDirOf
  Imports <- MCImports
  MaxEdits = 2
  Patient = TRUE
  Replacing = FALSE
  Deleting = FALSE
  Renaming = FALSE
CHECK_DEADLOCK FALSE
INVARIANT WatchedUnderItsFiles
INVARIANT LoopCallsOpenWindows
PROPERTY ChangesReachWindows
