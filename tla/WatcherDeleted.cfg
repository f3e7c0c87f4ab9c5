SPECIFICATION Spec
CONSTANTS
  None = None
  Copy = Copy
  w1 = w1
  w2 = w2
  f1 = f1
  f2 = f2
  d1 = d1
  Windows <- OneWindow
  Files <- MCFiles
  Dirs <- MCDirs
  DirOf <- MCDirOf
  Imports <- MCImports
  MaxEdits = 2
  Patient = TRUE
  Replacing = TRUE
  Deleting = TRUE
  Renaming = TRUE
CHECK_DEADLOCK FALSE
INVARIANT WatcherInv
