SPECIFICATION ExportSpec
CONSTANTS
  Codes = {c1, c2}
  Targets = {t1, t2}
  First = t1
  None = None
  MaxReplies = 2
PROPERTY WrittenIsNamed
PROPERTY CancelledIsSilent
PROPERTY ExportEnds
