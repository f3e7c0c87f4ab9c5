SPECIFICATION Spec
CONSTANTS
  Windows = {w1, w2}
  Drivers = {first, jack, core}
  Default = first
  Unknown = Unknown
  Vals = {v1, v2}
  DefaultVal = v1
  Zero = Zero
  None = None
  Mortal = {jack}
  Negotiating = {core}
  Granted = {v2}
  Indifferent = {jack}
INVARIANT WindowsFollowSettings
PROPERTY CancelSavesNothing
PROPERTY DeadServerIsReplaced
