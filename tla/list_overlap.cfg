SPECIFICATION Spec
CONSTANTS
  Items <- MCItems
  PageSize = 1
  MaxEntries = 2
  MaxRev = 2
  Edits <- MCEdits
  Faults = {"overlap"}
PROPERTY EditsAreKept
