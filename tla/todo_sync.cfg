SPECIFICATION Spec
CONSTANTS
  Items <- MCThree
  PageSize = 1
  MaxEntries = 2
  MaxRev = 2
  Edits <- MCEdits
  Faults = {"write", "table", "document", "memory", "power", "slot"}
INVARIANT TypeOK
PROPERTY IsACheckList SyncKeepsCheckOffs CatchesUp EditsAreKept
