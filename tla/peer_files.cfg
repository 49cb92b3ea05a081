SPECIFICATION Spec
CONSTANTS
  MaxImages = 2
  MaxWrites = 3
  Faults = {"io", "power"}
INVARIANTS TypeOK DocumentSurvives GalleryErrsInOneSlot
