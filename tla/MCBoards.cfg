CONSTANTS
  BASE_ID = 38
  MaxGrown = 3
  MaxPanels = 42
SPECIFICATION BoardsSpec
INVARIANTS
  BoardsReadable
  MergedTreeIsWhole
