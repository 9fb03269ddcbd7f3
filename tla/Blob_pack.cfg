SPECIFICATION Spec
CONSTANTS
  Missing = Missing
  Files = {boot, system}
  Lengths = {0, 3, 6}
  HEADER = 2
  ENTRY = 1
  WORD = 16
  Faults = TRUE
  Shorts = {1}
  MaxParts = 3
  MaxVersion = 1
INVARIANTS
  BInv
  EntryPointsAtFile
  EntriesInOrder
CHECK_DEADLOCK FALSE
