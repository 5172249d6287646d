SPECIFICATION FairSpec
CONSTANTS
  Marks <- MCMarks
  IntMax = 3
  MaxBytes = 3
  MaxOut = 2
  MaxOps = 4
  EvselMayFail = TRUE
CHECK_DEADLOCK FALSE
INVARIANTS
  PressureOnlyWhenFull
  DisabledStaysQuiet
PROPERTIES
  InputIsRead
  OutputLeaves
