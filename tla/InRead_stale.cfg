SPECIFICATION Spec
CONSTANTS
  PERIOD = 8
  WANTED = 5
INVARIANTS
  OnlyKernelFrames
