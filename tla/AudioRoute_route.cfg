SPECIFICATION Spec
CONSTANTS
  c1 = c1
  c2 = c2
  p = p
  q = q
  NoPath = NoPath
  NoCtl = NoCtl
  Ctls = {c1, c2}
  PathNames = {p, q}
  Values <- Enum
  Refused = {2}
  Faults = TRUE
  INITIAL_MIXER_PATH_SIZE = 1
  MaxTags = 6
  MaxLevel = 3
  MaxApplied = 2
SYMMETRY NameSymmetry
INVARIANTS
  TypeOK
  ShadowIsRoute
  CrashHasCause
  PathsHaveNoDuplicates
PROPERTIES
  CodecCarriesRoute
CHECK_DEADLOCK FALSE
