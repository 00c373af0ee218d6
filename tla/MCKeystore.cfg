\* A legacy key and a new one, two processes.
CONSTANTS
  k0 = k0
  k1 = k1
  rp1 = rp1
  rp2 = rp2
  o1 = o1
  o2 = o2
  Keys = {k0, k1}
  LegacyKeys <- MCLegacyKeys
  Random <- MCRandom
  Point <- MCPoint
  NonceSize = 1
  AAGUID <- MCAAGUID
  Digest <- MCDigest
  Strings <- MCStrings
  Separator <- MCSeparator
  MaxLen = 2
  RPs = {rp1, rp2}
  Ops = {o1, o2}
  CounterMod = 8
  Sandboxed = FALSE
  MaxStarts = 2
  MaxClock = 1
  MaxCounter = 2
  None = None
SPECIFICATION Spec
CONSTRAINT OneFault
SYMMETRY Symmetry
INVARIANTS
  TypeOK
  OnlyItsHandle
  HandlesLast
  ResponsesReadBack
  NothingForgotten
PROPERTY
  CountersGrow
CHECK_DEADLOCK FALSE
