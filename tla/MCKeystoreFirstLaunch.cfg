\* The daemon's start in the sandbox of its systemd unit.
CONSTANTS
  k0 = k0
  k1 = k1
  rp1 = rp1
  rp2 = rp2
  o1 = o1
  o2 = o2
  Keys = {k0, k1}
  LegacyKeys <- MCLegacyKeys
  Random <- MCRandom
  Point <- MCPoint
  NonceSize = 1
  AAGUID <- MCAAGUID
  Digest <- MCDigest
  Strings <- MCStrings
  Separator <- MCSeparator
  MaxLen = 2
  RPs = {rp1, rp2}
  Ops = {o1, o2}
  CounterMod = 8
  Sandboxed = TRUE
  MaxStarts = 2
  MaxClock = 1
  MaxCounter = 2
  None = None
SPECIFICATION Spec
CONSTRAINT OneFault
SYMMETRY Symmetry
INVARIANT MigratedOnFirstLaunch
CHECK_DEADLOCK FALSE
