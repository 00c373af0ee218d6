\* Any clicks, insertions, removals, signals, failures and restarts.
SPECIFICATION Spec
CONSTANTS
  Devs = {d1, d2}
  None = None
INVARIANTS
  TypeOK
  LiveDeviceIsCurrent
  CalmAgrees
