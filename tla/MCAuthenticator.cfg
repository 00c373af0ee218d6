\* Safety: three overlapping operations on two stored credentials.
CONSTANTS
  o1 = o1
  o2 = o2
  o3 = o3
  rp1 = rp1
  rp2 = rp2
  alice = alice
  bob = bob
  k1 = k1
  k2 = k2
  Ops = {o1, o2, o3}
  None = None
  RPs = {rp1, rp2}
  AllowedRPs = {rp1}
  Users = {alice, bob}
  OldCreds <- MCOldCreds
  Requests <- MCRequests
SPECIFICATION Spec
SYMMETRY Symmetry
INVARIANTS
  TypeOK
  OnePrompt
  UserVerified
  AbortedLeavesNothing
  StorageSound
  RangePanicNeedsOverlap
  NextInOrder
CHECK_DEADLOCK FALSE
