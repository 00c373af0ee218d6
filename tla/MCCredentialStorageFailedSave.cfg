\* What a lookup finds after a failed save.
CONSTANTS
  rp1 = rp1
  rp2 = rp2
  alice = alice
  bob = bob
  k1 = k1
  k2 = k2
  k3 = k3
  RPs = {rp1, rp2}
  Users = {alice, bob}
  Ids = {k1, k2, k3}
  None = None
SPECIFICATION Spec
INVARIANT FailedSaveNotDiscoverable
