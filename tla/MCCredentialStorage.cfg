\* Three saves on four accounts, failures, crashes and power losses.
CONSTANTS
  rp1 = rp1
  rp2 = rp2
  alice = alice
  bob = bob
  k1 = k1
  k2 = k2
  k3 = k3
  RPs = {rp1, rp2}
  Users = {alice, bob}
  Ids = {k1, k2, k3}
  None = None
SPECIFICATION Spec
SYMMETRY Symmetry
INVARIANTS
  TypeOK
  FileIntact
  AckedSurvives
  AccountsUnique
PROPERTY FileCommitsAtomically
  ImplementsStore
