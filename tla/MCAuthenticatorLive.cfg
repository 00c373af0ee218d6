\* Two operations, every kind of command; liveness under fairness.
CONSTANTS
  o1 = o1
  o2 = o2
  rp1 = rp1
  rp2 = rp2
  alice = alice
  bob = bob
  k1 = k1
  k2 = k2
  Ops = {o1, o2}
  None = None
  RPs = {rp1, rp2}
  AllowedRPs = {rp1}
  Users = {alice, bob}
  OldCreds <- MCOldCreds
  Requests <- MCAllRequests
SPECIFICATION FairSpec
INVARIANT NeverStuck
PROPERTIES
  OperationsEnd
  GateReopens
  ImplementsConsent
CHECK_DEADLOCK FALSE
