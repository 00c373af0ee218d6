\* What closing the device cancels.
CONSTANTS
  c1 = c1
  c2 = c2
  t1 = t1
  t2 = t2
  Cids = {c1, c2}
  Broadcast = Broadcast
  Txns = {t1, t2}
  Lengths = {57, 117, 1201}
  HostCommands = {"cbor"}
  HostSeqs = {0, 1}
  InitDataLen = 57
  ContDataLen = 59
  MaxMessageLen = 1200
  None = None
SPECIFICATION Spec
PROPERTY CloseCancelsAll
CHECK_DEADLOCK FALSE
