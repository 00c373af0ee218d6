\* Liveness under fairness: one channel, two overlapping transactions, all
\* kinds of commands.  No symmetry: it is unsound for liveness.
CONSTANTS
  c1 = c1
  t1 = t1
  t2 = t2
  Cids = {c1}
  Broadcast = Broadcast
  Txns = {t1, t2}
  Lengths = {0, 57, 117, 1201}
  HostCommands = {"cbor", "other"}
  HostSeqs = {0, 1}
  InitDataLen = 57
  ContDataLen = 59
  MaxMessageLen = 1200
  None = None
SPECIFICATION FairSpec
PROPERTY TransactionsEnd
CHECK_DEADLOCK FALSE
