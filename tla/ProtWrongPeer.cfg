SPECIFICATION FairSpec
CONSTANTS
  N = 2
  Code <- WrongPeerBatch
  AccMode = "CLIENT"
  TxnIds = {t1, t2}
  NoTxn = NoTxn
  Faults = {"socks", "reset", "crash", "reject", "split"}
PROPERTY Settled
CHECK_DEADLOCK FALSE
