SPECIFICATION FairSpec
CONSTANTS
  N = 3
  Code <- ClientBatch
  AccMode = "CLIENT"
  TxnIds = {t1, t2}
  NoTxn = NoTxn
  Faults = {"socks", "reset", "crash", "reject", "split"}
INVARIANTS Pipeline OneOutcome OkMeansApplied ResponsesPaired NoProtocolError
PROPERTIES ImplementsBatch Settled AcceptorReleased
CHECK_DEADLOCK FALSE
