SPECIFICATION Spec
CONSTANTS
  N = 3
  Code <- MailboxBatch
  AccMode = "MAILBOX"
  TxnIds = {t1, t2}
  NoTxn = NoTxn
  Faults = {"socks", "reset", "crash", "reject", "split"}
INVARIANTS OkMeansApplied NoProtocolError
CHECK_DEADLOCK FALSE
