SPECIFICATION FairSpec
CONSTANTS
  NumMsgs = 1
  s1 = s1
  s2 = s2
  Slots = {s1, s2}
  HasMailbox = TRUE
  MailboxOption = TRUE
  Mbox = {}
  Syncers <- ReceiverOnly
  MaxBreaks = 1
  MaxCrashes = 0
  MaxSplits = 1
PROPERTIES ImplementsMail MailboxDelivers ReceiptReturns
CHECK_DEADLOCK FALSE
