SPECIFICATION FairSpec
CONSTANTS
  NumMsgs = 2
  s1 = s1
  s2 = s2
  Slots = {s1, s2}
  HasMailbox = FALSE
  MailboxOption = FALSE
  Mbox = {}
  Syncers <- SenderOnly
  MaxBreaks = 0
  MaxCrashes = 0
  MaxSplits = 1
PROPERTY SyncDelivers
CHECK_DEADLOCK FALSE
