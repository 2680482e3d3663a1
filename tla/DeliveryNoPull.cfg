SPECIFICATION FairSpec
CONSTANTS
  NumMsgs = 1
  s1 = s1
  s2 = s2
  Slots = {s1, s2}
  HasMailbox = TRUE
  MailboxOption = FALSE
  Mbox = {}
  Syncers <- BothClients
  MaxBreaks = 0
  MaxCrashes = 0
  MaxSplits = 0
PROPERTY MailboxDelivers
CHECK_DEADLOCK FALSE
