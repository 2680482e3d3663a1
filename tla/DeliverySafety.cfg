SPECIFICATION Spec
CONSTANTS
  NumMsgs = 2
  s1 = s1
  s2 = s2
  Slots = {s1, s2}
  HasMailbox = TRUE
  MailboxOption = TRUE
  Mbox = {2}
  Syncers <- BothClients
  MaxBreaks = 0
  MaxCrashes = 1
  MaxSplits = 1
SYMMETRY SlotSymmetry
INVARIANTS ConfirmedIsStored SentIsStored
PROPERTIES ListsNeverRepeat ConfirmationSticks
CHECK_DEADLOCK FALSE
