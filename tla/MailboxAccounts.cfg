SPECIFICATION Spec
CONSTANTS
  ann = ann
  ben = ben
  k1 = k1
  r1 = r1
  r2 = r2
  r3 = r3
  r4 = r4
  Clients = {ann, ben}
  Keys = {k1}
  MaxUses = 2
  Requests = {r1, r2, r3, r4}
  NoAccount = NoAccount
  MaxDeaths = 1
SYMMETRY Symmetry
INVARIANTS UsesConserved KeepsAccount OrphansExplained OnlyUploaded AckMeansStored
CHECK_DEADLOCK FALSE
