SPECIFICATION Spec
CONSTANTS
  alice = alice
  bob = bob
  a1 = a1
  a2 = a2
  a3 = a3
  Persons = {alice, bob}
  Attempts = {a1, a2, a3}
  NoKey = NoKey
  MaxHeld = 1
  MaxRemovals = 2
SYMMETRY Symmetry
INVARIANTS Consent KeysExchanged KeysAgree OneRow NeverStuck
PROPERTY StaysRemoved
CHECK_DEADLOCK FALSE
