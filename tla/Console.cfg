SPECIFICATION Spec
CONSTANTS
  MaxRows = 2
  Heights = {1, 2}
  Conns = {k1, k2}
SYMMETRY Symmetry
CHECK_DEADLOCK FALSE
INVARIANTS WrongOnlyBehindHidden MenuIsFresh ChosenIsFriend CursorVisible PromptMatches
