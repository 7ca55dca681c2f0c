\* All sets of at most three names of at most three characters.
SPECIFICATION Spec
CONSTANTS
  Char = {a, b}
  MaxLength = 3
  MaxNames = 3
  Rounds = 20
  a = a
  b = b
INVARIANTS
  CodesAreRead
  SelectionSurvives
CHECK_DEADLOCK FALSE
