SPECIFICATION Spec
CONSTANTS
  Params = {p0, p1, p2}
  Default = p0
  Blank = Blank
  Torn = Torn
  MaxPage = 1
  MaxWrites = 2
  Word = 5
INVARIANTS TypeOK ResetOutcome WearBounded
PROPERTIES RegisterSpec
