SPECIFICATION Spec
CONSTANTS
  Kind <- MCKind
  ParamsOf <- MCParamsOf
  MaxLen = 2
  MaxSaved = 1
  BuiltIn = {f, g}
  Stored = {f}
  None = None
  Torn = Torn
INVARIANTS TypeOK Displayed
PROPERTIES NamesKept SpoiltByForm
