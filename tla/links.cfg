SPECIFICATION Spec
CONSTANTS
  Conn = {c0, c1}
  NoLink = NoLink
INVARIANTS TypeOK UpdateComing ButtonsSettled
PROPERTIES UpdateAsked VisibleAgain
