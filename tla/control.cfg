SPECIFICATION Spec
CONSTANT Lines <- MCLines
CHECK_DEADLOCK FALSE
INVARIANTS TypeOK AsTyped RepeatChangesNothing
