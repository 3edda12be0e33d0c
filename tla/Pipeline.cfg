SPECIFICATION Spec
CONSTANT MaxChanges = 2
CHECK_DEADLOCK FALSE
INVARIANTS PageAllowed NotFoundAlike AnsweredOnce
