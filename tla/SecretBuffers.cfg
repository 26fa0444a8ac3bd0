SPECIFICATION Spec
INVARIANTS
    CallsLeaveNothing
    KeyWholeOrNone
