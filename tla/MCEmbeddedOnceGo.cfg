SPECIFICATION Spec
CONSTANTS
    Thread = {t1, t2, t3}
    NIL = NIL
    FAILED = FAILED
    Case <- GoBroken
    MaxCalls = 2
INVARIANTS
    NeverNothing
CHECK_DEADLOCK FALSE
