SPECIFICATION Spec
CONSTANTS
    Thread = {t1, t2, t3}
    NIL = NIL
    FAILED = FAILED
    Case <- Sound
    MaxCalls = 2
INVARIANTS
    TypeOK
    ParsedOnce
    OneCatalog
    NeverNothing
PROPERTIES
    ImplementsOnceCell
    EveryCallReturns
CHECK_DEADLOCK FALSE
