SPECIFICATION Spec
CONSTANTS
    NONE = NONE
    RAISED = RAISED
    Thread = {t1, t2}
    Id <- MCId
    NormalizeHex <- MCNormalizeHex
    Name <- MCName
    SpecKey = {"vram"}
    sourced = sourced
    first = first
    second = second
    SpecValue = {sourced, first, second}
    Text <- Flawless
    Asked <- MCAsked
INVARIANTS
    NamesOneProduct
CHECK_DEADLOCK FALSE
