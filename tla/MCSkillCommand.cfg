SPECIFICATION CommandSpec
CONSTANTS
    NONE = NONE
    RAISED = RAISED
    Thread = {t1, t2}
    Id <- MCId
    NormalizeHex <- MCNormalizeHex
    Name <- MCName
    SpecKey = {"vram"}
    sourced = sourced
    first = first
    second = second
    SpecValue = {sourced, first, second}
    Text <- MCText
    Asked <- MCAsked
    Commands <- MCCommands
INVARIANTS
    TypeOK
    SourceUntouched
    ExitTellsFound
PROPERTIES
    KeepsPromise
CHECK_DEADLOCK FALSE
