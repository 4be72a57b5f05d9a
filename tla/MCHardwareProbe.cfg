SPECIFICATION Spec
CONSTANTS
    Programs <- MCPrograms
    Card = {"744c"}
    NONE = NONE
    Torn = Torn
INVARIANTS
    TypeOK
    SupportedIsConfirmed
    BlameHasACause
    ReportIsWhole
CHECK_DEADLOCK FALSE
