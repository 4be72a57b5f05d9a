SPECIFICATION Spec
CONSTANTS
    NONE = NONE
    DeviceId = {"73bf", "744c"}
    Cell <- MCCell
    NpuRow <- MCNpuRow
    Note = {}
    Sources = {}
    Documents <- MCDocuments
    LowerCase <- MCLowerCase
    UpperCase <- MCUpperCase
    Slug <- MCSlug
    Numeric = {"32", "64"}
    TypeKey <- MCTypeKey
    Modern <- MCModern
    HwGen <- MCHwGen
    TableName = {"npu4_tbl", "npu5_tbl"}
    OneCharacter = {"1"}
INVARIANTS
    TypeOK
    SuitsTheJoin
    MostSpecificGeneration
    FamilyIsTheWholeSet
    OneVerdictPerType
    NothingIsLost
    AllOrNothing
CHECK_DEADLOCK FALSE
