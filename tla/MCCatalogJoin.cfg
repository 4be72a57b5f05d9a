SPECIFICATION Spec
CONSTANTS
    NONE = NONE
    DeviceId = {d1, d2}
    Cell = {c1}
    NpuRow = {npu1}
    Note = {note1}
    Sources <- MCSources
INVARIANTS
    TypeOK
    NeverGuesses
    VariantsStayApart
    GapsAreWarned
    LlvmDisagreementsAreWarned
    SameGenerationSamePrecision
PROPERTIES
    ImplementsReference
    JoinsOnlyAdd
CHECK_DEADLOCK FALSE
