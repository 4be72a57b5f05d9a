SPECIFICATION Spec
CONSTANTS
    NONE = NONE
    DeviceId = {d1, d2}
    Cell = {c1}
    NpuRow = {npu1}
    Note = {note1}
    Sources <- LlvmSources
INVARIANTS
    AbsentTargetIsReported
CHECK_DEADLOCK FALSE
