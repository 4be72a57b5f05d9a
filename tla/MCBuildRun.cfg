SPECIFICATION Spec
CONSTANTS
    rocm = rocm
    xdna = xdna
    specs = specs
    npus = npus
    specsFile = specsFile
    drvFile = drvFile
    regsFile = regsFile
    Repo = {rocm, xdna}
    Doc = {specs, npus}
    File = {specsFile, drvFile, regsFile}
    BranchRef = {npus}
    Order <- MCOrder
    RepoOf <- MCRepoOf
    FilesOf <- MCFilesOf
    Unparsable <- MCUnparsable
    NoteVersion = {v1}
    NONE = NONE
    Malformed = Malformed
    Fixture = Fixture
    Torn = Torn
    MaxCommits = 2
    MaxPushes = 3
    MaxRuns = 2
INVARIANTS
    TypeOK
    RefCoversText
    OldRefPinsExactly
    OutputIsOldOrNew
    OutputIsComplete
PROPERTIES
    EveryRunEnds
CHECK_DEADLOCK FALSE
