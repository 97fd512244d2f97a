SPECIFICATION MetadataSpec
CONSTANTS
    f1 = f1
    f2 = f2
    f3 = f3
    f4 = f4
    f5 = f5
    Key <- MCKey
    Hash <- MCHash
    OverlapSpan = 8
    NULL = NULL
    InitialSize = 2
    Cell <- MCCell
    Loop = {l1, l2}
    Texts <- MCTexts
    MaxHeld = 1
    MaxMade = 1
    Files <- MCFiles
    Arch = {"amd64", "x86"}
    MaxTries = 2
SYMMETRY MCLoops
INVARIANTS GivenIdsResolve NodesCounted LoopSeesChain MetadataWhole
PROPERTY ImplementsDictionary
CHECK_DEADLOCK FALSE
