SPECIFICATION Spec
CONSTANTS
    o1 = o1
    o2 = o2
    o3 = o3
    k1 = k1
    k2 = k2
    k3 = k3
    Node = {n1, n2, n3}
    Object <- MCObject
    NULL = NULL
    MaxCount = 2
    FirstRoom = 2
    Compared <- MCCompared
    Key <- MCKey
    Hash <- MCHash
    FirstSize = 2
    Threshold <- MCThreshold
    SetName = {s, t, u}
    Programs <- MCPrograms
    MaxLength = 3
    MaxBuckets = 8
SYMMETRY Symmetry
CHECK_DEADLOCK FALSE
INVARIANTS PointersSound CountsExact SetAlgebra
PROPERTIES ImplementsDeque ImplementsSequence ImplementsMapping
