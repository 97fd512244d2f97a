SPECIFICATION Spec
CONSTANTS
    p1 = p1
    p2 = p2
    NULL = NULL
    IntHalf = 512
    Package = {p1, p2}
    Ebuild = {e1, e2, e3}
    Keys = {p1}
    Versions <- MCVersions
    Atoms <- MCAtoms
    MaxHeld = 1
SYMMETRY Symmetry
CHECK_DEADLOCK FALSE
INVARIANTS RefsExact InOwnList NewestFirst OpenMatchIsNewest MatchersAgree CompareConsistent
