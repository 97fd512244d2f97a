SPECIFICATION Spec
CONSTANTS
    k1 = k1
    k2 = k2
    k3 = k3
    Key <- MCKey
    Hash <- MCHash
    OverlapSpan = 4
    NULL = NULL
    Portage = {p1}
    Package = {x1, x2, x3}
    Atom = {a1}
    InitialSize = 5
    MaxHeld = 2
SYMMETRY Symmetry
CHECK_DEADLOCK FALSE
INVARIANTS RefsExact AssertsNeverFail PackageIdLeadsBack CachedIdsResolve
PROPERTIES LoadFindsPackage ImplementsDictionary
