SPECIFICATION Spec
CONSTANTS
    a1 = a1
    b1 = b1
    c1 = c1
    d1 = d1
    d2 = d2
    d3 = d3
    a = a
    b = b
    c = c
    d = d
    f = f
    g = g
    s0 = s0
    s1 = s1
    NULL = NULL
    Ebuild <- MCEbuild
    Key <- MCKey
    Flag <- MCFlag
    Slot <- MCSlot
    Expr <- MCExpr
    Listing <- MCListing
    SlotOf <- MCSlotOf
    Repository <- MCRepository
    Verdict <- MCVerdict
    Requests <- MCRequests
    MaxSelected = 5
    MaxRequests = 3
INVARIANTS NoReentry ResolutionComplete RequiredUseHolds RefusedRightly
PROPERTIES FlagsSettled Terminates
