CONSTANTS
    n1 = n1
    n2 = n2
    k1 = k1
    k2 = k2
    Names = {n1, n2}
    Keys = {k1, k2}
    Slug <- MCSlug
    Installed = n1
    Alternative = n2
    Elsewhere = None
    Ops = {o1, o2, o3}
    MaxEdits = 1
    MaxCrashes = 1
    None = None
SPECIFICATION Spec
SYMMETRY Symmetry
CHECK_DEADLOCK FALSE
INVARIANTS KeysDistinct 
PROPERTIES UserWorkKept
VIEW View
