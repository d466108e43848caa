CONSTANTS
    Ops = {o1, o2, o3}
    Contents = {c1, c2}
    Given = {r1}
    Default = r0
    MaxCrashes = 1
    Partial = Partial
    None = None
SPECIFICATION Spec
SYMMETRY Symmetry
CHECK_DEADLOCK FALSE
INVARIANTS ToldTrue
PROPERTIES ImportKept
