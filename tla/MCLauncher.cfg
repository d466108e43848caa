CONSTANTS
    Projects = {p1, p2}
    Threads = {t1, t2}
    Pids = {x1, x2}
    Stubborn = {}
    None = None
    Partial = Partial
    MaxCrashes = 1
SPECIFICATION Spec
SYMMETRY Symmetry
INVARIANTS TypeOK NoUntracked OneManaged OneRecorded
PROPERTIES StopsOnlyOwn SlotSpec
