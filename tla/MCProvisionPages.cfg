CONSTANTS
    Jobs = {j1, j2}
    Streams = {s1, s2}
    Pages = {p1}
    Exporters = {e1}
    MaxProgress = 0
    None = None
SPECIFICATION PagesSpec
SYMMETRY Symmetry
CHECK_DEADLOCK FALSE
INVARIANTS PagesTypeOK ShownTruly EndToldOnce
