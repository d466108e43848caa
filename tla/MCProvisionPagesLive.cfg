CONSTANTS
    Jobs = {j1}
    Streams = {s1, s2}
    Pages = {p1}
    Exporters = {e1}
    MaxProgress = 1
    None = None
SPECIFICATION PagesFairSpec
CHECK_DEADLOCK FALSE
PROPERTIES PageSettles
