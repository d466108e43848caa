CONSTANTS
    Threads = {t1, t2}
    Projects = {j1}
    Ports = {p1, p2}
    MaxSaves = 1
    MaxLaunches = 1
    MaxRewrites = 1
    MaxTokens = 1
    None = None
SPECIFICATION Spec
SYMMETRY Symmetry
INVARIANTS CacheTrue
PROPERTIES SteadyServed
CONSTRAINT Unfiled
