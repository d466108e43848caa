CONSTANTS
    Projects = {p1}
    Threads = {t1, t2}
    Pids = {x1}
    Stubborn = {x1}
    None = None
    Partial = Partial
    MaxCrashes = 1
SPECIFICATION FairSpec
PROPERTIES RequestAnswered
