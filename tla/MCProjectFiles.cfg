CONSTANTS
    Threads = {t1, t2}
    Configs = {manual, automation}
    Manual = manual
    MaxWriters = 3
    MaxGets = 1
    MaxCrashes = 1
    None = None
SPECIFICATION Spec
SYMMETRY Symmetry
INVARIANTS TypeOK DeclaredExist SaveExact ReadFresh CacheTrue LegacyUntilDone
