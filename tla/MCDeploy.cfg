CONSTANTS
    Deploys = {d1, d2}
    Kinds = {"local", "remote", "rollback", "stop", "check"}
    Targets = {h1, h2}
    MaxVersion = 2
    Guard = 2
    MaxSaves = 1
    MaxCrashes = 1
    None = None
SPECIFICATION Spec
CHECK_DEADLOCK FALSE
SYMMETRY Symmetry
CONSTRAINT OneDisturbance
INVARIANTS StagingSafe InstallTrue RegisteredStays
PROPERTIES NoSilentDowngrade
