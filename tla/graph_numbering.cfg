SPECIFICATION Spec
CONSTANTS
    Workers = {w1, w2}
    NoWorker = NoWorker
    Symbols = {root, a}
    Root = root
    MaxGen = 4
    Faults = {"crash", "rollback", "buildfail", "cleanupfail"}
INVARIANTS
    TypeOK
    BuildersExclude
    PrivateGeneration
PROPERTIES
    CleanupSparesBuilds
