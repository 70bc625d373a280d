SPECIFICATION FairSpec
CONSTANTS
    Workers = {w1, w2}
    NoWorker = NoWorker
    Symbols = {root, a}
    Root = root
    MaxGen = 3
    Faults = {"buildfail", "cleanupfail"}
PROPERTIES
    PublishesAtomically
    MutexReleased
