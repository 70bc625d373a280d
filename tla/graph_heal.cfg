SPECIFICATION Spec
CONSTANTS
    Workers = {w1, w2}
    NoWorker = NoWorker
    Symbols = {root, a, b}
    Root = root
    MaxGen = 3
    Faults = {"crash", "probe"}
INVARIANTS
    NoLeakedGenerations
    ServesSnapshot
SYMMETRY Symmetry
