SPECIFICATION Spec
CONSTANTS
    Symbols = {a, b}
    MaxHistory = 2
    Faults = {"restart"}
PROPERTIES
    RebuildKeepsServing
CHECK_DEADLOCK FALSE
