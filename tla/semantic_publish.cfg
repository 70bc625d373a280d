SPECIFICATION Spec
CONSTANTS
    Symbols = {a, b}
    MaxHistory = 3
    Faults = {"buildfail", "statsfail"}
INVARIANTS
    ShadowUnseen
    SearchesSnapshot
PROPERTIES
    PublishesAtomically
CHECK_DEADLOCK FALSE
