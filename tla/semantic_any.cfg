SPECIFICATION FairSpec
CONSTANTS
    Symbols = {a, b}
    MaxHistory = 2
    Faults = {"beginfail", "deletefail", "buildfail", "statsfail", "overlap", "rollback", "restart"}
INVARIANTS
    TypeOK
PROPERTIES
    RebuildEnds
