SPECIFICATION Spec
CONSTANTS
    NoFile = NoFile
    Torn = Torn
    Nowhere = Nowhere
    Dirs = {home, spare}
    Legacy = {home, spare}
    Passwords = {p, q}
    Sessions = {s}
    MaxSeals = 4
    MaxSnapshots = 1
SYMMETRY Symmetry
CONSTRAINT Scope
INVARIANTS
    Unlockable
    FilesMatch
PROPERTIES
    NoRevokedWrite
CHECK_DEADLOCK FALSE
