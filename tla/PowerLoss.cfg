SPECIFICATION Spec
CONSTANTS
    Workers = {w1, w2}
    Commits = {c1, c2, c3, c4}
    Imports = {c4}
    Nobody = Nobody
    Garbage = Garbage
    PowerLoss = TRUE
INVARIANTS
    FileHonest
PROPERTIES
    ImplementsRegister
    NothingOverwritten
CHECK_DEADLOCK FALSE
