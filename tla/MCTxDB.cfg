SPECIFICATION Spec
CONSTANTS
    Handles = {h1, h2}
    Keys = {k1, k2}
    Vals = {v1, v2}
    Missing = Missing
    NoBatch = NoBatch
    MaxBatch = 3
SYMMETRY Sym
INVARIANTS
    TypeOK
    ReadSeesOwnWrites
