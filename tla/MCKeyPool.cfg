SPECIFICATION Spec
CONSTANTS
    m1 = m1
    m2 = m2
    Miners = {m1, m2}
    Target = 2
    Refills = {0, 3}
    MaxKey = 9
SYMMETRY MinerSymmetry
INVARIANTS
    TypeOK
    GivenOnce
    PoolBacked
    NoKeyLost
