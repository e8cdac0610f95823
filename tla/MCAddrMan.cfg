SPECIFICATION Spec
CONSTANTS
    Addrs = {a1, a2, a3, a4}
    Sources = {1, 2, 3}
    NewBuckets = {1, 2, 3}
    TriedBuckets = {1}
    NewBucket <- MCNewBucket
    TriedBucket <- MCTriedBucket
    NewSize = 1
    TriedSize = 2
    PerAddress = 2
    Inspect = 4
    MaxPercent = 75
    MaxNodes = 2
SYMMETRY AddrSymmetry
INVARIANTS
    TypeOK
    Check
    BucketsBounded
    DumpKeepsAll
PROPERTY
    TriedNotDeleted
