SPECIFICATION ResourcesSpec
CONSTANTS
    Threads = {t1, t2}
    Messages = {m1, m2, m3}
    Types <- SomeTypes
    Table <- OneClass
    SlabSize = 6
    MaxAllocSize = 2
    MaxBatchSize = 2
    InlineSize = 1
    MaxSlabs = 2
    Senders = {s1, s2}
    Workers = {w1, w2}
    Home = w1
    Depth = 2
    MaxBatch = 1
    MaxSends = 3
    MaxCommands = 1
INVARIANTS PoolConsistent SnapshotTrue
SYMMETRY Symmetry
CHECK_DEADLOCK FALSE
