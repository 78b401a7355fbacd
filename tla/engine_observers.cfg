\* Two threads call get and set while a third enumerates or reads the statistics.
CONSTANTS
    k1 = k1
    Threads = {t1, t2}
    Observers = {o1}
    Keys = {k1, k2, k3}
    Values = {v1}
    Nodes = {n1, n2, n3}
    Null = Null
    BucketCount = 2
    Hash <- TwoBuckets
    Counters = 4
    MaxGets = 2
CHECK_DEADLOCK FALSE
SPECIFICATION OSpec
SYMMETRY Symmetry
INVARIANTS StatisticsBalance EnumerateComplete CleanEnd
PROPERTY StatisticsTimely
