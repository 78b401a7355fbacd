\* Three threads, every key in one bucket: the lists, who owns the nodes, and
\* every interleaving of get and set is one of a dictionary.
CONSTANTS
    t1 = t1  t2 = t2  t3 = t3
    n1 = n1  n2 = n2  n3 = n3
    v1 = v1  v2 = v2
    Threads = {t1, t2, t3}
    Keys = {k1, k2, k3}
    Values = {v1, v2}
    Nodes = {n1, n2, n3}
    Null = Null
    BucketCount = 1
    Hash <- OneBucket
    Counters = 1
SPECIFICATION Spec
SYMMETRY Symmetry
INVARIANTS OneNodePerKey NoDanglingPointer OneOwner IInv
PROPERTIES AppendOnly Linearizable
