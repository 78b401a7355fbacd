\* One thread is scheduled in the lists, the others may stop anywhere: it still
\* comes to its key or to the end.
CONSTANTS
    t1 = t1  t2 = t2  t3 = t3
    n1 = n1  n2 = n2  n3 = n3
    v1 = v1
    Threads = {t1, t2, t3}
    Keys = {k1, k2}
    Values = {v1}
    Nodes = {n1, n2, n3}
    Null = Null
    BucketCount = 1
    Hash <- OneBucket
    Counters = 1
SPECIFICATION OneFairThread
PROPERTY NonBlocking
