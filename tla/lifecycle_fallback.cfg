\* A build without a native atomic shared_ptr.
CONSTANTS
    Keys = {k1, k2}
    Values = {v1}
    Workers = {w1, w2}
    None = None
    Exited = Exited
    NotString = NotString
    InitialFiles <- NoFile
    Builds = {"fallback"}
    MaxRuns = 1
CHECK_DEADLOCK FALSE
SPECIFICATION FairSpec
PROPERTY ComesToServe
