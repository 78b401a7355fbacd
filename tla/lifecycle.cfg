\* Two runs and what the file carries from one to the next.
CONSTANTS
    Keys = {k1, k2}
    Values = {v1, v2}
    Workers = {w1, w2}
    None = None
    Exited = Exited
    NotString = NotString
    InitialFiles <- AnyFile
    Builds = {"native", "fallback"}
    MaxRuns = 2
CHECK_DEADLOCK FALSE
SPECIFICATION FairSpec
INVARIANTS MemorySafe
PROPERTIES LoadsWhatWasSaved KeysKept ServesAndStops
