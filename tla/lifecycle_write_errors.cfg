\* Write errors that save() does not look at.
CONSTANTS
    Keys = {k1, k2}
    Values = {v1}
    Workers = {w1, w2}
    None = None
    Exited = Exited
    NotString = NotString
    InitialFiles <- NoFile
    Builds = {"native"}
    MaxRuns = 1
CHECK_DEADLOCK FALSE
SPECIFICATION Spec
INVARIANT SavedMeansSaved
