\* Two connections of one worker whose peers hang up and reset.
CONSTANTS
    Conns = {c1, c2}
    None = None
    Timeout = 1
    MaxChunks = 2
    Manners = {"hang up", "reset"}
CHECK_DEADLOCK FALSE
SPECIFICATION Spec
SYMMETRY Symmetry
INVARIANTS Alive FlagsTruthful RepliesOwn
