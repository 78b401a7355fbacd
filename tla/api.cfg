\* Two clients on one name, good and bad bodies, connections that fail and
\* handlers that run out of memory.
CONSTANTS
    Clients = {c1, c2}
    Names = {n}
    Bodies = {"value", "syntax", "array", "no member", "number"}
    None = None
    Garbage = Garbage
    MaxCalls = 3
    MaxFaults = 1
CHECK_DEADLOCK FALSE
SPECIFICATION Spec
INVARIANTS RepliesTruthful StoreExplained IllFormedRefused
PROPERTIES CallsReturn
