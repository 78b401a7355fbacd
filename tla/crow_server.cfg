\* Three workers, stopped by a signal or by a call at any time; and one
\* connection whose peer may hang up or reset at any time.
CONSTANTS
    WorkerCount = 3
    MaxConnections = 5
    Conns = {c1}
    None = None
    Timeout = 2
    MaxChunks = 4
    Manners = {"hang up", "reset"}
CHECK_DEADLOCK FALSE
SPECIFICATION EitherSpec
INVARIANTS LoadSpread WorkersReady
PROPERTIES StartsAndStops ConnectionsEnd
