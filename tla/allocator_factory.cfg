\* Three threads that ask for their allocators again and again.
CONSTANTS
    Threads = {t1, t2, t3}
    None = None
SPECIFICATION FairSpec
INVARIANTS MapNotRaced InsertionSucceeds
PROPERTY RegisteredReturns
