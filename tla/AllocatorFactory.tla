--------------------------- MODULE AllocatorFactory ---------------------------
(***************************************************************************)
(* AllocatorFactory::get_current_thread_allocator: the allocator of each   *)
(* thread, in a map behind a shared_mutex. create_node asks for it on every*)
(* call of set: the one place where a thread of the engine can wait.       *)
(***************************************************************************)
EXTENDS FiniteSets

CONSTANTS
    Threads,
    None        \* no thread

ASSUME NoneIsNoThread == None \notin Threads

VARIABLES
    pc,         \* where each thread is
    readers,    \* the holders of protect's shared lock
    writer,     \* the holder of its unique lock
    allocators  \* the threads the map has an allocator for

vars == <<pc, readers, writer, allocators>>

Labels == {"idle", "lock_read", "find", "lock_write", "emplace"}

TypeOK ==
    /\ pc \in [Threads -> Labels]
    /\ readers \subseteq Threads
    /\ writer \in Threads \cup {None}
    /\ allocators \subseteq Threads

Init ==
    /\ pc = [t \in Threads |-> "idle"]
    /\ readers = {}
    /\ writer = None
    /\ allocators = {}

Goto(t, label) == pc' = [pc EXCEPT ![t] = label]

Call(t) ==
    /\ pc[t] = "idle"
    /\ Goto(t, "lock_read")
    /\ UNCHANGED <<readers, writer, allocators>>

LockShared(t) ==
    /\ pc[t] = "lock_read"
    /\ writer = None
    /\ readers' = readers \cup {t}
    /\ Goto(t, "find")
    /\ UNCHANGED <<writer, allocators>>

\* find succeeds: the caller gets a reference into the map, which never erases.
FindHit(t) ==
    /\ pc[t] = "find"
    /\ t \in allocators
    /\ readers' = readers \ {t}
    /\ Goto(t, "idle")
    /\ UNCHANGED <<writer, allocators>>

\* Faulty: the end of the map is not compared with what find returned.
FindMiss_Always(t) ==
    /\ pc[t] = "find"
    /\ readers' = readers \ {t}
    /\ Goto(t, "lock_write")
    /\ UNCHANGED <<writer, allocators>>

\* find fails, and the shared lock is released before the unique one is taken.
FindMiss(t) ==
    /\ pc[t] = "find"
    /\ t \notin allocators
    /\ readers' = readers \ {t}
    /\ Goto(t, "lock_write")
    /\ UNCHANGED <<writer, allocators>>

\* Faulty: a shared lock is taken to insert.
LockUnique_Shared(t) ==
    /\ pc[t] = "lock_write"
    /\ writer = None
    /\ readers' = readers \cup {t}
    /\ Goto(t, "emplace")
    /\ UNCHANGED <<writer, allocators>>

LockUnique(t) ==
    /\ pc[t] = "lock_write"
    /\ writer = None
    /\ readers = {}
    /\ writer' = t
    /\ Goto(t, "emplace")
    /\ UNCHANGED <<readers, allocators>>

Emplace(t) ==
    /\ pc[t] = "emplace"
    /\ allocators' = allocators \cup {t}
    /\ writer' = None
    /\ Goto(t, "idle")
    /\ UNCHANGED readers

Step(t) ==
    \/ LockShared(t)
    \/ FindHit(t)
    \/ FindMiss(t)
    \/ LockUnique(t)
    \/ Emplace(t)

Next == \E t \in Threads : Call(t) \/ Step(t)

Spec == Init /\ [][Next]_vars

\* The operating system schedules every thread. A lock is not fair: a thread
\* gets it when it is free and stays free, glibc's readers come before writers.
FairSpec == Spec /\ \A t \in Threads : WF_vars(Step(t))

-----------------------------------------------------------------------------
(* Properties.                                                             *)

\* The map does not change while it is searched or changed: emplace may rehash
\* the buckets that find is walking.
MapNotRaced == \A t, u \in Threads :
    pc[t] = "emplace" /\ u # t => pc[u] \notin {"find", "emplace"}

\* The assertion after emplace: between the search and the insertion, under two
\* locks, nobody has inserted the thread's key.
InsertionSucceeds == \A t \in Threads :
    pc[t] \in {"lock_write", "emplace"} => t \notin allocators

\* The locks' holders are where they should be; what keeps the map from
\* races, and with the insertion's success an inductive invariant.
LocksHeld ==
    /\ readers = {t \in Threads : pc[t] = "find"}
    /\ \A t \in Threads : pc[t] = "emplace" <=> writer = t
    /\ writer # None => readers = {}

IInv == TypeOK /\ LocksHeld /\ InsertionSucceeds

\* A thread that has its allocator gets it again: it waits only for the first
\* calls of others, each of which ends. (A first call may starve: the unique lock is
\* free only when no reader overlaps the next.)
RegisteredReturns == \A t \in Threads :
    t \in allocators /\ pc[t] # "idle" ~> pc[t] = "idle"
=============================================================================
