------------------------- MODULE AllocatorFactoryProofs -------------------------
(***************************************************************************)
(* The assertion of get_current_thread_allocator and the safety of its     *)
(* map, for any set of threads.                                            *)
(***************************************************************************)
EXTENDS AllocatorFactory, TLAPS

\* Nobody holds a lock and the map is empty.
LEMMA InitIInv == Init => IInv
  BY NoneIsNoThread
  DEF Init, IInv, TypeOK, LocksHeld, InsertionSucceeds, Labels

\* One step per operation; the locks' part of the invariant is what a step of
\* one thread needs to know about the others.
LEMMA NextIInv == IInv /\ [Next]_vars => IInv'
<1> USE NoneIsNoThread
    DEF IInv, TypeOK, LocksHeld, InsertionSucceeds, Labels, Goto
<1> SUFFICES ASSUME IInv, [Next]_vars PROVE IInv'
  OBVIOUS
<1>1. ASSUME NEW t \in Threads, Call(t) PROVE IInv'
  BY <1>1 DEF Call
<1>2. ASSUME NEW t \in Threads, LockShared(t) PROVE IInv'
  BY <1>2 DEF LockShared
<1>3. ASSUME NEW t \in Threads, FindHit(t) PROVE IInv'
  BY <1>3 DEF FindHit
<1>4. ASSUME NEW t \in Threads, FindMiss(t) PROVE IInv'
  BY <1>4 DEF FindMiss
<1>5. ASSUME NEW t \in Threads, LockUnique(t) PROVE IInv'
  BY <1>5 DEF LockUnique
<1>6. ASSUME NEW t \in Threads, Emplace(t) PROVE IInv'
  BY <1>6 DEF Emplace
<1>7. CASE UNCHANGED vars
  BY <1>7 DEF vars
<1> QED
  BY <1>1, <1>2, <1>3, <1>4, <1>5, <1>6, <1>7 DEF Next, Step

\* Whoever is in the map's critical sections holds the lock for it, and a thread
\* about to insert is not in the map.
THEOREM Invariance == Spec => []IInv
  BY InitIInv, NextIInv, PTL DEF Spec

\* The assertion at the insertion never fails: nobody else inserts the key.
THEOREM AssertionHolds == Spec => []InsertionSucceeds
<1>1. IInv => InsertionSucceeds
  BY DEF IInv
<1> QED
  BY Invariance, <1>1, PTL

\* Nobody searches or changes the map while a thread inserts into it.
THEOREM MapSafe == Spec => []MapNotRaced
<1>1. IInv => MapNotRaced
  <2> SUFFICES ASSUME IInv, NEW t \in Threads, NEW u \in Threads,
                      pc[t] = "emplace", u # t
               PROVE  pc[u] \notin {"find", "emplace"}
    BY DEF MapNotRaced
  <2>1. writer = t /\ readers = {}
    BY NoneIsNoThread DEF IInv, LocksHeld
  <2> QED
    BY <2>1 DEF IInv, LocksHeld
<1> QED
  BY Invariance, <1>1, PTL
=============================================================================
