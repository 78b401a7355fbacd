---------------------------- MODULE MCDataEngine ----------------------------
(***************************************************************************)
(* Small instances of DataEngine for TLC, in which every key collides.     *)
(***************************************************************************)
EXTENDS DataEngine, TLC

CONSTANTS t1

OneBucket == [k \in Keys |-> 7]

\* Every key collides and no thread, key, node or value plays a special part.
Symmetry == Permutations(Keys) \cup Permutations(Values)
                \cup Permutations(Threads) \cup Permutations(Nodes)

\* The steps of get and set that work on the lists: atomic loads, CASes and
\* the count. create_node may wait for the lock of the allocators' map, and the
\* library's atomic<shared_ptr> for another thread's access to the value.
ListStep(t) ==
    \/ GetBucket(t)
    \/ GetNext(t)
    \/ GetHit(t)
    \/ GetMiss(t)
    \/ LinkFirst(t)
    \/ BucketTaken(t)
    \/ LinkNext(t)
    \/ Advance(t)

\* The thread looks for its key in a list, or for the end of it.
InList(t) ==
    \/ pc[t] \in {"get_bucket", "get_walk", "set_bucket"}
    \/ pc[t] = "set_walk" /\ m_key[node[t]] # call[t].key

\* The operating system schedules t1 while it is in a list. Any other thread
\* may stop for ever at any step, and so may t1 everywhere else.
OneFairThread == Spec /\ WF_vars(ListStep(t1))

\* The lists are lock-free: a thread that get or set has brought to a list
\* comes to its key or to the end by its own steps, wherever others have
\* stopped and however much they append meanwhile. Nothing is claimed of
\* create_node, nor of loading or storing a value, which can block.
NonBlocking == [](InList(t1) => <>~InList(t1))
=============================================================================
