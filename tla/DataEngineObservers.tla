-------------------------- MODULE DataEngineObservers --------------------------
(***************************************************************************)
(* The operations of DataEngine that look at the whole table while get and *)
(* set run: enumerate, get_read_statistics, and the destructor that ends   *)
(* it. main calls enumerate when the workers have stopped; the class allows*)
(* it at any time, and so does this module.                                *)
(***************************************************************************)
EXTENDS DataEngine, Sequences

CONSTANTS
    Observers,  \* threads that enumerate or read the statistics
    MaxGets     \* bound on the calls of get

ASSUME CountersDoNotWrap == MaxGets \in Nat /\ MaxGets < Counters

VARIABLES
    at,         \* where each observer is
    bucket,     \* enumerate: the bucket it is in (BucketCount: past the last),
    cursor,     \*   its local variable node,
    visited,    \*   the keys its visitor was called with
    success,    \* get_read_statistics: the counter it has loaded
    reads,      \*   and the statistics it has returned
    life,       \* "alive", "destroying" (in the destructor) or "destroyed"
    swept,      \* the destructor: the buckets it has begun with,
    doomed,     \*   its local variable node
    \* Auxiliary, read by no guard:
    before,     \* the nodes that were published when the enumeration began
    least       \* the calls of get that had returned when the statistics began

observer == <<at, bucket, cursor, visited, success, reads, before, least>>
ending == <<life, swept, doomed>>
ovars == <<vars, observer, ending>>

OTypeOK ==
    /\ at \in [Observers -> {"idle", "enumerate", "statistics"}]
    /\ bucket \in [Observers -> 0 .. BucketCount]
    /\ cursor \in [Observers -> Nodes \cup {Null}]
    /\ visited \in [Observers -> Seq(Keys)]
    /\ success \in [Observers -> 0 .. (Counters - 1)]
    /\ reads \in [Observers -> 0 .. (2 * Counters)]
    /\ life \in {"alive", "destroying", "destroyed"}
    /\ swept \in 0 .. BucketCount
    /\ doomed \in Nodes \cup {Null}
    /\ before \in [Observers -> SUBSET Nodes]
    /\ least \in [Observers -> 0 .. MaxGets]

OInit ==
    /\ Init
    /\ at = [o \in Observers |-> "idle"]
    /\ bucket = [o \in Observers |-> 0]
    /\ cursor = [o \in Observers |-> Null]
    /\ visited = [o \in Observers |-> <<>>]
    /\ success = [o \in Observers |-> 0]
    /\ reads = [o \in Observers |-> 0]
    /\ life = "alive"
    /\ swept = 0
    /\ doomed = Null
    /\ before = [o \in Observers |-> {}]
    /\ least = [o \in Observers |-> 0]

-----------------------------------------------------------------------------
(* enumerate                                                               *)

EnumerateBegin(o) ==
    /\ life = "alive" /\ at[o] = "idle"
    /\ at' = [at EXCEPT ![o] = "enumerate"]
    /\ bucket' = [bucket EXCEPT ![o] = 0]
    /\ visited' = [visited EXCEPT ![o] = <<>>]
    /\ before' = [before EXCEPT ![o] = Published]
    /\ UNCHANGED <<vars, cursor, success, reads, least, ending>>

\* The head of the next bucket, when the list of the last one is at its end.
EnumerateBucket(o) ==
    /\ at[o] = "enumerate" /\ cursor[o] = Null /\ bucket[o] < BucketCount
    /\ cursor' = [cursor EXCEPT ![o] = m_buckets[bucket[o]]]
    /\ bucket' = [bucket EXCEPT ![o] = @ + 1]
    /\ UNCHANGED <<vars, at, visited, success, reads, before, least, ending>>

\* Faulty: the last node of a list is not visited.
EnumerateVisit_ToLast(o) ==
    /\ at[o] = "enumerate" /\ cursor[o] # Null
    /\ visited' = IF m_next[cursor[o]] = Null THEN visited
                  ELSE [visited EXCEPT ![o] = Append(@, m_key[cursor[o]])]
    /\ cursor' = [cursor EXCEPT ![o] = m_next[cursor[o]]]
    /\ UNCHANGED <<vars, at, bucket, success, reads, before, least, ending>>

\* The visitor is called with the node's key and value, and the walk goes on.
EnumerateVisit(o) ==
    /\ at[o] = "enumerate" /\ cursor[o] # Null
    /\ visited' = [visited EXCEPT ![o] = Append(@, m_key[cursor[o]])]
    /\ cursor' = [cursor EXCEPT ![o] = m_next[cursor[o]]]
    /\ UNCHANGED <<vars, at, bucket, success, reads, before, least, ending>>

EnumerateEnd(o) ==
    /\ at[o] = "enumerate" /\ cursor[o] = Null /\ bucket[o] = BucketCount
    /\ at' = [at EXCEPT ![o] = "idle"]
    /\ UNCHANGED <<vars, bucket, cursor, visited, success, reads, before, least, ending>>

-----------------------------------------------------------------------------
(* get_read_statistics: two loads, one after the other.                    *)

LoadSuccess(o) ==
    /\ life = "alive" /\ at[o] = "idle"
    /\ at' = [at EXCEPT ![o] = "statistics"]
    /\ success' = [success EXCEPT ![o] = m_successReads]
    /\ least' = [least EXCEPT ![o] = returned]
    /\ UNCHANGED <<vars, bucket, cursor, visited, reads, before, ending>>

\* Faulty: the total is that of the first counter alone.
LoadFailed_NotAdded(o) ==
    /\ at[o] = "statistics"
    /\ at' = [at EXCEPT ![o] = "idle"]
    /\ reads' = [reads EXCEPT ![o] = success[o]]
    /\ UNCHANGED <<vars, bucket, cursor, visited, success, before, least, ending>>

\* The "total" of the reply is the sum of the two loads.
LoadFailed(o) ==
    /\ at[o] = "statistics"
    /\ at' = [at EXCEPT ![o] = "idle"]
    /\ reads' = [reads EXCEPT ![o] = success[o] + m_failedReads]
    /\ UNCHANGED <<vars, bucket, cursor, visited, success, before, least, ending>>

-----------------------------------------------------------------------------
(* The destructor. main owns the engine: nobody uses it any more.          *)

DestroyBegin ==
    /\ life = "alive"
    /\ \A t \in Threads : pc[t] = "idle"
    /\ \A o \in Observers : at[o] = "idle"
    /\ life' = "destroying"
    /\ UNCHANGED <<vars, observer, swept, doomed>>

DestroyBucket ==
    /\ life = "destroying" /\ doomed = Null /\ swept < BucketCount
    /\ doomed' = m_buckets[swept]
    /\ swept' = swept + 1
    /\ UNCHANGED <<vars, observer, life>>

\* delete_self: the value and the node go back to the allocator, which may
\* write to the memory.
Deallocate(n) ==
    /\ m_key' = [m_key EXCEPT ![n] = Null]
    /\ m_ptrValue' = [m_ptrValue EXCEPT ![n] = Null]
    /\ m_next' = [m_next EXCEPT ![n] = Null]

\* Faulty: m_next is read after the node has been deallocated.
DestroyNode_LateNext ==
    /\ life = "destroying" /\ doomed # Null
    /\ Deallocate(doomed)
    /\ doomed' = m_next'[doomed]
    /\ UNCHANGED <<m_buckets, counts, pc, locals, ahead, observer, life, swept>>

\* The next node is read before the node is deallocated.
DestroyNode ==
    /\ life = "destroying" /\ doomed # Null
    /\ doomed' = m_next[doomed]
    /\ Deallocate(doomed)
    /\ UNCHANGED <<m_buckets, counts, pc, locals, ahead, observer, life, swept>>

DestroyEnd ==
    /\ life = "destroying" /\ doomed = Null /\ swept = BucketCount
    /\ life' = "destroyed"
    /\ m_buckets' = [b \in Buckets |-> Null]
    /\ UNCHANGED <<fields, counts, pc, locals, ahead, observer, swept, doomed>>

-----------------------------------------------------------------------------
Getting == {t \in Threads : call[t].op = "get"}

\* A call of the engine by a worker; MaxGets bounds the counters.
EngineStep(t) ==
    /\ life = "alive"
    /\ \/ /\ returned + Cardinality(Getting) < MaxGets
          /\ \E key \in Keys : CallGet(t, key)
       \/ \E key \in Keys, value \in Values : CallSet(t, key, value)
       \/ Step(t)
    /\ UNCHANGED <<observer, ending>>

Observe(o) ==
    \/ EnumerateBegin(o)
    \/ EnumerateBucket(o)
    \/ EnumerateVisit(o)
    \/ EnumerateEnd(o)
    \/ LoadSuccess(o)
    \/ LoadFailed(o)

Destroy ==
    \/ DestroyBegin
    \/ DestroyBucket
    \/ DestroyNode
    \/ DestroyEnd

ONext ==
    \/ \E t \in Threads : EngineStep(t)
    \/ \E o \in Observers : Observe(o)
    \/ Destroy

OSpec == OInit /\ [][ONext]_ovars

-----------------------------------------------------------------------------
(* Properties.                                                             *)

VisitedKeys(o) == {visited[o][i] : i \in DOMAIN visited[o]}

VisitedOnce(o) ==
    \A i, j \in DOMAIN visited[o] : visited[o][i] = visited[o][j] => i = j

\* Whatever get and set do meanwhile, an enumeration visits every key that was
\* there when it began, and none twice: store_data saves each record once.
EnumerateComplete == \A o \in Observers :
    /\ VisitedOnce(o)
    /\ life = "alive" /\ at[o] = "idle" =>
           \A n \in before[o] : m_key[n] \in VisitedKeys(o)

\* The statistics are no snapshot, but their total misses no lookup that had
\* returned before they were asked for and counts none that has not begun.
StatisticsTimely ==
    [][\A o \in Observers : at[o] = "statistics" /\ at'[o] = "idle" =>
          /\ least[o] <= reads'[o]
          /\ reads'[o] <= returned + Cardinality(Getting)]_ovars

\* The destructor deallocates every node and touches none it has deallocated.
DestroysAll ==
    /\ life = "destroying" => doomed = Null \/ doomed \in Allocated
    /\ life = "destroyed" => Allocated = {}

\* The state is of its type while get, set, enumerate and the statistics run, and
\* the destructor leaves no node behind and touches none it has deallocated.
CleanEnd == OTypeOK /\ DestroysAll

-----------------------------------------------------------------------------
(* The inductive invariant.                                                *)

\* A list is one chain: from the head every node in it is reached, in order.
ChainInv == \A n \in Published :
    /\ m_buckets[BucketOf(m_key[n])] \in ahead[n] \cup {n}
    /\ \A m \in ahead[n] : m_next[m] \in ahead[n] \cup {n}

\* No counter has wrapped: they hold the lookups, and MaxGets bounds these.
CountInv ==
    /\ m_successReads + m_failedReads = returned + Cardinality(Looked)
    /\ returned + Cardinality(Getting) <= MaxGets

\* The first counter was read, it can only have grown, and what it misses of
\* the lookups that had returned is in the second.
StatisticsInv(o) ==
    at[o] = "statistics" => /\ success[o] <= m_successReads
                            /\ least[o] <= success[o] + m_failedReads

\* The enumeration is past node n, or past the end of its list.
Behind(o, n) ==
    \/ at[o] # "enumerate"
    \/ BucketOf(m_key[n]) + 1 < bucket[o]
    \/ /\ BucketOf(m_key[n]) + 1 = bucket[o]
       /\ cursor[o] = Null \/ n \in ahead[cursor[o]]

\* The visitor has been called with the keys behind the cursor and no others.
EnumerateInv(o) ==
    /\ at[o] # "enumerate" => cursor[o] = Null
    /\ cursor[o] # Null => /\ cursor[o] \in Published
                           /\ BucketOf(m_key[cursor[o]]) + 1 = bucket[o]
    /\ before[o] \subseteq Published
    /\ \A n \in before[o] : Behind(o, n) => m_key[n] \in VisitedKeys(o)
    /\ \A k \in VisitedKeys(o) : \E n \in Published : m_key[n] = k /\ Behind(o, n)

\* Node n is still to be deallocated: its bucket is not swept yet, or it is the
\* doomed node or behind it.
Owed(n) ==
    \/ BucketOf(m_key[n]) >= swept
    \/ /\ BucketOf(m_key[n]) + 1 = swept
       /\ doomed # Null
       /\ doomed \in ahead[n] \cup {n}

\* What is left of the lists while the destructor runs.
DestroyInv ==
    /\ doomed # Null => doomed \in Allocated /\ BucketOf(m_key[doomed]) + 1 = swept
    /\ \A n \in Allocated : Owed(n) /\ \A m \in ahead[n] : n \notin ahead[m]
    /\ \A b \in Buckets : b >= swept =>
        IF m_buckets[b] = Null
        THEN \A n \in Allocated : BucketOf(m_key[n]) # b
        ELSE /\ m_buckets[b] \in Allocated
             /\ BucketOf(m_key[m_buckets[b]]) = b
             /\ \A n \in Allocated :
                    BucketOf(m_key[n]) = b => m_buckets[b] \in ahead[n] \cup {n}
    /\ \A m \in Allocated :
        IF m_next[m] = Null
        THEN \A n \in Allocated : m \notin ahead[n]
        ELSE /\ m_next[m] \in Allocated
             /\ SameBucket(m_key[m_next[m]], m_key[m])
             /\ m \in ahead[m_next[m]]
             /\ \A n \in Allocated :
                    m \in ahead[n] => m_next[m] \in ahead[n] \cup {n}

OIInv ==
    /\ TypeOK /\ OTypeOK /\ CountInv
    /\ \A o \in Observers : StatisticsInv(o) /\ VisitedOnce(o)
    /\ life = "alive" => /\ IInv /\ ChainInv
                         /\ \A o \in Observers : EnumerateInv(o)
                         /\ swept = 0 /\ doomed = Null
    /\ life # "alive" => /\ \A t \in Threads : pc[t] = "idle"
                         /\ \A o \in Observers : at[o] = "idle"
    /\ life = "destroying" => DestroyInv
    /\ life = "destroyed" => Allocated = {} /\ doomed = Null
=============================================================================
