------------------------------ MODULE DataEngine ------------------------------
(***************************************************************************)
(* The lock-free hash table of DataEngine.cpp: a fixed array of buckets,   *)
(* each a singly linked list of nodes that only ever grows at its tail.    *)
(* One action is one access to shared memory (an atomic load, store, CAS   *)
(* or fetch_add) with the thread-local code around it; the plain fields of *)
(* a node (m_key) are written before the node is published.                *)
(*                                                                         *)
(* The atomics are sequentially consistent here, which is what the x86     *)
(* builds execute for the code's relaxed operations (README, "Memory       *)
(* order").                                                                *)
(***************************************************************************)
EXTENDS Naturals, FiniteSets

CONSTANTS
    Keys,           \* the keys callers use
    Values,         \* the values callers store
    Threads,        \* the worker threads of the HTTP server
    Nodes,          \* addresses create_node can get from the allocator
    Null,           \* nullptr, std::nullopt
    BucketCount,    \* m_buckets.size()
    Hash,           \* std::hash of a key
    Counters        \* the statistics counters hold values modulo this (2^64)

ASSUME NullIsNothing == Null \notin Keys \cup Values \cup Nodes

\* Replies that are no value: no answer yet, set returned, an exception left.
Outcomes == {"pending", "stored", "failed"}

ASSUME OutcomesAreNotValues == (Values \cup {Null}) \cap Outcomes = {}

\* main.cpp builds the engine with two million buckets.
ASSUME BucketCountPositive == BucketCount \in Nat \ {0}

ASSUME HashOfEveryKey == Hash \in [Keys -> Nat]

ASSUME CountersPositive == Counters \in Nat \ {0}

\* The server starts a fixed number of workers.
ASSUME ThreadsFinite == IsFiniteSet(Threads)

Buckets == 0 .. (BucketCount - 1)

BucketOf(key) == Hash[key] % BucketCount

VARIABLES
    m_buckets,      \* head of each bucket's list
    m_key,          \* the nodes' fields; m_key is Null in memory that is
    m_ptrValue,     \* not allocated
    m_next,
    m_successReads, \* the statistics
    m_failedReads,
    pc,             \* where each thread is in get or set
    call,           \* the thread's arguments
    node,           \* the thread's local variable node
    ptrNewNode,     \* the node the thread owns, until release()
    reply,          \* what the operation answers
    \* Auxiliary, read by no guard:
    ahead,          \* the nodes in front of a published node in its list
    returned        \* calls of get that counted and returned (mod Counters)

fields == <<m_key, m_ptrValue, m_next>>
counts == <<m_successReads, m_failedReads, returned>>
locals == <<call, node, ptrNewNode, reply>>
vars == <<m_buckets, fields, counts, pc, locals, ahead>>

NoCall == [op |-> "none", key |-> Null, value |-> Null]

Calls == {NoCall} \cup [op : {"get"}, key : Keys, value : {Null}]
                  \cup [op : {"set"}, key : Keys, value : Values]

Labels == {"idle", "get_bucket", "get_walk", "get_value", "set_create",
           "set_bucket", "set_walk", "return"}

Allocated == {n \in Nodes : m_key[n] # Null}

\* The nodes some pointer of the shared structure leads to.
Published == {n \in Nodes : \/ \E b \in Buckets : m_buckets[b] = n
                            \/ \E m \in Nodes : m_next[m] = n}

TypeOK ==
    /\ m_buckets \in [Buckets -> Nodes \cup {Null}]
    /\ m_key \in [Nodes -> Keys \cup {Null}]
    /\ m_ptrValue \in [Nodes -> Values \cup {Null}]
    /\ m_next \in [Nodes -> Nodes \cup {Null}]
    /\ m_successReads \in 0 .. (Counters - 1)
    /\ m_failedReads \in 0 .. (Counters - 1)
    /\ pc \in [Threads -> Labels]
    /\ call \in [Threads -> Calls]
    /\ node \in [Threads -> Nodes \cup {Null}]
    /\ ptrNewNode \in [Threads -> Nodes \cup {Null}]
    /\ reply \in [Threads -> Values \cup {Null} \cup Outcomes]
    /\ ahead \in [Nodes -> SUBSET Nodes]
    /\ returned \in 0 .. (Counters - 1)

Init ==
    /\ m_buckets = [b \in Buckets |-> Null]
    /\ m_key = [n \in Nodes |-> Null]
    /\ m_ptrValue = [n \in Nodes |-> Null]
    /\ m_next = [n \in Nodes |-> Null]
    /\ m_successReads = 0
    /\ m_failedReads = 0
    /\ pc = [t \in Threads |-> "idle"]
    /\ call = [t \in Threads |-> NoCall]
    /\ node = [t \in Threads |-> Null]
    /\ ptrNewNode = [t \in Threads |-> Null]
    /\ reply = [t \in Threads |-> "pending"]
    /\ ahead = [n \in Nodes |-> {}]
    /\ returned = 0

-----------------------------------------------------------------------------
(* Calls and returns.                                                      *)

Goto(t, label) == pc' = [pc EXCEPT ![t] = label]

CallGet(t, key) ==
    /\ pc[t] = "idle"
    /\ call' = [call EXCEPT ![t] = [op |-> "get", key |-> key, value |-> Null]]
    /\ Goto(t, "get_bucket")
    /\ UNCHANGED <<m_buckets, fields, counts, node, ptrNewNode, reply, ahead>>

CallSet(t, key, value) ==
    /\ pc[t] = "idle"
    /\ call' = [call EXCEPT ![t] = [op |-> "set", key |-> key, value |-> value]]
    /\ Goto(t, "set_create")
    /\ UNCHANGED <<m_buckets, fields, counts, node, ptrNewNode, reply, ahead>>

\* The operation leaves with answer r and its local variables go.
Finish(t, r) ==
    /\ reply' = [reply EXCEPT ![t] = r]
    /\ node' = [node EXCEPT ![t] = Null]
    /\ Goto(t, "return")

Return(t) ==
    /\ pc[t] = "return"
    /\ call' = [call EXCEPT ![t] = NoCall]
    /\ reply' = [reply EXCEPT ![t] = "pending"]
    /\ returned' = IF call[t].op = "get" THEN (returned + 1) % Counters
                                         ELSE returned
    /\ Goto(t, "idle")
    /\ UNCHANGED <<m_buckets, fields, m_successReads, m_failedReads, node,
                   ptrNewNode, ahead>>

-----------------------------------------------------------------------------
(* get                                                                     *)

GetBucket(t) ==
    /\ pc[t] = "get_bucket"
    /\ node' = [node EXCEPT ![t] = m_buckets[BucketOf(call[t].key)]]
    /\ Goto(t, "get_walk")
    /\ UNCHANGED <<m_buckets, fields, counts, call, ptrNewNode, reply, ahead>>

GetNext(t) ==
    /\ pc[t] = "get_walk"
    /\ node[t] # Null
    /\ m_key[node[t]] # call[t].key
    /\ node' = [node EXCEPT ![t] = m_next[node[t]]]
    /\ UNCHANGED <<m_buckets, fields, counts, pc, call, ptrNewNode, reply, ahead>>

\* Faulty: the counter is not reduced to its width.
GetHit_Overflow(t) ==
    /\ pc[t] = "get_walk"
    /\ node[t] # Null
    /\ m_key[node[t]] = call[t].key
    /\ m_successReads' = m_successReads + 1
    /\ Goto(t, "get_value")
    /\ UNCHANGED <<m_buckets, fields, m_failedReads, returned, locals, ahead>>

GetHit(t) ==
    /\ pc[t] = "get_walk"
    /\ node[t] # Null
    /\ m_key[node[t]] = call[t].key
    /\ m_successReads' = (m_successReads + 1) % Counters
    /\ Goto(t, "get_value")
    /\ UNCHANGED <<m_buckets, fields, m_failedReads, returned, locals, ahead>>

GetValue(t) ==
    /\ pc[t] = "get_value"
    /\ Finish(t, m_ptrValue[node[t]])
    /\ UNCHANGED <<m_buckets, fields, counts, call, ptrNewNode, ahead>>

\* Copying the string out of the shared value can throw std::bad_alloc.
GetCopyThrows(t) ==
    /\ pc[t] = "get_value"
    /\ Finish(t, "failed")
    /\ UNCHANGED <<m_buckets, fields, counts, call, ptrNewNode, ahead>>

\* Faulty: a lookup in an empty bucket is not counted.
GetMiss_EmptyUncounted(t) ==
    /\ pc[t] = "get_walk"
    /\ node[t] = Null
    /\ m_failedReads' = IF m_buckets[BucketOf(call[t].key)] = Null
                        THEN m_failedReads ELSE (m_failedReads + 1) % Counters
    /\ Finish(t, Null)
    /\ UNCHANGED <<m_buckets, fields, m_successReads, returned, call, ptrNewNode, ahead>>

GetMiss(t) ==
    /\ pc[t] = "get_walk"
    /\ node[t] = Null
    /\ m_failedReads' = (m_failedReads + 1) % Counters
    /\ Finish(t, Null)
    /\ UNCHANGED <<m_buckets, fields, m_successReads, returned, call, ptrNewNode, ahead>>

-----------------------------------------------------------------------------
(* set                                                                     *)

\* create_node: the new node is private to the thread. Its address may be one
\* that was freed before. How long get_allocator waits for the lock of its map
\* is left out here and is the matter of AllocatorFactory; no property may
\* therefore rely on this step's being taken.
CreateNode(t, n) ==
    /\ pc[t] = "set_create"
    /\ n \notin Allocated
    /\ m_key' = [m_key EXCEPT ![n] = call[t].key]
    /\ m_ptrValue' = [m_ptrValue EXCEPT ![n] = call[t].value]
    /\ m_next' = [m_next EXCEPT ![n] = Null]
    /\ ptrNewNode' = [ptrNewNode EXCEPT ![t] = n]
    /\ Goto(t, "set_bucket")
    /\ UNCHANGED <<m_buckets, counts, call, node, reply, ahead>>

\* An allocation in create_node throws; nothing is left behind.
CreateNodeThrows(t) ==
    /\ pc[t] = "set_create"
    /\ Finish(t, "failed")
    /\ UNCHANGED <<m_buckets, fields, counts, call, ptrNewNode, ahead>>

\* ptrNewNode.release(): the list owns the node now.
Publish(t, inFront) ==
    /\ ptrNewNode' = [ptrNewNode EXCEPT ![t] = Null]
    /\ ahead' = [ahead EXCEPT ![ptrNewNode[t]] = inFront]
    /\ Finish(t, "stored")

\* Faulty: release() is forgotten after the first CAS, so the published node
\* is deallocated when ptrNewNode goes out of scope.
LinkFirst_NoRelease(t) ==
    /\ pc[t] = "set_bucket"
    /\ m_buckets[BucketOf(call[t].key)] = Null
    /\ m_buckets' = [m_buckets EXCEPT ![BucketOf(call[t].key)] = ptrNewNode[t]]
    /\ m_key' = [m_key EXCEPT ![ptrNewNode[t]] = Null]
    /\ Publish(t, {})
    /\ UNCHANGED <<m_ptrValue, m_next, counts, call>>

\* Faulty: the head is stored, not exchanged, so a racing head is lost.
LinkFirst_Store(t) ==
    /\ pc[t] = "set_bucket"
    /\ m_buckets' = [m_buckets EXCEPT ![BucketOf(call[t].key)] = ptrNewNode[t]]
    /\ Publish(t, {})
    /\ UNCHANGED <<fields, counts, call>>

\* The CAS on the empty bucket succeeds.
LinkFirst(t) ==
    /\ pc[t] = "set_bucket"
    /\ m_buckets[BucketOf(call[t].key)] = Null
    /\ m_buckets' = [m_buckets EXCEPT ![BucketOf(call[t].key)] = ptrNewNode[t]]
    /\ Publish(t, {})
    /\ UNCHANGED <<fields, counts, call>>

\* Faulty: the walk starts behind the head whose CAS it lost.
BucketTaken_SkipsHead(t) ==
    LET head == m_buckets[BucketOf(call[t].key)]
    IN  /\ pc[t] = "set_bucket"
        /\ head # Null
        /\ node' = [node EXCEPT ![t] = IF m_next[head] = Null THEN head ELSE m_next[head]]
        /\ Goto(t, "set_walk")
        /\ UNCHANGED <<m_buckets, fields, counts, call, ptrNewNode, reply, ahead>>

\* The CAS fails and leaves the head of the list in node.
BucketTaken(t) ==
    /\ pc[t] = "set_bucket"
    /\ m_buckets[BucketOf(call[t].key)] # Null
    /\ node' = [node EXCEPT ![t] = m_buckets[BucketOf(call[t].key)]]
    /\ Goto(t, "set_walk")
    /\ UNCHANGED <<m_buckets, fields, counts, call, ptrNewNode, reply, ahead>>

\* Faulty: the new node is released, not deallocated, after the value is taken.
Overwrite_Leak(t) ==
    /\ pc[t] = "set_walk"
    /\ m_key[node[t]] = call[t].key
    /\ m_ptrValue' = [m_ptrValue EXCEPT ![node[t]] = m_ptrValue[ptrNewNode[t]]]
    /\ ptrNewNode' = [ptrNewNode EXCEPT ![t] = Null]
    /\ Finish(t, "stored")
    /\ UNCHANGED <<m_buckets, m_key, m_next, counts, call, ahead>>

\* The key is there: its value is replaced and the new node is deallocated.
Overwrite(t) ==
    /\ pc[t] = "set_walk"
    /\ m_key[node[t]] = call[t].key
    /\ m_ptrValue' = [m_ptrValue EXCEPT ![node[t]] = m_ptrValue[ptrNewNode[t]],
                                        ![ptrNewNode[t]] = Null]
    /\ m_key' = [m_key EXCEPT ![ptrNewNode[t]] = Null]
    /\ ptrNewNode' = [ptrNewNode EXCEPT ![t] = Null]
    /\ Finish(t, "stored")
    /\ UNCHANGED <<m_buckets, m_next, counts, call, ahead>>

\* Faulty: the key of the last node is not compared before linking.
LinkNext_NoKeyCheck(t) ==
    /\ pc[t] = "set_walk"
    /\ m_next[node[t]] = Null
    /\ m_next' = [m_next EXCEPT ![node[t]] = ptrNewNode[t]]
    /\ Publish(t, ahead[node[t]] \cup {node[t]})
    /\ UNCHANGED <<m_buckets, m_key, m_ptrValue, counts, call>>

\* Faulty: m_next is stored, not exchanged, so a racing successor is lost.
LinkNext_Store(t) ==
    /\ pc[t] = "set_walk"
    /\ m_key[node[t]] # call[t].key
    /\ m_next' = [m_next EXCEPT ![node[t]] = ptrNewNode[t]]
    /\ Publish(t, ahead[node[t]] \cup {node[t]})
    /\ UNCHANGED <<m_buckets, m_key, m_ptrValue, counts, call>>

\* The CAS on the last node's m_next succeeds.
LinkNext(t) ==
    /\ pc[t] = "set_walk"
    /\ m_key[node[t]] # call[t].key
    /\ m_next[node[t]] = Null
    /\ m_next' = [m_next EXCEPT ![node[t]] = ptrNewNode[t]]
    /\ Publish(t, ahead[node[t]] \cup {node[t]})
    /\ UNCHANGED <<m_buckets, m_key, m_ptrValue, counts, call>>

\* Faulty: node is not moved on after the CAS fails.
Advance_Stuck(t) ==
    /\ pc[t] = "set_walk"
    /\ m_key[node[t]] # call[t].key
    /\ m_next[node[t]] # Null
    /\ UNCHANGED vars

\* The CAS fails and leaves the next node in nextNode.
Advance(t) ==
    /\ pc[t] = "set_walk"
    /\ m_key[node[t]] # call[t].key
    /\ m_next[node[t]] # Null
    /\ node' = [node EXCEPT ![t] = m_next[node[t]]]
    /\ UNCHANGED <<m_buckets, fields, counts, pc, call, ptrNewNode, reply, ahead>>

-----------------------------------------------------------------------------
GetStep(t) ==
    \/ GetBucket(t)
    \/ GetNext(t)
    \/ GetHit(t)
    \/ GetValue(t)
    \/ GetCopyThrows(t)
    \/ GetMiss(t)

SetStep(t) ==
    \/ \E n \in Nodes : CreateNode(t, n)
    \/ CreateNodeThrows(t)
    \/ LinkFirst(t)
    \/ BucketTaken(t)
    \/ Overwrite(t)
    \/ LinkNext(t)
    \/ Advance(t)

\* What a thread does on its own once it has been called.
Step(t) == GetStep(t) \/ SetStep(t) \/ Return(t)

Next == \E t \in Threads :
    \/ \E key \in Keys : CallGet(t, key)
    \/ \E key \in Keys, value \in Values : CallSet(t, key, value)
    \/ Step(t)

Spec == Init /\ [][Next]_vars

-----------------------------------------------------------------------------
(* Properties.                                                             *)

\* Two racing calls of set on one new key leave one node: the loser of the
\* CAS looks at the winner's key before it links its own node.
OneNodePerKey ==
    \A m, n \in Published : m_key[m] = m_key[n] => m = n

\* No pointer leads to memory that has been deallocated: not from a list, not
\* from the cursor of a get or set, and a node is not reused while one is left.
NoDanglingPointer ==
    /\ Published \subseteq Allocated
    /\ \A t \in Threads : node[t] # Null => node[t] \in Published

\* Every node in memory has one owner, a list or the thread that created it:
\* none is leaked, none is deallocated twice.
OneOwner ==
    /\ Allocated \subseteq Published \cup {ptrNewNode[t] : t \in Threads}
    /\ \A t \in Threads : ptrNewNode[t] # Null =>
          /\ ptrNewNode[t] \in Allocated \ Published
          /\ \A u \in Threads : ptrNewNode[u] = ptrNewNode[t] => u = t

NodesKept ==
    \A n \in Published :
        /\ n \in Published'
        /\ m_key'[n] = m_key[n]
        /\ m_next[n] # Null => m_next'[n] = m_next[n]

\* A published node stays where it is, with its key: readers walk the lists
\* without any protection because nothing is ever unlinked.
AppendOnly == [][NodesKept]_vars

\* The calls of get that have looked their key up and have not returned.
Looked == {t \in Threads : call[t].op = "get" /\ pc[t] \in {"get_value", "return"}}

\* The counters hold the calls of get that have looked their key up, whatever
\* way the threads interleave.
StatisticsBalance ==
    (m_successReads + m_failedReads) % Counters
        = (returned + Cardinality(Looked)) % Counters

\* get and set are atomic: the table implements a dictionary. A lookup takes
\* effect when it reads the end of a list or loads the value; set when its CAS
\* or its store of the value succeeds.
Dictionary ==
    [k \in Keys |->
        IF \E n \in Published : m_key[n] = k
        THEN m_ptrValue[CHOOSE n \in Published : m_key[n] = k]
        ELSE Null]

Answer == [t \in Threads |-> IF pc[t] = "get_walk" /\ node[t] = Null
                             THEN Null ELSE reply[t]]

KVS == INSTANCE KeyValueStore WITH store <- Dictionary, reply <- Answer

Linearizable == KVS!Spec

-----------------------------------------------------------------------------
(* The inductive invariant.                                                *)

SameBucket(k, l) == BucketOf(k) = BucketOf(l)

\* The lists: from each node, ahead is what the walk from the bucket saw.
ListInv ==
    /\ \A n \in Published : m_key[n] \in Keys /\ m_ptrValue[n] \in Values
    /\ \A n \in Nodes \ Published : m_next[n] = Null
    /\ \A b \in Buckets :
        IF m_buckets[b] = Null
        THEN \A n \in Published : BucketOf(m_key[n]) # b
        ELSE BucketOf(m_key[m_buckets[b]]) = b /\ ahead[m_buckets[b]] = {}
    /\ \A n \in Published :
        IF m_next[n] = Null
        THEN \A m \in Published : SameBucket(m_key[m], m_key[n]) =>
                                    m \in ahead[n] \cup {n}
        ELSE /\ SameBucket(m_key[m_next[n]], m_key[n])
             /\ ahead[m_next[n]] = ahead[n] \cup {n}
    /\ \A n \in Published : \A m \in ahead[n] :
        m \in Published /\ SameBucket(m_key[m], m_key[n]) /\ n \notin ahead[m]

\* A walk has passed no node with its key.
Walked(t) ==
    /\ node[t] \in Published
    /\ SameBucket(m_key[node[t]], call[t].key)
    /\ \A m \in ahead[node[t]] : m_key[m] # call[t].key

\* What a thread's local variables say at each point of get and set.
LocalInv(t) ==
    /\ pc[t] = "idle" <=> call[t] = NoCall
    /\ pc[t] \in {"get_bucket", "get_walk", "get_value"} => call[t].op = "get"
    /\ pc[t] \in {"set_create", "set_bucket", "set_walk"} => call[t].op = "set"
    /\ pc[t] # "return" <=> reply[t] = "pending"
    /\ pc[t] = "set_walk" => Walked(t)
    /\ pc[t] = "get_walk" => node[t] = Null \/ Walked(t)
    /\ pc[t] = "get_value" => node[t] \in Published /\ m_key[node[t]] = call[t].key
    /\ pc[t] \notin {"get_walk", "get_value", "set_walk"} => node[t] = Null
    /\ pc[t] \in {"set_bucket", "set_walk"} <=> ptrNewNode[t] # Null
    /\ ptrNewNode[t] # Null => /\ m_key[ptrNewNode[t]] = call[t].key
                               /\ m_ptrValue[ptrNewNode[t]] = call[t].value

ThreadInv == \A t \in Threads : LocalInv(t)

IInv == TypeOK /\ OneNodePerKey /\ OneOwner /\ ListInv /\ ThreadInv
=============================================================================
