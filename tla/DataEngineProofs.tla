--------------------------- MODULE DataEngineProofs ---------------------------
(***************************************************************************)
(* Theorems about DataEngine, for every finite set of threads, all finite  *)
(* or infinite sets of keys, values and nodes, every number of buckets and *)
(* every width of the counters.                                            *)
(***************************************************************************)
EXTENDS DataEngine, FiniteSetTheorems, TLAPS

\* A key has a bucket (the index is the hash modulo the size of the array).
LEMMA BucketType == \A k \in Keys : BucketOf(k) \in Buckets
  BY BucketCountPositive, HashOfEveryKey DEF BucketOf, Buckets

\* Counting modulo the width of a counter stays within it.
LEMMA CountType == \A c \in Nat : (c + 1) % Counters \in 0 .. (Counters - 1)
  BY CountersPositive

-----------------------------------------------------------------------------
(* What a step leaves of the lists.                                        *)

\* Published nodes stay published, with their keys and their predecessors.
Grows ==
    /\ Published \subseteq Published'
    /\ \A n \in Published : m_key'[n] = m_key[n] /\ ahead'[n] = ahead[n]

\* A step that writes no shared field leaves the lists as they are.
LEMMA ListsUnchanged ==
  ASSUME OneNodePerKey, ListInv, UNCHANGED <<m_buckets, fields, ahead>>
  PROVE  Published' = Published /\ Grows /\ OneNodePerKey' /\ ListInv'
BY DEF Published, Grows, OneNodePerKey, ListInv, fields, SameBucket

\* The local variables of a thread that does not move still describe the
\* lists when another thread has made them grow.
LEMMA OtherThread ==
  ASSUME ListInv, Grows, NEW u \in Threads, LocalInv(u),
         pc'[u] = pc[u], call'[u] = call[u], node'[u] = node[u],
         reply'[u] = reply[u], ptrNewNode'[u] = ptrNewNode[u],
         ptrNewNode[u] # Null =>
            /\ m_key'[ptrNewNode[u]] = m_key[ptrNewNode[u]]
            /\ m_ptrValue'[ptrNewNode[u]] = m_ptrValue[ptrNewNode[u]]
  PROVE  LocalInv(u)'
<1>1. Walked(u) => Walked(u)'
  <2> SUFFICES ASSUME Walked(u) PROVE Walked(u)'
    OBVIOUS
  <2>1. \A m \in ahead[node[u]] : m \in Published
    BY DEF ListInv, Walked
  <2> QED
    BY <2>1 DEF Walked, Grows, SameBucket
<1>2. node[u] \in Published => node'[u] \in Published' /\ m_key'[node[u]] = m_key[node[u]]
  BY DEF Grows
<1> QED
  BY <1>1, <1>2 DEF LocalInv

\* A thread that publishes, creates or frees nothing keeps the invariant if its
\* own local variables fit the place it goes to.
LEMMA LocalStep ==
  ASSUME IInv, NEW t \in Threads, TypeOK', LocalInv(t)',
         UNCHANGED <<m_buckets, fields, ahead, ptrNewNode>>,
         \A u \in Threads \ {t} : /\ pc'[u] = pc[u] /\ call'[u] = call[u]
                                  /\ node'[u] = node[u] /\ reply'[u] = reply[u]
  PROVE  IInv'
<1>1. Published' = Published /\ Grows /\ OneNodePerKey' /\ ListInv'
  BY ListsUnchanged DEF IInv
<1>2. OneOwner'
  BY <1>1 DEF IInv, OneOwner, Allocated, fields
<1>3. ASSUME NEW u \in Threads PROVE LocalInv(u)'
  <2>1. CASE u = t
    BY <2>1
  <2>2. CASE u # t
    BY <2>2, <1>1, OtherThread DEF IInv, ThreadInv, fields
  <2> QED
    BY <2>1, <2>2
<1> QED
  BY <1>1, <1>2, <1>3 DEF IInv, ThreadInv

\* Calling and returning keep the invariant.
LEMMA CallsKeepIInv ==
  ASSUME IInv, NEW t \in Threads
  PROVE  /\ \A key \in Keys : CallGet(t, key) => IInv'
         /\ \A key \in Keys, value \in Values : CallSet(t, key, value) => IInv'
         /\ Return(t) => IInv'
<1> USE DEF Goto, fields, counts, locals
<1> LocalInv(t) /\ TypeOK
  BY DEF IInv, ThreadInv
<1>1. ASSUME NEW key \in Keys, CallGet(t, key) PROVE IInv'
  <2>1. TypeOK'
    BY <1>1 DEF TypeOK, CallGet, Calls, Labels
  <2>2. LocalInv(t)'
    BY <1>1 DEF LocalInv, CallGet, TypeOK, NoCall
  <2> QED
    BY <1>1, <2>1, <2>2, LocalStep DEF CallGet, TypeOK
<1>2. ASSUME NEW key \in Keys, NEW value \in Values, CallSet(t, key, value)
      PROVE  IInv'
  <2>1. TypeOK'
    BY <1>2 DEF TypeOK, CallSet, Calls, Labels
  <2>2. LocalInv(t)'
    BY <1>2 DEF LocalInv, CallSet, TypeOK, NoCall
  <2> QED
    BY <1>2, <2>1, <2>2, LocalStep DEF CallSet, TypeOK
<1>3. ASSUME Return(t) PROVE IInv'
  <2>1. TypeOK'
    BY <1>3, CountType DEF TypeOK, Return, Calls, Labels, Outcomes
  <2>2. LocalInv(t)'
    BY <1>3 DEF LocalInv, Return, TypeOK
  <2> QED
    BY <1>3, <2>1, <2>2, LocalStep DEF Return, TypeOK
<1> QED
  BY <1>1, <1>2, <1>3

\* A walk that moves to the next node has still passed no node with its key.
LEMMA WalkOn ==
  ASSUME ListInv, NEW t \in Threads, Walked(t), TypeOK,
         m_key[node[t]] # call[t].key, m_next[node[t]] # Null
  PROVE  /\ m_next[node[t]] \in Published
         /\ SameBucket(m_key[m_next[node[t]]], call[t].key)
         /\ \A m \in ahead[m_next[node[t]]] : m_key[m] # call[t].key
<1>1. node[t] \in Nodes /\ m_next[node[t]] \in Published
  BY DEF Walked, Published, TypeOK
<1>2. /\ SameBucket(m_key[m_next[node[t]]], m_key[node[t]])
      /\ ahead[m_next[node[t]]] = ahead[node[t]] \cup {node[t]}
  BY DEF ListInv, Walked
<1> QED
  BY <1>1, <1>2 DEF Walked, SameBucket

\* The head of a bucket is the first node of the walk.
LEMMA WalkStarts ==
  ASSUME ListInv, TypeOK, NEW key \in Keys, m_buckets[BucketOf(key)] # Null
  PROVE  /\ m_buckets[BucketOf(key)] \in Published
         /\ SameBucket(m_key[m_buckets[BucketOf(key)]], key)
         /\ ahead[m_buckets[BucketOf(key)]] = {}
BY BucketType DEF ListInv, TypeOK, Published, SameBucket

\* The steps of get keep the invariant.
LEMMA GetKeepsIInv ==
  ASSUME IInv, NEW t \in Threads
  PROVE  /\ GetBucket(t) => IInv'
         /\ GetNext(t) => IInv'
         /\ GetHit(t) => IInv'
         /\ GetValue(t) => IInv'
         /\ GetCopyThrows(t) => IInv'
         /\ GetMiss(t) => IInv'
<1> USE DEF Goto, fields, counts, locals
<1> LocalInv(t) /\ TypeOK /\ ListInv
  BY DEF IInv, ThreadInv
<1> call[t] \in Calls
  BY DEF TypeOK
<1>1. ASSUME GetBucket(t) PROVE IInv'
  <2>1. TypeOK'
    BY <1>1, BucketType DEF TypeOK, LocalInv, ListInv, Walked, GetBucket, Labels, Outcomes, Calls, NoCall
  <2>2. LocalInv(t)'
    BY <1>1, WalkStarts, ListsUnchanged DEF IInv, LocalInv, Walked, TypeOK, Calls, NoCall, GetBucket, Outcomes
  <2> QED
    BY <1>1, <2>1, <2>2, LocalStep DEF GetBucket, TypeOK
<1>2. ASSUME GetNext(t) PROVE IInv'
  <2>1. TypeOK'
    BY <1>2 DEF TypeOK, LocalInv, ListInv, Walked, GetNext, Labels, Outcomes, Calls, NoCall
  <2>2. LocalInv(t)'
    BY <1>2, WalkOn, ListsUnchanged DEF IInv, LocalInv, Walked, TypeOK, Calls, NoCall, GetNext, Outcomes
  <2> QED
    BY <1>2, <2>1, <2>2, LocalStep DEF GetNext, TypeOK
<1>3. ASSUME GetHit(t) PROVE IInv'
  <2>1. TypeOK'
    BY <1>3, CountType DEF TypeOK, LocalInv, ListInv, Walked, GetHit, Labels, Outcomes, Calls, NoCall
  <2>2. LocalInv(t)'
    BY <1>3, ListsUnchanged DEF IInv, LocalInv, Walked, TypeOK, Calls, NoCall, GetHit, Outcomes
  <2> QED
    BY <1>3, <2>1, <2>2, LocalStep DEF GetHit, TypeOK
<1>4. ASSUME GetValue(t) PROVE IInv'
  <2>1. TypeOK'
    BY <1>4 DEF TypeOK, LocalInv, ListInv, Walked, GetValue, Finish, Labels, Outcomes, Calls, NoCall
  <2>2. LocalInv(t)'
    <3>1. m_ptrValue[node[t]] # "pending"
      BY <1>4, OutcomesAreNotValues DEF GetValue, LocalInv, ListInv, Outcomes
    <3> QED
      BY <1>4, <3>1 DEF LocalInv, TypeOK, GetValue, Finish
  <2> QED
    BY <1>4, <2>1, <2>2, LocalStep DEF GetValue, Finish, TypeOK
<1>5. ASSUME GetCopyThrows(t) PROVE IInv'
  <2>1. TypeOK'
    BY <1>5 DEF TypeOK, LocalInv, ListInv, Walked, GetCopyThrows, Finish, Labels, Outcomes, Calls, NoCall
  <2>2. LocalInv(t)'
    BY <1>5, ListsUnchanged DEF IInv, LocalInv, Walked, TypeOK, Calls, NoCall, GetCopyThrows, Finish, Outcomes
  <2> QED
    BY <1>5, <2>1, <2>2, LocalStep DEF GetCopyThrows, Finish, TypeOK
<1>6. ASSUME GetMiss(t) PROVE IInv'
  <2>1. TypeOK'
    BY <1>6, CountType DEF TypeOK, LocalInv, ListInv, Walked, GetMiss, Finish, Labels, Outcomes, Calls, NoCall
  <2>2. LocalInv(t)'
    BY <1>6, OutcomesAreNotValues DEF LocalInv, TypeOK, GetMiss, Finish, Outcomes
  <2> QED
    BY <1>6, <2>1, <2>2, LocalStep DEF GetMiss, Finish, TypeOK
<1> QED
  BY <1>1, <1>2, <1>3, <1>4, <1>5, <1>6

\* The steps of set that publish, create or free nothing keep the invariant.
LEMMA SetWalkKeepsIInv ==
  ASSUME IInv, NEW t \in Threads
  PROVE  /\ CreateNodeThrows(t) => IInv'
         /\ BucketTaken(t) => IInv'
         /\ Advance(t) => IInv'
<1> USE DEF Goto, fields, counts, locals
<1> LocalInv(t) /\ TypeOK /\ ListInv
  BY DEF IInv, ThreadInv
<1> call[t] \in Calls
  BY DEF TypeOK
<1>1. ASSUME CreateNodeThrows(t) PROVE IInv'
  <2>1. TypeOK'
    BY <1>1 DEF TypeOK, LocalInv, ListInv, Walked, CreateNodeThrows, Finish, Labels, Outcomes, Calls, NoCall
  <2>2. LocalInv(t)'
    BY <1>1, ListsUnchanged DEF IInv, LocalInv, Walked, TypeOK, Calls, NoCall, CreateNodeThrows, Finish, Outcomes
  <2> QED
    BY <1>1, <2>1, <2>2, LocalStep DEF CreateNodeThrows, Finish, TypeOK
<1>2. ASSUME BucketTaken(t) PROVE IInv'
  <2>1. TypeOK'
    BY <1>2, BucketType DEF TypeOK, LocalInv, ListInv, Walked, BucketTaken, Labels, Outcomes, Calls, NoCall
  <2>2. LocalInv(t)'
    BY <1>2, WalkStarts, ListsUnchanged DEF IInv, LocalInv, Walked, TypeOK, Calls, NoCall, BucketTaken, Outcomes
  <2> QED
    BY <1>2, <2>1, <2>2, LocalStep DEF BucketTaken, TypeOK
<1>3. ASSUME Advance(t) PROVE IInv'
  <2>1. TypeOK'
    <3>1. node[t] \in Nodes
      BY <1>3 DEF Advance, LocalInv, Walked, Published
    <3> QED
      BY <1>3, <3>1 DEF TypeOK, Advance
  <2>2. LocalInv(t)'
    <3>1. Walked(t)'
      BY <1>3, WalkOn, ListsUnchanged DEF IInv, LocalInv, Walked, TypeOK, Advance, SameBucket
    <3> QED
      BY <1>3, <3>1 DEF LocalInv, TypeOK, Advance
  <2> QED
    BY <1>3, <2>1, <2>2, LocalStep DEF Advance, TypeOK
<1> QED
  BY <1>1, <1>2, <1>3
-----------------------------------------------------------------------------
(* The steps that create, publish or free a node.                          *)

\* Memory that is not allocated is in no list.
LEMMA PublishedAllocated == ListInv => Published \subseteq Allocated
BY NullIsNothing DEF ListInv, Allocated, Published

\* create_node takes memory no list and no other thread knows.
LEMMA CreateKeepsIInv ==
  ASSUME IInv, NEW t \in Threads, NEW n \in Nodes, CreateNode(t, n)
  PROVE  IInv'
<1> USE DEF Goto, fields, counts
<1> TypeOK /\ ListInv /\ OneOwner /\ OneNodePerKey /\ LocalInv(t)
  BY DEF IInv, ThreadInv
<1>1. n \notin Published /\ m_next[n] = Null /\ n # Null
  BY PublishedAllocated, NullIsNothing DEF ListInv, CreateNode
<1>2. call[t] \in [op : {"set"}, key : Keys, value : Values]
  BY DEF LocalInv, CreateNode, TypeOK, Calls, NoCall
<1>3. TypeOK'
  BY <1>2 DEF TypeOK, CreateNode, Labels
<1>4. m_next' = m_next /\ Published' = Published
  BY <1>1 DEF CreateNode, TypeOK, Published
<1>5. Grows
  BY <1>1, <1>4 DEF Grows, CreateNode, TypeOK
<1>6. OneNodePerKey'
  BY <1>4, <1>5 DEF OneNodePerKey, Grows
<1>7. \A m \in Published : m_ptrValue'[m] = m_ptrValue[m]
  BY <1>1 DEF CreateNode, TypeOK, Published
<1>8. \A b \in Buckets : m_buckets[b] # Null => m_buckets[b] \in Published
  BY DEF Published, TypeOK
<1>9. \A m \in Published : m_next[m] # Null => m_next[m] \in Published
  BY DEF Published, TypeOK
<1>10. ListInv'
  <2> m_buckets' = m_buckets /\ ahead' = ahead
    BY DEF CreateNode
  <2> QED
    BY <1>4, <1>5, <1>7, <1>8, <1>9 DEF ListInv, Grows, SameBucket
<1>11. \A u \in Threads : ptrNewNode[u] # n
  BY <1>1 DEF OneOwner, CreateNode
<1>12. OneOwner'
  BY <1>1, <1>2, <1>4, <1>11, NullIsNothing
     DEF OneOwner, CreateNode, Allocated, TypeOK, LocalInv
<1>13. LocalInv(t)'
  BY <1>1, <1>2 DEF LocalInv, CreateNode, TypeOK, NoCall
<1>14. ASSUME NEW u \in Threads, u # t PROVE LocalInv(u)'
  BY <1>5, <1>11, <1>14, OtherThread DEF IInv, ThreadInv, CreateNode, TypeOK
<1> QED
  BY <1>3, <1>6, <1>10, <1>12, <1>13, <1>14 DEF IInv, ThreadInv

\* Taking the value of a private node and freeing it leaves the lists alone.
LEMMA OverwriteKeepsIInv ==
  ASSUME IInv, NEW t \in Threads, Overwrite(t)
  PROVE  IInv'
<1> USE DEF Goto, Finish, fields, counts
<1> DEFINE own == ptrNewNode[t]
<1> TypeOK /\ ListInv /\ OneOwner /\ OneNodePerKey /\ LocalInv(t)
  BY DEF IInv, ThreadInv
<1>1. /\ own \in Nodes \ Published
      /\ node[t] \in Published /\ node[t] \in Nodes
      /\ m_ptrValue[own] \in Values
      /\ \A u \in Threads : ptrNewNode[u] = own => u = t
  <2>1. own # Null
    BY DEF LocalInv, Overwrite
  <2>2. call[t] \in [op : {"set"}, key : Keys, value : Values]
    BY DEF LocalInv, Overwrite, TypeOK, Calls, NoCall
  <2> QED
    BY <2>1, <2>2 DEF LocalInv, Overwrite, Walked, Published, OneOwner, TypeOK
<1>2. /\ m_key' = [m_key EXCEPT ![own] = Null]
      /\ m_ptrValue' = [m_ptrValue EXCEPT ![node[t]] = m_ptrValue[own], ![own] = Null]
      /\ m_next' = m_next /\ m_buckets' = m_buckets /\ ahead' = ahead
  BY DEF Overwrite
<1> HIDE DEF own
<1>3. TypeOK'
  BY <1>1, <1>2 DEF TypeOK, Overwrite, Labels, Outcomes, own
<1>4. Published' = Published
  BY <1>2 DEF Published
<1>5. Grows
  BY <1>1, <1>2, <1>4 DEF Grows, TypeOK, Published
<1>6. \A n \in Published : m_ptrValue'[n] \in Values
  BY <1>1, <1>2 DEF ListInv, TypeOK, Published
<1>7. OneNodePerKey'
  BY <1>4, <1>5 DEF OneNodePerKey, Grows
<1>8. \A b \in Buckets : m_buckets[b] # Null => m_buckets[b] \in Published
  BY DEF Published, TypeOK
<1>9. \A n \in Published : m_next[n] # Null => m_next[n] \in Published
  BY DEF Published, TypeOK
<1>10. ListInv'
  <2> m_next' = m_next /\ m_buckets' = m_buckets /\ ahead' = ahead
    BY <1>2
  <2>1. \A n \in Published' : m_key'[n] \in Keys /\ m_ptrValue'[n] \in Values
    BY <1>4, <1>5, <1>6 DEF ListInv, Grows
  <2> QED
    BY <2>1, <1>4, <1>5, <1>8, <1>9 DEF ListInv, Grows, SameBucket
<1>11. m_key'[own] = Null /\ \A n \in Nodes \ {own} : m_key'[n] = m_key[n]
  BY <1>1, <1>2 DEF TypeOK
<1>12. Allocated' = Allocated \ {own}
  BY <1>1, <1>11 DEF Allocated
<1>13. ptrNewNode' = [ptrNewNode EXCEPT ![t] = Null]
  BY DEF Overwrite
<1>14. OneOwner'
  BY <1>1, <1>4, <1>12, <1>13 DEF OneOwner, TypeOK, own
<1>15. LocalInv(t)'
  BY <1>13, OutcomesAreNotValues DEF LocalInv, Overwrite, TypeOK, Outcomes
<1>16. ASSUME NEW u \in Threads, u # t PROVE LocalInv(u)'
  <2>1. ptrNewNode[u] # Null => ptrNewNode[u] # own /\ ptrNewNode[u] \in Nodes \ Published
    BY <1>1, <1>16 DEF OneOwner, TypeOK
  <2>2. ptrNewNode[u] # Null => /\ m_key'[ptrNewNode[u]] = m_key[ptrNewNode[u]]
                                /\ m_ptrValue'[ptrNewNode[u]] = m_ptrValue[ptrNewNode[u]]
    BY <1>1, <1>2, <2>1 DEF TypeOK
  <2> QED
    BY <1>5, <1>16, <2>2, OtherThread DEF IInv, ThreadInv, Overwrite, TypeOK
<1> QED
  BY <1>3, <1>7, <1>10, <1>14, <1>15, <1>16 DEF IInv, ThreadInv

\* The node a thread is about to link.
LEMMA NewNode ==
  ASSUME IInv, NEW t \in Threads, pc[t] \in {"set_bucket", "set_walk"}
  PROVE  /\ ptrNewNode[t] \in (Nodes \cap Allocated) \ Published
         /\ m_next[ptrNewNode[t]] = Null
         /\ m_key[ptrNewNode[t]] = call[t].key
         /\ m_ptrValue[ptrNewNode[t]] = call[t].value
         /\ call[t].key \in Keys /\ call[t].value \in Values
         /\ \A n \in Published : ahead[n] \subseteq Published
<1>1. call[t] \in [op : {"set"}, key : Keys, value : Values]
  BY DEF IInv, ThreadInv, LocalInv, TypeOK, Calls, NoCall
<1>2. ptrNewNode[t] # Null
  BY DEF IInv, ThreadInv, LocalInv
<1>3. ptrNewNode[t] \in (Nodes \cap Allocated) \ Published
  BY <1>2 DEF IInv, OneOwner, TypeOK
<1> QED
  BY <1>1, <1>2, <1>3 DEF IInv, ThreadInv, LocalInv, ListInv

\* Linking a node with a new key keeps the invariant when the lists stay lists.
LEMMA PublishKeepsIInv ==
  ASSUME IInv, NEW t \in Threads, pc[t] \in {"set_bucket", "set_walk"},
         NEW inFront, Publish(t, inFront),
         UNCHANGED <<m_key, m_ptrValue, counts, call>>,
         Published' = Published \cup {ptrNewNode[t]},
         \A n \in Published : m_key[n] # call[t].key,
         TypeOK', ListInv'
  PROVE  IInv'
<1> USE DEF Goto, Finish
<1> DEFINE own == ptrNewNode[t]
<1>1. own \in Nodes \ Published /\ m_key[own] = call[t].key
  BY NewNode
<1>2. Grows
  BY <1>1 DEF Grows, Publish, IInv, TypeOK
<1>3. OneNodePerKey'
  BY <1>1 DEF OneNodePerKey, IInv
<1>4. ptrNewNode' = [ptrNewNode EXCEPT ![t] = Null]
  BY DEF Publish
<1>5. OneOwner'
  BY <1>1, <1>4, NullIsNothing DEF OneOwner, IInv, TypeOK, Allocated
<1>6. LocalInv(t)'
  BY <1>4 DEF LocalInv, IInv, ThreadInv, TypeOK, Publish, Outcomes
<1>7. ASSUME NEW u \in Threads, u # t PROVE LocalInv(u)'
  BY <1>2, <1>4, <1>7, OtherThread DEF IInv, ThreadInv, TypeOK, Publish
<1> QED
  BY <1>3, <1>5, <1>6, <1>7 DEF IInv, ThreadInv

\* The winner of the CAS on an empty bucket keeps the invariant.
LEMMA LinkFirstKeepsIInv ==
  ASSUME IInv, NEW t \in Threads, LinkFirst(t)
  PROVE  IInv'
<1> USE DEF Goto, Finish, fields, counts
<1> DEFINE own == ptrNewNode[t]
           bucket == BucketOf(call[t].key)
<1> TypeOK /\ ListInv
  BY DEF IInv
<1>1. /\ own \in Nodes \ Published /\ m_next[own] = Null
      /\ m_key[own] = call[t].key /\ call[t].key \in Keys
      /\ m_ptrValue[own] \in Values
      /\ \A n \in Published : ahead[n] \subseteq Published
  BY NewNode DEF LinkFirst
<1>2. bucket \in Buckets /\ m_buckets[bucket] = Null /\ own # Null
  BY <1>1, BucketType, NullIsNothing DEF LinkFirst
<1>3. /\ m_buckets' = [m_buckets EXCEPT ![bucket] = own]
      /\ ahead' = [ahead EXCEPT ![own] = {}]
      /\ m_key' = m_key /\ m_ptrValue' = m_ptrValue /\ m_next' = m_next
  BY DEF LinkFirst, Publish
<1>4. \A n \in Published : BucketOf(m_key[n]) # bucket
  BY <1>2 DEF ListInv
<1>5. TypeOK'
  BY <1>1, <1>2 DEF TypeOK, LinkFirst, Publish, Labels, Outcomes
<1> HIDE DEF own, bucket
<1>6. Published' = Published \cup {own}
  BY <1>1, <1>2, <1>3 DEF Published, TypeOK
<1>7. /\ ahead'[own] = {}
      /\ \A n \in Published : ahead'[n] = ahead[n]
      /\ m_buckets'[bucket] = own
      /\ \A b \in Buckets \ {bucket} : m_buckets'[b] = m_buckets[b]
  BY <1>1, <1>2, <1>3 DEF TypeOK, Published
<1>8. /\ \A b \in Buckets : m_buckets[b] # Null => m_buckets[b] \in Published
      /\ \A n \in Published : m_next[n] # Null => m_next[n] \in Published
  BY DEF Published, TypeOK
<1>9. BucketOf(m_key[own]) = bucket
  BY <1>1 DEF bucket
<1>10. ListInv'
  <2>1. \A n \in Published' : m_key'[n] \in Keys /\ m_ptrValue'[n] \in Values
    BY <1>1, <1>3, <1>6 DEF ListInv
  <2>2. \A n \in Nodes \ Published' : m_next'[n] = Null
    BY <1>3, <1>6 DEF ListInv
  <2>3. ASSUME NEW b \in Buckets
        PROVE  IF m_buckets'[b] = Null
               THEN \A n \in Published' : BucketOf(m_key'[n]) # b
               ELSE BucketOf(m_key'[m_buckets'[b]]) = b /\ ahead'[m_buckets'[b]] = {}
    BY <1>2, <1>3, <1>6, <1>7, <1>8, <1>9 DEF ListInv
  <2>4. ASSUME NEW n \in Published'
        PROVE  IF m_next'[n] = Null
               THEN \A m \in Published' : SameBucket(m_key'[m], m_key'[n]) =>
                                             m \in ahead'[n] \cup {n}
               ELSE /\ SameBucket(m_key'[m_next'[n]], m_key'[n])
                    /\ ahead'[m_next'[n]] = ahead'[n] \cup {n}
    BY <1>1, <1>3, <1>4, <1>6, <1>7, <1>8, <1>9 DEF ListInv, SameBucket
  <2>5. ASSUME NEW n \in Published', NEW m \in ahead'[n]
        PROVE  m \in Published' /\ SameBucket(m_key'[m], m_key'[n]) /\ n \notin ahead'[m]
    BY <1>1, <1>3, <1>6, <1>7 DEF ListInv, SameBucket
  <2> QED
    BY <2>1, <2>2, <2>3, <2>4, <2>5 DEF ListInv, SameBucket
<1>11. \A n \in Published : m_key[n] # call[t].key
  BY <1>4 DEF bucket
<1> QED
  BY <1>5, <1>6, <1>10, <1>11, PublishKeepsIInv DEF own, LinkFirst

\* The winner of the CAS on the end of a list keeps the invariant. It has
\* compared every key of the list with its own.
LEMMA LinkNextKeepsIInv ==
  ASSUME IInv, NEW t \in Threads, LinkNext(t)
  PROVE  IInv'
<1> USE DEF Goto, Finish, fields, counts
<1> DEFINE own == ptrNewNode[t]
           tail == node[t]
<1> TypeOK /\ ListInv
  BY DEF IInv
<1>1. /\ own \in Nodes \ Published /\ m_next[own] = Null
      /\ m_key[own] = call[t].key /\ call[t].key \in Keys
      /\ m_ptrValue[own] \in Values
      /\ \A n \in Published : ahead[n] \subseteq Published
  BY NewNode DEF LinkNext
<1>2. /\ tail \in Published /\ tail \in Nodes
      /\ SameBucket(m_key[tail], call[t].key)
      /\ \A m \in ahead[tail] \cup {tail} : m_key[m] # call[t].key
      /\ m_next[tail] = Null /\ own # Null
  BY <1>1, NullIsNothing DEF LinkNext, IInv, ThreadInv, LocalInv, Walked, Published
<1>3. /\ m_next' = [m_next EXCEPT ![tail] = own]
      /\ ahead' = [ahead EXCEPT ![own] = ahead[tail] \cup {tail}]
      /\ m_key' = m_key /\ m_ptrValue' = m_ptrValue /\ m_buckets' = m_buckets
  BY DEF LinkNext, Publish
<1>4. \A n \in Published : SameBucket(m_key[n], m_key[tail]) => n \in ahead[tail] \cup {tail}
  BY <1>2 DEF ListInv
<1>5. TypeOK'
  BY <1>1, <1>2, <1>3 DEF TypeOK, LinkNext, Publish, Labels, Outcomes
<1> HIDE DEF own, tail
<1>6. Published' = Published \cup {own}
  BY <1>1, <1>2, <1>3 DEF Published, TypeOK
<1>7. /\ ahead'[own] = ahead[tail] \cup {tail}
      /\ \A n \in Published : ahead'[n] = ahead[n]
      /\ m_next'[tail] = own /\ m_next'[own] = Null
      /\ \A n \in Nodes \ {tail} : m_next'[n] = m_next[n]
  BY <1>1, <1>2, <1>3 DEF TypeOK, Published
<1>8. /\ \A b \in Buckets : m_buckets[b] # Null => m_buckets[b] \in Published
      /\ \A n \in Published : m_next[n] # Null => m_next[n] \in Published
  BY DEF Published, TypeOK
<1>9. SameBucket(m_key[own], m_key[tail])
  BY <1>1, <1>2 DEF SameBucket
<1>10. ListInv'
  <2>1. \A n \in Published' : m_key'[n] \in Keys /\ m_ptrValue'[n] \in Values
    BY <1>1, <1>3, <1>6 DEF ListInv
  <2>2. \A n \in Nodes \ Published' : m_next'[n] = Null
    BY <1>2, <1>3, <1>6, <1>7 DEF ListInv
  <2>3. ASSUME NEW b \in Buckets
        PROVE  IF m_buckets'[b] = Null
               THEN \A n \in Published' : BucketOf(m_key'[n]) # b
               ELSE BucketOf(m_key'[m_buckets'[b]]) = b /\ ahead'[m_buckets'[b]] = {}
    <3> m_buckets'[b] = m_buckets[b] /\ m_key' = m_key
      BY <1>3
    <3>1. CASE m_buckets[b] = Null
      BY <3>1, <1>2, <1>6, <1>9 DEF ListInv, SameBucket
    <3>2. CASE m_buckets[b] # Null
      BY <3>2, <1>7, <1>8 DEF ListInv
    <3> QED
      BY <3>1, <3>2
  <2>4. ASSUME NEW n \in Published'
        PROVE  IF m_next'[n] = Null
               THEN \A m \in Published' : SameBucket(m_key'[m], m_key'[n]) =>
                                             m \in ahead'[n] \cup {n}
               ELSE /\ SameBucket(m_key'[m_next'[n]], m_key'[n])
                    /\ ahead'[m_next'[n]] = ahead'[n] \cup {n}
    <3> m_key' = m_key
      BY <1>3
    <3>1. CASE n = own
      BY <3>1, <1>4, <1>6, <1>7, <1>9 DEF SameBucket
    <3>2. CASE n = tail
      BY <3>2, <1>2, <1>7, <1>9
    <3>3. CASE n \in Published \ {tail} /\ m_next[n] = Null
      <4>1. ~SameBucket(m_key[n], m_key[tail])
        BY <3>3, <1>2, <1>4 DEF ListInv, SameBucket
      <4> QED
        BY <3>3, <4>1, <1>1, <1>2, <1>6, <1>7, <1>9 DEF ListInv, SameBucket, Published
    <3>4. CASE n \in Published \ {tail} /\ m_next[n] # Null
      <4>1. n \in Nodes /\ m_next'[n] = m_next[n] /\ m_next[n] \in Published
        BY <3>4, <1>7, <1>8 DEF Published
      <4> QED
        BY <3>4, <4>1, <1>7 DEF ListInv
    <3> QED
      BY <3>1, <3>2, <3>3, <3>4, <1>6
  <2>5. ASSUME NEW n \in Published', NEW m \in ahead'[n]
        PROVE  m \in Published' /\ SameBucket(m_key'[m], m_key'[n]) /\ n \notin ahead'[m]
    <3> m_key' = m_key
      BY <1>3
    <3>1. CASE n = own
      BY <3>1, <1>1, <1>2, <1>6, <1>7, <1>9 DEF ListInv, SameBucket
    <3>2. CASE n \in Published
      BY <3>2, <1>1, <1>6, <1>7 DEF ListInv
    <3> QED
      BY <3>1, <3>2, <1>6
  <2> QED
    BY <2>1, <2>2, <2>3, <2>4, <2>5 DEF ListInv, SameBucket
<1>11. \A n \in Published : m_key[n] # call[t].key
  BY <1>2, <1>4 DEF SameBucket
<1> QED
  BY <1>5, <1>6, <1>10, <1>11, PublishKeepsIInv DEF own, LinkNext

-----------------------------------------------------------------------------
(* The theorems.                                                           *)

\* The constructor's empty buckets satisfy the invariant.
LEMMA InitIInv == Init => IInv
<1> SUFFICES ASSUME Init PROVE IInv
  OBVIOUS
<1>1. Published = {} /\ Allocated = {}
  BY NullIsNothing, BucketCountPositive DEF Init, Published, Allocated, Buckets
<1>2. TypeOK
  BY CountersPositive DEF Init, TypeOK, Calls, Labels, Outcomes
<1>3. ThreadInv
  BY DEF Init, ThreadInv, LocalInv
<1> QED
  BY <1>1, <1>2, <1>3 DEF Init, IInv, OneNodePerKey, OneOwner, ListInv

\* Every step of every thread keeps the invariant.
LEMMA NextIInv == IInv /\ [Next]_vars => IInv'
<1>1. ASSUME IInv, UNCHANGED vars PROVE IInv'
  BY <1>1 DEF vars, fields, counts, locals, IInv, TypeOK, OneNodePerKey, OneOwner,
              ListInv, ThreadInv, LocalInv, Walked, Published, Allocated, SameBucket
<1>2. ASSUME IInv, NEW t \in Threads,
             \/ \E key \in Keys : CallGet(t, key)
             \/ \E key \in Keys, value \in Values : CallSet(t, key, value)
             \/ Return(t)
      PROVE  IInv'
  BY <1>2, CallsKeepIInv
<1>3. ASSUME IInv, NEW t \in Threads, GetStep(t) PROVE IInv'
  BY <1>3, GetKeepsIInv DEF GetStep
<1>4. ASSUME IInv, NEW t \in Threads, SetStep(t) PROVE IInv'
  BY <1>4, SetWalkKeepsIInv, CreateKeepsIInv, OverwriteKeepsIInv,
     LinkFirstKeepsIInv, LinkNextKeepsIInv DEF SetStep
<1> QED
  BY <1>1, <1>2, <1>3, <1>4 DEF Next, Step

\* The inductive invariant: what every get and set of DataEngine.cpp relies on.
THEOREM Invariance == Spec => []IInv
<1> QED
  BY InitIInv, NextIInv, PTL DEF Spec

\* The types of the shared nodes, the counters and the threads' variables.
THEOREM TypeCorrect == Spec => []TypeOK
<1>1. IInv => TypeOK
  BY DEF IInv
<1> QED
  BY <1>1, Invariance, PTL

\* Racing calls of DataEngine::set never leave two nodes with one key.
THEOREM UniqueKeys == Spec => []OneNodePerKey
<1>1. IInv => OneNodePerKey
  BY DEF IInv
<1> QED
  BY <1>1, Invariance, PTL

\* get and set never follow a pointer to memory that was deallocated.
THEOREM MemorySafe == Spec => []NoDanglingPointer
<1>1. ASSUME IInv PROVE NoDanglingPointer
  <2>1. Published \subseteq Allocated
    BY <1>1, PublishedAllocated DEF IInv
  <2>2. ASSUME NEW t \in Threads, node[t] # Null PROVE node[t] \in Published
    BY <1>1, <2>2 DEF IInv, ThreadInv, LocalInv, Walked
  <2> QED
    BY <2>1, <2>2 DEF NoDanglingPointer
<1> QED
  BY <1>1, Invariance, PTL

\* No node is leaked, and none is deallocated twice.
THEOREM Ownership == Spec => []OneOwner
<1>1. IInv => OneOwner
  BY DEF IInv
<1> QED
  BY <1>1, Invariance, PTL

\* Nothing that DataEngine::set does moves a published node or changes its key.
THEOREM ListsOnlyGrow == Spec => AppendOnly
<1>1. ASSUME IInv, [Next]_vars PROVE NodesKept
  <2> USE DEF NodesKept
  <2> TypeOK /\ ListInv
    BY <1>1 DEF IInv
  <2>1. CASE UNCHANGED <<m_buckets, m_key, m_next>>
    BY <2>1 DEF Published
  <2>2. ASSUME NEW t \in Threads, NEW n \in Nodes, CreateNode(t, n) PROVE NodesKept
    <3>1. n \notin Published /\ m_next[n] = Null
      BY <2>2, PublishedAllocated DEF ListInv, CreateNode
    <3>2. m_next' = m_next /\ m_buckets' = m_buckets
      BY <2>2, <3>1 DEF CreateNode, TypeOK
    <3> QED
      BY <2>2, <3>1, <3>2 DEF CreateNode, TypeOK, Published
  <2>3. ASSUME NEW t \in Threads, LinkFirst(t) PROVE NodesKept
    <3>1. m_key' = m_key /\ m_next' = m_next
      BY <2>3 DEF LinkFirst, fields
    <3>2. \A b \in Buckets : m_buckets[b] # Null => m_buckets'[b] = m_buckets[b]
      BY <2>3 DEF LinkFirst, TypeOK
    <3>3. Published \subseteq Published'
      BY <3>1, <3>2, NullIsNothing DEF Published
    <3> QED
      BY <3>1, <3>3
  <2>4. ASSUME NEW t \in Threads, Overwrite(t) PROVE NodesKept
    <3>1. ptrNewNode[t] \in Nodes \ Published
      BY <1>1, <2>4, NewNode DEF Overwrite
    <3> QED
      BY <2>4, <3>1 DEF Overwrite, TypeOK, Published
  <2>5. ASSUME NEW t \in Threads, LinkNext(t) PROVE NodesKept
    <3>1. m_key' = m_key /\ m_buckets' = m_buckets
      BY <2>5 DEF LinkNext
    <3>2. \A n \in Nodes : m_next[n] # Null => m_next'[n] = m_next[n]
      BY <2>5 DEF LinkNext, TypeOK
    <3>3. Published \subseteq Published'
      BY <3>1, <3>2, NullIsNothing DEF Published
    <3> QED
      BY <3>1, <3>2, <3>3 DEF Published
  <2> QED
    BY <1>1, <2>1, <2>2, <2>3, <2>4, <2>5
       DEF Next, Step, GetStep, SetStep, vars, fields, CallGet, CallSet, Return, GetBucket,
           GetNext, GetHit, GetValue, GetCopyThrows, GetMiss, CreateNodeThrows,
           BucketTaken, Advance
<1>2. IInv /\ [Next]_vars => [NodesKept]_vars
  BY <1>1
<1> QED
  BY <1>2, Invariance, PTL DEF Spec, AppendOnly

-----------------------------------------------------------------------------
(* The statistics. The counters wrap, so the proof counts modulo Counters. *)

\* A counter may be reduced to its width before or after something is added.
LEMMA ModAdd == \A a, b \in Int : ((a % Counters) + b) % Counters = (a + b) % Counters
<1> DEFINE C == Counters
<1>1. C \in Nat \ {0}
  BY CountersPositive
<1> HIDE DEF C
<1>2. ASSUME NEW x \in Int
      PROVE  \E q \in Int, r \in 0 .. (C - 1) : x = C * q + r /\ x % C = r
  BY <1>1
<1>3. ASSUME NEW q \in Int, NEW p \in Int, NEW r \in 0 .. (C - 1), NEW s \in 0 .. (C - 1),
             C * q + r = C * p + s
      PROVE  r = s
  BY <1>1, <1>3
<1>4. ASSUME NEW a \in Int, NEW b \in Int PROVE ((a % C) + b) % C = (a + b) % C
  <2>1. PICK q \in Int, r \in 0 .. (C - 1) : a = C * q + r /\ a % C = r
    BY <1>2
  <2> r + b \in Int /\ a + b \in Int
    BY <1>1
  <2>2. PICK p \in Int, s \in 0 .. (C - 1) : r + b = C * p + s /\ (r + b) % C = s
    BY <1>2
  <2>3. PICK o \in Int, u \in 0 .. (C - 1) : a + b = C * o + u /\ (a + b) % C = u
    BY <1>2
  <2>4. q + p \in Int /\ C * (q + p) = C * q + C * p
    BY <1>1
  <2>5. C * q \in Int /\ C * p \in Int /\ C * o \in Int /\ r \in Int /\ s \in Int /\ u \in Int
    BY <1>1
  <2>6. C * o + u = (C * q + C * p) + s
    <3> HIDE <2>4
    <3> QED
      BY <2>1, <2>2, <2>3, <2>5
  <2>7. u = s
    BY <1>3, <2>4, <2>6
  <2> QED
    BY <2>1, <2>2, <2>3, <2>7
<1> QED
  BY <1>4 DEF C

\* Equal counts stay equal when one more is counted.
LEMMA ModStep ==
  ASSUME NEW a \in Int, NEW b \in Int, a % Counters = b % Counters
  PROVE  (a + 1) % Counters = (b + 1) % Counters
<1>1. ((a % Counters) + 1) % Counters = (a + 1) % Counters
  BY ModAdd
<1>2. ((b % Counters) + 1) % Counters = (b + 1) % Counters
  BY ModAdd
<1> QED
  BY <1>1, <1>2

\* The threads past their count are finitely many.
LEMMA LookedFinite == IsFiniteSet(Looked) /\ Cardinality(Looked) \in Nat
<1>1. Looked \in SUBSET Threads
  BY DEF Looked
<1> QED
  BY <1>1, ThreadsFinite, FS_Subset, FS_CardinalityType

\* A step that counts nothing.
Uncounted == UNCHANGED counts /\ Looked' = Looked

\* Thread t decides its lookup and counts it.
Counted(t) ==
    /\ t \notin Looked /\ Looked' = Looked \cup {t}
    /\ returned' = returned
    /\ \/ /\ m_successReads' = (m_successReads + 1) % Counters
          /\ m_failedReads' = m_failedReads
       \/ /\ m_failedReads' = (m_failedReads + 1) % Counters
          /\ m_successReads' = m_successReads

\* The lookup thread t has counted returns.
Discharged(t) ==
    /\ t \in Looked /\ Looked' = Looked \ {t}
    /\ returned' = (returned + 1) % Counters
    /\ UNCHANGED <<m_successReads, m_failedReads>>

\* A lookup is counted by the step that decides it, and leaves the set of the
\* threads past their count when it returns.
LEMMA LookupsCounted ==
  ASSUME IInv, NEW t \in Threads
  PROVE  /\ \A key \in Keys : CallGet(t, key) => Uncounted
         /\ \A key \in Keys, value \in Values : CallSet(t, key, value) => Uncounted
         /\ Return(t) => IF call[t].op = "get" THEN Discharged(t) ELSE Uncounted
         /\ GetStep(t) => Uncounted \/ Counted(t)
         /\ SetStep(t) => Uncounted
<1> USE DEF Goto, Finish, counts
<1>1. /\ pc \in [Threads -> Labels] /\ call \in [Threads -> Calls]
      /\ LocalInv(t)
  BY DEF IInv, TypeOK, ThreadInv
<1>2. ASSUME \A u \in Threads \ {t} : pc'[u] = pc[u] /\ call'[u] = call[u]
      PROVE  Looked' = IF call'[t].op = "get" /\ pc'[t] \in {"get_value", "return"}
                       THEN Looked \cup {t} ELSE Looked \ {t}
  BY <1>2 DEF Looked
<1>3. ASSUME NEW label, pc' = [pc EXCEPT ![t] = label], call' = call
      PROVE  Looked' = IF call[t].op = "get" /\ label \in {"get_value", "return"}
                       THEN Looked \cup {t} ELSE Looked \ {t}
  BY <1>1, <1>2, <1>3
<1>4. t \in Looked <=> call[t].op = "get" /\ pc[t] \in {"get_value", "return"}
  BY DEF Looked
<1>5. ASSUME NEW key \in Keys, CallGet(t, key) PROVE Uncounted
  <2>1. pc[t] = "idle" /\ pc'[t] = "get_bucket"
    BY <1>1, <1>5 DEF CallGet
  <2>2. \A u \in Threads \ {t} : pc'[u] = pc[u] /\ call'[u] = call[u]
    BY <1>1, <1>5 DEF CallGet
  <2>3. Looked' = Looked
    BY <1>2, <1>4, <2>1, <2>2
  <2> QED
    BY <1>5, <2>3 DEF CallGet, Uncounted
<1>6. ASSUME NEW key \in Keys, NEW value \in Values, CallSet(t, key, value)
      PROVE  Uncounted
  <2>1. pc[t] = "idle" /\ pc'[t] = "set_create"
    BY <1>1, <1>6 DEF CallSet
  <2>2. \A u \in Threads \ {t} : pc'[u] = pc[u] /\ call'[u] = call[u]
    BY <1>1, <1>6 DEF CallSet
  <2>3. Looked' = Looked
    BY <1>2, <1>4, <2>1, <2>2
  <2> QED
    BY <1>6, <2>3 DEF CallSet, Uncounted
<1>7. ASSUME Return(t) PROVE IF call[t].op = "get" THEN Discharged(t) ELSE Uncounted
  <2>1. pc[t] = "return" /\ pc'[t] = "idle"
    BY <1>1, <1>7 DEF Return
  <2>2. \A u \in Threads \ {t} : pc'[u] = pc[u] /\ call'[u] = call[u]
    BY <1>1, <1>7 DEF Return
  <2>3. Looked' = Looked \ {t}
    BY <1>2, <2>1, <2>2
  <2> QED
    BY <1>4, <1>7, <2>1, <2>3 DEF Return, Discharged, Uncounted
<1>8. ASSUME GetStep(t) PROVE Uncounted \/ Counted(t)
  <2>1. call[t].op = "get"
    BY <1>1, <1>8 DEF GetStep, LocalInv, GetBucket, GetNext, GetHit, GetValue,
                      GetCopyThrows, GetMiss
  <2>2. CASE GetBucket(t)
    <3>1. pc[t] = "get_bucket" /\ pc'[t] = "get_walk" /\ call' = call
      BY <1>1, <2>2 DEF GetBucket
    <3>2. \A u \in Threads \ {t} : pc'[u] = pc[u]
      BY <1>1, <2>2 DEF GetBucket
    <3>3. Looked' = Looked
      BY <1>4, <3>1, <3>2 DEF Looked
    <3> QED
      BY <2>2, <3>3 DEF GetBucket, Uncounted
  <2>3. CASE GetNext(t)
    BY <2>3 DEF GetNext, Uncounted, Looked
  <2>4. CASE GetHit(t)
    BY <1>3, <1>4, <2>1, <2>4 DEF GetHit, Counted, locals
  <2>5. CASE GetValue(t)
    BY <1>3, <1>4, <2>1, <2>5 DEF GetValue, Uncounted
  <2>6. CASE GetCopyThrows(t)
    BY <1>3, <1>4, <2>1, <2>6 DEF GetCopyThrows, Uncounted
  <2>7. CASE GetMiss(t)
    BY <1>3, <1>4, <2>1, <2>7 DEF GetMiss, Counted
  <2> QED
    BY <1>8, <2>2, <2>3, <2>4, <2>5, <2>6, <2>7 DEF GetStep
<1>9. ASSUME SetStep(t) PROVE Uncounted
  <2>1. call[t].op = "set"
    BY <1>1, <1>9 DEF SetStep, LocalInv, CreateNode, CreateNodeThrows, LinkFirst,
                      BucketTaken, Overwrite, LinkNext, Advance
  <2>2. UNCHANGED <<counts, call>>
    BY <1>9 DEF SetStep, CreateNode, CreateNodeThrows, LinkFirst, BucketTaken,
                Overwrite, LinkNext, Advance
  <2>3. \E label : pc' = [pc EXCEPT ![t] = label]
    <3>1. CASE Advance(t)
      BY <1>1, <3>1 DEF Advance
    <3> QED
      BY <1>9, <3>1 DEF SetStep, CreateNode, CreateNodeThrows, LinkFirst, BucketTaken,
                        Overwrite, LinkNext, Publish
  <2> QED
    BY <1>3, <1>4, <2>1, <2>2, <2>3 DEF Uncounted
<1> QED
  BY <1>5, <1>6, <1>7, <1>8, <1>9

\* Counting keeps the counters in step with the lookups, wrapped or not.
LEMMA CountingBalances ==
  ASSUME TypeOK, StatisticsBalance, NEW t \in Threads,
         Uncounted \/ Counted(t) \/ Discharged(t)
  PROVE  StatisticsBalance'
<1> DEFINE looked == Cardinality(Looked)
<1>1. /\ m_successReads \in Int /\ m_failedReads \in Int /\ returned \in Int
      /\ looked \in Int /\ Counters \in Nat \ {0}
  BY LookedFinite, CountersPositive DEF TypeOK
<1>2. (m_successReads + m_failedReads + 1) % Counters = (returned + looked + 1) % Counters
  <2>1. m_successReads + m_failedReads \in Int /\ returned + looked \in Int
    BY <1>1
  <2> QED
    BY <2>1, ModStep, Zenon DEF StatisticsBalance
<1>3. CASE Uncounted
  BY <1>3 DEF Uncounted, counts, StatisticsBalance
<1>4. CASE Counted(t)
  <2>1. Cardinality(Looked') = looked + 1
    BY <1>4, LookedFinite, FS_AddElement DEF Counted
  <2>2. /\ (((m_successReads + 1) % Counters) + m_failedReads) % Counters
               = (m_successReads + 1 + m_failedReads) % Counters
        /\ (((m_failedReads + 1) % Counters) + m_successReads) % Counters
               = (m_failedReads + 1 + m_successReads) % Counters
    <3>1. m_successReads + 1 \in Int /\ m_failedReads + 1 \in Int
      BY <1>1
    <3> QED
      BY <1>1, <3>1, ModAdd, Zenon
  <2>3. (m_successReads' + m_failedReads') % Counters
            = (m_successReads + m_failedReads + 1) % Counters
    <3>1. CASE m_successReads' = (m_successReads + 1) % Counters /\ m_failedReads' = m_failedReads
      <4>1. m_successReads + 1 + m_failedReads = m_successReads + m_failedReads + 1
        BY <1>1
      <4> QED
        BY <3>1, <2>2, <4>1
    <3>2. CASE m_failedReads' = (m_failedReads + 1) % Counters /\ m_successReads' = m_successReads
      <4>1. m_failedReads + 1 + m_successReads = m_successReads + m_failedReads + 1
        BY <1>1
      <4>2. (m_failedReads + 1) % Counters \in Int
        BY <1>1
      <4>3. m_successReads + ((m_failedReads + 1) % Counters)
              = ((m_failedReads + 1) % Counters) + m_successReads
        BY <1>1, <4>2
      <4> QED
        BY <3>2, <2>2, <4>1, <4>3
    <3> QED
      BY <1>4, <3>1, <3>2 DEF Counted
  <2>4. returned' + Cardinality(Looked') = returned + looked + 1
    BY <1>1, <1>4, <2>1 DEF Counted
  <2> QED
    BY <1>2, <2>3, <2>4 DEF StatisticsBalance
<1>5. CASE Discharged(t)
  <2>1. Cardinality(Looked') = looked - 1
    BY <1>5, LookedFinite, FS_RemoveElement DEF Discharged
  <2>2. (((returned + 1) % Counters) + (looked - 1)) % Counters
            = (returned + 1 + (looked - 1)) % Counters
    <3>1. returned + 1 \in Int /\ looked - 1 \in Int
      BY <1>1
    <3> QED
      BY <3>1, ModAdd, Zenon
  <2>3. returned + 1 + (looked - 1) = returned + looked
    BY <1>1
  <2> QED
    BY <1>5, <2>1, <2>2, <2>3 DEF Discharged, StatisticsBalance
<1> QED
  BY <1>3, <1>4, <1>5

\* The counters of get_read_statistics hold exactly the lookups decided so far,
\* modulo their width, for any number of threads and after any wrap-around.
THEOREM StatisticsBalanced == Spec => []StatisticsBalance
<1>1. Init => StatisticsBalance
  <2> SUFFICES ASSUME Init PROVE StatisticsBalance
    OBVIOUS
  <2>1. Looked = {}
    BY DEF Init, Looked, NoCall
  <2> QED
    BY <2>1, FS_EmptySet DEF Init, StatisticsBalance
<1>2. ASSUME IInv, StatisticsBalance, [Next]_vars PROVE StatisticsBalance'
  <2>1. CASE UNCHANGED vars
    BY <1>2, <2>1 DEF vars, counts, locals, StatisticsBalance, Looked
  <2>2. CASE Next
    <3>1. PICK t \in Threads : Uncounted \/ Counted(t) \/ Discharged(t)
      BY <1>2, <2>2, LookupsCounted DEF Next, Step
    <3> QED
      BY <1>2, <3>1, CountingBalances DEF IInv
  <2> QED
    BY <1>2, <2>1, <2>2
<1> QED
  BY <1>1, <1>2, Invariance, PTL DEF Spec

-----------------------------------------------------------------------------
(* DataEngine implements KeyValueStore: get and set of the lock-free table *)
(* are linearizable.                                                       *)

\* What the invariant says of the dictionary the lists stand for.
LEMMA DictionaryOf ==
  ASSUME IInv, NEW key \in Keys
  PROVE  /\ \A n \in Published : m_key[n] = key => Dictionary[key] = m_ptrValue[n]
         /\ (\A n \in Published : m_key[n] # key) => Dictionary[key] = Null
BY DEF IInv, OneNodePerKey, Dictionary

\* A step that keeps the published nodes and their values keeps the dictionary.
LEMMA SameDictionary ==
  ASSUME IInv, IInv', Published' = Published,
         \A n \in Published : m_key'[n] = m_key[n] /\ m_ptrValue'[n] = m_ptrValue[n]
  PROVE  Dictionary' = Dictionary
<1>1. ASSUME NEW key \in Keys PROVE Dictionary'[key] = Dictionary[key]
  <2>1. CASE \E n \in Published : m_key[n] = key
    <3> PICK n \in Published : m_key[n] = key
      BY <2>1
    <3>1. Dictionary[key] = m_ptrValue[n]
      BY DictionaryOf
    <3>2. \E m \in Published' : m_key'[m] = key
      OBVIOUS
    <3>3. \A m \in Published' : m_key'[m] = key => m = n
      BY DEF IInv, OneNodePerKey
    <3> QED
      BY <3>1, <3>2, <3>3 DEF Dictionary
  <2>2. CASE \A n \in Published : m_key[n] # key
    BY <2>2 DEF Dictionary
  <2> QED
    BY <2>1, <2>2
<1> QED
  BY <1>1 DEF Dictionary

\* A step that gives a key its value, in a new node or in the old one.
LEMMA UpdatedDictionary ==
  ASSUME IInv, IInv', NEW key \in Keys, NEW n \in Published',
         m_key'[n] = key, Published' = Published \cup {n},
         \A m \in Published \ {n} : m_key'[m] = m_key[m] /\ m_ptrValue'[m] = m_ptrValue[m],
         n \in Published => m_key[n] = key
  PROVE  Dictionary' = [Dictionary EXCEPT ![key] = m_ptrValue'[n]]
<1>1. \A m \in Published' : m_key'[m] = key <=> m = n
  BY DEF IInv, OneNodePerKey
<1>2. Dictionary'[key] = m_ptrValue'[n]
  BY <1>1 DEF Dictionary
<1>3. ASSUME NEW k \in Keys, k # key PROVE Dictionary'[k] = Dictionary[k]
  <2>1. \A m \in Published' : m_key'[m] = k <=> m \in Published /\ m_key[m] = k
    BY <1>1, <1>3
  <2>2. CASE \E m \in Published : m_key[m] = k
    <3> PICK m \in Published : m_key[m] = k
      BY <2>2
    <3>1. Dictionary[k] = m_ptrValue[m]
      BY DictionaryOf
    <3>2. \A o \in Published' : m_key'[o] = k <=> o = m
      BY <2>1 DEF IInv, OneNodePerKey
    <3>3. Dictionary'[k] = m_ptrValue'[m]
      BY <3>2 DEF Dictionary
    <3> QED
      BY <1>1, <1>3, <3>1, <3>2, <3>3
  <2>3. CASE \A m \in Published : m_key[m] # k
    BY <2>1, <2>3 DEF Dictionary
  <2> QED
    BY <2>2, <2>3
<1>4. /\ Dictionary = [k \in Keys |-> Dictionary[k]]
      /\ Dictionary' = [k \in Keys |-> Dictionary'[k]]
  BY DEF Dictionary
<1> QED
  BY <1>2, <1>3, <1>4

\* Only the answer of the thread that moves can change.
LEMMA AnswerOf ==
  ASSUME NEW t \in Threads,
         \A u \in Threads \ {t} : pc'[u] = pc[u] /\ node'[u] = node[u] /\ reply'[u] = reply[u]
  PROVE  Answer' = [Answer EXCEPT ![t] = Answer'[t]]
<1>1. \A u \in Threads \ {t} : Answer'[u] = Answer[u]
  BY DEF Answer
<1>2. Answer = [u \in Threads |-> Answer[u]] /\ Answer' = [u \in Threads |-> Answer'[u]]
  BY DEF Answer
<1> QED
  BY <1>1, <1>2

\* The constructor builds the empty dictionary.
LEMMA InitRefines == Init => KVS!Init
<1> SUFFICES ASSUME Init PROVE KVS!Init
  OBVIOUS
<1>1. Published = {}
  BY NullIsNothing DEF Init, Published
<1> QED
  BY <1>1 DEF Init, KVS!Init, Dictionary, Answer, KVS!NoCall, NoCall

\* The end of a list without the key: the key is in no list.
LEMMA EndOfList ==
  ASSUME IInv, NEW key \in Keys,
         \/ m_buckets[BucketOf(key)] = Null
         \/ \E n \in Published : /\ SameBucket(m_key[n], key)
                                 /\ m_next[n] = Null
                                 /\ \A m \in ahead[n] \cup {n} : m_key[m] # key
  PROVE  Dictionary[key] = Null
<1>1. \A n \in Published : m_key[n] # key
  BY BucketType DEF IInv, ListInv, SameBucket
<1> QED
  BY <1>1, DictionaryOf

\* Calling and returning are the dictionary's.
LEMMA CallsRefine ==
  ASSUME IInv, IInv', NEW t \in Threads
  PROVE  /\ \A key \in Keys : CallGet(t, key) => KVS!Next
         /\ \A key \in Keys, value \in Values : CallSet(t, key, value) => KVS!Next
         /\ Return(t) => KVS!Next
<1> USE DEF Goto, fields
<1> LocalInv(t) /\ TypeOK
  BY DEF IInv, ThreadInv
<1>1. ASSUME NEW key \in Keys, CallGet(t, key) PROVE KVS!Next
  <2>1. Dictionary' = Dictionary
    BY <1>1, SameDictionary DEF CallGet, Published
  <2>2. Answer' = [Answer EXCEPT ![t] = Answer'[t]]
    BY <1>1, AnswerOf DEF CallGet, TypeOK
  <2>3. Answer' = Answer
    BY <1>1, <2>2 DEF CallGet, TypeOK, Answer
  <2>4. KVS!Call(t, [op |-> "get", key |-> key, value |-> Null])
    BY <1>1, <2>1, <2>3 DEF CallGet, LocalInv, KVS!Call, KVS!NoCall, NoCall
  <2> QED
    BY <2>4 DEF KVS!Next, KVS!Calls, KVS!NoCall
<1>2. ASSUME NEW key \in Keys, NEW value \in Values, CallSet(t, key, value) PROVE KVS!Next
  <2>1. Dictionary' = Dictionary
    BY <1>2, SameDictionary DEF CallSet, Published
  <2>2. Answer' = [Answer EXCEPT ![t] = Answer'[t]]
    BY <1>2, AnswerOf DEF CallSet, TypeOK
  <2>3. Answer' = Answer
    BY <1>2, <2>2 DEF CallSet, TypeOK, Answer
  <2>4. KVS!Call(t, [op |-> "set", key |-> key, value |-> value])
    BY <1>2, <2>1, <2>3 DEF CallSet, LocalInv, KVS!Call, KVS!NoCall, NoCall
  <2> QED
    BY <2>4 DEF KVS!Next, KVS!Calls, KVS!NoCall
<1>3. ASSUME Return(t) PROVE KVS!Next
  <2>1. Dictionary' = Dictionary
    BY <1>3, SameDictionary DEF Return, Published
  <2>2. Answer' = [Answer EXCEPT ![t] = Answer'[t]]
    BY <1>3, AnswerOf DEF Return, TypeOK
  <2>3. Answer[t] = reply[t] /\ Answer'[t] = "pending"
    BY <1>3 DEF Return, TypeOK, Answer
  <2>4. KVS!Return(t)
    BY <1>3, <2>1, <2>2, <2>3 DEF Return, LocalInv, KVS!Return, KVS!NoCall, NoCall
  <2> QED
    BY <2>4 DEF KVS!Next
<1> QED
  BY <1>1, <1>2, <1>3

\* A step inside get is a stutter, or the lookup takes effect: it does when it
\* reads the end of the list, loads the value, or fails to copy it.
LEMMA GetRefines ==
  ASSUME IInv, IInv', NEW t \in Threads, GetStep(t)
  PROVE  [KVS!Next]_KVS!vars
<1> USE DEF Goto, Finish, fields, counts, locals
<1> LocalInv(t) /\ TypeOK
  BY DEF IInv, ThreadInv
<1>1. /\ UNCHANGED <<m_buckets, fields, call>>
      /\ \A u \in Threads \ {t} : pc'[u] = pc[u] /\ node'[u] = node[u] /\ reply'[u] = reply[u]
  BY DEF GetStep, GetBucket, GetNext, GetHit, GetValue, GetCopyThrows, GetMiss, TypeOK
<1>2. Dictionary' = Dictionary
  BY <1>1, SameDictionary DEF Published
<1>3. Answer' = [Answer EXCEPT ![t] = Answer'[t]]
  BY <1>1, AnswerOf
<1>4. call[t].op = "get" /\ call[t].key \in Keys /\ call[t] # NoCall
  BY DEF GetStep, GetBucket, GetNext, GetHit, GetValue, GetCopyThrows, GetMiss,
         LocalInv, TypeOK, Calls, NoCall
<1>5. ASSUME Answer'[t] = Answer[t] PROVE UNCHANGED KVS!vars
  BY <1>1, <1>2, <1>3, <1>5 DEF KVS!vars, Answer
<1>6. ASSUME Answer[t] = "pending", Answer'[t] = Dictionary[call[t].key] PROVE KVS!Next
  <2>1. KVS!EffectGet(t)
    BY <1>1, <1>2, <1>3, <1>4, <1>6 DEF KVS!EffectGet, KVS!Pending
  <2> QED
    BY <2>1 DEF KVS!Next
<1>7. CASE GetBucket(t)
  <2>1. Answer[t] = "pending"
    BY <1>7 DEF GetBucket, Answer, LocalInv
  <2>2. CASE node'[t] = Null
    BY <1>4, <1>6, <1>7, <2>1, <2>2, EndOfList DEF GetBucket, Answer, TypeOK
  <2>3. CASE node'[t] # Null
    BY <1>5, <1>7, <2>1, <2>3 DEF GetBucket, Answer, TypeOK, LocalInv
  <2> QED
    BY <2>2, <2>3
<1>8. CASE GetNext(t)
  <2>1. Answer[t] = "pending" /\ Walked(t)
    BY <1>8 DEF GetNext, Answer, LocalInv
  <2>2. CASE node'[t] = Null
    <3>1. Dictionary[call[t].key] = Null
      BY <1>4, <1>8, <2>1, <2>2, EndOfList DEF GetNext, Walked, TypeOK
    <3> QED
      BY <1>6, <1>8, <2>1, <2>2, <3>1 DEF GetNext, Answer
  <2>3. CASE node'[t] # Null
    BY <1>5, <1>8, <2>1, <2>3 DEF GetNext, Answer, TypeOK, LocalInv
  <2> QED
    BY <2>2, <2>3
<1>9. CASE GetHit(t)
  BY <1>5, <1>9 DEF GetHit, Answer, TypeOK
<1>10. CASE GetValue(t)
  <2>1. Answer[t] = "pending" /\ Answer'[t] = m_ptrValue[node[t]]
    BY <1>10 DEF GetValue, Answer, TypeOK, LocalInv
  <2>2. Dictionary[call[t].key] = m_ptrValue[node[t]]
    BY <1>4, <1>10, DictionaryOf DEF GetValue, LocalInv
  <2> QED
    BY <1>6, <2>1, <2>2
<1>11. CASE GetCopyThrows(t)
  <2>1. Answer[t] = "pending" /\ Answer'[t] = "failed"
    BY <1>11 DEF GetCopyThrows, Answer, TypeOK, LocalInv
  <2>2. KVS!Fail(t)
    BY <1>1, <1>2, <1>3, <1>4, <2>1 DEF KVS!Fail, KVS!NoCall, NoCall
  <2> QED
    BY <2>2 DEF KVS!Next
<1>12. CASE GetMiss(t)
  BY <1>5, <1>12 DEF GetMiss, Answer, TypeOK
<1> QED
  BY <1>7, <1>8, <1>9, <1>10, <1>11, <1>12 DEF GetStep

\* A step inside set is a stutter, or the store takes effect: it does when the
\* CAS links the new node or the value of the old node is replaced.
LEMMA SetRefines ==
  ASSUME IInv, IInv', NEW t \in Threads, SetStep(t)
  PROVE  [KVS!Next]_KVS!vars
<1> USE DEF Goto, Finish, fields, counts, locals
<1> LocalInv(t) /\ TypeOK
  BY DEF IInv, ThreadInv
<1>1. /\ UNCHANGED call
      /\ \A u \in Threads \ {t} : pc'[u] = pc[u] /\ node'[u] = node[u] /\ reply'[u] = reply[u]
  BY DEF SetStep, CreateNode, CreateNodeThrows, LinkFirst, Publish, BucketTaken,
         Overwrite, LinkNext, Advance, TypeOK
<1>2. Answer' = [Answer EXCEPT ![t] = Answer'[t]]
  BY <1>1, AnswerOf
<1>3. Answer[t] = "pending"
  BY DEF Answer, LocalInv, SetStep, CreateNode, CreateNodeThrows, LinkFirst, BucketTaken,
         Overwrite, LinkNext, Advance
<1>4. /\ call[t].op = "set" /\ call[t].key \in Keys /\ call[t].value \in Values
      /\ call[t] # NoCall
  BY DEF SetStep, CreateNode, CreateNodeThrows, LinkFirst, BucketTaken, Overwrite,
         LinkNext, Advance, LocalInv, TypeOK, Calls, NoCall
<1>5. ASSUME Dictionary' = Dictionary, Answer'[t] = Answer[t] PROVE UNCHANGED KVS!vars
  BY <1>1, <1>2, <1>5 DEF KVS!vars, Answer
<1>6. ASSUME Dictionary' = [Dictionary EXCEPT ![call[t].key] = call[t].value],
             Answer'[t] = "stored"
      PROVE  KVS!Next
  <2>1. KVS!EffectSet(t)
    BY <1>1, <1>2, <1>3, <1>4, <1>6 DEF KVS!EffectSet, KVS!Pending
  <2> QED
    BY <2>1 DEF KVS!Next
<1>7. ASSUME NEW n \in Nodes, CreateNode(t, n) PROVE UNCHANGED KVS!vars
  <2>1. n \notin Published /\ m_next[n] = Null
    BY <1>7, PublishedAllocated DEF IInv, ListInv, CreateNode
  <2>2. m_next' = m_next /\ Published' = Published
    BY <1>7, <2>1 DEF CreateNode, TypeOK, Published
  <2>3. Dictionary' = Dictionary
    BY <1>7, <2>1, <2>2, SameDictionary DEF CreateNode, TypeOK, Published
  <2>4. Answer'[t] = Answer[t]
    BY <1>7 DEF CreateNode, Answer, TypeOK
  <2> QED
    BY <1>5, <2>3, <2>4
<1>8. CASE CreateNodeThrows(t)
  <2>1. Dictionary' = Dictionary
    BY <1>8, SameDictionary DEF CreateNodeThrows, Published
  <2>2. Answer'[t] = "failed"
    BY <1>8 DEF CreateNodeThrows, Answer, TypeOK
  <2>3. KVS!Fail(t)
    BY <1>1, <1>2, <1>3, <1>4, <2>1, <2>2 DEF KVS!Fail, KVS!NoCall, NoCall
  <2> QED
    BY <2>3 DEF KVS!Next
<1>9. CASE BucketTaken(t) \/ Advance(t)
  <2>1. Dictionary' = Dictionary
    BY <1>9, SameDictionary DEF BucketTaken, Advance, Published
  <2>2. Answer'[t] = Answer[t]
    BY <1>9 DEF BucketTaken, Advance, Answer, TypeOK
  <2> QED
    BY <1>5, <2>1, <2>2
<1>10. CASE LinkFirst(t) \/ LinkNext(t)
  <2> DEFINE own == ptrNewNode[t]
  <2>1. /\ own \in Nodes \ Published /\ m_key[own] = call[t].key
        /\ m_ptrValue[own] = call[t].value
    BY <1>10, NewNode DEF LinkFirst, LinkNext
  <2>2. m_key' = m_key /\ m_ptrValue' = m_ptrValue
    BY <1>10 DEF LinkFirst, LinkNext
  <2>3. Published' = Published \cup {own}
    <3>1. CASE LinkFirst(t)
      BY <3>1, <1>4, <2>1, BucketType, NullIsNothing DEF LinkFirst, Published, TypeOK
    <3>2. CASE LinkNext(t)
      <4>1. node[t] \in Nodes
        BY <3>2 DEF LinkNext, LocalInv, Walked, Published
      <4>2. m_next' = [m_next EXCEPT ![node[t]] = own] /\ m_buckets' = m_buckets
        BY <3>2 DEF LinkNext
      <4>3. m_next[node[t]] = Null
        BY <3>2 DEF LinkNext
      <4> QED
        BY <4>1, <4>2, <4>3, <2>1, NullIsNothing DEF Published, TypeOK
    <3> QED
      BY <1>10, <3>1, <3>2
  <2>4. Dictionary' = [Dictionary EXCEPT ![call[t].key] = call[t].value]
    BY <1>4, <2>1, <2>2, <2>3, UpdatedDictionary
  <2>5. Answer'[t] = "stored"
    BY <1>10 DEF LinkFirst, LinkNext, Publish, Answer, TypeOK
  <2> QED
    BY <1>6, <2>4, <2>5
<1>11. CASE Overwrite(t)
  <2> DEFINE own == ptrNewNode[t]
  <2>1. /\ own \in Nodes \ Published /\ m_ptrValue[own] = call[t].value
        /\ node[t] \in Published /\ m_key[node[t]] = call[t].key
    BY <1>11, NewNode DEF Overwrite, LocalInv, Walked
  <2>2. Published' = Published
    BY <1>11 DEF Overwrite, Published
  <2>3. /\ m_key' = [m_key EXCEPT ![own] = Null]
        /\ m_ptrValue' = [m_ptrValue EXCEPT ![node[t]] = m_ptrValue[own], ![own] = Null]
    BY <1>11 DEF Overwrite
  <2>4. /\ \A m \in Published : m_key'[m] = m_key[m]
        /\ \A m \in Published \ {node[t]} : m_ptrValue'[m] = m_ptrValue[m]
        /\ m_ptrValue'[node[t]] = call[t].value
    BY <2>1, <2>3 DEF TypeOK, Published
  <2>5. Dictionary' = [Dictionary EXCEPT ![call[t].key] = call[t].value]
    BY <1>4, <2>1, <2>2, <2>4, UpdatedDictionary
  <2>6. Answer'[t] = "stored"
    BY <1>11 DEF Overwrite, Answer, TypeOK
  <2> QED
    BY <1>6, <2>5, <2>6
<1> QED
  BY <1>7, <1>8, <1>9, <1>10, <1>11 DEF SetStep

\* Every step of the engine is a step of the dictionary or changes nothing in it.
LEMMA NextRefines == IInv /\ IInv' /\ [Next]_vars => [KVS!Next]_KVS!vars
<1>1. ASSUME UNCHANGED vars PROVE UNCHANGED KVS!vars
  BY <1>1 DEF vars, fields, counts, locals, KVS!vars, Dictionary, Answer, Published
<1> QED
  BY <1>1, CallsRefine, GetRefines, SetRefines DEF Next, Step

\* DataEngine::get and DataEngine::set are linearizable: whatever way they
\* interleave, callers see a dictionary.
THEOREM Refinement == Spec => Linearizable
<1> QED
  BY InitRefines, NextRefines, Invariance, PTL DEF Spec, Linearizable, KVS!Spec
=============================================================================
