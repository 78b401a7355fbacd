----------------------- MODULE DataEngineObserversProofs -----------------------
(***************************************************************************)
(* Theorems about enumerate, get_read_statistics and the destructor of     *)
(* DataEngine, for every finite set of threads and all sets of observers,  *)
(* keys, values and nodes, every number of buckets and every bound on the  *)
(* calls of get below the width of the counters.                           *)
(***************************************************************************)
EXTENDS DataEngineObservers, DataEngineProofs

-----------------------------------------------------------------------------
(* The lists while get and set run.                                        *)

\* Memory in no list may be written without the lists changing.
LEMMA ChainsKept ==
  ASSUME ChainInv, UNCHANGED <<m_buckets, m_next, ahead>>,
         \A n \in Published : m_key'[n] = m_key[n]
  PROVE  Grows /\ ChainInv'
<1>1. Published' = Published
  BY DEF Published
<1> QED
  BY <1>1 DEF Grows, ChainInv

\* The first node of a bucket is a chain of one.
LEMMA LinkFirstChains ==
  ASSUME IInv, ChainInv, NEW t \in Threads, LinkFirst(t)
  PROVE  Grows /\ ChainInv'
<1> USE DEF fields
<1> DEFINE own == ptrNewNode[t]
           b == BucketOf(call[t].key)
<1> TypeOK /\ ListInv
  BY DEF IInv
<1>1. /\ own \in Nodes \ Published /\ m_key[own] = call[t].key /\ call[t].key \in Keys
      /\ \A n \in Published : ahead[n] \subseteq Published
  BY NewNode DEF LinkFirst
<1>2. b \in Buckets /\ m_buckets[b] = Null /\ own # Null
  BY <1>1, BucketType, NullIsNothing DEF LinkFirst
<1>3. /\ m_buckets' = [m_buckets EXCEPT ![b] = own]
      /\ ahead' = [ahead EXCEPT ![own] = {}]
      /\ m_key' = m_key /\ m_next' = m_next
  BY DEF LinkFirst, Publish
<1> HIDE DEF own, b
<1>4. Published' = Published \cup {own}
  BY <1>1, <1>2, <1>3, NullIsNothing DEF Published, TypeOK
<1>5. \A n \in Published : BucketOf(m_key[n]) # b /\ BucketOf(m_key[n]) \in Buckets
  BY <1>2, BucketType DEF ListInv
<1>6. /\ ahead'[own] = {} /\ m_buckets'[b] = own
      /\ \A n \in Published : /\ ahead'[n] = ahead[n]
                              /\ m_buckets'[BucketOf(m_key[n])] = m_buckets[BucketOf(m_key[n])]
  BY <1>1, <1>2, <1>3, <1>5 DEF TypeOK, Published
<1>7. BucketOf(m_key[own]) = b
  BY <1>1 DEF b
<1>8. Grows
  BY <1>3, <1>4, <1>6 DEF Grows
<1>9. ASSUME NEW n \in Published'
      PROVE  /\ m_buckets'[BucketOf(m_key'[n])] \in ahead'[n] \cup {n}
             /\ \A m \in ahead'[n] : m_next'[m] \in ahead'[n] \cup {n}
  BY <1>3, <1>4, <1>6, <1>7 DEF ChainInv
<1> QED
  BY <1>8, <1>9 DEF ChainInv

\* A node linked to the end of a chain ends it.
LEMMA LinkNextChains ==
  ASSUME IInv, ChainInv, NEW t \in Threads, LinkNext(t)
  PROVE  Grows /\ ChainInv'
<1> DEFINE own == ptrNewNode[t]
           tail == node[t]
<1> TypeOK /\ ListInv
  BY DEF IInv
<1>1. /\ own \in Nodes \ Published /\ m_key[own] = call[t].key
      /\ \A n \in Published : ahead[n] \subseteq Published
  BY NewNode DEF LinkNext
<1>2. /\ tail \in Published /\ tail \in Nodes /\ SameBucket(m_key[tail], m_key[own])
      /\ m_next[tail] = Null /\ own # Null
  BY <1>1, NullIsNothing DEF LinkNext, IInv, ThreadInv, LocalInv, Walked, Published
<1>3. /\ m_next' = [m_next EXCEPT ![tail] = own]
      /\ ahead' = [ahead EXCEPT ![own] = ahead[tail] \cup {tail}]
      /\ m_key' = m_key /\ m_buckets' = m_buckets
  BY DEF LinkNext, Publish
<1> HIDE DEF own, tail
<1>4. Published' = Published \cup {own}
  BY <1>1, <1>2, <1>3, NullIsNothing DEF Published, TypeOK
<1>5. /\ ahead'[own] = ahead[tail] \cup {tail}
      /\ \A n \in Published : ahead'[n] = ahead[n]
      /\ m_next'[tail] = own
      /\ \A n \in Nodes \ {tail} : m_next'[n] = m_next[n]
  BY <1>1, <1>2, <1>3 DEF TypeOK, Published
<1>6. \A n \in Published : tail \notin ahead[n]
  BY <1>2, NullIsNothing DEF ChainInv, Published, ListInv
<1>7. \A n \in Published : \A m \in ahead[n] : m_next'[m] = m_next[m]
  BY <1>1, <1>5, <1>6 DEF Published
<1>8. Grows
  BY <1>3, <1>4, <1>5 DEF Grows
<1>9. ASSUME NEW n \in Published'
      PROVE  /\ m_buckets'[BucketOf(m_key'[n])] \in ahead'[n] \cup {n}
             /\ \A m \in ahead'[n] : m_next'[m] \in ahead'[n] \cup {n}
  <2>1. CASE n \in Published
    BY <2>1, <1>3, <1>5, <1>7 DEF ChainInv
  <2>2. CASE n = own
    BY <2>2, <1>2, <1>3, <1>5, <1>7 DEF ChainInv, SameBucket
  <2> QED
    BY <1>4, <2>1, <2>2
<1> QED
  BY <1>8, <1>9 DEF ChainInv

\* Every step of get and set lets the lists grow at their ends only.
LEMMA NextChains ==
  ASSUME IInv, ChainInv, [Next]_vars
  PROVE  Grows /\ ChainInv'
<1> USE DEF fields
<1> TypeOK /\ ListInv
  BY DEF IInv
<1>1. CASE UNCHANGED <<m_buckets, m_key, m_next, ahead>>
  BY <1>1, ChainsKept
<1>2. ASSUME NEW t \in Threads, NEW n \in Nodes, CreateNode(t, n)
      PROVE  Grows /\ ChainInv'
  <2>1. n \notin Published /\ m_next[n] = Null
    BY <1>2, PublishedAllocated DEF ListInv, CreateNode
  <2>2. m_next' = m_next /\ \A m \in Published : m_key'[m] = m_key[m]
    BY <1>2, <2>1 DEF CreateNode, TypeOK, Published
  <2> QED
    BY <1>2, <2>2, ChainsKept DEF CreateNode
<1>3. ASSUME NEW t \in Threads, Overwrite(t) PROVE Grows /\ ChainInv'
  <2>1. ptrNewNode[t] \in Nodes \ Published
    BY <1>3, NewNode DEF Overwrite
  <2>2. \A m \in Published : m_key'[m] = m_key[m]
    BY <1>3, <2>1 DEF Overwrite, TypeOK, Published
  <2> QED
    BY <1>3, <2>2, ChainsKept DEF Overwrite
<1> QED
  BY <1>1, <1>2, <1>3, LinkFirstChains, LinkNextChains
     DEF Next, Step, GetStep, SetStep, vars, CallGet, CallSet, Return, GetBucket,
         GetNext, GetHit, GetValue, GetCopyThrows, GetMiss, CreateNodeThrows,
         BucketTaken, Advance

-----------------------------------------------------------------------------
(* The counters, which MaxGets keeps from wrapping.                        *)

\* The calls of get are finitely many, and those past their count are among them.
LEMMA GettingFinite ==
  /\ IsFiniteSet(Getting) /\ Cardinality(Getting) \in Nat
  /\ Looked \subseteq Getting /\ Cardinality(Looked) <= Cardinality(Getting)
<1>1. Getting \in SUBSET Threads /\ Looked \in SUBSET Getting
  BY DEF Getting, Looked
<1>2. IsFiniteSet(Getting)
  BY <1>1, ThreadsFinite, FS_Subset
<1> QED
  BY <1>1, <1>2, FS_Subset, FS_CardinalityType

\* A counter below the bound is one more after it is incremented.
LEMMA NoWrap == \A c \in Nat : c < MaxGets => (c + 1) % Counters = c + 1
BY CountersDoNotWrap, CountersPositive

\* A step that counts nothing and starts no get keeps the counters right.
LEMMA UncountedKeeps ==
  ASSUME TypeOK, CountInv, Uncounted, Getting' \subseteq Getting
  PROVE  CountInv'
<1>1. Cardinality(Getting') <= Cardinality(Getting) /\ Cardinality(Getting') \in Nat
  BY GettingFinite, FS_Subset, FS_CardinalityType
<1>2. returned' = returned /\ Cardinality(Looked') = Cardinality(Looked)
      /\ m_successReads' = m_successReads /\ m_failedReads' = m_failedReads
  BY DEF Uncounted, counts
<1>3. returned \in Int /\ MaxGets \in Int /\ Cardinality(Getting) \in Int
  BY GettingFinite, CountersDoNotWrap DEF TypeOK
<1> QED
  BY <1>1, <1>2, <1>3 DEF CountInv

\* Deciding a lookup moves one counter by one.
LEMMA CountedKeeps ==
  ASSUME TypeOK, CountInv, NEW t \in Getting, Counted(t), Getting' = Getting
  PROVE  CountInv' /\ m_successReads <= m_successReads' /\ m_failedReads <= m_failedReads'
<1>1. Cardinality(Looked') = Cardinality(Looked) + 1
  BY LookedFinite, FS_AddElement DEF Counted
<1>2. Cardinality(Looked) + 1 <= Cardinality(Getting)
  <2>1. Looked \cup {t} \in SUBSET Getting
    BY GettingFinite
  <2> QED
    BY <1>1, <2>1, GettingFinite, FS_Subset DEF Counted
<1>3. /\ Cardinality(Looked) \in Nat /\ Cardinality(Getting) \in Nat /\ MaxGets \in Nat
      /\ m_successReads \in Nat /\ m_failedReads \in Nat /\ returned \in Nat
  BY LookedFinite, GettingFinite, CountersDoNotWrap, CountersPositive DEF TypeOK
<1>4. m_successReads < MaxGets /\ m_failedReads < MaxGets
  BY <1>2, <1>3 DEF CountInv
<1>5. /\ (m_successReads + 1) % Counters = m_successReads + 1
      /\ (m_failedReads + 1) % Counters = m_failedReads + 1
  BY <1>3, <1>4, NoWrap
<1>6. /\ m_successReads' + m_failedReads' = m_successReads + m_failedReads + 1
      /\ m_successReads <= m_successReads' /\ m_failedReads <= m_failedReads'
  BY <1>3, <1>5 DEF Counted
<1>7. returned' = returned
  BY DEF Counted
<1> QED
  BY <1>1, <1>3, <1>6, <1>7 DEF CountInv

\* A lookup that returns is one of the returned and no longer one of the calls.
LEMMA DischargedKeeps ==
  ASSUME TypeOK, CountInv, NEW t \in Threads, Discharged(t), Getting' = Getting \ {t}
  PROVE  CountInv'
<1>1. t \in Getting
  BY GettingFinite DEF Discharged
<1>2. /\ Cardinality(Looked') = Cardinality(Looked) - 1
      /\ Cardinality(Getting') = Cardinality(Getting) - 1
      /\ Cardinality(Getting') \in Nat
  BY <1>1, LookedFinite, GettingFinite, FS_RemoveElement, FS_CardinalityType DEF Discharged
<1>3. /\ Cardinality(Looked) \in Nat /\ Cardinality(Getting) \in Nat /\ MaxGets \in Nat
      /\ m_successReads \in Nat /\ m_failedReads \in Nat /\ returned \in Nat
  BY LookedFinite, GettingFinite, CountersDoNotWrap, CountersPositive DEF TypeOK
<1>4. returned < MaxGets
  BY <1>2, <1>3 DEF CountInv
<1>5. returned' = returned + 1
  BY <1>3, <1>4, NoWrap DEF Discharged
<1>6. m_successReads' = m_successReads /\ m_failedReads' = m_failedReads
  BY DEF Discharged
<1> QED
  BY <1>2, <1>3, <1>5, <1>6 DEF CountInv

\* The counters only grow, by the lookups that are decided.
LEMMA EngineCounts ==
  ASSUME IInv, CountInv, NEW t \in Threads, EngineStep(t)
  PROVE  /\ CountInv'
         /\ m_successReads <= m_successReads' /\ m_failedReads <= m_failedReads'
<1> DEFINE Grown == m_successReads <= m_successReads' /\ m_failedReads <= m_failedReads'
<1>1. /\ TypeOK /\ LocalInv(t) /\ call \in [Threads -> Calls]
      /\ m_successReads \in Int /\ m_failedReads \in Int
  BY DEF IInv, TypeOK, ThreadInv
<1>2. Uncounted => Grown
  BY <1>1 DEF Uncounted, counts
<1>3. Discharged(t) => Grown
  BY <1>1 DEF Discharged
<1> HIDE DEF Grown
<1>4. ASSUME NEW key \in Keys, CallGet(t, key),
             returned + Cardinality(Getting) < MaxGets
      PROVE  CountInv' /\ Grown
  <2>1. Uncounted
    BY <1>4, LookupsCounted
  <2>2. Getting' = Getting \cup {t}
    BY <1>1, <1>4 DEF CallGet, Getting
  <2>3. t \notin Getting
    BY <1>1, <1>4 DEF CallGet, Getting, LocalInv, NoCall
  <2>4. Cardinality(Getting') = Cardinality(Getting) + 1
    BY <2>2, <2>3, GettingFinite, FS_AddElement
  <2>5. returned \in Nat /\ Cardinality(Getting) \in Nat /\ MaxGets \in Nat
    BY <1>1, GettingFinite, CountersDoNotWrap DEF TypeOK
  <2>6. returned' + Cardinality(Getting') <= MaxGets
    BY <1>4, <2>1, <2>4, <2>5 DEF Uncounted, counts
  <2> QED
    BY <1>2, <2>1, <2>6 DEF CountInv, Uncounted, counts
<1>5. ASSUME NEW key \in Keys, NEW value \in Values, CallSet(t, key, value)
      PROVE  CountInv' /\ Grown
  <2>1. Getting' \subseteq Getting
    BY <1>1, <1>5 DEF CallSet, Getting
  <2> QED
    BY <1>1, <1>2, <1>5, <2>1, LookupsCounted, UncountedKeeps
<1>6. ASSUME Return(t) PROVE CountInv' /\ Grown
  <2>1. Getting' = Getting \ {t}
    BY <1>1, <1>6 DEF Return, Getting, NoCall
  <2> QED
    BY <1>1, <1>2, <1>3, <1>6, <2>1, LookupsCounted, UncountedKeeps, DischargedKeeps
<1>7. ASSUME GetStep(t) PROVE CountInv' /\ Grown
  <2>1. call' = call /\ call[t].op = "get"
    BY <1>1, <1>7 DEF GetStep, GetBucket, GetNext, GetHit, GetValue, GetCopyThrows,
                      GetMiss, locals, LocalInv
  <2>2. Getting' = Getting /\ t \in Getting
    BY <2>1 DEF Getting
  <2> QED
    BY <1>1, <1>2, <1>7, <2>2, LookupsCounted, UncountedKeeps, CountedKeeps DEF Grown
<1>8. ASSUME SetStep(t) PROVE CountInv' /\ Grown
  <2>1. call' = call
    BY <1>8 DEF SetStep, CreateNode, CreateNodeThrows, LinkFirst, BucketTaken,
                Overwrite, LinkNext, Advance
  <2>2. Getting' = Getting
    BY <2>1 DEF Getting
  <2> QED
    BY <1>1, <1>2, <1>8, <2>2, LookupsCounted, UncountedKeeps
<1> QED
  BY <1>4, <1>5, <1>6, <1>7, <1>8 DEF EngineStep, Step, Grown

-----------------------------------------------------------------------------
(* enumerate and get_read_statistics.                                      *)

\* An enumeration is not disturbed by lists that grow.
LEMMA EnumerateUndisturbed ==
  ASSUME Grows, NEW o \in Observers, EnumerateInv(o),
         at'[o] = at[o], bucket'[o] = bucket[o], cursor'[o] = cursor[o],
         visited'[o] = visited[o], before'[o] = before[o]
  PROVE  EnumerateInv(o)'
<1>1. VisitedKeys(o)' = VisitedKeys(o)
  BY DEF VisitedKeys
<1>2. \A n \in Published : n \in Published' /\ m_key'[n] = m_key[n] /\ ahead'[n] = ahead[n]
  BY DEF Grows
<1> QED
  BY <1>1, <1>2 DEF EnumerateInv, Behind

\* A step of a thread keeps the invariant.
LEMMA EngineKeepsOIInv ==
  ASSUME OIInv, NEW t \in Threads, EngineStep(t)
  PROVE  OIInv'
<1>1. /\ IInv /\ ChainInv /\ CountInv /\ OTypeOK
      /\ \A o \in Observers : StatisticsInv(o) /\ VisitedOnce(o) /\ EnumerateInv(o)
      /\ life = "alive" /\ swept = 0 /\ doomed = Null
  BY DEF OIInv, EngineStep
<1>2. Next
  <2>1. \/ \E key \in Keys : CallGet(t, key)
        \/ \E key \in Keys, value \in Values : CallSet(t, key, value)
        \/ Step(t)
    BY DEF EngineStep
  <2> QED
    BY <2>1, Zenon DEF Next
<1>3. IInv' /\ TypeOK'
  BY <1>1, <1>2, NextIInv DEF IInv
<1>4. Grows /\ ChainInv'
  BY <1>1, <1>2, NextChains
<1>5. CountInv' /\ m_successReads <= m_successReads' /\ m_failedReads <= m_failedReads'
  BY <1>1, EngineCounts
<1>6. UNCHANGED <<at, bucket, cursor, visited, success, reads, before, least,
                  life, swept, doomed>>
  BY DEF EngineStep, observer, ending
<1>7. OTypeOK'
  BY <1>1, <1>6 DEF OTypeOK
<1>8. ASSUME NEW o \in Observers
      PROVE  StatisticsInv(o)' /\ VisitedOnce(o)' /\ EnumerateInv(o)'
  <2>1. StatisticsInv(o)'
    <3>1. /\ m_successReads \in Nat /\ m_failedReads \in Nat
          /\ m_successReads' \in Nat /\ m_failedReads' \in Nat
          /\ success[o] \in Nat /\ least[o] \in Nat
      BY <1>1, <1>3, CountersPositive, CountersDoNotWrap DEF IInv, TypeOK, OTypeOK
    <3> QED
      BY <1>1, <1>5, <1>6, <3>1 DEF StatisticsInv
  <2>2. VisitedOnce(o)'
    BY <1>1, <1>6 DEF VisitedOnce
  <2>3. EnumerateInv(o)'
    BY <1>1, <1>4, <1>6, EnumerateUndisturbed
  <2> QED
    BY <2>1, <2>2, <2>3
<1> QED
  BY <1>1, <1>3, <1>4, <1>5, <1>6, <1>7, <1>8 DEF OIInv

\* A step of one observer that fits its own invariant keeps the whole.
LEMMA ObserverAlone ==
  ASSUME OIInv, life = "alive", NEW o \in Observers, UNCHANGED <<vars, ending>>, OTypeOK',
         StatisticsInv(o)', VisitedOnce(o)', EnumerateInv(o)',
         \A p \in Observers \ {o} :
            /\ at'[p] = at[p] /\ bucket'[p] = bucket[p] /\ cursor'[p] = cursor[p]
            /\ visited'[p] = visited[p] /\ success'[p] = success[p]
            /\ before'[p] = before[p] /\ least'[p] = least[p]
  PROVE  OIInv'
<1>1. IInv /\ ChainInv /\ CountInv /\ TypeOK
  BY DEF OIInv
<1>2. IInv' /\ TypeOK'
  BY <1>1, NextIInv DEF IInv
<1>3. Grows /\ ChainInv'
  BY <1>1, NextChains
<1>4. UNCHANGED <<m_successReads, m_failedReads, returned, pc, call>>
  BY DEF vars, counts, locals
<1>5. CountInv'
  BY <1>1, <1>4 DEF CountInv, Looked, Getting
<1>6. ASSUME NEW p \in Observers, p # o
      PROVE  StatisticsInv(p)' /\ VisitedOnce(p)' /\ EnumerateInv(p)'
  <2>1. StatisticsInv(p) /\ VisitedOnce(p) /\ EnumerateInv(p)
    BY DEF OIInv
  <2>2. EnumerateInv(p)'
    BY <1>3, <1>6, <2>1, EnumerateUndisturbed
  <2> QED
    BY <1>4, <1>6, <2>1, <2>2 DEF StatisticsInv, VisitedOnce
<1>7. UNCHANGED <<life, swept, doomed>>
  BY DEF ending
<1> QED
  BY <1>2, <1>3, <1>5, <1>6, <1>7 DEF OIInv

\* The lists do not change when only an observer moves.
LEMMA ObserverLists ==
  ASSUME UNCHANGED vars
  PROVE  /\ Published' = Published
         /\ UNCHANGED <<m_buckets, m_key, m_next, ahead, m_successReads, m_failedReads, returned>>
BY DEF vars, fields, counts, Published

\* Beginning, moving to the next bucket and ending keep the invariant: the keys
\* behind the cursor are those the visitor was called with.
LEMMA EnumerateKeepsOIInv ==
  ASSUME OIInv, NEW o \in Observers
  PROVE  /\ EnumerateBegin(o) => OIInv'
         /\ EnumerateBucket(o) => OIInv'
         /\ EnumerateEnd(o) => OIInv'
<1> USE DEF ending
<1>1. ASSUME EnumerateBegin(o) PROVE OIInv'
  <2>1. /\ life = "alive" /\ at[o] = "idle" /\ UNCHANGED vars
        /\ OTypeOK /\ EnumerateInv(o) /\ IInv
    BY <1>1 DEF EnumerateBegin, OIInv
  <2>2. /\ Published' = Published /\ m_key' = m_key /\ Published \subseteq Nodes
        /\ \A n \in Published : BucketOf(m_key[n]) \in Nat
    BY <2>1, ObserverLists, BucketType DEF Published, IInv, ListInv, Buckets
  <2>3. /\ at'[o] = "enumerate" /\ bucket'[o] = 0 /\ cursor'[o] = Null
        /\ visited'[o] = <<>> /\ before'[o] = Published
    BY <1>1, <2>1 DEF EnumerateBegin, OTypeOK, EnumerateInv
  <2>4. OTypeOK'
    BY <1>1, <2>1, <2>2, BucketCountPositive DEF EnumerateBegin, OTypeOK
  <2>5. VisitedKeys(o)' = {} /\ VisitedOnce(o)'
    BY <2>3 DEF VisitedKeys, VisitedOnce
  <2>6. EnumerateInv(o)'
    BY <2>2, <2>3, <2>5 DEF EnumerateInv, Behind
  <2>7. StatisticsInv(o)'
    BY <2>3 DEF StatisticsInv
  <2> QED
    BY <1>1, <2>1, <2>4, <2>5, <2>6, <2>7, ObserverAlone DEF EnumerateBegin, OTypeOK
<1>2. ASSUME EnumerateBucket(o) PROVE OIInv'
  <2>1. /\ life = "alive" /\ at[o] = "enumerate" /\ UNCHANGED vars
        /\ OTypeOK /\ EnumerateInv(o) /\ IInv /\ VisitedOnce(o)
        /\ cursor[o] = Null /\ bucket[o] \in Buckets
    BY <1>2, BucketCountPositive DEF EnumerateBucket, OIInv, OTypeOK, Buckets
  <2>2. /\ Published' = Published /\ m_key' = m_key /\ ahead' = ahead
        /\ \A n \in Published : BucketOf(m_key[n]) \in Nat
    BY <2>1, ObserverLists, BucketType DEF IInv, ListInv, Buckets
  <2>3. /\ at' = at /\ bucket'[o] = bucket[o] + 1 /\ cursor'[o] = m_buckets[bucket[o]]
        /\ visited' = visited /\ before' = before
    BY <1>2, <2>1 DEF EnumerateBucket, OTypeOK
  <2>4. OTypeOK'
    <3>1. m_buckets[bucket[o]] \in Nodes \cup {Null}
      BY <2>1 DEF IInv, TypeOK
    <3>2. bucket[o] + 1 \in 0 .. BucketCount
      BY <2>1, BucketCountPositive DEF Buckets
    <3>3. /\ bucket' \in [Observers -> 0 .. BucketCount]
          /\ cursor' \in [Observers -> Nodes \cup {Null}]
      BY <1>2, <2>1, <3>1, <3>2 DEF EnumerateBucket, OTypeOK
    <3> QED
      BY <1>2, <2>1, <3>3 DEF EnumerateBucket, OTypeOK
  <2>5. VisitedKeys(o)' = VisitedKeys(o) /\ VisitedOnce(o)' /\ StatisticsInv(o)'
    BY <2>1, <2>3 DEF VisitedKeys, VisitedOnce, StatisticsInv
  <2>6. IF m_buckets[bucket[o]] = Null
        THEN \A n \in Published : BucketOf(m_key[n]) # bucket[o]
        ELSE /\ m_buckets[bucket[o]] \in Published
             /\ BucketOf(m_key[m_buckets[bucket[o]]]) = bucket[o]
             /\ ahead[m_buckets[bucket[o]]] = {}
    BY <2>1 DEF IInv, ListInv, Published, TypeOK
  <2>7. ASSUME NEW n \in Published
        PROVE  Behind(o, n)' <=> Behind(o, n)
    <3>1. bucket[o] \in Nat /\ bucket'[o] \in Nat /\ BucketOf(m_key[n]) \in Nat
      BY <2>1, <2>2, <2>3 DEF Buckets
    <3>2. Behind(o, n) <=> BucketOf(m_key[n]) < bucket[o]
      BY <2>1, <3>1 DEF Behind
    <3>3. Behind(o, n)' <=> BucketOf(m_key[n]) < bucket[o]
      BY <2>1, <2>2, <2>3, <2>6, <3>1 DEF Behind
    <3> QED
      BY <3>2, <3>3
  <2>8. EnumerateInv(o)'
    BY <2>1, <2>2, <2>3, <2>5, <2>6, <2>7 DEF EnumerateInv
  <2> QED
    BY <1>2, <2>1, <2>4, <2>5, <2>8, ObserverAlone DEF EnumerateBucket, OTypeOK
<1>3. ASSUME EnumerateEnd(o) PROVE OIInv'
  <2>1. /\ life = "alive" /\ at[o] = "enumerate" /\ UNCHANGED vars
        /\ OTypeOK /\ EnumerateInv(o) /\ IInv /\ VisitedOnce(o)
        /\ cursor[o] = Null /\ bucket[o] = BucketCount
    BY <1>3 DEF EnumerateEnd, OIInv
  <2>2. /\ Published' = Published /\ m_key' = m_key
        /\ \A n \in Published : BucketOf(m_key[n]) \in Buckets
    BY <2>1, ObserverLists, BucketType DEF IInv, ListInv
  <2>3. /\ at'[o] = "idle" /\ bucket' = bucket /\ cursor' = cursor
        /\ visited' = visited /\ before' = before
    BY <1>3, <2>1 DEF EnumerateEnd, OTypeOK
  <2>4. OTypeOK'
    BY <1>3, <2>1 DEF EnumerateEnd, OTypeOK
  <2>5. VisitedKeys(o)' = VisitedKeys(o) /\ VisitedOnce(o)' /\ StatisticsInv(o)'
    BY <2>1, <2>3 DEF VisitedKeys, VisitedOnce, StatisticsInv
  <2>6. \A n \in Published : Behind(o, n) /\ Behind(o, n)'
    BY <2>1, <2>2, <2>3, BucketCountPositive DEF Behind, Buckets
  <2>7. EnumerateInv(o)'
    BY <2>1, <2>2, <2>3, <2>5, <2>6 DEF EnumerateInv
  <2> QED
    BY <1>3, <2>1, <2>4, <2>5, <2>7, ObserverAlone DEF EnumerateEnd, OTypeOK
<1> QED
  BY <1>1, <1>2, <1>3

\* What the visitor has been called with after one more call.
LEMMA VisitorCalled ==
  ASSUME NEW o \in Observers, visited[o] \in Seq(Keys), NEW key \in Keys,
         visited'[o] = Append(visited[o], key)
  PROVE  /\ VisitedKeys(o)' = VisitedKeys(o) \cup {key}
         /\ VisitedOnce(o) /\ key \notin VisitedKeys(o) => VisitedOnce(o)'
<1> DEFINE s == visited[o]
           n == Len(s)
<1>1. n \in Nat /\ DOMAIN s = 1 .. n /\ DOMAIN visited'[o] = 1 .. (n + 1)
  OBVIOUS
<1>2. visited'[o][n + 1] = key /\ \A i \in 1 .. n : visited'[o][i] = s[i]
  OBVIOUS
<1> HIDE DEF s, n
<1>3. VisitedKeys(o)' = VisitedKeys(o) \cup {key}
  <2>1. VisitedKeys(o) = {s[i] : i \in 1 .. n}
    BY <1>1 DEF VisitedKeys, s
  <2>2. VisitedKeys(o)' = {visited'[o][i] : i \in 1 .. (n + 1)}
    BY <1>1 DEF VisitedKeys
  <2>3. \A i \in 1 .. (n + 1) : i \in 1 .. n \/ i = n + 1
    BY <1>1
  <2>4. (1 .. n) \subseteq 1 .. (n + 1) /\ n + 1 \in 1 .. (n + 1)
    BY <1>1
  <2> QED
    BY <1>2, <2>1, <2>2, <2>3, <2>4
<1>4. ASSUME VisitedOnce(o), key \notin VisitedKeys(o) PROVE VisitedOnce(o)'
  <2>1. \A i \in 1 .. n : s[i] # key
    BY <1>1, <1>4 DEF VisitedKeys, s
  <2>2. \A i, j \in 1 .. n : s[i] = s[j] => i = j
    BY <1>1, <1>4 DEF VisitedOnce, s
  <2> QED
    BY <1>1, <1>2, <2>1, <2>2 DEF VisitedOnce
<1> QED
  BY <1>3, <1>4

\* A visit keeps the invariant: the key is new, and a list that ends at the
\* cursor has no other node that was there when the enumeration began.
LEMMA VisitKeepsOIInv ==
  ASSUME OIInv, NEW o \in Observers, EnumerateVisit(o)
  PROVE  OIInv'
<1> USE DEF ending
<1> DEFINE c == cursor[o]
           key == m_key[c]
           next == m_next[c]
<1>1. /\ life = "alive" /\ at[o] = "enumerate" /\ UNCHANGED vars
      /\ OTypeOK /\ EnumerateInv(o) /\ IInv /\ VisitedOnce(o) /\ c # Null
  BY DEF EnumerateVisit, OIInv
<1>2. TypeOK /\ ListInv /\ OneNodePerKey
  BY <1>1 DEF IInv
<1>3. /\ c \in Published /\ c \in Nodes /\ key \in Keys /\ BucketOf(key) + 1 = bucket[o]
      /\ next \in Nodes \cup {Null}
  BY <1>1, <1>2 DEF EnumerateInv, Published, ListInv, TypeOK
<1>4. /\ Published' = Published /\ m_key' = m_key /\ ahead' = ahead
      /\ \A n \in Published : BucketOf(m_key[n]) \in Nat
  BY <1>1, <1>2, ObserverLists, BucketType DEF ListInv, Buckets
<1>5. /\ at' = at /\ bucket' = bucket /\ before' = before
      /\ visited' = [visited EXCEPT ![o] = Append(@, key)]
      /\ cursor' = [cursor EXCEPT ![o] = next]
  BY DEF EnumerateVisit
<1>6. IF next = Null
      THEN \A n \in Published : SameBucket(m_key[n], key) => n \in ahead[c] \cup {c}
      ELSE next \in Published /\ SameBucket(m_key[next], key) /\ ahead[next] = ahead[c] \cup {c}
  BY <1>2, <1>3 DEF ListInv, Published
<1>7. c \notin ahead[c]
  BY <1>2, <1>3 DEF ListInv
<1> HIDE DEF c, key, next
<1>8. OTypeOK'
  BY <1>1, <1>3, <1>5 DEF OTypeOK, EnumerateVisit
<1>9. cursor'[o] = next /\ visited'[o] = Append(visited[o], key) /\ visited[o] \in Seq(Keys)
  BY <1>1, <1>5 DEF OTypeOK
<1>10. \A n \in Published : m_key[n] = key => n = c
  BY <1>2, <1>3 DEF OneNodePerKey, key
<1>11. ~Behind(o, c)
  BY <1>1, <1>3, <1>4, <1>7 DEF Behind, c, key
<1>12. key \notin VisitedKeys(o)
  BY <1>1, <1>10, <1>11 DEF EnumerateInv
<1>13. VisitedKeys(o)' = VisitedKeys(o) \cup {key} /\ VisitedOnce(o)'
  BY <1>1, <1>3, <1>9, <1>12, VisitorCalled
<1>14. ASSUME NEW n \in Published
       PROVE  /\ Behind(o, n) \/ n = c => Behind(o, n)'
              /\ Behind(o, n)' /\ n \in before[o] => Behind(o, n) \/ n = c
  <2>1. BucketOf(m_key[n]) \in Nat /\ bucket[o] \in Nat /\ BucketOf(key) \in Nat
    BY <1>1, <1>3, <1>4, BucketCountPositive, BucketType DEF OTypeOK, Buckets
  <2>2. Behind(o, n) <=> \/ BucketOf(m_key[n]) + 1 < bucket[o]
                         \/ BucketOf(m_key[n]) + 1 = bucket[o] /\ n \in ahead[c]
    BY <1>1 DEF Behind, c
  <2>3. Behind(o, n)' <=> \/ BucketOf(m_key[n]) + 1 < bucket[o]
                          \/ BucketOf(m_key[n]) + 1 = bucket[o] /\ (next = Null \/ n \in ahead[next])
    BY <1>1, <1>4, <1>5, <1>9 DEF Behind
  <2>4. BucketOf(m_key[n]) + 1 = bucket[o] <=> SameBucket(m_key[n], key)
    BY <1>3, <2>1 DEF SameBucket
  <2>5. n = c => BucketOf(m_key[n]) + 1 = bucket[o]
    BY <1>3 DEF key
  <2> QED
    BY <1>6, <2>2, <2>3, <2>4, <2>5
<1>15. EnumerateInv(o)'
  <2>1. at'[o] # "enumerate" => cursor'[o] = Null
    BY <1>1, <1>5
  <2>2. cursor'[o] # Null => cursor'[o] \in Published' /\ BucketOf(m_key'[cursor'[o]]) + 1 = bucket'[o]
    BY <1>3, <1>4, <1>5, <1>6, <1>9 DEF SameBucket
  <2>3. before'[o] \subseteq Published'
    BY <1>1, <1>4, <1>5 DEF EnumerateInv
  <2>4. ASSUME NEW n \in before'[o], Behind(o, n)' PROVE m_key'[n] \in VisitedKeys(o)'
    <3>1. n \in Published /\ n \in before[o]
      BY <1>1, <1>5 DEF EnumerateInv
    <3>2. Behind(o, n) \/ n = c
      BY <1>14, <2>4, <3>1
    <3> QED
      BY <1>1, <1>4, <1>13, <3>1, <3>2 DEF EnumerateInv, key
  <2>5. ASSUME NEW k \in VisitedKeys(o)'
        PROVE  \E n \in Published' : m_key'[n] = k /\ Behind(o, n)'
    <3>1. \E n \in Published : m_key[n] = k /\ (Behind(o, n) \/ n = c)
      BY <1>1, <1>3, <1>13 DEF EnumerateInv, key
    <3> QED
      BY <1>4, <1>14, <3>1
  <2> QED
    BY <2>1, <2>2, <2>3, <2>4, <2>5 DEF EnumerateInv
<1>16. StatisticsInv(o)'
  BY <1>1, <1>5 DEF StatisticsInv
<1> QED
  BY <1>1, <1>5, <1>8, <1>13, <1>15, <1>16, ObserverAlone DEF EnumerateVisit, OTypeOK

\* The two loads of get_read_statistics keep the invariant.
LEMMA StatisticsKeepOIInv ==
  ASSUME OIInv, NEW o \in Observers
  PROVE  LoadSuccess(o) \/ LoadFailed(o) => OIInv'
<1> USE DEF ending
<1>1. OTypeOK /\ TypeOK /\ VisitedOnce(o) /\ CountInv
  BY DEF OIInv
<1>2. /\ m_successReads \in 0 .. (Counters - 1) /\ m_failedReads \in 0 .. (Counters - 1)
      /\ Counters \in Nat /\ MaxGets \in Nat /\ returned \in Nat
      /\ Cardinality(Looked) \in Nat /\ Cardinality(Getting) \in Nat
  BY <1>1, CountersPositive, CountersDoNotWrap, LookedFinite, GettingFinite DEF TypeOK
<1>3. ASSUME UNCHANGED vars, UNCHANGED <<bucket, cursor, visited, before>>,
             at[o] # "enumerate", at'[o] # "enumerate", EnumerateInv(o)
      PROVE  EnumerateInv(o)' /\ VisitedOnce(o)'
  <2>1. Published' = Published /\ m_key' = m_key
    BY <1>3, ObserverLists
  <2>2. VisitedKeys(o)' = VisitedKeys(o) /\ VisitedOnce(o)'
    BY <1>1, <1>3 DEF VisitedKeys, VisitedOnce
  <2> QED
    BY <1>3, <2>1, <2>2 DEF EnumerateInv, Behind
<1>4. ASSUME LoadSuccess(o) PROVE OIInv'
  <2>1. life = "alive" /\ EnumerateInv(o) /\ at'[o] = "statistics"
    BY <1>1, <1>4 DEF LoadSuccess, OIInv, OTypeOK
  <2>2. EnumerateInv(o)' /\ VisitedOnce(o)'
    BY <1>3, <1>4, <2>1 DEF LoadSuccess
  <2>3. success'[o] = m_successReads /\ least'[o] = returned
    BY <1>1, <1>4 DEF LoadSuccess, OTypeOK
  <2>4. returned <= m_successReads + m_failedReads /\ returned \in 0 .. MaxGets
    BY <1>1, <1>2 DEF CountInv
  <2>5. StatisticsInv(o)'
    BY <1>2, <1>4, <2>3, <2>4, ObserverLists DEF LoadSuccess, StatisticsInv
  <2>6. OTypeOK'
    BY <1>1, <1>2, <1>4, <2>4 DEF LoadSuccess, OTypeOK
  <2> QED
    BY <1>1, <1>4, <2>1, <2>2, <2>5, <2>6, ObserverAlone DEF LoadSuccess, OTypeOK
<1>5. ASSUME LoadFailed(o) PROVE OIInv'
  <2>1. life = "alive" /\ EnumerateInv(o) /\ at'[o] = "idle"
    BY <1>1, <1>5 DEF LoadFailed, OIInv, OTypeOK
  <2>2. EnumerateInv(o)' /\ VisitedOnce(o)'
    BY <1>3, <1>5, <2>1 DEF LoadFailed
  <2>3. StatisticsInv(o)'
    BY <2>1 DEF StatisticsInv
  <2>4. success[o] + m_failedReads \in 0 .. (2 * Counters)
    <3>1. success[o] \in 0 .. (Counters - 1)
      BY <1>1 DEF OTypeOK
    <3> QED
      BY <1>2, <3>1
  <2>5. OTypeOK'
    BY <1>1, <1>5, <2>4 DEF LoadFailed, OTypeOK
  <2> QED
    BY <1>1, <1>5, <2>1, <2>2, <2>3, <2>5, ObserverAlone DEF LoadFailed, OTypeOK
<1> QED
  BY <1>4, <1>5

-----------------------------------------------------------------------------
(* The destructor.                                                         *)

\* When nobody uses the engine, the lists own every node there is.
LEMMA DestructorBegins ==
  ASSUME IInv, ChainInv, swept = 0, doomed = Null,
         \A t \in Threads : pc[t] = "idle"
  PROVE  DestroyInv
<1> TypeOK /\ ListInv /\ OneOwner
  BY DEF IInv
<1>1. \A t \in Threads : ptrNewNode[t] = Null
  BY DEF IInv, ThreadInv, LocalInv
<1>2. Allocated = Published
  BY <1>1, PublishedAllocated, NullIsNothing DEF OneOwner, Allocated
<1>3. \A n \in Published : m_key[n] \in Keys /\ BucketOf(m_key[n]) \in Buckets
  BY BucketType DEF ListInv
<1>4. \A n \in Published : Owed(n)
  BY <1>3 DEF Owed, Buckets
<1>5. \A n \in Published : \A m \in ahead[n] : m \in Published /\ n \notin ahead[m]
  BY DEF ListInv
<1>6. ASSUME NEW b \in Buckets
      PROVE  IF m_buckets[b] = Null
             THEN \A n \in Published : BucketOf(m_key[n]) # b
             ELSE /\ m_buckets[b] \in Published
                  /\ BucketOf(m_key[m_buckets[b]]) = b
                  /\ \A n \in Published :
                        BucketOf(m_key[n]) = b => m_buckets[b] \in ahead[n] \cup {n}
  BY DEF ListInv, ChainInv, Published, TypeOK
<1>7. ASSUME NEW m \in Published
      PROVE  IF m_next[m] = Null
             THEN \A n \in Published : m \notin ahead[n]
             ELSE /\ m_next[m] \in Published
                  /\ SameBucket(m_key[m_next[m]], m_key[m])
                  /\ m \in ahead[m_next[m]]
                  /\ \A n \in Published :
                        m \in ahead[n] => m_next[m] \in ahead[n] \cup {n}
  <2>1. m \in Nodes
    BY DEF Published
  <2>2. CASE m_next[m] = Null
    <3>1. \A n \in Published : Null \notin ahead[n] \cup {n}
      BY <1>5, NullIsNothing DEF Published
    <3> QED
      BY <2>2, <3>1 DEF ChainInv
  <2>3. CASE m_next[m] # Null
    <3>1. m_next[m] \in Published
      BY <2>1, <2>3 DEF Published, TypeOK
    <3> QED
      BY <2>3, <3>1 DEF ListInv, ChainInv
  <2> QED
    BY <2>2, <2>3
<1> QED
  BY <1>2, <1>4, <1>5, <1>6, <1>7 DEF DestroyInv

\* Taking the head of the next bucket dooms every node of its list.
LEMMA BucketDoomed ==
  ASSUME TypeOK, OTypeOK, DestroyInv, DestroyBucket
  PROVE  DestroyInv'
<1>1. /\ doomed = Null /\ swept \in Buckets /\ swept' = swept + 1
      /\ doomed' = m_buckets[swept]
      /\ UNCHANGED <<m_buckets, m_key, m_next, ahead>>
  BY BucketCountPositive DEF DestroyBucket, OTypeOK, Buckets, vars, fields
<1>2. Allocated' = Allocated
  BY <1>1 DEF Allocated
<1>3. \A n \in Allocated : BucketOf(m_key[n]) \in Nat
  BY BucketType, NullIsNothing DEF Allocated, TypeOK, Buckets
<1>4. /\ swept \in Nat
      /\ \A n \in Allocated : BucketOf(m_key[n]) >= swept
  BY <1>1 DEF DestroyInv, Owed, Buckets
<1>5. IF m_buckets[swept] = Null
      THEN \A n \in Allocated : BucketOf(m_key[n]) # swept
      ELSE /\ m_buckets[swept] \in Allocated
           /\ BucketOf(m_key[m_buckets[swept]]) = swept
           /\ \A n \in Allocated :
                  BucketOf(m_key[n]) = swept => m_buckets[swept] \in ahead[n] \cup {n}
  <2>1. swept >= swept
    BY <1>4
  <2> QED
    BY <1>1, <2>1 DEF DestroyInv
<1>6. ASSUME NEW n \in Allocated PROVE Owed(n)'
  <2>1. BucketOf(m_key[n]) \in Nat /\ BucketOf(m_key[n]) >= swept
    BY <1>3, <1>4
  <2>2. CASE BucketOf(m_key[n]) = swept
    BY <1>1, <1>4, <1>5, <2>2 DEF Owed
  <2>3. CASE BucketOf(m_key[n]) # swept
    BY <1>1, <1>4, <2>1, <2>3 DEF Owed
  <2> QED
    BY <2>2, <2>3
<1>7. doomed' # Null => doomed' \in Allocated' /\ BucketOf(m_key'[doomed']) + 1 = swept'
  BY <1>1, <1>2, <1>5
<1>8. \A b \in Buckets : b >= swept + 1 => b >= swept
  BY <1>1 DEF Buckets
<1>9. \A n \in Allocated' : Owed(n)' /\ \A m \in ahead'[n] : n \notin ahead'[m]
  BY <1>1, <1>2, <1>6 DEF DestroyInv
<1> QED
  BY <1>1, <1>2, <1>7, <1>8, <1>9 DEF DestroyInv, SameBucket

\* Freeing the doomed node leaves the rest of its list owed, from the next node
\* on, and nothing left points to the freed node.
LEMMA NodeFreed ==
  ASSUME TypeOK, OTypeOK, DestroyInv, DestroyNode
  PROVE  DestroyInv' /\ TypeOK' /\ OTypeOK'
<1> DEFINE d == doomed
           next == m_next[d]
<1>1. /\ d \in Allocated /\ d \in Nodes /\ d # Null /\ BucketOf(m_key[d]) + 1 = swept
      /\ next \in Nodes \cup {Null}
  BY DEF DestroyNode, DestroyInv, Allocated, TypeOK
<1>2. /\ m_key' = [m_key EXCEPT ![d] = Null] /\ m_ptrValue' = [m_ptrValue EXCEPT ![d] = Null]
      /\ m_next' = [m_next EXCEPT ![d] = Null]
      /\ doomed' = next /\ swept' = swept
      /\ m_buckets' = m_buckets /\ ahead' = ahead
      /\ UNCHANGED <<counts, pc, locals, observer, life>>
  BY DEF DestroyNode, Deallocate
<1> HIDE DEF d, next
<1>3. TypeOK'
  BY <1>1, <1>2 DEF TypeOK, counts, locals
<1>4. OTypeOK'
  BY <1>1, <1>2 DEF OTypeOK, observer
<1>5. /\ m_key'[d] = Null /\ m_next'[d] = Null
      /\ \A n \in Nodes \ {d} : m_key'[n] = m_key[n] /\ m_next'[n] = m_next[n]
  BY <1>1, <1>2 DEF TypeOK
<1>6. Allocated' = Allocated \ {d}
  BY <1>1, <1>5 DEF Allocated
<1>7. \A n \in Allocated' : /\ n \in Allocated /\ n # d /\ n \in Nodes
                             /\ m_key'[n] = m_key[n] /\ m_next'[n] = m_next[n]
                             /\ BucketOf(m_key[n]) \in Nat
  BY <1>5, <1>6, BucketType, NullIsNothing DEF Allocated, TypeOK, Buckets
<1>8. IF next = Null
      THEN \A n \in Allocated : d \notin ahead[n]
      ELSE /\ next \in Allocated /\ SameBucket(m_key[next], m_key[d]) /\ d \in ahead[next]
           /\ \A n \in Allocated : d \in ahead[n] => next \in ahead[n] \cup {n}
  BY <1>1 DEF DestroyInv, next
<1>9. d \notin ahead[d] /\ \A n \in Allocated : \A m \in ahead[n] : n \notin ahead[m]
  BY <1>1 DEF DestroyInv
<1>10. next # Null => next \in Allocated' /\ BucketOf(m_key'[next]) + 1 = swept
  BY <1>1, <1>6, <1>7, <1>8, <1>9 DEF SameBucket
<1>11. ASSUME NEW n \in Allocated' PROVE Owed(n)'
  <2>1. BucketOf(m_key[n]) >= swept \/ (BucketOf(m_key[n]) + 1 = swept /\ d \in ahead[n])
    BY <1>7 DEF DestroyInv, Owed, d
  <2>2. CASE BucketOf(m_key[n]) >= swept
    BY <1>2, <1>7, <2>2 DEF Owed
  <2>3. CASE BucketOf(m_key[n]) + 1 = swept /\ d \in ahead[n]
    BY <1>2, <1>7, <1>8, <2>3 DEF Owed
  <2> QED
    BY <2>1, <2>2, <2>3
<1>12. ASSUME NEW b \in Buckets, b >= swept
       PROVE  IF m_buckets[b] = Null
              THEN \A n \in Allocated' : BucketOf(m_key'[n]) # b
              ELSE /\ m_buckets[b] \in Allocated'
                   /\ BucketOf(m_key'[m_buckets[b]]) = b
                   /\ \A n \in Allocated' :
                         BucketOf(m_key'[n]) = b => m_buckets[b] \in ahead[n] \cup {n}
  <2>1. IF m_buckets[b] = Null
        THEN \A n \in Allocated : BucketOf(m_key[n]) # b
        ELSE /\ m_buckets[b] \in Allocated
             /\ BucketOf(m_key[m_buckets[b]]) = b
             /\ \A n \in Allocated :
                   BucketOf(m_key[n]) = b => m_buckets[b] \in ahead[n] \cup {n}
    BY <1>12 DEF DestroyInv
  <2>2. BucketOf(m_key[d]) # b
    BY <1>1, <1>12, BucketCountPositive DEF Buckets, OTypeOK
  <2> QED
    BY <1>6, <1>7, <2>1, <2>2
<1>13. ASSUME NEW m \in Allocated'
       PROVE  IF m_next'[m] = Null
              THEN \A n \in Allocated' : m \notin ahead[n]
              ELSE /\ m_next'[m] \in Allocated'
                   /\ SameBucket(m_key'[m_next'[m]], m_key'[m])
                   /\ m \in ahead[m_next'[m]]
                   /\ \A n \in Allocated' :
                         m \in ahead[n] => m_next'[m] \in ahead[n] \cup {n}
  <2>1. IF m_next[m] = Null
        THEN \A n \in Allocated : m \notin ahead[n]
        ELSE /\ m_next[m] \in Allocated
             /\ SameBucket(m_key[m_next[m]], m_key[m])
             /\ m \in ahead[m_next[m]]
             /\ \A n \in Allocated :
                   m \in ahead[n] => m_next[m] \in ahead[n] \cup {n}
    BY <1>7 DEF DestroyInv
  <2>2. m_next[m] # d
    <3> SUFFICES ASSUME m_next[m] = d PROVE FALSE
      OBVIOUS
    <3>1. BucketOf(m_key[m]) + 1 = swept /\ m \in ahead[d]
      BY <1>1, <2>1 DEF SameBucket
    <3>2. d \in ahead[m]
      BY <1>1, <1>7, <3>1 DEF DestroyInv, Owed, OTypeOK, d
    <3> QED
      BY <1>1, <1>9, <3>1, <3>2
  <2> QED
    BY <1>6, <1>7, <2>1, <2>2
<1>14. \A n \in Allocated' : \A m \in ahead'[n] : n \notin ahead'[m]
  BY <1>2, <1>7, <1>9
<1> QED
  BY <1>2, <1>3, <1>4, <1>10, <1>11, <1>12, <1>13, <1>14 DEF DestroyInv

\* When every bucket is swept, nothing is owed any more.
LEMMA NothingOwed ==
  ASSUME TypeOK, DestroyInv, doomed = Null, swept = BucketCount
  PROVE  Allocated = {}
<1>1. \A n \in Allocated : BucketOf(m_key[n]) \in Buckets
  BY BucketType, NullIsNothing DEF Allocated, TypeOK
<1> QED
  BY <1>1, BucketCountPositive DEF DestroyInv, Owed, Buckets

\* The destructor keeps the invariant.
LEMMA DestroyKeepsOIInv ==
  ASSUME OIInv, Destroy
  PROVE  OIInv'
<1> USE DEF observer
<1>1. UNCHANGED <<counts, pc, locals, observer>>
  BY DEF Destroy, DestroyBegin, DestroyBucket, DestroyNode, DestroyEnd, vars
<1>2. CountInv'
  BY <1>1 DEF OIInv, CountInv, Looked, Getting, counts, locals
<1>3. \A o \in Observers : StatisticsInv(o)' /\ VisitedOnce(o)'
  BY <1>1 DEF OIInv, StatisticsInv, VisitedOnce, counts
<1>4. TypeOK /\ OTypeOK
  BY DEF OIInv
<1>5. CASE DestroyBegin
  <2>1. /\ IInv /\ ChainInv /\ swept = 0 /\ doomed = Null
        /\ \A t \in Threads : pc[t] = "idle"
        /\ \A o \in Observers : at[o] = "idle"
    BY <1>5 DEF DestroyBegin, OIInv
  <2>2. DestroyInv
    BY <2>1, DestructorBegins
  <2>3. UNCHANGED <<m_buckets, m_key, m_next, ahead, swept, doomed>>
    BY <1>5 DEF DestroyBegin, vars, fields
  <2>4. DestroyInv'
    BY <2>2, <2>3 DEF DestroyInv, Allocated, Owed, SameBucket
  <2>5. TypeOK' /\ OTypeOK'
    BY <1>4, <1>5 DEF DestroyBegin, TypeOK, OTypeOK, vars, fields, counts, locals
  <2>6. life' = "destroying"
    BY <1>5 DEF DestroyBegin
  <2> QED
    BY <1>1, <1>2, <1>3, <2>1, <2>4, <2>5, <2>6 DEF OIInv
<1>6. ASSUME life = "destroying"
      PROVE  /\ DestroyInv
             /\ \A t \in Threads : pc'[t] = "idle"
             /\ \A o \in Observers : at'[o] = "idle"
  BY <1>1, <1>6 DEF OIInv
<1>7. CASE DestroyBucket
  <2>1. life = "destroying" /\ life' = life
    BY <1>7 DEF DestroyBucket
  <2>2. DestroyInv'
    BY <1>4, <1>6, <1>7, <2>1, BucketDoomed
  <2>3. TypeOK'
    BY <1>4, <1>7 DEF DestroyBucket, TypeOK, vars, fields, counts, locals
  <2>4. m_buckets[swept] \in Nodes \cup {Null} /\ swept + 1 \in 0 .. BucketCount
    BY <1>4, <1>7, BucketCountPositive DEF DestroyBucket, OTypeOK, TypeOK, Buckets
  <2>5. OTypeOK'
    BY <1>4, <1>7, <2>4 DEF DestroyBucket, OTypeOK
  <2> QED
    BY <1>2, <1>3, <1>6, <2>1, <2>2, <2>3, <2>5 DEF OIInv
<1>8. CASE DestroyNode
  <2>1. life = "destroying" /\ life' = life
    BY <1>8 DEF DestroyNode
  <2>2. DestroyInv' /\ TypeOK' /\ OTypeOK'
    BY <1>4, <1>6, <1>8, <2>1, NodeFreed
  <2> QED
    BY <1>2, <1>3, <1>6, <2>1, <2>2 DEF OIInv
<1>9. CASE DestroyEnd
  <2>1. /\ life = "destroying" /\ life' = "destroyed" /\ doomed = Null /\ doomed' = doomed
        /\ UNCHANGED fields
    BY <1>9 DEF DestroyEnd
  <2>2. Allocated = {}
    BY <1>4, <1>6, <1>9, <2>1, NothingOwed DEF DestroyEnd
  <2>3. Allocated' = {}
    BY <2>1, <2>2 DEF Allocated, fields
  <2>4. TypeOK' /\ OTypeOK'
    BY <1>4, <1>9 DEF DestroyEnd, TypeOK, OTypeOK, fields, counts, locals
  <2> QED
    BY <1>2, <1>3, <1>6, <2>1, <2>3, <2>4 DEF OIInv
<1> QED
  BY <1>5, <1>7, <1>8, <1>9 DEF Destroy

-----------------------------------------------------------------------------
(* The theorems.                                                           *)

\* The constructor's state, with no observer, satisfies the invariant.
LEMMA InitOIInv == OInit => OIInv
<1> SUFFICES ASSUME OInit PROVE OIInv
  OBVIOUS
<1>1. IInv /\ TypeOK
  BY InitIInv DEF OInit, IInv
<1>2. Published = {} /\ Looked = {} /\ Getting = {}
  BY NullIsNothing, BucketCountPositive
     DEF OInit, Init, Published, Looked, Getting, NoCall, Buckets
<1>3. CountInv
  BY <1>2, FS_EmptySet, CountersDoNotWrap DEF OInit, Init, CountInv
<1>4. ChainInv
  BY <1>2 DEF ChainInv
<1>5. OTypeOK
  BY CountersPositive, CountersDoNotWrap, BucketCountPositive DEF OInit, OTypeOK
<1>6. ASSUME NEW o \in Observers
      PROVE  StatisticsInv(o) /\ VisitedOnce(o) /\ EnumerateInv(o)
  BY DEF OInit, StatisticsInv, VisitedOnce, EnumerateInv, VisitedKeys
<1> QED
  BY <1>1, <1>3, <1>4, <1>5, <1>6 DEF OIInv, OInit

\* Every step of a thread, an observer or the destructor keeps the invariant.
LEMMA NextOIInv == OIInv /\ [ONext]_ovars => OIInv'
<1>1. ASSUME OIInv, UNCHANGED ovars PROVE OIInv'
  <2> USE DEF ovars, observer, ending
  <2>1. /\ UNCHANGED vars
        /\ UNCHANGED <<at, bucket, cursor, visited, success, reads, before, least>>
        /\ UNCHANGED <<life, swept, doomed>>
    BY <1>1
  <2>2. UNCHANGED <<m_buckets, m_key, m_ptrValue, m_next, m_successReads, m_failedReads,
                    pc, call, node, ptrNewNode, reply, ahead, returned>>
    BY <2>1 DEF vars, fields, counts, locals
  <2>3. TypeOK' /\ OTypeOK' /\ CountInv'
    BY <1>1, <2>1, <2>2 DEF OIInv, TypeOK, OTypeOK, CountInv, Looked, Getting
  <2>4. \A o \in Observers : StatisticsInv(o)' /\ VisitedOnce(o)'
    BY <1>1, <2>1, <2>2 DEF OIInv, StatisticsInv, VisitedOnce
  <2>5. life = "alive" => /\ IInv' /\ ChainInv'
                          /\ \A o \in Observers : EnumerateInv(o)'
    BY <1>1, <2>1, NextIInv, NextChains, EnumerateUndisturbed DEF OIInv
  <2>6. life = "destroying" => DestroyInv'
    BY <1>1, <2>1, <2>2 DEF OIInv, DestroyInv, Allocated, Owed, SameBucket
  <2>7. life = "destroyed" => Allocated' = {}
    BY <1>1, <2>2 DEF OIInv, Allocated
  <2> QED
    BY <1>1, <2>1, <2>2, <2>3, <2>4, <2>5, <2>6, <2>7 DEF OIInv
<1>2. ASSUME OIInv, NEW t \in Threads, EngineStep(t) PROVE OIInv'
  BY <1>2, EngineKeepsOIInv
<1>3. ASSUME OIInv, NEW o \in Observers, Observe(o) PROVE OIInv'
  BY <1>3, EnumerateKeepsOIInv, VisitKeepsOIInv, StatisticsKeepOIInv DEF Observe
<1>4. ASSUME OIInv, Destroy PROVE OIInv'
  BY <1>4, DestroyKeepsOIInv
<1> QED
  BY <1>1, <1>2, <1>3, <1>4 DEF ONext

\* The inductive invariant of the engine with its observers and its end.
THEOREM ObserversInvariance == OSpec => []OIInv
<1> QED
  BY InitOIInv, NextOIInv, PTL DEF OSpec

\* DataEngine::enumerate, run while get and set go on, visits every key that was
\* there when it began, and none twice.
THEOREM EnumerationComplete == OSpec => []EnumerateComplete
<1>1. OIInv => EnumerateComplete
  BY DEF OIInv, EnumerateComplete, EnumerateInv, Behind
<1> QED
  BY <1>1, ObserversInvariance, PTL

\* ~DataEngine deallocates every node of every list and reads no node it has
\* deallocated.
THEOREM DestructionClean == OSpec => []CleanEnd
<1>1. OIInv => CleanEnd
  BY DEF OIInv, CleanEnd, DestroysAll, DestroyInv
<1> QED
  BY <1>1, ObserversInvariance, PTL

\* The balance of the statistics holds with observers too, to the end of the engine.
THEOREM ObservedBalance == OSpec => []StatisticsBalance
<1>1. OIInv => StatisticsBalance
  BY DEF OIInv, CountInv, StatisticsBalance
<1> QED
  BY <1>1, ObserversInvariance, PTL

\* The total of get_read_statistics lies between the lookups that had returned
\* when it was called and those begun when it returns.
THEOREM StatisticsInTime == OSpec => StatisticsTimely
<1> DEFINE Timely == \A o \in Observers : at[o] = "statistics" /\ at'[o] = "idle" =>
                        /\ least[o] <= reads'[o]
                        /\ reads'[o] <= returned + Cardinality(Getting)
<1>1. ASSUME OIInv, [ONext]_ovars PROVE Timely
  <2> SUFFICES ASSUME NEW o \in Observers, at[o] = "statistics", at'[o] = "idle"
               PROVE  /\ least[o] <= reads'[o]
                      /\ reads'[o] <= returned + Cardinality(Getting)
    OBVIOUS
  <2>1. LoadFailed(o)
    <3>1. OTypeOK /\ life = "alive"
      BY <1>1 DEF OIInv
    <3>2. at' # at
      OBVIOUS
    <3>3. PICK p \in Observers : Observe(p)
      BY <1>1, <3>2 DEF ONext, ovars, observer, EngineStep, Destroy, DestroyBegin,
                        DestroyBucket, DestroyNode, DestroyEnd
    <3>4. p = o
      BY <3>1, <3>3 DEF Observe, EnumerateBegin, EnumerateBucket, EnumerateVisit,
                        EnumerateEnd, LoadSuccess, LoadFailed, OTypeOK
    <3> QED
      BY <3>2, <3>3, <3>4 DEF Observe, EnumerateBegin, EnumerateBucket, EnumerateVisit,
                        EnumerateEnd, LoadSuccess
  <2>2. reads'[o] = success[o] + m_failedReads
    BY <1>1, <2>1 DEF OIInv, OTypeOK, LoadFailed
  <2>3. StatisticsInv(o) /\ CountInv /\ TypeOK /\ OTypeOK
    BY <1>1 DEF OIInv
  <2>4. /\ m_successReads \in Nat /\ m_failedReads \in Nat /\ returned \in Nat
        /\ success[o] \in Nat /\ least[o] \in Nat
        /\ Cardinality(Looked) \in Nat /\ Cardinality(Getting) \in Nat
        /\ Cardinality(Looked) <= Cardinality(Getting)
    BY <2>3, CountersPositive, CountersDoNotWrap, LookedFinite, GettingFinite
       DEF TypeOK, OTypeOK
  <2> QED
    BY <2>2, <2>3, <2>4 DEF StatisticsInv, CountInv
<1>2. OIInv /\ [ONext]_ovars => [Timely]_ovars
  BY <1>1
<1> QED
  BY <1>2, ObserversInvariance, PTL DEF OSpec, StatisticsTimely
=============================================================================
