--------------------------- MODULE ComponentProofs ---------------------------
(***************************************************************************)
(* Theorems about small components.                                        *)
(*                                                                         *)
(* RelaxedPublication: on a machine with total store order the relaxed     *)
(* atomics of DataEngine suffice, for any number of threads and keys.      *)
(*                                                                         *)
(* UrlDecode: any name a client quotes is the name url_decode returns.     *)
(*                                                                         *)
(* WebSocket: what is sent over a websocket, either way, arrives whole and *)
(* in order, whatever frames it is sent in and pieces these are read in.   *)
(*                                                                         *)
(* FlattenSeq, Of and the length of a name call for an induction: the      *)
(* least number that is not in a set is taken.                             *)
(***************************************************************************)
EXTENDS RelaxedPublication, UrlDecode, WebSocket, NaturalsInduction, WellFoundedInduction,
        SequenceTheorems, FiniteSetTheorems, TLAPS

-----------------------------------------------------------------------------
(* RelaxedPublication.                                                     *)

\* The type of a list of n nodes behind the bucket.
Lists(n) == [0 .. n -> Nodes \cup {Null}]

\* Nothing happens to the list while a thread whose node is not in it moves.
LEMMA ListKept ==
  ASSUME NEW n \in Nat, NEW s \in Lists(n), List(s, n), NEW t \in Threads,
         next' = next, \A i \in 1 .. n : s[i] # t,
         \A u \in Threads \ {t} : /\ thread'[u] = thread[u] /\ key'[u] = key[u]
                                  /\ pending'[u] = pending[u]
  PROVE  List(s, n)'
<1>1. \A i \in 1 .. n : /\ s[i] \in Nodes /\ thread'[s[i]] = thread[s[i]]
                        /\ key'[s[i]] = key[s[i]] /\ pending'[s[i]] = pending[s[i]]
  BY DEF List, Nodes
<1>2. \A i \in 1 .. n : /\ s[i] \in Nodes /\ thread'[s[i]].pc = "returned"
                        /\ key'[s[i]] = thread'[s[i]].key /\ thread'[s[i]].key \in Keys
                        /\ pending'[s[i]] = <<>>
  BY <1>1 DEF List
<1>3. \A i, j \in 1 .. n : thread'[s[i]].key = thread'[s[j]].key => i = j
  BY <1>1 DEF List
<1>4. /\ s[0] = Null
      /\ \A i \in 0 .. n : next'[s[i]] = IF i = n THEN Null ELSE s[i + 1]
      /\ \A m \in Nodes : (\A i \in 1 .. n : s[i] # m) => next'[m] = Null
  BY DEF List
<1> QED
  BY <1>2, <1>3, <1>4 DEF List

\* The other threads stay where they are.
LEMMA OthersKept ==
  ASSUME NEW n \in Nat, NEW s \in Lists(n), List(s, n), NEW t \in Threads,
         \A i \in 1 .. n : s[i] # t,
         \A u \in Threads \ {t} : /\ thread'[u] = thread[u] /\ key'[u] = key[u]
                                  /\ pending'[u] = pending[u],
         NEW u \in Threads \ {t}, ThreadOK(u), Place(u, s, n)
  PROVE  ThreadOK(u)' /\ Place(u, s, n)'
<1>1. \A i \in 1 .. n : thread'[s[i]] = thread[s[i]]
  BY DEF List, Nodes
<1>2. ThreadOK(u)'
  BY DEF ThreadOK, KeyWritten
<1>3. Place(u, s, n)'
  <2>1. \A p \in 0 .. n : Passed(u, s, p) => Passed(u, s, p)'
    BY <1>1 DEF Passed
  <2>2. \A p \in 1 .. n : Passed(u, s, p - 1) => Passed(u, s, p - 1)'
    BY <1>1 DEF Passed
  <2> QED
    BY <2>1, <2>2 DEF Place, Passed
<1> QED
  BY <1>2, <1>3

\* A step of t that leaves the list as it is keeps the invariant if t fits.
LEMMA ThreadAlone ==
  ASSUME IInv, NEW n \in Nat, NEW s \in Lists(n), List(s, n),
         \A u \in Threads : Place(u, s, n), NEW t \in Threads,
         next' = next, \A i \in 1 .. n : s[i] # t,
         DOMAIN thread' = Threads, DOMAIN key' = Nodes, DOMAIN pending' = Threads,
         \A u \in Threads \ {t} : /\ thread'[u] = thread[u] /\ key'[u] = key[u]
                                  /\ pending'[u] = pending[u],
         ThreadOK(t)', Place(t, s, n)'
  PROVE  IInv'
<1>1. List(s, n)'
  BY ListKept
<1>2. \A u \in Threads : ThreadOK(u)' /\ Place(u, s, n)'
  <2> SUFFICES ASSUME NEW u \in Threads, u # t PROVE ThreadOK(u)' /\ Place(u, s, n)'
    OBVIOUS
  <2>1. ThreadOK(u) /\ Place(u, s, n)
    BY DEF IInv
  <2> QED
    BY <2>1, OthersKept
<1>3. DOMAIN next' = Nodes \cup {Null}
  BY DEF IInv
<1> QED
  BY <1>1, <1>2, <1>3 DEF IInv, Lists

\* The nodes of the list belong to threads that have returned and have no stores
\* on their way.
LEMMA NotListed ==
  ASSUME NEW n \in Nat, NEW s \in Lists(n), List(s, n), NEW t \in Threads,
         thread[t].pc # "returned" \/ pending[t] # <<>>
  PROVE  \A i \in 1 .. n : s[i] # t
BY DEF List

-----------------------------------------------------------------------------
(* The steps. n and s are the list before them.                            *)

\* A set begins at the bucket, with its key written.
LEMMA CallSetStep ==
  ASSUME IInv, NEW n \in Nat, NEW s \in Lists(n), List(s, n),
         \A u \in Threads : Place(u, s, n), NEW t \in Threads, NEW k \in Keys, CallSet(t, k)
  PROVE  IInv'
<1>1. ThreadOK(t) /\ thread[t].pc = "idle" /\ DOMAIN thread = Threads /\ DOMAIN pending = Threads
  BY DEF IInv, CallSet
<1>2. /\ thread'[t].pc = "set" /\ thread'[t].key = k /\ thread'[t].at = Null
      /\ thread'[t].raw = FALSE /\ DOMAIN thread'[t] = {"pc", "key", "at", "raw"}
  BY <1>1 DEF CallSet, ThreadOK
<1>3. pending'[t] = <<k>> /\ key' = key /\ next' = next
  BY <1>1 DEF CallSet
<1>4. /\ DOMAIN thread' = Threads /\ DOMAIN pending' = Threads /\ DOMAIN key' = Nodes
      /\ \A u \in Threads \ {t} : thread'[u] = thread[u] /\ pending'[u] = pending[u]
  BY <1>1 DEF CallSet, IInv
<1>5. ThreadOK(t)'
  BY <1>2, <1>3 DEF ThreadOK, KeyWritten, PC
<1>6. Place(t, s, n)'
  <2>1. Passed(t, s, 0)' /\ 0 \in 0 .. n /\ thread'[t].at = s[0]
    BY <1>2 DEF Passed, List
  <2> QED
    BY <1>2, <2>1 DEF Place, Passed
<1>7. \A i \in 1 .. n : s[i] # t
  BY <1>1, NotListed
<1> QED
  BY <1>3, <1>4, <1>5, <1>6, <1>7, ThreadAlone

\* So does a get, which has no node.
LEMMA CallGetStep ==
  ASSUME IInv, NEW n \in Nat, NEW s \in Lists(n), List(s, n),
         \A u \in Threads : Place(u, s, n), NEW t \in Threads, NEW k \in Keys, CallGet(t, k)
  PROVE  IInv'
<1>1. ThreadOK(t) /\ thread[t].pc = "idle" /\ DOMAIN thread = Threads
  BY DEF IInv, CallGet
<1>2. /\ thread'[t].pc = "get" /\ thread'[t].key = k /\ thread'[t].at = Null
      /\ thread'[t].raw = FALSE /\ DOMAIN thread'[t] = {"pc", "key", "at", "raw"}
  BY <1>1 DEF CallGet, ThreadOK
<1>3. pending' = pending /\ key' = key /\ next' = next
  BY DEF CallGet
<1>4. /\ DOMAIN thread' = Threads /\ DOMAIN pending' = Threads /\ DOMAIN key' = Nodes
      /\ \A u \in Threads \ {t} : thread'[u] = thread[u]
  BY <1>1, <1>3 DEF CallGet, IInv
<1>5. ThreadOK(t)'
  BY <1>1, <1>2, <1>3 DEF ThreadOK, PC
<1>6. Place(t, s, n)'
  <2>1. 0 \in 0 .. n /\ thread'[t].at = s[0]
    BY <1>2 DEF List
  <2> QED
    BY <1>2, <2>1 DEF Place
<1>7. \A i \in 1 .. n : s[i] # t
  BY <1>1, NotListed
<1> QED
  BY <1>3, <1>4, <1>5, <1>6, <1>7, ThreadAlone

\* The store of a key becomes visible. No node of the list has one to come.
LEMMA VisibleStep ==
  ASSUME IInv, NEW n \in Nat, NEW s \in Lists(n), List(s, n),
         \A u \in Threads : Place(u, s, n), NEW t \in Threads, Visible(t)
  PROVE  IInv'
<1>1. ThreadOK(t) /\ pending[t] # <<>> /\ DOMAIN key = Nodes /\ DOMAIN pending = Threads
  BY DEF IInv, Visible
<1>2. pending[t] = <<thread[t].key>> /\ thread[t].pc \notin {"idle", "get", "get compare"}
  BY <1>1 DEF ThreadOK
<1>3. /\ key' = [key EXCEPT ![t] = thread[t].key] /\ pending' = [pending EXCEPT ![t] = <<>>]
      /\ next' = next /\ thread' = thread
  <2>1. \A x : Head(<<x>>) = x /\ Tail(<<x>>) = <<>>
    OBVIOUS
  <2>2. Head(pending[t]) = thread[t].key /\ Tail(pending[t]) = <<>>
    BY <1>2, <2>1
  <2> QED
    BY <2>2 DEF Visible
<1>4. /\ key'[t] = thread[t].key /\ pending'[t] = <<>>
      /\ DOMAIN thread' = Threads /\ DOMAIN pending' = Threads /\ DOMAIN key' = Nodes
      /\ \A u \in Threads \ {t} : key'[u] = key[u] /\ pending'[u] = pending[u]
  BY <1>1, <1>3 DEF IInv, Nodes
<1>5. ThreadOK(t)'
  BY <1>1, <1>2, <1>3, <1>4 DEF ThreadOK, KeyWritten
<1>6. Place(t, s, n)'
  <2>1. Place(t, s, n)
    OBVIOUS
  <2>2. \A p \in 0 .. n : Passed(t, s, p) => Passed(t, s, p)'
    BY <1>3 DEF Passed
  <2>3. \A p \in 1 .. n : Passed(t, s, p - 1) => Passed(t, s, p - 1)'
    BY <1>3 DEF Passed
  <2> QED
    BY <1>3, <2>1, <2>2, <2>3 DEF Place, Passed
<1>7. \A i \in 1 .. n : s[i] # t
  BY <1>1, NotListed
<1> QED
  BY <1>3, <1>4, <1>5, <1>6, <1>7, ThreadAlone

\* get takes what it loads: the next node of the list, or its end.
LEMMA LoadStep ==
  ASSUME IInv, NEW n \in Nat, NEW s \in Lists(n), List(s, n),
         \A u \in Threads : Place(u, s, n), NEW t \in Threads, Load(t)
  PROVE  IInv'
<1>1. ThreadOK(t) /\ thread[t].pc = "get" /\ DOMAIN thread = Threads
  BY DEF IInv, Load
<1>2. PICK p \in 0 .. n : thread[t].at = s[p]
  BY <1>1 DEF Place
<1>3. next[thread[t].at] = IF p = n THEN Null ELSE s[p + 1]
  BY <1>2 DEF List
<1>4. /\ thread'[t].pc = (IF next[thread[t].at] = Null THEN "returned" ELSE "get compare")
      /\ thread'[t].at = next[thread[t].at] /\ thread'[t].key = thread[t].key
      /\ thread'[t].raw = thread[t].raw /\ DOMAIN thread'[t] = {"pc", "key", "at", "raw"}
  BY <1>1 DEF Load, ThreadOK
<1>5. pending' = pending /\ key' = key /\ next' = next
  BY DEF Load
<1>6. /\ DOMAIN thread' = Threads /\ DOMAIN pending' = Threads /\ DOMAIN key' = Nodes
      /\ \A u \in Threads \ {t} : thread'[u] = thread[u]
  BY <1>1, <1>5 DEF Load, IInv
<1>7. ThreadOK(t)'
  BY <1>1, <1>4, <1>5 DEF ThreadOK, PC
<1>8. Place(t, s, n)'
  <2>1. p # n => p + 1 \in 1 .. n
    BY <1>2
  <2>2. thread'[t].pc = "get compare" => p # n
    BY <1>3, <1>4
  <2> QED
    BY <1>3, <1>4, <2>1, <2>2 DEF Place
<1>9. \A i \in 1 .. n : s[i] # t
  BY <1>1, NotListed
<1> QED
  BY <1>5, <1>6, <1>7, <1>8, <1>9, ThreadAlone

\* The key that is compared is there: the thread is at a node of the list.
LEMMA CompareStep ==
  ASSUME IInv, NEW n \in Nat, NEW s \in Lists(n), List(s, n),
         \A u \in Threads : Place(u, s, n), NEW t \in Threads, Compare(t)
  PROVE  IInv'
<1> DEFINE own == key[thread[t].at] = thread[t].key
<1>1. /\ ThreadOK(t) /\ thread[t].pc \in {"get compare", "set compare"}
      /\ DOMAIN thread = Threads
  BY DEF IInv, Compare
<1>2. PICK p \in 1 .. n : /\ thread[t].at = s[p]
                          /\ thread[t].pc = "set compare" => Passed(t, s, p - 1)
  BY <1>1 DEF Place
<1>3. key[thread[t].at] = thread[s[p]].key /\ key[thread[t].at] # Null
  <2>1. key[s[p]] = thread[s[p]].key /\ thread[s[p]].key \in Keys
    BY DEF List
  <2> QED
    BY <1>2, <2>1, NullIsNothing
<1>4. thread' = [thread EXCEPT ![t].pc = IF own THEN "returned"
                                         ELSE IF @ = "get compare" THEN "get" ELSE "set",
                               ![t].raw = FALSE]
  BY <1>3 DEF Compare
<1>5. /\ thread'[t].pc = (IF own THEN "returned"
                          ELSE IF thread[t].pc = "get compare" THEN "get" ELSE "set")
      /\ thread'[t].at = thread[t].at /\ thread'[t].key = thread[t].key
      /\ thread'[t].raw = FALSE /\ DOMAIN thread'[t] = {"pc", "key", "at", "raw"}
  BY <1>1, <1>4 DEF ThreadOK
<1>6. pending' = pending /\ key' = key /\ next' = next
  BY DEF Compare
<1>7. /\ DOMAIN thread' = Threads /\ DOMAIN pending' = Threads /\ DOMAIN key' = Nodes
      /\ \A u \in Threads \ {t} : thread'[u] = thread[u]
  BY <1>1, <1>4, <1>6 DEF IInv
<1>8. ThreadOK(t)'
  BY <1>1, <1>5, <1>6 DEF ThreadOK, KeyWritten, PC
<1>9. \A i \in 1 .. n : s[i] # t
  BY <1>1, NotListed
<1>10. Place(t, s, n)'
  <2>1. p \in 0 .. n
    OBVIOUS
  <2>2. thread'[t].at = s[p] /\ thread'[t].pc \in {"returned", "get", "set"}
    BY <1>1, <1>2, <1>5
  <2>3. thread'[t].pc = "set" => Passed(t, s, p)'
    <3> SUFFICES ASSUME thread'[t].pc = "set", NEW i \in 1 .. p
                 PROVE  thread'[s[i]].key # thread'[t].key
      BY DEF Passed
    <3>1. thread'[s[i]] = thread[s[i]]
      BY <1>7, <1>9 DEF List, Nodes
    <3>2. ~own /\ thread[t].pc = "set compare"
      BY <1>1, <1>5
    <3>3. CASE i = p
      BY <1>3, <1>5, <3>1, <3>2, <3>3
    <3>4. CASE i # p
      <4>1. i \in 1 .. p - 1
        BY <3>4
      <4> QED
        BY <1>2, <1>5, <3>1, <3>2, <4>1 DEF Passed
    <3> QED
      BY <3>3, <3>4
  <2> QED
    BY <2>1, <2>2, <2>3 DEF Place
<1> QED
  BY <1>6, <1>7, <1>8, <1>9, <1>10, ThreadAlone

\* The loser of a CAS is at the node it has found.
LEMMA LosesStep ==
  ASSUME IInv, NEW n \in Nat, NEW s \in Lists(n), List(s, n),
         \A u \in Threads : Place(u, s, n), NEW t \in Threads, CompareExchange(t), next[thread[t].at] # Null
  PROVE  IInv'
<1>1. ThreadOK(t) /\ thread[t].pc = "set" /\ DOMAIN thread = Threads
  BY DEF IInv, CompareExchange
<1>2. PICK p \in 0 .. n : thread[t].at = s[p] /\ Passed(t, s, p)
  BY <1>1 DEF Place
<1>3. p # n /\ next[thread[t].at] = s[p + 1]
  BY <1>2 DEF List
<1>4. thread' = [thread EXCEPT ![t].pc = "set compare", ![t].at = s[p + 1]]
  BY <1>3 DEF CompareExchange
<1>5. /\ thread'[t].pc = "set compare" /\ thread'[t].at = s[p + 1]
      /\ thread'[t].key = thread[t].key /\ thread'[t].raw = thread[t].raw
      /\ DOMAIN thread'[t] = {"pc", "key", "at", "raw"}
  BY <1>1, <1>4 DEF ThreadOK
<1>6. pending' = pending /\ key' = key /\ next' = next
  BY DEF CompareExchange
<1>7. /\ DOMAIN thread' = Threads /\ DOMAIN pending' = Threads /\ DOMAIN key' = Nodes
      /\ \A u \in Threads \ {t} : thread'[u] = thread[u]
  BY <1>1, <1>4, <1>6 DEF IInv
<1>8. ThreadOK(t)'
  BY <1>1, <1>5, <1>6 DEF ThreadOK, KeyWritten, PC
<1>9. \A i \in 1 .. n : s[i] # t
  BY <1>1, NotListed
<1>10. Place(t, s, n)'
  <2>1. p + 1 \in 1 .. n /\ (p + 1) - 1 = p
    BY <1>2, <1>3
  <2>2. \A i \in 1 .. p : thread'[s[i]] = thread[s[i]]
    BY <1>2, <1>7, <1>9 DEF List, Nodes
  <2>3. Passed(t, s, p)'
    BY <1>2, <1>5, <2>2 DEF Passed
  <2>4. Passed(t, s, (p + 1) - 1)'
    BY <2>1, <2>3
  <2> QED
    BY <1>5, <2>1, <2>4 DEF Place, Passed
<1> QED
  BY <1>6, <1>7, <1>8, <1>9, <1>10, ThreadAlone

\* The winner of a CAS puts its node behind the last one. Its key is visible,
\* and it has compared the keys of all nodes before.
LEMMA WinsStep ==
  ASSUME Machine = "x86", IInv, NEW n \in Nat, NEW s \in Lists(n), List(s, n),
         \A u \in Threads : Place(u, s, n), NEW t \in Threads, CompareExchange(t),
         next[thread[t].at] = Null
  PROVE  IInv'
<1>1. ThreadOK(t) /\ thread[t].pc = "set" /\ DOMAIN thread = Threads /\ pending[t] = <<>>
  BY DEF IInv, CompareExchange, Ordered
<1>2. key[t] = thread[t].key /\ thread[t].key \in Keys
  <2>1. <<>> # <<thread[t].key>>
    OBVIOUS
  <2> QED
    BY <1>1, <2>1 DEF ThreadOK, KeyWritten
<1>3. \A i \in 1 .. n : s[i] # t
  BY <1>1, NotListed
<1>4. thread[t].at = s[n] /\ Passed(t, s, n)
  <2>1. PICK p \in 0 .. n : thread[t].at = s[p] /\ Passed(t, s, p)
    BY <1>1 DEF Place
  <2>2. p = n
    <3> SUFFICES ASSUME p # n PROVE FALSE
      OBVIOUS
    <3>1. p + 1 \in 1 .. n
      OBVIOUS
    <3>2. next[s[p]] = s[p + 1] /\ s[p + 1] \in Threads
      BY <3>1 DEF List, Nodes
    <3> QED
      BY <2>1, <3>2, NullIsNothing
  <2> QED
    BY <2>1, <2>2
<1>5. /\ next' = [next EXCEPT ![s[n]] = t] /\ key' = key /\ pending' = pending
      /\ thread' = [thread EXCEPT ![t].pc = "returned"]
  BY <1>4 DEF CompareExchange
<1>6. /\ thread'[t].pc = "returned" /\ thread'[t].at = thread[t].at
      /\ thread'[t].key = thread[t].key /\ thread'[t].raw = thread[t].raw
      /\ DOMAIN thread'[t] = {"pc", "key", "at", "raw"}
      /\ \A u \in Threads \ {t} : thread'[u] = thread[u]
  BY <1>1, <1>5 DEF ThreadOK
<1>7. /\ DOMAIN thread' = Threads /\ DOMAIN pending' = Threads /\ DOMAIN key' = Nodes
      /\ DOMAIN next' = Nodes \cup {Null}
  BY <1>1, <1>5 DEF IInv
<1>8. \A i \in 0 .. n : s[i] \in Nodes \cup {Null} /\ s[i] # t
  <2>1. \A i \in 0 .. n : i # 0 => i \in 1 .. n
    OBVIOUS
  <2>2. s[0] = Null /\ \A i \in 1 .. n : s[i] \in Nodes
    BY DEF List
  <2> QED
    BY <1>3, <2>1, <2>2, NullIsNothing
<1>9. \A i \in 0 .. n : i # n => s[i] # s[n]
  <2> SUFFICES ASSUME NEW i \in 0 .. n, i # n PROVE s[i] # s[n]
    OBVIOUS
  <2>1. n \in 1 .. n
    OBVIOUS
  <2>2. s[n] \in Threads
    BY <2>1 DEF List, Nodes
  <2>3. CASE i = 0
    BY <2>2, <2>3, NullIsNothing DEF List
  <2>4. CASE i # 0
    <3>1. i \in 1 .. n
      BY <2>4
    <3> QED
      BY <2>1, <3>1 DEF List
  <2> QED
    BY <2>3, <2>4
<1>10. PICK r : r = [i \in 0 .. n + 1 |-> IF i = n + 1 THEN t ELSE s[i]]
  OBVIOUS
<1>11. /\ r \in Lists(n + 1) /\ r[n + 1] = t
       /\ \A i \in 0 .. n : r[i] = s[i]
       /\ \A i \in 1 .. n + 1 : i = n + 1 \/ (i \in 1 .. n /\ i \in 0 .. n)
  <2>1. n + 1 \in 0 .. n + 1 /\ \A i \in 0 .. n : i \in 0 .. n + 1 /\ i # n + 1
    OBVIOUS
  <2>2. \A i \in 0 .. n + 1 : i = n + 1 \/ i \in 0 .. n
    OBVIOUS
  <2>3. \A i \in 1 .. n + 1 : i = n + 1 \/ (i \in 1 .. n /\ i \in 0 .. n)
    OBVIOUS
  <2>4. r[n + 1] = t /\ \A i \in 0 .. n : r[i] = s[i]
    BY <1>10, <2>1
  <2>5. r \in Lists(n + 1)
    BY <1>8, <1>10, <2>2 DEF Lists, Nodes
  <2> QED
    BY <2>3, <2>4, <2>5
<1>12. \A i \in 1 .. n : r[i] = s[i] /\ thread'[s[i]] = thread[s[i]] /\ s[i] \in Nodes
  <2>1. \A i \in 1 .. n : i \in 0 .. n
    OBVIOUS
  <2> QED
    BY <1>3, <1>6, <1>11, <2>1 DEF List, Nodes
<1>13. List(r, n + 1)'
  <2>1. r[0] = Null
    <3>1. 0 \in 0 .. n
      OBVIOUS
    <3> QED
      BY <1>11, <3>1 DEF List
  <2>2. ASSUME NEW i \in 1 .. n + 1
        PROVE  /\ r[i] \in Nodes /\ thread'[r[i]].pc = "returned"
               /\ key'[r[i]] = thread'[r[i]].key /\ thread'[r[i]].key \in Keys
               /\ pending'[r[i]] = <<>>
    <3>1. CASE i = n + 1
      <4>1. r[i] = t
        BY <1>11, <3>1
      <4> QED
        BY <1>1, <1>2, <1>5, <1>6, <4>1 DEF Nodes
    <3>2. CASE i \in 1 .. n
      <4>1. r[i] = s[i] /\ thread'[s[i]] = thread[s[i]] /\ s[i] \in Nodes
        BY <1>12, <3>2
      <4>2. /\ thread[s[i]].pc = "returned" /\ key[s[i]] = thread[s[i]].key
            /\ thread[s[i]].key \in Keys /\ pending[s[i]] = <<>>
        BY <3>2 DEF List
      <4> QED
        BY <1>5, <4>1, <4>2
    <3> QED
      BY <1>11, <3>1, <3>2
  <2>3. ASSUME NEW i \in 0 .. n + 1
        PROVE  next'[r[i]] = IF i = n + 1 THEN Null ELSE r[i + 1]
    <3>1. s[n] \in Nodes \cup {Null} /\ s[n] # t /\ DOMAIN next = Nodes \cup {Null}
      BY <1>8 DEF IInv
    <3>2. CASE i = n + 1
      <4>1. next[t] = Null
        BY <1>3 DEF List, Nodes
      <4> QED
        BY <1>5, <1>11, <3>1, <3>2, <4>1 DEF Nodes
    <3>3. CASE i = n
      <4>1. r[i] = s[n] /\ r[i + 1] = t /\ i # n + 1
        BY <1>11, <3>3
      <4> QED
        BY <1>5, <3>1, <4>1
    <3>4. CASE i # n /\ i # n + 1
      <4>1. i \in 0 .. n /\ i + 1 \in 0 .. n
        BY <3>4
      <4>2. r[i] = s[i] /\ r[i + 1] = s[i + 1] /\ s[i] # s[n] /\ s[i] \in Nodes \cup {Null}
        BY <1>8, <1>9, <1>11, <3>4, <4>1
      <4>3. next[s[i]] = s[i + 1]
        BY <3>4, <4>1 DEF List
      <4> QED
        BY <1>5, <3>1, <3>4, <4>2, <4>3
    <3> QED
      BY <3>2, <3>3, <3>4
  <2>4. ASSUME NEW m \in Nodes, \A i \in 1 .. n + 1 : r[i] # m PROVE next'[m] = Null
    <3>1. m # t /\ \A i \in 1 .. n : s[i] # m
      <4>1. n + 1 \in 1 .. n + 1 /\ \A i \in 1 .. n : i \in 1 .. n + 1
        OBVIOUS
      <4> QED
        BY <1>11, <1>12, <2>4, <4>1
    <3>2. m # s[n]
      <4>1. n = 0 \/ n \in 1 .. n
        OBVIOUS
      <4> QED
        BY <3>1, <4>1, NullIsNothing DEF List, Nodes
    <3>3. next[m] = Null
      BY <3>1 DEF List
    <3> QED
      BY <1>5, <3>2, <3>3 DEF IInv
  <2>5. ASSUME NEW i \in 1 .. n + 1, NEW j \in 1 .. n + 1,
               thread'[r[i]].key = thread'[r[j]].key
        PROVE  i = j
    <3>1. \A k \in 1 .. n : thread'[r[k]].key = thread[s[k]].key /\ thread[s[k]].key # thread[t].key
      BY <1>4, <1>12 DEF Passed
    <3>2. CASE i \in 1 .. n /\ j \in 1 .. n
      BY <2>5, <3>1, <3>2 DEF List
    <3>3. CASE i = n + 1 /\ j \in 1 .. n
      BY <1>6, <1>11, <2>5, <3>1, <3>3
    <3>4. CASE i \in 1 .. n /\ j = n + 1
      BY <1>6, <1>11, <2>5, <3>1, <3>4
    <3> QED
      BY <1>11, <3>2, <3>3, <3>4
  <2> QED
    BY <2>1, <2>2, <2>3, <2>4, <2>5 DEF List
<1>14. ThreadOK(t)' /\ Place(t, r, n + 1)'
  BY <1>1, <1>5, <1>6 DEF ThreadOK, Place, PC
<1>15. ASSUME NEW u \in Threads, u # t PROVE ThreadOK(u)' /\ Place(u, r, n + 1)'
  <2>1. ThreadOK(u) /\ Place(u, s, n) /\ thread'[u] = thread[u]
    BY <1>6, <1>15 DEF IInv
  <2>2. ThreadOK(u)'
    BY <1>5, <2>1 DEF ThreadOK, KeyWritten
  <2>3. \A p \in 0 .. n : Passed(u, s, p) => Passed(u, r, p)'
    BY <1>12, <2>1 DEF Passed
  <2>4. \A p \in 1 .. n : Passed(u, s, p - 1) => Passed(u, r, p - 1)'
    BY <1>12, <2>1 DEF Passed
  <2>5. /\ \A p \in 0 .. n : p \in 0 .. n + 1
        /\ \A p \in 1 .. n : p \in 1 .. n + 1
    OBVIOUS
  <2>6. Place(u, r, n + 1)'
    <3>1. thread[u].pc = "set" => \E p \in 0 .. n + 1 : thread'[u].at = r[p] /\ Passed(u, r, p)'
      BY <1>11, <2>1, <2>3, <2>5 DEF Place
    <3>2. thread[u].pc = "set compare" =>
            \E p \in 1 .. n + 1 : thread'[u].at = r[p] /\ Passed(u, r, p - 1)'
      BY <1>12, <2>1, <2>4, <2>5 DEF Place
    <3>3. /\ thread[u].pc = "get" => \E p \in 0 .. n + 1 : thread'[u].at = r[p]
          /\ thread[u].pc = "get compare" => \E p \in 1 .. n + 1 : thread'[u].at = r[p]
      BY <1>11, <1>12, <2>1, <2>5 DEF Place
    <3> QED
      BY <2>1, <3>1, <3>2, <3>3 DEF Place
  <2> QED
    BY <2>2, <2>6
<1>16. n + 1 \in Nat
  OBVIOUS
<1> QED
  BY <1>7, <1>11, <1>13, <1>14, <1>15, <1>16 DEF IInv, Lists

-----------------------------------------------------------------------------
(* The theorem.                                                            *)

\* The invariant holds before anything has happened.
LEMMA InitIInv == Init => IInv
<1> SUFFICES ASSUME Init PROVE IInv
  OBVIOUS
<1>1. /\ DOMAIN key = Nodes /\ DOMAIN next = Nodes \cup {Null}
      /\ DOMAIN pending = Threads /\ DOMAIN thread = Threads
  BY DEF Init
<1>2. \A t \in Threads : /\ thread[t] = [pc |-> "idle", key |-> Null, at |-> Null, raw |-> FALSE]
                         /\ key[t] = Null /\ pending[t] = <<>>
  BY DEF Init, Nodes
<1>3. ASSUME NEW t \in Threads PROVE ThreadOK(t)
  <2>1. /\ thread[t].pc = "idle" /\ thread[t].at = Null /\ thread[t].raw = FALSE
        /\ DOMAIN thread[t] = {"pc", "key", "at", "raw"} /\ key[t] = Null /\ pending[t] = <<>>
    BY <1>2
  <2> QED
    BY <2>1 DEF ThreadOK, PC
<1> SUFFICES ASSUME NEW s, s = [i \in 0 .. 0 |-> Null] PROVE IInv
  OBVIOUS
<1>4. s \in [0 .. 0 -> Nodes \cup {Null}] /\ s[0] = Null
  OBVIOUS
<1>5. List(s, 0)
  <2>1. \A m \in Nodes \cup {Null} : next[m] = Null
    BY DEF Init
  <2>2. \A i \in 0 .. 0 : i = 0
    OBVIOUS
  <2>3. \A i \in 1 .. 0 : FALSE
    OBVIOUS
  <2> QED
    BY <1>4, <2>1, <2>2, <2>3 DEF List
<1>6. ASSUME NEW t \in Threads PROVE Place(t, s, 0)
  <2>1. thread[t].pc = "idle"
    BY <1>2
  <2> QED
    BY <2>1 DEF Place
<1>7. 0 \in Nat
  OBVIOUS
<1> QED
  BY <1>1, <1>3, <1>4, <1>5, <1>6, <1>7 DEF IInv

\* Every step keeps the invariant.
LEMMA NextIInv ==
  ASSUME Machine = "x86"
  PROVE  IInv /\ [Next]_vars => IInv'
<1> SUFFICES ASSUME IInv, [Next]_vars PROVE IInv'
  OBVIOUS
<1>1. PICK n \in Nat : \E s \in Lists(n) : List(s, n) /\ \A u \in Threads : Place(u, s, n)
  BY DEF IInv, Lists
<1>2. PICK s \in Lists(n) : List(s, n) /\ \A u \in Threads : Place(u, s, n)
  BY <1>1
<1>3. CASE UNCHANGED vars
  <2>1. key' = key /\ next' = next /\ pending' = pending /\ thread' = thread
    BY <1>3 DEF vars
  <2>2. List(s, n)'
    BY <1>2, <2>1 DEF List
  <2>3. ASSUME NEW u \in Threads PROVE ThreadOK(u)' /\ Place(u, s, n)'
    <3>1. ThreadOK(u) /\ Place(u, s, n)
      BY <1>2 DEF IInv
    <3>2. ThreadOK(u)'
      BY <2>1, <3>1 DEF ThreadOK, KeyWritten
    <3>3. Place(u, s, n)'
      BY <2>1, <3>1 DEF Place, Passed
    <3> QED
      BY <3>2, <3>3
  <2> QED
    BY <2>1, <2>2, <2>3 DEF IInv, Lists
<1>4. ASSUME NEW t \in Threads, NEW k \in Keys, CallSet(t, k) \/ CallGet(t, k) PROVE IInv'
  BY <1>2, <1>4, CallSetStep, CallGetStep
<1>5. ASSUME NEW t \in Threads, Visible(t) PROVE IInv'
  BY <1>2, <1>5, VisibleStep
<1>6. ASSUME NEW t \in Threads, CompareExchange(t) PROVE IInv'
  BY <1>2, <1>6, WinsStep, LosesStep
<1>7. ASSUME NEW t \in Threads, Load(t) \/ Compare(t) PROVE IInv'
  BY <1>2, <1>7, LoadStep, CompareStep
<1> QED
  BY <1>3, <1>4, <1>5, <1>6, <1>7 DEF Next

\* With total store order a node is found only with its key, and no key is in
\* the bucket twice, for any number of threads: the relaxed CAS of set suffices.
THEOREM PublishedOnTSO ==
  ASSUME Machine = "x86"
  PROVE  Spec => []NodesPublished
<1>1. IInv => NodesPublished
  <2> SUFFICES ASSUME IInv PROVE NodesPublished
    OBVIOUS
  <2>1. KeysConstructed
    BY DEF KeysConstructed, IInv, ThreadOK
  <2>2. PICK n \in Nat : \E s \in Lists(n) : List(s, n)
    BY DEF IInv, Lists
  <2>3. PICK s \in Lists(n) : List(s, n)
    BY <2>2
  <2>4. ASSUME NEW m \in Nodes, NEW q \in Nodes \cup {Null}, next[q] = m
        PROVE  \E i \in 1 .. n : s[i] = m
    <3>1. m # Null
      BY NullIsNothing DEF Nodes
    <3>2. PICK i \in 0 .. n : s[i] = q
      <4>1. 0 \in 0 .. n /\ \A j \in 1 .. n : j \in 0 .. n
        OBVIOUS
      <4> QED
        BY <2>3, <2>4, <3>1, <4>1 DEF List
    <3>3. i # n /\ m = s[i + 1]
      BY <2>3, <2>4, <3>1, <3>2 DEF List
    <3>4. i + 1 \in 1 .. n
      BY <3>3
    <3> QED
      BY <3>3, <3>4
  <2>5. \A i, j \in 1 .. n : thread[s[i]].key = thread[s[j]].key => i = j
    BY <2>3 DEF List
  <2>6. KeysUnique
    BY <2>4, <2>5 DEF KeysUnique
  <2> QED
    BY <2>1, <2>6 DEF NodesPublished
<1> QED
  BY <1>1, InitIInv, NextIInv, PTL DEF Spec

-----------------------------------------------------------------------------
(* Induction over the numbers of a set.                                    *)

LEMMA LeastNumber ==
  ASSUME NEW T, T \subseteq Nat, T # {}
  PROVE  \E m \in T : \A k \in T : m <= k
<1> DEFINE R == {ss \in Nat \X Nat : ss[1] < ss[2]}
<1>1. IsWellFoundedOn(R, Nat)
  BY NatLessThanWellFounded DEF OpToRel
<1> HIDE DEF R
<1>2. PICK m \in T : \A k \in T : ~(<<k, m>> \in R)
  BY <1>1, WFMin
<1>3. \A k \in T : ~(k < m)
  BY <1>2 DEF R
<1> QED
  BY <1>3

\* What is in T with 1, and with k + 1 whenever with k, is in it up to n.
LEMMA InductionTo ==
  ASSUME NEW n \in Nat, NEW T, n >= 1 => 1 \in T,
         \A k \in 1 .. n - 1 : k \in T => k + 1 \in T
  PROVE  1 .. n \subseteq T
<1> DEFINE Missing == (1 .. n) \ T
<1> SUFFICES ASSUME Missing # {} PROVE FALSE
  OBVIOUS
<1>1. PICK m \in Missing : \A k \in Missing : m <= k
  <2>1. Missing \subseteq Nat
    OBVIOUS
  <2> HIDE DEF Missing
  <2> QED
    BY <2>1, LeastNumber
<1>2. m # 1 /\ m - 1 \in 1 .. n - 1 /\ m - 1 \notin Missing
  BY <1>1
<1> QED
  BY <1>2

-----------------------------------------------------------------------------
(* FlattenSeq.                                                             *)

\* The prefixes that FlattenSeq puts together, one by one.
LEMMA Flattened ==
  ASSUME NEW S, NEW s \in Seq(Seq(S)), s # <<>>
  PROVE  \E f : /\ FlattenSeq(s) = f[Len(s)]
                /\ f = [i \in 1 .. Len(s) |-> IF i = 1 THEN s[i] ELSE f[i - 1] \o s[i]]
<1> DEFINE n == Len(s)
           Body(f, m) == [i \in 1 .. m |-> IF i = 1 THEN s[i] ELSE f[i - 1] \o s[i]]
           T == {m \in 1 .. n : \E f : f = Body(f, m)}
           flatten[i \in 1 .. Len(s)] == IF i = 1 THEN s[i] ELSE flatten[i - 1] \o s[i]
<1>1. n \in Nat /\ n >= 1
  BY EmptySeq
<1>2. 1 \in T
  <2> DEFINE f == [i \in 1 .. 1 |-> s[1]]
  <2>1. f = Body(f, 1)
    OBVIOUS
  <2> HIDE DEF f, Body
  <2> QED
    BY <1>1, <2>1
<1>3. ASSUME NEW k \in 1 .. n - 1, k \in T PROVE k + 1 \in T
  <2> PICK g : g = Body(g, k)
    BY <1>3
  <2> DEFINE f == [i \in 1 .. k + 1 |-> IF i = k + 1 THEN g[k] \o s[k + 1] ELSE g[i]]
  <2>1. ASSUME NEW i \in 1 .. k + 1
        PROVE  f[i] = IF i = 1 THEN s[i] ELSE f[i - 1] \o s[i]
    <3>1. CASE i = k + 1
      <4>1. i # 1 /\ i - 1 = k /\ i - 1 \in 1 .. k + 1 /\ i - 1 # k + 1
        BY <3>1
      <4>2. f[i - 1] = g[k]
        BY <4>1
      <4> QED
        BY <3>1, <4>1, <4>2
    <3>2. CASE i \in 1 .. k
      <4>1. g[i] = IF i = 1 THEN s[i] ELSE g[i - 1] \o s[i]
        BY <3>2
      <4>2. f[i] = g[i]
        BY <3>2
      <4>3. i # 1 => f[i - 1] = g[i - 1]
        BY <3>2
      <4> QED
        BY <4>1, <4>2, <4>3
    <3> QED
      BY <3>1, <3>2
  <2>2. f = Body(f, k + 1)
    BY <2>1
  <2>3. k + 1 \in 1 .. n
    BY <1>1
  <2> QED
    BY <2>2, <2>3
<1>4. n \in T
  <2> HIDE DEF T
  <2>1. 1 .. n \subseteq T
    BY <1>1, <1>2, <1>3, InductionTo
  <2> QED
    BY <1>1, <2>1
<1>5. \E f : f = Body(f, n)
  BY <1>4
<1>6. flatten = Body(flatten, n)
  BY <1>5
<1>7. FlattenSeq(s) = flatten[n]
  BY <1>1 DEF FlattenSeq
<1> QED
  BY <1>6, <1>7

LEMMA Concatenated ==
  ASSUME NEW S, NEW a \in Seq(S), NEW b \in Seq(S)
  PROVE  /\ a \o b \in Seq(S)
         /\ Len(a) \in Nat /\ Len(b) \in Nat /\ Len(a \o b) = Len(a) + Len(b)
         /\ Len(a) <= Len(a \o b)
         /\ \A i \in 1 .. Len(a) : (a \o b)[i] = a[i]
         /\ \A j \in 1 .. Len(b) : (a \o b)[Len(a) + j] = b[j]
OBVIOUS

\* The sequences of s are one behind the other in flat: at[k] is where that of
\* s[k + 1] begins.
LaidOut(s, flat, at) ==
    /\ at[0] = 0 /\ at[Len(s)] = Len(flat)
    /\ \A k \in 1 .. Len(s) :
          /\ at[k - 1] + Len(s[k]) = at[k]
          /\ \A j \in DOMAIN s[k] : flat[at[k - 1] + j] = s[k][j]

\* Where each sequence begins in the flattened one.
LEMMA Layout ==
  ASSUME NEW S, NEW s \in Seq(Seq(S)), s # <<>>
  PROVE  /\ FlattenSeq(s) \in Seq(S)
         /\ \E at \in [0 .. Len(s) -> 0 .. Len(FlattenSeq(s))] : LaidOut(s, FlattenSeq(s), at)
<1> DEFINE n == Len(s)
<1>1. n \in Nat /\ n >= 1 /\ \A k \in 1 .. n : s[k] \in Seq(S)
  BY EmptySeq
<1>2. PICK f : /\ FlattenSeq(s) = f[n]
               /\ f = [i \in 1 .. n |-> IF i = 1 THEN s[i] ELSE f[i - 1] \o s[i]]
  BY Flattened
<1>3. f[1] = s[1] /\ \A k \in 1 .. n - 1 : f[k + 1] = f[k] \o s[k + 1]
  <2>1. f[1] = s[1]
    BY <1>1, <1>2
  <2>2. ASSUME NEW k \in 1 .. n - 1 PROVE f[k + 1] = f[k] \o s[k + 1]
    <3>1. k + 1 \in 1 .. n /\ k + 1 # 1 /\ (k + 1) - 1 = k
      BY <1>1
    <3> QED
      BY <1>2, <3>1
  <2> QED
    BY <2>1, <2>2
<1> HIDE DEF n
<1>4. \A k \in 1 .. n : f[k] \in Seq(S)
  <2> DEFINE T == {k \in 1 .. n : f[k] \in Seq(S)}
  <2>1. 1 \in T
    BY <1>1, <1>3
  <2>2. ASSUME NEW k \in 1 .. n - 1, k \in T PROVE k + 1 \in T
    <3>1. s[k + 1] \in Seq(S) /\ f[k] \in Seq(S) /\ k + 1 \in 1 .. n
      BY <1>1, <2>2
    <3>2. f[k] \o s[k + 1] \in Seq(S)
      BY <3>1, Concatenated
    <3> QED
      BY <1>3, <3>1, <3>2
  <2> HIDE DEF T
  <2>3. 1 .. n \subseteq T
    BY <1>1, <2>1, <2>2, InductionTo
  <2> QED
    BY <2>3 DEF T
<1> DEFINE at == [k \in 0 .. n |-> IF k = 0 THEN 0 ELSE Len(f[k])]
<1>5. /\ at[0] = 0 /\ \A k \in 1 .. n : at[k] = Len(f[k])
      /\ DOMAIN at = 0 .. n
  BY <1>1
<1> HIDE DEF at
<1>6. ASSUME NEW k \in 1 .. n
      PROVE  /\ at[k - 1] + Len(s[k]) = at[k]
             /\ \A j \in DOMAIN s[k] : f[k][at[k - 1] + j] = s[k][j]
  <2>1. CASE k = 1
    BY <1>1, <1>3, <1>5, <2>1
  <2>2. CASE k \in 2 .. n
    <3> DEFINE m == k - 1
    <3>1. m \in 1 .. n - 1 /\ m \in 1 .. n /\ k = m + 1
      BY <1>1, <2>2
    <3>2. f[k] = f[m] \o s[k] /\ f[m] \in Seq(S) /\ s[k] \in Seq(S)
      BY <1>1, <1>3, <1>4, <3>1
    <3>3. at[m] = Len(f[m]) /\ at[k] = Len(f[k])
      BY <1>5, <3>1
    <3>4. /\ Len(f[k]) = Len(f[m]) + Len(s[k])
          /\ \A j \in DOMAIN s[k] : f[k][Len(f[m]) + j] = s[k][j]
      <4>1. /\ Len(f[m] \o s[k]) = Len(f[m]) + Len(s[k])
            /\ \A j \in DOMAIN s[k] : (f[m] \o s[k])[Len(f[m]) + j] = s[k][j]
        <5> DEFINE a == f[m]
                   b == s[k]
        <5>1. a \in Seq(S) /\ b \in Seq(S)
          BY <3>2
        <5> HIDE DEF a, b, m
        <5>2. Len(a \o b) = Len(a) + Len(b) /\ \A j \in 1 .. Len(b) : (a \o b)[Len(a) + j] = b[j]
          <6> HIDE DEF n, at
          <6>1. \A x, y \in Seq(S) : /\ Len(x \o y) = Len(x) + Len(y)
                                   /\ \A j \in 1 .. Len(y) : (x \o y)[Len(x) + j] = y[j]
            BY Concatenated
          <6> QED
            BY <5>1, <6>1
        <5>3. DOMAIN b = 1 .. Len(b)
          BY <5>1
        <5> QED
          BY <5>2, <5>3 DEF a, b
      <4> QED
        BY <3>2, <4>1
    <3> QED
      BY <3>3, <3>4
  <2> QED
    BY <1>1, <2>1, <2>2
<1>7. ASSUME NEW k \in 1 .. n - 1
      PROVE  Len(f[k]) <= Len(f[k + 1]) /\ \A p \in 1 .. Len(f[k]) : f[k + 1][p] = f[k][p]
  <2>1. f[k + 1] = f[k] \o s[k + 1] /\ f[k] \in Seq(S) /\ s[k + 1] \in Seq(S)
    <3>1. k \in 1 .. n /\ k + 1 \in 1 .. n
      BY <1>1
    <3> QED
      BY <1>1, <1>3, <1>4, <3>1
  <2>2. LET g == f[k] \o s[k + 1]
        IN  Len(f[k]) <= Len(g) /\ \A p \in 1 .. Len(f[k]) : g[p] = f[k][p]
    <3>1. f[k] \in Seq(S) /\ s[k + 1] \in Seq(S)
      BY <2>1
    <3> QED
      BY <3>1, Concatenated
  <2> QED
    BY <2>1, <2>2
<1>8. ASSUME NEW k \in 1 .. n
      PROVE  Len(f[k]) <= Len(f[n]) /\ \A p \in 1 .. Len(f[k]) : f[n][p] = f[k][p]
  <2> DEFINE T == {m \in 1 .. n - k : /\ Len(f[k]) <= Len(f[k + m])
                                      /\ \A p \in 1 .. Len(f[k]) : f[k + m][p] = f[k][p]}
  <2>1. n - k >= 1 => 1 \in T
    BY <1>1, <1>7
  <2>2. ASSUME NEW m \in 1 .. (n - k) - 1, m \in T PROVE m + 1 \in T
    <3> DEFINE l == k + m
    <3>1. l \in 1 .. n - 1 /\ k + (m + 1) = l + 1 /\ m + 1 \in 1 .. n - k
      BY <1>1
    <3>2. Len(f[l]) <= Len(f[l + 1]) /\ \A p \in 1 .. Len(f[l]) : f[l + 1][p] = f[l][p]
      BY <1>7, <3>1
    <3>3. Len(f[k]) <= Len(f[l]) /\ \A p \in 1 .. Len(f[k]) : f[l][p] = f[k][p]
      BY <2>2
    <3>4. Len(f[k]) \in Nat /\ Len(f[l]) \in Nat /\ Len(f[l + 1]) \in Nat
      <4>1. f[k] \in Seq(S) /\ f[l] \in Seq(S) /\ f[l + 1] \in Seq(S)
        BY <1>1, <1>4, <3>1
      <4> QED
        BY <4>1
    <3>5. Len(f[k]) <= Len(f[l + 1]) /\ \A p \in 1 .. Len(f[k]) : f[l + 1][p] = f[k][p]
      BY <3>2, <3>3, <3>4
    <3> QED
      BY <3>1, <3>5
  <2> HIDE DEF T
  <2>3. 1 .. n - k \subseteq T
    <3>1. n - k \in Nat
      BY <1>1
    <3> QED
      BY <2>1, <2>2, <3>1, InductionTo
  <2>4. CASE k = n
    BY <1>1, <1>4, <2>4
  <2>5. CASE k # n
    <3>1. n - k \in T /\ k + (n - k) = n
      BY <1>1, <2>3, <2>5
    <3> QED
      BY <3>1 DEF T
  <2> QED
    BY <2>4, <2>5
<1>9. at \in [0 .. n -> 0 .. Len(f[n])]
  <2>1. \A k \in 1 .. n : Len(f[k]) \in 0 .. Len(f[n])
    <3> TAKE k \in 1 .. n
    <3>1. f[k] \in Seq(S) /\ f[n] \in Seq(S)
      BY <1>1, <1>4
    <3>2. Len(f[k]) \in Nat /\ Len(f[n]) \in Nat
      BY <3>1
    <3> QED
      BY <1>8, <3>2
  <2>2. \A k \in 0 .. n : at[k] \in 0 .. Len(f[n])
    <3>1. 0 \in 0 .. Len(f[n])
      <4>1. f[n] \in Seq(S)
        BY <1>1, <1>4
      <4>2. Len(f[n]) \in Nat
        BY <4>1
      <4> QED
        BY <4>2
    <3>2. \A k \in 0 .. n : k = 0 \/ k \in 1 .. n
      BY <1>1
    <3> QED
      BY <1>5, <2>1, <3>1, <3>2
  <2>3. at = [k \in 0 .. n |-> at[k]]
    BY DEF at
  <2> QED
    BY <2>2, <2>3
<1>10. ASSUME NEW k \in 1 .. n, NEW j \in DOMAIN s[k] PROVE f[n][at[k - 1] + j] = s[k][j]
  <2>1. at[k - 1] \in Nat /\ j \in 1 .. Len(s[k]) /\ at[k - 1] + Len(s[k]) = Len(f[k]) /\ Len(s[k]) \in Nat
    <3>1. k - 1 \in 0 .. n
      BY <1>1
    <3>2. at[k - 1] \in 0 .. Len(f[n])
      BY <1>9, <3>1
    <3>3. s[k] \in Seq(S)
      BY <1>1
    <3>4. j \in 1 .. Len(s[k]) /\ Len(s[k]) \in Nat
      BY <3>3
    <3> QED
      BY <1>5, <1>6, <3>2, <3>4
  <2>2. at[k - 1] + j \in 1 .. Len(f[k])
    BY <2>1
  <2> QED
    <3>1. f[n][at[k - 1] + j] = f[k][at[k - 1] + j]
      BY <1>8, <2>2
    <3>2. f[k][at[k - 1] + j] = s[k][j]
      BY <1>6
    <3> QED
      BY <3>1, <3>2
<1> QED
  <2>1. f[n] \in Seq(S) /\ at[n] = Len(f[n])
    BY <1>1, <1>4, <1>5
  <2>2. \A k \in 1 .. n : /\ at[k - 1] + Len(s[k]) = at[k]
                          /\ \A j \in DOMAIN s[k] : f[n][at[k - 1] + j] = s[k][j]
    BY <1>6, <1>10
  <2>3. LaidOut(s, f[n], at)
    BY <1>5, <2>1, <2>2 DEF LaidOut, n
  <2>4. \E g \in [0 .. n -> 0 .. Len(f[n])] : LaidOut(s, f[n], g)
    BY <1>9, <2>3
  <2> QED
    BY <1>2, <2>1, <2>4 DEF n

-----------------------------------------------------------------------------
(* Hexadecimal digits.                                                     *)

LEMMA DigitCodes ==
  ASSUME NEW d \in 0 .. 15
  PROVE  HexDigits[d + 1] = IF d < 10 THEN 48 + d ELSE 55 + d
<1>1. d \in {0, 1, 2, 3, 4, 5, 6, 7, 8, 9, 10, 11, 12, 13, 14, 15}
  OBVIOUS
<1> QED
  BY <1>1 DEF HexDigits

LEMMA DigitsOfHex ==
  /\ DOMAIN Hex = ToSet(HexDigits) \cup 97 .. 102
  /\ \A c \in DOMAIN Hex : Hex[c] \in 0 .. 15 /\ c \notin {0, Space}
  /\ \A d \in 0 .. 15 : HexDigits[d + 1] \in DOMAIN Hex /\ Hex[HexDigits[d + 1]] = d
<1>1. DOMAIN HexDigits = 1 .. 16
  BY DEF HexDigits
<1>2. DOMAIN Hex = ToSet(HexDigits) \cup 97 .. 102
  BY DEF Hex
<1>3. ASSUME NEW d \in 0 .. 15
      PROVE  HexDigits[d + 1] \in DOMAIN Hex /\ Hex[HexDigits[d + 1]] = d
  <2> DEFINE c == HexDigits[d + 1]
  <2>1. c \in ToSet(HexDigits) /\ c < 97
    BY <1>1, DigitCodes DEF ToSet
  <2>2. Hex[c] = CHOOSE e \in 0 .. 15 : HexDigits[e + 1] = c
    <3> HIDE DEF c
    <3>1. c \in ToSet(HexDigits) \cup 97 .. 102 /\ ~(c >= 97)
      BY <2>1, DigitCodes DEF c
    <3> QED
      BY <3>1 DEF Hex
  <2>3. \A e \in 0 .. 15 : HexDigits[e + 1] = c => e = d
    BY DigitCodes
  <2> HIDE DEF c
  <2>4. (CHOOSE e \in 0 .. 15 : HexDigits[e + 1] = c) = d
    <3>1. HexDigits[d + 1] = c
      BY DEF c
    <3> QED
      BY <2>3, <3>1
  <2> QED
    BY <1>2, <2>1, <2>2, <2>4 DEF c
<1>4. ASSUME NEW c \in DOMAIN Hex PROVE Hex[c] \in 0 .. 15 /\ c \notin {0, Space}
  <2>1. CASE c \in ToSet(HexDigits)
    <3> PICK k \in 1 .. 16 : c = HexDigits[k]
      BY <1>1, <2>1 DEF ToSet
    <3> DEFINE d == k - 1
    <3>1. d \in 0 .. 15 /\ k = d + 1
      OBVIOUS
    <3>2. c = IF d < 10 THEN 48 + d ELSE 55 + d
      BY <3>1, DigitCodes
    <3>3. Hex[c] = d
      BY <1>3, <3>1
    <3>4. c \notin {0, Space}
      BY <3>1, <3>2 DEF Space
    <3> QED
      BY <3>1, <3>3, <3>4
  <2>2. CASE c \in 97 .. 102
    BY <1>2, <2>2 DEF Hex, Space
  <2> QED
    BY <1>2, <2>1, <2>2
<1> QED
  BY <1>2, <1>3, <1>4

\* What sscanf stores is a number, and the digits of a byte give the byte.
LEMMA Scanned ==
  ASSUME NEW a, NEW b, Scan(a, b) # None
  PROVE  Scan(a, b) \in Int /\ a # 0
<1>1. a # 0
  BY DEF Scan
<1>2. \A c \in DOMAIN Hex : Hex[c] \in Int
  BY DigitsOfHex
<1>3. CASE a \in DOMAIN Hex /\ b \in DOMAIN Hex
  BY <1>2, <1>3, DigitsOfHex DEF Scan
<1>4. CASE a \in DOMAIN Hex /\ b \notin DOMAIN Hex
  BY <1>2, <1>4, DigitsOfHex DEF Scan
<1>5. CASE a \notin DOMAIN Hex /\ b \in DOMAIN Hex
  BY <1>2, <1>5 DEF Scan
<1>6. CASE a \notin DOMAIN Hex /\ b \notin DOMAIN Hex
  BY <1>6 DEF Scan
<1> QED
  BY <1>1, <1>3, <1>4, <1>5, <1>6

LEMMA ScannedByte ==
  ASSUME NEW c \in 0 .. 255
  PROVE  LET a == HexDigits[c \div 16 + 1]
             b == HexDigits[(c % 16) + 1]
         IN  Scan(a, b) = c /\ Scan(a, b) # None /\ Scan(a, b) % 256 = c
<1> DEFINE h == c \div 16
           l == c % 16
           a == HexDigits[h + 1]
           b == HexDigits[l + 1]
<1>1. h \in 0 .. 15 /\ l \in 0 .. 15 /\ 16 * h + l = c /\ c % 256 = c
  OBVIOUS
<1> HIDE DEF h, l
<1>2. /\ a \in DOMAIN Hex /\ Hex[a] = h /\ a \notin {0, Space}
      /\ b \in DOMAIN Hex /\ Hex[b] = l
  BY <1>1, DigitsOfHex
<1>3. Scan(a, b) = c
  BY <1>1, <1>2 DEF Scan
<1>4. c # None
  BY NoneIsNoNumber
<1> QED
  BY <1>1, <1>3, <1>4 DEF h, l

\* The three ways a byte is quoted.
LEMMA QuotedByte ==
  ASSUME NEW c \in 0 .. 255
  PROVE  /\ Quoted(c) \in Seq(Int) /\ Len(Quoted(c)) >= 1 /\ DOMAIN Quoted(c) = 1 .. Len(Quoted(c))
         /\ \/ Quoted(c) = <<c>> /\ c \notin {Plus, Percent}
            \/ Quoted(c) = <<Plus>> /\ c = Space
            \/ Quoted(c) = <<Percent, HexDigits[c \div 16 + 1], HexDigits[(c % 16) + 1]>>
<1>1. CASE c \in Unreserved
  <2>1. Quoted(c) = <<c>>
    BY <1>1 DEF Quoted
  <2>2. c \notin {Plus, Percent}
    BY <1>1 DEF Unreserved, Plus, Percent
  <2> QED
    BY <2>1, <2>2
<1>2. CASE c \notin Unreserved /\ c = Space
  BY <1>2 DEF Quoted, Plus
<1>3. CASE c \notin Unreserved /\ c # Space
  <2> DEFINE a == HexDigits[c \div 16 + 1]
             b == HexDigits[(c % 16) + 1]
  <2>1. c \div 16 \in 0 .. 15 /\ c % 16 \in 0 .. 15
    OBVIOUS
  <2>2. a \in Int /\ b \in Int
    BY <2>1, DigitCodes
  <2> HIDE DEF a, b
  <2>3. Quoted(c) = <<Percent, a, b>>
    BY <1>3 DEF Quoted, a, b
  <2> QED
    BY <2>2, <2>3 DEF Percent, a, b
<1> QED
  BY <1>1, <1>2, <1>3

-----------------------------------------------------------------------------
(* The decoder.                                                            *)

LEMMA NamesInt ==
  ASSUME NEW n \in Names
  PROVE  /\ Len(n) \in 1 .. MaxName /\ DOMAIN n = 1 .. Len(n) /\ n \in Seq(Int)
         /\ \A k \in 1 .. Len(n) : n[k] \in 0 .. 255
<1> PICK m \in 1 .. MaxName : n \in [1 .. m -> NameBytes]
  BY DEF Names
<1>1. NameBytes \subseteq 0 .. 255 /\ m \in Nat
  BY BytesOnly, BoundsPositive
<1>2. DOMAIN n = 1 .. m /\ n \in [1 .. m -> Int] /\ \A k \in 1 .. m : n[k] \in 0 .. 255
  <2>1. \A k \in 1 .. m : n[k] \in 0 .. 255
    BY <1>1
  <2>2. DOMAIN n = 1 .. m
    OBVIOUS
  <2>3. n = [k \in 1 .. m |-> n[k]]
    OBVIOUS
  <2>4. \A k \in 1 .. m : n[k] \in Int
    <3>1. \A x \in 0 .. 255 : x \in Int
      OBVIOUS
    <3> QED
      BY <2>1, <3>1, Zenon
  <2> QED
    BY <2>1, <2>2, <2>3, <2>4
<1>3. n \in Seq(Int)
  BY <1>1, <1>2, SeqDef
<1>4. Len(n) = m
  BY <1>1, <1>2, <1>3
<1> QED
  BY <1>2, <1>3, <1>4

LEMMA InitHolds == DecodeInit => DecodeInv
<1> SUFFICES ASSUME DecodeInit PROVE DecodeInv
  OBVIOUS
<1> USE DEF DecodeInit
<1>1. result \in Seq(Int) /\ ~(index > 0)
  OBVIOUS
<1>2. CASE name \in Names /\ value = Quote(name)
  <2> DEFINE n == Len(name)
             s == [k \in DOMAIN name |-> Quoted(name[k])]
  <2>1. n \in 1 .. MaxName /\ n \in Nat /\ DOMAIN name = 1 .. n
        /\ \A k \in 1 .. n : name[k] \in 0 .. 255
    BY <1>2, NamesInt, BoundsPositive
  <2>2. s \in Seq(Seq(Int)) /\ Len(s) = n /\ s # <<>>
    <3>1. \A k \in 1 .. n : Quoted(name[k]) \in Seq(Int)
      BY <2>1, QuotedByte
    <3>2. s \in [1 .. n -> Seq(Int)]
      BY <2>1, <3>1
    <3>3. s \in Seq(Seq(Int))
      BY <2>1, <3>2, SeqDef
    <3> HIDE DEF s
    <3>4. Len(s) = n
      BY <2>1, <3>2, <3>3
    <3> QED
      BY <2>1, <3>3, <3>4, EmptySeq
  <2>3. \A k \in 1 .. n : s[k] = Quoted(name[k])
    BY <2>1
  <2>4. value = FlattenSeq(s)
    BY <1>2 DEF Quote
  <2> HIDE DEF s
  <2>5. /\ value \in Seq(Int)
        /\ \E at \in [0 .. n -> 0 .. len] : LaidOut(s, value, at)
    BY <2>2, <2>4, Layout DEF len
  <2>6. PICK at \in [0 .. n -> 0 .. len] :
               /\ at[0] = 0 /\ at[n] = len
               /\ \A k \in 1 .. n :
                     /\ at[k - 1] + Len(s[k]) = at[k]
                     /\ \A j \in DOMAIN s[k] : value[at[k - 1] + j] = s[k][j]
    <3> PICK at \in [0 .. n -> 0 .. len] : LaidOut(s, value, at)
      BY <2>5
    <3> HIDE DEF n
    <3>1. /\ at[0] = 0 /\ at[n] = len
          /\ \A k \in 1 .. n :
               /\ at[k - 1] + Len(s[k]) = at[k]
               /\ \A j \in DOMAIN s[k] : value[at[k - 1] + j] = s[k][j]
      BY <2>2 DEF LaidOut, len
    <3> QED
      BY <3>1
  <2>7. len \in Nat
    BY <2>5 DEF len
  <2>8. \A k \in 0 .. n : at[k] \in 0 .. len
    BY <2>6
  <2>9. Laid(at)
    <3>1. \A k \in 1 .. n : at[k] <= len
      BY <2>1, <2>7, <2>8
    <3> QED
      BY <2>3, <2>6, <3>1 DEF Laid
  <2>10. value # <<>>
    <3>1. 1 \in 1 .. n /\ at[0] + Len(s[1]) = at[1] /\ s[1] = Quoted(name[1])
      BY <2>1, <2>3, <2>6
    <3>2. Len(s[1]) >= 1 /\ Len(s[1]) \in Nat
      <4>1. \A c \in 0 .. 255 : Len(Quoted(c)) >= 1 /\ Quoted(c) \in Seq(Int)
        BY QuotedByte
      <4>2. name[1] \in 0 .. 255
        BY <2>1, <3>1
      <4>3. s[1] \in Seq(Int) /\ Len(s[1]) >= 1
        BY <3>1, <4>1, <4>2
      <4> QED
        BY <4>3
    <3>3. at[1] >= 1 /\ at[1] \in 0 .. len
      BY <2>1, <2>6, <2>8, <3>1, <3>2
    <3> QED
      BY <2>5, <2>7, <3>3, EmptySeq DEF len
  <2>11. AtNextByte
    <3>1. Len(result) = 0 /\ index = at[0]
      BY <2>6
    <3>2. Laid(at) /\ at \in [0 .. Len(name) -> 0 .. len] /\ index = at[Len(result)]
      BY <2>6, <2>9, <3>1
    <3> QED
      BY <1>2, <2>1, <3>1, <3>2 DEF AtNextByte
  <2>12. index \in 0 .. len
    BY <2>7
  <2> QED
    BY <1>1, <2>5, <2>10, <2>11, <2>12 DEF DecodeInv
<1>3. CASE name = None /\ value \in Raws
  <2> PICK m \in 1 .. MaxRaw : value \in [1 .. m -> RawBytes]
    BY <1>3 DEF Raws
  <2>1. RawBytes \subseteq Int /\ m \in Nat /\ m >= 1
    BY BytesOnly, BoundsPositive
  <2>2. value \in [1 .. m -> Int]
    BY <2>1
  <2>3. value \in Seq(Int)
    BY <2>1, <2>2, SeqDef
  <2>4. len = m
    BY <2>1, <2>2, <2>3 DEF len
  <2>5. value # <<>>
    BY <2>1, <2>4, EmptySeq DEF len
  <2> QED
    BY <1>1, <1>3, <2>1, <2>3, <2>4, <2>5 DEF DecodeInv
<1> QED
  BY <1>2, <1>3

\* The text of c is where the loop is.
Here(c) ==
    /\ index + Len(Quoted(c)) <= len
    /\ \A j \in 1 .. Len(Quoted(c)) : value[index + j] = Quoted(c)[j]

\* The loop is at the text of the byte behind those it has decoded.
LEMMA NextByte ==
  ASSUME DecodeInv, name # None, index < len,
         NEW at \in [0 .. Len(name) -> 0 .. len], Laid(at), index = at[Len(result)]
  PROVE  LET k == Len(result) + 1
         IN  /\ k \in 1 .. Len(name) /\ name[k] \in 0 .. 255 /\ Here(name[k])
             /\ at[k] = index + Len(Quoted(name[k]))
<1> DEFINE n == Len(name)
           k == Len(result) + 1
<1>1. name \in Names /\ n \in Nat /\ \A i \in 1 .. n : name[i] \in 0 .. 255
  BY NamesInt, BoundsPositive DEF DecodeInv, AtNextByte
<1>2. Len(result) \in Nat /\ Len(result) <= n
  BY DEF DecodeInv, AtNextByte
<1>3. at[n] = len /\ Len(result) # n
  BY DEF Laid, DecodeInv
<1>4. k \in 1 .. n /\ k - 1 = Len(result)
  BY <1>1, <1>2, <1>3
<1>5. name[k] \in 0 .. 255
  BY <1>1, <1>4
<1>6. DOMAIN Quoted(name[k]) = 1 .. Len(Quoted(name[k]))
  BY <1>5, QuotedByte
<1> HIDE DEF n, k
<1>7. /\ at[k - 1] + Len(Quoted(name[k])) = at[k] /\ at[k] <= len
      /\ \A j \in DOMAIN Quoted(name[k]) : value[at[k - 1] + j] = Quoted(name[k])[j]
  BY <1>4 DEF Laid, n
<1>8. at[k - 1] = index
  BY <1>4
<1>9. Here(name[k]) /\ at[k] = index + Len(Quoted(name[k]))
  BY <1>6, <1>7, <1>8 DEF Here
<1> QED
  BY <1>4, <1>5, <1>9 DEF n, k

\* A turn of the loop keeps the invariant if it decodes the byte whose text is there.
LEMMA Advances ==
  ASSUME DecodeInv, index < len, NEW b \in Int, NEW j \in 1 .. 3,
         result' = Append(result, b), index' = index + j, index' <= len,
         UNCHANGED <<name, value>>,
         name # None => \A c \in 0 .. 255 : Here(c) => c = b /\ Len(Quoted(c)) = j
  PROVE  DecodeInv'
<1> USE DEF DecodeInv
<1>1. len \in Nat /\ len' = len
  BY DEF len
<1>2. /\ result' \in Seq(Int) /\ Len(result') = Len(result) + 1 /\ result' # <<>>
      /\ Len(result) \in Nat
      /\ \A i \in 1 .. Len(result) : result'[i] = result[i]
      /\ result'[Len(result) + 1] = b
  <2>1. result' \in Seq(Int) /\ Len(result') = Len(result) + 1 /\ Len(result) \in Nat
    OBVIOUS
  <2>2. result' # <<>>
    BY <2>1, EmptySeq
  <2> QED
    BY <2>1, <2>2
<1>3. index' \in 0 .. len'
  BY <1>1
<1>4. ASSUME name # None PROVE AtNextByte'
  <2> DEFINE k == Len(result) + 1
  <2> PICK at \in [0 .. Len(name) -> 0 .. len] : Laid(at) /\ index = at[Len(result)]
    BY <1>4 DEF AtNextByte
  <2>1. /\ k \in 1 .. Len(name) /\ name[k] \in 0 .. 255 /\ Here(name[k])
        /\ at[k] = index + Len(Quoted(name[k]))
    BY <1>4, NextByte
  <2>2. name[k] = b /\ Len(Quoted(name[k])) = j
    BY <1>4, <2>1
  <2>3. name' = name /\ value' = value
    OBVIOUS
  <2>4. name' \in Names
    BY <1>4 DEF AtNextByte
  <2>5. Len(result') <= Len(name')
    BY <1>2, <2>1
  <2>6. \A i \in 1 .. Len(result') : result'[i] = name'[i]
    <3>1. \A i \in 1 .. Len(result) : result[i] = name[i]
      BY <1>4 DEF AtNextByte
    <3>2. \A i \in 1 .. Len(result') : i \in 1 .. Len(result) \/ i = Len(result) + 1
      BY <1>2
    <3> QED
      BY <1>2, <2>2, <3>1, <3>2
  <2>7. index' = at[Len(result')]
    BY <1>2, <2>1, <2>2
  <2>8. Laid(at)'
    BY <1>1, <2>3 DEF Laid
  <2>9. at \in [0 .. Len(name') -> 0 .. len']
    BY <1>1
  <2> QED
    BY <2>4, <2>5, <2>6, <2>7, <2>8, <2>9 DEF AtNextByte
<1> QED
  <2>1. value' \in Seq(Int) /\ value' # <<>>
    OBVIOUS
  <2> QED
    BY <1>2, <1>3, <1>4, <2>1 DEF DecodeInv

LEMMA CharOfValue ==
  ASSUME DecodeInv, index < len
  PROVE  len \in Nat /\ index \in Nat /\ value[index + 1] \in Int
<1>1. len \in Nat /\ index \in Nat
  BY DEF DecodeInv, len
<1>2. value[index + 1] \in Int
  <2>1. value \in Seq(Int) /\ index + 1 \in 1 .. Len(value)
    BY <1>1 DEF DecodeInv, len
  <2> QED
    BY <2>1, ElementOfSeq
<1> QED
  BY <1>1, <1>2

\* What is where the text of a byte is.
LEMMA HereStarts ==
  ASSUME NEW c \in 0 .. 255, Here(c)
  PROVE  /\ Len(Quoted(c)) >= 1 /\ value[index + 1] = Quoted(c)[1]
         /\ \/ Quoted(c) = <<c>> /\ c \notin {Plus, Percent}
            \/ Quoted(c) = <<Plus>> /\ c = Space
            \/ Quoted(c) = <<Percent, HexDigits[c \div 16 + 1], HexDigits[(c % 16) + 1]>>
<1>1. Quoted(c) \in Seq(Int) /\ Len(Quoted(c)) >= 1
  BY QuotedByte
<1>2. 1 \in 1 .. Len(Quoted(c))
  BY <1>1
<1>3. value[index + 1] = Quoted(c)[1]
  BY <1>2 DEF Here
<1> QED
  BY <1>1, <1>3, QuotedByte

\* Where an escape is, the characters behind the percent sign are the digits.
LEMMA EscapeScanned ==
  ASSUME DecodeInv, index < len, NEW c \in 0 .. 255, Here(c), At(Percent)
  PROVE  /\ Len(Quoted(c)) = 3 /\ InRange(index)
         /\ \A x \in Chars(index + 1), y \in Chars(index + 2) :
               Scan(x, y) # None /\ Scan(x, y) % 256 = c
<1> DEFINE a == HexDigits[c \div 16 + 1]
           b == HexDigits[(c % 16) + 1]
<1>1. value[index + 1] = Quoted(c)[1] /\ value[index + 1] = Percent
  BY HereStarts DEF At
<1>2. Quoted(c) = <<Percent, a, b>>
  <2>1. \A x : <<x>>[1] = x
    OBVIOUS
  <2>2. Quoted(c) # <<Plus>>
    <3>1. Plus # Percent
      BY DEF Plus, Percent
    <3> QED
      BY <1>1, <2>1, <3>1, Zenon
  <2>3. Quoted(c) = <<c>> => c = Percent
    BY <1>1, <2>1, Zenon
  <2> QED
    BY <2>2, <2>3, HereStarts
<1>3. Scan(a, b) # None /\ Scan(a, b) % 256 = c
  BY ScannedByte
<1> HIDE DEF a, b
<1>4. len \in Nat /\ index \in Nat
  BY CharOfValue
<1>5. Len(Quoted(c)) = 3 /\ index + 3 <= len
  BY <1>2 DEF Here
<1>6. value[index + 2] = a /\ value[index + 3] = b
  <2>1. \A j \in 1 .. 3 : value[index + j] = Quoted(c)[j]
    BY <1>5 DEF Here
  <2> QED
    BY <1>2, <2>1
<1>7. Chars(index + 1) = {a} /\ Chars(index + 2) = {b}
  <2>1. index + 1 < len /\ index + 2 < len /\ (index + 1) + 1 = index + 2 /\ (index + 2) + 1 = index + 3
    BY <1>4, <1>5
  <2> QED
    BY <1>6, <2>1 DEF Chars
<1>8. InRange(index)
  BY <1>4, <1>5 DEF InRange
<1> QED
  BY <1>3, <1>5, <1>7, <1>8

LEMMA DecodePlusHolds == DecodeInv /\ DecodePlus => DecodeInv'
<1> SUFFICES ASSUME DecodeInv, DecodePlus PROVE DecodeInv'
  OBVIOUS
<1>1. index < len /\ value[index + 1] = Plus
  BY DEF DecodePlus, At
<1>2. ASSUME NEW c \in 0 .. 255, Here(c) PROVE c = Space /\ Len(Quoted(c)) = 1
  <2>1. Quoted(c)[1] = Plus
    BY <1>1, <1>2, HereStarts
  <2>2. Quoted(c) # <<c>> \/ c \in {Plus, Percent}
    BY <2>1
  <2>3. \A x, y : <<Percent, x, y>>[1] # Plus
    BY DEF Plus, Percent
  <2>4. Quoted(c) = <<Plus>> /\ c = Space
    <3>1. Quoted(c) = <<c>> => c = Plus
      BY <2>1
    <3> QED
      BY <1>2, <2>1, <2>3, <3>1, HereStarts
  <2> QED
    BY <2>4
<1>3. len \in Nat /\ index \in Nat /\ 1 \in 1 .. 3 /\ Space \in Int
  BY <1>1, CharOfValue DEF Space
<1>4. /\ result' = Append(result, Space) /\ index' = index + 1 /\ index' <= len
      /\ UNCHANGED <<name, value>>
  BY <1>1, <1>3 DEF DecodePlus
<1> QED
  BY <1>1, <1>2, <1>3, <1>4, Advances

LEMMA CopyOtherHolds == DecodeInv /\ CopyOther => DecodeInv'
<1> SUFFICES ASSUME DecodeInv, CopyOther PROVE DecodeInv'
  OBVIOUS
<1> DEFINE b == value[index + 1]
<1>1. index < len /\ b \notin {Plus, Percent}
  BY DEF CopyOther
<1>2. ASSUME NEW c \in 0 .. 255, Here(c) PROVE c = b /\ Len(Quoted(c)) = 1
  <2>1. Quoted(c)[1] \notin {Plus, Percent}
    BY <1>1, <1>2, HereStarts
  <2>2. Quoted(c) = <<c>> /\ b = Quoted(c)[1]
    <3>1. \A x, y : <<Plus>>[1] = Plus /\ <<Percent, x, y>>[1] = Percent
      OBVIOUS
    <3>2. Quoted(c) # <<Plus>>
      BY <2>1, <3>1, Zenon
    <3>3. Quoted(c) # <<Percent, HexDigits[c \div 16 + 1], HexDigits[(c % 16) + 1]>>
      BY <2>1, <3>1, Zenon
    <3> QED
      BY <1>2, <3>2, <3>3, HereStarts
  <2> QED
    BY <2>2
<1>3. len \in Nat /\ index \in Nat /\ 1 \in 1 .. 3 /\ b \in Int
  BY <1>1, CharOfValue
<1>4. /\ result' = Append(result, b) /\ index' = index + 1 /\ index' <= len
      /\ UNCHANGED <<name, value>>
  BY <1>1, <1>3 DEF CopyOther
<1> HIDE DEF b
<1> QED
  BY <1>1, <1>2, <1>3, <1>4, Advances

LEMMA CopyPercentHolds == DecodeInv /\ CopyPercent => DecodeInv'
<1> SUFFICES ASSUME DecodeInv, CopyPercent PROVE DecodeInv'
  OBVIOUS
<1>1. index < len /\ At(Percent)
  BY DEF CopyPercent, At
<1>2. ASSUME NEW c \in 0 .. 255, Here(c) PROVE FALSE
  BY <1>1, <1>2, EscapeScanned DEF CopyPercent
<1>3. len \in Nat /\ index \in Nat /\ 1 \in 1 .. 3 /\ Percent \in Int
  BY <1>1, CharOfValue DEF Percent
<1>4. /\ result' = Append(result, Percent) /\ index' = index + 1 /\ index' <= len
      /\ UNCHANGED <<name, value>>
  BY <1>1, <1>3 DEF CopyPercent
<1> QED
  BY <1>1, <1>2, <1>3, <1>4, Advances

\* An escape that is taken is inside of the text.
LEMMA EscapeInText ==
  ASSUME DecodeInv, At(Percent), InRange(index),
         NEW a \in Chars(index + 1), NEW b \in Chars(index + 2), Scan(a, b) # None
  PROVE  index + 3 <= len
<1>1. index < len /\ len \in Nat /\ index \in Nat
  BY CharOfValue DEF At
<1>2. CASE index < len - 2
  BY <1>1, <1>2
<1>3. CASE len < 2
  <2>1. index + 1 = len /\ ~(index + 1 < len)
    BY <1>1, <1>3
  <2>2. a = 0
    BY <2>1 DEF Chars
  <2> QED
    BY <2>2, Scanned
<1> QED
  BY <1>2, <1>3 DEF InRange

LEMMA DecodeEscapeHolds == DecodeInv /\ DecodeEscape => DecodeInv'
<1> SUFFICES ASSUME DecodeInv, DecodeEscape PROVE DecodeInv'
  OBVIOUS
<1> PICK x \in Chars(index + 1), y \in Chars(index + 2) :
           Scan(x, y) # None /\ result' = Append(result, Scan(x, y) % 256)
  BY DEF DecodeEscape
<1> DEFINE b == Scan(x, y) % 256
<1>1. index < len /\ At(Percent) /\ InRange(index)
  BY DEF DecodeEscape, At
<1>2. ASSUME NEW c \in 0 .. 255, Here(c) PROVE c = b /\ Len(Quoted(c)) = 3
  BY <1>1, <1>2, EscapeScanned
<1>3. b \in Int
  BY Scanned
<1>4. index + 3 <= len
  BY <1>1, EscapeInText
<1>5. /\ result' = Append(result, b) /\ index' = index + 3 /\ index' <= len
      /\ UNCHANGED <<name, value>>
  BY <1>4 DEF DecodeEscape
<1>6. 3 \in 1 .. 3
  OBVIOUS
<1> HIDE DEF b
<1> QED
  BY <1>1, <1>2, <1>3, <1>5, <1>6, Advances

LEMMA WholeName ==
  ASSUME DecodeInv, Returned, name # None
  PROVE  result = name
<1> DEFINE n == Len(name)
<1>1. /\ name \in Seq(Int) /\ n \in Nat /\ \A i \in 1 .. n : name[i] \in 0 .. 255
      /\ result \in Seq(Int) /\ Len(result) \in Nat /\ Len(result) <= n
      /\ \A i \in 1 .. Len(result) : result[i] = name[i]
  BY NamesInt, BoundsPositive DEF DecodeInv, AtNextByte
<1>2. Len(result) = n
  <2> PICK at \in [0 .. n -> 0 .. len] : Laid(at) /\ index = at[Len(result)]
    BY DEF DecodeInv, AtNextByte
  <2> SUFFICES ASSUME Len(result) # n PROVE FALSE
    OBVIOUS
  <2> DEFINE k == Len(result) + 1
  <2>1. k \in 1 .. n /\ k - 1 = Len(result) /\ k - 1 \in 0 .. n /\ k \in 0 .. n
    BY <1>1
  <2>2. name[k] \in 0 .. 255
    BY <1>1, <2>1
  <2>3. Len(Quoted(name[k])) >= 1 /\ Len(Quoted(name[k])) \in Nat
    <3>1. Quoted(name[k]) \in Seq(Int) /\ Len(Quoted(name[k])) >= 1
      BY <2>2, QuotedByte
    <3> QED
      BY <3>1
  <2>4. len \in Nat /\ index = len
    BY DEF DecodeInv, Returned, len
  <2> HIDE DEF k, n
  <2>5. at[k - 1] + Len(Quoted(name[k])) = at[k] /\ at[k] <= len
    BY <2>1 DEF Laid, n
  <2>6. at[k] \in 0 .. len /\ at[k - 1] = len
    BY <2>1, <2>4
  <2> QED
    BY <2>3, <2>4, <2>5, <2>6
<1> QED
  BY <1>1, <1>2, SeqEqual

LEMMA DecodedRight == DecodeInv => NamesDecoded
<1> SUFFICES ASSUME DecodeInv PROVE NamesDecoded
  OBVIOUS
<1>1. index \in 0 .. len /\ len \in Nat
  BY DEF DecodeInv, len
<1>2. RoundTrip
  BY WholeName DEF RoundTrip
<1>3. NeverEmpty
  <2>1. len > 0
    BY <1>1, EmptySeq DEF DecodeInv, len
  <2> QED
    BY <1>1, <2>1 DEF DecodeInv, NeverEmpty, Returned
<1>4. StaysInText
  <2> SUFFICES ASSUME At(Percent), InRange(index), index + 2 > len,
                      NEW a \in Chars(index + 1), NEW b \in Chars(index + 2)
               PROVE  Scan(a, b) = None
    BY <1>1 DEF StaysInText
  <2>1. ~(index + 3 <= len)
    BY <1>1
  <2> QED
    BY <2>1, EscapeInText
<1> QED
  BY <1>2, <1>3, <1>4 DEF NamesDecoded

\* Whatever bytes names have and however long they are, the name a client has
\* quoted is what url_decode returns, no text that a URL can have is decoded to
\* nothing, and no escape moves the loop behind the end of its text.
THEOREM NamesRoundTrip == DecodeSpec => []NamesDecoded
<1>1. DecodeInit => DecodeInv
  BY InitHolds
<1>2. DecodeInv /\ [DecodeNext]_decodeVars => DecodeInv'
  <2> SUFFICES ASSUME DecodeInv, [DecodeNext]_decodeVars PROVE DecodeInv'
    OBVIOUS
  <2>1. CASE DecodePlus
    BY <2>1, DecodePlusHolds
  <2>2. CASE DecodeEscape
    BY <2>2, DecodeEscapeHolds
  <2>3. CASE CopyPercent
    BY <2>3, CopyPercentHolds
  <2>4. CASE CopyOther
    BY <2>4, CopyOtherHolds
  <2>5. CASE UNCHANGED decodeVars
    BY <2>5 DEF decodeVars, DecodeInv, AtNextByte, Laid, len
  <2> QED
    BY <2>1, <2>2, <2>3, <2>4, <2>5 DEF DecodeNext
<1>3. DecodeInv => NamesDecoded
  BY DecodedRight
<1> QED
  BY <1>1, <1>2, <1>3, PTL DEF DecodeSpec

-----------------------------------------------------------------------------
(* WebSocket: the frames of some kinds, in order.                          *)

\* The prefixes that Of puts together, one by one.
LEMMA OfUnfolded ==
  ASSUME NEW S, NEW s \in Seq(S), NEW ops
  PROVE  \E g : /\ Of(s, ops) = g[Len(s)] /\ g[0] = <<>>
                /\ \A i \in 1 .. Len(s) :
                      g[i] = IF s[i].op \in ops THEN Append(g[i - 1], s[i]) ELSE g[i - 1]
<1> DEFINE n == Len(s)
           Body(f, m) == [i \in 0 .. m |-> IF i = 0 THEN <<>>
                                           ELSE IF s[i].op \in ops THEN Append(f[i - 1], s[i]) ELSE f[i - 1]]
           T == {m \in 0 .. n : \E f : f = Body(f, m)}
           of[i \in 0 .. Len(s)] == IF i = 0 THEN <<>>
                                    ELSE IF s[i].op \in ops THEN Append(of[i - 1], s[i]) ELSE of[i - 1]
<1>1. n \in Nat
  OBVIOUS
<1>2. 0 \in T
  <2> DEFINE f == [i \in 0 .. 0 |-> <<>>]
  <2>1. f = Body(f, 0)
    OBVIOUS
  <2> HIDE DEF f, Body
  <2> QED
    BY <1>1, <2>1
<1>3. ASSUME NEW k \in 0 .. n - 1, k \in T PROVE k + 1 \in T
  <2> PICK g : g = Body(g, k)
    BY <1>3
  <2> DEFINE f == [i \in 0 .. k + 1 |-> IF i = k + 1 THEN IF s[k + 1].op \in ops THEN Append(g[k], s[k + 1]) ELSE g[k]
                                        ELSE g[i]]
  <2>1. ASSUME NEW i \in 0 .. k + 1
        PROVE  f[i] = IF i = 0 THEN <<>>
                      ELSE IF s[i].op \in ops THEN Append(f[i - 1], s[i]) ELSE f[i - 1]
    <3>1. CASE i = k + 1
      <4>1. i # 0 /\ i - 1 = k /\ i - 1 \in 0 .. k + 1 /\ i - 1 # k + 1
        BY <3>1
      <4>2. f[i - 1] = g[k]
        BY <4>1
      <4> QED
        BY <3>1, <4>1, <4>2
    <3>2. CASE i \in 0 .. k
      <4>1. g[i] = IF i = 0 THEN <<>>
                   ELSE IF s[i].op \in ops THEN Append(g[i - 1], s[i]) ELSE g[i - 1]
        BY <3>2
      <4>2. f[i] = g[i]
        BY <3>2
      <4>3. i # 0 => f[i - 1] = g[i - 1]
        BY <3>2
      <4> QED
        BY <4>1, <4>2, <4>3
    <3> QED
      BY <3>1, <3>2
  <2>2. f = Body(f, k + 1)
    BY <2>1
  <2>3. k + 1 \in 0 .. n
    BY <1>1
  <2> QED
    BY <2>2, <2>3
<1>4. n \in T
  <2> HIDE DEF T
  <2>1. n = 0 \/ 1 \in T
    BY <1>1, <1>2, <1>3
  <2>2. 1 .. n \subseteq T
    <3>1. \A k \in 1 .. n - 1 : k \in T => k + 1 \in T
      BY <1>1, <1>3
    <3> QED
      BY <1>1, <2>1, <3>1, InductionTo
  <2> QED
    BY <1>1, <1>2, <2>2
<1>5. \E f : f = Body(f, n)
  BY <1>4
<1>6. of = Body(of, n)
  BY <1>5
<1>7. Of(s, ops) = of[n]
  BY DEF Of
<1>8. /\ of[0] = <<>>
      /\ \A i \in 1 .. n : of[i] = IF s[i].op \in ops THEN Append(of[i - 1], s[i]) ELSE of[i - 1]
  <2> HIDE DEF of
  <2>1. of[0] = <<>>
    BY <1>1, <1>6
  <2>2. ASSUME NEW i \in 1 .. n
        PROVE  of[i] = IF s[i].op \in ops THEN Append(of[i - 1], s[i]) ELSE of[i - 1]
    <3>1. i \in 0 .. n /\ i # 0
      BY <1>1
    <3> QED
      BY <1>6, <3>1
  <2> QED
    BY <2>1, <2>2
<1> HIDE DEF of
<1> QED
  BY <1>7, <1>8

LEMMA OfEmpty ==
  ASSUME NEW s \in Seq({}), NEW ops
  PROVE  Of(s, ops) = <<>>
<1>1. Len(s) = 0
  OBVIOUS
<1>2. PICK g : /\ Of(s, ops) = g[Len(s)] /\ g[0] = <<>>
               /\ \A i \in 1 .. Len(s) : g[i] = IF s[i].op \in ops THEN Append(g[i - 1], s[i]) ELSE g[i - 1]
  BY OfUnfolded
<1> QED
  BY <1>1, <1>2

\* What is true at 0 and passed on is true up to n.
LEMMA InductionFrom0 ==
  ASSUME NEW n \in Nat, NEW T, 0 \in T, \A k \in 0 .. n - 1 : k \in T => k + 1 \in T
  PROVE  0 .. n \subseteq T
<1>1. n >= 1 => 1 \in T
  OBVIOUS
<1>2. 1 .. n \subseteq T
  BY <1>1, InductionTo
<1> QED
  BY <1>2

LEMMA OfTyped ==
  ASSUME NEW S, NEW s \in Seq(S), NEW ops
  PROVE  Of(s, ops) \in Seq(S)
<1> DEFINE n == Len(s)
<1> PICK g : /\ Of(s, ops) = g[n] /\ g[0] = <<>>
             /\ \A i \in 1 .. n : g[i] = IF s[i].op \in ops THEN Append(g[i - 1], s[i]) ELSE g[i - 1]
  BY OfUnfolded
<1> DEFINE T == {i \in 0 .. n : g[i] \in Seq(S)}
<1>1. n \in Nat
  OBVIOUS
<1>2. 0 \in T
  <2>1. g[0] \in Seq(S)
    OBVIOUS
  <2>2. 0 \in 0 .. n
    BY <1>1
  <2> QED
    BY <2>1, <2>2, Zenon
<1>3. ASSUME NEW k \in 0 .. n - 1, k \in T PROVE k + 1 \in T
  <2>1. k + 1 \in 1 .. n /\ (k + 1) - 1 = k /\ k + 1 \in 0 .. n
    BY <1>1
  <2>2. s[k + 1] \in S /\ g[k] \in Seq(S)
    BY <1>3, <2>1, ElementOfSeq
  <2>3. Append(g[k], s[k + 1]) \in Seq(S)
    BY <2>2
  <2>4. g[k + 1] = IF s[k + 1].op \in ops THEN Append(g[k], s[k + 1]) ELSE g[k]
    BY <2>1
  <2> QED
    BY <2>1, <2>2, <2>3, <2>4
<1> HIDE DEF T
<1>4. 0 .. n \subseteq T
  BY <1>1, <1>2, <1>3, InductionFrom0
<1> QED
  BY <1>1, <1>4 DEF T

LEMMA OfAppended ==
  ASSUME NEW S, NEW s \in Seq(S), NEW x \in S, NEW ops
  PROVE  Of(Append(s, x), ops) = IF x.op \in ops THEN Append(Of(s, ops), x) ELSE Of(s, ops)
<1> DEFINE n == Len(s)
           t == Append(s, x)
<1>1. /\ n \in Nat /\ t \in Seq(S) /\ Len(t) = n + 1 /\ t[n + 1] = x
      /\ \A i \in 1 .. n : t[i] = s[i]
  OBVIOUS
<1> PICK g : /\ Of(s, ops) = g[n] /\ g[0] = <<>>
             /\ \A i \in 1 .. n : g[i] = IF s[i].op \in ops THEN Append(g[i - 1], s[i]) ELSE g[i - 1]
  BY OfUnfolded
<1> HIDE DEF t
<1> PICK h : /\ Of(t, ops) = h[Len(t)] /\ h[0] = <<>>
             /\ \A i \in 1 .. Len(t) : h[i] = IF t[i].op \in ops THEN Append(h[i - 1], t[i]) ELSE h[i - 1]
  BY <1>1, OfUnfolded
<1> DEFINE T == {i \in 0 .. n : g[i] = h[i]}
<1>2. 0 \in T
  BY <1>1
<1>3. ASSUME NEW k \in 0 .. n - 1, k \in T PROVE k + 1 \in T
  <2>1. k + 1 \in 1 .. n /\ (k + 1) - 1 = k /\ k + 1 \in 0 .. n /\ k + 1 \in 1 .. Len(t)
    BY <1>1
  <2>2. g[k + 1] = IF s[k + 1].op \in ops THEN Append(g[k], s[k + 1]) ELSE g[k]
    BY <2>1
  <2>3. h[k + 1] = IF s[k + 1].op \in ops THEN Append(h[k], s[k + 1]) ELSE h[k]
    BY <1>1, <2>1
  <2> QED
    BY <1>3, <2>1, <2>2, <2>3
<1> HIDE DEF T
<1>4. 0 .. n \subseteq T
  BY <1>1, <1>2, <1>3, InductionFrom0
<1>5. g[n] = h[n]
  BY <1>1, <1>4 DEF T
<1>6. h[n + 1] = IF x.op \in ops THEN Append(h[n], x) ELSE h[n]
  <2>1. n + 1 \in 1 .. Len(t) /\ (n + 1) - 1 = n
    BY <1>1
  <2> QED
    BY <1>1, <2>1
<1>7. Of(t, ops) = h[n + 1]
  BY <1>1
<1> QED
  BY <1>5, <1>6, <1>7 DEF t

\* Flattening, one sequence after the other.
LEMMA FlattenAppended ==
  ASSUME NEW S, NEW s \in Seq(Seq(S)), NEW x \in Seq(S)
  PROVE  /\ FlattenSeq(Append(s, x)) = FlattenSeq(s) \o x
         /\ s = <<>> => FlattenSeq(s) = <<>>
<1> DEFINE n == Len(s)
           t == Append(s, x)
<1>1. /\ n \in Nat /\ t \in Seq(Seq(S)) /\ Len(t) = n + 1 /\ t[n + 1] = x
      /\ \A i \in 1 .. n : t[i] = s[i]
  OBVIOUS
<1>2. t # <<>>
  BY <1>1, EmptySeq
<1> HIDE DEF t
<1>3. PICK h : /\ FlattenSeq(t) = h[Len(t)]
               /\ h = [i \in 1 .. Len(t) |-> IF i = 1 THEN t[i] ELSE h[i - 1] \o t[i]]
  BY <1>1, <1>2, Flattened
<1>4. \A i \in 1 .. n + 1 : h[i] = IF i = 1 THEN t[i] ELSE h[i - 1] \o t[i]
  BY <1>1, <1>3
<1>5. s = <<>> => FlattenSeq(s) = <<>>
  BY DEF FlattenSeq
<1>6. CASE s = <<>>
  <2>1. n = 0
    BY <1>6
  <2>2. h[1] = x
    BY <1>1, <1>4, <2>1
  <2>3. FlattenSeq(t) = x
    BY <1>1, <1>3, <2>1, <2>2
  <2> QED
    BY <1>5, <1>6, <2>3 DEF t
<1>7. CASE s # <<>>
  <2>1. n >= 1
    BY <1>1, <1>7, EmptySeq
  <2>2. PICK g : /\ FlattenSeq(s) = g[n]
                 /\ g = [i \in 1 .. n |-> IF i = 1 THEN s[i] ELSE g[i - 1] \o s[i]]
    BY <1>7, Flattened
  <2>3. \A i \in 1 .. n : g[i] = IF i = 1 THEN s[i] ELSE g[i - 1] \o s[i]
    BY <2>2
  <2> DEFINE T == {i \in 1 .. n : g[i] = h[i]}
  <2>4. 1 \in T
    BY <1>1, <1>4, <2>1, <2>3
  <2>5. ASSUME NEW k \in 1 .. n - 1, k \in T PROVE k + 1 \in T
    <3>1. k + 1 \in 1 .. n /\ (k + 1) - 1 = k /\ k + 1 \in 1 .. n + 1 /\ k + 1 # 1
      <4> HIDE DEF n, T
      <4> QED
        BY <1>1
    <3>2. g[k + 1] = g[k] \o s[k + 1]
      BY <2>3, <3>1
    <3>3. h[k + 1] = h[k] \o s[k + 1]
      BY <1>1, <1>4, <3>1
    <3> QED
      BY <2>5, <3>1, <3>2, <3>3
  <2> HIDE DEF T
  <2>6. 1 .. n \subseteq T
    BY <1>1, <2>4, <2>5, InductionTo
  <2>7. g[n] = h[n]
    <3>1. n \in 1 .. n
      BY <1>1, <2>1
    <3>2. n \in T
      BY <2>6, <3>1
    <3> QED
      BY <3>2 DEF T
  <2>8. h[n + 1] = h[n] \o x
    <3>1. n + 1 \in 1 .. n + 1 /\ (n + 1) - 1 = n /\ n + 1 # 1
      BY <1>1, <2>1
    <3> QED
      BY <1>1, <1>4, <3>1
  <2>9. FlattenSeq(t) = h[n + 1]
    BY <1>1, <1>3
  <2> QED
    BY <1>7, <2>2, <2>7, <2>8, <2>9 DEF t
<1> QED
  BY <1>5, <1>6, <1>7 DEF t

LEMMA OfNothing ==
  ASSUME NEW ops
  PROVE  Of(<<>>, ops) = <<>>
<1>1. <<>> \in Seq({})
  OBVIOUS
<1> QED
  BY <1>1, OfEmpty

-----------------------------------------------------------------------------
(* WebSocket: what the steps of its handlers change.                       *)

\* The frame that is being read, and the message that is being collected.
SameReading(v, w) ==
    /\ v.remaining = w.remaining /\ v.masked = w.masked /\ v.op = w.op /\ v.fin = w.fin
    /\ v.message = w.message /\ v.binary = w.binary

SameClosing(v, w) ==
    /\ v.life = w.life /\ v.socket = w.socket /\ v.closing = w.closing
    /\ v.sentClose = w.sentClose /\ v.recvClose = w.recvClose /\ v.closeCalled = w.closeCalled

LEMMA AppendedBehind ==
  ASSUME NEW S, NEW a \in Seq(S), NEW b \in Seq(S), NEW x \in S
  PROVE  a \o Append(b, x) = Append(a \o b, x)
OBVIOUS

LEMMA SendEffect ==
  ASSUME NEW w \in Connections, NEW f \in Outgoing
  PROVE  LET v == Send(w, f)
         IN  /\ v \in Connections /\ v.sending \o v.queue = Append(w.sending \o w.queue, f)
             /\ SameReading(v, w) /\ SameClosing(v, w)
             /\ v.state = w.state /\ v.fragment = w.fragment /\ v.reading = w.reading
<1> DEFINE q == Append(w.queue, f)
           u == [w EXCEPT !.queue = q]
           v == Send(w, f)
<1>1. w.queue \in Seq(Outgoing) /\ w.sending \in Seq(Outgoing)
  BY DEF Connections
<1>2. q \in Seq(Outgoing)
  BY <1>1
<1> HIDE DEF q
<1>3. u \in Connections /\ u.queue = q /\ u.sending = w.sending
  BY <1>2 DEF Connections
<1>4. v = IF w.sending = <<>> THEN [u EXCEPT !.sending = q, !.queue = <<>>] ELSE u
  BY <1>3 DEF Send, DoWrite, q
<1>5. CASE w.sending = <<>>
  <2>1. v = [w EXCEPT !.queue = <<>>, !.sending = q]
    BY <1>3, <1>4, <1>5 DEF Connections
  <2>2. v \in Connections
    <3>1. <<>> \in Seq(Outgoing)
      OBVIOUS
    <3> QED
      BY <1>2, <2>1, <3>1 DEF Connections
  <2>3. v.sending = q /\ v.queue = <<>>
    BY <2>1 DEF Connections
  <2>4. q \o <<>> = Append(<<>> \o w.queue, f)
    BY <1>1, <1>2 DEF q
  <2> QED
    BY <1>5, <2>1, <2>2, <2>3, <2>4 DEF Connections, SameReading, SameClosing
<1>6. CASE w.sending # <<>>
  <2>1. v = u
    BY <1>4, <1>6
  <2>2. w.sending \o q = Append(w.sending \o w.queue, f)
    <3> DEFINE a == w.sending
               b == w.queue
    <3>1. a \in Seq(Outgoing) /\ b \in Seq(Outgoing)
      BY <1>1
    <3> HIDE DEF a, b
    <3>2. a \o Append(b, f) = Append(a \o b, f)
      BY <3>1, AppendedBehind
    <3> QED
      BY <3>2 DEF a, b, q
  <2>3. u.sending \o u.queue = Append(w.sending \o w.queue, f)
    BY <1>3, <2>2
  <2>4. SameReading(u, w) /\ SameClosing(u, w)
        /\ u.state = w.state /\ u.fragment = w.fragment /\ u.reading = w.reading
    BY DEF Connections, SameReading, SameClosing
  <2> HIDE DEF u
  <2> QED
    BY <1>3, <2>1, <2>3, <2>4
<1> QED
  BY <1>5, <1>6

LEMMA NextFrameEffect ==
  ASSUME NEW w \in Connections
  PROVE  LET v == NextFrame(w)
         IN  /\ v \in Connections /\ v.sending = w.sending /\ v.queue = w.queue
             /\ SameReading(v, w) /\ SameClosing(v, w)
             /\ v.state = "MiniHeader" /\ v.fragment = <<>>
<1> DEFINE u == [w EXCEPT !.fragment = <<>>, !.reading = FALSE, !.state = "MiniHeader"]
<1>1. <<>> \in Seq(Bytes \X (-1 .. 3))
  OBVIOUS
<1>2. u \in Connections /\ u.state = "MiniHeader"
  BY <1>1 DEF Connections
<1>3. NextFrame(w) = [u EXCEPT !.reading = TRUE, !.state = "MiniHeader"]
  BY <1>2 DEF NextFrame, DoRead, Connections
<1>4. NextFrame(w) = [w EXCEPT !.fragment = <<>>, !.reading = TRUE, !.state = "MiniHeader"]
  BY <1>2, <1>3 DEF Connections
<1> QED
  BY <1>1, <1>4 DEF Connections, SameReading, SameClosing

LEMMA DestroyedEffect ==
  ASSUME NEW w \in Connections
  PROVE  LET v == Destroyed(w)
         IN  /\ v \in Connections /\ v.sending = w.sending /\ v.queue = w.queue
             /\ SameReading(v, w) /\ v.state = w.state /\ v.fragment = w.fragment
             /\ v.life \in {w.life, "deleted"} /\ v.closeCalled = w.closeCalled
             /\ v.socket = w.socket
<1> DEFINE u == [w EXCEPT !.life = "deleted"]
<1>1. u \in Connections
  BY DEF Connections
<1>2. /\ u.sending = w.sending /\ u.queue = w.queue
      /\ SameReading(u, w) /\ u.state = w.state /\ u.fragment = w.fragment
      /\ u.life = "deleted" /\ u.closeCalled = w.closeCalled /\ u.socket = w.socket
  BY DEF Connections, SameReading
<1>3. Destroyed(w) \in {u, w}
  BY DEF Destroyed
<1>4. SameReading(w, w)
  BY DEF SameReading
<1> HIDE DEF u
<1> QED
  BY <1>1, <1>2, <1>3, <1>4

LEMMA CloseSocketEffect ==
  ASSUME NEW w \in Connections
  PROVE  LET v == CloseSocket(w)
         IN  /\ v \in Connections /\ v.sending = w.sending /\ v.queue = w.queue
             /\ SameReading(v, w) /\ v.state = w.state /\ v.fragment = w.fragment
             /\ v.life = w.life /\ v.closeCalled = w.closeCalled /\ v.reading = w.reading
             /\ v.socket = FALSE
BY DEF CloseSocket, Connections, SameReading

-----------------------------------------------------------------------------
(* WebSocket: reading.                                                     *)

LEMMA Halves ==
  ASSUME NEW S, NEW k \in Nat, NEW m \in Nat, NEW c \in [1 .. k + m -> S]
  PROVE  [i \in 1 .. k |-> c[i]] \o [i \in 1 .. m |-> c[k + i]] = c
<1> DEFINE a == [i \in 1 .. k |-> c[i]]
           b == [i \in 1 .. m |-> c[k + i]]
<1>1. a \in Seq(S) /\ Len(a) = k /\ \A i \in 1 .. k : a[i] = c[i]
  <2>1. \A i \in 1 .. k : c[i] \in S
    OBVIOUS
  <2>2. a \in [1 .. k -> S]
    BY <2>1
  <2>3. a \in Seq(S)
    BY <2>2, SeqDef
  <2> QED
    BY <2>2, <2>3
<1>2. b \in Seq(S) /\ Len(b) = m /\ \A i \in 1 .. m : b[i] = c[k + i]
  <2>1. \A i \in 1 .. m : c[k + i] \in S
    OBVIOUS
  <2>2. b \in [1 .. m -> S]
    BY <2>1
  <2>3. b \in Seq(S)
    BY <2>2, SeqDef
  <2> QED
    BY <2>2, <2>3
<1>3. c \in Seq(S) /\ Len(c) = k + m
  <2>1. k + m \in Nat
    OBVIOUS
  <2>2. c \in Seq(S)
    BY <2>1, SeqDef
  <2> QED
    BY <2>1, <2>2
<1> HIDE DEF a, b
<1>4. /\ a \o b \in Seq(S) /\ Len(a \o b) = k + m
      /\ \A i \in 1 .. k : (a \o b)[i] = a[i]
      /\ \A i \in 1 .. m : (a \o b)[k + i] = b[i]
  <2>1. /\ a \o b \in Seq(S) /\ Len(a \o b) = Len(a) + Len(b)
        /\ \A i \in 1 .. Len(a) : (a \o b)[i] = a[i]
        /\ \A i \in 1 .. Len(b) : (a \o b)[Len(a) + i] = b[i]
    <3>1. a \in Seq(S) /\ b \in Seq(S)
      BY <1>1, <1>2
    <3> QED
      BY <3>1, Concatenated
  <2> QED
    BY <1>1, <1>2, <2>1
<1>5. \A i \in 1 .. k + m : (a \o b)[i] = c[i]
  <2> TAKE i \in 1 .. k + m
  <2>1. CASE i \in 1 .. k
    BY <1>1, <1>4, <2>1
  <2>2. CASE i \notin 1 .. k
    <3> DEFINE j == i - k
    <3>1. j \in 1 .. m /\ i = k + j
      BY <2>2
    <3> HIDE DEF j
    <3> QED
      BY <1>2, <1>4, <3>1
  <2> QED
    BY <2>1, <2>2
<1>6. a \o b = c
  BY <1>3, <1>4, <1>5, SeqEqual
<1> QED
  BY <1>6 DEF a, b

LEMMA FrameType ==
  ASSUME SocketTypeOK, incoming # <<>>
  PROVE  LET f == Head(incoming)
         IN  /\ f \in Incoming /\ f.payload \in Seq(Bytes) /\ Len(f.payload) \in Nat
             /\ f.payload \in [1 .. Len(f.payload) -> Bytes]
             /\ Tail(incoming) \in Seq(Incoming)
             /\ \A i \in 1 .. Len(f.payload) : Coded(f, i) \in Bytes \X (-1 .. 3)
<1> DEFINE f == Head(incoming)
<1>1. f \in Incoming /\ Tail(incoming) \in Seq(Incoming)
  <2>1. incoming \in Seq(Incoming)
    BY DEF SocketTypeOK
  <2> QED
    BY <2>1, HeadTailProperties
<1> HIDE DEF f
<1>2. f.payload \in Seq(Bytes) /\ f.masked \in BOOLEAN
  BY <1>1 DEF Incoming
<1>3. Len(f.payload) \in Nat /\ f.payload \in [1 .. Len(f.payload) -> Bytes]
  BY <1>2
<1>4. \A i \in 1 .. Len(f.payload) : Coded(f, i) \in Bytes \X (-1 .. 3)
  <2> TAKE i \in 1 .. Len(f.payload)
  <2>1. f.payload[i] \in Bytes
    BY <1>3
  <2>2. (i - 1) % 4 \in -1 .. 3 /\ -1 \in -1 .. 3
    BY <1>3
  <2> QED
    BY <2>1, <2>2 DEF Coded
<1> QED
  BY <1>1, <1>2, <1>3, <1>4 DEF f

\* What has been read of a payload, with the next piece.
LEMMA PieceRead ==
  ASSUME SocketTypeOK, FrameInv, Reading("Payload"), Input, NEW m \in 0 .. ws.remaining
  PROVE  LET f == Head(incoming)
             read == Len(f.payload) - ws.remaining
         IN  /\ read \in Nat
             /\ ws.fragment \o Piece(m) = [i \in 1 .. read + m |-> Coded(f, i)]
             /\ ws.fragment \o Piece(m) \in Seq(Bytes \X (-1 .. 3))
<1> DEFINE f == Head(incoming)
           read == Len(f.payload) - ws.remaining
           c == [i \in 1 .. read + m |-> Coded(f, i)]
<1>1. ws.remaining \in Nat /\ ws.life = "open" /\ ws.state = "Payload" /\ incoming # <<>>
  BY DEF SocketTypeOK, Connections, Reading, Input
<1>2. read >= 0 /\ ws.fragment = [i \in 1 .. read |-> Coded(f, i)]
  BY <1>1 DEF FrameInv
<1>3. Len(f.payload) \in Nat /\ \A i \in 1 .. Len(f.payload) : Coded(f, i) \in Bytes \X (-1 .. 3)
  BY <1>1, FrameType
<1>4. read \in Nat /\ m \in Nat /\ read + m <= Len(f.payload)
  BY <1>1, <1>2, <1>3
<1>5. Piece(m) = [i \in 1 .. m |-> Coded(f, read + i)]
  BY DEF Piece
<1> HIDE DEF f, read
<1>6. c \in [1 .. read + m -> Bytes \X (-1 .. 3)]
  <2>1. \A i \in 1 .. read + m : Coded(f, i) \in Bytes \X (-1 .. 3)
    BY <1>3, <1>4
  <2> QED
    BY <2>1
<1>7. /\ ws.fragment = [i \in 1 .. read |-> c[i]]
      /\ Piece(m) = [i \in 1 .. m |-> c[read + i]]
  <2>1. \A i \in 1 .. read : c[i] = Coded(f, i)
    BY <1>4
  <2>2. \A i \in 1 .. m : c[read + i] = Coded(f, read + i)
    BY <1>4
  <2> HIDE DEF c
  <2>3. [i \in 1 .. read |-> c[i]] = [i \in 1 .. read |-> Coded(f, i)]
    BY <2>1
  <2>4. [i \in 1 .. m |-> c[read + i]] = [i \in 1 .. m |-> Coded(f, read + i)]
    BY <2>2
  <2> QED
    BY <1>2, <1>5, <2>3, <2>4
<1> HIDE DEF c
<1>8. ws.fragment \o Piece(m) = c
  BY <1>4, <1>6, <1>7, Halves
<1>9. c \in Seq(Bytes \X (-1 .. 3))
  <2>1. read + m \in Nat
    BY <1>4
  <2> QED
    BY <1>6, <2>1, SeqDef
<1> QED
  BY <1>4, <1>8, <1>9 DEF c, f, read

\* A frame that has been read is the frame that was sent.
LEMMA FrameRead ==
  ASSUME SocketTypeOK, FrameInv, Reading("Payload"), Input
  PROVE  LET f == Head(incoming)
         IN  Payload = f.payload /\ ws.op = f.op /\ ws.fin = f.fin
<1> DEFINE f == Head(incoming)
           n == Len(f.payload)
           read == n - ws.remaining
           whole == ws.fragment \o Piece(ws.remaining)
<1>1. /\ ws.remaining \in Nat /\ ws.life = "open" /\ ws.state = "Payload" /\ incoming # <<>>
      /\ ws.remaining \in 0 .. ws.remaining
  <2>1. ws.remaining \in Nat /\ ws.life = "open" /\ ws.state = "Payload" /\ incoming # <<>>
    BY DEF SocketTypeOK, Connections, Reading, Input
  <2> QED
    BY <2>1
<1>2. ws.op = f.op /\ ws.fin = f.fin /\ ws.masked = f.masked
  BY <1>1 DEF FrameInv
<1>3. f \in Incoming /\ f.payload \in Seq(Bytes) /\ n \in Nat /\ f.payload \in [1 .. n -> Bytes]
  BY <1>1, FrameType
<1>4. whole = [i \in 1 .. read + ws.remaining |-> Coded(f, i)]
  BY <1>1, PieceRead
<1>5. read + ws.remaining = n
  BY <1>1, <1>3
<1> HIDE DEF f, n, whole, read
<1>6. whole = [i \in 1 .. n |-> Coded(f, i)]
  BY <1>4, <1>5
<1>7. Unmasked(whole) = [i \in 1 .. n |-> f.payload[i]]
  <2>1. DOMAIN whole = 1 .. n /\ \A i \in 1 .. n : whole[i] = Coded(f, i)
    BY <1>6
  <2>2. \A i \in 1 .. n : (IF ws.masked /\ whole[i][2] # (i - 1) % 4 THEN "garbled" ELSE whole[i][1]) = f.payload[i]
    BY <1>2, <2>1 DEF Coded
  <2> QED
    BY <2>1, <2>2 DEF Unmasked
<1>8. f.payload = [i \in 1 .. n |-> f.payload[i]]
  BY <1>3
<1> QED
  BY <1>2, <1>7, <1>8 DEF Payload, whole, f

-----------------------------------------------------------------------------
(* WebSocket: what is kept by steps that do not end a frame.               *)

LEMMA DoReadEffect ==
  ASSUME NEW w \in Connections
  PROVE  LET v == DoRead(w)
         IN  /\ v \in Connections /\ v.sending = w.sending /\ v.queue = w.queue
             /\ SameReading(v, w) /\ SameClosing(v, w) /\ v.fragment = w.fragment
             /\ v.state = (IF w.state = "Mask" /\ ~w.masked THEN "Payload" ELSE w.state)
BY DEF DoRead, Connections, SameReading, SameClosing

LEMMA MessageType ==
  ASSUME NEW op \in Opcodes \cup {"hello"}, NEW payload \in Seq(Bytes \cup {"t"})
  PROVE  LET f == Message(op, payload) IN f \in Outgoing /\ f.op = op /\ f.payload = payload
BY DEF Message, Frame, Outgoing, LengthBits, LengthFields

LEMMA SendCloseEffect ==
  ASSUME NEW w \in Connections, NEW payload \in Seq(Bytes \cup {"t"})
  PROVE  LET v == SendClose(w, payload)
         IN  /\ v \in Connections
             /\ v.sending \o v.queue = Append(w.sending \o w.queue, Message(Close, payload))
             /\ SameReading(v, w) /\ v.state = w.state /\ v.fragment = w.fragment
             /\ v.reading = w.reading /\ v.life = w.life /\ v.socket = w.socket
             /\ v.closeCalled = (w.closeCalled \/ w.recvClose)
<1> DEFINE u == [w EXCEPT !.sentClose = TRUE, !.closeCalled = @ \/ w.recvClose]
           f == Message(Close, payload)
<1>1. /\ u \in Connections /\ u.sending = w.sending /\ u.queue = w.queue
      /\ SameReading(u, w) /\ u.state = w.state /\ u.fragment = w.fragment
      /\ u.reading = w.reading /\ u.life = w.life /\ u.socket = w.socket
      /\ u.closeCalled = (w.closeCalled \/ w.recvClose)
  BY DEF Connections, SameReading
<1>2. f \in Outgoing
  BY MessageType DEF Opcodes
<1>3. SendClose(w, payload) = Send(u, f)
  BY DEF SendClose
<1> HIDE DEF u, f
<1>4. /\ Send(u, f) \in Connections
      /\ Send(u, f).sending \o Send(u, f).queue = Append(u.sending \o u.queue, f)
      /\ SameReading(Send(u, f), u) /\ SameClosing(Send(u, f), u)
      /\ Send(u, f).state = u.state /\ Send(u, f).fragment = u.fragment
      /\ Send(u, f).reading = u.reading
  BY <1>1, <1>2, SendEffect
<1> QED
  BY <1>1, <1>3, <1>4 DEF SameReading, SameClosing, f

\* Nothing that is read, or has been, changes.
LEMMA ReadingKept ==
  ASSUME SocketInv, UNCHANGED <<incoming, handled, delivered>>,
         SameReading(ws', ws), ws'.fragment = ws.fragment, ws'.state = ws.state,
         ws'.life \in {"request", "open"} => ws.life \in {"request", "open"},
         ws'.life = "request" => ws.life = "request" /\ peer' = peer,
         peer' = "here" => peer = "here"
  PROVE  FrameInv' /\ StreamInv' /\ MessageInv' /\ MessagesIntact'
<1>1. FrameInv'
  BY DEF SocketInv, FrameInv, SameReading
<1>2. StreamInv'
  BY DEF SocketInv, StreamInv
<1>3. MessageInv'
  BY DEF SocketInv, MessageInv, SameReading
<1>4. MessagesIntact'
  BY DEF SocketInv, MessagesIntact
<1> QED
  BY <1>1, <1>2, <1>3, <1>4

\* A frame is submitted, behind the others.
LEMMA Submitted ==
  ASSUME SocketInv, NEW f \in Outgoing,
         ws'.sending \o ws'.queue = Append(ws.sending \o ws.queue, f),
         submitted' = Append(submitted, f), sent' = sent, peer' = peer,
         ws'.socket => ws.socket, ws'.life # "request"
  PROVE  SendInv'
<1>1. /\ sent \in Seq(Outgoing) /\ submitted \in Seq(Outgoing)
      /\ ws.sending \in Seq(Outgoing) /\ ws.queue \in Seq(Outgoing)
  BY DEF SocketInv, SocketTypeOK, Connections
<1> DEFINE behind == ws.sending \o ws.queue
<1>2. behind \in Seq(Outgoing)
  BY <1>1, ConcatProperties
<1>3. IsPrefix(sent', submitted')
  <2>1. Len(sent) <= Len(submitted) /\ SubSeq(sent, 1, Len(sent)) = SubSeq(submitted, 1, Len(sent))
    BY DEF SocketInv, SendInv, IsPrefix
  <2>2. /\ Len(submitted') = Len(submitted) + 1 /\ Len(submitted) \in Nat /\ Len(sent) \in Nat
        /\ \A i \in 1 .. Len(submitted) : submitted'[i] = submitted[i]
        /\ submitted' \in Seq(Outgoing)
    BY <1>1
  <2>3. SubSeq(submitted', 1, Len(sent)) = SubSeq(submitted, 1, Len(sent))
    BY <1>1, <2>1, <2>2
  <2> QED
    BY <2>1, <2>2, <2>3 DEF IsPrefix
<1>4. ASSUME ws'.socket, peer' # "reset" PROVE sent' \o (ws'.sending \o ws'.queue) = submitted'
  <2>1. sent \o behind = submitted
    BY <1>4 DEF SocketInv, SendInv
  <2> HIDE DEF behind
  <2>2. sent \o Append(behind, f) = Append(sent \o behind, f)
    BY <1>1, <1>2, AppendedBehind
  <2> QED
    BY <2>1, <2>2 DEF behind
<1> QED
  BY <1>3, <1>4 DEF SendInv

\* Nothing is submitted or written.
LEMMA SendKept ==
  ASSUME SocketInv, UNCHANGED <<sent, submitted>>,
         ws'.socket /\ peer' # "reset" =>
            ws.socket /\ peer # "reset" /\ ws'.sending = ws.sending /\ ws'.queue = ws.queue,
         ws'.life # "request"
  PROVE  SendInv'
BY DEF SocketInv, SendInv

\* No ping has been read, and no pong has been submitted.
LEMMA PingsKept ==
  ASSUME SocketInv,
         handled' = handled \/ \E f \in Incoming : f.op # Ping /\ handled' = Append(handled, f),
         submitted' = submitted \/ \E f \in Outgoing : f.op # Pong /\ submitted' = Append(submitted, f)
  PROVE  PingsAnswered'
<1>1. handled \in Seq(Incoming) /\ submitted \in Seq(Outgoing)
  BY DEF SocketInv, SocketTypeOK
<1>2. Of(handled', {Ping}) = Of(handled, {Ping})
  <2>1. CASE handled' = handled
    BY <2>1
  <2>2. CASE \E f \in Incoming : f.op # Ping /\ handled' = Append(handled, f)
    <3> PICK f \in Incoming : f.op # Ping /\ handled' = Append(handled, f)
      BY <2>2
    <3>1. f.op \notin {Ping}
      OBVIOUS
    <3> QED
      BY <1>1, <3>1, OfAppended
  <2> QED
    BY <2>1, <2>2
<1>3. Of(submitted', {Pong}) = Of(submitted, {Pong})
  <2>1. CASE submitted' = submitted
    BY <2>1
  <2>2. CASE \E f \in Outgoing : f.op # Pong /\ submitted' = Append(submitted, f)
    <3> PICK f \in Outgoing : f.op # Pong /\ submitted' = Append(submitted, f)
      BY <2>2
    <3>1. f.op \notin {Pong}
      OBVIOUS
    <3> QED
      BY <1>1, <3>1, OfAppended
  <2> QED
    BY <2>1, <2>2
<1> QED
  BY <1>2, <1>3 DEF SocketInv, PingsAnswered

-----------------------------------------------------------------------------
(* WebSocket: the end of a frame.                                          *)

LEMMA HeadMoved ==
  ASSUME NEW S, NEW a \in Seq(S), NEW b \in Seq(S), b # <<>>
  PROVE  /\ Append(a, Head(b)) \o Tail(b) = a \o b
         /\ (a \o b)[Len(a) + 1] = Head(b)
         /\ SubSeq(a \o b, 1, Len(a)) = a
         /\ Len(a) + 1 \in DOMAIN (a \o b)
<1>1. Head(b) \in S /\ Tail(b) \in Seq(S) /\ Len(b) \in Nat /\ Len(b) >= 1 /\ Len(Tail(b)) = Len(b) - 1
      /\ Head(b) = b[1] /\ \A i \in 1 .. Len(b) - 1 : Tail(b)[i] = b[i + 1]
  BY EmptySeq
<1> DEFINE h == Head(b)
           t == Tail(b)
           c == Append(a, h)
<1> HIDE DEF h, t
<1>2. /\ c \in Seq(S) /\ Len(c) = Len(a) + 1 /\ Len(a) \in Nat /\ c[Len(a) + 1] = h
      /\ \A i \in 1 .. Len(a) : c[i] = a[i]
  BY <1>1 DEF h
<1> HIDE DEF c
<1>3. t \in Seq(S)
  BY <1>1 DEF t
<1>4. /\ a \o b \in Seq(S) /\ Len(a \o b) = Len(a) + Len(b)
      /\ \A i \in 1 .. Len(a) : (a \o b)[i] = a[i]
      /\ \A j \in 1 .. Len(b) : (a \o b)[Len(a) + j] = b[j]
  BY Concatenated
<1>5. /\ c \o t \in Seq(S) /\ Len(c \o t) = Len(c) + Len(t)
      /\ \A i \in 1 .. Len(c) : (c \o t)[i] = c[i]
      /\ \A j \in 1 .. Len(t) : (c \o t)[Len(c) + j] = t[j]
  <2>1. c \in Seq(S)
    BY <1>2
  <2> QED
    BY <1>3, <2>1, Concatenated
<1> DEFINE left == c \o t
           right == a \o b
<1>6. Len(left) = Len(right)
  BY <1>1, <1>2, <1>4, <1>5 DEF t
<1>7. ASSUME NEW i \in 1 .. Len(right) PROVE left[i] = right[i]
  <2>1. CASE i \in 1 .. Len(a)
    BY <1>2, <1>4, <1>5, <2>1
  <2>2. CASE i = Len(a) + 1
    <3>1. left[i] = h
      BY <1>2, <1>5, <2>2
    <3>2. right[i] = b[1]
      BY <1>1, <1>4, <2>2
    <3> QED
      BY <1>1, <3>1, <3>2 DEF h
  <2>3. CASE i \notin 1 .. Len(a) + 1
    <3> DEFINE j == i - Len(a) - 1
    <3>1. j \in 1 .. Len(b) - 1 /\ i = Len(c) + j /\ i = Len(a) + (j + 1) /\ j + 1 \in 1 .. Len(b)
      BY <1>1, <1>2, <1>4, <2>3
    <3> HIDE DEF j
    <3>2. left[i] = t[j]
      BY <1>1, <1>5, <3>1 DEF t
    <3>3. right[i] = b[j + 1]
      BY <1>4, <3>1
    <3> QED
      BY <1>1, <3>1, <3>2, <3>3 DEF t
  <2>4. i \in Nat /\ i >= 1
    BY <1>1, <1>2, <1>4
  <2>5. i \in 1 .. Len(a) \/ i = Len(a) + 1 \/ i \notin 1 .. Len(a) + 1
    BY <1>2, <2>4
  <2> QED
    BY <2>1, <2>2, <2>3, <2>5
<1> HIDE DEF left, right
<1>8. left = right
  BY <1>4, <1>5, <1>6, <1>7, SeqEqual DEF left, right
<1>9. right[Len(a) + 1] = h /\ Len(a) + 1 \in DOMAIN right
  BY <1>1, <1>2, <1>4 DEF right, h
<1>10. SubSeq(right, 1, Len(a)) = a
  <2>1. /\ SubSeq(right, 1, Len(a)) \in Seq(S) /\ Len(SubSeq(right, 1, Len(a))) = Len(a)
        /\ \A i \in 1 .. Len(a) : SubSeq(right, 1, Len(a))[i] = right[i]
    BY <1>1, <1>2, <1>4 DEF right
  <2>2. \A i \in 1 .. Len(a) : right[i] = a[i]
    BY <1>4 DEF right
  <2> QED
    BY <2>1, <2>2, SeqEqual
<1> QED
  BY <1>8, <1>9, <1>10 DEF left, right, c, h, t

\* The stream does not change when a frame of it has been handled, and the
\* frame continues a message exactly when one has been begun.
LEMMA LastPieceEffect ==
  ASSUME SocketInv, LastPiece
  PROVE  LET f == Head(incoming)
         IN  /\ f \in Incoming /\ f.payload \in Seq(Bytes) /\ Payload = f.payload
             /\ ws.op = f.op /\ ws.fin = f.fin
             /\ handled' = Append(handled, f) /\ handled' \in Seq(Incoming)
             /\ incoming' \in Seq(Incoming)
             /\ f.op \in Data => (f.op = Continuation <=> Begun(handled))
             /\ StreamInv'
             /\ ws.life = "open"
<1> DEFINE f == Head(incoming)
<1>0. SocketTypeOK /\ FrameInv /\ StreamInv
  BY DEF SocketInv
<1>1. /\ Reading("Payload") /\ Input /\ ws.life = "open" /\ incoming # <<>>
      /\ handled' = Append(handled, f) /\ incoming' = Tail(incoming)
  BY DEF LastPiece, Reading, Input
<1>2. handled \in Seq(Incoming) /\ incoming \in Seq(Incoming)
  BY <1>0 DEF SocketTypeOK
<1>3. f \in Incoming /\ f.payload \in Seq(Bytes) /\ Tail(incoming) \in Seq(Incoming)
  BY <1>0, <1>1, FrameType
<1>4. Payload = f.payload /\ ws.op = f.op /\ ws.fin = f.fin
  BY <1>0, <1>1, FrameRead
<1>5. /\ Append(handled, f) \o Tail(incoming) = handled \o incoming
      /\ (handled \o incoming)[Len(handled) + 1] = f
      /\ SubSeq(handled \o incoming, 1, Len(handled)) = handled
      /\ Len(handled) + 1 \in DOMAIN (handled \o incoming)
  BY <1>1, <1>2, HeadMoved
<1>6. f.op \in Data => (f.op = Continuation <=> Begun(handled))
  <2> DEFINE stream == handled \o incoming
             i == Len(handled) + 1
  <2>1. stream[i].op \in Data => (stream[i].op = Continuation <=> Begun(SubSeq(stream, 1, i - 1)))
    BY <1>0, <1>5 DEF StreamInv
  <2>2. i - 1 = Len(handled)
    BY <1>2
  <2>3. SubSeq(stream, 1, i - 1) = handled
    BY <1>5, <2>2
  <2>4. stream[i] = f
    BY <1>5
  <2> QED
    BY <2>1, <2>3, <2>4
<1>7. StreamInv'
  <2>1. handled' \o incoming' = handled \o incoming
    BY <1>1, <1>5
  <2> QED
    BY <1>0, <2>1 DEF StreamInv
<1>8. handled' \in Seq(Incoming)
  BY <1>1, <1>2, <1>3, AppendProperties
<1> QED
  BY <1>1, <1>3, <1>4, <1>6, <1>7, <1>8

\* Nothing is known of the next frame.
LEMMA NextFrameRead ==
  ASSUME ws'.life # "request",
         ws'.life = "open" => ws'.state = "MiniHeader" /\ ws'.fragment = <<>>
  PROVE  FrameInv'
BY DEF FrameInv

\* A frame that carries no data changes no message.
LEMMA MessageKept ==
  ASSUME SocketInv, NEW f \in Incoming, f.op \notin Data, handled' = Append(handled, f),
         delivered' = delivered, ws'.message = ws.message, ws'.binary = ws.binary
  PROVE  MessageInv' /\ MessagesIntact'
<1>1. handled \in Seq(Incoming)
  BY DEF SocketInv, SocketTypeOK
<1>2. Of(handled', Data) = Of(handled, Data)
  BY <1>1, OfAppended
<1>3. MessageInv'
  BY <1>2 DEF SocketInv, MessageInv
<1>4. MessagesIntact'
  BY <1>2 DEF SocketInv, MessagesIntact
<1> QED
  BY <1>3, <1>4

\* A ping that has been read is answered.
LEMMA PingAnswered ==
  ASSUME SocketInv, NEW f \in Incoming, f.op = Ping, handled' = Append(handled, f),
         NEW g \in Outgoing, g.op = Pong, g.payload = f.payload, submitted' = Append(submitted, g)
  PROVE  PingsAnswered'
<1> DEFINE pings == Of(handled, {Ping})
           pongs == Of(submitted, {Pong})
<1>1. handled \in Seq(Incoming) /\ submitted \in Seq(Outgoing)
  BY DEF SocketInv, SocketTypeOK
<1>2. Of(handled', {Ping}) = Append(pings, f) /\ Of(submitted', {Pong}) = Append(pongs, g)
  BY <1>1, OfAppended
<1>3. pings \in Seq(Incoming) /\ pongs \in Seq(Outgoing)
  BY <1>1, OfTyped
<1>4. Len(pongs) = Len(pings) /\ \A i \in DOMAIN pings : pongs[i].payload = pings[i].payload
  BY DEF SocketInv, PingsAnswered
<1> HIDE DEF pings, pongs
<1>5. /\ Len(Append(pongs, g)) = Len(Append(pings, f))
      /\ \A i \in DOMAIN Append(pings, f) : Append(pongs, g)[i].payload = Append(pings, f)[i].payload
  <2>1. /\ Len(Append(pings, f)) = Len(pings) + 1 /\ Len(pings) \in Nat
        /\ DOMAIN Append(pings, f) = 1 .. Len(pings) + 1 /\ Append(pings, f)[Len(pings) + 1] = f
        /\ \A i \in 1 .. Len(pings) : Append(pings, f)[i] = pings[i]
        /\ DOMAIN pings = 1 .. Len(pings)
    BY <1>3
  <2>2. /\ Len(Append(pongs, g)) = Len(pongs) + 1 /\ Append(pongs, g)[Len(pongs) + 1] = g
        /\ \A i \in 1 .. Len(pongs) : Append(pongs, g)[i] = pongs[i]
    BY <1>3
  <2> QED
    BY <1>4, <2>1, <2>2
<1> QED
  BY <1>2, <1>5 DEF PingsAnswered

-----------------------------------------------------------------------------
(* WebSocket: messages.                                                    *)

\* A message with one frame more, and those before it.
LEMMA WholeAppended ==
  ASSUME NEW data \in Seq(Incoming), NEW f \in Incoming, NEW b \in 1 .. Len(data) + 1
  PROVE  LET more == Append(data, f)
         IN  /\ Whole(more, b, Len(data) + 1) = Whole(data, b, Len(data)) \o f.payload
             /\ \A i \in b .. Len(data) : Whole(more, b, i) = Whole(data, b, i)
             /\ \A i \in b .. Len(data) + 1 : Begins(more, b, i) <=> Begins(data, b, i)
<1> DEFINE n == Len(data)
           more == Append(data, f)
           p == f.payload
           s == [k \in 1 .. n - b + 1 |-> data[b + k - 1].payload]
           t == [k \in 1 .. (n + 1) - b + 1 |-> more[b + k - 1].payload]
<1>1. /\ n \in Nat /\ more[n + 1] = f /\ \A i \in 1 .. n : more[i] = data[i]
      /\ p \in Seq(Bytes) /\ \A i \in 1 .. n : data[i].payload \in Seq(Bytes)
  <2>1. n \in Nat /\ more[n + 1] = f /\ \A i \in 1 .. n : more[i] = data[i]
    OBVIOUS
  <2>2. \A i \in 1 .. n : data[i] \in Incoming
    OBVIOUS
  <2>3. \A g \in Incoming : g.payload \in Seq(Bytes)
    BY DEF Incoming
  <2> QED
    BY <2>1, <2>2, <2>3
<1>2. b \in Nat /\ b >= 1 /\ b <= n + 1 /\ n - b + 1 \in Nat
  BY <1>1
<1> HIDE DEF more
<1>3. s \in Seq(Seq(Bytes)) /\ Len(s) = n - b + 1
  <2>1. \A k \in 1 .. n - b + 1 : data[b + k - 1].payload \in Seq(Bytes)
    <3> TAKE k \in 1 .. n - b + 1
    <3>1. b + k - 1 \in 1 .. n
      BY <1>1, <1>2
    <3> QED
      BY <1>1, <3>1
  <2>2. s \in [1 .. n - b + 1 -> Seq(Bytes)]
    BY <2>1
  <2> HIDE DEF s
  <2>3. s \in Seq(Seq(Bytes))
    BY <1>2, <2>2, SeqDef
  <2> QED
    BY <1>2, <2>2, <2>3
<1>4. t \in Seq(Seq(Bytes)) /\ Len(t) = Len(s) + 1
  <2>1. \A k \in 1 .. (n + 1) - b + 1 : more[b + k - 1].payload \in Seq(Bytes)
    <3> TAKE k \in 1 .. (n + 1) - b + 1
    <3>1. b + k - 1 \in 1 .. n \/ b + k - 1 = n + 1
      BY <1>1, <1>2
    <3> QED
      BY <1>1, <3>1
  <2>2. t \in [1 .. (n + 1) - b + 1 -> Seq(Bytes)]
    BY <2>1
  <2>3. (n + 1) - b + 1 \in Nat /\ (n + 1) - b + 1 = (n - b + 1) + 1
    BY <1>1, <1>2
  <2> HIDE DEF s, t
  <2>4. t \in Seq(Seq(Bytes)) /\ Len(t) = (n + 1) - b + 1
    <3>1. t \in Seq(Seq(Bytes))
      BY <2>2, <2>3, SeqDef
    <3> QED
      BY <2>2, <2>3, <3>1
  <2> QED
    BY <1>3, <2>3, <2>4
<1>5. t = Append(s, p)
  <2>0. more[n + 1].payload = p
    BY <1>1
  <2>1. ASSUME NEW k \in 1 .. Len(s) + 1
        PROVE  t[k] = Append(s, p)[k]
    <3>1. k \in 1 .. (n + 1) - b + 1 /\ t[k] = more[b + k - 1].payload
      <4>1. k \in 1 .. (n + 1) - b + 1
        BY <1>1, <1>2, <1>3
      <4> QED
        BY <4>1
    <3>2. CASE k \in 1 .. n - b + 1
      <4>1. b + k - 1 \in 1 .. n
        BY <1>1, <1>2, <3>2
      <4>2. s[k] = data[b + k - 1].payload
        BY <3>2
      <4> HIDE DEF s, t, p
      <4>3. Append(s, p)[k] = s[k]
        BY <1>1, <1>3, <3>2
      <4> QED
        BY <1>1, <3>1, <4>1, <4>2, <4>3
    <3>3. CASE k \notin 1 .. n - b + 1
      <4>1. k = (n - b + 1) + 1 /\ b + k - 1 = n + 1
        BY <1>1, <1>2, <1>3, <3>1, <3>3
      <4> HIDE DEF s, t, p
      <4>2. Append(s, p)[k] = p
        <5>1. s \in Seq(Seq(Bytes)) /\ p \in Seq(Bytes) /\ k = Len(s) + 1
          BY <1>1, <1>3, <4>1
        <5> QED
          BY <5>1
      <4> QED
        BY <2>0, <3>1, <4>1, <4>2
    <3> QED
      BY <3>2, <3>3
  <2> HIDE DEF s, t, p
  <2>2. Append(s, p) \in Seq(Seq(Bytes)) /\ Len(Append(s, p)) = Len(s) + 1
    <3>1. s \in Seq(Seq(Bytes)) /\ p \in Seq(Bytes)
      BY <1>1, <1>3
    <3> QED
      BY <3>1, AppendProperties
  <2> QED
    BY <1>4, <2>1, <2>2, SeqEqual
<1>6. Whole(more, b, n + 1) = FlattenSeq(t) /\ Whole(data, b, n) = FlattenSeq(s)
  BY DEF Whole
<1>7. Whole(more, b, n + 1) = Whole(data, b, n) \o p
  <2> HIDE DEF s, t, p
  <2>1. FlattenSeq(Append(s, p)) = FlattenSeq(s) \o p
    <3>1. s \in Seq(Seq(Bytes)) /\ p \in Seq(Bytes)
      BY <1>1, <1>3
    <3> QED
      BY <3>1, FlattenAppended
  <2> QED
    BY <1>5, <1>6, <2>1
<1>8. ASSUME NEW i \in b .. n PROVE Whole(more, b, i) = Whole(data, b, i)
  <2>1. \A k \in 1 .. i - b + 1 : more[b + k - 1].payload = data[b + k - 1].payload
    <3> TAKE k \in 1 .. i - b + 1
    <3>1. b + k - 1 \in 1 .. n
      BY <1>1, <1>2
    <3> QED
      BY <1>1, <3>1
  <2>2. [k \in 1 .. i - b + 1 |-> more[b + k - 1].payload] = [k \in 1 .. i - b + 1 |-> data[b + k - 1].payload]
    BY <2>1
  <2> QED
    BY <2>2 DEF Whole
<1>9. ASSUME NEW i \in b .. n + 1 PROVE Begins(more, b, i) <=> Begins(data, b, i)
  <2>1. b # 1 => more[b - 1] = data[b - 1]
    <3>1. b # 1 => b - 1 \in 1 .. n
      BY <1>1, <1>2
    <3> QED
      BY <1>1, <3>1
  <2>2. \A j \in b .. i - 1 : more[j] = data[j]
    <3>1. \A j \in b .. i - 1 : j \in 1 .. n
      BY <1>1, <1>2
    <3> QED
      BY <1>1, <3>1
  <2> QED
    BY <2>1, <2>2 DEF Begins
<1> QED
  BY <1>7, <1>8, <1>9 DEF more, p

\* Where the message a frame belongs to begins: with the frame unless it continues one.
LEMMA BeginsWith ==
  ASSUME NEW data \in Seq(Incoming), NEW b \in 1 .. Len(data) + 1, Begins(data, b, Len(data) + 1)
  PROVE  data # <<>> /\ ~Last(data).fin <=> b <= Len(data)
<1>1. Len(data) \in Nat /\ (data # <<>> <=> Len(data) >= 1)
  BY EmptySeq
<1>2. CASE b <= Len(data)
  <2>1. Len(data) \in b .. (Len(data) + 1) - 1
    BY <1>1, <1>2
  <2>2. ~data[Len(data)].fin
    BY <2>1 DEF Begins
  <2>3. data # <<>>
    BY <1>1, <1>2
  <2> QED
    BY <1>2, <2>2, <2>3 DEF Last
<1>3. CASE ~(b <= Len(data))
  <2>1. b = Len(data) + 1 /\ b - 1 = Len(data)
    BY <1>1, <1>3
  <2>2. b = 1 \/ data[b - 1].fin
    BY DEF Begins
  <2>3. data = <<>> \/ data[Len(data)].fin
    BY <1>1, <2>1, <2>2
  <2> QED
    BY <1>3, <2>3 DEF Last
<1> QED
  BY <1>2, <1>3

\* The numbers of the ends of messages.
LEMMA EndsCounted ==
  ASSUME NEW n \in Nat, NEW ends, ends \subseteq 1 .. n
  PROVE  /\ IsFiniteSet(ends) /\ Cardinality(ends) \in Nat
         /\ \A i \in ends : Cardinality({j \in ends : j <= i}) \in 1 .. Cardinality(ends)
         /\ Cardinality(ends \cup {n + 1}) = Cardinality(ends) + 1
<1>1. IsFiniteSet(ends) /\ Cardinality(ends) \in Nat
  <2>1. IsFiniteSet(1 .. n)
    BY FS_Interval
  <2>2. IsFiniteSet(ends)
    BY <2>1, FS_Subset
  <2> QED
    BY <2>2, FS_CardinalityType
<1>2. ASSUME NEW i \in ends
      PROVE  Cardinality({j \in ends : j <= i}) \in 1 .. Cardinality(ends)
  <2> DEFINE upto == {j \in ends : j <= i}
  <2>1. upto \subseteq ends /\ i \in upto
    OBVIOUS
  <2> HIDE DEF upto
  <2>2. IsFiniteSet(upto) /\ Cardinality(upto) \in Nat /\ Cardinality(upto) <= Cardinality(ends)
    <3>1. IsFiniteSet(upto) /\ Cardinality(upto) <= Cardinality(ends)
      BY <1>1, <2>1, FS_Subset
    <3> QED
      BY <3>1, FS_CardinalityType
  <2>3. Cardinality(upto) # 0
    BY <2>1, <2>2, FS_EmptySet
  <2>4. Cardinality(upto) \in 1 .. Cardinality(ends)
    BY <1>1, <2>2, <2>3
  <2> QED
    BY <2>4 DEF upto
<1>3. Cardinality(ends \cup {n + 1}) = Cardinality(ends) + 1
  <2>1. n + 1 \notin ends
    OBVIOUS
  <2> QED
    BY <1>1, <2>1, FS_AddElement
<1> QED
  BY <1>1, <1>2, <1>3

\* A frame with data continues the message that has been begun or begins one,
\* and the last frame of a message delivers it.
LEMMA DataHandled ==
  ASSUME SocketInv, HandleData
  PROVE  MessageInv' /\ MessagesIntact'
<1> DEFINE f == Head(incoming)
           message == ws.message \o Payload
           binary == IF ws.op = Continuation THEN ws.binary ELSE ws.op = Binary
           data == Of(handled, Data)
           more == Append(data, f)
           n == Len(data)
           ends == {i \in DOMAIN data : data[i].fin}
           w == [ws EXCEPT !.message = Rest(message, ws.fin), !.binary = binary]
<1>1. /\ LastPiece /\ ws.op \in Data /\ ws' = NextFrame(w)
      /\ delivered' = IF ws.fin THEN Append(delivered, [text |-> message, binary |-> binary]) ELSE delivered
  BY DEF HandleData
<1>2. /\ f \in Incoming /\ f.payload \in Seq(Bytes) /\ Payload = f.payload
      /\ ws.op = f.op /\ ws.fin = f.fin /\ handled' = Append(handled, f)
      /\ f.op \in Data => (f.op = Continuation <=> Begun(handled))
  BY <1>1, LastPieceEffect
<1>3. /\ ws \in Connections /\ handled \in Seq(Incoming)
      /\ delivered \in Seq([text : Seq(Bytes), binary : BOOLEAN])
  BY DEF SocketInv, SocketTypeOK
<1>4. ws.message \in Seq(Bytes) /\ ws.binary \in BOOLEAN /\ f.fin \in BOOLEAN
  BY <1>2, <1>3 DEF Connections, Incoming
<1>5. message \in Seq(Bytes) /\ Rest(message, ws.fin) \in Seq(Bytes) /\ binary \in BOOLEAN
  <2> HIDE DEF f
  <2>1. Payload \in Seq(Bytes)
    BY <1>2
  <2>2. message \in Seq(Bytes)
    BY <1>4, <2>1, ConcatProperties
  <2>3. <<>> \in Seq(Bytes)
    OBVIOUS
  <2>4. binary \in BOOLEAN
    BY <1>4
  <2> HIDE DEF message
  <2> QED
    BY <2>2, <2>3, <2>4 DEF Rest
<1>6. ws'.message = Rest(message, f.fin) /\ ws'.binary = binary
  <2> HIDE DEF message, binary
  <2>1. w \in Connections /\ w.message = Rest(message, ws.fin) /\ w.binary = binary
    BY <1>3, <1>5 DEF Connections
  <2> HIDE DEF w
  <2>2. ws'.message = w.message /\ ws'.binary = w.binary
    BY <1>1, <2>1, NextFrameEffect DEF SameReading
  <2> QED
    BY <1>2, <2>1, <2>2
<1>7. Of(handled', Data) = more
  BY <1>1, <1>2, <1>3, OfAppended
<1>8. data \in Seq(Incoming)
  BY <1>3, OfTyped
<1>9. PICK b \in 1 .. n + 1 :
         /\ Begins(data, b, n + 1)
         /\ ws.message = Whole(data, b, n)
         /\ b <= n => ws.binary = (data[b].op = Binary)
  BY DEF SocketInv, MessageInv
<1>10. /\ Len(delivered) = Cardinality(ends)
       /\ \A i \in ends : \E c \in 1 .. i :
             /\ Begins(data, c, i)
             /\ delivered[Cardinality({j \in ends : j <= i})] =
                    [text |-> Whole(data, c, i), binary |-> data[c].op = Binary]
  BY DEF SocketInv, MessagesIntact
<1>11. f.op = Continuation <=> b <= n
  <2>1. f.op = Continuation <=> Begun(handled)
    BY <1>1, <1>2
  <2>2. Begun(handled) <=> data # <<>> /\ ~Last(data).fin
    BY DEF Begun
  <2> HIDE DEF data, f
  <2> QED
    BY <1>8, <1>9, <2>1, <2>2, BeginsWith
<1>12. f.op = ws.op
  BY <1>2
<1>20. Payload = f.payload /\ f.fin = ws.fin
  BY <1>2
<1> HIDE DEF f, data
<1>13. /\ n \in Nat /\ more \in Seq(Incoming) /\ Len(more) = n + 1 /\ DOMAIN more = 1 .. n + 1
       /\ more[n + 1] = f /\ \A i \in 1 .. n : more[i] = data[i]
       /\ DOMAIN data = 1 .. n
  BY <1>2, <1>8
<1>14. /\ Whole(more, b, n + 1) = Whole(data, b, n) \o f.payload
       /\ \A i \in b .. n + 1 : Begins(more, b, i) <=> Begins(data, b, i)
  BY <1>2, <1>8, <1>9, WholeAppended
<1>15. binary = (more[b].op = Binary)
  <2>1. CASE b <= n
    <3>1. more[b] = data[b]
      BY <1>9, <1>13, <2>1
    <3> QED
      BY <1>9, <1>11, <1>12, <2>1, <3>1
  <2>2. CASE ~(b <= n)
    <3>1. b = n + 1
      BY <1>9, <1>13, <2>2
    <3>2. more[b] = f
      BY <1>13, <3>1
    <3> QED
      BY <1>11, <1>12, <2>2, <3>2
  <2> QED
    BY <2>1, <2>2
<1>16. message = Whole(more, b, n + 1)
  BY <1>9, <1>14, <1>20
<1>17. Begins(more, b, n + 1)
  <2>1. n + 1 \in b .. n + 1
    BY <1>9, <1>13
  <2> QED
    BY <1>9, <1>14, <2>1
<1> HIDE DEF more, message, binary
<1>18. MessageInv'
  <2>1. CASE f.fin
    <3> DEFINE c == n + 2
    <3>1. c \in 1 .. Len(more) + 1 /\ c - 1 = n + 1 /\ c = Len(more) + 1
      BY <1>13
    <3>2. Begins(more, c, Len(more) + 1)
      <4>1. \A j \in c .. (Len(more) + 1) - 1 : FALSE
        BY <1>13
      <4>2. more[c - 1].fin
        BY <1>13, <2>1, <3>1
      <4> QED
        BY <4>1, <4>2 DEF Begins
    <3>3. ws'.message = Whole(more, c, Len(more))
      <4>1. ws'.message = <<>>
        BY <1>6, <2>1 DEF Rest
      <4>2. [k \in 1 .. Len(more) - c + 1 |-> more[c + k - 1].payload] = <<>>
        <5> DEFINE e == [k \in 1 .. Len(more) - c + 1 |-> more[c + k - 1].payload]
        <5>1. Len(more) - c + 1 = 0
          BY <1>13
        <5>2. e \in [1 .. 0 -> Seq(Bytes)]
          BY <5>1
        <5> HIDE DEF e
        <5>3. e \in Seq(Seq(Bytes))
          BY <5>2, SeqDef
        <5>4. Len(e) = 0
          BY <5>2
        <5>5. e = <<>>
          BY <5>3, <5>4, EmptySeq
        <5> QED
          BY <5>5 DEF e
      <4>3. FlattenSeq(<<>>) = <<>>
        <5>1. <<>> \in Seq(Seq({}))
          OBVIOUS
        <5>2. <<>> \in Seq({})
          OBVIOUS
        <5> QED
          BY <5>1, <5>2, FlattenAppended
      <4> QED
        BY <4>1, <4>2, <4>3 DEF Whole
    <3>4. ~(c <= Len(more))
      BY <1>13
    <3> HIDE DEF c
    <3> QED
      BY <1>7, <3>1, <3>2, <3>3, <3>4 DEF MessageInv
  <2>2. CASE ~f.fin
    <3>1. b \in 1 .. Len(more) + 1
      BY <1>9, <1>13
    <3>2. Begins(more, b, Len(more) + 1)
      <4>1. \A j \in b .. n : ~more[j].fin
        <5>1. \A j \in b .. (n + 1) - 1 : ~more[j].fin
          BY <1>17 DEF Begins
        <5>2. (n + 1) - 1 = n
          BY <1>13
        <5> QED
          BY <5>1, <5>2
      <4>2. \A j \in b .. (Len(more) + 1) - 1 : ~more[j].fin
        <5> TAKE j \in b .. (Len(more) + 1) - 1
        <5>1. j \in b .. n \/ j = n + 1
          BY <1>9, <1>13
        <5> QED
          BY <1>13, <2>2, <4>1, <5>1
      <4> QED
        BY <1>17, <4>2 DEF Begins
    <3>3. ws'.message = Whole(more, b, Len(more))
      BY <1>6, <1>13, <1>16, <2>2 DEF Rest
    <3>4. ws'.binary = (more[b].op = Binary)
      BY <1>6, <1>15
    <3> QED
      BY <1>7, <3>1, <3>2, <3>3, <3>4 DEF MessageInv
  <2> QED
    BY <2>1, <2>2
<1> DEFINE moreEnds == {i \in DOMAIN more : more[i].fin}
<1>19. moreEnds = IF f.fin THEN ends \cup {n + 1} ELSE ends
  <2>1. \A i \in 1 .. n + 1 : i \in 1 .. n \/ i = n + 1
    BY <1>13
  <2>2. n + 1 \in 1 .. n + 1 /\ \A i \in 1 .. n : i \in 1 .. n + 1
    BY <1>13
  <2> HIDE DEF n
  <2> QED
    BY <1>13, <2>1, <2>2
<1>21. ends \subseteq 1 .. n
  BY <1>13
<1>22. /\ Cardinality(ends) \in Nat
       /\ \A i \in ends : Cardinality({j \in ends : j <= i}) \in 1 .. Cardinality(ends)
       /\ Cardinality(ends \cup {n + 1}) = Cardinality(ends) + 1
  <2> HIDE DEF ends, n
  <2> QED
    BY <1>13, <1>21, EndsCounted
<1>23. ASSUME NEW i \in ends
       PROVE  \E c \in 1 .. i :
                 /\ Begins(more, c, i)
                 /\ delivered'[Cardinality({j \in moreEnds : j <= i})] =
                        [text |-> Whole(more, c, i), binary |-> more[c].op = Binary]
  <2>1. i \in 1 .. n
    BY <1>21
  <2>2. PICK c \in 1 .. i :
             /\ Begins(data, c, i)
             /\ delivered[Cardinality({j \in ends : j <= i})] =
                    [text |-> Whole(data, c, i), binary |-> data[c].op = Binary]
    BY <1>10
  <2>3. c \in 1 .. n + 1 /\ c \in 1 .. n /\ i \in c .. n /\ i \in c .. n + 1
    BY <1>13, <2>1
  <2>4. Whole(more, c, i) = Whole(data, c, i) /\ Begins(more, c, i)
    BY <1>2, <1>8, <2>2, <2>3, WholeAppended DEF more
  <2>5. more[c] = data[c]
    BY <1>13, <2>3
  <2>6. {j \in moreEnds : j <= i} = {j \in ends : j <= i}
    <3>1. ~(n + 1 <= i)
      BY <1>13, <2>1
    <3> HIDE DEF ends, moreEnds
    <3> QED
      BY <1>19, <3>1
  <2> DEFINE m == Cardinality({j \in ends : j <= i})
  <2>7. m \in 1 .. Len(delivered)
    BY <1>10, <1>22
  <2> HIDE DEF m
  <2>8. delivered'[m] = delivered[m]
    BY <1>1, <1>3, <2>7 DEF message, binary
  <2> QED
    BY <2>2, <2>4, <2>5, <2>6, <2>8 DEF m
<1>24. CASE f.fin
  <2> DEFINE d == [text |-> message, binary |-> binary]
  <2>1. delivered' = Append(delivered, d) /\ d \in [text : Seq(Bytes), binary : BOOLEAN]
    BY <1>1, <1>5, <1>20, <1>24
  <2>2. d = [text |-> Whole(more, b, n + 1), binary |-> more[b].op = Binary]
    BY <1>15, <1>16
  <2> HIDE DEF d
  <2>3. Len(delivered') = Len(delivered) + 1 /\ delivered'[Len(delivered) + 1] = d
    BY <1>3, <2>1
  <2>4. moreEnds = ends \cup {n + 1}
    BY <1>19, <1>24
  <2> HIDE DEF moreEnds, ends
  <2>5. Len(delivered') = Cardinality(moreEnds)
    BY <1>10, <1>22, <2>3, <2>4
  <2>6. \E c \in 1 .. n + 1 :
           /\ Begins(more, c, n + 1)
           /\ delivered'[Cardinality({j \in moreEnds : j <= n + 1})] =
                  [text |-> Whole(more, c, n + 1), binary |-> more[c].op = Binary]
    <3>1. {j \in moreEnds : j <= n + 1} = moreEnds
      <4>1. \A j \in ends : j \in 1 .. n
        BY <1>21
      <4>2. \A j \in moreEnds : j \in ends \/ j = n + 1
        BY <2>4
      <4>3. \A j \in moreEnds : j <= n + 1
        BY <1>13, <4>1, <4>2
      <4> QED
        BY <4>3
    <3>2. Cardinality(moreEnds) = Len(delivered) + 1
      BY <2>3, <2>5
    <3> QED
      BY <1>9, <1>17, <2>2, <2>3, <3>1, <3>2
  <2>7. MessagesIntact'
    <3>1. \A i \in moreEnds : i \in ends \/ i = n + 1
      BY <2>4
    <3> QED
      BY <1>7, <1>23, <2>5, <2>6, <3>1 DEF MessagesIntact, moreEnds
  <2> QED
    BY <1>18, <2>7
<1>25. CASE ~f.fin
  <2>1. delivered' = delivered /\ moreEnds = ends
    BY <1>1, <1>19, <1>20, <1>25
  <2>2. MessagesIntact'
    BY <1>7, <1>10, <1>23, <2>1 DEF MessagesIntact
  <2> QED
    BY <1>18, <2>2
<1> QED
  BY <1>24, <1>25

-----------------------------------------------------------------------------
(* WebSocket: the actions keep the invariant.                              *)

\* Steps that read a header, or a piece of a payload that is not its last one.
LEMMA HeaderKept ==
  ASSUME SocketInv, UNCHANGED <<incoming, peer, handled, sent, submitted, delivered, closes>>,
         ws' \in Connections, ws'.sending = ws.sending, ws'.queue = ws.queue,
         ws'.message = ws.message, ws'.binary = ws.binary, SameClosing(ws', ws),
         ws.life = "open", FrameInv'
  PROVE  SocketInv'
<1>1. SocketTypeOK'
  BY DEF SocketInv, SocketTypeOK
<1>2. CloseInv'
  BY DEF SocketInv, CloseInv, SameClosing
<1>3. SendInv'
  BY SendKept DEF SameClosing
<1>4. PingsAnswered'
  BY PingsKept
<1>5. StreamInv'
  BY DEF SocketInv, StreamInv
<1>6. MessageInv'
  BY DEF SocketInv, MessageInv
<1>7. MessagesIntact'
  BY DEF SocketInv, MessagesIntact
<1> QED
  BY <1>1, <1>2, <1>3, <1>4, <1>5, <1>6, <1>7 DEF SocketInv

\* Up to its payload nothing of a frame but its header has been read.
LEMMA HeaderRead ==
  ASSUME SocketTypeOK, incoming # <<>>, incoming' = incoming, ws'.life = "open",
         ws'.op = Head(incoming).op, ws'.fin = Head(incoming).fin,
         ws'.masked = Head(incoming).masked, ws'.state # "MiniHeader", ws'.fragment = <<>>,
         ws'.state \in {"Mask", "Payload"} => ws'.remaining = Len(Head(incoming).payload)
  PROVE  FrameInv'
<1> DEFINE f == Head(incoming)
<1>1. Len(f.payload) \in Nat
  BY FrameType
<1>2. ASSUME ws'.state = "Payload"
      PROVE  Len(f.payload) - ws'.remaining >= 0
             /\ ws'.fragment = [i \in 1 .. Len(f.payload) - ws'.remaining |-> Coded(f, i)]
  <2>1. Len(f.payload) - ws'.remaining = 0
    BY <1>1, <1>2
  <2>2. [i \in 1 .. 0 |-> Coded(f, i)] = <<>>
    <3> DEFINE e == [i \in 1 .. 0 |-> Coded(f, i)]
    <3>1. e \in [1 .. 0 -> Seq({})]
      OBVIOUS
    <3> HIDE DEF e
    <3>2. e \in Seq(Seq({}))
      BY <3>1, SeqDef
    <3>3. Len(e) = 0
      BY <3>1
    <3>4. e = <<>>
      BY <3>2, <3>3, EmptySeq
    <3> QED
      BY <3>4 DEF e
  <2> QED
    BY <2>1, <2>2
<1> QED
  BY <1>2 DEF FrameInv

LEMMA ReadMiniHeaderKeeps ==
  ASSUME SocketInv, ReadMiniHeader
  PROVE  SocketInv'
<1> DEFINE f == Head(incoming)
           remaining == IF f.bits = 7 THEN Len(f.payload) ELSE ws.remaining
           state == IF f.bits = 7 THEN "Mask" ELSE "Length"
           w == [ws EXCEPT !.masked = f.masked, !.op = f.op, !.fin = f.fin,
                           !.remaining = remaining, !.state = state]
<1>1. /\ ws.life = "open" /\ ws.state = "MiniHeader" /\ incoming # <<>> /\ ws' = DoRead(w)
      /\ UNCHANGED <<incoming, peer, handled, sent, submitted, delivered, closes>>
  BY DEF ReadMiniHeader, Reading, Input
<1>2. ws \in Connections /\ f \in Incoming /\ Len(f.payload) \in Nat
  BY <1>1, FrameType DEF SocketInv, SocketTypeOK
<1>3. ws.fragment = <<>>
  BY <1>1 DEF SocketInv, FrameInv
<1> HIDE DEF f
<1>4. /\ f.masked \in BOOLEAN /\ f.op \in Opcodes /\ f.fin \in BOOLEAN /\ remaining \in Nat
      /\ state \in {"Mask", "Length"} /\ (state = "Mask" => remaining = Len(f.payload))
  BY <1>2 DEF Incoming, Connections
<1> HIDE DEF remaining, state
<1>5. /\ w \in Connections /\ w.masked = f.masked /\ w.op = f.op /\ w.fin = f.fin
      /\ w.remaining = remaining /\ w.state = state /\ w.fragment = <<>>
      /\ w.sending = ws.sending /\ w.queue = ws.queue /\ w.message = ws.message
      /\ w.binary = ws.binary /\ SameClosing(w, ws)
  BY <1>2, <1>3, <1>4 DEF Connections, SameClosing
<1> HIDE DEF w
<1>6. /\ DoRead(w) \in Connections /\ DoRead(w).sending = w.sending /\ DoRead(w).queue = w.queue
      /\ SameReading(DoRead(w), w) /\ SameClosing(DoRead(w), w) /\ DoRead(w).fragment = w.fragment
      /\ DoRead(w).state = (IF w.state = "Mask" /\ ~w.masked THEN "Payload" ELSE w.state)
  BY <1>5, DoReadEffect
<1>7. FrameInv'
  <2>1. /\ incoming' = incoming /\ ws'.fragment = <<>> /\ ws'.op = f.op /\ ws'.fin = f.fin
        /\ ws'.masked = f.masked /\ ws'.remaining = remaining /\ ws'.life = "open"
        /\ ws'.state = (IF state = "Mask" /\ ~f.masked THEN "Payload" ELSE state)
    BY <1>1, <1>5, <1>6 DEF SameReading, SameClosing
  <2>2. ws'.state \in {"Mask", "Payload"} => ws'.remaining = Len(f.payload)
    BY <1>4, <2>1
  <2>3. ws'.state # "MiniHeader"
    BY <1>4, <2>1
  <2> QED
    BY <1>1, <2>1, <2>2, <2>3, HeaderRead DEF f, SocketInv
<1> QED
  BY <1>1, <1>5, <1>6, <1>7, HeaderKept DEF SameReading, SameClosing

LEMMA ReadHalfHeaderKeeps ==
  ASSUME SocketInv, ReadHalfHeader
  PROVE  SocketInv'
<1> DEFINE w == [ws EXCEPT !.life = "misread"]
<1>1. /\ ws' = w /\ ws.life = "open"
      /\ UNCHANGED <<incoming, peer, handled, sent, submitted, delivered, closes>>
  BY DEF ReadHalfHeader, Reading
<1>2. /\ w \in Connections /\ w.life = "misread" /\ w.sending = ws.sending /\ w.queue = ws.queue
      /\ w.message = ws.message /\ w.binary = ws.binary /\ w.socket = ws.socket
      /\ w.closeCalled = ws.closeCalled
  BY DEF SocketInv, SocketTypeOK, Connections
<1> HIDE DEF w
<1>3. SocketTypeOK'
  BY <1>1, <1>2 DEF SocketInv, SocketTypeOK
<1>4. CloseInv'
  BY <1>1, <1>2 DEF SocketInv, CloseInv
<1>5. SendInv'
  BY <1>1, <1>2, SendKept
<1>6. FrameInv'
  BY <1>1, <1>2 DEF FrameInv
<1>7. PingsAnswered'
  BY <1>1, PingsKept
<1>8. StreamInv'
  BY <1>1 DEF SocketInv, StreamInv
<1>9. MessageInv'
  BY <1>1, <1>2 DEF SocketInv, MessageInv
<1>10. MessagesIntact'
  BY <1>1 DEF SocketInv, MessagesIntact
<1> QED
  BY <1>3, <1>4, <1>5, <1>6, <1>7, <1>8, <1>9, <1>10 DEF SocketInv

LEMMA ReadLengthKeeps ==
  ASSUME SocketInv, ReadLength
  PROVE  SocketInv'
<1> DEFINE f == Head(incoming)
           n == Len(f.payload)
           w == [ws EXCEPT !.remaining = n, !.state = "Mask"]
<1>1. /\ ws.life = "open" /\ ws.state = "Length" /\ incoming # <<>> /\ ws' = DoRead(w)
      /\ UNCHANGED <<incoming, peer, handled, sent, submitted, delivered, closes>>
  BY DEF ReadLength, Reading, Input
<1>2. ws \in Connections /\ n \in Nat
  BY <1>1, FrameType DEF SocketInv, SocketTypeOK
<1>3. /\ ws.fragment = <<>> /\ ws.op = f.op /\ ws.fin = f.fin /\ ws.masked = f.masked
  BY <1>1 DEF SocketInv, FrameInv
<1> HIDE DEF f, n
<1>4. /\ w \in Connections /\ w.masked = ws.masked /\ w.op = ws.op /\ w.fin = ws.fin
      /\ w.remaining = n /\ w.state = "Mask" /\ w.fragment = ws.fragment
      /\ w.sending = ws.sending /\ w.queue = ws.queue /\ w.message = ws.message
      /\ w.binary = ws.binary /\ SameClosing(w, ws)
  BY <1>2 DEF Connections, SameClosing
<1> HIDE DEF w
<1>5. /\ DoRead(w) \in Connections /\ DoRead(w).sending = w.sending /\ DoRead(w).queue = w.queue
      /\ SameReading(DoRead(w), w) /\ SameClosing(DoRead(w), w) /\ DoRead(w).fragment = w.fragment
      /\ DoRead(w).state \in {"Mask", "Payload"}
  BY <1>4, DoReadEffect
<1>6. FrameInv'
  <2>1. /\ ws'.fragment = <<>> /\ ws'.op = f.op /\ ws'.fin = f.fin /\ ws'.masked = f.masked
        /\ ws'.remaining = Len(f.payload) /\ ws'.life = "open" /\ ws'.state # "MiniHeader"
    BY <1>1, <1>3, <1>4, <1>5 DEF SameReading, SameClosing, n
  <2> QED
    BY <1>1, <2>1, HeaderRead DEF f, SocketInv
<1> QED
  BY <1>1, <1>4, <1>5, <1>6, HeaderKept DEF SameReading, SameClosing

LEMMA ReadMaskKeeps ==
  ASSUME SocketInv, ReadMask
  PROVE  SocketInv'
<1> DEFINE f == Head(incoming)
           w == [ws EXCEPT !.state = "Payload"]
<1>1. /\ ws.life = "open" /\ ws.state = "Mask" /\ incoming # <<>> /\ ws' = DoRead(w)
      /\ UNCHANGED <<incoming, peer, handled, sent, submitted, delivered, closes>>
  BY DEF ReadMask, Reading, Input
<1>2. ws \in Connections
  BY DEF SocketInv, SocketTypeOK
<1>3. /\ ws.fragment = <<>> /\ ws.op = f.op /\ ws.fin = f.fin /\ ws.masked = f.masked
      /\ ws.remaining = Len(f.payload)
  BY <1>1 DEF SocketInv, FrameInv
<1>4. /\ w \in Connections /\ SameReading(w, ws) /\ w.state = "Payload" /\ w.fragment = ws.fragment
      /\ w.sending = ws.sending /\ w.queue = ws.queue /\ SameClosing(w, ws)
  BY <1>2 DEF Connections, SameReading, SameClosing
<1> HIDE DEF f, w
<1>5. /\ DoRead(w) \in Connections /\ DoRead(w).sending = w.sending /\ DoRead(w).queue = w.queue
      /\ SameReading(DoRead(w), w) /\ SameClosing(DoRead(w), w) /\ DoRead(w).fragment = w.fragment
      /\ DoRead(w).state = "Payload"
  BY <1>4, DoReadEffect
<1>6. FrameInv'
  <2>1. /\ ws'.fragment = <<>> /\ ws'.op = f.op /\ ws'.fin = f.fin /\ ws'.masked = f.masked
        /\ ws'.remaining = Len(f.payload) /\ ws'.life = "open" /\ ws'.state # "MiniHeader"
    BY <1>1, <1>3, <1>4, <1>5 DEF SameReading, SameClosing
  <2> QED
    BY <1>1, <2>1, HeaderRead DEF f, SocketInv
<1> QED
  BY <1>1, <1>4, <1>5, <1>6, HeaderKept DEF SameReading, SameClosing

LEMMA ReadPieceKeeps ==
  ASSUME SocketInv, ReadPiece
  PROVE  SocketInv'
<1> PICK n \in Pieces :
       /\ n < ws.remaining
       /\ ws' = [ws EXCEPT !.fragment = @ \o Piece(n), !.remaining = @ - n]
  BY DEF ReadPiece
<1> DEFINE f == Head(incoming)
           read == Len(f.payload) - ws.remaining
           fragment == ws.fragment \o Piece(n)
<1>1. /\ Reading("Payload") /\ Input /\ ws.life = "open" /\ ws.state = "Payload" /\ incoming # <<>>
      /\ UNCHANGED <<incoming, peer, handled, sent, submitted, delivered, closes>>
  BY DEF ReadPiece, Reading, Input
<1>2. SocketTypeOK /\ FrameInv /\ ws \in Connections /\ ws.remaining \in Nat
  BY DEF SocketInv, SocketTypeOK, Connections
<1>3. n \in Nat /\ n \in 0 .. ws.remaining /\ ws.remaining - n \in Nat
  <2>1. n \in Nat
    BY <1>2, BufferPositive DEF Pieces
  <2> QED
    BY <1>2, <2>1
<1>4. /\ read \in Nat /\ fragment = [i \in 1 .. read + n |-> Coded(f, i)]
      /\ fragment \in Seq(Bytes \X (-1 .. 3))
  BY <1>1, <1>2, <1>3, PieceRead
<1>5. ws.op = f.op /\ ws.fin = f.fin /\ ws.masked = f.masked
  BY <1>1, <1>2 DEF FrameInv
<1>6. Len(f.payload) \in Nat
  BY <1>1, <1>2, FrameType
<1> HIDE DEF f, fragment
<1>7. ws' = [ws EXCEPT !.fragment = fragment, !.remaining = ws.remaining - n]
  BY <1>2 DEF fragment, Connections
<1>8. /\ ws' \in Connections /\ ws'.sending = ws.sending /\ ws'.queue = ws.queue
      /\ ws'.message = ws.message /\ ws'.binary = ws.binary /\ SameClosing(ws', ws)
      /\ ws'.fragment = fragment /\ ws'.remaining = ws.remaining - n /\ ws'.state = ws.state
      /\ ws'.op = ws.op /\ ws'.fin = ws.fin /\ ws'.masked = ws.masked /\ ws'.life = ws.life
  BY <1>2, <1>3, <1>4, <1>7 DEF Connections, SameClosing
<1>9. FrameInv'
  <2>1. Len(f.payload) - ws'.remaining = read + n /\ read + n >= 0
    <3>1. ws'.remaining = ws.remaining - n
      BY <1>8
    <3>2. read = Len(f.payload) - ws.remaining
      BY DEF f
    <3> HIDE DEF read
    <3>3. ws.remaining \in Nat /\ n \in Nat /\ read \in Nat /\ Len(f.payload) \in Nat
      BY <1>2, <1>3, <1>4, <1>6
    <3> QED
      BY <3>1, <3>2, <3>3
  <2>2. ws'.fragment = [i \in 1 .. Len(f.payload) - ws'.remaining |-> Coded(f, i)]
    BY <1>4, <1>8, <2>1
  <2> QED
    BY <1>1, <1>5, <1>8, <2>1, <2>2 DEF FrameInv, f
<1> QED
  BY <1>1, <1>8, <1>9, HeaderKept

LEMMA HandleDataKeeps ==
  ASSUME SocketInv, HandleData
  PROVE  SocketInv'
<1> DEFINE message == ws.message \o Payload
           binary == IF ws.op = Continuation THEN ws.binary ELSE ws.op = Binary
           rest == Rest(message, ws.fin)
           w == [ws EXCEPT !.message = rest, !.binary = binary]
           f == Head(incoming)
           d == [text |-> message, binary |-> binary]
<1>1. /\ LastPiece /\ ws.op \in Data /\ ws' = NextFrame(w)
      /\ delivered' = IF ws.fin THEN Append(delivered, d) ELSE delivered
      /\ UNCHANGED <<peer, sent, submitted, closes>>
  BY DEF HandleData, LastPiece
<1>2. /\ f \in Incoming /\ f.payload \in Seq(Bytes) /\ Payload = f.payload /\ ws.op = f.op
      /\ handled' = Append(handled, f) /\ handled' \in Seq(Incoming)
      /\ incoming' \in Seq(Incoming) /\ StreamInv' /\ ws.life = "open"
  BY <1>1, LastPieceEffect
<1>3. ws \in Connections /\ delivered \in Seq([text : Seq(Bytes), binary : BOOLEAN])
  BY DEF SocketInv, SocketTypeOK
<1>4. ws.message \in Seq(Bytes) /\ ws.binary \in BOOLEAN
  BY <1>3 DEF Connections
<1> HIDE DEF f
<1>5. message \in Seq(Bytes) /\ binary \in BOOLEAN
  BY <1>2, <1>4, ConcatProperties
<1> HIDE DEF message, binary
<1>6. rest \in Seq(Bytes)
  BY <1>5 DEF Rest
<1> HIDE DEF rest
<1>7. /\ w \in Connections /\ w.sending = ws.sending /\ w.queue = ws.queue /\ SameClosing(w, ws)
  BY <1>3, <1>5, <1>6 DEF Connections, SameClosing
<1> HIDE DEF w
<1>8. /\ ws' \in Connections /\ ws'.sending = ws.sending /\ ws'.queue = ws.queue
      /\ SameClosing(ws', w) /\ ws'.state = "MiniHeader" /\ ws'.fragment = <<>>
  BY <1>1, <1>7, NextFrameEffect
<1>9. /\ ws'.life = "open" /\ ws'.socket = ws.socket /\ ws'.closeCalled = ws.closeCalled
  BY <1>2, <1>7, <1>8 DEF SameClosing
<1>10. SocketTypeOK'
  <2>1. delivered' \in Seq([text : Seq(Bytes), binary : BOOLEAN])
    <3>1. d \in [text : Seq(Bytes), binary : BOOLEAN]
      BY <1>5
    <3> HIDE DEF d
    <3>2. Append(delivered, d) \in Seq([text : Seq(Bytes), binary : BOOLEAN])
      BY <1>3, <3>1, AppendProperties
    <3> QED
      BY <1>1, <1>3, <3>2
  <2> QED
    BY <1>1, <1>2, <1>8, <2>1 DEF SocketInv, SocketTypeOK
<1>11. CloseInv'
  BY <1>1, <1>2, <1>9 DEF SocketInv, CloseInv
<1>12. SendInv'
  BY <1>1, <1>8, <1>9, SendKept
<1>13. FrameInv'
  BY <1>8, <1>9, NextFrameRead
<1>14. PingsAnswered'
  <2>1. f.op # Ping
    BY <1>1, <1>2 DEF Data, Ping, Text, Binary, Continuation
  <2> QED
    BY <1>1, <1>2, <2>1, PingsKept
<1>15. MessageInv' /\ MessagesIntact'
  BY DataHandled
<1> QED
  BY <1>2, <1>10, <1>11, <1>12, <1>13, <1>14, <1>15 DEF SocketInv

LEMMA HandlePingKeeps ==
  ASSUME SocketInv, HandlePing
  PROVE  SocketInv'
<1> DEFINE f == Head(incoming)
           g == Message(Pong, Payload)
           w == Send(ws, g)
<1>1. /\ LastPiece /\ ws.op = Ping /\ ws' = NextFrame(w) /\ submitted' = Append(submitted, g)
      /\ UNCHANGED <<peer, sent, delivered, closes>>
  BY DEF HandlePing, LastPiece
<1>2. /\ f \in Incoming /\ f.payload \in Seq(Bytes) /\ Payload = f.payload /\ ws.op = f.op
      /\ handled' = Append(handled, f) /\ handled' \in Seq(Incoming)
      /\ incoming' \in Seq(Incoming) /\ StreamInv' /\ ws.life = "open"
  BY <1>1, LastPieceEffect
<1>3. ws \in Connections /\ submitted \in Seq(Outgoing)
  BY DEF SocketInv, SocketTypeOK
<1> HIDE DEF f
<1>4. g \in Outgoing /\ g.op = Pong /\ g.payload = f.payload
  <2>1. Payload \in Seq(Bytes \cup {"t"})
    BY <1>2
  <2> QED
    BY <1>2, <2>1, MessageType DEF Opcodes
<1> HIDE DEF g
<1>5. /\ w \in Connections /\ w.sending \o w.queue = Append(ws.sending \o ws.queue, g)
      /\ SameReading(w, ws) /\ SameClosing(w, ws)
  BY <1>3, <1>4, SendEffect
<1> HIDE DEF w
<1>6. /\ ws' \in Connections /\ ws'.sending = w.sending /\ ws'.queue = w.queue
      /\ SameReading(ws', w) /\ SameClosing(ws', w) /\ ws'.state = "MiniHeader" /\ ws'.fragment = <<>>
  BY <1>1, <1>5, NextFrameEffect
<1>7. /\ ws'.life = "open" /\ ws'.socket = ws.socket /\ ws'.closeCalled = ws.closeCalled
      /\ ws'.message = ws.message /\ ws'.binary = ws.binary
      /\ ws'.sending \o ws'.queue = Append(ws.sending \o ws.queue, g)
  BY <1>2, <1>5, <1>6 DEF SameClosing, SameReading
<1>8. SocketTypeOK'
  <2>1. submitted' \in Seq(Outgoing)
    BY <1>1, <1>3, <1>4, AppendProperties
  <2> QED
    BY <1>1, <1>2, <1>6, <2>1 DEF SocketInv, SocketTypeOK
<1>9. CloseInv'
  BY <1>1, <1>2, <1>7 DEF SocketInv, CloseInv
<1>10. SendInv'
  BY <1>1, <1>4, <1>7, Submitted
<1>11. FrameInv'
  BY <1>6, <1>7, NextFrameRead
<1>12. PingsAnswered'
  BY <1>1, <1>2, <1>4, PingAnswered
<1>13. MessageInv' /\ MessagesIntact'
  <2>1. f.op \notin Data
    BY <1>1, <1>2 DEF Data, Ping, Text, Binary, Continuation
  <2> QED
    BY <1>1, <1>2, <1>7, <2>1, MessageKept
<1> QED
  BY <1>2, <1>8, <1>9, <1>10, <1>11, <1>12, <1>13 DEF SocketInv

LEMMA HandlePongKeeps ==
  ASSUME SocketInv, HandlePong
  PROVE  SocketInv'
<1> DEFINE f == Head(incoming)
<1>1. /\ LastPiece /\ ws.op = Pong /\ ws' = NextFrame(ws)
      /\ UNCHANGED <<peer, sent, submitted, delivered, closes>>
  BY DEF HandlePong, LastPiece
<1>2. /\ f \in Incoming /\ ws.op = f.op
      /\ handled' = Append(handled, f) /\ handled' \in Seq(Incoming)
      /\ incoming' \in Seq(Incoming) /\ StreamInv' /\ ws.life = "open"
  BY <1>1, LastPieceEffect
<1>3. ws \in Connections
  BY DEF SocketInv, SocketTypeOK
<1> HIDE DEF f
<1>4. /\ ws' \in Connections /\ ws'.sending = ws.sending /\ ws'.queue = ws.queue
      /\ SameReading(ws', ws) /\ SameClosing(ws', ws) /\ ws'.state = "MiniHeader" /\ ws'.fragment = <<>>
  BY <1>1, <1>3, NextFrameEffect
<1>5. /\ ws'.life = "open" /\ ws'.socket = ws.socket /\ ws'.closeCalled = ws.closeCalled
      /\ ws'.message = ws.message /\ ws'.binary = ws.binary
  BY <1>2, <1>4 DEF SameClosing, SameReading
<1>6. SocketTypeOK'
  BY <1>1, <1>2, <1>4 DEF SocketInv, SocketTypeOK
<1>7. CloseInv'
  BY <1>1, <1>2, <1>5 DEF SocketInv, CloseInv
<1>8. SendInv'
  BY <1>1, <1>4, <1>5, SendKept
<1>9. FrameInv'
  BY <1>4, <1>5, NextFrameRead
<1>10. f.op \notin Data /\ f.op # Ping
  BY <1>1, <1>2 DEF Data, Ping, Pong, Text, Binary, Continuation
<1>11. PingsAnswered'
  BY <1>1, <1>2, <1>10, PingsKept
<1>12. MessageInv' /\ MessagesIntact'
  BY <1>1, <1>2, <1>5, <1>10, MessageKept
<1> QED
  BY <1>2, <1>6, <1>7, <1>8, <1>9, <1>11, <1>12 DEF SocketInv

LEMMA HandleCloseKeeps ==
  ASSUME SocketInv, HandleClose
  PROVE  SocketInv'
<1> DEFINE f == Head(incoming)
           g == Message(Close, Payload)
           u == [ws EXCEPT !.recvClose = TRUE]
           w == SendClose(u, Payload)
<1>1. /\ LastPiece /\ ws.op = Close /\ ws' = NextFrame(w) /\ submitted' = Append(submitted, g)
      /\ closes' = closes + IF CallsCloseHandler(u) THEN 1 ELSE 0
      /\ UNCHANGED <<peer, sent, delivered>>
  BY DEF HandleClose, LastPiece
<1>2. /\ f \in Incoming /\ f.payload \in Seq(Bytes) /\ Payload = f.payload /\ ws.op = f.op
      /\ handled' = Append(handled, f) /\ handled' \in Seq(Incoming)
      /\ incoming' \in Seq(Incoming) /\ StreamInv' /\ ws.life = "open"
  BY <1>1, LastPieceEffect
<1>3. ws \in Connections /\ submitted \in Seq(Outgoing) /\ closes \in Nat
  BY DEF SocketInv, SocketTypeOK
<1> HIDE DEF f
<1>4. Payload \in Seq(Bytes \cup {"t"})
  BY <1>2
<1>5. g \in Outgoing /\ g.op = Close
  BY <1>4, MessageType DEF Opcodes
<1>6. /\ u \in Connections /\ u.sending = ws.sending /\ u.queue = ws.queue /\ SameReading(u, ws)
      /\ u.life = ws.life /\ u.socket = ws.socket /\ u.closeCalled = ws.closeCalled /\ u.recvClose
  BY <1>3 DEF Connections, SameReading
<1> HIDE DEF u
<1>7. /\ w \in Connections /\ w.sending \o w.queue = Append(u.sending \o u.queue, g)
      /\ SameReading(w, u) /\ w.life = u.life /\ w.socket = u.socket
  BY <1>4, <1>6, SendCloseEffect
<1> HIDE DEF w, g
<1>8. /\ ws' \in Connections /\ ws'.sending = w.sending /\ ws'.queue = w.queue
      /\ SameReading(ws', w) /\ SameClosing(ws', w) /\ ws'.state = "MiniHeader" /\ ws'.fragment = <<>>
  BY <1>1, <1>7, NextFrameEffect
<1>9. /\ ws'.life = "open" /\ ws'.socket = ws.socket
      /\ ws'.message = ws.message /\ ws'.binary = ws.binary
      /\ ws'.sending \o ws'.queue = Append(ws.sending \o ws.queue, g)
  BY <1>2, <1>6, <1>7, <1>8 DEF SameClosing, SameReading
<1>10. closes' \in Nat /\ closes' > 0
  <2>1. ws.closeCalled => closes > 0
    BY DEF SocketInv, CloseInv
  <2> QED
    BY <1>1, <1>3, <1>6, <2>1 DEF CallsCloseHandler
<1>11. SocketTypeOK'
  <2>1. submitted' \in Seq(Outgoing)
    BY <1>1, <1>3, <1>5, AppendProperties
  <2> QED
    BY <1>1, <1>2, <1>8, <1>10, <2>1 DEF SocketInv, SocketTypeOK
<1>12. CloseInv'
  BY <1>10 DEF CloseInv
<1>13. SendInv'
  BY <1>1, <1>5, <1>9, Submitted
<1>14. FrameInv'
  BY <1>8, <1>9, NextFrameRead
<1>15. f.op \notin Data /\ f.op # Ping /\ g.op # Pong
  BY <1>1, <1>2, <1>5 DEF Data, Ping, Pong, Close, Text, Binary, Continuation
<1>16. PingsAnswered'
  BY <1>1, <1>2, <1>5, <1>15, PingsKept
<1>17. MessageInv' /\ MessagesIntact'
  BY <1>1, <1>2, <1>9, <1>15, MessageKept
<1> QED
  BY <1>2, <1>11, <1>12, <1>13, <1>14, <1>16, <1>17 DEF SocketInv

LEMMA HandleCloseReplyKeeps ==
  ASSUME SocketInv, HandleCloseReply
  PROVE  SocketInv'
<1> DEFINE f == Head(incoming)
           v == CloseSocket(ws)
           w == [v EXCEPT !.recvClose = TRUE, !.closeCalled = TRUE, !.reading = FALSE]
           x == [w EXCEPT !.life = "used when deleted"]
<1>1. /\ LastPiece /\ ws.op = Close /\ (ws' = x \/ ws' = NextFrame(w))
      /\ closes' = closes + IF ws.closeCalled THEN 0 ELSE 1
      /\ UNCHANGED <<peer, sent, submitted, delivered>>
  <2>1. ws' = IF Destroyed(w).life = "deleted" THEN x ELSE NextFrame(w)
    BY DEF HandleCloseReply
  <2> HIDE DEF x, w
  <2>2. ws' = x \/ ws' = NextFrame(w)
    BY <2>1
  <2> QED
    BY <2>2 DEF HandleCloseReply, LastPiece
<1>2. /\ f \in Incoming /\ ws.op = f.op
      /\ handled' = Append(handled, f) /\ handled' \in Seq(Incoming)
      /\ incoming' \in Seq(Incoming) /\ StreamInv' /\ ws.life = "open"
  BY <1>1, LastPieceEffect
<1>3. ws \in Connections /\ closes \in Nat
  BY DEF SocketInv, SocketTypeOK
<1> HIDE DEF f
<1>4. /\ v \in Connections /\ SameReading(v, ws) /\ v.life = ws.life /\ v.socket = FALSE
  BY <1>3, CloseSocketEffect
<1> HIDE DEF v
<1>5. /\ w \in Connections /\ SameReading(w, v) /\ w.life = v.life /\ w.socket = FALSE
  BY <1>4 DEF Connections, SameReading
<1> HIDE DEF w
<1>6. /\ x \in Connections /\ SameReading(x, w) /\ x.life = "used when deleted" /\ x.socket = FALSE
  BY <1>5 DEF Connections, SameReading
<1> HIDE DEF x
<1>7. LET y == NextFrame(w)
      IN  /\ y \in Connections /\ SameReading(y, w) /\ SameClosing(y, w)
          /\ y.state = "MiniHeader" /\ y.fragment = <<>>
  BY <1>5, NextFrameEffect
<1>8. /\ ws' \in Connections /\ ws'.life # "request" /\ ws'.socket = FALSE
      /\ ws'.life = "open" => ws'.state = "MiniHeader" /\ ws'.fragment = <<>>
      /\ ws'.message = ws.message /\ ws'.binary = ws.binary
  BY <1>1, <1>2, <1>4, <1>5, <1>6, <1>7 DEF SameReading, SameClosing
<1>9. closes' \in Nat /\ closes' > 0
  <2>1. ws.closeCalled => closes > 0
    BY DEF SocketInv, CloseInv
  <2> QED
    BY <1>1, <1>3, <2>1
<1>10. SocketTypeOK'
  BY <1>1, <1>2, <1>8, <1>9 DEF SocketInv, SocketTypeOK
<1>11. CloseInv'
  BY <1>9 DEF CloseInv
<1>12. SendInv'
  BY <1>1, <1>8, SendKept
<1>13. FrameInv'
  BY <1>8, NextFrameRead
<1>14. f.op \notin Data /\ f.op # Ping
  BY <1>1, <1>2 DEF Data, Ping, Close, Text, Binary, Continuation
<1>15. PingsAnswered'
  BY <1>1, <1>2, <1>14, PingsKept
<1>16. MessageInv' /\ MessagesIntact'
  BY <1>1, <1>2, <1>8, <1>14, MessageKept
<1> QED
  BY <1>2, <1>10, <1>11, <1>12, <1>13, <1>15, <1>16 DEF SocketInv

LEMMA ReadFailsKeeps ==
  ASSUME SocketInv, ReadFails
  PROVE  SocketInv'
<1> DEFINE v == CloseSocket(ws)
           w == [v EXCEPT !.reading = FALSE]
<1>1. /\ ws.life = "open" /\ UNCHANGED <<incoming, peer, handled, sent, submitted, delivered>>
      /\ \/ ws' = Destroyed(w) /\ closes' = closes + IF Uncleanly(w) THEN 1 ELSE 0
         \/ ws' = w /\ closes' = closes
  BY DEF ReadFails, Failing
<1>2. ws \in Connections /\ closes \in Nat
  BY DEF SocketInv, SocketTypeOK
<1>3. /\ v \in Connections /\ v.sending = ws.sending /\ v.queue = ws.queue
      /\ SameReading(v, ws) /\ v.state = ws.state /\ v.fragment = ws.fragment
      /\ v.life = ws.life /\ v.closeCalled = ws.closeCalled /\ v.socket = FALSE
  BY <1>2, CloseSocketEffect
<1> HIDE DEF v
<1>4. /\ w \in Connections /\ SameReading(w, v) /\ w.state = v.state /\ w.fragment = v.fragment
      /\ w.life = v.life /\ w.closeCalled = v.closeCalled /\ w.socket = FALSE
  BY <1>3 DEF Connections, SameReading
<1> HIDE DEF w
<1>5. LET y == Destroyed(w)
      IN  /\ y \in Connections /\ SameReading(y, w) /\ y.state = w.state /\ y.fragment = w.fragment
          /\ y.life \in {w.life, "deleted"} /\ y.closeCalled = w.closeCalled /\ y.socket = w.socket
  BY <1>4, DestroyedEffect
<1>6. /\ ws' \in Connections /\ SameReading(ws', ws) /\ ws'.state = ws.state
      /\ ws'.fragment = ws.fragment /\ ws'.life \in {"open", "deleted"} /\ ws'.socket = FALSE
      /\ ws'.closeCalled = ws.closeCalled
  BY <1>1, <1>3, <1>4, <1>5 DEF SameReading
<1>7. closes' \in Nat /\ (ws'.closeCalled \/ ws'.life = "deleted" => closes' > 0)
  <2>1. ws.closeCalled => closes > 0
    BY DEF SocketInv, CloseInv
  <2>2. w.life = "open" /\ w.closeCalled = ws.closeCalled
    BY <1>1, <1>3, <1>4
  <2>3. CASE ws' = Destroyed(w) /\ closes' = closes + IF Uncleanly(w) THEN 1 ELSE 0
    BY <1>2, <2>1, <2>2, <2>3 DEF Uncleanly
  <2>4. CASE ws' = w /\ closes' = closes
    BY <1>2, <2>1, <2>2, <2>4
  <2> QED
    BY <1>1, <2>3, <2>4
<1>8. SocketTypeOK'
  BY <1>1, <1>6, <1>7 DEF SocketInv, SocketTypeOK
<1>9. CloseInv'
  BY <1>6, <1>7 DEF CloseInv
<1>10. SendInv'
  BY <1>1, <1>6, SendKept
<1>11. PingsAnswered'
  BY <1>1, PingsKept
<1>12. FrameInv' /\ StreamInv' /\ MessageInv' /\ MessagesIntact'
  BY <1>1, <1>6, ReadingKept
<1> QED
  BY <1>8, <1>9, <1>10, <1>11, <1>12 DEF SocketInv

LEMMA WriteFailsKeeps ==
  ASSUME SocketInv, WriteFails
  PROVE  SocketInv'
<1> DEFINE w == [ws EXCEPT !.sending = <<>>, !.closing = TRUE]
<1>1. /\ ws.life = "open" /\ UNCHANGED <<incoming, handled, sent, submitted, delivered>>
      /\ ws' = Destroyed(w) /\ closes' = closes + IF Uncleanly(w) THEN 1 ELSE 0
      /\ peer' = (IF ws.socket THEN "reset" ELSE peer)
  BY DEF WriteFails
<1>2. ws \in Connections /\ closes \in Nat /\ peer \in {"here", "gone", "reset"}
  BY DEF SocketInv, SocketTypeOK
<1>3. /\ w \in Connections /\ SameReading(w, ws) /\ w.state = ws.state /\ w.fragment = ws.fragment
      /\ w.life = ws.life /\ w.closeCalled = ws.closeCalled /\ w.socket = ws.socket
  <2>1. <<>> \in Seq(Outgoing)
    OBVIOUS
  <2> QED
    BY <1>2, <2>1 DEF Connections, SameReading
<1> HIDE DEF w
<1>4. /\ ws' \in Connections /\ SameReading(ws', ws) /\ ws'.state = ws.state
      /\ ws'.fragment = ws.fragment /\ ws'.life \in {"open", "deleted"} /\ ws'.socket = ws.socket
      /\ ws'.closeCalled = ws.closeCalled
  BY <1>1, <1>3, DestroyedEffect DEF SameReading
<1>5. closes' \in Nat /\ closes' > 0
  <2>1. ws.closeCalled => closes > 0
    BY DEF SocketInv, CloseInv
  <2> QED
    BY <1>1, <1>2, <1>3, <2>1 DEF Uncleanly
<1>6. SocketTypeOK'
  BY <1>1, <1>2, <1>4, <1>5 DEF SocketInv, SocketTypeOK
<1>7. CloseInv'
  BY <1>5 DEF CloseInv
<1>8. SendInv'
  BY <1>1, <1>4, SendKept
<1>9. PingsAnswered'
  BY <1>1, PingsKept
<1>10. peer' = "here" => peer = "here"
  BY <1>1
<1>11. FrameInv' /\ StreamInv' /\ MessageInv' /\ MessagesIntact'
  BY <1>1, <1>4, <1>10, ReadingKept
<1> QED
  BY <1>6, <1>7, <1>8, <1>9, <1>11 DEF SocketInv

LEMMA SendTextKeeps ==
  ASSUME SocketInv, SendText
  PROVE  SocketInv'
<1> DEFINE g == Message(Text, <<"t">>)
<1>1. /\ ws.life = "open" /\ ws' = Send(ws, g) /\ submitted' = Append(submitted, g)
      /\ UNCHANGED <<incoming, peer, handled, sent, delivered, closes>>
  BY DEF SendText, Submits
<1>2. ws \in Connections /\ submitted \in Seq(Outgoing)
  BY DEF SocketInv, SocketTypeOK
<1>3. g \in Outgoing /\ g.op # Pong
  <2>1. <<"t">> \in Seq(Bytes \cup {"t"})
    OBVIOUS
  <2>2. g \in Outgoing /\ g.op = Text
    BY <2>1, MessageType DEF Opcodes
  <2>3. Text # Pong
    BY DEF Text, Pong
  <2> HIDE DEF g
  <2> QED
    BY <2>2, <2>3
<1> HIDE DEF g
<1>4. /\ ws' \in Connections /\ ws'.sending \o ws'.queue = Append(ws.sending \o ws.queue, g)
      /\ SameReading(ws', ws) /\ SameClosing(ws', ws) /\ ws'.state = ws.state
      /\ ws'.fragment = ws.fragment
  BY <1>1, <1>2, <1>3, SendEffect
<1>5. ws'.life = "open" /\ ws'.socket = ws.socket /\ ws'.closeCalled = ws.closeCalled
  BY <1>1, <1>4 DEF SameClosing
<1>6. SocketTypeOK'
  <2>1. submitted' \in Seq(Outgoing)
    BY <1>1, <1>2, <1>3, AppendProperties
  <2> QED
    BY <1>1, <1>4, <2>1 DEF SocketInv, SocketTypeOK
<1>7. CloseInv'
  BY <1>1, <1>5 DEF SocketInv, CloseInv
<1>8. SendInv'
  BY <1>1, <1>3, <1>4, <1>5, Submitted
<1>9. PingsAnswered'
  BY <1>1, <1>3, PingsKept
<1>10. FrameInv' /\ StreamInv' /\ MessageInv' /\ MessagesIntact'
  BY <1>1, <1>4, <1>5, ReadingKept
<1> QED
  BY <1>6, <1>7, <1>8, <1>9, <1>10 DEF SocketInv

LEMMA CloseByServerKeeps ==
  ASSUME SocketInv, CloseByServer
  PROVE  SocketInv'
<1> DEFINE g == Message(Close, <<>>)
<1>1. /\ ws.life = "open" /\ ws' = SendClose(ws, <<>>) /\ submitted' = Append(submitted, g)
      /\ closes' = closes + IF CallsCloseHandler(ws) THEN 1 ELSE 0
      /\ UNCHANGED <<incoming, peer, handled, sent, delivered>>
  BY DEF CloseByServer, Submits
<1>2. ws \in Connections /\ submitted \in Seq(Outgoing) /\ closes \in Nat
  BY DEF SocketInv, SocketTypeOK
<1>3. <<>> \in Seq(Bytes \cup {"t"})
  OBVIOUS
<1>4. g \in Outgoing /\ g.op # Pong
  <2>1. g \in Outgoing /\ g.op = Close
    BY <1>3, MessageType DEF Opcodes
  <2>2. Close # Pong
    BY DEF Close, Pong
  <2> HIDE DEF g
  <2> QED
    BY <2>1, <2>2
<1>5. /\ ws' \in Connections /\ ws'.sending \o ws'.queue = Append(ws.sending \o ws.queue, g)
      /\ SameReading(ws', ws) /\ ws'.state = ws.state
      /\ ws'.fragment = ws.fragment /\ ws'.life = ws.life /\ ws'.socket = ws.socket
      /\ ws'.closeCalled = (ws.closeCalled \/ ws.recvClose)
  BY <1>1, <1>2, <1>3, SendCloseEffect
<1> HIDE DEF g
<1>6. closes' \in Nat /\ (ws'.closeCalled => closes' > 0)
  <2>1. ws.closeCalled => closes > 0
    BY DEF SocketInv, CloseInv
  <2>2. ws.closeCalled \in BOOLEAN /\ ws.recvClose \in BOOLEAN
    BY <1>2 DEF Connections
  <2> QED
    BY <1>1, <1>2, <1>5, <2>1, <2>2 DEF CallsCloseHandler
<1>7. SocketTypeOK'
  <2>1. submitted' \in Seq(Outgoing)
    BY <1>1, <1>2, <1>4, AppendProperties
  <2> QED
    BY <1>1, <1>5, <1>6, <2>1 DEF SocketInv, SocketTypeOK
<1>8. CloseInv'
  BY <1>1, <1>5, <1>6 DEF CloseInv
<1>9. SendInv'
  BY <1>1, <1>4, <1>5, Submitted
<1>10. PingsAnswered'
  BY <1>1, <1>4, PingsKept
<1>11. FrameInv' /\ StreamInv' /\ MessageInv' /\ MessagesIntact'
  BY <1>1, <1>5, ReadingKept
<1> QED
  BY <1>7, <1>8, <1>9, <1>10, <1>11 DEF SocketInv

LEMMA Associated ==
  ASSUME NEW S, NEW a \in Seq(S), NEW b \in Seq(S), NEW c \in Seq(S)
  PROVE  /\ (a \o b) \o c = a \o (b \o c)
         /\ a \o b \in Seq(S) /\ a \o <<>> = a /\ <<>> \o a = a
         /\ IsPrefix(a, a \o b)
<1>1. (a \o b) \o c = a \o (b \o c)
  BY ConcatAssociative
<1>2. a \o b \in Seq(S) /\ a \o <<>> = a /\ <<>> \o a = a
  OBVIOUS
<1>3. IsPrefix(a, a \o b)
  <2>1. /\ Len(a) \in Nat /\ Len(b) \in Nat /\ Len(a \o b) = Len(a) + Len(b)
        /\ \A i \in 1 .. Len(a) : (a \o b)[i] = a[i]
    OBVIOUS
  <2> DEFINE d == a \o b
  <2> HIDE DEF d
  <2>2. d \in Seq(S) /\ Len(a) <= Len(d) /\ \A i \in 1 .. Len(a) : d[i] = a[i]
    BY <1>2, <2>1 DEF d
  <2>3. SubSeq(a, 1, Len(a)) = SubSeq(d, 1, Len(a))
    BY <2>1, <2>2
  <2> QED
    BY <2>2, <2>3 DEF IsPrefix, d
<1> QED
  BY <1>1, <1>2, <1>3

LEMMA WriteDoneKeeps ==
  ASSUME SocketInv, WriteDone
  PROVE  SocketInv'
<1> DEFINE w == [ws EXCEPT !.sending = <<>>]
           more == IF w.queue = <<>> THEN w ELSE DoWrite(w)
           x == [more EXCEPT !.closing = ws.sentClose]
<1>1. /\ ws.life = "open" /\ UNCHANGED <<incoming, peer, handled, submitted, delivered>>
      /\ ws.socket /\ peer # "reset" /\ sent' = sent \o ws.sending
      /\ \/ ws' = Destroyed(w) /\ closes' = closes + IF Uncleanly(w) THEN 1 ELSE 0
         \/ ws' = x /\ closes' = closes
  BY DEF WriteDone
<1>2. ws \in Connections /\ closes \in Nat /\ sent \in Seq(Outgoing) /\ submitted \in Seq(Outgoing)
  BY DEF SocketInv, SocketTypeOK
<1>3. /\ ws.sending \in Seq(Outgoing) /\ ws.queue \in Seq(Outgoing) /\ ws.sentClose \in BOOLEAN
      /\ <<>> \in Seq(Outgoing)
  <2>1. ws.sending \in Seq(Outgoing) /\ ws.queue \in Seq(Outgoing) /\ ws.sentClose \in BOOLEAN
    BY <1>2 DEF Connections
  <2>2. <<>> \in Seq(Outgoing)
    OBVIOUS
  <2> QED
    BY <2>1, <2>2
<1>4. /\ w \in Connections /\ SameReading(w, ws) /\ w.state = ws.state /\ w.fragment = ws.fragment
      /\ w.life = ws.life /\ w.closeCalled = ws.closeCalled /\ w.socket = ws.socket
      /\ w.sending = <<>> /\ w.queue = ws.queue
  BY <1>2, <1>3 DEF Connections, SameReading
<1> HIDE DEF w
<1>5. LET y == Destroyed(w)
      IN  /\ y \in Connections /\ SameReading(y, w) /\ y.state = w.state /\ y.fragment = w.fragment
          /\ y.life \in {w.life, "deleted"} /\ y.closeCalled = w.closeCalled /\ y.socket = w.socket
          /\ y.sending = w.sending /\ y.queue = w.queue
  BY <1>4, DestroyedEffect
<1>6. /\ more \in Connections /\ SameReading(more, w) /\ more.state = w.state /\ more.fragment = w.fragment
      /\ more.life = w.life /\ more.closeCalled = w.closeCalled /\ more.socket = w.socket
      /\ \/ more.sending = <<>> /\ more.queue = ws.queue
         \/ more.sending = ws.queue /\ more.queue = <<>>
  <2>1. CASE w.queue = <<>>
    BY <1>4, <2>1 DEF SameReading
  <2>2. CASE w.queue # <<>>
    <3> DEFINE q == ws.queue
    <3>1. more = [w EXCEPT !.sending = q, !.queue = <<>>]
      BY <1>4, <2>2 DEF DoWrite
    <3>2. q \in Seq(Outgoing)
      BY <1>3
    <3> HIDE DEF q, more
    <3>3. /\ more \in Connections /\ SameReading(more, w) /\ more.state = w.state
          /\ more.fragment = w.fragment /\ more.life = w.life /\ more.closeCalled = w.closeCalled
          /\ more.socket = w.socket /\ more.sending = q /\ more.queue = <<>>
      BY <1>3, <1>4, <3>1, <3>2 DEF Connections, SameReading
    <3> QED
      BY <3>3 DEF q
  <2> QED
    BY <2>1, <2>2
<1> HIDE DEF more
<1>7. /\ x \in Connections /\ SameReading(x, more) /\ x.state = more.state /\ x.fragment = more.fragment
      /\ x.life = more.life /\ x.closeCalled = more.closeCalled /\ x.socket = more.socket
      /\ x.sending = more.sending /\ x.queue = more.queue
  BY <1>3, <1>6 DEF Connections, SameReading
<1> HIDE DEF x
<1>8. /\ ws' \in Connections /\ SameReading(ws', ws) /\ ws'.state = ws.state
      /\ ws'.fragment = ws.fragment /\ ws'.life \in {"open", "deleted"} /\ ws'.socket = ws.socket
      /\ ws'.closeCalled = ws.closeCalled
      /\ \/ ws'.sending = <<>> /\ ws'.queue = ws.queue
         \/ ws'.sending = ws.queue /\ ws'.queue = <<>>
  <2>1. CASE ws' = Destroyed(w)
    BY <1>1, <1>4, <1>5, <2>1 DEF SameReading
  <2>2. CASE ws' = x
    <3>1. /\ x \in Connections /\ SameReading(x, ws) /\ x.state = ws.state
          /\ x.fragment = ws.fragment /\ x.life = "open" /\ x.socket = ws.socket
          /\ x.closeCalled = ws.closeCalled
      BY <1>1, <1>4, <1>6, <1>7 DEF SameReading
    <3>2. \/ x.sending = <<>> /\ x.queue = ws.queue
          \/ x.sending = ws.queue /\ x.queue = <<>>
      BY <1>6, <1>7
    <3> QED
      BY <2>2, <3>1, <3>2
  <2> QED
    BY <1>1, <2>1, <2>2
<1>9. closes' \in Nat /\ (ws'.closeCalled \/ ws'.life = "deleted" => closes' > 0)
  <2>1. ws.closeCalled => closes > 0
    BY DEF SocketInv, CloseInv
  <2>2. w.closeCalled = ws.closeCalled /\ x.life = "open" /\ x.closeCalled = ws.closeCalled
    BY <1>1, <1>4, <1>6, <1>7
  <2>3. CASE ws' = Destroyed(w) /\ closes' = closes + IF Uncleanly(w) THEN 1 ELSE 0
    BY <1>2, <1>8, <2>1, <2>2, <2>3 DEF Uncleanly
  <2>4. CASE ws' = x /\ closes' = closes
    BY <1>2, <2>1, <2>2, <2>4
  <2> QED
    BY <1>1, <2>3, <2>4
<1> DEFINE a == ws.sending
           b == ws.queue
<1>10. a \in Seq(Outgoing) /\ b \in Seq(Outgoing)
  BY <1>3
<1>11. sent \o (a \o b) = submitted
  BY <1>1 DEF SocketInv, SendInv
<1>12. ws'.sending \o ws'.queue = b
  <2>1. (ws'.sending = <<>> /\ ws'.queue = b) \/ (ws'.sending = b /\ ws'.queue = <<>>)
    BY <1>8
  <2> HIDE DEF b
  <2> QED
    BY <1>10, <2>1, Associated
<1>13. sent' = sent \o a
  BY <1>1
<1> HIDE DEF a, b
<1>14. (sent \o a) \o b = submitted /\ sent \o a \in Seq(Outgoing)
  <2>1. sent \in Seq(Outgoing)
    BY <1>2
  <2>2. (sent \o a) \o b = sent \o (a \o b) /\ sent \o a \in Seq(Outgoing)
    BY <1>10, <2>1, Associated
  <2> QED
    BY <1>11, <2>2
<1>15. IsPrefix(sent \o a, submitted)
  BY <1>10, <1>14, Associated
<1>16. SocketTypeOK'
  BY <1>1, <1>8, <1>9, <1>13, <1>14 DEF SocketInv, SocketTypeOK
<1>17. CloseInv'
  BY <1>8, <1>9 DEF CloseInv
<1>18. SendInv'
  BY <1>1, <1>8, <1>12, <1>13, <1>14, <1>15 DEF SendInv
<1>19. PingsAnswered'
  BY <1>1, PingsKept
<1>20. FrameInv' /\ StreamInv' /\ MessageInv' /\ MessagesIntact'
  BY <1>1, <1>8, ReadingKept
<1> QED
  BY <1>16, <1>17, <1>18, <1>19, <1>20 DEF SocketInv

LEMMA AcceptKeeps ==
  ASSUME SocketInv, Accept
  PROVE  SocketInv'
<1> DEFINE u == [ws EXCEPT !.life = "open"]
           w == Send(u, Hello)
<1>1. /\ ws.life = "request" /\ ws' = DoRead(w) /\ submitted' = <<Hello>>
      /\ UNCHANGED <<incoming, peer, handled, sent, delivered, closes>>
  BY DEF Accept
<1>2. ws \in Connections
  BY DEF SocketInv, SocketTypeOK
<1>3. Hello \in Outgoing /\ Hello.op # Pong
  <2>1. <<>> \in Seq(Bytes \cup {"t"})
    OBVIOUS
  <2>2. Hello \in Outgoing /\ Hello.op = "hello"
    BY <2>1, MessageType DEF Hello
  <2> QED
    BY <2>2 DEF Pong
<1>4. /\ u \in Connections /\ SameReading(u, ws) /\ u.state = ws.state /\ u.fragment = ws.fragment
      /\ u.life = "open" /\ u.socket = ws.socket /\ u.closeCalled = ws.closeCalled
      /\ u.sending = ws.sending /\ u.queue = ws.queue
  BY <1>2 DEF Connections, SameReading
<1> HIDE DEF u
<1>5. /\ w \in Connections /\ w.sending \o w.queue = Append(u.sending \o u.queue, Hello)
      /\ SameReading(w, u) /\ SameClosing(w, u) /\ w.state = u.state /\ w.fragment = u.fragment
  BY <1>3, <1>4, SendEffect
<1> HIDE DEF w
<1>6. LET y == DoRead(w)
      IN  /\ y \in Connections /\ y.sending = w.sending /\ y.queue = w.queue
          /\ SameReading(y, w) /\ SameClosing(y, w) /\ y.fragment = w.fragment
          /\ y.state = (IF w.state = "Mask" /\ ~w.masked THEN "Payload" ELSE w.state)
  BY <1>5, DoReadEffect
<1>7. ws.state = "MiniHeader" /\ submitted = <<>>
  BY <1>1 DEF SocketInv, FrameInv, SendInv
<1>8. /\ ws' \in Connections /\ SameReading(ws', ws) /\ ws'.state = ws.state
      /\ ws'.fragment = ws.fragment /\ ws'.life = "open" /\ ws'.socket = ws.socket
      /\ ws'.closeCalled = ws.closeCalled
      /\ ws'.sending \o ws'.queue = Append(ws.sending \o ws.queue, Hello)
  BY <1>1, <1>4, <1>5, <1>6, <1>7 DEF SameReading, SameClosing
<1>9. submitted' = Append(submitted, Hello)
  BY <1>1, <1>7
<1>10. SocketTypeOK'
  <2>1. submitted' \in Seq(Outgoing)
    BY <1>1, <1>3
  <2> QED
    BY <1>1, <1>8, <2>1 DEF SocketInv, SocketTypeOK
<1>11. CloseInv'
  BY <1>1, <1>8 DEF SocketInv, CloseInv
<1>12. SendInv'
  BY <1>1, <1>3, <1>8, <1>9, Submitted
<1>13. PingsAnswered'
  BY <1>1, <1>3, <1>9, PingsKept
<1>14. FrameInv' /\ StreamInv' /\ MessageInv' /\ MessagesIntact'
  BY <1>1, <1>8, ReadingKept
<1> QED
  BY <1>10, <1>11, <1>12, <1>13, <1>14 DEF SocketInv

LEMMA RefuseKeeps ==
  ASSUME SocketInv, Refuse
  PROVE  SocketInv'
<1>1. /\ ws.life = "request" /\ ws' = [ws EXCEPT !.life = "refused", !.socket = FALSE]
      /\ UNCHANGED <<incoming, peer, handled, sent, submitted, delivered, closes>>
  BY DEF Refuse
<1>2. ws \in Connections
  BY DEF SocketInv, SocketTypeOK
<1>3. /\ ws' \in Connections /\ SameReading(ws', ws) /\ ws'.state = ws.state
      /\ ws'.fragment = ws.fragment /\ ws'.life = "refused" /\ ws'.socket = FALSE
      /\ ws'.closeCalled = ws.closeCalled
  BY <1>1, <1>2 DEF Connections, SameReading
<1>4. SocketTypeOK'
  BY <1>1, <1>3 DEF SocketInv, SocketTypeOK
<1>5. CloseInv'
  BY <1>1, <1>3 DEF SocketInv, CloseInv
<1>6. SendInv'
  BY <1>1, <1>3, SendKept
<1>7. PingsAnswered'
  BY <1>1, PingsKept
<1>8. FrameInv' /\ StreamInv' /\ MessageInv' /\ MessagesIntact'
  BY <1>1, <1>3, ReadingKept
<1> QED
  BY <1>4, <1>5, <1>6, <1>7, <1>8 DEF SocketInv

LEMMA SamePrefix ==
  ASSUME NEW S, NEW a \in Seq(S), NEW b \in Seq(S), Len(a) <= Len(b),
         \A i \in 1 .. Len(a) : a[i] = b[i], NEW n \in 0 .. Len(a)
  PROVE  SubSeq(a, 1, n) = SubSeq(b, 1, n)
<1>1. \A i \in 1 .. n : a[i] = b[i]
  OBVIOUS
<1>2. SubSeq(a, 1, n) = [i \in 1 .. n |-> a[i]] /\ SubSeq(b, 1, n) = [i \in 1 .. n |-> b[i]]
  OBVIOUS
<1> QED
  BY <1>1, <1>2

\* What the peer does.
LEMMA PeerKept ==
  ASSUME SocketInv, UNCHANGED <<ws, handled, sent, submitted, delivered, closes>>,
         ws.life = "open", peer = "here", peer' \in {"here", "gone"}, incoming' \in Seq(Incoming),
         FrameInv', StreamInv'
  PROVE  SocketInv'
<1>1. SocketTypeOK'
  BY DEF SocketInv, SocketTypeOK
<1>2. CloseInv'
  BY DEF SocketInv, CloseInv
<1>3. SendInv'
  BY DEF SocketInv, SendInv
<1>4. PingsAnswered'
  BY PingsKept
<1>5. MessageInv'
  BY DEF SocketInv, MessageInv
<1>6. MessagesIntact'
  BY DEF SocketInv, MessagesIntact
<1> QED
  BY <1>1, <1>2, <1>3, <1>4, <1>5, <1>6 DEF SocketInv

LEMMA PeerSendsKeeps ==
  ASSUME SocketInv, NEW f \in Incoming, PeerSends(f)
  PROVE  SocketInv'
<1> DEFINE stream == handled \o incoming
           more == Append(stream, f)
<1>1. /\ ws.life = "open" /\ peer = "here" /\ incoming' = Append(incoming, f)
      /\ UNCHANGED <<ws, peer, handled, sent, submitted, delivered, closes>>
      /\ f.op \in Data => (f.op = Continuation <=> Begun(stream))
  BY DEF PeerSends, Conforms
<1>2. incoming \in Seq(Incoming) /\ handled \in Seq(Incoming)
  BY DEF SocketInv, SocketTypeOK
<1>3. incoming' \in Seq(Incoming) /\ incoming' # <<>> /\ (incoming # <<>> => Head(incoming') = Head(incoming))
  <2>1. /\ incoming' \in Seq(Incoming) /\ Len(incoming') = Len(incoming) + 1 /\ Len(incoming) \in Nat
        /\ \A i \in 1 .. Len(incoming) : incoming'[i] = incoming[i]
    BY <1>1, <1>2
  <2>2. incoming' # <<>>
    BY <1>1, <1>2, AppendProperties
  <2>3. ASSUME incoming # <<>> PROVE Head(incoming') = Head(incoming)
    <3>1. Len(incoming) >= 1
      BY <1>2, <2>1, <2>3, EmptySeq
    <3> QED
      BY <1>2, <2>1, <2>2, <3>1
  <2> QED
    BY <2>1, <2>2, <2>3
<1>4. FrameInv'
  <2>1. incoming = <<>> => ws.state = "MiniHeader"
    BY <1>1 DEF SocketInv, FrameInv
  <2> QED
    BY <1>1, <1>3, <2>1 DEF SocketInv, FrameInv
<1>5. StreamInv'
  <2>1. handled' \o incoming' = more
    BY <1>1, <1>2, AppendedBehind
  <2>2. stream \in Seq(Incoming)
    BY <1>2, ConcatProperties
  <2>3. \A i \in DOMAIN stream :
            stream[i].op \in Data =>
                (stream[i].op = Continuation <=> Begun(SubSeq(stream, 1, i - 1)))
    BY DEF SocketInv, StreamInv
  <2> HIDE DEF stream
  <2>4. /\ more \in Seq(Incoming) /\ Len(more) = Len(stream) + 1 /\ Len(stream) \in Nat
        /\ more[Len(stream) + 1] = f /\ \A i \in 1 .. Len(stream) : more[i] = stream[i]
        /\ DOMAIN more = 1 .. Len(stream) + 1 /\ DOMAIN stream = 1 .. Len(stream)
    BY <2>2
  <2> HIDE DEF more
  <2>5. \A n \in 0 .. Len(stream) : SubSeq(more, 1, n) = SubSeq(stream, 1, n)
    BY <2>2, <2>4, SamePrefix
  <2>6. SubSeq(stream, 1, Len(stream)) = stream
    BY <2>2
  <2>7. ASSUME NEW i \in DOMAIN more, more[i].op \in Data
        PROVE  more[i].op = Continuation <=> Begun(SubSeq(more, 1, i - 1))
    <3>1. i - 1 \in 0 .. Len(stream)
      BY <2>4
    <3>2. CASE i \in 1 .. Len(stream)
      BY <2>3, <2>4, <2>5, <2>7, <3>1, <3>2
    <3>3. CASE i \notin 1 .. Len(stream)
      <4>1. i = Len(stream) + 1 /\ i - 1 = Len(stream)
        BY <2>4, <3>3
      <4>2. more[i] = f /\ SubSeq(more, 1, i - 1) = stream
        BY <2>4, <2>5, <2>6, <3>1, <4>1
      <4> QED
        BY <1>1, <2>7, <4>2
    <3> QED
      BY <3>2, <3>3
  <2> QED
    BY <2>1, <2>7 DEF StreamInv
<1> QED
  BY <1>1, <1>3, <1>4, <1>5, PeerKept

LEMMA PeerGoesKeeps ==
  ASSUME SocketInv, PeerGoes
  PROVE  SocketInv'
<1>1. /\ ws.life = "open" /\ peer = "here" /\ peer' = "gone"
      /\ incoming' = incoming \/ (incoming # <<>> /\ incoming' = Front(incoming))
      /\ UNCHANGED <<ws, handled, sent, submitted, delivered, closes>>
  BY DEF PeerGoes
<1>2. incoming \in Seq(Incoming) /\ handled \in Seq(Incoming)
  BY DEF SocketInv, SocketTypeOK
<1>3. CASE incoming' = incoming
  <2>1. FrameInv'
    BY <1>1, <1>3 DEF SocketInv, FrameInv
  <2>2. StreamInv'
    BY <1>1, <1>3 DEF SocketInv, StreamInv
  <2> QED
    BY <1>1, <1>2, <1>3, <2>1, <2>2, PeerKept
<1>4. CASE incoming # <<>> /\ incoming' = Front(incoming)
  <2>1. /\ incoming' \in Seq(Incoming) /\ Len(incoming) \in Nat /\ Len(incoming') = Len(incoming) - 1
        /\ \A i \in 1 .. Len(incoming) - 1 : incoming'[i] = incoming[i]
    <3> DEFINE n == Len(incoming)
    <3>1. n \in Nat /\ n >= 1 /\ n - 1 \in 0 .. n
      BY <1>2, <1>4, EmptySeq
    <3>2. incoming' = SubSeq(incoming, 1, n - 1)
      BY <1>4 DEF Front
    <3>3. \A i \in 1 .. n - 1 : i \in 1 .. n /\ incoming[i] \in Incoming
      BY <1>2, <3>1
    <3>4. incoming' = [i \in 1 .. n - 1 |-> incoming[i]]
      BY <3>1, <3>2
    <3>5. n - 1 \in Nat
      BY <3>1
    <3> HIDE DEF n
    <3>6. incoming' \in [1 .. n - 1 -> Incoming]
      BY <3>3, <3>4
    <3>7. incoming' \in Seq(Incoming)
      BY <3>5, <3>6, SeqDef
    <3>8. Len(incoming') = n - 1
      BY <3>5, <3>6
    <3> QED
      BY <3>1, <3>4, <3>7, <3>8 DEF n
  <2>2. incoming' # <<>> => Head(incoming') = Head(incoming)
    <3>1. CASE incoming' # <<>>
      <4>1. Len(incoming') >= 1
        BY <2>1, <3>1, EmptySeq
      <4>2. incoming'[1] = incoming[1]
        BY <2>1, <4>1
      <4> QED
        BY <1>2, <1>4, <2>1, <3>1, <4>2
    <3> QED
      BY <3>1
  <2>3. FrameInv'
    BY <1>1, <1>4, <2>2 DEF SocketInv, FrameInv
  <2> DEFINE stream == handled \o incoming
             less == handled \o incoming'
  <2>4. /\ stream \in Seq(Incoming) /\ Len(stream) = Len(handled) + Len(incoming)
        /\ \A i \in 1 .. Len(handled) : stream[i] = handled[i]
        /\ \A j \in 1 .. Len(incoming) : stream[Len(handled) + j] = incoming[j]
    BY <1>2, Concatenated
  <2>5. /\ less \in Seq(Incoming) /\ Len(less) = Len(handled) + Len(incoming')
        /\ \A i \in 1 .. Len(handled) : less[i] = handled[i]
        /\ \A j \in 1 .. Len(incoming') : less[Len(handled) + j] = incoming'[j]
    <3>1. incoming' \in Seq(Incoming)
      BY <2>1
    <3> QED
      BY <1>2, <3>1, Concatenated
  <2>6. Len(handled) \in Nat
    BY <1>2
  <2>7. \A i \in DOMAIN stream :
            stream[i].op \in Data =>
                (stream[i].op = Continuation <=> Begun(SubSeq(stream, 1, i - 1)))
    BY DEF SocketInv, StreamInv
  <2>8. handled' \o incoming' = less
    BY <1>1
  <2> HIDE DEF stream, less
  <2>9. Len(less) <= Len(stream)
    BY <2>1, <2>4, <2>5, <2>6
  <2>10. \A i \in 1 .. Len(less) : less[i] = stream[i]
    <3> TAKE i \in 1 .. Len(less)
    <3>1. CASE i \in 1 .. Len(handled)
      BY <2>4, <2>5, <3>1
    <3>2. CASE i \notin 1 .. Len(handled)
      <4> DEFINE j == i - Len(handled)
      <4>1. i = Len(handled) + j /\ j \in 1 .. Len(incoming') /\ j \in 1 .. Len(incoming) /\ j \in 1 .. Len(incoming) - 1
        BY <2>1, <2>5, <2>6, <3>2
      <4> HIDE DEF j
      <4> QED
        BY <2>1, <2>4, <2>5, <4>1
    <3> QED
      BY <3>1, <3>2
  <2>11. StreamInv'
    <3>1. \A n \in 0 .. Len(less) : SubSeq(less, 1, n) = SubSeq(stream, 1, n)
      BY <2>4, <2>5, <2>9, <2>10, SamePrefix
    <3>2. DOMAIN less = 1 .. Len(less) /\ DOMAIN stream = 1 .. Len(stream)
          /\ Len(less) \in Nat /\ Len(stream) \in Nat
      BY <2>4, <2>5
    <3>3. ASSUME NEW i \in DOMAIN less, less[i].op \in Data
          PROVE  less[i].op = Continuation <=> Begun(SubSeq(less, 1, i - 1))
      <4>1. i - 1 \in 0 .. Len(less) /\ i \in DOMAIN stream
        BY <2>9, <3>2
      <4> QED
        BY <2>7, <2>10, <3>1, <3>2, <3>3, <4>1
    <3> QED
      BY <2>8, <3>3 DEF StreamInv
  <2> QED
    BY <1>1, <2>1, <2>3, <2>11, PeerKept
<1> QED
  BY <1>1, <1>3, <1>4

LEMMA SocketInitially ==
  ASSUME SocketInit
  PROVE  SocketInv
<1>1. /\ ws = Fresh /\ incoming = <<>> /\ peer = "here" /\ handled = <<>> /\ sent = <<>>
      /\ submitted = <<>> /\ delivered = <<>> /\ closes = 0
  BY DEF SocketInit
<1>2. /\ ws \in Connections /\ ws.life = "request" /\ ws.state = "MiniHeader"
      /\ ws.fragment = <<>> /\ ws.message = <<>> /\ ws.sending = <<>> /\ ws.queue = <<>>
      /\ ws.closeCalled = FALSE
  <2>1. <<>> \in Seq(Bytes \X (-1 .. 3)) /\ <<>> \in Seq(Bytes) /\ <<>> \in Seq(Outgoing)
    OBVIOUS
  <2> QED
    BY <1>1, <2>1 DEF Fresh, Connections, Opcodes
<1>3. SocketTypeOK
  <2>1. /\ <<>> \in Seq(Incoming) /\ <<>> \in Seq(Outgoing)
        /\ <<>> \in Seq([text : Seq(Bytes), binary : BOOLEAN])
    OBVIOUS
  <2> QED
    BY <1>1, <1>2, <2>1 DEF SocketTypeOK
<1>4. CloseInv /\ FrameInv
  BY <1>1, <1>2 DEF CloseInv, FrameInv
<1>5. SendInv
  <2>1. <<>> \o (<<>> \o <<>>) = <<>> /\ IsPrefix(<<>>, <<>>)
    <3>1. <<>> \in Seq({})
      OBVIOUS
    <3>2. <<>> \o <<>> = <<>> /\ IsPrefix(<<>>, <<>> \o <<>>)
      BY <3>1, Associated
    <3> QED
      BY <3>2
  <2> QED
    BY <1>1, <1>2, <2>1 DEF SendInv
<1>6. Of(handled, Data) = <<>> /\ Of(handled, {Ping}) = <<>> /\ Of(submitted, {Pong}) = <<>>
  BY <1>1, OfNothing
<1>7. PingsAnswered
  BY <1>6 DEF PingsAnswered
<1>8. StreamInv
  <2>1. handled \o incoming = <<>>
    BY <1>1
  <2> QED
    BY <2>1 DEF StreamInv
<1>9. MessageInv
  <2>1. [k \in 1 .. 0 |-> <<>>[1 + k - 1].payload] = <<>>
    <3> DEFINE e == [k \in 1 .. 0 |-> <<>>[1 + k - 1].payload]
    <3>1. e \in [1 .. 0 -> {}]
      OBVIOUS
    <3> HIDE DEF e
    <3>2. e \in Seq({})
      BY <3>1, SeqDef
    <3>3. Len(e) = 0
      BY <3>1
    <3>4. e = <<>>
      BY <3>2, <3>3, EmptySeq
    <3> QED
      BY <3>4 DEF e
  <2>2. FlattenSeq(<<>>) = <<>>
    <3>1. <<>> \in Seq(Seq({})) /\ <<>> \in Seq({})
      OBVIOUS
    <3> QED
      BY <3>1, FlattenAppended
  <2>3. Len(<<>>) = 0
    OBVIOUS
  <2>4. Whole(<<>>, 1, Len(<<>>)) = <<>>
    BY <2>1, <2>2, <2>3 DEF Whole
  <2>5. Begins(<<>>, 1, Len(<<>>) + 1) /\ 1 \in 1 .. Len(<<>>) + 1 /\ ~(1 <= Len(<<>>))
    BY <2>3 DEF Begins
  <2> QED
    BY <1>2, <1>6, <2>4, <2>5 DEF MessageInv
<1>10. MessagesIntact
  <2> DEFINE ends == {i \in DOMAIN <<>> : (<<>>[i]).fin}
  <2>1. ends = {}
    OBVIOUS
  <2>2. Cardinality({}) = 0 /\ Len(delivered) = 0
    BY <1>1, FS_EmptySet
  <2> HIDE DEF ends
  <2>3. Len(delivered) = Cardinality(ends) /\ \A i \in ends : FALSE
    BY <2>1, <2>2
  <2> QED
    BY <1>6, <2>3 DEF MessagesIntact, ends
<1> QED
  BY <1>3, <1>4, <1>5, <1>7, <1>8, <1>9, <1>10 DEF SocketInv

LEMMA SocketStep ==
  ASSUME SocketInv, [SocketNext]_socketVars
  PROVE  SocketInv'
<1>1. CASE SocketNext
  <2>1. CASE \E f \in Frames : PeerSends(Frame(f.op, f.fin, f.masked, f.payload))
    <3> PICK f \in Frames : PeerSends(Frame(f.op, f.fin, f.masked, f.payload))
      BY <2>1
    <3>1. f.op \in Opcodes /\ f.fin \in BOOLEAN /\ f.masked \in BOOLEAN /\ f.payload \in Seq(Bytes)
      BY FramesKnown
    <3>2. Frame(f.op, f.fin, f.masked, f.payload) \in Incoming
      BY <3>1 DEF Frame, Incoming, LengthBits, LengthFields
    <3> QED
      BY <3>2, PeerSendsKeeps
  <2>2. CASE Accept
    BY <2>2, AcceptKeeps
  <2>3. CASE Refuse
    BY <2>3, RefuseKeeps
  <2>4. CASE ReadMiniHeader
    BY <2>4, ReadMiniHeaderKeeps
  <2>5. CASE ReadLength
    BY <2>5, ReadLengthKeeps
  <2>6. CASE ReadMask
    BY <2>6, ReadMaskKeeps
  <2>7. CASE ReadPiece
    BY <2>7, ReadPieceKeeps
  <2>8. CASE HandleData
    BY <2>8, HandleDataKeeps
  <2>9. CASE HandlePing
    BY <2>9, HandlePingKeeps
  <2>10. CASE HandlePong
    BY <2>10, HandlePongKeeps
  <2>11. CASE HandleClose
    BY <2>11, HandleCloseKeeps
  <2>12. CASE HandleCloseReply
    BY <2>12, HandleCloseReplyKeeps
  <2>13. CASE ReadFails
    BY <2>13, ReadFailsKeeps
  <2>14. CASE WriteDone
    BY <2>14, WriteDoneKeeps
  <2>15. CASE WriteFails
    BY <2>15, WriteFailsKeeps
  <2>16. CASE SendText
    BY <2>16, SendTextKeeps
  <2>17. CASE CloseByServer
    BY <2>17, CloseByServerKeeps
  <2>18. CASE PeerGoes
    BY <2>18, PeerGoesKeeps
  <2>19. CASE ReadHalfHeader
    BY <2>19, ReadHalfHeaderKeeps
  <2> QED
    BY <1>1, <2>1, <2>2, <2>3, <2>4, <2>5, <2>6, <2>7, <2>8, <2>9, <2>10, <2>11, <2>12,
       <2>13, <2>14, <2>15, <2>16, <2>17, <2>18, <2>19 DEF SocketNext, Read
<1>2. CASE UNCHANGED socketVars
  <2> USE <1>2 DEF socketVars
  <2>1. SocketTypeOK'
    BY DEF SocketInv, SocketTypeOK
  <2>2. CloseInv' /\ SendInv' /\ FrameInv'
    BY DEF SocketInv, CloseInv, SendInv, FrameInv
  <2>3. PingsAnswered'
    BY DEF SocketInv, PingsAnswered
  <2>4. StreamInv'
    BY DEF SocketInv, StreamInv
  <2>5. MessageInv'
    BY DEF SocketInv, MessageInv
  <2>6. MessagesIntact'
    BY DEF SocketInv, MessagesIntact
  <2> QED
    BY <2>1, <2>2, <2>3, <2>4, <2>5, <2>6 DEF SocketInv
<1> QED
  BY <1>1, <1>2

\* Every state of a websocket keeps its inductive invariant.
THEOREM SocketInvariance == SocketSpec => []SocketInv
<1>1. SocketInit => SocketInv
  BY SocketInitially
<1>2. SocketInv /\ [SocketNext]_socketVars => SocketInv'
  BY SocketStep
<1> QED
  BY <1>1, <1>2, PTL DEF SocketSpec

\* Until the two bytes of a frame's header are read apart, every message is
\* delivered once, whole, in order and with its type, for any frames, lengths of
\* the buffer and pieces the payloads are read in.
THEOREM MessagesDelivered == SocketSpec => []MessagesIntact
<1>1. SocketInv => MessagesIntact
  BY DEF SocketInv
<1> QED
  BY <1>1, SocketInvariance, PTL

\* What is queued is written in order, and for every ping a pong is queued, for any
\* frames.
THEOREM SocketOrder == SocketSpec => []FramesInOrder
<1>1. SocketInv => FramesInOrder
  <2> SUFFICES ASSUME SocketInv PROVE FramesInOrder
    OBVIOUS
  <2> DEFINE a == ws.sending
             b == ws.queue
  <2>1. sent \in Seq(Outgoing) /\ a \in Seq(Outgoing) /\ b \in Seq(Outgoing)
    BY DEF SocketInv, SocketTypeOK, Connections
  <2>2. ws.socket /\ peer # "reset" => sent \o (a \o b) = submitted
    BY DEF SocketInv, SendInv
  <2>3. ws.socket /\ peer # "reset" => (sent \o a) \o b = submitted
    <3> HIDE DEF a, b
    <3>1. (sent \o a) \o b = sent \o (a \o b)
      BY <2>1, Associated
    <3> QED
      BY <2>2, <3>1
  <2>4. IsPrefix(sent, submitted) /\ PingsAnswered
    BY DEF SocketInv, SendInv
  <2> QED
    BY <2>3, <2>4 DEF FramesInOrder, SentInOrder
<1> QED
  BY <1>1, SocketInvariance, PTL

\* No connection that was accepted is deleted before its close handler is called.
THEOREM ClosesReported == SocketSpec => []CloseReported
<1>1. SocketInv => CloseReported
  BY DEF SocketInv, CloseInv, CloseReported
<1> QED
  BY <1>1, SocketInvariance, PTL
=============================================================================
