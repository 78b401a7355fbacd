------------------------- MODULE RelaxedPublication -------------------------
(***************************************************************************)
(* DataEngine::set and get in one bucket, with the memory they run on. All *)
(* atomics of the engine are relaxed. A thread's stores become visible to  *)
(* the others one by one. On a machine with total store order (x86) that   *)
(* is in their order, and a CAS waits for the stores before it; a weaker   *)
(* one (ARM) may make a node's address visible before what the node holds. *)
(*                                                                         *)
(* Reads of a node depend on its address, and no machine considered here   *)
(* moves them before the load of it.                                       *)
(***************************************************************************)
EXTENDS Naturals, Sequences

CONSTANTS
    Threads,
    Keys,
    Null,
    Machine         \* "x86" or "weak"

ASSUME NullIsNothing == Null \notin Keys \cup Threads

VARIABLES
    key,            \* m_key of each node as the others see it; Null: not yet
    next,           \* m_next of each node, and of the bucket (Null)
    pending,        \* the stores of each thread that are not visible yet
    thread          \* the threads

vars == <<key, next, pending, thread>>

\* A thread makes at most one node: the node is named after it.
Nodes == Threads

Init ==
    /\ key = [n \in Nodes |-> Null]
    /\ next = [n \in Nodes \cup {Null} |-> Null]
    /\ pending = [t \in Threads |-> <<>>]
    /\ thread = [t \in Threads |-> [pc |-> "idle", key |-> Null, at |-> Null, raw |-> FALSE]]

\* create_node, for a call of set.
CallSet(t, k) ==
    /\ thread[t].pc = "idle"
    /\ thread' = [thread EXCEPT ![t].pc = "set", ![t].key = k]
    /\ pending' = [pending EXCEPT ![t] = <<k>>]
    /\ UNCHANGED <<key, next>>

CallGet(t, k) ==
    /\ thread[t].pc = "idle"
    /\ thread' = [thread EXCEPT ![t].pc = "get", ![t].key = k]
    /\ UNCHANGED <<key, next, pending>>

\* The stores of a node's fields become visible.
Visible(t) ==
    /\ pending[t] # <<>>
    /\ key' = [key EXCEPT ![t] = Head(pending[t])]
    /\ pending' = [pending EXCEPT ![t] = Tail(@)]
    /\ UNCHANGED <<next, thread>>

\* Faulty: the node is published by a store.
Ordered_Store(t) == TRUE

\* Whether t's CAS may be performed: a locked instruction waits for the stores
\* before it.
Ordered(t) == Machine = "x86" => pending[t] = <<>>

\* The relaxed CAS on the bucket or on m_next of the node the thread is at.
\* The loser goes on with the node it has found.
CompareExchange(t) ==
    /\ thread[t].pc = "set"
    /\ Ordered(t)
    /\ IF next[thread[t].at] = Null
       THEN /\ next' = [next EXCEPT ![thread[t].at] = t]
            /\ thread' = [thread EXCEPT ![t].pc = "returned"]
       ELSE /\ thread' = [thread EXCEPT ![t].pc = "set compare", ![t].at = next[@]]
            /\ UNCHANGED next
    /\ UNCHANGED <<key, pending>>

\* The relaxed load of get.
Load(t) ==
    /\ thread[t].pc = "get"
    /\ thread' = [thread EXCEPT ![t].pc = IF next[thread[t].at] = Null THEN "returned"
                                      ELSE "get compare",
                                ![t].at = next[@]]
    /\ UNCHANGED <<key, next, pending>>

\* node->m_key == key. A key that is not there yet compares in any way.
Compare(t) ==
    /\ thread[t].pc \in {"get compare", "set compare"}
    /\ \E equal \in IF key[thread[t].at] = Null THEN BOOLEAN
                    ELSE {key[thread[t].at] = thread[t].key} :
          thread' = [thread EXCEPT ![t].pc = IF equal THEN "returned"
                                             ELSE IF @ = "get compare" THEN "get" ELSE "set",
                                   ![t].raw = key[thread[t].at] = Null]
    /\ UNCHANGED <<key, next, pending>>

Next == \E t \in Threads :
    \/ \E k \in Keys : CallSet(t, k) \/ CallGet(t, k)
    \/ Visible(t) \/ CompareExchange(t) \/ Load(t) \/ Compare(t)

Spec == Init /\ [][Next]_vars

-----------------------------------------------------------------------------
(* Properties.                                                             *)

\* No thread compares a key that has not been constructed for it: a node is
\* found only with its fields.
KeysConstructed == \A t \in Threads : ~thread[t].raw

\* No key is in the bucket twice: a loser of the race for the end of the list
\* recognises the winner's key.
KeysUnique ==
    LET linked == {n \in Nodes : \E m \in Nodes \cup {Null} : next[m] = n}
    IN  \A m, n \in linked : thread[m].key = thread[n].key => m = n

\* No thread compares a key that has not been constructed for it, and no key is
\* in the bucket twice: a loser of the race for the end of the list recognises
\* the winner's key.
NodesPublished == KeysConstructed /\ KeysUnique

-----------------------------------------------------------------------------
(* The inductive invariant, for a machine with total store order.          *)

\* A thread between create_node and its CAS has written its key, visibly or not.
KeyWritten(t) == key[t] = thread[t].key \/ pending[t] = <<thread[t].key>>

PC == {"idle", "set", "set compare", "get", "get compare", "returned"}

ThreadOK(t) ==
    /\ DOMAIN thread[t] = {"pc", "key", "at", "raw"}
    /\ thread[t].pc \in PC /\ thread[t].raw = FALSE
    /\ thread[t].pc # "idle" => thread[t].key \in Keys
    /\ thread[t].pc \in {"idle", "get", "get compare"} => key[t] = Null /\ pending[t] = <<>>
    /\ thread[t].pc = "idle" => thread[t].at = Null
    /\ thread[t].pc \in {"set", "set compare"} => KeyWritten(t)
    /\ pending[t] \in {<<>>, <<thread[t].key>>}

\* The bucket is a list of the nodes s[1], ..., s[n], which have come to be
\* there with their keys; s[0] stands for the bucket itself.
List(s, n) ==
    /\ s[0] = Null
    /\ \A i \in 1 .. n : /\ s[i] \in Nodes /\ thread[s[i]].pc = "returned"
                         /\ key[s[i]] = thread[s[i]].key /\ thread[s[i]].key \in Keys
                         /\ pending[s[i]] = <<>>
    /\ \A i \in 0 .. n : next[s[i]] = IF i = n THEN Null ELSE s[i + 1]
    /\ \A m \in Nodes : (\A i \in 1 .. n : s[i] # m) => next[m] = Null
    /\ \A i, j \in 1 .. n : thread[s[i]].key = thread[s[j]].key => i = j

\* Where a thread is in the list: a set has compared the keys of all nodes it
\* has come by, and none is its own.
Passed(t, s, p) == \A i \in 1 .. p : thread[s[i]].key # thread[t].key

Place(t, s, n) ==
    /\ thread[t].pc = "set" => \E p \in 0 .. n : thread[t].at = s[p] /\ Passed(t, s, p)
    /\ thread[t].pc = "set compare" =>
         \E p \in 1 .. n : thread[t].at = s[p] /\ Passed(t, s, p - 1)
    /\ thread[t].pc = "get" => \E p \in 0 .. n : thread[t].at = s[p]
    /\ thread[t].pc = "get compare" => \E p \in 1 .. n : thread[t].at = s[p]

IInv ==
    /\ DOMAIN key = Nodes /\ DOMAIN next = Nodes \cup {Null}
    /\ DOMAIN pending = Threads /\ DOMAIN thread = Threads
    /\ \A t \in Threads : ThreadOK(t)
    /\ \E n \in Nat : \E s \in [0 .. n -> Nodes \cup {Null}] :
          List(s, n) /\ \A t \in Threads : Place(t, s, n)
=============================================================================
