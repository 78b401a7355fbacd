---------------------------- MODULE KeyValueStore ----------------------------
(***************************************************************************)
(* What DataEngine promises its callers: a dictionary whose get and set    *)
(* take effect at one instant between the call and its return.             *)
(*                                                                         *)
(* A thread calls, its operation takes effect (or fails for want of memory,*)
(* without any effect), and the thread returns with the reply.             *)
(***************************************************************************)

CONSTANTS
    Keys,       \* the keys callers use
    Values,     \* the values callers store
    Threads,    \* the threads of the HTTP server
    Null        \* "no value": std::nullopt, nullptr

(***************************************************************************)
(* Replies other than a value: "pending" (the operation has not taken      *)
(* effect), Null (the key is absent), "stored" (set returned), "failed"    *)
(* (an exception left the operation).                                      *)
(***************************************************************************)
Outcomes == {"pending", "stored", "failed"}

VARIABLES
    store,      \* the dictionary
    call,       \* what each thread is executing
    reply       \* what each thread's operation has answered

vars == <<store, call, reply>>

NoCall == [op |-> "none", key |-> Null, value |-> Null]

Calls == {NoCall} \cup [op : {"get"}, key : Keys, value : {Null}]
                  \cup [op : {"set"}, key : Keys, value : Values]

TypeOK ==
    /\ store \in [Keys -> Values \cup {Null}]
    /\ call \in [Threads -> Calls]
    /\ reply \in [Threads -> Values \cup {Null} \cup Outcomes]

Init ==
    /\ store = [k \in Keys |-> Null]
    /\ call = [t \in Threads |-> NoCall]
    /\ reply = [t \in Threads |-> "pending"]

Call(t, c) ==
    /\ call[t] = NoCall
    /\ call' = [call EXCEPT ![t] = c]
    /\ UNCHANGED <<store, reply>>

\* The operation is under way and has not taken effect.
Pending(t, op) ==
    /\ call[t].op = op
    /\ reply[t] = "pending"

EffectGet(t) ==
    /\ Pending(t, "get")
    /\ reply' = [reply EXCEPT ![t] = store[call[t].key]]
    /\ UNCHANGED <<store, call>>

EffectSet(t) ==
    /\ Pending(t, "set")
    /\ store' = [store EXCEPT ![call[t].key] = call[t].value]
    /\ reply' = [reply EXCEPT ![t] = "stored"]
    /\ UNCHANGED call

Fail(t) ==
    /\ call[t] # NoCall
    /\ reply[t] = "pending"
    /\ reply' = [reply EXCEPT ![t] = "failed"]
    /\ UNCHANGED <<store, call>>

Return(t) ==
    /\ reply[t] # "pending"
    /\ call' = [call EXCEPT ![t] = NoCall]
    /\ reply' = [reply EXCEPT ![t] = "pending"]
    /\ UNCHANGED store

Next == \E t \in Threads :
    \/ \E c \in Calls \ {NoCall} : Call(t, c)
    \/ EffectGet(t)
    \/ EffectSet(t)
    \/ Fail(t)
    \/ Return(t)

Spec == Init /\ [][Next]_vars
=============================================================================
