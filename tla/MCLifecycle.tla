----------------------------- MODULE MCLifecycle -----------------------------
(***************************************************************************)
(* Small instances of Lifecycle. AnyFile: no file, an unreadable one, or   *)
(* an object of up to two members, with one key twice or a member that is  *)
(* no string.                                                              *)
(***************************************************************************)
EXTENDS Lifecycle, SequencesExt

AnyFile == {Missing, Garbage} \cup
           {Object(records) : records \in SeqOf(Records, 2)}

NoFile == {Missing}
=============================================================================
