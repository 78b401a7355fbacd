-------------------------- MODULE MCCrowConnection --------------------------
(***************************************************************************)
(* Small instances of CrowConnection. Connections are interchangeable.     *)
(***************************************************************************)
EXTENDS CrowConnection, TLC

Symmetry == Permutations(Conns)
=============================================================================
