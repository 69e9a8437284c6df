---------------------------- MODULE MCKeyedOps ----------------------------
(***************************************************************************)
(* Instances of KeyedOps for TLC: the settings of the two schedulers of    *)
(* the storage manager, with small delays.                                 *)
(***************************************************************************)
EXTENDS KeyedOps, TLC

\* Keys are interchangeable.
Symmetric == Permutations(Keys)
=============================================================================
