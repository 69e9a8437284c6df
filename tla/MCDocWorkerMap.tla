--------------------------- MODULE MCDocWorkerMap ---------------------------
(***************************************************************************)
(* Instances of DocWorkerMap for TLC.                                      *)
(***************************************************************************)
EXTENDS DocWorkerMap, TLC

CONSTANTS g1, g2

\* One group that wants one worker; no worker is reserved for a group.
OneGroup == <<g1>>
WantsOne == [g \in {g1} |-> 1]
NonePreset == [w \in Workers |-> Default]
WantsNone == [g \in {g1} |-> 0]
AnyGroup == Groups

Symmetric == Permutations(Workers) \cup Permutations(Docs)
=============================================================================
