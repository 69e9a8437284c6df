--------------------------- MODULE MCHostedStorage --------------------------
\* Instances of HostedStorage for TLC.
EXTENDS HostedStorage, TLC

CONSTANTS w1, w2, e1, e2, e3

MCWorkers == {w1, w2}
MCThreeEdits == {e1, e2, e3}
MCSymmetry == Permutations(MCWorkers) \cup Permutations(MCThreeEdits)
=============================================================================
