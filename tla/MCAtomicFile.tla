---------------------------- MODULE MCAtomicFile ----------------------------
(* Instance of AtomicFile for TLC.                                         *)
EXTENDS AtomicFile, TLC

CONSTANTS w1, w2, n1, n2, n3, v1, v2

MCWriters == {w1, w2}
MCNames == {n1, n2, n3}
MCValues == {v1, v2}

MCSymmetry ==
    Permutations(MCWriters) \cup Permutations(MCNames) \cup Permutations(MCValues)
=============================================================================
