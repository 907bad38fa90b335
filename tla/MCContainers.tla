---------------------------- MODULE MCContainers ----------------------------
(* Instances of Containers for TLC.                                        *)
EXTENDS Containers, TLC

CONSTANTS c1, c2, b1, b2

MCContainers == {c1, c2}
MCBundles == {b1, b2}

(* Ids are interchangeable, and so are bundles.                            *)
MCSymmetry == Permutations(MCContainers) \cup Permutations(MCBundles)
=============================================================================
