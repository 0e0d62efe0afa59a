----------------------------- MODULE MCRingFile -----------------------------
(* Small instances of RingFile.                                            *)
EXTENDS RingFile, TLC

MCSymmetry == Permutations(Creators)
=============================================================================
