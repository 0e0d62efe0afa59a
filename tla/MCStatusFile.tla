---------------------------- MODULE MCStatusFile ----------------------------
(* Small instances of StatusFile.                                          *)
EXTENDS StatusFile, TLC

MCSymmetry == Permutations(Values) \cup Permutations(Cleaners)
=============================================================================
