----------------------------- MODULE MCSpmcRing -----------------------------
(* Small instances of SpmcRing: two messages that differ in every word, so *)
(* that a record mixed from two of them is neither.                        *)
EXTENDS SpmcRing, TLC

CONSTANTS a, b      \* the word values of the two messages

MCWordVals == {0, a, b}
MCMessages == {[k \in Words |-> v] : v \in {a, b}}
MCSymmetry == Permutations({a, b})
=============================================================================
