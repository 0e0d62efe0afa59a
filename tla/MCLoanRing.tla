----------------------------- MODULE MCLoanRing -----------------------------
(* Small instances of LoanRing: one-word records, loans interchangeable.   *)
EXTENDS LoanRing, TLC

CONSTANTS a, b          \* the word values of the messages

MCWordVals == {0, a, b}
MCMessages == {[k \in Words |-> v] : v \in {a, b}}
MCOneMessage == {[k \in Words |-> a]}
MCSymmetry == Permutations(LoanIds) \cup Permutations({a, b})
=============================================================================
