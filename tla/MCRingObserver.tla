--------------------------- MODULE MCRingObserver ---------------------------
(* Small instances of RingObserver.                                        *)
EXTENDS RingObserver

CONSTANT a          \* the word value of the message

MCWordVals   == {0, a}
MCOneMessage == {[k \in Words |-> a]}
=============================================================================
