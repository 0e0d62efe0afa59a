--------------------------- MODULE MCNotifiedRing ---------------------------
(* A small instance of NotifiedRing.                                       *)
EXTENDS NotifiedRing
=============================================================================
