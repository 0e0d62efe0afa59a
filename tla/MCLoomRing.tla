----------------------------- MODULE MCLoomRing -----------------------------
(* The instance of the loom models: two slots, and two readers in every    *)
(* role, of which at least one pops.                                       *)
EXTENDS LoomRing

MCRoles == {[r \in Readers |-> IF r = 0 THEN x ELSE "pop"] :
               x \in {"pop", "loan", "wait"}}
=============================================================================
