----------------------------- MODULE MCSessions -----------------------------
(* Sessions for TLC: the slots of Link are interchangeable.                *)
EXTENDS Sessions, TLC

LinkSymmetry == Permutations(Link)
=============================================================================
