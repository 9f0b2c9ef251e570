------------------------------ MODULE MCTrust ------------------------------
(* Trust for TLC: keys, names and handlers are interchangeable. *)
EXTENDS Trust, TLC

TrustSymmetry == Permutations(Key) \cup Permutations(Nick) \cup Permutations(Job)
=============================================================================
