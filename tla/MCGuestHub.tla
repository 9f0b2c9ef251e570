----------------------------- MODULE MCGuestHub -----------------------------
(* GuestHub for TLC: values of the same kind are interchangeable. *)
EXTENDS GuestHub, TLC

HubSymmetry ==
    Permutations(Invite) \cup Permutations(Session)
        \cup Permutations(Op) \cup Permutations(Reaper)
=============================================================================
