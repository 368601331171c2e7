----------------------------- MODULE MCUserAdmin -----------------------------
(* An instance of UserAdmin for TLC. *)
EXTENDS UserAdmin, TLC

CONSTANTS a1, a2, u1, s1, s2

SessionSymmetry == Permutations({s1, s2})
=============================================================================
