---------------------------- MODULE MCUserCache ----------------------------
(* Two users, two administrators, two requests at once. *)
EXTENDS UserCache, TLC

Symmetry ==
  Permutations(Users) \cup Permutations(Tasks) \cup Permutations(Gates)
=============================================================================
