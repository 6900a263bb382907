--------------------------- MODULE MCUserProfile ---------------------------
(* Instances of UserProfile for TLC: users, numbers, slots are alike. *)
EXTENDS UserProfile, TLC

Anonymous == Permutations(Users) \cup Permutations(Phones) \cup Permutations(Requests)
===========================================================================
