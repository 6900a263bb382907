---------------------------- MODULE MCTaskStore ----------------------------
(* Instances of TaskStore for TLC: users are alike, and so are ids. *)
EXTENDS TaskStore, TLC

Anonymous == Permutations(Users) \cup Permutations(Ids)
===========================================================================
