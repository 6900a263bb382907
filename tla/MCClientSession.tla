-------------------------- MODULE MCClientSession --------------------------
(* Instances of ClientSession for TLC: request slots are alike. *)
EXTENDS ClientSession, TLC

Anonymous == Permutations(Requests)
===========================================================================
