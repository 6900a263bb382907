--------------------------- MODULE MCAuthSession ---------------------------
(* Instances of AuthSession for TLC: slots, devices, providers are alike. *)
EXTENDS AuthSession, TLC

Anonymous == Permutations(Requests) \cup Permutations(Devices) \cup Permutations(Providers)
===========================================================================
