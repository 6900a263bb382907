---------------------------- MODULE MCOauthState ----------------------------
(* Instances of OauthState for TLC: keys and slots are interchangeable. *)
EXTENDS OauthState, TLC

Anonymous == Permutations(Keys) \cup Permutations(Requests)
=============================================================================
