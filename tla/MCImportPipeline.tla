------------------------- MODULE MCImportPipeline -------------------------
(* Instances of ImportPipeline for TLC. *)
EXTENDS ImportPipeline, TLC

CONSTANTS i1, i2, alice

\* Two uploads of one user, started at different times: two batches and one.
TwoBatchCount == (i1 :> 2) @@ (i2 :> 1)
TwoUser == [i \in {i1, i2} |-> alice]
TwoDate == (i1 :> 1) @@ (i2 :> 2)

\* One upload of two batches.
OneOfTwo == (i1 :> 2)
OneUser == (i1 :> alice)
OneDate == (i1 :> 1)
===========================================================================
