---------------------------- MODULE MCOtaScript ----------------------------
(* OtaScript on the UFS device of MCGptUpdate: two LUNs with one protected *)
(* partition each, and xbl in the boot LUNs. *)
EXTENDS OtaScript, TLC

CONSTANTS l1, l2, tz, hyp, xbl

UfsLuns     == {l1, l2}
UfsParts    == {tz, hyp}
UfsLunOf    == tz :> l1 @@ hyp :> l2
UfsBakLunOf == tz :> l1 @@ hyp :> l2
=============================================================================
