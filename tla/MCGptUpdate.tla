---------------------------- MODULE MCGptUpdate ----------------------------
(***************************************************************************)
(* Instances of GptUpdate for TLC.  The devices:                           *)
(*   ufs    tz and hyp on two LUNs, each beside its twin, and xbl in the   *)
(*          two boot LUNs;                                                 *)
(*   mixed  l1 holds tz and its twin, l2 holds abl, whose twin is nowhere, *)
(*          and the twin of devcfg, whose main copy is on l1;              *)
(*   single one LUN with tz and its twin, and abl without a twin.          *)
(* A LUN with nothing to swap answers 0 to UPDATE_MAIN and an error to     *)
(* UPDATE_BACKUP: on mixed no update gets further than its main stage.     *)
(***************************************************************************)
EXTENDS GptUpdate, TLC

CONSTANTS l1, l2, tz, hyp, abl, devcfg, xbl

UfsLuns     == {l1, l2}
UfsParts    == {tz, hyp}
UfsLunOf    == tz :> l1 @@ hyp :> l2
UfsBakLunOf == tz :> l1 @@ hyp :> l2

MixedParts    == {tz, abl, devcfg}
MixedLunOf    == tz :> l1 @@ abl :> l2 @@ devcfg :> l1
MixedBakLunOf == tz :> l1 @@ abl :> NoLun @@ devcfg :> l2
MixedLuns     == {l1, l2}

SingleLuns     == {l1}
SingleParts    == {tz, abl}
SingleLunOf    == tz :> l1 @@ abl :> l1
SingleBakLunOf == tz :> l1 @@ abl :> NoLun
=============================================================================
