----------------------------- MODULE MCGptDisk -----------------------------
(* Two disks; two partitions on the first, one on the second, one missing. *)
EXTENDS GptDisk, TLC

CONSTANTS l1, l2, boot, dtbo, modem, odm

DiskParts == {boot, dtbo, modem, odm}
DiskLunOf == (boot :> l1) @@ (dtbo :> l1) @@ (modem :> l2) @@ (odm :> NoLun)
DiskList  == <<boot, modem, odm, dtbo>>
=============================================================================
