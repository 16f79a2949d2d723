------------------------------ MODULE GptUpdate ------------------------------
(***************************************************************************)
(* The failsafe boot update of gpt-utils.cpp: prepare_boot_update and what *)
(* it calls, the disks it rewrites one block operation at a time, power    *)
(* loss and I/O errors between any two of them, the updater that calls it  *)
(* and the boot firmware that reads the disks after a power loss.          *)
(*                                                                         *)
(* A GPT disk (an eMMC device, or one LUN of a UFS device) has a primary   *)
(* header and entry array at its start and a secondary pair at its end.    *)
(* An entry array is abstracted to the order in which it lists the two     *)
(* twins of each partition: "normal" (the main copy is found first),       *)
(* "swapped" (gpt_boot_chain_swap has put the backup first) or "torn"      *)
(* (overwritten in part, or damaged: it matches no CRC).  A header keeps   *)
(* its signature, whether its own CRC matches, and which array contents    *)
(* its PARTITION_CRC field stands for.                                     *)
(***************************************************************************)
EXTENDS Naturals

CONSTANTS
    Luns,        \* the disks with a GPT
    Parts,       \* the swap-list partitions found through a GPT
    BootParts,   \* xbl images kept in the two UFS boot LUNs instead
    LunOf,       \* LunOf[p]: the disk with partition p
    BakLunOf,    \* BakLunOf[p]: the disk with p's twin "<p>bak", or NoLun
    NoLun,
    IsUfs,       \* gpt_utils_is_ufs_device()
    LookupFails, \* existing by-name symlinks whose lookup may fail: of "twins", of "xbl"
    TornBlocks   \* may a power loss or an error tear a single-block write?

ASSUME ConstantsOK ==
    /\ NoLun \notin Luns
    /\ LunOf \in [Parts -> Luns]
    /\ BakLunOf \in [Parts -> Luns \cup {NoLun}]
    /\ Parts \cap BootParts = {}
    /\ {IsUfs, TornBlocks} \subseteq BOOLEAN
    /\ LookupFails \subseteq {"twins", "xbl"}
    /\ ~IsUfs => BootParts = {} /\ \E l \in Luns : Luns = {l}

VARIABLES
    prim, sec,   \* prim[l], sec[l]: the GPT headers of disk l
    parr, sarr,  \* parr[l], sarr[l]: their partition entry arrays
    bootLun,     \* the UFS attribute bBootLunEn: boot from LUN "A" or "B"
    img,         \* img[i][c]: contents of copy c of image i
    pc,          \* where the call in progress stands; "idle": no call
    stage,       \* argument of the call
    todo,        \* disks prepare_boot_update has still to prepare
    cur,         \* the disk prepare_partitions works on
    err,         \* is_error
    ready,       \* stage the updater may work on: its last call returned 0
    skipped,     \* history: disks of the update some call has left out
    xblMissed    \* history: UPDATE_BACKUP missed xbl and left the boot LUN at B

disk   == <<prim, sec, parr, sarr, bootLun>>
call   == <<pc, stage, todo, cur, err, ready, skipped, xblMissed>>
vars   == <<prim, sec, parr, sarr, bootLun, img,
            pc, stage, todo, cur, err, ready, skipped, xblMissed>>

(***************************************************************************)
(* Constants and helpers                                                   *)
(***************************************************************************)

UPDATE_MAIN     == 1
UPDATE_BACKUP   == 2
UPDATE_FINALIZE == 3
Stages          == {UPDATE_MAIN, UPDATE_BACKUP, UPDATE_FINALIZE}

Copy    == {"main", "bak"}
Content == {"old", "part", "new"}
Order   == {"normal", "swapped"}
Header  == [sig : BOOLEAN, crc : BOOLEAN, arr : Order]
Images  == Parts \cup BootParts

HasBackup(i) == i \in BootParts \/ (i \in Parts /\ BakLunOf[i] # NoLun)

(* Images whose twins share a disk: the ones gpt_boot_chain_swap swaps. *)
Protected == {p \in Parts : BakLunOf[p] = LunOf[p]}

(* Disks on which gpt_boot_chain_swap finds something to swap. *)
Backed == {LunOf[p] : p \in Protected}

(* The disks of an update: on UFS those the "<name>bak" symlinks resolve to, *)
(* without duplicates; the names that start with xbl are left out (BootParts). *)
UpdateLuns ==
    IF IsUfs THEN {BakLunOf[p] : p \in Parts} \ {NoLun} ELSE Luns

(* A symlink that cannot be looked up is only skipped: its disk may be *)
(* missing from the list of this call. *)
Listings == IF IsUfs /\ "twins" \in LookupFails THEN SUBSET UpdateLuns ELSE {UpdateLuns}

(* xbl and xblbak both exist: the boot LUN is to be switched along. *)
XblSwitch == IsUfs /\ BootParts # {}

(* What stat says of the two, each time: one that fails is taken to mean *)
(* that the target does not use xbl. *)
XblLookups ==
    IF ~XblSwitch THEN {FALSE} ELSE {TRUE} \cup {"xbl" \notin LookupFails}

(* gpt_get_state: a CRC mismatch overrides a bad signature, and the CRC of *)
(* the entry array is not looked at. *)
GptState(h) ==
    CASE ~h.crc            -> "BAD_CRC"
      [] h.crc /\ ~h.sig   -> "BAD_SIGNATURE"
      [] h.crc /\ h.sig    -> "OK"

(* Seeded fault: only the signature is looked at. *)
UnusableSignatureOnly(l) ==
    ~prim[l].sig /\ ~sec[l].sig

(* Combinations prepare_partitions refuses to touch. *)
Unusable(l) ==
    \/ GptState(prim[l]) = "BAD_CRC" \/ GptState(sec[l]) = "BAD_CRC"
    \/ GptState(prim[l]) = "BAD_SIGNATURE" /\ GptState(sec[l]) = "BAD_SIGNATURE"

(* The stage the headers of disk l say comes next. *)
InternalStage(l) ==
    CASE prim[l].sig /\ sec[l].sig   -> UPDATE_MAIN
      [] ~prim[l].sig                -> UPDATE_BACKUP
      [] prim[l].sig /\ ~sec[l].sig  -> UPDATE_FINALIZE

(***************************************************************************)
(* The boot firmware (external): it takes the primary GPT if its header    *)
(* and its array are valid, else the secondary, and loads the first twin   *)
(* the array lists; xbl comes from the enabled boot LUN.                   *)
(***************************************************************************)

PrimValid(l) == prim[l].sig /\ prim[l].crc /\ prim[l].arr = parr[l]
SecValid(l)  == sec[l].sig /\ sec[l].crc /\ sec[l].arr = sarr[l]

FirstTwin(order) == IF order = "swapped" THEN "bak" ELSE "main"

Selected(p) ==
    LET l == LunOf[p] IN
    CASE PrimValid(l)                  -> FirstTwin(parr[l])
      [] ~PrimValid(l) /\ SecValid(l)  -> FirstTwin(sarr[l])
      [] OTHER                         -> "none"

XblSelected == IF bootLun = "B" THEN "bak" ELSE "main"

(***************************************************************************)
(* Initial states: a device between two updates.  An array may have been   *)
(* damaged before (a CRC mismatch gpt_get_state does not see), never both. *)
(***************************************************************************)

Fresh == [sig |-> TRUE, crc |-> TRUE, arr |-> "normal"]

Init ==
    /\ prim = [l \in Luns |-> Fresh]
    /\ sec  = [l \in Luns |-> Fresh]
    /\ parr \in [Luns -> {"normal", "torn"}]
    /\ sarr \in [Luns -> {"normal", "torn"}]
    /\ \A l \in Luns : parr[l] = "normal" \/ sarr[l] = "normal"
    /\ bootLun = "A"
    /\ img = [i \in Images |-> [c \in Copy |-> "old"]]
    /\ pc = "idle" /\ stage = 0 /\ todo = {} /\ cur = NoLun
    /\ err = FALSE /\ ready = 0 /\ skipped = {} /\ xblMissed = FALSE

(***************************************************************************)
(* The updater (external).  It goes on to the backup copies only when the  *)
(* main ones are all of one version, and finalizes only when the backup    *)
(* ones are; it writes a copy only after the call for its stage returned 0,*)
(* and backup copies only once every main one is new.                      *)
(***************************************************************************)

AllAre(c, v) == \A i \in Images : (c = "bak" => HasBackup(i)) => img[i][c] = v
Uniform(c)   == AllAre(c, "old") \/ AllAre(c, "new")

(* prepare_boot_update(s) is called and lists the disks of the symlinks it *)
(* can look up. *)
Prepare(s) ==
    /\ pc = "idle"
    /\ s = UPDATE_BACKUP => Uniform("main")
    /\ s = UPDATE_FINALIZE => Uniform("bak")
    /\ pc' = "next" /\ stage' = s /\ todo' \in Listings
    /\ skipped' = skipped \cup (UpdateLuns \ todo')
    /\ err' = FALSE /\ ready' = 0
    /\ UNCHANGED <<disk, img, cur, xblMissed>>

MayWrite(i, c) ==
    /\ pc = "idle"
    /\ \/ c = "main" /\ ready = UPDATE_MAIN
       \/ c = "bak" /\ ready = UPDATE_BACKUP /\ HasBackup(i) /\ AllAre("main", "new")

BeginImage(i, c) ==
    /\ MayWrite(i, c)
    /\ img' = [img EXCEPT ![i][c] = "part"]
    /\ UNCHANGED <<disk, call>>

EndImage(i, c) ==
    /\ MayWrite(i, c)
    /\ img[i][c] = "part"
    /\ img' = [img EXCEPT ![i][c] = "new"]
    /\ UNCHANGED <<disk, call>>

(***************************************************************************)
(* prepare_boot_update: one disk after the other, going on after a failure *)
(***************************************************************************)

PickLun ==
    /\ pc = "next" /\ todo # {}
    /\ \E l \in todo : cur' = l /\ todo' = todo \ {l}
    /\ pc' = "stage"
    /\ UNCHANGED <<disk, img, stage, err, ready, skipped, xblMissed>>

(* Seeded fault: is_error is forgotten. *)
ReturnAlwaysZero ==
    /\ pc = "next" /\ todo = {}
    /\ ready' = stage
    /\ pc' = "idle" /\ stage' = 0 /\ err' = FALSE
    /\ UNCHANGED <<disk, img, todo, cur, skipped, xblMissed>>

Return ==
    /\ pc = "next" /\ todo = {}
    /\ ready' = IF err THEN 0 ELSE stage
    /\ pc' = "idle" /\ stage' = 0 /\ err' = FALSE
    /\ UNCHANGED <<disk, img, todo, cur, skipped, xblMissed>>

(***************************************************************************)
(* prepare_partitions, from one block operation to the next                *)
(***************************************************************************)

LunDone(failed) ==
    /\ pc' = "next" /\ cur' = NoLun /\ err' = (err \/ failed)
    /\ UNCHANGED <<stage, todo, ready, skipped>>

Continue(step) ==
    /\ pc' = step
    /\ UNCHANGED <<stage, todo, cur, err, ready, skipped>>

(* Seeded fault: FINALIZE does not undo the swap before it makes the *)
(* secondary header valid again. *)
FirstStepNoUndo(xblFound) ==
    IF stage # UPDATE_FINALIZE /\ xblFound THEN "lun"
    ELSE CASE stage = UPDATE_MAIN     -> "hdr"
           [] stage = UPDATE_BACKUP   -> "prim"
           [] stage = UPDATE_FINALIZE -> "sec"

FirstStep(xblFound) ==
    IF stage # UPDATE_FINALIZE /\ xblFound THEN "lun"
    ELSE IF stage = UPDATE_BACKUP THEN "prim" ELSE "hdr"

(* The accepted stage begins.  A boot LUN that UPDATE_BACKUP should have *)
(* taken back from B stays there when xbl is not found: "Non fatal error". *)
StartStage ==
    \E xblFound \in XblLookups :
        /\ Continue(FirstStep(xblFound))
        /\ xblMissed' = (xblMissed \/ (/\ XblSwitch /\ ~xblFound
                                       /\ stage = UPDATE_BACKUP /\ bootLun = "B"))

(* Seeded fault: the unexpected-stage check is dropped. *)
CheckStageUnguarded ==
    /\ pc = "stage"
    /\ \/ Unusable(cur) /\ LunDone(TRUE) /\ UNCHANGED xblMissed
       \/ /\ ~Unusable(cur) /\ stage = InternalStage(cur) - 1
          /\ LunDone(FALSE) /\ UNCHANGED xblMissed
       \/ ~Unusable(cur) /\ stage # InternalStage(cur) - 1 /\ StartStage
    /\ UNCHANGED <<disk, img>>

(* Seeded fault: a disk that is already where the stage leads is refused. *)
CheckStageStrict ==
    /\ pc = "stage"
    /\ \/ /\ Unusable(cur) \/ stage # InternalStage(cur)
          /\ LunDone(TRUE) /\ UNCHANGED xblMissed
       \/ ~Unusable(cur) /\ stage = InternalStage(cur) /\ StartStage
    /\ UNCHANGED <<disk, img>>

CheckStage ==
    /\ pc = "stage"
    /\ \/ /\ \/ Unusable(cur) /\ LunDone(TRUE)
             \/ ~Unusable(cur) /\ stage = InternalStage(cur) - 1 /\ LunDone(FALSE)
             \/ /\ ~Unusable(cur)
                /\ stage # InternalStage(cur) - 1 /\ stage # InternalStage(cur)
                /\ LunDone(TRUE)
          /\ UNCHANGED xblMissed
       \/ ~Unusable(cur) /\ stage = InternalStage(cur) /\ StartStage
    /\ UNCHANGED <<disk, img>>

(* Seeded fault: both stages boot the backup LUN. *)
BootLunForBackup == "B"

BootLunFor == IF stage = UPDATE_MAIN THEN "B" ELSE "A"

(* gpt_utils_set_xbl_boot_partition: the ioctl that switches the boot LUN. *)
SwitchBootLun ==
    /\ pc = "lun"
    /\ bootLun' = BootLunFor
    /\ xblMissed' = (xblMissed /\ bootLun' = "B")
    /\ Continue(IF stage = UPDATE_MAIN THEN "hdr" ELSE "prim")
    /\ UNCHANGED <<prim, sec, parr, sarr, img>>

(* gpt2_set_boot_chain starts from the PRIMARY array and writes the        *)
(* SECONDARY header first, then the array.                                 *)
(* Seeded fault: the array is written back without the swap. *)
ChainOrderUnswapped == "normal"

ChainOrder == IF stage = UPDATE_MAIN THEN "swapped" ELSE "normal"

(* Seeded fault: the CRC of the array in the header is not recomputed. *)
ChainHeaderNoArrayCrc == [sec[cur] EXCEPT !.crc = TRUE]

ChainHeader == [sec[cur] EXCEPT !.crc = TRUE, !.arr = ChainOrder]

(* Seeded fault: the result 1 of the swap is not looked at. *)
NothingToSwapIgnored == FALSE

NothingToSwap == stage = UPDATE_MAIN /\ cur \notin Backed

WriteChainHeader ==
    /\ pc = "hdr"
    /\ \/ /\ parr[cur] = "torn"           \* primary array CRC invalid
          /\ LunDone(TRUE)
          /\ UNCHANGED sec
       \/ /\ parr[cur] # "torn" /\ NothingToSwap   \* returns 1, taken as 0
          /\ LunDone(FALSE)
          /\ UNCHANGED sec
       \/ /\ parr[cur] # "torn" /\ ~NothingToSwap
          /\ sec' = [sec EXCEPT ![cur] = ChainHeader]
          /\ Continue("arr")
    /\ UNCHANGED <<prim, parr, sarr, bootLun, img, xblMissed>>

(* The array spans several blocks: it is torn until the write is done. *)
BeginChainArray ==
    /\ pc = "arr"
    /\ sarr' = [sarr EXCEPT ![cur] = "torn"]
    /\ Continue("arr2")
    /\ UNCHANGED <<prim, sec, parr, bootLun, img, xblMissed>>

EndChainArray ==
    /\ pc = "arr2"
    /\ sarr' = [sarr EXCEPT ![cur] = ChainOrder]
    /\ Continue(IF stage = UPDATE_MAIN THEN "prim" ELSE "sec")
    /\ UNCHANGED <<prim, sec, parr, bootLun, img, xblMissed>>

(* gpt_set_state: the signature is cleared or restored, the CRC recomputed. *)
PrimHeader == [prim[cur] EXCEPT !.crc = TRUE, !.sig = (stage = UPDATE_BACKUP)]
SecHeader  == [sec[cur] EXCEPT !.crc = TRUE, !.sig = (stage = UPDATE_FINALIZE)]

SetPrimaryState ==
    /\ pc = "prim"
    /\ prim' = [prim EXCEPT ![cur] = PrimHeader]
    /\ \/ stage = UPDATE_MAIN /\ LunDone(FALSE)
       \/ stage = UPDATE_BACKUP /\ Continue("sec")
    /\ UNCHANGED <<sec, parr, sarr, bootLun, img, xblMissed>>

SetSecondaryState ==
    /\ pc = "sec"
    /\ sec' = [sec EXCEPT ![cur] = SecHeader]
    /\ LunDone(FALSE)
    /\ UNCHANGED <<prim, parr, sarr, bootLun, img, xblMissed>>

(***************************************************************************)
(* Failures                                                                *)
(***************************************************************************)

(* What a failed or interrupted single-block write can leave behind. *)
Torn(old) == IF TornBlocks THEN {[old EXCEPT !.crc = FALSE]} ELSE {}
AfterFailedWrite(old, new) == {old, new} \cup Torn(old)

(* The header writes that may be under way at pc. *)
WritesPrim == pc = "prim"
WritesSec  == \/ pc = "sec"
              \/ pc = "hdr" /\ parr[cur] # "torn" /\ ~NothingToSwap

PendingSec == IF pc = "hdr" THEN ChainHeader ELSE SecHeader

(* open, a read, a write, its fsync or the ioctl fails: prepare_partitions *)
(* returns an error and the caller goes on with the next disk.             *)
IoError ==
    /\ pc \in {"stage", "lun", "hdr", "arr", "arr2", "prim", "sec"}
    /\ LunDone(TRUE)
    /\ IF WritesPrim
       THEN \E h \in AfterFailedWrite(prim[cur], PrimHeader) :
                prim' = [prim EXCEPT ![cur] = h]
       ELSE UNCHANGED prim
    /\ IF WritesSec
       THEN \E h \in AfterFailedWrite(sec[cur], PendingSec) :
                sec' = [sec EXCEPT ![cur] = h]
       ELSE UNCHANGED sec
    /\ IF pc = "lun" THEN bootLun' \in {bootLun, BootLunFor} ELSE UNCHANGED bootLun
    /\ xblMissed' = (xblMissed /\ bootLun' = "B")
    /\ UNCHANGED <<parr, sarr, img>>

(* Power loss and reboot: the disks stay, the updater starts over. *)
Crash ==
    /\ pc' = "idle" /\ stage' = 0 /\ todo' = {} /\ cur' = NoLun
    /\ err' = FALSE /\ ready' = 0
    /\ IF WritesPrim
       THEN \E h \in {prim[cur]} \cup Torn(prim[cur]) : prim' = [prim EXCEPT ![cur] = h]
       ELSE UNCHANGED prim
    /\ IF WritesSec
       THEN \E h \in {sec[cur]} \cup Torn(sec[cur]) : sec' = [sec EXCEPT ![cur] = h]
       ELSE UNCHANGED sec
    /\ UNCHANGED <<parr, sarr, bootLun, img, skipped, xblMissed>>

Library ==
    \/ PickLun \/ Return \/ CheckStage \/ SwitchBootLun
    \/ WriteChainHeader \/ BeginChainArray \/ EndChainArray
    \/ SetPrimaryState \/ SetSecondaryState

Updater ==
    \/ \E s \in Stages : Prepare(s)
    \/ \E i \in Images, c \in Copy : BeginImage(i, c) \/ EndImage(i, c)

Next == Library \/ Updater \/ IoError \/ Crash

Spec == Init /\ [][Next]_vars

(***************************************************************************)
(* Properties                                                              *)
(***************************************************************************)

TypeOK ==
    /\ prim \in [Luns -> Header] /\ sec \in [Luns -> Header]
    /\ parr \in [Luns -> Order \cup {"torn"}]
    /\ sarr \in [Luns -> Order \cup {"torn"}]
    /\ bootLun \in {"A", "B"}
    /\ img \in [Images -> [Copy -> Content]]
    /\ pc \in {"idle", "next", "stage", "lun", "hdr", "arr", "arr2", "prim", "sec"}
    /\ stage \in {0} \cup Stages /\ ready \in {0} \cup Stages
    /\ todo \in SUBSET Luns /\ skipped \in SUBSET Luns
    /\ cur \in Luns \cup {NoLun}
    /\ err \in BOOLEAN /\ xblMissed \in BOOLEAN

(* Protected images whose disk no call has left out. *)
Covered == {p \in Protected : LunOf[p] \notin skipped}

(* Whatever call, write or power loss comes next, every disk has a GPT the *)
(* firmware accepts and every protected image a copy it leads to, and that *)
(* copy is complete unless a symlink of its disk could not be looked up:   *)
(* no crash point of prepare_partitions, and no crash between a call and   *)
(* the updater's writes, leaves a device that cannot boot, and a disk left *)
(* out endangers no image of another one.                                  *)
Failsafe ==
    /\ \A l \in Luns : PrimValid(l) \/ SecValid(l)
    /\ \A p \in Protected : Selected(p) \in Copy
    /\ \A p \in Covered : img[p][Selected(p)] # "part"

(* A backup xbl that is being overwritten is not the one that boots: no    *)
(* sequence of partly failed calls over several LUNs leaves the boot LUN   *)
(* at B while the updater may work on the backup copies, as long as every  *)
(* call has found all the disks (the boot LUN follows any one of them) and *)
(* UPDATE_BACKUP has not passed over the boot LUN, at B ever since, for an *)
(* xbl it could not look up ("Non fatal error", gpt-utils.cpp:867).        *)
XblBackupFailsafe ==
    skipped = {} /\ ~xblMissed =>
        \A x \in BootParts : img[x]["bak"] = "part" => XblSelected = "main"

(* When the call for UPDATE_FINALIZE returns 0, "the primary/backup GPT    *)
(* headers once again point to the same set of partitions"                 *)
(* (gpt-utils.cpp:902) on every disk of the update no call has left out,   *)
(* both are valid, and the boot LUN is A again if no disk was left out and *)
(* UPDATE_BACKUP has not missed xbl.                                       *)
FinalizeRestores ==
    ready = UPDATE_FINALIZE =>
        /\ skipped = {} /\ ~xblMissed => bootLun = "A"
        /\ \A l \in UpdateLuns \ skipped :
            PrimValid(l) /\ SecValid(l) /\ sarr[l] = parr[l]

(* Disks are switched one at a time, so a crash can leave two of them      *)
(* booting different versions; this only happens once every main copy is   *)
(* new, never while they are partly written, except on disks left out.     *)
MixedOnlyAfterMain ==
    (\E p, q \in Covered : img[p][Selected(p)] # img[q][Selected(q)])
        => AllAre("main", "new")

(* "No backup partitions - do not corrupt GPT" (gpt-utils.cpp:849): the    *)
(* GPTs of a disk without twins never change, whatever is called.          *)
UnbackedUntouched ==
    [][\A l \in Luns \ Backed :
        prim'[l] = prim[l] /\ sec'[l] = sec[l] /\ sarr'[l] = sarr[l]]_vars

(* "GPT headers CRC corruption detected, aborting" (gpt-utils.cpp:783): a  *)
(* disk with a header whose CRC is wrong is never written again, so no     *)
(* recomputed CRC ever covers garbage.                                     *)
CorruptHeaderFrozen ==
    [][\A l \in Luns :
        ~prim[l].crc \/ ~sec[l].crc =>
            prim'[l] = prim[l] /\ sec'[l] = sec[l] /\ sarr'[l] = sarr[l]]_vars

(* Every step of the update is a step of the abstract failsafe update of   *)
(* the protected images, or leaves it unchanged; a call that leaves a disk *)
(* out exposes the images on it.                                           *)
Abs == INSTANCE FailsafeUpdate WITH
    Images <- Protected,
    boot   <- [p \in Protected |-> Selected(p)],
    img    <- [p \in Protected |-> img[p]],
    exposed <- Protected \ Covered

ImplementsFailsafeUpdate == Abs!Spec

(* "Stage already set - ready for update" (gpt-utils.cpp:809), after "the  *)
(* boot lun" was switched "so that backup boot LUN is used" (830): when    *)
(* the call for UPDATE_MAIN has returned 0 and some disk was prepared, the *)
(* backup xbl is the one that boots.                                       *)
ReadyMeansBackupXbl ==
    ready = UPDATE_MAIN /\ XblSwitch /\ UpdateLuns \cap Backed # {}
        => XblSelected = "bak"

(***************************************************************************)
(* The inductive invariant behind these properties (GptUpdate_proofs).     *)
(***************************************************************************)

HdrOK(h) == h.sig /\ h.crc

(* The primary GPT is given up only behind a complete, swapped secondary.  *)
DiskInv(l) ==
    /\ prim[l].arr = "normal" /\ parr[l] \in {"normal", "torn"}
    /\ ~HdrOK(prim[l]) =>
        SecValid(l) /\ sarr[l] = "swapped" /\ parr[l] = "normal" /\ l \in Backed
    /\ parr[l] = "torn" => SecValid(l) /\ sarr[l] = "normal"
    /\ l \notin Backed => HdrOK(prim[l]) /\ HdrOK(sec[l])

(* A covered copy is overwritten only while its GPT is the one not in use. *)
ImgInv(p) ==
    /\ img[p]["main"] = "part" => ~HdrOK(prim[LunOf[p]])
    /\ img[p]["bak"] = "part" => HdrOK(prim[LunOf[p]]) /\ ~HdrOK(sec[LunOf[p]])

(* Disk l stands at stage s. *)
AtStage(l, s) ==
    /\ s = UPDATE_MAIN => HdrOK(prim[l]) /\ HdrOK(sec[l])
    /\ s = UPDATE_BACKUP => prim[l].crc /\ ~prim[l].sig
    /\ s = UPDATE_FINALIZE => HdrOK(prim[l]) /\ sec[l].crc /\ ~sec[l].sig

(* Disk l is where stage s leaves it. *)
Prepared(l, s) ==
    /\ s = UPDATE_MAIN => (l \in Backed => ~HdrOK(prim[l]))
    /\ s = UPDATE_BACKUP => AtStage(l, UPDATE_FINALIZE)
    /\ s = UPDATE_FINALIZE => PrimValid(l) /\ SecValid(l) /\ sarr[l] = "normal"

InLun == {"stage", "lun", "hdr", "arr", "arr2", "prim", "sec"}

CallInv ==
    /\ (pc = "idle") <=> (stage = 0)
    /\ pc # "idle" => ready = 0
    /\ IF pc \in InLun THEN cur \in UpdateLuns ELSE cur = NoLun
    /\ todo \subseteq UpdateLuns /\ skipped \subseteq UpdateLuns
    /\ stage = UPDATE_BACKUP => \A i \in Images : img[i]["main"] # "part"
    /\ stage = UPDATE_FINALIZE =>
        \A i \in Images : HasBackup(i) => img[i]["bak"] # "part"
    /\ \A i \in Images : img[i]["bak"] = "part" => HasBackup(i)

StepInv ==
    /\ pc = "lun" => stage # UPDATE_FINALIZE /\ XblSwitch
    /\ pc \in {"hdr", "arr", "arr2"} => stage # UPDATE_BACKUP
    /\ pc = "prim" => stage # UPDATE_FINALIZE
    /\ pc = "sec" => stage # UPDATE_MAIN
    /\ pc \in {"lun", "hdr"} => AtStage(cur, stage)
    /\ pc = "prim" /\ stage = UPDATE_BACKUP => AtStage(cur, stage)
    /\ pc \in {"arr", "arr2", "prim", "sec"} => parr[cur] = "normal" /\ cur \in Backed
    /\ pc \in {"arr", "arr2", "sec"} => HdrOK(prim[cur])
    /\ pc \in {"arr", "arr2"} =>
        /\ sec[cur].crc /\ sec[cur].arr = ChainOrder
        /\ sec[cur].sig <=> (stage = UPDATE_MAIN)
    /\ pc = "prim" /\ stage = UPDATE_MAIN =>
        AtStage(cur, stage) /\ SecValid(cur) /\ sarr[cur] = "swapped"
    /\ pc = "sec" /\ stage = UPDATE_BACKUP => HdrOK(sec[cur])
    /\ pc = "sec" /\ stage = UPDATE_FINALIZE =>
        AtStage(cur, stage) /\ sec[cur].arr = "normal" /\ sarr[cur] = "normal"

(* The disks no call has left out. *)
Listed == UpdateLuns \ skipped

LoopInv ==
    /\ pc # "idle" /\ ~err => \A l \in Listed \ (todo \cup {cur}) : Prepared(l, stage)
    /\ ready # 0 => \A l \in Listed : Prepared(l, ready)

(* The boot LUN is B only while some disk still has to come back from the  *)
(* backup chain, if no call has left one out or missed xbl.                *)
XblInv ==
    /\ bootLun = "B" =>
        XblSwitch /\ \E l \in UpdateLuns : ~AtStage(l, UPDATE_FINALIZE)
    /\ pc \in {"prim", "sec"} /\ stage = UPDATE_BACKUP => bootLun = "A"
    /\ bootLun = "B" /\ stage = UPDATE_FINALIZE /\ ~err =>
        \E l \in UpdateLuns \cap (todo \cup {cur}) : ~AtStage(l, UPDATE_FINALIZE)
    /\ ready = UPDATE_FINALIZE => bootLun = "A"
    /\ \A x \in BootParts : img[x]["bak"] = "part" => bootLun = "A"

(* While a backup xbl is written every disk boots from its primary GPT.    *)
XblBakInv ==
    \A x \in BootParts : img[x]["bak"] = "part" =>
        \A l \in UpdateLuns : ~HdrOK(sec[l])

BootLunInv ==
    /\ xblMissed => bootLun = "B"
    /\ skipped = {} => XblBakInv
    /\ skipped = {} /\ ~xblMissed => XblInv

Inv ==
    /\ TypeOK
    /\ \A l \in Luns : DiskInv(l)
    /\ \A p \in Covered : ImgInv(p)
    /\ CallInv /\ StepInv /\ LoopInv /\ BootLunInv
=============================================================================
