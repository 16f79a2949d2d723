------------------------------- MODULE GptDisk -------------------------------
(***************************************************************************)
(* The gpt_disk API of gpt-utils.cpp, through which a boot control HAL     *)
(* (external) changes the slot attributes in the GPTs of the disks that    *)
(* hold its partitions: gpt_utils_get_partition_map to find these disks,   *)
(* then for each one gpt_disk_alloc, gpt_disk_get_disk_info,               *)
(* gpt_disk_get_pentry, gpt_disk_update_crc, gpt_disk_commit and           *)
(* gpt_disk_free, one device access per action, with I/O errors and power  *)
(* losses between any two.                                                 *)
(*                                                                         *)
(* An entry array spans two blocks, one with the entries of slot "a" and   *)
(* one with those of slot "b"; an entry is abstracted to its attributes.   *)
(* A header keeps where its array is (PENTRIES_OFFSET), whether its own    *)
(* CRC matches, and the array its PARTITION_CRC field was computed from.   *)
(***************************************************************************)
EXTENDS Integers, Sequences, Functions

CONSTANTS
    Luns,       \* the disks with a GPT
    Parts,      \* names of partitions, without the slot
    LunOf,      \* LunOf[p]: the disk p's symlink resolves to, or NoLun
    NoLun,
    Null,       \* a null pointer
    PtnList,    \* the partitions the HAL wants changed, in its order
    MaxFaults   \* bound: I/O errors, failed lookups and power losses

VARIABLES
    hdr,      \* hdr[l][i]: header i of disk l
    arr,      \* arr[l][i]: entry array i of disk l
    dsk,      \* struct gpt_disk of the session, Null when there is none
    pc,       \* where the session stands; "idle": none
    op,       \* what the HAL wants: [kind, slot]
    missed,   \* partitions that exist, but whose lookup for this operation failed
    todo,     \* the partition map, disks not done yet
    cur,      \* the disk of the session
    ret,      \* 0 while no call of this operation has failed, else -1
    faults,   \* faults so far
    \* History for the properties.
    hit,      \* hit[l]: a fault has hit a commit to disk l
    spared,   \* no device access has failed since the operation began
    unchecked \* unchecked[l]: partitions of disk l whose entries a handle has
              \* taken from an array its CRC denies, and not switched since

disk    == <<hdr, arr>>
history == <<hit, spared, unchecked>>
vars    == <<hdr, arr, dsk, pc, op, missed, todo, cur, ret, faults, hit, spared, unchecked>>

(***************************************************************************)
(* Constants and helpers                                                   *)
(***************************************************************************)

PRIMARY_GPT   == "primary"
SECONDARY_GPT == "secondary"
Instances     == {PRIMARY_GPT, SECONDARY_GPT}

Slots     == {"a", "b"}
Other(s)  == IF s = "a" THEN "b" ELSE "a"
Entry     == [active : BOOLEAN, ok : BOOLEAN]
Array     == [Slots -> [Parts -> Entry]]
Header    == [at : Instances, crc : BOOLEAN, arr : Array]
Kinds     == {"setActive", "markSuccessful"}

(* struct gpt_disk; the HAL has its fields only through the API. *)
Handle == [hdr : Header \cup {Null}, hdr_bak : Header \cup {Null},
           pentry_arr : Array \cup {Null}, pentry_arr_bak : Array \cup {Null},
           is_initialized : BOOLEAN]

ASSUME ConstantsOK ==
    /\ NoLun \notin Luns
    /\ LunOf \in [Parts -> Luns \cup {NoLun}]
    /\ PtnList \in Seq(Parts)
    /\ Null \notin Header /\ Null \notin Array /\ Null \notin Handle
    /\ MaxFaults \in Nat

EmptyHandle == [hdr |-> Null, hdr_bak |-> Null, pentry_arr |-> Null,
                pentry_arr_bak |-> Null, is_initialized |-> FALSE]

(* The partitions of the list that are on disk l. *)
OnDisk(l) == {p \in Range(PtnList) : LunOf[p] = l}

(* Seeded fault: a second partition on a disk replaces the first one. *)
MapReplacing(list, unseen) ==
    [l \in Luns |-> {list[n] : n \in {i \in DOMAIN list :
        /\ LunOf[list[i]] = l /\ list[i] \notin unseen
        /\ \A j \in DOMAIN list : j > i => LunOf[list[j]] # l}}]

(* Seeded fault: a partition that does not resolve is listed all the same. *)
MapUnresolved(list, unseen) ==
    [l \in Luns \cup {NoLun} |-> {p \in Range(list) \ unseen : LunOf[p] = l}]

(* The partitions of the list by disk.  One whose path does not resolve is *)
(* skipped, "may just not be present", and so is one whose symlink is there *)
(* but cannot be looked up (unseen): the result is 0 all the same. *)
gpt_utils_get_partition_map(list, unseen) ==
    [l \in Luns |-> {p \in Range(list) \ unseen : LunOf[p] = l}]

Mapped(map) == {l \in Luns : map[l] # {}}

(***************************************************************************)
(* The boot firmware (external) takes the primary GPT if it is valid, else *)
(* the secondary.                                                          *)
(***************************************************************************)

Valid(l, i) ==
    /\ hdr[l][i].crc
    /\ hdr[l][i].arr = arr[l][hdr[l][i].at]

BootTable(l) ==
    IF Valid(l, PRIMARY_GPT) THEN arr[l][PRIMARY_GPT] ELSE arr[l][SECONDARY_GPT]

(***************************************************************************)
(* The HAL (external): its edits through the pointers gpt_disk_get_pentry  *)
(* has returned.                                                           *)
(***************************************************************************)

EditedEntry(entry, s) ==
    IF op.kind = "setActive" THEN [entry EXCEPT !.active = (s = op.slot)]
                             ELSE [entry EXCEPT !.ok = @ \/ s = op.slot]

Edited(array, parts) ==
    [s \in Slots |-> [p \in Parts |->
        IF p \in parts THEN EditedEntry(array[s][p], s) ELSE array[s][p]]]

Factory == [s \in Slots |-> [p \in Parts |-> [active |-> (s = "a"), ok |-> FALSE]]]

Init ==
    /\ hdr = [l \in Luns |-> [i \in Instances |-> [at |-> i, crc |-> TRUE, arr |-> Factory]]]
    /\ arr = [l \in Luns |-> [i \in Instances |-> Factory]]
    /\ dsk = Null /\ pc = "idle" /\ op = [kind |-> "setActive", slot |-> "a"]
    /\ missed = {} /\ todo = [l \in Luns |-> {}] /\ cur = NoLun /\ ret = 0 /\ faults = 0
    /\ hit = [l \in Luns |-> FALSE] /\ spared = TRUE
    /\ unchecked = [l \in Luns |-> {}]

(* An operation begins: the map is made. *)
Begin(kind, slot) ==
    /\ pc = "idle"
    /\ op' = [kind |-> kind, slot |-> slot]
    /\ missed' \in SUBSET {p \in Range(PtnList) : LunOf[p] # NoLun}
    /\ faults' = IF missed' = {} THEN faults ELSE faults + 1
    /\ faults' <= MaxFaults
    /\ todo' = gpt_utils_get_partition_map(PtnList, missed')
    /\ ret' = IF PtnList = <<>> THEN -1 ELSE 0
    /\ pc' = "next" /\ spared' = TRUE
    /\ UNCHANGED <<disk, dsk, cur, hit, unchecked>>

(* gpt_disk_alloc, for the next disk of the map. *)
Alloc ==
    /\ pc = "next"
    /\ \E l \in Mapped(todo) : cur' = l
    /\ dsk' = EmptyHandle /\ pc' = "hdr"
    /\ UNCHANGED <<disk, op, missed, todo, ret, faults, history>>

(* gpt_disk_free; the disk is done with. *)
Free ==
    /\ pc = "free"
    /\ dsk' = Null /\ pc' = "next"
    /\ todo' = [todo EXCEPT ![cur] = {}] /\ cur' = NoLun
    /\ UNCHANGED <<disk, op, missed, ret, faults, history>>

(* All disks have been visited: the HAL has its result. *)
Finish ==
    /\ pc = "next" /\ Mapped(todo) = {}
    /\ pc' = "idle" /\ UNCHANGED <<disk, dsk, op, missed, todo, cur, ret, faults, history>>

(* A call returns -1.  The HAL frees the handle, or makes its next call on *)
(* it all the same. *)
Failed(next) ==
    /\ ret' = -1
    /\ pc' \in {next, "free"}

Goto(next) == pc' = next /\ UNCHANGED ret

(***************************************************************************)
(* gpt_disk_get_disk_info: two reads of the primary header and two of the  *)
(* array that header points to.  Neither CRC is compared.                  *)
(***************************************************************************)

Denied(h) == ~h.crc \/ h.arr # arr[cur][h.at]

(* Seeded fault: a header or an array that its CRC denies is refused. *)
ReadHeaderChecking ==
    /\ pc = "hdr"
    /\ \/ /\ ~Denied(hdr[cur][PRIMARY_GPT])
          /\ dsk' = [dsk EXCEPT !.hdr = hdr[cur][PRIMARY_GPT]]
          /\ Goto("hdr_bak")
       \/ Denied(hdr[cur][PRIMARY_GPT]) /\ UNCHANGED dsk /\ Failed("pentry")
    /\ UNCHANGED <<disk, op, missed, todo, cur, faults, history>>

ReadHeader ==
    /\ pc = "hdr"
    /\ dsk' = [dsk EXCEPT !.hdr = hdr[cur][PRIMARY_GPT]]
    /\ Goto("hdr_bak")
    /\ UNCHANGED <<disk, op, missed, todo, cur, faults, history>>

(* "Failed to get backup header", but PRIMARY_GPT is asked for. *)
ReadBackupHeader ==
    /\ pc = "hdr_bak"
    /\ dsk' = [dsk EXCEPT !.hdr_bak = hdr[cur][PRIMARY_GPT]]
    /\ Goto("arr")
    /\ UNCHANGED <<disk, op, missed, todo, cur, faults, history>>

ReadArray ==
    /\ pc = "arr"
    /\ dsk' = [dsk EXCEPT !.pentry_arr = arr[cur][dsk.hdr.at]]
    /\ unchecked' = IF Denied(dsk.hdr)
                    THEN [unchecked EXCEPT ![cur] = OnDisk(cur)] ELSE unchecked
    /\ Goto("arr_bak")
    /\ UNCHANGED <<disk, op, missed, todo, cur, faults, hit, spared>>

ReadBackupArray ==
    /\ pc = "arr_bak"
    /\ dsk' = [dsk EXCEPT !.pentry_arr_bak = arr[cur][dsk.hdr_bak.at],
                          !.is_initialized = TRUE]
    /\ Goto("pentry")
    /\ UNCHANGED <<disk, op, missed, todo, cur, faults, history>>

(***************************************************************************)
(* The edit, and the calls that need an initialised handle                 *)
(***************************************************************************)

(* gpt_disk_get_pentry for every partition, slot and instance, and what    *)
(* the HAL writes through the pointers; without them it edits nothing. *)
EditEntries ==
    /\ pc = "pentry"
    /\ \/ /\ dsk.is_initialized
          /\ dsk' = [dsk EXCEPT !.pentry_arr = Edited(@, todo[cur]),
                                !.pentry_arr_bak = Edited(@, todo[cur])]
          /\ Goto("crc")
       \/ ~dsk.is_initialized /\ UNCHANGED dsk /\ Failed("crc")
    /\ UNCHANGED <<disk, op, missed, todo, cur, faults, history>>

WithCrc(h, array) == [h EXCEPT !.crc = TRUE, !.arr = array]

gpt_disk_update_crc ==
    /\ pc = "crc"
    /\ \/ /\ dsk.is_initialized
          /\ dsk' = [dsk EXCEPT !.hdr = WithCrc(@, dsk.pentry_arr),
                                !.hdr_bak = WithCrc(@, dsk.pentry_arr_bak)]
          /\ Goto("commit")
       \/ ~dsk.is_initialized /\ UNCHANGED dsk /\ Failed("commit")
    /\ UNCHANGED <<disk, op, missed, todo, cur, faults, history>>

(***************************************************************************)
(* gpt_disk_commit: the primary header, then the array it points to, block *)
(* by block.  The backup pair is never written.                            *)
(***************************************************************************)

(* Seeded fault: an uninitialised handle is accepted. *)
OpenForCommitUnguarded ==
    /\ pc = "commit"
    /\ \/ dsk.hdr # Null /\ Goto("wr_hdr")
       \/ dsk.hdr = Null /\ Failed("free")
    /\ UNCHANGED <<disk, dsk, op, missed, todo, cur, faults, history>>

(* Seeded fault: the header is not written. *)
OpenForCommitNoHeader ==
    /\ pc = "commit"
    /\ \/ dsk.is_initialized /\ Goto("wr_arr")
       \/ ~dsk.is_initialized /\ Failed("free")
    /\ UNCHANGED <<disk, dsk, op, missed, todo, cur, faults, history>>

OpenForCommit ==
    /\ pc = "commit"
    /\ \/ dsk.is_initialized /\ Goto("wr_hdr")
       \/ ~dsk.is_initialized /\ Failed("free")
    /\ UNCHANGED <<disk, dsk, op, missed, todo, cur, faults, history>>

gpt_set_header ==
    /\ pc = "wr_hdr"
    /\ hdr' = [hdr EXCEPT ![cur][PRIMARY_GPT] = dsk.hdr]
    /\ Goto("wr_arr")
    /\ UNCHANGED <<arr, dsk, op, missed, todo, cur, faults, history>>

(* Seeded fault: the backup's array is overwritten along with the primary's. *)
PutBlockBoth(slot) ==
    arr' = [arr EXCEPT ![cur] =
               [i \in Instances |-> [@[i] EXCEPT ![slot] = dsk.pentry_arr[slot]]]]

PutBlock(slot) == arr' = [arr EXCEPT ![cur][dsk.hdr.at][slot] = dsk.pentry_arr[slot]]

(* A handle that has a header but no array fails here. *)
BeginArray ==
    /\ pc = "wr_arr"
    /\ \/ dsk.pentry_arr # Null /\ PutBlock("a") /\ Goto("wr_arr2")
       \/ dsk.pentry_arr = Null /\ UNCHANGED arr /\ Failed("free")
    /\ UNCHANGED <<hdr, dsk, op, missed, todo, cur, faults, history>>

(* A commit that has gone through: earlier damage is overwritten, for the *)
(* partitions the map lists. *)
EndArray ==
    /\ pc = "wr_arr2"
    /\ PutBlock("b") /\ Goto("free")
    /\ hit' = [hit EXCEPT ![cur] = FALSE]
    /\ unchecked' = IF op.kind = "setActive"
                    THEN [unchecked EXCEPT ![cur] = @ \ todo[cur]] ELSE unchecked
    /\ UNCHANGED <<hdr, dsk, op, missed, todo, cur, faults, spared>>

(***************************************************************************)
(* Failures.  What a write that does not end well may leave behind: the    *)
(* block as it was, as it was to be, or, for a header, with a CRC that     *)
(* does not match.                                                         *)
(***************************************************************************)

Reading == {"hdr", "hdr_bak", "arr", "arr_bak"}
Writing == {"wr_hdr", "wr_arr", "wr_arr2"}

HeaderAfter ==
    \E h \in {hdr[cur][PRIMARY_GPT], dsk.hdr, [dsk.hdr EXCEPT !.crc = FALSE]} :
        hdr' = [hdr EXCEPT ![cur][PRIMARY_GPT] = h]

DiskAfter ==
    \/ pc = "wr_hdr" /\ HeaderAfter /\ UNCHANGED arr
    \/ pc = "wr_arr" /\ dsk.pentry_arr # Null /\ PutBlock("a") /\ UNCHANGED hdr
    \/ pc = "wr_arr2" /\ PutBlock("b") /\ UNCHANGED hdr
    \/ pc # "wr_hdr" /\ UNCHANGED disk

Fault ==
    /\ faults < MaxFaults /\ faults' = faults + 1
    /\ spared' = FALSE
    /\ DiskAfter
    /\ hit' = IF pc \in Writing THEN [hit EXCEPT ![cur] = TRUE] ELSE hit

(* A device access fails. *)
IoError ==
    /\ pc \in Reading \cup Writing \cup {"commit"}
    /\ Fault
    /\ Failed(IF pc \in Reading THEN "pentry" ELSE "free")
    /\ UNCHANGED <<dsk, op, missed, todo, cur, unchecked>>

(* Power is lost: the process is gone, the disks are not. *)
PowerLoss ==
    /\ pc # "idle"
    /\ Fault
    /\ dsk' = Null /\ pc' = "idle" /\ cur' = NoLun /\ ret' = -1
    /\ todo' = [l \in Luns |-> {}]
    /\ UNCHANGED <<op, missed, unchecked>>

(***************************************************************************)
(* The system                                                              *)
(***************************************************************************)

Next ==
    \/ \E kind \in Kinds, slot \in Slots : Begin(kind, slot)
    \/ Alloc \/ ReadHeader \/ ReadBackupHeader \/ ReadArray \/ ReadBackupArray
    \/ EditEntries \/ gpt_disk_update_crc
    \/ OpenForCommit \/ gpt_set_header \/ BeginArray \/ EndArray
    \/ Free \/ Finish
    \/ IoError \/ PowerLoss

Spec == Init /\ [][Next]_vars

(***************************************************************************)
(* Properties                                                              *)
(***************************************************************************)

Places == {"idle", "next", "pentry", "crc", "commit", "free"} \cup Reading \cup Writing

TypeOK ==
    /\ hdr \in [Luns -> [Instances -> Header]]
    /\ arr \in [Luns -> [Instances -> Array]]
    /\ dsk \in Handle \cup {Null}
    /\ pc \in Places /\ op \in [kind : Kinds, slot : Slots] /\ missed \in SUBSET Parts
    /\ todo \in [Luns -> SUBSET Parts] /\ cur \in Luns \cup {NoLun}
    /\ ret \in {0, -1} /\ faults \in 0 .. MaxFaults
    /\ hit \in [Luns -> BOOLEAN] /\ unchecked \in [Luns -> SUBSET Parts] /\ spared \in BOOLEAN

(* Every way through the API leaves the primary GPT of a disk valid, a HAL *)
(* that goes on after calls that failed included; only a fault during the  *)
(* writes of a commit damages it, and the next commit repairs it.          *)
PrimaryDamagedOnlyByFault ==
    \A l \in Luns :
        Valid(l, PRIMARY_GPT) \/ hit[l] \/ (cur = l /\ pc \in {"wr_arr", "wr_arr2"})

(* The firmware always finds a GPT, and in it each partition has exactly   *)
(* one active slot: not half a commit, and not a mixture.  The exceptions  *)
(* are the entries read from an array whose CRC does not match, which      *)
(* gpt_disk_get_disk_info never looks at: the next update_crc makes a torn *)
(* array valid, until a change of slot covers the partition. *)
OneActiveSlot ==
    \A l \in Luns :
        /\ Valid(l, PRIMARY_GPT) \/ Valid(l, SECONDARY_GPT)
        /\ \A p \in Parts \ unchecked[l] :
               BootTable(l)["a"][p].active # BootTable(l)["b"][p].active

Finished == pc = "next" /\ Mapped(todo) = {} /\ PtnList # <<>>

(* When no call of a change of slot has failed, the firmware boots the     *)
(* slot from every disk, for every partition of the list that exists, but  *)
(* for those whose lookup has failed: gpt_utils_get_partition_map takes    *)
(* them for missing ones ("Not necessarily an error", gpt-utils.cpp:1112)  *)
(* and returns 0, so they may keep the other slot, on a disk the others of *)
(* which are switched.                                                     *)
SuccessMeansSwitched ==
    Finished /\ ret = 0 /\ op.kind = "setActive" =>
        \A p \in Range(PtnList) : LunOf[p] # NoLun /\ p \notin missed =>
            \A s \in Slots : BootTable(LunOf[p])[s][p].active = (s = op.slot)

(* Whatever earlier power losses and errors left on the disks, a change    *)
(* that no fault hits goes through: the API never locks itself out. *)
RetrySucceeds == Finished /\ spared => ret = 0

(* Every step of the API is a step of the abstract slot tables, or leaves  *)
(* them unchanged: the table the firmware reads is never edited in place,  *)
(* and whatever fails, however often and in whatever order, a disk's own   *)
(* table is taken again only when an operation has been carried out on     *)
(* both of its blocks, for all the partitions the operation has found.     *)
Abs == INSTANCE SlotTables WITH
    Disks  <- Luns,
    listed <- gpt_utils_get_partition_map(PtnList, missed),
    own    <- [l \in Luns |-> arr[l][PRIMARY_GPT]],
    boot   <- [l \in Luns |-> IF Valid(l, PRIMARY_GPT) THEN "own" ELSE "factory"]

ImplementsSlotTables == Abs!Spec
=============================================================================
