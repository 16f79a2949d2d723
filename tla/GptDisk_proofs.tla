--------------------------- MODULE GptDisk_proofs ---------------------------
(***************************************************************************)
(* Proofs about the gpt_disk API for any disks, partitions, list of the    *)
(* HAL and number of faults.                                               *)
(*                                                                         *)
(* The argument.  The backup pair is never written (BackupKept), so it     *)
(* stays the table of the factory.  A handle that says it is initialised   *)
(* is complete, and from update_crc to the last block of the commit its    *)
(* header has the CRC of its own array (HandleInStep, CommitInStep).  The  *)
(* array a primary header was computed from has one active slot per        *)
(* partition, unless the entries were taken from an array its CRC denies   *)
(* (OneActiveInStep); that is never so for partitions the HAL does not     *)
(* list, whose entries are those of the factory (OthersKept), and a change *)
(* of slot ends it for the partitions it has found (EditInStep).           *)
(*                                                                         *)
(* That the API implements SlotTables is proved at the end, with what the  *)
(* handle's array is in relation to the disk's (TableInStep).              *)
(***************************************************************************)
EXTENDS GptDisk, TLAPS

(***************************************************************************)
(* The inductive invariant                                                 *)
(***************************************************************************)

(* The secondary header and array are those of the factory; every header   *)
(* points to its own array. *)
BackupKept ==
    \A l \in Luns :
        /\ hdr[l][PRIMARY_GPT].at = PRIMARY_GPT
        /\ hdr[l][SECONDARY_GPT] = [at |-> SECONDARY_GPT, crc |-> TRUE, arr |-> Factory]
        /\ arr[l][SECONDARY_GPT] = Factory

(* The partitions this operation has found, by disk. *)
Found == gpt_utils_get_partition_map(PtnList, missed)

InSession == pc \notin {"idle", "next"}
Edits     == {"crc", "commit", "wr_hdr", "wr_arr", "wr_arr2"}

(* A session is about a disk of the map; the map holds the partitions of   *)
(* the disks that have not been done. *)
SessionInStep ==
    /\ InSession <=> dsk # Null
    /\ InSession => cur \in Luns /\ todo[cur] # {}
    /\ ~InSession => cur = NoLun
    /\ \A l \in Luns : todo[l] \in {{}, Found[l]}

(* What the handle holds at each place. *)
HandleInStep ==
    InSession =>
        /\ dsk.is_initialized => dsk.hdr # Null /\ dsk.hdr_bak # Null
                                 /\ dsk.pentry_arr # Null /\ dsk.pentry_arr_bak # Null
        /\ dsk.hdr # Null => dsk.hdr.at = PRIMARY_GPT
        /\ dsk.hdr_bak # Null => dsk.hdr_bak.at = PRIMARY_GPT
        /\ pc \in {"hdr_bak", "arr"} => dsk.hdr = hdr[cur][PRIMARY_GPT]
        /\ pc = "arr" => dsk.hdr_bak = hdr[cur][PRIMARY_GPT]
        /\ pc = "arr_bak" => dsk.hdr # Null /\ dsk.hdr_bak # Null /\ dsk.pentry_arr # Null
        /\ pc \in Reading => ~dsk.is_initialized
        /\ pc \in Writing => dsk.is_initialized

(* How far the commit is. *)
CommitInStep ==
    /\ pc \in {"commit"} \cup Writing /\ dsk.is_initialized =>
          dsk.hdr.crc /\ dsk.hdr.arr = dsk.pentry_arr
    /\ pc \in {"wr_arr", "wr_arr2"} => hdr[cur][PRIMARY_GPT] = dsk.hdr
    /\ pc = "wr_arr2" => arr[cur][PRIMARY_GPT]["a"] = dsk.pentry_arr["a"]

OneActive(array, parts) == \A p \in parts : array["a"][p].active # array["b"][p].active

(* The array the primary header stands for, and the one about to be        *)
(* written, have one active slot for every partition that is not           *)
(* unchecked; only partitions of the list ever are. *)
OneActiveInStep ==
    /\ \A l \in Luns : unchecked[l] \subseteq OnDisk(l)
    /\ \A l \in Luns : OneActive(hdr[l][PRIMARY_GPT].arr, Parts \ unchecked[l])
    /\ InSession /\ dsk.pentry_arr # Null => OneActive(dsk.pentry_arr, Parts \ unchecked[cur])

(* Entries that are never edited. *)
Untouched(array, l) ==
    \A p \in Parts \ OnDisk(l) :
        \A s \in Slots : array[s][p] = Factory[s][p]

OthersKept ==
    /\ \A l \in Luns : Untouched(arr[l][PRIMARY_GPT], l)
    /\ InSession /\ dsk.pentry_arr # Null => Untouched(dsk.pentry_arr, cur)

(* The slot of the operation is the active one. *)
Switched(array, parts) ==
    \A p \in parts : \A s \in Slots : array[s][p].active = (s = op.slot)

(* What is about to be written is switched. *)
EditInStep ==
    pc \in Edits /\ dsk.is_initialized /\ op.kind = "setActive" =>
        Switched(dsk.pentry_arr, todo[cur])

(* A disk that has been done is switched, as long as nothing has failed.   *)
Done(l) ==
    /\ Found[l] # {}
    /\ todo[l] = {} \/ (pc = "free" /\ cur = l)

DoneInStep ==
    pc # "idle" /\ ret = 0 /\ op.kind = "setActive" =>
        \A l \in Luns : Done(l) =>
            /\ Valid(l, PRIMARY_GPT)
            /\ Switched(arr[l][PRIMARY_GPT], Found[l])

(* Without a fault nothing fails. *)
SparedInStep ==
    pc # "idle" /\ spared =>
        /\ PtnList # <<>> => ret = 0
        /\ pc \in Edits \cup {"pentry"} => dsk.is_initialized

DiskInv ==
    /\ TypeOK /\ BackupKept /\ SessionInStep /\ HandleInStep /\ CommitInStep
    /\ OneActiveInStep /\ OthersKept /\ EditInStep /\ DoneInStep /\ SparedInStep
    /\ PrimaryDamagedOnlyByFault

(***************************************************************************)
(* Every step preserves it                                                 *)
(***************************************************************************)

(* The type invariant in parts: the disks, the handle, the operation, the  *)
(* flags. *)
DisksOK == hdr \in [Luns -> [Instances -> Header]] /\ arr \in [Luns -> [Instances -> Array]]

HandleOK == dsk \in Handle \cup {Null}

FlowOK ==
    /\ pc \in Places /\ op \in [kind : Kinds, slot : Slots] /\ missed \in SUBSET Parts
    /\ todo \in [Luns -> SUBSET Parts] /\ cur \in Luns \cup {NoLun}
    /\ ret \in {0, -1} /\ faults \in 0 .. MaxFaults

FlagsOK == hit \in [Luns -> BOOLEAN] /\ unchecked \in [Luns -> SUBSET Parts] /\ spared \in BOOLEAN

LEMMA TypeParts == TypeOK <=> DisksOK /\ HandleOK /\ FlowOK /\ FlagsOK
BY DEF TypeOK, DisksOK, HandleOK, FlowOK, FlagsOK

(* The map lists partitions by disk, of those the HAL wants changed. *)
LEMMA MapType ==
    /\ Range(PtnList) \subseteq Parts
    /\ \A unseen : gpt_utils_get_partition_map(PtnList, unseen) \in [Luns -> SUBSET Parts]
    /\ \A l \in Luns : Found[l] \subseteq OnDisk(l) /\ OnDisk(l) \subseteq Parts
<1>1. Range(PtnList) \subseteq Parts
  BY ConstantsOK DEF Range
<1>2. QED BY <1>1 DEF Found, gpt_utils_get_partition_map, OnDisk

(* The same, for a disk that need not be one of Luns. *)
LEMMA OnDiskType == \A l : OnDisk(l) \in SUBSET Parts
BY MapType DEF OnDisk

(* A session has a handle, and is about a disk. *)
LEMMA InTheSession ==
    ASSUME DiskInv, InSession
    PROVE  dsk \in Handle /\ dsk # Null /\ cur \in Luns /\ todo[cur] # {}
BY DEF DiskInv, TypeOK, SessionInStep

(* Headers with a new CRC, and with a CRC that does not match. *)
LEMMA HeaderFields ==
    ASSUME NEW h \in Header, NEW array \in Array
    PROVE  /\ WithCrc(h, array) \in Header /\ WithCrc(h, array).at = h.at
           /\ WithCrc(h, array).crc /\ WithCrc(h, array).arr = array
BY DEF WithCrc, Header

LEMMA TornHeader ==
    ASSUME NEW h \in Header
    PROVE  /\ [h EXCEPT !.crc = FALSE] \in Header /\ [h EXCEPT !.crc = FALSE].at = h.at
           /\ [h EXCEPT !.crc = FALSE].arr = h.arr
BY DEF Header

(* What the HAL does to an array. *)
LEMMA EditedType ==
    ASSUME op \in [kind : Kinds, slot : Slots], NEW array \in Array, NEW parts
    PROVE  Edited(array, parts) \in Array
<1>1. ASSUME NEW s \in Slots, NEW p \in Parts PROVE EditedEntry(array[s][p], s) \in Entry
  <2>1. array[s][p] \in Entry
    BY DEF Array
  <2>2. array[s][p].active \in BOOLEAN /\ array[s][p].ok \in BOOLEAN
    BY <2>1 DEF Entry
  <2>3. ([array[s][p] EXCEPT !.active = (s = op.slot)]) \in Entry
    BY <2>1 DEF Entry
  <2>4. ([array[s][p] EXCEPT !.ok = array[s][p].ok \/ s = op.slot]) \in Entry
    BY <2>1 DEF Entry
  <2>5. QED BY <2>3, <2>4 DEF EditedEntry
<1>2. QED BY <1>1 DEF Edited, Array

LEMMA EditedOneActive ==
    ASSUME op \in [kind : Kinds, slot : Slots], NEW array \in Array, NEW parts,
           NEW sound \in SUBSET Parts, OneActive(array, sound)
    PROVE  OneActive(Edited(array, parts), sound)
<1>1. ASSUME NEW p \in sound, p \in parts
      PROVE  EditedEntry(array["a"][p], "a").active # EditedEntry(array["b"][p], "b").active
  <2>1. array["a"][p] \in Entry /\ array["b"][p] \in Entry
    BY DEF Array, Slots
  <2>2. array["a"][p].active # array["b"][p].active
    BY DEF OneActive
  <2>3. CASE op.kind = "setActive"
    BY <2>1, <2>3 DEF EditedEntry, Entry, Slots
  <2>4. CASE op.kind # "setActive"
    BY <2>1, <2>2, <2>4 DEF EditedEntry, Entry
  <2>5. QED BY <2>3, <2>4
<1>2. \A p \in Parts : /\ Edited(array, parts)["a"][p] =
                             IF p \in parts THEN EditedEntry(array["a"][p], "a") ELSE array["a"][p]
                       /\ Edited(array, parts)["b"][p] =
                             IF p \in parts THEN EditedEntry(array["b"][p], "b") ELSE array["b"][p]
  BY DEF Edited, Slots
<1>3. QED BY <1>1, <1>2 DEF OneActive

LEMMA EditedSwitched ==
    ASSUME op.kind = "setActive", NEW array \in Array, NEW parts \in SUBSET Parts
    PROVE  Switched(Edited(array, parts), parts)
<1>1. ASSUME NEW p \in parts, NEW s \in Slots
      PROVE  Edited(array, parts)[s][p].active = (s = op.slot)
  <2>1. array[s][p] \in Entry
    BY DEF Array
  <2>2. Edited(array, parts)[s][p] = EditedEntry(array[s][p], s)
    BY DEF Edited
  <2>3. EditedEntry(array[s][p], s) = [array[s][p] EXCEPT !.active = (s = op.slot)]
    BY DEF EditedEntry
  <2>4. QED BY <2>1, <2>2, <2>3 DEF Entry
<1>2. QED BY <1>1 DEF Switched

LEMMA EditedUntouched ==
    ASSUME NEW array \in Array, NEW l \in Luns, Untouched(array, l),
           NEW parts, parts \subseteq OnDisk(l)
    PROVE  Untouched(Edited(array, parts), l)
BY DEF Untouched, Edited

(* Entries that have been switched have one active slot, and so have those *)
(* of the factory. *)
LEMMA SwitchedOneActive ==
    ASSUME NEW array \in Array, NEW parts \in SUBSET Parts,
           op \in [kind : Kinds, slot : Slots], Switched(array, parts)
    PROVE  OneActive(array, parts)
<1>1. ASSUME NEW p \in parts PROVE array["a"][p].active # array["b"][p].active
  <2>1. array["a"][p].active = ("a" = op.slot) /\ array["b"][p].active = ("b" = op.slot)
    BY <1>1 DEF Switched, Slots
  <2>2. op.slot = "a" \/ op.slot = "b"
    BY DEF Slots
  <2>3. QED BY <2>1, <2>2
<1>2. QED BY <1>1 DEF OneActive

LEMMA UntouchedOneActive ==
    ASSUME NEW array \in Array, NEW l \in Luns, Untouched(array, l)
    PROVE  OneActive(array, Parts \ OnDisk(l))
<1>1. ASSUME NEW p \in Parts \ OnDisk(l) PROVE array["a"][p].active # array["b"][p].active
  <2>1. array["a"][p] = Factory["a"][p] /\ array["b"][p] = Factory["b"][p]
    BY <1>1 DEF Untouched, Slots
  <2>2. Factory["a"][p].active = TRUE /\ Factory["b"][p].active = FALSE
    BY DEF Factory, Slots
  <2>3. QED BY <2>1, <2>2
<1>2. QED BY <1>1 DEF OneActive

LEMMA FactoryType == Factory \in Array /\ OneActive(Factory, Parts)
<1>1. Factory \in Array
  BY DEF Factory, Array, Entry, Slots
<1>2. OneActive(Factory, Parts)
  BY DEF Factory, OneActive, Slots
<1>3. QED BY <1>1, <1>2

(* The operation and its places. *)
LEMMA FlowStep == DiskInv /\ [Next]_vars => FlowOK'
<1> SUFFICES ASSUME DiskInv, [Next]_vars PROVE FlowOK'
  OBVIOUS
<1> USE ConstantsOK, MapType DEF FlowOK, Places, Reading, Writing, disk, history, Goto
<1>0. DisksOK /\ HandleOK /\ FlowOK /\ FlagsOK
  BY TypeParts DEF DiskInv
<1>1. ASSUME NEW kind \in Kinds, NEW slot \in Slots, Begin(kind, slot) PROVE FlowOK'
  BY <1>0, <1>1 DEF Begin
<1>2. CASE Alloc
  BY <1>0, <1>2 DEF Alloc, EmptyHandle, Mapped
<1>3. CASE ReadHeader
  BY <1>0, <1>3 DEF ReadHeader
<1>4. CASE ReadBackupHeader
  BY <1>0, <1>4 DEF ReadBackupHeader
<1>5. CASE ReadArray
  BY <1>0, <1>5 DEF ReadArray
<1>6. CASE ReadBackupArray
  BY <1>0, <1>6 DEF ReadBackupArray
<1>7. CASE EditEntries
  BY <1>0, <1>7 DEF EditEntries, Failed
<1>8. CASE gpt_disk_update_crc
  BY <1>0, <1>8 DEF gpt_disk_update_crc, WithCrc, Failed
<1>9. CASE OpenForCommit
  BY <1>0, <1>9 DEF OpenForCommit, Failed
<1>10. CASE gpt_set_header
  BY <1>0, <1>10 DEF gpt_set_header
<1>11. CASE BeginArray
  BY <1>0, <1>11 DEF BeginArray, PutBlock, Failed
<1>12. CASE EndArray
  BY <1>0, <1>12 DEF EndArray, PutBlock
<1>13. CASE Free
  BY <1>0, <1>13 DEF Free
<1>14. CASE Finish
  BY <1>0, <1>14 DEF Finish
<1>15. CASE IoError
  BY <1>0, <1>15 DEF IoError, Fault, DiskAfter, HeaderAfter, PutBlock, Failed
<1>16. CASE PowerLoss
  BY <1>0, <1>16 DEF PowerLoss, Fault, DiskAfter, HeaderAfter, PutBlock
<1>17. CASE UNCHANGED vars
  BY <1>0, <1>17 DEF vars
<1>18. QED
  BY <1>1, <1>2, <1>3, <1>4, <1>5, <1>6, <1>7, <1>8, <1>9, <1>10, <1>11, <1>12, <1>13,
     <1>14, <1>15, <1>16, <1>17
     DEF Next

(* Every flag stays a Boolean. *)
LEMMA FlagsStep == DiskInv /\ [Next]_vars => FlagsOK'
<1> SUFFICES ASSUME DiskInv, [Next]_vars PROVE FlagsOK'
  OBVIOUS
<1> USE DEF FlagsOK, disk, history, Goto
<1>0. DisksOK /\ HandleOK /\ FlowOK /\ FlagsOK
  BY TypeParts DEF DiskInv
<1>1. ASSUME NEW kind \in Kinds, NEW slot \in Slots, Begin(kind, slot) PROVE FlagsOK'
  BY <1>0, <1>1 DEF Begin
<1>2. CASE Alloc
  BY <1>0, <1>2 DEF Alloc, EmptyHandle, Mapped
<1>3. CASE ReadHeader
  BY <1>0, <1>3 DEF ReadHeader
<1>4. CASE ReadBackupHeader
  BY <1>0, <1>4 DEF ReadBackupHeader
<1>5. CASE ReadArray
  BY <1>0, <1>5, OnDiskType DEF ReadArray
<1>6. CASE ReadBackupArray
  BY <1>0, <1>6 DEF ReadBackupArray
<1>7. CASE EditEntries
  BY <1>0, <1>7 DEF EditEntries, Failed
<1>8. CASE gpt_disk_update_crc
  BY <1>0, <1>8 DEF gpt_disk_update_crc, WithCrc, Failed
<1>9. CASE OpenForCommit
  BY <1>0, <1>9 DEF OpenForCommit, Failed
<1>10. CASE gpt_set_header
  BY <1>0, <1>10 DEF gpt_set_header
<1>11. CASE BeginArray
  BY <1>0, <1>11 DEF BeginArray, PutBlock, Failed
<1>12. CASE EndArray
  BY <1>0, <1>12 DEF EndArray, PutBlock
<1>13. CASE Free
  BY <1>0, <1>13 DEF Free
<1>14. CASE Finish
  BY <1>0, <1>14 DEF Finish
<1>15. CASE IoError
  BY <1>0, <1>15 DEF IoError, Fault, DiskAfter, HeaderAfter, PutBlock, Failed
<1>16. CASE PowerLoss
  BY <1>0, <1>16 DEF PowerLoss, Fault, DiskAfter, HeaderAfter, PutBlock
<1>17. CASE UNCHANGED vars
  BY <1>0, <1>17 DEF vars
<1>18. QED
  BY <1>1, <1>2, <1>3, <1>4, <1>5, <1>6, <1>7, <1>8, <1>9, <1>10, <1>11, <1>12, <1>13,
     <1>14, <1>15, <1>16, <1>17
     DEF Next

(* What a step writes to the disks: the primary header, whole or torn, or  *)
(* a block of the primary array. *)
NewHeader(h) ==
    /\ pc = "wr_hdr" /\ h \in {hdr[cur][PRIMARY_GPT], dsk.hdr, [dsk.hdr EXCEPT !.crc = FALSE]}
    /\ hdr' = [hdr EXCEPT ![cur][PRIMARY_GPT] = h] /\ arr' = arr

NewBlock(slot) ==
    /\ pc = (IF slot = "a" THEN "wr_arr" ELSE "wr_arr2") /\ PutBlock(slot) /\ hdr' = hdr

DiskWritten ==
    UNCHANGED disk \/ (\E h : NewHeader(h)) \/ \E slot \in Slots : NewBlock(slot)

LEMMA DiskFrame == DiskInv /\ [Next]_vars => DiskWritten
<1> SUFFICES ASSUME DiskInv, [Next]_vars PROVE DiskWritten
  OBVIOUS
<1> USE DEF DiskWritten, NewHeader, NewBlock, Slots, disk, history, Goto
<1>0. DisksOK /\ HandleOK /\ FlowOK /\ FlagsOK
  BY TypeParts DEF DiskInv
<1>1. ASSUME NEW kind \in Kinds, NEW slot \in Slots, Begin(kind, slot) PROVE DiskWritten
  BY <1>0, <1>1 DEF Begin
<1>2. CASE Alloc
  BY <1>0, <1>2 DEF Alloc, EmptyHandle, Mapped
<1>3. CASE ReadHeader
  BY <1>0, <1>3 DEF ReadHeader
<1>4. CASE ReadBackupHeader
  BY <1>0, <1>4 DEF ReadBackupHeader
<1>5. CASE ReadArray
  BY <1>0, <1>5 DEF ReadArray
<1>6. CASE ReadBackupArray
  BY <1>0, <1>6 DEF ReadBackupArray
<1>7. CASE EditEntries
  BY <1>0, <1>7 DEF EditEntries, Failed
<1>8. CASE gpt_disk_update_crc
  BY <1>0, <1>8 DEF gpt_disk_update_crc, WithCrc, Failed
<1>9. CASE OpenForCommit
  BY <1>0, <1>9 DEF OpenForCommit, Failed
<1>10. CASE gpt_set_header
  BY <1>0, <1>10 DEF gpt_set_header
<1>11. CASE BeginArray
  BY <1>0, <1>11 DEF BeginArray, PutBlock, Failed
<1>12. CASE EndArray
  BY <1>0, <1>12 DEF EndArray, PutBlock
<1>13. CASE Free
  BY <1>0, <1>13 DEF Free
<1>14. CASE Finish
  BY <1>0, <1>14 DEF Finish
<1>15. CASE IoError
  BY <1>0, <1>15 DEF IoError, Fault, DiskAfter, HeaderAfter, PutBlock, Failed
<1>16. CASE PowerLoss
  BY <1>0, <1>16 DEF PowerLoss, Fault, DiskAfter, HeaderAfter, PutBlock
<1>17. CASE UNCHANGED vars
  BY <1>0, <1>17 DEF vars
<1>18. QED
  BY <1>1, <1>2, <1>3, <1>4, <1>5, <1>6, <1>7, <1>8, <1>9, <1>10, <1>11, <1>12, <1>13,
     <1>14, <1>15, <1>16, <1>17
     DEF Next

LEMMA HeaderWritten ==
    ASSUME DiskInv, NEW h, NewHeader(h)
    PROVE  /\ cur \in Luns /\ pc = "wr_hdr" /\ DisksOK' /\ arr' = arr
           /\ \A l \in Luns : l # cur => hdr'[l] = hdr[l]
           /\ hdr'[cur][SECONDARY_GPT] = hdr[cur][SECONDARY_GPT]
           /\ hdr'[cur][PRIMARY_GPT] = h
           /\ h.at = PRIMARY_GPT
           /\ h = hdr[cur][PRIMARY_GPT] \/ h.arr = dsk.pentry_arr
<1>1. pc = "wr_hdr" /\ InSession /\ cur \in Luns /\ dsk \in Handle
  BY InTheSession DEF NewHeader, InSession
<1>2. dsk.hdr \in Header /\ dsk.hdr.at = PRIMARY_GPT /\ dsk.hdr.arr = dsk.pentry_arr
  BY <1>1 DEF DiskInv, HandleInStep, CommitInStep, Handle, Writing
<1>3. hdr[cur][PRIMARY_GPT] \in Header /\ hdr[cur][PRIMARY_GPT].at = PRIMARY_GPT
  BY <1>1 DEF DiskInv, TypeOK, BackupKept, PRIMARY_GPT, Instances
<1>4. h \in Header /\ h.at = PRIMARY_GPT /\ (h = hdr[cur][PRIMARY_GPT] \/ h.arr = dsk.pentry_arr)
  BY <1>2, <1>3, TornHeader DEF NewHeader
<1>5. hdr \in [Luns -> [Instances -> Header]] /\ arr \in [Luns -> [Instances -> Array]]
  BY DEF DiskInv, TypeOK
<1>6. hdr' = [hdr EXCEPT ![cur][PRIMARY_GPT] = h] /\ arr' = arr
  BY DEF NewHeader
<1>7. QED
  BY <1>1, <1>4, <1>5, <1>6 DEF DisksOK, Instances, PRIMARY_GPT, SECONDARY_GPT

LEMMA BlockWritten ==
    ASSUME DiskInv, NEW slot \in Slots, NewBlock(slot)
    PROVE  /\ cur \in Luns /\ pc = (IF slot = "a" THEN "wr_arr" ELSE "wr_arr2")
           /\ DisksOK' /\ hdr' = hdr
           /\ \A l \in Luns : l # cur => arr'[l] = arr[l]
           /\ arr'[cur][SECONDARY_GPT] = arr[cur][SECONDARY_GPT]
           /\ \A s \in Slots : arr'[cur][PRIMARY_GPT][s] =
                 IF s = slot THEN dsk.pentry_arr[s] ELSE arr[cur][PRIMARY_GPT][s]
<1>1. pc \in Writing /\ InSession /\ cur \in Luns /\ dsk \in Handle
  BY InTheSession DEF NewBlock, InSession, Writing, Slots
<1>2. dsk.hdr.at = PRIMARY_GPT /\ dsk.pentry_arr \in Array
  BY <1>1 DEF DiskInv, HandleInStep, Handle
<1>3. hdr \in [Luns -> [Instances -> Header]] /\ arr \in [Luns -> [Instances -> Array]]
  BY DEF DiskInv, TypeOK
<1>4. arr' = [arr EXCEPT ![cur][PRIMARY_GPT][slot] = dsk.pentry_arr[slot]] /\ hdr' = hdr
  BY <1>2 DEF NewBlock, PutBlock
<1>5. dsk.pentry_arr[slot] \in [Parts -> Entry]
  BY <1>2 DEF Array
<1>6. arr[cur][PRIMARY_GPT] \in [Slots -> [Parts -> Entry]]
  BY <1>1, <1>3 DEF Array, Instances, PRIMARY_GPT
<1>7. DisksOK'
  BY <1>1, <1>3, <1>4, <1>5, <1>6 DEF DisksOK, Array, Instances, PRIMARY_GPT
<1>8. \A l \in Luns : l # cur => arr'[l] = arr[l]
  BY <1>3, <1>4
<1>9. arr'[cur][SECONDARY_GPT] = arr[cur][SECONDARY_GPT]
  BY <1>1, <1>3, <1>4 DEF Instances, PRIMARY_GPT, SECONDARY_GPT
<1>10. arr'[cur][PRIMARY_GPT] = [arr[cur][PRIMARY_GPT] EXCEPT ![slot] = dsk.pentry_arr[slot]]
  BY <1>1, <1>3, <1>4 DEF Instances, PRIMARY_GPT
<1>11. \A s \in Slots : arr'[cur][PRIMARY_GPT][s] =
          IF s = slot THEN dsk.pentry_arr[s] ELSE arr[cur][PRIMARY_GPT][s]
  BY <1>6, <1>10
<1>12. QED BY <1>1, <1>4, <1>7, <1>8, <1>9, <1>11 DEF NewBlock

(* Only primary headers and arrays are written. *)
LEMMA BackupStep == DiskInv /\ [Next]_vars => BackupKept' /\ DisksOK'
<1> SUFFICES ASSUME DiskInv, [Next]_vars PROVE BackupKept' /\ DisksOK'
  OBVIOUS
<1>1. BackupKept /\ DisksOK
  BY TypeParts DEF DiskInv
<1>2. CASE UNCHANGED disk
  BY <1>1, <1>2 DEF BackupKept, DisksOK, disk
<1>3. ASSUME NEW h, NewHeader(h) PROVE BackupKept' /\ DisksOK'
  BY <1>1, <1>3, HeaderWritten DEF BackupKept
<1>4. ASSUME NEW slot \in Slots, NewBlock(slot) PROVE BackupKept' /\ DisksOK'
  BY <1>1, <1>4, BlockWritten DEF BackupKept
<1>5. QED BY <1>2, <1>3, <1>4, DiskFrame DEF DiskWritten

(* What the steps of a session do to its handle. *)
LEMMA ReadDoes ==
    ASSUME DiskInv, ReadHeader \/ ReadBackupHeader \/ ReadArray \/ ReadBackupArray
    PROVE  /\ dsk' \in Handle /\ InSession /\ InSession'
           /\ ReadHeader =>
                 /\ dsk'.hdr = hdr[cur][PRIMARY_GPT] /\ dsk'.hdr_bak = dsk.hdr_bak
                 /\ dsk'.pentry_arr = dsk.pentry_arr /\ ~dsk'.is_initialized
           /\ ReadBackupHeader =>
                 /\ dsk'.hdr = dsk.hdr /\ dsk'.hdr_bak = hdr[cur][PRIMARY_GPT]
                 /\ dsk'.pentry_arr = dsk.pentry_arr /\ ~dsk'.is_initialized
           /\ ReadArray =>
                 /\ dsk'.hdr = dsk.hdr /\ dsk'.hdr_bak = dsk.hdr_bak
                 /\ dsk.hdr = hdr[cur][PRIMARY_GPT] /\ dsk.hdr_bak = hdr[cur][PRIMARY_GPT]
                 /\ dsk'.pentry_arr = arr[cur][PRIMARY_GPT] /\ ~dsk'.is_initialized
           /\ ReadBackupArray =>
                 /\ dsk'.hdr = dsk.hdr /\ dsk'.hdr_bak = dsk.hdr_bak
                 /\ dsk'.pentry_arr = dsk.pentry_arr /\ dsk'.pentry_arr_bak # Null
                 /\ dsk'.is_initialized
           /\ hdr[cur][PRIMARY_GPT] \in Header /\ hdr[cur][PRIMARY_GPT] # Null
           /\ hdr[cur][PRIMARY_GPT].at = PRIMARY_GPT
           /\ arr[cur][PRIMARY_GPT] \in Array /\ arr[cur][PRIMARY_GPT] # Null
           /\ cur \in Luns
<1>1. pc \in Reading /\ InSession /\ cur \in Luns /\ dsk \in Handle /\ ~dsk.is_initialized
  <2>1. pc \in Reading
    BY DEF ReadHeader, ReadBackupHeader, ReadArray, ReadBackupArray, Reading
  <2>2. InSession
    BY <2>1 DEF Reading, InSession
  <2>3. QED BY <2>1, <2>2, InTheSession DEF DiskInv, HandleInStep
<1>2. hdr[cur][PRIMARY_GPT] \in Header /\ arr[cur][PRIMARY_GPT] \in Array
  BY <1>1 DEF DiskInv, TypeOK, Instances, PRIMARY_GPT
<1>20. hdr[cur][PRIMARY_GPT] # Null /\ arr[cur][PRIMARY_GPT] # Null
  BY <1>2, ConstantsOK
<1>3. hdr[cur][PRIMARY_GPT].at = PRIMARY_GPT
  BY <1>1 DEF DiskInv, BackupKept
<1>4. CASE ReadHeader
  <2>1. pc = "hdr" /\ pc' = "hdr_bak" /\ dsk' = [dsk EXCEPT !.hdr = hdr[cur][PRIMARY_GPT]]
    BY <1>4 DEF ReadHeader, Goto
  <2>2. ~ReadBackupHeader /\ ~ReadArray /\ ~ReadBackupArray
    BY <2>1 DEF ReadBackupHeader, ReadArray, ReadBackupArray
  <2>3. QED BY <1>1, <1>2, <1>20, <1>3, <1>4, <2>1, <2>2 DEF Handle, InSession
<1>5. CASE ReadBackupHeader
  <2>1. pc = "hdr_bak" /\ pc' = "arr" /\ dsk' = [dsk EXCEPT !.hdr_bak = hdr[cur][PRIMARY_GPT]]
    BY <1>5 DEF ReadBackupHeader, Goto
  <2>2. ~ReadHeader /\ ~ReadArray /\ ~ReadBackupArray
    BY <2>1 DEF ReadHeader, ReadArray, ReadBackupArray
  <2>3. QED BY <1>1, <1>2, <1>20, <1>3, <1>5, <2>1, <2>2 DEF Handle, InSession
<1>6. CASE ReadArray
  <2>1. pc = "arr" /\ pc' = "arr_bak" /\ dsk' = [dsk EXCEPT !.pentry_arr = arr[cur][dsk.hdr.at]]
    BY <1>6 DEF ReadArray, Goto
  <2>2. ~ReadHeader /\ ~ReadBackupHeader /\ ~ReadBackupArray
    BY <2>1 DEF ReadHeader, ReadBackupHeader, ReadBackupArray
  <2>3. dsk.hdr = hdr[cur][PRIMARY_GPT] /\ dsk.hdr_bak = hdr[cur][PRIMARY_GPT]
    BY <1>1, <2>1 DEF DiskInv, HandleInStep
  <2>4. dsk' = [dsk EXCEPT !.pentry_arr = arr[cur][PRIMARY_GPT]]
    BY <1>3, <2>1, <2>3
  <2>5. QED BY <1>1, <1>2, <1>20, <1>3, <1>6, <2>1, <2>2, <2>3, <2>4 DEF Handle, InSession
<1>7. CASE ReadBackupArray
  <2>1. pc = "arr_bak" /\ pc' = "pentry"
        /\ dsk' = [dsk EXCEPT !.pentry_arr_bak = arr[cur][dsk.hdr_bak.at],
                              !.is_initialized = TRUE]
    BY <1>7 DEF ReadBackupArray, Goto
  <2>2. ~ReadHeader /\ ~ReadBackupHeader /\ ~ReadArray
    BY <2>1 DEF ReadHeader, ReadBackupHeader, ReadArray
  <2>3. dsk.hdr_bak.at = PRIMARY_GPT
    BY <1>1, <2>1 DEF DiskInv, HandleInStep
  <2>4. dsk' = [dsk EXCEPT !.pentry_arr_bak = arr[cur][PRIMARY_GPT], !.is_initialized = TRUE]
    BY <2>1, <2>3
  <2>5. QED BY <1>1, <1>2, <1>20, <1>3, <1>7, <2>1, <2>2, <2>4 DEF Handle, InSession
<1>8. QED BY <1>1, <1>2, <1>20, <1>3, <1>4, <1>5, <1>6, <1>7

(* An initialised handle is edited and given its CRC; another one stays as *)
(* it is. *)
LEMMA EditDoes ==
    ASSUME DiskInv, EditEntries
    PROVE  /\ dsk' \in Handle /\ InSession /\ InSession' /\ cur \in Luns
           /\ dsk'.hdr = dsk.hdr /\ dsk'.hdr_bak = dsk.hdr_bak
           /\ dsk'.is_initialized = dsk.is_initialized
           /\ dsk.is_initialized => /\ dsk.pentry_arr \in Array
                                    /\ dsk'.pentry_arr = Edited(dsk.pentry_arr, todo[cur])
                                    /\ dsk'.pentry_arr # Null /\ dsk'.pentry_arr_bak # Null
           /\ ~dsk.is_initialized => dsk' = dsk
<1>1. pc = "pentry" /\ InSession /\ cur \in Luns /\ dsk \in Handle /\ InSession'
  BY InTheSession DEF EditEntries, InSession, Goto, Failed
<1>2. CASE dsk.is_initialized
  <2>1. dsk.pentry_arr \in Array /\ dsk.pentry_arr_bak \in Array
    BY <1>1, <1>2 DEF DiskInv, HandleInStep, Handle
  <2>2. /\ Edited(dsk.pentry_arr, todo[cur]) \in Array
        /\ Edited(dsk.pentry_arr_bak, todo[cur]) \in Array
    BY <2>1, EditedType DEF DiskInv, TypeOK
  <2>3. dsk' = [dsk EXCEPT !.pentry_arr = Edited(dsk.pentry_arr, todo[cur]),
                           !.pentry_arr_bak = Edited(dsk.pentry_arr_bak, todo[cur])]
    BY <1>1, <1>2 DEF EditEntries, Handle
  <2>4. QED BY <1>1, <1>2, <2>1, <2>2, <2>3, ConstantsOK DEF Handle
<1>3. CASE ~dsk.is_initialized
  BY <1>1, <1>3 DEF EditEntries
<1>4. QED BY <1>2, <1>3

LEMMA CrcDoes ==
    ASSUME DiskInv, gpt_disk_update_crc
    PROVE  /\ dsk' \in Handle /\ InSession /\ InSession' /\ cur \in Luns
           /\ dsk'.pentry_arr = dsk.pentry_arr /\ dsk'.pentry_arr_bak = dsk.pentry_arr_bak
           /\ dsk'.is_initialized = dsk.is_initialized
           /\ dsk.is_initialized => /\ dsk'.hdr.crc /\ dsk'.hdr.arr = dsk.pentry_arr
                                    /\ dsk'.hdr.at = PRIMARY_GPT /\ dsk'.hdr_bak.at = PRIMARY_GPT
                                    /\ dsk'.hdr # Null /\ dsk'.hdr_bak # Null
           /\ ~dsk.is_initialized => dsk' = dsk
<1>1. pc = "crc" /\ InSession /\ cur \in Luns /\ dsk \in Handle /\ InSession'
  BY InTheSession DEF gpt_disk_update_crc, InSession, Goto, Failed
<1>2. CASE dsk.is_initialized
  <2>1. /\ dsk.pentry_arr \in Array /\ dsk.pentry_arr_bak \in Array
        /\ dsk.hdr \in Header /\ dsk.hdr_bak \in Header
        /\ dsk.hdr.at = PRIMARY_GPT /\ dsk.hdr_bak.at = PRIMARY_GPT
    BY <1>1, <1>2 DEF DiskInv, HandleInStep, Handle
  <2>2. dsk' = [dsk EXCEPT !.hdr = WithCrc(dsk.hdr, dsk.pentry_arr),
                           !.hdr_bak = WithCrc(dsk.hdr_bak, dsk.pentry_arr_bak)]
    BY <1>1, <1>2 DEF gpt_disk_update_crc, Handle
  <2>3. /\ WithCrc(dsk.hdr, dsk.pentry_arr) \in Header
        /\ WithCrc(dsk.hdr_bak, dsk.pentry_arr_bak) \in Header
    BY <2>1, HeaderFields
  <2>4. /\ dsk'.hdr = WithCrc(dsk.hdr, dsk.pentry_arr)
        /\ dsk'.hdr_bak = WithCrc(dsk.hdr_bak, dsk.pentry_arr_bak)
        /\ dsk'.pentry_arr = dsk.pentry_arr /\ dsk'.pentry_arr_bak = dsk.pentry_arr_bak
        /\ dsk'.is_initialized = dsk.is_initialized /\ dsk' \in Handle
    BY <1>1, <2>2, <2>3 DEF Handle
  <2>5. QED BY <1>1, <1>2, <2>1, <2>3, <2>4, HeaderFields, ConstantsOK
<1>3. CASE ~dsk.is_initialized
  BY <1>1, <1>3 DEF gpt_disk_update_crc
<1>4. QED BY <1>2, <1>3

(* A new handle is empty. *)
LEMMA AllocDoes ==
    ASSUME DiskInv, Alloc
    PROVE  /\ dsk' \in Handle /\ ~InSession /\ pc' = "hdr" /\ cur' \in Luns /\ todo[cur'] # {}
           /\ dsk'.hdr = Null /\ dsk'.hdr_bak = Null /\ dsk'.pentry_arr = Null
           /\ ~dsk'.is_initialized
BY DEF Alloc, EmptyHandle, Handle, InSession, Mapped

(* A call fails because of a fault, or because an earlier one did. *)
LEMMA SparedStep == DiskInv /\ [Next]_vars => SparedInStep'
<1> SUFFICES ASSUME DiskInv, [Next]_vars PROVE SparedInStep'
  OBVIOUS
<1> USE InTheSession DEF SparedInStep, FlowOK, Edits, SessionInStep, HandleInStep,
        InSession, DiskInv, Reading, Writing, disk, history, Goto
<1>0. DisksOK /\ HandleOK /\ FlowOK /\ FlagsOK
  BY TypeParts DEF DiskInv
<1>1. ASSUME NEW kind \in Kinds, NEW slot \in Slots, Begin(kind, slot)
      PROVE  SparedInStep'
  BY <1>0, <1>1 DEF Begin
<1>2. CASE Alloc
  BY <1>0, <1>2 DEF Alloc, EmptyHandle, Mapped
<1>3. CASE ReadHeader
  BY <1>0, <1>3 DEF ReadHeader
<1>4. CASE ReadBackupHeader
  BY <1>0, <1>4 DEF ReadBackupHeader
<1>5. CASE ReadArray
  BY <1>0, <1>5 DEF ReadArray
<1>6. CASE ReadBackupArray
  BY <1>0, <1>6 DEF ReadBackupArray
<1>7. CASE EditEntries
  BY <1>0, <1>7, EditDoes DEF EditEntries, Failed
<1>8. CASE gpt_disk_update_crc
  BY <1>0, <1>8, CrcDoes DEF gpt_disk_update_crc, WithCrc, Failed
<1>9. CASE OpenForCommit
  BY <1>0, <1>9 DEF OpenForCommit, Failed
<1>10. CASE gpt_set_header
  BY <1>0, <1>10 DEF gpt_set_header
<1>11. CASE BeginArray
  BY <1>0, <1>11 DEF BeginArray, PutBlock, Failed
<1>12. CASE EndArray
  BY <1>0, <1>12 DEF EndArray, PutBlock
<1>13. CASE Free
  BY <1>0, <1>13 DEF Free
<1>14. CASE Finish
  BY <1>0, <1>14 DEF Finish
<1>15. CASE IoError
  BY <1>0, <1>15 DEF IoError, Fault, DiskAfter, HeaderAfter, PutBlock, Failed
<1>16. CASE PowerLoss
  BY <1>0, <1>16 DEF PowerLoss, Fault, DiskAfter, HeaderAfter, PutBlock
<1>17. CASE UNCHANGED vars
  BY <1>0, <1>17 DEF vars
<1>18. QED
  BY <1>1, <1>2, <1>3, <1>4, <1>5, <1>6, <1>7, <1>8, <1>9, <1>10, <1>11, <1>12, <1>13,
     <1>14, <1>15, <1>16, <1>17
     DEF Next

(* There is a handle exactly during a session. *)
Handled == (InSession => dsk \in Handle) /\ (~InSession => dsk = Null)

LEMMA HandledStep == DiskInv /\ [Next]_vars => Handled'
<1> SUFFICES ASSUME DiskInv, [Next]_vars PROVE Handled'
  OBVIOUS
<1> USE InTheSession DEF Handled, SessionInStep, InSession, DiskInv, Reading, disk,
        history, Goto
<1>0. DisksOK /\ HandleOK /\ FlowOK /\ FlagsOK
  BY TypeParts DEF DiskInv
<1>1. ASSUME NEW kind \in Kinds, NEW slot \in Slots, Begin(kind, slot) PROVE Handled'
  BY <1>0, <1>1 DEF Begin
<1>2. CASE Alloc
  BY <1>0, <1>2, AllocDoes DEF Alloc, EmptyHandle, Mapped
<1>3. CASE ReadHeader
  BY <1>0, <1>3, ReadDoes DEF ReadHeader
<1>4. CASE ReadBackupHeader
  BY <1>0, <1>4, ReadDoes DEF ReadBackupHeader
<1>5. CASE ReadArray
  BY <1>0, <1>5, ReadDoes DEF ReadArray
<1>6. CASE ReadBackupArray
  BY <1>0, <1>6, ReadDoes DEF ReadBackupArray
<1>7. CASE EditEntries
  BY <1>0, <1>7, EditDoes DEF EditEntries, Failed
<1>8. CASE gpt_disk_update_crc
  BY <1>0, <1>8, CrcDoes DEF gpt_disk_update_crc, WithCrc, Failed
<1>9. CASE OpenForCommit
  BY <1>0, <1>9 DEF OpenForCommit, Failed
<1>10. CASE gpt_set_header
  BY <1>0, <1>10 DEF gpt_set_header
<1>11. CASE BeginArray
  BY <1>0, <1>11 DEF BeginArray, PutBlock, Failed
<1>12. CASE EndArray
  BY <1>0, <1>12 DEF EndArray, PutBlock
<1>13. CASE Free
  BY <1>0, <1>13 DEF Free
<1>14. CASE Finish
  BY <1>0, <1>14 DEF Finish
<1>15. CASE IoError
  BY <1>0, <1>15 DEF IoError, Failed, Writing
<1>16. CASE PowerLoss
  BY <1>0, <1>16 DEF PowerLoss, Fault, DiskAfter, HeaderAfter, PutBlock
<1>17. CASE UNCHANGED vars
  BY <1>0, <1>17 DEF vars
<1>18. QED
  BY <1>1, <1>2, <1>3, <1>4, <1>5, <1>6, <1>7, <1>8, <1>9, <1>10, <1>11, <1>12, <1>13,
     <1>14, <1>15, <1>16, <1>17
     DEF Next

(* A session is taken up with a disk of the map and given up with its      *)
(* handle. *)
Mapping ==
    /\ InSession => cur \in Luns /\ todo[cur] # {}
    /\ ~InSession => cur = NoLun
    /\ \A l \in Luns : todo[l] \in {{}, Found[l]}

LEMMA MappingStep == DiskInv /\ [Next]_vars => Mapping'
<1> SUFFICES ASSUME DiskInv, [Next]_vars PROVE Mapping'
  OBVIOUS
<1> USE ConstantsOK, MapType, InTheSession DEF Mapping, Found, FlowOK, SessionInStep,
        InSession, DiskInv, Reading, Writing, disk, history, Goto
<1>0. DisksOK /\ HandleOK /\ FlowOK /\ FlagsOK
  BY TypeParts DEF DiskInv
<1>1. ASSUME NEW kind \in Kinds, NEW slot \in Slots, Begin(kind, slot) PROVE Mapping'
  BY <1>0, <1>1 DEF Begin
<1>2. CASE Alloc
  BY <1>0, <1>2, AllocDoes DEF Alloc, EmptyHandle, Mapped
<1>3. CASE ReadHeader
  BY <1>0, <1>3 DEF ReadHeader
<1>4. CASE ReadBackupHeader
  BY <1>0, <1>4 DEF ReadBackupHeader
<1>5. CASE ReadArray
  BY <1>0, <1>5 DEF ReadArray
<1>6. CASE ReadBackupArray
  BY <1>0, <1>6 DEF ReadBackupArray
<1>7. CASE EditEntries
  BY <1>0, <1>7 DEF EditEntries, Failed
<1>8. CASE gpt_disk_update_crc
  BY <1>0, <1>8 DEF gpt_disk_update_crc, WithCrc, Failed
<1>9. CASE OpenForCommit
  BY <1>0, <1>9 DEF OpenForCommit, Failed
<1>10. CASE gpt_set_header
  BY <1>0, <1>10 DEF gpt_set_header
<1>11. CASE BeginArray
  BY <1>0, <1>11 DEF BeginArray, PutBlock, Failed
<1>12. CASE EndArray
  BY <1>0, <1>12 DEF EndArray, PutBlock
<1>13. CASE Free
  BY <1>0, <1>13 DEF Free
<1>14. CASE Finish
  BY <1>0, <1>14 DEF Finish
<1>15. CASE IoError
  BY <1>0, <1>15 DEF IoError, Failed
<1>16. CASE PowerLoss
  BY <1>0, <1>16 DEF PowerLoss, Fault, DiskAfter, HeaderAfter, PutBlock
<1>17. CASE UNCHANGED vars
  BY <1>0, <1>17 DEF vars
<1>18. QED
  BY <1>1, <1>2, <1>3, <1>4, <1>5, <1>6, <1>7, <1>8, <1>9, <1>10, <1>11, <1>12, <1>13,
     <1>14, <1>15, <1>16, <1>17
     DEF Next

LEMMA SessionStep == DiskInv /\ [Next]_vars => SessionInStep' /\ HandleOK'
BY HandledStep, MappingStep, ConstantsOK DEF Handled, Mapping, SessionInStep, HandleOK

(* The handle is filled in the order of the reads. *)
LEMMA HandleStep == DiskInv /\ [Next]_vars => HandleInStep'
<1> SUFFICES ASSUME DiskInv, [Next]_vars PROVE HandleInStep'
  OBVIOUS
<1> USE ConstantsOK, InTheSession DEF BackupKept, HandleInStep, InSession, DiskInv,
        Reading, Writing, disk, history, Goto
<1>0. DisksOK /\ HandleOK /\ FlowOK /\ FlagsOK
  BY TypeParts DEF DiskInv
<1>1. ASSUME NEW kind \in Kinds, NEW slot \in Slots, Begin(kind, slot)
      PROVE  HandleInStep'
  BY <1>0, <1>1 DEF Begin
<1>2. CASE Alloc
  BY <1>0, <1>2, AllocDoes DEF Alloc, EmptyHandle, Mapped
<1>3. CASE ReadHeader
  <2>1. pc' = "hdr_bak" /\ pc = "hdr" /\ hdr' = hdr /\ cur' = cur
    BY <1>3 DEF ReadHeader
  <2>2. HandleInStep /\ InSession
    BY <1>3, ReadDoes DEF DiskInv
  <2>3. QED BY <1>3, <2>1, <2>2, ReadDoes
<1>4. CASE ReadBackupHeader
  BY <1>0, <1>4, ReadDoes DEF ReadBackupHeader
<1>5. CASE ReadArray
  <2>1. pc' = "arr_bak" /\ pc = "arr" /\ hdr' = hdr /\ cur' = cur
    BY <1>5 DEF ReadArray
  <2>2. HandleInStep /\ InSession
    BY <1>5, ReadDoes DEF DiskInv
  <2>3. QED BY <1>5, <2>1, <2>2, ReadDoes
<1>6. CASE ReadBackupArray
  <2>1. pc' = "pentry" /\ pc = "arr_bak" /\ hdr' = hdr /\ cur' = cur
    BY <1>6 DEF ReadBackupArray
  <2>2. HandleInStep /\ InSession
    BY <1>6, ReadDoes DEF DiskInv
  <2>3. QED BY <1>6, <2>1, <2>2, ReadDoes
<1>7. CASE EditEntries
  <2>1. pc' \in {"crc", "free"} /\ pc = "pentry" /\ hdr' = hdr /\ cur' = cur
    BY <1>7 DEF EditEntries, Failed
  <2>2. HandleInStep /\ InSession
    BY <1>7, EditDoes DEF DiskInv
  <2>3. QED BY <1>7, <2>1, <2>2, EditDoes
<1>8. CASE gpt_disk_update_crc
  BY <1>0, <1>8, CrcDoes DEF gpt_disk_update_crc, WithCrc, Failed
<1>9. CASE OpenForCommit
  BY <1>0, <1>9 DEF OpenForCommit, Failed
<1>10. CASE gpt_set_header
  BY <1>0, <1>10 DEF gpt_set_header
<1>11. CASE BeginArray
  BY <1>0, <1>11 DEF BeginArray, PutBlock, Failed
<1>12. CASE EndArray
  BY <1>0, <1>12 DEF EndArray, PutBlock
<1>13. CASE Free
  BY <1>0, <1>13 DEF Free
<1>14. CASE Finish
  BY <1>0, <1>14 DEF Finish
<1>15. CASE IoError
  BY <1>0, <1>15 DEF IoError, Fault, DiskAfter, HeaderAfter, PutBlock, Failed
<1>16. CASE PowerLoss
  BY <1>0, <1>16 DEF PowerLoss, Fault, DiskAfter, HeaderAfter, PutBlock
<1>17. CASE UNCHANGED vars
  BY <1>0, <1>17 DEF vars
<1>18. QED
  BY <1>1, <1>2, <1>3, <1>4, <1>5, <1>6, <1>7, <1>8, <1>9, <1>10, <1>11, <1>12, <1>13,
     <1>14, <1>15, <1>16, <1>17
     DEF Next

(* update_crc makes header and array agree, the commit writes both. *)
LEMMA CommitStep == DiskInv /\ [Next]_vars => CommitInStep'
<1> SUFFICES ASSUME DiskInv, [Next]_vars PROVE CommitInStep'
  OBVIOUS
<1> USE InTheSession DEF CommitInStep, HandleInStep, InSession, DiskInv, Reading,
        Writing, disk, history, Goto
<1>0. DisksOK /\ HandleOK /\ FlowOK /\ FlagsOK
  BY TypeParts DEF DiskInv
<1>1. ASSUME NEW kind \in Kinds, NEW slot \in Slots, Begin(kind, slot)
      PROVE  CommitInStep'
  BY <1>0, <1>1 DEF Begin
<1>2. CASE Alloc
  BY <1>0, <1>2, AllocDoes DEF Alloc, EmptyHandle, Mapped
<1>3. CASE ReadHeader
  BY <1>0, <1>3, ReadDoes DEF ReadHeader
<1>4. CASE ReadBackupHeader
  BY <1>0, <1>4, ReadDoes DEF ReadBackupHeader
<1>5. CASE ReadArray
  BY <1>0, <1>5, ReadDoes DEF ReadArray
<1>6. CASE ReadBackupArray
  BY <1>0, <1>6, ReadDoes DEF ReadBackupArray
<1>7. CASE EditEntries
  BY <1>0, <1>7, EditDoes DEF EditEntries, Failed
<1>8. CASE gpt_disk_update_crc
  BY <1>0, <1>8, CrcDoes DEF gpt_disk_update_crc, WithCrc, Failed
<1>9. CASE OpenForCommit
  BY <1>0, <1>9 DEF OpenForCommit, Failed
<1>10. CASE gpt_set_header
  <2>1. pc = "wr_hdr" /\ pc' = "wr_arr" /\ UNCHANGED <<arr, dsk, cur>>
    BY <1>10 DEF gpt_set_header
  <2>2. hdr' = [hdr EXCEPT ![cur][PRIMARY_GPT] = dsk.hdr] /\ NewHeader(dsk.hdr)
    BY <2>1, <1>10 DEF gpt_set_header, NewHeader
  <2>3. hdr'[cur][PRIMARY_GPT] = dsk.hdr
    BY <2>2, HeaderWritten
  <2>4. dsk.is_initialized /\ dsk.hdr.crc /\ dsk.hdr.arr = dsk.pentry_arr
    BY <2>1
  <2>5. QED BY <2>1, <2>3, <2>4
<1>11. CASE BeginArray
  <2>1. pc = "wr_arr" /\ pc' \in {"wr_arr2", "free"} /\ UNCHANGED <<hdr, dsk, cur>>
    BY <1>11 DEF BeginArray, Failed
  <2>2. dsk.is_initialized /\ dsk.pentry_arr # Null /\ hdr[cur][PRIMARY_GPT] = dsk.hdr
        /\ dsk.hdr.crc /\ dsk.hdr.arr = dsk.pentry_arr
    BY <2>1
  <2>3. NewBlock("a")
    BY <2>1, <2>2, <1>11 DEF BeginArray, NewBlock
  <2>4. arr'[cur][PRIMARY_GPT]["a"] = dsk.pentry_arr["a"]
    BY <2>3, BlockWritten DEF Slots
  <2>5. QED BY <2>1, <2>2, <2>4
<1>12. CASE EndArray
  BY <1>0, <1>12 DEF EndArray, PutBlock
<1>13. CASE Free
  BY <1>0, <1>13 DEF Free
<1>14. CASE Finish
  BY <1>0, <1>14 DEF Finish
<1>15. CASE IoError
  BY <1>0, <1>15 DEF IoError, Fault, DiskAfter, HeaderAfter, PutBlock, Failed
<1>16. CASE PowerLoss
  BY <1>0, <1>16 DEF PowerLoss, Fault, DiskAfter, HeaderAfter, PutBlock
<1>17. CASE UNCHANGED vars
  BY <1>0, <1>17 DEF vars
<1>18. QED
  BY <1>1, <1>2, <1>3, <1>4, <1>5, <1>6, <1>7, <1>8, <1>9, <1>10, <1>11, <1>12, <1>13,
     <1>14, <1>15, <1>16, <1>17
     DEF Next

(* The last block makes the primary GPT the one that was to be written. *)
LEMMA EndDoes ==
    ASSUME DiskInv, EndArray
    PROVE  /\ cur \in Luns /\ InSession /\ dsk.is_initialized /\ dsk.pentry_arr \in Array
           /\ arr'[cur][PRIMARY_GPT] = dsk.pentry_arr
           /\ hdr'[cur][PRIMARY_GPT] = dsk.hdr /\ dsk.hdr.crc /\ dsk.hdr.arr = dsk.pentry_arr
           /\ dsk.hdr.at = PRIMARY_GPT
<1>1. pc = "wr_arr2" /\ InSession /\ cur \in Luns /\ dsk \in Handle /\ hdr' = hdr
  BY InTheSession DEF EndArray, InSession
<1>2. NewBlock("b")
  BY <1>1 DEF NewBlock, EndArray, PutBlock
<1>3. /\ dsk.is_initialized /\ dsk.pentry_arr \in Array /\ dsk.hdr.at = PRIMARY_GPT
      /\ dsk.hdr.crc /\ dsk.hdr.arr = dsk.pentry_arr /\ hdr[cur][PRIMARY_GPT] = dsk.hdr
      /\ arr[cur][PRIMARY_GPT]["a"] = dsk.pentry_arr["a"]
  BY <1>1 DEF DiskInv, HandleInStep, CommitInStep, Writing, Handle
<1>4. \A s \in Slots : arr'[cur][PRIMARY_GPT][s] = dsk.pentry_arr[s]
  BY <1>2, <1>3, BlockWritten DEF Slots
<1>5. arr'[cur][PRIMARY_GPT] \in Array
  <2>1. arr' \in [Luns -> [Instances -> Array]]
    BY <1>2, BlockWritten DEF DisksOK, Slots
  <2>2. QED BY <1>1, <2>1 DEF Instances, PRIMARY_GPT
<1>6. arr'[cur][PRIMARY_GPT] = dsk.pentry_arr
  BY <1>3, <1>4, <1>5 DEF Array
<1>7. QED BY <1>1, <1>3, <1>6

(* What is written is at the disk of the session, and a fault during the   *)
(* writes is recorded. *)
HitKept ==
    \/ UNCHANGED <<disk, pc, cur, hit>>
    \/ UNCHANGED disk /\ pc \notin {"wr_arr", "wr_arr2"} /\ hit' = hit
    \/ pc \in Writing /\ InSession /\ hit' = [hit EXCEPT ![cur] = TRUE]
    \/ gpt_set_header \/ BeginArray \/ EndArray

LEMMA HitFrame == DiskInv /\ [Next]_vars => HitKept
<1> SUFFICES ASSUME DiskInv, [Next]_vars PROVE HitKept
  OBVIOUS
<1> USE DEF HitKept, InSession, Writing, Reading, InSession, disk, history, Goto
<1>0. DisksOK /\ HandleOK /\ FlowOK /\ FlagsOK
  BY TypeParts DEF DiskInv
<1>1. ASSUME NEW kind \in Kinds, NEW slot \in Slots, Begin(kind, slot) PROVE HitKept
  BY <1>0, <1>1 DEF Begin
<1>2. CASE Alloc
  BY <1>0, <1>2 DEF Alloc, EmptyHandle, Mapped
<1>3. CASE ReadHeader
  BY <1>0, <1>3 DEF ReadHeader
<1>4. CASE ReadBackupHeader
  BY <1>0, <1>4 DEF ReadBackupHeader
<1>5. CASE ReadArray
  BY <1>0, <1>5 DEF ReadArray
<1>6. CASE ReadBackupArray
  BY <1>0, <1>6 DEF ReadBackupArray
<1>7. CASE EditEntries
  BY <1>0, <1>7 DEF EditEntries, Failed
<1>8. CASE gpt_disk_update_crc
  BY <1>0, <1>8 DEF gpt_disk_update_crc, WithCrc, Failed
<1>9. CASE OpenForCommit
  BY <1>0, <1>9 DEF OpenForCommit, Failed
<1>10. CASE gpt_set_header
  BY <1>0, <1>10 DEF gpt_set_header
<1>11. CASE BeginArray
  BY <1>0, <1>11 DEF BeginArray, PutBlock, Failed
<1>12. CASE EndArray
  BY <1>0, <1>12 DEF EndArray, PutBlock
<1>13. CASE Free
  BY <1>0, <1>13 DEF Free
<1>14. CASE Finish
  BY <1>0, <1>14 DEF Finish
<1>15. CASE IoError
  BY <1>0, <1>15 DEF IoError, Fault, DiskAfter, HeaderAfter, PutBlock, Failed
<1>16. CASE PowerLoss
  BY <1>0, <1>16 DEF PowerLoss, Fault, DiskAfter, HeaderAfter, PutBlock
<1>17. CASE UNCHANGED vars
  BY <1>0, <1>17 DEF vars
<1>18. QED
  BY <1>1, <1>2, <1>3, <1>4, <1>5, <1>6, <1>7, <1>8, <1>9, <1>10, <1>11, <1>12, <1>13,
     <1>14, <1>15, <1>16, <1>17
     DEF Next

(* The other disks are left alone. *)
LEMMA OtherDisks ==
    DiskInv /\ [Next]_vars => \A l \in Luns : l # cur => hdr'[l] = hdr[l] /\ arr'[l] = arr[l]
<1> SUFFICES ASSUME DiskInv, [Next]_vars, NEW l \in Luns, l # cur
             PROVE  hdr'[l] = hdr[l] /\ arr'[l] = arr[l]
  OBVIOUS
<1>1. CASE UNCHANGED disk
  BY <1>1 DEF disk
<1>2. CASE \E h : NewHeader(h)
  BY <1>2, HeaderWritten
<1>3. CASE \E slot \in Slots : NewBlock(slot)
  BY <1>3, BlockWritten
<1>4. QED BY <1>1, <1>2, <1>3, DiskFrame DEF DiskWritten

(* Only a fault during the writes of a commit leaves the primary GPT       *)
(* invalid. *)
LEMMA DamageStep == DiskInv /\ [Next]_vars => PrimaryDamagedOnlyByFault'
<1> SUFFICES ASSUME DiskInv, [Next]_vars, NEW l \in Luns
             PROVE  Valid(l, PRIMARY_GPT)' \/ hit'[l]
                    \/ (cur' = l /\ pc' \in {"wr_arr", "wr_arr2"})
  BY DEF PrimaryDamagedOnlyByFault
<1>1. Valid(l, PRIMARY_GPT) \/ hit[l] \/ (cur = l /\ pc \in {"wr_arr", "wr_arr2"})
  BY DEF DiskInv, PrimaryDamagedOnlyByFault
<1>2. hit \in [Luns -> BOOLEAN]
  BY DEF DiskInv, TypeOK
<1>3. CASE UNCHANGED disk /\ pc \notin {"wr_arr", "wr_arr2"} /\ hit' = hit
  BY <1>1, <1>3 DEF Valid, disk
<1>30. CASE UNCHANGED <<disk, pc, cur, hit>>
  BY <1>1, <1>30 DEF Valid, disk
<1>4. CASE pc \in Writing /\ InSession /\ hit' = [hit EXCEPT ![cur] = TRUE]
  <2>1. CASE l = cur
    BY <1>2, <1>4, <2>1
  <2>2. CASE l # cur
    BY <1>1, <1>2, <1>4, <2>2, OtherDisks DEF Valid
  <2>3. QED BY <2>1, <2>2
<1>5. CASE gpt_set_header
  <2>1. CASE l = cur
    BY <1>5, <2>1 DEF gpt_set_header, Goto
  <2>2. CASE l # cur
    BY <1>1, <1>5, <2>2, OtherDisks DEF Valid, gpt_set_header, history
  <2>3. QED BY <2>1, <2>2
<1>6. CASE BeginArray
  <2>1. CASE l = cur
    <3>1. dsk.pentry_arr # Null
      BY <1>6 DEF BeginArray, DiskInv, HandleInStep, Writing, InSession
    <3>2. QED BY <1>6, <2>1, <3>1 DEF BeginArray, Goto
  <2>2. CASE l # cur
    BY <1>1, <1>6, <2>2, OtherDisks DEF Valid, BeginArray, history
  <2>3. QED BY <2>1, <2>2
<1>7. CASE EndArray
  <2>1. CASE l = cur
    BY <1>7, <2>1, EndDoes DEF Valid
  <2>2. CASE l # cur
    BY <1>1, <1>2, <1>7, <2>2, OtherDisks DEF Valid, EndArray
  <2>3. QED BY <2>1, <2>2
<1>8. QED BY <1>3, <1>30, <1>4, <1>5, <1>6, <1>7, HitFrame DEF HitKept

(* Where the array of the handle comes from. *)
ArrayKept ==
    \/ ~InSession'
    \/ dsk'.pentry_arr = Null
    \/ ReadArray /\ cur' = cur
    \/ EditEntries /\ dsk.is_initialized /\ cur' = cur
    \/ InSession /\ cur' = cur /\ dsk'.pentry_arr = dsk.pentry_arr

LEMMA ArrayFrame == DiskInv /\ [Next]_vars => ArrayKept
<1> SUFFICES ASSUME DiskInv, [Next]_vars PROVE ArrayKept
  OBVIOUS
<1> USE DEF ArrayKept, InSession, Reading, Writing, disk, history, Goto
<1>0. DisksOK /\ HandleOK /\ FlowOK /\ FlagsOK
  BY TypeParts DEF DiskInv
<1>1. ASSUME NEW kind \in Kinds, NEW slot \in Slots, Begin(kind, slot) PROVE ArrayKept
  BY <1>0, <1>1 DEF Begin
<1>2. CASE Alloc
  BY <1>0, <1>2, AllocDoes DEF Alloc, EmptyHandle, Mapped
<1>3. CASE ReadHeader
  BY <1>0, <1>3, ReadDoes DEF ReadHeader
<1>4. CASE ReadBackupHeader
  BY <1>0, <1>4, ReadDoes DEF ReadBackupHeader
<1>5. CASE ReadArray
  BY <1>0, <1>5, ReadDoes DEF ReadArray
<1>6. CASE ReadBackupArray
  BY <1>0, <1>6, ReadDoes DEF ReadBackupArray
<1>7. CASE EditEntries
  BY <1>0, <1>7, EditDoes DEF EditEntries, Failed
<1>8. CASE gpt_disk_update_crc
  BY <1>0, <1>8, CrcDoes DEF gpt_disk_update_crc, WithCrc, Failed
<1>9. CASE OpenForCommit
  BY <1>0, <1>9 DEF OpenForCommit, Failed
<1>10. CASE gpt_set_header
  BY <1>0, <1>10 DEF gpt_set_header
<1>11. CASE BeginArray
  BY <1>0, <1>11 DEF BeginArray, PutBlock, Failed
<1>12. CASE EndArray
  BY <1>0, <1>12 DEF EndArray, PutBlock
<1>13. CASE Free
  BY <1>0, <1>13 DEF Free
<1>14. CASE Finish
  BY <1>0, <1>14 DEF Finish
<1>15. CASE IoError
  BY <1>0, <1>15 DEF IoError, Fault, DiskAfter, HeaderAfter, PutBlock, Failed
<1>16. CASE PowerLoss
  BY <1>0, <1>16 DEF PowerLoss, Fault, DiskAfter, HeaderAfter, PutBlock
<1>17. CASE UNCHANGED vars
  BY <1>0, <1>17 DEF vars
<1>18. QED
  BY <1>1, <1>2, <1>3, <1>4, <1>5, <1>6, <1>7, <1>8, <1>9, <1>10, <1>11, <1>12, <1>13,
     <1>14, <1>15, <1>16, <1>17
     DEF Next

(* Entries of other partitions are never changed. *)
LEMMA OthersStep == DiskInv /\ [Next]_vars => OthersKept'
<1> SUFFICES ASSUME DiskInv, [Next]_vars PROVE OthersKept'
  OBVIOUS
<1>1. \A l \in Luns : Untouched(arr[l][PRIMARY_GPT], l)
  BY DEF DiskInv, OthersKept
<1>2. InSession /\ dsk.pentry_arr # Null => Untouched(dsk.pentry_arr, cur) /\ cur \in Luns
  BY InTheSession DEF DiskInv, OthersKept
<1>3. ASSUME NEW l \in Luns PROVE Untouched(arr'[l][PRIMARY_GPT], l)
  <2>1. CASE arr' = arr
    BY <1>1, <2>1
  <2>2. ASSUME NEW slot \in Slots, NewBlock(slot) PROVE Untouched(arr'[l][PRIMARY_GPT], l)
    <3>1. InSession /\ dsk.is_initialized /\ dsk.pentry_arr # Null
      BY <2>2 DEF NewBlock, InSession, DiskInv, HandleInStep, Writing, Slots
    <3>2. CASE l = cur
      BY <1>1, <1>2, <2>2, <3>1, <3>2, BlockWritten DEF Untouched
    <3>3. CASE l # cur
      BY <1>1, <2>2, <3>3, BlockWritten
    <3>4. QED BY <3>2, <3>3
  <2>3. QED BY <2>1, <2>2, DiskFrame DEF DiskWritten, NewHeader, disk
<1>4. ASSUME InSession', dsk'.pentry_arr # Null PROVE Untouched(dsk'.pentry_arr, cur')
  <2>1. CASE ReadArray /\ cur' = cur
    BY <1>1, <2>1, ReadDoes
  <2>2. CASE EditEntries /\ dsk.is_initialized /\ cur' = cur
    <3>1. /\ dsk.pentry_arr \in Array /\ InSession /\ cur \in Luns
          /\ dsk'.pentry_arr = Edited(dsk.pentry_arr, todo[cur])
      BY <2>2, EditDoes
    <3>2. todo[cur] \subseteq OnDisk(cur)
      BY <3>1, InTheSession, MapType DEF DiskInv, SessionInStep
    <3>3. QED BY <1>2, <2>2, <3>1, <3>2, ConstantsOK, EditedUntouched
  <2>3. CASE InSession /\ cur' = cur /\ dsk'.pentry_arr = dsk.pentry_arr
    BY <1>2, <1>4, <2>3
  <2>4. QED BY <1>4, <2>1, <2>2, <2>3, ArrayFrame DEF ArrayKept
<1>5. QED BY <1>3, <1>4 DEF OthersKept, Untouched

(* The edit of an initialised handle sets the slot. *)
EditKept ==
    \/ ~(pc' \in Edits /\ dsk'.is_initialized)
    \/ EditEntries /\ dsk.is_initialized /\ cur' = cur /\ todo' = todo /\ op' = op
    \/ /\ pc \in Edits /\ dsk.is_initialized /\ dsk'.pentry_arr = dsk.pentry_arr
       /\ cur' = cur /\ todo' = todo /\ op' = op

LEMMA EditFrame == DiskInv /\ [Next]_vars => EditKept
<1> SUFFICES ASSUME DiskInv, [Next]_vars PROVE EditKept
  OBVIOUS
<1> USE DEF EditKept, Edits, InSession, Reading, Writing, HandleInStep, DiskInv, disk,
        history, Goto
<1>0. DisksOK /\ HandleOK /\ FlowOK /\ FlagsOK
  BY TypeParts DEF DiskInv
<1>1. ASSUME NEW kind \in Kinds, NEW slot \in Slots, Begin(kind, slot) PROVE EditKept
  BY <1>0, <1>1 DEF Begin
<1>2. CASE Alloc
  BY <1>0, <1>2, AllocDoes DEF Alloc, EmptyHandle, Mapped
<1>3. CASE ReadHeader
  BY <1>0, <1>3, ReadDoes DEF ReadHeader
<1>4. CASE ReadBackupHeader
  BY <1>0, <1>4, ReadDoes DEF ReadBackupHeader
<1>5. CASE ReadArray
  BY <1>0, <1>5, ReadDoes DEF ReadArray
<1>6. CASE ReadBackupArray
  BY <1>0, <1>6, ReadDoes DEF ReadBackupArray
<1>7. CASE EditEntries
  BY <1>0, <1>7, EditDoes DEF EditEntries, Failed
<1>8. CASE gpt_disk_update_crc
  BY <1>0, <1>8, CrcDoes DEF gpt_disk_update_crc, WithCrc, Failed
<1>9. CASE OpenForCommit
  BY <1>0, <1>9 DEF OpenForCommit, Failed
<1>10. CASE gpt_set_header
  BY <1>0, <1>10 DEF gpt_set_header
<1>11. CASE BeginArray
  BY <1>0, <1>11 DEF BeginArray, PutBlock, Failed
<1>12. CASE EndArray
  BY <1>0, <1>12 DEF EndArray, PutBlock
<1>13. CASE Free
  BY <1>0, <1>13 DEF Free
<1>14. CASE Finish
  BY <1>0, <1>14 DEF Finish
<1>15. CASE IoError
  BY <1>0, <1>15 DEF IoError, Fault, DiskAfter, HeaderAfter, PutBlock, Failed
<1>16. CASE PowerLoss
  BY <1>0, <1>16 DEF PowerLoss, Fault, DiskAfter, HeaderAfter, PutBlock
<1>17. CASE UNCHANGED vars
  BY <1>0, <1>17 DEF vars
<1>18. QED
  BY <1>1, <1>2, <1>3, <1>4, <1>5, <1>6, <1>7, <1>8, <1>9, <1>10, <1>11, <1>12, <1>13,
     <1>14, <1>15, <1>16, <1>17
     DEF Next

LEMMA EditStep == DiskInv /\ [Next]_vars => EditInStep'
<1> SUFFICES ASSUME DiskInv, [Next]_vars, pc' \in Edits, dsk'.is_initialized,
                    op'.kind = "setActive"
             PROVE  Switched(dsk.pentry_arr, todo[cur])'
  BY DEF EditInStep
<1>1. CASE EditEntries /\ dsk.is_initialized /\ cur' = cur /\ todo' = todo /\ op' = op
  <2>1. /\ dsk.pentry_arr \in Array /\ cur \in Luns
        /\ dsk'.pentry_arr = Edited(dsk.pentry_arr, todo[cur])
    BY <1>1, EditDoes
  <2>2. todo[cur] \in SUBSET Parts
    BY <2>1 DEF DiskInv, TypeOK
  <2>3. Switched(Edited(dsk.pentry_arr, todo[cur]), todo[cur])
    BY <1>1, <2>1, <2>2, EditedSwitched
  <2>4. QED BY <1>1, <2>1, <2>3 DEF Switched
<1>2. CASE /\ pc \in Edits /\ dsk.is_initialized /\ dsk'.pentry_arr = dsk.pentry_arr
           /\ cur' = cur /\ todo' = todo /\ op' = op
  BY <1>2 DEF DiskInv, EditInStep, Switched
<1>3. QED BY <1>1, <1>2, EditFrame DEF EditKept

(* What a change of slot is about to write has one active slot where it    *)
(* was edited. *)
LEMMA WrittenOneActive ==
    ASSUME DiskInv, pc \in Edits, dsk.is_initialized, op.kind = "setActive"
    PROVE  OneActive(dsk.pentry_arr, todo[cur])
<1>1. InSession /\ cur \in Luns /\ dsk \in Handle
  BY InTheSession DEF InSession, Edits
<1>2. dsk.pentry_arr \in Array /\ todo[cur] \in SUBSET Parts
  BY <1>1 DEF DiskInv, HandleInStep, Handle, TypeOK
<1>3. Switched(dsk.pentry_arr, todo[cur]) /\ op \in [kind : Kinds, slot : Slots]
  BY DEF DiskInv, EditInStep, TypeOK
<1>4. QED BY <1>2, <1>3, SwitchedOneActive

UncheckedKept ==
    \/ unchecked' = unchecked
    \/ ReadArray /\ Denied(dsk.hdr) /\ unchecked' = [unchecked EXCEPT ![cur] = OnDisk(cur)]
    \/ /\ EndArray /\ op.kind = "setActive"
       /\ unchecked' = [unchecked EXCEPT ![cur] = unchecked[cur] \ todo[cur]]

LEMMA UncheckedFrame == DiskInv /\ [Next]_vars => UncheckedKept
<1> SUFFICES ASSUME DiskInv, [Next]_vars PROVE UncheckedKept
  OBVIOUS
<1> USE DEF UncheckedKept, disk, history, Goto
<1>0. DisksOK /\ HandleOK /\ FlowOK /\ FlagsOK
  BY TypeParts DEF DiskInv
<1>1. ASSUME NEW kind \in Kinds, NEW slot \in Slots, Begin(kind, slot)
      PROVE  UncheckedKept
  BY <1>0, <1>1 DEF Begin
<1>2. CASE Alloc
  BY <1>0, <1>2 DEF Alloc, EmptyHandle, Mapped
<1>3. CASE ReadHeader
  BY <1>0, <1>3 DEF ReadHeader
<1>4. CASE ReadBackupHeader
  BY <1>0, <1>4 DEF ReadBackupHeader
<1>5. CASE ReadArray
  BY <1>0, <1>5 DEF ReadArray
<1>6. CASE ReadBackupArray
  BY <1>0, <1>6 DEF ReadBackupArray
<1>7. CASE EditEntries
  BY <1>0, <1>7 DEF EditEntries, Failed
<1>8. CASE gpt_disk_update_crc
  BY <1>0, <1>8 DEF gpt_disk_update_crc, WithCrc, Failed
<1>9. CASE OpenForCommit
  BY <1>0, <1>9 DEF OpenForCommit, Failed
<1>10. CASE gpt_set_header
  BY <1>0, <1>10 DEF gpt_set_header
<1>11. CASE BeginArray
  BY <1>0, <1>11 DEF BeginArray, PutBlock, Failed
<1>12. CASE EndArray
  BY <1>0, <1>12 DEF EndArray, PutBlock
<1>13. CASE Free
  BY <1>0, <1>13 DEF Free
<1>14. CASE Finish
  BY <1>0, <1>14 DEF Finish
<1>15. CASE IoError
  BY <1>0, <1>15 DEF IoError, Fault, DiskAfter, HeaderAfter, PutBlock, Failed
<1>16. CASE PowerLoss
  BY <1>0, <1>16 DEF PowerLoss, Fault, DiskAfter, HeaderAfter, PutBlock
<1>17. CASE UNCHANGED vars
  BY <1>0, <1>17 DEF vars
<1>18. QED
  BY <1>1, <1>2, <1>3, <1>4, <1>5, <1>6, <1>7, <1>8, <1>9, <1>10, <1>11, <1>12, <1>13,
     <1>14, <1>15, <1>16, <1>17
     DEF Next

(* A partition that was checked keeps one active slot, and a change of     *)
(* slot gives one to those that were not. *)
LEMMA OneActiveStep == DiskInv /\ [Next]_vars => OneActiveInStep'
<1> SUFFICES ASSUME DiskInv, [Next]_vars PROVE OneActiveInStep'
  OBVIOUS
<1>1. unchecked \in [Luns -> SUBSET Parts] /\ op \in [kind : Kinds, slot : Slots]
  BY DEF DiskInv, TypeOK
<1>2. \A l \in Luns : OneActive(hdr[l][PRIMARY_GPT].arr, Parts \ unchecked[l])
  BY DEF DiskInv, OneActiveInStep
<1>3. InSession /\ dsk.pentry_arr # Null => OneActive(dsk.pentry_arr, Parts \ unchecked[cur])
  BY DEF DiskInv, OneActiveInStep
<1>4. EndArray =>
         /\ OneActive(dsk.pentry_arr, Parts \ unchecked'[cur])
         /\ hdr'[cur][PRIMARY_GPT].arr = dsk.pentry_arr /\ cur \in Luns
         /\ dsk' = dsk /\ cur' = cur /\ hdr' = hdr
  <2> SUFFICES ASSUME EndArray PROVE OneActive(dsk.pentry_arr, Parts \ unchecked'[cur])
    BY EndDoes DEF EndArray
  <2>1. InSession /\ dsk.pentry_arr # Null /\ cur \in Luns /\ dsk.is_initialized /\ pc \in Edits
    BY EndDoes, ConstantsOK DEF EndArray, Edits
  <2>2. CASE op.kind = "setActive"
    <3>1. unchecked'[cur] = unchecked[cur] \ todo[cur]
      BY <1>1, <2>1, <2>2 DEF EndArray
    <3>2. QED BY <1>3, <2>1, <2>2, <3>1, WrittenOneActive DEF OneActive
  <2>3. CASE op.kind # "setActive"
    BY <1>3, <2>1, <2>3 DEF EndArray
  <2>4. QED BY <2>2, <2>3
<1>40. ASSUME ~EndArray, NEW l \in Luns PROVE unchecked[l] \subseteq unchecked'[l]
  BY <1>1, <1>40, UncheckedFrame DEF UncheckedKept, DiskInv, OneActiveInStep
<1>41. \A l \in Luns : unchecked'[l] \subseteq OnDisk(l)
  <2>1. \A l \in Luns : unchecked[l] \subseteq OnDisk(l)
    BY DEF DiskInv, OneActiveInStep
  <2>2. QED BY <1>1, <2>1, UncheckedFrame DEF UncheckedKept
<1>5. ASSUME NEW l \in Luns PROVE OneActive(hdr'[l][PRIMARY_GPT].arr, Parts \ unchecked'[l])
  <2>1. CASE EndArray
    <3>1. CASE l = cur
      BY <1>4, <2>1, <3>1
    <3>2. CASE l # cur
      <4>1. unchecked'[l] = unchecked[l]
        BY <1>1, <2>1, <3>2 DEF EndArray
      <4>2. QED BY <1>2, <1>4, <2>1, <4>1
    <3>3. QED BY <3>1, <3>2
  <2>2. CASE ~EndArray
    <3>1. unchecked[l] \subseteq unchecked'[l]
      BY <1>40, <2>2
    <3>2. CASE hdr'[l] = hdr[l]
      BY <1>2, <3>1, <3>2 DEF OneActive
    <3>3. CASE hdr'[l] # hdr[l]
      <4>1. PICK h : NewHeader(h)
        BY <3>3, DiskFrame DEF DiskWritten, NewBlock, disk
      <4>2. l = cur /\ hdr'[cur][PRIMARY_GPT] = h
            /\ (h = hdr[cur][PRIMARY_GPT] \/ h.arr = dsk.pentry_arr)
        BY <3>3, <4>1, HeaderWritten
      <4>3. InSession /\ dsk.pentry_arr # Null
        BY <4>1 DEF NewHeader, InSession, DiskInv, HandleInStep, Writing
      <4>4. QED BY <1>2, <1>3, <3>1, <4>2, <4>3 DEF OneActive
    <3>4. QED BY <3>2, <3>3
  <2>3. QED BY <2>1, <2>2
<1>6. ASSUME InSession', dsk'.pentry_arr # Null
      PROVE  OneActive(dsk'.pentry_arr, Parts \ unchecked'[cur'])
  <2>1. CASE ReadArray /\ cur' = cur
    <3>1. /\ cur \in Luns /\ dsk.hdr = hdr[cur][PRIMARY_GPT] /\ arr[cur][PRIMARY_GPT] \in Array
          /\ dsk'.pentry_arr = arr[cur][PRIMARY_GPT] /\ dsk.hdr.at = PRIMARY_GPT
      BY <2>1, ReadDoes
    <3>2. CASE Denied(dsk.hdr)
      <4>1. unchecked'[cur] = OnDisk(cur)
        BY <1>1, <2>1, <3>1, <3>2 DEF ReadArray
      <4>2. Untouched(arr[cur][PRIMARY_GPT], cur)
        BY <3>1 DEF DiskInv, OthersKept
      <4>3. QED BY <2>1, <3>1, <4>1, <4>2, UntouchedOneActive
    <3>3. CASE ~Denied(dsk.hdr)
      <4>1. unchecked' = unchecked /\ dsk.hdr.arr = arr[cur][PRIMARY_GPT]
        BY <2>1, <3>1, <3>3 DEF ReadArray, Denied
      <4>2. QED BY <1>2, <2>1, <3>1, <4>1
    <3>4. QED BY <3>2, <3>3
  <2>2. CASE EditEntries /\ dsk.is_initialized /\ cur' = cur
    <3>1. /\ dsk.pentry_arr \in Array /\ InSession /\ dsk.pentry_arr # Null
          /\ dsk'.pentry_arr = Edited(dsk.pentry_arr, todo[cur])
      BY <2>2, EditDoes, ConstantsOK
    <3>2. unchecked' = unchecked
      BY <2>2 DEF EditEntries, history
    <3>3. QED BY <1>1, <1>3, <2>2, <3>1, <3>2, EditedOneActive
  <2>3. CASE InSession /\ cur' = cur /\ dsk'.pentry_arr = dsk.pentry_arr
    <3>1. cur \in Luns
      BY <2>3, InTheSession
    <3>2. CASE EndArray
      BY <1>4, <2>3, <3>2
    <3>3. CASE ~EndArray
      BY <1>3, <1>40, <1>6, <2>3, <3>1, <3>3 DEF OneActive
    <3>4. QED BY <3>2, <3>3
  <2>4. QED BY <1>6, <2>1, <2>2, <2>3, ArrayFrame DEF ArrayKept
<1>7. QED BY <1>41, <1>5, <1>6 DEF OneActiveInStep, OneActive, OnDisk

(* How disks get done. *)
DoneKept ==
    \/ pc' = "idle" \/ ret' # 0
    \/ pc' = "next" /\ todo' = Found'
    \/ EndArray
    \/ Free
    \/ /\ pc # "idle" /\ ret = 0 /\ todo' = todo /\ op' = op /\ missed' = missed
       /\ pc' = "free" => pc = "free" /\ cur' = cur
       /\ pc = "free" => pc' = "free" /\ UNCHANGED disk

LEMMA DoneFrame == DiskInv /\ [Next]_vars => DoneKept
<1> SUFFICES ASSUME DiskInv, [Next]_vars PROVE DoneKept
  OBVIOUS
<1> USE DEF DoneKept, Found, Writing, Reading, disk, history, Goto
<1>0. DisksOK /\ HandleOK /\ FlowOK /\ FlagsOK
  BY TypeParts DEF DiskInv
<1>1. ASSUME NEW kind \in Kinds, NEW slot \in Slots, Begin(kind, slot) PROVE DoneKept
  BY <1>0, <1>1 DEF Begin
<1>2. CASE Alloc
  BY <1>0, <1>2 DEF Alloc, EmptyHandle, Mapped
<1>3. CASE ReadHeader
  BY <1>0, <1>3 DEF ReadHeader
<1>4. CASE ReadBackupHeader
  BY <1>0, <1>4 DEF ReadBackupHeader
<1>5. CASE ReadArray
  BY <1>0, <1>5 DEF ReadArray
<1>6. CASE ReadBackupArray
  BY <1>0, <1>6 DEF ReadBackupArray
<1>7. CASE EditEntries
  BY <1>0, <1>7 DEF EditEntries, Failed
<1>8. CASE gpt_disk_update_crc
  BY <1>0, <1>8 DEF gpt_disk_update_crc, WithCrc, Failed
<1>9. CASE OpenForCommit
  BY <1>0, <1>9 DEF OpenForCommit, Failed
<1>10. CASE gpt_set_header
  BY <1>0, <1>10 DEF gpt_set_header
<1>11. CASE BeginArray
  BY <1>0, <1>11 DEF BeginArray, PutBlock, Failed
<1>12. CASE EndArray
  BY <1>0, <1>12 DEF EndArray, PutBlock
<1>13. CASE Free
  BY <1>0, <1>13 DEF Free
<1>14. CASE Finish
  BY <1>0, <1>14 DEF Finish
<1>15. CASE IoError
  BY <1>0, <1>15 DEF IoError, Fault, DiskAfter, HeaderAfter, PutBlock, Failed
<1>16. CASE PowerLoss
  BY <1>0, <1>16 DEF PowerLoss, Fault, DiskAfter, HeaderAfter, PutBlock
<1>17. CASE UNCHANGED vars
  BY <1>0, <1>17 DEF vars
<1>18. QED
  BY <1>1, <1>2, <1>3, <1>4, <1>5, <1>6, <1>7, <1>8, <1>9, <1>10, <1>11, <1>12, <1>13,
     <1>14, <1>15, <1>16, <1>17
     DEF Next

(* A disk is done when its last block has been written, and is not written *)
(* again. *)
LEMMA DoneStep == DiskInv /\ [Next]_vars => DoneInStep'
<1> DEFINE Good(l) == Valid(l, PRIMARY_GPT) /\ Switched(arr[l][PRIMARY_GPT], Found[l])
<1> SUFFICES ASSUME DiskInv, [Next]_vars, pc' # "idle", ret' = 0, op'.kind = "setActive",
                    NEW l \in Luns, Done(l)'
             PROVE  Good(l)'
  BY DEF DoneInStep
<1>1. Found'[l] # {} /\ (todo'[l] = {} \/ (pc' = "free" /\ cur' = l))
  BY DEF Done
<1>2. InSession => cur \in Luns /\ todo[cur] # {} /\ todo[cur] = Found[cur]
  BY InTheSession DEF DiskInv, SessionInStep
<1>30. missed' = missed => Found' = Found
  BY DEF Found
<1>3. ASSUME op' = op, missed' = missed, Good(l), hdr'[l] = hdr[l], arr'[l] = arr[l]
      PROVE  Good(l)'
  BY <1>3, <1>30 DEF Valid, Switched
<1>4. CASE pc' = "next" /\ todo' = Found'
  BY <1>1, <1>4
<1>5. CASE EndArray
  <2>1. /\ pc = "wr_arr2" /\ pc' = "free" /\ cur' = cur /\ todo' = todo
        /\ op' = op /\ missed' = missed /\ Found' = Found /\ ret = 0
    BY <1>5, <1>30 DEF EndArray, Goto
  <2>2. CASE l = cur
    <3>1. /\ cur \in Luns /\ InSession /\ dsk.is_initialized
          /\ arr'[cur][PRIMARY_GPT] = dsk.pentry_arr
          /\ hdr'[cur][PRIMARY_GPT] = dsk.hdr /\ dsk.hdr.crc /\ dsk.hdr.arr = dsk.pentry_arr
          /\ dsk.hdr.at = PRIMARY_GPT
      BY <1>5, EndDoes
    <3>2. Valid(l, PRIMARY_GPT)'
      BY <2>2, <3>1 DEF Valid
    <3>3. Switched(dsk.pentry_arr, todo[cur])
      BY <2>1, <3>1 DEF DiskInv, EditInStep, Edits
    <3>4. Switched(arr[l][PRIMARY_GPT], Found[l])'
      BY <1>2, <2>1, <2>2, <3>1, <3>3 DEF Switched
    <3>5. QED BY <3>2, <3>4
  <2>3. CASE l # cur
    <3>1. Done(l) /\ pc # "idle" /\ op.kind = "setActive"
      BY <1>1, <2>1, <2>3 DEF Done
    <3>2. Good(l)
      BY <2>1, <3>1 DEF DiskInv, DoneInStep
    <3>3. QED BY <1>3, <2>1, <2>3, <3>2, OtherDisks
  <2>4. QED BY <2>2, <2>3
<1>6. CASE Free
  <2>1. /\ pc = "free" /\ pc' = "next" /\ todo' = [todo EXCEPT ![cur] = {}] /\ ret = 0
        /\ op' = op /\ missed' = missed /\ Found' = Found /\ UNCHANGED disk
    BY <1>6, <1>30 DEF Free
  <2>2. todo \in [Luns -> SUBSET Parts]
    BY DEF DiskInv, TypeOK
  <2>3. Done(l)
    BY <1>1, <2>1, <2>2 DEF Done
  <2>4. Good(l)
    BY <2>1, <2>3 DEF DiskInv, DoneInStep
  <2>5. QED BY <1>3, <2>1, <2>4 DEF disk
<1>7. CASE /\ pc # "idle" /\ ret = 0 /\ todo' = todo /\ op' = op /\ missed' = missed
           /\ pc' = "free" => pc = "free" /\ cur' = cur
           /\ pc = "free" => pc' = "free" /\ UNCHANGED disk
  <2>1. Done(l)
    BY <1>1, <1>30, <1>7 DEF Done
  <2>2. Good(l)
    BY <1>7, <2>1 DEF DiskInv, DoneInStep
  <2>3. CASE pc = "free"
    BY <1>3, <1>7, <2>2, <2>3 DEF disk
  <2>4. CASE pc # "free" /\ InSession
    <3>1. l # cur
      BY <1>1, <1>2, <1>30, <1>7, <2>4
    <3>2. QED BY <1>3, <1>7, <2>2, <3>1, OtherDisks
  <2>5. CASE ~InSession
    <3>1. UNCHANGED disk
      BY <2>5, DiskFrame DEF DiskWritten, NewHeader, NewBlock, InSession, Slots
    <3>2. QED BY <1>3, <1>7, <2>2, <3>1 DEF disk
  <2>6. QED BY <2>3, <2>4, <2>5
<1>8. QED BY <1>4, <1>5, <1>6, <1>7, DoneFrame DEF DoneKept

(***************************************************************************)
(* The initial states                                                      *)
(***************************************************************************)

LEMMA DiskInit == Init => DiskInv
<1> SUFFICES ASSUME Init PROVE DiskInv
  OBVIOUS
<1>1. [at |-> PRIMARY_GPT, crc |-> TRUE, arr |-> Factory] \in Header
      /\ [at |-> SECONDARY_GPT, crc |-> TRUE, arr |-> Factory] \in Header
  BY FactoryType DEF Header, Instances
<1>2. \A l \in Luns : /\ hdr[l][PRIMARY_GPT] = [at |-> PRIMARY_GPT, crc |-> TRUE, arr |-> Factory]
                      /\ hdr[l][SECONDARY_GPT] = [at |-> SECONDARY_GPT, crc |-> TRUE, arr |-> Factory]
                      /\ arr[l][PRIMARY_GPT] = Factory /\ arr[l][SECONDARY_GPT] = Factory
  BY DEF Init, Instances
<1>20. \A l \in Luns : /\ hdr[l][PRIMARY_GPT].at = PRIMARY_GPT
                       /\ hdr[l][PRIMARY_GPT].arr = Factory
  BY <1>2
<1>3. DisksOK
  <2>1. hdr = [l \in Luns |-> [i \in Instances |-> [at |-> i, crc |-> TRUE, arr |-> Factory]]]
        /\ arr = [l \in Luns |-> [i \in Instances |-> Factory]]
    BY DEF Init
  <2>2. \A i \in Instances : [at |-> i, crc |-> TRUE, arr |-> Factory] \in Header
    BY FactoryType DEF Header
  <2>3. QED BY <2>1, <2>2, FactoryType DEF DisksOK
<1>4. HandleOK /\ FlagsOK
  BY DEF Init, HandleOK, FlagsOK
<1>5. FlowOK
  BY ConstantsOK DEF Init, FlowOK, Places, Kinds, Slots
<1>6. TypeOK
  BY <1>3, <1>4, <1>5, TypeParts
<1>7. BackupKept
  BY <1>2, <1>20 DEF BackupKept
<1>8. SessionInStep /\ HandleInStep /\ CommitInStep
  BY DEF Init, SessionInStep, HandleInStep, CommitInStep, InSession, Writing
<1>9. OneActiveInStep /\ OthersKept
  <2>1. ~InSession
    BY DEF Init, InSession
  <2>2. \A l \in Luns : unchecked[l] = {}
    BY DEF Init
  <2>3. OneActiveInStep
    BY <1>20, <2>1, <2>2, FactoryType DEF OneActiveInStep, OneActive
  <2>4. OthersKept
    BY <1>2, <2>1 DEF OthersKept, Untouched
  <2>5. QED BY <2>3, <2>4
<1>10. EditInStep /\ DoneInStep /\ SparedInStep
  BY DEF Init, EditInStep, DoneInStep, SparedInStep, Edits
<1>11. PrimaryDamagedOnlyByFault
  BY <1>2 DEF PrimaryDamagedOnlyByFault, Valid
<1>12. QED BY <1>6, <1>7, <1>8, <1>9, <1>10, <1>11 DEF DiskInv

LEMMA DiskStep == DiskInv /\ [Next]_vars => DiskInv'
<1> SUFFICES ASSUME DiskInv, [Next]_vars PROVE DiskInv'
  OBVIOUS
<1>1. DisksOK' /\ HandleOK' /\ FlowOK' /\ FlagsOK'
  BY BackupStep, SessionStep, FlowStep, FlagsStep
<1>2. TypeOK'
  BY <1>1 DEF TypeOK, DisksOK, HandleOK, FlowOK, FlagsOK
<1>3. QED
  BY <1>2, BackupStep, SessionStep, HandleStep, CommitStep, OneActiveStep, OthersStep,
     EditStep, DoneStep, SparedStep, DamageStep DEF DiskInv

LEMMA DiskInvCorrect == Spec => []DiskInv
BY DiskInit, DiskStep, PTL DEF Spec

(***************************************************************************)
(* What follows from it                                                    *)
(***************************************************************************)

(* Every variable of the disk API keeps its type. *)
THEOREM DiskTypeCorrect == Spec => []TypeOK
<1>1. DiskInv => TypeOK
  BY DEF DiskInv
<1>2. QED BY <1>1, DiskInvCorrect, PTL

(* The primary GPT of a disk is invalid only after a fault during the      *)
(* writes of a commit, or in the middle of one. *)
THEOREM PrimaryDamagedCorrect == Spec => []PrimaryDamagedOnlyByFault
<1>1. DiskInv => PrimaryDamagedOnlyByFault
  BY DEF DiskInv
<1>2. QED BY <1>1, DiskInvCorrect, PTL

(* The firmware finds a valid GPT on every disk at every moment, and one   *)
(* active slot for every partition, except those taken from an array that  *)
(* its CRC denies and not switched since. *)
THEOREM OneActiveSlotCorrect == Spec => []OneActiveSlot
<1>1. DiskInv => OneActiveSlot
  <2> SUFFICES ASSUME DiskInv, NEW l \in Luns
               PROVE  /\ Valid(l, SECONDARY_GPT)
                      /\ OneActive(BootTable(l), Parts \ unchecked[l])
    BY DEF OneActiveSlot, OneActive
  <2>1. /\ hdr[l][SECONDARY_GPT] = [at |-> SECONDARY_GPT, crc |-> TRUE, arr |-> Factory]
        /\ arr[l][SECONDARY_GPT] = Factory /\ hdr[l][PRIMARY_GPT].at = PRIMARY_GPT
    BY DEF DiskInv, BackupKept
  <2>2. Valid(l, SECONDARY_GPT)
    BY <2>1 DEF Valid
  <2>3. CASE Valid(l, PRIMARY_GPT)
    <3>1. BootTable(l) = hdr[l][PRIMARY_GPT].arr
      BY <2>1, <2>3 DEF Valid, BootTable
    <3>2. QED BY <2>2, <3>1 DEF DiskInv, OneActiveInStep
  <2>4. CASE ~Valid(l, PRIMARY_GPT)
    BY <2>1, <2>2, <2>4, FactoryType DEF BootTable, OneActive
  <2>5. QED BY <2>2, <2>3, <2>4
<1>2. QED BY <1>1, DiskInvCorrect, PTL

(* When a change of slot has returned 0 the firmware boots that slot from  *)
(* every disk, for every partition of the list that exists and whose       *)
(* lookup has not failed. *)
THEOREM SuccessMeansSwitchedCorrect == Spec => []SuccessMeansSwitched
<1>1. DiskInv => SuccessMeansSwitched
  <2> SUFFICES ASSUME DiskInv, Finished, ret = 0, op.kind = "setActive",
                      NEW p \in Range(PtnList), LunOf[p] # NoLun,
                      p \notin missed, NEW s \in Slots
               PROVE  BootTable(LunOf[p])[s][p].active = (s = op.slot)
    BY DEF SuccessMeansSwitched
  <2>1. p \in Parts /\ LunOf[p] \in Luns
    BY ConstantsOK DEF Range
  <2>2. p \in Found[LunOf[p]]
    BY <2>1 DEF Found, gpt_utils_get_partition_map
  <2>3. pc = "next" /\ todo[LunOf[p]] = {}
    BY <2>1 DEF Finished, Mapped
  <2>4. Done(LunOf[p])
    BY <2>2, <2>3 DEF Done
  <2>5. /\ Valid(LunOf[p], PRIMARY_GPT)
        /\ Switched(arr[LunOf[p]][PRIMARY_GPT], Found[LunOf[p]])
    BY <2>1, <2>3, <2>4 DEF DiskInv, DoneInStep
  <2>6. QED BY <2>2, <2>5 DEF BootTable, Switched
<1>2. QED BY <1>1, DiskInvCorrect, PTL

(* A change that no fault hits goes through, whatever earlier ones left. *)
THEOREM RetrySucceedsCorrect == Spec => []RetrySucceeds
<1>1. DiskInv => RetrySucceeds
  BY DEF DiskInv, SparedInStep, RetrySucceeds, Finished
<1>2. QED BY <1>1, DiskInvCorrect, PTL

(***************************************************************************)
(* The API implements the slot tables                                      *)
(*                                                                         *)
(* The handle's array is the primary array of its disk until the HAL edits *)
(* it, and from then on the edit of that array: the blocks the commit has  *)
(* written are already edited, and editing them again changes nothing      *)
(* (EditedBlocks).  So the header a commit writes stands for a table on    *)
(* which the operation is done, whichever blocks have reached the disk.    *)
(***************************************************************************)

TableInStep ==
    /\ pc \in Reading \cup {"pentry"} /\ dsk.pentry_arr # Null =>
          dsk.pentry_arr = arr[cur][PRIMARY_GPT]
    /\ pc \in Edits /\ dsk.is_initialized =>
          dsk.pentry_arr = Edited(arr[cur][PRIMARY_GPT], todo[cur])

(* An array of which some blocks have been edited needs the same edit. *)
LEMMA EditedBlocks ==
    ASSUME op \in [kind : Kinds, slot : Slots], NEW array \in Array, NEW partly \in Array,
           NEW parts,
           \A s \in Slots : partly[s] \in {array[s], Edited(array, parts)[s]}
    PROVE  Edited(partly, parts) = Edited(array, parts)
<1>1. ASSUME NEW entry \in Entry, NEW s \in Slots
      PROVE  EditedEntry(EditedEntry(entry, s), s) = EditedEntry(entry, s)
  BY DEF EditedEntry, Entry
<1>2. ASSUME NEW s \in Slots, NEW p \in Parts
      PROVE  Edited(partly, parts)[s][p] = Edited(array, parts)[s][p]
  <2>1. array[s][p] \in Entry
    BY DEF Array
  <2>2. /\ Edited(array, parts)[s][p] =
              IF p \in parts THEN EditedEntry(array[s][p], s) ELSE array[s][p]
        /\ Edited(partly, parts)[s][p] =
              IF p \in parts THEN EditedEntry(partly[s][p], s) ELSE partly[s][p]
    BY DEF Edited
  <2>3. partly[s][p] \in {array[s][p], Edited(array, parts)[s][p]}
    OBVIOUS
  <2>4. QED BY <1>1, <2>1, <2>2, <2>3
<1>3. QED
  <2>1. Edited(partly, parts) \in Array /\ Edited(array, parts) \in Array
    BY EditedType
  <2>2. \A s \in Slots : Edited(partly, parts)[s] = Edited(array, parts)[s]
    BY <1>2, <2>1 DEF Array
  <2>3. QED BY <2>1, <2>2 DEF Array

(* A session reads before it edits; its operation is the one it began for. *)
OrderKept ==
    /\ InSession /\ pc' \in Reading \cup {"pentry"} => pc \in Reading \cup {"pentry"}
    /\ (op' = op /\ missed' = missed) \/ pc = "idle"

LEMMA OrderFrame == DiskInv /\ [Next]_vars => OrderKept
<1> SUFFICES ASSUME DiskInv, [Next]_vars PROVE OrderKept
  OBVIOUS
<1> USE DEF OrderKept, InSession, Reading, Writing, disk, history, Goto
<1>1. ASSUME NEW kind \in Kinds, NEW slot \in Slots, Begin(kind, slot) PROVE OrderKept
  BY <1>1 DEF Begin
<1>2. CASE Alloc
  BY <1>2 DEF Alloc
<1>3. CASE ReadHeader
  BY <1>3 DEF ReadHeader
<1>4. CASE ReadBackupHeader
  BY <1>4 DEF ReadBackupHeader
<1>5. CASE ReadArray
  BY <1>5 DEF ReadArray
<1>6. CASE ReadBackupArray
  BY <1>6 DEF ReadBackupArray
<1>7. CASE EditEntries
  BY <1>7 DEF EditEntries, Failed
<1>8. CASE gpt_disk_update_crc
  BY <1>8 DEF gpt_disk_update_crc, Failed
<1>9. CASE OpenForCommit
  BY <1>9 DEF OpenForCommit, Failed
<1>10. CASE gpt_set_header
  BY <1>10 DEF gpt_set_header
<1>11. CASE BeginArray
  BY <1>11 DEF BeginArray, Failed
<1>12. CASE EndArray
  BY <1>12 DEF EndArray
<1>13. CASE Free
  BY <1>13 DEF Free
<1>14. CASE Finish
  BY <1>14 DEF Finish
<1>15. CASE IoError
  BY <1>15 DEF IoError, Failed
<1>16. CASE PowerLoss
  BY <1>16 DEF PowerLoss
<1>17. CASE UNCHANGED vars
  BY <1>17 DEF vars
<1>18. QED
  BY <1>1, <1>2, <1>3, <1>4, <1>5, <1>6, <1>7, <1>8, <1>9, <1>10, <1>11, <1>12, <1>13,
     <1>14, <1>15, <1>16, <1>17
     DEF Next

(* What a block of the commit does to the array on the disk. *)
LEMMA BlockEdited ==
    ASSUME DiskInv, TableInStep, NEW slot \in Slots, NewBlock(slot)
    PROVE  /\ cur \in Luns /\ todo[cur] = Found[cur]
           /\ arr[cur][PRIMARY_GPT] \in Array /\ arr'[cur][PRIMARY_GPT] \in Array
           /\ \A s \in Slots : arr'[cur][PRIMARY_GPT][s] =
                 IF s = slot THEN Edited(arr[cur][PRIMARY_GPT], todo[cur])[s]
                             ELSE arr[cur][PRIMARY_GPT][s]
           /\ Edited(arr'[cur][PRIMARY_GPT], todo[cur]) = Edited(arr[cur][PRIMARY_GPT], todo[cur])
           /\ dsk.pentry_arr = Edited(arr[cur][PRIMARY_GPT], todo[cur])
           /\ hdr[cur][PRIMARY_GPT].arr = dsk.pentry_arr
           /\ hdr[cur][PRIMARY_GPT].at = PRIMARY_GPT
<1>1. pc \in {"wr_arr", "wr_arr2"} /\ InSession /\ cur \in Luns
  BY InTheSession DEF NewBlock, InSession, Slots
<1>2. dsk.is_initialized /\ hdr[cur][PRIMARY_GPT] = dsk.hdr /\ dsk.hdr.arr = dsk.pentry_arr
      /\ hdr[cur][PRIMARY_GPT].at = PRIMARY_GPT
  BY <1>1 DEF DiskInv, HandleInStep, CommitInStep, BackupKept, Writing
<1>3. todo[cur] = Found[cur]
  BY <1>1, InTheSession DEF DiskInv, SessionInStep
<1>4. arr[cur][PRIMARY_GPT] \in Array /\ arr'[cur][PRIMARY_GPT] \in Array
  <2>1. arr \in [Luns -> [Instances -> Array]] /\ arr' \in [Luns -> [Instances -> Array]]
    BY BlockWritten DEF DiskInv, TypeOK, DisksOK
  <2>2. QED BY <1>1, <2>1 DEF Instances, PRIMARY_GPT
<1>5. dsk.pentry_arr = Edited(arr[cur][PRIMARY_GPT], todo[cur])
  BY <1>1, <1>2 DEF TableInStep, Edits
<1>6. \A s \in Slots : arr'[cur][PRIMARY_GPT][s] =
         IF s = slot THEN Edited(arr[cur][PRIMARY_GPT], todo[cur])[s]
                     ELSE arr[cur][PRIMARY_GPT][s]
  BY <1>5, BlockWritten
<1>7. Edited(arr'[cur][PRIMARY_GPT], todo[cur]) = Edited(arr[cur][PRIMARY_GPT], todo[cur])
  <2>1. op \in [kind : Kinds, slot : Slots]
    BY DEF DiskInv, TypeOK
  <2>2. \A s \in Slots : arr'[cur][PRIMARY_GPT][s] \in
           {arr[cur][PRIMARY_GPT][s], Edited(arr[cur][PRIMARY_GPT], todo[cur])[s]}
    BY <1>6
  <2>3. QED BY <1>4, <2>1, <2>2, EditedBlocks
<1>8. QED BY <1>1, <1>2, <1>3, <1>4, <1>5, <1>6, <1>7

LEMMA TableStep == DiskInv /\ TableInStep /\ [Next]_vars => TableInStep'
<1> SUFFICES ASSUME DiskInv, TableInStep, [Next]_vars PROVE TableInStep'
  OBVIOUS
<1>1. ASSUME pc' \in Reading \cup {"pentry"}, dsk'.pentry_arr # Null
      PROVE  dsk'.pentry_arr = arr'[cur'][PRIMARY_GPT]
  <2>1. InSession'
    BY <1>1 DEF InSession, Reading
  <2>2. CASE ReadArray /\ cur' = cur
    BY <2>2, ReadDoes DEF ReadArray, disk
  <2>3. CASE EditEntries
    BY <1>1, <2>3 DEF EditEntries, Failed, Goto, Reading
  <2>4. CASE InSession /\ cur' = cur /\ dsk'.pentry_arr = dsk.pentry_arr
    <3>1. pc \in Reading \cup {"pentry"}
      BY <1>1, <2>4, OrderFrame DEF OrderKept
    <3>2. arr' = arr
      BY <3>1, DiskFrame DEF DiskWritten, NewHeader, NewBlock, Slots, Reading, disk
    <3>3. QED BY <1>1, <2>4, <3>1, <3>2 DEF TableInStep
  <2>5. QED BY <1>1, <2>1, <2>2, <2>3, <2>4, ArrayFrame DEF ArrayKept
<1>2. ASSUME pc' \in Edits, dsk'.is_initialized
      PROVE  dsk'.pentry_arr = Edited(arr[cur][PRIMARY_GPT], todo[cur])'
  <2>1. CASE EditEntries /\ dsk.is_initialized /\ cur' = cur /\ todo' = todo /\ op' = op
    <3>1. /\ dsk.pentry_arr \in Array
          /\ dsk'.pentry_arr = Edited(dsk.pentry_arr, todo[cur])
      BY <2>1, EditDoes
    <3>2. pc = "pentry" /\ arr' = arr
      BY <2>1 DEF EditEntries, disk
    <3>3. dsk.pentry_arr = arr[cur][PRIMARY_GPT]
      BY <3>1, <3>2, ConstantsOK DEF TableInStep
    <3>4. QED BY <2>1, <3>1, <3>2, <3>3 DEF Edited, EditedEntry
  <2>2. CASE /\ pc \in Edits /\ dsk.is_initialized /\ dsk'.pentry_arr = dsk.pentry_arr
             /\ cur' = cur /\ todo' = todo /\ op' = op
    <3>1. dsk'.pentry_arr = Edited(arr[cur][PRIMARY_GPT], todo[cur])
      BY <2>2 DEF TableInStep
    <3>2. CASE arr' = arr
      BY <2>2, <3>1, <3>2 DEF Edited, EditedEntry
    <3>3. ASSUME NEW slot \in Slots, NewBlock(slot)
          PROVE  dsk'.pentry_arr = Edited(arr[cur][PRIMARY_GPT], todo[cur])'
      <4>1. dsk'.pentry_arr = Edited(arr'[cur][PRIMARY_GPT], todo[cur])
        BY <3>1, <3>3, BlockEdited
      <4>2. QED BY <2>2, <4>1 DEF Edited, EditedEntry
    <3>4. QED BY <3>2, <3>3, DiskFrame DEF DiskWritten, NewHeader, disk
  <2>3. QED BY <1>2, <2>1, <2>2, EditFrame DEF EditKept
<1>3. QED BY <1>1, <1>2 DEF TableInStep

(* The two halves of a table are the two blocks of the edited array. *)
LEMMA HalfIsBlock ==
    ASSUME NEW l \in Luns, NEW array \in Array, NEW s \in Slots
    PROVE  Abs!Half(array, l, s) = Edited(array, Found[l])[s]
BY DEF Found, Abs!Half, Abs!Wanted, Edited, EditedEntry

LEMMA WholeIsEdited ==
    ASSUME NEW l \in Luns, NEW array \in Array,
           Edited(array, Found[l]) = array
    PROVE  Abs!Whole(array, l)
BY HalfIsBlock DEF Abs!Whole, Abs!Slots, Slots

(* The tables as the refinement mapping reads them. *)
OwnTable == [l \in Luns |-> arr[l][PRIMARY_GPT]]
Booted   == [l \in Luns |-> IF Valid(l, PRIMARY_GPT) THEN "own" ELSE "factory"]

LEMMA TablesInit == Init => Abs!Init
<1> SUFFICES ASSUME Init PROVE Abs!Init
  OBVIOUS
<1>1. \A l \in Luns : arr[l][PRIMARY_GPT] = Factory /\ Valid(l, PRIMARY_GPT)
  BY DEF Init, Valid, Instances
<1>2. Abs!Factory = Factory
  BY DEF Abs!Factory, Factory, Abs!Slots, Slots
<1>3. gpt_utils_get_partition_map(PtnList, missed) \in [Luns -> SUBSET Parts]
  BY MapType
<1>4. QED BY <1>1, <1>2, <1>3 DEF Abs!Init, Init

LEMMA TablesStep ==
    DiskInv /\ TableInStep /\ [Next]_vars => [Abs!Next]_(Abs!vars)
<1> SUFFICES ASSUME DiskInv, TableInStep, [Next]_vars PROVE Abs!Next \/ UNCHANGED Abs!vars
  OBVIOUS
<1>1. op' \in Abs!Operations
  BY FlowStep DEF FlowOK, Abs!Operations, Kinds, Slots, Abs!Slots
<1>2. CASE UNCHANGED disk
  <2>1. OwnTable' = OwnTable /\ Booted' = Booted
    BY <1>2 DEF OwnTable, Booted, Valid, disk
  <2>2. gpt_utils_get_partition_map(PtnList, missed') \in [Luns -> SUBSET Parts]
    BY MapType
  <2>3. Abs!Begin(op')
    BY <2>1, <2>2 DEF Abs!Begin, OwnTable, Booted
  <2>4. QED BY <1>1, <2>3 DEF Abs!Next
<1>3. ASSUME NEW h, NewHeader(h) PROVE Abs!Next \/ UNCHANGED Abs!vars
  <2>1. /\ cur \in Luns /\ pc = "wr_hdr" /\ arr' = arr
        /\ \A l \in Luns : l # cur => hdr'[l] = hdr[l]
        /\ hdr'[cur][PRIMARY_GPT] = h /\ h.at = PRIMARY_GPT
    BY <1>3, HeaderWritten
  <2>10. PICK d \in Luns : d = cur
    BY <2>1
  <2>2. op' = op /\ missed' = missed
    BY <2>1, OrderFrame DEF OrderKept
  <2>3. OwnTable' = OwnTable
    BY <2>1 DEF OwnTable
  <2>4. \A l \in Luns : l # d => (Valid(l, PRIMARY_GPT)' <=> Valid(l, PRIMARY_GPT))
    BY <2>10, <2>1 DEF Valid
  <2>5. CASE ~Valid(d, PRIMARY_GPT)'
    <3>1. Booted' = [Booted EXCEPT ![d] = "factory"]
      BY <2>10, <2>1, <2>4, <2>5 DEF Booted
    <3>2. Abs!Drop(d)
      BY <2>10, <2>2, <2>3, <3>1 DEF Abs!Drop, OwnTable, Booted
    <3>3. QED BY <2>10, <2>1, <3>2 DEF Abs!Next
  <2>6. CASE Valid(d, PRIMARY_GPT)' /\ Valid(d, PRIMARY_GPT)
    <3>1. Booted' = Booted
      BY <2>10, <2>1, <2>4, <2>6 DEF Booted
    <3>2. QED BY <2>2, <2>3, <3>1 DEF Abs!vars, OwnTable, Booted
  <2>7. CASE Valid(d, PRIMARY_GPT)' /\ ~Valid(d, PRIMARY_GPT)
    <3>1. Booted' = [Booted EXCEPT ![d] = "own"]
      BY <2>10, <2>1, <2>4, <2>7 DEF Booted
    <3>2. h # hdr[d][PRIMARY_GPT] /\ h.arr = arr[d][PRIMARY_GPT]
      BY <2>10, <2>1, <2>7 DEF Valid
    <3>3. h.arr = dsk.pentry_arr
      BY <1>3, <2>10, <3>2, HeaderWritten
    <3>4. InSession /\ dsk.is_initialized
      BY <2>1 DEF InSession, DiskInv, HandleInStep, Writing
    <3>5. dsk.pentry_arr = Edited(arr[d][PRIMARY_GPT], todo[d])
      BY <2>10, <2>1, <3>4 DEF TableInStep, Edits
    <3>6. todo[d] = Found[d]
      BY <2>10, <2>1, <3>4, InTheSession DEF DiskInv, SessionInStep
    <3>7. arr[d][PRIMARY_GPT] \in Array
      BY <2>10, <2>1 DEF DiskInv, TypeOK, Instances, PRIMARY_GPT
    <3>8. Abs!Whole(arr[d][PRIMARY_GPT], d)
      BY <2>10, <2>1, <3>2, <3>3, <3>5, <3>6, <3>7, WholeIsEdited
    <3>80. Found[d] # {}
      BY <2>10, <3>4, <3>6, InTheSession
    <3>9. Abs!Accept(d)
      BY <2>10, <2>1, <2>2, <2>3, <3>1, <3>8, <3>80 DEF Abs!Accept, Found, OwnTable, Booted
    <3>10. QED BY <2>10, <2>1, <3>9 DEF Abs!Next
  <2>8. QED BY <2>5, <2>6, <2>7
<1>4. ASSUME NEW slot \in Slots, NewBlock(slot) PROVE Abs!Next \/ UNCHANGED Abs!vars
  <2>1. /\ cur \in Luns /\ todo[cur] = Found[cur]
        /\ arr[cur][PRIMARY_GPT] \in Array /\ arr'[cur][PRIMARY_GPT] \in Array
        /\ \A s \in Slots : arr'[cur][PRIMARY_GPT][s] =
              IF s = slot THEN Edited(arr[cur][PRIMARY_GPT], todo[cur])[s]
                          ELSE arr[cur][PRIMARY_GPT][s]
        /\ Edited(arr'[cur][PRIMARY_GPT], todo[cur]) = Edited(arr[cur][PRIMARY_GPT], todo[cur])
        /\ dsk.pentry_arr = Edited(arr[cur][PRIMARY_GPT], todo[cur])
        /\ hdr[cur][PRIMARY_GPT].arr = dsk.pentry_arr
        /\ hdr[cur][PRIMARY_GPT].at = PRIMARY_GPT
    BY <1>4, BlockEdited
  <2>10. PICK d \in Luns : d = cur
    BY <2>1
  <2>2. hdr' = hdr /\ op' = op /\ missed' = missed /\ (\A l \in Luns : l # d => arr'[l] = arr[l])
    <3>1. pc # "idle"
      BY <1>4 DEF NewBlock
    <3>2. QED BY <1>4, <2>10, <3>1, BlockWritten, OrderFrame DEF OrderKept
  <2>20. Found[d] # {}
    <3>1. InSession
      BY <1>4 DEF NewBlock, InSession
    <3>2. QED BY <2>1, <2>10, <3>1, InTheSession
  <2>3. \A l \in Luns : l # d => (Valid(l, PRIMARY_GPT)' <=> Valid(l, PRIMARY_GPT))
    BY <2>10, <2>2 DEF Valid
  <2>4. CASE Valid(d, PRIMARY_GPT)
    <3>1. arr[d][PRIMARY_GPT] = Edited(arr[d][PRIMARY_GPT], todo[d])
      BY <2>10, <2>1, <2>4 DEF Valid
    <3>2. \A s \in Slots : arr'[d][PRIMARY_GPT][s] = arr[d][PRIMARY_GPT][s]
      BY <2>10, <2>1, <3>1
    <3>3. arr'[d][PRIMARY_GPT] = arr[d][PRIMARY_GPT]
      BY <2>10, <2>1, <3>2 DEF Array
    <3>4. Valid(d, PRIMARY_GPT)'
      BY <2>10, <2>1, <2>2, <2>4, <3>3 DEF Valid
    <3>5. OwnTable' = OwnTable /\ Booted' = Booted
      BY <2>10, <2>2, <2>3, <2>4, <3>3, <3>4 DEF OwnTable, Booted
    <3>6. QED BY <2>2, <3>5 DEF Abs!vars, OwnTable, Booted
  <2>5. CASE ~Valid(d, PRIMARY_GPT)
    <3>1. arr'[d][PRIMARY_GPT] =
             [arr[d][PRIMARY_GPT] EXCEPT ![slot] = Abs!Half(arr[d][PRIMARY_GPT], d, slot)]
      <4>1. Abs!Half(arr[d][PRIMARY_GPT], d, slot) =
               Edited(arr[d][PRIMARY_GPT], todo[d])[slot]
        BY <2>10, <2>1, HalfIsBlock
      <4>2. QED BY <2>10, <2>1, <4>1 DEF Array
    <3>2. OwnTable[d] = arr[d][PRIMARY_GPT] /\ OwnTable'[d] = arr'[d][PRIMARY_GPT]
          /\ Booted[d] = "factory"
      BY <2>10, <2>1, <2>5 DEF OwnTable, Booted
    <3>3. OwnTable' = [OwnTable EXCEPT ![d][slot] = Abs!Half(OwnTable[d], d, slot)]
      BY <2>10, <2>1, <2>2, <3>1, <3>2 DEF OwnTable
    <3>4. CASE ~Valid(d, PRIMARY_GPT)'
      <4>1. Booted' = Booted
        BY <2>10, <2>3, <2>5, <3>4 DEF Booted
      <4>2. Abs!Edit(d, slot)
        BY <2>10, <2>2, <2>20, <3>2, <3>3, <4>1 DEF Abs!Edit, Found, OwnTable, Booted
      <4>3. QED BY <1>4, <2>1, <4>2 DEF Abs!Next, Slots, Abs!Slots
    <3>5. CASE Valid(d, PRIMARY_GPT)'
      <4>1. Booted' = [Booted EXCEPT ![d] = "own"]
        BY <2>10, <2>1, <2>3, <3>5 DEF Booted
      <4>2. arr'[d][PRIMARY_GPT] = Edited(arr'[d][PRIMARY_GPT], todo[d])
        BY <2>10, <2>1, <2>2, <3>5 DEF Valid
      <4>3. Abs!Whole(arr'[d][PRIMARY_GPT], d)
        BY <2>10, <2>1, <4>2, WholeIsEdited
      <4>4. Abs!Edit(d, slot)
        BY <2>10, <2>2, <2>20, <3>2, <3>3, <4>1, <4>3 DEF Abs!Edit, Found, OwnTable, Booted
      <4>5. QED BY <1>4, <2>1, <4>4 DEF Abs!Next, Slots, Abs!Slots
    <3>6. QED BY <3>4, <3>5
  <2>6. QED BY <2>4, <2>5
<1>5. QED BY <1>2, <1>3, <1>4, DiskFrame DEF DiskWritten

(* Every behaviour of the API is one of the slot tables: whatever fails,   *)
(* the table the firmware reads is edited only while it is not in force,   *)
(* and comes into force again only with the operation done on all of it. *)
THEOREM RefinesSlotTables == Spec => ImplementsSlotTables
<1>1. Init => TableInStep
  BY DEF Init, TableInStep, Edits, Reading
<1>2. DiskInv /\ TableInStep /\ [Next]_vars => (DiskInv /\ TableInStep)'
  BY DiskStep, TableStep
<1>3. QED
  BY <1>1, <1>2, DiskInit, TablesInit, TablesStep, PTL DEF Spec, ImplementsSlotTables, Abs!Spec

(* The table in force in the abstract specification is the one the         *)
(* firmware reads: its own if valid, else the untouched backup. *)
THEOREM BootTableInForce == Spec => [](\A l \in Luns : BootTable(l) = Abs!InForce(l))
<1>1. DiskInv => \A l \in Luns : BootTable(l) = Abs!InForce(l)
  <2> SUFFICES ASSUME DiskInv, NEW l \in Luns PROVE BootTable(l) = Abs!InForce(l)
    OBVIOUS
  <2>1. arr[l][SECONDARY_GPT] = Factory /\ Abs!Factory = Factory
    BY DEF DiskInv, BackupKept, Abs!Factory, Factory, Abs!Slots, Slots
  <2>2. QED BY <2>1 DEF BootTable, Abs!InForce
<1>2. QED BY <1>1, DiskInvCorrect, PTL

(* A step of the slot tables changes the table in force only to the one of *)
(* the factory or to one with the whole operation done. *)
LEMMA TablesChange ==
    ASSUME Abs!Next, NEW l \in Luns, Abs!InForce(l)' # Abs!InForce(l)
    PROVE  Abs!InForce(l)' = Abs!Factory \/ Abs!Whole(OwnTable'[l], l)
<1>1. Abs!InForce(l) = IF Booted[l] = "own" THEN OwnTable[l] ELSE Abs!Factory
  BY DEF Abs!InForce, Booted, OwnTable
<1>2. Abs!InForce(l)' = IF Booted'[l] = "own" THEN OwnTable'[l] ELSE Abs!Factory
  BY DEF Abs!InForce, Booted, OwnTable, Abs!Factory
<1>3. DOMAIN Booted = Luns /\ DOMAIN OwnTable = Luns
  BY DEF Booted, OwnTable
<1>4. ASSUME NEW o \in Abs!Operations, Abs!Begin(o) PROVE FALSE
  <2>1. Booted' = Booted /\ OwnTable' = OwnTable
    BY <1>4 DEF Abs!Begin, Booted, OwnTable
  <2>2. QED BY <1>1, <1>2, <2>1
<1>5. ASSUME NEW d \in Luns, Abs!Drop(d) PROVE Abs!InForce(l)' = Abs!Factory
  <2>1. Booted' = [Booted EXCEPT ![d] = "factory"] /\ OwnTable' = OwnTable
    BY <1>5 DEF Abs!Drop, Booted, OwnTable
  <2>2. QED BY <1>1, <1>2, <1>3, <2>1
<1>6. ASSUME NEW d \in Luns, Abs!Accept(d) PROVE Abs!Whole(OwnTable'[l], l)
  <2>1. Booted' = [Booted EXCEPT ![d] = "own"] /\ OwnTable' = OwnTable
    BY <1>6 DEF Abs!Accept, Booted, OwnTable
  <2>2. Abs!Whole(OwnTable[d], d)
    BY <1>6 DEF Abs!Accept, OwnTable
  <2>3. l = d
    BY <1>1, <1>2, <1>3, <2>1
  <2>4. QED BY <2>1, <2>2, <2>3
<1>7. ASSUME NEW d \in Luns, NEW s \in Abs!Slots, Abs!Edit(d, s)
      PROVE  Abs!Whole(OwnTable'[l], l)
  <2>1. /\ Booted[d] = "factory"
        /\ OwnTable' = [OwnTable EXCEPT ![d][s] = Abs!Half(OwnTable[d], d, s)]
        /\ \/ Booted' = Booted
           \/ Abs!Whole(OwnTable'[d], d) /\ Booted' = [Booted EXCEPT ![d] = "own"]
    BY <1>7 DEF Abs!Edit, Booted, OwnTable
  <2>2. l = d /\ Booted' # Booted
    BY <1>1, <1>2, <1>3, <2>1
  <2>3. QED BY <2>1, <2>2
<1>8. QED BY <1>4, <1>5, <1>6, <1>7 DEF Abs!Next

(* What the firmware reads is never a half-edited table, through every     *)
(* fault and retry. *)
THEOREM WholeChangesCorrect == Spec => Abs!WholeChanges
<1>1. [Abs!Next]_(Abs!vars) =>
         [\A l \in Luns : Abs!InForce(l)' # Abs!InForce(l) =>
             Abs!InForce(l)' = Abs!Factory \/ Abs!Whole(OwnTable'[l], l)]_(Abs!vars)
  BY TablesChange
<1>2. Abs!Spec => Abs!WholeChanges
  BY <1>1, PTL DEF Abs!Spec, Abs!WholeChanges, OwnTable
<1>3. QED BY <1>2, RefinesSlotTables DEF ImplementsSlotTables
=============================================================================
