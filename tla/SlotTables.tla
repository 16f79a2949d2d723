----------------------------- MODULE SlotTables -----------------------------
(***************************************************************************)
(* What the gpt_disk API promises to the firmware, without headers, CRCs,  *)
(* handles or the places a call can fail at: every disk has a slot table   *)
(* of its own and the one of the factory to fall back on; the table in     *)
(* force is never edited in place, and a disk's own table comes into force *)
(* only when the current operation has been carried out on all of it.      *)
(* GptDisk is shown to implement this specification.                       *)
(***************************************************************************)

CONSTANTS
    Disks,      \* the disks with a slot table
    Parts       \* names of partitions, without the slot

VARIABLES
    own,        \* own[l]: the own table of disk l
    boot,       \* boot[l]: the table in force, "own" or "factory"
    op,         \* the operation, [kind, slot]
    listed      \* listed[l]: the partitions of disk l it is to be done on

vars == <<own, boot, op, listed>>

Slots      == {"a", "b"}
Operations == [kind : {"setActive", "markSuccessful"}, slot : Slots]
Factory    == [s \in Slots |-> [p \in Parts |-> [active |-> (s = "a"), ok |-> FALSE]]]

(* The entry of slot s as the operation wants it. *)
Wanted(entry, s) ==
    IF op.kind = "setActive" THEN [entry EXCEPT !.active = (s = op.slot)]
                             ELSE [entry EXCEPT !.ok = @ \/ s = op.slot]

(* The half of a table that belongs to slot s, with the operation done on  *)
(* the partitions listed. *)
Half(table, l, s) ==
    [p \in Parts |-> IF p \in listed[l] THEN Wanted(table[s][p], s) ELSE table[s][p]]

Whole(table, l) == \A s \in Slots : table[s] = Half(table, l, s)

Init ==
    /\ own = [l \in Disks |-> Factory]
    /\ boot = [l \in Disks |-> "own"]
    /\ op = [kind |-> "setActive", slot |-> "a"]
    /\ listed \in [Disks -> SUBSET Parts]

(* The HAL wants something else, on the partitions it finds. *)
Begin(o) ==
    /\ op' = o /\ listed' \in [Disks -> SUBSET Parts]
    /\ UNCHANGED <<own, boot>>

(* Disk l falls back on the table of the factory. *)
Drop(l) ==
    /\ boot' = [boot EXCEPT ![l] = "factory"]
    /\ UNCHANGED <<own, op, listed>>

(* Half of a table that is not in force is edited. *)
Edit(l, s) ==
    /\ boot[l] = "factory" /\ listed[l] # {}
    /\ own' = [own EXCEPT ![l][s] = Half(own[l], l, s)]
    /\ \/ UNCHANGED boot
       \/ Whole(own'[l], l) /\ boot' = [boot EXCEPT ![l] = "own"]
    /\ UNCHANGED <<op, listed>>

(* A table on which the whole operation has been done comes into force. *)
Accept(l) ==
    /\ listed[l] # {} /\ Whole(own[l], l)
    /\ boot' = [boot EXCEPT ![l] = "own"]
    /\ UNCHANGED <<own, op, listed>>

Next ==
    \/ \E o \in Operations : Begin(o)
    \/ \E l \in Disks : Drop(l) \/ Accept(l) \/ \E s \in Slots : Edit(l, s)

Spec == Init /\ [][Next]_vars

InForce(l) == IF boot[l] = "own" THEN own[l] ELSE Factory

(* What the firmware reads changes only to the table of the factory or to  *)
(* one on which the whole operation has been done.                         *)
WholeChanges ==
    [][\A l \in Disks :
        InForce(l)' # InForce(l) => InForce(l)' = Factory \/ Whole(own'[l], l)]_vars
=============================================================================
