----------------------------- MODULE GptEntries -----------------------------
(***************************************************************************)
(* gpt_pentry_seek and gpt_boot_chain_swap: how the entry array that       *)
(* GptUpdate calls "swapped" is made from the primary one.                 *)
(*                                                                         *)
(* An entry is its name, a sequence of parts such as <<"tz">>,             *)
(* <<"tz", "bak">> or <<"xbl", "_config">>: strncmp looks at a prefix of   *)
(* it, and so does IsPrefix.                                               *)
(***************************************************************************)
EXTENDS Naturals, Sequences, SequencesExt

CONSTANTS
    SwapList,    \* PTN_SWAP_LIST, a sequence of names
    Names,       \* names of the entries of the disk
    MaxEntries   \* bound on the length of the array

PTN_XBL == <<"xbl">>
Bak(p)  == p \o <<"bak">>

ASSUME SwapListOK ==
    /\ SwapList \in Seq(Seq(STRING)) /\ Names \subseteq Seq(STRING)
    /\ IsInjective(SwapList) /\ MaxEntries \in Nat
    /\ \A k \in DOMAIN SwapList : SwapList[k] # <<>>
    /\ \A k, m \in DOMAIN SwapList : SwapList[k] # Bak(SwapList[m])

VARIABLES
    orig,              \* the primary array
    pentries,          \* the array being swapped
    isUfs,             \* gpt_utils_is_ufs_device()
    i,                 \* index into ptn_swap_list
    backup_not_found

vars == <<orig, pentries, isUfs, i, backup_not_found>>

Init ==
    /\ orig \in {a \in BoundedSeq(Names, MaxEntries) : IsInjective(a)}
    /\ pentries = orig
    /\ isUfs \in BOOLEAN
    /\ i = 1 /\ backup_not_found = TRUE

(* Seeded fault: the end of the name is not looked at. *)
MatchesPrefix(ptn_name, name) == IsPrefix(ptn_name, name)

Matches(ptn_name, name) == name = ptn_name \/ name = Bak(ptn_name)

(* Index of the first entry from "from" on that is ptn_name or its twin,   *)
(* 0 for NULL. *)
gpt_pentry_seek(ptn_name, from) ==
    SelectInSubSeq(pentries, from, Len(pentries),
                   LAMBDA name : Matches(ptn_name, name))

(* Handled by the boot LUN, not by the GPT. *)
IsXbl(ptn_name) == isUfs /\ IsPrefix(PTN_XBL, ptn_name)

SwapTwins(a, b) ==
    pentries' = [pentries EXCEPT ![a] = pentries[b], ![b] = pentries[a]]

(* One pass of the loop of gpt_boot_chain_swap. *)
SwapNext ==
    /\ i <= Len(SwapList) /\ i' = i + 1
    /\ LET ptn_entry == gpt_pentry_seek(SwapList[i], 1)
           ptn_bak_entry == gpt_pentry_seek(SwapList[i], ptn_entry + 1)
           swap == ~IsXbl(SwapList[i]) /\ ptn_entry # 0 /\ ptn_bak_entry # 0
       IN  \/ /\ swap
              /\ SwapTwins(ptn_entry, ptn_bak_entry)
              /\ backup_not_found' = FALSE
           \/ ~swap /\ UNCHANGED <<pentries, backup_not_found>>
    /\ UNCHANGED <<orig, isUfs>>

Spec == Init /\ [][SwapNext]_vars

(***************************************************************************)
(* Properties                                                              *)
(***************************************************************************)

(* The partitions of the list whose two twins are both in the array. *)
Pairs ==
    {p \in Range(SwapList) :
        ~IsXbl(p) /\ p \in Range(orig) /\ Bak(p) \in Range(orig)}

(* What swapping means: every entry of a pair is replaced by its twin's,   *)
(* every other one stays where it is. *)
TwinOf(name) ==
    IF name \in Pairs THEN Bak(name)
    ELSE IF \E p \in Pairs : name = Bak(p)
         THEN CHOOSE p \in Pairs : name = Bak(p)
         ELSE name

(* The loop swaps exactly the twins, whatever the order of the entries and *)
(* however their names extend each other (vbmeta, vbmeta_system), and      *)
(* returns 1, "no backup partitions found" (gpt-utils.cpp:228), exactly    *)
(* when it changed nothing: the caller then leaves the disk alone.         *)
SwapIsTwinExchange ==
    i > Len(SwapList) =>
        /\ pentries = [k \in DOMAIN orig |-> TwinOf(orig[k])]
        /\ backup_not_found <=> (pentries = orig)
=============================================================================
