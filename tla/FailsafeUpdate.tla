--------------------------- MODULE FailsafeUpdate ---------------------------
(***************************************************************************)
(* What prepare_boot_update promises to the updater and to the boot        *)
(* firmware, without GPT headers, signatures or stages: every boot-critical *)
(* image has two copies, exactly one of them is the copy the firmware      *)
(* would load after a power loss, only the other one is ever written, and  *)
(* the choice moves only to copies that are complete.  An image may be     *)
(* given up: it is exposed from then on, and the others are not.           *)
(* GptUpdate is shown to implement this specification.                     *)
(***************************************************************************)

CONSTANT Images          \* the boot-critical images that have a backup copy

VARIABLES
    boot,                \* boot[i]: the copy the firmware would load now
    img,                 \* img[i][c]: what copy c of image i holds
    exposed              \* the images that are no longer protected

vars == <<boot, img, exposed>>

Copy    == {"main", "bak"}
Content == {"old", "part", "new"}     \* "part": partly overwritten

Init ==
    /\ boot = [i \in Images |-> "main"]
    /\ img = [i \in Images |-> [c \in Copy |-> "old"]]
    /\ exposed = {}

(* The updater starts overwriting, or completes, a copy that is not booted. *)
Write(i, c, v) ==
    /\ boot[i] # c \/ i \in exposed
    /\ v = "new" => img[i][c] = "part"
    /\ img' = [img EXCEPT ![i][c] = v]
    /\ UNCHANGED <<boot, exposed>>

(* The images in S (those behind one GPT) move to copy c together. *)
Switch(S, c) ==
    /\ \A i \in S \ exposed : img[i][c] # "part"
    /\ boot' = [i \in Images |-> IF i \in S THEN c ELSE boot[i]]
    /\ UNCHANGED <<img, exposed>>

(* The images in S are given up. *)
Expose(S) ==
    /\ exposed' = exposed \cup S
    /\ UNCHANGED <<boot, img>>

Next ==
    \/ \E i \in Images, c \in Copy, v \in {"part", "new"} : Write(i, c, v)
    \/ \E S \in SUBSET Images, c \in Copy : Switch(S, c)
    \/ \E S \in SUBSET Images : Expose(S)

Spec == Init /\ [][Next]_vars

TypeOK ==
    /\ boot \in [Images -> Copy]
    /\ img \in [Images -> [Copy -> Content]]
    /\ exposed \in SUBSET Images

(* Whatever was interrupted, and in whatever order copies were written and *)
(* switched, the copy that boots is complete (comment at gpt-utils.cpp:854: *)
(* "so that the backup (...) is used" while the primaries are rewritten)   *)
(* for every image that was not given up.                                  *)
BootComplete == \A i \in Images \ exposed : img[i][boot[i]] # "part"
=============================================================================
