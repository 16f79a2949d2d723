------------------------------ MODULE OtaScript ------------------------------
(***************************************************************************)
(* GptUpdate driven by one updater (external): a script that calls the     *)
(* three stages in order, writes the copies of a stage when its call       *)
(* returns 0, skips them when it does not, and starts over after a power   *)
(* loss, or when FINALIZE fails or leaves an old copy behind.  It shows    *)
(* that the stage machine read from the GPT headers never gets stuck: with *)
(* finitely many faults the update ends with every copy new.               *)
(***************************************************************************)
EXTENDS GptUpdate

CONSTANT MaxFaults     \* bound on power losses, I/O errors and failed lookups

ASSUME MaxFaultsOK == MaxFaults \in Nat

VARIABLES
    step,              \* where the script stands
    faults             \* faults so far

otaVars == <<vars, step, faults>>

StageOf  == [main |-> UPDATE_MAIN, bak |-> UPDATE_BACKUP]
AllNew   == AllAre("main", "new") /\ AllAre("bak", "new")

OtaInit ==
    /\ Init
    /\ \A l \in Luns : parr[l] = "normal"   \* else MAIN is refused for ever
    /\ step = "callMain" /\ faults = 0

Call(from, s, to) == step = from /\ Prepare(s) /\ step' = to

(* The call was accepted: the copies that are not new yet are written, the *)
(* backup ones only from new main ones. *)
WriteCopies(c) ==
    /\ step = c
    /\ \E i \in Images : img[i][c] # "new" /\ (BeginImage(i, c) \/ EndImage(i, c))
    /\ UNCHANGED step

(* All written, or refused: the script goes on.  It does not go on to a    *)
(* stage whose precondition its own writes have not established.           *)
Advance(c, to) ==
    /\ step = c /\ pc = "idle"
    /\ \/ AllAre(c, "new")
       \/ ready # StageOf[c]
       \/ c = "bak" /\ ~AllAre("main", "new")
    /\ step' = IF Uniform(c) THEN to ELSE "callMain"
    /\ UNCHANGED vars

Finish ==
    /\ step = "fin" /\ pc = "idle"
    /\ step' = IF ready = UPDATE_FINALIZE /\ AllNew THEN "done" ELSE "callMain"
    /\ UNCHANGED vars

Script ==
    \/ Call("callMain", UPDATE_MAIN, "main")
    \/ WriteCopies("main") \/ Advance("main", "callBak")
    \/ Call("callBak", UPDATE_BACKUP, "bak")
    \/ WriteCopies("bak") \/ Advance("bak", "callFin")
    \/ Call("callFin", UPDATE_FINALIZE, "fin")
    \/ Finish

Fault ==
    /\ faults < MaxFaults /\ faults' = faults + 1
    /\ \/ IoError /\ UNCHANGED step
       \/ step # "done" /\ Crash /\ step' = "callMain"

(* The step was one that did not find a symlink that exists: a disk is not *)
(* listed, or a stage begins without the boot LUN. *)
LookupFailed ==
    \/ pc = "idle" /\ pc' = "next" /\ todo' # UpdateLuns
    \/ XblSwitch /\ pc = "stage" /\ stage # UPDATE_FINALIZE /\ pc' \in {"hdr", "prim"}

Work ==
    /\ Script \/ (Library /\ UNCHANGED step)
    /\ faults' = IF LookupFailed THEN faults + 1 ELSE faults
    /\ faults' <= MaxFaults

(* The script and the library are one thread, which keeps running: weak    *)
(* fairness of its steps.  Faults are never fair. *)
OtaSpec == OtaInit /\ [][Work \/ Fault]_otaVars /\ WF_otaVars(Work)

(* The update terminates: no combination of disks left in different stages *)
(* by partial failures makes the stage machine refuse every call for ever. *)
UpdateCompletes == <>[](step = "done")

(* When it ends, every copy is new and the disks and the boot LUN are back *)
(* where an update starts, but for disks some call has left out, and for   *)
(* the boot LUN if UPDATE_BACKUP has missed xbl. *)
DoneIsComplete ==
    step = "done" =>
        /\ AllNew /\ (skipped = {} /\ ~xblMissed => bootLun = "A")
        /\ \A l \in Listed : PrimValid(l) /\ SecValid(l) /\ sarr[l] = "normal"
=============================================================================
