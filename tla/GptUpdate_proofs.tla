-------------------------- MODULE GptUpdate_proofs --------------------------
(***************************************************************************)
(* Proofs about GptUpdate, and about OtaScript that drives it, for every   *)
(* set of disks and partitions, UFS or eMMC, with or without torn blocks.  *)
(***************************************************************************)
EXTENDS OtaScript, TLAPS

(* The disks an update visits have a GPT, and the disk of an image with a  *)
(* twin beside it is visited and swapped.                                  *)
LEMMA UpdateLunsFacts ==
    /\ UpdateLuns \subseteq Luns /\ NoLun \notin UpdateLuns
    /\ Protected \subseteq Images
    /\ \A p \in Protected :
        LunOf[p] \in Luns /\ LunOf[p] \in UpdateLuns /\ LunOf[p] \in Backed
<1>1. UpdateLuns \subseteq Luns /\ NoLun \notin UpdateLuns
  BY ConstantsOK DEF UpdateLuns
<1>2. Protected \subseteq Images
  BY DEF Protected, Images
<1>3. ASSUME NEW p \in Protected
      PROVE  LunOf[p] \in Luns /\ LunOf[p] \in UpdateLuns /\ LunOf[p] \in Backed
  BY <1>3, ConstantsOK DEF UpdateLuns, Protected, Backed
<1>4. QED BY <1>1, <1>2, <1>3

(* A call visits disks of the update. *)
LEMMA ListingsFact == \A L \in Listings : L \subseteq UpdateLuns
BY DEF Listings

(* Covered images are on disks of the update that no call has left out.    *)
LEMMA CoveredFacts ==
    /\ Covered \subseteq Protected /\ Listed \subseteq UpdateLuns
    /\ \A p \in Covered : LunOf[p] \in Listed
    /\ skipped = {} => Covered = Protected /\ Listed = UpdateLuns
BY UpdateLunsFacts DEF Covered, Listed

LEMMA StageNumbers ==
    /\ UPDATE_MAIN = 1 /\ UPDATE_BACKUP = 2 /\ UPDATE_FINALIZE = 3
    /\ Stages = {1, 2, 3}
BY DEF UPDATE_MAIN, UPDATE_BACKUP, UPDATE_FINALIZE, Stages

(* Headers stay headers when a signature, a CRC or both are rewritten. *)
LEMMA HeaderUpdates ==
    ASSUME NEW h \in Header, NEW b \in BOOLEAN, NEW o \in Order
    PROVE  /\ [h EXCEPT !.crc = b] \in Header
           /\ [h EXCEPT !.crc = TRUE, !.sig = b] \in Header
           /\ [h EXCEPT !.crc = TRUE, !.arr = o] \in Header
<1>1. [h EXCEPT !.crc = b] \in Header
  BY DEF Header
<1>2. [h EXCEPT !.crc = TRUE, !.sig = b] \in Header
  BY DEF Header
<1>3. [h EXCEPT !.crc = TRUE, !.arr = o] \in Header
  BY DEF Header
<1>4. QED BY <1>1, <1>2, <1>3

LEMMA FreshIsHeader == Fresh \in Header
BY DEF Fresh, Header, Order

LEMMA TypeInit == Init => TypeOK
<1> SUFFICES ASSUME Init PROVE TypeOK
  OBVIOUS
<1>1. prim \in [Luns -> Header] /\ sec \in [Luns -> Header]
  BY FreshIsHeader DEF Init
<1>2. /\ parr \in [Luns -> Order \cup {"torn"}]
      /\ sarr \in [Luns -> Order \cup {"torn"}]
  BY DEF Init, Order
<1>3. img \in [Images -> [Copy -> Content]]
  BY DEF Init, Copy, Content
<1>4. QED BY <1>1, <1>2, <1>3, StageNumbers DEF Init, TypeOK

(* The headers a step writes, or leaves behind when it fails, are headers. *)
LEMMA WrittenHeaders ==
    ASSUME TypeOK, cur \in Luns
    PROVE  /\ ChainHeader \in Header /\ PrimHeader \in Header
           /\ SecHeader \in Header /\ PendingSec \in Header
           /\ Torn(prim[cur]) \subseteq Header /\ Torn(sec[cur]) \subseteq Header
<1>1. prim[cur] \in Header /\ sec[cur] \in Header
  BY DEF TypeOK
<1>2. ChainOrder \in Order
  BY DEF ChainOrder, Order
<1>3. (stage = UPDATE_BACKUP) \in BOOLEAN /\ (stage = UPDATE_FINALIZE) \in BOOLEAN
  OBVIOUS
<1>4. ChainHeader \in Header
  BY <1>1, <1>2, HeaderUpdates DEF ChainHeader
<1>5. PrimHeader \in Header /\ SecHeader \in Header
  BY <1>1, <1>2, <1>3, HeaderUpdates DEF PrimHeader, SecHeader
<1>6. Torn(prim[cur]) \subseteq Header /\ Torn(sec[cur]) \subseteq Header
  BY <1>1, <1>2, HeaderUpdates DEF Torn
<1>7. QED BY <1>4, <1>5, <1>6 DEF PendingSec

LEMMA TypeStep == TypeOK /\ [Next]_vars => TypeOK'
<1> SUFFICES ASSUME TypeOK, [Next]_vars PROVE TypeOK'
  OBVIOUS
<1> USE StageNumbers DEF TypeOK
<1>0. cur \in Luns => /\ ChainHeader \in Header /\ PrimHeader \in Header
                      /\ SecHeader \in Header /\ PendingSec \in Header
                      /\ Torn(prim[cur]) \subseteq Header
                      /\ Torn(sec[cur]) \subseteq Header
  BY WrittenHeaders
<1>1. CASE PickLun
  BY <1>1 DEF PickLun, disk
<1>2. CASE Return
  BY <1>2 DEF Return, disk
<1>3. CASE CheckStage
  BY <1>3 DEF CheckStage, LunDone, Continue, StartStage, XblLookups, FirstStep, disk
<1>4. CASE SwitchBootLun
  BY <1>4 DEF SwitchBootLun, BootLunFor, Continue
<1>5. CASE WriteChainHeader
  <2>1. sec' \in [Luns -> Header]
    BY <1>0, <1>5 DEF WriteChainHeader
  <2>2. QED BY <1>5, <2>1 DEF WriteChainHeader, LunDone, Continue
<1>6. CASE BeginChainArray
  BY <1>6 DEF BeginChainArray, Continue
<1>7. CASE EndChainArray
  BY <1>7 DEF EndChainArray, Continue, ChainOrder, Order
<1>8. CASE SetPrimaryState
  BY <1>0, <1>8 DEF SetPrimaryState, LunDone, Continue
<1>9. CASE SetSecondaryState
  BY <1>0, <1>9 DEF SetSecondaryState, LunDone
<1>10. ASSUME NEW s \in Stages, Prepare(s) PROVE TypeOK'
  BY <1>10, ListingsFact, UpdateLunsFacts DEF Prepare, disk
<1>11. ASSUME NEW i \in Images, NEW c \in Copy, BeginImage(i, c) PROVE TypeOK'
  BY <1>11 DEF BeginImage, disk, call, Content
<1>12. ASSUME NEW i \in Images, NEW c \in Copy, EndImage(i, c) PROVE TypeOK'
  BY <1>12 DEF EndImage, disk, call, Content
<1>13. CASE IoError
  <2>1. prim' \in [Luns -> Header]
    BY <1>0, <1>13 DEF IoError, AfterFailedWrite
  <2>2. sec' \in [Luns -> Header]
    BY <1>0, <1>13 DEF IoError, AfterFailedWrite
  <2>3. bootLun' \in {"A", "B"}
    BY <1>13 DEF IoError, BootLunFor
  <2>4. QED BY <1>13, <2>1, <2>2, <2>3 DEF IoError, LunDone
<1>14. CASE Crash
  <2>1. prim' \in [Luns -> Header]
    BY <1>0, <1>14 DEF Crash
  <2>2. sec' \in [Luns -> Header]
    BY <1>0, <1>14 DEF Crash
  <2>3. QED BY <1>14, <2>1, <2>2 DEF Crash
<1>15. CASE UNCHANGED vars
  BY <1>15 DEF vars
<1>16. QED
  BY <1>1, <1>2, <1>3, <1>4, <1>5, <1>6, <1>7, <1>8, <1>9, <1>10, <1>11, <1>12,
     <1>13, <1>14, <1>15 DEF Next, Library, Updater

(* Every variable keeps its type, whatever fails. *)
THEOREM TypeCorrect == Spec => []TypeOK
BY TypeInit, TypeStep, PTL DEF Spec

(***************************************************************************)
(* The inductive invariant                                                 *)
(***************************************************************************)

(* What the headers a step writes contain. *)
LEMMA WrittenFields ==
    ASSUME TypeOK, cur \in Luns
    PROVE  /\ (ChainHeader.sig <=> sec[cur].sig) /\ ChainHeader.crc
           /\ ChainHeader.arr = ChainOrder
           /\ (PrimHeader.sig <=> (stage = UPDATE_BACKUP)) /\ PrimHeader.crc
           /\ PrimHeader.arr = prim[cur].arr
           /\ (SecHeader.sig <=> (stage = UPDATE_FINALIZE)) /\ SecHeader.crc
           /\ SecHeader.arr = sec[cur].arr
<1>1. prim[cur] \in Header /\ sec[cur] \in Header
  BY DEF TypeOK
<1>2. QED BY <1>1 DEF ChainHeader, PrimHeader, SecHeader, Header

LEMMA TornFields ==
    ASSUME NEW h \in Header, NEW t \in Torn(h)
    PROVE  (t.sig <=> h.sig) /\ ~t.crc /\ t.arr = h.arr
BY DEF Torn, Header

(* Steps of prepare_boot_update. *)
LEMMA PickLunInv == Inv /\ PickLun => Inv'
<1> SUFFICES ASSUME Inv, PickLun PROVE Inv'
  OBVIOUS
<1> USE StageNumbers, UpdateLunsFacts DEF Inv, Covered, Listed
<1>0. TypeOK'
  BY TypeStep DEF Next, Library
<1>1. ASSUME NEW l \in Luns PROVE DiskInv(l)'
  BY <1>0 DEF PickLun, disk, DiskInv, SecValid, StepInv, AtStage, HdrOK, TypeOK, CallInv,
     InLun
<1>2. ASSUME NEW p \in Covered' PROVE ImgInv(p)'
  BY <1>0 DEF PickLun, disk, ImgInv, StepInv, AtStage, HdrOK, TypeOK, CallInv, InLun
<1>3. CallInv'
  BY <1>0 DEF PickLun, disk, CallInv, InLun, TypeOK
<1>4. StepInv'
  BY <1>0 DEF PickLun, disk, StepInv, AtStage, HdrOK, SecValid, CallInv, InLun, ChainOrder,
     TypeOK
<1>5. LoopInv'
  <2>1. ASSUME pc' # "idle", ~err', NEW l \in Listed', l \notin todo', l # cur'
        PROVE  Prepared(l, stage)'
    BY <1>0, <2>1 DEF PickLun, disk, LoopInv, CallInv, StepInv, Prepared, AtStage, PrimValid,
       SecValid, InLun, HdrOK, TypeOK
  <2>2. ASSUME ready' # 0, NEW l \in Listed' PROVE Prepared(l, ready)'
    BY <1>0, <2>2 DEF PickLun, disk, LoopInv, CallInv, StepInv, Prepared, AtStage, PrimValid,
       SecValid, InLun, HdrOK, TypeOK
  <2>3. QED BY <2>1, <2>2 DEF LoopInv
<1>6. BootLunInv'
  BY <1>0 DEF PickLun, disk, BootLunInv, XblBakInv, XblInv, AtStage, CallInv, InLun, HdrOK, StepInv, TypeOK
<1>7. QED BY <1>0, <1>1, <1>2, <1>3, <1>4, <1>5, <1>6

(* Return turns what the loop prepared into what the updater may rely on. *)
LEMMA ReturnInv == Inv /\ Return => Inv'
<1> SUFFICES ASSUME Inv, Return PROVE Inv'
  OBVIOUS
<1> USE StageNumbers, UpdateLunsFacts DEF Inv, Covered, Listed
<1>0. TypeOK'
  BY TypeStep DEF Next, Library
<1>1. ASSUME NEW l \in Luns PROVE DiskInv(l)'
  BY <1>0 DEF Return, disk, DiskInv, SecValid, StepInv, AtStage, HdrOK, TypeOK, CallInv, InLun
<1>2. ASSUME NEW p \in Covered' PROVE ImgInv(p)'
  BY <1>0 DEF Return, disk, ImgInv, StepInv, AtStage, HdrOK, TypeOK, CallInv, InLun
<1>3. CallInv'
  BY <1>0 DEF Return, disk, CallInv, InLun, TypeOK
<1>4. StepInv'
  BY <1>0 DEF Return, disk, StepInv, AtStage, HdrOK, SecValid, CallInv, InLun, ChainOrder,
     TypeOK
<1>5. LoopInv'
  <2>1. ASSUME pc' # "idle", ~err', NEW l \in Listed', l \notin todo', l # cur'
        PROVE  Prepared(l, stage)'
    BY <1>0, <2>1 DEF Return, disk, LoopInv, CallInv, StepInv, Prepared, AtStage, PrimValid,
       SecValid, InLun, HdrOK, TypeOK
  <2>2. ASSUME ready' # 0, NEW l \in Listed' PROVE Prepared(l, ready)'
    BY <1>0, <2>2 DEF Return, disk, LoopInv, CallInv, StepInv, Prepared, AtStage, PrimValid,
       SecValid, InLun, HdrOK, TypeOK
  <2>3. QED BY <2>1, <2>2 DEF LoopInv
<1>6. BootLunInv'
  BY <1>0 DEF Return, disk, BootLunInv, XblBakInv, XblInv, AtStage, CallInv, InLun, HdrOK, StepInv, TypeOK
<1>7. QED BY <1>0, <1>1, <1>2, <1>3, <1>4, <1>5, <1>6

(* An accepted stage is the one the headers stand at. *)
LEMMA CheckStageInv == Inv /\ CheckStage => Inv'
<1> SUFFICES ASSUME Inv, CheckStage PROVE Inv'
  OBVIOUS
<1> USE StageNumbers, UpdateLunsFacts DEF Inv, Covered, Listed
<1>0. TypeOK'
  BY TypeStep DEF Next, Library
<1>a. cur \in UpdateLuns /\ cur \in Luns /\ stage \in Stages /\ pc = "stage"
  BY DEF CheckStage, CallInv, InLun, TypeOK
<1>b. ~Unusable(cur) /\ stage = InternalStage(cur) => AtStage(cur, stage)
  BY <1>a DEF TypeOK, Header, Unusable, GptState, InternalStage, AtStage, HdrOK
<1>c. UNCHANGED <<prim, sec, parr, sarr, bootLun, img, stage, todo, ready, skipped>>
  BY DEF CheckStage, LunDone, StartStage, Continue, disk
<1>d. \/ /\ pc' = "next" /\ cur' = NoLun /\ xblMissed' = xblMissed
         /\ err' \/ (err' = err /\ ~Unusable(cur) /\ stage = InternalStage(cur) - 1)
      \/ StartStage /\ AtStage(cur, stage)
  <2>1. CASE LunDone(TRUE) /\ UNCHANGED xblMissed
    BY <2>1 DEF LunDone
  <2>2. CASE /\ ~Unusable(cur) /\ stage = InternalStage(cur) - 1
             /\ LunDone(FALSE) /\ UNCHANGED xblMissed
    <3>1. err' = err
      BY <2>2 DEF LunDone, TypeOK
    <3>2. QED BY <2>2, <3>1 DEF LunDone
  <2>3. CASE ~Unusable(cur) /\ stage = InternalStage(cur) /\ StartStage
    BY <1>b, <2>3
  <2>4. QED BY <2>1, <2>2, <2>3 DEF CheckStage
<1>1. ASSUME NEW l \in Luns PROVE DiskInv(l)'
  BY <1>c DEF DiskInv, SecValid
<1>2. ASSUME NEW p \in Covered' PROVE ImgInv(p)'
  BY <1>c DEF ImgInv
<1>3. CallInv'
  BY <1>0 DEF CheckStage, disk, LunDone, Continue, StartStage, XblLookups, FirstStep,
     Unusable, GptState, InternalStage, CallInv, InLun, TypeOK
<1>4. CASE StartStage /\ AtStage(cur, stage)
  <2>0. PICK xblFound \in XblLookups :
            /\ pc' = FirstStep(xblFound)
            /\ xblMissed' = (xblMissed \/ (/\ XblSwitch /\ ~xblFound
                                           /\ stage = UPDATE_BACKUP /\ bootLun = "B"))
    BY <1>4 DEF StartStage, Continue
  <2>1. /\ UNCHANGED <<cur, err>> /\ (xblFound => XblSwitch)
        /\ pc' \in {"lun", "hdr", "prim"}
    BY <1>4, <2>0 DEF StartStage, Continue, XblLookups, FirstStep
  <2>2. stage = UPDATE_BACKUP => parr[cur] = "normal" /\ cur \in Backed
    BY <1>a, <1>4 DEF AtStage, HdrOK, DiskInv
  <2>3. StepInv'
    BY <1>a, <1>c, <1>4, <2>0, <2>1, <2>2 DEF StepInv, FirstStep, AtStage, HdrOK
  <2>4. LoopInv'
    BY <1>a, <1>c, <2>1 DEF LoopInv, Prepared, AtStage, PrimValid, SecValid, HdrOK, CallInv
  <2>5. ASSUME skipped = {}, ~xblMissed' PROVE XblInv'
    <3>1. XblInv
      BY <2>0, <2>5 DEF BootLunInv
    <3>2. pc' \in {"prim", "sec"} /\ stage = UPDATE_BACKUP => bootLun = "A"
      <4> SUFFICES ASSUME pc' \in {"prim", "sec"}, stage = UPDATE_BACKUP, bootLun = "B"
                   PROVE  FALSE
        BY DEF TypeOK
      <4>1. ~xblFound
        BY <2>0, <2>1 DEF FirstStep
      <4>2. XblSwitch
        BY <3>1 DEF XblInv
      <4>3. QED BY <2>0, <2>5, <4>1, <4>2
    <3>3. QED BY <1>c, <2>1, <3>1, <3>2 DEF XblInv, AtStage, HdrOK
  <2>6. BootLunInv'
    BY <1>c, <2>0, <2>5 DEF BootLunInv, XblBakInv, HdrOK
  <2>7. QED BY <1>0, <1>1, <1>2, <1>3, <2>3, <2>4, <2>6
<1>5. CASE /\ pc' = "next" /\ cur' = NoLun /\ xblMissed' = xblMissed
           /\ err' \/ (err' = err /\ ~Unusable(cur) /\ stage = InternalStage(cur) - 1)
  <2>1. StepInv'
    BY <1>5 DEF StepInv
  <2>2. LoopInv'
    <3>1. ASSUME ~err', NEW l \in Listed, l \notin todo PROVE Prepared(l, stage)'
      <4>1. Prepared(l, stage)
        <5>1. CASE l = cur
          <6>1. ~Unusable(cur) /\ stage = InternalStage(cur) - 1
            BY <1>5, <3>1
          <6>2. QED BY <1>a, <5>1, <6>1 DEF TypeOK, Header, Unusable, GptState,
                InternalStage, Prepared, AtStage, HdrOK
        <5>2. CASE l # cur
          BY <1>a, <1>5, <3>1, <5>2 DEF LoopInv
        <5>3. QED BY <5>1, <5>2
      <4>2. QED BY <1>c, <4>1 DEF Prepared, AtStage, PrimValid, SecValid, HdrOK
    <3>2. ready' = 0
      BY <1>a, <1>c DEF CallInv
    <3>3. QED BY <1>c, <3>1, <3>2 DEF LoopInv
  <2>3. skipped = {} /\ ~xblMissed => XblInv'
    <3> SUFFICES ASSUME skipped = {}, ~xblMissed PROVE XblInv'
      OBVIOUS
    <3>1. XblInv
      BY DEF BootLunInv
    <3>2. stage # UPDATE_FINALIZE \/ err'
      BY <1>5, <1>a DEF TypeOK, Header, Unusable, GptState, InternalStage, AtStage, HdrOK
    <3>3. QED BY <1>c, <1>5, <3>1, <3>2 DEF XblInv, AtStage, HdrOK, CallInv
  <2>4. BootLunInv'
    BY <1>c, <1>5, <2>3 DEF BootLunInv, XblBakInv, HdrOK
  <2>5. QED BY <1>0, <1>1, <1>2, <1>3, <2>1, <2>2, <2>4
<1>6. QED BY <1>d, <1>4, <1>5

(* The boot LUN moves to B only ahead of a disk that still has both GPTs. *)
LEMMA SwitchBootLunInv == Inv /\ SwitchBootLun => Inv'
<1> SUFFICES ASSUME Inv, SwitchBootLun PROVE Inv'
  OBVIOUS
<1> USE StageNumbers, UpdateLunsFacts DEF Inv, Covered, Listed
<1>0. TypeOK'
  BY TypeStep DEF Next, Library
<1>1. ASSUME NEW l \in Luns PROVE DiskInv(l)'
  BY <1>0 DEF SwitchBootLun, Continue, BootLunFor, DiskInv, SecValid, StepInv, AtStage,
     HdrOK, TypeOK, CallInv, InLun
<1>2. ASSUME NEW p \in Covered' PROVE ImgInv(p)'
  BY <1>0 DEF SwitchBootLun, Continue, BootLunFor, ImgInv, StepInv, AtStage, HdrOK, TypeOK,
     CallInv, InLun
<1>3. CallInv'
  BY <1>0 DEF SwitchBootLun, Continue, BootLunFor, CallInv, InLun, TypeOK
<1>4. StepInv'
  <2>0. pc = "lun" /\ stage \in Stages
    BY DEF SwitchBootLun, CallInv, TypeOK
  <2>1. AtStage(cur, stage) /\ stage \in {UPDATE_MAIN, UPDATE_BACKUP}
    BY <2>0 DEF StepInv
  <2>2. stage = UPDATE_BACKUP => parr[cur] = "normal" /\ cur \in Backed
    BY <2>0, <2>1 DEF AtStage, HdrOK, DiskInv, CallInv, InLun
  <2>3. QED BY <2>1, <2>2 DEF SwitchBootLun, Continue, StepInv, AtStage, HdrOK
<1>5. LoopInv'
  <2>1. ASSUME pc' # "idle", ~err', NEW l \in Listed', l \notin todo', l # cur'
        PROVE  Prepared(l, stage)'
    BY <1>0, <2>1 DEF SwitchBootLun, Continue, BootLunFor, LoopInv, CallInv, StepInv,
       Prepared, AtStage, PrimValid,
       SecValid, InLun, HdrOK, TypeOK
  <2>2. ASSUME ready' # 0, NEW l \in Listed' PROVE Prepared(l, ready)'
    BY <1>0, <2>2 DEF SwitchBootLun, Continue, BootLunFor, LoopInv, CallInv, StepInv,
       Prepared, AtStage, PrimValid,
       SecValid, InLun, HdrOK, TypeOK
  <2>3. QED BY <2>1, <2>2 DEF LoopInv
<1>6. BootLunInv'
  <2>0. /\ UNCHANGED <<prim, sec, img, stage, todo, cur, err, ready, skipped>>
        /\ pc = "lun" /\ pc' \in {"hdr", "prim"} /\ bootLun' = BootLunFor
        /\ xblMissed' = (xblMissed /\ bootLun' = "B")
    BY DEF SwitchBootLun, Continue
  <2>1. /\ XblSwitch /\ cur \in UpdateLuns /\ AtStage(cur, stage)
        /\ stage # UPDATE_FINALIZE /\ ready = 0
    BY <2>0 DEF StepInv, CallInv, InLun
  <2>2. skipped = {} => XblBakInv /\ XblBakInv'
    BY <2>0 DEF BootLunInv, XblBakInv, HdrOK
  <2>3. ASSUME skipped = {}, bootLun' = "A" PROVE XblInv'
    BY <2>0, <2>3 DEF XblInv
  <2>4. ASSUME skipped = {}, bootLun' = "B" PROVE XblInv'
    <3>1. stage = UPDATE_MAIN
      BY <2>0, <2>4 DEF BootLunFor
    <3>2. PICK k \in UpdateLuns : k = cur
      BY <2>1
    <3>3. HdrOK(sec[k]) /\ ~AtStage(k, UPDATE_FINALIZE)'
      BY <2>0, <2>1, <3>1, <3>2 DEF AtStage, HdrOK
    <3>4. \A x \in BootParts : img[x]["bak"] # "part"
      BY <2>2, <2>4, <3>3 DEF XblBakInv
    <3>5. QED BY <2>0, <2>1, <3>1, <3>3, <3>4 DEF XblInv
  <2>5. QED BY <1>0, <2>0, <2>2, <2>3, <2>4 DEF BootLunInv, BootLunFor
<1>7. QED BY <1>0, <1>1, <1>2, <1>3, <1>4, <1>5, <1>6

(* Rewriting the secondary header: the primary GPT is valid. *)
LEMMA WriteChainHeaderInv == Inv /\ WriteChainHeader => Inv'
<1> SUFFICES ASSUME Inv, WriteChainHeader PROVE Inv'
  OBVIOUS
<1> USE StageNumbers, UpdateLunsFacts DEF Inv, Covered, Listed
<1>0. TypeOK'
  BY TypeStep DEF Next, Library
<1>a. cur \in UpdateLuns /\ cur \in Luns /\ stage \in {UPDATE_MAIN, UPDATE_FINALIZE}
  BY DEF WriteChainHeader, CallInv, StepInv, InLun, TypeOK
<1>1. ASSUME NEW l \in Luns PROVE DiskInv(l)'
  BY WrittenFields, <1>0 DEF WriteChainHeader, LunDone, Continue, NothingToSwap, DiskInv,
     SecValid, StepInv, AtStage, HdrOK, TypeOK, CallInv, InLun
<1>2. ASSUME NEW p \in Covered' PROVE ImgInv(p)'
  BY WrittenFields, <1>0 DEF WriteChainHeader, LunDone, Continue, NothingToSwap, ImgInv,
     StepInv, AtStage, HdrOK, TypeOK, CallInv, InLun
<1>3. CallInv'
  BY WrittenFields, <1>0 DEF WriteChainHeader, LunDone, Continue, NothingToSwap, CallInv,
     InLun, TypeOK
<1>4. StepInv'
  <2>1. CASE pc' = "next"
    BY <2>1 DEF StepInv
  <2>2. CASE pc' # "next"
    <3>1. /\ pc' = "arr" /\ sec' = [sec EXCEPT ![cur] = ChainHeader]
          /\ ~NothingToSwap /\ parr[cur] # "torn"
          /\ UNCHANGED <<stage, todo, cur, err, ready, prim, parr, sarr>>
      BY <2>2 DEF WriteChainHeader, LunDone, Continue
    <3>2. AtStage(cur, stage) /\ HdrOK(prim[cur])
      BY <1>a DEF WriteChainHeader, StepInv, AtStage
    <3>3. cur \in Backed
      BY <1>a, <3>1, <3>2 DEF NothingToSwap, DiskInv, AtStage, HdrOK
    <3>4. sec'[cur] = ChainHeader
      BY <1>a, <3>1 DEF TypeOK
    <3>5. /\ sec'[cur].crc /\ sec'[cur].arr = ChainOrder
          /\ sec'[cur].sig <=> (stage = UPDATE_MAIN)
      BY <1>a, <3>2, <3>4, WrittenFields DEF AtStage, HdrOK
    <3>6. parr[cur] = "normal"
      BY <1>a, <3>1 DEF DiskInv
    <3>7. QED BY <1>a, <3>1, <3>2, <3>3, <3>5, <3>6 DEF StepInv, ChainOrder
  <2>3. QED BY <2>1, <2>2
<1>5. LoopInv'
  <2>1. ASSUME pc' # "idle", ~err', NEW l \in Listed', l \notin todo', l # cur'
        PROVE  Prepared(l, stage)'
    BY WrittenFields, <1>0, <2>1 DEF WriteChainHeader, LunDone, Continue, NothingToSwap,
       LoopInv, CallInv, StepInv, Prepared, AtStage, PrimValid,
       SecValid, InLun, HdrOK, TypeOK
  <2>2. ASSUME ready' # 0, NEW l \in Listed' PROVE Prepared(l, ready)'
    BY WrittenFields, <1>0, <2>2 DEF WriteChainHeader, LunDone, Continue, NothingToSwap,
       LoopInv, CallInv, StepInv, Prepared, AtStage, PrimValid,
       SecValid, InLun, HdrOK, TypeOK
  <2>3. QED BY <2>1, <2>2 DEF LoopInv
<1>6. BootLunInv'
  BY WrittenFields, <1>0 DEF WriteChainHeader, LunDone, Continue, NothingToSwap, BootLunInv, XblBakInv, XblInv,
     AtStage, CallInv, InLun, HdrOK, StepInv, TypeOK
<1>7. QED BY <1>0, <1>1, <1>2, <1>3, <1>4, <1>5, <1>6

(* Tearing the secondary array: the primary GPT is valid. *)
LEMMA BeginChainArrayInv == Inv /\ BeginChainArray => Inv'
<1> SUFFICES ASSUME Inv, BeginChainArray PROVE Inv'
  OBVIOUS
<1> USE StageNumbers, UpdateLunsFacts DEF Inv, Covered, Listed
<1>0. TypeOK'
  BY TypeStep DEF Next, Library
<1>1. ASSUME NEW l \in Luns PROVE DiskInv(l)'
  BY WrittenFields, <1>0 DEF BeginChainArray, Continue, DiskInv, SecValid, StepInv,
     AtStage, HdrOK, TypeOK, CallInv, InLun
<1>2. ASSUME NEW p \in Covered' PROVE ImgInv(p)'
  BY WrittenFields, <1>0 DEF BeginChainArray, Continue, ImgInv, StepInv, AtStage, HdrOK,
     TypeOK, CallInv, InLun
<1>3. CallInv'
  BY WrittenFields, <1>0 DEF BeginChainArray, Continue, CallInv, InLun, TypeOK
<1>4. StepInv'
  BY WrittenFields, <1>0 DEF BeginChainArray, Continue, StepInv, AtStage, HdrOK, SecValid,
     CallInv, InLun, ChainOrder, TypeOK
<1>5. LoopInv'
  <2>1. ASSUME pc' # "idle", ~err', NEW l \in Listed', l \notin todo', l # cur'
        PROVE  Prepared(l, stage)'
    BY WrittenFields, <1>0, <2>1 DEF BeginChainArray, Continue, LoopInv, CallInv, StepInv,
       Prepared, AtStage, PrimValid,
       SecValid, InLun, HdrOK, TypeOK
  <2>2. ASSUME ready' # 0, NEW l \in Listed' PROVE Prepared(l, ready)'
    BY WrittenFields, <1>0, <2>2 DEF BeginChainArray, Continue, LoopInv, CallInv, StepInv,
       Prepared, AtStage, PrimValid,
       SecValid, InLun, HdrOK, TypeOK
  <2>3. QED BY <2>1, <2>2 DEF LoopInv
<1>6. BootLunInv'
  BY WrittenFields, <1>0 DEF BeginChainArray, Continue, BootLunInv, XblBakInv, XblInv, AtStage, CallInv, InLun,
     HdrOK, StepInv, TypeOK
<1>7. QED BY <1>0, <1>1, <1>2, <1>3, <1>4, <1>5, <1>6

(* The secondary array matches its header again. *)
LEMMA EndChainArrayInv == Inv /\ EndChainArray => Inv'
<1> SUFFICES ASSUME Inv, EndChainArray PROVE Inv'
  OBVIOUS
<1> USE StageNumbers, UpdateLunsFacts DEF Inv, Covered, Listed
<1>0. TypeOK'
  BY TypeStep DEF Next, Library
<1>1. ASSUME NEW l \in Luns PROVE DiskInv(l)'
  BY WrittenFields, <1>0 DEF EndChainArray, Continue, ChainOrder, DiskInv, SecValid,
     StepInv, AtStage, HdrOK, TypeOK, CallInv, InLun
<1>2. ASSUME NEW p \in Covered' PROVE ImgInv(p)'
  BY WrittenFields, <1>0 DEF EndChainArray, Continue, ChainOrder, ImgInv, StepInv, AtStage,
     HdrOK, TypeOK, CallInv, InLun
<1>3. CallInv'
  BY WrittenFields, <1>0 DEF EndChainArray, Continue, ChainOrder, CallInv, InLun, TypeOK
<1>4. StepInv'
  BY WrittenFields, <1>0 DEF EndChainArray, Continue, ChainOrder, StepInv, AtStage, HdrOK,
     SecValid, CallInv, InLun, ChainOrder, TypeOK
<1>5. LoopInv'
  <2>1. ASSUME pc' # "idle", ~err', NEW l \in Listed', l \notin todo', l # cur'
        PROVE  Prepared(l, stage)'
    BY WrittenFields, <1>0, <2>1 DEF EndChainArray, Continue, ChainOrder, LoopInv, CallInv,
       StepInv, Prepared, AtStage, PrimValid,
       SecValid, InLun, HdrOK, TypeOK
  <2>2. ASSUME ready' # 0, NEW l \in Listed' PROVE Prepared(l, ready)'
    BY WrittenFields, <1>0, <2>2 DEF EndChainArray, Continue, ChainOrder, LoopInv, CallInv,
       StepInv, Prepared, AtStage, PrimValid,
       SecValid, InLun, HdrOK, TypeOK
  <2>3. QED BY <2>1, <2>2 DEF LoopInv
<1>6. BootLunInv'
  BY WrittenFields, <1>0 DEF EndChainArray, Continue, ChainOrder, BootLunInv, XblBakInv, XblInv, AtStage, CallInv,
     InLun, HdrOK, StepInv, TypeOK
<1>7. QED BY <1>0, <1>1, <1>2, <1>3, <1>4, <1>5, <1>6

(* The primary GPT is given up for the secondary one, or restored. *)
LEMMA SetPrimaryStateInv == Inv /\ SetPrimaryState => Inv'
<1> SUFFICES ASSUME Inv, SetPrimaryState PROVE Inv'
  OBVIOUS
<1> USE StageNumbers, UpdateLunsFacts DEF Inv, Covered, Listed
<1>0. TypeOK'
  BY TypeStep DEF Next, Library
<1>a. cur \in UpdateLuns /\ cur \in Luns /\ stage \in {UPDATE_MAIN, UPDATE_BACKUP}
  BY DEF SetPrimaryState, CallInv, StepInv, InLun, TypeOK
<1>b. /\ prim'[cur].sig <=> (stage = UPDATE_BACKUP)
      /\ prim'[cur].crc /\ prim'[cur].arr = "normal"
      /\ \A l \in Luns : l # cur => prim'[l] = prim[l]
  BY <1>a, WrittenFields DEF SetPrimaryState, TypeOK, DiskInv
<1>c. UNCHANGED <<sec, parr, sarr, bootLun, img, stage>>
  BY DEF SetPrimaryState, LunDone, Continue
<1>d. cur \in Backed /\ parr[cur] = "normal" /\ SecValid(cur) /\ sarr[cur] = "swapped"
  BY <1>a DEF SetPrimaryState, StepInv, AtStage, DiskInv, HdrOK
<1>1. ASSUME NEW l \in Luns PROVE DiskInv(l)'
  BY <1>a, <1>b, <1>c, <1>d DEF DiskInv, SecValid, HdrOK
<1>2. ASSUME NEW p \in Covered' PROVE ImgInv(p)'
  BY WrittenFields, <1>0 DEF SetPrimaryState, LunDone, Continue, ImgInv, StepInv, AtStage,
     HdrOK, TypeOK, CallInv, InLun
<1>3. CallInv'
  BY WrittenFields, <1>0 DEF SetPrimaryState, LunDone, Continue, CallInv, InLun, TypeOK
<1>4. StepInv'
  <2>1. CASE stage = UPDATE_MAIN
    BY <2>1 DEF SetPrimaryState, LunDone, Continue, StepInv
  <2>2. CASE stage = UPDATE_BACKUP
    <3>1. pc' = "sec" /\ cur' = cur
      BY <2>2 DEF SetPrimaryState, LunDone, Continue
    <3>2. QED BY <1>b, <1>c, <1>d, <2>2, <3>1 DEF StepInv, SecValid, HdrOK
  <2>3. QED BY <1>a, <2>1, <2>2
<1>5. LoopInv'
  <2>1. ASSUME pc' # "idle", ~err', NEW l \in Listed', l \notin todo', l # cur'
        PROVE  Prepared(l, stage)'
    <3>1. CASE l = cur
      <4>1. stage = UPDATE_MAIN
        BY <1>a, <2>1, <3>1 DEF SetPrimaryState, Continue
      <4>2. QED BY <1>b, <1>c, <3>1, <4>1 DEF Prepared, HdrOK
    <3>2. CASE l # cur
      <4>1. Prepared(l, stage)
        BY <2>1, <3>2 DEF SetPrimaryState, LunDone, Continue, LoopInv
      <4>2. QED BY <1>b, <1>c, <3>2, <4>1
            DEF Prepared, AtStage, PrimValid, SecValid, HdrOK
    <3>3. QED BY <3>1, <3>2
  <2>2. ready' = 0
    BY DEF SetPrimaryState, LunDone, Continue, CallInv
  <2>3. QED BY <2>1, <2>2 DEF LoopInv
<1>6. BootLunInv'
  BY <1>a, <1>b, <1>c, <1>d
     DEF SetPrimaryState, LunDone, Continue, BootLunInv, XblBakInv, XblInv, StepInv, AtStage, CallInv, HdrOK, SecValid
<1>7. QED BY <1>0, <1>1, <1>2, <1>3, <1>4, <1>5, <1>6

(* The secondary GPT is given up behind a valid primary one, or restored. *)
LEMMA SetSecondaryStateInv == Inv /\ SetSecondaryState => Inv'
<1> SUFFICES ASSUME Inv, SetSecondaryState PROVE Inv'
  OBVIOUS
<1> USE StageNumbers, UpdateLunsFacts DEF Inv, Covered, Listed
<1>0. TypeOK'
  BY TypeStep DEF Next, Library
<1>a. cur \in UpdateLuns /\ cur \in Luns /\ stage \in {UPDATE_BACKUP, UPDATE_FINALIZE}
  BY DEF SetSecondaryState, CallInv, StepInv, InLun, TypeOK
<1>b. /\ sec'[cur].sig <=> (stage = UPDATE_FINALIZE)
      /\ sec'[cur].crc /\ sec'[cur].arr = sec[cur].arr
      /\ \A l \in Luns : l # cur => sec'[l] = sec[l]
  BY <1>a, WrittenFields DEF SetSecondaryState, TypeOK
<1>c. UNCHANGED <<prim, parr, sarr, bootLun, img, stage, todo, ready, err, skipped>>
  BY DEF SetSecondaryState, LunDone, TypeOK
<1>d. HdrOK(prim[cur]) /\ parr[cur] = "normal" /\ prim[cur].arr = "normal"
  BY <1>a DEF SetSecondaryState, StepInv, DiskInv
<1>1. ASSUME NEW l \in Luns PROVE DiskInv(l)'
  BY WrittenFields, <1>0 DEF SetSecondaryState, LunDone, DiskInv, SecValid, StepInv,
     AtStage, HdrOK, TypeOK, CallInv, InLun
<1>2. ASSUME NEW p \in Covered' PROVE ImgInv(p)'
  BY WrittenFields, <1>0 DEF SetSecondaryState, LunDone, ImgInv, StepInv, AtStage, HdrOK,
     TypeOK, CallInv, InLun
<1>3. CallInv'
  BY WrittenFields, <1>0 DEF SetSecondaryState, LunDone, CallInv, InLun, TypeOK
<1>4. StepInv'
  BY WrittenFields, <1>0 DEF SetSecondaryState, LunDone, StepInv, AtStage, HdrOK, SecValid,
     CallInv, InLun, ChainOrder, TypeOK
<1>5. LoopInv'
  <2>1. ASSUME pc' # "idle", ~err', NEW l \in Listed', l \notin todo', l # cur'
        PROVE  Prepared(l, stage)'
    <3>1. CASE l = cur
      BY <1>a, <1>b, <1>c, <1>d, <3>1
         DEF SetSecondaryState, StepInv, Prepared, AtStage, PrimValid, SecValid, HdrOK
    <3>2. CASE l # cur
      <4>1. Prepared(l, stage)
        BY <1>c, <2>1, <3>2 DEF SetSecondaryState, LoopInv
      <4>2. QED BY <1>b, <1>c, <3>2, <4>1
            DEF Prepared, AtStage, PrimValid, SecValid, HdrOK
    <3>3. QED BY <3>1, <3>2
  <2>2. ready' = 0
    BY <1>c DEF SetSecondaryState, CallInv
  <2>3. QED BY <2>1, <2>2 DEF LoopInv
<1>e. stage = UPDATE_FINALIZE => \A x \in BootParts : img[x]["bak"] # "part"
  BY DEF CallInv, Images, HasBackup
<1>6. BootLunInv'
  <2>0. xblMissed' = xblMissed /\ skipped' = skipped /\ pc' = "next" /\ cur' = NoLun
    BY DEF SetSecondaryState, LunDone
  <2>1. ASSUME skipped = {} PROVE XblBakInv'
    BY <1>a, <1>b, <1>c, <1>e, <2>1 DEF BootLunInv, XblBakInv, HdrOK
  <2>2. ASSUME skipped = {}, ~xblMissed PROVE XblInv'
    <3>0. XblInv
      BY <2>2 DEF BootLunInv
    <3>1. CASE stage = UPDATE_BACKUP
      <4>1. bootLun' = "A"
        BY <1>c, <3>0, <3>1 DEF SetSecondaryState, XblInv
      <4>2. QED BY <1>c, <2>0, <3>1, <4>1 DEF XblInv
    <3>2. CASE stage = UPDATE_FINALIZE
      <4>0. PICK k \in UpdateLuns : k = cur
        BY <1>a
      <4>1. AtStage(k, UPDATE_FINALIZE) /\ ~AtStage(k, UPDATE_FINALIZE)'
        BY <1>a, <1>b, <3>2, <4>0 DEF SetSecondaryState, StepInv, AtStage, HdrOK
      <4>2. \A l \in UpdateLuns : l # k =>
              (AtStage(l, UPDATE_FINALIZE)' <=> AtStage(l, UPDATE_FINALIZE))
        BY <1>b, <1>c, <4>0 DEF AtStage, HdrOK
      <4>3. QED BY <1>a, <1>c, <1>e, <2>0, <3>0, <3>2, <4>0, <4>1, <4>2
            DEF SetSecondaryState, LunDone, XblInv
    <3>3. QED BY <1>a, <3>1, <3>2
  <2>3. QED BY <1>c, <2>0, <2>1, <2>2 DEF BootLunInv
<1>7. QED BY <1>0, <1>1, <1>2, <1>3, <1>4, <1>5, <1>6

(* The updater calls. *)
LEMMA PrepareInv ==
    ASSUME NEW s \in Stages PROVE Inv /\ Prepare(s) => Inv'
<1> SUFFICES ASSUME Inv, Prepare(s) PROVE Inv'
  OBVIOUS
<1> USE StageNumbers, UpdateLunsFacts DEF Inv, Covered, Listed
<1>a. /\ todo' \subseteq UpdateLuns /\ UpdateLuns \ todo' \subseteq skipped'
      /\ skipped \subseteq skipped' /\ skipped' \subseteq UpdateLuns
  BY ListingsFact DEF Prepare, CallInv
<1>0. TypeOK'
  BY TypeStep DEF Next, Updater
<1>1. ASSUME NEW l \in Luns PROVE DiskInv(l)'
  BY DEF Prepare, disk, DiskInv, SecValid
<1>2. ASSUME NEW p \in Covered' PROVE ImgInv(p)'
  BY <1>a DEF Prepare, disk, ImgInv
<1>3. CallInv'
  BY <1>a DEF Prepare, disk, CallInv, InLun, Uniform, AllAre
<1>4. StepInv'
  BY DEF Prepare, StepInv
<1>5. LoopInv'
  BY <1>a DEF Prepare, LoopInv
<1>6. BootLunInv'
  BY <1>a DEF Prepare, disk, BootLunInv, XblBakInv, XblInv, AtStage
<1>7. QED BY <1>0, <1>1, <1>2, <1>3, <1>4, <1>5, <1>6

(* The updater writes: only copies that do not boot. *)
LEMMA ImageInv ==
    ASSUME NEW i \in Images, NEW c \in Copy
    PROVE  Inv /\ (BeginImage(i, c) \/ EndImage(i, c)) => Inv'
<1> SUFFICES ASSUME Inv, BeginImage(i, c) \/ EndImage(i, c) PROVE Inv'
  OBVIOUS
<1> USE StageNumbers, UpdateLunsFacts DEF Inv, Covered, Listed
<1>0. TypeOK'
  BY TypeStep DEF Next, Updater
<1>a. MayWrite(i, c) /\ UNCHANGED <<disk, call>>
  BY DEF BeginImage, EndImage
<1>b. PICK v \in Content : img' = [img EXCEPT ![i][c] = v]
  BY DEF BeginImage, EndImage, Content
<1>c. \A j \in Images, d \in Copy : (j # i \/ d # c) => img'[j][d] = img[j][d]
  BY <1>b DEF TypeOK
<1>1. ASSUME NEW l \in Luns PROVE DiskInv(l)'
  BY <1>a DEF disk, DiskInv, SecValid
<1>2. ASSUME NEW p \in Covered' PROVE ImgInv(p)'
  <2>0. p \in Protected /\ ImgInv(p) /\ LunOf[p] \in Listed /\ p \in Images
    BY <1>a, CoveredFacts DEF call
  <2>1. CASE p # i
    BY <1>a, <1>c, <2>0, <2>1 DEF disk, ImgInv, Copy
  <2>2. CASE p = i /\ c = "main"
    <3>1. ~HdrOK(prim[LunOf[p]])
      BY <1>a, <2>0, <2>2 DEF MayWrite, LoopInv, Prepared
    <3>2. img'[p]["bak"] = img[p]["bak"]
      BY <1>c, <2>0, <2>2 DEF Copy
    <3>3. QED BY <1>a, <2>0, <3>1, <3>2 DEF disk, ImgInv
  <2>3. CASE p = i /\ c = "bak"
    <3>1. HdrOK(prim[LunOf[p]]) /\ ~HdrOK(sec[LunOf[p]])
      BY <1>a, <2>0, <2>3 DEF MayWrite, LoopInv, Prepared, AtStage, HdrOK
    <3>2. img'[p]["main"] = img[p]["main"]
      BY <1>c, <2>0, <2>3 DEF Copy
    <3>3. QED BY <1>a, <2>0, <3>1, <3>2 DEF disk, ImgInv
  <2>4. QED BY <2>1, <2>2, <2>3 DEF Copy
<1>3. CallInv'
  <2>1. stage = 0 /\ stage' = 0 /\ pc = "idle" /\ pc' = "idle"
    BY <1>a DEF MayWrite, CallInv, call
  <2>2. \A j \in Images : img'[j]["bak"] = "part" => HasBackup(j)
    BY <1>a, <1>c DEF MayWrite, CallInv, Copy
  <2>3. QED BY <1>a, <2>1, <2>2 DEF call, CallInv, InLun
<1>4. StepInv'
  BY <1>a DEF MayWrite, call, StepInv
<1>5. LoopInv'
  BY <1>a DEF MayWrite, call, disk, LoopInv, Prepared, AtStage, PrimValid, SecValid
<1>6. BootLunInv'
  <2>0. UNCHANGED <<prim, sec, bootLun, pc, stage, todo, cur, err, ready, skipped, xblMissed>>
    BY <1>a DEF disk, call
  <2>1. ASSUME NEW x \in BootParts, img'[x]["bak"] = "part", skipped = {}
        PROVE  /\ \A l \in UpdateLuns : ~HdrOK(sec[l])
               /\ ~xblMissed => bootLun = "A"
    <3>1. CASE img[x]["bak"] = "part"
      BY <2>1, <3>1 DEF BootLunInv, XblBakInv, XblInv
    <3>2. CASE img[x]["bak"] # "part"
      <4>1. ready = UPDATE_BACKUP
        BY <1>a, <1>c, <2>1, <3>2 DEF MayWrite, Copy, Images
      <4>2. \A l \in UpdateLuns : AtStage(l, UPDATE_FINALIZE)
        BY <1>a, <2>1, <4>1 DEF MayWrite, LoopInv, Prepared, AtStage, HdrOK
      <4>3. QED BY <2>1, <4>2 DEF BootLunInv, XblInv, AtStage, HdrOK, TypeOK
    <3>3. QED BY <3>1, <3>2
  <2>2. skipped = {} => XblBakInv'
    BY <2>0, <2>1 DEF XblBakInv, HdrOK
  <2>3. skipped = {} /\ ~xblMissed => XblInv'
    BY <1>a, <2>0, <2>1 DEF MayWrite, BootLunInv, XblInv, AtStage, HdrOK, CallInv
  <2>4. QED BY <2>0, <2>2, <2>3 DEF BootLunInv
<1>7. QED BY <1>0, <1>1, <1>2, <1>3, <1>4, <1>5, <1>6

(* What an error or a power loss can do to the headers. *)
LEMMA FailedWrites ==
    ASSUME Inv, IoError \/ Crash
    PROVE  /\ UNCHANGED <<parr, sarr, img, skipped>>
           /\ \/ prim' = prim
              \/ /\ pc = "prim" /\ prim'[cur].arr = "normal"
                 /\ \A l \in Luns : l # cur => prim'[l] = prim[l]
           /\ \/ sec' = sec
              \/ /\ WritesSec
                 /\ \A l \in Luns : l # cur => sec'[l] = sec[l]
                 /\ stage = UPDATE_BACKUP =>
                      sec'[cur] = sec[cur] \/ ~HdrOK(sec'[cur])
                 /\ stage = UPDATE_MAIN => sec'[cur].sig
<1> USE StageNumbers, UpdateLunsFacts DEF Inv, Covered, Listed
<1>1. UNCHANGED <<parr, sarr, img, skipped>>
  BY DEF IoError, Crash, LunDone
<1>2. ASSUME prim' # prim
      PROVE  /\ pc = "prim" /\ prim'[cur].arr = "normal"
             /\ \A l \in Luns : l # cur => prim'[l] = prim[l]
  <2>1. PICK h : h \in AfterFailedWrite(prim[cur], PrimHeader)
                 /\ prim' = [prim EXCEPT ![cur] = h] /\ pc = "prim"
    BY <1>2 DEF IoError, Crash, AfterFailedWrite, WritesPrim
  <2>2. cur \in Luns
    BY <2>1 DEF CallInv, InLun
  <2>3. prim[cur] \in Header /\ prim[cur].arr = "normal"
    BY <2>2 DEF TypeOK, DiskInv
  <2>4. h.arr = "normal"
    BY <2>1, <2>2, <2>3, WrittenFields, TornFields DEF AfterFailedWrite
  <2>5. QED BY <2>1, <2>2, <2>4 DEF TypeOK
<1>3. ASSUME sec' # sec
      PROVE  /\ WritesSec
             /\ \A l \in Luns : l # cur => sec'[l] = sec[l]
             /\ stage = UPDATE_BACKUP => sec'[cur] = sec[cur] \/ ~HdrOK(sec'[cur])
             /\ stage = UPDATE_MAIN => sec'[cur].sig
  <2>1. PICK h : h \in AfterFailedWrite(sec[cur], PendingSec)
                 /\ sec' = [sec EXCEPT ![cur] = h] /\ WritesSec
    BY <1>3 DEF IoError, Crash, AfterFailedWrite
  <2>2. cur \in Luns /\ pc \in {"hdr", "sec"}
    BY <2>1 DEF CallInv, InLun, WritesSec
  <2>3. sec[cur] \in Header /\ sec'[cur] = h
    BY <2>1, <2>2 DEF TypeOK
  <2>4. stage = UPDATE_BACKUP => h = sec[cur] \/ ~HdrOK(h)
    BY <2>1, <2>2, <2>3, WrittenFields, TornFields
       DEF AfterFailedWrite, HdrOK, PendingSec, StepInv
  <2>5. stage = UPDATE_MAIN => h.sig
    BY <2>1, <2>2, <2>3, WrittenFields, TornFields
       DEF AfterFailedWrite, PendingSec, StepInv, AtStage, HdrOK
  <2>6. QED BY <2>1, <2>2, <2>3, <2>4, <2>5 DEF TypeOK
<1>4. QED BY <1>1, <1>2, <1>3

(* The disk a failed write hit keeps a GPT that boots, and no image that   *)
(* was being written is behind it. *)
LEMMA FailureInv ==
    ASSUME Inv, IoError \/ Crash
    PROVE  /\ \A l \in Luns : DiskInv(l)'
           /\ \A p \in Covered' : ImgInv(p)'
<1>s. Covered' = Covered /\ Covered \subseteq Protected /\ Protected \subseteq Images
  BY FailedWrites, UpdateLunsFacts DEF Covered
<1>i. \A p \in Covered : ImgInv(p)
  BY DEF Inv
<1> USE StageNumbers, UpdateLunsFacts, FailedWrites DEF Inv
<1>0. pc \in {"prim", "sec", "hdr"} => cur \in Luns /\ stage \in Stages
  BY DEF CallInv, InLun, TypeOK
<1>1. ASSUME NEW l \in Luns PROVE DiskInv(l)'
  <2>1. CASE l # cur \/ (prim' = prim /\ sec' = sec)
    BY <2>1 DEF DiskInv, SecValid, HdrOK
  <2>2. CASE l = cur /\ prim' # prim
    <3>1. /\ SecValid(cur) /\ sarr[cur] = "swapped" /\ parr[cur] = "normal"
          /\ cur \in Backed /\ sec' = sec
      BY <1>0, <2>2 DEF StepInv, AtStage, HdrOK, DiskInv, WritesSec
    <3>2. QED BY <2>2, <3>1 DEF DiskInv, SecValid
  <2>3. CASE l = cur /\ sec' # sec
    <3>1. HdrOK(prim[cur]) /\ parr[cur] = "normal" /\ cur \in Backed /\ prim' = prim
      BY <1>0, <2>3 DEF StepInv, AtStage, HdrOK, DiskInv, WritesSec, NothingToSwap
    <3>2. QED BY <2>3, <3>1 DEF DiskInv
  <2>4. QED BY <2>1, <2>2, <2>3
<1>2. ASSUME NEW p \in Covered' PROVE ImgInv(p)'
  <2>0. p \in Protected /\ p \in Images /\ ImgInv(p)
    BY <1>s, <1>i
  <2>1. CASE LunOf[p] # cur \/ (prim' = prim /\ sec' = sec)
    BY <2>0, <2>1 DEF ImgInv
  <2>2. CASE LunOf[p] = cur /\ prim' # prim
    <3>1. pc = "prim" /\ img[p]["main"] # "part" /\ img[p]["bak"] # "part"
      BY <1>0, <2>0, <2>2 DEF StepInv, AtStage, ImgInv, HdrOK, CallInv
    <3>2. QED BY <3>1 DEF ImgInv
  <2>3. CASE LunOf[p] = cur /\ sec' # sec
    <3>1. WritesSec /\ prim' = prim
      BY <2>3 DEF WritesSec
    <3>2. CASE stage = UPDATE_BACKUP
      BY <2>0, <2>3, <3>1, <3>2 DEF ImgInv
    <3>3. CASE stage = UPDATE_MAIN
      <4>1. img[p]["main"] # "part" /\ img[p]["bak"] # "part"
        BY <2>0, <2>3, <3>1, <3>3 DEF WritesSec, StepInv, AtStage, ImgInv
      <4>2. QED BY <4>1 DEF ImgInv
    <3>4. CASE stage = UPDATE_FINALIZE
      <4>1. img[p]["bak"] # "part"
        BY <2>0, <3>4, ConstantsOK DEF CallInv, HasBackup, Protected, Images
      <4>2. QED BY <2>0, <3>1, <4>1 DEF ImgInv
    <3>5. QED BY <1>0, <3>1, <3>2, <3>3, <3>4 DEF WritesSec
  <2>4. QED BY <2>1, <2>2, <2>3
<1>3. QED BY <1>1, <1>2

(* A failed or interrupted write never makes a disk look ready for         *)
(* UPDATE_FINALIZE while the boot LUN is B, nor repairs a secondary GPT    *)
(* behind which an xbl backup is being written. *)
LEMMA FailureXbl ==
    ASSUME Inv, IoError \/ Crash, skipped = {}
    PROVE  /\ ~xblMissed /\ bootLun = "B" =>
                \E l \in UpdateLuns : ~AtStage(l, UPDATE_FINALIZE)'
           /\ \A x \in BootParts : img[x]["bak"] = "part" =>
                \A l \in UpdateLuns : ~HdrOK(sec[l])'
<1> USE StageNumbers, UpdateLunsFacts, FailedWrites DEF Inv, BootLunInv
<1>0. pc \in {"prim", "sec", "hdr"} => cur \in UpdateLuns /\ stage \in Stages
  BY DEF CallInv, InLun, TypeOK
<1>1. ASSUME ~xblMissed, bootLun = "B"
      PROVE  \E l \in UpdateLuns : ~AtStage(l, UPDATE_FINALIZE)'
  <2>1. PICK l \in UpdateLuns : ~AtStage(l, UPDATE_FINALIZE)
    BY <1>1 DEF XblInv
  <2>2. CASE l # cur \/ (prim' = prim /\ sec' = sec)
    <3>1. prim'[l] = prim[l] /\ sec'[l] = sec[l]
      BY <2>2
    <3>2. QED BY <2>1, <3>1 DEF AtStage, HdrOK
  <2>3. CASE l = cur /\ prim' # prim
    <3>1. pc = "prim" /\ stage = UPDATE_MAIN /\ sec' = sec
      BY <1>0, <1>1, <2>3 DEF XblInv, StepInv, WritesSec
    <3>2. sec[l].sig /\ sec'[l] = sec[l]
      BY <2>3, <3>1 DEF StepInv, AtStage, HdrOK
    <3>3. QED BY <3>2 DEF AtStage
  <2>4. CASE l = cur /\ sec' # sec
    <3>1. WritesSec /\ stage # UPDATE_BACKUP
      BY <1>0, <1>1, <2>4 DEF XblInv, StepInv, WritesSec
    <3>2. stage # UPDATE_FINALIZE
      BY <2>1, <2>4, <3>1 DEF StepInv, AtStage, WritesSec
    <3>3. sec'[l].sig
      BY <1>0, <2>4, <3>1, <3>2 DEF WritesSec
    <3>4. QED BY <3>3 DEF AtStage
  <2>5. QED BY <2>2, <2>3, <2>4
<1>2. ASSUME NEW x \in BootParts, img[x]["bak"] = "part", NEW l \in UpdateLuns
      PROVE  ~HdrOK(sec[l])'
  <2>1. ~HdrOK(sec[l])
    BY <1>2 DEF XblBakInv
  <2>2. CASE l # cur \/ sec' = sec
    <3>1. sec'[l] = sec[l]
      BY <2>2
    <3>2. QED BY <2>1, <3>1 DEF HdrOK
  <2>3. CASE l = cur /\ sec' # sec
    <3>1. WritesSec
      BY <2>3
    <3>2. stage # UPDATE_FINALIZE
      BY <1>2 DEF CallInv, Images, HasBackup
    <3>3. stage # UPDATE_MAIN
      BY <2>1, <2>3, <3>1 DEF WritesSec, StepInv, AtStage
    <3>4. stage = UPDATE_BACKUP
      BY <1>0, <3>1, <3>2, <3>3 DEF WritesSec
    <3>5. QED BY <2>1, <2>3, <3>4 DEF HdrOK
  <2>4. QED BY <2>2, <2>3
<1>3. QED BY <1>1, <1>2

(* An operation on a disk fails. *)
LEMMA IoErrorInv == Inv /\ IoError => Inv'
<1> SUFFICES ASSUME Inv, IoError PROVE Inv'
  OBVIOUS
<1> USE StageNumbers, UpdateLunsFacts DEF Inv, Covered, Listed
<1>0. TypeOK'
  BY TypeStep DEF Next
<1>1. /\ \A l \in Luns : DiskInv(l)'
      /\ \A p \in Covered' : ImgInv(p)'
  BY FailureInv
<1>2. /\ pc \in InLun /\ pc' = "next" /\ cur' = NoLun /\ err'
      /\ UNCHANGED <<stage, todo, ready, img, skipped>>
  BY DEF IoError, LunDone, InLun, TypeOK
<1>3. CallInv'
  BY <1>2 DEF CallInv, InLun
<1>4. StepInv'
  BY <1>2 DEF StepInv
<1>5. LoopInv'
  BY <1>2 DEF CallInv, LoopInv, InLun
<1>6. BootLunInv'
  <2>0. xblMissed' = (xblMissed /\ bootLun' = "B") /\ skipped' = skipped
    BY <1>2 DEF IoError
  <2>1. skipped = {} => XblBakInv'
    BY <1>2, FailureXbl DEF XblBakInv
  <2>2. ASSUME skipped = {}, bootLun' = "A" PROVE XblInv'
    BY <1>2, <2>2 DEF XblInv, CallInv, InLun
  <2>3. ASSUME skipped = {}, ~xblMissed, bootLun' = "B" PROVE XblInv'
    <3>0. XblInv
      BY <2>3 DEF BootLunInv
    <3>1. CASE bootLun = "B"
      BY <1>2, <2>3, <3>0, <3>1, FailureXbl DEF XblInv, CallInv, InLun
    <3>2. CASE bootLun # "B"
      <4>1. pc = "lun" /\ bootLun' = BootLunFor /\ UNCHANGED <<prim, sec>>
        BY <2>3, <3>2 DEF IoError, WritesPrim, WritesSec
      <4>2. /\ XblSwitch /\ cur \in UpdateLuns /\ AtStage(cur, stage)
            /\ stage = UPDATE_MAIN
        BY <2>3, <4>1 DEF StepInv, CallInv, InLun, BootLunFor
      <4>3. PICK k \in UpdateLuns : k = cur
        BY <4>2
      <4>4. HdrOK(sec[k]) /\ ~AtStage(k, UPDATE_FINALIZE)'
        BY <4>1, <4>2, <4>3 DEF AtStage, HdrOK
      <4>5. \A x \in BootParts : img[x]["bak"] # "part"
        BY <2>3, <4>4 DEF BootLunInv, XblBakInv
      <4>6. QED BY <1>2, <4>2, <4>4, <4>5 DEF XblInv, CallInv, InLun
    <3>3. QED BY <3>1, <3>2
  <2>4. bootLun' \in {"A", "B"}
    BY <1>0 DEF TypeOK
  <2>5. QED BY <2>0, <2>1, <2>2, <2>3, <2>4 DEF BootLunInv
<1>7. QED BY <1>0, <1>1, <1>3, <1>4, <1>5, <1>6

(* Power fails. *)
LEMMA CrashInv == Inv /\ Crash => Inv'
<1> SUFFICES ASSUME Inv, Crash PROVE Inv'
  OBVIOUS
<1> USE StageNumbers, UpdateLunsFacts DEF Inv, Covered, Listed
<1>0. TypeOK'
  BY TypeStep DEF Next
<1>1. /\ \A l \in Luns : DiskInv(l)'
      /\ \A p \in Covered' : ImgInv(p)'
  BY FailureInv
<1>2. /\ pc' = "idle" /\ stage' = 0 /\ todo' = {} /\ cur' = NoLun /\ ready' = 0
      /\ UNCHANGED <<img, bootLun, skipped, xblMissed>>
  BY DEF Crash
<1>3. CallInv'
  BY <1>2 DEF CallInv, InLun
<1>4. StepInv' /\ LoopInv'
  BY <1>2 DEF StepInv, LoopInv
<1>5. BootLunInv'
  BY <1>2, FailureXbl DEF BootLunInv, XblBakInv, XblInv
<1>6. QED BY <1>0, <1>1, <1>3, <1>4, <1>5

LEMMA InvInit == Init => Inv
<1> SUFFICES ASSUME Init PROVE Inv
  OBVIOUS
<1> USE StageNumbers, UpdateLunsFacts, CoveredFacts
<1>1. TypeOK
  BY TypeInit
<1>2. \A l \in Luns : prim[l] = Fresh /\ sec[l] = Fresh
  BY DEF Init
<1>3. ASSUME NEW l \in Luns PROVE DiskInv(l)
  BY <1>2 DEF Init, DiskInv, HdrOK, SecValid, Fresh
<1>4. \A i \in Images : img[i]["main"] = "old" /\ img[i]["bak"] = "old"
  BY DEF Init, Copy
<1>5. \A p \in Covered : ImgInv(p)
  BY <1>4 DEF ImgInv
<1>6. CallInv /\ StepInv /\ LoopInv
  BY <1>4 DEF Init, CallInv, InLun, StepInv, LoopInv
<1>7. BootLunInv
  BY <1>4 DEF Init, BootLunInv, XblBakInv, XblInv, Images
<1>8. QED BY <1>1, <1>3, <1>5, <1>6, <1>7 DEF Inv

LEMMA InvStep == Inv /\ [Next]_vars => Inv'
<1> SUFFICES ASSUME Inv, [Next]_vars PROVE Inv'
  OBVIOUS
<1>1. CASE Library
  BY <1>1, PickLunInv, ReturnInv, CheckStageInv, SwitchBootLunInv, WriteChainHeaderInv,
     BeginChainArrayInv, EndChainArrayInv, SetPrimaryStateInv, SetSecondaryStateInv
     DEF Library
<1>2. CASE Updater
  BY <1>2, PrepareInv, ImageInv DEF Updater
<1>3. CASE IoError
  BY <1>3, IoErrorInv
<1>4. CASE Crash
  BY <1>4, CrashInv
<1>5. CASE UNCHANGED vars
  BY <1>5 DEF vars, Inv, Covered, Listed, TypeOK, DiskInv, ImgInv, CallInv, StepInv, LoopInv,
     BootLunInv, XblBakInv, XblInv,
     Prepared, AtStage, HdrOK, PrimValid, SecValid, ChainOrder, InLun
<1>6. QED BY <1>1, <1>2, <1>3, <1>4, <1>5 DEF Next

(* The disks, the images and the call in progress always fit together.     *)
THEOREM InvCorrect == Spec => []Inv
BY InvInit, InvStep, PTL DEF Spec

(***************************************************************************)
(* What follows from it                                                    *)
(***************************************************************************)

(* Which copy of a protected image boots, read off the headers. *)
LEMMA SelectedFacts ==
    ASSUME Inv, NEW p \in Protected
    PROVE  /\ HdrOK(prim[LunOf[p]]) => Selected(p) = "main"
           /\ ~HdrOK(prim[LunOf[p]]) => Selected(p) = "bak"
<1> DEFINE l == LunOf[p]
<1>1. l \in Luns /\ DiskInv(l)
  BY UpdateLunsFacts DEF Inv
<1>2. ASSUME HdrOK(prim[l]) PROVE Selected(p) = "main"
  <2>1. CASE parr[l] = "normal"
    <3>1. PrimValid(l)
      BY <1>1, <1>2, <2>1 DEF DiskInv, PrimValid, HdrOK
    <3>2. QED BY <2>1, <3>1 DEF Selected, FirstTwin
  <2>2. CASE parr[l] = "torn"
    <3>1. ~PrimValid(l) /\ SecValid(l) /\ sarr[l] = "normal"
      BY <1>1, <2>2 DEF DiskInv, PrimValid
    <3>2. QED BY <3>1 DEF Selected, FirstTwin
  <2>3. QED BY <1>1, <2>1, <2>2 DEF DiskInv
<1>3. ASSUME ~HdrOK(prim[l]) PROVE Selected(p) = "bak"
  <2>1. ~PrimValid(l) /\ SecValid(l) /\ sarr[l] = "swapped"
    BY <1>1, <1>3 DEF DiskInv, PrimValid, HdrOK
  <2>2. QED BY <2>1 DEF Selected, FirstTwin
<1>4. QED BY <1>2, <1>3

LEMMA InvFailsafe == Inv => Failsafe
<1> SUFFICES ASSUME Inv PROVE Failsafe
  OBVIOUS
<1>1. ASSUME NEW l \in Luns PROVE PrimValid(l) \/ SecValid(l)
  BY DEF Inv, DiskInv, PrimValid, SecValid, HdrOK
<1>2. ASSUME NEW p \in Protected PROVE Selected(p) \in Copy
  BY SelectedFacts DEF Copy
<1>3. ASSUME NEW p \in Covered PROVE img[p][Selected(p)] # "part"
  BY SelectedFacts, CoveredFacts DEF Inv, ImgInv
<1>4. QED BY <1>1, <1>2, <1>3 DEF Failsafe

(* No crash, error or order of calls leaves a device that cannot boot: on  *)
(* every set of disks, at every point of prepare_partitions, some GPT of   *)
(* every disk is valid and leads to complete copies.                       *)
THEOREM FailsafeCorrect == Spec => []Failsafe
BY InvCorrect, InvFailsafe, PTL

(* A disk can be left out, or xbl missed, only on a UFS device and only    *)
(* when a lookup fails: otherwise every protected image is covered for     *)
(* good, and the exceptions of the properties never arise.                 *)
THEOREM NothingSkipped ==
    ASSUME ~IsUfs \/ LookupFails = {}
    PROVE  Spec => [](skipped = {} /\ ~xblMissed /\ Covered = Protected)
<1> DEFINE Nothing == skipped = {} /\ ~xblMissed
<1>1. Init => Nothing
  BY DEF Init
<1>2. Nothing /\ [Next]_vars => Nothing'
  <2>1. XblLookups = {XblSwitch} /\ Listings = {UpdateLuns}
    BY ConstantsOK DEF XblLookups, XblSwitch, Listings
  <2>2. skipped = {} /\ [Next]_vars => skipped' = {}
    BY <2>1 DEF Next, Library, Updater, PickLun, Return, CheckStage, StartStage,
       SwitchBootLun, WriteChainHeader, BeginChainArray, EndChainArray,
       SetPrimaryState, SetSecondaryState, IoError, Crash, Prepare, BeginImage,
       EndImage, LunDone, Continue, call, vars
  <2>3. ~xblMissed /\ CheckStage => ~xblMissed'
    BY <2>1 DEF CheckStage, StartStage
  <2>4. ~xblMissed /\ [Next]_vars => ~xblMissed'
    BY <2>3 DEF Next, Library, Updater, PickLun, Return, SwitchBootLun,
       WriteChainHeader, BeginChainArray, EndChainArray, SetPrimaryState,
       SetSecondaryState, IoError, Crash, Prepare, BeginImage, EndImage, call, vars
  <2>5. QED BY <2>2, <2>4
<1>3. Nothing => skipped = {} /\ ~xblMissed /\ Covered = Protected
  BY DEF Covered
<1>4. QED BY <1>1, <1>2, <1>3, PTL DEF Spec

(* The backup xbl the updater is writing is never the one that boots, for  *)
(* every outcome of the lookups but the ones the property names: a disk    *)
(* some call has left out, and a boot LUN that UPDATE_BACKUP has passed    *)
(* over and that is still at B.                                            *)
THEOREM XblBackupCorrect == Spec => []XblBackupFailsafe
<1>1. Inv => XblBackupFailsafe
  BY DEF Inv, BootLunInv, XblInv, XblBackupFailsafe, XblSelected
<1>2. QED BY <1>1, InvCorrect, PTL

(* UPDATE_FINALIZE returns 0 only with both GPTs of every disk valid and   *)
(* equal, and the boot LUN back at A unless xbl was missed or a disk left  *)
(* out.                                                                    *)
THEOREM FinalizeCorrect == Spec => []FinalizeRestores
<1>1. Inv => FinalizeRestores
  <2> SUFFICES ASSUME Inv, ready = UPDATE_FINALIZE
               PROVE  /\ skipped = {} /\ ~xblMissed => bootLun = "A"
                      /\ \A l \in Listed :
                            PrimValid(l) /\ SecValid(l) /\ sarr[l] = parr[l]
    BY DEF FinalizeRestores, Listed
  <2>1. skipped = {} /\ ~xblMissed => bootLun = "A"
    BY DEF Inv, BootLunInv, XblInv
  <2>2. ASSUME NEW l \in Listed
        PROVE  PrimValid(l) /\ SecValid(l) /\ sarr[l] = "normal"
    <3>1. Prepared(l, ready)
      BY StageNumbers DEF Inv, LoopInv
    <3>2. QED BY <3>1 DEF Prepared
  <2>3. \A l \in Listed : prim[l].arr = "normal"
    BY UpdateLunsFacts, CoveredFacts DEF Inv, DiskInv
  <2>4. QED BY <2>1, <2>2, <2>3 DEF PrimValid
<1>2. QED BY <1>1, InvCorrect, PTL

(* "No backup partitions - do not corrupt GPT": what is proved of a step.  *)
LEMMA UnbackedStep ==
    ASSUME Inv, [Next]_vars, NEW l \in Luns, l \notin Backed
    PROVE  prim'[l] = prim[l] /\ sec'[l] = sec[l] /\ sarr'[l] = sarr[l]
<1> USE StageNumbers, UpdateLunsFacts DEF Inv, Covered, Listed
<1>0. /\ pc \in {"prim", "sec", "arr", "arr2"} => cur # l
      /\ WritesSec => cur # l
  <2>1. pc \in {"prim", "sec", "arr", "arr2"} => cur # l
    BY DEF StepInv
  <2>2. HdrOK(sec[l]) /\ HdrOK(prim[l])
    BY DEF DiskInv
  <2>3. pc = "hdr" /\ ~NothingToSwap => cur # l
    BY <2>2 DEF StepInv, AtStage, NothingToSwap, CallInv, InLun, TypeOK, HdrOK
  <2>4. QED BY <2>1, <2>3 DEF WritesSec
<1>1. CASE UNCHANGED disk
  BY <1>1 DEF disk
<1>2. CASE SwitchBootLun
  BY <1>2 DEF SwitchBootLun
<1>3. CASE WriteChainHeader
  BY <1>0, <1>3 DEF WriteChainHeader, WritesSec, TypeOK
<1>4. CASE BeginChainArray \/ EndChainArray
  BY <1>0, <1>4 DEF BeginChainArray, EndChainArray, TypeOK
<1>5. CASE SetPrimaryState
  BY <1>0, <1>5 DEF SetPrimaryState, TypeOK
<1>6. CASE SetSecondaryState
  BY <1>0, <1>6 DEF SetSecondaryState, TypeOK
<1>7. CASE IoError \/ Crash
  BY <1>0, <1>7, FailedWrites
<1>8. QED
  BY <1>1, <1>2, <1>3, <1>4, <1>5, <1>6, <1>7
     DEF Next, Library, Updater, PickLun, Return, CheckStage, Prepare, BeginImage,
         EndImage, vars, disk

(* No step writes the GPTs of a disk that has nothing to swap. *)
THEOREM UnbackedCorrect == Spec => UnbackedUntouched
<1>1. Inv /\ [Next]_vars =>
        [\A l \in Luns \ Backed :
            prim'[l] = prim[l] /\ sec'[l] = sec[l] /\ sarr'[l] = sarr[l]]_vars
  BY UnbackedStep
<1>2. QED BY <1>1, InvCorrect, PTL DEF Spec, UnbackedUntouched

(* A disk one of whose headers has a wrong CRC is never written again.     *)
LEMMA FrozenStep ==
    ASSUME Inv, [Next]_vars, NEW l \in Luns, ~prim[l].crc \/ ~sec[l].crc
    PROVE  prim'[l] = prim[l] /\ sec'[l] = sec[l] /\ sarr'[l] = sarr[l]
<1> USE StageNumbers, UpdateLunsFacts DEF Inv, Covered, Listed
<1>0. /\ pc \in {"prim", "arr", "arr2"} => cur # l
      /\ WritesSec => cur # l
  BY DEF StepInv, AtStage, HdrOK, WritesSec, DiskInv, SecValid, CallInv, InLun, TypeOK
<1>1. CASE UNCHANGED disk
  BY <1>1 DEF disk
<1>2. CASE SwitchBootLun
  BY <1>2 DEF SwitchBootLun
<1>3. CASE WriteChainHeader
  BY <1>0, <1>3 DEF WriteChainHeader, WritesSec, TypeOK
<1>4. CASE BeginChainArray \/ EndChainArray
  BY <1>0, <1>4 DEF BeginChainArray, EndChainArray, TypeOK
<1>5. CASE SetPrimaryState
  BY <1>0, <1>5 DEF SetPrimaryState, TypeOK
<1>6. CASE SetSecondaryState
  BY <1>0, <1>6 DEF SetSecondaryState, WritesSec, TypeOK
<1>7. CASE IoError \/ Crash
  BY <1>0, <1>7, FailedWrites
<1>8. QED
  BY <1>1, <1>2, <1>3, <1>4, <1>5, <1>6, <1>7
     DEF Next, Library, Updater, PickLun, Return, CheckStage, Prepare, BeginImage,
         EndImage, vars, disk

(* Once a header of a disk has a wrong CRC, no step writes that disk. *)
THEOREM FrozenCorrect == Spec => CorruptHeaderFrozen
<1>1. Inv /\ [Next]_vars =>
        [\A l \in Luns :
            ~prim[l].crc \/ ~sec[l].crc =>
                prim'[l] = prim[l] /\ sec'[l] = sec[l] /\ sarr'[l] = sarr[l]]_vars
  BY FrozenStep
<1>2. QED BY <1>1, InvCorrect, PTL DEF Spec, CorruptHeaderFrozen

(***************************************************************************)
(* Two disks that boot different versions                                  *)
(***************************************************************************)

(* The disks behind the covered images. *)
CoveredLuns == Backed \ skipped

(* What the updater relies on: backup copies are not touched before every  *)
(* main one is new, and as long as one of the main copies is not new,      *)
(* either nothing has been written or every disk boots its backups, which  *)
(* are all of one version. *)
MixedInv ==
    /\ stage = UPDATE_BACKUP => Uniform("main")
    /\ stage = UPDATE_FINALIZE => Uniform("bak")
    /\ \/ AllAre("bak", "old")
       \/ \A i \in Images : img[i]["main"] # "old"
    /\ ~Uniform("bak") => \A l \in CoveredLuns : HdrOK(prim[l]) /\ ~HdrOK(sec[l])
    /\ \/ AllAre("main", "new")
       \/ AllAre("main", "old") /\ AllAre("bak", "old")
       \/ Uniform("bak") /\ \A l \in CoveredLuns : ~HdrOK(prim[l])

(* A disk that was left out stays marked, whatever follows.                *)
LEMMA SkippedGrows ==
    ASSUME [Next]_vars
    PROVE  /\ skipped \subseteq skipped'
           /\ Covered' \subseteq Covered /\ CoveredLuns' \subseteq CoveredLuns
<1>1. skipped \subseteq skipped'
  BY DEF Next, Library, Updater, PickLun, Return, CheckStage, StartStage, SwitchBootLun,
     WriteChainHeader, BeginChainArray, EndChainArray, SetPrimaryState,
     SetSecondaryState, IoError, Crash, Prepare, BeginImage, EndImage, LunDone,
     Continue, call, vars
<1>2. QED BY <1>1 DEF Covered, CoveredLuns

LEMMA CoveredLunsFacts ==
    /\ CoveredLuns \subseteq Listed /\ CoveredLuns \subseteq Luns
    /\ \A p \in Covered : LunOf[p] \in CoveredLuns /\ p \in Protected
<1>1. Backed \subseteq UpdateLuns /\ UpdateLuns \subseteq Luns
  BY UpdateLunsFacts DEF Backed
<1>2. QED BY <1>1, UpdateLunsFacts DEF CoveredLuns, Covered, Listed

(* A disk that boots its backups is not switched back before               *)
(* UPDATE_BACKUP, and one whose backup GPT is given up keeps both GPTs     *)
(* until UPDATE_FINALIZE. *)
LEMMA SwitchedDisk ==
    ASSUME Inv, [Next]_vars, NEW l \in Luns
    PROVE  /\ stage # UPDATE_BACKUP /\ ~HdrOK(prim[l]) => prim'[l] = prim[l]
           /\ stage # UPDATE_FINALIZE /\ HdrOK(prim[l]) /\ ~HdrOK(sec[l]) =>
                prim'[l] = prim[l] /\ sec'[l] = sec[l]
<1> USE StageNumbers, UpdateLunsFacts DEF Inv, Covered, Listed
<1>a. pc # "idle" => stage \in Stages
  BY DEF CallInv, TypeOK
<1>b. stage # UPDATE_BACKUP /\ ~HdrOK(prim[l]) => ~(pc = "prim" /\ cur = l)
  BY <1>a DEF StepInv, AtStage
<1>c. stage # UPDATE_FINALIZE /\ HdrOK(prim[l]) /\ ~HdrOK(sec[l]) =>
        ~((pc = "prim" \/ WritesSec) /\ cur = l)
  BY <1>a DEF StepInv, AtStage, HdrOK, WritesSec
<1>1. CASE UNCHANGED disk
  BY <1>1 DEF disk
<1>2. CASE SwitchBootLun \/ BeginChainArray \/ EndChainArray
  BY <1>2 DEF SwitchBootLun, BeginChainArray, EndChainArray
<1>3. CASE WriteChainHeader
  BY <1>c, <1>3 DEF WriteChainHeader, WritesSec, TypeOK
<1>4. CASE SetPrimaryState
  BY <1>b, <1>c, <1>4 DEF SetPrimaryState, TypeOK
<1>5. CASE SetSecondaryState
  BY <1>c, <1>5 DEF SetSecondaryState, WritesSec, TypeOK
<1>6. CASE IoError \/ Crash
  BY <1>b, <1>c, <1>6, FailedWrites
<1>7. QED
  BY <1>1, <1>2, <1>3, <1>4, <1>5, <1>6
     DEF Next, Library, Updater, PickLun, Return, CheckStage, Prepare, BeginImage,
         EndImage, vars, disk

(* A step that writes no image. *)
LEMMA MixedDiskStep ==
    ASSUME Inv, MixedInv, [Next]_vars, Covered # {}, img' = img,
           stage' = stage \/ stage' = 0 \/ (\E s \in Stages : Prepare(s))
    PROVE  MixedInv'
<1> USE StageNumbers, CoveredLunsFacts, SkippedGrows
<1>0. \A c \in Copy, v \in Content : AllAre(c, v)' <=> AllAre(c, v)
  BY DEF AllAre
<1>1. \A c \in Copy : Uniform(c)' <=> Uniform(c)
  BY <1>0 DEF Uniform, Content
<1>2. /\ stage' = UPDATE_BACKUP => Uniform("main")
      /\ stage' = UPDATE_FINALIZE => Uniform("bak")
  BY DEF MixedInv, Prepare
<1>3. CoveredLuns' \subseteq CoveredLuns
  OBVIOUS
<1>4. ~Uniform("bak") => \A l \in CoveredLuns : HdrOK(prim'[l]) /\ ~HdrOK(sec'[l])
  BY SwitchedDisk DEF MixedInv
<1>5. \/ AllAre("main", "new")
      \/ AllAre("main", "old") /\ AllAre("bak", "old")
      \/ Uniform("bak") /\ \A l \in CoveredLuns : ~HdrOK(prim'[l])
  <2> SUFFICES ASSUME ~AllAre("main", "new"), ~(AllAre("main", "old") /\ AllAre("bak", "old"))
               PROVE  Uniform("bak") /\ \A l \in CoveredLuns : ~HdrOK(prim'[l])
    OBVIOUS
  <2>1. Uniform("bak") /\ \A l \in CoveredLuns : ~HdrOK(prim[l])
    BY DEF MixedInv
  <2>2. stage # UPDATE_BACKUP
    <3>1. PICK p : p \in Images
      BY UpdateLunsFacts
    <3>2. AllAre("main", "old") => AllAre("bak", "old")
      BY <3>1 DEF MixedInv, AllAre
    <3>3. QED BY <3>2 DEF MixedInv, Uniform
  <2>3. QED BY <2>1, <2>2, SwitchedDisk
<1>6. "main" \in Copy /\ "bak" \in Copy /\ "old" \in Content /\ "new" \in Content
  BY DEF Copy, Content
<1>7. \/ AllAre("bak", "old")
      \/ \A i \in Images : img'[i]["main"] # "old"
  BY DEF MixedInv
<1>8. QED BY <1>0, <1>1, <1>2, <1>3, <1>4, <1>5, <1>6, <1>7 DEF MixedInv, HdrOK

(* The updater writes a part of a copy, or the rest of it. *)
LEMMA MixedImageStep ==
    ASSUME Inv, MixedInv, Covered # {}, NEW i \in Images, NEW c \in Copy,
           BeginImage(i, c) \/ EndImage(i, c)
    PROVE  MixedInv'
<1> USE StageNumbers, CoveredLunsFacts
<1>1. /\ MayWrite(i, c) /\ UNCHANGED <<disk, call>> /\ pc = "idle" /\ stage = 0
      /\ \E v \in {"part", "new"} : img' = [img EXCEPT ![i][c] = v]
  BY DEF BeginImage, EndImage, MayWrite, Inv, CallInv
<1>2. PICK v \in {"part", "new"} : img' = [img EXCEPT ![i][c] = v]
  BY <1>1
<1>3. /\ img'[i][c] = v
      /\ \A j \in Images, d \in Copy : j # i \/ d # c => img'[j][d] = img[j][d]
  BY <1>2 DEF Inv, TypeOK
<1>4. PICK p : p \in Covered
  OBVIOUS
<1>5. LunOf[p] \in CoveredLuns /\ CoveredLuns' = CoveredLuns
  BY <1>1, <1>4 DEF CoveredLuns, call
<1>6. CASE c = "main"
  <2>1. \A l \in CoveredLuns : ~HdrOK(prim[l])
    BY <1>1, <1>5, <1>6 DEF MayWrite, Inv, LoopInv, Prepared, CoveredLuns
  <2>2. Uniform("bak")
    BY <1>5, <2>1 DEF MixedInv
  <2>3. \A j \in Images : img'[j]["bak"] = img[j]["bak"]
    BY <1>3, <1>6 DEF Copy
  <2>4. \A w : AllAre("bak", w)' <=> AllAre("bak", w)
    BY <2>3 DEF AllAre
  <2>5. AllAre("bak", "old")' \/ \A j \in Images : img'[j]["main"] # "old"
    BY <1>2, <1>3, <1>6, <2>4 DEF MixedInv, Copy
  <2>6. Uniform("bak")' /\ \A l \in CoveredLuns : ~HdrOK(prim'[l])
    BY <1>1, <1>5, <2>1, <2>2, <2>4 DEF Uniform, disk
  <2>7. QED BY <1>1, <1>5, <2>5, <2>6 DEF MixedInv, call, HdrOK
<1>7. CASE c = "bak"
  <2>1. AllAre("main", "new") /\ \A l \in CoveredLuns : HdrOK(prim[l]) /\ ~HdrOK(sec[l])
    BY <1>1, <1>5, <1>7 DEF MayWrite, Inv, LoopInv, Prepared, AtStage, HdrOK
  <2>2. \A j \in Images : img'[j]["main"] = "new"
    BY <1>3, <1>7, <2>1 DEF AllAre, Copy
  <2>3. AllAre("main", "new")'
    BY <2>2 DEF AllAre
  <2>4. QED BY <1>1, <1>5, <2>1, <2>2, <2>3 DEF MixedInv, call, disk, HdrOK
<1>8. QED BY <1>6, <1>7 DEF Copy

LEMMA MixedStep ==
    ASSUME Inv, MixedInv, Covered # {}, [Next]_vars PROVE MixedInv'
<1>1. CASE Library \/ IoError \/ Crash \/ (\E s \in Stages : Prepare(s)) \/ UNCHANGED vars
  <2>1. img' = img /\ (stage' = stage \/ stage' = 0 \/ \E s \in Stages : Prepare(s))
    BY <1>1 DEF Library, PickLun, Return, CheckStage, StartStage, SwitchBootLun, WriteChainHeader,
       BeginChainArray, EndChainArray, SetPrimaryState, SetSecondaryState, IoError,
       Crash, Prepare, LunDone, Continue, vars
  <2>2. QED BY <2>1, MixedDiskStep
<1>2. CASE \E i \in Images, c \in Copy : BeginImage(i, c) \/ EndImage(i, c)
  BY <1>2, MixedImageStep
<1>3. QED BY <1>1, <1>2 DEF Next, Updater

LEMMA MixedInit == Init => MixedInv
<1> SUFFICES ASSUME Init PROVE MixedInv
  OBVIOUS
<1>1. \A i \in Images : img[i]["main"] = "old" /\ img[i]["bak"] = "old"
  BY DEF Init, Copy
<1>2. AllAre("main", "old") /\ AllAre("bak", "old")
  BY <1>1 DEF AllAre
<1>3. QED BY <1>2, StageNumbers DEF Init, MixedInv, Uniform

LEMMA MixedInvMixed == Inv /\ (Covered # {} => MixedInv) => MixedOnlyAfterMain
<1> SUFFICES ASSUME Inv, Covered # {} => MixedInv, ~AllAre("main", "new"),
                    NEW p \in Covered, NEW q \in Covered
             PROVE  img[p][Selected(p)] = img[q][Selected(q)]
  BY DEF MixedOnlyAfterMain
<1>0. p \in Protected /\ q \in Protected
  BY CoveredLunsFacts
<1>1. HasBackup(p) /\ HasBackup(q) /\ p \in Images /\ q \in Images
  BY <1>0, ConstantsOK DEF Protected, HasBackup, Images
<1>2. Selected(p) \in Copy /\ Selected(q) \in Copy
  BY <1>0, SelectedFacts DEF Copy
<1>3. CASE AllAre("main", "old") /\ AllAre("bak", "old")
  BY <1>1, <1>2, <1>3 DEF AllAre, Copy
<1>4. CASE Uniform("bak") /\ \A l \in CoveredLuns : ~HdrOK(prim[l])
  <2>1. Selected(p) = "bak" /\ Selected(q) = "bak"
    BY <1>0, <1>4, SelectedFacts, CoveredLunsFacts
  <2>2. QED BY <1>1, <1>4, <2>1 DEF Uniform, AllAre
<1>5. QED BY <1>3, <1>4 DEF MixedInv

(* Two disks boot different versions of their images only once every main  *)
(* copy is new, whatever fails and whenever power is lost.                 *)
THEOREM MixedCorrect == Spec => []MixedOnlyAfterMain
<1>1. Init => (Covered # {} => MixedInv)
  BY MixedInit
<1>2. Inv /\ (Covered # {} => MixedInv) /\ [Next]_vars => (Covered # {} => MixedInv)'
  BY MixedStep, SkippedGrows
<1>3. QED BY <1>1, <1>2, InvCorrect, MixedInvMixed, PTL DEF Spec

(***************************************************************************)
(* Refinement: a disk that moves to its other GPT is a Switch of the       *)
(* images on it, a write of the updater is a Write of a copy not booted.   *)
(***************************************************************************)

LEMMA BootedCopy ==
    Inv => \A p \in Protected :
        Selected(p) = IF HdrOK(prim[LunOf[p]]) THEN "main" ELSE "bak"
BY SelectedFacts

LEMMA BootedCopyNext ==
    Inv' => \A p \in Protected :
        Selected(p)' = IF HdrOK(prim'[LunOf[p]]) THEN "main" ELSE "bak"
<1>1. Inv' => (\A p \in Protected :
        Selected(p) = IF HdrOK(prim[LunOf[p]]) THEN "main" ELSE "bak")'
  BY BootedCopy, PTL
<1>2. QED BY <1>1 DEF HdrOK

LEMMA DiskStep ==
    ASSUME Inv, Inv', img' = img, skipped' = skipped, NEW l,
           \A k \in Luns : k # l => prim'[k] = prim[k]
    PROVE  Abs!Next
<1> DEFINE S == {p \in Protected : LunOf[p] = l}
           c == IF HdrOK(prim'[l]) THEN "main" ELSE "bak"
<1>1. \A p \in S \ (Protected \ Covered) : img[p][c] # "part"
  <2> SUFFICES ASSUME NEW p \in S, p \in Covered PROVE img'[p][c] # "part"
    OBVIOUS
  <2>1. ImgInv(p)'
    BY DEF Inv, Covered
  <2>2. QED BY <2>1 DEF ImgInv, HdrOK
<1>2. ASSUME NEW p \in Protected
      PROVE  Selected(p)' = IF p \in S THEN c ELSE Selected(p)
  <2>1. CASE p \in S
    BY <2>1, BootedCopyNext
  <2>2. CASE p \notin S
    <3>1. prim'[LunOf[p]] = prim[LunOf[p]]
      BY <2>2, UpdateLunsFacts
    <3>2. QED BY <2>2, <3>1, BootedCopy, BootedCopyNext
  <2>3. QED BY <2>1, <2>2
<1>3. Abs!Switch(S, c)
  BY <1>1, <1>2 DEF Abs!Switch, Covered
<1>4. S \in SUBSET Protected /\ c \in Abs!Copy
  BY DEF Abs!Copy
<1>5. QED BY <1>3, <1>4 DEF Abs!Next

LEMMA WriteStep ==
    ASSUME Inv, Inv', NEW i \in Images, NEW c \in Copy,
           BeginImage(i, c) \/ EndImage(i, c)
    PROVE  [Abs!Next]_(Abs!vars)
<1> DEFINE boot == [p \in Protected |-> Selected(p)]
<1>1. MayWrite(i, c) /\ UNCHANGED <<disk, call>> /\ Covered' = Covered
  BY DEF BeginImage, EndImage, call, Covered
<1>2. \A p \in Protected : Selected(p)' = Selected(p)
  BY <1>1, BootedCopy, BootedCopyNext DEF disk
<1>3. boot' = boot
  BY <1>2
<1>4. CASE i \in Protected
  <2>1. Selected(i) # c \/ i \in Protected \ Covered
    <3> SUFFICES ASSUME i \in Covered PROVE Selected(i) # c
      BY <1>4
    <3>0. LunOf[i] \in Listed
      BY CoveredFacts
    <3>1. c = "main" => ~HdrOK(prim[LunOf[i]])
      BY <1>1, <1>4, <3>0, StageNumbers, UpdateLunsFacts
         DEF MayWrite, Inv, LoopInv, Prepared
    <3>2. c = "bak" => HdrOK(prim[LunOf[i]])
      BY <1>1, <3>0, StageNumbers
         DEF MayWrite, Inv, LoopInv, Prepared, AtStage
    <3>3. QED BY <1>4, <3>1, <3>2, BootedCopy DEF Copy
  <2>2. ASSUME NEW v, img' = [img EXCEPT ![i][c] = v]
        PROVE  [p \in Protected |-> img'[p]]
                = [[p \in Protected |-> img[p]] EXCEPT ![i][c] = v]
    BY <1>4, <2>2, UpdateLunsFacts DEF Inv, TypeOK
  <2>3. CASE BeginImage(i, c)
    <3>1. Abs!Write(i, c, "part")
      BY <1>1, <1>3, <1>4, <2>1, <2>2, <2>3 DEF BeginImage, Abs!Write
    <3>2. QED BY <1>4, <3>1 DEF Abs!Next, Abs!Copy, Copy
  <2>4. CASE EndImage(i, c)
    <3>1. Abs!Write(i, c, "new")
      BY <1>1, <1>3, <1>4, <2>1, <2>2, <2>4 DEF EndImage, Abs!Write
    <3>2. QED BY <1>4, <3>1 DEF Abs!Next, Abs!Copy, Copy
  <2>5. QED BY <2>3, <2>4
<1>5. CASE i \notin Protected
  <2>1. \A p \in Protected : img'[p] = img[p]
    BY <1>5, UpdateLunsFacts DEF BeginImage, EndImage, Inv, TypeOK
  <2>2. QED BY <1>1, <1>3, <2>1 DEF Abs!vars
<1>6. QED BY <1>4, <1>5

LEMMA AbsStep ==
    ASSUME Inv, Inv', [Next]_vars PROVE [Abs!Next]_(Abs!vars)
<1>1. CASE Library \/ IoError \/ Crash
  <2>1. img' = img /\ skipped' = skipped
    BY <1>1 DEF Library, PickLun, Return, CheckStage, StartStage, SwitchBootLun, WriteChainHeader,
       BeginChainArray, EndChainArray, SetPrimaryState, SetSecondaryState, IoError,
       Crash, LunDone, Continue
  <2>2. \A k \in Luns : k # cur => prim'[k] = prim[k]
    BY <1>1 DEF Library, PickLun, Return, CheckStage, StartStage, SwitchBootLun, WriteChainHeader,
       BeginChainArray, EndChainArray, SetPrimaryState, SetSecondaryState, IoError,
       Crash, disk, Inv, TypeOK
  <2>3. QED BY <2>1, <2>2, DiskStep
<1>2. CASE \E i \in Images, c \in Copy : BeginImage(i, c) \/ EndImage(i, c)
  BY <1>2, WriteStep
<1>5. ASSUME NEW s \in Stages, Prepare(s) PROVE Abs!Next
  <2> DEFINE S == Covered \ Covered'
  <2>1. skipped \subseteq skipped' /\ UNCHANGED <<disk, img>>
    BY <1>5 DEF Prepare
  <2>2. S \in SUBSET Protected /\ Protected \ Covered' = (Protected \ Covered) \cup S
    BY <2>1 DEF Covered
  <2>3. \A p \in Protected : Selected(p)' = Selected(p)
    BY <2>1, BootedCopy, BootedCopyNext DEF disk
  <2>4. Abs!Expose(S)
    BY <2>1, <2>2, <2>3 DEF Abs!Expose
  <2>5. QED BY <2>2, <2>4 DEF Abs!Next
<1>3. CASE UNCHANGED vars
  BY <1>3, DiskStep DEF vars
<1>4. QED BY <1>1, <1>2, <1>3, <1>5 DEF Next, Updater

(* Every behaviour of the detailed update is one of the abstract failsafe  *)
(* update: its disks, headers, arrays and stages never show through.       *)
THEOREM RefinesFailsafeUpdate == Spec => ImplementsFailsafeUpdate
<1>1. Init => Abs!Init
  <2> SUFFICES ASSUME Init PROVE Abs!Init
    OBVIOUS
  <2>1. \A p \in Protected : Selected(p) = "main"
    BY BootedCopy, InvInit, UpdateLunsFacts DEF Init, HdrOK, Fresh
  <2>2. \A p \in Protected : img[p] = [c \in Copy |-> "old"]
    BY UpdateLunsFacts DEF Init
  <2>3. Covered = Protected
    BY DEF Init, Covered
  <2>4. QED BY <2>1, <2>2, <2>3 DEF Abs!Init, Abs!Copy, Copy
<1>2. Inv /\ Inv' /\ [Next]_vars => [Abs!Next]_(Abs!vars)
  BY AbsStep
<1>3. QED BY <1>1, <1>2, InvCorrect, PTL DEF Spec, ImplementsFailsafeUpdate, Abs!Spec

(***************************************************************************)
(* The script that drives the update (OtaScript)                           *)
(***************************************************************************)

(* The script's own states are not seen by the update. *)
LEMMA OtaStep == [Work \/ Fault]_otaVars => [Next]_vars
<1> SUFFICES ASSUME [Work \/ Fault]_otaVars PROVE [Next]_vars
  OBVIOUS
<1>1. CASE Script
  <2>1. ASSUME NEW from, NEW s \in Stages, NEW to, Call(from, s, to) PROVE Next
    BY <2>1 DEF Call, Next, Updater
  <2>2. ASSUME NEW c \in Copy, WriteCopies(c) PROVE Next
    BY <2>2 DEF WriteCopies, Next, Updater
  <2>3. ASSUME NEW c, NEW to, Advance(c, to) PROVE UNCHANGED vars
    BY <2>3 DEF Advance
  <2>4. CASE Finish
    BY <2>4 DEF Finish
  <2>5. UPDATE_MAIN \in Stages /\ UPDATE_BACKUP \in Stages /\ UPDATE_FINALIZE \in Stages
    BY StageNumbers
  <2>6. QED BY <1>1, <2>1, <2>2, <2>3, <2>4, <2>5 DEF Script, Copy
<1>2. CASE Library /\ UNCHANGED step
  BY <1>2 DEF Next
<1>3. CASE Fault
  BY <1>3 DEF Fault, Next
<1>4. CASE UNCHANGED otaVars
  BY <1>4 DEF otaVars
<1>5. QED BY <1>1, <1>2, <1>3, <1>4 DEF Work

(* Whatever the script does, the updater it stands for may do: all that is *)
(* proved of the update holds while the script runs.                       *)
THEOREM OtaImplementsUpdate == OtaSpec => Spec
<1>1. OtaInit => Init
  BY DEF OtaInit
<1>2. QED BY <1>1, OtaStep, PTL DEF OtaSpec, Spec

(* When the script is done, no call is in progress, and none follows. *)
DoneInv == step = "done" => pc = "idle" /\ DoneIsComplete

LEMMA DoneStep == Inv /\ DoneInv /\ [Work \/ Fault]_otaVars => DoneInv'
<1> SUFFICES ASSUME Inv, DoneInv, [Work \/ Fault]_otaVars, step' = "done" PROVE DoneInv'
  BY DEF DoneInv
<1>1. CASE Finish
  <2>1. pc = "idle" /\ ready = UPDATE_FINALIZE /\ AllNew /\ UNCHANGED vars
    BY <1>1 DEF Finish
  <2>2. skipped = {} /\ ~xblMissed => bootLun = "A"
    BY <2>1 DEF Inv, BootLunInv, XblInv
  <2>3. \A l \in Listed : PrimValid(l) /\ SecValid(l) /\ sarr[l] = "normal"
    BY <2>1, StageNumbers DEF Inv, LoopInv, Prepared
  <2>4. QED BY <2>1, <2>2, <2>3
          DEF DoneInv, DoneIsComplete, AllNew, AllAre, PrimValid, SecValid, Listed, vars
<1>2. CASE step = "done" /\ UNCHANGED vars
  BY <1>2 DEF DoneInv, DoneIsComplete, AllNew, AllAre, PrimValid, SecValid, Listed, vars
<1>3. ~(step = "done" /\ Library)
  BY DEF DoneInv, Library, PickLun, Return, CheckStage, StartStage, SwitchBootLun, WriteChainHeader,
     BeginChainArray, EndChainArray, SetPrimaryState, SetSecondaryState
<1>4. ~(step = "done" /\ IoError)
  BY DEF DoneInv, IoError
<1>5. QED BY <1>1, <1>2, <1>3, <1>4
        DEF otaVars, Work, Script, Call, WriteCopies, Advance, Fault

(* The script is done only with every copy new, both GPTs of every disk of *)
(* the update valid and in the normal order, and the boot LUN at A, but    *)
(* for disks left out and a boot LUN passed over.                          *)
THEOREM DoneCorrect == OtaSpec => []DoneIsComplete
<1>1. OtaInit => DoneInv
  BY DEF OtaInit, DoneInv
<1>2. OtaSpec => []Inv
  BY OtaImplementsUpdate, InvCorrect, PTL
<1>3. DoneInv => DoneIsComplete
  BY DEF DoneInv, DoneIsComplete
<1>4. QED BY <1>1, <1>2, <1>3, DoneStep, PTL DEF OtaSpec
=============================================================================
