------------------------ MODULE FailsafeUpdate_proofs ------------------------
(***************************************************************************)
(* Proof that the abstract update keeps its promise, for every set of      *)
(* images.  With RefinesFailsafeUpdate (GptUpdate_proofs) it carries over  *)
(* to the GPT headers and arrays.                                          *)
(***************************************************************************)
EXTENDS FailsafeUpdate, TLAPS

FailsafeInv == TypeOK /\ BootComplete

LEMMA FailsafeInit == Init => FailsafeInv
BY DEF Init, FailsafeInv, TypeOK, BootComplete, Copy, Content

LEMMA FailsafeStep == FailsafeInv /\ [Next]_vars => FailsafeInv'
<1> SUFFICES ASSUME FailsafeInv, [Next]_vars PROVE FailsafeInv'
  OBVIOUS
<1> USE DEF FailsafeInv, TypeOK, BootComplete
<1>1. ASSUME NEW i \in Images, NEW c \in Copy, NEW v \in {"part", "new"}, Write(i, c, v)
      PROVE  FailsafeInv'
  BY <1>1 DEF Write, Content
<1>2. ASSUME NEW S \in SUBSET Images, NEW c \in Copy, Switch(S, c)
      PROVE  FailsafeInv'
  BY <1>2 DEF Switch
<1>3. ASSUME NEW S \in SUBSET Images, Expose(S) PROVE FailsafeInv'
  BY <1>3 DEF Expose
<1>4. CASE UNCHANGED vars
  BY <1>4 DEF vars
<1>5. QED BY <1>1, <1>2, <1>3, <1>4 DEF Next

(* In whatever order copies are written and images switched, the copy that *)
(* boots is complete, for every image that has not been given up. *)
THEOREM BootCompleteCorrect == Spec => []BootComplete
<1>1. FailsafeInv => BootComplete
  BY DEF FailsafeInv
<1>2. QED BY <1>1, FailsafeInit, FailsafeStep, PTL DEF Spec
=============================================================================
