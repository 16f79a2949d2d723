-------------------------- MODULE GptEntries_proofs --------------------------
(***************************************************************************)
(* gpt_boot_chain_swap, proved for every array without duplicate names and *)
(* every list whose names are not twins of each other.  EntriesInv says    *)
(* what the array looks like after some of the names: each entry of a pair *)
(* among them stands where its twin was.                                   *)
(***************************************************************************)
EXTENDS GptEntries, TLAPS

(* What names are made of. *)
Pieces == STRING \cup {"bak"}

(* The names of the list passed so far that have both twins in the array.  *)
Swapped == {p \in Pairs : \E k \in DOMAIN SwapList : k < i /\ SwapList[k] = p}

(* What an exchange of the twins of the names P makes of an entry. *)
Exchanged(P, name) ==
    IF name \in P THEN Bak(name)
    ELSE IF \E p \in P : name = Bak(p)
         THEN CHOOSE p \in P : name = Bak(p)
         ELSE name

EntriesInv ==
    /\ orig \in Seq(Seq(Pieces)) /\ IsInjective(orig) /\ isUfs \in BOOLEAN
    /\ i \in 1 .. Len(SwapList) + 1
    /\ pentries = [k \in DOMAIN orig |-> Exchanged(Swapped, orig[k])]
    /\ backup_not_found <=> (Swapped = {})

(***************************************************************************)
(* Names                                                                   *)
(***************************************************************************)

(* The library cannot tell that "bak" is a string: it is added to the set. *)
LEMMA PiecesFacts == \A s \in Seq(STRING) : s \in Seq(Pieces)
BY DEF Pieces

LEMMA BakFacts ==
    ASSUME NEW p \in Seq(Pieces), NEW q \in Seq(Pieces)
    PROVE  /\ Bak(p) # p /\ Bak(p) \in Seq(Pieces)
           /\ Bak(p) = Bak(q) => p = q
<1>0. "bak" \in Pieces
  BY DEF Pieces
<1>1. Bak(p) \in Seq(Pieces) /\ Len(Bak(p)) = Len(p) + 1
  BY <1>0 DEF Bak
<1>2. Bak(q) \in Seq(Pieces) /\ Len(Bak(q)) = Len(q) + 1
  BY <1>0 DEF Bak
<1>3. ASSUME Bak(p) = Bak(q) PROVE p = q
  <2>1. Len(p) = Len(q)
    BY <1>1, <1>2, <1>3
  <2>2. ASSUME NEW k \in 1 .. Len(p) PROVE p[k] = q[k]
    <3>1. Bak(p)[k] = p[k]
      BY DEF Bak
    <3>2. Bak(q)[k] = q[k]
      BY <2>1 DEF Bak
    <3>3. QED BY <1>3, <3>1, <3>2
  <2>3. QED BY <2>1, <2>2
<1>4. QED BY <1>1, <1>3

(* The names of the list: no two alike, none the twin of another. *)
LEMMA ListFacts ==
    /\ \A p \in Range(SwapList) : p \in Seq(Pieces)
    /\ \A p, q \in Range(SwapList) : p # Bak(q)
    /\ \A k, m \in DOMAIN SwapList : SwapList[k] = SwapList[m] => k = m
    /\ \A k \in DOMAIN SwapList : SwapList[k] \in Range(SwapList)
<1>1. \A k \in DOMAIN SwapList : SwapList[k] \in Seq(Pieces)
  BY SwapListOK, PiecesFacts
<1>2. QED BY <1>1, SwapListOK DEF Range, IsInjective

LEMMA PairsFacts == Pairs \subseteq Range(SwapList) /\ Swapped \subseteq Pairs
BY DEF Pairs, Swapped

(* An exchange of other names' twins leaves the two twins of p alone.      *)
LEMMA OthersExchanged ==
    ASSUME NEW P \in SUBSET Range(SwapList), NEW p \in Range(SwapList) \ P, NEW name
    PROVE  /\ name \in {p, Bak(p)} => Exchanged(P, name) = name
           /\ Exchanged(P, name) \in {p, Bak(p)} => Exchanged(P, name) = name
<1>1. \A q \in P : q # p /\ q # Bak(p) /\ Bak(q) # p /\ Bak(q) # Bak(p)
  BY ListFacts, BakFacts
<1>2. CASE name \in P
  BY <1>1, <1>2 DEF Exchanged
<1>3. CASE name \notin P /\ \E q \in P : name = Bak(q)
  BY <1>1, <1>3 DEF Exchanged
<1>4. CASE name \notin P /\ ~\E q \in P : name = Bak(q)
  BY <1>4 DEF Exchanged
<1>5. QED BY <1>2, <1>3, <1>4

(* An exchange that takes in one name more. *)
LEMMA OneMore ==
    ASSUME NEW P \in SUBSET Range(SwapList), NEW p \in Range(SwapList) \ P, NEW name
    PROVE  Exchanged(P \cup {p}, name) =
               IF name = p THEN Bak(p) ELSE IF name = Bak(p) THEN p ELSE Exchanged(P, name)
<1>1. \A q \in P : q # p /\ q # Bak(p) /\ Bak(q) # p /\ Bak(q) # Bak(p)
  BY ListFacts, BakFacts
<1>2. Bak(p) # p
  BY ListFacts, BakFacts
<1>3. CASE name = p
  BY <1>3 DEF Exchanged
<1>4. CASE name = Bak(p)
  <2>1. name \notin P \cup {p} /\ \A q \in P \cup {p} : name = Bak(q) <=> q = p
    BY <1>1, <1>2, <1>4
  <2>2. (CHOOSE q \in P \cup {p} : name = Bak(q)) = p
    BY <2>1
  <2>3. QED BY <1>2, <1>4, <2>1, <2>2 DEF Exchanged
<1>5. CASE name # p /\ name # Bak(p)
  <2>1. name \in P \cup {p} <=> name \in P
    BY <1>5
  <2>2. \A q : (q \in P \cup {p} /\ name = Bak(q)) <=> (q \in P /\ name = Bak(q))
    BY <1>5
  <2>3. (CHOOSE q \in P \cup {p} : name = Bak(q)) = (CHOOSE q \in P : name = Bak(q))
    BY <2>2
  <2>4. QED BY <1>5, <2>1, <2>2, <2>3 DEF Exchanged
<1>6. QED BY <1>3, <1>4, <1>5

(***************************************************************************)
(* gpt_pentry_seek                                                         *)
(***************************************************************************)

LEMMA SeekFinds ==
    ASSUME NEW p, NEW from \in Nat, Len(pentries) \in Nat, NEW a \in from .. Len(pentries),
           Matches(p, pentries[a]), \A k \in from .. a - 1 : ~Matches(p, pentries[k])
    PROVE  gpt_pentry_seek(p, from) = a
<1> DEFINE found == {k \in from .. Len(pentries) : Matches(p, pentries[k])}
<1>1. a \in found /\ \A k \in found : a <= k
  OBVIOUS
<1>2. \A x \in found : (\A y \in found : x <= y) => x = a
  BY <1>1
<1>3. (CHOOSE x \in found : \A y \in found : x <= y) = a
  BY <1>1, <1>2
<1>4. QED BY <1>1, <1>3 DEF gpt_pentry_seek, SelectInSubSeq, Min

LEMMA SeekFindsNone ==
    ASSUME NEW p, NEW from, \A k \in from .. Len(pentries) : ~Matches(p, pentries[k])
    PROVE  gpt_pentry_seek(p, from) = 0
BY DEF gpt_pentry_seek, SelectInSubSeq

(***************************************************************************)
(* The loop                                                                *)
(***************************************************************************)

LEMMA ArrayFacts ==
    ASSUME EntriesInv
    PROVE  /\ Len(orig) \in Nat /\ DOMAIN orig = 1 .. Len(orig)
           /\ Len(pentries) = Len(orig) /\ DOMAIN pentries = DOMAIN orig
           /\ \A k \in DOMAIN orig : pentries[k] = Exchanged(Swapped, orig[k])
           /\ \A k, m \in DOMAIN orig : orig[k] = orig[m] => k = m
BY DEF EntriesInv, IsInjective

(* The name whose turn it is has not been exchanged, and its twins stand   *)
(* where they stood. *)
LEMMA TwinsInPlace ==
    ASSUME EntriesInv, i <= Len(SwapList)
    PROVE  /\ SwapList[i] \in Range(SwapList) \ Swapped /\ Swapped \subseteq Range(SwapList)
           /\ Bak(SwapList[i]) # SwapList[i]
           /\ \A k \in DOMAIN orig :
                /\ pentries[k] = SwapList[i] <=> orig[k] = SwapList[i]
                /\ pentries[k] = Bak(SwapList[i]) <=> orig[k] = Bak(SwapList[i])
<1>1. i \in DOMAIN SwapList
  BY SwapListOK DEF EntriesInv
<1>2. SwapList[i] \in Range(SwapList) \ Swapped /\ Swapped \subseteq Range(SwapList)
  <2>1. \A k \in DOMAIN SwapList : k < i => SwapList[k] # SwapList[i]
    <3>1. \A k \in DOMAIN SwapList : k \in Int
      BY SwapListOK
    <3>2. QED BY <1>1, <3>1, ListFacts DEF EntriesInv
  <2>2. QED BY <1>1, <2>1, ListFacts, PairsFacts DEF Swapped
<1>3. Bak(SwapList[i]) # SwapList[i]
  BY <1>2, ListFacts, BakFacts
<1>4. ASSUME NEW k \in DOMAIN orig
      PROVE  /\ pentries[k] = SwapList[i] <=> orig[k] = SwapList[i]
             /\ pentries[k] = Bak(SwapList[i]) <=> orig[k] = Bak(SwapList[i])
  <2>1. pentries[k] = Exchanged(Swapped, orig[k])
    BY ArrayFacts
  <2>2. QED BY <1>2, <2>1, OthersExchanged
<1>5. QED BY <1>2, <1>3, <1>4

(* What the step has swapped after the i-th name. *)
LEMMA SwappedNext ==
    ASSUME EntriesInv, i <= Len(SwapList), i' = i + 1, UNCHANGED <<orig, isUfs>>
    PROVE  Swapped' = IF SwapList[i] \in Pairs THEN Swapped \cup {SwapList[i]} ELSE Swapped
<1>1. i \in DOMAIN SwapList /\ \A k \in DOMAIN SwapList : k < i' <=> (k < i \/ k = i)
  BY SwapListOK DEF EntriesInv
<1>2. Pairs' = Pairs
  BY DEF Pairs, IsXbl
<1>3. QED BY <1>1, <1>2 DEF Swapped

(* Both twins are found, in the order in which they stand. *)
LEMMA SeekBoth ==
    ASSUME EntriesInv, i <= Len(SwapList),
           NEW a \in DOMAIN orig, NEW b \in DOMAIN orig, a < b,
           {orig[a], orig[b]} = {SwapList[i], Bak(SwapList[i])}
    PROVE  /\ gpt_pentry_seek(SwapList[i], 1) = a
           /\ gpt_pentry_seek(SwapList[i], a + 1) = b
<1>1. /\ a \in 1 .. Len(pentries) /\ b \in 1 .. Len(pentries) /\ Len(pentries) \in Nat
      /\ DOMAIN orig = 1 .. Len(pentries)
  BY ArrayFacts
<1>2. ASSUME NEW k \in 1 .. Len(pentries)
      PROVE  Matches(SwapList[i], pentries[k]) <=> (k = a \/ k = b)
  BY <1>1, TwinsInPlace, ArrayFacts DEF Matches
<1>3. gpt_pentry_seek(SwapList[i], 1) = a
  BY <1>1, <1>2, SeekFinds
<1>4. \A k \in a + 1 .. b - 1 : k \in 1 .. Len(pentries) /\ k # a /\ k # b
  BY <1>1
<1>5. b \in a + 1 .. Len(pentries) /\ a + 1 \in Nat
  BY <1>1
<1>6. gpt_pentry_seek(SwapList[i], a + 1) = b
  BY <1>1, <1>2, <1>4, <1>5, SeekFinds
<1>7. QED BY <1>3, <1>6

(* Without one of the twins, the second search finds nothing. *)
LEMMA SeekMissing ==
    ASSUME EntriesInv, i <= Len(SwapList),
           SwapList[i] \notin Range(orig) \/ Bak(SwapList[i]) \notin Range(orig)
    PROVE  LET ptn_entry == gpt_pentry_seek(SwapList[i], 1)
           IN  ptn_entry = 0 \/ gpt_pentry_seek(SwapList[i], ptn_entry + 1) = 0
<1> DEFINE Match(k) == Matches(SwapList[i], pentries[k])
<1>1. Len(pentries) \in Nat /\ DOMAIN orig = 1 .. Len(pentries)
  BY ArrayFacts
<1>2. \A k, m \in 1 .. Len(pentries) : Match(k) /\ Match(m) => k = m
  BY <1>1, TwinsInPlace, ArrayFacts DEF Matches, Range
<1>3. CASE \A k \in 1 .. Len(pentries) : ~Match(k)
  BY <1>3, SeekFindsNone
<1>4. CASE \E k \in 1 .. Len(pentries) : Match(k)
  <2>1. PICK a \in 1 .. Len(pentries) : Match(a)
    BY <1>4
  <2>2. \A k \in 1 .. a - 1 : ~Match(k)
    BY <1>1, <1>2, <2>1
  <2>3. gpt_pentry_seek(SwapList[i], 1) = a
    BY <1>1, <2>1, <2>2, SeekFinds
  <2>4. \A k \in a + 1 .. Len(pentries) : ~Match(k)
    BY <1>1, <1>2, <2>1
  <2>5. gpt_pentry_seek(SwapList[i], a + 1) = 0
    BY <2>4, SeekFindsNone
  <2>6. QED BY <2>3, <2>5
<1>5. QED BY <1>3, <1>4

(* The pass for a pair exchanges its twins. *)
LEMMA PairStep ==
    ASSUME EntriesInv, SwapNext, SwapList[i] \in Pairs
    PROVE  /\ pentries' = [k \in DOMAIN orig |-> Exchanged(Swapped \cup {SwapList[i]}, orig[k])]
           /\ backup_not_found' = FALSE
<1> DEFINE p == SwapList[i]
<1>0. i <= Len(SwapList) /\ ~IsXbl(p)
  BY DEF SwapNext, Pairs
<1>1. PICK a, b \in DOMAIN orig : a < b /\ {orig[a], orig[b]} = {p, Bak(p)}
  <2>1. PICK c \in DOMAIN orig : orig[c] = p
    BY DEF Pairs, Range
  <2>2. PICK d \in DOMAIN orig : orig[d] = Bak(p)
    BY DEF Pairs, Range
  <2>3. c # d /\ c \in Int /\ d \in Int
    BY <1>0, <2>1, <2>2, TwinsInPlace, ArrayFacts
  <2>4. CASE c < d
    BY <2>1, <2>2, <2>4
  <2>5. CASE d < c
    BY <2>1, <2>2, <2>5
  <2>6. QED BY <2>3, <2>4, <2>5
<1>2. gpt_pentry_seek(p, 1) = a /\ gpt_pentry_seek(p, a + 1) = b /\ a # 0 /\ b # 0 /\ a # b
  <2>1. a \in 1 .. Len(orig) /\ b \in 1 .. Len(orig) /\ Len(orig) \in Nat
    BY ArrayFacts
  <2>2. a # 0 /\ b # 0 /\ a # b
    BY <1>1, <2>1
  <2>3. gpt_pentry_seek(p, 1) = a /\ gpt_pentry_seek(p, a + 1) = b
    BY <1>0, <1>1, SeekBoth
  <2>4. QED BY <2>2, <2>3
<1>3. SwapTwins(a, b) /\ backup_not_found' = FALSE
  BY <1>0, <1>2 DEF SwapNext
<1>4. pentries' = [k \in DOMAIN orig |->
          IF k = a THEN pentries[b] ELSE IF k = b THEN pentries[a] ELSE pentries[k]]
  BY <1>1, <1>2, <1>3 DEF SwapTwins, EntriesInv
<1>5. ASSUME NEW k \in DOMAIN orig
      PROVE  pentries'[k] = Exchanged(Swapped \cup {p}, orig[k])
  <2>1. Exchanged(Swapped \cup {p}, orig[k]) =
          IF orig[k] = p THEN Bak(p) ELSE IF orig[k] = Bak(p) THEN p ELSE pentries[k]
    BY <1>0, TwinsInPlace, OneMore, ArrayFacts
  <2>2. pentries[a] = orig[a] /\ pentries[b] = orig[b]
    BY <1>0, <1>1, TwinsInPlace
  <2>3. orig[k] \in {p, Bak(p)} <=> k \in {a, b}
    BY <1>1, ArrayFacts
  <2>4. pentries'[k] = IF k = a THEN orig[b] ELSE IF k = b THEN orig[a] ELSE pentries[k]
    BY <1>4, <2>2
  <2>5. QED BY <1>0, <1>1, <1>2, <2>1, <2>3, <2>4, TwinsInPlace
<1>6. QED BY <1>3, <1>4, <1>5

(* The pass for a name that is no pair changes nothing. *)
LEMMA NoPairStep ==
    ASSUME EntriesInv, SwapNext, SwapList[i] \notin Pairs
    PROVE  UNCHANGED <<pentries, backup_not_found>>
<1>1. i <= Len(SwapList) /\ SwapList[i] \in Range(SwapList)
  BY TwinsInPlace DEF SwapNext
<1>2. CASE IsXbl(SwapList[i])
  BY <1>2 DEF SwapNext
<1>3. CASE SwapList[i] \notin Range(orig) \/ Bak(SwapList[i]) \notin Range(orig)
  BY <1>1, <1>3, SeekMissing DEF SwapNext
<1>4. QED BY <1>1, <1>2, <1>3 DEF Pairs

LEMMA EntriesStep == EntriesInv /\ [SwapNext]_vars => EntriesInv'
<1> SUFFICES ASSUME EntriesInv, [SwapNext]_vars PROVE EntriesInv'
  OBVIOUS
<1>1. CASE SwapNext
  <2>1. i <= Len(SwapList) /\ i' = i + 1 /\ UNCHANGED <<orig, isUfs>>
    BY <1>1 DEF SwapNext
  <2>2. i' \in 1 .. Len(SwapList) + 1
    BY <2>1, SwapListOK DEF EntriesInv
  <2>3. CASE SwapList[i] \in Pairs
    BY <1>1, <2>1, <2>2, <2>3, PairStep, SwappedNext DEF EntriesInv
  <2>4. CASE SwapList[i] \notin Pairs
    BY <1>1, <2>1, <2>2, <2>4, NoPairStep, SwappedNext DEF EntriesInv
  <2>5. QED BY <2>3, <2>4
<1>2. CASE UNCHANGED vars
  BY <1>2 DEF vars, EntriesInv, Swapped, Pairs, IsXbl, Exchanged
<1>3. QED BY <1>1, <1>2

LEMMA EntriesInit == Init => EntriesInv
<1> SUFFICES ASSUME Init PROVE EntriesInv
  OBVIOUS
<1>1. Swapped = {}
  <2>1. \A k \in DOMAIN SwapList : ~(k < i)
    BY SwapListOK DEF Init
  <2>2. QED BY <2>1 DEF Swapped
<1>2. orig \in Seq(Names) /\ IsInjective(orig)
  <2>1. orig \in BoundedSeq(Names, MaxEntries) /\ IsInjective(orig)
    BY DEF Init
  <2>2. PICK m \in 0 .. MaxEntries : orig \in [1 .. m -> Names]
    BY <2>1 DEF BoundedSeq, SeqOf
  <2>3. QED BY <2>1, <2>2, SwapListOK
<1>3. orig \in Seq(Seq(Pieces))
  <2>1. \A name \in Names : name \in Seq(Pieces)
    BY SwapListOK, PiecesFacts
  <2>2. QED BY <1>2, <2>1
<1>4. \A k \in DOMAIN orig : Exchanged(Swapped, orig[k]) = orig[k]
  BY <1>1 DEF Exchanged
<1>5. orig = [k \in DOMAIN orig |-> Exchanged(Swapped, orig[k])]
  BY <1>3, <1>4
<1>6. QED BY <1>1, <1>2, <1>3, <1>5, SwapListOK DEF Init, EntriesInv

(***************************************************************************)
(* What gpt_boot_chain_swap does                                           *)
(***************************************************************************)

LEMMA AllSwapped == EntriesInv => SwapIsTwinExchange
<1> SUFFICES ASSUME EntriesInv, i > Len(SwapList)
             PROVE  /\ pentries = [k \in DOMAIN orig |-> TwinOf(orig[k])]
                    /\ backup_not_found <=> (pentries = orig)
  BY DEF SwapIsTwinExchange
<1>1. Swapped = Pairs
  <2>1. \A k \in DOMAIN SwapList : k < i
    BY SwapListOK DEF EntriesInv
  <2>2. QED BY <2>1 DEF Swapped, Pairs, Range
<1>2. \A name : Exchanged(Pairs, name) = TwinOf(name)
  BY DEF Exchanged, TwinOf
<1>3. pentries = [k \in DOMAIN orig |-> TwinOf(orig[k])]
  BY <1>1, <1>2 DEF EntriesInv
<1>4. ASSUME Pairs = {} PROVE pentries = orig
  <2>1. \A k \in DOMAIN orig : TwinOf(orig[k]) = orig[k]
    BY <1>4 DEF TwinOf
  <2>2. QED BY <1>3, <2>1 DEF EntriesInv
<1>5. ASSUME Pairs # {} PROVE pentries # orig
  <2>1. PICK p \in Pairs, k \in DOMAIN orig : orig[k] = p
    BY <1>5 DEF Pairs, Range
  <2>2. pentries[k] = Bak(p) /\ Bak(p) # p
    BY <1>3, <2>1, ListFacts, PairsFacts, BakFacts DEF TwinOf
  <2>3. QED BY <2>1, <2>2
<1>6. QED BY <1>1, <1>3, <1>4, <1>5 DEF EntriesInv

(* gpt_boot_chain_swap exchanges the entries of exactly the pairs of the   *)
(* list, wherever they stand, and returns 1 exactly when it changed        *)
(* nothing. *)
THEOREM SwapCorrect == Spec => []SwapIsTwinExchange
<1>1. QED BY EntriesInit, EntriesStep, AllSwapped, PTL DEF Spec
=============================================================================
