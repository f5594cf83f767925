------------------------ MODULE ConversionQueriesProofs ------------------------
(***************************************************************************)
(* Proofs about the list of conversions, for any conversions, requests and *)
(* page sizes, and any writes of the sync between the pages.               *)
(***************************************************************************)
EXTENDS ConversionQueries, FiniteSetTheorems, TLAPS

(* The rows a client has been shown. *)
HandedOut == got \cup page

TypeOK ==
    /\ rows \in Tables
    /\ status \in [Ids -> Statuses \cup {"absent"}]
    /\ opts \in Requests
    /\ scanning \in BOOLEAN
    /\ offset \in Nat
    /\ page \subseteq Ids /\ got \subseteq Ids /\ kept \subseteq Ids

(* While nothing happens among the rows handed out they are the oldest of  *)
(* all that match, as many as the next page skips.                         *)
PagesInv ==
    /\ OldestFirst(HandedOut)
    /\ page \cap got = {}
    /\ scanning => Cardinality(HandedOut) = offset
    /\ ~scanning => kept \subseteq HandedOut

Inv ==
    /\ TypeOK
    /\ kept \subseteq Matching
    /\ scanning => answer # "500"
    /\ answer # "500" /\ ~shifted /\ Distinct => PagesInv

-----------------------------------------------------------------------------

LEMMA Types ==
  ASSUME TypeOK
  PROVE  /\ \A i \in Ids : rows[i].created_at \in Nat
         /\ Limit \in Nat
         /\ Matching \subseteq Ids /\ IsFiniteSet(Matching) /\ Cardinality(Matching) \in Nat
  <1>1. \A i \in Ids : rows[i].created_at \in Nat
    BY QueriesAssumption DEF TypeOK, Row
  <1>2. Limit \in Nat
    BY QueriesAssumption DEF TypeOK, Limit, Request
  <1>3. Matching \subseteq Ids
    BY DEF Matching
  <1> QED
    BY <1>1, <1>2, <1>3, QueriesAssumption, FS_Subset, FS_CardinalityType

(* The oldest rows are determined by their number, unless some are created *)
(* at once.                                                                *)
LEMMA OldestAreUnique ==
  ASSUME TypeOK, Distinct, NEW P, NEW Q, OldestFirst(P), OldestFirst(Q),
         Cardinality(P) = Cardinality(Q)
  PROVE  P = Q
  <1>1. P \subseteq Matching /\ Q \subseteq Matching /\ IsFiniteSet(P) /\ IsFiniteSet(Q)
    BY Types, FS_Subset DEF OldestFirst
  <1>2. P \subseteq Q \/ Q \subseteq P
    <2> SUFFICES ASSUME NEW x \in P \ Q, NEW y \in Q \ P PROVE FALSE
      OBVIOUS
    <2>1. rows[x].created_at <= rows[y].created_at /\ rows[y].created_at <= rows[x].created_at
      BY <1>1 DEF OldestFirst
    <2>2. x \in Ids /\ y \in Ids /\ x # y
      BY <1>1, Types
    <2> QED
      BY <2>1, <2>2, Types DEF Distinct
  <1> QED
    BY <1>1, <1>2, FS_Subset

LEMMA InitPages == Init => Inv
  <1> SUFFICES ASSUME Init PROVE Inv
    OBVIOUS
  <1>1. TypeOK
    BY DEF Init, TypeOK
  <1> QED
    BY <1>1 DEF Init, Inv, PagesInv, OldestFirst, HandedOut

LEMMA OpenPages == ASSUME Inv, Open PROVE Inv'
  <1>1. TypeOK'
    BY DEF Inv, TypeOK, Open, Matching
  <1> QED
    BY <1>1, FS_EmptySet DEF Open, Inv, PagesInv, OldestFirst, HandedOut

(* A write that does not concern the rows handed out leaves them the       *)
(* oldest.                                                                 *)
LEMMA SyncWritesPages == ASSUME Inv, SyncWrites PROVE Inv'
  <1>1. PICK i \in Ids, s \in Statuses :
          /\ status' = [status EXCEPT ![i] = s]
          /\ shifted' = (shifted \/ (/\ (i \in Matching) # (i \in Matching')
                                     /\ \E j \in got \cup page :
                                           rows[i].created_at <= rows[j].created_at))
    BY DEF SyncWrites
  <1>2. TypeOK /\ TypeOK' /\ kept' \subseteq Matching'
    BY <1>1 DEF Inv, TypeOK, SyncWrites
  <1>3. UNCHANGED <<rows, opts, scanning, offset, page, answer, got, HandedOut>>
    BY DEF SyncWrites, HandedOut
  <1>4. \A j \in Ids \ {i} : j \in Matching' <=> j \in Matching
    BY <1>1, <1>2, <1>3 DEF Matching, Matches, HasStatus, TypeOK
  <1>5. ASSUME answer # "500", ~shifted', Distinct PROVE PagesInv'
    <2>1. PagesInv
      BY <1>1, <1>5 DEF Inv
    <2>2. HandedOut \subseteq Ids /\ HandedOut \subseteq Matching
      BY <1>2, <2>1 DEF TypeOK, HandedOut, PagesInv, OldestFirst
    <2>3. (i \in Matching) # (i \in Matching') =>
            \A j \in HandedOut : ~(rows[i].created_at <= rows[j].created_at)
      BY <1>1, <1>5 DEF HandedOut
    <2>4. i \in HandedOut => i \in Matching'
      BY <1>2, <2>2, <2>3, Types
    <2>5. HandedOut \subseteq Matching'
      BY <1>4, <2>2, <2>4
    <2>6. ASSUME NEW j \in HandedOut, NEW k \in Matching' \ HandedOut
          PROVE  rows[j].created_at <= rows[k].created_at
      <3>1. j \in Ids /\ k \in Ids
        BY <2>2, <2>6 DEF Matching
      <3>2. CASE k \in Matching
        BY <2>1, <2>6, <3>2 DEF PagesInv, OldestFirst
      <3>3. CASE k \notin Matching
        <4>1. k = i
          BY <1>4, <2>6, <3>1, <3>3
        <4> QED
          BY <1>2, <2>3, <2>6, <3>1, <3>3, <4>1, Types
      <3> QED
        BY <3>2, <3>3
    <2>7. OldestFirst(HandedOut)'
      BY <1>3, <2>5, <2>6 DEF OldestFirst
    <2>8. kept' \subseteq kept
      BY DEF SyncWrites
    <2> QED
      BY <1>3, <2>1, <2>7, <2>8 DEF PagesInv
  <1>6. Distinct' <=> Distinct
    BY <1>3 DEF Distinct
  <1> QED
    BY <1>2, <1>3, <1>5, <1>6 DEF Inv

(* The rows before the offset are those handed out, so the page goes on    *)
(* where the last one ended.                                               *)
LEMMA PagePages == ASSUME Inv, getFxpConversions PROVE Inv'
  <1>1. TypeOK /\ Matching' = Matching /\ kept \subseteq Matching /\ scanning /\ answer # "500"
    BY DEF Inv, getFxpConversions, Matching, Matches, HasStatus
  <1>2. PICK S \in Pages :
          \/ page' = S /\ answer' = "200" /\ scanning' = (Cardinality(S) = Limit)
          \/ page' = {} /\ answer' = "500" /\ scanning' = FALSE
    BY DEF getFxpConversions
  <1>3. PICK P \in SUBSET Matching, Q \in SUBSET Matching :
          /\ Cardinality(P) = Smaller(offset, Cardinality(Matching)) /\ OldestFirst(P)
          /\ Cardinality(Q) = Smaller(offset + Limit, Cardinality(Matching)) /\ OldestFirst(Q)
          /\ P \subseteq Q /\ S = Q \ P
    BY DEF Pages
  <1>4. TypeOK'
    <2>1. offset' \in Nat /\ page' \subseteq Ids
      BY <1>1, <1>2, <1>3, Types DEF getFxpConversions, NextOffset, TypeOK
    <2> QED
      BY <1>1, <1>2, <2>1 DEF getFxpConversions, TypeOK
  <1>5. scanning' => answer' # "500"
    BY <1>2
  <1>6. Distinct' <=> Distinct
    BY DEF Distinct, getFxpConversions
  <1>7. ASSUME answer' # "500", ~shifted', Distinct PROVE PagesInv'
    <2>1. PagesInv /\ page' = S /\ scanning' = (Cardinality(S) = Limit)
      BY <1>1, <1>2, <1>7 DEF Inv, getFxpConversions
    <2>2. OldestFirst(HandedOut) /\ Cardinality(HandedOut) = offset
      BY <1>1, <2>1 DEF PagesInv
    <2>3. HandedOut \subseteq Matching /\ offset \in Nat /\ Limit \in Nat
          /\ IsFiniteSet(Matching) /\ Cardinality(Matching) \in Nat
      BY <1>1, <2>2, Types DEF OldestFirst, TypeOK
    <2>4. offset <= Cardinality(Matching)
      BY <2>2, <2>3, FS_Subset
    <2>5. Cardinality(P) = offset
      BY <1>3, <2>3, <2>4 DEF Smaller
    <2>6. P = HandedOut
      BY <1>1, <1>3, <1>7, <2>2, <2>5, OldestAreUnique
    <2>7. HandedOut' = Q /\ got' = HandedOut
      BY <1>3, <2>1, <2>6 DEF HandedOut, getFxpConversions
    <2>8. OldestFirst(HandedOut)'
      BY <1>1, <1>3, <2>7 DEF OldestFirst, getFxpConversions
    <2>9. page' \cap got' = {}
      BY <1>3, <2>1, <2>6, <2>7
    <2>10. Cardinality(Q) = offset + Cardinality(S) /\ Cardinality(S) \in Nat
      <3>1. IsFiniteSet(Q) /\ IsFiniteSet(S) /\ Q \cap P = P
        BY <1>3, <2>3, FS_Subset
      <3>2. Cardinality(S) = Cardinality(Q) - Cardinality(P)
        <4>1. Cardinality(Q \ P) = Cardinality(Q) - Cardinality(Q \cap P)
          BY <3>1, FS_Difference
        <4> QED
          BY <1>3, <3>1, <4>1
      <3> QED
        BY <2>3, <2>5, <3>1, <3>2, FS_CardinalityType
    <2>11. scanning' => Cardinality(HandedOut') = offset'
      BY <2>1, <2>7, <2>10 DEF getFxpConversions, NextOffset
    <2>12. ~scanning' => kept' \subseteq HandedOut'
      <3> SUFFICES ASSUME ~scanning' PROVE Q = Matching
        BY <1>1, <2>7 DEF getFxpConversions
      <3>0. Cardinality(S) # Limit
        BY <2>1
      <3>1. Cardinality(Q) # offset + Limit
        BY <2>3, <2>10, <3>0
      <3>2. Cardinality(Q) = Cardinality(Matching)
        BY <1>3, <3>1 DEF Smaller
      <3> QED
        BY <1>3, <2>3, <3>2, FS_Subset
    <2> QED
      BY <2>8, <2>9, <2>11, <2>12 DEF PagesInv
  <1> QED
    BY <1>1, <1>4, <1>5, <1>6, <1>7 DEF Inv, getFxpConversions

LEMMA StepPages == Inv /\ [Next]_vars => Inv'
  <1> SUFFICES ASSUME Inv, [Next]_vars PROVE Inv'
    OBVIOUS
  <1>1. CASE UNCHANGED vars
    BY <1>1 DEF vars, Inv, TypeOK, PagesInv, OldestFirst, HandedOut, Matching, Matches,
                HasStatus, Distinct
  <1>2. CASE Next
    BY <1>2, SyncWritesPages, OpenPages, PagePages DEF Next
  <1> QED
    BY <1>1, <1>2

(* The invariant of the offset pages: until something happens among them,  *)
(* the rows handed out are the oldest of those that match.                 *)
THEOREM PagesInvariant == Spec => []Inv
  BY InitPages, StepPages, PTL DEF Spec

(* Conversions that are stored while a client pages, newer than what it    *)
(* has seen, are neither repeated nor do they hide any other               *)
(* (FxpConversion.findAll, limit and offset).                              *)
THEOREM AppendsDoNoHarm == Spec => []AppendsAreSafe
  <1>1. Inv => AppendsAreSafe
    BY DEF Inv, PagesInv, HandedOut, AppendsAreSafe
  <1> QED
    BY <1>1, PagesInvariant, PTL
================================================================================
