------------------------ MODULE TransferQueriesProofs ------------------------
(***************************************************************************)
(* Proofs about the paged list of TransferQueries, for any transfers,      *)
(* requests and page sizes, and any writes of the sync between the pages.  *)
(***************************************************************************)
EXTENDS TransferQueries, SetFolds, TLAPS

(* The rows a client has been shown. *)
HandedOut == got \cup page

(* A row that matches all along is shown or still ahead of the cursor, and *)
(* what is shown is not ahead of it.                                       *)
ScanInv ==
    /\ kept \subseteq Matching
    /\ cursor = None => HandedOut = {}
    /\ \A i \in HandedOut : cursor # None => ~Before(Position(i), cursor)
    /\ \A i \in kept \ HandedOut : cursor # None => Before(Position(i), cursor)

ListInv == TypeOK /\ ScanInv /\ NoRepeats /\ Complete

-----------------------------------------------------------------------------

LEMMA RowType ==
  ASSUME TypeOK, NEW i \in Ids
  PROVE  /\ i \in Nat /\ rows[i].created_at \in Nat
         /\ Position(i) = [created_at |-> rows[i].created_at, id |-> i]
         /\ Position(i) # None
  BY QueriesAssumption DEF TypeOK, Position, Row

(* Before orders positions as Older orders rows. *)
LEMMA BeforeIsOlder ==
  ASSUME TypeOK, NEW i \in Ids, NEW j \in Ids
  PROVE  /\ Before(Position(i), Position(j)) <=> Older(i, j)
         /\ i # j => Older(i, j) \/ Older(j, i)
         /\ ~Older(i, i)
         /\ ~(Older(i, j) /\ Older(j, i))
  BY RowType DEF Before, Older

LEMMA OlderTransitive ==
  ASSUME TypeOK, NEW i \in Ids, NEW j \in Ids, NEW k \in Ids, Older(i, j), Older(j, k)
  PROVE  Older(i, k)
  BY RowType DEF Older

(* A cursor is the position of a row. *)
LEMMA CursorRow ==
  ASSUME TypeOK, cursor # None
  PROVE  \E c \in Ids : cursor = Position(c)
  BY DEF TypeOK, Position

LEMMA MatchingType == Matching \subseteq Ids /\ Candidates \subseteq Matching
  BY DEF Matching, Candidates

LEMMA InitList == Init => ListInv
  BY DEF Init, ListInv, TypeOK, ScanInv, NoRepeats, Complete, HandedOut

(* Whatever leaves the rows, the cursor and what is shown alone keeps the  *)
(* invariant if what is kept still matches.                                *)
LEMMA KeepsList ==
  ASSUME ListInv, TypeOK', kept' \subseteq kept \cap Matching',
         UNCHANGED <<rows, cursor, page, got, scanning>>
  PROVE  ListInv'
  BY DEF ListInv, ScanInv, NoRepeats, Complete, HandedOut, Before, Position, Older

LEMMA SyncWritesList == ASSUME ListInv, SyncWrites PROVE ListInv'
  <1>1. status' \in [Ids -> Statuses \cup {"absent"}]
    BY DEF SyncWrites, ListInv, TypeOK
  <1>2. TypeOK'
    BY <1>1 DEF SyncWrites, ListInv, TypeOK
  <1> QED
    BY <1>2, KeepsList DEF SyncWrites

LEMMA OpenList == ASSUME ListInv, Open PROVE ListInv'
  <1>1. TypeOK'
    BY DEF Open, ListInv, TypeOK, Matching
  <1> QED
    BY <1>1 DEF Open, ListInv, ScanInv, NoRepeats, Complete, HandedOut

LEMMA BatchFailsList == ASSUME ListInv, BatchFails PROVE ListInv'
  <1>1. TypeOK'
    BY DEF BatchFails, ListInv, TypeOK
  <1>2. Matching = {} /\ Matching' = {}
    BY DEF BatchFails, Matching, Matches
  <1>3. HandedOut' = HandedOut
    BY DEF BatchFails, HandedOut
  <1>4. ScanInv'
    BY <1>2, <1>3 DEF BatchFails, ListInv, ScanInv, Before, Position
  <1> QED
    BY <1>1, <1>2, <1>4 DEF BatchFails, ListInv, ScanInv, NoRepeats, Complete

LEMMA PageList == ASSUME ListInv, getTransfers PROVE ListInv'
  <1> USE MatchingType
  <1>0. TypeOK /\ page' \subseteq Candidates /\ Matching' = Matching
    BY DEF ListInv, getTransfers, IsPage, Matching, Matches, Stored, Within, InDirection, HasStatus,
           success
  <1>1. TypeOK'
    <2>1. cursor' # None => \E i \in Ids : cursor' = [created_at |-> rows'[i].created_at, id |-> i]
      BY <1>0, RowType DEF getTransfers, ListInv, TypeOK
    <2>2. scanning' \in BOOLEAN
      BY DEF getTransfers, HasMore
    <2> QED
      BY <1>0, <2>1, <2>2 DEF getTransfers, ListInv, TypeOK
  <1>2. \A i \in Ids : Position(i)' = Position(i)
    BY DEF getTransfers, Position
  <1>3. \A i, j \in Ids : Older(i, j)' <=> Older(i, j)
    BY DEF getTransfers, Older
  <1>4. \A i \in page', j \in HandedOut : Older(i, j)
    <2> SUFFICES ASSUME NEW i \in page', NEW j \in HandedOut PROVE Older(i, j)
      OBVIOUS
    <2>1. cursor # None /\ i \in Ids /\ j \in Ids
      BY <1>0 DEF ListInv, ScanInv, TypeOK, HandedOut
    <2>2. Before(Position(i), cursor) /\ ~Before(Position(j), cursor)
      BY <1>0, <2>1 DEF ListInv, ScanInv, Candidates
    <2>3. PICK c \in Ids : cursor = Position(c)
      BY <1>0, <2>1, CursorRow
    <2>4. Older(i, c) /\ ~Older(j, c)
      BY <1>0, <2>1, <2>2, <2>3, BeforeIsOlder
    <2> QED
      BY <1>0, <2>1, <2>4, BeforeIsOlder, OlderTransitive
  <1>5. NoRepeats'
    BY <1>0, <1>1, <1>3, <1>4 DEF NoRepeats, getTransfers, HandedOut, TypeOK
  <1>6. HandedOut' = HandedOut \cup page'
    BY DEF getTransfers, HandedOut
  <1>7. \A i \in kept \ HandedOut : i \in Candidates
    BY DEF ListInv, ScanInv, Candidates
  <1>8. Complete'
    BY <1>6, <1>7 DEF Complete, getTransfers, IsPage, HasMore, HandedOut
  <1>9. ScanInv'
    <2>1. CASE page' = {} /\ UNCHANGED cursor
      BY <1>0, <1>2, <1>6, <2>1 DEF ListInv, ScanInv, getTransfers, TypeOK, Before, HandedOut
    <2>2. CASE \E c \in page' : /\ \A j \in page' \ {c} : Older(c, j)
                                /\ cursor' = Position(c)
      <3>1. PICK c \in page' : /\ \A j \in page' \ {c} : Older(c, j)
                               /\ cursor' = Position(c)
        BY <2>2
      <3>2. c \in Ids /\ cursor' # None
        BY <1>0, <3>1, RowType
      <3>3. \A i \in HandedOut' : ~Older(i, c)
        BY <1>0, <1>4, <1>6, <3>1, <3>2, BeforeIsOlder DEF TypeOK, HandedOut
      <3>4. \A i \in kept \ HandedOut' : Older(i, c)
        BY <1>6, <1>7, <3>1 DEF getTransfers, IsPage
      <3>5. \A i \in Ids : Before(Position(i)', cursor') <=> Older(i, c)
        BY <1>0, <1>2, <3>1, <3>2, BeforeIsOlder
      <3>6. HandedOut' \subseteq Ids /\ kept' = kept /\ kept \subseteq Ids
        BY <1>1 DEF TypeOK, HandedOut, getTransfers
      <3>7. \A i \in HandedOut' : ~Before(Position(i)', cursor')
        BY <3>3, <3>5, <3>6
      <3>8. \A i \in kept' \ HandedOut' : Before(Position(i)', cursor')
        BY <3>4, <3>5, <3>6
      <3>9. kept' \subseteq Matching'
        BY <1>0, <3>6 DEF ListInv, ScanInv
      <3> QED
        BY <3>2, <3>7, <3>8, <3>9 DEF ScanInv, Before
    <2> QED
      BY <2>1, <2>2 DEF getTransfers
  <1> QED
    BY <1>1, <1>5, <1>8, <1>9 DEF ListInv

LEMMA RateList ==
  ASSUME ListInv, UNCHANGED <<table, list>> PROVE ListInv'
  <1>1. TypeOK' /\ Matching' = Matching
    BY DEF ListInv, TypeOK, table, list, Matching, Matches, Stored, Within, InDirection, HasStatus,
           success
  <1> QED
    BY <1>1, KeepsList DEF table, list, ListInv, ScanInv

LEMMA StepList == ListInv /\ [Next]_vars => ListInv'
  <1> SUFFICES ASSUME ListInv, [Next]_vars PROVE ListInv'
    OBVIOUS
  <1>1. CASE UNCHANGED vars
    BY <1>1, RateList DEF vars, table, list
  <1>2. CASE Next
    <2>1. CASE \E since \in Since : RateFirst(since)
      BY <2>1, RateList DEF RateFirst
    <2>2. CASE RateSecond
      BY <2>2, RateList DEF RateSecond
    <2> QED
      BY <1>2, <2>1, <2>2, SyncWritesList, OpenList, BatchFailsList, PageList DEF Next
  <1> QED
    BY <1>1, <1>2

(* The invariant of the paged list. *)
THEOREM ListInvariant == Spec => []ListInv
  BY InitList, StepList, PTL DEF Spec

(* Every state of a list is well typed, its cursor the position of a row   *)
(* (Transfer.findAll, handlers.getTransfers).                              *)
THEOREM TypeCorrect == Spec => []TypeOK
  <1>1. ListInv => TypeOK
    BY DEF ListInv
  <1> QED
    BY <1>1, ListInvariant, PTL

(* A list read to its end has shown every transfer that matched all along, *)
(* for any writes between its pages and any page size (Transfer.js:757).   *)
THEOREM ListComplete == Spec => []Complete
  <1>1. ListInv => Complete
    BY DEF ListInv
  <1> QED
    BY <1>1, ListInvariant, PTL

(* No page of a list shows a transfer again (Transfer.js:757-773).         *)
THEOREM ListNeverRepeats == Spec => []NoRepeats
  <1>1. ListInv => NoRepeats
    BY DEF ListInv
  <1> QED
    BY <1>1, ListInvariant, PTL

-----------------------------------------------------------------------------
(* The count.                                                              *)

(* Until the table changes, what has been promised is what matches.        *)
CountInv ==
    counted # None =>
        /\ kept = Matching /\ HandedOut \subseteq Matching
        /\ counted = Cardinality(Matching)

LEMMA CountIsMatching == Count(opts) = Cardinality(Matching)
  <1>1. Matching = {i \in Stored :
           /\ Within(i, opts.startTimestamp, opts.endTimestamp)
           /\ opts.filters \subseteq rows[i].satisfies
           /\ InDirection(i, opts.direction)
           /\ ~opts.batchId
           /\ HasStatus(i, opts.status)}
    BY DEF Matching, Matches, Stored
  <1> QED
    BY <1>1 DEF Count

LEMMA CountIsMatchingNext == Count(opts)' = Cardinality(Matching)'
  <1>1. Matching' = {i \in Stored' :
           /\ Within(i, opts.startTimestamp, opts.endTimestamp)'
           /\ (opts.filters \subseteq rows[i].satisfies)'
           /\ InDirection(i, opts.direction)'
           /\ ~opts'.batchId
           /\ HasStatus(i, opts.status)'}
    BY DEF Matching, Matches, Stored
  <1> QED
    BY <1>1 DEF Count

LEMMA StepCount == ListInv /\ CountInv /\ [Next]_vars => CountInv'
  <1> SUFFICES ASSUME ListInv, CountInv, [Next]_vars PROVE CountInv'
    OBVIOUS
  <1>1. ASSUME UNCHANGED <<table, list>> PROVE CountInv'
    BY <1>1 DEF CountInv, HandedOut, table, list, Matching, Matches, Stored, Within,
                InDirection, HasStatus, success
  <1>2. CASE UNCHANGED vars
    BY <1>1, <1>2 DEF vars, table, list
  <1>3. CASE SyncWrites
    BY <1>3 DEF SyncWrites, CountInv
  <1>4. CASE Open
    <2>1. Count(opts') = Count(opts)'
      BY <1>4 DEF Open, Count, Stored, Within, InDirection, HasStatus, success
    <2> QED
      BY <1>4, <2>1, CountIsMatchingNext DEF Open, CountInv, HandedOut
  <1>5. CASE BatchFails \/ getTransfers
    <2>1. Matching' = Matching /\ UNCHANGED <<kept, counted>>
      BY <1>5 DEF BatchFails, getTransfers, Matching, Matches, Stored, Within, InDirection,
                  HasStatus, success
    <2>2. HandedOut' \subseteq HandedOut \cup Matching
      BY <1>5, MatchingType DEF BatchFails, getTransfers, IsPage, HandedOut
    <2> QED
      BY <2>1, <2>2 DEF CountInv
  <1>6. CASE \E since \in Since : RateFirst(since)
    BY <1>1, <1>6 DEF RateFirst
  <1>7. CASE RateSecond
    BY <1>1, <1>7 DEF RateSecond
  <1> QED
    BY <1>2, <1>3, <1>4, <1>5, <1>6, <1>7 DEF Next

(* A list read to its end has as many rows as count has promised, unless   *)
(* the sync wrote in between (Transfer.js:757, 1204).                      *)
THEOREM CountIsThatOfList == Spec => []CountMatchesList
  <1>1. Init => CountInv
    BY DEF Init, CountInv
  <1>2. ListInv /\ CountInv => CountMatchesList
    <2> SUFFICES ASSUME ListInv, CountInv, ~scanning, counted # None
                 PROVE  Cardinality(got \cup page) = counted
      BY DEF CountMatchesList
    <2>1. HandedOut = Matching
      BY DEF ListInv, Complete, CountInv, HandedOut
    <2> QED
      BY <2>1 DEF CountInv, HandedOut
  <1> QED
    BY <1>1, <1>2, ListInvariant, StepCount, PTL DEF Spec

-----------------------------------------------------------------------------
(* The success rate.                                                       *)

Bucket(i) == rows[i].created_at \div BucketWidth

(* The transfers of one group that have succeeded. *)
SucceededIn(since, b) == {i \in Recent(since) : Succeeded(i) /\ Bucket(i) = b}

(* No more successes were counted in a group than there are by now.        *)
RateInv ==
    rate.since # None =>
        \A s \in rate.success :
            /\ s.count \in Nat
            /\ s.count <= Cardinality(SucceededIn(rate.since, s.timestamp \div BucketWidth))

LEMMA FiniteRows ==
  ASSUME NEW S, S \subseteq Ids
  PROVE  IsFiniteSet(S) /\ Cardinality(S) \in Nat
  BY QueriesAssumption, FS_Subset, FS_CardinalityType

(* The timestamp of a group of rows is that of one of them. *)
LEMMA OldestIn ==
  ASSUME TypeOK, NEW S, S \subseteq Ids, S # {}
  PROVE  \E i \in S : Oldest(S) = rows[i].created_at
  <1> DEFINE B == {rows[i].created_at : i \in S}
  <1>1. B \subseteq Nat /\ B # {}
    BY RowType
  <1>2. Min(B) \in B
    <2> HIDE DEF B
    <2> QED
      BY <1>1, MinOfNaturals
  <1> QED
    BY <1>2 DEF Oldest

(* An entry of a query stands for all rows of its group. *)
LEMMA StatEntry ==
  ASSUME TypeOK, NEW S, S \subseteq Ids, NEW e \in StatQuery(S)
  PROVE  LET B == {i \in S : Bucket(i) = e.timestamp \div BucketWidth}
         IN  e.count = Cardinality(B) /\ B # {}
  <1>1. PICK b \in {Bucket(i) : i \in S} :
          e = [timestamp |-> Oldest({i \in S : Bucket(i) = b}),
               count |-> Cardinality({i \in S : Bucket(i) = b})]
    BY DEF StatQuery, Buckets, Bucket
  <1> DEFINE B == {i \in S : Bucket(i) = b}
  <1>2. B # {} /\ B \subseteq Ids
    BY <1>1
  <1>3. PICK i \in B : Oldest(B) = rows[i].created_at
    BY <1>2, OldestIn
  <1>4. e.timestamp \div BucketWidth = b
    BY <1>1, <1>3 DEF Bucket
  <1> QED
    BY <1>1, <1>2, <1>4

(* A success stays one. *)
LEMMA SuccessesStay ==
  ASSUME TypeOK, [Next]_vars, NEW since, NEW b
  PROVE  SucceededIn(since, b) \subseteq SucceededIn(since, b)'
  <1>1. rows' = rows
    BY DEF Next, vars, SyncWrites, Open, BatchFails, getTransfers, RateFirst, RateSecond, table
  <1>2. \A i \in Ids : status[i] = "SUCCESS" => status'[i] = "SUCCESS"
    <2>1. CASE SyncWrites
      BY <2>1 DEF SyncWrites, TypeOK
    <2>2. CASE ~SyncWrites
      BY <2>2 DEF Next, vars, Open, BatchFails, getTransfers, RateFirst, RateSecond, table
    <2> QED
      BY <2>1, <2>2
  <1> QED
    BY <1>1, <1>2 DEF SucceededIn, Recent, Stored, Succeeded, Bucket

LEMMA StepRate == ListInv /\ RateInv /\ [Next]_vars => RateInv'
  <1> SUFFICES ASSUME ListInv, RateInv, [Next]_vars, rate'.since # None,
                      NEW s \in rate'.success
               PROVE  /\ s.count \in Nat
                      /\ s.count <= Cardinality(SucceededIn(rate.since,
                                                            s.timestamp \div BucketWidth))'
    BY DEF RateInv
  <1>0. TypeOK
    BY DEF ListInv
  <1> DEFINE b == s.timestamp \div BucketWidth
  <1>a. ASSUME NEW since, rate'.since = since
        PROVE  SucceededIn(rate.since, b)' = SucceededIn(since, b)'
    BY <1>a DEF SucceededIn, Recent, Stored, Succeeded, Bucket
  <1>1. CASE \E since \in Since : RateFirst(since)
    <2>1. PICK since \in Since : RateFirst(since)
      BY <1>1
    <2> DEFINE S == {i \in Recent(since) : Succeeded(i)}
    <2>2. s \in StatQuery(S) /\ rate'.since = since /\ UNCHANGED <<rows, status>>
      BY <2>1 DEF RateFirst, table
    <2>3. S \subseteq Ids
      BY DEF Recent, Stored
    <2>4. s.count = Cardinality({i \in S : Bucket(i) = b})
      BY <1>0, <2>2, <2>3, StatEntry
    <2>5. {i \in S : Bucket(i) = b} = SucceededIn(since, b)
      BY DEF SucceededIn
    <2>6. SucceededIn(since, b)' = SucceededIn(since, b) /\ SucceededIn(since, b) \subseteq Ids
      BY <2>2 DEF SucceededIn, Recent, Stored, Succeeded, Bucket
    <2>7. SucceededIn(rate.since, b)' = SucceededIn(since, b)
      BY <1>a, <2>2, <2>6
    <2>8. s.count = Cardinality(SucceededIn(since, b)) /\ s.count \in Nat
      BY <2>4, <2>5, <2>6, FiniteRows
    <2> HIDE DEF b
    <2> QED
      BY <2>7, <2>8 DEF b
  <1>2. CASE UNCHANGED rate
    <2>0. PICK since : since = rate.since /\ since = rate'.since
      BY <1>2
    <2>1. SucceededIn(since, b) \subseteq SucceededIn(since, b)'
      BY <1>0, SuccessesStay
    <2>2. /\ SucceededIn(since, b)' \subseteq Ids
          /\ SucceededIn(rate.since, b)' = SucceededIn(since, b)'
      BY <1>a, <2>0 DEF SucceededIn, Recent, Stored
    <2>3. s.count \in Nat /\ s.count <= Cardinality(SucceededIn(since, b))
      BY <1>2, <2>0 DEF RateInv
    <2> HIDE DEF b
    <2>4. Cardinality(SucceededIn(since, b)) <= Cardinality(SucceededIn(since, b)')
      BY <2>1, <2>2, FiniteRows, FS_Subset
    <2>5. Cardinality(SucceededIn(since, b)) \in Nat /\ Cardinality(SucceededIn(since, b)') \in Nat
      BY <2>1, <2>2, FiniteRows
    <2> QED
      BY <2>2, <2>3, <2>4, <2>5 DEF b
  <1>3. CASE Open \/ RateSecond
    BY <1>3 DEF Open, RateSecond, NoRate
  <1> QED
    BY <1>1, <1>2, <1>3 DEF Next, vars, SyncWrites, BatchFails, getTransfers, list

(* A percentage is rounded down. *)
LEMMA Share ==
  ASSUME NEW c \in Nat, NEW n \in Nat \ {0}, NEW m \in Nat, c <= m
  PROVE  (((c * 100) \div n) * n) <= 100 * m
  <1> DEFINE p == (c * 100) \div n
  <1>1. p \in Int /\ p * n <= c * 100
    OBVIOUS
  <1>2. p * n \in Int
    BY <1>1
  <1> QED
    BY <1>1, <1>2

LEMMA AnswerRate ==
  ASSUME TypeOK, RateInv, RateSecond, NEW e \in rate'.answer
  PROVE  LET B == {i \in Recent(rate.since) : Bucket(i) = e.timestamp \div BucketWidth}
         IN  e.percentage * Cardinality(B) <= 100 * Cardinality({i \in B : status[i] = "SUCCESS"})
  <1> DEFINE S == Recent(rate.since)
             B == {i \in S : Bucket(i) = e.timestamp \div BucketWidth}
             Won == {i \in B : status[i] = "SUCCESS"}
  <1>1. PICK all \in StatQuery(S) :
          e = [timestamp |-> all.timestamp,
               percentage |->
                 LET same == {s \in rate.success : s.timestamp = all.timestamp}
                 IN IF same = {} THEN 0
                    ELSE ((CHOOSE s \in same : TRUE).count * 100) \div all.count]
    BY DEF RateSecond, Percentages
  <1>2. S \subseteq Ids /\ B \subseteq Ids /\ Won \subseteq Ids
    BY DEF Recent, Stored
  <1>3. all.count = Cardinality(B) /\ B # {}
    BY <1>1, <1>2, StatEntry
  <1>4. Cardinality(B) \in Nat \ {0} /\ Cardinality(Won) \in Nat
    BY <1>2, <1>3, FiniteRows, FS_EmptySet
  <1> DEFINE same == {s \in rate.success : s.timestamp = all.timestamp}
  <1>5. CASE same = {}
    <2>1. e.percentage = 0
      BY <1>1, <1>5
    <2> HIDE DEF B, Won
    <2> QED
      BY <1>4, <2>1 DEF B, Won
  <1>6. CASE same # {}
    <2> DEFINE c == (CHOOSE s \in same : TRUE).count
    <2>1. e.percentage = (c * 100) \div Cardinality(B)
      BY <1>1, <1>3, <1>6
    <2>2. SucceededIn(rate.since, e.timestamp \div BucketWidth) = Won
      BY DEF SucceededIn, Succeeded
    <2>3. rate.since # None /\ e.timestamp = all.timestamp
      BY <1>1 DEF RateSecond
    <2>4. c \in Nat /\ c <= Cardinality(Won)
      BY <1>6, <2>2, <2>3 DEF RateInv
    <2> HIDE DEF B, Won, c
    <2> QED
      BY <1>4, <2>1, <2>4, Share DEF B, Won
  <1> QED
    BY <1>5, <1>6

(* The success rate takes the successes and the totals at two moments, and *)
(* yet never exceeds the share that had succeeded by the second            *)
(* (Transfer.js:1101-1160).                                                *)
THEOREM RateIsNoOverstatement == Spec => RateNeverOverstated
  <1>1. Init => RateInv
    BY DEF Init, RateInv, NoRate
  <1>2. ListInv /\ RateInv /\ [Next]_vars =>
          [rate.since # None /\ rate'.since = None =>
             \A e \in rate'.answer :
                LET B == {i \in Recent(rate.since) :
                            rows[i].created_at \div BucketWidth = e.timestamp \div BucketWidth}
                IN e.percentage * Cardinality(B)
                     <= 100 * Cardinality({i \in B : status[i] = "SUCCESS"})]_vars
    <2> SUFFICES ASSUME ListInv, RateInv, [Next]_vars, rate.since # None, rate'.since = None,
                        NEW e \in rate'.answer
                 PROVE  LET B == {i \in Recent(rate.since) :
                                    rows[i].created_at \div BucketWidth
                                      = e.timestamp \div BucketWidth}
                        IN e.percentage * Cardinality(B)
                             <= 100 * Cardinality({i \in B : status[i] = "SUCCESS"})
      OBVIOUS
    <2>1. RateSecond
      BY DEF Next, vars, SyncWrites, Open, BatchFails, getTransfers, RateFirst, list
    <2> QED
      BY <2>1, AnswerRate DEF ListInv, Bucket
  <1> QED
    BY <1>1, <1>2, ListInvariant, StepRate, PTL DEF Spec, RateNeverOverstated

-----------------------------------------------------------------------------
(* The reports.                                                            *)

(* What the column says of a row is what its status says. *)
LEMMA SuccessOfStatus ==
  ASSUME TypeOK, NEW i \in Stored, NEW v \in {None, 1, 0}
  PROVE  success(i) \in {None, 1, 0} /\ (success(i) = v <=> HasStatus(i, STATUSES[v]))
  BY QueriesAssumption DEF success, HasStatus, STATUSES, Statuses

(* Each value of the column is shown as a status of its own. *)
LEMMA StatusesDiffer ==
  /\ DOMAIN STATUSES = {None, 1, 0}
  /\ {STATUSES[v] : v \in {None, 1, 0}} = Statuses
  /\ \A v, w \in {None, 1, 0} : STATUSES[v] = STATUSES[w] => v = w
  BY QueriesAssumption DEF STATUSES, Statuses

(* The groups of the rows S: one for each value that occurs. *)
LEMMA GroupOfStatus ==
  ASSUME TypeOK, NEW S, S \subseteq Stored, NEW v \in {None, 1, 0}
  PROVE  LET groups == SuccessGroups(S)
             of     == {g \in groups : StatusOf(g.success) = STATUSES[v]}
             rowsOf == {i \in S : HasStatus(i, STATUSES[v])}
         IN  /\ rowsOf = {} => of = {}
             /\ rowsOf # {} => of = {[success |-> v, count |-> Cardinality(rowsOf)]}
             /\ \A g \in groups : StatusOf(g.success) \in Statuses
  <1> DEFINE groups == SuccessGroups(S)
             of     == {g \in groups : StatusOf(g.success) = STATUSES[v]}
             rowsOf == {i \in S : HasStatus(i, STATUSES[v])}
             values == {success(i) : i \in S}
             entry(w) == [success |-> w, count |-> Cardinality({i \in S : success(i) = w})]
  <1>1. \A i \in S : success(i) \in {None, 1, 0} /\ (success(i) = v <=> HasStatus(i, STATUSES[v]))
    BY SuccessOfStatus
  <1>2. groups = {entry(w) : w \in values}
    BY DEF SuccessGroups
  <1>3. \A w \in {None, 1, 0} : StatusOf(w) = STATUSES[w]
    BY StatusesDiffer DEF StatusOf
  <1>4. rowsOf = {i \in S : success(i) = v}
    BY <1>1
  <1>5. \A w \in values :
           w \in {None, 1, 0} /\ (StatusOf(w) = STATUSES[v] <=> w = v) /\ StatusOf(w) \in Statuses
    BY <1>1, <1>3, StatusesDiffer
  <1>6. \A w \in values : entry(w).success = w
    OBVIOUS
  <1>7. v \in values <=> rowsOf # {}
    BY <1>4
  <1>8. entry(v) = [success |-> v, count |-> Cardinality(rowsOf)]
    BY <1>4
  <1> HIDE DEF entry, values
  <1>9. \A g \in groups : StatusOf(g.success) \in Statuses
    BY <1>2, <1>5, <1>6
  <1>10. \A g : g \in of <=> \E w \in values : g = entry(w) /\ w = v
    BY <1>2, <1>5, <1>6
  <1>11. of = IF v \in values THEN {entry(v)} ELSE {}
    BY <1>10
  <1> QED
    BY <1>7, <1>8, <1>9, <1>11

(* The summary by status has one entry for each status, and it is what     *)
(* count answers for that status in the same range                         *)
(* (Transfer.statusSummary, Transfer.count).                               *)
THEOREM SummaryIsWhole == Spec => []SummaryMatchesCounts
  <1>1. TypeOK => SummaryMatchesCounts
    <2> SUFFICES ASSUME TypeOK, NEW start \in Since \cup {None}, NEW end \in Since \cup {None}
                 PROVE  statusSummary(start, end) =
                          [s \in Statuses |->
                             Count([status |-> s, startTimestamp |-> start, endTimestamp |-> end,
                                    direction |-> None, filters |-> {}, batchId |-> FALSE,
                                    limit |-> None])]
      BY DEF SummaryMatchesCounts
    <2> DEFINE S == {i \in Stored : Within(i, start, end)}
               groups == SuccessGroups(S)
               of(s) == {g \in groups : StatusOf(g.success) = s}
               n(s) == Cardinality({i \in S : HasStatus(i, s)})
    <2>1. \A s \in Statuses :
             Count([status |-> s, startTimestamp |-> start, endTimestamp |-> end,
                    direction |-> None, filters |-> {}, batchId |-> FALSE, limit |-> None])
               = n(s)
      <3> SUFFICES ASSUME NEW s \in Statuses
                   PROVE  Count([status |-> s, startTimestamp |-> start, endTimestamp |-> end,
                                 direction |-> None, filters |-> {}, batchId |-> FALSE,
                                 limit |-> None]) = n(s)
        OBVIOUS
      <3> DEFINE o == [status |-> s, startTimestamp |-> start, endTimestamp |-> end,
                       direction |-> None, filters |-> {}, batchId |-> FALSE, limit |-> None]
      <3>1. \A i \in Stored : o.filters \subseteq rows[i].satisfies /\ InDirection(i, o.direction)
        BY QueriesAssumption DEF InDirection
      <3>2. {i \in Stored : /\ Within(i, o.startTimestamp, o.endTimestamp)
                            /\ o.filters \subseteq rows[i].satisfies
                            /\ InDirection(i, o.direction)
                            /\ ~o.batchId
                            /\ HasStatus(i, o.status)} = {i \in S : HasStatus(i, s)}
        BY <3>1
      <3> QED
        BY <3>2 DEF Count
    <2>2. S \subseteq Stored
      OBVIOUS
    <2> HIDE DEF S
    <2>3. \A s \in Statuses : (IF of(s) = {} THEN 0 ELSE (CHOOSE g \in of(s) : TRUE).count) = n(s)
      <3> SUFFICES ASSUME NEW v \in {None, 1, 0}
                   PROVE  (IF of(STATUSES[v]) = {} THEN 0
                           ELSE (CHOOSE g \in of(STATUSES[v]) : TRUE).count) = n(STATUSES[v])
        BY StatusesDiffer
      <3> DEFINE rowsOf == {i \in S : HasStatus(i, STATUSES[v])}
                 entry == [success |-> v, count |-> Cardinality(rowsOf)]
      <3>1. CASE rowsOf = {}
        BY <2>2, <3>1, GroupOfStatus, FS_EmptySet
      <3>2. CASE rowsOf # {}
        <4>1. of(STATUSES[v]) = {entry}
          BY <2>2, <3>2, GroupOfStatus
        <4>2. (CHOOSE g \in {entry} : TRUE) = entry
          OBVIOUS
        <4> QED
          BY <4>1, <4>2
      <3> QED
        BY <3>1, <3>2
    <2>4. {STATUSES[v] : v \in DOMAIN STATUSES} \cup {StatusOf(g.success) : g \in groups} = Statuses
      <3>1. \A g \in groups : StatusOf(g.success) \in Statuses
        BY <2>2, GroupOfStatus
      <3> QED
        BY <3>1, StatusesDiffer
    <2>5. statusSummary(start, end) =
            [s \in Statuses |-> IF of(s) = {} THEN 0 ELSE (CHOOSE g \in of(s) : TRUE).count]
      BY <2>4 DEF statusSummary, S
    <2> HIDE DEF of, n, groups
    <2> QED
      BY <2>1, <2>3, <2>5
  <1> QED
    BY <1>1, TypeCorrect, PTL

(* The amounts of the rows D, and the group MySQL puts a row of D in. *)
Amounts(D) == [i \in D |-> rows[i].amount]

GroupOf(D, i) ==
    {j \in D : /\ Bucket(j) = Bucket(i)
               /\ rows[j].currency = rows[i].currency /\ rows[j].direction = rows[i].direction}

LEMMA AmountIsSum ==
  ASSUME TypeOK, NEW D, D \subseteq Ids, NEW g, IsSum(g, Amounts(D), D), NEW S \in SUBSET D
  PROVE  Amount(S) = g[S]
  <1> DEFINE k == [T \in SUBSET S |-> g[T]]
             F(iter) == [s \in SUBSET S |->
                           IF s = {} THEN 0
                           ELSE LET x == CHOOSE x \in s : TRUE IN rows[x].amount + iter[s \ {x}]]
             h == CHOOSE iter : iter = F(iter)
  <1>1. IsSum(k, Amounts(S), S)
    <2>1. k[{}] = 0 /\ \A T \in SUBSET S : k[T] \in Int
      BY DEF IsSum
    <2>2. ASSUME NEW T \in SUBSET S, NEW x \in T PROVE k[T] = Amounts(S)[x] + k[T \ {x}]
      <3>1. T \in SUBSET D /\ Amounts(S)[x] = Amounts(D)[x]
        BY DEF Amounts
      <3>2. g[T] = Amounts(D)[x] + g[T \ {x}]
        BY <3>1 DEF IsSum
      <3> QED
        BY <3>1, <3>2
    <2> QED
      BY <2>1, <2>2 DEF IsSum
  <1>2. Amount(S) = h[S]
    BY DEF Amount, MapThenSumSet, MapThenFoldSet
  <1>3. h = F(h)
    <2>1. k = F(k)
      <3> SUFFICES ASSUME NEW s \in SUBSET S
                   PROVE  k[s] = IF s = {} THEN 0
                                 ELSE LET x == CHOOSE x \in s : TRUE IN rows[x].amount + k[s \ {x}]
        OBVIOUS
      <3>1. CASE s = {}
        BY <1>1, <3>1 DEF IsSum
      <3>2. CASE s # {}
        <4> DEFINE x == CHOOSE x \in s : TRUE
        <4>1. x \in s /\ x \in S
          BY <3>2
        <4>2. k[s] = Amounts(S)[x] + k[s \ {x}]
          <5> HIDE DEF k, x
          <5> QED
            BY <1>1, <4>1 DEF IsSum
        <4>3. Amounts(S)[x] = rows[x].amount
          BY <4>1 DEF Amounts
        <4> QED
          BY <3>2, <4>2, <4>3
      <3> QED
        BY <3>1, <3>2
    <2> QED
      BY <2>1
  <1>4. Adds(h, Amounts(S), S)
    <2> HIDE DEF h
    <2> SUFFICES ASSUME NEW T \in SUBSET S
                 PROVE  h[T] = IF T = {} THEN 0
                               ELSE LET x == CHOOSE x \in T : TRUE IN Amounts(S)[x] + h[T \ {x}]
      BY DEF Adds
    <2>1. CASE T = {}
      BY <1>3, <2>1
    <2>2. CASE T # {}
      <3> DEFINE x == CHOOSE x \in T : TRUE
      <3>1. x \in S
        BY <2>2
      <3>2. Amounts(S)[x] = rows[x].amount
        BY <3>1 DEF Amounts
      <3>3. h[T] = rows[x].amount + h[T \ {x}]
        BY <1>3, <2>2
      <3> QED
        BY <2>2, <3>2, <3>3
    <2> QED
      BY <2>1, <2>2
  <1>5. h[S] = k[S]
    <2>1. IsFiniteSet(S)
      BY FiniteRows
    <2> HIDE DEF h, k
    <2> QED
      BY <1>1, <1>4, <2>1, SumUnique
  <1> QED
    BY <1>2, <1>5

(* The groups are those of the rows. *)
LEMMA GroupsAre ==
  ASSUME TypeOK, NEW D, D \subseteq Ids
  PROVE  /\ \A i \in D : GroupOf(D, i) \in Groups(D) /\ i \in GroupOf(D, i)
         /\ \A G \in Groups(D) : G # {} /\ G \subseteq D /\ \A i \in G : G = GroupOf(D, i)
  <1>1. ASSUME NEW i \in D PROVE GroupOf(D, i) \in Groups(D) /\ i \in GroupOf(D, i)
    <2> DEFINE B == {j \in D : Bucket(j) = Bucket(i)}
               k == <<rows[i].currency, rows[i].direction>>
    <2>1. B \in Buckets(D)
      BY DEF Buckets, Bucket
    <2>2. GroupOf(D, i) = {j \in B : rows[j].currency = k[1] /\ rows[j].direction = k[2]}
      BY DEF GroupOf
    <2>3. i \in GroupOf(D, i)
      BY DEF GroupOf
    <2>4. k \in {<<rows[j].currency, rows[j].direction>> : j \in D}
      OBVIOUS
    <2>5. GroupOf(D, i) # {}
      BY <2>3
    <2> HIDE DEF B, k
    <2>6. \E C \in Buckets(D), l \in {<<rows[j].currency, rows[j].direction>> : j \in D} :
            GroupOf(D, i) = {j \in C : rows[j].currency = l[1] /\ rows[j].direction = l[2]}
      BY <2>1, <2>2, <2>4
    <2> QED
      BY <2>3, <2>5, <2>6 DEF Groups
  <1>2. ASSUME NEW G \in Groups(D)
        PROVE  G # {} /\ G \subseteq D /\ \A i \in G : G = GroupOf(D, i)
    <2>1. PICK B \in Buckets(D), k \in {<<rows[i].currency, rows[i].direction>> : i \in D} :
            G = {i \in B : rows[i].currency = k[1] /\ rows[i].direction = k[2]}
      BY DEF Groups
    <2>2. PICK b : B = {i \in D : Bucket(i) = b}
      BY DEF Buckets, Bucket
    <2>3. G # {}
      BY DEF Groups
    <2> QED
      BY <2>1, <2>2, <2>3 DEF GroupOf
  <1> QED
    BY <1>1, <1>2

(* Rows of one direction are in one group if their groups have one key. *)
LEMMA KeyOfGroup ==
  ASSUME TypeOK, NEW D, D \subseteq Ids, NEW i \in D, NEW j \in D,
         FlowKey(GroupOf(D, i)) = FlowKey(GroupOf(D, j)), rows[i].direction = rows[j].direction
  PROVE  GroupOf(D, i) = GroupOf(D, j)
  <1>1. ASSUME NEW l \in D
        PROVE  /\ FlowKey(GroupOf(D, l)).timestamp \div BucketWidth = Bucket(l)
               /\ FlowKey(GroupOf(D, l)).currency = rows[l].currency
    <2>1. l \in GroupOf(D, l) /\ GroupOf(D, l) \subseteq Ids
      BY DEF GroupOf
    <2>2. PICK o \in GroupOf(D, l) : Oldest(GroupOf(D, l)) = rows[o].created_at
      BY <2>1, OldestIn
    <2>3. (CHOOSE x \in GroupOf(D, l) : TRUE) \in GroupOf(D, l)
      BY <2>1
    <2> QED
      BY <2>2, <2>3 DEF FlowKey, GroupOf, Bucket
  <1>2. Bucket(i) = Bucket(j) /\ rows[i].currency = rows[j].currency
    BY <1>1
  <1> QED
    BY <1>2 DEF GroupOf

(* MapThenSumSet over entries adds up what they show. *)
LEMMA EntriesSum ==
  ASSUME NEW E, IsFiniteSet(E), NEW g, IsSum(g, [e \in E |-> e.inbound + e.outbound], E)
  PROVE  MapThenSumSet(LAMBDA e : e.inbound + e.outbound, E) = g[E]
  <1> DEFINE f == [e \in E |-> e.inbound + e.outbound]
             F(iter) == [s \in SUBSET E |->
                           IF s = {} THEN 0
                           ELSE LET x == CHOOSE x \in s : TRUE
                                IN  (x.inbound + x.outbound) + iter[s \ {x}]]
             h == CHOOSE iter : iter = F(iter)
  <1>1. MapThenSumSet(LAMBDA e : e.inbound + e.outbound, E) = h[E]
    BY DEF MapThenSumSet, MapThenFoldSet
  <1>2. g = F(g)
    <2>1. g = [s \in SUBSET E |->
                 IF s = {} THEN 0 ELSE LET x == CHOOSE x \in s : TRUE IN f[x] + g[s \ {x}]]
      <3> HIDE DEF f
      <3> QED
        BY DEF IsSum, f
    <2> QED
      BY <2>1
  <1>3. h = F(h)
    BY <1>2
  <1>4. Adds(h, f, E)
    <2> HIDE DEF h
    <2> QED
      BY <1>3 DEF Adds
  <1>5. h[E] = g[E]
    <2> HIDE DEF h, f
    <2> QED
      BY <1>4, SumUnique DEF f
  <1> QED
    BY <1>1, <1>5

(* An entry shows the sum of the rows whose group has its key. *)
LEMMA ShownIsSum ==
  ASSUME TypeOK, NEW since, NEW g,
         IsSum(g, Amounts(Recent(since)), Recent(since)), NEW key, NEW d
  PROVE  LET D == Recent(since)
         IN  Shown(since, key, d) =
               g[{i \in D : FlowKey(GroupOf(D, i)) = key /\ rows[i].direction = d}]
  <1> DEFINE D == Recent(since)
             K == {i \in D : FlowKey(GroupOf(D, i)) = key /\ rows[i].direction = d}
             groups == {G \in Groups(D) :
                          FlowKey(G) = key /\ \A i \in G : rows[i].direction = d}
  <1>0. D \subseteq Ids
    BY DEF Recent, Stored
  <1>1. Shown(since, key, d) = IF groups = {} THEN 0 ELSE Amount(CHOOSE G \in groups : TRUE)
    BY DEF Shown
  <1>2. ASSUME NEW G \in groups PROVE K = G
    <2>1. G # {} /\ G \subseteq D /\ \A i \in G : G = GroupOf(D, i)
      BY <1>0, GroupsAre
    <2>2. PICK j \in G : TRUE
      BY <2>1
    <2>3. G \subseteq K
      BY <2>1
    <2>4. ASSUME NEW i \in K PROVE i \in G
      <3>1. GroupOf(D, i) = GroupOf(D, j)
        BY <1>0, <2>1, <2>2, KeyOfGroup
      <3>2. i \in GroupOf(D, i)
        BY <1>0, GroupsAre
      <3> QED
        BY <2>1, <3>1, <3>2
    <2> QED
      BY <2>3, <2>4
  <1>3. CASE groups = {}
    <2>1. ASSUME NEW i \in K PROVE FALSE
      <3>1. GroupOf(D, i) \in Groups(D) /\ FlowKey(GroupOf(D, i)) = key
        BY <1>0, GroupsAre
      <3>2. \A j \in GroupOf(D, i) : rows[j].direction = d
        BY DEF GroupOf
      <3> QED
        BY <1>3, <3>1, <3>2
    <2>2. K = {}
      BY <2>1
    <2> HIDE DEF D, K, groups
    <2> QED
      BY <1>1, <1>3, <2>2 DEF IsSum, D, K
  <1>4. CASE groups # {}
    <2> DEFINE G == CHOOSE G \in groups : TRUE
    <2>1. G \in groups
      BY <1>4
    <2>2. K = G
      BY <1>2, <2>1
    <2>3. Shown(since, key, d) = Amount(K) /\ K \in SUBSET D
      BY <1>1, <1>4, <2>2
    <2> HIDE DEF K
    <2>4. Amount(K) = g[K]
      BY <1>0, <2>3, AmountIsSum
    <2> QED
      BY <2>3, <2>4 DEF K
  <1> QED
    BY <1>3, <1>4

(* No amount gets lost between the groups MySQL returns and the entries of *)
(* the hourly flow (Transfer.hourlyFlow).                                  *)
THEOREM FlowIsWhole == Spec => []FlowKeepsAmounts
  <1>1. TypeOK => FlowKeepsAmounts
    <2> SUFFICES ASSUME TypeOK, NEW since \in Since
                 PROVE  MapThenSumSet(LAMBDA e : e.inbound + e.outbound, hourlyFlow(since))
                          = Amount(Recent(since))
      BY DEF FlowKeepsAmounts
    <2> DEFINE D == Recent(since)
               Key(i) == FlowKey(GroupOf(D, i))
               Entry(k) == [key |-> k,
                            inbound |-> Shown(since, k, -1), outbound |-> Shown(since, k, 1)]
               E == hourlyFlow(since)
               p == [i \in D |-> Entry(Key(i))]
               w == [e \in E |-> e.inbound + e.outbound]
    <2>0. D \subseteq Ids /\ IsFiniteSet(D)
      BY FiniteRows DEF Recent, Stored
    <2>1. \A i \in D : Amounts(D)[i] \in Int
      <3>1. \A i \in Ids : rows[i] \in Row
        BY QueriesAssumption DEF TypeOK
      <3> QED
        BY <2>0, <3>1 DEF Amounts, Row
    <2>2. PICK g : IsSum(g, Amounts(D), D)
      <3> HIDE DEF D
      <3> QED
        BY <2>0, <2>1, SumExists
    <2>3. E = {Entry(k) : k \in {FlowKey(G) : G \in Groups(D)}}
      BY DEF hourlyFlow
    <2>4. p \in [D -> E]
      BY <2>0, <2>3, GroupsAre
    <2>5. \A e \in E : \E i \in D : p[i] = e
      <3> SUFFICES ASSUME NEW e \in E PROVE \E i \in D : p[i] = e
        OBVIOUS
      <3>1. PICK G \in Groups(D) : e = Entry(FlowKey(G))
        BY <2>3
      <3>2. PICK i \in G : i \in D /\ G = GroupOf(D, i)
        BY <2>0, GroupsAre
      <3> QED
        BY <3>1, <3>2
    <2>6. ASSUME NEW e \in E
          PROVE  w[e] = g[{i \in D : p[i] = e}] /\ w[e] \in Int
      <3>1. PICK k : e = Entry(k)
        BY <2>3
      <3> DEFINE Mine == {i \in D : p[i] = e}
                 In == {i \in D : Key(i) = k /\ rows[i].direction = -1}
                 Out == {i \in D : Key(i) = k /\ rows[i].direction = 1}
      <3>2. e.inbound = g[In] /\ e.outbound = g[Out]
        BY <2>2, <3>1, ShownIsSum
      <3>3. Mine = In \cup Out
        <4>1. \A i \in D : rows[i].direction \in {-1, 1}
          BY <2>0, QueriesAssumption DEF TypeOK, Row
        <4>2. \A i \in D : p[i] = e <=> Key(i) = k
          BY <3>1
        <4> QED
          BY <4>1, <4>2
      <3>4. In \cap Out = {} /\ In \in SUBSET D /\ Out \in SUBSET D
        OBVIOUS
      <3>5. w[e] = e.inbound + e.outbound
        OBVIOUS
      <3> HIDE DEF In, Out, Mine, D, w, p
      <3>6. g[In \cup Out] = g[In] + g[Out]
        BY <2>0, <2>1, <2>2, <3>4, SumOfUnion
      <3>7. g[In] \in Int /\ g[Out] \in Int
        BY <2>2, <3>4 DEF IsSum
      <3>8. w[e] = g[Mine] /\ w[e] \in Int
        BY <3>2, <3>3, <3>5, <3>6, <3>7
      <3> QED
        BY <3>8 DEF Mine
    <2>7. IsFiniteSet(E)
      <3>1. p \in Surjection(D, E)
        BY <2>4, <2>5 DEF Surjection
      <3> HIDE DEF p, D, E
      <3> QED
        BY <2>0, <3>1, FS_Surjection
    <2> HIDE DEF p, D, E, w
    <2>8. PICK h : IsSum(h, w, E)
      BY <2>6, <2>7, SumExists
    <2>9. h[E] = g[D]
      BY <2>0, <2>1, <2>2, <2>4, <2>6, <2>7, <2>8, SumOfParts
    <2>10. Amount(D) = g[D]
      BY <2>0, <2>2, AmountIsSum
    <2>11. MapThenSumSet(LAMBDA e : e.inbound + e.outbound, E) = h[E]
      BY <2>7, <2>8, EntriesSum DEF w
    <2> QED
      BY <2>9, <2>10, <2>11 DEF D, E
  <1> QED
    BY <1>1, TypeCorrect, PTL

-----------------------------------------------------------------------------
(* The list implements RangeScan.                                          *)

LEMMA AheadIsCandidates ==
  ASSUME TypeOK PROVE R!Ahead = Candidates
  BY DEF TypeOK, R!Ahead, R!Older, R!Position, Candidates, Before, Position, Matching

LEMMA OlderMaps ==
  ASSUME NEW i \in Ids, NEW j \in Ids
  PROVE  /\ R!Position(i) = Position(i)
         /\ R!Older(R!Position(i), R!Position(j)) <=> Older(i, j)
  BY DEF R!Older, R!Position, Older, Position

LEMMA InitRefines == Init => R!Init
  BY QueriesAssumption DEF Init, R!Init, Row, Matching

LEMMA PageRefines == ASSUME TypeOK, getTransfers PROVE R!Read
  <1>1. page' \in SUBSET R!Ahead /\ R!Ahead \subseteq Ids /\ Candidates = R!Ahead
    BY AheadIsCandidates, MatchingType DEF getTransfers, IsPage
  <1>2. \A i \in R!Ahead \ page', j \in page' : R!Older(R!Position(i), R!Position(j))
    BY <1>1, OlderMaps DEF getTransfers, IsPage
  <1>3. \/ page' = {} /\ UNCHANGED cursor
        \/ \E i \in page' : R!IsLast(i, page') /\ cursor' = R!Position(i)
    BY <1>1, OlderMaps DEF getTransfers, R!IsLast
  <1>4. scanning' \in BOOLEAN
    BY DEF getTransfers, HasMore
  <1>5. ~scanning' => page' = R!Ahead
    BY <1>1 DEF getTransfers, IsPage, HasMore
  <1>6. Matching' = Matching
    BY DEF getTransfers, Matching, Matches, Stored, Within, InDirection, HasStatus, success
  <1> QED
    BY <1>1, <1>2, <1>3, <1>4, <1>5, <1>6 DEF getTransfers, R!Read

LEMMA BatchRefines == ASSUME TypeOK, BatchFails PROVE R!Read
  <1>1. Matching = {} /\ Matching' = {}
    BY DEF BatchFails, Matching, Matches
  <1>2. R!Ahead = {}
    BY <1>1 DEF R!Ahead
  <1> QED
    BY <1>1, <1>2 DEF BatchFails, R!Read

LEMMA StepRefines == ListInv /\ [Next]_vars => [R!Next]_(R!vars)
  <1> SUFFICES ASSUME ListInv, [Next]_vars PROVE [R!Next]_(R!vars)
    OBVIOUS
  <1> TypeOK
    BY DEF ListInv
  <1>1. ASSUME UNCHANGED <<table, list>> PROVE UNCHANGED R!vars
    BY <1>1 DEF table, list, R!vars, Matching, Matches, Stored, Within, InDirection, HasStatus,
                success
  <1>2. CASE UNCHANGED vars
    BY <1>1, <1>2 DEF vars, table, list
  <1>3. CASE SyncWrites
    BY <1>3 DEF SyncWrites, R!Next, R!Change, Matching
  <1>4. CASE Open
    BY <1>4 DEF Open, R!Next, R!Begin, Matching
  <1>5. CASE BatchFails \/ getTransfers
    BY <1>5, BatchRefines, PageRefines DEF R!Next
  <1>6. CASE \E since \in Since : RateFirst(since)
    BY <1>1, <1>6 DEF RateFirst
  <1>7. CASE RateSecond
    BY <1>1, <1>7 DEF RateSecond
  <1> QED
    BY <1>2, <1>3, <1>4, <1>5, <1>6, <1>7 DEF Next

(* The list of transfers is the paged list RangeScan describes, under all  *)
(* writes of the sync (Transfer.findAll with handlers.getTransfers).       *)
THEOREM ListImplementsRangeScan == Spec => RangeScanSpec
  BY InitRefines, StepRefines, ListInvariant, PTL DEF Spec, RangeScanSpec, R!Spec
=============================================================================
