---------------------------- MODULE CacheRowsProofs ----------------------------
(***************************************************************************)
(* Proofs about CacheRows, for any set of records and either mode of       *)
(* MySQL.                                                                  *)
(***************************************************************************)
EXTENDS Details, SetFolds, TLAPS

(* The connector may have made r of e: parts were added, the state ended.  *)
Precedes(e, r) ==
    /\ e.kind = r.kind /\ e.value = r.value /\ e.direction = r.direction
    /\ e.transferId = r.transferId /\ e.initiatedTimestamp = r.initiatedTimestamp
    /\ e.terms = r.terms /\ e.asks = r.asks
    /\ e.currentState \in {r.currentState, "pending"}
    /\ \A p \in Parts : e[p] \in {r[p], "absent"}

(* cacheKey stores a row of r in table t. *)
Stores(r, t) == ~Skipped(r) /\ Offered(r, t) /\ Fits(r, t)

(* Which depends on nothing else that changes than the mode of MySQL. *)
LEMMA StoresStays ==
  ASSUME UNCHANGED sqlMode PROVE \A r, t : Stores(r, t)' <=> Stores(r, t)
  BY DEF Stores, Fits

(* The row in table t is one of an earlier state of the record. *)
RowFrom(e, t) == Stores(e, t) /\ rows[t] = Row(e, t)

(* The row in table t is as good as a row of the record last seen.         *)
UpToDate(t) ==
    /\ Stores(lastSeen, t) => rows[t] # NoRow
    /\ rows[t] # NoRow => /\ Stores(lastSeen, t)
                          /\ ~Differs(rows[t], Row(lastSeen, t), t) \/ rows[t] = Row(lastSeen, t)

RowsInv ==
    /\ TypeOK
    /\ lastSeen = Unseen => \A t \in Tables : rows[t] = NoRow
    /\ lastSeen # Unseen => Precedes(lastSeen, rec)
    /\ \A t \in Tables :
         rows[t] # NoRow => \E e \in Records : Precedes(e, lastSeen) /\ RowFrom(e, t)
    /\ lastSeen # Unseen /\ ~Skipped(lastSeen) => \A t \in Tables : UpToDate(t)

-----------------------------------------------------------------------------
(* Records.                                                                *)

LEMMA RecordType ==
  ASSUME NEW r \in Records
  PROVE  /\ r \in Record /\ r # Unseen
         /\ r.kind \in {"transferModel", "fxQuote_in"}
         /\ \A p \in Parts : r[p] \in Shapes
  BY RowsAssumption DEF Record, Parts, Unseen, Shapes

LEMMA PrecedesItself == ASSUME NEW r PROVE Precedes(r, r)
  BY DEF Precedes

LEMMA PrecedesTransitive ==
  ASSUME NEW a, NEW b, NEW c, Precedes(a, b), Precedes(b, c) PROVE Precedes(a, c)
  BY DEF Precedes

LEMMA AddsPart ==
  ASSUME rec \in Records, NEW p \in Parts, NEW shape,
         rec[p] = "absent", rec' = [rec EXCEPT ![p] = shape]
  PROVE  Precedes(rec, rec')
  BY RecordType DEF Precedes, Record, Parts

LEMMA EndsRecord ==
  ASSUME rec \in Records, NEW state, rec.currentState = "pending",
         rec' = [rec EXCEPT !.currentState = state]
  PROVE  Precedes(rec, rec')
  BY RecordType DEF Precedes, Record, Parts

-----------------------------------------------------------------------------
(* Rows.                                                                   *)

LEMMA RowKind ==
  ASSUME NEW r, NEW t \in Tables
  PROVE  Row(r, t) = NoRow \/ (Row(r, t) # NoRow /\ Row(r, t).kind = t)
  <1>1. TransferRow(r) = NoRow \/ TransferRow(r).kind = "transfer"
    BY DEF TransferRow
  <1>2. FxQuoteRow(r) = NoRow \/ FxQuoteRow(r).kind = "fx_quote"
    BY DEF FxQuoteRow, TransferModelQuoteRow, FxQuoteInQuoteRow
  <1>3. FxTransferRow(r) = NoRow \/ FxTransferRow(r).kind = "fx_transfer"
    BY DEF FxTransferRow, TransferModelFxRow, FxQuoteInFxRow
  <1> QED
    BY <1>1, <1>2, <1>3 DEF Row, Tables, NoRow

(* Which rows there are depends on a few parts. *)
LEMMA RowExists ==
  ASSUME NEW r \in Records
  PROVE  /\ TransferRow(r) # NoRow <=> r.kind = "transferModel"
         /\ FxQuoteRow(r) # NoRow <=> r.fxQuoteRequest \in {"object", "text", "bare"}
         /\ FxTransferRow(r) # NoRow <=>
               IF r.kind = "transferModel" THEN r.fxTransferRequest \in {"object", "text"}
                                           ELSE r.fxPrepare \in {"object", "text", "bare"}
  BY RecordType DEF TransferRow, FxQuoteRow, FxTransferRow, TransferModelQuoteRow,
     FxQuoteInQuoteRow, TransferModelFxRow, FxQuoteInFxRow, Parses, NoRow, Record

(* What is stored of a record is stored of whatever becomes of it. *)
LEMMA StoresAgain ==
  ASSUME NEW e \in Records, NEW r \in Records, Precedes(e, r), ~Skipped(r),
         NEW t \in Tables, Stores(e, t)
  PROVE  Stores(r, t)
  <1>1. \A p \in Parts : e[p] # "absent" => r[p] = e[p]
    BY DEF Precedes
  <1>2. /\ TransferRow(e) # NoRow => TransferRow(r) # NoRow
        /\ FxQuoteRow(e) # NoRow => FxQuoteRow(r) # NoRow
        /\ FxTransferRow(e) # NoRow => FxTransferRow(r) # NoRow
    BY <1>1, RowExists DEF Precedes, Parts
  <1>3. Offered(r, t)
    BY <1>2 DEF Stores, Offered, Row, Tables, Precedes
  <1>4. CASE t = "fx_transfer" /\ sqlMode = "strict"
    <2>1. /\ e.direction = "none" /\ r.direction = "none"
          /\ FxTransferRow(e).completed_timestamp \in {"number", "null"}
      BY <1>4 DEF Stores, Fits, Precedes
    <2>2. FxTransferRow(e) # NoRow
      BY <1>4 DEF Stores, Offered, Row
    <2>3. e.kind # "transferModel"
      BY <2>1, <2>2 DEF FxTransferRow, TransferModelFxRow
    <2>4. r.kind # "transferModel" /\ FxTransferRow(r) # NoRow
      BY <1>2, <2>2, <2>3 DEF Precedes
    <2>5. FxTransferRow(r).completed_timestamp \in {"number", "null"}
      BY <2>4 DEF FxTransferRow, FxQuoteInFxRow
    <2> QED
      BY <1>3, <1>4, <2>1, <2>5 DEF Stores, Fits
  <1>5. CASE ~(t = "fx_transfer" /\ sqlMode = "strict")
    BY <1>3, <1>5 DEF Stores, Fits, Precedes
  <1> QED
    BY <1>4, <1>5

-----------------------------------------------------------------------------
(* The invariant.                                                          *)

LEMMA InitRows == Init => RowsInv
  BY RecordType DEF Init, RowsInv, TypeOK, NoRow, Tables

(* The connector leaves the rows alone. *)
LEMMA ConnectorRows ==
  ASSUME RowsInv, rec' \in Records, Precedes(rec, rec'), UNCHANGED <<rows, lastSeen, sqlMode>>
  PROVE  RowsInv'
  <1>1. TypeOK'
    BY DEF RowsInv, TypeOK
  <1>2. lastSeen' # Unseen => Precedes(lastSeen', rec')
    BY PrecedesTransitive DEF RowsInv
  <1> QED
    BY <1>1, <1>2, StoresStays DEF RowsInv, RowFrom, UpToDate

(* A record that is written again holds what it says now. *)
LEMMA WritesRows ==
  ASSUME RowsInv, CacheKey, ~Skipped(rec), NEW t \in Tables
  PROVE  /\ rows'[t] # NoRow => \E e \in Records : Precedes(e, rec) /\ RowFrom(e, t)'
         /\ UpToDate(t)'
         /\ rows'[t].kind \in {t, "none"}
  <1>1. rec \in Records /\ lastSeen' = rec /\ rec' = rec /\ Precedes(rec, rec)
    BY PrecedesItself DEF RowsInv, TypeOK, CacheKey
  <1>2. rows'[t] = IF t \in Writes(rec) THEN Row(rec, t) ELSE rows[t]
    BY DEF CacheKey
  <1>s. \A r, s : Stores(r, s)' <=> Stores(r, s)
    BY StoresStays DEF CacheKey
  <1>3. CASE t \in Writes(rec)
    <2>1. rows'[t] = Row(rec, t) /\ Stores(rec, t) /\ rows'[t] # NoRow
      BY <1>2, <1>3 DEF Writes, Stores, Offered
    <2> QED
      BY <1>1, <1>s, <2>1, RowKind DEF RowFrom, UpToDate
  <1>4. CASE t \notin Writes(rec)
    <2>1. rows'[t] = rows[t]
      BY <1>2, <1>4
    <2>2. CASE rows[t] = NoRow
      BY <1>1, <1>s, <1>4, <2>1, <2>2 DEF Writes, Stores, UpToDate, NoRow
    <2>3. CASE rows[t] # NoRow
      <3>1. lastSeen # Unseen /\ Precedes(lastSeen, rec)
        BY <2>3 DEF RowsInv
      <3>2. PICK e \in Records : Precedes(e, lastSeen) /\ RowFrom(e, t)
        BY <2>3 DEF RowsInv
      <3>3. Precedes(e, rec)
        BY <3>1, <3>2, PrecedesTransitive
      <3>4. Stores(rec, t)
        BY <1>1, <3>2, <3>3, StoresAgain DEF RowFrom
      <3>5. ~Differs(rows[t], Row(rec, t), t)
        BY <1>4, <2>3, <3>4 DEF Writes, Stores
      <3> QED
        BY <1>1, <1>s, <2>1, <2>3, <3>2, <3>3, <3>4, <3>5 DEF RowFrom, UpToDate, RowsInv, TypeOK
    <2> QED
      BY <2>2, <2>3
  <1> QED
    BY <1>3, <1>4

LEMMA CacheKeyRows == ASSUME RowsInv, CacheKey PROVE RowsInv'
  <1>1. rec \in Records /\ lastSeen' = rec /\ rec' = rec /\ Precedes(rec, rec) /\ rec # Unseen
    BY PrecedesItself, RecordType DEF RowsInv, TypeOK, CacheKey
  <1>2. DOMAIN rows' = Tables /\ sqlMode' = sqlMode /\ sqlMode' \in SqlModes
    BY DEF CacheKey, RowsInv, TypeOK
  <1>3. CASE Skipped(rec)
    <2>1. rows' = rows
      BY <1>3 DEF CacheKey
    <2>2. ASSUME NEW t \in Tables, rows'[t] # NoRow
          PROVE  \E e \in Records : Precedes(e, rec) /\ RowFrom(e, t)'
      <3>1. PICK e \in Records : Precedes(e, lastSeen) /\ RowFrom(e, t)
        BY <2>1, <2>2 DEF RowsInv
      <3>2. Precedes(e, rec)
        BY <2>1, <2>2, <3>1, PrecedesTransitive DEF RowsInv
      <3> QED
        BY <1>2, <2>1, <3>1, <3>2, StoresStays DEF RowFrom
    <2> QED
      BY <1>1, <1>2, <1>3, <2>1, <2>2 DEF RowsInv, TypeOK
  <1>4. CASE ~Skipped(rec)
    BY <1>1, <1>2, <1>4, WritesRows DEF RowsInv, TypeOK
  <1> QED
    BY <1>3, <1>4

LEMMA StepRows == RowsInv /\ [Next]_vars => RowsInv'
  <1> SUFFICES ASSUME RowsInv, [Next]_vars PROVE RowsInv'
    OBVIOUS
  <1>0. rec \in Records
    BY DEF RowsInv, TypeOK
  <1>1. CASE RedisAddsPart
    <2>1. rec' \in Records /\ Precedes(rec, rec') /\ UNCHANGED <<rows, lastSeen, sqlMode>>
      BY <1>0, <1>1, AddsPart DEF RedisAddsPart
    <2> QED
      BY <2>1, ConnectorRows
  <1>2. CASE RedisEnds
    <2>1. rec' \in Records /\ Precedes(rec, rec') /\ UNCHANGED <<rows, lastSeen, sqlMode>>
      BY <1>0, <1>2, EndsRecord DEF RedisEnds
    <2> QED
      BY <2>1, ConnectorRows
  <1>3. CASE UNCHANGED vars
    <2>1. rec' \in Records /\ Precedes(rec, rec') /\ UNCHANGED <<rows, lastSeen, sqlMode>>
      BY <1>0, <1>3, PrecedesItself DEF vars
    <2> QED
      BY <2>1, ConnectorRows
  <1> QED
    BY <1>1, <1>2, <1>3, CacheKeyRows DEF Next

(* The invariant of the rows: each comes from an earlier state of its      *)
(* record, there is one wherever there should be, and it is no older than  *)
(* cacheKey's comparison of the states allows.                             *)
THEOREM RowsInvariant == Spec => []RowsInv
  BY InitRows, StepRows, PTL DEF Spec

-----------------------------------------------------------------------------
(* The properties.                                                         *)

LEMMA ReadableIsKept ==
  ASSUME RowsInv, Processed
  PROVE  lastSeen \in Records /\ ~Skipped(lastSeen) /\ \A t \in Tables : UpToDate(t)
  BY RecordType DEF RowsInv, TypeOK, Processed, Readable, Skipped, PartyNamesThrow

LEMMA StatusWords ==
  ASSUME NEW r \in Records, NEW t \in {"transfer", "fx_quote"}, Row(r, t) # NoRow
  PROVE  /\ Row(r, t).status \in {"true", "false", "null"}
         /\ ~Skipped(r) =>
              /\ Row(r, t).status = "true" <=> r.currentState \in {"succeeded", "COMMITTED"}
              /\ Row(r, t).status = "false" <=> r.currentState \in {"errored", "ABORTED"}
  <1>1. Row(r, t).status =
          IF \/ t = "transfer" /\ r.direction = "INBOUND"
             \/ t = "fx_quote" /\ r.kind # "transferModel"
            THEN getInboundTransferStatus(r) ELSE getTransferStatus(r)
    BY DEF Row, TransferRow, FxQuoteRow, TransferModelQuoteRow, FxQuoteInQuoteRow
  <1>2. t = "transfer" => r.kind = "transferModel"
    BY RowExists DEF Row
  <1>3. t = "fx_quote" => r.fxQuoteRequest # "absent"
    BY RowExists DEF Row
  <1>4. ~Skipped(r) /\ r.kind = "transferModel" => r.direction \in {"OUTBOUND", "INBOUND"}
    BY RecordType DEF Skipped, Record
  <1>5. r.currentState \in EndStates \cup {"pending"}
    BY RecordType DEF Record
  <1>6. EndsInItsWords(r)
    BY WordsAssumption
  <1>7. Row(r, t).status \in {"true", "false", "null"}
    BY <1>1 DEF getInboundTransferStatus, getTransferStatus
  <1>8. CASE ~Skipped(r)
    <2>1. CASE r.kind = "transferModel" /\ r.direction = "OUTBOUND"
      BY <1>1, <1>5, <1>6, <2>1 DEF getTransferStatus, EndsInItsWords
    <2>2. CASE ~(r.kind = "transferModel" /\ r.direction = "OUTBOUND")
      <3>1. Row(r, t).status = getInboundTransferStatus(r)
        BY <1>1, <1>2, <1>3, <1>4, <1>6, <1>8, <2>2 DEF EndsInItsWords
      <3>2. r.currentState \in {"pending", "COMMITTED", "ABORTED"}
        BY <1>4, <1>6, <1>8, <2>2 DEF EndsInItsWords
      <3> QED
        BY <1>7, <3>1, <3>2 DEF getInboundTransferStatus
    <2> QED
      BY <1>7, <2>1, <2>2
  <1> QED
    BY <1>7, <1>8

(* A row that is left alone has the status of the record: null. *)
LEMMA RowStatus ==
  ASSUME RowsInv, Processed, NEW t \in {"transfer", "fx_quote"}, rows[t] # NoRow
  PROVE  /\ Row(lastSeen, t) # NoRow /\ rows[t].status = Row(lastSeen, t).status
         /\ rows[t] = Row(lastSeen, t) \/ rows[t].status = "null"
  <1>1. t \in Tables /\ lastSeen \in Records /\ UpToDate(t)
    BY ReadableIsKept DEF Tables
  <1>2. Row(lastSeen, t) # NoRow
    BY <1>1 DEF UpToDate, Stores, Offered
  <1>3. PICK e \in Records : RowFrom(e, t)
    BY <1>1 DEF RowsInv
  <1>4. /\ rows[t].status \in {"true", "false", "null"}
        /\ Row(lastSeen, t).status \in {"true", "false", "null"}
    BY <1>1, <1>2, <1>3, StatusWords DEF RowFrom
  <1>5. rows[t] = Row(lastSeen, t) \/ DbValue(rows[t].status) = Row(lastSeen, t).status
    BY <1>1 DEF UpToDate, Differs
  <1> QED
    BY <1>2, <1>4, <1>5 DEF DbValue

(* An FX transfer that is left alone already holds what the record says.   *)
LEMMA FxRowStays ==
  ASSUME NEW e \in Records, NEW r \in Records, Precedes(e, r),
         FxTransferRow(e) # NoRow, FxTransferRow(r) # NoRow,
         FxTransferRow(e).conversion_state = FxTransferRow(r).conversion_state
  PROVE  FxTransferRow(e) = FxTransferRow(r)
  <1>1. CASE r.kind = "transferModel"
    <2>1. Parses(e.fxTransferResponse) <=> Parses(r.fxTransferResponse)
      BY <1>1 DEF Precedes, FxTransferRow, TransferModelFxRow
    <2> QED
      BY <1>1, <2>1 DEF Precedes, FxTransferRow, TransferModelFxRow
  <1>2. CASE r.kind # "transferModel"
    <2>1. Parses(e.fulfil) <=> Parses(r.fulfil)
      BY <1>2 DEF Precedes, FxTransferRow, FxQuoteInFxRow
    <2>2. e.fulfil \in {r.fulfil, "absent"}
      BY DEF Precedes, Parts
    <2>3. CompletedTimestamp(e) <=> CompletedTimestamp(r)
      BY <2>1, <2>2 DEF CompletedTimestamp, ParsedBody, Parses, Precedes
    <2> QED
      BY <1>2, <2>1, <2>3 DEF Precedes, FxTransferRow, FxQuoteInFxRow
  <1> QED
    BY <1>1, <1>2

(* Type correctness: a table holds rows of its own kind.                   *)
THEOREM TypeCorrect == Spec => []TypeOK
  <1>1. RowsInv => TypeOK
    BY DEF RowsInv
  <1> QED
    BY <1>1, RowsInvariant, PTL

(* The verdict of the rows is that of the record they were last compared   *)
(* with (index.js:32-53, 413), for any order in which its parts came.      *)
THEOREM StatusIsThatOfRecord == Spec => []StatusAgrees
  <1>1. RowsInv => StatusAgrees
    <2> SUFFICES ASSUME RowsInv, Processed, NEW t \in {"transfer", "fx_quote"}, rows[t] # NoRow
                 PROVE  /\ rows[t].status = "true"
                             <=> lastSeen.currentState \in {"succeeded", "COMMITTED"}
                        /\ rows[t].status = "false"
                             <=> lastSeen.currentState \in {"errored", "ABORTED"}
      BY DEF StatusAgrees
    <2> QED
      BY RowStatus, ReadableIsKept, StatusWords
  <1> QED
    BY <1>1, RowsInvariant, PTL

LEMMA EndedRow ==
  ASSUME RowsInv, Processed, Ended(lastSeen), NEW t \in Tables, rows[t] # NoRow
  PROVE  rows[t] = Row(lastSeen, t)
  <1>1. lastSeen \in Records /\ ~Skipped(lastSeen) /\ UpToDate(t)
    BY ReadableIsKept
  <1>2. CASE t \in {"transfer", "fx_quote"}
    <2>1. lastSeen.currentState \in EndStates
      BY <1>1, RecordType DEF Ended, Record
    <2>2. Row(lastSeen, t).status # "null"
      BY <1>1, <1>2, <2>1, RowStatus, StatusWords DEF EndStates
    <2> QED
      BY <1>2, <2>2, RowStatus
  <1>3. CASE t = "fx_transfer"
    <2>1. PICK e \in Records : Precedes(e, lastSeen) /\ RowFrom(e, t)
      BY DEF RowsInv
    <2>2. /\ rows[t] = FxTransferRow(e) /\ Row(lastSeen, t) = FxTransferRow(lastSeen)
          /\ FxTransferRow(e) # NoRow /\ FxTransferRow(lastSeen) # NoRow
      BY <1>1, <1>3, <2>1 DEF RowFrom, UpToDate, Stores, Offered, Row
    <2>3. \/ rows[t] = Row(lastSeen, t)
          \/ FxTransferRow(e).conversion_state = FxTransferRow(lastSeen).conversion_state
      BY <1>1, <1>3, <2>2 DEF UpToDate, Differs
    <2> QED
      BY <1>1, <2>1, <2>2, <2>3, FxRowStays
  <1> QED
    BY <1>2, <1>3 DEF Tables

(* The rows of an ended record hold all it says, parts that came after the *)
(* end included (index.js:413, 480, 696).                                  *)
THEOREM EndedRowsAreComplete == Spec => []EndedRowsComplete
  <1>1. RowsInv => EndedRowsComplete
    BY EndedRow DEF EndedRowsComplete
  <1> QED
    BY <1>1, RowsInvariant, PTL

(* A part that is missing, malformed or refused costs only its own row     *)
(* (index.js:244-390, 395-506).                                            *)
THEOREM PartsStandAlone == Spec => []PartsIndependent
  <1>1. RowsInv => PartsIndependent
    <2> SUFFICES ASSUME RowsInv, Processed, lastSeen.kind = "transferModel"
                 PROVE  /\ lastSeen.transferId /\ lastSeen.initiatedTimestamp
                             => rows["transfer"] # NoRow
                        /\ lastSeen.fxQuoteRequest \in {"object", "text", "bare"}
                             => rows["fx_quote"] # NoRow
                        /\ sqlMode # "strict" /\ lastSeen.fxTransferRequest \in {"object", "text"}
                             => rows["fx_transfer"] # NoRow
      BY DEF PartsIndependent
    <2>1. lastSeen \in Records /\ ~Skipped(lastSeen) /\ \A t \in Tables : UpToDate(t)
      BY ReadableIsKept
    <2> QED
      BY <2>1, RowExists DEF UpToDate, Stores, Offered, Fits, Row, Tables
  <1> QED
    BY <1>1, RowsInvariant, PTL

-----------------------------------------------------------------------------
(* Charges and rates.                                                      *)

(* What plus makes of numbers one of which may be none. *)
Total(g, w, T) == IF \E i \in T : w[i] = NaN THEN NaN ELSE g[T]

(* g adds up the numbers of w. *)
AddsNumbers(g, w, D) ==
    /\ \A i \in D : w[i] \in Nat \cup {NaN}
    /\ \E v : (\A i \in D : v[i] = OrZero(w[i])) /\ IsSum(g, v, D)

LEMMA TotalStep ==
  ASSUME NEW D, NEW w, NEW g, AddsNumbers(g, w, D)
  PROVE  \A T \in SUBSET D : \A x \in T : Total(g, w, T) = Plus(Total(g, w, T \ {x}), w[x])
  <1> TAKE T \in SUBSET D
  <1> TAKE x \in T
  <1>0. PICK v : (\A i \in D : v[i] = OrZero(w[i])) /\ IsSum(g, v, D)
    BY DEF AddsNumbers
  <1>1. g[T] = v[x] + g[T \ {x}] /\ g[T \ {x}] \in Int
    BY <1>0 DEF IsSum
  <1>2. NaN \notin Int
    BY NumbersAssumption
  <1>3. CASE w[x] = NaN
    BY <1>3 DEF Total, Plus
  <1>4. CASE w[x] # NaN /\ \E i \in T \ {x} : w[i] = NaN
    BY <1>4 DEF Total, Plus
  <1>5. CASE ~\E i \in T : w[i] = NaN
    <2>1. v[x] = w[x] /\ w[x] \in Nat
      BY <1>0, <1>5 DEF OrZero, AddsNumbers
    <2>2. Total(g, w, T) = g[T] /\ Total(g, w, T \ {x}) = g[T \ {x}]
      BY <1>5 DEF Total
    <2>3. Plus(g[T \ {x}], w[x]) = g[T \ {x}] + w[x]
      BY <1>1, <1>2, <2>1 DEF Plus
    <2> QED
      BY <1>1, <2>1, <2>2, <2>3
  <1> QED
    BY <1>3, <1>4, <1>5

(* h adds up w as FoldLeft does, the last element last. *)
Accumulates(h, w, D) ==
    /\ h[{}] = 0
    /\ \A T \in SUBSET D : T # {} => h[T] = Plus(h[T \ {Max(T)}], w[Max(T)])

LEMMA TotalUnique ==
  ASSUME NEW D, IsFiniteSet(D), \A T \in SUBSET D : T # {} => Max(T) \in T,
         NEW w, NEW g, AddsNumbers(g, w, D), NEW h, Accumulates(h, w, D)
  PROVE  h[D] = Total(g, w, D)
  <1> DEFINE P == {T \in SUBSET D : h[T] = Total(g, w, T)}
  <1>1. {} \in P
    BY DEF IsSum, Total, AddsNumbers, Accumulates
  <1>2. ASSUME NEW T \in SUBSET D, T # {}, \A x \in T : T \ {x} \in P PROVE T \in P
    <2>1. Max(T) \in T
      BY <1>2
    <2>2. h[T] = Plus(h[T \ {Max(T)}], w[Max(T)]) /\ h[T \ {Max(T)}] = Total(g, w, T \ {Max(T)})
      BY <1>2, <2>1 DEF Accumulates
    <2>3. Total(g, w, T) = Plus(Total(g, w, T \ {Max(T)}), w[Max(T)])
      BY <2>1, TotalStep
    <2> QED
      BY <2>2, <2>3
  <1> HIDE DEF P
  <1>3. D \in P
    BY <1>1, <1>2, SubsetInduction
  <1> QED
    BY <1>3 DEF P

(* The fold of w, in terms of itself. *)
Follows(k, w, D) ==
    k = [s \in SUBSET D |-> IF s = {} THEN 0 ELSE Plus(k[s \ {Max(s)}], w[Max(s)])]

LEMMA TotalAccumulates ==
  ASSUME NEW D, \A T \in SUBSET D : T # {} => Max(T) \in T, NEW w, NEW g, AddsNumbers(g, w, D)
  PROVE  \E k : Follows(k, w, D)
  <1> DEFINE k == [s \in SUBSET D |-> Total(g, w, s)]
  <1>1. Total(g, w, {}) = 0
    BY DEF IsSum, Total, AddsNumbers
  <1>2. ASSUME NEW s \in SUBSET D, s # {}
        PROVE  Total(g, w, s) = Plus(k[s \ {Max(s)}], w[Max(s)])
    <2>1. Max(s) \in s
      BY <1>2
    <2>2. \A x \in s : Total(g, w, s) = Plus(Total(g, w, s \ {x}), w[x])
      BY TotalStep
    <2> QED
      BY <2>1, <2>2
  <1>3. Follows(k, w, D)
    BY <1>1, <1>2 DEF Follows
  <1> QED
    BY <1>3

(* What the charges add to the total of a side. *)
Addends(q, side) == [i \in DOMAIN q.charges |-> Counted(MoneyOf(q, i, side), side)]

LEMMA ChargesType ==
  ASSUME NEW q \in Quotes, q.charges # None
  PROVE  /\ IsFiniteSet(DOMAIN q.charges)
         /\ \A T \in SUBSET DOMAIN q.charges : T # {} => Max(T) \in T
         /\ \A side : \A i \in DOMAIN q.charges : /\ MoneyOf(q, i, side) \in Money \cup {None}
                                                  /\ Addends(q, side)[i] \in Nat \cup {NaN}
  <1>1. q.charges \in Seq(Charge)
    BY QuotesAssumption DEF Terms
  <1>2. DOMAIN q.charges = 1..Len(q.charges) /\ Len(q.charges) \in Nat
    BY <1>1
  <1>3. \A i \in DOMAIN q.charges : q.charges[i] \in Charge
    BY <1>1, <1>2
  <1>4. \A m \in Money \cup {None} : \A c : Counted(m, c) \in Nat \cup {NaN}
    BY DEF Money, Counted, parseFloat
  <1>5. \A side : \A i \in DOMAIN q.charges : MoneyOf(q, i, side) \in Money \cup {None}
    BY <1>3 DEF MoneyOf, Charge
  <1>6. \A side : \A i \in DOMAIN q.charges : Addends(q, side)[i] \in Nat \cup {NaN}
    BY <1>4, <1>5 DEF Addends
  <1>7. IsFiniteSet(DOMAIN q.charges) /\ DOMAIN q.charges \subseteq Nat
    BY <1>2, FS_Interval
  <1>8. \A T \in SUBSET DOMAIN q.charges : T # {} => Max(T) \in T
    BY <1>7, MaxOfNaturals
  <1> QED
    BY <1>5, <1>6, <1>7, <1>8

LEMMA SourceTotal ==
  ASSUME NEW q \in Quotes, q.charges # None,
         NEW g, AddsNumbers(g, Addends(q, "source"), DOMAIN q.charges)
  PROVE  SourceCharges(q) = Total(g, Addends(q, "source"), DOMAIN q.charges)
  <1> DEFINE D == DOMAIN q.charges
             w == Addends(q, "source")
             counted(i) == Counted(q.charges[i].sourceAmount, "source")
             F(iter) == [s \in SUBSET D |->
                           IF s = {} THEN 0 ELSE Plus(iter[s \ {Max(s)}], counted(Max(s)))]
             h == CHOOSE iter : iter = F(iter)
  <1>1. SourceCharges(q) = h[D]
    BY DEF SourceCharges, FoldLeft, MapThenFoldSet
  <1>2. \A s \in SUBSET D : s # {} => w[Max(s)] = counted(Max(s))
    BY ChargesType DEF Addends, MoneyOf
  <1>3. /\ \A T \in SUBSET D : T # {} => Max(T) \in T
        /\ AddsNumbers(g, w, D) /\ IsFiniteSet(D)
    BY ChargesType
  <1>4. \E k : Follows(k, w, D)
    <2> HIDE DEF D, w
    <2> QED
      BY <1>3, TotalAccumulates
  <1>5. h = F(h)
    <2>1. \E k : k = F(k)
      BY <1>2, <1>4 DEF Follows
    <2> QED
      BY <2>1
  <1>6. Accumulates(h, w, D)
    <2> HIDE DEF h, w
    <2> QED
      BY <1>2, <1>5 DEF Accumulates
  <1>7. h[D] = Total(g, w, D)
    <2> HIDE DEF h, w, D
    <2> QED
      BY <1>3, <1>6, TotalUnique
  <1> QED
    BY <1>1, <1>7

LEMMA TargetTotal ==
  ASSUME NEW q \in Quotes, q.charges # None,
         NEW g, AddsNumbers(g, Addends(q, "target"), DOMAIN q.charges)
  PROVE  TargetCharges(q) = Total(g, Addends(q, "target"), DOMAIN q.charges)
  <1> DEFINE D == DOMAIN q.charges
             w == Addends(q, "target")
             counted(i) == Counted(q.charges[i].targetAmount, "target")
             F(iter) == [s \in SUBSET D |->
                           IF s = {} THEN 0 ELSE Plus(iter[s \ {Max(s)}], counted(Max(s)))]
             h == CHOOSE iter : iter = F(iter)
  <1>1. TargetCharges(q) = h[D]
    BY DEF TargetCharges, FoldLeft, MapThenFoldSet
  <1>2. \A s \in SUBSET D : s # {} => w[Max(s)] = counted(Max(s))
    BY ChargesType DEF Addends, MoneyOf
  <1>3. /\ \A T \in SUBSET D : T # {} => Max(T) \in T
        /\ AddsNumbers(g, w, D) /\ IsFiniteSet(D)
    BY ChargesType
  <1>4. \E k : Follows(k, w, D)
    <2> HIDE DEF D, w
    <2> QED
      BY <1>3, TotalAccumulates
  <1>5. h = F(h)
    <2>1. \E k : k = F(k)
      BY <1>2, <1>4 DEF Follows
    <2> QED
      BY <2>1
  <1>6. Accumulates(h, w, D)
    <2> HIDE DEF h, w
    <2> QED
      BY <1>2, <1>5 DEF Accumulates
  <1>7. h[D] = Total(g, w, D)
    <2> HIDE DEF h, w, D
    <2> QED
      BY <1>3, <1>6, TotalUnique
  <1> QED
    BY <1>1, <1>7

Charges(q, side) == IF side = "source" THEN SourceCharges(q) ELSE TargetCharges(q)

(* The totals the code adds up are those of the reference, or NaN if the   *)
(* charges are missing or one that counts is no number.                    *)
LEMMA ChargesTotal ==
  ASSUME NEW q \in Quotes, NEW side \in {"source", "target"}
  PROVE  /\ Charges(q, side) = IF Summable(q, side) THEN Reference(q, side) ELSE NaN
         /\ OrZero(Charges(q, side)) = Due(q, side) /\ Due(q, side) \in Nat
  <1> SUFFICES /\ Summable(q, side) =>
                    Charges(q, side) = Reference(q, side) /\ Reference(q, side) \in Nat
               /\ ~Summable(q, side) => Charges(q, side) = NaN
    BY NumbersAssumption DEF OrZero, Due
  <1>1. CASE q.charges = None
    BY <1>1 DEF Charges, SourceCharges, TargetCharges, Summable
  <1>2. CASE q.charges # None
    <2> DEFINE D == DOMAIN q.charges
               w == Addends(q, side)
               v == [i \in D |-> OrZero(w[i])]
               C == CountedCharges(q, side)
               e == [i \in C |-> MoneyOf(q, i, side).amount]
    <2>0. IsFiniteSet(D) /\ \A i \in D : w[i] \in Nat \cup {NaN}
      BY <1>2, ChargesType
    <2>1. \A i \in D : v[i] \in Nat
      BY <2>0 DEF OrZero
    <2>2. PICK g : IsSum(g, v, D)
      <3> HIDE DEF D, v
      <3> QED
        BY <2>0, <2>1, SumExists
    <2>3. AddsNumbers(g, w, D)
      BY <2>0, <2>2 DEF AddsNumbers
    <2>4. Charges(q, side) = Total(g, w, D)
      BY <1>2, <2>3, SourceTotal, TargetTotal DEF Charges
    <2>5. g[D] \in Nat
      <3> HIDE DEF D, v
      <3> QED
        BY <2>0, <2>1, <2>2, SumOfNaturals
    <2>c. /\ \A i \in C : i \in D /\ MoneyOf(q, i, side) \in Money
          /\ \A i \in C : w[i] = parseFloat(MoneyOf(q, i, side).amount)
          /\ \A i \in D \ C : w[i] = 0
      BY <1>2, ChargesType DEF CountedCharges, Addends, Counted
    <2>n. (\E i \in D : w[i] = NaN) <=> ~Summable(q, side)
      <3>1. ASSUME NEW i \in C PROVE w[i] = NaN <=> MoneyOf(q, i, side).amount = Text
        BY <2>c, NumbersAssumption DEF parseFloat, Money
      <3>2. ASSUME NEW i \in D, w[i] = NaN PROVE i \in C
        BY <2>c, <3>2, NumbersAssumption
      <3> QED
        BY <1>2, <2>c, <3>1, <3>2 DEF Summable
    <2>6. ASSUME ~\E i \in D : w[i] = NaN PROVE g[D] = Reference(q, side)
      <3>1. \A i \in D : v[i] = w[i]
        BY <2>6 DEF OrZero
      <3>2. \A i \in C : e[i] = v[i] /\ e[i] \in Nat
        <4> SUFFICES ASSUME NEW i \in C PROVE e[i] = v[i] /\ e[i] \in Nat
          OBVIOUS
        <4>1. MoneyOf(q, i, side) \in Money /\ i \in D
          BY <2>c
        <4>2. w[i] = parseFloat(MoneyOf(q, i, side).amount)
          BY <2>c
        <4> QED
          BY <2>6, <3>1, <4>1, <4>2 DEF parseFloat, Money
      <3>3. \A i \in D \ C : v[i] = 0
        BY <2>c, <3>1
      <3>4. C \subseteq D /\ IsFiniteSet(C)
        BY <2>0, <2>c, FS_Subset
      <3>5. Reference(q, side) = SumFunctionOnSet(e, C)
        BY DEF Reference
      <3> HIDE DEF D, C, e, v
      <3>6. PICK h : IsSum(h, e, C)
        BY <3>2, <3>4, SumExists
      <3>7. SumFunctionOnSet(e, C) = h[C]
        BY <3>4, <3>6, SumOfFunction
      <3>8. g[D] = h[C]
        BY <2>0, <2>2, <3>2, <3>3, <3>4, <3>6, SumOfCounted
      <3> QED
        BY <3>5, <3>7, <3>8
    <2>7. CASE \E i \in D : w[i] = NaN
      BY <2>4, <2>7, <2>n DEF Total
    <2>8. CASE ~\E i \in D : w[i] = NaN
      BY <2>4, <2>5, <2>6, <2>8, <2>n DEF Total
    <2> QED
      BY <2>7, <2>8
  <1> QED
    BY <1>1, <1>2

(* toFixed is off by half a unit at most. *)
LEMMA ToFixedRounds ==
  ASSUME NEW a \in Int, NEW b \in Int, b # 0
  PROVE  /\ ToFixed(a, b) \in Int
         /\ 2 * Abs(ToFixed(a, b) * b - 10000 * a) <= Abs(b)
  <1> DEFINE A == Abs(a)
             B == Abs(b)
             r == (20000 * A + B) \div (2 * B)
  <1>1. A \in Nat /\ B \in Nat \ {0} /\ a \in {A, -A} /\ b \in {B, -B}
    BY DEF Abs
  <1>2. r \in Int /\ 2 * B * r <= 20000 * A + B /\ 20000 * A + B < 2 * B * r + 2 * B
    BY <1>1
  <1>3. ToFixed(a, b) = IF (a < 0) = (b < 0) THEN r ELSE -r
    BY NumbersAssumption DEF ToFixed
  <1>4. ToFixed(a, b) \in Int
    BY <1>2, <1>3
  <1> DEFINE x == ToFixed(a, b) * b - 10000 * a
             p == r * B
  <1>5. x \in {p - 10000 * A, 10000 * A - p}
    BY <1>1, <1>2, <1>3 DEF Abs
  <1>6. p \in Int /\ 2 * p <= 20000 * A + B /\ 20000 * A + B < 2 * p + 2 * B
    BY <1>1, <1>2
  <1>7. 2 * Abs(x) <= B
    <2> HIDE DEF p, A, B, x
    <2> QED
      BY <1>1, <1>5, <1>6 DEF Abs
  <1> QED
    BY <1>4, <1>7


(* What a division of numbers shows is right, up to rounding. *)
Right(rate, s, t) == rate \in Int /\ 2 * Abs(rate * s - 10000 * t) <= Abs(s)

(* A transfer's rate is right whatever its charges are, those that cannot  *)
(* be added up taken for none.                                             *)
LEMMA RateIsRight ==
  ASSUME NEW q \in Quotes, NumericAmounts(q), q.sourceAmount - Due(q, "source") # 0
  PROVE  Right(TransferRate(q), q.sourceAmount - Due(q, "source"),
               q.targetAmount - Due(q, "target"))
  <1> DEFINE s == q.sourceAmount - Due(q, "source")
             t == q.targetAmount - Due(q, "target")
  <1>1. /\ OrZero(SourceCharges(q)) = Due(q, "source") /\ Due(q, "source") \in Nat
        /\ OrZero(TargetCharges(q)) = Due(q, "target") /\ Due(q, "target") \in Nat
    BY ChargesTotal DEF Charges
  <1>2. /\ q.sourceAmount \in Nat /\ q.targetAmount \in Nat
        /\ parseFloat(q.sourceAmount) = q.sourceAmount
        /\ parseFloat(q.targetAmount) = q.targetAmount
        /\ Missing \notin {q.sourceAmount, q.targetAmount}
    BY NumbersAssumption DEF NumericAmounts, parseFloat
  <1>3. NaN \notin Int
    BY NumbersAssumption
  <1>4. s \in Int /\ t \in Int /\ s # 0
    BY <1>1, <1>2
  <1>5. ~NoRate(q)
    <2>1. CASE SourceCharges(q) = NaN
      BY <1>2, <1>3, <2>1 DEF NoRate, Minus
    <2>2. CASE SourceCharges(q) # NaN
      BY <1>1, <1>2, <1>3, <1>4, <2>2 DEF NoRate, Minus, OrZero
    <2> QED
      BY <2>1, <2>2
  <1>6. TransferRate(q) = ToFixed(t, s)
    BY <1>1, <1>2, <1>3, <1>5 DEF TransferRate, RateOf, Minus
  <1> HIDE DEF s, t
  <1>7. Right(TransferRate(q), s, t)
    BY <1>4, <1>6, ToFixedRounds DEF Right
  <1> QED
    BY <1>7 DEF s, t

(* Both details compute a rate the same way once the charges are numbers.  *)
LEMMA SameRate ==
  ASSUME NEW q \in Quotes, NumericAmounts(q), Summable(q, "source"), Summable(q, "target")
  PROVE  /\ TransferRate(q) = ConversionRate(q)
         /\ ConversionRate(q) # None =>
              Right(ConversionRate(q), q.sourceAmount - Reference(q, "source"),
                    q.targetAmount - Reference(q, "target"))
  <1>1. /\ SourceCharges(q) = Reference(q, "source") /\ Due(q, "source") = Reference(q, "source")
        /\ TargetCharges(q) = Reference(q, "target") /\ Due(q, "target") = Reference(q, "target")
        /\ Reference(q, "source") \in Nat /\ Reference(q, "target") \in Nat
    BY ChargesTotal DEF Charges, Due
  <1>2. TransferRate(q) = ConversionRate(q)
    BY <1>1, NumbersAssumption DEF TransferRate, ConversionRate, OrZero
  <1>3. ASSUME ConversionRate(q) # None PROVE q.sourceAmount - Due(q, "source") # 0
    <2>1. Minus(parseFloat(q.sourceAmount), SourceCharges(q)) # 0
      BY <1>3 DEF ConversionRate, RateOf, NoRate
    <2> QED
      BY <1>1, <2>1, NumbersAssumption DEF Minus, parseFloat, NumericAmounts
  <1> QED
    BY <1>1, <1>2, <1>3, RateIsRight

-----------------------------------------------------------------------------
(* Details.                                                                *)

(* Which parts a raw text holds, and what has become of them. *)
LEMMA RawParts ==
  ASSUME NEW r \in Records, NEW p \in Parts
  PROVE  /\ Raw(r).parts[p] = RawPart(r, p)
         /\ RawPart(r, p) = "malformed" => r[p] = "malformed"
         /\ RawPart(r, p) = "bare" => r[p] = "bare"
         /\ RawPart(r, p) = "null" =>
              /\ r.direction = "INBOUND"
              /\ p = "quoteResponse" \/ (p = "fulfil" /\ r.fulfil = "malformed")
         /\ p \notin {"quoteResponse", "fulfil"} => RawPart(r, p) = r[p]
  BY RecordType DEF Raw, RawPart, Parses, Shapes, Parts

(* Every transfer and conversion whose bodies can be read is shown         *)
(* (Transfer.js:147-247, 418, FxpConversion.js:141-189, 226-243).          *)
THEOREM DetailsAreAnswered == Spec => []DetailsAnswered
  <1>1. RowsInv => DetailsAnswered
    <2> SUFFICES ASSUME RowsInv, Processed, \A p \in Parts : lastSeen[p] # "bare",
                        ~TermsThrow(lastSeen.terms)
                 PROVE  /\ /\ rows["transfer"] # NoRow
                           /\ lastSeen.direction = "INBOUND" => lastSeen.fulfil # "malformed"
                           => ~TransferThrows(rows["transfer"].raw)
                        /\ /\ rows["fx_quote"] # NoRow
                           /\ lastSeen.asks
                           /\ lastSeen.fxTransferRequest # "object"
                           /\ \A p \in Parts : lastSeen[p] # "malformed"
                           => ~ConversionThrows(rows["fx_quote"].raw)
      BY DEF DetailsAnswered
    <2>1. lastSeen \in Records
      BY ReadableIsKept
    <2>t. ~TermsThrow(None)
      BY NumbersAssumption DEF TermsThrow
    <2>2. ASSUME NEW t \in {"transfer", "fx_quote"}, rows[t] # NoRow
          PROVE  \E e \in Records : Precedes(e, lastSeen) /\ rows[t].raw = Raw(e)
      <3>1. PICK e \in Records : Precedes(e, lastSeen) /\ RowFrom(e, t)
        BY <2>2 DEF RowsInv, Tables
      <3>2. Row(e, t) # NoRow => Row(e, t).raw = Raw(e)
        BY DEF Row, TransferRow, FxQuoteRow, TransferModelQuoteRow, FxQuoteInQuoteRow
      <3> QED
        BY <2>2, <3>1, <3>2 DEF RowFrom
    <2>3. ASSUME rows["transfer"] # NoRow,
                 lastSeen.direction = "INBOUND" => lastSeen.fulfil # "malformed"
          PROVE  ~TransferThrows(rows["transfer"].raw)
      <3>1. PICK e \in Records : Precedes(e, lastSeen) /\ rows["transfer"].raw = Raw(e)
        BY <2>2, <2>3
      <3>2. \A p \in Parts : e[p] # "bare"
        BY <3>1 DEF Precedes
      <3>3. e.direction = "INBOUND" => e.fulfil # "malformed"
        BY <2>3, <3>1 DEF Precedes, Parts
      <3>4. ~TermsThrow(TransferTerms(Raw(e)))
        BY <2>t, <3>1 DEF TransferTerms, Raw, Precedes
      <3> QED
        BY <3>1, <3>2, <3>3, <3>4, RawParts DEF TransferThrows, NoBody, Parts
    <2>4. ASSUME rows["fx_quote"] # NoRow, lastSeen.asks, lastSeen.fxTransferRequest # "object",
                 \A p \in Parts : lastSeen[p] # "malformed"
          PROVE  ~ConversionThrows(rows["fx_quote"].raw)
      <3>1. PICK e \in Records : Precedes(e, lastSeen) /\ rows["fx_quote"].raw = Raw(e)
        BY <2>2, <2>4
      <3>2. \A p \in Parts : e[p] # "bare" /\ e[p] # "malformed"
        BY <2>4, <3>1 DEF Precedes
      <3>3. e.fxTransferRequest # "object"
        BY <2>4, <3>1 DEF Precedes, Parts
      <3>4. ~TermsThrow(ConversionTerms(Raw(e))) /\ Raw(e).asks
        BY <2>t, <2>4, <3>1 DEF ConversionTerms, Raw, Precedes
      <3> QED
        BY <3>1, <3>2, <3>3, <3>4, RawParts DEF ConversionThrows, NoBody, Parts
    <2> QED
      BY <2>3, <2>4
  <1> QED
    BY <1>1, RowsInvariant, PTL

(* Unless MySQL refuses it, the FX transfer of a record whose quote is     *)
(* stored has a row whenever the record says there is one.                 *)
LEMMA FxTransferOfRecord ==
  ASSUME RowsInv, Processed, Ended(lastSeen), rows["fx_quote"] # NoRow
  PROVE  /\ rows["fx_quote"] = FxQuoteRow(lastSeen)
         /\ rows["fx_transfer"] # NoRow => rows["fx_transfer"] = FxTransferRow(lastSeen)
         /\ rows["fx_transfer"] # NoRow <=>
               FxTransferRow(lastSeen) # NoRow /\ Fits(lastSeen, "fx_transfer")
  <1>1. lastSeen \in Records /\ ~Skipped(lastSeen) /\ UpToDate("fx_transfer")
    BY ReadableIsKept DEF Tables
  <1>2. rows["fx_quote"] = FxQuoteRow(lastSeen)
    BY EndedRow DEF Tables, Row
  <1>3. rows["fx_transfer"] # NoRow => rows["fx_transfer"] = FxTransferRow(lastSeen)
    BY EndedRow DEF Tables, Row
  <1>4. rows["fx_transfer"] # NoRow <=> Stores(lastSeen, "fx_transfer")
    BY <1>1 DEF UpToDate
  <1>5. Stores(lastSeen, "fx_transfer") <=>
          FxTransferRow(lastSeen) # NoRow /\ Fits(lastSeen, "fx_transfer")
    BY <1>1, <1>2 DEF Stores, Offered, Row
  <1> QED
    BY <1>2, <1>3, <1>4, <1>5

(* The state shown for an ended conversion, joined from two tables, is     *)
(* that of its FX transfer where MySQL takes its row, and else that of its *)
(* record, in either mode of MySQL (FxpConversion.js:245-251).             *)
THEOREM ConversionShowsItsState == Spec => []ConversionStateShown
  <1>1. RowsInv => ConversionStateShown
    <2> SUFFICES ASSUME RowsInv, Processed, Ended(lastSeen),
                        rows["fx_quote"] # NoRow
                 PROVE  StateOfConversion(rows["fx_quote"], rows["fx_transfer"]) =
                          IF (IF lastSeen.kind = "transferModel"
                                THEN /\ Parses(lastSeen.fxTransferRequest)
                                     /\ Parses(lastSeen.fxTransferResponse)
                                ELSE /\ lastSeen.fxPrepare \in {"object", "text", "bare"}
                                     /\ Parses(lastSeen.fulfil))
                             /\ Fits(lastSeen, "fx_transfer")
                             /\ lastSeen.finalNotification = "absent"
                            THEN "set" ELSE lastSeen.currentState
      BY DEF ConversionStateShown
    <2>1. lastSeen \in Records
      BY ReadableIsKept
    <2>2. /\ rows["fx_quote"] = FxQuoteRow(lastSeen)
          /\ rows["fx_transfer"] # NoRow => rows["fx_transfer"] = FxTransferRow(lastSeen)
          /\ rows["fx_transfer"] # NoRow <=>
                FxTransferRow(lastSeen) # NoRow /\ Fits(lastSeen, "fx_transfer")
      BY FxTransferOfRecord
    <2>3. rows["fx_quote"].raw = Raw(lastSeen)
      BY <2>2 DEF FxQuoteRow, TransferModelQuoteRow, FxQuoteInQuoteRow
    <2>4. /\ Raw(lastSeen).parts.finalNotification = lastSeen.finalNotification
          /\ Raw(lastSeen).currentState = lastSeen.currentState
      BY <2>1, RawParts DEF Raw, Parts
    <2> DEFINE stored == IF lastSeen.kind = "transferModel"
                           THEN Parses(lastSeen.fxTransferRequest)
                           ELSE lastSeen.fxPrepare \in {"object", "text", "bare"}
               done == IF lastSeen.kind = "transferModel" THEN Parses(lastSeen.fxTransferResponse)
                                                         ELSE Parses(lastSeen.fulfil)
               fits == Fits(lastSeen, "fx_transfer")
    <2>5. rows["fx_transfer"] # NoRow <=> stored /\ fits
      BY <2>1, <2>2, RowExists DEF Parses
    <2>6. rows["fx_transfer"] # NoRow =>
            rows["fx_transfer"].conversion_state = IF done THEN "set" ELSE ""
      <3> SUFFICES ASSUME rows["fx_transfer"] # NoRow
                   PROVE  FxTransferRow(lastSeen).conversion_state = IF done THEN "set" ELSE ""
        BY <2>2
      <3>1. CASE lastSeen.kind = "transferModel"
        <4>1. /\ FxTransferRow(lastSeen) = TransferModelFxRow(lastSeen)
              /\ TransferModelFxRow(lastSeen) # NoRow
          BY <2>2, <3>1 DEF FxTransferRow
        <4>2. TransferModelFxRow(lastSeen).conversion_state = IF done THEN "set" ELSE ""
          BY <3>1, <4>1 DEF TransferModelFxRow
        <4> QED
          BY <4>1, <4>2
      <3>2. CASE lastSeen.kind # "transferModel"
        <4>1. FxTransferRow(lastSeen) = FxQuoteInFxRow(lastSeen) /\ FxQuoteInFxRow(lastSeen) # NoRow
          BY <2>2, <3>2 DEF FxTransferRow
        <4>2. FxQuoteInFxRow(lastSeen).conversion_state = IF done THEN "set" ELSE ""
          BY <3>2, <4>1 DEF FxQuoteInFxRow
        <4> QED
          BY <4>1, <4>2
      <3> QED
        BY <3>1, <3>2
    <2> HIDE DEF stored, done, fits
    <2>7. StateOfConversion(rows["fx_quote"], rows["fx_transfer"]) =
            IF stored /\ done /\ fits /\ lastSeen.finalNotification = "absent"
              THEN "set" ELSE lastSeen.currentState
      BY <2>3, <2>4, <2>5, <2>6 DEF StateOfConversion
    <2> QED
      BY <2>7 DEF stored, done, fits
  <1> QED
    BY <1>1, RowsInvariant, PTL

(* The rows of an ended record show its terms, if all its parts parse. *)
LEMMA TermsShown ==
  ASSUME RowsInv, Processed, Ended(lastSeen), lastSeen.terms \in Quotes,
         \A p \in Parts : lastSeen[p] # "malformed"
  PROVE  /\ rows["transfer"] # NoRow /\ ~TransferThrows(rows["transfer"].raw) =>
              RateOfTransfer(rows["transfer"].raw) =
                IF lastSeen.fxQuoteResponse = "absent" THEN None ELSE TransferRate(lastSeen.terms)
         /\ rows["fx_quote"] # NoRow =>
              RateOfConversion(rows["fx_quote"].raw) =
                IF lastSeen.fxQuoteResponse = "absent" THEN None
                                                       ELSE ConversionRate(lastSeen.terms)
  <1> DEFINE raw == Raw(lastSeen)
             q == lastSeen.terms
  <1>1. lastSeen \in Records /\ q # None
    BY ReadableIsKept, QuotesAssumption
  <1>2. /\ rows["transfer"] # NoRow => rows["transfer"].raw = raw
        /\ rows["fx_quote"] # NoRow => rows["fx_quote"].raw = raw
    <2>1. /\ rows["transfer"] # NoRow => rows["transfer"] = TransferRow(lastSeen)
          /\ rows["fx_quote"] # NoRow => rows["fx_quote"] = FxQuoteRow(lastSeen)
      BY EndedRow DEF Row, Tables
    <2> QED
      BY <2>1 DEF TransferRow, FxQuoteRow, TransferModelQuoteRow, FxQuoteInQuoteRow
  <1>3. raw.terms = q
    BY DEF Raw
  <1>4. /\ raw.parts.fxQuoteResponse = lastSeen.fxQuoteResponse
        /\ lastSeen.fxQuoteResponse \in {"absent", "bare", "object", "text"}
    BY <1>1, RawParts, RecordType DEF Parts, Shapes
  <1>5. \A p \in Parts : raw.parts[p] # "malformed"
    BY <1>1, RawParts
  <1>6. TransferParts(raw).fxQuoteResponse = "object"
          <=> lastSeen.fxQuoteResponse \in {"object", "text"}
    BY <1>4, <1>5 DEF TransferParts, Parts
  <1> HIDE DEF raw
  <1>7. ~TransferThrows(raw) => lastSeen.fxQuoteResponse # "bare"
    BY <1>4 DEF TransferThrows, NoBody
  <1>8. TransferTerms(raw) = IF lastSeen.fxQuoteResponse \in {"object", "text"} THEN q ELSE None
    BY <1>3, <1>6 DEF TransferTerms
  <1>9. ConversionTerms(raw) = IF lastSeen.fxQuoteResponse = "absent" THEN None ELSE q
    BY <1>3, <1>4 DEF ConversionTerms
  <1>10. ~TransferThrows(raw) =>
           RateOfTransfer(raw) =
             IF lastSeen.fxQuoteResponse = "absent" THEN None ELSE TransferRate(q)
    BY <1>1, <1>3, <1>4, <1>7, <1>8 DEF RateOfTransfer
  <1>11. RateOfConversion(raw) =
           IF lastSeen.fxQuoteResponse = "absent" THEN None ELSE ConversionRate(q)
    BY <1>1, <1>3, <1>9 DEF RateOfConversion
  <1> QED
    BY <1>2, <1>10, <1>11

(* The details of a transfer and of its conversion show one exchange rate, *)
(* which is right up to rounding, for every quote with numeric charges     *)
(* (Transfer.js:307-317, FxpConversion.js:118-135).                        *)
THEOREM OneRate == Spec => []RatesAgree
  <1>1. RowsInv => RatesAgree
    <2> DEFINE q == lastSeen.terms
               shown == RateOfConversion(rows["fx_quote"].raw)
    <2> SUFFICES ASSUME RowsInv, Processed, Ended(lastSeen),
                        rows["transfer"] # NoRow, rows["fx_quote"] # NoRow,
                        ~TransferThrows(rows["transfer"].raw),
                        q \in Quotes, NumericAmounts(q),
                        Summable(q, "source"), Summable(q, "target"),
                        \A p \in Parts : lastSeen[p] # "malformed"
                 PROVE  /\ RateOfTransfer(rows["transfer"].raw) = shown
                        /\ shown # None =>
                             2 * Abs(shown * (q.sourceAmount - Reference(q, "source"))
                                     - 10000 * (q.targetAmount - Reference(q, "target")))
                               <= Abs(q.sourceAmount - Reference(q, "source"))
      BY DEF RatesAgree
    <2>1. /\ RateOfTransfer(rows["transfer"].raw) =
               IF lastSeen.fxQuoteResponse = "absent" THEN None ELSE TransferRate(q)
          /\ shown = IF lastSeen.fxQuoteResponse = "absent" THEN None ELSE ConversionRate(q)
      BY TermsShown
    <2> HIDE DEF q, shown
    <2> QED
      BY <2>1, SameRate DEF Right
  <1> QED
    BY <1>1, RowsInvariant, PTL

(* A transfer with a quote of two amounts shows the right number for its   *)
(* rate, whatever its charges are, unless they leave nothing to divide by  *)
(* (Transfer.js:307-317).                                                  *)
THEOREM RateIsShown == Spec => []RateShown
  <1>1. RowsInv => RateShown
    <2> DEFINE q == lastSeen.terms
               shown == RateOfTransfer(rows["transfer"].raw)
               s == q.sourceAmount - Due(q, "source")
               t == q.targetAmount - Due(q, "target")
    <2> SUFFICES ASSUME RowsInv, Processed, Ended(lastSeen), rows["transfer"] # NoRow,
                        ~TransferThrows(rows["transfer"].raw),
                        lastSeen.fxQuoteResponse # "absent",
                        \A p \in Parts : lastSeen[p] # "malformed",
                        q \in Quotes, NumericAmounts(q), s # 0
                 PROVE  shown \in Int /\ 2 * Abs(shown * s - 10000 * t) <= Abs(s)
      BY DEF RateShown
    <2>1. shown = TransferRate(q)
      BY TermsShown
    <2>2. Right(TransferRate(q), s, t)
      BY RateIsRight
    <2> HIDE DEF shown
    <2> QED
      BY <2>1, <2>2 DEF Right
  <1> QED
    BY <1>1, RowsInvariant, PTL
=============================================================================
