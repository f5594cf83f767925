------------------------------ MODULE CacheRows ------------------------------
(***************************************************************************)
(* cacheKey (src/lib/cacheDatabase/index.js): which rows one Redis record  *)
(* becomes in the tables transfer, fx_quote and fx_transfer, and when an   *)
(* existing row is written again.                                          *)
(*                                                                         *)
(* A record is abstracted to the shape of its parts.  A part (quoteRequest,*)
(* fulfil, fxQuoteResponse ...) is absent; bare, without a body; or has a  *)
(* body that is an object, a JSON text, or a text that does not parse.     *)
(* The body of fxQuoteResponse holds the terms, if it has any; that of     *)
(* fxQuoteRequest may ask for an amount.                                   *)
(* The connector only ever adds parts to a record and ends its state.      *)
(***************************************************************************)
EXTENDS QuoteTerms

CONSTANTS
    Records,   \* the records considered
    SqlModes   \* "strict": MySQL refuses a value of the wrong type; "lenient"

EndStates == {"succeeded", "errored", "COMMITTED", "ABORTED"}

Shapes == {"absent", "bare", "object", "text", "malformed"}

Record ==
    [kind : {"transferModel", "fxQuote_in"},
     value : {"json", "malformed"},
     direction : {"INBOUND", "OUTBOUND", "none"},
     currentState : EndStates \cup {"pending"},
     transferId : BOOLEAN,
     initiatedTimestamp : BOOLEAN,
     quoteRequest : Shapes, quoteResponse : Shapes, fulfil : Shapes,
     fxQuoteRequest : Shapes, fxQuoteResponse : Shapes,
     fxTransferRequest : Shapes, fxTransferResponse : Shapes,
     fxPrepare : Shapes, finalNotification : Shapes,
     terms : Quotes \cup {None, Text},
     asks : BOOLEAN]

Parts == {"quoteRequest", "quoteResponse", "fulfil", "fxQuoteRequest",
          "fxQuoteResponse", "fxTransferRequest", "fxTransferResponse", "fxPrepare",
          "finalNotification"}

ASSUME RowsAssumption == Records \subseteq Record /\ SqlModes \subseteq {"strict", "lenient"}

(* The connector ends outbound transfers and the others in words of their  *)
(* own, and gives an inbound transfer no FX quote: its FX quotes are       *)
(* records of the kind fxQuote_in.                                         *)
EndsInItsWords(r) ==
    IF r.kind = "transferModel"
      THEN /\ r.direction = "OUTBOUND" => r.currentState \in {"pending", "succeeded", "errored"}
           /\ r.direction = "INBOUND" => /\ r.currentState \in {"pending", "COMMITTED", "ABORTED"}
                                        /\ r.fxQuoteRequest = "absent"
      ELSE r.currentState \in {"pending", "COMMITTED", "ABORTED"}

ASSUME WordsAssumption == \A r \in Records : EndsInItsWords(r)

Tables == {"transfer", "fx_quote", "fx_transfer"}

VARIABLES
    rec,      \* the record in Redis
    rows,     \* its row in each table, or NoRow
    lastSeen, \* ghost: the record as the last cacheKey read it
    sqlMode   \* that of MySQL: its default is strict, nothing here sets it

vars == <<rec, rows, lastSeen, sqlMode>>

NoRow == [kind |-> "none"]

Unseen == [kind |-> "none"]

-----------------------------------------------------------------------------
(* Status.  The drivers return a boolean column as a number.               *)

getTransferStatus(r) ==
    CASE r.currentState = "succeeded" -> "true"
      [] r.currentState = "errored"   -> "false"
      [] OTHER                        -> "null"

(* Mutant: the statuses of outbound transfers are looked for. *)
getInboundTransferStatus_AsOutbound(r) == getTransferStatus(r)

getInboundTransferStatus(r) ==
    CASE r.currentState = "COMMITTED" -> "true"
      [] r.currentState = "ABORTED"   -> "false"
      [] OTHER                        -> "null"

DbValue(status) ==
    CASE status = "true" -> "1" [] status = "false" -> "0" [] OTHER -> "null"

-----------------------------------------------------------------------------
(* Parsing.  parseData turns the bodies of quoteResponse and fulfil of an  *)
(* inbound record into objects, or into null.                              *)

Parses(shape) == shape \in {"object", "text"}

ParsedBody(r, part) ==
    IF r.direction = "INBOUND" THEN Parses(r[part]) ELSE r[part] = "object"

CompletedTimestamp(r) == ParsedBody(r, "fulfil")

(* qr.body[partyType].name throws unless the body is an object. *)
PartyNamesThrow(r) == r.direction = "INBOUND" /\ r.quoteRequest # "object"

(* Mutant: a record with a part that does not parse is given up.           *)
Skipped_AnyMalformed(r) ==
    \/ r.direction = "none" \/ PartyNamesThrow(r)
    \/ \E p \in Parts : r[p] = "malformed"

(* cacheKey returns or throws before it writes anything. *)
Skipped(r) ==
    \/ r.value = "malformed"
    \/ /\ r.kind = "transferModel"
       /\ r.direction = "none" \/ PartyNamesThrow(r)

(* What a part has become in the raw text of a row.                        *)
RawPart(r, p) ==
    CASE r.direction = "INBOUND" /\ p = "quoteResponse" ->
            IF Parses(r[p]) THEN "object" ELSE "null"
      [] r.direction = "INBOUND" /\ p = "fulfil" /\ r[p] \in {"text", "malformed"} ->
            IF Parses(r[p]) THEN "object" ELSE "null"
      [] OTHER -> r[p]

(* stringifyTransferData; the headers it leaves out are not modelled.      *)
Raw(r) ==
    [direction |-> r.direction, currentState |-> r.currentState,
     parts |-> [p \in Parts |-> RawPart(r, p)], terms |-> r.terms, asks |-> r.asks]

-----------------------------------------------------------------------------
(* The three rows of a record.                                             *)

Amount(r) ==
    CASE r.direction = "OUTBOUND"  -> "record"
      [] ParsedBody(r, "quoteResponse") -> "quoteResponse"
      [] OTHER                     -> "quoteRequest"

TransferRow(r) ==
    IF r.kind # "transferModel" THEN NoRow
    ELSE [kind |-> "transfer",
          status |-> IF r.direction = "INBOUND" THEN getInboundTransferStatus(r)
                                                ELSE getTransferStatus(r),
          amount |-> Amount(r),
          created_at |-> r.initiatedTimestamp,
          raw |-> Raw(r),
          completed_at |-> CompletedTimestamp(r)]

(* A request of a transfer that has no body field is itself the body; the  *)
(* ids of a quote are '' when there is no body to take them from.          *)
TransferModelQuoteRow(r) ==
    IF ~(Parses(r.fxQuoteRequest) \/ r.fxQuoteRequest = "bare") THEN NoRow
    ELSE [kind |-> "fx_quote",
          status |-> getTransferStatus(r),
          ids |-> TRUE,
          response |-> Parses(r.fxQuoteResponse),
          raw |-> Raw(r),
          completed_at |-> CompletedTimestamp(r)]

FxQuoteInQuoteRow(r) ==
    IF ~(Parses(r.fxQuoteRequest) \/ r.fxQuoteRequest = "bare") THEN NoRow
    ELSE [kind |-> "fx_quote",
          status |-> getInboundTransferStatus(r),
          ids |-> Parses(r.fxQuoteRequest),
          response |-> Parses(r.fxQuoteResponse),
          raw |-> Raw(r),
          completed_at |-> CompletedTimestamp(r)]

FxQuoteRow(r) ==
    IF r.kind = "transferModel" THEN TransferModelQuoteRow(r) ELSE FxQuoteInQuoteRow(r)

(* conversion_state is '' until there is a response, or a fulfil, to read. *)
TransferModelFxRow(r) ==
    IF ~Parses(r.fxTransferRequest) THEN NoRow
    ELSE [kind |-> "fx_transfer",
          conversion_state |-> IF Parses(r.fxTransferResponse) THEN "set" ELSE "",
          direction |-> r.direction,
          completed_timestamp |-> IF Parses(r.fxTransferResponse) THEN "iso" ELSE ""]

FxQuoteInFxRow(r) ==
    IF ~(Parses(r.fxPrepare) \/ r.fxPrepare = "bare") THEN NoRow
    ELSE [kind |-> "fx_transfer",
          conversion_state |-> IF Parses(r.fulfil) THEN "set" ELSE "",
          direction |-> r.direction,
          completed_timestamp |-> IF CompletedTimestamp(r) THEN "number" ELSE "null"]

FxTransferRow(r) ==
    IF r.kind = "transferModel" THEN TransferModelFxRow(r) ELSE FxQuoteInFxRow(r)

-----------------------------------------------------------------------------
(* The write.  An error of MySQL is caught table by table.                 *)

(* Mutant: the rows of the two FX tables are swapped.                      *)
Row_Swapped(r, t) ==
    CASE t = "transfer" -> TransferRow(r)
      [] t = "fx_quote" -> FxTransferRow(r)
      [] OTHER          -> FxQuoteRow(r)

Row(r, t) ==
    CASE t = "transfer" -> TransferRow(r)
      [] t = "fx_quote" -> FxQuoteRow(r)
      [] OTHER          -> FxTransferRow(r)

(* MySQL takes the row.  The id of a transfer is not undefined and its     *)
(* created_at not null; direction is an integer column of fx_transfer and  *)
(* completed_timestamp a bigint one.                                       *)
Fits(r, t) ==
    /\ t = "transfer" => r.transferId /\ r.initiatedTimestamp
    /\ t = "fx_transfer" /\ sqlMode = "strict" =>
          /\ r.direction = "none"
          /\ FxTransferRow(r).completed_timestamp \in {"number", "null"}

(* An fxQuote_in record keeps its transfer only along with its quote.      *)
Offered(r, t) ==
    /\ Row(r, t) # NoRow
    /\ r.kind = "fxQuote_in" => FxQuoteRow(r) # NoRow

(* Mutant: 1 and 0 are turned into booleans before they are compared.      *)
Differs_Booleans(old, new, t) ==
    IF t = "fx_transfer" THEN old.conversion_state # new.conversion_state
                         ELSE old.status # new.status

(* success is read back as 1 or 0 and compared with true or false.         *)
Differs(old, new, t) ==
    IF t = "fx_transfer" THEN old.conversion_state # new.conversion_state
                         ELSE DbValue(old.status) # new.status

(* Select, then INSERT if there is no row or UPDATE if the state differs.  *)
Writes(r) ==
    {t \in Tables :
        /\ Offered(r, t)
        /\ Fits(r, t)
        /\ rows[t] = NoRow \/ Differs(rows[t], Row(r, t), t)}

-----------------------------------------------------------------------------
Init ==
    /\ rec \in {r \in Records : r.currentState = "pending"}
    /\ rows = [t \in Tables |-> NoRow]
    /\ lastSeen = Unseen
    /\ sqlMode \in SqlModes

(* The connector adds a part to the record, or ends its state.             *)
RedisAddsPart ==
    /\ \E p \in Parts, shape \in Shapes :
          /\ rec[p] = "absent" /\ shape # "absent"
          /\ rec' = [rec EXCEPT ![p] = shape]
    /\ rec' \in Records
    /\ UNCHANGED <<rows, lastSeen, sqlMode>>

RedisEnds ==
    /\ rec.currentState = "pending"
    /\ \E state \in EndStates : rec' = [rec EXCEPT !.currentState = state]
    /\ rec' \in Records
    /\ UNCHANGED <<rows, lastSeen, sqlMode>>

CacheKey ==
    /\ lastSeen' = rec
    /\ IF Skipped(rec)
         THEN UNCHANGED rows
         ELSE rows' = [t \in Tables |->
                         IF t \in Writes(rec) THEN Row(rec, t) ELSE rows[t]]
    /\ UNCHANGED <<rec, sqlMode>>

Next == RedisAddsPart \/ RedisEnds \/ CacheKey

Spec == Init /\ [][Next]_vars

-----------------------------------------------------------------------------
(* Properties.                                                             *)

(* Every table holds a row of its own kind, or none.                       *)
TypeOK ==
    /\ rec \in Records
    /\ lastSeen \in Records \cup {Unseen}
    /\ sqlMode \in SqlModes
    /\ DOMAIN rows = Tables
    /\ \A t \in Tables : rows[t].kind \in {t, "none"}

Ended(r) == r.currentState # "pending"

(* The record has what every row needs; its other parts may be missing.    *)
Readable(r) ==
    /\ r.value = "json"
    /\ r.kind = "transferModel" =>
          \/ r.direction = "OUTBOUND"
          \/ r.direction = "INBOUND" /\ r.quoteRequest = "object"

Processed == lastSeen # Unseen /\ Readable(lastSeen)

(* The rows of a record that succeeded say so, those of a failed one too,  *)
(* and a record still in progress has rows without a verdict, however late *)
(* its parts came and whatever rows it left on the way.                    *)
StatusAgrees ==
    Processed =>
        \A t \in {"transfer", "fx_quote"} :
            rows[t] # NoRow =>
                /\ rows[t].status = "true"
                     <=> lastSeen.currentState \in {"succeeded", "COMMITTED"}
                /\ rows[t].status = "false"
                     <=> lastSeen.currentState \in {"errored", "ABORTED"}

(* Once a record has ended its rows hold all it says, parts that came      *)
(* after the end included.  Only cacheKey's rewriting of rows whose state  *)
(* did not change (1 is never true) makes this so.                         *)
EndedRowsComplete ==
    Processed /\ Ended(lastSeen) =>
        \A t \in Tables : rows[t] # NoRow => rows[t] = Row(lastSeen, t)

(* A part of a transfer that is missing, malformed or refused costs only   *)
(* its own row: the transfer and its other rows are stored all the same.   *)
PartsIndependent ==
    Processed /\ lastSeen.kind = "transferModel" =>
        /\ lastSeen.transferId /\ lastSeen.initiatedTimestamp
             => rows["transfer"] # NoRow
        /\ lastSeen.fxQuoteRequest \in {"object", "text", "bare"}
             => rows["fx_quote"] # NoRow
        /\ sqlMode # "strict" /\ lastSeen.fxTransferRequest \in {"object", "text"}
             => rows["fx_transfer"] # NoRow

(* The FX transfer of a processed record is stored: fx_transfer is there   *)
(* to hold it (create_fxtransfer_table.js:12-38).                          *)
FxTransferStored ==
    Processed /\ Offered(lastSeen, "fx_transfer") => rows["fx_transfer"] # NoRow
=============================================================================
