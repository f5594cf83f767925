-------------------------------- MODULE Details --------------------------------
(***************************************************************************)
(* The details of a transfer (Transfer.details) and of an FX conversion    *)
(* (FxpConversion.details), computed from the rows cacheKey stored.  Both  *)
(* take most of what they show from raw, the record as a row keeps it, and *)
(* join the row with those of the other tables.                            *)
(***************************************************************************)
EXTENDS CacheRows

-----------------------------------------------------------------------------
(* A transfer.                                                             *)

(* _parseRawTransferRequestBodies: every text becomes an object, unless    *)
(* one does not parse; then all of them remain texts.                      *)
TransferParts(raw) ==
    LET parsed == Parts \ {"fxPrepare", "finalNotification"}
    IN IF \E p \in parsed : raw.parts[p] = "malformed" THEN raw.parts
       ELSE [p \in Parts |-> IF p \in parsed /\ raw.parts[p] = "text" THEN "object"
                                                                     ELSE raw.parts[p]]

NoBody(shape) == shape \in {"bare", "null"}

(* The terms the details of a transfer read, if they find any. *)
TransferTerms(raw) == IF TransferParts(raw).fxQuoteResponse = "object" THEN raw.terms ELSE None

(* Mutant: a transfer without a quoteRequest has no parties to show.       *)
TransferThrows_NoQuote(raw) ==
    \/ NoBody(raw.parts.fulfil)
    \/ raw.parts.fulfil = "absent" /\ NoBody(raw.parts.fxTransferResponse)
    \/ NoBody(raw.parts.fxQuoteResponse) \/ TermsThrow(TransferTerms(raw))
    \/ raw.parts.quoteRequest = "absent" \/ NoBody(raw.parts.quoteRequest)

(* A field of a body that is undefined or null: the route answers 500.     *)
TransferThrows(raw) ==
    \/ NoBody(raw.parts.fulfil)
    \/ raw.parts.fulfil = "absent" /\ NoBody(raw.parts.fxTransferResponse)
    \/ NoBody(raw.parts.fxQuoteResponse) \/ TermsThrow(TransferTerms(raw))
    \/ NoBody(raw.parts.quoteRequest)

(* The exchange rate among its terms, if there are any to read.            *)
RateOfTransfer(raw) ==
    IF TransferTerms(raw) = None THEN None ELSE TransferRate(raw.terms)

-----------------------------------------------------------------------------
(* A conversion.                                                           *)

(* The terms the details of a conversion read: a body that does not parse  *)
(* throws before.                                                          *)
ConversionTerms(raw) == IF raw.parts.fxQuoteResponse = "absent" THEN None ELSE raw.terms

ConversionThrows(raw) ==
    \/ \E p \in {"fxQuoteResponse", "fxQuoteRequest", "fxPrepare", "fulfil"} :
          raw.parts[p] = "malformed"
    \/ NoBody(raw.parts.fxQuoteRequest)
    \/ raw.parts.fxQuoteRequest # "absent" /\ ~raw.asks
    \/ NoBody(raw.parts.fxQuoteResponse) \/ TermsThrow(ConversionTerms(raw))
    \/ raw.direction = "OUTBOUND" /\ raw.parts.fxTransferRequest \in {"object", "malformed"}

(* Mutant: a final notification makes no difference.                       *)
StateOfConversion_NotFinal(quote, fxTransfer) ==
    IF fxTransfer = NoRow \/ fxTransfer.conversion_state = "" THEN quote.raw.currentState
    ELSE fxTransfer.conversion_state

(* _getConversionState: the state in fx_transfer, or that of the record.   *)
StateOfConversion(quote, fxTransfer) ==
    IF \/ quote.raw.parts.finalNotification # "absent"
       \/ fxTransfer = NoRow
       \/ fxTransfer.conversion_state = ""
    THEN quote.raw.currentState
    ELSE fxTransfer.conversion_state

RateOfConversion(raw) ==
    IF ConversionTerms(raw) = None THEN None ELSE ConversionRate(raw.terms)

-----------------------------------------------------------------------------
(* Properties.                                                             *)

(* Every transfer that is stored can be shown, even if some of its bodies  *)
(* do not parse, and so can a conversion whose bodies do.  Excepted are    *)
(* parts without a body; conversion terms that do not parse or lack an     *)
(* amount object; for transfers a malformed fulfil of an inbound one,      *)
(* which parseData has made a part without a body; for conversions an      *)
(* fxQuoteRequest that asks for no amount (cacheKey stores them all, with  *)
(* '' for what is missing) and an fxTransferRequest that is an object,     *)
(* which is parsed as if it were a text.                                   *)
DetailsAnswered ==
    /\ Processed
    /\ \A p \in Parts : lastSeen[p] # "bare"
    /\ ~TermsThrow(lastSeen.terms)
    => /\ /\ rows["transfer"] # NoRow
          /\ lastSeen.direction = "INBOUND" => lastSeen.fulfil # "malformed"
          => ~TransferThrows(rows["transfer"].raw)
       /\ /\ rows["fx_quote"] # NoRow
          /\ lastSeen.asks
          /\ lastSeen.fxTransferRequest # "object"
          /\ \A p \in Parts : lastSeen[p] # "malformed"
          => ~ConversionThrows(rows["fx_quote"].raw)

(* The state shown for a conversion, put together from rows of two tables, *)
(* is that of the record they were last written from: what its FX transfer *)
(* was answered, or else, or after a final notification, its own state.    *)
(* Where MySQL refuses the row of the FX transfer, as in its strict mode   *)
(* it refuses every row with a direction, the answer is lost and the       *)
(* record's own state takes its place.                                     *)
ConversionStateShown ==
    LET quote == rows["fx_quote"]
        answered == IF lastSeen.kind = "transferModel"
                      THEN Parses(lastSeen.fxTransferRequest) /\ Parses(lastSeen.fxTransferResponse)
                      ELSE /\ lastSeen.fxPrepare \in {"object", "text", "bare"}
                           /\ Parses(lastSeen.fulfil)
        kept == Fits(lastSeen, "fx_transfer")
    IN  Processed /\ Ended(lastSeen) /\ quote # NoRow /\ ~ConversionThrows(quote.raw) =>
          StateOfConversion(quote, rows["fx_transfer"]) =
              IF answered /\ kept /\ lastSeen.finalNotification = "absent"
                THEN "set"
                ELSE lastSeen.currentState

(* Once a transfer has ended, its details and those of its conversion show *)
(* the quote at one rate, as long as its charges are there, its amounts    *)
(* are numbers and all its parts parse (with one that does not, the        *)
(* details of the transfer leave its texts unparsed and find no rate,      *)
(* Transfer.js:147); the rate turns what the charges leave of the source   *)
(* amount into what they leave of the target amount, up to rounding,       *)
(* charges in other currencies left out (Transfer.js:307-317,              *)
(* FxpConversion.js:118-135).                                              *)
RatesAgree ==
    LET transfer == rows["transfer"].raw
        conversion == rows["fx_quote"].raw
        q == lastSeen.terms
        s == q.sourceAmount - Reference(q, "source")
        t == q.targetAmount - Reference(q, "target")
    IN  /\ Processed /\ Ended(lastSeen) /\ rows["transfer"] # NoRow /\ rows["fx_quote"] # NoRow
        /\ ~TransferThrows(transfer) /\ ~ConversionThrows(conversion)
        /\ q \in Quotes /\ NumericAmounts(q) /\ Summable(q, "source") /\ Summable(q, "target")
        /\ \A p \in Parts : lastSeen[p] # "malformed"
        => /\ RateOfTransfer(transfer) = RateOfConversion(conversion)
           /\ RateOfConversion(conversion) # None =>
                2 * Abs(RateOfConversion(conversion) * s - 10000 * t) <= Abs(s)

(* "If the totalTargetCharges and totalSourceCharges are null because of   *)
(* there being no charges the result should not evaluate to Nan"           *)
(* (Transfer.js:311): once it has ended, a transfer whose quote holds two  *)
(* amounts shows a number for its rate, and the right one, though charges  *)
(* are missing or no numbers; those of a side that cannot be added up      *)
(* count nothing.  There is none to show if the charges leave nothing to   *)
(* divide by, and with a part that does not parse none is found.           *)
RateShown ==
    LET transfer == rows["transfer"].raw
        q == lastSeen.terms
        s == q.sourceAmount - Due(q, "source")
        t == q.targetAmount - Due(q, "target")
    IN  /\ Processed /\ Ended(lastSeen) /\ rows["transfer"] # NoRow /\ ~TransferThrows(transfer)
        /\ lastSeen.fxQuoteResponse # "absent"
        /\ \A p \in Parts : lastSeen[p] # "malformed"
        /\ q \in Quotes /\ NumericAmounts(q) /\ s # 0
        => /\ RateOfTransfer(transfer) \in Int
           /\ 2 * Abs(RateOfTransfer(transfer) * s - 10000 * t) <= Abs(s)
=============================================================================
