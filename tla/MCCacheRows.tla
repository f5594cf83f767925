----------------------------- MODULE MCCacheRows -----------------------------
(* The records CacheRows is checked with: outbound transfers with an FX    *)
(* leg, inbound transfers and the FX quotes of an inbound transfer.        *)
EXTENDS Details

Outbound ==
    [kind : {"transferModel"}, value : {"json", "malformed"},
     direction : {"OUTBOUND", "none"},
     currentState : {"pending", "succeeded", "errored"},
     transferId : {TRUE}, initiatedTimestamp : BOOLEAN,
     quoteRequest : {"absent"}, quoteResponse : {"absent"},
     fulfil : {"absent", "object"},
     fxQuoteRequest : Shapes, fxQuoteResponse : {"absent", "text", "malformed"},
     fxTransferRequest : {"absent", "text", "malformed"},
     fxTransferResponse : {"absent", "object", "malformed"},
     fxPrepare : {"absent"}, finalNotification : {"absent"}, terms : {None}, asks : {TRUE}]

Inbound ==
    [kind : {"transferModel"}, value : {"json"}, direction : {"INBOUND"},
     currentState : {"pending", "COMMITTED", "ABORTED"},
     transferId : BOOLEAN, initiatedTimestamp : {TRUE},
     quoteRequest : {"absent", "object", "text"},
     quoteResponse : {"absent", "text", "malformed"},
     fulfil : {"absent", "bare", "text", "malformed"},
     fxQuoteRequest : {"absent"}, fxQuoteResponse : {"absent"},
     fxTransferRequest : {"absent"}, fxTransferResponse : {"absent"},
     fxPrepare : {"absent"}, finalNotification : {"absent"}, terms : {None}, asks : {TRUE}]

FxQuoteIn ==
    [kind : {"fxQuote_in"}, value : {"json"}, direction : {"INBOUND", "none"},
     currentState : {"pending", "COMMITTED", "ABORTED"},
     transferId : {FALSE}, initiatedTimestamp : BOOLEAN,
     quoteRequest : {"absent"}, quoteResponse : {"absent"},
     fulfil : {"absent", "bare", "text", "malformed"},
     fxQuoteRequest : {"absent", "object", "malformed"},
     fxQuoteResponse : {"absent", "object", "malformed"},
     fxTransferRequest : {"absent"}, fxTransferResponse : {"absent"},
     fxPrepare : {"absent", "bare", "text", "malformed"},
     finalNotification : {"absent", "object"}, terms : {None}, asks : {TRUE}]

Charges ==
    LET Paid == {[amount |-> 1, currency |-> "source"], [amount |-> 2, currency |-> "target"],
                 [amount |-> 3, currency |-> "other"], [amount |-> Text, currency |-> "source"]}
    IN {[sourceAmount |-> s, targetAmount |-> None] : s \in Paid}
       \cup {[sourceAmount |-> None, targetAmount |-> t] : t \in Paid}
       \cup {[sourceAmount |-> s, targetAmount |-> s] : s \in Paid}

(* Quotes with up to two charges, some as large as the amounts, and with   *)
(* up to one if an amount is no number or not there.                       *)
AllQuotes ==
    [sourceAmount : {Missing, 0, 2, 7}, targetAmount : {Missing, 3, 20},
     charges : {None} \cup SeqOf(Charges, 2)]
    \cup
    [sourceAmount : {None, Text, 7}, targetAmount : {None, Text, 20},
     charges : {None} \cup SeqOf(Charges, 1)]

(* An outbound transfer whose quote has terms. *)
Quoted(terms, asks) ==
    [kind : {"transferModel"}, value : {"json"}, direction : {"OUTBOUND"},
     currentState : {"pending", "succeeded"},
     transferId : {TRUE}, initiatedTimestamp : {TRUE},
     quoteRequest : {"absent", "malformed"}, quoteResponse : {"absent"}, fulfil : {"absent"},
     fxQuoteRequest : {"object"}, fxQuoteResponse : {"absent", "text"},
     fxTransferRequest : {"absent"}, fxTransferResponse : {"absent"},
     fxPrepare : {"absent"}, finalNotification : {"absent"}, terms : terms, asks : asks]

AllRecords ==
    Quoted(AllQuotes, {TRUE}) \cup Quoted({None, Text}, BOOLEAN)
    \cup Outbound \cup Inbound \cup FxQuoteIn
=============================================================================
