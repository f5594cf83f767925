-------------------------- MODULE ConversionQueries --------------------------
(***************************************************************************)
(* The list of FX conversions (FxpConversion.findAll), paged with an       *)
(* offset, oldest conversion first, while the sync writes the table        *)
(* fx_quote.  Rows created at the same instant come in any order, which    *)
(* may differ from one query to the next.                                  *)
(***************************************************************************)
EXTENDS Integers, FiniteSets

CONSTANTS
    Ids,          \* the conversions
    Tables,       \* the tables considered: what the rows hold once stored
    Requests,     \* the lists a client asks for
    DefaultLimit, \* rows of a page when no limit is given (100)
    None          \* an option that was not given

Statuses == {"PENDING", "SUCCESS", "ERROR"}

Row == [created_at : Nat, direction : {"INBOUND", "OUTBOUND"}, lastError : BOOLEAN]

Request ==
    [status : Statuses \cup {"other", None},
     startTimestamp : Nat \cup {None}, endTimestamp : Nat \cup {None},
     direction : {"INBOUND", "OUTBOUND", None},
     limit : Nat \cup {None}]

ASSUME QueriesAssumption ==
    /\ IsFiniteSet(Ids)
    /\ Tables \subseteq [Ids -> Row]
    /\ Requests \subseteq Request
    /\ DefaultLimit \in Nat

VARIABLES
    rows,     \* what the rows hold once they are stored
    status,   \* the status of each row, "absent" before it is stored
    opts,     \* what the client asked for
    scanning, \* does the client ask for another page?
    offset,   \* the rows it has been given before
    page,     \* the rows of the last page
    answer,   \* how the last page was answered
    got,      \* ghost: the rows of the pages before
    kept,     \* ghost: the rows that matched ever since the first page
    shifted   \* ghost: did the rows already handed out cease to be the oldest?

vars == <<rows, status, opts, scanning, offset, page, answer, got, kept, shifted>>

HasStatus(i, asked) ==
    asked # None => status[i] = IF asked \in {"PENDING", "SUCCESS"} THEN asked ELSE "ERROR"

(* The filters of findAll; institution and batchId are not looked at.      *)
Matches(i, o) ==
    /\ status[i] # "absent"
    /\ o.startTimestamp # None => rows[i].created_at >= o.startTimestamp
    /\ o.endTimestamp # None => rows[i].created_at < o.endTimestamp
    /\ o.direction # None => rows[i].direction = o.direction
    /\ HasStatus(i, o.status)

Matching == {i \in Ids : Matches(i, opts)}

Limit == IF opts.limit = None THEN DefaultLimit ELSE opts.limit

(* Mutant: the newest rows come first.                                     *)
OldestFirst_Descending(P) ==
    /\ P \subseteq Matching
    /\ \A i \in P, j \in Matching \ P : rows[i].created_at >= rows[j].created_at

(* ORDER BY created_at.                                                    *)
OldestFirst(P) ==
    /\ P \subseteq Matching
    /\ \A i \in P, j \in Matching \ P : rows[i].created_at <= rows[j].created_at

Smaller(a, b) == IF a < b THEN a ELSE b

(* LIMIT Limit OFFSET offset.                                              *)
Pages ==
    LET n == Cardinality(Matching)
        Prefixes(k) == {P \in SUBSET Matching : Cardinality(P) = Smaller(k, n) /\ OldestFirst(P)}
    IN {S \in SUBSET Matching :
          \E P \in Prefixes(offset), Q \in Prefixes(offset + Limit) : P \subseteq Q /\ S = Q \ P}

(* An error row is shown with its lastError; without one this throws, and  *)
(* the whole list with it.                                                 *)
Throws(i) == status[i] = "ERROR" /\ ~rows[i].lastError

(* The client asks for the rows after those it has been given.             *)
NextOffset == offset + Limit

Init ==
    /\ rows \in Tables
    /\ status = [i \in Ids |-> "absent"]
    /\ opts \in Requests
    /\ scanning = FALSE
    /\ offset = 0 /\ page = {} /\ answer = "none"
    /\ got = {} /\ kept = {} /\ shifted = FALSE

(* cacheKey inserts a row, or updates one that was pending.                *)
SyncWrites ==
    /\ UNCHANGED <<rows, opts, scanning, offset, page, answer, got>>
    /\ \E i \in Ids, s \in Statuses :
          /\ \/ status[i] = "absent"
             \/ status[i] = "PENDING" /\ s # "PENDING"
          /\ status' = [status EXCEPT ![i] = s]
          /\ LET moved == /\ (i \in Matching) # (i \in Matching')
                          /\ \E j \in got \cup page : rows[i].created_at <= rows[j].created_at
             IN shifted' = (shifted \/ moved)
    /\ kept' = kept \intersect Matching'

Open ==
    /\ ~scanning
    /\ opts' \in Requests
    /\ UNCHANGED <<rows, status>>
    /\ scanning' = TRUE
    /\ offset' = 0 /\ page' = {} /\ answer' = "none"
    /\ got' = {} /\ kept' = Matching' /\ shifted' = FALSE

(* getFxpConversions; the client asks for more while pages are full.       *)
getFxpConversions ==
    /\ scanning
    /\ \E S \in Pages :
          \/ /\ \A i \in S : ~Throws(i)
             /\ page' = S /\ answer' = "200"
             /\ scanning' = (Cardinality(S) = Limit)
          \/ /\ \E i \in S : Throws(i)
             /\ page' = {} /\ answer' = "500"
             /\ scanning' = FALSE
    /\ offset' = NextOffset
    /\ got' = got \cup page
    /\ UNCHANGED <<rows, status, opts, kept, shifted>>

Next == SyncWrites \/ Open \/ getFxpConversions

Spec == Init /\ [][Next]_vars

-----------------------------------------------------------------------------
(* Properties.                                                             *)

Distinct == \A i, j \in Ids : i # j => rows[i].created_at # rows[j].created_at

(* Conversions that are stored while a client pages, newer than what it    *)
(* has seen, do no harm: as long as nothing happens among the rows already *)
(* shown, and no two are created at once, no row is repeated, and at the   *)
(* end every conversion that matched all along has been shown.             *)
AppendsAreSafe ==
    answer # "500" /\ ~shifted /\ Distinct =>
        /\ page \cap got = {}
        /\ ~scanning => kept \subseteq got \cup page
=============================================================================
