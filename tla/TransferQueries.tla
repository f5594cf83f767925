--------------------------- MODULE TransferQueries ---------------------------
(***************************************************************************)
(* The queries of the transfer table (src/lib/model/Transfer.js) as the    *)
(* handlers ask them, while the sync writes the table: the list that is    *)
(* paged with a cursor, the count, and the reports of the dashboard.       *)
(*                                                                         *)
(* A row is created at an instant known before it is stored (the           *)
(* initiatedTimestamp of its record), so rows may appear behind a cursor.  *)
(* The filters that compare one column with a pattern are a set of names;  *)
(* a row names those it satisfies.                                         *)
(***************************************************************************)
EXTENDS Integers, FiniteSetsExt

CONSTANTS
    Ids,          \* the transfers, numbered in the order of their ids
    Filters,      \* the filters on id, sender, recipient and institution
    Tables,       \* the tables considered: what the rows hold once stored
    Requests,     \* the queries a client sends
    DefaultLimit, \* what hasMore assumes of a request without a limit (50)
    BucketWidth,  \* instants MySQL puts in one group of created_at / (60 * 1000)
    None          \* an option that was not given

Statuses == {"PENDING", "SUCCESS", "ERROR"}

Row == [created_at : Nat, direction : {-1, 1}, currency : STRING, amount : Nat,
        satisfies : SUBSET Filters]

Request ==
    [status : Statuses \cup {"other", None},
     startTimestamp : Nat \cup {None}, endTimestamp : Nat \cup {None},
     direction : {"INBOUND", "OUTBOUND", "other", None},
     filters : SUBSET Filters,
     batchId : BOOLEAN,
     limit : Nat \cup {None}]

ASSUME QueriesAssumption ==
    /\ Ids \subseteq Nat /\ IsFiniteSet(Ids)
    /\ Tables \subseteq [Ids -> Row]
    /\ Requests \subseteq Request
    /\ DefaultLimit \in Nat \ {0} /\ BucketWidth \in Nat \ {0}
    /\ None \notin Nat \cup Statuses \cup {"INBOUND", "OUTBOUND", "other", "absent"}
    /\ None \notin [created_at : Nat, id : Nat]

VARIABLES
    rows,     \* what the rows hold once they are stored
    status,   \* the status of each row, "absent" before it is stored
    opts,     \* what the client asked for
    scanning, \* does the client ask for another page?
    cursor,   \* the nextCursor it was given
    page,     \* the rows of the last page
    answer,   \* how the last page was answered
    rate,     \* the successRate request that is going on
    got,      \* ghost: the rows of the pages before
    kept,     \* ghost: the rows that matched ever since the first page
    counted   \* ghost: count(opts) at the first page, None once the table changed

table == <<rows, status>>
list == <<opts, scanning, cursor, page, answer, got, kept, counted>>
vars == <<rows, status, opts, scanning, cursor, page, answer, rate, got, kept, counted>>

Stored == {i \in Ids : status[i] # "absent"}

-----------------------------------------------------------------------------
(* findAll and count.                                                      *)

Within(i, start, end) ==
    /\ start # None => rows[i].created_at >= start
    /\ end # None => rows[i].created_at < end

InDirection(i, direction) ==
    /\ direction = "INBOUND" => rows[i].direction = -1
    /\ direction = "OUTBOUND" => rows[i].direction = 1

(* The column success as MySQL returns it: null, 1 or 0.                   *)
success(i) ==
    CASE status[i] = "PENDING" -> None
      [] status[i] = "SUCCESS" -> 1
      [] OTHER                 -> 0

(* Whatever is not PENDING or SUCCESS asks for 0.                          *)
HasStatus(i, asked) ==
    asked # None =>
        success(i) = CASE asked = "PENDING" -> None
                       [] asked = "SUCCESS" -> 1
                       [] OTHER             -> 0

(* The filters of findAll.  No row has a batch yet (batch_id is '').       *)
Matches(i, o) ==
    /\ i \in Stored
    /\ Within(i, o.startTimestamp, o.endTimestamp)
    /\ o.filters \subseteq rows[i].satisfies
    /\ InDirection(i, o.direction)
    /\ ~o.batchId
    /\ HasStatus(i, o.status)

Matching == {i \in Ids : Matches(i, opts)}

(* Mutant: the end of the range is counted.                                *)
Count_EndIncluded(o) ==
    Cardinality({i \in Stored :
        /\ o.startTimestamp # None => rows[i].created_at >= o.startTimestamp
        /\ o.endTimestamp # None => rows[i].created_at <= o.endTimestamp
        /\ o.filters \subseteq rows[i].satisfies
        /\ InDirection(i, o.direction)
        /\ ~o.batchId
        /\ HasStatus(i, o.status)})

(* count repeats the filters of findAll.                                   *)
Count(o) ==
    Cardinality({i \in Stored :
        /\ Within(i, o.startTimestamp, o.endTimestamp)
        /\ o.filters \subseteq rows[i].satisfies
        /\ InDirection(i, o.direction)
        /\ ~o.batchId
        /\ HasStatus(i, o.status)})

-----------------------------------------------------------------------------
(* Cursor pagination.                                                      *)

(* Mutant: the timestamp of the cursor loses its milliseconds.             *)
Position_Seconds(i) ==
    [created_at |-> BucketWidth * (rows[i].created_at \div BucketWidth), id |-> i]

Position(i) == [created_at |-> rows[i].created_at, id |-> i]

(* Mutant: the row the last page ended with comes again.                   *)
Before_Again(p, q) ==
    \/ p.created_at < q.created_at
    \/ p.created_at = q.created_at /\ p.id <= q.id

Before(p, q) ==
    \/ p.created_at < q.created_at
    \/ p.created_at = q.created_at /\ p.id < q.id

(* Mutant: rows created at the same instant as the cursor are left out.    *)
Candidates_InstantOnly ==
    {i \in Matching : cursor # None => rows[i].created_at < cursor.created_at}

Candidates ==
    {i \in Matching : cursor # None => Before(Position(i), cursor)}

Older(i, j) ==
    \/ rows[i].created_at < rows[j].created_at
    \/ rows[i].created_at = rows[j].created_at /\ i < j

(* Mutant: the page is the oldest rows.                                    *)
IsPage_Ascending(S) ==
    /\ S \subseteq Candidates
    /\ \A i \in Candidates \ S, j \in S : Older(j, i)
    /\ \/ S = Candidates /\ (opts.limit # None => Cardinality(S) <= opts.limit)
       \/ S # Candidates /\ opts.limit # None /\ Cardinality(S) = opts.limit

(* ORDER BY created_at DESC, id DESC LIMIT limit, if there is one.         *)
IsPage(S) ==
    /\ S \subseteq Candidates
    /\ \A i \in Candidates \ S, j \in S : Older(i, j)
    /\ \/ S = Candidates /\ (opts.limit # None => Cardinality(S) <= opts.limit)
       \/ S # Candidates /\ opts.limit # None /\ Cardinality(S) = opts.limit

(* Mutant: a page that is not too long promises another.                   *)
HasMore_NotFull(S) ==
    Cardinality(S) <= IF opts.limit = None THEN DefaultLimit ELSE opts.limit

HasMore(S) ==
    Cardinality(S) = IF opts.limit = None THEN DefaultLimit ELSE opts.limit

-----------------------------------------------------------------------------
(* Reports.                                                                *)

(* Mutant: rows that ended count as successes.                             *)
Succeeded_Ended(i) == status[i] \in {"SUCCESS", "ERROR"}

Succeeded(i) == status[i] = "SUCCESS"

Oldest(S) == Min({rows[i].created_at : i \in S})

(* GROUP BY created_at / (60 * 1000).  In MySQL / does not truncate: it    *)
(* keeps four decimals, some milliseconds, and the timestamp of a group    *)
(* is that of its oldest row.                                              *)
Buckets(S) ==
    {{i \in S : rows[i].created_at \div BucketWidth = b} :
        b \in {rows[i].created_at \div BucketWidth : i \in S}}

Recent(since) == {i \in Stored : rows[i].created_at > since}

(* One of the two queries of successRate.                                  *)
StatQuery(S) ==
    {[timestamp |-> Oldest(B), count |-> Cardinality(B)] : B \in Buckets(S)}

(* Per group of all rows, the share of the group of successes that has the *)
(* same timestamp.                                                         *)
Percentages(successStat, allStat) ==
    {[timestamp |-> all.timestamp,
      percentage |->
        LET same == {s \in successStat : s.timestamp = all.timestamp}
        IN IF same = {} THEN 0
           ELSE ((CHOOSE s \in same : TRUE).count * 100) \div all.count] : all \in allStat}

(* Mutant: 0 is not among the keys.                                        *)
STATUSES_NoError == [v \in {None, 1} |-> IF v = None THEN "PENDING" ELSE "SUCCESS"]

STATUSES ==
    [v \in {None, 1, 0} |->
        CASE v = None -> "PENDING"
          [] v = 1    -> "SUCCESS"
          [] OTHER    -> "ERROR"]

StatusOf(v) == IF v \in DOMAIN STATUSES THEN STATUSES[v] ELSE "undefined"

(* GROUP BY success: only the values that occur have a group.              *)
SuccessGroups(S) ==
    {[success |-> v, count |-> Cardinality({i \in S : success(i) = v})] :
        v \in {success(i) : i \in S}}

(* Every status is entered with 0; the groups overwrite these entries.     *)
statusSummary(start, end) ==
    LET groups == SuccessGroups({i \in Stored : Within(i, start, end)})
        of(s)  == {g \in groups : StatusOf(g.success) = s}
    IN [s \in {STATUSES[v] : v \in DOMAIN STATUSES}
                 \cup {StatusOf(g.success) : g \in groups} |->
           IF of(s) = {} THEN 0 ELSE (CHOOSE g \in of(s) : TRUE).count]

Groups(S) ==
    {{i \in B : rows[i].currency = k[1] /\ rows[i].direction = k[2]} :
        B \in Buckets(S), k \in {<<rows[i].currency, rows[i].direction>> : i \in S}} \ {{}}

Amount(S) == MapThenSumSet(LAMBDA i : rows[i].amount, S)

(* Mutant: the entries are found by their timestamp alone.                 *)
FlowKey_Timestamp(G) == [timestamp |-> Oldest(G)]

FlowKey(G) == [timestamp |-> Oldest(G), currency |-> rows[CHOOSE i \in G : TRUE].currency]

(* hourlyFlow: the last group of a key and direction is the one shown.     *)
Shown(since, k, direction) ==
    LET groups == {G \in Groups(Recent(since)) :
                     FlowKey(G) = k /\ \A i \in G : rows[i].direction = direction}
    IN IF groups = {} THEN 0 ELSE Amount(CHOOSE G \in groups : TRUE)

hourlyFlow(since) ==
    {[key |-> k, inbound |-> Shown(since, k, -1), outbound |-> Shown(since, k, 1)] :
        k \in {FlowKey(G) : G \in Groups(Recent(since))}}

-----------------------------------------------------------------------------
NoRate == [since |-> None, success |-> {}, answer |-> {}]

Init ==
    /\ rows \in Tables
    /\ status = [i \in Ids |-> "absent"]
    /\ opts \in Requests
    /\ scanning = FALSE
    /\ cursor = None /\ page = {} /\ answer = "none"
    /\ rate = NoRate
    /\ got = {} /\ kept = {} /\ counted = None

(* cacheKey inserts a row, or updates one that was pending.                *)
SyncWrites ==
    /\ \E i \in Ids, s \in Statuses :
          /\ \/ status[i] = "absent"
             \/ status[i] = "PENDING" /\ s # "PENDING"
          /\ status' = [status EXCEPT ![i] = s]
    /\ UNCHANGED <<rows, opts, scanning, cursor, page, answer, rate, got>>
    /\ kept' = kept \intersect Matching'
    /\ counted' = None

(* The client leaves the dashboard and opens a list, without a cursor.     *)
Open ==
    /\ ~scanning /\ rate.since = None
    /\ opts' \in Requests
    /\ scanning' = TRUE
    /\ cursor' = None /\ page' = {} /\ answer' = "none"
    /\ got' = {}
    /\ rate' = NoRate
    /\ UNCHANGED <<rows, status>>
    /\ kept' = Matching'
    /\ counted' = Count(opts')

(* getTransfers with a filter on batchId: there is no such column.         *)
BatchFails ==
    /\ scanning /\ opts.batchId
    /\ answer' = "500"
    /\ scanning' = FALSE
    /\ got' = got \cup page
    /\ page' = {}
    /\ UNCHANGED <<rows, status, opts, cursor, rate, kept, counted>>

(* getTransfers: the page, and the cursor of the next one.                 *)
getTransfers ==
    /\ scanning /\ ~opts.batchId
    /\ page' \in SUBSET Ids
    /\ IsPage(page')
    /\ \/ page' = {} /\ UNCHANGED cursor
       \/ \E i \in page' :
             /\ \A j \in page' \ {i} : Older(i, j)
             /\ cursor' = Position(i)
    /\ answer' = "200"
    /\ scanning' = HasMore(page')
    /\ got' = got \cup page
    /\ UNCHANGED <<rows, status, opts, rate, kept, counted>>

(* successRate, on a dashboard that has opened no list yet: the successes  *)
(* are counted first ...                                                   *)
RateFirst(since) ==
    /\ ~scanning /\ answer = "none" /\ rate.since = None
    /\ rate' = [since |-> since, answer |-> {},
                success |-> StatQuery({i \in Recent(since) : Succeeded(i)})]
    /\ UNCHANGED <<table, list>>

(* ... and all rows second.                                                *)
RateSecond ==
    /\ rate.since # None
    /\ rate' = [since |-> None, success |-> {},
                answer |-> Percentages(rate.success, StatQuery(Recent(rate.since)))]
    /\ UNCHANGED <<table, list>>

Since == {0} \cup {rows[i].created_at : i \in Ids}

Next ==
    \/ SyncWrites \/ Open \/ BatchFails \/ getTransfers
    \/ \E since \in Since : RateFirst(since)
    \/ RateSecond

(* The client goes on as long as it is promised more.                      *)
Fairness == WF_vars(getTransfers) /\ WF_vars(BatchFails)

Spec == Init /\ [][Next]_vars /\ Fairness

-----------------------------------------------------------------------------
(* Properties.                                                             *)

TypeOK ==
    /\ rows \in Tables
    /\ status \in [Ids -> Statuses \cup {"absent"}]
    /\ opts \in Requests
    /\ scanning \in BOOLEAN
    /\ cursor # None => \E i \in Ids : cursor = [created_at |-> rows[i].created_at, id |-> i]
    /\ page \subseteq Ids /\ got \subseteq Ids /\ kept \subseteq Ids

(* A list that has been read to its end has shown every transfer that      *)
(* matched all along, whatever the sync wrote between the pages and even   *)
(* if several transfers were created at the same instant.                  *)
Complete == ~scanning => kept \subseteq got \cup page

(* No page shows a transfer again, and pages go strictly back in time.     *)
NoRepeats == \A i \in page, j \in got : Older(i, j)

(* count and findAll filter alike: as long as the sync writes nothing, a   *)
(* list read to its end has as many rows as count has promised.            *)
CountMatchesList ==
    ~scanning /\ counted # None => Cardinality(got \cup page) = counted

(* The summary by status agrees with the lists: it has an entry for each   *)
(* status, even one no row has, and no other, and the entry gives the      *)
(* number count gives for the status in the same range.                    *)
SummaryMatchesCounts ==
    \A start, end \in Since \cup {None} :
        statusSummary(start, end) =
            [s \in Statuses |->
                Count([status |-> s, startTimestamp |-> start, endTimestamp |-> end,
                       direction |-> None, filters |-> {}, batchId |-> FALSE,
                       limit |-> None])]

(* No amount gets lost between the groups MySQL returns and the entries of *)
(* the hourly flow: their sums are the sum of all recent transfers.        *)
FlowKeepsAmounts ==
    \A since \in Since :
        MapThenSumSet(LAMBDA e : e.inbound + e.outbound, hourlyFlow(since))
            = Amount(Recent(since))

(* successRate takes the successes and the totals at two moments.  A rate  *)
(* it answers never exceeds the share that had succeeded by the second.    *)
RateNeverOverstated ==
    [][rate.since # None /\ rate'.since = None =>
         \A e \in rate'.answer :
            LET B == {i \in Recent(rate.since) :
                        rows[i].created_at \div BucketWidth = e.timestamp \div BucketWidth}
            IN e.percentage * Cardinality(B)
                 <= 100 * Cardinality({i \in B : status[i] = "SUCCESS"})]_vars

(* A client that asks for at least one row a page gets to the end.         *)
PagingEnds == scanning /\ opts.limit # 0 ~> ~scanning

(* The list is the paged list its clients expect.                          *)
R == INSTANCE RangeScan WITH
        created <- [i \in Ids |-> rows[i].created_at],
        matching <- Matching,
        scanning <- scanning, cursor <- cursor, page <- page,
        got <- got, kept <- kept
RangeScanSpec == R!Spec
=============================================================================
