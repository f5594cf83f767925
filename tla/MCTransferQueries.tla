-------------------------- MODULE MCTransferQueries --------------------------
(* Three transfers, two of them created at one instant; two instants of a  *)
(* report fall into one group.  The requests differ in what they filter by *)
(* and in the rows they ask for.                                           *)
EXTENDS TransferQueries

Transfer(at, direction, currency, amount, satisfies) ==
    [created_at |-> at, direction |-> direction, currency |-> currency,
     amount |-> amount, satisfies |-> satisfies]

Rows ==
    {[i \in Ids |-> CASE i = 1 -> Transfer(at[1], 1, "EUR", 1, {"recipient"})
                      [] i = 2 -> Transfer(at[2], 1, "USD", 2, {"sender"})
                      [] i = 3 -> Transfer(at[3], -1, "EUR", 4, {"sender"})] :
        at \in {<<1, 1, 2>>, <<2, 1, 1>>, <<3, 2, 1>>}}

List(limit) ==
    [status |-> None, startTimestamp |-> None, endTimestamp |-> None,
     direction |-> None, filters |-> {}, batchId |-> FALSE, limit |-> limit]

Queries ==
    {List(limit) : limit \in {None, 0, 1, 2}}
    \cup {[List(1) EXCEPT !.status = s] : s \in {"PENDING", "SUCCESS"}}
    \cup {[List(2) EXCEPT !.startTimestamp = 1, !.endTimestamp = 2, !.status = "other"],
          [List(1) EXCEPT !.filters = {"sender"}, !.direction = "INBOUND"],
          [List(1) EXCEPT !.batchId = TRUE, !.direction = "OUTBOUND"]}
=============================================================================
