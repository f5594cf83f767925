------------------------- MODULE MCConversionQueries -------------------------
(* Three conversions in three orders, once with ties; the second one has   *)
(* no lastError to show should it fail.                                    *)
EXTENDS ConversionQueries

Conversion(at, lastError) ==
    [created_at |-> at, direction |-> IF at = 1 THEN "INBOUND" ELSE "OUTBOUND",
     lastError |-> lastError]

Rows ==
    {[i \in Ids |-> Conversion(at[i], i # 2)] :
        at \in {<<1, 2, 3>>, <<3, 1, 2>>, <<1, 1, 2>>}}

Lists ==
    {[status |-> s, startTimestamp |-> None, endTimestamp |-> None,
      direction |-> None, limit |-> limit] :
        s \in {None, "PENDING", "other"}, limit \in {None, 1, 2}}
    \cup {[status |-> None, startTimestamp |-> 2, endTimestamp |-> 3,
           direction |-> "OUTBOUND", limit |-> 1]}
=============================================================================
