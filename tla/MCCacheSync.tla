----------------------------- MODULE MCCacheSync -----------------------------
(* Small instances of CacheSync: transfers t1 and t2 on two SCAN pages and *)
(* an inbound FX quote q1, each pattern with its own cursor.               *)
EXTENDS CacheSync

CONSTANTS t1, t2, t3, q1

MCPatternOf == [k \in Keys |-> IF k = q1 THEN 2 ELSE 1]

MCPage == [k \in Keys |-> IF k = t2 \/ k = q1 THEN 1 ELSE IF k = t3 THEN 2 ELSE 0]
=============================================================================
