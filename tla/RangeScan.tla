----------------------------- MODULE RangeScan -----------------------------
(***************************************************************************)
(* What a paged list promises to the client that follows its cursor while  *)
(* the table under it changes: each page holds the matching rows of the    *)
(* next stretch of the order, newest first, and the last page reaches the  *)
(* end.  How a page is asked for, and how long it is, is left open.        *)
(***************************************************************************)
EXTENDS Naturals

CONSTANTS
    Ids,        \* the rows there may be, numbered in the order of their ids
    None        \* no position

VARIABLES
    created,    \* created[i]: when row i was created
    matching,   \* the rows the list is made of, now
    scanning,   \* is the client asking for pages?
    cursor,     \* position of the last row handed out
    page,       \* the rows of the last page
    got,        \* the rows of the pages before it
    kept        \* the rows that matched ever since the first page was asked for

vars == <<created, matching, scanning, cursor, page, got, kept>>

Position(i) == [created_at |-> created[i], id |-> i]

Older(p, q) ==
    \/ p.created_at < q.created_at
    \/ p.created_at = q.created_at /\ p.id < q.id

Ahead == {i \in matching : cursor = None \/ Older(Position(i), cursor)}

(* The row a page ends with. *)
IsLast(i, rows) == i \in rows /\ \A j \in rows \ {i} : Older(Position(i), Position(j))

Init ==
    /\ created \in [Ids -> Nat]
    /\ matching \subseteq Ids
    /\ scanning = FALSE
    /\ cursor = None
    /\ page = {} /\ got = {} /\ kept = {}

(* The client asks anew; what it asks for decides what matches. *)
Begin ==
    /\ ~scanning
    /\ scanning' = TRUE
    /\ matching' \in SUBSET Ids
    /\ kept' = matching'
    /\ cursor' = None
    /\ page' = {} /\ got' = {}
    /\ UNCHANGED created

(* Rows appear, and start or cease to match. *)
Change ==
    /\ matching' \in SUBSET Ids
    /\ kept' = kept \intersect matching'
    /\ UNCHANGED <<created, scanning, cursor, page, got>>

Read ==
    /\ scanning
    /\ page' \in SUBSET Ahead
    /\ \A i \in Ahead \ page', j \in page' : Older(Position(i), Position(j))
    /\ \/ page' = {} /\ UNCHANGED cursor
       \/ \E i \in page' : IsLast(i, page') /\ cursor' = Position(i)
    /\ got' = got \union page
    /\ scanning' \in BOOLEAN
    /\ ~scanning' => page' = Ahead
    /\ UNCHANGED <<created, matching, kept>>

Next == Begin \/ Change \/ Read

Spec == Init /\ [][Next]_vars
=============================================================================
