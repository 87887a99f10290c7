----------------------------- MODULE StableLog -----------------------------
(***************************************************************************)
(* What the storage of the gateway promises of one table: a log of items   *)
(* in the order in which they came, of which a part is on disk.  Rows go   *)
(* to the disk, or are forgotten, all together; the oldest ones are        *)
(* removed, but only when there are more than the table may hold.          *)
(***************************************************************************)
EXTENDS Naturals, Sequences

CONSTANTS
  Items,    \* the items, numbered in the order in which they come
  Limit,    \* s_limit_count of the table
  DelNum    \* _DEL_NUM: how many rows more than needed are removed at once

VARIABLES
  stored,   \* the rows on disk, oldest first
  rows      \* the rows of the table as the program sees it

vars == <<stored, rows>>

Init == stored = <<>> /\ rows = <<>>

\* The newest n elements of a sequence.
Newest(s, n) == IF n >= Len(s) THEN s ELSE SubSeq(s, Len(s) - n + 1, Len(s))

\* What is left of a table after the removal of its oldest rows.
Kept == IF DelNum > Limit THEN 0 ELSE Limit - DelNum + 1

\* A change of the table, which goes to the disk at once when there is nothing
\* else on its way there.
Change(s) ==
  /\ rows' = s
  /\ \/ UNCHANGED stored
     \/ rows = stored /\ stored' = s

Write ==
  \E n \in Items :
    /\ \A i \in DOMAIN rows : rows[i] < n
    /\ Change(Append(rows, n))

Trim ==
  /\ Len(rows) > Limit + 1
  /\ Change(Newest(rows, Kept))

Flush == stored' = rows /\ UNCHANGED rows

Forget == rows' = stored /\ UNCHANGED stored

Next == Write \/ Trim \/ Flush \/ Forget

Spec == Init /\ [][Next]_vars
=============================================================================
