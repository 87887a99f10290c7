------------------------------- MODULE VarList -------------------------------
(***************************************************************************)
(* The list of the collected variables of varmanage.c: s_xExtDataList, a   *)
(* doubly linked list with a head and a count, and the insertion sort that *)
(* every change of it ends with.                                           *)
(*                                                                         *)
(* One thread, that of the web server, changes the list.  Each operation   *)
(* runs in the global critical section, and the sort is one critical       *)
(* section of its own, so nobody sees the list in the middle of a step of  *)
(* this module; the steps of the sort are kept apart because each of them  *)
(* follows the pointers the one before has left.                           *)
(***************************************************************************)
EXTENDS Naturals, FiniteSets

CONSTANTS Nodes,    \* the records a list may hold
          Addrs,    \* the values of xIo.usAddr, the register a variable shows
          Null      \* the null pointer, not a record

VARIABLES top,      \* s_xExtDataList.pList
          n,        \* s_xExtDataList.n
          next,     \* next[x], the successor of record x
          prev,     \* prev[x], its predecessor
          addr,     \* addr[x], its xIo.usAddr
          live,     \* the records allocated and not freed
          pc,       \* "idle", or where the sort stands
          cur,      \* node, the record whose successor is being placed
          tmp       \* tmp, the record it is compared with

vars == <<top, n, next, prev, addr, live, pc, cur, tmp>>

Pointers == Nodes \cup {Null}

Init == /\ top = Null /\ n = 0
        /\ next = [x \in Nodes |-> Null]
        /\ prev = [x \in Nodes |-> Null]
        /\ addr \in [Nodes -> Addrs]
        /\ live = {}
        /\ pc = "idle" /\ cur = Null /\ tmp = Null

\* What a walk along next from the head finds.
Reachable ==
  LET Reach[k \in 0..Cardinality(Nodes)] ==
        IF k = 0 THEN {top} \ {Null}
        ELSE Reach[k-1] \cup ({next[x] : x \in Reach[k-1]} \ {Null})
  IN  Reach[Cardinality(Nodes)]

\* The record at the end of the list, for a list that has one.
Last == CHOOSE x \in Reachable : next[x] = Null

(***************************************************************************)
(* The operations.  Each hands the list to the sort.                       *)
(***************************************************************************)
StartSort == /\ pc' = IF top' = Null THEN "idle" ELSE "outer"
             /\ cur' = top'
             /\ UNCHANGED tmp

\* A new variable: vVarManage_InsertNode hangs it to the end.
Insert(x) ==
  /\ pc = "idle" /\ x \notin live
  /\ live' = live \cup {x}
  /\ n' = n + 1
  /\ \E a \in Addrs : addr' = [addr EXCEPT ![x] = a]
  /\ IF top = Null
       THEN /\ top' = x
            /\ next' = [next EXCEPT ![x] = Null]
            /\ prev' = [prev EXCEPT ![x] = Null]
       ELSE /\ next' = [next EXCEPT ![Last] = x, ![x] = Null]
            /\ prev' = [prev EXCEPT ![x] = Last]
            /\ UNCHANGED top
  /\ StartSort

\* A variable found by its name is unlinked and freed.
Remove(x) ==
  /\ pc = "idle" /\ x \in Reachable
  /\ live' = live \ {x}
  /\ n' = n - 1
  /\ next' = IF prev[x] = Null THEN next
             ELSE [next EXCEPT ![prev[x]] = next[x]]
  /\ top' = IF n' = 0 THEN Null
            ELSE IF prev[x] = Null THEN next[x] ELSE top
  /\ prev' = IF next[x] = Null THEN prev
             ELSE [prev EXCEPT ![next[x]] = prev[x]]
  /\ UNCHANGED addr
  /\ StartSort

\* The configuration of a variable is changed, its address with it.
SetAddr(x) ==
  /\ pc = "idle" /\ x \in Reachable
  /\ \E a \in Addrs : addr' = [addr EXCEPT ![x] = a]
  /\ UNCHANGED <<top, n, next, prev, live>>
  /\ StartSort

(***************************************************************************)
(* __sort_extdata_link: for every record cur, its successor is moved in    *)
(* front of the first record tmp that it is to precede.                    *)
(***************************************************************************)
SortOuter ==
  /\ pc = "outer"
  /\ IF next[cur] = Null
       THEN /\ cur' = next[cur] /\ pc' = "idle" /\ UNCHANGED tmp
       ELSE /\ tmp' = top /\ pc' = "inner" /\ UNCHANGED cur
  /\ UNCHANGED <<top, n, next, prev, addr, live>>

\* The assignment at the end of the outer loop, node = node->next.
Advance(nx) == /\ cur' = nx[cur]
               /\ pc' = IF nx[cur] = Null THEN "idle" ELSE "outer"
               /\ tmp' = Null

\* The condition under which the successor s of cur goes in front of tmp.
Precedes(s) == /\ prev[tmp] # Null => addr[s] >= addr[prev[tmp]]
               /\ addr[s] <= addr[tmp]

\* The pointers after the assignments of the move, in their order.
Unhooked(s) == IF next[s] = Null THEN prev ELSE [prev EXCEPT ![next[s]] = cur]

MovedNext(s) ==
  LET n1 == [next EXCEPT ![cur] = next[s]]
      n2 == [n1 EXCEPT ![s] = tmp]
  IN  IF prev[tmp] = Null THEN n2 ELSE [n2 EXCEPT ![Unhooked(s)[tmp]] = s]

MovedPrev(s) ==
  LET hooked == [Unhooked(s) EXCEPT ![s] = Unhooked(s)[tmp]]
      after  == MovedNext(s)[tmp]
  IN  IF after = Null THEN hooked ELSE [hooked EXCEPT ![after] = s]

SortInner ==
  /\ pc = "inner"
  /\ LET s == next[cur] IN
     \/ /\ tmp = s                        \* nothing to move
        /\ Advance(next)
        /\ UNCHANGED <<top, next, prev>>
     \/ /\ tmp # s /\ Precedes(s)
        /\ next' = MovedNext(s)
        /\ prev' = MovedPrev(s)
        /\ top' = IF prev[tmp] = Null THEN s ELSE top
        /\ Advance(MovedNext(s))
     \/ /\ tmp # s /\ ~Precedes(s)
        /\ tmp' = next[tmp]
        /\ UNCHANGED <<top, next, prev, pc, cur>>
  /\ UNCHANGED <<n, addr, live>>

Next == \/ \E x \in Nodes : Insert(x) \/ Remove(x) \/ SetAddr(x)
        \/ SortOuter \/ SortInner

Spec == Init /\ [][Next]_vars

\* n is "the number" of variables (varmanage.h): between two operations of the
\* web server the list a walk finds holds that many.
CountIsNumber == pc = "idle" => n = Cardinality(Reachable)
=============================================================================
