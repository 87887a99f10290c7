-------------------------- MODULE VarManageProofs --------------------------
(***************************************************************************)
(* Theorems about VarManage for any variables, ports and number of slaves. *)
(*                                                                         *)
(* The ports: what holds the mutex of a port follows from where the task   *)
(* of the port and the two threads of a search are (PortExclusive), and    *)
(* the two threads never wait for an answer on one port (Apart), so that   *)
(* the end of one leaves the other's mutex alone.                          *)
(*                                                                         *)
(* The walk: while the web server is idle the chain is that of the list    *)
(* (Fresh), of which ChainAsks tells what it asks for; and in a pass       *)
(* that nothing disturbs the requests up to the position of the task are   *)
(* polled, but for the one in its hand (Polled).                           *)
(***************************************************************************)
EXTENDS VarManage, FoldLemmas

-----------------------------------------------------------------------------
(* The registers of a unit *)

\* The registers of a variable that is there.
Regs == {r \in [addr : Nat, size : 1 .. MaxSize] : r.addr + r.size <= RegMod}
Sorted(s) == \A i, j \in DOMAIN s : i <= j => s[i].addr <= s[j].addr

LEMMA ListRegs ==
  ASSUME NEW l \in Lists, NEW v \in In(l)
  PROVE  v \in Vars /\ l[v] \in Regs
  BY VarAssumption DEF Lists, In, Regs

\* Registers go into their place, and nothing else changes.
LEMMA AddExtKeeps ==
  ASSUME NEW s \in Seq(Regs), Sorted(s), NEW r \in Regs
  PROVE  /\ AddExt(s, r) \in Seq(Regs) /\ Sorted(AddExt(s, r))
         /\ ToSet(AddExt(s, r)) = ToSet(s) \cup {r}
  <1>1. CASE r \in ToSet(s)
    <2>1. AddExt(s, r) = s
      BY <1>1 DEF AddExt
    <2> QED
      BY <1>1, <2>1
  <1>2. CASE r \notin ToSet(s)
    <2> DEFINE low == {i \in DOMAIN s : s[i].addr <= r.addr}
               k == Cardinality(low)
               t == With(s, r, k)
    <2>1. Len(s) \in Nat /\ DOMAIN s = 1 .. Len(s) /\ r.addr \in Nat
          /\ \A i \in DOMAIN s : s[i] \in Regs /\ s[i].addr \in Nat
      BY SMT DEF Regs
    <2>2. k \in 0 .. Len(s) /\ low = 1 .. k
      <3>1. low \subseteq 1 .. Len(s)
        BY <2>1
      <3>2. \A i \in low : \A j \in 1 .. i : j \in low
        <4> TAKE i \in low
        <4> TAKE j \in 1 .. i
        <4>1. i \in DOMAIN s /\ j \in DOMAIN s /\ j <= i /\ s[i].addr <= r.addr
          BY <2>1, SMT
        <4>2. s[j].addr <= s[i].addr
          BY <4>1 DEF Sorted
        <4> QED
          BY <2>1, <4>1, <4>2, SMT
      <3> HIDE DEF low
      <3> QED
        BY <2>1, <3>1, <3>2, Initial
    <2>3. \A i \in DOMAIN s : i <= k <=> s[i].addr <= r.addr
      <3>1. \A i \in DOMAIN s : i \in 1 .. k <=> s[i].addr <= r.addr
        BY <2>2
      <3> HIDE DEF k
      <3> QED
        BY <2>1, <2>2, <3>1, SMT
    <2> HIDE DEF low
    <2>4. AddExt(s, r) = t
      BY <1>2 DEF AddExt, With, low
    <2> HIDE DEF k
    <2>5. /\ t \in Seq(Regs) /\ Len(t) = Len(s) + 1 /\ DOMAIN t = 1 .. Len(s) + 1
          /\ \A i \in 1 .. k : t[i] = s[i]
          /\ t[k + 1] = r
          /\ \A i \in k + 2 .. Len(s) + 1 : t[i] = s[i - 1]
      <3>1. /\ t \in Seq(Regs) /\ Len(t) = Len(s) + 1
            /\ \A i \in 1 .. k : t[i] = s[i]
            /\ t[k + 1] = r
            /\ \A i \in k + 2 .. Len(s) + 1 : t[i] = s[i - 1]
        <4>1. s \in Seq(Regs) /\ r \in Regs /\ k \in 0 .. Len(s)
          BY <2>2
        <4> QED
          BY <4>1, Insertion
      <3> HIDE DEF t
      <3> QED
        BY <3>1, SMT
    <2> HIDE DEF t
    <2>6. Sorted(t)
      <3> SUFFICES ASSUME NEW i \in DOMAIN t, NEW j \in DOMAIN t, i <= j
                   PROVE  t[i].addr <= t[j].addr
        BY DEF Sorted
      <3>1. k \in Nat /\ i \in Nat /\ j \in Nat /\ k <= Len(s)
        BY <2>1, <2>2, <2>5, SMT
      <3>2. CASE j <= k
        <4>1. i \in DOMAIN s /\ j \in DOMAIN s /\ t[i] = s[i] /\ t[j] = s[j]
          BY <2>1, <2>5, <3>1, <3>2, SMT
        <4> QED
          BY <4>1 DEF Sorted
      <3>3. CASE j = k + 1
        <4>1. CASE i = j
          BY <2>1, <2>5, <3>3, <4>1, SMT
        <4>2. CASE i # j
          <5>1. i \in DOMAIN s /\ t[i] = s[i] /\ i <= k
            BY <2>1, <2>5, <3>1, <3>3, <4>2, SMT
          <5> QED
            BY <2>3, <2>5, <3>3, <5>1
        <4> QED
          BY <4>1, <4>2
      <3>4. CASE j > k + 1
        <4>1. j - 1 \in DOMAIN s /\ t[j] = s[j - 1] /\ ~(j - 1 <= k)
          BY <2>1, <2>5, <3>1, <3>4, SMT
        <4>2. CASE i <= k
          <5>1. i \in DOMAIN s /\ t[i] = s[i] /\ i <= j - 1
            BY <2>1, <2>5, <3>1, <3>4, <4>2, SMT
          <5> QED
            BY <4>1, <5>1 DEF Sorted
        <4>3. CASE i = k + 1
          BY <2>1, <2>3, <2>5, <4>1, <4>3, SMT
        <4>4. CASE i > k + 1
          <5>1. i - 1 \in DOMAIN s /\ t[i] = s[i - 1] /\ i - 1 <= j - 1
            BY <2>1, <2>5, <3>1, <4>4, SMT
          <5> QED
            BY <4>1, <5>1 DEF Sorted
        <4> QED
          BY <3>1, <4>2, <4>3, <4>4, SMT
      <3> QED
        BY <3>1, <3>2, <3>3, <3>4, SMT
    <2>7. ToSet(t) = ToSet(s) \cup {r}
      <3>1. ASSUME NEW i \in DOMAIN t PROVE t[i] \in ToSet(s) \cup {r}
        <4>1. \/ i \in DOMAIN s /\ t[i] = s[i]
              \/ t[i] = r
              \/ i - 1 \in DOMAIN s /\ t[i] = s[i - 1]
          BY <2>1, <2>2, <2>5, SMT
        <4> QED
          BY <4>1 DEF ToSet
      <3>2. ASSUME NEW i \in DOMAIN s PROVE s[i] \in ToSet(t)
        <4>1. \/ i \in DOMAIN t /\ t[i] = s[i]
              \/ i + 1 \in DOMAIN t /\ t[i + 1] = s[i]
          BY <2>1, <2>2, <2>5, SMT
        <4> QED
          BY <4>1 DEF ToSet
      <3>3. r \in ToSet(t)
        <4>1. k + 1 \in DOMAIN t /\ t[k + 1] = r
          BY <2>1, <2>2, <2>5, SMT
        <4> QED
          BY <4>1 DEF ToSet
      <3> QED
        BY <3>1, <3>2, <3>3 DEF ToSet
    <2> QED
      BY <2>4, <2>5, <2>6, <2>7
  <1> QED
    BY <1>1, <1>2

-----------------------------------------------------------------------------
(* The units and their registers *)

Units == {Unit[v] : v \in Vars}
Node  == [unit : Units, exts : Seq(Regs)]

\* Chain's fold, one variable after the other.
Add(l, c, v) == IF v \in In(l) THEN AddNode(c, Unit[v], l[v]) ELSE c

\* What AddNode keeps: within a unit the registers are those of variables of
\* the unit, and in order.
Ordered(l, c) ==
  /\ c \in Seq(Node)
  /\ \A i \in DOMAIN c :
       /\ Sorted(c[i].exts)
       /\ \A r \in ToSet(c[i].exts) : \E w \in In(l) : Unit[w] = c[i].unit /\ r = l[w]

\* The registers of v are in the chain.
Has(l, c, v) == \E i \in DOMAIN c : c[i].unit = Unit[v] /\ l[v] \in ToSet(c[i].exts)

LEMMA One ==
  ASSUME NEW r \in Regs
  PROVE  <<r>> \in Seq(Regs) /\ Sorted(<<r>>) /\ ToSet(<<r>>) = {r}
  BY DEF Sorted, ToSet, Regs

LEMMA AddKeeps ==
  ASSUME NEW l \in Lists, NEW v \in Vars, NEW c, Ordered(l, c)
  PROVE  /\ Ordered(l, Add(l, c, v))
         /\ v \in In(l) => Has(l, Add(l, c, v), v)
         /\ \A w \in Vars : Has(l, c, w) => Has(l, Add(l, c, v), w)
  <1> SUFFICES ASSUME v \in In(l) PROVE
         /\ Ordered(l, Add(l, c, v))
         /\ Has(l, Add(l, c, v), v)
         /\ \A w \in Vars : Has(l, c, w) => Has(l, Add(l, c, v), w)
    BY DEF Add
  <1> DEFINE u == Unit[v]
             mine == {i \in DOMAIN c : c[i].unit = u}
             t == AddNode(c, u, l[v])
  <1>1. l[v] \in Regs /\ u \in Units
    BY ListRegs DEF Units
  <1>2. Add(l, c, v) = t
    BY DEF Add
  <1>3. c \in Seq(Node) /\ \A i \in DOMAIN c : c[i].unit \in Units /\ c[i].exts \in Seq(Regs)
    <2>1. c \in Seq(Node) /\ \A i \in DOMAIN c : c[i] \in Node
      BY DEF Ordered
    <2> QED
      BY <2>1 DEF Node
  <1>4. CASE mine = {}
    <2> DEFINE e == [unit |-> u, exts |-> <<l[v]>>]
    <2>1. t = Append(c, e)
      BY <1>4 DEF AddNode
    <2>2. e \in Node /\ Sorted(e.exts) /\ ToSet(e.exts) = {l[v]} /\ e.unit = u
      BY <1>1, One DEF Node
    <2> HIDE DEF e, t
    <2>3. /\ t \in Seq(Node) /\ DOMAIN t = 1 .. Len(c) + 1 /\ DOMAIN c = 1 .. Len(c)
          /\ \A i \in DOMAIN c : t[i] = c[i]
          /\ t[Len(c) + 1] = e /\ Len(c) \in Nat
      BY <1>3, <2>1, <2>2, SMT
    <2>4. DOMAIN t = DOMAIN c \cup {Len(c) + 1} /\ Len(c) + 1 \in DOMAIN t
      BY <2>3, SMT
    <2>5. Ordered(l, t)
      <3> SUFFICES ASSUME NEW i \in DOMAIN t
                   PROVE  /\ Sorted(t[i].exts)
                          /\ \A r \in ToSet(t[i].exts) :
                               \E w \in In(l) : Unit[w] = t[i].unit /\ r = l[w]
        BY <2>3 DEF Ordered
      <3>1. CASE i \in DOMAIN c
        <4>1. t[i] = c[i]
          BY <2>3, <3>1
        <4>2. /\ Sorted(c[i].exts)
              /\ \A r \in ToSet(c[i].exts) : \E w \in In(l) : Unit[w] = c[i].unit /\ r = l[w]
          BY <3>1 DEF Ordered
        <4> QED
          BY <4>1, <4>2
      <3>2. CASE i = Len(c) + 1
        BY <2>2, <2>3, <3>2
      <3> QED
        BY <2>4, <3>1, <3>2
    <2>6. Has(l, t, v)
      BY <2>2, <2>3, <2>4 DEF Has
    <2>7. \A w \in Vars : Has(l, c, w) => Has(l, t, w)
      BY <2>3, <2>4 DEF Has
    <2> QED
      BY <1>2, <2>5, <2>6, <2>7 DEF t
  <1>5. CASE mine # {}
    <2>1. t = [i \in DOMAIN c |-> IF i \in mine THEN [unit |-> u, exts |-> AddExt(c[i].exts, l[v])]
                                  ELSE c[i]]
      BY <1>5 DEF AddNode
    <2> HIDE DEF t
    <2>2. DOMAIN t = DOMAIN c
      BY <2>1
    <2>3. ASSUME NEW i \in DOMAIN c
          PROVE  /\ t[i].unit = c[i].unit /\ t[i] \in Node
                 /\ Sorted(t[i].exts)
                 /\ ToSet(t[i].exts) = ToSet(c[i].exts) \cup IF c[i].unit = u THEN {l[v]} ELSE {}
      <3>1. c[i] \in Node /\ Sorted(c[i].exts) /\ c[i].exts \in Seq(Regs)
        BY <1>3 DEF Ordered
      <3>2. CASE c[i].unit = u
        <4> DEFINE x == AddExt(c[i].exts, l[v])
        <4>1. t[i] = [unit |-> u, exts |-> x]
          BY <2>1, <3>2
        <4>2. x \in Seq(Regs) /\ Sorted(x) /\ ToSet(x) = ToSet(c[i].exts) \cup {l[v]}
          BY <1>1, <3>1, AddExtKeeps
        <4> HIDE DEF x
        <4> QED
          BY <1>1, <3>2, <4>1, <4>2 DEF Node
      <3>3. CASE c[i].unit # u
        BY <2>1, <3>1, <3>3
      <3> QED
        BY <3>2, <3>3
    <2>4. t \in Seq(Node)
      <3>1. DOMAIN c = 1 .. Len(c) /\ Len(c) \in Nat
        BY <1>3
      <3>2. t = [i \in 1 .. Len(c) |-> t[i]]
        BY <2>1, <3>1
      <3>3. \A i \in 1 .. Len(c) : t[i] \in Node
        BY <2>3, <3>1
      <3> QED
        BY <3>1, <3>2, <3>3
    <2>5. Ordered(l, t)
      <3> SUFFICES ASSUME NEW i \in DOMAIN t
                   PROVE  /\ Sorted(t[i].exts)
                          /\ \A r \in ToSet(t[i].exts) :
                               \E w \in In(l) : Unit[w] = t[i].unit /\ r = l[w]
        BY <2>4 DEF Ordered
      <3>1. \A r \in ToSet(c[i].exts) : \E w \in In(l) : Unit[w] = c[i].unit /\ r = l[w]
        BY <2>2 DEF Ordered
      <3>2. /\ t[i].unit = c[i].unit /\ Sorted(t[i].exts)
            /\ ToSet(t[i].exts) = ToSet(c[i].exts) \cup IF c[i].unit = u THEN {l[v]} ELSE {}
        BY <2>2, <2>3
      <3>3. \A r \in ToSet(t[i].exts) : r \in ToSet(c[i].exts) \/ (r = l[v] /\ c[i].unit = u)
        BY <3>2
      <3> QED
        BY <3>1, <3>2, <3>3
    <2>6. Has(l, t, v)
      <3>1. PICK i \in DOMAIN c : c[i].unit = u
        BY <1>5
      <3> QED
        BY <2>2, <2>3, <3>1 DEF Has
    <2>7. \A w \in Vars : Has(l, c, w) => Has(l, t, w)
      BY <2>2, <2>3 DEF Has
    <2> QED
      BY <1>2, <2>5, <2>6, <2>7 DEF t
  <1> QED
    BY <1>4, <1>5

\* The first fold of Chain.
UnitsOf(l) ==
  FoldLeft(LAMBDA c, v : IF v \in In(l) THEN AddNode(c, Unit[v], l[v]) ELSE c,
           <<>>, [v \in Vars |-> v])

\* The fold takes one variable after the other.
LEMMA UnitsOneByOne ==
  ASSUME NEW l \in Lists
  PROVE  \E p : /\ p[0] = <<>>
                /\ \A k \in Nat : k + 1 \in Vars => p[k + 1] = Add(l, p[k], k + 1)
                /\ UnitsOf(l) = p[Cardinality(Vars)]
  <1> DEFINE N == Cardinality(Vars)
             X == {c \in Seq(Node) : Ordered(l, c)}
             G == [v \in 1 .. N |-> [c \in X |-> Add(l, c, v)]]
             s == [v \in Vars |-> v]
             Body(f) == [T \in SUBSET DOMAIN s |->
                           IF T = {} THEN <<>>
                           ELSE LET x == Max(T) IN Add(l, f[T \ {x}], s[x])]
             it == CHOOSE f : f = Body(f)
  <1>1. N \in Nat /\ Vars = 1 .. N
    BY VarAssumption, FS_CardinalityType
  <1>2. <<>> \in X
    BY DEF Ordered
  <1>3. G \in [1 .. N -> [X -> X]]
    <2>1. ASSUME NEW v \in 1 .. N, NEW c \in X PROVE Add(l, c, v) \in X
      <3>1. Ordered(l, Add(l, c, v))
        BY <1>1, AddKeeps
      <3> QED
        BY <3>1 DEF Ordered
    <2> HIDE DEF X
    <2> QED
      BY <2>1
  <1>4. PICK h \in [SUBSET (1 .. N) -> X] : \A T \in SUBSET (1 .. N) :
          h[T] = IF T = {} THEN <<>> ELSE G[Max(T)][h[T \ {Max(T)}]]
    <2> HIDE DEF N, X, G
    <2>1. PICK h \in [SUBSET (1 .. N) -> X] : IsFold(h, N, <<>>, G)
      BY <1>1, <1>2, <1>3, FoldExists
    <2> QED
      BY <2>1 DEF IsFold
  <1>5. h = Body(h)
    <2>1. ASSUME NEW T \in SUBSET (1 .. N), T # {}
          PROVE  h[T] = Add(l, h[T \ {Max(T)}], s[Max(T)])
      <3>1. Max(T) \in 1 .. N
        BY <1>1, <2>1, MaxOf
      <3>2. h[T \ {Max(T)}] \in X
        <4> HIDE DEF X
        <4> QED
          OBVIOUS
      <3>3. s[Max(T)] = Max(T)
        BY <1>1, <3>1
      <3> HIDE DEF X, s, N
      <3> QED
        BY <1>4, <2>1, <3>1, <3>2, <3>3
    <2>2. ASSUME NEW T \in SUBSET (1 .. N)
          PROVE  h[T] = IF T = {} THEN <<>>
                        ELSE LET x == Max(T) IN Add(l, h[T \ {x}], s[x])
      <3> HIDE DEF X, s, N, G
      <3> QED
        BY <1>4, <2>1
    <2>3. DOMAIN s = 1 .. N
      BY <1>1
    <2> HIDE DEF X, s, N, G
    <2> QED
      BY <2>2, <2>3
  <1>6. it = Body(it)
    <2> HIDE DEF Body
    <2> QED
      BY <1>5
  <1>7. UnitsOf(l) = it[Vars]
    BY DEF UnitsOf, FoldLeft, MapThenFoldSet, Add
  <1> HIDE DEF it
  <1>8. \A T \in SUBSET (1 .. N) :
          it[T] = IF T = {} THEN <<>> ELSE Add(l, it[T \ {Max(T)}], s[Max(T)])
    <2>1. DOMAIN s = 1 .. N
      BY <1>1
    <2> HIDE DEF N, s
    <2> QED
      BY <1>6, <2>1
  <1> DEFINE p == [k \in Nat |-> it[1 .. k]]
  <1>9. p[0] = <<>> /\ p[N] = UnitsOf(l)
    BY <1>1, <1>7, <1>8, FirstOnes
  <1>10. ASSUME NEW k \in Nat, k + 1 \in Vars PROVE p[k + 1] = Add(l, p[k], k + 1)
    <2>1. 1 .. k + 1 \in SUBSET (1 .. N) /\ s[k + 1] = k + 1 /\ k + 1 \in Nat
      <3>1. k + 1 \in 1 .. N
        BY <1>1, <1>10
      <3> HIDE DEF N
      <3> QED
        BY <1>1, <1>10, <3>1, SMT
    <2>2. /\ 1 .. k + 1 # {} /\ Max(1 .. k + 1) = k + 1
          /\ (1 .. k + 1) \ {k + 1} = 1 .. k
      BY FirstOnes
    <2> HIDE DEF s, N
    <2> QED
      BY <1>8, <2>1, <2>2
  <1> QED
    BY <1>9, <1>10

\* Every variable of the list gets its registers into the chain.
LEMMA UnitsAll ==
  ASSUME NEW l \in Lists
  PROVE  Ordered(l, UnitsOf(l)) /\ \A v \in In(l) : Has(l, UnitsOf(l), v)
  <1> DEFINE N == Cardinality(Vars)
  <1>1. N \in Nat /\ Vars = 1 .. N /\ In(l) \subseteq Vars
    BY VarAssumption, FS_CardinalityType DEF In
  <1> HIDE DEF N
  <1>2. PICK p : /\ p[0] = <<>>
                 /\ \A k \in Nat : k + 1 \in Vars => p[k + 1] = Add(l, p[k], k + 1)
                 /\ UnitsOf(l) = p[N]
    BY UnitsOneByOne DEF N
  <1> DEFINE S == {k \in Nat : k <= N => /\ Ordered(l, p[k])
                                         /\ \A v \in In(l) : v <= k => Has(l, p[k], v)}
  <1>3. 0 \in S
    <2>1. Ordered(l, <<>>)
      BY DEF Ordered
    <2>2. \A v \in In(l) : ~(v <= 0)
      BY <1>1
    <2> QED
      BY <1>2, <2>1, <2>2
  <1>4. ASSUME NEW k \in Nat, k \in S PROVE k + 1 \in S
    <2> SUFFICES ASSUME k + 1 <= N
                 PROVE  /\ Ordered(l, p[k + 1])
                        /\ \A v \in In(l) : v <= k + 1 => Has(l, p[k + 1], v)
      BY SMT
    <2>1. k + 1 \in Vars /\ k <= N
      BY <1>1, SMT
    <2>2. Ordered(l, p[k]) /\ \A v \in In(l) : v <= k => Has(l, p[k], v)
      BY <1>4, <2>1
    <2>3. p[k + 1] = Add(l, p[k], k + 1)
      BY <1>2, <2>1
    <2>4. /\ Ordered(l, p[k + 1])
          /\ k + 1 \in In(l) => Has(l, p[k + 1], k + 1)
          /\ \A w \in Vars : Has(l, p[k], w) => Has(l, p[k + 1], w)
      BY <2>1, <2>2, <2>3, AddKeeps
    <2>5. ASSUME NEW v \in In(l), v <= k + 1 PROVE v <= k \/ v = k + 1
      BY <1>1, <2>5, SMT
    <2> QED
      BY <1>1, <2>2, <2>4, <2>5
  <1> HIDE DEF S
  <1>5. Nat \subseteq S
    BY <1>3, <1>4, Induction
  <1>6. Ordered(l, p[N]) /\ \A v \in In(l) : v <= N => Has(l, p[N], v)
    BY <1>1, <1>5 DEF S
  <1>7. \A v \in In(l) : v <= N
    BY <1>1
  <1> QED
    BY <1>2, <1>6, <1>7

-----------------------------------------------------------------------------
(* The requests of a unit *)

\* Some request of c asks for all registers of q.
Covered(c, q) == \E i \in DOMAIN c : /\ c[i].addr <= q.addr
                                     /\ q.addr + q.size <= c[i].addr + c[i].size

\* No request of c ends with the last register of the slave.
Below(c) == \A i \in DOMAIN c : c[i].addr + c[i].size < RegMod

LEMMA Ends ==
  ASSUME NEW c \in Seq(Regs), c # <<>>
  PROVE  /\ Len(c) \in Nat \ {0} /\ DOMAIN c = 1 .. Len(c) /\ Last(c) \in Regs
         /\ Last(c) = c[Len(c)]
         /\ Front(c) \in Seq(Regs) /\ Len(Front(c)) = Len(c) - 1
         /\ \A i \in 1 .. Len(c) - 1 : Front(c)[i] = c[i]
  <1>1. Len(c) \in Nat /\ DOMAIN c = 1 .. Len(c) /\ c = [i \in 1 .. Len(c) |-> c[i]]
    OBVIOUS
  <1>2. Len(c) # 0
    <2> SUFFICES ASSUME Len(c) = 0 PROVE FALSE
      OBVIOUS
    <2>1. c = <<>>
      BY <1>1, SMT
    <2> QED
      BY <2>1
  <1>3. Last(c) = c[Len(c)] /\ Last(c) \in Regs
    BY <1>1, <1>2, SMT DEF Last
  <1>4. /\ Front(c) \in Seq(Regs) /\ Len(Front(c)) = Len(c) - 1
        /\ \A i \in 1 .. Len(c) - 1 : Front(c)[i] = c[i]
    BY <1>1, <1>2, SMT DEF Front
  <1> QED
    BY <1>1, <1>2, <1>3, <1>4

LEMMA RegsType ==
  ASSUME NEW r \in Regs
  PROVE  /\ r.addr \in Nat /\ r.size \in Nat /\ r.size \in 1 .. MaxSize
         /\ r.addr + r.size <= RegMod /\ r = [addr |-> r.addr, size |-> r.size]
         /\ RegMod \in Nat /\ MaxSize \in Nat
  <1>1. r \in [addr : Nat, size : 1 .. MaxSize] /\ r.addr + r.size <= RegMod
    BY DEF Regs
  <1> QED
    BY <1>1, VarAssumption

LEMMA CoveredBy ==
  ASSUME NEW c \in Seq(Regs), NEW f \in Regs, NEW q \in Regs, Covered(c, f),
         f.addr <= q.addr, q.addr + q.size <= f.addr + f.size
  PROVE  Covered(c, q)
  <1>1. PICK i \in DOMAIN c : c[i].addr <= f.addr /\ f.addr + f.size <= c[i].addr + c[i].size
    BY DEF Covered
  <1>2. c[i] \in Regs
    OBVIOUS
  <1>3. /\ c[i].addr \in Nat /\ c[i].size \in Nat /\ f.addr \in Nat /\ f.size \in Nat
        /\ q.addr \in Nat /\ q.size \in Nat
    BY <1>2, RegsType
  <1>4. c[i].addr <= q.addr /\ q.addr + q.size <= c[i].addr + c[i].size
    BY <1>1, <1>3, SMT
  <1> QED
    BY <1>4 DEF Covered

\* Another request at the end of c.
LEMMA AtEnd ==
  ASSUME NEW c \in Seq(Regs), NEW r \in Regs
  PROVE  /\ Append(c, r) \in Seq(Regs) /\ Append(c, r) # <<>> /\ Last(Append(c, r)) = r
         /\ Below(c) /\ r.addr + r.size < RegMod => Below(Append(c, r))
         /\ Covered(Append(c, r), r)
         /\ \A q : Covered(c, q) => Covered(Append(c, r), q)
  <1> DEFINE t == Append(c, r)
  <1>1. /\ t \in Seq(Regs) /\ DOMAIN t = DOMAIN c \cup {Len(c) + 1} /\ Len(t) = Len(c) + 1
        /\ \A i \in DOMAIN c : t[i] = c[i]
        /\ t[Len(c) + 1] = r /\ Len(c) \in Nat
    BY SMT
  <1>2. r.addr \in Nat /\ r.size \in Nat
    BY DEF Regs
  <1> HIDE DEF t
  <1>3. t # <<>> /\ Last(t) = r
    BY <1>1 DEF Last
  <1>4. Below(c) /\ r.addr + r.size < RegMod => Below(t)
    BY <1>1 DEF Below
  <1>5. Covered(t, r) /\ \A q : Covered(c, q) => Covered(t, q)
    BY <1>1, <1>2 DEF Covered
  <1> QED
    BY <1>1, <1>3, <1>4, <1>5 DEF t

\* A request joins the last one, or goes behind it, or is asked for already.
LEMMA MergeKeeps ==
  ASSUME NEW c \in Seq(Regs), NEW r \in Regs, c # <<>> => Last(c).addr <= r.addr
  PROVE  LET m == Merge(c, r)
         IN  /\ m \in Seq(Regs) /\ m # <<>> /\ Last(m).addr <= r.addr
             /\ Below(c) /\ r.addr + r.size < RegMod =>
                  /\ Below(m) /\ Covered(m, r)
                  /\ \A q \in Regs : Covered(c, q) => Covered(m, q)
  <1> DEFINE m == Merge(c, r)
  <1>1. r.addr \in Nat /\ r.size \in 1 .. MaxSize /\ r.addr + r.size <= RegMod
        /\ RegMod \in Nat /\ MaxSize \in Nat
    BY RegsType
  <1>2. CASE m = Append(c, r)
    <2>1. r.addr <= r.addr
      BY <1>1, SMT
    <2> HIDE DEF m
    <2> QED
      BY <1>2, <2>1, AtEnd DEF m
  <1>3. CASE c = <<>>
    <2>1. m = <<r>> /\ <<r>> = Append(<<>>, r)
      BY <1>3 DEF Merge
    <2> QED
      BY <1>2, <1>3, <2>1
  <1>4. CASE c # <<>> /\ m # Append(c, r)
    <2> DEFINE e == Last(c)
               n == Len(c)
               a == (e.addr + e.size) % RegMod
               b == (r.addr + r.size) % RegMod
               f == [e EXCEPT !.size = b - e.addr]
    <2>1. /\ n \in Nat \ {0} /\ DOMAIN c = 1 .. n /\ e \in Regs /\ e = c[n]
          /\ Front(c) \in Seq(Regs) /\ Len(Front(c)) = n - 1
          /\ \A i \in 1 .. n - 1 : Front(c)[i] = c[i]
      BY <1>4, Ends
    <2>2. e.addr \in Nat /\ e.size \in 1 .. MaxSize /\ e.addr + e.size <= RegMod
          /\ e.addr <= r.addr
      BY <1>4, <2>1 DEF Regs
    <2>3. /\ e.addr + e.size >= r.addr
          /\ \/ a >= b /\ m = c
             \/ ~(a >= b) /\ ~(b - e.addr > MaxSize) /\ m = Append(Front(c), f)
      <3>1. \/ e.addr + e.size < r.addr /\ m = Append(c, r)
            \/ ~(e.addr + e.size < r.addr) /\ a >= b /\ m = c
            \/ ~(e.addr + e.size < r.addr) /\ ~(a >= b) /\ b - e.addr > MaxSize /\ m = Append(c, r)
            \/ ~(e.addr + e.size < r.addr) /\ ~(a >= b) /\ ~(b - e.addr > MaxSize)
               /\ m = Append(Front(c), f)
        BY <1>4 DEF Merge
      <3> HIDE DEF m, e, a, b, f
      <3>2. ~(e.addr + e.size < r.addr) => e.addr + e.size >= r.addr
        BY <1>1, <2>2, SMT
      <3> QED
        BY <1>4, <3>1, <3>2
    <2>4. \A x \in 0 .. RegMod : x % RegMod = IF x = RegMod THEN 0 ELSE x
      BY <1>1, SMT
    <2>5. /\ a = IF e.addr + e.size = RegMod THEN 0 ELSE e.addr + e.size
          /\ b = IF r.addr + r.size = RegMod THEN 0 ELSE r.addr + r.size
      <3>1. e.addr + e.size \in 0 .. RegMod /\ r.addr + r.size \in 0 .. RegMod
        BY <1>1, <2>2, SMT
      <3> QED
        BY <2>4, <3>1
    <2>6. f.addr = e.addr /\ f.size = b - e.addr /\ f = [addr |-> e.addr, size |-> b - e.addr]
      <3>1. e = [addr |-> e.addr, size |-> e.size]
        BY <2>1, RegsType
      <3> HIDE DEF e, b
      <3> QED
        BY <3>1
    <2>7. Covered(c, e)
      BY <2>1, <2>2 DEF Covered
    <2> HIDE DEF m, e, a, b, f
    <2>8. CASE a >= b /\ m = c
      <3>1. ASSUME Below(c), r.addr + r.size < RegMod PROVE Covered(c, r)
        <4>1. e.addr + e.size < RegMod
          BY <2>1, <3>1 DEF Below
        <4>2. r.addr + r.size <= e.addr + e.size
          BY <1>1, <2>2, <2>5, <2>8, <3>1, <4>1, SMT
        <4> QED
          BY <2>1, <2>2, <4>2 DEF Covered
      <3> QED
        BY <1>4, <2>2, <2>8, <3>1 DEF m, e
    <2>9. CASE ~(a >= b) /\ ~(b - e.addr > MaxSize) /\ m = Append(Front(c), f)
      <3>1. r.addr + r.size < RegMod /\ b = r.addr + r.size
        BY <1>1, <2>2, <2>5, <2>9, SMT
      <3>2. f \in Regs /\ f.addr + f.size = r.addr + r.size /\ f.addr <= r.addr
        BY <1>1, <2>2, <2>6, <2>9, <3>1, SMT DEF Regs
      <3>3. /\ m \in Seq(Regs) /\ m # <<>> /\ Last(m) = f
            /\ Below(Front(c)) /\ f.addr + f.size < RegMod => Below(m)
            /\ Covered(m, f) /\ \A q : Covered(Front(c), q) => Covered(m, q)
        BY <2>1, <2>9, <3>2, AtEnd
      <3>4. ASSUME Below(c) PROVE Below(Front(c))
        BY <2>1, <3>4, SMT DEF Below
      <3>5. Covered(m, r)
        <4>1. r.addr + r.size <= f.addr + f.size
          BY <1>1, <3>2, SMT
        <4> QED
          BY <3>2, <3>3, <4>1, CoveredBy
      <3>6. ASSUME Below(c), NEW q \in Regs, Covered(c, q) PROVE Covered(m, q)
        <4>1. PICK i \in DOMAIN c : c[i].addr <= q.addr /\ q.addr + q.size <= c[i].addr + c[i].size
          BY <3>6 DEF Covered
        <4>2. CASE i = n
          <5>1. e.addr + e.size < RegMod /\ q.addr \in Nat /\ q.size \in Nat
            <6>1. e.addr + e.size < RegMod
              BY <2>1, <3>6 DEF Below
            <6> QED
              BY <6>1, RegsType
          <5>2. f.addr <= q.addr /\ q.addr + q.size <= f.addr + f.size
            BY <1>1, <2>1, <2>2, <2>5, <2>6, <2>9, <3>1, <4>1, <4>2, <5>1, SMT
          <5> QED
            BY <3>2, <3>3, <5>2, CoveredBy
        <4>3. CASE i # n
          <5>1. i \in 1 .. n - 1 /\ i \in DOMAIN Front(c) /\ Front(c)[i] = c[i]
            BY <2>1, <4>3, SMT
          <5>2. Covered(Front(c), q)
            BY <4>1, <5>1 DEF Covered
          <5> QED
            BY <3>3, <5>2
        <4> QED
          BY <4>2, <4>3
      <3> QED
        BY <3>1, <3>2, <3>3, <3>4, <3>5, <3>6 DEF m
    <2> QED
      BY <2>3, <2>8, <2>9
  <1> QED
    BY <1>2, <1>3, <1>4

\* The second fold of Chain, for the registers of one unit.
Merged(s) == FoldLeft(Merge, <<>>, s)

\* Merge stays among the sequences of records of two numbers.
LEMMA MergeStays ==
  ASSUME NEW c \in Seq([addr : Int, size : Int]), NEW r \in Regs
  PROVE  Merge(c, r) \in Seq([addr : Int, size : Int])
  <1> DEFINE X == [addr : Int, size : Int]
             e == Last(c)
             a == (e.addr + e.size) % RegMod
             b == (r.addr + r.size) % RegMod
             f == [e EXCEPT !.size = b - e.addr]
  <1>1. r \in X /\ r.addr + r.size \in Nat /\ RegMod \in Nat \ {0}
    <2>1. /\ r.addr \in Nat /\ r.size \in 1 .. MaxSize /\ r.addr + r.size <= RegMod
          /\ r = [addr |-> r.addr, size |-> r.size] /\ RegMod \in Nat /\ MaxSize \in Nat
      BY RegsType
    <2>2. r.addr \in Int /\ r.size \in Int
      BY <2>1, SMT
    <2> QED
      BY <2>1, <2>2, SMT
  <1>2. CASE c = <<>>
    BY <1>1, <1>2 DEF Merge
  <1>3. CASE c # <<>>
    <2>1. Merge(c, r) \in {c, Append(c, r), Append(Front(c), f)}
      BY <1>3 DEF Merge
    <2>2. Front(c) \in Seq(X) /\ e \in X
      <3>1. Len(c) \in Nat \ {0}
        <4>1. Len(c) \in Nat /\ c = [i \in 1 .. Len(c) |-> c[i]]
          OBVIOUS
        <4>2. Len(c) = 0 => c = <<>>
          BY <4>1, SMT
        <4> QED
          BY <1>3, <4>1, <4>2
      <3>2. c \in Seq(X)
        OBVIOUS
      <3> HIDE DEF X
      <3>3. c[Len(c)] \in X
        BY <3>1, <3>2, SMT
      <3> QED
        BY <3>1, <3>2, <3>3, SMT DEF Front, Last
    <2>3. f \in X
      <3>1. b \in Int
        BY <1>1, SMT
      <3>2. e = [addr |-> e.addr, size |-> e.size] /\ e.addr \in Int
        BY <2>2
      <3> HIDE DEF e, b
      <3>3. f = [addr |-> e.addr, size |-> b - e.addr] /\ b - e.addr \in Int
        BY <3>1, <3>2, SMT
      <3> QED
        BY <3>2, <3>3
    <2> HIDE DEF f, e
    <2>4. c \in Seq(X) /\ Append(c, r) \in Seq(X) /\ Append(Front(c), f) \in Seq(X)
      <3>1. c \in Seq(X)
        OBVIOUS
      <3> HIDE DEF X
      <3> QED
        BY <1>1, <2>2, <2>3, <3>1, SMT
    <2> QED
      BY <2>1, <2>4
  <1> QED
    BY <1>2, <1>3

LEMMA MergeOneByOne ==
  ASSUME NEW s \in Seq(Regs)
  PROVE  \E p : /\ p[0] = <<>>
                /\ \A k \in Nat : k + 1 \in DOMAIN s => p[k + 1] = Merge(p[k], s[k + 1])
                /\ Merged(s) = p[Len(s)]
  <1> DEFINE N == Len(s)
             X == Seq([addr : Int, size : Int])
             G == [i \in 1 .. N |-> [c \in X |-> Merge(c, s[i])]]
             Body(f) == [T \in SUBSET DOMAIN s |->
                           IF T = {} THEN <<>>
                           ELSE LET x == Max(T) IN Merge(f[T \ {x}], s[x])]
             it == CHOOSE f : f = Body(f)
  <1>1. N \in Nat /\ DOMAIN s = 1 .. N /\ \A i \in 1 .. N : s[i] \in Regs
    OBVIOUS
  <1>2. <<>> \in X
    OBVIOUS
  <1>3. G \in [1 .. N -> [X -> X]]
    <2>1. ASSUME NEW i \in 1 .. N, NEW c \in X PROVE Merge(c, s[i]) \in X
      BY <1>1, MergeStays
    <2> HIDE DEF X, N
    <2> QED
      BY <2>1
  <1>4. PICK h \in [SUBSET (1 .. N) -> X] : \A T \in SUBSET (1 .. N) :
          h[T] = IF T = {} THEN <<>> ELSE G[Max(T)][h[T \ {Max(T)}]]
    <2> HIDE DEF N, X, G
    <2>1. PICK h \in [SUBSET (1 .. N) -> X] : IsFold(h, N, <<>>, G)
      BY <1>1, <1>2, <1>3, FoldExists
    <2> QED
      BY <2>1 DEF IsFold
  <1>5. h = Body(h)
    <2> HIDE DEF X, N
    <2>1. ASSUME NEW T \in SUBSET (1 .. N), T # {}
          PROVE  h[T] = Merge(h[T \ {Max(T)}], s[Max(T)])
      <3>1. Max(T) \in 1 .. N
        BY <1>1, <2>1, MaxOf
      <3>2. h[T \ {Max(T)}] \in X
        OBVIOUS
      <3> QED
        BY <1>4, <2>1, <3>1, <3>2
    <2> HIDE DEF G
    <2> QED
      BY <1>1, <1>4, <2>1
  <1>6. it = Body(it)
    <2> HIDE DEF Body
    <2> QED
      BY <1>5
  <1>7. Merged(s) = it[DOMAIN s]
    BY DEF Merged, FoldLeft, MapThenFoldSet
  <1> HIDE DEF it, N
  <1>8. \A T \in SUBSET (1 .. N) :
          it[T] = IF T = {} THEN <<>> ELSE Merge(it[T \ {Max(T)}], s[Max(T)])
    BY <1>1, <1>6
  <1> DEFINE p == [k \in Nat |-> it[1 .. k]]
  <1>9. p[0] = <<>> /\ p[N] = Merged(s)
    BY <1>1, <1>7, <1>8, FirstOnes
  <1>10. ASSUME NEW k \in Nat, k + 1 \in DOMAIN s PROVE p[k + 1] = Merge(p[k], s[k + 1])
    <2>1. 1 .. k + 1 \in SUBSET (1 .. N) /\ k + 1 \in Nat
      BY <1>1, <1>10, SMT
    <2>2. /\ 1 .. k + 1 # {} /\ Max(1 .. k + 1) = k + 1
          /\ (1 .. k + 1) \ {k + 1} = 1 .. k
      BY FirstOnes
    <2> QED
      BY <1>8, <2>1, <2>2
  <1> QED
    BY <1>9, <1>10 DEF N

\* The requests stay within the slave and within the size of a request, and ask
\* for all registers if none of them is the last of the slave.
LEMMA MergedAll ==
  ASSUME NEW s \in Seq(Regs), Sorted(s)
  PROVE  /\ Merged(s) \in Seq(Regs)
         /\ Below(s) => \A i \in DOMAIN s : Covered(Merged(s), s[i])
  <1> DEFINE N == Len(s)
  <1>1. N \in Nat /\ DOMAIN s = 1 .. N /\ \A i \in 1 .. N : s[i] \in Regs
    OBVIOUS
  <1> HIDE DEF N
  <1>2. PICK p : /\ p[0] = <<>>
                 /\ \A k \in Nat : k + 1 \in DOMAIN s => p[k + 1] = Merge(p[k], s[k + 1])
                 /\ Merged(s) = p[N]
    BY MergeOneByOne DEF N
  <1> DEFINE Good(k) ==
               /\ p[k] \in Seq(Regs)
               /\ p[k] # <<>> => k > 0 /\ Last(p[k]).addr <= s[k].addr
               /\ Below(s) => Below(p[k]) /\ \A i \in DOMAIN s : i <= k => Covered(p[k], s[i])
             S == {k \in Nat : k <= N => Good(k)}
  <1>3. 0 \in S
    <2>1. \A i \in DOMAIN s : ~(i <= 0)
      BY <1>1
    <2>2. Below(<<>>) /\ <<>> \in Seq(Regs)
      BY DEF Below
    <2>3. Good(0)
      BY <1>2, <2>1, <2>2
    <2> HIDE DEF Good
    <2> QED
      BY <2>3
  <1>4. ASSUME NEW k \in Nat, k \in S PROVE k + 1 \in S
    <2> SUFFICES ASSUME k + 1 <= N PROVE Good(k + 1)
      BY SMT
    <2>1. k + 1 \in DOMAIN s /\ k <= N /\ k + 1 > 0 /\ (k > 0 => k \in DOMAIN s)
          /\ k <= k + 1
      BY <1>1, SMT
    <2>2. Good(k)
      BY <1>4, <2>1
    <2> DEFINE r == s[k + 1]
    <2>3. p[k + 1] = Merge(p[k], r) /\ r \in Regs
      BY <1>1, <1>2, <2>1
    <2>4. p[k] # <<>> => Last(p[k]).addr <= r.addr
      <3> SUFFICES ASSUME p[k] # <<>> PROVE Last(p[k]).addr <= r.addr
        OBVIOUS
      <3>1. k \in DOMAIN s /\ Last(p[k]).addr <= s[k].addr /\ s[k].addr <= r.addr
        BY <2>1, <2>2 DEF Sorted
      <3>2. Last(p[k]) \in Regs /\ s[k] \in Regs
        BY <1>1, <2>2, <3>1, Ends
      <3>3. Last(p[k]).addr \in Nat /\ s[k].addr \in Nat /\ r.addr \in Nat
        BY <2>3, <3>2, RegsType
      <3> QED
        BY <3>1, <3>3, SMT
    <2> HIDE DEF r
    <2>5. /\ p[k + 1] \in Seq(Regs) /\ p[k + 1] # <<>> /\ Last(p[k + 1]).addr <= r.addr
          /\ Below(p[k]) /\ r.addr + r.size < RegMod =>
               /\ Below(p[k + 1]) /\ Covered(p[k + 1], r)
               /\ \A q \in Regs : Covered(p[k], q) => Covered(p[k + 1], q)
      BY <2>2, <2>3, <2>4, MergeKeeps
    <2>6. ASSUME Below(s)
          PROVE  Below(p[k + 1]) /\ \A i \in DOMAIN s : i <= k + 1 => Covered(p[k + 1], s[i])
      <3>1. r.addr + r.size < RegMod
        BY <2>1, <2>6 DEF Below, r
      <3>2. \A i \in DOMAIN s : i <= k + 1 => i <= k \/ i = k + 1
        BY <1>1, SMT
      <3>3. \A i \in DOMAIN s : i <= k => Covered(p[k], s[i])
        BY <2>2, <2>6
      <3> QED
        BY <1>1, <2>2, <2>5, <2>6, <3>1, <3>2, <3>3 DEF r
    <2> QED
      BY <2>1, <2>5, <2>6 DEF r
  <1> HIDE DEF S
  <1>5. Nat \subseteq S
    BY <1>3, <1>4, Induction
  <1>6. Good(N)
    BY <1>1, <1>5 DEF S
  <1>7. \A i \in DOMAIN s : i <= N
    BY <1>1
  <1> QED
    BY <1>2, <1>6, <1>7

-----------------------------------------------------------------------------
(* The chain *)

\* Chain is the requests of the units, one unit after the other.
Asks(u, c) == [i \in DOMAIN c |-> [unit |-> u, addr |-> c[i].addr, size |-> c[i].size]]

LEMMA ChainParts ==
  ASSUME NEW l
  PROVE  Chain(l) = FlattenSeq([i \in DOMAIN UnitsOf(l) |->
                      Asks(UnitsOf(l)[i].unit, Merged(UnitsOf(l)[i].exts))])
  BY DEF Chain, UnitsOf, Merged, Asks

LEMMA AsksRequests ==
  ASSUME NEW u \in Units, NEW c \in Seq(Regs)
  PROVE  /\ Asks(u, c) \in Seq(Requests)
         /\ \A q \in Regs : Covered(c, q) =>
              \E a \in ToSet(Asks(u, c)) :
                a.unit = u /\ a.addr <= q.addr /\ q.addr + q.size <= a.addr + a.size
  <1>1. Len(c) \in Nat /\ DOMAIN c = 1 .. Len(c)
    OBVIOUS
  <1>2. ASSUME NEW i \in DOMAIN c
        PROVE  [unit |-> u, addr |-> c[i].addr, size |-> c[i].size] \in Requests
    <2>1. c[i] \in Regs
      OBVIOUS
    <2>2. /\ c[i].addr \in Nat /\ c[i].size \in 1 .. MaxSize /\ c[i].addr + c[i].size <= RegMod
          /\ RegMod \in Nat /\ MaxSize \in Nat
      BY <2>1, RegsType
    <2>3. c[i].addr \in 0 .. RegMod - 1
      BY <2>2, SMT
    <2> QED
      BY <2>2, <2>3 DEF Requests, Units
  <1>3. Asks(u, c) \in Seq(Requests)
    <2>1. Asks(u, c) = [i \in 1 .. Len(c) |-> [unit |-> u, addr |-> c[i].addr, size |-> c[i].size]]
      BY <1>1 DEF Asks
    <2>2. Asks(u, c) \in [1 .. Len(c) -> Requests]
      BY <1>1, <1>2, <2>1
    <2> QED
      BY <1>1, <2>2, SMT
  <1>4. ASSUME NEW q \in Regs, Covered(c, q)
        PROVE  \E a \in ToSet(Asks(u, c)) :
                 a.unit = u /\ a.addr <= q.addr /\ q.addr + q.size <= a.addr + a.size
    <2>1. PICK i \in DOMAIN c : c[i].addr <= q.addr /\ q.addr + q.size <= c[i].addr + c[i].size
      BY <1>4 DEF Covered
    <2> DEFINE a == [unit |-> u, addr |-> c[i].addr, size |-> c[i].size]
    <2>2. a \in ToSet(Asks(u, c))
      BY DEF ToSet, Asks
    <2> QED
      BY <2>1, <2>2
  <1> QED
    BY <1>3, <1>4

\* The chain for a list: proper requests, and one for every variable whose unit
\* does not use the last register of the slave.
LEMMA ChainAsks ==
  ASSUME NEW l \in Lists
  PROVE  /\ Chain(l) \in Seq(Requests)
         /\ \A v \in In(l) :
              \/ \E w \in In(l) : Unit[w] = Unit[v] /\ l[w].addr + l[w].size = RegMod
              \/ \E a \in ToSet(Chain(l)) :
                   a.unit = Unit[v] /\ a.addr <= l[v].addr /\ l[v].addr + l[v].size <= a.addr + a.size
  <1> DEFINE c == UnitsOf(l)
             part(i) == Asks(c[i].unit, Merged(c[i].exts))
             q == [i \in DOMAIN c |-> part(i)]
  <1>1. Ordered(l, c) /\ \A v \in In(l) : Has(l, c, v)
    BY UnitsAll
  <1>2. Chain(l) = FlattenSeq(q)
    BY ChainParts
  <1> HIDE DEF c
  <1>3. /\ c \in Seq(Node) /\ Len(c) \in Nat /\ DOMAIN c = 1 .. Len(c)
        /\ \A i \in DOMAIN c : /\ c[i] \in Node /\ Sorted(c[i].exts)
                               /\ \A r \in ToSet(c[i].exts) :
                                    \E w \in In(l) : Unit[w] = c[i].unit /\ r = l[w]
    <2>1. /\ c \in Seq(Node)
          /\ \A i \in DOMAIN c : /\ Sorted(c[i].exts)
                                 /\ \A r \in ToSet(c[i].exts) :
                                      \E w \in In(l) : Unit[w] = c[i].unit /\ r = l[w]
      BY <1>1 DEF Ordered
    <2>2. Len(c) \in Nat /\ DOMAIN c = 1 .. Len(c) /\ \A i \in DOMAIN c : c[i] \in Node
      BY <2>1
    <2> QED
      BY <2>1, <2>2
  <1>4. \A i \in DOMAIN c : c[i].unit \in Units /\ c[i].exts \in Seq(Regs)
    BY <1>3 DEF Node
  <1>5. \A i \in DOMAIN c :
          /\ Merged(c[i].exts) \in Seq(Regs)
          /\ Below(c[i].exts) => \A j \in DOMAIN c[i].exts : Covered(Merged(c[i].exts), c[i].exts[j])
    BY <1>3, <1>4, MergedAll
  <1>6. \A i \in DOMAIN c : part(i) \in Seq(Requests)
    BY <1>4, <1>5, AsksRequests
  <1>7. q \in Seq(Seq(Requests)) /\ DOMAIN q = DOMAIN c /\ \A i \in DOMAIN c : q[i] = part(i)
    <2> HIDE DEF part
    <2>1. q \in [1 .. Len(c) -> Seq(Requests)]
      BY <1>3, <1>6
    <2>2. q \in Seq(Seq(Requests))
      BY <1>3, <2>1, SMT
    <2> QED
      BY <2>2
  <1> HIDE DEF q
  <1>8. /\ FlattenSeq(q) \in Seq(Requests)
        /\ \A x : x \in ToSet(FlattenSeq(q)) <=> \E i \in DOMAIN q : x \in ToSet(q[i])
    BY <1>7, Flattened
  <1>9. ASSUME NEW v \in In(l),
               ~(\E w \in In(l) : Unit[w] = Unit[v] /\ l[w].addr + l[w].size = RegMod)
        PROVE  \E a \in ToSet(Chain(l)) :
                 a.unit = Unit[v] /\ a.addr <= l[v].addr /\ l[v].addr + l[v].size <= a.addr + a.size
    <2>1. PICK i \in DOMAIN c : c[i].unit = Unit[v] /\ l[v] \in ToSet(c[i].exts)
      BY <1>1 DEF Has
    <2>2. Below(c[i].exts)
      <3> SUFFICES ASSUME NEW j \in DOMAIN c[i].exts
                   PROVE  c[i].exts[j].addr + c[i].exts[j].size < RegMod
        BY DEF Below
      <3>1. c[i].exts[j] \in ToSet(c[i].exts)
        BY DEF ToSet
      <3>2. PICK w \in In(l) : Unit[w] = Unit[v] /\ c[i].exts[j] = l[w]
        BY <1>3, <2>1, <3>1
      <3>3. /\ l[w].addr \in Nat /\ l[w].size \in Nat /\ l[w].addr + l[w].size <= RegMod
            /\ RegMod \in Nat
        BY ListRegs, RegsType
      <3>4. l[w].addr + l[w].size # RegMod
        BY <1>9, <3>2
      <3>5. l[w].addr + l[w].size < RegMod
        BY <3>3, <3>4, SMT
      <3> QED
        BY <3>2, <3>5
    <2>3. PICK j \in DOMAIN c[i].exts : l[v] = c[i].exts[j]
      BY <2>1 DEF ToSet
    <2>4. Covered(Merged(c[i].exts), l[v])
      BY <1>5, <2>2, <2>3
    <2>5. \E a \in ToSet(part(i)) :
            a.unit = c[i].unit /\ a.addr <= l[v].addr /\ l[v].addr + l[v].size <= a.addr + a.size
      BY <1>4, <1>5, <2>4, ListRegs, AsksRequests
    <2> HIDE DEF part
    <2> QED
      BY <1>2, <1>7, <1>8, <2>1, <2>5
  <1> QED
    BY <1>2, <1>8, <1>9

-----------------------------------------------------------------------------
(* The ports *)

\* A thread that waits for an answer has a slave left to ask.
Thread == {t \in Threads : t.at = "reading" => t.left > 0}

\* Everything is in range but the list and the chain.
PortTypes ==
  /\ vpc \in [Devs -> {"check", "next", "wait", "poll", "read", "tail"}]
  /\ port \in [Devs -> {"free", "task", "search", "dead"}]
  /\ flag \in BOOLEAN /\ target \in Devs \cup {"none"}
  /\ search \in Thread /\ doomed \in Thread

\* The thread t waits for an answer on port d.
Reading(t, d) == t.at = "reading" /\ t.dev = d
Apart == \A d \in Devs : ~(Reading(search, d) /\ Reading(doomed, d))

PortInv == PortTypes /\ Apart /\ PortExclusive

LEMMA IdleType == Idle("none") \in Thread /\ Idle("none").at = "none"
  BY VarAssumption DEF Idle, Thread, Threads

LEMMA PortInit == VInit => PortInv
  <1> SUFFICES ASSUME VInit PROVE PortInv
    OBVIOUS
  <1>1. search.at = "none" /\ doomed.at = "none" /\ search \in Thread /\ doomed \in Thread
    BY IdleType DEF VInit
  <1>2. PortTypes
    BY <1>1 DEF VInit, PortTypes
  <1>3. Apart /\ PortExclusive
    BY <1>1 DEF VInit, Apart, Reading, PortExclusive
  <1> QED
    BY <1>2, <1>3 DEF PortInv

\* Steps that touch neither the ports nor the threads of the search, and let
\* no task wait for an answer.
LEMMA PortAside ==
  ASSUME PortInv, UNCHANGED <<port, flag, target, search, doomed>>,
         vpc' \in [Devs -> {"check", "next", "wait", "poll", "read", "tail"}],
         \A d \in Devs : vpc'[d] = "read" <=> vpc[d] = "read"
  PROVE  PortInv'
  BY DEF PortInv, PortTypes, Apart, Reading, PortExclusive

LEMMA PortTask ==
  ASSUME PortInv, NEW d \in Devs, Task(d)
  PROVE  PortInv'
  <1>1. vpc \in [Devs -> {"check", "next", "wait", "poll", "read", "tail"}]
    BY DEF PortInv, PortTypes
  <1>2. CASE Check(d) \/ NextNode(d) \/ Wait(d) \/ EndPass(d)
    <2>1. UNCHANGED <<port, flag, target, search, doomed>>
      BY <1>2 DEF Check, NextNode, Wait, EndPass, searchVars
    <2>2. \E l \in {"check", "next", "wait", "poll", "tail"} : vpc' = [vpc EXCEPT ![d] = l]
      BY <1>2 DEF Check, NextNode, Wait, EndPass, Goto
    <2>3. vpc[d] # "read"
      BY <1>2 DEF Check, NextNode, Wait, EndPass
    <2> QED
      BY <1>1, <2>1, <2>2, <2>3, PortAside
  <1>3. CASE Poll(d) /\ ~due[d]
    <2>1. UNCHANGED <<port, flag, target, search, doomed>> /\ vpc[d] = "poll"
      BY <1>3 DEF Poll, searchVars
    <2>2. vpc' = [vpc EXCEPT ![d] = "check"]
      BY <1>3 DEF Poll, Goto
    <2> QED
      BY <1>1, <2>1, <2>2, PortAside
  <1>4. CASE Poll(d) /\ due[d]
    <2>1. /\ port[d] = "free" /\ port' = [port EXCEPT ![d] = "task"]
          /\ vpc' = [vpc EXCEPT ![d] = "read"]
          /\ UNCHANGED <<flag, target, search, doomed>>
      BY <1>4 DEF Poll, Goto, searchVars
    <2> QED
      BY <2>1 DEF PortInv, PortTypes, Apart, Reading, PortExclusive
  <1>5. CASE Answer(d)
    <2>1. /\ vpc[d] = "read" /\ port' = [port EXCEPT ![d] = "free"]
          /\ vpc' = [vpc EXCEPT ![d] = "check"]
          /\ UNCHANGED <<flag, target, search, doomed>>
      BY <1>5 DEF Answer, Goto, searchVars
    <2> QED
      BY <2>1 DEF PortInv, PortTypes, Apart, Reading, PortExclusive
  <1> QED
    BY <1>2, <1>3, <1>4, <1>5 DEF Task

\* The web server's thread, and the passing of time.
LEMMA PortWeb ==
  ASSUME PortInv, Web \/ \E d \in Devs : Elapse(d)
  PROVE  PortInv'
  <1>1. CASE (\E v \in Vars : SetVar(v)) \/ Rebuild \/ Recover \/ RecoverPlain \/ RecoverVars
              \/ FreeLink \/ RecoverDone \/ \E d \in Devs : Elapse(d)
    <2>1. UNCHANGED <<vpc, port, flag, target, search, doomed>>
      BY <1>1
      DEF SetVar, Rebuild, Recover, RecoverPlain, RecoverVars, FreeLink, RecoverDone, Elapse,
          pollVars, searchVars
    <2> QED
      BY <2>1, PortAside DEF PortInv, PortTypes
  <1>2. ASSUME NEW d \in Devs, StartSearch(d)
        PROVE  PortInv'
    <2>1. /\ doomed.at = "none" /\ target' = d /\ doomed' = search
          /\ search' = [at |-> "new", dev |-> d, left |-> Slaves]
          /\ UNCHANGED <<vpc, port, flag>>
      BY <1>2 DEF StartSearch, pollVars
    <2>2. search' \in Thread /\ search'.at = "new"
      BY <2>1, VarAssumption DEF Thread, Threads
    <2>3. PortTypes'
      BY <2>1, <2>2 DEF PortInv, PortTypes
    <2>4. Apart' /\ PortExclusive'
      BY <2>1, <2>2 DEF PortInv, Apart, Reading, PortExclusive
    <2> QED
      BY <2>3, <2>4 DEF PortInv
  <1> QED
    BY <1>1, <1>2 DEF Web

\* One step of a search's thread, whichever of the two it is.
LEMMA PortThread ==
  ASSUME PortInv, NEW t, NEW u, NEW o, SearchStep(t, u), t \in Thread, o \in Thread,
         \A d \in Devs : ~(Reading(t, d) /\ Reading(o, d)),
         \A d \in Devs : port[d] = "search" <=> Reading(t, d) \/ Reading(o, d),
         vpc' = vpc
  PROVE  /\ u \in Thread /\ flag' \in BOOLEAN
         /\ port' \in [Devs -> {"free", "task", "search", "dead"}]
         /\ \A d \in Devs : ~(Reading(u, d) /\ Reading(o, d))
         /\ \A d \in Devs : port'[d] = "search" <=> Reading(u, d) \/ Reading(o, d)
         /\ \A d \in Devs : vpc'[d] = "read" <=> port'[d] = "task"
  <1>1. /\ t.at \in {"none", "new", "loop", "reading"} /\ t.dev \in Devs \cup {"none"}
        /\ t.left \in 0 .. Slaves /\ (t.at = "reading" => t.left > 0)
        /\ t = [at |-> t.at, dev |-> t.dev, left |-> t.left]
    BY DEF Thread, Threads
  <1>2. /\ port \in [Devs -> {"free", "task", "search", "dead"}]
        /\ \A d \in Devs : vpc[d] = "read" <=> port[d] = "task"
        /\ flag \in BOOLEAN /\ target \in Devs \cup {"none"}
    BY DEF PortInv, PortTypes, PortExclusive
  <1>3. CASE t.at = "new" /\ u = [t EXCEPT !.at = "loop", !.dev = target] /\ flag' = TRUE
             /\ port' = port
    <2>1. u = [at |-> "loop", dev |-> target, left |-> t.left]
      BY <1>1, <1>3
    <2>2. u \in Thread /\ u.at = "loop"
      BY <1>1, <1>2, <2>1 DEF Thread, Threads
    <2> QED
      BY <1>2, <1>3, <2>2 DEF Reading
  <1>4. CASE t.at = "loop" /\ t.left > 0 /\ port[t.dev] = "free"
             /\ u = [t EXCEPT !.at = "reading"]
             /\ port' = [port EXCEPT ![t.dev] = "search"] /\ flag' = flag
    <2>1. u = [at |-> "reading", dev |-> t.dev, left |-> t.left]
      BY <1>1, <1>4
    <2>2. u \in Thread /\ u.at = "reading" /\ u.dev = t.dev
      BY <1>1, <1>4, <2>1 DEF Thread, Threads
    <2>3. \A d \in Devs : port'[d] = IF d = t.dev THEN "search" ELSE port[d]
      BY <1>2, <1>4
    <2>4. port' \in [Devs -> {"free", "task", "search", "dead"}]
      BY <1>2, <1>4
    <2> QED
      BY <1>2, <1>4, <2>2, <2>3, <2>4 DEF Reading
  <1>5. CASE t.at = "reading" /\ u = [t EXCEPT !.at = "loop", !.left = @ - 1]
             /\ port' = [port EXCEPT ![t.dev] = "free"] /\ flag' = flag
    <2>1. u = [at |-> "loop", dev |-> t.dev, left |-> t.left - 1]
      BY <1>1, <1>5
    <2>2. u.at = "loop" /\ u \in Thread
      <3>1. t.left - 1 \in 0 .. Slaves
        BY <1>1, <1>5, VarAssumption
      <3> QED
        BY <1>1, <2>1, <3>1 DEF Thread, Threads
    <2>3. \A d \in Devs : port'[d] = IF d = t.dev THEN "free" ELSE port[d]
      BY <1>2, <1>5
    <2>4. port' \in [Devs -> {"free", "task", "search", "dead"}]
      BY <1>2, <1>5
    <2> QED
      BY <1>2, <1>5, <2>2, <2>3, <2>4 DEF Reading
  <1>6. CASE t.at = "loop" /\ u = Idle("none") /\ flag' = FALSE /\ port' = port
    <2>1. u \in Thread /\ u.at = "none"
      BY <1>6, IdleType
    <2> QED
      BY <1>2, <1>6, <2>1 DEF Reading
  <1> QED
    BY <1>3, <1>4, <1>5, <1>6 DEF SearchStep

LEMMA PortSearch ==
  ASSUME PortInv, Search
  PROVE  PortInv'
  <1>1. UNCHANGED <<vpc, target>> /\ search \in Thread /\ doomed \in Thread
    BY DEF Search, pollVars, PortInv, PortTypes
  <1>2. CASE SearchStep(search, search') /\ UNCHANGED doomed
    <2>1. /\ search' \in Thread /\ flag' \in BOOLEAN
          /\ port' \in [Devs -> {"free", "task", "search", "dead"}]
          /\ \A d \in Devs : ~(Reading(search', d) /\ Reading(doomed, d))
          /\ \A d \in Devs : port'[d] = "search" <=> Reading(search', d) \/ Reading(doomed, d)
          /\ \A d \in Devs : vpc'[d] = "read" <=> port'[d] = "task"
      BY <1>1, <1>2, PortThread DEF PortInv, Apart, PortExclusive, Reading
    <2> QED
      BY <1>1, <1>2, <2>1 DEF PortInv, PortTypes, Apart, PortExclusive, Reading
  <1>3. CASE SearchStep(doomed, doomed') /\ UNCHANGED search
    <2>1. /\ doomed' \in Thread /\ flag' \in BOOLEAN
          /\ port' \in [Devs -> {"free", "task", "search", "dead"}]
          /\ \A d \in Devs : ~(Reading(doomed', d) /\ Reading(search, d))
          /\ \A d \in Devs : port'[d] = "search" <=> Reading(doomed', d) \/ Reading(search, d)
          /\ \A d \in Devs : vpc'[d] = "read" <=> port'[d] = "task"
      BY <1>1, <1>3, PortThread DEF PortInv, Apart, PortExclusive, Reading
    <2> QED
      BY <1>1, <1>3, <2>1 DEF PortInv, PortTypes, Apart, PortExclusive, Reading
  <1> QED
    BY <1>2, <1>3 DEF Search

\* The mutex of a thread that dies while it waits is nobody's for ever.
LEMMA PortDie ==
  ASSUME PortInv, Die
  PROVE  PortInv'
  <1>1. /\ doomed.at \in {"new", "reading"} /\ doomed' = Idle("none")
        /\ port' = IF doomed.at = "new" THEN port ELSE [port EXCEPT ![doomed.dev] = "dead"]
        /\ UNCHANGED <<vpc, flag, target, search>>
    BY DEF Die, pollVars
  <1>2. doomed' \in Thread /\ doomed'.at = "none"
    BY <1>1, IdleType
  <1>3. \A d \in Devs : port'[d] = IF Reading(doomed, d) THEN "dead" ELSE port[d]
    BY <1>1 DEF Reading, PortInv, PortTypes
  <1>4. PortTypes'
    BY <1>1, <1>2 DEF PortInv, PortTypes
  <1>5. Apart' /\ PortExclusive'
    BY <1>1, <1>2, <1>3 DEF PortInv, Apart, PortExclusive, Reading
  <1> QED
    BY <1>4, <1>5 DEF PortInv

LEMMA PortReboot ==
  ASSUME Reboot
  PROVE  PortInv'
  <1>1. search'.at = "none" /\ doomed'.at = "none" /\ search' \in Thread /\ doomed' \in Thread
    BY IdleType DEF Reboot
  <1>2. PortTypes'
    BY <1>1 DEF Reboot, PortTypes
  <1>3. Apart' /\ PortExclusive'
    BY <1>1 DEF Reboot, Apart, Reading, PortExclusive
  <1> QED
    BY <1>2, <1>3 DEF PortInv

LEMMA PortStep ==
  ASSUME PortInv, [VNext]_vvars
  PROVE  PortInv'
  <1>1. CASE UNCHANGED vvars
    <2>1. UNCHANGED <<vpc, port, flag, target, search, doomed>>
      BY <1>1 DEF vvars, pollVars, searchVars
    <2> QED
      BY <2>1, PortAside DEF PortInv, PortTypes
  <1> QED
    BY <1>1, PortTask, PortWeb, PortSearch, PortDie, PortReboot DEF VNext

\* g_mb_mutex_uart of a port is in one hand, and never given back by another,
\* for any number of ports and slaves and however often a search is deleted.
THEOREM AlwaysExclusive == VSpec => []PortExclusive
  <1>1. PortInv => PortExclusive
    BY DEF PortInv
  <1> QED
    BY <1>1, PortInit, PortStep, PTL DEF VSpec

-----------------------------------------------------------------------------
(* The walk *)

WalkTypes ==
  /\ list \in Lists /\ link \in Seq(Requests)
  /\ busy \in BOOLEAN /\ web \in WebPlaces /\ ops \in 0 .. MaxOps
  /\ due \in [Devs -> BOOLEAN] /\ calm \in [Devs -> BOOLEAN] /\ whole \in [Devs -> BOOLEAN]
  /\ vpc \in [Devs -> {"check", "next", "wait", "poll", "read", "tail"}]
  /\ at \in [Devs -> {0, Stale} \cup DOMAIN link]
  /\ asked \in [Devs -> SUBSET Requests]
  /\ node \in [Devs -> Requests \cup {<<>>}]
  /\ \A d \in Devs : vpc[d] \in {"wait", "poll"} => node[d] \in Requests

\* When the flag of a recovery is up, and that it disturbs every pass.
Modes == /\ web \in {"lines", "freeing", "saving"} => busy
         /\ web = "reboot" => ~busy
         /\ busy => \A d \in Devs : ~calm[d]

\* The chain is that of the list.
Fresh == web \in {"idle", "lines"} => link = Chain(list)

\* The request of position j is polled, or about to be.
Met(d, j) == \/ link[j] \in asked[d]
             \/ vpc[d] \in {"wait", "poll"} /\ node[d] = link[j]

Polled == \A d \in Devs : calm[d] /\ whole[d] =>
            \A j \in DOMAIN link : j <= at[d] /\ link[j].unit.dev = d => Met(d, j)

AtEndOfPass == \A d \in Devs : calm[d] /\ vpc[d] = "tail" =>
                 \A j \in DOMAIN link : j <= at[d]

WalkInv == WalkTypes /\ Modes /\ Fresh /\ Polled /\ AtEndOfPass

LEMMA StartChain ==
  ASSUME NEW l \in Lists
  PROVE  Chains[l] = Chain(l) /\ Chain(l) \in Seq(Requests)
  BY ChainAsks DEF Chains

LEMMA ChainDomain ==
  ASSUME WalkTypes
  PROVE  Len(link) \in Nat /\ DOMAIN link = 1 .. Len(link) /\ Stale \in Nat
  BY VarAssumption, FS_CardinalityType DEF WalkTypes, Stale

LEMMA WalkInit == VInit => WalkInv
  <1> SUFFICES ASSUME VInit PROVE WalkInv
    OBVIOUS
  <1>1. list \in Lists /\ link = Chain(list) /\ link \in Seq(Requests)
    BY StartChain DEF VInit
  <1>2. /\ at = [d \in Devs |-> 0] /\ vpc = [d \in Devs |-> "check"] /\ web = "idle" /\ busy = FALSE
        /\ node = [d \in Devs |-> <<>>] /\ whole = [d \in Devs |-> TRUE]
        /\ asked = [d \in Devs |-> {}] /\ calm = [d \in Devs |-> TRUE]
        /\ due = [d \in Devs |-> TRUE] /\ ops = 0
    BY DEF VInit
  <1>3. WalkTypes
    <2>1. ops \in 0 .. MaxOps
      BY <1>2, VarAssumption
    <2>2. /\ busy \in BOOLEAN /\ web \in WebPlaces
          /\ due \in [Devs -> BOOLEAN] /\ calm \in [Devs -> BOOLEAN] /\ whole \in [Devs -> BOOLEAN]
          /\ at \in [Devs -> {0, Stale} \cup DOMAIN link]
          /\ asked \in [Devs -> SUBSET Requests]
          /\ node \in [Devs -> Requests \cup {<<>>}]
      BY <1>2 DEF WebPlaces
    <2>3. /\ vpc \in [Devs -> {"check", "next", "wait", "poll", "read", "tail"}]
          /\ \A d \in Devs : vpc[d] = "check"
      BY <1>2
    <2> QED
      BY <1>1, <2>1, <2>2, <2>3 DEF WalkTypes
  <1>4. Modes /\ Fresh /\ AtEndOfPass
    BY <1>1, <1>2 DEF Modes, Fresh, AtEndOfPass
  <1>5. Polled
    <2>1. \A j \in DOMAIN link : ~(j <= 0)
      BY <1>3, ChainDomain
    <2> QED
      BY <1>2, <2>1 DEF Polled
  <1> QED
    BY <1>3, <1>4, <1>5 DEF WalkInv

\* Steps of others that leave the walk as it is.
LEMMA WalkAside ==
  ASSUME WalkInv, UNCHANGED <<list, link, busy, web, calm, vpc, at, node, whole, asked>>,
         ops' \in 0 .. MaxOps, due' \in [Devs -> BOOLEAN]
  PROVE  WalkInv'
  BY DEF WalkInv, WalkTypes, Modes, Fresh, Polled, Met, AtEndOfPass

\* Steps of the task of port d other than the end of a pass.
LEMMA WalkOn ==
  ASSUME WalkInv, NEW d \in Devs, UNCHANGED <<list, link, busy, web, ops, due, calm>>,
         WalkTypes',
         \A o \in Devs \ {d} : /\ vpc'[o] = vpc[o] /\ at'[o] = at[o] /\ node'[o] = node[o]
                               /\ whole'[o] = whole[o] /\ asked'[o] = asked[o],
         calm[d] /\ whole'[d] =>
           \A j \in DOMAIN link : j <= at'[d] /\ link[j].unit.dev = d =>
             \/ link[j] \in asked'[d]
             \/ vpc'[d] \in {"wait", "poll"} /\ node'[d] = link[j],
         calm[d] /\ vpc'[d] = "tail" => \A j \in DOMAIN link : j <= at'[d]
  PROVE  WalkInv'
  <1>1. Modes' /\ Fresh'
    BY DEF WalkInv, Modes, Fresh
  <1>2. Polled'
    <2> SUFFICES ASSUME NEW o \in Devs, calm[o], whole'[o], NEW j \in DOMAIN link,
                        j <= at'[o], link[j].unit.dev = o
                 PROVE  \/ link[j] \in asked'[o]
                        \/ vpc'[o] \in {"wait", "poll"} /\ node'[o] = link[j]
      BY DEF Polled, Met
    <2>1. CASE o = d
      BY <2>1
    <2>2. CASE o # d
      BY <2>2 DEF WalkInv, Polled, Met
    <2> QED
      BY <2>1, <2>2
  <1>3. AtEndOfPass'
    BY DEF WalkInv, AtEndOfPass
  <1> QED
    BY <1>1, <1>2, <1>3 DEF WalkInv

LEMMA WalkTask ==
  ASSUME WalkInv, NEW d \in Devs, Task(d)
  PROVE  WalkInv'
  <1>1. /\ WalkTypes /\ Modes /\ Fresh /\ Polled /\ AtEndOfPass
        /\ Len(link) \in Nat /\ DOMAIN link = 1 .. Len(link) /\ Stale \in Nat
    BY ChainDomain DEF WalkInv
  <1>2. /\ at[d] \in {0, Stale} \cup DOMAIN link /\ at[d] \in Nat
        /\ vpc \in [Devs -> {"check", "next", "wait", "poll", "read", "tail"}]
    BY <1>1 DEF WalkTypes
  <1>3. CASE Check(d) \/ Wait(d) \/ Answer(d)
    <2>1. /\ UNCHANGED <<list, link, busy, web, ops, due, calm, at, node, whole, asked>>
          /\ \/ vpc[d] = "check" /\ vpc' = [vpc EXCEPT ![d] = IF busy THEN "tail" ELSE "next"]
             \/ vpc[d] = "wait" /\ vpc' = [vpc EXCEPT ![d] = "poll"]
             \/ vpc[d] = "read" /\ vpc' = [vpc EXCEPT ![d] = "check"]
      BY <1>3 DEF Check, Wait, Answer, Goto
    <2>2. WalkTypes'
      BY <1>1, <2>1 DEF WalkTypes
    <2>3. calm[d] => vpc'[d] # "tail"
      BY <1>1, <1>2, <2>1 DEF Modes
    <2>4. ASSUME calm[d], whole'[d], NEW j \in DOMAIN link, j <= at'[d], link[j].unit.dev = d
          PROVE  link[j] \in asked'[d] \/ (vpc'[d] \in {"wait", "poll"} /\ node'[d] = link[j])
      BY <1>1, <1>2, <2>1, <2>4 DEF Polled, Met
    <2> QED
      BY <1>2, <2>1, <2>2, <2>3, <2>4, WalkOn
  <1>4. CASE NextNode(d)
    <2> DEFINE i == Following(d)
    <2>1. /\ UNCHANGED <<list, link, busy, web, ops, due, calm, whole, asked>> /\ vpc[d] = "next"
          /\ \/ i > Len(link) /\ vpc' = [vpc EXCEPT ![d] = "tail"] /\ UNCHANGED <<at, node>>
             \/ /\ i <= Len(link) /\ at' = [at EXCEPT ![d] = i]
                /\ \/ /\ link[i].unit.dev # d /\ node' = node
                      /\ vpc' = [vpc EXCEPT ![d] = "check"]
                   \/ /\ link[i].unit.dev = d /\ node' = [node EXCEPT ![d] = link[i]]
                      /\ \E x \in {"wait", "poll"} : vpc' = [vpc EXCEPT ![d] = x]
      BY <1>4 DEF NextNode, Goto
    <2>2. i \in Nat \ {0} /\ (i = 1 \/ i = at[d] + 1)
      BY <1>2, SMT DEF Following
    <2>3. \A j \in DOMAIN link : /\ j <= i => j = i \/ j <= at[d]
                                 /\ i > Len(link) => j <= at[d]
      BY <1>1, <1>2, <2>2, SMT
    <2> HIDE DEF i
    <2>4. i <= Len(link) => i \in DOMAIN link /\ link[i] \in Requests
      <3>1. i <= Len(link) => i \in DOMAIN link
        BY <1>1, <2>2, SMT
      <3> QED
        BY <1>1, <3>1 DEF WalkTypes
    <2>5. WalkTypes'
      BY <1>1, <1>2, <2>1, <2>4 DEF WalkTypes
    <2>6. ASSUME calm[d], whole'[d], NEW j \in DOMAIN link, j <= at'[d], link[j].unit.dev = d
          PROVE  link[j] \in asked'[d] \/ (vpc'[d] \in {"wait", "poll"} /\ node'[d] = link[j])
      <3>1. j <= at[d] => link[j] \in asked[d]
        BY <1>1, <2>1, <2>6 DEF Polled, Met
      <3>2. at'[d] = at[d] \/ (at'[d] = i /\ i <= Len(link))
        BY <1>1, <2>1 DEF WalkTypes
      <3>3. CASE j <= at[d]
        BY <2>1, <3>1, <3>3
      <3>4. CASE ~(j <= at[d])
        <4>1. j = i /\ i <= Len(link) /\ at'[d] # at[d]
          BY <2>3, <2>6, <3>2, <3>4
        <4>2. node' = [node EXCEPT ![d] = link[i]] /\ \E x \in {"wait", "poll"} : vpc' = [vpc EXCEPT ![d] = x]
          BY <2>1, <2>6, <4>1
        <4> QED
          BY <1>1, <4>1, <4>2 DEF WalkTypes
      <3> QED
        BY <3>3, <3>4
    <2>7. ASSUME vpc'[d] = "tail" PROVE \A j \in DOMAIN link : j <= at'[d]
      BY <1>2, <2>1, <2>3, <2>7
    <2>8. \A o \in Devs \ {d} : vpc'[o] = vpc[o] /\ at'[o] = at[o] /\ node'[o] = node[o]
      BY <1>1, <2>1 DEF WalkTypes
    <2> QED
      BY <2>1, <2>5, <2>6, <2>7, <2>8, WalkOn
  <1>5. CASE Poll(d)
    <2>1. /\ UNCHANGED <<list, link, busy, web, ops, due, calm, at>> /\ vpc[d] = "poll"
          /\ whole' = [whole EXCEPT ![d] = whole[d] /\ due[d]]
          /\ node' = [node EXCEPT ![d] = <<>>]
          /\ \/ /\ due[d] /\ asked' = [asked EXCEPT ![d] = asked[d] \cup {node[d]}]
                /\ vpc' = [vpc EXCEPT ![d] = "read"]
             \/ ~due[d] /\ asked' = asked /\ vpc' = [vpc EXCEPT ![d] = "check"]
      BY <1>5 DEF Poll, Goto
    <2>2. WalkTypes'
      <3>1. node[d] \in Requests /\ due[d] \in BOOLEAN /\ whole[d] \in BOOLEAN
        BY <1>1, <2>1 DEF WalkTypes
      <3>2. whole' \in [Devs -> BOOLEAN]
        BY <1>1, <2>1, <3>1, Zenon DEF WalkTypes
      <3>3. /\ asked' \in [Devs -> SUBSET Requests]
            /\ node' \in [Devs -> Requests \cup {<<>>}]
        BY <1>1, <2>1, <3>1 DEF WalkTypes
      <3>4. /\ vpc' \in [Devs -> {"check", "next", "wait", "poll", "read", "tail"}]
            /\ \A o \in Devs : vpc'[o] \in {"wait", "poll"} => o # d /\ vpc[o] \in {"wait", "poll"}
        BY <1>1, <2>1 DEF WalkTypes
      <3>5. \A o \in Devs : vpc'[o] \in {"wait", "poll"} => node'[o] \in Requests
        BY <1>1, <2>1, <3>4 DEF WalkTypes
      <3> QED
        BY <1>1, <2>1, <3>2, <3>3, <3>4, <3>5 DEF WalkTypes
    <2>3. vpc'[d] \in {"read", "check"}
      BY <1>2, <2>1
    <2>4. ASSUME calm[d], whole'[d], NEW j \in DOMAIN link, j <= at'[d], link[j].unit.dev = d
          PROVE  link[j] \in asked'[d]
      <3>1. whole[d] /\ due[d]
        BY <1>1, <2>1, <2>4, Zenon DEF WalkTypes
      <3>2. asked'[d] = asked[d] \cup {node[d]}
        BY <1>1, <2>1, <3>1 DEF WalkTypes
      <3>3. link[j] \in asked[d] \/ node[d] = link[j]
        BY <1>1, <2>1, <2>4, <3>1 DEF Polled, Met
      <3> QED
        BY <3>2, <3>3
    <2>5. \A o \in Devs \ {d} : /\ vpc'[o] = vpc[o] /\ at'[o] = at[o] /\ node'[o] = node[o]
                                /\ whole'[o] = whole[o] /\ asked'[o] = asked[o]
      BY <1>1, <2>1 DEF WalkTypes
    <2>6. vpc'[d] # "tail"
      BY <2>3
    <2> QED
      BY <2>1, <2>2, <2>4, <2>5, <2>6, WalkOn
  <1>6. CASE EndPass(d)
    <2>1. /\ UNCHANGED <<list, link, busy, web, ops, node>>
          /\ vpc' = [vpc EXCEPT ![d] = "check"]
          /\ due' = [due EXCEPT ![d] = due[d] /\ (busy \/ ~whole[d])]
          /\ at' = [at EXCEPT ![d] = 0] /\ whole' = [whole EXCEPT ![d] = TRUE]
          /\ asked' = [asked EXCEPT ![d] = {}] /\ calm' = [calm EXCEPT ![d] = ~busy]
      BY <1>6 DEF EndPass, Goto
    <2>2. WalkTypes'
      <3>1. due' \in [Devs -> BOOLEAN] /\ calm' \in [Devs -> BOOLEAN]
        BY <1>1, <2>1, Zenon DEF WalkTypes
      <3> QED
        BY <1>1, <2>1, <3>1 DEF WalkTypes
    <2>3. \A o \in Devs : /\ o = d => vpc'[o] = "check" /\ at'[o] = 0 /\ calm'[o] = ~busy
                          /\ o # d => /\ vpc'[o] = vpc[o] /\ at'[o] = at[o] /\ node'[o] = node[o]
                                      /\ whole'[o] = whole[o] /\ asked'[o] = asked[o]
                                      /\ calm'[o] = calm[o]
      BY <1>1, <2>1 DEF WalkTypes
    <2>4. Modes'
      BY <1>1, <2>1, <2>3 DEF Modes
    <2>5. Fresh'
      BY <1>1, <2>1 DEF Fresh
    <2>6. Polled'
      <3>1. \A j \in DOMAIN link : ~(j <= 0)
        BY <1>1
      <3> SUFFICES ASSUME NEW o \in Devs, calm'[o], whole'[o], NEW j \in DOMAIN link,
                          j <= at'[o], link[j].unit.dev = o
                   PROVE  \/ link[j] \in asked'[o]
                          \/ vpc'[o] \in {"wait", "poll"} /\ node'[o] = link[j]
        BY <2>1 DEF Polled, Met
      <3>2. CASE o = d
        BY <2>3, <3>1, <3>2
      <3>3. CASE o # d
        BY <1>1, <2>3, <3>3 DEF Polled, Met
      <3> QED
        BY <3>2, <3>3
    <2>7. AtEndOfPass'
      BY <1>1, <2>1, <2>3 DEF AtEndOfPass
    <2> QED
      BY <2>2, <2>4, <2>5, <2>6, <2>7 DEF WalkInv
  <1> QED
    BY <1>3, <1>4, <1>5, <1>6 DEF Task

\* A change of the chain disturbs every pass that is under way.
LEMMA WalkAnew ==
  ASSUME WalkTypes', Modes', Fresh', \A d \in Devs : ~calm'[d]
  PROVE  WalkInv'
  BY DEF WalkInv, Polled, AtEndOfPass

LEMMA WalkWeb ==
  ASSUME WalkInv, Web
  PROVE  WalkInv'
  <1>1. WalkTypes /\ Modes /\ Fresh /\ Polled /\ AtEndOfPass
    BY DEF WalkInv
  <1>2. \A l : Start(l) => ops' \in 0 .. MaxOps /\ web = "idle" /\ web' = l
    BY <1>1, VarAssumption DEF Start, WalkTypes
  <1>3. ASSUME NEW v \in Vars, SetVar(v) PROVE WalkInv'
    <2>1. /\ web = "idle" /\ web' = "changed" /\ ops' \in 0 .. MaxOps
          /\ \E r \in Places[v] \cup {Absent} : list' = [list EXCEPT ![v] = r]
          /\ UNCHANGED <<link, busy, due, calm, vpc, at, node, whole, asked>>
      BY <1>2, <1>3 DEF SetVar, pollVars
    <2>2. list' \in Lists
      <3>1. PICK r \in Places[v] \cup {Absent} : list' = [list EXCEPT ![v] = r]
        BY <2>1
      <3> QED
        BY <1>1, <3>1 DEF WalkTypes, Lists
    <2>3. WalkTypes' /\ Modes' /\ Fresh'
      BY <1>1, <2>1, <2>2 DEF WalkTypes, WebPlaces, Modes, Fresh
    <2>4. Polled' /\ AtEndOfPass'
      BY <1>1, <2>1 DEF Polled, Met, AtEndOfPass
    <2> QED
      BY <2>3, <2>4 DEF WalkInv
  <1>4. CASE Rebuild
    <2>1. /\ web' = "idle" /\ link' = Chain(list) /\ link' \in Seq(Requests)
          /\ due' = [d \in Devs |-> TRUE] /\ calm' = [d \in Devs |-> FALSE]
          /\ asked' = [d \in Devs |-> {}] /\ at' \in [Devs -> {0, Stale} \cup DOMAIN link']
          /\ UNCHANGED <<list, busy, ops, vpc, node, whole>>
      BY <1>1, <1>4, StartChain DEF Rebuild, Dangling, WalkTypes
    <2>2. WalkTypes' /\ Modes' /\ Fresh' /\ \A d \in Devs : ~calm'[d]
      BY <1>1, <2>1 DEF WalkTypes, WebPlaces, Modes, Fresh
    <2> QED
      BY <2>2, WalkAnew
  <1>5. CASE Recover
    <2>1. /\ web = "idle" /\ web' \in {"idle", "lines"} /\ ops' \in 0 .. MaxOps
          /\ busy' = TRUE /\ calm' = [d \in Devs |-> FALSE]
          /\ UNCHANGED <<list, link, due, vpc, at, node, whole, asked>>
      BY <1>2, <1>5 DEF Recover, pollVars
    <2>2. WalkTypes' /\ Modes' /\ Fresh' /\ \A d \in Devs : ~calm'[d]
      BY <1>1, <2>1 DEF WalkTypes, WebPlaces, Modes, Fresh
    <2> QED
      BY <2>2, WalkAnew
  <1>6. CASE RecoverPlain \/ RecoverDone
    <2>1. /\ web \in {"lines", "saving"} /\ web' \in {"idle", "reboot"} /\ busy' = FALSE
          /\ web' = "idle" => web = "lines"
          /\ UNCHANGED <<list, link, ops, due, calm, vpc, at, node, whole, asked>>
      BY <1>6 DEF RecoverPlain, RecoverDone, pollVars
    <2>2. WalkTypes' /\ Modes' /\ Fresh' /\ \A d \in Devs : ~calm'[d]
      BY <1>1, <2>1 DEF WalkTypes, WebPlaces, Modes, Fresh
    <2> QED
      BY <2>2, WalkAnew
  <1>7. CASE RecoverVars
    <2>1. /\ web = "lines" /\ web' = "freeing" /\ list' = [v \in Vars |-> Absent]
          /\ UNCHANGED <<link, busy, ops, due, calm, vpc, at, node, whole, asked>>
      BY <1>7 DEF RecoverVars, pollVars
    <2>2. list' \in Lists
      BY <2>1 DEF Lists
    <2>3. WalkTypes' /\ Modes' /\ Fresh' /\ \A d \in Devs : ~calm'[d]
      BY <1>1, <2>1, <2>2 DEF WalkTypes, WebPlaces, Modes, Fresh
    <2> QED
      BY <2>3, WalkAnew
  <1>8. CASE FreeLink
    <2>1. /\ web = "freeing" /\ web' = "saving" /\ link' = <<>>
          /\ at' \in [Devs -> {0, Stale} \cup DOMAIN link']
          /\ UNCHANGED <<list, busy, ops, due, calm, vpc, node, whole, asked>>
      BY <1>8 DEF FreeLink, Dangling
    <2>2. link' \in Seq(Requests)
      BY <2>1
    <2>3. WalkTypes' /\ Modes' /\ Fresh' /\ \A d \in Devs : ~calm'[d]
      BY <1>1, <2>1, <2>2 DEF WalkTypes, WebPlaces, Modes, Fresh
    <2> QED
      BY <2>3, WalkAnew
  <1>9. ASSUME NEW d \in Devs, StartSearch(d) PROVE WalkInv'
    <2>1. /\ web = "idle" /\ web' = "idle" /\ ops' \in 0 .. MaxOps
          /\ UNCHANGED <<list, link, busy, due, calm, vpc, at, node, whole, asked>>
      BY <1>2, <1>9 DEF StartSearch, pollVars
    <2> QED
      BY <1>1, <2>1, WalkAside DEF WalkTypes
  <1> QED
    BY <1>3, <1>4, <1>5, <1>6, <1>7, <1>8, <1>9 DEF Web

LEMMA WalkOthers ==
  ASSUME WalkInv, Search \/ Die \/ (\E d \in Devs : Elapse(d)) \/ UNCHANGED vvars
  PROVE  WalkInv'
  <1>1. UNCHANGED <<list, link, busy, web, ops, calm, vpc, at, node, whole, asked>>
    BY DEF Search, Die, Elapse, vvars, pollVars
  <1>2. due' = due \/ \E d \in Devs : due' = [due EXCEPT ![d] = TRUE]
    BY DEF Search, Die, Elapse, vvars
  <1>3. ops' \in 0 .. MaxOps /\ due' \in [Devs -> BOOLEAN]
    BY <1>1, <1>2 DEF WalkInv, WalkTypes
  <1> QED
    BY <1>1, <1>3, WalkAside

LEMMA WalkReboot ==
  ASSUME WalkInv, Reboot
  PROVE  WalkInv'
  <1>1. /\ web = "reboot" /\ web' = "idle" /\ list' \in Lists
        /\ link' = Chain(list') /\ link' \in Seq(Requests)
        /\ at' = [d \in Devs |-> 0] /\ vpc' = [d \in Devs |-> "check"]
        /\ node' = [d \in Devs |-> <<>>] /\ whole' = [d \in Devs |-> TRUE]
        /\ asked' = [d \in Devs |-> {}] /\ calm' = [d \in Devs |-> TRUE]
        /\ due' = [d \in Devs |-> TRUE] /\ busy' = busy /\ ops' = ops
    BY StartChain DEF Reboot
  <1>2. busy = FALSE /\ ops \in 0 .. MaxOps
    BY <1>1 DEF WalkInv, WalkTypes, Modes
  <1>3. WalkTypes'
    <2>1. /\ busy' \in BOOLEAN /\ web' \in WebPlaces
          /\ due' \in [Devs -> BOOLEAN] /\ calm' \in [Devs -> BOOLEAN] /\ whole' \in [Devs -> BOOLEAN]
          /\ at' \in [Devs -> {0, Stale} \cup DOMAIN link']
          /\ asked' \in [Devs -> SUBSET Requests]
          /\ node' \in [Devs -> Requests \cup {<<>>}]
      BY <1>1, <1>2 DEF WebPlaces
    <2>2. /\ vpc' \in [Devs -> {"check", "next", "wait", "poll", "read", "tail"}]
          /\ \A d \in Devs : vpc'[d] = "check"
      BY <1>1
    <2> QED
      BY <1>1, <1>2, <2>1, <2>2 DEF WalkTypes
  <1>4. Modes' /\ Fresh' /\ AtEndOfPass'
    BY <1>1, <1>2 DEF Modes, Fresh, AtEndOfPass
  <1>5. Polled'
    <2>1. \A j \in DOMAIN link' : ~(j <= 0)
      BY <1>1
    <2> QED
      BY <1>1, <2>1 DEF Polled
  <1> QED
    BY <1>3, <1>4, <1>5 DEF WalkInv

LEMMA WalkStep ==
  ASSUME WalkInv, [VNext]_vvars
  PROVE  WalkInv'
  BY WalkTask, WalkWeb, WalkOthers, WalkReboot DEF VNext

LEMMA Walks == VSpec => []WalkInv
  BY WalkInit, WalkStep, PTL DEF VSpec

\* The state stays in range: a request asks for 1 to MaxSize registers within
\* the slave, for any list of variables.
THEOREM TypeCorrect == VSpec => []VTypeOK
  <1>1. WalkInv /\ PortInv => VTypeOK
    <2> SUFFICES ASSUME WalkInv, PortInv PROVE VTypeOK
      OBVIOUS
    <2>1. \A i \in DOMAIN link : link[i] \in Requests
      BY DEF WalkInv, WalkTypes
    <2>2. /\ flag \in BOOLEAN /\ target \in Devs \cup {"none"}
          /\ search \in Threads /\ doomed \in Threads
          /\ port \in [Devs -> {"free", "task", "search", "dead"}]
      BY DEF PortInv, PortTypes, Thread
    <2>3. \A d \in Devs : at[d] \in {0, Stale} \cup DOMAIN link /\ asked[d] \subseteq Requests
      BY DEF WalkInv, WalkTypes
    <2> QED
      BY <2>1, <2>2, <2>3 DEF VTypeOK, WalkInv, WalkTypes
  <1> QED
    BY <1>1, Walks, PortInit, PortStep, PTL DEF VSpec

\* While the web server is idle the requests of __creat_sync_slave_link ask for
\* the registers of every variable, each in one request that is not too long,
\* for any list of variables: only those stay aside whose unit also uses the
\* last register of its slave.
THEOREM AlwaysCovers == VSpec => []ChainCovers
  <1>1. WalkInv => ChainCovers
    <2> SUFFICES ASSUME WalkInv PROVE ChainCovers
      OBVIOUS
    <2>1. ASSUME NEW i \in DOMAIN link PROVE link[i].size <= MaxSize
      <3>1. link[i] \in Requests
        BY DEF WalkInv, WalkTypes
      <3>2. link[i].size \in 1 .. MaxSize
        BY <3>1 DEF Requests
      <3> QED
        BY <3>2, VarAssumption
    <2>2. ASSUME web = "idle", NEW v \in Present, ~AtTop(v)
          PROVE  \E i \in DOMAIN link : Inside(v, link[i])
      <3>1. list \in Lists /\ link = Chain(list)
        BY <2>2 DEF WalkInv, WalkTypes, Fresh
      <3>2. PICK a \in ToSet(link) :
              a.unit = Unit[v] /\ a.addr <= list[v].addr
              /\ list[v].addr + list[v].size <= a.addr + a.size
        BY <2>2, <3>1, ChainAsks DEF AtTop, Present
      <3>3. PICK i \in DOMAIN link : a = link[i]
        BY DEF ToSet
      <3>4. list[v].addr >= a.addr
        <4>1. a.addr \in Nat /\ list[v].addr \in Nat
          <5>1. a \in Requests
            BY <3>3 DEF WalkInv, WalkTypes
          <5>2. list[v] \in Regs
            BY <3>1, ListRegs DEF Present
          <5> QED
            BY <5>1, <5>2, RegsType DEF Requests
        <4> QED
          BY <3>2, <4>1, SMT
      <3> QED
        BY <3>2, <3>3, <3>4 DEF Inside
    <2> QED
      BY <2>1, <2>2 DEF ChainCovers
  <1> QED
    BY <1>1, Walks, PTL

\* A pass that puts the clock of its port back has polled every request of the
\* port, for any chain and any number of ports.
THEOREM AlwaysComplete == VSpec => PassComplete
  <1> DEFINE Whole == \A d \in Devs : due[d] /\ ~due'[d] /\ calm[d] => Mine(d) \subseteq asked[d]
  <1>1. WalkInv /\ [VNext]_vvars => Whole
    <2> SUFFICES ASSUME WalkInv, [VNext]_vvars, NEW d \in Devs, due[d], ~due'[d], calm[d]
                 PROVE  Mine(d) \subseteq asked[d]
      OBVIOUS
    <2>1. EndPass(d)
      <3>1. due \in [Devs -> BOOLEAN] /\ due' # due
        BY DEF WalkInv, WalkTypes
      <3>2. CASE \E o \in Devs : Task(o)
        <4>1. PICK o \in Devs : EndPass(o)
          BY <3>1, <3>2 DEF Task, Check, NextNode, Wait, Poll, Answer
        <4>2. due' = [due EXCEPT ![o] = due[o] /\ (busy \/ ~whole[o])]
          BY <4>1 DEF EndPass
        <4>3. o = d
          BY <3>1, <4>2
        <4> QED
          BY <4>1, <4>3
      <3>3. CASE Web \/ Reboot \/ \E o \in Devs : Elapse(o)
        <4>1. \/ due' = due
              \/ due' = [o \in Devs |-> TRUE]
              \/ \E o \in Devs : due' = [due EXCEPT ![o] = TRUE]
          BY <3>3 DEF Web, SetVar, Rebuild, Recover, RecoverPlain, RecoverVars, FreeLink,
             RecoverDone, StartSearch, Reboot, Elapse
        <4> QED
          BY <3>1, <4>1
      <3>4. CASE Search \/ Die \/ UNCHANGED vvars
        BY <3>1, <3>4 DEF Search, Die, vvars
      <3> QED
        BY <3>2, <3>3, <3>4 DEF VNext
    <2>2. vpc[d] = "tail" /\ whole[d]
      <3>1. due' = [due EXCEPT ![d] = due[d] /\ (busy \/ ~whole[d])] /\ vpc[d] = "tail"
        BY <2>1 DEF EndPass
      <3>2. due \in [Devs -> BOOLEAN] /\ whole \in [Devs -> BOOLEAN]
        BY DEF WalkInv, WalkTypes
      <3> QED
        BY <3>1, <3>2, Zenon
    <2>3. \A j \in DOMAIN link : j <= at[d]
      BY <2>2 DEF WalkInv, AtEndOfPass
    <2>4. \A j \in DOMAIN link : link[j].unit.dev = d => link[j] \in asked[d]
      BY <2>2, <2>3 DEF WalkInv, Polled, Met
    <2> QED
      BY <2>4 DEF Mine, ToSet
  <1>2. VSpec => [][Whole]_vvars
    BY <1>1, Walks, PTL DEF VSpec
  <1> QED
    BY <1>2 DEF PassComplete
=============================================================================
