----------------------------- MODULE LoraProofs -----------------------------
(***************************************************************************)
(* Theorems about the lora modem as the central of its network.            *)
(*                                                                         *)
(* AlwaysAnswered: as long as the commands of AT mode have their answers   *)
(* the modem owes nothing between them, and what it owed when the queue    *)
(* was reset is known (Unmixed).                                           *)
(*                                                                         *)
(* AlwaysAskedFirst: a node of the list whose heartbeat is late waits for  *)
(* the nodes before it in the list.  Those whose own heartbeat is older    *)
(* than it has been waiting are Ahead of it, at most as many as have seats *)
(* before its own, and one of them is served in each pass of the worker,   *)
(* so that the passes they take and the seconds it has been waiting are    *)
(* bounded together by its seat (Turn).                                    *)
(***************************************************************************)
EXTENDS Lora, FoldLemmas

-----------------------------------------------------------------------------
(* The answers of the modem *)

Answers == {"own", "old"}

\* What the modem owed at the reset of the queue is not in the way of an answer when
\* it owed nothing then; and as long as each command had its answer, it owes nothing
\* between them, and one answer to each of the commands within a call.
Unmixed ==
  /\ owed \in Seq(Answers) /\ cmdq \in Seq(Answers)
  /\ apc \in {"idle", "enter", "held", "cmd", "wait", "learn"}
  /\ apc \in {"cmd", "wait"} /\ clear => "old" \notin ToSet(owed) \cup ToSet(cmdq)
  /\ ~given_up =>
       /\ apc # "wait" => owed = <<>>
       /\ apc = "cmd" => clear /\ cmdq = <<>>
       /\ apc = "wait" => clear /\ (calls # 1 => Len(owed) + Len(cmdq) <= 1)

LEMMA UnmixedHolds ==
  LInit /\ [][LNext]_lvars => []Unmixed
  <1>0. <<>> \in Seq(Answers) /\ ToSet(<<>>) = {} /\ Len(<<>>) = 0
    BY DEF ToSet
  <1>1. LInit => Unmixed
    BY <1>0 DEF LInit, Unmixed
  <1>2. Unmixed /\ [LNext]_lvars => Unmixed'
    <2> SUFFICES ASSUME Unmixed, [LNext]_lvars PROVE Unmixed'
      OBVIOUS
    <2> DEFINE same == UNCHANGED <<apc, cmdq, owed, clear, given_up, calls>>
    <2>1. CASE same
      BY <2>1 DEF Unmixed
    <2>2. CASE RecvAnswer
      <3>1. /\ owed # <<>> /\ Head(owed) \in Answers /\ owed' = Tail(owed)
            /\ UNCHANGED <<apc, clear, given_up, calls>>
            /\ cmdq' = cmdq \/ (cmdq = <<>> /\ cmdq' = <<Head(owed)>>)
        BY <2>2 DEF RecvAnswer, Unmixed
      <3>2. /\ Tail(owed) \in Seq(Answers) /\ ToSet(Tail(owed)) \subseteq ToSet(owed)
            /\ Head(owed) \in ToSet(owed) /\ Len(Tail(owed)) = Len(owed) - 1
            /\ Len(owed) \in Nat /\ Len(cmdq) \in Nat
        BY <3>1 DEF Unmixed, ToSet
      <3>3. /\ <<Head(owed)>> \in Seq(Answers) /\ ToSet(<<Head(owed)>>) = {Head(owed)}
            /\ Len(<<Head(owed)>>) = 1
        BY <3>1 DEF ToSet
      <3>4. owed' \in Seq(Answers) /\ cmdq' \in Seq(Answers)
        BY <3>1, <3>2, <3>3 DEF Unmixed
      <3>5. ToSet(owed') \cup ToSet(cmdq') \subseteq ToSet(owed) \cup ToSet(cmdq)
        BY <3>1, <3>2, <3>3
      <3>6. Len(owed') + Len(cmdq') <= Len(owed) + Len(cmdq)
        <4>1. CASE cmdq' = cmdq
          BY <3>1, <3>2, <4>1, SMT
        <4>2. CASE cmdq = <<>> /\ cmdq' = <<Head(owed)>>
          <5>1. Len(cmdq) = 0 /\ Len(cmdq') = 1 /\ Len(owed') = Len(owed) - 1
            BY <1>0, <3>1, <3>2, <3>3, <4>2
          <5> QED
            BY <3>2, <5>1, SMT
        <4> QED
          BY <3>1, <4>1, <4>2
      <3>7. Len(owed') + Len(cmdq') \in Nat
        BY <3>4, SMT
      <3>8. calls # 1 /\ apc = "wait" /\ ~given_up => Len(owed') + Len(cmdq') <= 1
        BY <3>2, <3>6, <3>7, SMT DEF Unmixed
      <3> QED
        BY <3>1, <3>4, <3>5, <3>8 DEF Unmixed
    <2>3. CASE AtReq \/ AtSet \/ AtReqCfg
      <3>1. /\ owed' = [i \in DOMAIN owed |-> "old"] /\ cmdq' = <<>>
            /\ clear' = (owed = <<>>) /\ apc' = "cmd" /\ apc \in {"held", "enter"}
            /\ given_up' = given_up
        BY <2>3 DEF AtReq, AtSet, AtReqCfg, AtCommand, EnterAt
      <3>2. owed' \in Seq(Answers) /\ (owed = <<>> => owed' = <<>>)
        BY <3>1 DEF Unmixed, Answers
      <3>3. ~given_up' => owed = <<>>
        BY <3>1 DEF Unmixed
      <3> QED
        BY <1>0, <3>1, <3>2, <3>3 DEF Unmixed
    <2>4. CASE AtSend
      <3>0. PICK k \in 0 .. (IF calls = 1 THEN 2 ELSE 1) :
              owed' = owed \o [i \in 1 .. k |-> "own"]
        BY <2>4, Zenon DEF AtSend
      <3>1. PICK b : b = [i \in 1 .. k |-> "own"]
        OBVIOUS
      <3>8. k \in Nat /\ (calls # 1 => k \in 0 .. 1)
        <4>1. CASE calls = 1
          BY <4>1, SMT
        <4>2. CASE calls # 1
          BY <4>2, SMT
        <4> QED
          BY <4>1, <4>2
      <3>2. b \in Seq(Answers) /\ ToSet(b) \subseteq {"own"} /\ Len(b) = k
        <4>1. b \in [1 .. k -> Answers] /\ DOMAIN b = 1 .. k /\ \A i \in 1 .. k : b[i] = "own"
          BY <3>1 DEF Answers
        <4>2. b \in Seq(Answers)
          BY <3>8, <4>1
        <4> QED
          BY <3>8, <4>1, <4>2 DEF ToSet
      <3>9. owed' = owed \o b
        BY <3>0, <3>1, Zenon
      <3>3. apc = "cmd" /\ apc' = "wait" /\ UNCHANGED <<cmdq, clear, given_up, calls>>
        BY <2>4 DEF AtSend
      <3>5. /\ owed' \in Seq(Answers) /\ ToSet(owed') = ToSet(owed) \cup ToSet(b)
            /\ Len(owed') = Len(owed) + k
        <4>1. owed \in Seq(Answers)
          BY DEF Unmixed
        <4>2. /\ owed \o b \in Seq(Answers) /\ ToSet(owed \o b) = ToSet(owed) \cup ToSet(b)
              /\ Len(owed \o b) = Len(owed) + Len(b)
          BY <3>2, <4>1, ConcatElements
        <4> QED
          BY <3>2, <3>9, <4>2
      <3>6. clear' => "old" \notin ToSet(owed') \cup ToSet(cmdq')
        BY <3>2, <3>3, <3>5 DEF Unmixed
      <3>7. ~given_up /\ calls # 1 => Len(owed') + Len(cmdq') <= 1
        <4> SUFFICES ASSUME ~given_up, calls # 1 PROVE Len(owed') + Len(cmdq') <= 1
          OBVIOUS
        <4>1. owed = <<>> /\ cmdq = <<>>
          BY <3>3 DEF Unmixed
        <4>2. Len(owed) = 0 /\ Len(cmdq') = 0
          BY <1>0, <3>3, <4>1
        <4>3. k \in 0 .. 1 /\ Len(owed') = Len(owed) + k
          BY <3>5, <3>8
        <4> QED
          BY <4>2, <4>3, SMT
      <3> QED
        BY <3>3, <3>5, <3>6, <3>7 DEF Unmixed
    <2>5. CASE AtTake
      <3>1. /\ apc = "wait" /\ cmdq # <<>> /\ cmdq' = <<>> /\ owed' = owed
            /\ given_up' = given_up
            /\ \/ calls = 1 /\ apc' = "wait" /\ clear' = clear /\ calls' = calls
               \/ calls # 1 /\ apc' = "held"
        BY <2>5 DEF AtTake, AtDone
      <3>2. Len(cmdq) \in Nat \ {0} /\ Len(owed) \in Nat /\ (Len(owed) = 0 => owed = <<>>)
        BY <3>1 DEF Unmixed
      <3>3. calls # 1 /\ ~given_up => owed = <<>>
        BY <3>1, <3>2, SMT DEF Unmixed
      <3> QED
        BY <1>0, <3>1, <3>3 DEF Unmixed
    <2>6. CASE AtTimeout \/ AtExit
      <3>1. /\ apc' \in {"held", "learn", "enter"} /\ owed' \in {owed, <<>>}
            /\ ~given_up' => owed' = <<>>
            /\ cmdq' \in {cmdq, [i \in DOMAIN cmdq |-> "old"]}
        BY <2>6 DEF AtTimeout, AtExit, AtDone, Leave
      <3>2. [i \in DOMAIN cmdq |-> "old"] \in Seq(Answers)
        BY DEF Unmixed, Answers
      <3> QED
        BY <1>0, <3>1, <3>2 DEF Unmixed
    <2>7. CASE SetLoRaCfg \/ AtEnter \/ LearnNow
      <3>1. /\ apc \in {"idle", "enter", "learn"} /\ apc' \in {"enter", "held", "idle"}
            /\ owed' = owed /\ cmdq' \in {cmdq, <<>>} /\ given_up' = given_up
        BY <2>7 DEF SetLoRaCfg, AtEnter, LearnNow, EnterAt
      <3> QED
        BY <1>0, <3>1 DEF Unmixed
    <2>8. CASE RecvPacket \/ Parse \/ Work \/ Tick \/ FallSilent
      <3>1. same
        BY <2>8 DEF RecvPacket, Parse, ParseRecv, ParseLock, ParseSend, Work, WorkTop,
             WorkSync, WorkCheck, WorkHrt, WorkRssi, WorkDelay, WorkSend, Tick, FallSilent,
             atVars
      <3> QED
        BY <2>1, <3>1
    <2>9. CASE UNCHANGED lvars
      BY <2>1, <2>9 DEF lvars, atVars
    <2> QED
      BY <2>2, <2>3, <2>4, <2>5, <2>6, <2>7, <2>8, <2>9 DEF LNext, Configure
  <1> QED
    BY <1>1, <1>2, PTL

\* lora.c: the queue of answers is emptied when a command begins, so that an
\* answer that came too late for the command before is taken for this one's only
\* when the modem still owed it then, which it does only after a command that had
\* no answer in time.
THEOREM AlwaysAnswered == LSpec => []LoraAnswers
  <1>1. Unmixed => LoraAnswers
    <2> SUFFICES ASSUME Unmixed, apc \in {"cmd", "wait"}, cmdq = <<"old">>
                 PROVE  given_up /\ ~clear
      BY DEF LoraAnswers
    <2>1. "old" \in ToSet(<<"old">>)
      BY DEF ToSet
    <2>2. ~clear
      BY <2>1 DEF Unmixed
    <2> QED
      BY <2>2 DEF Unmixed
  <1> QED
    BY <1>1, UnmixedHolds, PTL DEF LSpec

-----------------------------------------------------------------------------
(* The list of nodes *)

Node == [id : LNodes, on : BOOLEAN, last : 0 .. 4 * LearnStep,
         hrt : 0 .. HrtAfter + 1, off : 0 .. 10 * LearnStep, asked : BOOLEAN,
         seat : Nat]

\* A node is in the list once.
Listed(ms) ==
  /\ ms \in Seq(Node)
  /\ \A i, j \in DOMAIN ms : ms[i].id = ms[j].id => i = j

LEMMA Numbers ==
  /\ LearnStep \in Nat /\ LearnStep > 0 /\ HrtAfter \in Nat
  /\ 3 * LearnStep \in 0 .. 10 * LearnStep /\ 4 * LearnStep \in Nat /\ 10 * LearnStep \in Nat
  /\ PassMax \in Nat /\ PassMax > 0
  BY LoraAssumption, SMT

\* What is needed of the products with PassMax.
LEMMA Times ==
  ASSUME NEW a \in Nat, NEW b \in Nat, a <= b
  PROVE  /\ PassMax * a \in Nat /\ PassMax * b \in Nat /\ PassMax * a <= PassMax * b
         /\ PassMax * (b + 1) = PassMax * b + PassMax
         /\ b > 0 => PassMax * (b - 1) = PassMax * b - PassMax
                      /\ PassMax * (b - 1) \in Nat
         /\ a < b => PassMax * a + PassMax <= PassMax * b
  <1>1. PICK k \in Nat : b = a + k
    <2>1. b = a + (b - a) /\ b - a \in Nat
      BY SMT
    <2> QED
      BY <2>1
  <1>2. PassMax \in Nat /\ PassMax > 0
    BY Numbers
  <1>3. /\ PassMax * a \in Nat /\ PassMax * k \in Nat /\ PassMax * b = PassMax * a + PassMax * k
        /\ PassMax * (b + 1) = PassMax * b + PassMax
        /\ PassMax * (b - 1) = PassMax * b - PassMax
    BY <1>1, <1>2, SMT
  <1>4. k > 0 => PassMax * k >= PassMax
    BY <1>2, SMT
  <1>5. b > 0 => PassMax * b >= PassMax
    BY <1>2, SMT
  <1> QED
    BY <1>1, <1>2, <1>3, <1>4, <1>5, SMT

LEMMA EntryIsNode ==
  ASSUME NEW n \in LNodes, NEW i \in Nat
  PROVE  /\ Entry(n, i) \in Node /\ Entry(n, i).id = n /\ Entry(n, i).on
         /\ Entry(n, i).last = 0 /\ Entry(n, i).hrt = 0 /\ Entry(n, i).seat = i
  BY Numbers, SMT DEF Entry, Node

LEMMA ListedDomain ==
  ASSUME NEW ms, Listed(ms)
  PROVE  /\ Len(ms) \in Nat /\ Len(ms) + 1 \in Nat /\ DOMAIN ms = 1 .. Len(ms)
         /\ \A i \in DOMAIN ms : i \in Nat /\ i > 0
         /\ \A i \in DOMAIN ms : ms[i] \in Node
  BY DEF Listed

\* The same nodes at the same places.
LEMMA SamePlaces ==
  ASSUME NEW ms, Listed(ms), NEW f, DOMAIN f = DOMAIN ms, f = [i \in DOMAIN ms |-> f[i]],
         \A i \in DOMAIN ms : f[i] \in Node /\ f[i].id = ms[i].id
  PROVE  Listed(f)
  <1>1. f \in Seq(Node)
    BY ListedDomain
  <1> QED
    BY <1>1 DEF Listed

LEMMA HeardKeeps ==
  ASSUME NEW ms, Listed(ms), NEW n \in LNodes
  PROVE  Listed(Heard(ms, n))
  <1> DEFINE f == Heard(ms, n)
  <1>1. f = [i \in DOMAIN ms |-> f[i]] /\ DOMAIN f = DOMAIN ms
    BY DEF Heard
  <1>2. ASSUME NEW i \in DOMAIN ms PROVE f[i] \in Node /\ f[i].id = ms[i].id
    BY EntryIsNode, ListedDomain DEF Heard
  <1> HIDE DEF f
  <1> QED
    BY <1>1, <1>2, SamePlaces DEF f

LEMMA InsertKeeps ==
  ASSUME NEW ms, Listed(ms), NEW n \in LNodes
  PROVE  Listed(Insert(ms, n))
  <1>1. CASE \E i \in DOMAIN ms : ms[i].id = n
    BY <1>1, HeardKeeps DEF Insert
  <1>2. CASE ~\E i \in DOMAIN ms : ms[i].id = n
    <2> DEFINE f == Append(ms, Entry(n, Len(ms) + 1))
    <2>1. Insert(ms, n) = f
      BY <1>2 DEF Insert
    <2>2. f \in Seq(Node) /\ DOMAIN f = 1 .. Len(ms) + 1 /\ f[Len(ms) + 1] = Entry(n, Len(ms) + 1)
          /\ \A i \in 1 .. Len(ms) : f[i] = ms[i]
      BY EntryIsNode, ListedDomain DEF Listed
    <2> HIDE DEF f
    <2>3. ASSUME NEW i \in DOMAIN f, NEW j \in DOMAIN f, f[i].id = f[j].id PROVE i = j
      <3>1. \A k \in DOMAIN f : k = Len(ms) + 1 \/ k \in DOMAIN ms
        BY <2>2, ListedDomain, SMT
      <3> QED
        BY <1>2, <2>2, <2>3, <3>1, EntryIsNode, ListedDomain DEF Listed
    <2> QED
      BY <2>1, <2>2, <2>3 DEF Listed
  <1> QED
    BY <1>1, <1>2

LEMMA AgedKeeps ==
  ASSUME Listed(members)
  PROVE  Listed(Aged(members))
  <1> DEFINE f == Aged(members)
  <1>1. f = [i \in DOMAIN members |-> f[i]] /\ DOMAIN f = DOMAIN members
    BY DEF Aged
  <1>2. ASSUME NEW i \in DOMAIN members PROVE f[i] \in Node /\ f[i].id = members[i].id
    <2> DEFINE m == members[i]
               x == Up(m.last, 4 * LearnStep)
               y == Up(m.hrt, HrtAfter + 1)
               z == Up(m.off, 10 * LearnStep)
               a == m.asked \/ ~ModemFree
               on == [m EXCEPT !.last = x, !.hrt = y, !.asked = a]
               off == [m EXCEPT !.off = z]
    <2>1. m \in Node
      BY ListedDomain
    <2>2. x \in 0 .. 4 * LearnStep /\ y \in 0 .. HrtAfter + 1 /\ z \in 0 .. 10 * LearnStep
      BY <2>1, Numbers, SMT DEF Node, Up
    <2>3. a \in BOOLEAN
      OBVIOUS
    <2>4. f[i] = IF m.on THEN on ELSE off
      BY DEF Aged
    <2> HIDE DEF m, x, y, z, a
    <2>5. on \in Node /\ on.id = m.id /\ off \in Node /\ off.id = m.id
      BY <2>1, <2>2, <2>3 DEF Node
    <2> HIDE DEF f, on, off
    <2>6. f[i] \in Node /\ f[i].id = m.id
      BY <2>4, <2>5
    <2> QED
      BY <2>6 DEF m
  <1> HIDE DEF f
  <1> QED
    BY <1>1, <1>2, SamePlaces DEF f

\* The list when node n was asked.
AskedOf(ms, n) ==
  [i \in DOMAIN ms |-> IF ms[i].id = n THEN [ms[i] EXCEPT !.asked = TRUE] ELSE ms[i]]

LEMMA AskedKeeps ==
  ASSUME NEW ms, Listed(ms), NEW n
  PROVE  Listed(AskedOf(ms, n))
  <1> DEFINE f == AskedOf(ms, n)
  <1>1. f = [i \in DOMAIN ms |-> f[i]] /\ DOMAIN f = DOMAIN ms
    BY DEF AskedOf
  <1>2. ASSUME NEW i \in DOMAIN ms PROVE f[i] \in Node /\ f[i].id = ms[i].id
    <2> DEFINE m == ms[i]
    <2>1. m \in Node
      BY ListedDomain
    <2>2. f[i] = IF m.id = n THEN [m EXCEPT !.asked = TRUE] ELSE m
      BY DEF AskedOf
    <2> HIDE DEF f, m
    <2>3. f[i] \in Node /\ f[i].id = m.id
      BY <2>1, <2>2 DEF Node
    <2> QED
      BY <2>3 DEF m
  <1> HIDE DEF f
  <1> QED
    BY <1>1, <1>2, SamePlaces DEF f

LEMMA HrtKeeps ==
  ASSUME NEW ms, Listed(ms), NEW k \in DOMAIN ms
  PROVE  /\ Listed([ms EXCEPT ![k].hrt = 0])
         /\ \A i \in DOMAIN ms :
              /\ [ms EXCEPT ![k].hrt = 0][i].id = ms[i].id
              /\ i # k => [ms EXCEPT ![k].hrt = 0][i] = ms[i]
         /\ [ms EXCEPT ![k].hrt = 0][k].hrt = 0
  <1> DEFINE f == [ms EXCEPT ![k].hrt = 0]
  <1>1. f = [i \in DOMAIN ms |-> f[i]] /\ DOMAIN f = DOMAIN ms
    OBVIOUS
  <1>2. ASSUME NEW i \in DOMAIN ms
        PROVE  /\ f[i] \in Node /\ f[i].id = ms[i].id /\ (i # k => f[i] = ms[i])
               /\ (i = k => f[i].hrt = 0)
    <2> DEFINE m == ms[i]
    <2>1. m \in Node
      BY ListedDomain
    <2>2. f[i] = IF i = k THEN [m EXCEPT !.hrt = 0] ELSE m
      OBVIOUS
    <2>3. 0 \in 0 .. HrtAfter + 1
      BY Numbers, SMT
    <2> HIDE DEF f, m
    <2>4. /\ f[i] \in Node /\ f[i].id = m.id /\ (i # k => f[i] = m)
          /\ (i = k => f[i].hrt = 0)
      BY <2>1, <2>2, <2>3 DEF Node
    <2> QED
      BY <2>4 DEF m
  <1> HIDE DEF f
  <1>3. Listed(f)
    BY <1>1, <1>2, SamePlaces
  <1> QED
    BY <1>2, <1>3 DEF f

-----------------------------------------------------------------------------
(* lora_check_online *)

Over(e) == e.on /\ e.last >= 4 * LearnStep

\* What lora_check_online makes of node e, if it keeps it.
Becomes(x, e) == x.id = e.id /\ IF Over(e) THEN ~x.on ELSE x = e

LEMMA CheckNodeAppends ==
  ASSUME NEW c, NEW e \in Node
  PROVE  \/ CheckNode(c, e) = c /\ ~e.on
         \/ \E x \in Node : /\ CheckNode(c, e) = Append(c, x) /\ Becomes(x, e)
  <1> DEFINE g == [Entry(e.id, e.seat) EXCEPT !.on = FALSE, !.off = 3 * LearnStep]
  <1>1. g \in Node /\ g.id = e.id /\ ~g.on
    <2>1. e.id \in LNodes /\ e.seat \in Nat /\ 3 * LearnStep \in 0 .. 10 * LearnStep
      BY Numbers DEF Node
    <2> DEFINE m == Entry(e.id, e.seat)
    <2>2. m \in Node /\ m.id = e.id
      BY <2>1, EntryIsNode
    <2>3. g = [m EXCEPT !.on = FALSE, !.off = 3 * LearnStep]
      OBVIOUS
    <2> HIDE DEF g, m
    <2> QED
      BY <2>1, <2>2, <2>3 DEF Node
  <1> HIDE DEF g
  <1>2. \/ CheckNode(c, e) = c /\ ~e.on
        \/ CheckNode(c, e) = Append(c, g) /\ Over(e)
        \/ CheckNode(c, e) = Append(c, e) /\ ~Over(e)
    BY DEF CheckNode, Over, g
  <1> QED
    BY <1>1, <1>2 DEF Becomes

\* CheckOnline goes through the list.
LEMMA CheckedOneByOne ==
  ASSUME NEW s \in Seq(Node)
  PROVE  \E p : /\ p[0] = <<>>
                /\ \A k \in Nat : k + 1 \in DOMAIN s => p[k + 1] = CheckNode(p[k], s[k + 1])
                /\ CheckOnline(s) = p[Len(s)]
  <1> DEFINE N == Len(s)
             X == Seq(Node)
             G == [i \in 1 .. N |-> [c \in X |-> CheckNode(c, s[i])]]
             Body(f) == [T \in SUBSET DOMAIN s |->
                           IF T = {} THEN <<>>
                           ELSE LET x == Max(T) IN CheckNode(f[T \ {x}], s[x])]
             it == CHOOSE f : f = Body(f)
  <1>1. N \in Nat /\ DOMAIN s = 1 .. N /\ \A i \in 1 .. N : s[i] \in Node
    OBVIOUS
  <1>2. <<>> \in X
    OBVIOUS
  <1>3. G \in [1 .. N -> [X -> X]]
    <2>1. ASSUME NEW i \in 1 .. N, NEW c \in X PROVE CheckNode(c, s[i]) \in X
      <3>1. s[i] \in Node
        BY <1>1
      <3>2. CheckNode(c, s[i]) = c \/ \E x \in Node : CheckNode(c, s[i]) = Append(c, x)
        BY <3>1, CheckNodeAppends
      <3> QED
        BY <3>2
    <2> HIDE DEF X, N
    <2> QED
      BY <2>1
  <1>4. PICK h \in [SUBSET (1 .. N) -> X] : \A T \in SUBSET (1 .. N) :
          h[T] = IF T = {} THEN <<>> ELSE G[Max(T)][h[T \ {Max(T)}]]
    <2> HIDE DEF N, X, G
    <2>1. PICK h \in [SUBSET (1 .. N) -> X] : IsFold(h, N, <<>>, G)
      BY <1>1, <1>2, <1>3, FoldExists
    <2> QED
      BY <2>1 DEF IsFold
  <1>5. h = Body(h)
    <2> HIDE DEF X, N
    <2>1. ASSUME NEW T \in SUBSET (1 .. N), T # {}
          PROVE  h[T] = CheckNode(h[T \ {Max(T)}], s[Max(T)])
      <3>1. Max(T) \in 1 .. N
        BY <1>1, <2>1, MaxOf
      <3>2. h[T \ {Max(T)}] \in X
        OBVIOUS
      <3> QED
        BY <1>4, <2>1, <3>1, <3>2
    <2> HIDE DEF G
    <2> QED
      BY <1>1, <1>4, <2>1
  <1>6. it = Body(it)
    <2> HIDE DEF Body
    <2> QED
      BY <1>5
  <1>7. CheckOnline(s) = it[DOMAIN s]
    BY DEF CheckOnline, FoldLeft, MapThenFoldSet
  <1> HIDE DEF it, N
  <1>8. \A T \in SUBSET (1 .. N) :
          it[T] = IF T = {} THEN <<>> ELSE CheckNode(it[T \ {Max(T)}], s[Max(T)])
    BY <1>1, <1>6
  <1> DEFINE p == [k \in Nat |-> it[1 .. k]]
  <1>9. p[0] = <<>> /\ p[N] = CheckOnline(s)
    BY <1>1, <1>7, <1>8, FirstOnes
  <1>10. ASSUME NEW k \in Nat, k + 1 \in DOMAIN s PROVE p[k + 1] = CheckNode(p[k], s[k + 1])
    <2>1. 1 .. k + 1 \in SUBSET (1 .. N) /\ k + 1 \in Nat
      BY <1>1, <1>10, SMT
    <2>2. /\ 1 .. k + 1 # {} /\ Max(1 .. k + 1) = k + 1
          /\ (1 .. k + 1) \ {k + 1} = 1 .. k
      BY FirstOnes
    <2> QED
      BY <1>8, <2>1, <2>2
  <1> QED
    BY <1>9, <1>10 DEF N

\* c is what lora_check_online keeps of the first k nodes of s: in their order, the
\* ones online as they were, and none farther back than before.
Kept(s, c, k) ==
  /\ c \in Seq(Node) /\ Len(c) <= k
  /\ \A i \in DOMAIN c : \E j \in 1 .. k :
       i <= j /\ c[i].id = s[j].id /\ (c[i].on => c[i] = s[j] /\ ~Over(s[j]))
  /\ \A a, b \in DOMAIN c : a < b =>
       \A i, j \in 1 .. k : c[a].id = s[i].id /\ c[b].id = s[j].id => i < j
  /\ \A j \in 1 .. k : s[j].on /\ ~Over(s[j]) => \E i \in DOMAIN c : c[i] = s[j]

LEMMA KeptOneMore ==
  ASSUME NEW s, Listed(s), NEW k \in Nat, k + 1 \in DOMAIN s, NEW c, Kept(s, c, k)
  PROVE  Kept(s, CheckNode(c, s[k + 1]), k + 1)
  <1> DEFINE e == s[k + 1]
             d == CheckNode(c, e)
  <1>1. /\ e \in Node /\ 1 .. k \subseteq DOMAIN s /\ 1 .. k \subseteq 1 .. k + 1
        /\ k + 1 \in 1 .. k + 1 /\ \A j \in 1 .. k + 1 : j \in 1 .. k \/ j = k + 1
        /\ k + 1 \notin 1 .. k /\ \A j \in 1 .. k : j < k + 1
    BY ListedDomain, SMT
  <1>2. /\ c \in Seq(Node) /\ Len(c) \in Nat /\ DOMAIN c = 1 .. Len(c)
        /\ Len(c) <= k + 1 /\ Len(c) + 1 <= k + 1
    BY SMT DEF Kept
  <1>3. ASSUME d = c, ~e.on PROVE Kept(s, d, k + 1)
    <2>1. \A i \in DOMAIN c : c[i].id # e.id
      BY <1>1 DEF Kept, Listed
    <2> QED
      BY <1>1, <1>2, <1>3, <2>1 DEF Kept
  <1>4. ASSUME NEW x \in Node, d = Append(c, x), Becomes(x, e)
        PROVE  Kept(s, d, k + 1)
    <2> DEFINE n == Len(c) + 1
    <2>1. /\ d \in Seq(Node) /\ DOMAIN d = 1 .. n /\ d[n] = x
          /\ \A i \in DOMAIN c : d[i] = c[i]
          /\ \A i \in DOMAIN d : i \in DOMAIN c \/ i = n
          /\ n \in DOMAIN d /\ DOMAIN c \subseteq DOMAIN d /\ \A i \in DOMAIN c : i < n
          /\ n <= k + 1 /\ Len(d) = n
      BY <1>2, <1>4, SMT DEF Becomes
    <2> HIDE DEF d, n
    <2>2. ASSUME NEW i \in DOMAIN d
          PROVE  \E j \in 1 .. k + 1 :
                   i <= j /\ d[i].id = s[j].id /\ (d[i].on => d[i] = s[j] /\ ~Over(s[j]))
      <3>1. CASE i \in DOMAIN c
        BY <1>1, <2>1, <3>1 DEF Kept
      <3>2. CASE i = n
        <4>1. d[i].id = s[k + 1].id /\ (d[i].on => d[i] = s[k + 1] /\ ~Over(s[k + 1]))
          BY <1>4, <2>1, <3>2 DEF Becomes
        <4>2. i <= k + 1 /\ k + 1 \in 1 .. k + 1
          BY <1>1, <2>1, <3>2
        <4> QED
          BY <4>1, <4>2
      <3> QED
        BY <2>1, <3>1, <3>2
    <2>3. ASSUME NEW a \in DOMAIN d, NEW b \in DOMAIN d, a < b,
                 NEW i \in 1 .. k + 1, NEW j \in 1 .. k + 1, d[a].id = s[i].id, d[b].id = s[j].id
          PROVE  i < j
      <3>1. a \in DOMAIN c
        BY <1>2, <2>1, <2>3, SMT DEF n
      <3>2. PICK l \in 1 .. k : c[a].id = s[l].id
        BY <3>1 DEF Kept
      <3>3. i = l
        BY <1>1, <2>1, <2>3, <3>1, <3>2 DEF Listed
      <3>4. CASE b \in DOMAIN c
        <4>1. PICK m \in 1 .. k : c[b].id = s[m].id
          BY <3>4 DEF Kept
        <4>2. j = m
          BY <1>1, <2>1, <2>3, <3>4, <4>1 DEF Listed
        <4> QED
          BY <2>1, <2>3, <3>1, <3>2, <3>3, <3>4, <4>1, <4>2 DEF Kept
      <3>5. CASE b = n
        <4>1. j = k + 1
          BY <1>1, <1>4, <2>1, <2>3, <3>5 DEF Listed, Becomes
        <4> QED
          BY <1>1, <3>2, <3>3, <4>1
      <3> QED
        BY <2>1, <3>4, <3>5
    <2>4. ASSUME NEW j \in 1 .. k + 1, s[j].on, ~Over(s[j]) PROVE \E i \in DOMAIN d : d[i] = s[j]
      <3>1. CASE j \in 1 .. k
        <4>1. PICK i \in DOMAIN c : c[i] = s[j]
          BY <2>4, <3>1 DEF Kept
        <4> QED
          BY <2>1, <4>1
      <3>2. CASE j = k + 1
        BY <1>4, <2>1, <2>4, <3>2 DEF Becomes
      <3> QED
        BY <1>1, <3>1, <3>2
    <2>5. \A i \in DOMAIN d : \E j \in 1 .. k + 1 :
            i <= j /\ d[i].id = s[j].id /\ (d[i].on => d[i] = s[j] /\ ~Over(s[j]))
      BY <2>2
    <2>6. \A a, b \in DOMAIN d : a < b =>
            \A i, j \in 1 .. k + 1 : d[a].id = s[i].id /\ d[b].id = s[j].id => i < j
      BY <2>3
    <2>7. \A j \in 1 .. k + 1 : s[j].on /\ ~Over(s[j]) => \E i \in DOMAIN d : d[i] = s[j]
      BY <2>4
    <2> QED
      BY <2>1, <2>5, <2>6, <2>7 DEF Kept
  <1>5. \/ d = c /\ ~e.on
        \/ \E x \in Node : d = Append(c, x) /\ Becomes(x, e)
    BY <1>1, CheckNodeAppends
  <1> HIDE DEF d
  <1>6. Kept(s, d, k + 1)
    BY <1>3, <1>4, <1>5
  <1> QED
    BY <1>6 DEF d

LEMMA Checked ==
  ASSUME NEW s, Listed(s)
  PROVE  Listed(CheckOnline(s)) /\ Kept(s, CheckOnline(s), Len(s))
  <1>1. s \in Seq(Node) /\ Len(s) \in Nat /\ DOMAIN s = 1 .. Len(s)
    BY DEF Listed
  <1>2. PICK p : /\ p[0] = <<>>
                 /\ \A k \in Nat : k + 1 \in DOMAIN s => p[k + 1] = CheckNode(p[k], s[k + 1])
                 /\ CheckOnline(s) = p[Len(s)]
    BY <1>1, CheckedOneByOne
  <1> DEFINE S == {k \in Nat : k <= Len(s) => Kept(s, p[k], k)}
  <1>3. 0 \in S
    <2>1. Kept(s, <<>>, 0)
      BY DEF Kept
    <2> QED
      BY <1>2, <2>1
  <1>4. ASSUME NEW n \in Nat, n \in S PROVE n + 1 \in S
    <2> SUFFICES ASSUME n + 1 <= Len(s) PROVE Kept(s, p[n + 1], n + 1)
      OBVIOUS
    <2>1. n <= Len(s) /\ n + 1 \in DOMAIN s
      BY <1>1, SMT
    <2>2. Kept(s, p[n], n) /\ p[n + 1] = CheckNode(p[n], s[n + 1])
      BY <1>2, <1>4, <2>1
    <2> QED
      BY <2>1, <2>2, KeptOneMore
  <1>5. Nat \subseteq S
    <2> HIDE DEF S
    <2> QED
      BY <1>3, <1>4, Induction
  <1> DEFINE c == CheckOnline(s)
  <1>6. Kept(s, c, Len(s))
    BY <1>1, <1>2, <1>5
  <1> HIDE DEF c
  <1>7. ASSUME NEW a \in DOMAIN c, NEW b \in DOMAIN c, c[a].id = c[b].id PROVE a = b
    <2>1. PICK i \in 1 .. Len(s) : c[a].id = s[i].id
      BY <1>6 DEF Kept
    <2>2. \A x, y \in DOMAIN c : x < y =>
            \A k, l \in 1 .. Len(s) : c[x].id = s[k].id /\ c[y].id = s[l].id => k < l
      BY <1>6 DEF Kept
    <2>4. (a < b => i < i) /\ (b < a => i < i)
      BY <1>7, <2>1, <2>2, Zenon
    <2>3. a \in Nat /\ b \in Nat /\ i \in Nat
      BY <1>1, <1>6, <2>1 DEF Kept
    <2> QED
      BY <2>3, <2>4, SMT
  <1> QED
    BY <1>6, <1>7 DEF Kept, Listed, c

-----------------------------------------------------------------------------
(* What the steps do to the list *)

Fresh(e) == e.last = 0 /\ e.hrt = 0

\* In the list new a node that waits for its heartbeat was just heard, or waited
\* before and is no farther back, and it waits for no more nodes than before.
Later(ms, new) ==
  /\ \A i \in DOMAIN new : new[i].on /\ ~new[i].asked =>
       \/ Fresh(new[i]) /\ new[i].seat = i
       \/ \E j \in DOMAIN ms : i <= j /\ ms[j] = new[i]
  /\ \A a, b \in DOMAIN new : a < b /\ ~Fresh(new[b]) /\ new[a].on /\ new[a].hrt > 0 =>
       \E k, l \in DOMAIN ms : /\ k < l /\ ms[k].on /\ ms[k].hrt = new[a].hrt
                               /\ ms[k].id = new[a].id /\ ms[l].id = new[b].id

\* No node goes offline.
StayOn(ms, new) ==
  \A j \in DOMAIN ms : ms[j].on => \E i \in DOMAIN new : new[i].id = ms[j].id /\ new[i].on

LEMMA SameLater ==
  ASSUME NEW ms, Listed(ms)
  PROVE  Later(ms, ms) /\ StayOn(ms, ms)
  <1>1. \A i \in DOMAIN ms : i <= i
    BY ListedDomain
  <1> QED
    BY <1>1 DEF Later, StayOn

LEMMA HeardLater ==
  ASSUME NEW ms, Listed(ms), NEW n \in LNodes
  PROVE  Later(ms, Heard(ms, n)) /\ StayOn(ms, Heard(ms, n))
  <1> DEFINE f == Heard(ms, n)
  <1>1. DOMAIN f = DOMAIN ms
    BY DEF Heard
  <1>2. ASSUME NEW i \in DOMAIN ms
        PROVE  \/ f[i] = ms[i]
               \/ Fresh(f[i]) /\ f[i].on /\ f[i].id = ms[i].id /\ f[i].seat = i
    BY EntryIsNode, ListedDomain DEF Heard, Fresh
  <1> HIDE DEF f
  <1>3. \A i \in DOMAIN ms : f[i].hrt > 0 => f[i] = ms[i]
    BY <1>2 DEF Fresh
  <1>4. \A i \in DOMAIN ms : f[i].id = ms[i].id
    BY <1>2
  <1>5. Later(ms, f)
    <2>1. \A i \in DOMAIN ms : i <= i
      BY ListedDomain
    <2> QED
      BY <1>1, <1>2, <1>3, <1>4, <2>1 DEF Later
  <1>6. StayOn(ms, f)
    BY <1>1, <1>2 DEF StayOn
  <1> QED
    BY <1>5, <1>6 DEF f

LEMMA InsertLater ==
  ASSUME NEW ms, Listed(ms), NEW n \in LNodes
  PROVE  Later(ms, Insert(ms, n)) /\ StayOn(ms, Insert(ms, n))
  <1>1. CASE \E i \in DOMAIN ms : ms[i].id = n
    BY <1>1, HeardLater DEF Insert
  <1>2. CASE ~\E i \in DOMAIN ms : ms[i].id = n
    <2> DEFINE f == Append(ms, Entry(n, Len(ms) + 1))
               z == Len(ms) + 1
    <2>1. Insert(ms, n) = f
      BY <1>2 DEF Insert
    <2>2. /\ DOMAIN f = 1 .. z /\ f[z] = Entry(n, z) /\ z \in DOMAIN f
          /\ \A i \in DOMAIN ms : f[i] = ms[i] /\ i \in DOMAIN f
          /\ \A i \in DOMAIN f : i \in DOMAIN ms \/ i = z
          /\ \A a, b \in DOMAIN f : a < b => a \in DOMAIN ms
          /\ \A i \in DOMAIN ms : i <= i
          /\ z \in Nat
      BY ListedDomain, EntryIsNode DEF Listed
    <2>3. Fresh(f[z]) /\ f[z].seat = z
      BY <2>2, EntryIsNode DEF Fresh
    <2> HIDE DEF f, z
    <2>4. StayOn(ms, f)
      BY <2>2 DEF StayOn
    <2>5. ASSUME NEW i \in DOMAIN f
          PROVE  \/ Fresh(f[i]) /\ f[i].seat = i
                 \/ \E j \in DOMAIN ms : i <= j /\ ms[j] = f[i]
      BY <2>2, <2>3
    <2>6. ASSUME NEW a \in DOMAIN f, NEW b \in DOMAIN f, a < b, ~Fresh(f[b]), f[a].on,
                 f[a].hrt > 0
          PROVE  \E k, l \in DOMAIN ms : /\ k < l /\ ms[k].on /\ ms[k].hrt = f[a].hrt
                                         /\ ms[k].id = f[a].id /\ ms[l].id = f[b].id
      <3>1. a \in DOMAIN ms /\ b \in DOMAIN ms
        BY <2>2, <2>3, <2>6
      <3> QED
        BY <2>2, <2>6, <3>1
    <2> QED
      BY <2>1, <2>4, <2>5, <2>6 DEF Later
  <1> QED
    BY <1>1, <1>2

LEMMA AskedLater ==
  ASSUME NEW ms, Listed(ms), NEW n
  PROVE  Later(ms, AskedOf(ms, n)) /\ StayOn(ms, AskedOf(ms, n))
  <1> DEFINE f == AskedOf(ms, n)
  <1>1. DOMAIN f = DOMAIN ms
    BY DEF AskedOf
  <1>2. ASSUME NEW i \in DOMAIN ms
        PROVE  /\ f[i].id = ms[i].id /\ f[i].on = ms[i].on /\ f[i].hrt = ms[i].hrt
               /\ f[i] = ms[i] \/ f[i].asked
               /\ i <= i
    BY ListedDomain DEF AskedOf, Node
  <1> HIDE DEF f
  <1> QED
    BY <1>1, <1>2 DEF Later, StayOn, f

LEMMA CheckedLater ==
  ASSUME NEW ms, Listed(ms)
  PROVE  /\ Later(ms, CheckOnline(ms))
         /\ \A j \in DOMAIN ms : ms[j].on /\ ~Over(ms[j]) =>
              \E i \in DOMAIN CheckOnline(ms) : CheckOnline(ms)[i] = ms[j]
  <1> DEFINE f == CheckOnline(ms)
  <1>1. Kept(ms, f, Len(ms)) /\ DOMAIN ms = 1 .. Len(ms)
    BY Checked, ListedDomain
  <1> HIDE DEF f
  <1>2. ASSUME NEW i \in DOMAIN f, f[i].on PROVE \E j \in DOMAIN ms : i <= j /\ ms[j] = f[i]
    BY <1>1, <1>2 DEF Kept
  <1>3. ASSUME NEW a \in DOMAIN f, NEW b \in DOMAIN f, a < b, f[a].on
        PROVE  \E k, l \in DOMAIN ms : /\ k < l /\ ms[k].on /\ ms[k].hrt = f[a].hrt
                                       /\ ms[k].id = f[a].id /\ ms[l].id = f[b].id
    <2>1. PICK k \in DOMAIN ms : ms[k] = f[a]
      BY <1>2, <1>3
    <2>2. PICK l \in DOMAIN ms : f[b].id = ms[l].id
      BY <1>1 DEF Kept
    <2>3. \A x, y \in DOMAIN f : x < y =>
            \A i, j \in DOMAIN ms : f[x].id = ms[i].id /\ f[y].id = ms[j].id => i < j
      BY <1>1 DEF Kept
    <2>4. k < l
      BY <1>3, <2>1, <2>2, <2>3
    <2> QED
      BY <1>3, <2>1, <2>2, <2>4
  <1>4. \A j \in DOMAIN ms : ms[j].on /\ ~Over(ms[j]) => \E i \in DOMAIN f : f[i] = ms[j]
    BY <1>1 DEF Kept
  <1>5. Later(ms, f)
    BY <1>2, <1>3 DEF Later
  <1> QED
    BY <1>4, <1>5 DEF f

-----------------------------------------------------------------------------
(* Types *)

Packet == LNodes \X {"online", "info", "heard"}

\* What the list of nodes depends on.  The mutex of the list has one holder.
ListTypes ==
  /\ Listed(members)
  /\ stdq \in Seq(Packet) /\ air \subseteq Packet
  /\ ppc \in {"wait", "lock", "send"} /\ (ppc # "wait" => pmsg \in Packet)
  /\ wpc \in {"top", "sync", "check", "hrt", "hrtsend", "rssi", "rssisend", "delay",
              "rested"}
  /\ ticks \in 0 .. PassMax
  /\ (wpc \in {"hrtsend", "rssisend"} => wnode \in LNodes)
  /\ ~(wpc \in {"sync", "hrtsend", "rssisend"} /\ ppc = "send")

LEMMA ReplyPackets ==
  ASSUME NEW n \in LNodes, NEW kind \in {"online", "info", "heard"}, Reply(n, kind),
         air \subseteq Packet
  PROVE  air' \subseteq Packet
  BY DEF Reply, Packet

LEMMA FirstDueIn ==
  ASSUME Listed(members), FirstDue # 0
  PROVE  /\ FirstDue \in DOMAIN members
         /\ members[FirstDue].on /\ members[FirstDue].hrt > HrtAfter
         /\ \A i \in DOMAIN members :
              members[i].on /\ members[i].hrt > HrtAfter => FirstDue <= i
  <1> DEFINE s == {i \in DOMAIN members : members[i].on /\ members[i].hrt > HrtAfter}
  <1>1. s # {}
    BY DEF FirstDue
  <1>2. s \subseteq Nat
    BY ListedDomain
  <1>3. \E i \in s : \A j \in s : i <= j
    <2> HIDE DEF s
    <2> QED
      BY <1>1, <1>2, LeastOf
  <1>4. FirstDue = CHOOSE i \in s : \A j \in s : i <= j
    BY <1>1 DEF FirstDue
  <1>5. FirstDue \in s /\ \A j \in s : FirstDue <= j
    BY <1>3, <1>4
  <1> QED
    BY <1>5

LEMMA NoneDue ==
  ASSUME Listed(members), FirstDue = 0
  PROVE  \A i \in DOMAIN members : ~(members[i].on /\ members[i].hrt > HrtAfter)
  <1> DEFINE s == {i \in DOMAIN members : members[i].on /\ members[i].hrt > HrtAfter}
  <1>1. s \subseteq Nat \ {0}
    BY ListedDomain
  <1>2. ASSUME s # {} PROVE FALSE
    <2>1. \E i \in s : \A j \in s : i <= j
      <3>1. s \subseteq Nat
        BY <1>1
      <3> HIDE DEF s
      <3> QED
        BY <1>2, <3>1, LeastOf
    <2>2. FirstDue = CHOOSE i \in s : \A j \in s : i <= j
      BY <1>2 DEF FirstDue
    <2>3. FirstDue \in s
      BY <2>1, <2>2
    <2> QED
      BY <1>1, <2>3
  <1> QED
    BY <1>2

LEMMA TypesInit == LInit => ListTypes
  BY Numbers DEF LInit, ListTypes, Listed

LEMMA TypesNext == ListTypes /\ [LNext]_lvars => ListTypes'
  <1> SUFFICES ASSUME ListTypes, [LNext]_lvars PROVE ListTypes'
    OBVIOUS
  <1>1. CASE UNCHANGED <<members, stdq, ppc, pmsg, wpc, wnode, ticks, air>>
    BY <1>1 DEF ListTypes
  <1>2. CASE RecvPacket
    <2>1. PICK m \in air : air' = air \ {m} /\ stdq' \in {stdq, Append(stdq, m)}
      BY <1>2 DEF RecvPacket
    <2>2. UNCHANGED <<members, ppc, pmsg, wpc, wnode, ticks>>
      BY <1>2 DEF RecvPacket, workVars
    <2>3. m \in Packet /\ stdq' \in Seq(Packet)
      BY <2>1 DEF ListTypes
    <2> QED
      BY <2>1, <2>2, <2>3 DEF ListTypes
  <1>3. CASE ParseRecv
    <2>1. Head(stdq) \in Packet /\ Tail(stdq) \in Seq(Packet)
      BY <1>3 DEF ParseRecv, ListTypes
    <2> QED
      BY <1>3, <2>1 DEF ParseRecv, ListTypes, workVars
  <1>4. CASE ParseLock
    <2>1. /\ wpc \notin {"sync", "hrtsend", "rssisend"} /\ ppc = "lock"
          /\ UNCHANGED <<stdq, wpc, wnode, ticks, air>>
      BY <1>4 DEF ParseLock, StdFree, workVars
    <2>2. pmsg[1] \in LNodes
      BY <2>1 DEF ListTypes, Packet
    <2>3. /\ members' \in {members, Insert(members, pmsg[1]), Heard(members, pmsg[1])}
          /\ (ppc' = "send" /\ pmsg' = pmsg) \/ ppc' = "wait"
      BY <1>4 DEF ParseLock
    <2>4. Listed(members')
      BY <2>2, <2>3, InsertKeeps, HeardKeeps DEF ListTypes
    <2> QED
      BY <2>1, <2>3, <2>4 DEF ListTypes
  <1>5. CASE ParseSend
    <2>1. /\ ppc = "send" /\ ppc' = "wait"
          /\ UNCHANGED <<stdq, wpc, wnode, ticks>>
      BY <1>5 DEF ParseSend, workVars
    <2>2. pmsg[1] \in LNodes
      BY <2>1 DEF ListTypes, Packet
    <2>3. air' \subseteq Packet /\ members' \in {members, Heard(members, pmsg[1])}
      BY <1>5, <2>2, ReplyPackets DEF ParseSend, ListTypes
    <2>4. Listed(members')
      BY <2>2, <2>3, HeardKeeps DEF ListTypes
    <2> QED
      BY <2>1, <2>3, <2>4 DEF ListTypes
  <1>6. CASE WorkTop
    BY <1>6 DEF WorkTop, StdFree, listVars, ListTypes
  <1>7. CASE WorkSync
    <2>1. {n \in LNodes \ silent : ~On(n)} \X {"online"} \subseteq Packet
      BY DEF Packet
    <2> QED
      BY <1>7, <2>1 DEF WorkSync, listVars, ListTypes
  <1>8. CASE WorkCheck
    <2>1. Listed(members')
      BY <1>8, Checked DEF WorkCheck, ListTypes
    <2> QED
      BY <1>8, <2>1 DEF WorkCheck, ListTypes
  <1>9. CASE WorkHrt
    <2>1. CASE FirstDue = 0
      BY <1>9, <2>1 DEF WorkHrt, ListTypes
    <2>2. CASE FirstDue # 0
      <3>1. FirstDue \in DOMAIN members
        BY <2>2, FirstDueIn DEF ListTypes
      <3>2. members[FirstDue].id \in LNodes
        BY <3>1, ListedDomain DEF ListTypes, Node
      <3>3. Listed(members')
        BY <1>9, <2>2, <3>1, HrtKeeps DEF WorkHrt, ListTypes
      <3>4. ppc # "send"
        BY <1>9 DEF WorkHrt, StdFree
      <3>5. wpc' = "hrtsend" /\ wnode' \in LNodes /\ UNCHANGED <<stdq, ppc, pmsg, ticks, air>>
        BY <1>9, <2>2, <3>2 DEF WorkHrt
      <3> QED
        BY <3>3, <3>4, <3>5 DEF ListTypes
    <2> QED
      BY <2>1, <2>2
  <1>10. CASE WorkRssi
    BY <1>10 DEF WorkRssi, StdFree, listVars, ListTypes
  <1>11. ASSUME NEW from \in {"hrtsend", "rssisend"}, NEW to \in {"rssi", "delay"},
                WorkSend(from, to, "heard")
         PROVE  ListTypes'
    <2>1. wnode \in LNodes /\ ppc # "send"
      BY <1>11 DEF WorkSend, ListTypes
    <2>2. members' = AskedOf(members, wnode)
      BY <1>11 DEF WorkSend, AskedOf
    <2>3. Listed(members')
      BY <2>2, AskedKeeps DEF ListTypes
    <2>4. air' \subseteq Packet
      BY <1>11, <2>1, ReplyPackets DEF WorkSend, ListTypes
    <2> QED
      BY <1>11, <2>3, <2>4 DEF WorkSend, ListTypes
  <1>12. CASE Tick
    <2>1. Listed(members')
      BY <1>12, AgedKeeps DEF Tick, ListTypes
    <2>2. /\ UNCHANGED <<stdq, ppc, pmsg, wnode, air>>
          /\ wpc' = IF wpc = "delay" THEN "rested" ELSE wpc
      BY <1>12 DEF Tick
    <2>3. ticks' \in 0 .. PassMax
      BY <1>12, Numbers, SMT DEF Tick, ListTypes
    <2> QED
      BY <2>1, <2>2, <2>3 DEF ListTypes
  <1>17. CASE WorkDelay
    BY <1>17, Numbers DEF WorkDelay, listVars, ListTypes
  <1>13. CASE AtEnter \/ AtReqCfg
    <2>1. UNCHANGED <<members, stdq, ppc, pmsg, wpc, wnode, ticks>> /\ air' = {}
      BY <1>13 DEF AtEnter, AtReqCfg, AtCommand, listVars, workVars
    <2> QED
      BY <2>1 DEF ListTypes
  <1>14. CASE RecvAnswer \/ SetLoRaCfg \/ AtReq \/ AtSet \/ AtSend \/ AtTake
              \/ AtTimeout \/ AtExit \/ LearnNow \/ FallSilent
    BY <1>1, <1>14 DEF RecvAnswer, SetLoRaCfg, AtReq, AtSet, AtCommand, AtSend, AtTake,
         AtTimeout, AtExit, LearnNow, FallSilent, listVars, workVars
  <1>15. CASE UNCHANGED lvars
    BY <1>1, <1>15 DEF lvars, listVars, workVars
  <1>16. CASE Work
    BY <1>6, <1>7, <1>8, <1>9, <1>10, <1>11, <1>16, <1>17 DEF Work
  <1> QED
    BY <1>2, <1>3, <1>4, <1>5, <1>12, <1>13, <1>14, <1>15, <1>16 DEF LNext, Parse, Configure

-----------------------------------------------------------------------------
(* The heartbeats *)

\* The nodes before n in the list whose last heartbeat is d seconds old at least.
Ahead(n, d) ==
  {m \in LNodes : \E i \in Seat(n), j \in Seat(m) :
                    j < i /\ members[j].on /\ members[j].hrt >= d}

\* Nobody has been served yet in this pass.
Unserved == wpc \in {"top", "sync", "check", "hrt"}

\* The seconds that the nodes before seat s may take, and those of this pass.
Bound(s) == IF Unserved THEN PassMax * s + ticks ELSE PassMax * (s - 1) + ticks

\* Node i of the list was not asked since it was heard, nor is about to be.
Waits(i) == members[i].on /\ ~members[i].asked

Served(n) == wpc = "hrtsend" /\ wnode = n

\* A node that waits was last heard at its last heartbeat; and when it is late, the
\* passes of the nodes it waits for and the seconds it has been waiting are together
\* bounded by its seat.
OnTime(i) ==
  LET e == members[i] IN
    Sure(e.seat) =>
      /\ i <= e.seat
      /\ e.hrt = IF e.last > HrtAfter THEN HrtAfter + 1 ELSE e.last
      /\ e.last > HrtAfter =>
           PassMax * Cardinality(Ahead(e.id, e.last - HrtAfter)) + (e.last - HrtAfter)
             <= Bound(e.seat)

Turn ==
  \A i \in DOMAIN members : Waits(i) /\ ~Served(members[i].id) => OnTime(i)

LEMMA SeatIs ==
  ASSUME ListTypes, NEW i \in DOMAIN members
  PROVE  Seat(members[i].id) = {i}
  BY DEF Seat, ListTypes, Listed

LEMMA AheadSize ==
  ASSUME NEW S, S \subseteq LNodes
  PROVE  /\ IsFiniteSet(S) /\ Cardinality(S) \in Nat
         /\ \A T \in SUBSET S : Cardinality(T) <= Cardinality(S)
         /\ \A T \in SUBSET S : T # S => Cardinality(T) < Cardinality(S)
  <1>1. IsFiniteSet(LNodes)
    BY LoraAssumption
  <1>2. IsFiniteSet(S) /\ Cardinality(S) \in Nat
    BY <1>1, FS_Subset, FS_CardinalityType
  <1>3. ASSUME NEW T \in SUBSET S
        PROVE  Cardinality(T) <= Cardinality(S) /\ (T # S => Cardinality(T) < Cardinality(S))
    BY <1>2, FS_Subset, FS_CardinalityType
  <1> QED
    BY <1>2, <1>3

LEMMA AheadIn ==
  ASSUME ListTypes, NEW i \in DOMAIN members, NEW d
  PROVE  /\ Ahead(members[i].id, d) \subseteq LNodes \ {members[i].id}
         /\ members[i].id \in LNodes
         /\ \A j \in DOMAIN members :
              j < i /\ members[j].on /\ members[j].hrt >= d =>
                members[j].id \in Ahead(members[i].id, d)
         /\ \A m \in Ahead(members[i].id, d) : \E j \in DOMAIN members :
              j < i /\ members[j].on /\ members[j].hrt >= d /\ members[j].id = m
  <1>1. /\ members[i].id \in LNodes /\ Seat(members[i].id) = {i} /\ i \in Nat
        /\ \A j \in DOMAIN members : members[j].id \in LNodes
    <2>1. /\ DOMAIN members \subseteq Nat
          /\ \A j \in DOMAIN members : members[j] \in Node
      BY ListedDomain DEF ListTypes
    <2> QED
      BY <2>1, SeatIs DEF Node
  <1>2. \A m \in Ahead(members[i].id, d) : \E j \in DOMAIN members :
              j < i /\ members[j].on /\ members[j].hrt >= d /\ members[j].id = m
    BY <1>1 DEF Ahead, Seat
  <1>3. \A j \in DOMAIN members :
              j < i /\ members[j].on /\ members[j].hrt >= d =>
                members[j].id \in Ahead(members[i].id, d)
    BY <1>1 DEF Ahead, Seat
  <1>4. members[i].id \notin Ahead(members[i].id, d)
    <2>1. ASSUME NEW j \in DOMAIN members, j < i, members[j].id = members[i].id PROVE FALSE
      <3>1. j = i
        BY <2>1 DEF ListTypes, Listed
      <3> QED
        BY <1>1, <2>1, <3>1
    <2> QED
      BY <1>2, <2>1
  <1> QED
    BY <1>1, <1>2, <1>3, <1>4 DEF Ahead

\* A node waits for those at the places before its own at most.
LEMMA AheadFew ==
  ASSUME ListTypes, NEW i \in DOMAIN members, NEW d
  PROVE  Cardinality(Ahead(members[i].id, d)) <= i - 1
  <1>1. i \in Nat /\ i > 0 /\ DOMAIN members = 1 .. Len(members)
    BY ListedDomain DEF ListTypes
  <1> DEFINE before == 1 .. i - 1
             R == {members[j].id : j \in before}
             f == [j \in before |-> members[j].id]
  <1>2. IsFiniteSet(before) /\ Cardinality(before) = i - 1
    <2>1. /\ 1 \in Int /\ i - 1 \in Int
          /\ i - 1 = IF 1 > i - 1 THEN 0 ELSE (i - 1) - 1 + 1
      BY <1>1, SMT
    <2> QED
      BY <2>1, FS_Interval
  <1>3. f \in Surjection(before, R)
    BY DEF Surjection
  <1>4. IsFiniteSet(R) /\ Cardinality(R) <= i - 1
    <2> HIDE DEF f, R, before
    <2> QED
      BY <1>2, <1>3, FS_Surjection
  <1>5. Ahead(members[i].id, d) \subseteq R
    <2> SUFFICES ASSUME NEW m \in Ahead(members[i].id, d) PROVE m \in R
      OBVIOUS
    <2>3. \E j \in DOMAIN members :
            j < i /\ members[j].on /\ members[j].hrt >= d /\ members[j].id = m
      <3> HIDE DEF R
      <3> QED
        BY AheadIn
    <2>1. PICK j \in DOMAIN members : j < i /\ members[j].id = m
      BY <2>3
    <2>2. j \in before
      BY <1>1, <2>1, SMT
    <2> QED
      BY <2>1, <2>2
  <1> HIDE DEF R
  <1>6. Cardinality(Ahead(members[i].id, d)) <= Cardinality(R)
    BY <1>4, <1>5, FS_Subset
  <1>7. Cardinality(Ahead(members[i].id, d)) \in Nat /\ Cardinality(R) \in Nat
    BY <1>4, <1>5, FS_Subset, FS_CardinalityType
  <1> QED
    BY <1>1, <1>4, <1>6, <1>7, SMT

\* A step in which nobody's heartbeat gets older and no time is spent.
LEMMA TurnKept ==
  ASSUME ListTypes, ListTypes', Turn, Unserved' = Unserved, ticks' = ticks,
         Later(members, members'),
         \A n : Served(n) => \/ Served(n)'
                             \/ \A i \in DOMAIN members' : members'[i].id = n => ~Waits(i)'
  PROVE  Turn'
  <1> SUFFICES ASSUME NEW i \in DOMAIN members', Waits(i)', ~Served(members[i].id)'
               PROVE  OnTime(i)'
    BY DEF Turn
  <1>0. PICK e : e = members'[i]
    OBVIOUS
  <1> DEFINE d == e.last - HrtAfter
  <1>1. e \in Node /\ e.last \in Nat /\ HrtAfter \in Nat
    BY <1>0, ListedDomain, Numbers DEF ListTypes, Node
  <1>2. CASE Fresh(e) /\ e.seat = i
    <2>1. i \in Nat
      BY ListedDomain DEF ListTypes
    <2> QED
      BY <1>0, <1>1, <1>2, <2>1 DEF Fresh, OnTime
  <1>3. CASE ~(Fresh(e) /\ e.seat = i)
    <2>1. PICK j \in DOMAIN members : i <= j /\ members[j] = e
      BY <1>0, <1>3 DEF Later, Waits
    <2>2. Waits(j) /\ ~Served(members[j].id)
      BY <1>0, <2>1 DEF Waits
    <2>3. OnTime(j)
      BY <2>2 DEF Turn
    <2> SUFFICES ASSUME Sure(e.seat)
                 PROVE  /\ i <= e.seat
                        /\ e.hrt = IF e.last > HrtAfter THEN HrtAfter + 1 ELSE e.last
                        /\ e.last > HrtAfter =>
                             PassMax * Cardinality(Ahead(e.id, d)') + d <= Bound(e.seat)
      BY <1>0 DEF OnTime, Bound, Sure
    <2>4. /\ j <= e.seat
          /\ e.hrt = IF e.last > HrtAfter THEN HrtAfter + 1 ELSE e.last
      BY <2>1, <2>3 DEF OnTime
    <2>7. i <= e.seat
      <3>1. i \in Nat /\ j \in Nat /\ e.seat \in Nat
        BY <1>1, ListedDomain DEF ListTypes, Node
      <3> QED
        BY <2>1, <2>4, <3>1, SMT
    <2>5. ASSUME e.last > HrtAfter
          PROVE  PassMax * Cardinality(Ahead(e.id, d)') + d <= Bound(e.seat)
      <3>1. d > 0 /\ e.hrt > 0
        BY <1>1, <2>4, <2>5, SMT
      <3>2. Ahead(e.id, d)' \subseteq Ahead(e.id, d)
        <4> SUFFICES ASSUME NEW m \in Ahead(e.id, d)' PROVE m \in Ahead(e.id, d)
          OBVIOUS
        <4>1. PICK a \in DOMAIN members', b \in DOMAIN members' :
                b < a /\ members'[a].id = e.id /\ members'[b].id = m
                /\ members'[b].on /\ members'[b].hrt >= d
          BY DEF Ahead, Seat
        <4>2. a = i
          BY <1>0, <4>1 DEF ListTypes, Listed
        <4>3. members'[b].hrt > 0
          <5>1. members'[b] \in Node
            BY ListedDomain DEF ListTypes
          <5>2. members'[b].hrt \in Nat
            BY <1>1, <5>1 DEF Node
          <5> QED
            BY <1>1, <3>1, <4>1, <5>2, SMT
        <4>6. ~Fresh(members'[a])
          BY <1>0, <3>1, <4>2 DEF Fresh
        <4>4. PICK k \in DOMAIN members, l \in DOMAIN members :
                /\ k < l /\ members[k].on /\ members[k].hrt = members'[b].hrt
                /\ members[k].id = members'[b].id /\ members[l].id = members'[a].id
          BY <4>1, <4>3, <4>6 DEF Later
        <4>5. m \in LNodes
          BY DEF Ahead
        <4> QED
          BY <4>1, <4>4, <4>5 DEF Ahead, Seat
      <3>3. PassMax * Cardinality(Ahead(e.id, d)) + d <= Bound(e.seat)
        BY <2>1, <2>3, <2>5 DEF OnTime
      <3>4. Ahead(e.id, d) \subseteq LNodes
        BY DEF Ahead
      <3>5. /\ Cardinality(Ahead(e.id, d)) \in Nat /\ Cardinality(Ahead(e.id, d)') \in Nat
            /\ Cardinality(Ahead(e.id, d)') <= Cardinality(Ahead(e.id, d))
        BY <3>2, <3>4, AheadSize
      <3>6. PICK x, y \in Nat : /\ x = PassMax * Cardinality(Ahead(e.id, d)')
                                /\ y = PassMax * Cardinality(Ahead(e.id, d)) /\ x <= y
        BY <3>5, Times
      <3>7. Bound(e.seat) \in Int /\ d \in Nat
        <4>1. e.seat \in Nat /\ e.seat - 1 \in Int /\ ticks \in Int /\ PassMax \in Int
          BY <1>1, Numbers DEF Node, ListTypes
        <4>2. PassMax * e.seat \in Int /\ PassMax * (e.seat - 1) \in Int
          BY <4>1
        <4> QED
          BY <1>1, <2>5, <4>1, <4>2, SMT DEF Bound
      <3> HIDE DEF d
      <3> QED
        BY <3>3, <3>6, <3>7, SMT
    <2> QED
      BY <2>4, <2>5, <2>7
  <1> QED
    BY <1>2, <1>3

\* Who is served now is served still, or was asked.
ServedGo ==
  \A n : Served(n) => \/ Served(n)'
                      \/ \A i \in DOMAIN members' : members'[i].id = n => ~Waits(i)'

\* The steps in which no time passes and nobody is chosen or given up.
Quiet == /\ Later(members, members') /\ StayOn(members, members')
         /\ Unserved' = Unserved /\ ticks' = ticks /\ ServedGo

LEMMA StepKinds ==
  ASSUME ListTypes, [LNext]_lvars
  PROVE  Quiet \/ WorkCheck \/ WorkHrt \/ WorkDelay \/ Tick
  <1>1. ASSUME UNCHANGED <<wpc, wnode, ticks>>, Later(members, members'), StayOn(members, members')
        PROVE  Quiet
    BY <1>1 DEF Quiet, ServedGo, Served, Unserved
  <1>2. CASE UNCHANGED <<members, wpc, wnode, ticks>>
    <2>1. members' = members
      BY <1>2
    <2> QED
      BY <1>1, <1>2, <2>1, SameLater DEF ListTypes
  <1>3. CASE ParseLock \/ ParseSend
    <2>1. pmsg[1] \in LNodes
      BY <1>3 DEF ParseLock, ParseSend, ListTypes, Packet
    <2>2. /\ members' \in {members, Insert(members, pmsg[1]), Heard(members, pmsg[1])}
          /\ UNCHANGED <<wpc, wnode, ticks>>
      BY <1>3 DEF ParseLock, ParseSend, workVars
    <2>3. Later(members, members') /\ StayOn(members, members')
      BY <2>1, <2>2, SameLater, InsertLater, HeardLater DEF ListTypes
    <2> QED
      BY <1>1, <2>2, <2>3
  <1>4. CASE WorkTop \/ WorkSync \/ WorkRssi
    <2>1. /\ members' = members /\ Unserved' = Unserved /\ wpc # "hrtsend"
          /\ ticks' = ticks
      BY <1>4 DEF WorkTop, WorkSync, WorkRssi, listVars, Unserved
    <2> QED
      BY <2>1, SameLater DEF Quiet, ServedGo, Served, ListTypes
  <1>5. ASSUME NEW from \in {"hrtsend", "rssisend"}, NEW to \in {"rssi", "delay"},
               WorkSend(from, to, "heard")
        PROVE  Quiet
    <2>1. members' = AskedOf(members, wnode)
      BY <1>5 DEF WorkSend, AskedOf
    <2>2. Later(members, members') /\ StayOn(members, members')
      BY <2>1, AskedLater DEF ListTypes
    <2>3. Unserved' = Unserved /\ ticks' = ticks
      BY <1>5 DEF WorkSend, Unserved
    <2>4. ASSUME NEW i \in DOMAIN members', members'[i].id = wnode PROVE members'[i].asked
      <3>1. i \in DOMAIN members /\ members[i] \in Node
        BY <2>1, <2>4, ListedDomain DEF AskedOf, ListTypes
      <3> QED
        BY <2>1, <2>4, <3>1 DEF AskedOf, Node
    <2>5. ServedGo
      BY <2>4 DEF ServedGo, Served, Waits
    <2> QED
      BY <2>2, <2>3, <2>5 DEF Quiet
  <1>6. CASE RecvPacket \/ RecvAnswer \/ ParseRecv \/ SetLoRaCfg \/ AtEnter \/ AtReq \/ AtSet
             \/ AtReqCfg \/ AtSend \/ AtTake \/ AtTimeout \/ AtExit \/ LearnNow
             \/ FallSilent \/ UNCHANGED lvars
    <2>1. UNCHANGED <<members, wpc, wnode, ticks>>
      BY <1>6 DEF RecvPacket, RecvAnswer, ParseRecv, SetLoRaCfg, AtEnter, AtReq, AtSet,
           AtReqCfg, AtCommand, AtSend, AtTake, AtTimeout, AtExit, LearnNow, FallSilent,
           listVars, workVars, lvars
    <2> QED
      BY <1>2, <2>1
  <1>7. CASE Work
    BY <1>4, <1>5, <1>7 DEF Work
  <1> QED
    BY <1>3, <1>6, <1>7 DEF LNext, Parse, Configure

LEMMA TurnHrt ==
  ASSUME ListTypes, Turn, WorkHrt
  PROVE  Turn'
  <1>1. wpc = "hrt" /\ Unserved /\ ~Unserved' /\ ticks' = ticks /\ ticks \in 0 .. PassMax
    BY DEF WorkHrt, Unserved, ListTypes
  <1>2. ASSUME NEW i \in DOMAIN members, Waits(i) PROVE OnTime(i)
    BY <1>1, <1>2 DEF Turn, Served
  <1>3. ASSUME NEW i \in DOMAIN members
        PROVE  members[i] \in Node /\ members[i].hrt \in 0 .. HrtAfter + 1
               /\ members[i].last \in Nat /\ members[i].seat \in Nat /\ i \in Nat /\ i > 0
    BY ListedDomain, Numbers DEF ListTypes, Node
  <1>4. CASE FirstDue = 0
    <2>1. members' = members
      BY <1>4 DEF WorkHrt
    <2> SUFFICES ASSUME NEW i \in DOMAIN members, Waits(i) PROVE OnTime(i)'
      BY <2>1 DEF Turn, Waits
    <2> SUFFICES ASSUME Sure(members[i].seat) PROVE OnTime(i)'
      BY <2>1 DEF OnTime
    <2>2. OnTime(i) /\ ~(members[i].hrt > HrtAfter)
      BY <1>2, <1>4, NoneDue DEF Waits, ListTypes
    <2>3. ~(members[i].last > HrtAfter)
      BY <2>2, Numbers, SMT DEF OnTime
    <2> QED
      BY <2>1, <2>2, <2>3 DEF OnTime
  <1>5. CASE FirstDue # 0
    <2>1. PICK k : k = FirstDue
      OBVIOUS
    <2>2. /\ k \in DOMAIN members /\ members[k].on /\ members[k].hrt > HrtAfter
          /\ \A i \in DOMAIN members : members[i].on /\ members[i].hrt > HrtAfter => k <= i
      BY <1>5, <2>1, FirstDueIn DEF ListTypes
    <2>3. /\ wpc' = "hrtsend" /\ wnode' = members[k].id
          /\ members' = [members EXCEPT ![k].hrt = 0]
      BY <1>5, <2>1 DEF WorkHrt
    <2>4. /\ DOMAIN members' = DOMAIN members /\ members'[k].hrt = 0
          /\ \A i \in DOMAIN members : /\ members'[i].id = members[i].id
                                       /\ i # k => members'[i] = members[i]
      BY <2>2, <2>3, HrtKeeps DEF ListTypes
    <2> SUFFICES ASSUME NEW i \in DOMAIN members, Waits(i)', ~Served(members[i].id)'
                 PROVE  OnTime(i)'
      BY <2>4 DEF Turn
    <2>5. i # k /\ members'[i] = members[i] /\ Waits(i)
      BY <2>2, <2>3, <2>4 DEF Served, Waits
    <2>6. PICK e : e = members[i]
      OBVIOUS
    <2>7. PICK d : d = e.last - HrtAfter
      OBVIOUS
    <2> SUFFICES ASSUME Sure(e.seat)
                 PROVE  /\ i <= e.seat
                        /\ e.hrt = IF e.last > HrtAfter THEN HrtAfter + 1 ELSE e.last
                        /\ e.last > HrtAfter =>
                             PassMax * Cardinality(Ahead(e.id, d)') + d
                               <= PassMax * (e.seat - 1) + ticks
      BY <1>1, <2>5, <2>6, <2>7 DEF OnTime, Bound, Sure
    <2>8. /\ i <= e.seat
          /\ e.hrt = IF e.last > HrtAfter THEN HrtAfter + 1 ELSE e.last
          /\ e.last > HrtAfter =>
               PassMax * Cardinality(Ahead(e.id, d)) + d <= PassMax * e.seat + ticks
      BY <1>1, <1>2, <2>5, <2>6, <2>7 DEF OnTime, Bound
    <2>9. ASSUME e.last > HrtAfter
          PROVE  PassMax * Cardinality(Ahead(e.id, d)') + d <= PassMax * (e.seat - 1) + ticks
      <3>1. e.last \in Nat /\ d \in Nat /\ d > 0 /\ e.on /\ e.seat \in Nat /\ e.seat > 0
        BY <1>3, <2>5, <2>6, <2>7, <2>8, <2>9, Numbers, SMT DEF Waits
      <3>2. k < i
        <4>1. k <= i /\ k \in Nat /\ i \in Nat
          BY <1>3, <2>2, <2>6, <2>8, <2>9, <3>1, Numbers, SMT
        <4> QED
          BY <2>5, <4>1, SMT
      <3>3. Ahead(e.id, d) \subseteq LNodes
        BY DEF Ahead
      <3>4. Cardinality(Ahead(e.id, d)) \in Nat
        BY <3>3, AheadSize
      <3>5. members[k].hrt >= d
        <4>3. /\ PassMax * e.seat \in Nat /\ PassMax * (e.seat + 1) = PassMax * e.seat + PassMax
              /\ PassMax * Cardinality(Ahead(e.id, d)) \in Nat
          <5>1. e.seat <= e.seat /\ Cardinality(Ahead(e.id, d)) <= Cardinality(Ahead(e.id, d))
            BY <3>1, <3>4
          <5> QED
            BY <3>1, <3>4, <5>1, Times
        <4>4. PICK x, y \in Nat : /\ x = PassMax * Cardinality(Ahead(e.id, d))
                                  /\ y = PassMax * e.seat
          BY <4>3
        <4>5. x + d <= y + ticks /\ y + PassMax <= HrtAfter + 1
          BY <2>8, <2>9, <4>3, <4>4 DEF Sure
        <4>1. d <= HrtAfter + 1
          BY <1>1, <3>1, <4>4, <4>5, Numbers, SMT
        <4>2. members[k].hrt = HrtAfter + 1
          BY <1>3, <2>2, Numbers, SMT
        <4> QED
          BY <4>1, <4>2
      <3>6. members[k].id \in Ahead(e.id, d)
        BY <2>2, <2>6, <3>2, <3>5, AheadIn
      <3>7. Ahead(e.id, d)' \subseteq Ahead(e.id, d) \ {members[k].id}
        <4> SUFFICES ASSUME NEW m \in Ahead(e.id, d)'
                     PROVE  m \in Ahead(e.id, d) /\ m # members[k].id
          OBVIOUS
        <4>1. PICK a \in DOMAIN members, b \in DOMAIN members :
                b < a /\ members[a].id = e.id /\ members[b].id = m
                /\ members'[b].on /\ members'[b].hrt >= d
          BY <2>4 DEF Ahead, Seat
        <4>2. b # k
          BY <2>4, <3>1, <4>1, SMT
        <4>3. members'[b] = members[b] /\ m # members[k].id
          BY <2>2, <2>4, <4>1, <4>2 DEF ListTypes, Listed
        <4>4. m \in LNodes
          BY DEF Ahead
        <4> QED
          BY <4>1, <4>3, <4>4 DEF Ahead, Seat
      <3>8. /\ Cardinality(Ahead(e.id, d)') < Cardinality(Ahead(e.id, d))
            /\ Cardinality(Ahead(e.id, d)') \in Nat
        <4>1. Ahead(e.id, d)' \subseteq LNodes /\ Ahead(e.id, d)' # Ahead(e.id, d)
          BY <3>3, <3>6, <3>7
        <4> QED
          BY <3>3, <3>7, <4>1, AheadSize
      <3>9. PICK x, y, z \in Nat :
              /\ x = PassMax * Cardinality(Ahead(e.id, d)')
              /\ y = PassMax * Cardinality(Ahead(e.id, d)) /\ z = PassMax * (e.seat - 1)
              /\ x + PassMax <= y /\ PassMax * e.seat = z + PassMax
        <4>1. /\ PassMax * Cardinality(Ahead(e.id, d)') \in Nat
              /\ PassMax * Cardinality(Ahead(e.id, d)) \in Nat
              /\ PassMax * Cardinality(Ahead(e.id, d)') + PassMax
                   <= PassMax * Cardinality(Ahead(e.id, d))
          BY <3>4, <3>8, Times
        <4>2. /\ PassMax * e.seat \in Nat /\ PassMax * (e.seat - 1) \in Nat
              /\ PassMax * (e.seat - 1) = PassMax * e.seat - PassMax
          <5>1. e.seat <= e.seat
            BY <3>1
          <5> QED
            BY <3>1, <5>1, Times
        <4>3. PassMax * e.seat = PassMax * (e.seat - 1) + PassMax
          BY <4>2, Numbers, SMT
        <4> QED
          BY <4>1, <4>2, <4>3
      <3>10. y + d <= z + PassMax + ticks
        BY <2>8, <2>9, <3>9
      <3>11. x + d <= z + ticks
        BY <1>1, <3>1, <3>9, <3>10, Numbers, SMT
      <3> QED
        BY <3>9, <3>11
    <2> QED
      BY <2>8, <2>9
  <1> QED
    BY <1>4, <1>5

LEMMA AgedNode ==
  ASSUME ListTypes, members' = Aged(members), NEW j \in DOMAIN members
  PROVE  LET m == members[j] n == members'[j] IN
           /\ DOMAIN members' = DOMAIN members
           /\ m \in Node /\ n.id = m.id /\ (n.on <=> m.on) /\ n.seat = m.seat
           /\ m.on => /\ n.last = Up(m.last, 4 * LearnStep)
                      /\ n.hrt = Up(m.hrt, HrtAfter + 1)
                      /\ n.asked <=> (m.asked \/ ~ModemFree)
  <1>1. members[j] \in Node
    BY ListedDomain DEF ListTypes
  <1>2. DOMAIN members' = DOMAIN members
    BY DEF Aged
  <1>3. members'[j] = IF members[j].on
                        THEN [members[j] EXCEPT !.last = Up(members[j].last, 4 * LearnStep),
                                                !.hrt = Up(members[j].hrt, HrtAfter + 1),
                                                !.asked = members[j].asked \/ ~ModemFree]
                        ELSE [members[j] EXCEPT !.off = Up(members[j].off, 10 * LearnStep)]
    BY DEF Aged
  <1> QED
    BY <1>1, <1>2, <1>3 DEF Node

LEMMA AgedStayOn ==
  ASSUME ListTypes, members' = Aged(members)
  PROVE  StayOn(members, members')
  BY AgedNode DEF StayOn

\* The next pass: what is left of the seconds of this one adds to its own.
LEMMA TurnDelay ==
  ASSUME ListTypes, Turn, WorkDelay
  PROVE  Turn'
  <1>1. /\ wpc = "rested" /\ ~Unserved /\ Unserved' /\ members' = members
        /\ ticks' = 0 /\ ticks \in 0 .. PassMax
    BY DEF WorkDelay, Unserved, listVars, ListTypes
  <1> SUFFICES ASSUME NEW i \in DOMAIN members, Waits(i), Sure(members[i].seat)
               PROVE  OnTime(i)'
    BY <1>1 DEF Turn, Waits, OnTime
  <1>2. PICK e : e = members[i]
    OBVIOUS
  <1>3. PICK d : d = e.last - HrtAfter
    OBVIOUS
  <1>4. e \in Node /\ e.last \in Nat /\ e.seat \in Nat /\ d \in Int /\ i \in Nat /\ i > 0
    BY <1>2, <1>3, ListedDomain, Numbers DEF ListTypes, Node
  <1>5. /\ i <= e.seat
        /\ e.hrt = IF e.last > HrtAfter THEN HrtAfter + 1 ELSE e.last
        /\ e.last > HrtAfter =>
             PassMax * Cardinality(Ahead(e.id, d)) + d <= PassMax * (e.seat - 1) + ticks
    BY <1>1, <1>2, <1>3 DEF Turn, Served, OnTime, Bound
  <1>6. Ahead(e.id, d)' = Ahead(e.id, d)
    BY <1>1 DEF Ahead, Seat
  <1>7. PassMax * (e.seat - 1) + ticks <= PassMax * e.seat + 0
    <2>1. e.seat > 0 /\ e.seat <= e.seat
      BY <1>4, <1>5, SMT
    <2>2. /\ PassMax * e.seat \in Nat /\ PassMax * (e.seat - 1) = PassMax * e.seat - PassMax
      BY <1>4, <2>1, Times
    <2> QED
      BY <1>1, <2>2, Numbers, SMT
  <1>8. e.last > HrtAfter => PassMax * Cardinality(Ahead(e.id, d)) + d <= PassMax * e.seat + 0
    <2>1. Ahead(e.id, d) \subseteq LNodes
      BY DEF Ahead
    <2>2. Cardinality(Ahead(e.id, d)) \in Nat
      BY <2>1, AheadSize
    <2>3. /\ PassMax * Cardinality(Ahead(e.id, d)) \in Int /\ PassMax * (e.seat - 1) \in Int
          /\ PassMax * e.seat \in Int
      BY <1>4, <2>2, Numbers
    <2> QED
      BY <1>1, <1>4, <1>5, <1>7, <2>3, SMT
  <1> QED
    BY <1>1, <1>2, <1>3, <1>5, <1>6, <1>8 DEF OnTime, Bound

\* A second: who waits has waited for one more, and the pass has taken one more.  In
\* AT mode nobody waits.
LEMMA TurnTick ==
  ASSUME ListTypes, Turn, Tick
  PROVE  Turn'
  <1>1. /\ members' = Aged(members) /\ wnode' = wnode
        /\ wpc' = IF wpc = "delay" THEN "rested" ELSE wpc
    BY DEF Tick
  <1>2. DOMAIN members' = DOMAIN members
    BY <1>1 DEF Aged
  <1>3. CASE ~ModemFree
    <2>1. ASSUME NEW i \in DOMAIN members PROVE ~Waits(i)'
      BY <1>1, <1>3, AgedNode DEF Waits
    <2> QED
      BY <1>2, <2>1 DEF Turn
  <1>4. CASE ModemFree
    <2>1. ticks' = ticks + 1 /\ ticks \in Nat /\ Unserved' = Unserved
      BY <1>1, <1>4 DEF Tick, ListTypes, Unserved
    <2>2. \A n : Served(n)' = Served(n)
      BY <1>1 DEF Served
    <2> SUFFICES ASSUME NEW i \in DOMAIN members, Waits(i)', ~Served(members'[i].id)
                 PROVE  OnTime(i)'
      BY <1>2, <2>2 DEF Turn
    <2>3. PICK e, f : e = members[i] /\ f = members'[i]
      OBVIOUS
    <2>4. /\ f.id = e.id /\ f.last = Up(e.last, 4 * LearnStep)
          /\ f.hrt = Up(e.hrt, HrtAfter + 1) /\ f.seat = e.seat
          /\ Waits(i) /\ e \in Node
      BY <1>1, <1>4, <2>3, AgedNode DEF Waits
    <2>5. PICK d : d = e.last - HrtAfter
      OBVIOUS
    <2> SUFFICES ASSUME Sure(e.seat)
                 PROVE  /\ i <= e.seat
                        /\ f.hrt = IF f.last > HrtAfter THEN HrtAfter + 1 ELSE f.last
                        /\ f.last > HrtAfter =>
                             PassMax * Cardinality(Ahead(f.id, f.last - HrtAfter)')
                               + (f.last - HrtAfter) <= Bound(e.seat)'
      BY <2>3, <2>4 DEF OnTime, Sure
    <2>6. /\ i <= e.seat
          /\ e.hrt = IF e.last > HrtAfter THEN HrtAfter + 1 ELSE e.last
          /\ e.last > HrtAfter => PassMax * Cardinality(Ahead(e.id, d)) + d <= Bound(e.seat)
      BY <2>3, <2>4, <2>5 DEF Turn, OnTime
    <2>7. /\ e.last \in Nat /\ d \in Int /\ e.seat \in Nat /\ i \in Nat /\ i > 0
      <3>1. i \in Nat /\ i > 0
        BY ListedDomain DEF ListTypes
      <3>2. e.last \in Nat /\ e.seat \in Nat
        BY <2>4, Numbers DEF Node
      <3> QED
        BY <2>5, <3>1, <3>2, Numbers
    <2>8. PICK t \in Nat : /\ t = PassMax * (e.seat - 1) /\ PassMax * e.seat = t + PassMax
                           /\ \A a \in 0 .. e.seat - 1 : PassMax * a \in Nat /\ PassMax * a <= t
      <3>1. e.seat - 1 \in Nat /\ e.seat > 0 /\ e.seat <= e.seat
        BY <2>6, <2>7, SMT
      <3>2. /\ PassMax * e.seat \in Nat /\ PassMax * (e.seat - 1) = PassMax * e.seat - PassMax
            /\ PassMax * (e.seat - 1) \in Nat
        BY <2>7, <3>1, Times
      <3>3. ASSUME NEW a \in 0 .. e.seat - 1
            PROVE  PassMax * a \in Nat /\ PassMax * a <= PassMax * (e.seat - 1)
        <4>1. a \in Nat /\ a <= e.seat - 1
          BY <3>1, SMT
        <4> QED
          BY <3>1, <4>1, Times
      <3>4. PassMax * e.seat = PassMax * (e.seat - 1) + PassMax
        BY <3>2, Numbers, SMT
      <3> QED
        BY <3>2, <3>3, <3>4
    <2>9. /\ Bound(e.seat) \in Nat /\ Bound(e.seat) >= t + ticks
          /\ Bound(e.seat)' = Bound(e.seat) + 1
      <3>1. PassMax \in Nat /\ PassMax > 0
        BY Numbers
      <3>2. Bound(e.seat) = IF Unserved THEN (t + PassMax) + ticks ELSE t + ticks
        BY <2>8 DEF Bound
      <3>3. Bound(e.seat)' = IF Unserved THEN (t + PassMax) + (ticks + 1) ELSE t + (ticks + 1)
        BY <2>1, <2>8 DEF Bound
      <3> QED
        BY <2>1, <2>8, <3>1, <3>2, <3>3, SMT
    <2>10. e.last < 4 * LearnStep
      <3>1. CASE e.last > HrtAfter
        <4>1. Ahead(e.id, d) \subseteq LNodes
          BY DEF Ahead
        <4>2. Cardinality(Ahead(e.id, d)) \in Nat /\ PassMax \in Nat
          BY <4>1, AheadSize, Numbers
        <4>3. PICK x \in Nat : x = PassMax * Cardinality(Ahead(e.id, d))
          BY <4>2
        <4>4. x + d <= Bound(e.seat)
          BY <2>6, <3>1, <4>3
        <4>5. Bound(e.seat) <= (t + PassMax) + PassMax
          <5>1. Bound(e.seat) = IF Unserved THEN (t + PassMax) + ticks ELSE t + ticks
            BY <2>8 DEF Bound
          <5>2. ticks <= PassMax
            BY DEF ListTypes
          <5> QED
            BY <2>1, <2>8, <5>1, <5>2, Numbers, SMT
        <4>6. HrtAfter + ((t + PassMax) + PassMax) < 4 * LearnStep
          <5>1. e.seat <= e.seat
            BY <2>7
          <5>2. PassMax * (e.seat + 1) = (t + PassMax) + PassMax
            BY <2>7, <2>8, <5>1, Times
          <5> QED
            BY <5>2 DEF Sure
        <4> QED
          BY <2>5, <2>7, <2>8, <2>9, <4>3, <4>4, <4>5, <4>6, Numbers, SMT
      <3>2. CASE ~(e.last > HrtAfter)
        <4>1. PassMax * (e.seat + 1) \in Nat
          <5>1. e.seat + 1 \in Nat /\ e.seat + 1 <= e.seat + 1
            BY <2>7, SMT
          <5> QED
            BY <5>1, Times
        <4>2. HrtAfter + PassMax * (e.seat + 1) < 4 * LearnStep
          BY DEF Sure
        <4>3. PICK x \in Nat : x = PassMax * (e.seat + 1)
          BY <4>1
        <4> QED
          BY <2>7, <3>2, <4>2, <4>3, Numbers, SMT
      <3> QED
        BY <3>1, <3>2
    <2>11. f.last = e.last + 1
      BY <2>4, <2>7, <2>10, Numbers, SMT DEF Up
    <2>12. f.hrt = IF f.last > HrtAfter THEN HrtAfter + 1 ELSE f.last
      BY <2>4, <2>6, <2>7, <2>11, Numbers, SMT DEF Up
    <2>13. f.last - HrtAfter = d + 1
      BY <2>5, <2>7, <2>11, Numbers, SMT
    <2>14. ASSUME f.last > HrtAfter
           PROVE  PassMax * Cardinality(Ahead(f.id, d + 1)') + (d + 1) <= Bound(e.seat)'
      <3>1. d \in Nat
        BY <2>5, <2>7, <2>11, <2>14, Numbers, SMT
      <3>2. ASSUME NEW m \in Ahead(f.id, d + 1)' PROVE m \in Ahead(e.id, d)
        <4>1. PICK a \in DOMAIN members, b \in DOMAIN members :
                b < a /\ members'[a].id = f.id /\ members'[b].id = m
                /\ members'[b].on /\ members'[b].hrt >= d + 1
          BY <1>2 DEF Ahead, Seat
        <4>2. members[a].id = e.id /\ members[b].id = m /\ members[b].on
          BY <1>1, <2>4, <4>1, AgedNode
        <4>3. members'[b].hrt = Up(members[b].hrt, HrtAfter + 1) /\ members[b] \in Node
          BY <1>1, <4>2, AgedNode
        <4>4. members[b].hrt \in Nat
          BY <4>3, Numbers DEF Node
        <4>5. members[b].hrt >= d
          BY <3>1, <4>1, <4>3, <4>4, Numbers, SMT DEF Up
        <4>6. m \in LNodes
          BY DEF Ahead
        <4> QED
          BY <4>1, <4>2, <4>5, <4>6 DEF Ahead, Seat
      <3>3. Ahead(f.id, d + 1)' \subseteq Ahead(e.id, d) /\ Ahead(e.id, d) \subseteq LNodes
        BY <3>2 DEF Ahead
      <3>4. /\ Cardinality(Ahead(f.id, d + 1)') \in Nat /\ Cardinality(Ahead(e.id, d)) \in Nat
            /\ Cardinality(Ahead(f.id, d + 1)') <= Cardinality(Ahead(e.id, d))
        BY <3>3, AheadSize
      <3>5. PICK x, y \in Nat : /\ x = PassMax * Cardinality(Ahead(f.id, d + 1)')
                                /\ y = PassMax * Cardinality(Ahead(e.id, d)) /\ x <= y
        BY <3>4, Times
      <3>6. CASE e.last > HrtAfter
        <4>1. y + d <= Bound(e.seat)
          BY <2>6, <3>5, <3>6
        <4>2. x + (d + 1) <= Bound(e.seat) + 1
          BY <2>9, <3>1, <3>5, <4>1, SMT
        <4> QED
          BY <2>9, <3>5, <4>2
      <3>7. CASE ~(e.last > HrtAfter)
        <4>1. d = 0
          BY <2>5, <2>7, <3>1, <3>7, Numbers, SMT
        <4>2. Cardinality(Ahead(e.id, d)) <= i - 1
          BY <2>3, AheadFew
        <4>3. Cardinality(Ahead(e.id, d)) \in 0 .. e.seat - 1
          BY <2>6, <2>7, <3>4, <4>2, SMT
        <4>4. y <= t
          BY <2>8, <3>5, <4>3
        <4>5. x + (d + 1) <= Bound(e.seat) + 1
          BY <2>1, <2>8, <2>9, <3>5, <4>1, <4>4, SMT
        <4> QED
          BY <2>9, <3>5, <4>5
      <3> QED
        BY <3>6, <3>7
    <2> QED
      BY <2>6, <2>12, <2>13, <2>14
  <1> QED
    BY <1>3, <1>4

LEMMA TurnNext == ListTypes /\ Turn /\ [LNext]_lvars => Turn'
  <1> SUFFICES ASSUME ListTypes, Turn, [LNext]_lvars PROVE Turn'
    OBVIOUS
  <1>1. ListTypes'
    BY TypesNext
  <1>2. CASE Quiet
    BY <1>1, <1>2, TurnKept DEF Quiet, ServedGo
  <1>3. CASE WorkCheck
    <2>1. /\ wpc = "check" /\ Unserved' = Unserved /\ ticks' = ticks
          /\ Later(members, members')
      BY <1>3, CheckedLater DEF WorkCheck, Unserved, ListTypes
    <2> QED
      BY <1>1, <2>1, TurnKept DEF Served
  <1> QED
    BY <1>2, <1>3, StepKinds, TurnHrt, TurnDelay, TurnTick

\* A node that waits when lora_check_online comes is not given up, if it is Sure.
LEMMA NotOver ==
  ASSUME ListTypes, Turn, wpc = "check", NEW i \in DOMAIN members, Waits(i),
         Sure(members[i].seat)
  PROVE  ~Over(members[i])
  <1>1. PICK e : e = members[i]
    OBVIOUS
  <1>2. e \in Node /\ e.last \in Nat /\ e.seat \in Nat /\ ticks \in Nat /\ ticks <= PassMax
    BY <1>1, ListedDomain, Numbers DEF ListTypes, Node
  <1>3. PICK d : d = e.last - HrtAfter
    OBVIOUS
  <1>4. e.last > HrtAfter =>
          PassMax * Cardinality(Ahead(e.id, d)) + d <= PassMax * e.seat + ticks
    BY <1>1, <1>3 DEF Turn, Served, OnTime, Bound, Unserved
  <1>5. PICK x, y \in Nat : /\ x = PassMax * Cardinality(Ahead(e.id, d)) /\ y = PassMax * e.seat
                            /\ PassMax * (e.seat + 1) = y + PassMax
    <2>1. Ahead(e.id, d) \subseteq LNodes
      BY DEF Ahead
    <2>2. Cardinality(Ahead(e.id, d)) \in Nat
      BY <2>1, AheadSize
    <2>3. e.seat <= e.seat /\ Cardinality(Ahead(e.id, d)) <= Cardinality(Ahead(e.id, d))
      BY <1>2, <2>2
    <2> QED
      BY <1>2, <2>2, <2>3, Times
  <1>6. HrtAfter + (y + PassMax) < 4 * LearnStep
    BY <1>1, <1>5 DEF Sure
  <1>7. e.last > HrtAfter => x + d <= y + ticks
    BY <1>4, <1>5
  <1>8. e.last < 4 * LearnStep
    BY <1>2, <1>3, <1>5, <1>6, <1>7, Numbers, SMT
  <1> QED
    BY <1>1, <1>2, <1>8, Numbers, SMT DEF Over

LEMMA DropsStep ==
  ListTypes /\ Turn /\ [LNext]_lvars =>
    \A n \in LNodes : On(n) /\ ~On(n)' =>
      Asked(n) \/ \E i \in Seat(n) : ~Sure(members[i].seat)
  <1> SUFFICES ASSUME ListTypes, Turn, [LNext]_lvars,
                      NEW n \in LNodes, On(n), ~On(n)', ~Asked(n),
                      \A i \in Seat(n) : Sure(members[i].seat)
               PROVE  FALSE
    OBVIOUS
  <1>1. PICK j \in DOMAIN members : /\ members[j].id = n /\ members[j].on
                                    /\ ~members[j].asked /\ Sure(members[j].seat)
    BY DEF On, Asked, Seat
  <1>2. ~StayOn(members, members')
    BY <1>1 DEF StayOn, On, Seat
  <1>3. ~Quiet /\ ~WorkDelay /\ ~Tick
    BY <1>2, AgedStayOn, SameLater DEF Quiet, WorkDelay, Tick, listVars, ListTypes
  <1>4. CASE WorkHrt
    <2>1. members' = members \/ FirstDue # 0
      BY <1>4 DEF WorkHrt
    <2>2. CASE members' = members
      BY <1>2, <2>2, SameLater DEF ListTypes
    <2>3. CASE FirstDue # 0
      <3>1. FirstDue \in DOMAIN members
        BY <2>3, FirstDueIn DEF ListTypes
      <3>2. members' = [members EXCEPT ![FirstDue].hrt = 0]
        BY <1>4, <2>3 DEF WorkHrt
      <3>3. members[j] \in Node
        BY ListedDomain DEF ListTypes
      <3>4. members'[j].id = n /\ members'[j].on /\ j \in DOMAIN members'
        BY <1>1, <3>1, <3>2, <3>3 DEF Node
      <3> QED
        BY <3>4 DEF On, Seat
    <2> QED
      BY <2>1, <2>2, <2>3
  <1>5. CASE WorkCheck
    <2>1. ~Over(members[j])
      BY <1>1, <1>5, NotOver DEF WorkCheck, Waits
    <2>2. PICK i \in DOMAIN members' : members'[i] = members[j]
      BY <1>1, <1>5, <2>1, CheckedLater DEF WorkCheck, ListTypes
    <2> QED
      BY <1>1, <2>2 DEF On, Seat
  <1> QED
    BY <1>3, <1>4, <1>5, StepKinds

\* lora_std.c: lora_mnode_check_hrt serves one node in a pass, the first in the list
\* that is due, and still reaches each at a seat that is Sure before
\* lora_check_online ends it.
THEOREM AlwaysAskedFirst == LSpec => LoraDrops
  <1>1. LInit => ListTypes /\ Turn
    BY TypesInit DEF LInit, Turn
  <1>2. ListTypes /\ Turn /\ [LNext]_lvars => ListTypes' /\ Turn'
    BY TypesNext, TurnNext
  <1>3. ListTypes /\ Turn /\ [LNext]_lvars =>
          [\A n \in LNodes : On(n) /\ ~On(n)' =>
             Asked(n) \/ \E i \in Seat(n) : ~Sure(members[i].seat)]_lvars
    BY DropsStep
  <1> QED
    BY <1>1, <1>2, <1>3, PTL DEF LSpec, LoraDrops
=============================================================================
