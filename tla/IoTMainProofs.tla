---- MODULE IoTMainProofs ----
(* For every block size, node size and data size that SizesAssumption        *)
(* allows, the pool of list_init stays in its block, its list is well formed *)
(* and holds item_num - 1 nodes: in itself, and as main makes it, whatever   *)
(* else main has in memory.  The loop starts from that list and sorts it as  *)
(* ListSortProofs shows.                                                     *)
EXTENDS IoTMain, FiniteSetTheorems, TLAPS

(* \div rounds down. *)
LEMMA Division ==
    ASSUME NEW b \in Nat, NEW m \in Nat \ {0}
    PROVE  /\ b \div m \in Nat
           /\ (b \div m) * m <= b
           /\ b < (b \div m) * m + m
OBVIOUS

(* What the block is reckoned to hold, it has room for. *)
LEMMA ItemNum ==
    ASSUME blksize \in BlkSizes
    PROVE  /\ item_num \in Nat \ {0}
           /\ ItemSize \in Nat \ {0}
           /\ (item_num + 1) * ItemSize <= blksize
<1>1. DataSize \in Nat \ {0} /\ NodeSize \in 1..16
    BY SizesAssumption
<1>2. ItemSize \in Nat \ {0}
    BY <1>1 DEF ItemSize
<1>3. blksize \in Nat /\ 2 * ItemSize <= blksize
    BY SizesAssumption
<1>. DEFINE q == blksize \div ItemSize
<1>4. q \in Nat /\ q * ItemSize <= blksize /\ blksize < q * ItemSize + ItemSize
    BY <1>2, <1>3, Division
<1>. HIDE DEF q
<1>5. q >= 2
  <2>1. SUFFICES ASSUME q <= 1 PROVE FALSE
      BY <1>4
  <2>2. q = 0 \/ q = 1
      BY <2>1, <1>4
  <2>3. q * ItemSize + ItemSize <= 2 * ItemSize
      BY <2>2, <1>2
  <2>. QED  BY <2>3, <1>2, <1>3, <1>4
<1>6. item_num = q - 1
    BY DEF item_num, q
<1>7. item_num \in Nat \ {0} /\ item_num + 1 = q
    BY <1>4, <1>5, <1>6
<1>. QED  BY <1>2, <1>4, <1>7
-----------------------------------------------------------------------------
(* The inductive invariant.  The two bump pointers move in step, a node's    *)
(* slot is its datum's slot and its idx, and the loop variable is ahead of   *)
(* the pointers only when the pool is full.                                  *)
Slots == 0..(memblk - 1)

IsFcn(f) == f = [x \in DOMAIN f |-> f[x]]

Fields ==
    /\ IsFcn(next) /\ IsFcn(info) /\ IsFcn(idx)
    /\ DOMAIN next = Slots /\ DOMAIN info = Slots /\ DOMAIN idx = Slots
    /\ \A n \in Slots : info[n] = n /\ idx[n] = n
    /\ \A n \in Slots : n > 1 => next[n] = n - 1
    /\ 1 \in Slots => next[1] = NULL
    /\ memblk = 1 => next[head] = NULL
    /\ memblk > 1 => next[head] = memblk - 1

IInv ==
    /\ blksize \in BlkSizes
    /\ pc \in {"head", "insert", "done"}
    /\ memblk \in Nat /\ datablk = memblk
    /\ i \in 1..(item_num + 1)
    /\ memblk <= item_num /\ memblk <= i
    /\ memblk = item_num => item_num = 1
    /\ pc = "head" => memblk = 0 /\ i = 1
    /\ pc # "head" => memblk >= 1 /\ (Full \/ i = memblk)
    /\ pc = "done" => i = item_num + 1
    /\ Fields

LEMMA InitInv == Init => IInv
<1>. SUFFICES ASSUME Init PROVE IInv
    OBVIOUS
<1>1. blksize \in BlkSizes /\ item_num \in Nat \ {0}
    BY ItemNum DEF Init
<1>2. Slots = {} /\ DOMAIN next = {} /\ DOMAIN info = {} /\ DOMAIN idx = {}
    BY DEF Init, Slots
<1>3. Fields
  <2>1. IsFcn(next) /\ IsFcn(info) /\ IsFcn(idx)
      BY DEF IsFcn, Init
  <2>2. memblk = 0
      BY DEF Init
  <2>. QED  BY <1>2, <2>1, <2>2 DEF Fields
<1>. QED  BY <1>1, <1>3 DEF IInv, Init

LEMMA InitHeadInv == IInv /\ InitHead => IInv'
<1>. SUFFICES ASSUME IInv, InitHead PROVE IInv'
    OBVIOUS
<1>1. item_num \in Nat \ {0} /\ item_num' = item_num
    BY ItemNum DEF IInv, InitHead, item_num
<1>2. memblk = 0 /\ datablk = 0 /\ memblk' = 1 /\ datablk' = 1 /\ i = 1 /\ i' = 1
    BY DEF IInv, InitHead
<1>3. Slots = {} /\ Slots' = {0}
    BY <1>2 DEF Slots
<1>4. DOMAIN next = {} /\ DOMAIN info = {} /\ DOMAIN idx = {}
    BY <1>3 DEF IInv, Fields
<1>5. next' = Put(next, 0, NULL) /\ info' = Put(info, 0, 0) /\ idx' = Put(idx, 0, 0)
    BY <1>2 DEF InitHead, head
<1>6. DOMAIN next' = {0} /\ DOMAIN info' = {0} /\ DOMAIN idx' = {0}
    BY <1>4, <1>5 DEF Put
<1>7. next'[0] = NULL /\ info'[0] = 0 /\ idx'[0] = 0
    BY <1>5 DEF Put
<1>8. Fields'
  <2>1. IsFcn(next)' /\ IsFcn(info)' /\ IsFcn(idx)'
      BY <1>5 DEF IsFcn, Put
  <2>. QED  BY <1>2, <1>3, <1>6, <1>7, <2>1 DEF Fields, head
<1>9. Full' \/ i' = memblk'
    BY <1>2
<1>. QED  BY <1>1, <1>2, <1>8, <1>9 DEF IInv, InitHead

LEMMA InsertInv == IInv /\ Insert => IInv'
<1>. SUFFICES ASSUME IInv, Insert PROVE IInv'
    OBVIOUS
<1>1. item_num \in Nat \ {0} /\ item_num' = item_num
    BY ItemNum DEF IInv, Insert, item_num
<1>2. /\ memblk \in Nat /\ memblk >= 1 /\ datablk = memblk /\ i = memblk
      /\ memblk + 1 < item_num
      /\ memblk' = memblk + 1 /\ datablk' = memblk' /\ i' = memblk'
    BY <1>1 DEF IInv, Insert, Full
<1>3. Slots' = Slots \cup {memblk} /\ memblk \notin Slots /\ 0 \in Slots
    BY <1>2 DEF Slots
<1>4. DOMAIN next = Slots /\ DOMAIN info = Slots /\ DOMAIN idx = Slots
    BY DEF IInv, Fields
<1>5. info' = Put(info, memblk, memblk) /\ idx' = Put(idx, memblk, memblk)
    BY <1>2 DEF Insert
<1>6. /\ DOMAIN info' = Slots' /\ DOMAIN idx' = Slots'
      /\ info'[memblk] = memblk /\ idx'[memblk] = memblk
      /\ \A n \in Slots : info'[n] = info[n] /\ idx'[n] = idx[n]
    BY <1>3, <1>4, <1>5 DEF Put
<1>7. /\ DOMAIN next' = Slots' /\ next'[0] = memblk
      /\ next'[memblk] = next[0]
      /\ \A n \in Slots : n # 0 => next'[n] = next[n]
  <2>. DEFINE p == Put(next, memblk, next[0])
  <2>1. /\ DOMAIN p = Slots' /\ p[memblk] = next[0]
        /\ \A n \in Slots : p[n] = next[n]
      BY <1>3, <1>4 DEF Put
  <2>2. next' = [p EXCEPT ![0] = memblk]
      BY DEF Insert, head
  <2>. HIDE DEF p
  <2>. QED  BY <2>1, <2>2, <1>2, <1>3
<1>8. Fields'
  <2>1. \A n \in Slots' : info'[n] = n /\ idx'[n] = n
      BY <1>3, <1>6 DEF IInv, Fields
  <2>2. ASSUME NEW n \in Slots', n > 1 PROVE next'[n] = n - 1
    <3>1. CASE n = memblk
      <4>1. memblk > 1 /\ next[head] = memblk - 1
          BY <2>2, <3>1, <1>2 DEF IInv, Fields
      <4>. QED  BY <3>1, <4>1, <1>7 DEF head
    <3>2. CASE n # memblk
        BY <2>2, <3>2, <1>3, <1>7 DEF IInv, Fields
    <3>. QED  BY <3>1, <3>2
  <2>3. next'[1] = NULL
    <3>1. CASE memblk = 1
        BY <3>1, <1>7 DEF IInv, Fields, head
    <3>2. CASE memblk # 1
      <4>1. 1 \in Slots
          BY <3>2, <1>2 DEF Slots
      <4>. QED  BY <4>1, <1>7 DEF IInv, Fields
    <3>. QED  BY <3>1, <3>2
  <2>4. memblk' > 1 /\ next'[head] = memblk' - 1
      BY <1>2, <1>7 DEF head
  <2>5. IsFcn(next)' /\ IsFcn(info)' /\ IsFcn(idx)'
    <3>1. IsFcn(info)' /\ IsFcn(idx)'
        BY <1>5 DEF IsFcn, Put
    <3>2. IsFcn(next)'
        BY DEF IsFcn, Insert
    <3>. QED  BY <3>1, <3>2
  <2>. QED  BY <1>2, <1>6, <1>7, <2>1, <2>2, <2>3, <2>4, <2>5 DEF Fields
<1>9. /\ i' \in 1..(item_num + 1) /\ memblk' \in Nat /\ memblk' < item_num
      /\ pc' = "insert" /\ pc = "insert" /\ blksize' \in BlkSizes
    BY <1>1, <1>2 DEF IInv, Insert
<1>. QED  BY <1>1, <1>2, <1>8, <1>9 DEF IInv

LEMMA RestInv == IInv /\ (InsertFails \/ Finish \/ UNCHANGED vars) => IInv'
<1>. SUFFICES ASSUME IInv, InsertFails \/ Finish \/ UNCHANGED vars PROVE IInv'
    OBVIOUS
<1>1. item_num \in Nat \ {0} /\ item_num' = item_num
    BY ItemNum DEF IInv, InsertFails, Finish, vars, item_num
<1>2. /\ Fields' /\ (Full' <=> Full) /\ blksize' \in BlkSizes
      /\ memblk' = memblk /\ datablk' = datablk
    BY <1>1 DEF IInv, InsertFails, Finish, vars, Fields, Slots, Full
<1>3. CASE InsertFails
    BY <1>1, <1>2, <1>3 DEF IInv, InsertFails
<1>4. CASE Finish
    BY <1>1, <1>2, <1>4 DEF IInv, Finish
<1>5. CASE UNCHANGED vars
    BY <1>1, <1>2, <1>5 DEF IInv, vars
<1>. QED  BY <1>3, <1>4, <1>5

(* The pool of list_init keeps its shape, whatever the sizes. *)
THEOREM Invariance == Spec => []IInv
<1>1. IInv /\ [Next]_vars => IInv'
    BY InitHeadInv, InsertInv, RestInv DEF Next
<1>. QED  BY InitInv, <1>1, PTL DEF Spec

(* The fields of the nodes in use never point at anything not in use.        *)
THEOREM TypeCorrect == Spec => []TypeOK
<1>1. IInv => TypeOK
  <2>. SUFFICES ASSUME IInv PROVE TypeOK
      OBVIOUS
  <2>1. item_num \in Nat \ {0}
      BY ItemNum DEF IInv
  <2>2. /\ memblk \in 0..item_num /\ datablk \in 0..item_num /\ memblk \in Nat
        /\ Slots = 0..(memblk - 1) /\ datablk = memblk
      BY <2>1 DEF IInv, Slots
  <2>3. \A n \in Slots : next[n] \in Slots \cup {NULL}
    <3>. SUFFICES ASSUME NEW n \in Slots PROVE next[n] \in Slots \cup {NULL}
        OBVIOUS
    <3>1. CASE n = 0
        BY <3>1, <2>2 DEF IInv, Fields, head
    <3>2. CASE n = 1
        BY <3>2, <2>2 DEF IInv, Fields
    <3>3. CASE n > 1
        BY <3>3, <2>2 DEF IInv, Fields
    <3>. QED  BY <3>1, <3>2, <3>3, <2>2
  <2>4. next \in [Slots -> Slots \cup {NULL}]
      BY <2>3 DEF IInv, Fields, IsFcn
  <2>5. info \in [Slots -> Slots]
      BY DEF IInv, Fields, IsFcn
  <2>6. idx \in [Slots -> 0..item_num]
    <3>1. \A n \in Slots : idx[n] \in 0..item_num
        BY <2>1, <2>2 DEF IInv, Fields
    <3>. QED  BY <3>1 DEF IInv, Fields, IsFcn
  <2>. QED  BY <2>2, <2>4, <2>5, <2>6 DEF IInv, TypeOK
<1>. QED  BY <1>1, Invariance, PTL

(* Every node and datum in use lies in the block, and the nodes end before   *)
(* the data begin.                                                           *)
THEOREM StaysInBlock == Spec => []InBlock
<1>1. IInv => InBlock
  <2>. SUFFICES ASSUME IInv PROVE InBlock
      OBVIOUS
  <2>1. /\ item_num \in Nat \ {0} /\ memblk \in Nat /\ memblk <= item_num
        /\ (item_num + 1) * ItemSize <= blksize /\ blksize \in Nat
      BY ItemNum, SizesAssumption DEF IInv
  <2>2. NodeSize \in Nat /\ NodeSize <= 16 /\ DataSize \in Nat
      BY SizesAssumption
  <2>3. ASSUME NEW n \in Slots, NEW size \in Nat
        PROVE  size * n + size <= size * item_num
    <3>1. n \in Nat /\ n + 1 <= item_num
        BY <2>1 DEF Slots
    <3>2. PICK k \in Nat : item_num = n + 1 + k
      <4>1. item_num - (n + 1) \in Nat /\ item_num = n + 1 + (item_num - (n + 1))
          BY <2>1, <3>1
      <4>. QED  BY <4>1
    <3>3. size * item_num = size * n + size + size * k /\ size * k \in Nat
      <4>1. size * (n + 1 + k) = size * n + size + size * k
          BY <2>3, <3>1
      <4>. QED  BY <2>3, <3>2, <4>1
    <3>4. size * n \in Nat
        BY <2>3, <3>1
    <3>. QED  BY <2>3, <3>3, <3>4
  <2>4. \A n \in Nodes : NodeAt(n) + NodeSize <= DataAt(0)
    <3>1. Nodes = Slots
        BY DEF IInv, Fields, Nodes
    <3>2. DataAt(0) = NodeSize * item_num
        BY <2>1, <2>2 DEF DataAt
    <3>. QED  BY <2>2, <2>3, <3>1, <3>2 DEF NodeAt
  <2>5. NodeSize * item_num + DataSize * item_num <= blksize
    <3>1. NodeSize * item_num <= 16 * item_num
      <4>1. PICK k \in Nat : 16 = NodeSize + k
        <5>1. 16 - NodeSize \in Nat /\ 16 = NodeSize + (16 - NodeSize)
            BY <2>2
        <5>. QED  BY <5>1
      <4>2. (NodeSize + k) * item_num = NodeSize * item_num + k * item_num
          BY <2>1, <2>2
      <4>3. k * item_num \in Nat /\ NodeSize * item_num \in Nat
          BY <2>1, <2>2
      <4>. QED  BY <4>1, <4>2, <4>3
    <3>2. (item_num + 1) * (16 + DataSize) = 16 * item_num + DataSize * item_num + 16 + DataSize
        BY <2>1, <2>2
    <3>3. NodeSize * item_num \in Nat /\ DataSize * item_num \in Nat
        BY <2>1, <2>2
    <3>. QED  BY <2>1, <2>2, <3>1, <3>2, <3>3 DEF ItemSize
  <2>6. \A d \in Data : DataAt(d) + DataSize <= blksize
    <3>1. Data = Slots
        BY DEF IInv, Fields, Data
    <3>2. ASSUME NEW d \in Slots PROVE DataAt(d) + DataSize <= blksize
      <4>1. DataSize * d + DataSize <= DataSize * item_num
          BY <2>2, <2>3, <3>2
      <4>2. d \in Nat /\ DataSize * d \in Nat /\ NodeSize * item_num \in Nat
            /\ DataSize * item_num \in Nat
          BY <2>1, <2>2 DEF Slots
      <4>. QED  BY <2>1, <2>2, <2>5, <4>1, <4>2 DEF DataAt
    <3>. QED  BY <3>1, <3>2
  <2>. QED  BY <2>4, <2>6 DEF InBlock
<1>. QED  BY <1>1, Invariance, PTL

(* No two nodes share their data. *)
THEOREM DataIsPrivate == Spec => []NoSharedData
<1>1. IInv => NoSharedData
    BY DEF IInv, Fields, NoSharedData, Nodes
<1>. QED  BY <1>1, Invariance, PTL

(* The list from the head is the whole pool, youngest first. *)
THEOREM WellChained == Spec => []Chained
<1>1. IInv => Chained
  <2>. SUFFICES ASSUME IInv, Nodes # {} PROVE Chained
      BY DEF Chained
  <2>1. Nodes = Slots /\ memblk \in Nat
      BY DEF IInv, Fields, Nodes
  <2>2. memblk >= 1 /\ head \in Slots
      BY <2>1 DEF Slots, head
  <2>3. next[head] = (IF memblk = 1 THEN NULL ELSE memblk - 1)
      BY <2>1, <2>2 DEF IInv, Fields
  <2>4. \A n \in Nodes \ {head} : next[n] = IF n = 1 THEN NULL ELSE n - 1
      BY <2>1 DEF IInv, Fields, Slots, head
  <2>5. \A m, n \in Nodes \ {head} : m < n => idx[info[m]] < idx[info[n]]
      BY <2>1 DEF IInv, Fields
  <2>. QED  BY <2>3, <2>4, <2>5 DEF Chained
<1>. QED  BY <1>1, Invariance, PTL

(* A finished pool has one slot to spare in each region. *)
THEOREM Capacity == Spec => []OneSlotSpare
<1>1. IInv => OneSlotSpare
  <2>. SUFFICES ASSUME IInv, pc = "done"
                PROVE  memblk = (IF item_num = 1 THEN 1 ELSE item_num - 1) /\ datablk = memblk
      BY DEF OneSlotSpare
  <2>1. item_num \in Nat \ {0} /\ memblk \in Nat /\ memblk >= 1 /\ memblk <= item_num
      BY ItemNum DEF IInv
  <2>2. memblk + 1 >= item_num
      BY <2>1 DEF IInv, Full
  <2>. QED  BY <2>1, <2>2 DEF IInv
<1>. QED  BY <1>1, Invariance, PTL

-----------------------------------------------------------------------------
(* Nothing but list_init touches the bump pointers and the nodes it has made *)
(* (the links that the sort rewrites are ListSort's).                        *)
THEOREM MainRunsListInit == Main => Spec
<1>1. MainInit => Init
    BY DEF MainInit
<1>2. [MainNext]_mainVars => [Next]_vars
    BY DEF MainNext, mainVars, ListInit, MatrixInit, ConvInit, RunList, RunMatrix, RunConv
<1>. QED  BY <1>1, <1>2, PTL DEF Main, Spec

(* The list that main has made is typed, in its block, without shared data   *)
(* and chained, at every step of the whole benchmark.                        *)
THEOREM ListIsWellMade == Main => [](TypeOK /\ InBlock /\ NoSharedData /\ Chained)
BY MainRunsListInit, TypeCorrect, StaysInBlock, DataIsPrivate, WellChained, PTL

-----------------------------------------------------------------------------
(* The list of the loop.  The links are those of list_init's order until the *)
(* first sort, and a search in turn 0 is before any sort.                    *)
FirstLinks ==
    [n \in DOMAIN data |->
        IF n = 0 /\ 1 \in DOMAIN data THEN Cardinality(DOMAIN data) - 1
        ELSE IF n <= 1 THEN NULL ELSE n - 1]

HandInv ==
    /\ DOMAIN data = 0..(NodesIn(blksize) - 1)
    /\ turn \in Nat
    /\ turn = 0 /\ step = "search" => links = FirstLinks

LEMMA HandInit == MainInit => HandInv
<1>. SUFFICES ASSUME MainInit PROVE HandInv
    OBVIOUS
<1>1. DOMAIN data = 0..(NodesIn(blksize) - 1)
    BY SetupsAssumption DEF MainInit, Init
<1>2. turn = 0
    BY DEF MainInit, S!Init
<1>3. links = FirstLinks
    BY DEF MainInit, S!Init, FirstLinks, S!Nodes, S!NULL, NULL
<1>. QED  BY <1>1, <1>2, <1>3 DEF HandInv

LEMMA HandStep == HandInv /\ [MainNext]_mainVars => HandInv'
<1>. SUFFICES ASSUME HandInv, [MainNext]_mainVars PROVE HandInv'
    OBVIOUS
<1>1. UNCHANGED blksize
    BY DEF MainNext, mainVars, vars, ListInit, Next, InitHead, Insert, InsertFails, Finish,
           MatrixInit, ConvInit, RunList, RunMatrix, RunConv
<1>2. CASE UNCHANGED listVars
    BY <1>1, <1>2 DEF listVars, HandInv, FirstLinks, NodesIn
<1>3. CASE RunList
  <2>1. S!Next
      BY <1>3 DEF RunList
  <2>2. UNCHANGED data
      BY <2>1 DEF S!Next, S!SearchNode, S!SearchEnd, S!Call, S!BeginPass, S!BeginMerge, S!Split,
                  S!EndSplit, S!TakeRight, S!TakeLeft, S!EndMerge, S!NextPass, S!Return
  <2>3. \/ turn' = turn + 1
        \/ turn' = turn /\ (step' = "search" => step' = step /\ links' = links)
    <3>1. CASE S!Return
      <4>1. \/ UNCHANGED turn /\ step' = "call"
            \/ turn' = turn + 1
          BY <3>1, Zenon DEF S!Return
      <4>. QED  BY <4>1
    <3>2. CASE S!SearchNode
        BY <3>2 DEF S!SearchNode
    <3>3. CASE S!SearchEnd
        BY <3>3 DEF S!SearchEnd
    <3>4. CASE S!Call
        BY <3>4 DEF S!Call
    <3>5. CASE S!BeginPass
        BY <3>5 DEF S!BeginPass
    <3>6. CASE S!BeginMerge
        BY <3>6 DEF S!BeginMerge
    <3>7. CASE S!Split
        BY <3>7 DEF S!Split
    <3>8. CASE S!EndSplit
        BY <3>8 DEF S!EndSplit
    <3>9. CASE S!TakeRight
        BY <3>9 DEF S!TakeRight
    <3>10. CASE S!TakeLeft
        BY <3>10 DEF S!TakeLeft
    <3>11. CASE S!EndMerge
        BY <3>11 DEF S!EndMerge
    <3>12. CASE S!NextPass
        BY <3>12 DEF S!NextPass
    <3>. QED  BY <2>1, <3>1, <3>2, <3>3, <3>4, <3>5, <3>6, <3>7, <3>8, <3>9, <3>10, <3>11, <3>12
              DEF S!Next
  <2>4. FirstLinks' = FirstLinks /\ (DOMAIN data)' = DOMAIN data
      BY <2>2 DEF FirstLinks
  <2>5. turn' \in Nat
      BY <2>3 DEF HandInv
  <2>6. turn' = 0 /\ step' = "search" => links' = FirstLinks'
      BY <2>3, <2>4 DEF HandInv
  <2>. QED  BY <1>1, <2>4, <2>5, <2>6 DEF HandInv, NodesIn
<1>4. UNCHANGED listVars \/ RunList
    BY DEF MainNext, mainVars, ListInit, MatrixInit, ConvInit, RunMatrix, RunConv
<1>. QED  BY <1>2, <1>3, <1>4

(* Links as first made are the links of a finished pool. *)
LEMMA SameLinks ==
    ASSUME IInv, HandInv, pc = "done"
    PROVE  next = FirstLinks
<1>. DEFINE m == NodesIn(blksize)
<1>1. item_num \in Nat \ {0} /\ m \in Nat \ {0} /\ memblk = m
  <2>1. item_num \in Nat \ {0} /\ memblk \in Nat /\ memblk >= 1 /\ memblk <= item_num
      BY ItemNum DEF IInv
  <2>2. memblk + 1 >= item_num
      BY <2>1 DEF IInv, Full
  <2>3. m = IF item_num = 1 THEN 1 ELSE item_num - 1
      BY DEF NodesIn, item_num
  <2>. QED  BY <2>1, <2>2, <2>3 DEF IInv
<1>2. DOMAIN data = 0..(m - 1)
    BY DEF HandInv
<1>3. Cardinality(DOMAIN data) = m
    BY <1>1, <1>2, FS_Interval
<1>4. Slots = 0..(m - 1) /\ DOMAIN next = Slots
    BY <1>1 DEF Slots, IInv, Fields
<1>. HIDE DEF m
<1>5. ASSUME NEW n \in Slots PROVE next[n] = FirstLinks[n]
  <2>1. CASE n = 0
    <3>1. next[0] = IF m = 1 THEN NULL ELSE m - 1
        BY <1>1 DEF IInv, Fields, head
    <3>2. FirstLinks[0] = IF 1 \in DOMAIN data THEN m - 1 ELSE NULL
        BY <1>2, <1>3, <1>4, <1>5, <2>1 DEF FirstLinks
    <3>. QED  BY <1>1, <1>2, <2>1, <3>1, <3>2
  <2>2. CASE n = 1
      BY <1>2, <1>4, <1>5, <2>2 DEF FirstLinks, IInv, Fields
  <2>3. CASE n > 1
    <3>1. next[n] = n - 1
        BY <1>5, <2>3 DEF IInv, Fields
    <3>2. FirstLinks[n] = n - 1
        BY <1>1, <1>2, <1>4, <1>5, <2>3 DEF FirstLinks
    <3>. QED  BY <3>1, <3>2
  <2>. QED  BY <1>1, <1>4, <2>1, <2>2, <2>3
<1>6. next = [n \in Slots |-> next[n]]
    BY <1>4 DEF IInv, Fields, IsFcn
<1>7. FirstLinks = [n \in Slots |-> FirstLinks[n]]
    BY <1>2, <1>4 DEF FirstLinks
<1>. QED  BY <1>5, <1>6, <1>7

(* The loop starts with the list that list_init has made, and a node's idx   *)
(* is its slot: what the sort by idx relies on.                              *)
THEOREM ListIsHandedOver == Main => []HandedOver
<1>1. IInv /\ HandInv => HandedOver
  <2>. SUFFICES ASSUME IInv, HandInv, pc = "done", step = "search", turn = 0
                PROVE  links = next /\ \A n \in Nodes : idx[info[n]] = n
      BY DEF HandedOver
  <2>1. links = next
      BY SameLinks DEF HandInv
  <2>2. \A n \in Nodes : idx[info[n]] = n
      BY DEF IInv, Fields, Nodes
  <2>. QED  BY <2>1, <2>2
<1>2. Main => []HandInv
    BY HandInit, HandStep, PTL DEF Main
<1>3. Main => []IInv
    BY MainRunsListInit, Invariance, PTL
<1>. QED  BY <1>1, <1>2, <1>3, PTL

-----------------------------------------------------------------------------
(* The loop sorts that list as ListSort does: its theorems hold of main.     *)
SP == INSTANCE ListSortProofs WITH next <- links, memblk <- list_head, pc <- step

(* What the loop is, in both of its instances. *)
LEMMA SameChain ==
    /\ \A T : SP!Cardinality(T) = Cardinality(T) /\ S!Cardinality(T) = Cardinality(T)
    /\ \A h : S!Chain(h) = SP!Chain(h)
<1>1. \A T : SP!Cardinality(T) = Cardinality(T) /\ S!Cardinality(T) = Cardinality(T)
    BY DEF SP!Cardinality, S!Cardinality, Cardinality
<1>2. \A h : S!Walk(h) = SP!Walk(h)
  <2>1. S!Cardinality(DOMAIN data) = SP!Cardinality(DOMAIN data)
      BY <1>1
  <2>. QED  BY <2>1, Zenon DEF S!Walk, SP!Walk, S!Nodes, SP!Nodes, S!NULL, SP!NULL
<1>. QED  BY <1>1, <1>2, Zenon DEF S!Chain, SP!Chain, S!NULL, SP!NULL

LEMMA SameCompare ==
    /\ \A d, e : S!Less(d, e) <=> SP!Less(d, e)
    /\ \A d, e : S!CmpData(d, e) = SP!CmpData(d, e)
    /\ \A a, b : S!cmp_idx_value(a, b) = SP!cmp_idx_value(a, b)
<1>1. \A d, e : S!Less(d, e) <=> SP!Less(d, e)
    BY DEF S!Less, SP!Less
<1>2. \A d, e : S!CmpData(d, e) = SP!CmpData(d, e)
    BY <1>1 DEF S!CmpData, SP!CmpData
<1>3. \A a, b : S!cmp_idx_value(a, b) = SP!cmp_idx_value(a, b)
    BY <1>2 DEF S!cmp_idx_value, SP!cmp_idx_value, S!CmpIdx, SP!CmpIdx, S!DATA_CMP, SP!DATA_CMP
<1>. QED  BY <1>1, <1>2, <1>3

LEMMA InitSort == MainInit => SP!Infos /\ SP!Init
<1>. SUFFICES ASSUME MainInit PROVE SP!Infos /\ SP!Init
    OBVIOUS
<1>1. S!Init /\ blksize \in BlkSizes
    BY DEF MainInit, Init
<1>. DEFINE m == NodesIn(blksize)
<1>2. m \in Nat \ {0}
  <2>1. item_num \in Nat \ {0} /\ m = IF item_num = 1 THEN 1 ELSE item_num - 1
      BY <1>1, ItemNum DEF NodesIn, item_num
  <2>. QED  BY <2>1
<1>3. PICK family \in Setups : \E s \in family :
          blksize = s.blksize /\ data = s.list.data /\ key = s.list.key
    BY DEF MainInit
<1>4. PICK s \in family : blksize = s.blksize /\ data = s.list.data /\ key = s.list.key
    BY <1>3
<1>5. key \in Seq(Int) /\ data \in [0..(m - 1) -> [1..Len(key) -> Int]]
    BY <1>1, <1>3, <1>4, SetupsAssumption
<1>. HIDE DEF m
<1>6. DOMAIN data = 0..(m - 1)
    BY <1>5
<1>7. Cardinality(DOMAIN data) = m
    BY <1>2, <1>6, FS_Interval
<1>8. Len(key) \in Nat /\ key \in [1..Len(key) -> Int]
    BY <1>5
<1>9. SP!Infos
  <2>1. SP!size = m /\ SP!Nodes = 0..(m - 1)
      BY <1>6, <1>7, SameChain DEF SP!size, SP!Nodes
  <2>2. key \in [1..Len(key) -> Int] /\ data \in [SP!Nodes -> [1..Len(key) -> Int]]
      BY <1>5, <1>8, <2>1
  <2>. QED  BY <1>2, <1>8, <2>1, <2>2 DEF SP!Infos
<1>10. SP!Init
    BY <1>1 DEF S!Init, SP!Init, S!Nodes, SP!Nodes, S!NULL, SP!NULL, S!DATA_CMP, SP!DATA_CMP
<1>. QED  BY <1>9, <1>10

LEMMA StepSort == [MainNext]_mainVars => [SP!Next]_(SP!vars)
<1>. SUFFICES ASSUME [MainNext]_mainVars PROVE [SP!Next]_(SP!vars)
    OBVIOUS
<1>1. S!Next \/ UNCHANGED listVars
    BY DEF MainNext, mainVars, ListInit, MatrixInit, ConvInit, RunList, RunMatrix, RunConv
<1>2. CASE UNCHANGED listVars
    BY <1>2 DEF listVars, SP!vars, SP!sorting
<1>3. CASE S!Next
  <2>1. S!SearchNode <=> SP!SearchNode
      BY SameCompare DEF S!SearchNode, SP!SearchNode, S!sorting, SP!sorting, S!NULL, SP!NULL, S!DATA_CMP, SP!DATA_CMP, S!IDX_CMP, SP!IDX_CMP
  <2>2. S!SearchEnd <=> SP!SearchEnd
      BY DEF S!SearchEnd, SP!SearchEnd, S!sorting, SP!sorting, S!NULL, SP!NULL, S!DATA_CMP, SP!DATA_CMP, S!IDX_CMP, SP!IDX_CMP
  <2>3. S!Call <=> SP!Call
      BY SameChain DEF S!Call, SP!Call
  <2>4. S!BeginPass <=> SP!BeginPass
      BY DEF S!BeginPass, SP!BeginPass, S!NULL, SP!NULL, S!DATA_CMP, SP!DATA_CMP, S!IDX_CMP, SP!IDX_CMP
  <2>5. S!BeginMerge <=> SP!BeginMerge
      BY DEF S!BeginMerge, SP!BeginMerge, S!NULL, SP!NULL, S!DATA_CMP, SP!DATA_CMP, S!IDX_CMP, SP!IDX_CMP
  <2>6. S!Split <=> SP!Split
      BY DEF S!Split, SP!Split, S!NULL, SP!NULL, S!DATA_CMP, SP!DATA_CMP, S!IDX_CMP, SP!IDX_CMP
  <2>7. S!EndSplit <=> SP!EndSplit
      BY DEF S!EndSplit, SP!EndSplit, S!NULL, SP!NULL, S!DATA_CMP, SP!DATA_CMP, S!IDX_CMP, SP!IDX_CMP
  <2>8. S!TakeRight <=> SP!TakeRight
      BY SameCompare DEF S!TakeRight, SP!TakeRight, S!RightEmpty, SP!RightEmpty, S!LeftEmpty, SP!LeftEmpty, S!Add, SP!Add, S!NULL, SP!NULL, S!DATA_CMP, SP!DATA_CMP, S!IDX_CMP, SP!IDX_CMP
  <2>9. S!TakeLeft <=> SP!TakeLeft
      BY SameCompare DEF S!TakeLeft, SP!TakeLeft, S!RightEmpty, SP!RightEmpty, S!LeftEmpty, SP!LeftEmpty, S!Add, SP!Add, S!NULL, SP!NULL, S!DATA_CMP, SP!DATA_CMP, S!IDX_CMP, SP!IDX_CMP
  <2>10. S!EndMerge <=> SP!EndMerge
      BY DEF S!EndMerge, SP!EndMerge, S!RightEmpty, SP!RightEmpty, S!LeftEmpty, SP!LeftEmpty, S!NULL, SP!NULL, S!DATA_CMP, SP!DATA_CMP, S!IDX_CMP, SP!IDX_CMP
  <2>11. S!NextPass <=> SP!NextPass
      BY DEF S!NextPass, SP!NextPass, S!EndPass, SP!EndPass, S!NULL, SP!NULL, S!DATA_CMP, SP!DATA_CMP, S!IDX_CMP, SP!IDX_CMP
  <2>12. S!Return <=> SP!Return
      BY DEF S!Return, SP!Return, S!EndPass, SP!EndPass, S!sorting, SP!sorting, S!NULL, SP!NULL, S!DATA_CMP, SP!DATA_CMP, S!IDX_CMP, SP!IDX_CMP
  <2>. QED  BY <1>3, <2>1, <2>2, <2>3, <2>4, <2>5, <2>6, <2>7, <2>8, <2>9, <2>10, <2>11, <2>12
            DEF S!Next, SP!Next
<1>. QED  BY <1>1, <1>2, <1>3

(* No merge of any pass of any turn loses a node of the list, for all sizes  *)
(* of block, all data and keys.                                              *)
THEOREM NodesStay == Main => []NoNodeLost
<1>1. SP!NoNodeLost <=> NoNodeLost
  <2>1. S!Merged = SP!Merged /\ S!LeftRun = SP!LeftRun
    <3>1. S!Chain(list) = SP!Chain(list) /\ S!Chain(left) = SP!Chain(left)
        BY SameChain
    <3>2. S!Merged = SP!Merged
      <4>. DEFINE Last(c) ==
              CHOOSE k \in DOMAIN c : c[k] = ret /\ \A j \in 1..(k - 1) : c[j] # ret
      <4>1. S!NULL = SP!NULL
          BY DEF S!NULL, SP!NULL
      <4>2. S!Merged = IF ret = S!NULL THEN <<>> ELSE SubSeq(S!Chain(list), 1, Last(S!Chain(list)))
          BY Zenon DEF S!Merged
      <4>3. SP!Merged = IF ret = SP!NULL THEN <<>> ELSE SubSeq(SP!Chain(list), 1, Last(SP!Chain(list)))
          BY Zenon DEF SP!Merged
      <4>. HIDE DEF Last
      <4>. QED  BY <3>1, <4>1, <4>2, <4>3
    <3>3. S!LeftRun = SP!LeftRun
        BY <3>1 DEF S!LeftRun, SP!LeftRun
    <3>. QED  BY <3>2, <3>3
  <2>2. \A c : S!ToSet(c) = SP!ToSet(c)
      BY DEF S!ToSet, SP!ToSet
  <2>. QED  BY <2>1, <2>2, SameChain DEF NoNodeLost, S!NoNodeLost, SP!NoNodeLost,
            S!InPass, SP!InPass, S!Nodes, SP!Nodes
<1>2. SP!Infos /\ SP!Init /\ [][SP!Next]_(SP!vars) => [](SP!NoNodeLost /\ SP!RunsSorted)
    BY SP!SortsSafely
<1>. QED  BY <1>1, <1>2, InitSort, StepSort, PTL DEF Main

(* Every pass leaves sorted runs of twice the size, with ties as they were.  *)
THEOREM PassesSort == Main => []RunsSorted
<1>1. SP!RunsSorted <=> RunsSorted
    BY SameChain, SameCompare DEF RunsSorted, S!RunsSorted, SP!RunsSorted
<1>2. SP!Infos /\ SP!Init /\ [][SP!Next]_(SP!vars) => [](SP!NoNodeLost /\ SP!RunsSorted)
    BY SP!SortsSafely
<1>. QED  BY <1>1, <1>2, InitSort, StepSort, PTL DEF Main

(* The loop searches and sorts as ListOrder says. *)
THEOREM ListIsSorted == Main => ImplementsOrder
<1>1. SP!Order!Init => S!Order!Init
    BY DEF SP!Order!Init, S!Order!Init, S!Phase, SP!Phase
<1>2. [SP!Order!Next]_(SP!Order!vars) => [S!Order!Next]_(S!Order!vars)
  <2>1. SP!Phase = S!Phase /\ SP!Phase' = S!Phase'
      BY DEF S!Phase, SP!Phase, S!DATA_CMP, SP!DATA_CMP
  <2>2. /\ SP!Chain(list_head) = S!Chain(list_head)
        /\ (SP!Chain(list_head) = S!Chain(list_head))'
    <3>1. SP!Chain(list_head) = S!Chain(list_head)
        BY SameChain
    <3>. QED  BY <3>1, SameChain, PTL
  <2>3. SP!Order!vars = S!Order!vars /\ SP!Order!vars' = S!Order!vars'
      BY <2>1, <2>2 DEF SP!Order!vars, S!Order!vars
  <2>4. \A n : SP!Order!Matches(n) <=> S!Order!Matches(n)
      BY SameCompare DEF SP!Order!Matches, S!Order!Matches
  <2>5. SP!Order!Search <=> S!Order!Search
      BY <2>1, <2>2, <2>4 DEF SP!Order!Search, S!Order!Search, SP!Order!At, S!Order!At
  <2>6. SP!Order!SortData <=> S!Order!SortData
    <3>1. \A a, b : SP!Order!DataBefore(a, b) <=> S!Order!DataBefore(a, b)
        BY SameCompare DEF SP!Order!DataBefore, S!Order!DataBefore
    <3>. DEFINE Sorts(u, v) ==
                    /\ Len(v) = Len(u)
                    /\ {v[j] : j \in DOMAIN v} = {u[j] : j \in DOMAIN u}
                    /\ \A j, k \in DOMAIN v : j < k =>
                          \/ S!Order!DataBefore(v[j], v[k])
                          \/ /\ ~S!Order!DataBefore(v[k], v[j])
                             /\ S!Order!At(u, v[j]) < S!Order!At(u, v[k])
                o == IF step \in {"search", "call", "done"} THEN S!Chain(list_head) ELSE was
                p == IF step \in {"search", "call", "done"} THEN SP!Chain(list_head) ELSE was
                r == IF step = "search" THEN <<>> ELSE result
    <3>2. S!Order!SortData <=>
              /\ S!Phase = "data" /\ S!Phase' = "idx" /\ Sorts(o, o')
              /\ UNCHANGED <<data, key, r>>
        BY DEF S!Order!SortData, S!Order!StableSort
    <3>3. \A u, n : SP!Order!At(u, n) = S!Order!At(u, n)
        BY DEF SP!Order!At, S!Order!At
    <3>4. SP!Order!SortData <=>
              /\ SP!Phase = "data" /\ SP!Phase' = "idx" /\ Sorts(p, p')
              /\ UNCHANGED <<data, key, r>>
        BY <3>1, <3>3 DEF SP!Order!SortData, SP!Order!StableSort
    <3>5. p = o /\ p' = o'
        BY <2>2
    <3>. HIDE DEF Sorts, o, p, r
    <3>. QED  BY <2>1, <3>2, <3>4, <3>5
  <2>7. SP!Order!SortIdx <=> S!Order!SortIdx
      BY <2>1, <2>2 DEF SP!Order!SortIdx, S!Order!SortIdx,
         SP!Order!StableSort, S!Order!StableSort, SP!Order!IdxBefore, S!Order!IdxBefore,
         SP!Order!At, S!Order!At
  <2>. QED  BY <2>3, <2>5, <2>6, <2>7 DEF SP!Order!Next, S!Order!Next
<1>3. SP!Infos /\ SP!Init /\ [][SP!Next]_(SP!vars) => SP!ImplementsOrder
    BY SP!SortsInOrder
<1>. QED  BY <1>1, <1>2, <1>3, InitSort, StepSort, PTL
          DEF Main, ImplementsOrder, S!ImplementsOrder, SP!ImplementsOrder, S!Order!Spec, SP!Order!Spec
====
