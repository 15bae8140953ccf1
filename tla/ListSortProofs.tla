---- MODULE ListSortProofs ----
(* The merge sort of the list.  At every step the nodes, in the order        *)
(* merged - rest of the left run - what follows from right, are one          *)
(* permutation of the pool, and the links follow it but at the ends of the   *)
(* first two pieces; the order of that permutation is the order of the sort. *)
EXTENDS ListSort, FiniteSetTheorems, SequenceTheorems, WellFoundedInduction, TLAPS

size == Cardinality(Nodes)

(* What list_init hands over: nodes 0..size-1, whose data and the key are    *)
(* equally long sequences of integers.                                       *)
Infos ==
    /\ size \in Nat \ {0} /\ Nodes = 0..(size - 1)
    /\ \E w \in Nat : key \in [1..w -> Int] /\ data \in [Nodes -> [1..w -> Int]]

-----------------------------------------------------------------------------
(* Every nonempty set of naturals has a least element. *)
LEMMA Least ==
    ASSUME NEW S \in SUBSET Nat, S # {}
    PROVE  \E x \in S : \A y \in S : x <= y
<1>1. PICK x \in S : \A y \in S : ~(<<y, x>> \in OpToRel(<, Nat))
    BY NatLessThanWellFounded, WFMin
<1>2. \A y \in S : ~(<<y, x>> \in {ss \in Nat \X Nat : ss[1] < ss[2]})
    BY <1>1 DEF OpToRel
<1>3. \A y \in S : ~(y < x)
    BY <1>2
<1>. QED  BY <1>3

(* The walk along the links, as the recursion says. *)
LEMMA WalkDef ==
    ASSUME NEW h, size \in Nat
    PROVE  Walk(h) = [k \in 0..size |->
                        IF k = 0 THEN h
                        ELSE IF Walk(h)[k - 1] = NULL THEN NULL ELSE next[Walk(h)[k - 1]]]
<1>. DEFINE Is(f, n) ==
        f = [k \in 0..n |-> IF k = 0 THEN h
                            ELSE IF f[k - 1] = NULL THEN NULL ELSE next[f[k - 1]]]
            S == {n \in Nat : ~ \E f : Is(f, n)}
<1>1. S = {}
  <2>. SUFFICES ASSUME S # {} PROVE FALSE
      OBVIOUS
  <2>1. PICK n \in S : \A y \in S : n <= y
      BY Least
  <2>2. CASE n = 0
    <3>. DEFINE f == [k \in 0..0 |-> h]
    <3>1. Is(f, 0)
        OBVIOUS
    <3>. QED  BY <2>2, <3>1
  <2>3. CASE n # 0
    <3>1. n \in Nat /\ n - 1 \in Nat /\ n - 1 \notin S
      <4>1. S \in SUBSET Nat
          OBVIOUS
      <4>. HIDE DEF S
      <4>. QED  BY <4>1, <2>1, <2>3
    <3>2. PICK g : Is(g, n - 1)
        BY <3>1
    <3>. DEFINE last == IF g[n - 1] = NULL THEN NULL ELSE next[g[n - 1]]
                f == [k \in 0..n |-> IF k = n THEN last ELSE g[k]]
    <3>3. ASSUME NEW k \in 0..n
          PROVE  f[k] = IF k = 0 THEN h
                        ELSE IF f[k - 1] = NULL THEN NULL ELSE next[f[k - 1]]
      <4>1. CASE k = n
        <5>1. n - 1 \in 0..n /\ n - 1 # n
            BY <3>1
        <5>2. f[n] = last /\ f[n - 1] = g[n - 1]
            BY <5>1, <3>1
        <5>. QED  BY <4>1, <5>2, <2>3
      <4>2. CASE k # n
        <5>1. k \in 0..(n - 1) /\ (k # 0 => k - 1 \in 0..n /\ k - 1 # n)
            BY <3>1, <3>3, <4>2
        <5>2. f[k] = g[k] /\ (k # 0 => f[k - 1] = g[k - 1])
            BY <5>1, <4>2
        <5>. QED  BY <5>1, <5>2, <3>2
      <4>. QED  BY <4>1, <4>2
    <3>4. Is(f, n)
        BY <3>3
    <3>. QED  BY <3>4, <2>1
  <2>. QED  BY <2>2, <2>3
<1>2. \E f : Is(f, size)
    BY <1>1
<1>3. Is(Walk(h), size)
    BY <1>2 DEF Walk, size
<1>. QED  BY <1>3

(* A list that follows the links is walked in its order. *)
LEMMA WalkPrefix ==
    ASSUME NEW h, size \in Nat, NEW n \in Nat, n <= size, NEW t,
           n > 0 => t[1] = h,
           \A k \in 1..n : t[k] # NULL,
           \A k \in 1..(n - 1) : next[t[k]] = t[k + 1]
    PROVE  \A k \in 1..n : Walk(h)[k - 1] = t[k]
<1>. DEFINE W == Walk(h)
            S == {k \in 1..n : W[k - 1] # t[k]}
<1>0. W = [k \in 0..size |->
              IF k = 0 THEN h ELSE IF W[k - 1] = NULL THEN NULL ELSE next[W[k - 1]]]
    BY WalkDef
<1>. HIDE DEF W
<1>. SUFFICES ASSUME S # {} PROVE FALSE
    BY DEF W
<1>1. PICK k \in S : \A y \in S : k <= y
  <2>1. S \in SUBSET Nat
      OBVIOUS
  <2>. HIDE DEF S
  <2>. QED  BY <2>1, Least
<1>2. k \in 1..n /\ W[k - 1] # t[k]
    OBVIOUS
<1>3. k # 1
    BY <1>0, <1>2
<1>4. k - 1 \in 1..n /\ k - 1 \notin S
    BY <1>1, <1>2, <1>3
<1>5. W[k - 2] = t[k - 1]
    BY <1>4
<1>6. W[k - 1] = next[W[k - 2]]
  <2>1. k - 1 \in 0..size /\ k - 1 # 0 /\ (k - 1) - 1 = k - 2
      BY <1>2, <1>3
  <2>2. t[k - 1] # NULL
      BY <1>4
  <2>. QED  BY <1>0, <2>1, <2>2, <1>5
<1>. QED  BY <1>2, <1>4, <1>5, <1>6

LEMMA WalkPast ==
    ASSUME NEW h, size \in Nat, NEW n \in 0..size, Walk(h)[n] = NULL
    PROVE  \A k \in n..size : Walk(h)[k] = NULL
<1>. DEFINE W == Walk(h)
            S == {k \in n..size : W[k] # NULL}
<1>0. W = [k \in 0..size |->
              IF k = 0 THEN h ELSE IF W[k - 1] = NULL THEN NULL ELSE next[W[k - 1]]]
    BY WalkDef
<1>00. W[n] = NULL
    OBVIOUS
<1>. HIDE DEF W
<1>. SUFFICES ASSUME S # {} PROVE FALSE
    BY DEF W
<1>1. PICK k \in S : \A y \in S : k <= y
  <2>1. S \in SUBSET Nat
      OBVIOUS
  <2>. HIDE DEF S
  <2>. QED  BY <2>1, Least
<1>2. k \in n..size /\ k # n /\ W[k] # NULL
    BY <1>00
<1>3. k - 1 \in n..size /\ k - 1 \notin S
    BY <1>1, <1>2
<1>4. W[k - 1] = NULL
    BY <1>3
<1>. QED  BY <1>0, <1>2, <1>3, <1>4

(* The nodes the walk meets. *)
Met(h) == {j \in 0..size : Walk(h)[j] # NULL}

LEMMA MetFinite == ASSUME NEW h, size \in Nat PROVE IsFiniteSet(Met(h))
<1>1. Met(h) \subseteq 0..size /\ IsFiniteSet(0..size)
    BY FS_Interval DEF Met
<1>. QED  BY <1>1, FS_Subset

LEMMA ChainSeq ==
    ASSUME NEW h, size \in Nat
    PROVE  /\ Cardinality(Met(h)) \in Nat
           /\ Chain(h) = [k \in 1..Cardinality(Met(h)) |-> Walk(h)[k - 1]]
           /\ Len(Chain(h)) = Cardinality(Met(h))
           /\ \E X : Chain(h) \in Seq(X)
<1>. DEFINE W == Walk(h)
            n == Cardinality(Met(h))
<1>1. DOMAIN W = 0..size
    BY WalkDef
<1>2. n \in Nat
    BY MetFinite, FS_CardinalityType
<1>3. Chain(h) = [k \in 1..n |-> W[k - 1]]
    BY <1>1 DEF Chain, Met
<1>. HIDE DEF n, W
<1>. DEFINE X == {W[k - 1] : k \in 1..n}
<1>4. Chain(h) \in [1..n -> X]
    BY <1>3
<1>. HIDE DEF X
<1>5. Chain(h) \in Seq(X)
    BY <1>2, <1>4, SeqDef
<1>6. Len(Chain(h)) = n
    BY <1>2, <1>4, <1>5, LenProperties
<1>. QED  BY <1>2, <1>3, <1>5, <1>6 DEF n, W

(* Its chain begins with it ... *)
LEMMA ChainPrefix ==
    ASSUME NEW h, size \in Nat, NEW n \in Nat, n <= size, NEW t,
           n > 0 => t[1] = h,
           \A k \in 1..n : t[k] # NULL,
           \A k \in 1..(n - 1) : next[t[k]] = t[k + 1]
    PROVE  /\ Len(Chain(h)) \in Nat /\ Len(Chain(h)) >= n
           /\ DOMAIN Chain(h) = 1..Len(Chain(h))
           /\ \E X : Chain(h) \in Seq(X)
           /\ \A k \in 1..n : Chain(h)[k] = t[k]
<1>. DEFINE W == Walk(h)
            c == Cardinality(Met(h))
<1>1. \A k \in 1..n : W[k - 1] = t[k]
    BY WalkPrefix
<1>2. /\ c \in Nat /\ Chain(h) = [k \in 1..c |-> W[k - 1]]
      /\ Len(Chain(h)) = c /\ \E X : Chain(h) \in Seq(X)
    BY ChainSeq
<1>3. n <= c
  <2>1. 0..(n - 1) \subseteq Met(h)
    <3>. SUFFICES ASSUME NEW j \in 0..(n - 1) PROVE j \in 0..size /\ W[j] # NULL
        BY DEF Met
    <3>. HIDE DEF W
    <3>1. j + 1 \in 1..n /\ (j + 1) - 1 = j /\ j \in 0..size
        OBVIOUS
    <3>. QED  BY <3>1, <1>1
  <2>2. Cardinality(0..(n - 1)) = n
      BY FS_Interval
  <2>. QED  BY <2>1, <2>2, MetFinite, FS_Subset
<1>. HIDE DEF W, c
<1>4. \A k \in 1..n : Chain(h)[k] = t[k]
    BY <1>1, <1>2, <1>3
<1>. QED  BY <1>2, <1>3, <1>4

(* ... and is it, if it ends with NULL. *)
LEMMA ChainIs ==
    ASSUME NEW h, size \in Nat, NEW n \in Nat, n <= size, NEW t,
           n > 0 => t[1] = h,
           n = 0 => h = NULL,
           \A k \in 1..n : t[k] # NULL,
           \A k \in 1..(n - 1) : next[t[k]] = t[k + 1],
           n > 0 => next[t[n]] = NULL
    PROVE  Chain(h) = [k \in 1..n |-> t[k]]
<1>. DEFINE W == Walk(h)
            c == Cardinality(Met(h))
<1>0. W = [k \in 0..size |->
              IF k = 0 THEN h ELSE IF W[k - 1] = NULL THEN NULL ELSE next[W[k - 1]]]
    BY WalkDef
<1>1. \A k \in 1..n : W[k - 1] = t[k]
    BY WalkPrefix
<1>2. Chain(h) = [k \in 1..c |-> W[k - 1]]
    BY ChainSeq
<1>3. W[n] = NULL
  <2>. HIDE DEF W
  <2>1. CASE n = 0
      BY <2>1, <1>0
  <2>2. CASE n > 0
    <3>1. W[n - 1] = t[n] /\ t[n] # NULL
        BY <2>2, <1>1
    <3>. QED  BY <2>2, <1>0, <3>1
  <2>. QED  BY <2>1, <2>2
<1>4. \A k \in n..size : W[k] = NULL
    BY <1>3, WalkPast
<1>5. Met(h) = 0..(n - 1)
  <2>. HIDE DEF W
  <2>1. ASSUME NEW j \in 0..(n - 1) PROVE W[j] # NULL
    <3>1. j + 1 \in 1..n /\ (j + 1) - 1 = j
        OBVIOUS
    <3>. QED  BY <3>1, <1>1
  <2>2. ASSUME NEW j \in 0..size, W[j] # NULL PROVE j \in 0..(n - 1)
      BY <1>4, <2>2 DEF W
  <2>. QED  BY <2>1, <2>2 DEF Met, W
<1>6. c = n
    BY <1>5, FS_Interval
<1>. HIDE DEF W, c
<1>. QED  BY <1>1, <1>2, <1>6
-----------------------------------------------------------------------------
(* The inductive invariant, first half: s is the list, cut into the a merged *)
(* nodes, the rest of the left run and what follows from right.              *)
Perm(s) ==
    /\ s \in [1..size -> Nodes]
    /\ \A j, k \in 1..size : s[j] = s[k] => j = k
    /\ \A n \in Nodes : \E k \in 1..size : s[k] = n

At(s, k) == IF k \in 1..size THEN s[k] ELSE NULL
Link(s, k) == next[s[k]] = At(s, k + 1)

Typed ==
    /\ pc \in {"search", "call", "pass", "merges", "split", "merge", "done"}
    /\ cmp \in {IDX_CMP, DATA_CMP}
    /\ next \in [Nodes -> Nodes \cup {NULL}]
    /\ insize \in Nat \ {0} /\ nmerges \in Nat /\ lsize \in Nat /\ rsize \in Nat

Cut(s, a) ==
    /\ a \in 0..size
    /\ pc \in {"search", "call", "done"} => memblk = s[1]
    /\ pc = "pass" => list = s[1]
    /\ ~InPass => \A k \in 1..size : Link(s, k)
    /\ InPass =>
          /\ \A k \in 1..size : k # a /\ ~(pc = "merge" /\ k = a + lsize) => Link(s, k)
          /\ list = (IF a = 0 THEN NULL ELSE s[1])
          /\ ret = (IF a = 0 THEN NULL ELSE s[a])
    /\ pc = "merges" => left = At(s, a + 1)
    /\ pc \in {"split", "merge"} => a + lsize <= size /\ right = At(s, a + lsize + 1)
    /\ pc = "split" => a + 1 <= size /\ left = s[a + 1] /\ lsize <= insize
    /\ pc = "merge" /\ lsize > 0 => left = s[a + 1]

Shape(s, a) == Infos /\ Perm(s) /\ Typed /\ Cut(s, a)

(* The first node right of the left run goes before it. *)
Moved(s, a) ==
    [k \in 1..size |->
        IF k = a + 1 THEN s[a + lsize + 1]
        ELSE IF k \in (a + 2)..(a + lsize + 1) THEN s[k - 1]
        ELSE s[k]]

(* Most steps leave the links alone. *)
LEMMA Frame ==
    ASSUME UNCHANGED <<data, key>>
    PROVE  /\ size' = size /\ Nodes' = Nodes /\ (Infos => Infos')
           /\ \A s : Perm(s) => Perm(s)'
           /\ \A s, k : At(s, k)' = At(s, k)
           /\ next' = next => \A s, k : Link(s, k)' = Link(s, k)
<1>1. size' = size /\ Nodes' = Nodes
    BY DEF size, Nodes
<1>. QED  BY <1>1 DEF Infos, Perm, At, Link

LEMMA InitShape == ASSUME Init, Infos PROVE \E s : Shape(s, 0)
<1>. DEFINE t == [k \in 1..size |-> IF k = 1 THEN 0 ELSE size - k + 1]
<1>1. size \in Nat \ {0} /\ Nodes = 0..(size - 1)
    BY DEF Infos
<1>2. Perm(t)
  <2>1. t \in [1..size -> Nodes]
      BY <1>1
  <2>2. \A j, k \in 1..size : t[j] = t[k] => j = k
      BY <1>1
  <2>3. ASSUME NEW n \in Nodes PROVE \E k \in 1..size : t[k] = n
    <3>1. CASE n = 0
        BY <3>1, <1>1
    <3>2. CASE n # 0
      <4>1. size - n + 1 \in 1..size /\ t[size - n + 1] = n
          BY <3>2, <2>3, <1>1
      <4>. QED  BY <4>1
    <3>. QED  BY <3>1, <3>2
  <2>. QED  BY <2>1, <2>2, <2>3 DEF Perm
<1>3. /\ next = [n \in Nodes |-> IF n = 0 /\ 1 \in Nodes THEN size - 1
                                ELSE IF n <= 1 THEN NULL ELSE n - 1]
      /\ pc = "search" /\ cmp = DATA_CMP /\ memblk = 0
      /\ insize = 1 /\ nmerges = 0 /\ lsize = 0 /\ rsize = 0
    BY DEF Init, size
<1>4. next \in [Nodes -> Nodes \cup {NULL}]
    BY <1>1, <1>3
<1>5. Typed
    BY <1>3, <1>4 DEF Typed
<1>6. ASSUME NEW k \in 1..size PROVE Link(t, k)
  <2>1. CASE k = 1
    <3>1. next[0] = IF size > 1 THEN size - 1 ELSE NULL
        BY <1>1, <1>3
    <3>. QED  BY <2>1, <3>1, <1>1 DEF Link, At
  <2>2. CASE k # 1
    <3>1. t[k] = size - k + 1 /\ t[k] \in 1..(size - 1)
        BY <2>2, <1>6, <1>1
    <3>2. next[t[k]] = IF k = size THEN NULL ELSE size - k
        BY <3>1, <1>1, <1>3, <1>6
    <3>. QED  BY <2>2, <3>2, <1>1, <1>6 DEF Link, At
  <2>. QED  BY <2>1, <2>2
<1>7. Cut(t, 0)
  <2>1. memblk = t[1]
      BY <1>1, <1>3
  <2>. HIDE DEF t
  <2>. QED  BY <2>1, <1>1, <1>3, <1>6 DEF Cut, InPass
<1>. HIDE DEF t
<1>. QED  BY <1>2, <1>5, <1>7 DEF Shape

LEMMA SearchShape ==
    ASSUME NEW s, NEW a, Shape(s, a), SearchNode \/ SearchEnd PROVE Shape(s, a)'
<1>1. /\ UNCHANGED <<data, key, next, memblk, insize, nmerges, lsize, rsize>>
      /\ pc' \in {"search", "call"} /\ pc = "search"
      /\ cmp' \in {cmp, DATA_CMP}
    BY DEF SearchNode, SearchEnd, sorting
<1>2. Typed'
    BY <1>1, Frame DEF Typed, Shape, IDX_CMP, DATA_CMP, NULL
<1>3. Cut(s, a)'
    BY <1>1, Frame DEF Cut, Shape, InPass
<1>. QED  BY <1>1, <1>2, <1>3, Frame DEF Shape

LEMMA CallShape ==
    ASSUME NEW s, NEW a, Shape(s, a), Call PROVE Shape(s, a)'
<1>1. Typed'
    BY Frame DEF Call, Typed, Shape, IDX_CMP, DATA_CMP, NULL
<1>2. Cut(s, a)'
    BY Frame DEF Cut, Shape, InPass, Call
<1>. QED  BY <1>1, <1>2, Frame DEF Shape, Call

LEMMA BeginPassShape ==
    ASSUME NEW s, NEW a, Shape(s, a), BeginPass PROVE Shape(s, 0)'
<1>1. Typed'
    BY Frame DEF BeginPass, Typed, Shape, IDX_CMP, DATA_CMP, NULL
<1>2. Cut(s, 0)'
  <2>1. size \in Nat \ {0} /\ s[1] = At(s, 0 + 1)
      BY DEF Shape, Infos, At
  <2>. QED  BY <2>1, Frame DEF Cut, Shape, InPass, BeginPass, NULL
<1>. QED  BY <1>1, <1>2, Frame DEF Shape, BeginPass

LEMMA BeginMergeShape ==
    ASSUME NEW s, NEW a, Shape(s, a), BeginMerge PROVE Shape(s, a)'
<1>1. Typed'
    BY Frame DEF BeginMerge, Typed, Shape, IDX_CMP, DATA_CMP, NULL
<1>2. Cut(s, a)'
  <2>1. a + 1 \in 1..size /\ left = s[a + 1] /\ a \in 0..size /\ size \in Nat
      BY DEF BeginMerge, Shape, Cut, At, Infos
  <2>2. a + 0 + 1 = a + 1 /\ a + 0 <= size
      BY <2>1
  <2>. QED  BY <2>1, <2>2, Frame DEF Cut, Shape, InPass, BeginMerge, At, Typed
<1>. QED  BY <1>1, <1>2, Frame DEF Shape, BeginMerge

LEMMA SplitShape ==
    ASSUME NEW s, NEW a, Shape(s, a), Split PROVE Shape(s, a)'
<1>1. /\ lsize \in Nat /\ insize \in Nat /\ lsize < insize /\ a \in 0..size /\ size \in Nat
      /\ pc = "split" /\ lsize' = lsize + 1
    BY DEF Shape, Infos, Typed, Cut, Split
<1>2. Typed'
    BY <1>1, Frame DEF Split, Typed, Shape, IDX_CMP, DATA_CMP, NULL
<1>3. a + lsize + 1 \in 1..size /\ right = s[a + lsize + 1]
    BY <1>1 DEF Shape, Cut, Split, At
<1>4. Link(s, a + lsize + 1)
    BY <1>1, <1>3 DEF Shape, Cut, InPass
<1>5. right' = At(s, (a + lsize + 1) + 1)
    BY <1>3, <1>4 DEF Split, Link
<1>6. a + lsize' + 1 = (a + lsize + 1) + 1 /\ a + lsize' <= size
    BY <1>1, <1>3
<1>7. Cut(s, a)'
    BY <1>1, <1>5, <1>6, Frame DEF Cut, Shape, InPass, Split
<1>. QED  BY <1>2, <1>7, Frame DEF Shape, Split

LEMMA EndSplitShape ==
    ASSUME NEW s, NEW a, Shape(s, a), EndSplit PROVE Shape(s, a)'
<1>1. Typed'
    BY Frame DEF EndSplit, Typed, Shape, IDX_CMP, DATA_CMP, NULL
<1>2. Cut(s, a)'
    BY Frame DEF EndSplit, Cut, Shape, InPass
<1>. QED  BY <1>1, <1>2, Frame DEF Shape, EndSplit

(* Both ways to add a node to the new list, of the lists with (t) and        *)
(* without (s) the node moved. *)
LEMMA AddLinks ==
    ASSUME NEW s, NEW a, Shape(s, a), pc = "merge", NEW n \in Nodes, Add(n),
           UNCHANGED data
    PROVE  /\ next' \in [Nodes -> Nodes \cup {NULL}]
           /\ a > 0 => next'[s[a]] = n
           /\ \A k \in 1..size : k # a => next'[s[k]] = next[s[k]]
           /\ list' = IF a = 0 THEN n ELSE s[1]
           /\ ret' = n
<1>1. /\ a \in 0..size /\ size \in Nat \ {0} /\ Nodes = 0..(size - 1)
      /\ next \in [Nodes -> Nodes \cup {NULL}] /\ Perm(s)
      /\ list = (IF a = 0 THEN NULL ELSE s[1])
      /\ ret = (IF a = 0 THEN NULL ELSE s[a])
    BY DEF Shape, Cut, Infos, Typed, InPass
<1>2. CASE a = 0
    BY <1>1, <1>2 DEF Add
<1>3. CASE a # 0
  <2>1. a \in 1..size /\ s[a] \in Nodes /\ ret = s[a] /\ ret # NULL
      BY <1>1, <1>3 DEF Perm, NULL
  <2>2. next' = [next EXCEPT ![s[a]] = n] /\ list' = list /\ ret' = n
      BY <2>1 DEF Add
  <2>3. \A k \in 1..size : k # a => s[k] \in Nodes /\ s[k] # s[a]
      BY <1>1, <2>1 DEF Perm
  <2>. QED  BY <1>1, <1>3, <2>1, <2>2, <2>3
<1>. QED  BY <1>2, <1>3

LEMMA TakeLeftShape ==
    ASSUME NEW s, NEW a, Shape(s, a), TakeLeft PROVE Shape(s, a + 1)'
<1>1. /\ lsize \in Nat \ {0} /\ a \in 0..size /\ size \in Nat
      /\ pc = "merge" /\ pc' = "merge" /\ lsize' = lsize - 1 /\ UNCHANGED <<data, key>>
      /\ a + lsize <= size /\ left = s[a + 1]
    BY DEF Shape, Infos, Typed, Cut, TakeLeft, LeftEmpty
<1>2. /\ a + 1 \in 1..size /\ left \in Nodes /\ a + 1 + lsize' = a + lsize
      /\ a + 1 \in 0..size
    BY <1>1 DEF Shape, Perm
<1>3. /\ next' \in [Nodes -> Nodes \cup {NULL}]
      /\ a > 0 => next'[s[a]] = left
      /\ \A k \in 1..size : k # a => next'[s[k]] = next[s[k]]
      /\ list' = IF a = 0 THEN left ELSE s[1]
      /\ ret' = left
    BY <1>1, <1>2, AddLinks DEF TakeLeft
<1>4. Typed'
    BY <1>1, <1>3, Frame DEF TakeLeft, Typed, Shape, IDX_CMP, DATA_CMP, NULL
<1>5. ASSUME NEW k \in 1..size, k # a + 1, k # a + lsize PROVE Link(s, k)'
  <2>1. CASE k = a
      BY <2>1, <1>1, <1>2, <1>3, Frame DEF Link, At
  <2>2. CASE k # a
    <3>1. Link(s, k)
        BY <2>2, <1>5, <1>1 DEF Shape, Cut, InPass
    <3>. QED  BY <2>2, <3>1, <1>1, <1>3, Frame DEF Link
  <2>. QED  BY <2>1, <2>2
<1>6. lsize' > 0 => left' = s[(a + 1) + 1]
  <2>. SUFFICES ASSUME lsize' > 0 PROVE left' = s[(a + 1) + 1]
      OBVIOUS
  <2>1. a + 1 # a /\ a + 1 # a + lsize /\ (a + 1) + 1 \in 1..size
      BY <1>1
  <2>2. Link(s, a + 1)
      BY <2>1, <1>1, <1>2 DEF Shape, Cut, InPass
  <2>. QED  BY <2>1, <2>2, <1>1 DEF TakeLeft, Link, At
<1>7. right' = At(s, a + 1 + lsize' + 1)
    BY <1>1, <1>2 DEF TakeLeft, Shape, Cut
<1>8. list' = s[1] /\ ret' = s[a + 1] /\ a + 1 # 0
    BY <1>1, <1>3
<1>9. Cut(s, a + 1)'
    BY <1>1, <1>2, <1>5, <1>6, <1>7, <1>8, Frame DEF Cut, InPass
<1>. QED  BY <1>1, <1>4, <1>9, Frame DEF Shape

(* Moving a node to the front of the left run is a permutation. *)
LEMMA MovedFacts ==
    ASSUME NEW s, NEW a, Shape(s, a), pc = "merge", a + lsize + 1 <= size,
           NEW t, t = Moved(s, a)
    PROVE  /\ Perm(t)
           /\ t[a + 1] = s[a + lsize + 1]
           /\ \A k \in 1..size : k <= a \/ k > a + lsize + 1 => t[k] = s[k]
           /\ \A k \in (a + 2)..(a + lsize + 1) : t[k] = s[k - 1]
<1>1. lsize \in Nat /\ a \in 0..size /\ size \in Nat /\ Perm(s)
    BY DEF Shape, Infos, Typed, Cut
<1>. DEFINE src(k) == IF k = a + 1 THEN a + lsize + 1
                      ELSE IF k \in (a + 2)..(a + lsize + 1) THEN k - 1 ELSE k
<1>2. \A k \in 1..size : src(k) \in 1..size
    BY <1>1
<1>3. t = [k \in 1..size |-> s[src(k)]]
    BY DEF Moved
<1>4. \A j, k \in 1..size : src(j) = src(k) => j = k
    BY <1>1
<1>5. \A k \in 1..size : \E j \in 1..size : src(j) = k
  <2>. SUFFICES ASSUME NEW k \in 1..size PROVE \E j \in 1..size : src(j) = k
      OBVIOUS
  <2>1. CASE k = a + lsize + 1
    <3>1. src(a + 1) = k /\ a + 1 \in 1..size
        BY <1>1, <2>1
    <3>. QED  BY <3>1
  <2>2. CASE k \in (a + 1)..(a + lsize)
    <3>1. src(k + 1) = k /\ k + 1 \in 1..size
        BY <1>1, <2>2
    <3>. QED  BY <3>1
  <2>3. CASE k <= a \/ k > a + lsize + 1
    <3>1. src(k) = k
        BY <1>1, <2>3
    <3>. QED  BY <3>1
  <2>. QED  BY <2>1, <2>2, <2>3, <1>1
<1>6. Perm(t)
  <2>. HIDE DEF src
  <2>1. \A k \in 1..size : t[k] = s[src(k)] /\ s[src(k)] \in Nodes
      BY <1>1, <1>2, <1>3 DEF Perm
  <2>2. t \in [1..size -> Nodes]
      BY <1>3, <2>1
  <2>3. ASSUME NEW j \in 1..size, NEW k \in 1..size, t[j] = t[k] PROVE j = k
    <3>1. s[src(j)] = s[src(k)] /\ src(j) \in 1..size /\ src(k) \in 1..size
        BY <1>2, <2>1, <2>3
    <3>2. src(j) = src(k)
        BY <1>1, <3>1 DEF Perm
    <3>. QED  BY <1>4, <3>2
  <2>4. ASSUME NEW n \in Nodes PROVE \E j \in 1..size : t[j] = n
    <3>1. PICK k \in 1..size : s[k] = n
        BY <1>1 DEF Perm
    <3>2. PICK j \in 1..size : src(j) = k
        BY <1>5
    <3>. QED  BY <2>1, <3>1, <3>2
  <2>. QED  BY <2>2, <2>3, <2>4 DEF Perm
<1>7. t[a + 1] = s[a + lsize + 1]
    BY <1>1, <1>3
<1>8. \A k \in 1..size : k <= a \/ k > a + lsize + 1 => t[k] = s[k]
    BY <1>1, <1>3
<1>9. \A k \in (a + 2)..(a + lsize + 1) : t[k] = s[k - 1]
    BY <1>1, <1>3
<1>. QED  BY <1>6, <1>7, <1>8, <1>9

LEMMA TakeRightShape ==
    ASSUME NEW s, NEW a, Shape(s, a), TakeRight, NEW t, t = Moved(s, a)
    PROVE  Shape(t, a + 1)'
<1>1. /\ lsize \in Nat /\ rsize \in Nat \ {0} /\ a \in 0..size /\ size \in Nat
      /\ pc = "merge" /\ pc' = "merge" /\ lsize' = lsize /\ UNCHANGED <<data, key>>
      /\ a + lsize <= size /\ right # NULL /\ right = At(s, a + lsize + 1)
      /\ lsize > 0 => left = s[a + 1]
      /\ left' = left /\ rsize' = rsize - 1
    BY DEF Shape, Infos, Typed, Cut, TakeRight, RightEmpty
<1>2. a + lsize + 1 \in 1..size /\ right = s[a + lsize + 1] /\ right \in Nodes
    BY <1>1 DEF At, Shape, Perm
<1>3. /\ Perm(t) /\ t[a + 1] = right
      /\ \A k \in 1..size : k <= a \/ k > a + lsize + 1 => t[k] = s[k]
      /\ \A k \in (a + 2)..(a + lsize + 1) : t[k] = s[k - 1]
    BY <1>1, <1>2, MovedFacts
<1>4. /\ next' \in [Nodes -> Nodes \cup {NULL}]
      /\ a > 0 => next'[s[a]] = right
      /\ \A k \in 1..size : k # a => next'[s[k]] = next[s[k]]
      /\ list' = IF a = 0 THEN right ELSE s[1]
      /\ ret' = right
    BY <1>1, <1>2, AddLinks DEF TakeRight
<1>5. Typed'
    BY <1>1, <1>4, Frame DEF TakeRight, Typed, Shape, IDX_CMP, DATA_CMP, NULL
<1>6. \A k \in 1..size : k # a /\ k # a + lsize => Link(s, k)
    BY <1>1 DEF Shape, Cut, InPass
<1>7. ASSUME NEW k \in 1..size, k # a + 1, k # a + 1 + lsize PROVE Link(t, k)'
  <2>1. CASE k = a
      BY <2>1, <1>1, <1>2, <1>3, <1>4, Frame DEF Link, At
  <2>2. CASE k < a
    <3>1. Link(s, k) /\ t[k] = s[k] /\ t[k + 1] = s[k + 1] /\ k + 1 \in 1..size
        BY <2>2, <1>1, <1>3, <1>6
    <3>. QED  BY <2>2, <3>1, <1>1, <1>4, Frame DEF Link, At
  <2>3. CASE k > a + lsize + 1
    <3>1. Link(s, k) /\ t[k] = s[k]
        BY <2>3, <1>1, <1>3, <1>6
    <3>2. At(t, k + 1) = At(s, k + 1)
        BY <2>3, <1>1, <1>3 DEF At
    <3>. QED  BY <2>3, <3>1, <3>2, <1>1, <1>4, Frame DEF Link
  <2>4. CASE k \in (a + 2)..(a + lsize)
    <3>1. /\ k - 1 \in 1..size /\ k - 1 # a /\ k - 1 # a + lsize
          /\ k + 1 \in (a + 2)..(a + lsize + 1) /\ (k - 1) + 1 = k /\ (k + 1) - 1 = k
          /\ k + 1 \in 1..size
        BY <2>4, <1>1, <1>2
    <3>2. t[k] = s[k - 1] /\ t[k + 1] = s[k]
        BY <2>4, <3>1, <1>3, <1>1
    <3>3. Link(s, k - 1)
        BY <3>1, <1>6
    <3>. QED  BY <3>1, <3>2, <3>3, <1>1, <1>4, Frame DEF Link, At
  <2>. QED  BY <2>1, <2>2, <2>3, <2>4, <1>1, <1>7
<1>8. lsize > 0 => left' = t[(a + 1) + 1]
  <2>. SUFFICES ASSUME lsize > 0 PROVE left' = t[(a + 1) + 1]
      OBVIOUS
  <2>1. a + 2 \in (a + 2)..(a + lsize + 1) /\ (a + 2) - 1 = a + 1 /\ (a + 1) + 1 = a + 2
      BY <1>1
  <2>. QED  BY <2>1, <1>1, <1>3
<1>9. right' = At(t, a + 1 + lsize + 1)
  <2>1. Link(s, a + lsize + 1)
      BY <1>1, <1>2, <1>6
  <2>2. right' = At(s, (a + lsize + 1) + 1)
      BY <2>1, <1>2 DEF TakeRight, Link
  <2>3. At(t, (a + lsize + 1) + 1) = At(s, (a + lsize + 1) + 1)
      BY <1>1, <1>2, <1>3 DEF At
  <2>. QED  BY <2>2, <2>3, <1>1
<1>10. /\ list' = t[1] /\ ret' = t[a + 1] /\ a + 1 # 0 /\ a + 1 \in 0..size
       /\ a + 1 + lsize <= size
    BY <1>1, <1>2, <1>3, <1>4
<1>11. Cut(t, a + 1)'
    BY <1>1, <1>7, <1>8, <1>9, <1>10, Frame DEF Cut, InPass
<1>. QED  BY <1>1, <1>3, <1>5, <1>11, Frame DEF Shape

LEMMA EndMergeShape ==
    ASSUME NEW s, NEW a, Shape(s, a), EndMerge PROVE Shape(s, a)'
<1>1. /\ a \in 0..size /\ size \in Nat /\ pc = "merge" /\ lsize = 0
      /\ right = At(s, a + lsize + 1)
    BY DEF Shape, Infos, Cut, EndMerge, LeftEmpty
<1>2. a + lsize = a /\ right = At(s, a + 1)
    BY <1>1
<1>3. Typed'
    BY Frame DEF EndMerge, Typed, Shape, IDX_CMP, DATA_CMP, NULL
<1>4. Cut(s, a)'
    BY <1>1, <1>2, Frame DEF EndMerge, Cut, Shape, InPass
<1>. QED  BY <1>3, <1>4, Frame DEF Shape, EndMerge

(* The end of a pass closes the list. *)
LEMMA EndPassLinks ==
    ASSUME NEW s, NEW a, Shape(s, a), EndPass, UNCHANGED data
    PROVE  /\ a = size /\ list = s[1]
           /\ next' \in [Nodes -> Nodes \cup {NULL}]
           /\ \A k \in 1..size : Link(s, k)'
<1>1. /\ size \in Nat \ {0} /\ Nodes = 0..(size - 1) /\ a \in 0..size
      /\ pc = "merges" /\ left = NULL /\ left = At(s, a + 1)
      /\ list = (IF a = 0 THEN NULL ELSE s[1])
      /\ ret = (IF a = 0 THEN NULL ELSE s[a])
      /\ \A k \in 1..size : k # a => Link(s, k)
      /\ next \in [Nodes -> Nodes \cup {NULL}] /\ Perm(s)
    BY DEF Shape, Infos, Cut, Typed, InPass, EndPass
<1>2. a = size
  <2>. SUFFICES ASSUME a # size PROVE FALSE
      OBVIOUS
  <2>1. a + 1 \in 1..size
      BY <1>1
  <2>. QED  BY <2>1, <1>1 DEF At, Perm, NULL
<1>3. list = s[1] /\ ret = s[size] /\ size \in 1..size
    BY <1>1, <1>2
<1>4. next' = [next EXCEPT ![s[size]] = NULL]
    BY <1>3 DEF EndPass
<1>5. \A k \in 1..size : s[k] \in Nodes /\ (k # size => s[k] # s[size])
    BY <1>1, <1>3 DEF Perm
<1>6. next' \in [Nodes -> Nodes \cup {NULL}]
    BY <1>1, <1>4
<1>7. size' = size
    BY DEF size, Nodes
<1>8. ASSUME NEW k \in 1..size PROVE Link(s, k)'
  <2>1. At(s, k + 1)' = At(s, k + 1)
      BY <1>7 DEF At
  <2>2. CASE k = size
    <3>1. next'[s[k]] = NULL
        BY <2>2, <1>1, <1>4, <1>5
    <3>2. At(s, k + 1) = NULL
        BY <2>2, <1>1 DEF At
    <3>. QED  BY <2>1, <3>1, <3>2 DEF Link
  <2>3. CASE k # size
    <3>1. next'[s[k]] = next[s[k]]
        BY <2>3, <1>1, <1>4, <1>5
    <3>. QED  BY <2>1, <2>3, <3>1, <1>1, <1>2 DEF Link
  <2>. QED  BY <2>2, <2>3
<1>. QED  BY <1>2, <1>3, <1>6, <1>8

LEMMA NextPassShape ==
    ASSUME NEW s, NEW a, Shape(s, a), NextPass PROVE Shape(s, a)'
<1>1. /\ UNCHANGED <<data, key, list, nmerges, lsize, rsize, cmp>> /\ pc' = "pass"
      /\ insize' = 2 * insize
    BY DEF NextPass
<1>2. /\ a = size /\ list = s[1]
      /\ next' \in [Nodes -> Nodes \cup {NULL}]
      /\ \A k \in 1..size : Link(s, k)'
    BY <1>1, EndPassLinks DEF NextPass
<1>3. Typed'
    BY <1>1, <1>2, Frame DEF Typed, Shape, IDX_CMP, DATA_CMP, NULL
<1>4. Cut(s, a)'
    BY <1>1, <1>2, Frame DEF Cut, Shape, InPass
<1>. QED  BY <1>1, <1>3, <1>4, Frame DEF Shape

LEMMA ReturnShape ==
    ASSUME NEW s, NEW a, Shape(s, a), Return PROVE Shape(s, a)'
<1>1. /\ UNCHANGED <<data, key, list, insize, nmerges, lsize, rsize>>
      /\ pc' \in {"call", "search", "done"} /\ cmp' \in {cmp, IDX_CMP} /\ memblk' = list
    BY DEF Return, sorting
<1>2. /\ a = size /\ list = s[1]
      /\ next' \in [Nodes -> Nodes \cup {NULL}]
      /\ \A k \in 1..size : Link(s, k)'
    BY <1>1, EndPassLinks DEF Return
<1>3. Typed'
    BY <1>1, <1>2, Frame DEF Typed, Shape, IDX_CMP, DATA_CMP, NULL
<1>4. Cut(s, a)'
    BY <1>1, <1>2, Frame DEF Cut, Shape, InPass
<1>. QED  BY <1>1, <1>3, <1>4, Frame DEF Shape

LEMMA StutterShape ==
    ASSUME NEW s, NEW a, Shape(s, a), UNCHANGED vars PROVE Shape(s, a)'
<1>1. Typed'
    BY Frame DEF vars, sorting, Typed, Shape, IDX_CMP, DATA_CMP, NULL
<1>2. Cut(s, a)'
    BY Frame DEF vars, sorting, Cut, Shape, InPass
<1>. QED  BY <1>1, <1>2, Frame DEF Shape, vars

-----------------------------------------------------------------------------
(* While the links are rewritten, the three pieces are the list.             *)
LEMMA FcnIsSeq ==
    ASSUME NEW X, NEW n \in Nat, NEW f \in [1..n -> X]
    PROVE  f \in Seq(X) /\ Len(f) = n
<1>1. f \in Seq(X)
    BY SeqDef
<1>. QED  BY <1>1, LenProperties

LEMMA Concatenated ==
    ASSUME NEW X, NEW n \in Nat, NEW s \in [1..n -> X],
           NEW a \in Nat, NEW l \in Nat, a + l <= n,
           NEW p, p = [k \in 1..a |-> s[k]],
           NEW q, q = [k \in 1..l |-> s[a + k]],
           NEW r, r = [k \in 1..(n - a - l) |-> s[a + l + k]]
    PROVE  p \o q \o r = s
<1>1. p \in Seq(X) /\ Len(p) = a
  <2>1. p \in [1..a -> X]
      OBVIOUS
  <2>. QED  BY <2>1, FcnIsSeq
<1>2. q \in Seq(X) /\ Len(q) = l
  <2>1. q \in [1..l -> X]
      OBVIOUS
  <2>. QED  BY <2>1, FcnIsSeq
<1>3. r \in Seq(X) /\ Len(r) = n - a - l
  <2>. DEFINE d == n - a - l
  <2>1. r \in [1..d -> X] /\ d \in Nat
      OBVIOUS
  <2>. HIDE DEF d
  <2>2. r \in Seq(X) /\ Len(r) = d
      BY <2>1, FcnIsSeq
  <2>. QED  BY <2>2 DEF d
<1>4. s \in Seq(X) /\ Len(s) = n
    BY FcnIsSeq
<1>5. /\ p \o q \in Seq(X) /\ Len(p \o q) = a + l
      /\ \A k \in 1..(a + l) : (p \o q)[k] = IF k <= a THEN p[k] ELSE q[k - a]
    BY <1>1, <1>2, ConcatProperties
<1>6. /\ (p \o q) \o r \in Seq(X) /\ Len((p \o q) \o r) = n
      /\ \A k \in 1..n : ((p \o q) \o r)[k] =
            IF k <= a + l THEN (p \o q)[k] ELSE r[k - (a + l)]
  <2>. DEFINE pq == p \o q
  <2>1. pq \in Seq(X) /\ Len(pq) = a + l
      BY <1>5
  <2>. HIDE DEF pq
  <2>2. /\ pq \o r \in Seq(X) /\ Len(pq \o r) = Len(pq) + Len(r)
        /\ \A k \in 1..(Len(pq) + Len(r)) :
              (pq \o r)[k] = IF k <= Len(pq) THEN pq[k] ELSE r[k - Len(pq)]
      BY <1>3, <2>1, ConcatProperties
  <2>3. Len(pq) + Len(r) = n /\ Len(pq) = a + l
      BY <1>3, <2>1
  <2>. QED  BY <2>2, <2>3 DEF pq
<1>7. ASSUME NEW k \in 1..n PROVE (p \o q \o r)[k] = s[k]
  <2>1. CASE k <= a
      BY <2>1, <1>5, <1>6
  <2>2. CASE k > a /\ k <= a + l
      BY <2>2, <1>5, <1>6
  <2>3. CASE k > a + l
    <3>1. k - (a + l) \in 1..(n - a - l) /\ a + l + (k - (a + l)) = k
        BY <2>3
    <3>. QED  BY <2>3, <3>1, <1>6
  <2>. QED  BY <2>1, <2>2, <2>3
<1>. QED  BY <1>4, <1>6, <1>7, SeqEqual

LEMMA MergedIs ==
    ASSUME NEW s, NEW a, Shape(s, a), InPass
    PROVE  Merged = [k \in 1..a |-> s[k]]
<1>1. /\ size \in Nat /\ a \in 0..size /\ Perm(s)
      /\ list = (IF a = 0 THEN NULL ELSE s[1]) /\ ret = (IF a = 0 THEN NULL ELSE s[a])
      /\ \A k \in 1..(a - 1) : next[s[k]] = s[k + 1]
  <2>1. size \in Nat /\ a \in 0..size /\ lsize \in Nat
      BY DEF Shape, Infos, Cut, Typed
  <2>2. \A k \in 1..(a - 1) : k \in 1..size /\ k # a /\ k # a + lsize /\ k + 1 \in 1..size
      BY <2>1
  <2>3. \A k \in 1..(a - 1) : next[s[k]] = s[k + 1]
      BY <2>2 DEF Shape, Cut, Link, At
  <2>. QED  BY <2>1, <2>3 DEF Shape, Cut
<1>2. CASE a = 0
    BY <1>1, <1>2 DEF Merged
<1>3. CASE a # 0
  <2>. DEFINE c == Chain(list)
              First(k) == c[k] = ret /\ \A j \in 1..(k - 1) : c[j] # ret
              last == CHOOSE k \in DOMAIN c : First(k)
  <2>1. \A k \in 1..size : s[k] # NULL /\ s[k] \in Nodes
      BY <1>1 DEF Perm, Shape, Infos, NULL
  <2>2. /\ Len(c) \in Nat /\ Len(c) >= a /\ DOMAIN c = 1..Len(c)
        /\ \A k \in 1..a : c[k] = s[k]
    <3>1. a \in Nat /\ a <= size /\ list = s[1]
          /\ (\A k \in 1..a : s[k] # NULL)
        BY <1>1, <1>3, <2>1
    <3>. QED  BY <1>1, <3>1, ChainPrefix
  <2>. HIDE DEF c
  <2>3. ret = s[a] /\ a \in 1..size /\ ret # NULL
      BY <1>1, <1>3, <2>1
  <2>4. First(a)
      BY <1>1, <2>2, <2>3 DEF Perm
  <2>5. ASSUME NEW k \in DOMAIN c, First(k) PROVE k = a
    <3>1. ~(k > a)
        BY <2>2, <2>3, <2>5
    <3>2. k <= a
        BY <2>2, <2>3, <3>1
    <3>. QED  BY <1>1, <2>2, <2>3, <2>5, <3>2 DEF Perm
  <2>6. last = a
      BY <2>2, <2>3, <2>4, <2>5
  <2>7. Merged = SubSeq(c, 1, last)
      BY <2>3, Zenon DEF Merged, c
  <2>. HIDE DEF last
  <2>8. \A k \in 1..a : c[k] \in Nodes
      BY <1>1, <2>1, <2>2
  <2>9. /\ SubSeq(c, 1, a) \in Seq(Nodes) /\ Len(SubSeq(c, 1, a)) = a
        /\ \A k \in 1..a : SubSeq(c, 1, a)[k] = s[k]
      BY <1>1, <1>3, <2>2, <2>8, SubSeqProperties
  <2>. QED  BY <2>6, <2>7, <2>9, LenProperties
<1>. QED  BY <1>2, <1>3

LEMMA LeftRunIs ==
    ASSUME NEW s, NEW a, Shape(s, a), pc \in {"split", "merge"}
    PROVE  LeftRun = [k \in 1..lsize |-> s[a + k]]
<1>1. /\ size \in Nat /\ a \in 0..size /\ lsize \in Nat /\ a + lsize <= size /\ Perm(s)
      /\ lsize > 0 => left = s[a + 1]
      /\ \A k \in 1..size : k # a /\ k # a + lsize => Link(s, k)
    BY DEF Shape, Infos, Cut, Typed, InPass
<1>2. CASE lsize = 0
    BY <1>1, <1>2 DEF LeftRun
<1>3. CASE lsize # 0
  <2>. DEFINE c == Chain(left)
              t == [k \in 1..lsize |-> s[a + k]]
  <2>1. \A k \in 1..lsize : a + k \in 1..size /\ t[k] = s[a + k] /\ t[k] # NULL /\ t[k] \in Nodes
      BY SMTT(30), <1>1 DEF Perm, Shape, Infos, NULL
  <2>2. ASSUME NEW k \in 1..(lsize - 1) PROVE next[t[k]] = t[k + 1]
    <3>1. /\ a + k \in 1..size /\ a + k # a /\ a + k # a + lsize
          /\ (a + k) + 1 \in 1..size /\ k + 1 \in 1..lsize /\ k \in 1..lsize
          /\ a + (k + 1) = (a + k) + 1
        BY <1>1
    <3>2. Link(s, a + k)
        BY <1>1, <3>1
    <3>. QED  BY <3>1, <3>2 DEF Link, At
  <2>3. t[1] = left
      BY <1>1, <1>3, <2>1
  <2>4. lsize <= size
      BY <1>1
  <2>. HIDE DEF t
  <2>5. /\ Len(c) \in Nat /\ Len(c) >= lsize /\ DOMAIN c = 1..Len(c)
        /\ \A k \in 1..lsize : c[k] = t[k]
    <3>1. \A k \in 1..lsize : t[k] # NULL
        BY <2>1
    <3>. QED  BY <1>1, <2>2, <2>3, <2>4, <3>1, ChainPrefix
  <2>6. LeftRun = SubSeq(c, 1, lsize)
      BY <1>3 DEF LeftRun
  <2>. HIDE DEF c
  <2>7. \A k \in 1..lsize : c[k] \in Nodes
      BY <2>1, <2>5
  <2>8. /\ SubSeq(c, 1, lsize) \in Seq(Nodes) /\ Len(SubSeq(c, 1, lsize)) = lsize
        /\ \A k \in 1..lsize : SubSeq(c, 1, lsize)[k] = t[k]
      BY <1>1, <1>3, <2>5, <2>7, SubSeqProperties
  <2>. QED  BY <2>6, <2>8, LenProperties DEF t
<1>. QED  BY <1>2, <1>3

(* What begins at the node after the first b is the rest of the list. *)
LEMMA RestIs ==
    ASSUME NEW s, size \in Nat, Perm(s), NULL \notin Nodes, NEW b \in 0..size,
           \A k \in 1..size : k > b => Link(s, k)
    PROVE  Chain(At(s, b + 1)) = [k \in 1..(size - b) |-> s[b + k]]
<1>. DEFINE n == size - b
            t == [k \in 1..n |-> s[b + k]]
            h == At(s, b + 1)
<1>1. n \in Nat /\ n <= size
    OBVIOUS
<1>2. \A k \in 1..n : b + k \in 1..size /\ b + k > b /\ t[k] = s[b + k] /\ t[k] # NULL
    BY DEF Perm
<1>3. n > 0 => t[1] = h
    BY <1>2 DEF At
<1>4. n = 0 => h = NULL
    BY DEF At
<1>5. ASSUME NEW k \in 1..(n - 1) PROVE next[t[k]] = t[k + 1]
  <2>1. /\ k \in 1..n /\ k + 1 \in 1..n /\ b + (k + 1) = (b + k) + 1
        /\ (b + k) + 1 \in 1..size
      OBVIOUS
  <2>. QED  BY <1>2, <2>1 DEF Link, At
<1>6. n > 0 => next[t[n]] = NULL
  <2>. SUFFICES ASSUME n > 0 PROVE next[t[n]] = NULL
      OBVIOUS
  <2>1. n \in 1..n /\ b + n = size /\ size \in 1..size /\ size > b
      OBVIOUS
  <2>2. t[n] = s[size]
      BY <1>2, <2>1
  <2>. QED  BY <2>1, <2>2 DEF Link, At
<1>. HIDE DEF n, t, h
<1>7. Chain(h) = [k \in 1..n |-> t[k]]
    BY <1>1, <1>2, <1>3, <1>4, <1>5, <1>6, ChainIs
<1>. QED  BY <1>7 DEF n, t, h

LEMMA WholeChain ==
    ASSUME NEW s, size \in Nat \ {0}, Perm(s), NULL \notin Nodes,
           \A k \in 1..size : Link(s, k)
    PROVE  Chain(s[1]) = s
<1>1. Chain(At(s, 0 + 1)) = [k \in 1..(size - 0) |-> s[0 + k]]
  <2>1. 0 \in 0..size /\ size \in Nat /\ \A k \in 1..size : k > 0 => Link(s, k)
      OBVIOUS
  <2>. QED  BY <2>1, RestIs
<1>2. At(s, 0 + 1) = s[1]
    BY DEF At
<1>3. [k \in 1..(size - 0) |-> s[0 + k]] = s
    BY DEF Perm
<1>. QED  BY <1>1, <1>2, <1>3

LEMMA NoNodeLostIfShape ==
    ASSUME NEW s, NEW a, Shape(s, a)
    PROVE  NoNodeLost
<1>. SUFFICES ASSUME InPass PROVE NoNodeLost
    BY DEF NoNodeLost
<1>. DEFINE l == IF pc = "merges" THEN 0 ELSE lsize
            rest == IF pc = "merges" THEN left ELSE right
            run == IF pc = "merges" THEN <<>> ELSE LeftRun
<1>1. /\ size \in Nat /\ a \in 0..size /\ lsize \in Nat /\ Perm(s) /\ NULL \notin Nodes
    BY DEF Shape, Infos, Cut, Typed, NULL
<1>2. l \in Nat /\ a + l <= size /\ a + l \in 0..size
    BY <1>1 DEF Shape, Cut, InPass
<1>3. rest = At(s, (a + l) + 1)
    BY <1>1 DEF Shape, Cut, InPass
<1>4. ASSUME NEW k \in 1..size, k > a + l PROVE Link(s, k)
    BY <1>1, <1>4 DEF Shape, Cut, InPass
<1>5. run = [k \in 1..l |-> s[a + k]]
  <2>1. CASE pc = "merges"
      BY <2>1
  <2>2. CASE pc # "merges"
    <3>1. LeftRun = [k \in 1..lsize |-> s[a + k]]
        BY <2>2, LeftRunIs DEF InPass
    <3>. QED  BY <2>2, <3>1
  <2>. QED  BY <2>1, <2>2
<1>. HIDE DEF l, rest, run
<1>6. Chain(rest) = [k \in 1..(size - a - l) |-> s[a + l + k]]
  <2>1. Chain(rest) = [k \in 1..(size - (a + l)) |-> s[(a + l) + k]]
      BY <1>1, <1>2, <1>3, <1>4, RestIs
  <2>2. size - (a + l) = size - a - l
      BY <1>1, <1>2
  <2>. QED  BY <2>1, <2>2
<1>7. Merged = [k \in 1..a |-> s[k]]
    BY MergedIs
<1>8. Merged \o run \o Chain(rest) = s
  <2>1. s \in [1..size -> Nodes]
      BY <1>1 DEF Perm
  <2>. QED  BY <1>1, <1>2, <1>5, <1>6, <1>7, <2>1, Concatenated
<1>9. ToSet(s) = Nodes /\ Len(s) = size
  <2>1. s \in [1..size -> Nodes] /\ \A n \in Nodes : \E k \in 1..size : s[k] = n
      BY <1>1 DEF Perm
  <2>2. s \in Seq(Nodes) /\ Len(s) = size
      BY <1>1, <2>1, FcnIsSeq
  <2>. QED  BY <2>1, <2>2 DEF ToSet
<1>. QED  BY <1>8, <1>9, Zenon DEF NoNodeLost, rest, run, size

-----------------------------------------------------------------------------
(* The order of data is total. *)
LEMMA LessTotal ==
    ASSUME NEW w \in Nat, NEW d \in [1..w -> Int], NEW e \in [1..w -> Int]
    PROVE  /\ Less(d, e) \/ d = e \/ Less(e, d)
           /\ ~(Less(d, e) /\ Less(e, d))
           /\ ~Less(d, d)
<1>1. Less(d, e) \/ d = e \/ Less(e, d)
  <2>. SUFFICES ASSUME d # e PROVE Less(d, e) \/ Less(e, d)
      OBVIOUS
  <2>. DEFINE S == {l \in 1..w : d[l] # e[l]}
  <2>1. S \in SUBSET Nat /\ S # {}
      OBVIOUS
  <2>2. PICK l \in S : \A k \in S : l <= k
    <3>. HIDE DEF S
    <3>. QED  BY <2>1, Least
  <2>3. \A k \in 1..(l - 1) : d[k] = e[k]
      BY <2>2
  <2>4. d[l] < e[l] \/ e[l] < d[l]
      OBVIOUS
  <2>. QED  BY <2>3, <2>4 DEF Less
<1>2. ASSUME Less(d, e), Less(e, d) PROVE FALSE
  <2>1. PICK l \in 1..w : d[l] < e[l] /\ \A k \in 1..(l - 1) : d[k] = e[k]
      BY <1>2 DEF Less
  <2>2. PICK m \in 1..w : e[m] < d[m] /\ \A k \in 1..(m - 1) : d[k] = e[k]
      BY <1>2 DEF Less
  <2>. QED  BY <2>1, <2>2
<1>3. ~Less(d, d)
    BY DEF Less
<1>. QED  BY <1>1, <1>2, <1>3

LEMMA LessTransitive ==
    ASSUME NEW w \in Nat, NEW d \in [1..w -> Int], NEW e \in [1..w -> Int],
           NEW f \in [1..w -> Int], Less(d, e), Less(e, f)
    PROVE  Less(d, f)
<1>1. PICK l \in 1..w : d[l] < e[l] /\ \A k \in 1..(l - 1) : d[k] = e[k]
    BY DEF Less
<1>2. PICK m \in 1..w : e[m] < f[m] /\ \A k \in 1..(m - 1) : e[k] = f[k]
    BY DEF Less
<1>3. CASE l <= m
  <2>1. d[l] < f[l]
      BY <1>1, <1>2, <1>3
  <2>2. \A k \in 1..(l - 1) : d[k] = f[k]
      BY <1>1, <1>2, <1>3
  <2>. QED  BY <2>1, <2>2 DEF Less
<1>4. CASE m < l
  <2>1. d[m] < f[m]
      BY <1>1, <1>2, <1>4
  <2>2. \A k \in 1..(m - 1) : d[k] = f[k]
      BY <1>1, <1>2, <1>4
  <2>. QED  BY <2>1, <2>2 DEF Less
<1>. QED  BY <1>3, <1>4

(* cmp_idx_value compares: each pair one way or the other, transitively.     *)
Lt(x, y) == cmp_idx_value(x, y) < 0
Eq(x, y) == cmp_idx_value(x, y) = 0
Le(x, y) == Lt(x, y) \/ Eq(x, y)

LEMMA Compares ==
    ASSUME Infos, Typed, NEW x \in Nodes, NEW y \in Nodes
    PROVE  /\ cmp_idx_value(x, y) \in {-1, 0, 1}
           /\ cmp = DATA_CMP => (Lt(x, y) <=> Less(data[x], data[y]))
           /\ cmp = DATA_CMP => (Eq(x, y) <=> data[x] = data[y])
           /\ cmp = IDX_CMP => (Lt(x, y) <=> x < y)
           /\ cmp = IDX_CMP => (Eq(x, y) <=> x = y)
           /\ Lt(x, y) \/ Eq(x, y) \/ Lt(y, x)
           /\ ~(Lt(x, y) /\ Lt(y, x))
           /\ Eq(x, y) <=> Eq(y, x)
           /\ ~(Lt(x, y) /\ Eq(y, x))
<1>1. PICK w \in Nat : data \in [Nodes -> [1..w -> Int]]
    BY DEF Infos
<1>2. data[x] \in [1..w -> Int] /\ data[y] \in [1..w -> Int]
    BY <1>1
<1>3. CASE cmp = DATA_CMP
  <2>1. /\ cmp_idx_value(x, y) = CmpData(data[x], data[y])
        /\ cmp_idx_value(y, x) = CmpData(data[y], data[x])
      BY <1>3 DEF cmp_idx_value
  <2>2. /\ Less(data[x], data[y]) \/ data[x] = data[y] \/ Less(data[y], data[x])
        /\ ~(Less(data[x], data[y]) /\ Less(data[y], data[x]))
        /\ ~Less(data[x], data[x])
      BY <1>2, LessTotal
  <2>. QED  BY <1>3, <2>1, <2>2 DEF CmpData, Lt, Eq, DATA_CMP, IDX_CMP
<1>4. CASE cmp = IDX_CMP
    BY <1>4 DEF cmp_idx_value, CmpIdx, Lt, Eq, DATA_CMP, IDX_CMP, Infos
<1>. QED  BY <1>3, <1>4 DEF Typed

LEMMA ComparesTransitively ==
    ASSUME Infos, Typed, NEW x \in Nodes, NEW y \in Nodes, NEW z \in Nodes,
           Le(x, y), Le(y, z)
    PROVE  /\ Le(x, z)
           /\ Lt(x, y) \/ Lt(y, z) => Lt(x, z)
<1>1. PICK w \in Nat : data \in [Nodes -> [1..w -> Int]]
    BY DEF Infos
<1>2. /\ data[x] \in [1..w -> Int] /\ data[y] \in [1..w -> Int]
      /\ data[z] \in [1..w -> Int]
    BY <1>1
<1>3. CASE cmp = DATA_CMP
  <2>1. Less(data[x], data[y]) /\ Less(data[y], data[z]) => Less(data[x], data[z])
      BY <1>2, LessTransitive
  <2>2. \A u, v \in Nodes : /\ Lt(u, v) <=> Less(data[u], data[v])
                            /\ Eq(u, v) <=> data[u] = data[v]
    <3>. SUFFICES ASSUME NEW u \in Nodes, NEW v \in Nodes
                  PROVE  /\ Lt(u, v) <=> Less(data[u], data[v])
                         /\ Eq(u, v) <=> data[u] = data[v]
        OBVIOUS
    <3>. QED  BY <1>3, Compares
  <2>. QED  BY <2>1, <2>2 DEF Le
<1>4. CASE cmp = IDX_CMP
  <2>1. \A u, v \in Nodes : (Lt(u, v) <=> u < v) /\ (Eq(u, v) <=> u = v)
    <3>. SUFFICES ASSUME NEW u \in Nodes, NEW v \in Nodes
                  PROVE  (Lt(u, v) <=> u < v) /\ (Eq(u, v) <=> u = v)
        OBVIOUS
    <3>. QED  BY <1>4, Compares
  <2>. QED  BY <2>1 DEF Le, Infos
<1>. QED  BY <1>3, <1>4 DEF Typed

-----------------------------------------------------------------------------
(* The inductive invariant, second half: nodes that compare equal are as     *)
(* they were when the sort was called, the merged nodes are runs of 2*insize,*)
(* the nodes to come runs of insize.  While two runs are merged, only what   *)
(* is left of the left run may be out of order with what is left of the      *)
(* right one.                                                                *)
WasBefore(x, y) ==
    \E p, q \in DOMAIN was : p < q /\ was[p] = x /\ was[q] = y

Stable(s) == \A j, k \in 1..size : j < k /\ Eq(s[j], s[k]) => WasBefore(s[j], s[k])

(* Between lo and hi, every run of w nodes is in order. *)
Runs(s, w, lo, hi) ==
    \A q \in Nat : \A j, k \in (lo + 1)..hi :
        j < k /\ w * q < j /\ k <= w * q + w => Le(s[j], s[k])

Merging(s, a, b, e) ==
    \A j, k \in (b + 1)..size :
        j < k /\ k <= e /\ ~(a < j /\ j <= a + lsize /\ a + lsize < k) => Le(s[j], s[k])

Double == 2 * insize
Base == Double * (nmerges - 1)

Order1(s, a) ==
    /\ pc = "pass" => Runs(s, insize, 0, size)
    /\ pc \in {"merges", "split"} => Runs(s, Double, 0, a) /\ Runs(s, insize, a, size)
    /\ pc = "merges" => a <= Double * nmerges /\ (a = size \/ a = Double * nmerges)
    /\ pc = "split" => nmerges >= 1 /\ a = Base
    /\ pc = "merge" =>
          /\ nmerges >= 1 /\ Base <= a
          /\ \/ a + lsize + rsize = Base + Double
             \/ a + lsize = size /\ a + lsize <= Base + Double
          /\ Runs(s, Double, 0, Base) /\ Runs(s, insize, Base + Double, size)
          /\ Merging(s, a, Base, Base + Double)

InSort == pc \in {"pass", "merges", "split", "merge"}

Ordered(s, a) == InSort => Perm(was) /\ Stable(s) /\ Order1(s, a)

LEMMA OrderFrame ==
    ASSUME UNCHANGED <<data, key, cmp>>
    PROVE  /\ \A x, y : (Lt(x, y)' <=> Lt(x, y)) /\ (Eq(x, y)' <=> Eq(x, y)) /\ (Le(x, y)' <=> Le(x, y))
           /\ \A s, w, lo, hi : Runs(s, w, lo, hi)' <=> Runs(s, w, lo, hi)
           /\ was' = was => \A s : Stable(s)' <=> Stable(s)
<1>1. \A x, y : cmp_idx_value(x, y)' = cmp_idx_value(x, y)
    BY DEF cmp_idx_value
<1>2. \A x, y : (Lt(x, y)' <=> Lt(x, y)) /\ (Eq(x, y)' <=> Eq(x, y)) /\ (Le(x, y)' <=> Le(x, y))
    BY <1>1 DEF Lt, Eq, Le
<1>3. size' = size
    BY DEF size, Nodes
<1>. QED  BY <1>2, <1>3 DEF Runs, Stable, WasBefore

LEMMA CallOrdered ==
    ASSUME NEW s, NEW a, Shape(s, a), Call PROVE Ordered(s, a)'
<1>1. /\ size \in Nat \ {0} /\ Perm(s) /\ NULL \notin Nodes /\ memblk = s[1]
      /\ \A k \in 1..size : Link(s, k)
    BY DEF Shape, Infos, Cut, Call, InPass, NULL
<1>2. UNCHANGED <<data, key, cmp>> /\ pc' = "pass" /\ insize' = 1
    BY DEF Call
<1>3. was' = s
    BY <1>1, WholeChain DEF Call
<1>4. Perm(was)'
    BY <1>1, <1>2, <1>3, Frame
<1>5. size' = size
    BY <1>2, Frame
<1>6. Stable(s)'
    BY <1>1, <1>3, <1>5 DEF Stable, WasBefore, Perm
<1>7. Runs(s, 1, 0, size)'
    BY <1>1, <1>5 DEF Runs
<1>. QED  BY <1>2, <1>4, <1>6, <1>7 DEF Ordered, Order1, InSort

LEMMA BeginPassOrdered ==
    ASSUME NEW s, NEW a, Shape(s, a), Ordered(s, a), BeginPass PROVE Ordered(s, 0)'
<1>1. /\ UNCHANGED <<data, key, cmp, was, insize>> /\ pc = "pass" /\ pc' = "merges"
      /\ nmerges' = 0 /\ insize \in Nat \ {0} /\ size \in Nat
    BY DEF BeginPass, Shape, Infos, Typed
<1>2. size' = size /\ Double' = Double /\ Double \in Nat
    BY <1>1, Frame DEF Double
<1>3. Perm(was)' /\ Stable(s)'
    BY <1>1, Frame, OrderFrame DEF Ordered, InSort
<1>4. Runs(s, Double, 0, 0)'
    BY DEF Runs
<1>5. Runs(s, insize, 0, size)'
    BY <1>1, <1>2, OrderFrame DEF Ordered, InSort, Order1
<1>6. 0 <= Double' * nmerges' /\ 0 = Double' * nmerges'
    BY <1>1, <1>2
<1>. QED  BY <1>1, <1>3, <1>4, <1>5, <1>6 DEF Ordered, Order1

LEMMA BeginMergeOrdered ==
    ASSUME NEW s, NEW a, Shape(s, a), Ordered(s, a), BeginMerge PROVE Ordered(s, a)'
<1>1. /\ UNCHANGED <<data, key, cmp, was, insize>> /\ pc = "merges" /\ pc' = "split"
      /\ nmerges \in Nat /\ nmerges' = nmerges + 1 /\ insize \in Nat \ {0} /\ size \in Nat
      /\ a \in 0..size
    BY DEF BeginMerge, Shape, Infos, Typed, Cut
<1>2. size' = size /\ Double' = Double /\ Double \in Nat
    BY <1>1, Frame DEF Double
<1>3. Perm(was)' /\ Stable(s)'
    BY <1>1, Frame, OrderFrame DEF Ordered, InSort
<1>4. a # size
    BY <1>1 DEF BeginMerge, Shape, Cut, At
<1>5. a = Double * nmerges
    BY <1>1, <1>4 DEF Ordered, InSort, Order1
<1>6. Base' = a /\ nmerges' >= 1
    BY <1>1, <1>2, <1>5 DEF Base
<1>7. Runs(s, Double, 0, a)' /\ Runs(s, insize, a, size)'
    BY <1>1, <1>2, OrderFrame DEF Ordered, InSort, Order1
<1>. QED  BY <1>1, <1>3, <1>6, <1>7 DEF Ordered, Order1

LEMMA SplitOrdered ==
    ASSUME NEW s, NEW a, Shape(s, a), Ordered(s, a), Split PROVE Ordered(s, a)'
<1>1. UNCHANGED <<data, key, cmp, was, insize, nmerges, pc>> /\ pc = "split"
    BY DEF Split
<1>2. size' = size /\ Double' = Double /\ Base' = Base
    BY <1>1, Frame DEF Double, Base
<1>3. Perm(was)' /\ Stable(s)'
    BY <1>1, Frame, OrderFrame DEF Ordered, InSort
<1>4. Runs(s, Double, 0, a)' /\ Runs(s, insize, a, size)'
    BY <1>1, <1>2, OrderFrame DEF Ordered, InSort, Order1
<1>. QED  BY <1>1, <1>2, <1>3, <1>4 DEF Ordered, InSort, Order1

LEMMA EndSplitOrdered ==
    ASSUME NEW s, NEW a, Shape(s, a), Ordered(s, a), EndSplit PROVE Ordered(s, a)'
<1>1. /\ UNCHANGED <<data, key, cmp, was, insize, nmerges, lsize>>
      /\ pc = "split" /\ pc' = "merge" /\ rsize' = insize
      /\ insize \in Nat \ {0} /\ nmerges \in Nat \ {0} /\ lsize \in Nat /\ size \in Nat
      /\ a \in 0..size /\ a = Base /\ a + lsize <= size /\ lsize <= insize
      /\ Runs(s, Double, 0, a) /\ Runs(s, insize, a, size)
    BY DEF EndSplit, Shape, Infos, Typed, Cut, Ordered, InSort, Order1
<1>2. size' = size /\ Double' = Double /\ Base' = Base /\ Double = insize + insize
    BY <1>1, Frame DEF Double, Base
<1>3. Perm(was)' /\ Stable(s)'
    BY <1>1, Frame, OrderFrame DEF Ordered, InSort
<1>4. lsize = insize \/ a + lsize = size
  <2>. SUFFICES ASSUME right = NULL PROVE a + lsize = size
      BY DEF EndSplit
  <2>1. right = At(s, a + lsize + 1)
      BY <1>1 DEF Shape, Cut
  <2>2. a + lsize + 1 \notin 1..size
      BY <2>1 DEF At, Shape, Perm, Infos, NULL
  <2>. QED  BY <1>1, <2>2
<1>5. \/ a + lsize + insize = Base + Double
      \/ a + lsize = size /\ a + lsize <= Base + Double
    BY <1>1, <1>2, <1>4
<1>6. Runs(s, insize, Base + Double, size)
  <2>. \A j \in (Base + Double + 1)..size : j \in (a + 1)..size
      BY <1>1, <1>2
  <2>. QED  BY <1>1 DEF Runs
<1>7. Merging(s, a, a, a + Double)
  <2>. SUFFICES ASSUME NEW j \in (a + 1)..size, NEW k \in (a + 1)..size,
                       j < k, k <= a + Double, ~(j <= a + lsize /\ a + lsize < k)
                PROVE  Le(s[j], s[k])
      BY <1>1 DEF Merging
  <2>1. \E q \in Nat : insize * q = a
    <3>1. a = (2 * insize) * (nmerges - 1)
        BY <1>1 DEF Base, Double
    <3>2. insize * (2 * (nmerges - 1)) = (2 * insize) * (nmerges - 1)
        BY <1>1
    <3>3. 2 * (nmerges - 1) \in Nat
        BY <1>1
    <3>. QED  BY <3>1, <3>2, <3>3
  <2>2. PICK q \in Nat : insize * q = a
      BY <2>1
  <2>3. insize * (q + 1) = a + insize /\ q + 1 \in Nat
      BY <1>1, <2>2
  <2>4. CASE k <= a + lsize
    <3>1. insize * q < j /\ k <= insize * q + insize
        BY <1>1, <2>2, <2>4
    <3>. QED  BY <1>1, <3>1 DEF Runs
  <2>5. CASE j > a + lsize
    <3>1. lsize = insize
        BY <1>1, <1>4, <2>5
    <3>2. insize * (q + 1) < j /\ k <= insize * (q + 1) + insize
        BY <1>1, <1>2, <2>3, <2>5, <3>1
    <3>. QED  BY <1>1, <2>3, <3>2 DEF Runs
  <2>. QED  BY <2>4, <2>5, <1>1
<1>8. Merging(s, a, Base, Base + Double)'
    BY <1>1, <1>2, <1>7, OrderFrame DEF Merging
<1>9. Runs(s, Double, 0, Base)' /\ Runs(s, insize, Base + Double, size)'
    BY <1>1, <1>2, <1>6, OrderFrame
<1>. QED  BY <1>1, <1>2, <1>3, <1>5, <1>8, <1>9 DEF Ordered, Order1

(* What is known while two runs are merged. *)
LEMMA MergeFacts ==
    ASSUME NEW s, NEW a, Shape(s, a), Ordered(s, a), pc = "merge"
    PROVE  /\ size \in Nat /\ a \in 0..size /\ lsize \in Nat /\ rsize \in Nat
           /\ insize \in Nat \ {0} /\ nmerges \in Nat \ {0}
           /\ Double \in Nat \ {0} /\ Base \in Nat /\ Base <= a /\ a + lsize <= size
           /\ \/ a + lsize + rsize = Base + Double
              \/ a + lsize = size /\ a + lsize <= Base + Double
           /\ Runs(s, Double, 0, Base) /\ Runs(s, insize, Base + Double, size)
           /\ Merging(s, a, Base, Base + Double)
           /\ Perm(was) /\ Stable(s)
           /\ \A k \in 1..size : s[k] \in Nodes
           /\ RightEmpty => rsize = 0 \/ a + lsize = size
           /\ ~RightEmpty => /\ a + lsize + 1 <= size /\ right = s[a + lsize + 1]
                             /\ a + lsize + rsize = Base + Double /\ rsize >= 1
<1>1. /\ size \in Nat /\ a \in 0..size /\ lsize \in Nat /\ rsize \in Nat
      /\ insize \in Nat \ {0} /\ nmerges \in Nat /\ a + lsize <= size
      /\ right = At(s, a + lsize + 1) /\ Perm(s) /\ NULL \notin Nodes
    BY DEF Shape, Infos, Typed, Cut, NULL
<1>2. /\ nmerges >= 1 /\ Base <= a
      /\ \/ a + lsize + rsize = Base + Double
         \/ a + lsize = size /\ a + lsize <= Base + Double
      /\ Runs(s, Double, 0, Base) /\ Runs(s, insize, Base + Double, size)
      /\ Merging(s, a, Base, Base + Double)
      /\ Perm(was) /\ Stable(s)
    BY DEF Ordered, InSort, Order1
<1>3. Double \in Nat \ {0}
    BY <1>1 DEF Double
<1>4. Base \in Nat
  <2>1. nmerges - 1 \in Nat
      BY <1>1, <1>2
  <2>. QED  BY <1>3, <2>1 DEF Base
<1>5. \A k \in 1..size : s[k] \in Nodes
    BY <1>1 DEF Perm
<1>6. right = NULL <=> a + lsize = size
    BY <1>1, <1>5 DEF At
<1>7. RightEmpty => rsize = 0 \/ a + lsize = size
    BY <1>6 DEF RightEmpty
<1>8. ~RightEmpty => /\ a + lsize + 1 <= size /\ right = s[a + lsize + 1]
                     /\ a + lsize + rsize = Base + Double /\ rsize >= 1
    BY <1>1, <1>2, <1>6 DEF RightEmpty, At
<1>. QED  BY <1>1, <1>2, <1>3, <1>4, <1>5, <1>7, <1>8

LEMMA TakeLeftOrdered ==
    ASSUME NEW s, NEW a, Shape(s, a), Ordered(s, a), TakeLeft PROVE Ordered(s, a + 1)'
<1>1. /\ UNCHANGED <<data, key, cmp, was, insize, nmerges, rsize>>
      /\ pc = "merge" /\ pc' = "merge" /\ lsize' = lsize - 1 /\ lsize # 0
      /\ ~RightEmpty => cmp_idx_value(right, left) >= 0
    BY DEF TakeLeft, LeftEmpty
<1>2. /\ size \in Nat /\ a \in 0..size /\ lsize \in Nat /\ rsize \in Nat
      /\ Double \in Nat \ {0} /\ Base \in Nat /\ Base <= a /\ a + lsize <= size
      /\ \/ a + lsize + rsize = Base + Double
         \/ a + lsize = size /\ a + lsize <= Base + Double
      /\ nmerges \in Nat \ {0}
      /\ Runs(s, Double, 0, Base) /\ Runs(s, insize, Base + Double, size)
      /\ Merging(s, a, Base, Base + Double)
      /\ Perm(was) /\ Stable(s)
      /\ \A k \in 1..size : s[k] \in Nodes
      /\ RightEmpty => rsize = 0 \/ a + lsize = size
      /\ ~RightEmpty => /\ a + lsize + 1 <= size /\ right = s[a + lsize + 1]
    BY <1>1, MergeFacts
<1>3. left = s[a + 1] /\ a + 1 \in 1..size
    BY <1>1, <1>2 DEF Shape, Cut
<1>4. Merging(s, a, Base, Base + Double) /\ a + 1 + lsize' = a + lsize
    BY <1>1, <1>2
<1>5. ASSUME NEW j \in (Base + 1)..size, NEW k \in (Base + 1)..size,
             j < k, k <= Base + Double, ~(a + 1 < j /\ j <= a + lsize /\ a + lsize < k)
      PROVE  Le(s[j], s[k])
  <2>1. CASE ~(a < j /\ j <= a + lsize /\ a + lsize < k)
      BY <1>2, <1>5, <2>1 DEF Merging
  <2>2. CASE j = a + 1 /\ a + lsize < k
    <3>1. ~RightEmpty
        BY <1>2, <1>5, <2>2
    <3>2. a + lsize + 1 \in 1..size /\ right = s[a + lsize + 1]
        BY <1>2, <3>1
    <3>3. Le(left, right)
      <4>1. left \in Nodes /\ right \in Nodes
          BY <1>2, <1>3, <3>2
      <4>2. cmp_idx_value(right, left) \in {-1, 0, 1}
          BY <4>1, Compares DEF Shape
      <4>3. ~Lt(right, left)
          BY <4>2, <1>1, <3>1 DEF Lt
      <4>4. Lt(left, right) \/ Eq(left, right)
          BY <4>1, <4>3, Compares DEF Shape
      <4>. QED  BY <4>4 DEF Le
    <3>4. CASE k = a + lsize + 1
        BY <2>2, <1>3, <3>2, <3>3, <3>4
    <3>5. CASE k # a + lsize + 1
      <4>1. /\ a + lsize + 1 \in (Base + 1)..size /\ a + lsize + 1 < k
            /\ ~(a + lsize + 1 <= a + lsize) /\ k \in 1..size
          BY <1>2, <1>5, <2>2, <3>2, <3>5
      <4>2. Le(right, s[k])
          BY <1>2, <1>5, <3>2, <4>1 DEF Merging
      <4>3. left \in Nodes /\ right \in Nodes /\ s[k] \in Nodes
          BY <1>2, <1>3, <3>2, <4>1
      <4>. QED  BY <2>2, <1>3, <3>3, <4>2, <4>3, ComparesTransitively DEF Shape
    <3>. QED  BY <3>4, <3>5
  <2>. QED  BY <2>1, <2>2, <1>2, <1>5
<1>6. size' = size /\ Double' = Double /\ Base' = Base
    BY <1>1, Frame DEF Double, Base
<1>7. Merging(s, a + 1, Base, Base + Double)'
  <2>1. \A x, y : Le(x, y)' <=> Le(x, y)
      BY <1>1, OrderFrame
  <2>. QED  BY <1>4, <1>5, <1>6, <2>1 DEF Merging
<1>8. Runs(s, Double, 0, Base)' /\ Runs(s, insize, Base + Double, size)'
    BY <1>1, <1>2, <1>6, OrderFrame
<1>9. Perm(was)' /\ Stable(s)'
    BY <1>1, <1>2, Frame, OrderFrame
<1>10. /\ nmerges' >= 1 /\ Base' <= a + 1
       /\ \/ a + 1 + lsize' + rsize' = Base' + Double'
          \/ a + 1 + lsize' = size' /\ a + 1 + lsize' <= Base' + Double'
    BY <1>1, <1>2, <1>4, <1>6
<1>. QED  BY <1>1, <1>6, <1>7, <1>8, <1>9, <1>10 DEF Ordered, Order1

LEMMA TakeRightOrdered ==
    ASSUME NEW s, NEW a, Shape(s, a), Ordered(s, a), TakeRight, NEW t, t = Moved(s, a)
    PROVE  Ordered(t, a + 1)'
<1>1. /\ UNCHANGED <<data, key, cmp, was, insize, nmerges, lsize>>
      /\ pc = "merge" /\ pc' = "merge" /\ rsize' = rsize - 1 /\ ~RightEmpty
      /\ lsize # 0 => cmp_idx_value(right, left) < 0
    BY DEF TakeRight, LeftEmpty
<1>2. /\ size \in Nat /\ a \in 0..size /\ lsize \in Nat /\ rsize \in Nat
      /\ Double \in Nat \ {0} /\ Base \in Nat /\ Base <= a /\ a + lsize <= size
      /\ nmerges \in Nat \ {0}
      /\ Runs(s, Double, 0, Base) /\ Runs(s, insize, Base + Double, size)
      /\ Merging(s, a, Base, Base + Double)
      /\ Perm(was) /\ Stable(s)
      /\ \A k \in 1..size : s[k] \in Nodes
      /\ a + lsize + 1 <= size /\ right = s[a + lsize + 1]
      /\ a + lsize + rsize = Base + Double /\ rsize >= 1
    BY <1>1, MergeFacts
<1>. DEFINE x == a + lsize + 1
<1>3. /\ t[a + 1] = s[x] /\ right = s[x] /\ x \in 1..size /\ x <= Base + Double
      /\ \A k \in 1..size : k <= a \/ k > x => t[k] = s[k]
      /\ \A k \in (a + 2)..x : t[k] = s[k - 1]
    BY <1>1, <1>2, MovedFacts
<1>4. \A k \in 1..size : k <= x => k <= Base + Double
    BY <1>2, <1>3
<1>5. ASSUME NEW k \in (a + 2)..x
      PROVE  Lt(s[x], t[k]) /\ t[k] = s[k - 1] /\ k - 1 \in 1..size
  <2>1. lsize # 0 /\ k - 1 \in (a + 1)..(a + lsize) /\ k - 1 \in 1..size /\ a + 1 \in 1..size
      BY <1>2, <1>5
  <2>2. left = s[a + 1]
      BY <1>1, <1>2, <2>1 DEF Shape, Cut
  <2>3. Lt(right, left) /\ right \in Nodes /\ left \in Nodes /\ s[k - 1] \in Nodes
      BY <1>1, <1>2, <1>3, <2>1, <2>2 DEF Lt
  <2>4. Lt(right, s[k - 1])
    <3>1. CASE k - 1 = a + 1
        BY <2>2, <2>3, <3>1
    <3>2. CASE k - 1 # a + 1
      <4>1. /\ a + 1 < k - 1 /\ k - 1 <= Base + Double /\ ~(a + lsize < k - 1)
            /\ a + 1 \in (Base + 1)..size /\ k - 1 \in (Base + 1)..size
          BY <1>2, <1>4, <2>1, <3>2
      <4>2. Le(left, s[k - 1])
          BY <1>2, <2>2, <4>1 DEF Merging
      <4>. QED  BY <2>3, <4>2, ComparesTransitively DEF Shape, Le
    <3>. QED  BY <3>1, <3>2
  <2>. QED  BY <1>3, <2>1, <2>4
<1>6. \A k \in 1..size : \/ k <= a /\ t[k] = s[k]
                         \/ k = a + 1 /\ t[k] = s[x]
                         \/ k \in (a + 2)..x /\ t[k] = s[k - 1] /\ Lt(s[x], t[k])
                         \/ k > x /\ t[k] = s[k]
  <2>. SUFFICES ASSUME NEW k \in 1..size
                PROVE  \/ k <= a /\ t[k] = s[k]
                       \/ k = a + 1 /\ t[k] = s[x]
                       \/ k \in (a + 2)..x /\ t[k] = s[k - 1] /\ Lt(s[x], t[k])
                       \/ k > x /\ t[k] = s[k]
      OBVIOUS
  <2>1. k <= a \/ k = a + 1 \/ k \in (a + 2)..x \/ k > x
      BY <1>2
  <2>. HIDE DEF x
  <2>. QED  BY <2>1, <1>3, <1>5
<1>7. x = a + lsize + 1 /\ x \in Nat
    BY <1>2
<1>. HIDE DEF x
<1>8. ASSUME NEW j \in (Base + 1)..size, NEW k \in (Base + 1)..size,
             j < k, k <= Base + Double, ~(a + 1 < j /\ j <= a + 1 + lsize /\ a + 1 + lsize < k)
      PROVE  Le(t[j], t[k])
  <2>1. j \in 1..size /\ k \in 1..size
      BY <1>2
  <2>2. CASE j = a + 1
    <3>1. CASE k \in (a + 2)..x
        BY <2>2, <3>1, <1>3, <1>5 DEF Le
    <3>2. CASE k > x
      <4>1. /\ x \in (Base + 1)..size /\ x < k /\ ~(x <= a + lsize)
          BY <1>2, <1>3, <1>7, <3>2
      <4>. QED  BY <2>1, <2>2, <3>2, <4>1, <1>2, <1>3, <1>8 DEF Merging
    <3>. QED  BY <1>2, <1>7, <1>8, <2>1, <2>2, <3>1, <3>2
  <2>3. CASE j # a + 1
    <3>. DEFINE src(n) == IF n = a + 1 THEN x ELSE IF n \in (a + 2)..x THEN n - 1 ELSE n
    <3>1. /\ src(j) \in (Base + 1)..size /\ src(k) \in (Base + 1)..size /\ src(j) < src(k)
          /\ src(k) <= Base + Double
          /\ ~(a < src(j) /\ src(j) <= a + lsize /\ a + lsize < src(k))
        BY <1>2, <1>3, <1>7, <1>8, <2>1, <2>3
    <3>2. t[j] = s[src(j)] /\ t[k] = s[src(k)]
        BY <1>2, <1>3, <1>6, <1>7, <2>1
    <3>. HIDE DEF src
    <3>. QED  BY <1>2, <3>1, <3>2 DEF Merging
  <2>. QED  BY <2>2, <2>3
<1>9. Stable(t)
  <2>. SUFFICES ASSUME NEW j \in 1..size, NEW k \in 1..size, j < k, Eq(t[j], t[k])
                PROVE  WasBefore(t[j], t[k])
      BY DEF Stable
  <2>1. CASE j = a + 1 /\ k \in (a + 2)..x
    <3>1. Lt(s[x], t[k]) /\ t[j] = s[x] /\ t[k] \in Nodes /\ s[x] \in Nodes
        BY <2>1, <1>2, <1>3, <1>5
    <3>. QED  BY <3>1, Compares DEF Shape
  <2>2. CASE ~(j = a + 1 /\ k \in (a + 2)..x)
    <3>. DEFINE src(n) == IF n = a + 1 THEN x ELSE IF n \in (a + 2)..x THEN n - 1 ELSE n
    <3>1. src(j) \in 1..size /\ src(k) \in 1..size /\ src(j) < src(k)
        BY <1>2, <1>3, <1>7, <2>2
    <3>2. t[j] = s[src(j)] /\ t[k] = s[src(k)]
        BY <1>2, <1>3, <1>6, <1>7
    <3>. HIDE DEF src
    <3>. QED  BY <1>2, <3>1, <3>2 DEF Stable
  <2>. QED  BY <2>1, <2>2
<1>10. Runs(t, Double, 0, Base)
  <2>1. \A k \in 1..Base : t[k] = s[k]
      BY <1>2, <1>3
  <2>. QED  BY <1>2, <2>1 DEF Runs
<1>11. Runs(t, insize, Base + Double, size)
  <2>1. \A k \in (Base + Double + 1)..size : t[k] = s[k]
      BY <1>2, <1>3, <1>7
  <2>. QED  BY <1>2, <2>1 DEF Runs
<1>12. size' = size /\ Double' = Double /\ Base' = Base
    BY <1>1, Frame DEF Double, Base
<1>13. Merging(t, a + 1, Base, Base + Double)'
  <2>1. \A u, v : Le(u, v)' <=> Le(u, v)
      BY <1>1, OrderFrame
  <2>. QED  BY <1>1, <1>8, <1>12, <2>1 DEF Merging
<1>14. Runs(t, Double, 0, Base)' /\ Runs(t, insize, Base + Double, size)'
    BY <1>1, <1>10, <1>11, <1>12, OrderFrame
<1>15. Perm(was)' /\ Stable(t)'
    BY <1>1, <1>2, <1>9, Frame, OrderFrame
<1>16. /\ nmerges' >= 1 /\ Base' <= a + 1
       /\ a + 1 + lsize' + rsize' = Base' + Double'
    BY <1>1, <1>2, <1>12
<1>. QED  BY <1>1, <1>12, <1>13, <1>14, <1>15, <1>16 DEF Ordered, Order1

LEMMA EndMergeOrdered ==
    ASSUME NEW s, NEW a, Shape(s, a), Ordered(s, a), EndMerge PROVE Ordered(s, a)'
<1>1. /\ UNCHANGED <<data, key, cmp, was, insize, nmerges, lsize>>
      /\ pc = "merge" /\ pc' = "merges" /\ lsize = 0 /\ RightEmpty
    BY DEF EndMerge, LeftEmpty
<1>2. /\ size \in Nat /\ a \in 0..size /\ rsize \in Nat
      /\ insize \in Nat \ {0} /\ nmerges \in Nat \ {0}
      /\ Double \in Nat \ {0} /\ Base \in Nat /\ Base <= a
      /\ \/ a + lsize + rsize = Base + Double
         \/ a + lsize = size /\ a + lsize <= Base + Double
      /\ Runs(s, Double, 0, Base) /\ Runs(s, insize, Base + Double, size)
      /\ Merging(s, a, Base, Base + Double)
      /\ Perm(was) /\ Stable(s)
      /\ RightEmpty => rsize = 0 \/ a + lsize = size
    BY <1>1, MergeFacts
<1>3. a <= Base + Double /\ (a = size \/ a = Base + Double)
    BY <1>1, <1>2
<1>4. Base + Double = Double * nmerges
  <2>1. Double * (nmerges - 1) + Double = Double * nmerges
      BY <1>2
  <2>. QED  BY <2>1 DEF Base
<1>5. Runs(s, Double, 0, a)
  <2>. SUFFICES ASSUME NEW q \in Nat, NEW j \in 1..a, NEW k \in 1..a, j < k,
                       Double * q < j, k <= Double * q + Double
                PROVE  Le(s[j], s[k])
      BY <1>2 DEF Runs
  <2>1. CASE k <= Base
      BY <1>2, <2>1 DEF Runs
  <2>2. CASE k > Base
    <3>1. q >= nmerges - 1
      <4>. SUFFICES ASSUME q + 1 <= nmerges - 1 PROVE FALSE
          BY <1>2
      <4>1. PICK d \in Nat : nmerges - 1 = q + 1 + d
        <5>1. nmerges - 1 - (q + 1) \in Nat /\ nmerges - 1 = q + 1 + (nmerges - 1 - (q + 1))
            BY <1>2
        <5>. QED  BY <5>1
      <4>2. Base = Double * q + Double + Double * d
        <5>1. Base = Double * (q + 1 + d)
            BY <4>1 DEF Base
        <5>. QED  BY <1>2, <4>1, <5>1
      <4>3. Double * d \in Nat /\ Double * q \in Nat
          BY <1>2, <4>1
      <4>. QED  BY <1>2, <2>2, <4>2, <4>3
    <3>2. Base <= Double * q
      <4>1. PICK d \in Nat : q = (nmerges - 1) + d
        <5>1. q - (nmerges - 1) \in Nat /\ q = (nmerges - 1) + (q - (nmerges - 1))
            BY <1>2, <3>1
        <5>. QED  BY <5>1
      <4>2. Double * q = Double * (nmerges - 1) + Double * d /\ Double * d \in Nat
          BY <1>2, <4>1
      <4>. QED  BY <1>2, <4>2 DEF Base
    <3>3. Double * q \in Nat
        BY <1>2
    <3>4. j \in (Base + 1)..size /\ k \in (Base + 1)..size /\ k <= Base + Double
          /\ ~(a < j)
        BY <1>2, <1>3, <2>2, <3>2, <3>3
    <3>. QED  BY <1>2, <3>4 DEF Merging
  <2>. QED  BY <1>2, <2>1, <2>2
<1>6. Runs(s, insize, a, size)
  <2>1. CASE a = size
      BY <1>2, <2>1 DEF Runs
  <2>2. CASE a = Base + Double
      BY <1>2, <2>2
  <2>. QED  BY <1>3, <2>1, <2>2
<1>7. size' = size /\ Double' = Double
    BY <1>1, Frame DEF Double
<1>8. Runs(s, Double, 0, a)' /\ Runs(s, insize, a, size)'
    BY <1>1, <1>5, <1>6, <1>7, OrderFrame
<1>9. Perm(was)' /\ Stable(s)'
    BY <1>1, <1>2, Frame, OrderFrame
<1>10. a <= Double' * nmerges' /\ (a = size' \/ a = Double' * nmerges')
    BY <1>1, <1>3, <1>4, <1>7
<1>. QED  BY <1>1, <1>8, <1>9, <1>10 DEF Ordered, Order1

(* A pass leaves runs of twice the size. *)
LEMMA PassDone ==
    ASSUME NEW s, NEW a, Shape(s, a), Ordered(s, a), EndPass, UNCHANGED data
    PROVE  Runs(s, Double, 0, size) /\ size <= Double * nmerges /\ Perm(was) /\ Stable(s)
<1>1. a = size /\ pc = "merges"
    BY EndPassLinks DEF EndPass
<1>. QED  BY <1>1 DEF Ordered, InSort, Order1

LEMMA NextPassOrdered ==
    ASSUME NEW s, NEW a, Shape(s, a), Ordered(s, a), NextPass PROVE Ordered(s, a)'
<1>1. /\ UNCHANGED <<data, key, cmp, was>> /\ pc' = "pass" /\ insize' = Double
    BY DEF NextPass, Double
<1>2. Runs(s, Double, 0, size) /\ Perm(was) /\ Stable(s)
    BY <1>1, PassDone DEF NextPass
<1>3. size' = size
    BY <1>1, Frame
<1>4. Runs(s, insize, 0, size)'
  <2>1. \A x, y : Le(x, y)' <=> Le(x, y)
      BY <1>1, OrderFrame
  <2>. QED  BY <1>1, <1>2, <1>3, <2>1 DEF Runs
<1>5. Perm(was)' /\ Stable(s)'
    BY <1>1, <1>2, Frame, OrderFrame
<1>. QED  BY <1>1, <1>4, <1>5 DEF Ordered, Order1

LEMMA RestOrdered ==
    ASSUME NEW s, NEW a, Shape(s, a), Ordered(s, a),
           SearchNode \/ SearchEnd \/ Return \/ UNCHANGED vars
    PROVE  Ordered(s, a)'
<1>1. CASE SearchNode \/ SearchEnd \/ Return
    BY <1>1 DEF SearchNode, SearchEnd, Return, Ordered, InSort
<1>2. CASE UNCHANGED vars
    BY <1>2, Frame, OrderFrame DEF vars, sorting, Ordered, InSort, Order1, Merging, Base, Double
<1>. QED  BY <1>1, <1>2

-----------------------------------------------------------------------------
(* The search: of the first c nodes of the list, result holds those that     *)
(* match, in their order.                                                    *)
Match(n) == CmpData(data[n], key) = 0

Hits(s, c, r) ==
    /\ r \in Seq(Nodes)
    /\ \A j \in 1..Len(r) : \E p \in 1..c : r[j] = s[p] /\ Match(s[p])
    /\ \A p \in 1..c : Match(s[p]) => \E j \in 1..Len(r) : r[j] = s[p]
    /\ \A j, k \in 1..Len(r) :
          j < k => \E p, q \in 1..size : p < q /\ r[j] = s[p] /\ r[k] = s[q]

Searched(s) ==
    pc = "search" => \E c \in 0..size : list = At(s, c + 1) /\ Hits(s, c, result)

LEMMA NoHits == ASSUME NEW s PROVE Hits(s, 0, <<>>)
<1>1. <<>> \in Seq(Nodes) /\ Len(<<>>) = 0
    BY EmptySeq
<1>. QED  BY <1>1 DEF Hits

LEMMA InitSearched ==
    ASSUME NEW s, NEW a, Shape(s, a), Init PROVE Searched(s)
<1>1. list = memblk /\ pc = "search" /\ result = <<>>
    BY DEF Init
<1>2. size \in Nat \ {0} /\ memblk = s[1]
    BY <1>1 DEF Shape, Infos, Cut
<1>3. list = At(s, 0 + 1) /\ 0 \in 0..size
    BY <1>1, <1>2 DEF At
<1>. QED  BY <1>1, <1>3, NoHits DEF Searched

LEMMA SearchNodeSearched ==
    ASSUME NEW s, NEW a, Shape(s, a), Searched(s), SearchNode PROVE Searched(s)'
<1>1. /\ UNCHANGED <<data, key, next>> /\ pc = "search" /\ pc' = "search" /\ list # NULL
      /\ result' = (IF CmpData(data[list], key) # 0 THEN result ELSE Append(result, list))
      /\ list' = next[list]
    BY DEF SearchNode
<1>2. PICK c \in 0..size : list = At(s, c + 1) /\ Hits(s, c, result)
    BY <1>1 DEF Searched
<1>3. size \in Nat /\ Perm(s) /\ size' = size /\ Nodes' = Nodes
    BY <1>1, Frame DEF Shape, Infos
<1>4. c + 1 \in 1..size /\ list = s[c + 1] /\ list \in Nodes /\ c \in Nat
    BY <1>1, <1>2, <1>3 DEF At, Perm
<1>5. list' = At(s, (c + 1) + 1)
    BY <1>1, <1>4 DEF Shape, Cut, InPass, Link
<1>6. Hits(s, c + 1, result')
  <2>1. CASE ~Match(list)
    <3>1. result' = result
        BY <1>1, <2>1 DEF Match
    <3>. DEFINE r == result
                n == Len(r)
    <3>2. /\ r \in Seq(Nodes)
          /\ \A j \in 1..n : \E p \in 1..c : r[j] = s[p] /\ Match(s[p])
          /\ \A p \in 1..c : Match(s[p]) => \E j \in 1..n : r[j] = s[p]
          /\ \A j, k \in 1..n :
                j < k => \E p, q \in 1..size : p < q /\ r[j] = s[p] /\ r[k] = s[q]
        BY <1>2 DEF Hits
    <3>. HIDE DEF n, r
    <3>3. ASSUME NEW j \in 1..n PROVE \E p \in 1..(c + 1) : r[j] = s[p] /\ Match(s[p])
      <4>1. PICK p \in 1..c : r[j] = s[p] /\ Match(s[p])
          BY <3>2
      <4>2. p \in 1..(c + 1)
          BY <1>4
      <4>. QED  BY <4>1, <4>2
    <3>4. ASSUME NEW p \in 1..(c + 1), Match(s[p]) PROVE \E j \in 1..n : r[j] = s[p]
      <4>1. p \in 1..c
          BY <1>4, <2>1, <3>4
      <4>. QED  BY <3>2, <3>4, <4>1
    <3>5. Hits(s, c + 1, r)
        BY <3>2, <3>3, <3>4 DEF Hits, n
    <3>. QED  BY <3>1, <3>5 DEF r
  <2>2. CASE Match(list)
    <3>. DEFINE r == result
                n == Len(r)
    <3>1. result' = Append(r, list)
        BY <1>1, <2>2 DEF Match
    <3>2. r \in Seq(Nodes) /\ n \in Nat
        BY <1>2 DEF Hits
    <3>3. /\ Append(r, list) \in Seq(Nodes) /\ Len(Append(r, list)) = n + 1
          /\ \A j \in 1..n : Append(r, list)[j] = r[j]
          /\ Append(r, list)[n + 1] = list
        BY <1>4, <3>2, AppendProperties
    <3>4. /\ \A j \in 1..n : \E p \in 1..c : r[j] = s[p] /\ Match(s[p])
          /\ \A p \in 1..c : Match(s[p]) => \E j \in 1..n : r[j] = s[p]
          /\ \A j, k \in 1..n :
                j < k => \E p, q \in 1..size : p < q /\ r[j] = s[p] /\ r[k] = s[q]
        BY <1>2 DEF Hits
    <3>. HIDE DEF n, r
    <3>. DEFINE t == Append(r, list)
    <3>5. /\ t \in Seq(Nodes) /\ Len(t) = n + 1 /\ t[n + 1] = s[c + 1]
          /\ \A j \in 1..n : t[j] = r[j]
        BY <1>4, <3>3
    <3>. HIDE DEF t
    <3>6. ASSUME NEW j \in 1..(n + 1)
          PROVE  \E p \in 1..(c + 1) : t[j] = s[p] /\ Match(s[p])
      <4>1. CASE j = n + 1
          BY <1>4, <2>2, <3>5, <4>1
      <4>2. CASE j # n + 1
        <5>1. j \in 1..n
            BY <3>2, <4>2
        <5>2. PICK p \in 1..c : r[j] = s[p] /\ Match(s[p])
            BY <3>4, <5>1
        <5>3. p \in 1..(c + 1)
            BY <1>4
        <5>. QED  BY <3>5, <5>1, <5>2, <5>3
      <4>. QED  BY <4>1, <4>2
    <3>7. ASSUME NEW p \in 1..(c + 1), Match(s[p])
          PROVE  \E j \in 1..(n + 1) : t[j] = s[p]
      <4>1. CASE p = c + 1
          BY <3>2, <3>5, <4>1
      <4>2. CASE p # c + 1
        <5>1. p \in 1..c
            BY <1>4, <4>2
        <5>2. PICK j \in 1..n : r[j] = s[p]
            BY <3>4, <3>7, <5>1
        <5>3. j \in 1..(n + 1)
            BY <3>2
        <5>. QED  BY <3>5, <5>2, <5>3
      <4>. QED  BY <4>1, <4>2
    <3>8. ASSUME NEW j \in 1..(n + 1), NEW k \in 1..(n + 1), j < k
          PROVE  \E p, q \in 1..size : p < q /\ t[j] = s[p] /\ t[k] = s[q]
      <4>0. j \in 1..n
          BY <3>2, <3>8
      <4>1. CASE k = n + 1
        <5>1. PICK p \in 1..c : r[j] = s[p]
            BY <3>4, <4>0
        <5>2. p \in 1..size /\ p < c + 1
            BY <1>3, <1>4
        <5>. QED  BY <1>4, <3>5, <4>0, <4>1, <5>1, <5>2
      <4>2. CASE k # n + 1
        <5>1. k \in 1..n
            BY <3>2, <4>2
        <5>2. PICK p \in 1..size, q \in 1..size : p < q /\ r[j] = s[p] /\ r[k] = s[q]
            BY <3>4, <3>8, <4>0, <5>1
        <5>. QED  BY <3>5, <4>0, <5>1, <5>2
      <4>. QED  BY <4>1, <4>2
    <3>9. Hits(s, c + 1, t)
        BY <3>5, <3>6, <3>7, <3>8 DEF Hits
    <3>. QED  BY <3>1, <3>9 DEF t
  <2>. QED  BY <2>1, <2>2
<1>7. Hits(s, c + 1, result)'
  <2>1. \A n : Match(n)' <=> Match(n)
      BY <1>1 DEF Match
  <2>. QED  BY <1>3, <1>6, <2>1 DEF Hits
<1>8. c + 1 \in 0..size
    BY <1>3, <1>4
<1>9. At(s, (c + 1) + 1)' = At(s, (c + 1) + 1)
    BY <1>3 DEF At
<1>. QED  BY <1>3, <1>5, <1>7, <1>8, <1>9 DEF Searched

LEMMA ReturnSearched ==
    ASSUME NEW s, NEW a, Shape(s, a), Return PROVE Searched(s)'
<1>. SUFFICES ASSUME pc' = "search" PROVE Searched(s)'
    BY DEF Searched
<1>1. result' = <<>> /\ list' = list /\ UNCHANGED <<data, key>>
    BY DEF Return
<1>2. list = s[1]
    BY EndPassLinks DEF Return
<1>3. size \in Nat \ {0} /\ size' = size
    BY <1>1, Frame DEF Shape, Infos
<1>4. list' = At(s, 0 + 1)' /\ 0 \in 0..size'
    BY <1>1, <1>2, <1>3 DEF At
<1>5. Hits(s, 0, <<>>)'
    BY NoHits, PTL
<1>6. Hits(s, 0, result)'
    BY <1>1, <1>5 DEF Hits
<1>. QED  BY <1>4, <1>6 DEF Searched

LEMMA StutterSearched ==
    ASSUME NEW s, Searched(s), UNCHANGED vars PROVE Searched(s)'
<1>1. size' = size /\ Nodes' = Nodes /\ UNCHANGED <<data, key, pc, list, result>>
    BY Frame DEF vars
<1>2. /\ \A k : At(s, k)' = At(s, k)
      /\ \A n : Match(n)' <=> Match(n)
    BY <1>1 DEF At, Match
<1>3. \A c : Hits(s, c, result)' <=> Hits(s, c, result)
  <2>1. result' = result /\ Seq(Nodes)' = Seq(Nodes) /\ size' = size
      BY <1>1
  <2>2. ASSUME NEW c
        PROVE  /\ (result \in Seq(Nodes))' <=> result \in Seq(Nodes)
               /\ (\A j \in 1..Len(result) : \E p \in 1..c : result[j] = s[p] /\ Match(s[p]))'
                    <=> \A j \in 1..Len(result) : \E p \in 1..c : result[j] = s[p] /\ Match(s[p])
               /\ (\A p \in 1..c : Match(s[p]) => \E j \in 1..Len(result) : result[j] = s[p])'
                    <=> \A p \in 1..c : Match(s[p]) => \E j \in 1..Len(result) : result[j] = s[p]
               /\ (\A j, k \in 1..Len(result) :
                        j < k => \E p, q \in 1..size : p < q /\ result[j] = s[p] /\ result[k] = s[q])'
                    <=> \A j, k \in 1..Len(result) :
                        j < k => \E p, q \in 1..size : p < q /\ result[j] = s[p] /\ result[k] = s[q]
    <3>. HIDE DEF Match, size
    <3>1. (result \in Seq(Nodes))' <=> result \in Seq(Nodes)
        BY <2>1, Zenon
    <3>. QED  BY <1>2, <2>1, <3>1
  <2>. HIDE DEF Match, size
  <2>. QED  BY <2>2, Zenon DEF Hits
<1>. QED  BY <1>1, <1>2, <1>3 DEF Searched

-----------------------------------------------------------------------------
(* The invariant, and what it says of the passes. *)
Whole(s, a) == Shape(s, a) /\ Ordered(s, a) /\ Searched(s)

Inv == \E s : \E a : Whole(s, a)

LEMMA InitInv == ASSUME Init, Infos PROVE Inv
<1>1. PICK s : Shape(s, 0)
    BY InitShape
<1>2. Ordered(s, 0)
    BY DEF Init, Ordered, InSort
<1>. QED  BY <1>1, <1>2, InitSearched DEF Inv, Whole

LEMMA StepInv == ASSUME Inv, [Next]_vars PROVE Inv'
<1>1. PICK s : \E a : Whole(s, a)
    BY DEF Inv
<1>2. PICK a : Whole(s, a)
    BY <1>1
<1>3. CASE SearchNode
    BY <1>2, <1>3, SearchShape, RestOrdered, SearchNodeSearched DEF Inv, Whole
<1>4. CASE SearchEnd
    BY <1>2, <1>4, SearchShape, RestOrdered DEF Inv, Whole, Searched, SearchEnd
<1>5. CASE Call
    BY <1>2, <1>5, CallShape, CallOrdered DEF Inv, Whole, Searched, Call
<1>6. CASE BeginPass
    BY <1>2, <1>6, BeginPassShape, BeginPassOrdered DEF Inv, Whole, Searched, BeginPass
<1>7. CASE BeginMerge
    BY <1>2, <1>7, BeginMergeShape, BeginMergeOrdered DEF Inv, Whole, Searched, BeginMerge
<1>8. CASE Split
    BY <1>2, <1>8, SplitShape, SplitOrdered DEF Inv, Whole, Searched, Split
<1>9. CASE EndSplit
    BY <1>2, <1>9, EndSplitShape, EndSplitOrdered DEF Inv, Whole, Searched, EndSplit
<1>10. CASE TakeRight
  <2>1. PICK t : t = Moved(s, a)
      OBVIOUS
  <2>. QED  BY <1>2, <1>10, <2>1, TakeRightShape, TakeRightOrdered
            DEF Inv, Whole, Searched, TakeRight
<1>11. CASE TakeLeft
    BY <1>2, <1>11, TakeLeftShape, TakeLeftOrdered DEF Inv, Whole, Searched, TakeLeft
<1>12. CASE EndMerge
    BY <1>2, <1>12, EndMergeShape, EndMergeOrdered DEF Inv, Whole, Searched, EndMerge
<1>13. CASE NextPass
    BY <1>2, <1>13, NextPassShape, NextPassOrdered DEF Inv, Whole, Searched, NextPass
<1>14. CASE Return
    BY <1>2, <1>14, ReturnShape, RestOrdered, ReturnSearched DEF Inv, Whole
<1>15. CASE UNCHANGED vars
    BY <1>2, <1>15, StutterShape, RestOrdered, StutterSearched DEF Inv, Whole
<1>. QED  BY <1>3, <1>4, <1>5, <1>6, <1>7, <1>8, <1>9, <1>10, <1>11, <1>12, <1>13, <1>14, <1>15
          DEF Next

LEMMA InvNoNodeLost == Inv => NoNodeLost
BY NoNodeLostIfShape DEF Inv, Whole

LEMMA RunOf ==
    ASSUME NEW w \in Nat \ {0}, NEW j \in Nat \ {0}, NEW k \in Nat, j < k,
           (j - 1) \div w = (k - 1) \div w
    PROVE  \E q \in Nat : w * q < j /\ k <= w * q + w
<1>. DEFINE q == (j - 1) \div w
            p == (k - 1) \div w
<1>1. q \in Nat /\ w * q <= j - 1
    BY DEF q
<1>2. p \in Nat /\ k - 1 < w * p + w
    BY DEF p
<1>3. p = q
    OBVIOUS
<1>. HIDE DEF p, q
<1>4. w * q \in Nat
    BY <1>1
<1>. QED  BY <1>1, <1>2, <1>3, <1>4

LEMMA InvRunsSorted == Inv => RunsSorted
<1>. SUFFICES ASSUME Inv, pc = "pass" PROVE RunsSorted
    BY DEF RunsSorted
<1>1. PICK s : \E a : Whole(s, a)
    BY DEF Inv
<1>2. PICK a : Whole(s, a)
    BY <1>1
<1>3. /\ size \in Nat \ {0} /\ Perm(s) /\ NULL \notin Nodes /\ insize \in Nat \ {0}
      /\ list = s[1] /\ \A k \in 1..size : Link(s, k)
    BY <1>2 DEF Whole, Shape, Infos, Cut, Typed, InPass, NULL
<1>4. Chain(list) = s
    BY <1>3, WholeChain
<1>5. Stable(s) /\ Runs(s, insize, 0, size)
    BY <1>2 DEF Whole, Ordered, InSort, Order1
<1>6. ASSUME NEW j \in 1..size, NEW k \in 1..size, j < k,
             (j - 1) \div insize = (k - 1) \div insize
      PROVE  \/ cmp_idx_value(s[j], s[k]) < 0
             \/ cmp_idx_value(s[j], s[k]) = 0 /\ WasBefore(s[j], s[k])
  <2>1. PICK q \in Nat : insize * q < j /\ k <= insize * q + insize
    <3>1. j \in Nat \ {0} /\ k \in Nat
        OBVIOUS
    <3>. QED  BY <1>3, <1>6, <3>1, RunOf
  <2>2. Le(s[j], s[k])
      BY <1>5, <1>6, <2>1 DEF Runs
  <2>. QED  BY <1>5, <1>6, <2>2 DEF Le, Lt, Eq, Stable
<1>7. DOMAIN s = 1..size
    BY <1>3 DEF Perm
<1>. QED  BY <1>4, <1>6, <1>7 DEF RunsSorted, WasBefore

(* For every list, every data of integers and every order of the nodes: no   *)
(* node is lost, and the runs of every pass are sorted stably.               *)
THEOREM SortsSafely == Infos /\ Init /\ [][Next]_vars => [](NoNodeLost /\ RunsSorted)
<1>1. Infos /\ Init => Inv
    BY InitInv
<1>2. Inv /\ [Next]_vars => Inv'
    BY StepInv
<1>. QED  BY <1>1, <1>2, InvNoNodeLost, InvRunsSorted, PTL

-----------------------------------------------------------------------------
(* The refinement, step by step.                                             *)
order == IF pc \in {"search", "call", "done"} THEN Chain(memblk) ELSE was
found == IF pc = "search" THEN <<>> ELSE result

LEMMA OrderIs ==
    \A s, a : Shape(s, a) /\ pc \in {"search", "call", "done"} => order = s
<1>. SUFFICES ASSUME NEW s, NEW a, Shape(s, a), pc \in {"search", "call", "done"}
              PROVE  order = s
    OBVIOUS
<1>1. /\ size \in Nat \ {0} /\ Perm(s) /\ NULL \notin Nodes /\ memblk = s[1]
      /\ \A k \in 1..size : Link(s, k)
    BY DEF Shape, Infos, Cut, InPass, NULL
<1>. QED  BY <1>1, WholeChain DEF order

LEMMA OrderIsNext ==
    (\A s, a : Shape(s, a) /\ pc \in {"search", "call", "done"} => order = s)'
BY OrderIs, PTL

(* The search's result is the matches of the list, in their order. *)
LEMMA SearchRefines ==
    ASSUME NEW s, NEW a, Whole(s, a), SearchEnd
    PROVE  Order!Search
<1>1. /\ pc = "search" /\ pc' = "call" /\ cmp' = DATA_CMP /\ list = NULL
      /\ UNCHANGED <<data, key, memblk, next, result>>
    BY DEF SearchEnd
<1>2. order = s /\ order' = s
  <2>1. Shape(s, a)'
      BY SearchShape DEF Whole
  <2>. QED  BY <1>1, <2>1, OrderIs, OrderIsNext DEF Whole
<1>3. /\ size \in Nat \ {0} /\ Perm(s) /\ NULL \notin Nodes
    BY DEF Whole, Shape, Infos, NULL
<1>4. Hits(s, size, result)
  <2>1. PICK c \in 0..size : list = At(s, c + 1) /\ Hits(s, c, result)
      BY <1>1 DEF Whole, Searched
  <2>2. c = size
      BY <1>1, <1>3, <2>1 DEF At, Perm
  <2>. QED  BY <2>1, <2>2
<1>5. \A n \in Nodes : Match(n) <=> Order!Matches(n)
  <2>. SUFFICES ASSUME NEW n \in Nodes PROVE Match(n) <=> Order!Matches(n)
      OBVIOUS
  <2>1. PICK w \in Nat : key \in [1..w -> Int] /\ data \in [Nodes -> [1..w -> Int]]
      BY DEF Whole, Shape, Infos
  <2>2. data[n] \in [1..w -> Int]
      BY <2>1
  <2>3. /\ Less(data[n], key) \/ data[n] = key \/ Less(key, data[n])
        /\ ~(Less(data[n], key) /\ Less(key, data[n]))
        /\ ~Less(data[n], data[n])
      BY <2>1, <2>2, LessTotal
  <2>. QED  BY <2>3 DEF Match, CmpData, Order!Matches
<1>. DEFINE hits == {n \in {order[j] : j \in DOMAIN order} : Order!Matches(n)}
            where(n) == CHOOSE j \in DOMAIN order : order[j] = n
<1>6. \A n : n \in hits <=> \E p \in 1..size : n = s[p] /\ Match(s[p])
    BY <1>2, <1>3, <1>5 DEF Perm
<1>7. \A p \in 1..size : where(s[p]) = p
    BY <1>2, <1>3 DEF Perm
<1>. HIDE DEF hits, where
<1>8. /\ result \in Seq(Nodes) /\ Len(result) \in Nat /\ DOMAIN result = 1..Len(result)
      /\ result \in [1..Len(result) -> Nodes]
    BY <1>4, LenProperties DEF Hits
<1>9. \A j \in 1..Len(result) : result[j] \in hits
    BY <1>4, <1>6 DEF Hits
<1>10. result \in Seq(hits)
  <2>1. result \in [1..Len(result) -> hits]
      BY <1>8, <1>9
  <2>. QED  BY <1>8, <2>1, FcnIsSeq
<1>11. hits = {result[j] : j \in DOMAIN result}
  <2>. HIDE DEF Match, Perm
  <2>1. ASSUME NEW n \in hits PROVE \E j \in DOMAIN result : result[j] = n
    <3>1. PICK p \in 1..size : n = s[p] /\ Match(s[p])
        BY <1>6
    <3>2. \A i \in 1..size : Match(s[i]) => \E j \in 1..Len(result) : result[j] = s[i]
        BY <1>4 DEF Hits
    <3>. QED  BY <1>8, <3>1, <3>2
  <2>. QED  BY <1>8, <1>9, <2>1
<1>12. ASSUME NEW j \in DOMAIN result, NEW k \in DOMAIN result, j < k
       PROVE  where(result[j]) < where(result[k])
  <2>1. \A i, l \in 1..Len(result) :
            i < l => \E p, q \in 1..size : p < q /\ result[i] = s[p] /\ result[l] = s[q]
      BY <1>4 DEF Hits
  <2>2. \E p, q \in 1..size : p < q /\ result[j] = s[p] /\ result[k] = s[q]
      BY <1>8, <1>12, <2>1
  <2>3. PICK p \in 1..size : \E q \in 1..size : p < q /\ result[j] = s[p] /\ result[k] = s[q]
      BY <2>2
  <2>4. PICK q \in 1..size : p < q /\ result[j] = s[p] /\ result[k] = s[q]
      BY <2>3
  <2>. QED  BY <1>7, <2>4
<1>13. /\ Phase = "search" /\ Phase' = "data" /\ found' = result
    BY <1>1 DEF Phase, found, DATA_CMP
<1>. QED  BY <1>1, <1>2, <1>10, <1>11, <1>12, <1>13
          DEF Order!Search, Order!At, hits, where, order, found

(* The last pass has one run: it is sorted, stably. *)
LEMMA ReturnRefines ==
    ASSUME NEW s, NEW a, Whole(s, a), Return
    PROVE  Order!SortData \/ Order!SortIdx
<1>1. /\ pc = "merges" /\ nmerges <= 1 /\ EndPass /\ UNCHANGED <<data, key, was>>
      /\ \/ cmp = DATA_CMP /\ cmp' = IDX_CMP /\ pc' = "call" /\ result' = result
         \/ cmp = IDX_CMP /\ pc' = "search" /\ result' = <<>>
         \/ cmp = IDX_CMP /\ pc' = "done" /\ result' = result
    BY DEF Return, EndPass, sorting
<1>2. order = was /\ order' = s
  <2>1. Shape(s, a)'
      BY ReturnShape DEF Whole
  <2>. QED  BY <1>1, <2>1, OrderIsNext DEF order
<1>3. /\ Infos /\ Typed /\ size \in Nat \ {0} /\ insize \in Nat \ {0} /\ nmerges \in {0, 1}
      /\ Perm(s) /\ Perm(was) /\ Stable(s)
      /\ Runs(s, Double, 0, size) /\ size <= Double * nmerges
  <2>1. Runs(s, Double, 0, size) /\ size <= Double * nmerges /\ Perm(was) /\ Stable(s)
    <3>1. Shape(s, a) /\ Ordered(s, a) /\ EndPass /\ UNCHANGED data
        BY <1>1 DEF Whole
    <3>. QED  BY <3>1, PassDone
  <2>2. Shape(s, a)
      BY DEF Whole
  <2>3. /\ Infos /\ Typed /\ Perm(s)
        /\ size \in Nat \ {0} /\ insize \in Nat \ {0} /\ nmerges \in Nat
      BY <2>2 DEF Shape, Infos, Typed
  <2>. QED  BY <1>1, <2>1, <2>3
<1>4. ASSUME NEW j \in 1..size, NEW k \in 1..size, j < k PROVE Le(s[j], s[k])
  <2>1. Double \in Nat \ {0} /\ size <= Double
      BY <1>3 DEF Double
  <2>2. Double * 0 < j /\ k <= Double * 0 + Double
      BY <1>3, <1>4, <2>1
  <2>. QED  BY <1>3, <1>4, <2>2 DEF Runs
<1>5. /\ s \in [1..size -> Nodes] /\ was \in [1..size -> Nodes]
      /\ DOMAIN s = 1..size /\ DOMAIN was = 1..size
      /\ Len(s) = size /\ Len(was) = size
  <2>1. s \in [1..size -> Nodes] /\ was \in [1..size -> Nodes]
      BY <1>3 DEF Perm
  <2>. QED  BY <1>3, <2>1, FcnIsSeq
<1>6. {s[j] : j \in DOMAIN s} = {was[j] : j \in DOMAIN was}
  <2>1. \A t : Perm(t) /\ DOMAIN t = 1..size => {t[j] : j \in DOMAIN t} = Nodes
      BY DEF Perm
  <2>. QED  BY <1>3, <1>5, <2>1
<1>. DEFINE where(n) == CHOOSE j \in DOMAIN was : was[j] = n
<1>7. \A p \in 1..size : where(was[p]) = p
    BY <1>3, <1>5 DEF Perm
<1>. HIDE DEF where
<1>8. ASSUME NEW j \in 1..size, NEW k \in 1..size, j < k
      PROVE  \/ Lt(s[j], s[k])
             \/ ~Lt(s[k], s[j]) /\ where(s[j]) < where(s[k])
  <2>. SUFFICES ASSUME Eq(s[j], s[k])
                PROVE  ~Lt(s[k], s[j]) /\ where(s[j]) < where(s[k])
      BY <1>4, <1>8 DEF Le
  <2>1. WasBefore(s[j], s[k])
      BY <1>3, <1>8 DEF Stable
  <2>2. PICK p \in 1..size : \E q \in 1..size : p < q /\ was[p] = s[j] /\ was[q] = s[k]
      BY <1>5, <2>1 DEF WasBefore
  <2>3. PICK q \in 1..size : p < q /\ was[p] = s[j] /\ was[q] = s[k]
      BY <2>2
  <2>4. s[j] \in Nodes /\ s[k] \in Nodes
      BY <1>5
  <2>5. ~Lt(s[k], s[j])
      BY <1>3, <2>4, Compares DEF Lt, Eq
  <2>. QED  BY <1>7, <2>3, <2>5
<1>9. \A j \in 1..size : s[j] \in Nodes
    BY <1>5
<1>10. CASE cmp = DATA_CMP
  <2>1. \A x, y \in Nodes : Lt(x, y) <=> Order!DataBefore(x, y)
      BY <1>3, <1>10, Compares DEF Order!DataBefore
  <2>2. \A j, k \in DOMAIN s : j < k =>
            \/ Order!DataBefore(s[j], s[k])
            \/ ~Order!DataBefore(s[k], s[j]) /\ where(s[j]) < where(s[k])
      BY <1>5, <1>8, <1>9, <2>1
  <2>3. Phase = "data" /\ Phase' = "idx" /\ found' = found
      BY <1>1, <1>10 DEF Phase, found, DATA_CMP, IDX_CMP
  <2>4. /\ Len(order') = Len(order)
        /\ {order'[j] : j \in DOMAIN order'} = {order[j] : j \in DOMAIN order}
      BY <1>2, <1>5, <1>6
  <2>5. \A n : Order!At(order, n) = where(n)
      BY <1>2, Zenon DEF Order!At, where
  <2>6. \A j, k \in DOMAIN order' : j < k =>
            \/ Order!DataBefore(order'[j], order'[k])
            \/ /\ ~Order!DataBefore(order'[k], order'[j])
               /\ Order!At(order, order'[j]) < Order!At(order, order'[k])
    <3>1. \A j, k \in DOMAIN s : j < k =>
              \/ Order!DataBefore(s[j], s[k])
              \/ /\ ~Order!DataBefore(s[k], s[j])
                 /\ Order!At(order, s[j]) < Order!At(order, s[k])
        BY <2>2, <2>5
    <3>. QED  BY <1>2, <3>1, Zenon
  <2>. QED  BY <1>1, <2>3, <2>4, <2>6
            DEF Order!SortData, Order!StableSort, order, found
<1>11. CASE cmp = IDX_CMP
  <2>1. \A x, y \in Nodes : Lt(x, y) <=> Order!IdxBefore(x, y)
      BY <1>3, <1>11, Compares DEF Order!IdxBefore
  <2>2. \A j, k \in DOMAIN s : j < k =>
            \/ Order!IdxBefore(s[j], s[k])
            \/ ~Order!IdxBefore(s[k], s[j]) /\ where(s[j]) < where(s[k])
      BY <1>5, <1>8, <1>9, <2>1
  <2>3. /\ Phase = "idx"
        /\ \/ Phase' = "search" /\ found' = <<>>
           \/ Phase' = "done" /\ found' = found
      BY <1>1, <1>11 DEF Phase, found, DATA_CMP, IDX_CMP
  <2>4. /\ Len(order') = Len(order)
        /\ {order'[j] : j \in DOMAIN order'} = {order[j] : j \in DOMAIN order}
      BY <1>2, <1>5, <1>6
  <2>5. \A n : Order!At(order, n) = where(n)
      BY <1>2, Zenon DEF Order!At, where
  <2>6. \A j, k \in DOMAIN order' : j < k =>
            \/ Order!IdxBefore(order'[j], order'[k])
            \/ /\ ~Order!IdxBefore(order'[k], order'[j])
               /\ Order!At(order, order'[j]) < Order!At(order, order'[k])
    <3>1. \A j, k \in DOMAIN s : j < k =>
              \/ Order!IdxBefore(s[j], s[k])
              \/ /\ ~Order!IdxBefore(s[k], s[j])
                 /\ Order!At(order, s[j]) < Order!At(order, s[k])
        BY <2>2, <2>5
    <3>. QED  BY <1>2, <3>1, Zenon
  <2>. QED  BY <1>1, <2>3, <2>4, <2>6
            DEF Order!SortIdx, Order!StableSort, order, found
<1>. QED  BY <1>3, <1>10, <1>11 DEF Typed

(* Every other step leaves the list that main knows as it is. *)
LEMMA StepRefines == Inv /\ [Next]_vars => [Order!Next]_(Order!vars)
<1>. SUFFICES ASSUME Inv, [Next]_vars PROVE [Order!Next]_(Order!vars)
    OBVIOUS
<1>1. PICK s : \E a : Whole(s, a)
    BY DEF Inv
<1>2. PICK a : Whole(s, a)
    BY <1>1
<1>3. CASE SearchNode
  <2>1. UNCHANGED <<data, key, cmp>> /\ pc = "search" /\ pc' = "search"
      BY <1>3 DEF SearchNode
  <2>2. order = s /\ order' = s
    <3>1. Shape(s, a)'
        BY <1>2, <1>3, SearchShape DEF Whole
    <3>. QED  BY <1>2, <2>1, <3>1, OrderIs, OrderIsNext DEF Whole
  <2>. QED  BY <2>1, <2>2 DEF Order!vars, order, Phase
<1>4. CASE SearchEnd
    BY <1>2, <1>4, SearchRefines DEF Order!Next
<1>5. CASE Call
  <2>1. UNCHANGED <<data, key, cmp, result>> /\ pc = "call" /\ pc' = "pass" /\ was' = Chain(memblk)
      BY <1>5 DEF Call
  <2>. QED  BY <2>1 DEF Order!vars, Phase
<1>6. CASE BeginPass \/ BeginMerge \/ Split \/ EndSplit \/ TakeRight \/ TakeLeft
           \/ EndMerge \/ NextPass
  <2>1. /\ UNCHANGED <<data, key, cmp, result, was>>
        /\ pc \in {"pass", "merges", "split", "merge"}
        /\ pc' \in {"pass", "merges", "split", "merge"}
      BY <1>6 DEF BeginPass, BeginMerge, Split, EndSplit, TakeRight, TakeLeft,
                  EndMerge, NextPass, EndPass, sorting
  <2>. QED  BY <2>1 DEF Order!vars, Phase
<1>7. CASE Return
    BY <1>2, <1>7, ReturnRefines DEF Order!Next
<1>8. CASE UNCHANGED vars
  <2>1. UNCHANGED <<data, key, cmp, result, was, pc, memblk, next>>
      BY <1>8 DEF vars
  <2>2. Chain(memblk)' = Chain(memblk)
      BY <2>1 DEF Chain, Walk, Nodes
  <2>. QED  BY <2>1, <2>2 DEF Order!vars, Phase
<1>. QED  BY <1>3, <1>4, <1>5, <1>6, <1>7, <1>8 DEF Next

(* Every turn finds all matches in the order of the list, then sorts it      *)
(* stably by data and by idx.                                                *)
THEOREM SortsInOrder == Infos /\ Init /\ [][Next]_vars => ImplementsOrder
<1>1. Infos /\ Init => Inv
    BY InitInv
<1>2. Inv /\ [Next]_vars => Inv'
    BY StepInv
<1>3. Init => Order!Init
    BY DEF Init, Order!Init, Phase
<1>. QED  BY <1>1, <1>2, <1>3, StepRefines, PTL DEF ImplementsOrder, Order!Spec
====
