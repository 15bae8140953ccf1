---- MODULE ListSort ----
(* examples/IoTBench: list_search_all and list_mergesort of                  *)
(* list_search_sort.c, called in turn by the loop of main.c.  The merge sort *)
(* is iterative and bottom-up, on the links of the list itself: while it     *)
(* runs, the nodes are spread over what is already merged (list to ret), the *)
(* rest of the left run (lsize nodes from left) and what is still to come    *)
(* (from right), and ret->next is stale.                                     *)
(*                                                                           *)
(* A node is its slot in the pool, which is also its idx (see ListPool);     *)
(* its data is a sequence, compared entry by entry.                          *)
EXTENDS Integers, Sequences, FiniteSets, SequencesExt

CONSTANTS
    Lists,          \* records [data, key]: the data of the nodes 0..m-1, and
                    \* the data to search for
    NUM_ITERATE     \* turns of main's loop

VARIABLES
    data, key, next,                \* infos and links of the nodes
    memblk, turn,                   \* main: head of the list, loop counter
    result,                         \* idx found by the last search
    pc, cmp,                        \* what runs, and the order it sorts by
    list, left, right, ret,         \* list_mergesort (list: list_search_all too)
    insize, nmerges, lsize, rsize,
    was                             \* history: the list a sort was called with

sorting == <<left, right, ret, insize, nmerges, lsize, rsize>>
vars == <<data, key, next, memblk, turn, result, pc, cmp, list, sorting, was>>

NULL == -1
Nodes == DOMAIN data
IDX_CMP == 0
DATA_CMP == 1

(* The first entries that differ decide. *)
Less(d, e) ==
    \E l \in DOMAIN d : d[l] < e[l] /\ \A k \in 1..(l - 1) : d[k] = e[k]

CmpData(d, e) == IF Less(e, d) THEN 1 ELSE IF d = e THEN 0 ELSE -1
CmpIdx(a, b) == IF a > b THEN 1 ELSE IF a = b THEN 0 ELSE -1

cmp_idx_value(a, b) ==
    IF cmp = DATA_CMP THEN CmpData(data[a], data[b]) ELSE CmpIdx(a, b)

(* The node k links behind node h, NULL from the end of the list on.         *)
Walk(h) ==
    LET at[k \in 0..Cardinality(Nodes)] ==
            IF k = 0 THEN h
            ELSE IF at[k - 1] = NULL THEN NULL ELSE next[at[k - 1]]
    IN  at

(* The list from node h on; longer than the pool if it runs in a circle.     *)
Chain(h) ==
    LET at == Walk(h)
    IN  [k \in 1..Cardinality({j \in DOMAIN at : at[j] # NULL}) |-> at[k - 1]]

(* Mutant: the list is assumed in rising order of idx. *)
InitRising ==
    /\ \E l \in Lists : data = l.data /\ key = l.key
    /\ memblk = 0 /\ turn = 0
    /\ next = [n \in Nodes |-> IF n + 1 \in Nodes THEN n + 1 ELSE NULL]
    /\ result = <<>> /\ list = memblk
    /\ pc = "search" /\ cmp = DATA_CMP
    /\ left = NULL /\ right = NULL /\ ret = NULL
    /\ insize = 1 /\ nmerges = 0 /\ lsize = 0 /\ rsize = 0
    /\ was = <<>>

(* list_init leaves the head first and the others youngest first.            *)
Init ==
    /\ \E l \in Lists : data = l.data /\ key = l.key
    /\ memblk = 0 /\ turn = 0
    /\ next = [n \in Nodes |->
                  IF n = 0 /\ 1 \in Nodes THEN Cardinality(Nodes) - 1
                  ELSE IF n <= 1 THEN NULL ELSE n - 1]
    /\ result = <<>> /\ list = memblk
    /\ pc = "search" /\ cmp = DATA_CMP
    /\ left = NULL /\ right = NULL /\ ret = NULL
    /\ insize = 1 /\ nmerges = 0 /\ lsize = 0 /\ rsize = 0
    /\ was = <<>>

-----------------------------------------------------------------------------
(* list_search_all(memblk, &info) *)
SearchNode ==
    /\ pc = "search" /\ list # NULL
    /\ result' = IF CmpData(data[list], key) # 0 THEN result ELSE Append(result, list)
    /\ list' = next[list]
    /\ UNCHANGED <<data, key, next, memblk, turn, pc, cmp, sorting, was>>

SearchEnd ==
    /\ pc = "search" /\ list = NULL
    /\ pc' = "call" /\ cmp' = DATA_CMP
    /\ UNCHANGED <<data, key, next, memblk, turn, result, list, sorting, was>>

-----------------------------------------------------------------------------
(* memblk = list_mergesort(memblk, cmp) *)
Call ==
    /\ pc = "call"
    /\ list' = memblk /\ was' = Chain(memblk)
    /\ insize' = 1
    /\ pc' = "pass"
    /\ UNCHANGED <<data, key, next, memblk, turn, result, cmp,
                   left, right, ret, nmerges, lsize, rsize>>

BeginPass ==
    /\ pc = "pass"
    /\ left' = list /\ list' = NULL /\ ret' = NULL /\ nmerges' = 0
    /\ pc' = "merges"
    /\ UNCHANGED <<data, key, next, memblk, turn, result, cmp,
                   right, insize, lsize, rsize, was>>

BeginMerge ==
    /\ pc = "merges" /\ left # NULL
    /\ nmerges' = nmerges + 1
    /\ right' = left /\ lsize' = 0 /\ rsize' = 0
    /\ pc' = "split"
    /\ UNCHANGED <<data, key, next, memblk, turn, result, cmp, list,
                   left, ret, insize, was>>

(* One turn of the for loop: its counter is lsize. *)
Split ==
    /\ pc = "split" /\ lsize < insize /\ right # NULL
    /\ lsize' = lsize + 1 /\ right' = next[right]
    /\ UNCHANGED <<data, key, next, memblk, turn, result, pc, cmp, list,
                   left, ret, insize, nmerges, rsize, was>>

EndSplit ==
    /\ pc = "split" /\ (lsize = insize \/ right = NULL)
    /\ rsize' = insize
    /\ pc' = "merge"
    /\ UNCHANGED <<data, key, next, memblk, turn, result, cmp, list,
                   left, right, ret, insize, nmerges, lsize, was>>

LeftEmpty == lsize = 0
RightEmpty == rsize = 0 \/ right = NULL

(* Add a node to the new list. *)
Add(n) ==
    /\ next' = IF ret = NULL THEN next ELSE [next EXCEPT ![ret] = n]
    /\ list' = IF ret = NULL THEN n ELSE list
    /\ ret' = n

(* Mutant: the right node of a tie goes first. *)
TakeRightOnTies ==
    /\ pc = "merge" /\ ~RightEmpty
    /\ ~LeftEmpty => cmp_idx_value(right, left) <= 0
    /\ Add(right)
    /\ right' = next[right] /\ rsize' = rsize - 1
    /\ UNCHANGED <<data, key, memblk, turn, result, pc, cmp,
                   left, insize, nmerges, lsize, was>>

TakeRight ==
    /\ pc = "merge" /\ ~RightEmpty
    /\ ~LeftEmpty => cmp_idx_value(right, left) < 0
    /\ Add(right)
    /\ right' = next[right] /\ rsize' = rsize - 1
    /\ UNCHANGED <<data, key, memblk, turn, result, pc, cmp,
                   left, insize, nmerges, lsize, was>>

TakeLeft ==
    /\ pc = "merge" /\ ~LeftEmpty
    /\ ~RightEmpty => cmp_idx_value(right, left) >= 0
    /\ Add(left)
    /\ left' = next[left] /\ lsize' = lsize - 1
    /\ UNCHANGED <<data, key, memblk, turn, result, pc, cmp,
                   right, insize, nmerges, rsize, was>>

(* Mutant: the next merge starts one node too late. *)
EndMergeSkips ==
    /\ pc = "merge" /\ LeftEmpty /\ RightEmpty
    /\ left' = IF right = NULL THEN NULL ELSE next[right]
    /\ pc' = "merges"
    /\ UNCHANGED <<data, key, next, memblk, turn, result, cmp, list,
                   right, ret, insize, nmerges, lsize, rsize, was>>

(* What is right of the two runs is the rest of the pass. *)
EndMerge ==
    /\ pc = "merge" /\ LeftEmpty /\ RightEmpty
    /\ left' = right
    /\ pc' = "merges"
    /\ UNCHANGED <<data, key, next, memblk, turn, result, cmp, list,
                   right, ret, insize, nmerges, lsize, rsize, was>>

(* Mutant: the last node keeps its stale link. *)
EndPassStale ==
    /\ pc = "merges" /\ left = NULL
    /\ UNCHANGED next

EndPass ==
    /\ pc = "merges" /\ left = NULL
    /\ next' = [next EXCEPT ![ret] = NULL]

(* Mutant: the runs do not grow. *)
NextPassSameSize ==
    /\ EndPass /\ nmerges > 1
    /\ pc' = "pass"
    /\ UNCHANGED <<data, key, memblk, turn, result, cmp, list, sorting, was>>

NextPass ==
    /\ EndPass /\ nmerges > 1
    /\ insize' = 2 * insize
    /\ pc' = "pass"
    /\ UNCHANGED <<data, key, memblk, turn, result, cmp, list,
                   left, right, ret, nmerges, lsize, rsize, was>>

(* The new list goes to the next call: the sort by idx, or the search of the *)
(* next turn, which writes its result over the last one.                     *)
Return ==
    /\ EndPass /\ nmerges <= 1
    /\ memblk' = list
    /\ \/ /\ cmp = DATA_CMP
          /\ cmp' = IDX_CMP /\ pc' = "call"
          /\ UNCHANGED <<turn, result>>
       \/ /\ cmp = IDX_CMP /\ turn + 1 < NUM_ITERATE
          /\ turn' = turn + 1 /\ pc' = "search" /\ result' = <<>>
          /\ UNCHANGED cmp
       \/ /\ cmp = IDX_CMP /\ turn + 1 = NUM_ITERATE
          /\ turn' = turn + 1 /\ pc' = "done"
          /\ UNCHANGED <<cmp, result>>
    /\ UNCHANGED <<data, key, list, sorting, was>>

Next ==
    \/ SearchNode \/ SearchEnd
    \/ Call \/ BeginPass \/ BeginMerge \/ Split \/ EndSplit
    \/ TakeRight \/ TakeLeft \/ EndMerge \/ NextPass \/ Return

Spec == Init /\ [][Next]_vars /\ WF_vars(Next)

-----------------------------------------------------------------------------
(* The pieces of the list inside a pass; the stale link of ret may lead back *)
(* to ret.                                                                   *)
Merged ==
    LET c == Chain(list)
        last == CHOOSE k \in DOMAIN c : c[k] = ret /\ \A j \in 1..(k - 1) : c[j] # ret
    IN  IF ret = NULL THEN <<>> ELSE SubSeq(c, 1, last)
LeftRun == IF lsize = 0 THEN <<>> ELSE SubSeq(Chain(left), 1, lsize)
InPass == pc \in {"merges", "split", "merge"}

(* While list_mergesort rewrites the links, no node is unreachable and none  *)
(* is reachable twice: merged nodes, the rest of the left run and what       *)
(* follows from right (from left between two merges) are the nodes of the    *)
(* list, each once.                                                          *)
NoNodeLost ==
    InPass =>
        LET rest == IF pc = "merges" THEN left ELSE right
            pieces == Merged \o (IF pc = "merges" THEN <<>> ELSE LeftRun) \o Chain(rest)
        IN  ToSet(pieces) = Nodes /\ Len(pieces) = Cardinality(Nodes)

(* At the start of a pass every run of insize nodes is sorted, and ties are  *)
(* in the order they were in when the sort was called.                       *)
RunsSorted ==
    pc = "pass" =>
        LET c == Chain(list) IN
        \A j, k \in DOMAIN c :
            j < k /\ (j - 1) \div insize = (k - 1) \div insize =>
                \/ cmp_idx_value(c[j], c[k]) < 0
                \/ /\ cmp_idx_value(c[j], c[k]) = 0
                   /\ \E p, q \in DOMAIN was : p < q /\ was[p] = c[j] /\ was[q] = c[k]

(* Every iteration finds all matches in the order of the list, and sorts     *)
(* stably by data and then by idx: what a reader of main expects of it.      *)
Phase ==
    CASE pc = "search" -> "search"
      [] pc = "done" -> "done"
      [] OTHER -> IF cmp = DATA_CMP THEN "data" ELSE "idx"

Order == INSTANCE ListOrder WITH
    order <- IF pc \in {"search", "call", "done"} THEN Chain(memblk) ELSE was,
    result <- IF pc = "search" THEN <<>> ELSE result,
    phase <- Phase

ImplementsOrder == Order!Spec
====
