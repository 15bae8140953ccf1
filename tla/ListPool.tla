---- MODULE ListPool ----
(* examples/IoTBench/list_search_sort.c, list_init and list_insert: a linked *)
(* list carved out of one memory block.  The nodes grow from the start of    *)
(* the block, their data from the first byte behind the space for item_num   *)
(* nodes; the two bump pointers memblk and datablk are never moved back.     *)
(*                                                                           *)
(* A node or a datum is its slot in its region; what it occupies is the      *)
(* range of bytes Bytes gives.  The content of the data is not modelled      *)
(* here, only the idx that orders the list.                                  *)
EXTENDS Integers

CONSTANTS
    BlkSizes,       \* sizes of the block, in bytes
    NodeSize,       \* sizeof(list_node), two pointers
    DataSize        \* sizeof(list_data)

(* Mutant: the budget of an item counts one pointer. *)
ItemSizeOnePointer == 4 + DataSize
ItemSize == 16 + DataSize

(* Room for two items, so that item_num does not wrap around and the head's  *)
(* data does not start at the head, and no more than a uint16_t idx counts;  *)
(* nodes no larger than the 16 bytes list_init reckons with (8 on i386).     *)
ASSUME SizesAssumption ==
    /\ NodeSize \in 1..16 /\ DataSize \in Nat \ {0}
    /\ \A b \in BlkSizes : b \in Nat /\ 2 * ItemSize <= b /\ b < 65537 * ItemSize

VARIABLES
    blksize,            \* bytes in the block
    pc,                 \* "head", "insert" or "done"
    i,                  \* the loop variable: next idx to insert
    memblk, datablk,    \* next free node and data slot
    next, info, idx     \* memory: fields of the nodes and data in use

item_num == (blksize \div ItemSize) - 1

vars == <<blksize, pc, i, memblk, datablk, next, info, idx>>

NULL == -1
head == 0

Init ==
    /\ blksize \in BlkSizes
    /\ pc = "head" /\ i = 1
    /\ memblk = 0 /\ datablk = 0
    /\ next = [s \in {} |-> NULL] /\ info = next /\ idx = next

Nodes == DOMAIN next
Data == DOMAIN idx

(* f with one more point *)
Put(f, x, v) == [y \in DOMAIN f \cup {x} |-> IF y = x THEN v ELSE f[y]]

-----------------------------------------------------------------------------
InitHead ==
    /\ pc = "head"
    /\ next' = Put(next, head, NULL)
    /\ info' = Put(info, head, datablk)
    /\ idx' = Put(idx, datablk, 0)
    /\ memblk' = memblk + 1 /\ datablk' = datablk + 1
    /\ pc' = "insert"
    /\ UNCHANGED <<blksize, i>>

(* Mutant: the guards against the ends of the regions are off by two.        *)
FullOffByTwo == memblk > item_num \/ datablk > item_num
Full == memblk + 1 >= item_num \/ datablk + 1 >= item_num

(* Mutants of list_insert: the new node is linked the wrong way round; its   *)
(* data pointer is not advanced.                                             *)
InsertLosesTail ==
    /\ pc = "insert" /\ i <= item_num /\ ~Full
    /\ next' = [Put(next, memblk, NULL) EXCEPT ![head] = memblk]
    /\ info' = Put(info, memblk, datablk)
    /\ idx' = Put(idx, datablk, i)
    /\ memblk' = memblk + 1 /\ datablk' = datablk + 1
    /\ i' = i + 1
    /\ UNCHANGED <<blksize, pc>>

InsertSharesData ==
    /\ pc = "insert" /\ i <= item_num /\ ~Full
    /\ next' = [Put(next, memblk, next[head]) EXCEPT ![head] = memblk]
    /\ info' = Put(info, memblk, datablk)
    /\ idx' = Put(idx, datablk, i)
    /\ memblk' = memblk + 1
    /\ i' = i + 1
    /\ UNCHANGED <<blksize, pc, datablk>>

(* list_insert(list, ...): always behind the head, so the list is in         *)
(* descending order of idx.                                                  *)
Insert ==
    /\ pc = "insert" /\ i <= item_num /\ ~Full
    /\ next' = [Put(next, memblk, next[head]) EXCEPT ![head] = memblk]
    /\ info' = Put(info, memblk, datablk)
    /\ idx' = Put(idx, datablk, i)
    /\ memblk' = memblk + 1 /\ datablk' = datablk + 1
    /\ i' = i + 1
    /\ UNCHANGED <<blksize, pc>>

(* NULL is returned and ignored by list_init. *)
InsertFails ==
    /\ pc = "insert" /\ i <= item_num /\ Full
    /\ i' = i + 1
    /\ UNCHANGED <<blksize, pc, memblk, datablk, next, info, idx>>

Finish ==
    /\ pc = "insert" /\ i > item_num
    /\ pc' = "done"
    /\ UNCHANGED <<blksize, i, memblk, datablk, next, info, idx>>

Next == InitHead \/ Insert \/ InsertFails \/ Finish

(* Fairness is main's, see IoTMain. *)
Spec == Init /\ [][Next]_vars

-----------------------------------------------------------------------------
(* The bump pointers stay in their regions, and the fields of the nodes in   *)
(* use point at nodes and data in use.                                       *)
TypeOK ==
    /\ blksize \in BlkSizes
    /\ pc \in {"head", "insert", "done"}
    /\ i \in 1..(item_num + 1)
    /\ memblk \in 0..item_num /\ datablk \in 0..item_num
    /\ next \in [0..(memblk - 1) -> (0..(memblk - 1)) \cup {NULL}]
    /\ info \in [0..(memblk - 1) -> 0..(datablk - 1)]
    /\ idx \in [0..(datablk - 1) -> 0..item_num]

(* The bytes of a node and of a datum: from the first to behind the last.    *)
NodeAt(n) == NodeSize * n
DataAt(d) == NodeSize * item_num + DataSize * d

(* Every node and datum in use lies in the block, and no node reaches into   *)
(* the data: with regions of equal slots, that keeps all of them apart.      *)
InBlock ==
    /\ \A n \in Nodes : NodeAt(n) + NodeSize <= DataAt(0)
    /\ \A d \in Data : DataAt(d) + DataSize <= blksize

(* No two nodes share their data. *)
NoSharedData == \A m, n \in Nodes : info[m] = info[n] => m = n

(* The list from the head is the pool: the head points at the youngest node, *)
(* every other node at the one inserted just before it, the oldest at NULL.  *)
(* So it is acyclic and loses no node, and idx falls along it.               *)
Chained ==
    Nodes # {} =>
        /\ next[head] = (IF memblk = 1 THEN NULL ELSE memblk - 1)
        /\ \A n \in Nodes \ {head} : next[n] = IF n = 1 THEN NULL ELSE n - 1
        /\ \A m, n \in Nodes \ {head} : m < n => idx[info[m]] < idx[info[n]]

(* How much a block holds: the two guards leave the last slot of both        *)
(* regions unused, so that two of the item_num insertions come to nothing.   *)
OneSlotSpare ==
    pc = "done" => memblk = (IF item_num = 1 THEN 1 ELSE item_num - 1) /\ datablk = memblk
====
