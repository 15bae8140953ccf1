---- MODULE IoTMain ----
(* examples/IoTBench/main.c: three blocks of memory are set up one after the *)
(* other - the list carved out of list_memblk (ListPool), the matrices       *)
(* (MatrixBench) and the layer (ConvBench) - and every turn of the loop      *)
(* searches and sorts the list in place (ListSort), then runs the matrix     *)
(* operations and the convolution.  ListPool and ListSort meet in the links  *)
(* of the nodes: ListSort starts from the list it is handed.                 *)
EXTENDS ListPool, Sequences

CONSTANTS
    Lists, Blocks, Layers,      \* see ListSort, MatrixBench and ConvBench
    Setups,         \* sets of records [blksize, list, block, layer]: the size
                    \* of list_memblk, the infos that fill it and the info to
                    \* search for, and what runs beside it
    NUM_ITERATE, val, WORD,
    Words,          \* what BitXor and BitOr are applied to and give: uint32_t
    BitXor(_, _), BitOr(_, _)

(* The nodes that a block of b bytes holds, see OneSlotSpare. *)
NodesIn(b) ==
    LET items == (b \div ItemSize) - 1 IN IF items = 1 THEN 1 ELSE items - 1

(* The infos are those of the nodes that list_init makes; all of them and    *)
(* the one to search for have the same number of entries.                    *)
ASSUME SetupsAssumption ==
    \A family \in Setups : \A s \in family :
        s.blksize \in BlkSizes =>
            /\ s.list.key \in Seq(Int)
            /\ s.list.data \in [0..(NodesIn(s.blksize) - 1) -> [1..Len(s.list.key) -> Int]]

(* Room for one element of each matrix, and the size of twice the matrices   *)
(* in every dimension is still counted.                                      *)
ASSUME BlocksAssumption ==
    /\ WORD \in Nat
    /\ \A b \in Blocks :
          b.dim \in 1..3 /\ b.size \in Nat /\ b.size > 12 /\ 8 * b.size <= WORD

(* The same for the layers; WORD is a multiple of SIZEOF, as 2^32 is, and    *)
(* strides and filters are those for which ConvBench promises the widest     *)
(* input.                                                                    *)
ASSUME LayersAssumption ==
    /\ WORD \in Nat /\ WORD % 4 = 0
    /\ \A l \in Layers :
          /\ l.dim \in 1..3 /\ l.stride \in {1, 2} /\ l.filter_size \in 1..3
          /\ l.Ic \in Nat \ {0} /\ l.Oc \in Nat \ {0}
          /\ l.size \in Nat \ {0} /\ 8 * l.size <= WORD

(* Seeds and indexes are words, and so is what the bit operations make of    *)
(* them.                                                                     *)
ASSUME WordsAssumption ==
    /\ Words \subseteq Nat /\ val \in Nat
    /\ \A x, y \in Words : BitXor(x, y) \in Words /\ BitOr(x, y) \in Words
    /\ \A b \in Blocks : b.seed \in Words /\ 0..(b.size \div 4) \subseteq Words
    /\ \A l \in Layers : l.seed \in Words /\ 0..(l.size \div 4) \subseteq Words

VARIABLES
    data, key, links, list_head, turn, result, step, cmp,
    list, left, right, ret, insize, nmerges, lsize, rsize, was,
    block, mat_pc, mat_turn, mat_i, N, mem, t,
    layer, conv_pc, conv_turn, conv_i, InWidth, conv_mem, conv_t

S == INSTANCE ListSort WITH next <- links, memblk <- list_head, pc <- step

M == INSTANCE MatrixBench WITH pc <- mat_pc, turn <- mat_turn, i <- mat_i

Conv == INSTANCE ConvBench WITH
    pc <- conv_pc, turn <- conv_turn, i <- conv_i, mem <- conv_mem, t <- conv_t

listVars == <<data, key, links, list_head, turn, result, step, cmp,
              list, left, right, ret, insize, nmerges, lsize, rsize, was>>
matVars == <<block, mat_pc, mat_turn, mat_i, N, mem, t>>
convVars == <<layer, conv_pc, conv_turn, conv_i, InWidth, conv_mem, conv_t>>
mainVars == <<vars, listVars, matVars, convVars>>

MainInit ==
    /\ \E family \in Setups : \E s \in family :
          /\ blksize = s.blksize /\ data = s.list.data /\ key = s.list.key
          /\ block = s.block /\ layer = s.layer
    /\ Init /\ S!Init /\ M!Init /\ Conv!Init

(* Before the loop *)
ListInit == Next /\ UNCHANGED <<listVars, matVars, convVars>>
MatrixInit == pc = "done" /\ M!MatrixInit /\ UNCHANGED <<vars, listVars, convVars>>
ConvInit == mat_pc = "add_const" /\ Conv!ConvInit /\ UNCHANGED <<vars, listVars, matVars>>

(* A turn of the loop *)
RunList ==
    /\ conv_pc = "ready" /\ conv_turn = turn
    /\ S!Next
    /\ UNCHANGED <<vars, matVars, convVars>>
RunMatrix == mat_turn < turn /\ M!MatrixTurn /\ UNCHANGED <<vars, listVars, convVars>>
RunConv == conv_turn < mat_turn /\ Conv!ConvTurn /\ UNCHANGED <<vars, listVars, matVars>>

MainNext == ListInit \/ MatrixInit \/ ConvInit \/ RunList \/ RunMatrix \/ RunConv

Main == MainInit /\ [][MainNext]_mainVars /\ WF_mainVars(MainNext)

-----------------------------------------------------------------------------
(* The list that the loop starts with is the one list_init has made: the     *)
(* same nodes, the same links, and a node's idx is its slot.                 *)
HandedOver ==
    pc = "done" /\ step = "search" /\ turn = 0 =>
        /\ links = next
        /\ \A n \in Nodes : idx[info[n]] = n

(* See ListSort, MatrixBench and ConvBench. *)
NoNodeLost == S!NoNodeLost
RunsSorted == S!RunsSorted
ImplementsOrder == S!ImplementsOrder
UsesBlock == M!UsesBlock
ProductRight == M!ProductRight
FitsBlock == Conv!FitsBlock
ConvRight == Conv!ConvRight

(* main gets through the three initialisations and all turns of the loop,    *)
(* whatever the configuration.                                               *)
Terminates == <>(step = "done" /\ conv_turn = NUM_ITERATE)
====
