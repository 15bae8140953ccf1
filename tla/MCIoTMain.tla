---- MODULE MCIoTMain ----
(* Blocks of every size that holds from one to MaxNodes nodes, and the infos *)
(* list_init fills them with, for integer data of DATA_DIM 1 (a list_node of *)
(* 8 and a list_data of 12 bytes on i386): info i has the two entries        *)
(* (seed ^ i) + 0 and (seed ^ i) + 1, the key seed ^ 0 and seed ^ 1, the     *)
(* head 0.                                                                   *)
(*                                                                           *)
(* The entries are uint32_t.  Those of a negative seed are just below 2^32   *)
(* (the seed is sign-extended); High stands for 2^32, which TLC cannot count *)
(* to, and High + 0 wraps around to 0.  With LOW_ACCURACY entries are        *)
(* compared as floats, and all those within 128 of 2^32 become 2^32.         *)
(*                                                                           *)
(* Matrix blocks and layers lie around the next scale, for all dimensions.   *)
(* Every list runs with one block and layer, every block and every layer     *)
(* with one list: they share no memory.                                      *)
EXTENDS IoTMain, Bitwise

CONSTANTS MaxNodes, Seeds

MCXor(a, b) == a ^^ b
MCOr(a, b) == a | b

(* The bits of the seeds and of the words of a block. *)
MCWords == 0..127

-----------------------------------------------------------------------------
ListSeeds == -8..7
Accuracies == {"NORMAL", "LOW_ACCURACY"}

High == 2 ^ 20
Word(x) == IF x >= High THEN x - High ELSE x
Unsigned(x) == IF x < 0 THEN High + x ELSE x
Value(x, accuracy) == IF accuracy = "LOW_ACCURACY" /\ x > High \div 2 THEN High ELSE x

(* ^ of a seed in ListSeeds and an index below 8 *)
SeedXor(seed, n) == Unsigned(((seed + 8) ^^ n) - 8)

ListOf(b, seed, accuracy) ==
    [data |-> [n \in 0..(NodesIn(b) - 1) |->
                  [l \in 1..2 |->
                      IF n = 0 THEN 0 ELSE Value(Word(SeedXor(seed, n) + l - 1), accuracy)]],
     key |-> [l \in 1..2 |-> Value(SeedXor(seed, l - 1), accuracy)]]

(* Every block size with one seed, and every seed with the least block of    *)
(* every number of nodes.                                                    *)
MCBlkSizes == (2 * ItemSize)..((MaxNodes + 3) * ItemSize - 1)
Least == {n * ItemSize : n \in 2..(MaxNodes + 2)}
Configs ==
    {[blksize |-> b, list |-> ListOf(b, (b % 16) - 8, "NORMAL")] : b \in MCBlkSizes} \cup
    {[blksize |-> b, list |-> ListOf(b, seed, accuracy)] :
        b \in Least, seed \in ListSeeds, accuracy \in Accuracies}
MCLists == {c.list : c \in Configs}

-----------------------------------------------------------------------------
MCBlocks == [dim : 1..3, size : {24, 47, 48, 50, 96, 97, 110, 324, 325}, seed : Seeds]

(* The input should not be narrower than the filter (benchmark.h:170).       *)
Room(l) ==
    4 * (l.Ic * l.filter_size ^ l.dim + l.Oc * l.Ic * l.filter_size ^ l.dim + 2 * l.Oc) < l.size
LayersOf(dim, sizes, filters, channels) ==
    [dim : {dim}, size : sizes, seed : Seeds, stride : {1, 2}, filter_size : filters,
     Ic : channels, Oc : {1, 2}]
MCLayers ==
    {l \in LayersOf(1, {90, 120, 121}, 1..3, {1, 2}) \cup LayersOf(2, {160, 208, 300}, {1, 2}, {1, 2})
           \cup LayersOf(3, {180, 250, 400}, {2}, {1}) : Room(l)}

-----------------------------------------------------------------------------
OneBlock == CHOOSE b \in MCBlocks : b.dim = 1 /\ b.size = 24
OneLayer == CHOOSE l \in MCLayers : l.dim = 1 /\ l.size = 90 /\ l.filter_size = 1 /\ l.Ic = 1
OneConfig == CHOOSE c \in Configs : c.blksize = 4 * ItemSize

Setup(c, b, l) == [blksize |-> c.blksize, list |-> c.list, block |-> b, layer |-> l]
MCSetups ==
    { {Setup(c, OneBlock, OneLayer) : c \in Configs},
      {Setup(OneConfig, b, OneLayer) : b \in MCBlocks},
      {Setup(OneConfig, OneBlock, l) : l \in MCLayers} }
====
