---- MODULE ConvBench ----
(* examples/IoTBench/conv.c: a convolution without padding of an input of    *)
(* Ic channels and InWidth^CONV_DIM words with Oc filters of                 *)
(* filter_size^CONV_DIM words per channel.  conv1D, conv2D and conv3D are    *)
(* one definition here, over the number of dimensions; input, output,        *)
(* filters and biases lie one behind the other in a block of memory.         *)
(*                                                                           *)
(* Integer data (TEST_TYPE INT_TYPE, CALCULATE_ACCURACY NORMAL).  The        *)
(* innermost loop is one step.                                               *)
EXTENDS Integers, Sums

CONSTANTS
    Layers,         \* records [dim, size, seed, stride, filter_size, Ic, Oc]
    WORD,           \* number of values of a uint32_t, scaled down
    NUM_ITERATE,
    BitXor(_, _)

VARIABLES
    layer, pc, turn,
    i, InWidth,     \* scale of the input
    mem,
    t               \* turns of the nested loops of conv1D, conv2D or conv3D

vars == <<layer, pc, turn, i, InWidth, mem, t>>

D == layer.dim
S == layer.stride
K == layer.filter_size
Ic == layer.Ic
Oc == layer.Oc
SIZEOF == 4

(* Places the filter has in one dimension of an input of width w; unsigned   *)
(* in conv_init, where w may still be smaller than the filter.               *)
Places(w) == (((w - K) % WORD) \div S + 1) % WORD
OutWidth == (InWidth - K) \div S + 1

(* The loops of conv.c multiply; there is no power in it.                    *)
Cube(n, d) == IF d = 0 THEN 1 ELSE IF d = 1 THEN n ELSE IF d = 2 THEN n * n ELSE n * n * n

InSize == Ic * Cube(InWidth, D)
OutSize == Oc * Cube(OutWidth, D)
FilterSize == Oc * Ic * Cube(K, D)

In(x) == x
Out(x) == InSize + x
Filter(x) == InSize + OutSize + x
Bias(x) == InSize + OutSize + FilterSize + x

Init ==
    /\ layer \in Layers
    /\ pc = "size" /\ turn = 0 /\ i = 0 /\ InWidth = 0 /\ t = 0
    /\ mem = [w \in 0..((layer.size \div SIZEOF) - 1) |-> 0]

-----------------------------------------------------------------------------
(* conv_init *)
Times(x, y) == (x * y) % WORD
Power(x) == CASE D = 1 -> x [] D = 2 -> Times(x, x) [] D = 3 -> Times(x, Times(x, x))

(* Mutant: the biases are forgotten. *)
NeedNoBias(w) == (Power(w) * Ic + FilterSize + Power(Places(w)) * Oc) * SIZEOF % WORD
Need(w) == (Power(w) * Ic + FilterSize + Power(Places(w)) * Oc + Oc) * SIZEOF % WORD

Grow ==
    /\ pc = "size" /\ (i > 0 => Need(i) < layer.size)
    /\ i' = i + 1
    /\ UNCHANGED <<layer, pc, turn, InWidth, mem, t>>

Scale ==
    /\ pc = "size" /\ i > 0 /\ Need(i) >= layer.size
    /\ InWidth' = i - 1
    /\ pc' = "fill"
    /\ UNCHANGED <<layer, turn, i, mem, t>>

(* The d-th coordinate of x, in a cube of that width; coordinate 0 runs      *)
(* fastest.                                                                  *)
Coord(x, width, d) == (x \div Cube(width, d)) % width

FirstIn(x) ==
    LET channel == x \div Cube(InWidth, D)
    IN  CASE D = 1 -> BitXor(BitXor(layer.seed, channel), Coord(x, InWidth, 0))
          [] D = 2 -> BitXor(BitXor(BitXor(layer.seed, channel), Coord(x, InWidth, 1)), Coord(x, InWidth, 0))
          [] D = 3 -> BitXor(layer.seed, x)
FirstFilter(x) == BitXor(layer.seed, x)
FirstBias(x) == BitXor(layer.seed, x)

Fill ==
    /\ pc = "fill"
    /\ mem' = [w \in DOMAIN mem |->
                  CASE w \in {In(x) : x \in 0..(InSize - 1)} -> FirstIn(w)
                    [] w \in {Filter(x) : x \in 0..(FilterSize - 1)} -> FirstFilter(w - Filter(0))
                    [] w \in {Bias(x) : x \in 0..(Oc - 1)} -> FirstBias(w - Bias(0))
                    [] OTHER -> mem[w]]
    /\ pc' = "ready"
    /\ UNCHANGED <<layer, turn, i, InWidth, t>>

-----------------------------------------------------------------------------
Begin ==
    /\ pc = "ready" /\ turn < NUM_ITERATE
    /\ pc' = "conv" /\ t' = 0
    /\ UNCHANGED <<layer, turn, i, InWidth, mem>>

(* The nested loops: output channel, input channel, place, filter word.      *)
filterWord == t % Cube(K, D)
place == (t \div Cube(K, D)) % Cube(OutWidth, D)
ni == (t \div (Cube(K, D) * Cube(OutWidth, D))) % Ic
no == t \div (Cube(K, D) * Cube(OutWidth, D) * Ic)

OIdx == no * Cube(OutWidth, D) + place
WIdx == no * Cube(K, D) * Ic + ni * Cube(K, D) + filterWord

(* Mutant: the step of the filter ignores the stride. *)
IIdxNoStride ==
    ni * Cube(InWidth, D) + Total([d \in 0..(D - 1) |->
        (Coord(filterWord, K, d) + Coord(place, OutWidth, d)) * Cube(InWidth, d)], D)
IIdx ==
    ni * Cube(InWidth, D) + Total([d \in 0..(D - 1) |->
        (Coord(filterWord, K, d) + Coord(place, OutWidth, d) * S) * Cube(InWidth, d)], D)

Convolve ==
    /\ pc = "conv" /\ no < Oc
    /\ LET sum == IF ni = 0 /\ filterWord = 0 THEN mem[Bias(no)] ELSE mem[Out(OIdx)]
       IN  mem' = [mem EXCEPT ![Out(OIdx)] = (sum + mem[In(IIdx)] * mem[Filter(WIdx)]) % WORD]
    /\ t' = t + 1
    /\ UNCHANGED <<layer, pc, turn, i, InWidth>>

End ==
    /\ pc = "conv" /\ no = Oc
    /\ pc' = "ready" /\ turn' = turn + 1
    /\ UNCHANGED <<layer, i, InWidth, mem, t>>

ConvInit == Grow \/ Scale \/ Fill
ConvTurn == Begin \/ Convolve \/ End
Next == ConvInit \/ ConvTurn

-----------------------------------------------------------------------------
(* The input is the widest the block has room for, in particular at least as *)
(* wide as the filter (benchmark.h:170 asks for it), and the four regions    *)
(* end within the block: the wrap-around of the unsigned scale below the     *)
(* width of the filter does not stop the search for the scale.  For a stride *)
(* of 1 or 2 and filters of at most 3; else it may stop it, see the README.  *)
Bytes(w) == (Ic * Cube(w, D) + FilterSize + Oc * Cube((w - K) \div S + 1, D) + Oc) * SIZEOF
FitsBlock ==
    pc # "size" /\ Bytes(K) < layer.size =>
        /\ InWidth >= K /\ Bytes(InWidth + 1) >= layer.size
        /\ (Bias(Oc - 1) + 1) * SIZEOF <= layer.size

(* After every turn each output is its bias plus the products of the filter, *)
(* laid at the place's coordinates, with the input it covers, summed over    *)
(* the channels; a turn does not add to the last one.  For blocks with room  *)
(* for an input as wide as the filter, which has a place at all.             *)
ConvRight ==
    pc = "ready" /\ turn > 0 /\ Bytes(K) < layer.size =>
        \A o \in 0..(Oc - 1), x \in 0..(Cube(OutWidth, D) - 1) :
            LET Corner == Total([d \in 0..(D - 1) |->
                    S * Coord(x, OutWidth, d) * Cube(InWidth, d)], D)
                Offset(k) == Total([d \in 0..(D - 1) |-> Coord(k, K, d) * Cube(InWidth, d)], D)
                Channel(c) == Total([k \in 0..(Cube(K, D) - 1) |->
                    FirstIn(c * Cube(InWidth, D) + Corner + Offset(k))
                        * FirstFilter((o * Ic + c) * Cube(K, D) + k)], Cube(K, D))
            IN  mem[Out(o * Cube(OutWidth, D) + x)] =
                    (FirstBias(o) + Total([c \in 0..(Ic - 1) |-> Channel(c)], Ic)) % WORD
====
