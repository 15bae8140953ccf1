---- MODULE MatrixBench ----
(* examples/IoTBench/matrix.c: three matrices of N^DATA_DIM words laid out   *)
(* one behind the other in a block of memory, and the operations main runs   *)
(* on them in every turn of its loop: A gets a constant added, C = A * const,*)
(* C = A * B.  A is changed in place, so every turn works on a new A.        *)
(*                                                                           *)
(* Integer data (TEST_TYPE INT_TYPE, CALCULATE_ACCURACY NORMAL).  Memory is  *)
(* the words of the block; the innermost loop is one step.                   *)
EXTENDS Integers, Sums

CONSTANTS
    Blocks,         \* records [dim, size, seed]: DATA_DIM, bytes (room for
                    \* one element of each matrix), mat_seed
    val,            \* what is added and multiplied
    WORD,           \* number of values of a uint32_t, scaled down
    NUM_ITERATE,
    BitXor(_, _), BitOr(_, _)

VARIABLES
    block, pc, turn,
    i, N,           \* scale of the matrices
    mem,
    t               \* turns of the nested loops of matrix_mul_matrix

vars == <<block, pc, turn, i, N, mem, t>>

D == block.dim
SIZEOF == 4

(* The loops of matrix.c multiply; there is no power in it.                  *)
Power(n, d) == IF d = 0 THEN 1 ELSE IF d = 1 THEN n ELSE IF d = 2 THEN n * n ELSE n * n * n

Elems == Power(N, D)
Positions == 0..(Elems - 1)

(* The d-th coordinate of a position, counted from the innermost loop.       *)
Coord(p, d) == (p \div Power(N, d)) % N

A(p) == p
B(p) == Elems + p
C(p) == 2 * Elems + p

Init ==
    /\ block \in Blocks
    /\ pc = "size" /\ turn = 0 /\ i = 0 /\ N = 0 /\ t = 0
    /\ mem = [w \in 0..((block.size \div SIZEOF) - 1) |-> 0]

-----------------------------------------------------------------------------
(* matrix_init *)
Need(n) == (Power(n, D) * SIZEOF * 3) % WORD

Scale1 ==
    /\ pc = "size" /\ D = 1
    /\ N' = block.size \div (SIZEOF * 3)
    /\ pc' = "fill"
    /\ UNCHANGED <<block, turn, i, mem, t>>

(* j is 0 before the first turn, although that is also Need(0). *)
Grow ==
    /\ pc = "size" /\ D > 1 /\ Need(i) < block.size
    /\ i' = i + 1
    /\ UNCHANGED <<block, pc, turn, N, mem, t>>

(* Mutant: the scale that no longer fits. *)
ScaleTooLarge ==
    /\ pc = "size" /\ D > 1 /\ Need(i) >= block.size
    /\ N' = i
    /\ pc' = "fill"
    /\ UNCHANGED <<block, turn, i, mem, t>>
Scale ==
    /\ pc = "size" /\ D > 1 /\ Need(i) >= block.size
    /\ N' = i - 1
    /\ pc' = "fill"
    /\ UNCHANGED <<block, turn, i, mem, t>>

FirstA(p) ==
    CASE D = 1 -> BitOr(BitXor(block.seed, p), p)
      [] D = 2 -> BitXor(block.seed, Coord(p, 0))
      [] D = 3 -> BitOr(BitXor(block.seed, Coord(p, 0)), BitXor(block.seed, Coord(p, 2)))
FirstB(p) ==
    CASE D = 1 -> BitXor(block.seed, p)
      [] D > 1 -> BitOr(BitXor(block.seed, Coord(p, 0)), BitXor(block.seed, Coord(p, 1)))

Fill ==
    /\ pc = "fill"
    /\ mem' = [w \in DOMAIN mem |->
                  CASE w < Elems -> FirstA(w)
                    [] w \in {B(p) : p \in Positions} -> FirstB(w - Elems)
                    [] OTHER -> mem[w]]
    /\ pc' = "add_const"
    /\ UNCHANGED <<block, turn, i, N, t>>

-----------------------------------------------------------------------------
AddConst ==
    /\ pc = "add_const" /\ turn < NUM_ITERATE
    /\ mem' = [w \in DOMAIN mem |->
                  IF w \in Positions THEN (mem[w] + val) % WORD ELSE mem[w]]
    /\ pc' = "mul_const"
    /\ UNCHANGED <<block, turn, i, N, t>>

MulConst ==
    /\ pc = "mul_const"
    /\ mem' = [w \in DOMAIN mem |->
                  IF w \in {C(p) : p \in Positions}
                  THEN (mem[A(w - 2 * Elems)] * val) % WORD ELSE mem[w]]
    /\ pc' = "mul_matrix" /\ t' = 0
    /\ UNCHANGED <<block, turn, i, N>>

(* The nested loops in one: results from first to last, N products for each. *)
Results == IF D = 1 THEN {0} ELSE Positions
Result == t \div N
Inner == t % N

(* The operands of a product.  That of DATA_DIM 3 takes j where a product of *)
(* matrices would take k (matrix.c:329): see the README.                     *)
OperandA ==
    CASE D = 1 -> A(Inner)
      [] D = 2 -> A(Coord(Result, 1) * N + Inner)
      [] D = 3 -> A(Coord(Result, 2) * N * N + Coord(Result, 1) * N + Inner)
OperandB ==
    CASE D = 1 -> B(Inner)
      [] D = 2 -> B(Inner * N + Coord(Result, 0))
      [] D = 3 -> B(Coord(Result, 2) * N * N + Inner * N + Coord(Result, 1))

(* Mutant: the sum is not reset. *)
MultiplyOnTop ==
    /\ pc = "mul_matrix" /\ Result \in Results
    /\ mem' = [mem EXCEPT ![C(Result)] = (@ + mem[OperandA] * mem[OperandB]) % WORD]
    /\ t' = t + 1
    /\ UNCHANGED <<block, pc, turn, i, N>>
Multiply ==
    /\ pc = "mul_matrix" /\ Result \in Results
    /\ LET sum == IF Inner = 0 THEN 0 ELSE mem[C(Result)]
       IN  mem' = [mem EXCEPT ![C(Result)] = (sum + mem[OperandA] * mem[OperandB]) % WORD]
    /\ t' = t + 1
    /\ UNCHANGED <<block, pc, turn, i, N>>

MulEnd ==
    /\ pc = "mul_matrix" /\ Result \notin Results
    /\ pc' = "add_const" /\ turn' = turn + 1
    /\ UNCHANGED <<block, i, N, mem, t>>

MatrixInit == Scale1 \/ Grow \/ Scale \/ Fill
MatrixTurn == AddConst \/ MulConst \/ Multiply \/ MulEnd
Next == MatrixInit \/ MatrixTurn

-----------------------------------------------------------------------------
Scaled == pc # "size"

(* The matrices use the block as far as they can: they end within it, and    *)
(* the next larger ones would not fit below its end.                         *)
UsesBlock ==
    Scaled =>
        /\ N >= 1 /\ 3 * Elems * SIZEOF <= block.size
        /\ 3 * Power(N + 1, D) * SIZEOF >= block.size

(* After every turn C is the product of A, as grown by the additions of all  *)
(* turns, and B, as first filled: the sums do not pick up what matrix_mul_   *)
(* const or the last turn left in C, and no result lands in an operand.      *)
ProductRight ==
    LET GrownA(p) == (FirstA(p) + turn * val) % WORD
        Dot(left, right) ==
            Total([l \in 0..(N - 1) |-> GrownA(left[l]) * FirstB(right[l])], N) % WORD
        Line == [l \in 0..(N - 1) |-> l]
    IN  pc = "add_const" /\ turn > 0 =>
            /\ D = 1 => mem[C(0)] = Dot(Line, Line)
            /\ D = 2 => \A row, column \in 0..(N - 1) :
                  mem[C(row * N + column)] =
                      Dot([l \in 0..(N - 1) |-> row * N + l], [l \in 0..(N - 1) |-> l * N + column])
====
