---- MODULE MCRelocInputs ----
(* Tables of up to MaxTrue and MaxPred relocations in any section order,     *)
(* duplicates included.  The kinds are representatives of every branch of    *)
(* the elif chain: RELATIVE, the GOTPC and PLT32 exceptions, a section       *)
(* symbol, an absolute symbol with a zero and with a nonzero target.         *)
EXTENDS Integers, SequencesExt

CONSTANTS Places, MaxTrue, MaxPred

Rel(a, k) == [vaddr |-> a, value |-> k[1], type_ |-> k[2], abs |-> k[3], section |-> k[4]]
RelsOf(kinds) == {Rel(a, k) : a \in Places, k \in kinds}

(* The order of events: all addresses, few kinds. *)
OrderTrue == RelsOf({<<8, "R_386_32", FALSE, FALSE>>, <<8, "R_386_RELATIVE", FALSE, FALSE>>})
OrderPred == RelsOf({<<8, "R_386_32", FALSE, FALSE>>, <<9, "R_386_32", FALSE, FALSE>>})

(* The elif chain: every kind of truth against every kind of prediction.     *)
ChainTypes == {"R_386_32", "R_386_PC32", "R_386_PLT32", "R_386_GOTPC", "R_386_RELATIVE"}
ChainTrue == {Rel(1, k) : k \in {0, 8} \X ChainTypes \X {FALSE} \X BOOLEAN}
ChainPred == {Rel(1, k) : k \in {0, 8, -1} \X ChainTypes \X BOOLEAN \X {FALSE}}

RelInputs1 == BoundedSeq(OrderTrue, MaxTrue) \cup BoundedSeq(ChainTrue, 1)
RelInputs2 == BoundedSeq(OrderPred, MaxPred) \cup BoundedSeq(ChainPred, 1)
====
