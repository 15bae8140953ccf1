---- MODULE MCGrading ----
(* Four families of setups, each with variety in one step of the grading:    *)
(* tables of relocations as RelocCompare may be given them, in any order and *)
(* with every kind; cuts of a small program; replacements in cuts of it; and *)
(* tables of segments.                                                       *)
EXTENDS Grading, MCRelocInputs, MCSectionInputs, MCSegmentInputs

TruthOf == SetToSeq(
    UNION {{[vaddr |-> CutProgram[o].addr + ref.off, value |-> CutProgram[ref.to].addr + ref.plus,
             type_ |-> ref.type_, abs |-> FALSE, section |-> FALSE] :
              ref \in CutProgram[o].refs} : o \in DOMAIN CutProgram})

MCInputs1 == RelInputs1 \cup {TruthOf}

Pair(t, p) == [truth |-> t, symbolized |-> p]
Bare(t, g, h) == [truth |-> t, given |-> g, part |-> <<>>, absolute |-> {},
                  replacements |-> <<>>, headers |-> h]
Cut(p, a, rs) == [truth |-> TruthOf, given |-> <<>>, part |-> p, absolute |-> a,
                  replacements |-> rs, headers |-> Pair(<<Empty>>, <<Empty>>)]
OneEntry == <<CHOOSE t \in OrderTrue : t.type_ # "R_386_RELATIVE">>
FewKinds == {p \in CutParts : Len(p) <= 2 \/ \A x \in 1..Len(p) : p[x].form = "hex"}

(* The empty header comes from the linker script, in both files or in none.  *)
SamePresence == {tp \in SegTables \X SegTables : (Empty \in ToSet(tp[1])) = (Empty \in ToSet(tp[2]))}

MCSetups == {
    {Bare(t, p, Pair(<<>>, <<>>)) : t \in RelInputs1, p \in RelInputs2},
    {Cut(p, a, <<Ask("symbol_name", 1)>>) : p \in CutParts, a \in CutAbsolute},
    {Cut(p, {}, rs) : p \in FewKinds, rs \in CutReplacements},
    {Bare(OneEntry, OneEntry, Pair(t, p)) : <<t, p>> \in SamePresence} }
====
