---- MODULE MCSegmentInputs ----
(* The layouts of picolibc.ld: flash text, RAM with or without initialised   *)
(* data, and the empty header the linker adds; each in a second version that *)
(* differs in one field, and one segment the checker ignores.                *)
EXTENDS Integers, SequencesExt

CONSTANT MaxHeaders

Seg(v, p, f, m, d) == [vaddr |-> v, paddr |-> p, filesz |-> f, memsz |-> m, data |-> d]
SegText == 10
SegData == 20
SomeHeaders == {
    Seg(SegText, SegText, 8, 8, "code"),      Seg(SegText, SegText, 8, 8, "code2"),
    Seg(SegData, 18, 4, 4, "init"),          Seg(SegData, 18, 4, 5, "init"),
    Seg(SegData, SegData, 0, 6, "empty"),     Seg(SegData, SegData, 0, 7, "empty"),
    Seg(30, 30, 4, 4, "elsewhere") }
(* The third PT_LOAD of tests/0a..0c. *)
Empty == Seg(0, 0, 0, 0, "empty")

SegTables == UNION {{t, Append(t, Empty)} : t \in BoundedSeq(SomeHeaders, MaxHeaders)}

(* What picolibc.ld gives a program without initialised data: text, RAM and  *)
(* the empty header, with two codes and two sizes of RAM.                    *)
SegLinked == {<<t, r, Empty>> : t \in {x \in SomeHeaders : x.vaddr = SegText},
                               r \in {x \in SomeHeaders : x.filesz = 0}}
====
