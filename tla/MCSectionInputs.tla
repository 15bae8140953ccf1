---- MODULE MCSectionInputs ----
(* Three objects that refer to one another, cut and ordered in every way,    *)
(* one of them possibly missing; two replacements.  Sections whose addresses *)
(* are in their headers are all called .text.                                *)
EXTENDS Integers, SequencesExt

CONSTANTS Kinds, Requests

Ref(off, to, plus, t) == [off |-> off, to |-> to, plus |-> plus, type_ |-> t]
Obj(addr, size, refs) == [addr |-> addr, size |-> size, refs |-> refs]
CutProgram == <<Obj(16, 4, {Ref(1, 2, 0, "R_386_32"), Ref(2, 3, 1, "R_386_GOTPC")}),
               Obj(20, 8, {}),
               Obj(28, 4, {Ref(0, 1, 0, "R_386_PC32")})>>

Cuts == { {<<1, 1>>, <<2, 2>>, <<3, 3>>}, {<<1, 2>>, <<3, 3>>}, {<<1, 1>>, <<2, 3>>},
          {<<1, 3>>}, {<<1, 1>>, <<3, 3>>} }
Kind(form, at, alloc, rel) == [form |-> form, at |-> at, alloc |-> alloc, rel |-> rel]
AllKinds == {Kind("hex", FALSE, TRUE, "usual"), Kind("hex", FALSE, TRUE, "odd"),
             Kind("hex", FALSE, FALSE, "usual"), Kind("plain", TRUE, TRUE, "usual"),
             Kind("x", FALSE, TRUE, "usual")}
DocumentedKinds == {Kind("x", FALSE, TRUE, "usual"), Kind("hex", FALSE, TRUE, "usual")}

NameOf(form, o) ==
    CASE form = "hex" -> <<".text.00000010", ".text.00000014", ".text.0000001c">>[o]
      [] form = "x" -> <<".text.x00000010", ".text.x00000014", ".text.x0000001c">>[o]
      [] form = "plain" -> ".text"
Section(range, kind) ==
    [first |-> range[1], last |-> range[2], name |-> NameOf(kind.form, range[1]), form |-> kind.form, alloc |-> kind.alloc,
     rel |-> kind.rel, sh_addr |-> IF kind.at THEN CutProgram[range[1]].addr ELSE 0]

CutParts == UNION {{[j \in 1..Len(order) |-> Section(order[j], kinds[j])] :
                     kinds \in [1..Len(order) -> Kinds]} :
                  order \in UNION {SetToSeqs(c) : c \in Cuts}}
CutAbsolute == {{}, {3}}
Ask(by, key) == [by |-> by, key |-> key]
AllRequests == {Ask("symbol_name", 2), Ask("symbol_name", 0),
                Ask("vaddr", 28), Ask("section_name", ".text"),
                Ask("section_name", ".text.00000010")}
OneRequest == {Ask("symbol_name", 1)}
CutReplacements == {<<a, b>> : a, b \in Requests}
====
