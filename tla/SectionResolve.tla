---- MODULE SectionResolve ----
(* checklib/elf.py, BinFile.iter_relocations, resolve_section_vaddr and      *)
(* find_section_for_vaddr, and checklib/spec.py, SectionReplacement: how a   *)
(* relocatable file, which has no addresses, is read through the names of    *)
(* its sections, first to report its relocations and then to find the        *)
(* section to be replaced.                                                   *)
(*                                                                           *)
(* A program is a sequence of objects (functions and variables) with their   *)
(* addresses; a reference is a relocation inside an object to a place in     *)
(* another.  A symbolized file splits the program into sections of one or    *)
(* more consecutive objects, in any order.                                   *)
EXTENDS Integers, Sequences, FiniteSets

CONSTANTS
    Program,        \* sequence of [addr, size, refs]; refs of [off, to, plus, type_]
    Parts,          \* sequences of sections [first, last, name, form, sh_addr,
                    \* alloc, rel]; nothing keeps them from sharing a name
    Absolute,       \* sets of objects a file may refer to by absolute symbols
    Replacements    \* sequences of [by, key]: a name, a symbol or an address

VARIABLES
    part, absolute, \* the symbolized file
    replacements,   \* what the test replaces
    pc,             \* relocations, unreadable, patch, linked, not_found
    left,           \* relocations not reported yet: [sec, ref]
    table,          \* those reported
    hax,            \* content of each section of the copy, "new" if replaced
    haxrel,         \* its sections that have a relocation section
    replaced        \* replacements made

vars == <<part, absolute, replacements, pc, left, table, hax, haxrel, replaced>>

Sections == 1..Len(part)
Base(s) == Program[part[s].first].addr
Objects(s) == part[s].first..part[s].last

(* The section of an object; the file may leave an object out (undefined).   *)
Home(o) == {s \in Sections : o \in Objects(s)}
Called(name) == {s \in Sections : part[s].name = name}
HasRelocations(s) == \E o \in Objects(s) : Program[o].refs # {}

Refs == UNION {UNION {{[sec |-> s, obj |-> o, ref |-> ref] : ref \in Program[o].refs} :
                        o \in Objects(s)} : s \in Sections}

Unread ==
    /\ pc = "relocations" /\ left = Refs /\ table = {}
    /\ hax = <<>> /\ haxrel = {} /\ replaced = 0

Init ==
    /\ part \in Parts /\ absolute \in Absolute /\ replacements \in Replacements
    /\ Unread

-----------------------------------------------------------------------------
Unresolvable == -2
Undef == -1

(* A section address, or else a name like .text.40030000f whose last part    *)
(* starts with eight hexadecimal digits ("hex"), which are the address.  Any *)
(* other name (.text, .text.x40030000f) is a ValueError.                     *)
resolve_section_vaddr(s) ==
    CASE part[s].sh_addr # 0 -> part[s].sh_addr
      [] part[s].sh_addr = 0 /\ part[s].form = "hex" -> Base(s)
      [] OTHER -> Unresolvable

(* Mutant: the symbol's own offset in its section is forgotten.              *)
TargetSectionOnly(ref) ==
    IF Home(ref.to) = {} THEN Undef
    ELSE resolve_section_vaddr(CHOOSE s \in Home(ref.to) : TRUE)

(* What a symbol is reported as: an absolute one by its value; one without a *)
(* section as SHN_UNDEF; any other by its offset in its section.             *)
Target(ref) ==
    IF ref.to \in absolute THEN Program[ref.to].addr + ref.plus
    ELSE IF Home(ref.to) = {} THEN Undef
    ELSE LET s == CHOOSE s \in Home(ref.to) : TRUE
             st_value == Program[ref.to].addr + ref.plus - Base(s)
         IN  IF resolve_section_vaddr(s) = Unresolvable THEN Unresolvable
             ELSE st_value + resolve_section_vaddr(s)

RelVaddr(r) == resolve_section_vaddr(r.sec) + Program[r.obj].addr - Base(r.sec) + r.ref.off

(* What the comparison sees of a relocation: `section`, that its symbol is a *)
(* section symbol, is asked of the truth only.                               *)
AsRecord(r) == [vaddr |-> RelVaddr(r), value |-> Target(r.ref), type_ |-> r.ref.type_,
                abs |-> r.ref.to \in absolute, section |-> FALSE]

Unreadable(r) ==
    resolve_section_vaddr(r.sec) = Unresolvable \/ Target(r.ref) = Unresolvable
InOrder(r) == r \in left /\ \A q \in left : r.sec <= q.sec

(* iter_relocations: sections one after another, each relocation reported at *)
(* the address its section resolves to.                                      *)
YieldRelocation(r) ==
    /\ pc = "relocations" /\ InOrder(r) /\ ~Unreadable(r)
    /\ left' = left \ {r}
    /\ table' = table \cup {AsRecord(r)}
    /\ UNCHANGED <<part, absolute, replacements, pc, hax, haxrel, replaced>>

(* Mutant: an unresolvable relocation is skipped.                            *)
NameErrorSkips(r) ==
    /\ pc = "relocations" /\ InOrder(r) /\ Unreadable(r)
    /\ left' = left \ {r}
    /\ UNCHANGED <<part, absolute, replacements, pc, table, hax, haxrel, replaced>>

(* One name that cannot be read raises ValueError: all that was reported is  *)
(* lost (the score is 0) and the check goes on to the replacement.           *)
NameError(r) ==
    /\ pc = "relocations" /\ InOrder(r) /\ Unreadable(r)
    /\ pc' = "unreadable" /\ table' = {} /\ left' = {}
    /\ UNCHANGED <<part, absolute, replacements, hax, haxrel, replaced>>

-----------------------------------------------------------------------------
(* replace_and_link: a fresh copy, patched by one replacement after another. *)
CopyPart ==
    /\ pc \in {"relocations", "unreadable"} /\ left = {}
    /\ pc' = "patch"
    /\ hax' = [s \in Sections |-> "old"]
    /\ haxrel' = {s \in Sections : HasRelocations(s)}
    /\ UNCHANGED <<part, absolute, replacements, left, table, replaced>>

(* Mutant: the first section that does not start behind the address.         *)
FoundBelow(vaddr) ==
    {s \in Sections : part[s].alloc /\ resolve_section_vaddr(s) # Unresolvable
        /\ resolve_section_vaddr(s) <= vaddr}

(* find_section_for_vaddr tries the allocated sections in file order and     *)
(* takes the first that starts exactly at the address.                       *)
Found(vaddr) == {s \in Sections : part[s].alloc /\ resolve_section_vaddr(s) = vaddr}
First(S) == CHOOSE s \in S : \A t \in S : s <= t

(* get_replaced_section_name: the section named outright, or the one at the  *)
(* address given or at that of the symbol in the truth (key is the object,   *)
(* 0 for an absolute or unknown symbol: KeyError).  Empty: KeyError or       *)
(* IndexError, or a name that objcopy does not find.                         *)
Candidates(rep) ==
    CASE rep.by = "section_name" -> Called(rep.key)
      [] rep.by = "symbol_name"  -> IF rep.key = 0 THEN {} ELSE Found(Program[rep.key].addr)
      [] rep.by = "vaddr"        -> Found(rep.key)

(* Mutant: the relocations of the replaced section stay. *)
ModifyKeepsRelocations ==
    /\ pc = "patch" /\ replaced < Len(replacements)
    /\ Candidates(replacements[replaced + 1]) # {}
    /\ LET name == part[First(Candidates(replacements[replaced + 1]))].name
       IN  hax' = [hax EXCEPT ![First(Called(name))] = "new"]
    /\ replaced' = replaced + 1
    /\ UNCHANGED <<part, absolute, replacements, pc, left, table, haxrel>>

(* modify_inplace: only the name of the section found goes on.  objcopy      *)
(* exchanges the content of the first section of that name and, if there is  *)
(* a section .rel<name>, removes every one of that name.                     *)
ModifyInplace ==
    /\ pc = "patch" /\ replaced < Len(replacements)
    /\ Candidates(replacements[replaced + 1]) # {}
    /\ LET name == part[First(Candidates(replacements[replaced + 1]))].name
       IN  /\ hax' = [hax EXCEPT ![First(Called(name))] = "new"]
           /\ haxrel' = haxrel \ {s \in Called(name) : part[s].rel = "usual"}
    /\ replaced' = replaced + 1
    /\ UNCHANGED <<part, absolute, replacements, pc, left, table>>

(* The copy stays on disk half patched, but is never linked.                 *)
NotFound ==
    /\ pc = "patch" /\ replaced < Len(replacements)
    /\ Candidates(replacements[replaced + 1]) = {}
    /\ pc' = "not_found"
    /\ UNCHANGED <<part, absolute, replacements, left, table, hax, haxrel, replaced>>

Link ==
    /\ pc = "patch" /\ replaced = Len(replacements)
    /\ pc' = "linked"
    /\ UNCHANGED <<part, absolute, replacements, left, table, hax, haxrel, replaced>>

Next ==
    \/ \E r \in left : YieldRelocation(r) \/ NameError(r)
    \/ CopyPart \/ ModifyInplace \/ NotFound \/ Link

Spec == Init /\ [][Next]_vars /\ WF_vars(Next)

-----------------------------------------------------------------------------
Reported == pc # "relocations" \/ left = {}

(* The relocations of the original, as the branch for 'elf' reports them.    *)
TruthTable ==
    UNION {{[vaddr |-> Program[o].addr + ref.off, value |-> Program[ref.to].addr + ref.plus,
             type_ |-> ref.type_, abs |-> FALSE, section |-> FALSE] :
              ref \in Program[o].refs} : o \in 1..Len(Program)}

Complete == \A o \in 1..Len(Program) : Home(o) # {}
Named(forms) == \A s \in Sections : part[s].sh_addr = Base(s) \/ part[s].form \in forms

(* The sections a test means: those of the name, or the one that holds the   *)
(* object or what is at the address.                                         *)
Asked(rep) ==
    CASE rep.by = "section_name" -> Called(rep.key)
      [] rep.by = "symbol_name"  -> Home(rep.key)
      [] rep.by = "vaddr" -> {s \in Sections : \E o \in Objects(s) : Program[o].addr = rep.key}

(* No section shares its name with one that is asked for.                    *)
OwnNames ==
    \A j \in 1..Len(replacements) : \A s \in Asked(replacements[j]) :
        Called(part[s].name) = {s}

(* Whatever the cut: in a linked file the sections that the test asks for    *)
(* are exchanged, and no other, and every other still has its relocations,   *)
(* although a section is handed to objcopy as a name (spec.py:64-70).  Where *)
(* it shares that name, objcopy may take another section for it.             *)
ExchangesExactly ==
    pc = "linked" /\ OwnNames =>
        \A s \in Sections :
            /\ hax[s] = "new" <=> \E j \in 1..Len(replacements) : s \in Asked(replacements[j])
            /\ hax[s] = "old" /\ HasRelocations(s) => s \in haxrel

(* The linker is not left with relocations of the old content to apply to    *)
(* the new, unless the file names relocation sections in a way of its own.   *)
NoStaleRelocations ==
    pc = "linked" => \A s \in haxrel : hax[s] = "new" => part[s].rel # "usual"

(* statement/index.rst:102-104 and :110: symbols are named x<address><type>  *)
(* and sections .text.<symbol_name>, e.g. .text.x08049072f ("x").  Checked   *)
(* as a claim of the document.                                               *)
DocumentedNamesRead == Reported /\ Complete /\ Named({"hex", "x"}) =>
        {[t EXCEPT !.abs = FALSE] : t \in table} = TruthTable
====
