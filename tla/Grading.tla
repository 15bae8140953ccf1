---- MODULE Grading ----
(* TestSpec.score_symbolization of checklib/spec.py, on the files' contents: *)
(* the relocations of a symbolized file are read through the names of its    *)
(* sections (SectionResolve) and compared with those of the original         *)
(* (RelocCompare); the segments of the relinked program are compared         *)
(* (SegmentCompare); and sections of a copy are replaced (SectionResolve     *)
(* again, in the same parsed file).  Linking and running programs is left to *)
(* CheckRun, which takes the outcomes of these steps as they come.           *)
EXTENDS RelocCompare, SequencesExt

CONSTANTS
    Setups,             \* families of records [truth, given, part, absolute,
                        \* replacements, headers]
    Program,            \* see SectionResolve
    TextBase, DataBase, \* see SegmentCompare
    Absent              \* None there

(* The objects of a program lie one behind the other, and a section holds    *)
(* some that follow one another.                                             *)
ASSUME ProgramAssumption ==
    /\ Len(Program) \in Nat
    /\ \A o \in 1..Len(Program) :
          /\ Program[o].addr \in Nat \ {0} /\ IsFiniteSet(Program[o].refs)
          /\ \A p \in 1..Len(Program) : o < p => Program[o].addr < Program[p].addr
          /\ \A ref \in Program[o].refs :
                /\ ref.off \in Nat /\ ref.to \in 1..Len(Program)
                /\ ref.plus \in Int /\ Program[ref.to].addr + ref.plus \in Nat
    /\ \E o \in 1..Len(Program) : \E ref \in Program[o].refs : ref.type_ # "R_386_RELATIVE"

(* A header has these five fields, and is never None. *)
IsHeader(h) ==
    h # Absent /\ h = [f \in {"vaddr", "paddr", "filesz", "memsz", "data"} |-> h[f]]

ASSUME SetupsAssumption ==
    \A family \in Setups : \A s \in family :
        /\ Len(s.part) \in Nat /\ Len(s.replacements) \in Nat
        /\ \A x \in 1..Len(s.part) :
              /\ s.part[x].first \in 1..Len(Program) /\ s.part[x].last \in 1..Len(Program)
              /\ s.part[x].first <= s.part[x].last /\ s.part[x].sh_addr \in Nat
              /\ \A y \in 1..Len(s.part) : x # y =>
                    s.part[x].last < s.part[y].first \/ s.part[y].last < s.part[x].first
        /\ \A j \in 1..Len(s.replacements) :
              /\ s.replacements[j].by \in {"section_name", "symbol_name", "vaddr"}
              /\ s.replacements[j].by = "symbol_name" =>
                    s.replacements[j].key \in 0..Len(Program)
              /\ s.replacements[j].by = "vaddr" => s.replacements[j].key \in Nat
        /\ \A f \in {"truth", "symbolized"} :
              /\ Len(s.headers[f]) \in Nat
              /\ \A k \in 1..Len(s.headers[f]) : IsHeader(s.headers[f][k])

(* "assume this was the correct virtual addr" (resolve_section_vaddr).       *)
ASSUME AddressAssumption ==
    \A family \in Setups : \A s \in family : \A x \in 1..Len(s.part) :
        s.part[x].sh_addr \in {0, Program[s.part[x].first].addr}

(* A symbolized file has no relocations but its own, and the truth of the    *)
(* program it cuts (an ELF file made with the tests) has one per address.    *)
ASSUME CutAssumption ==
    \A family \in Setups : \A s \in family :
        s.part # <<>> => s.given = <<>> /\ ~HasDuplicate(s.truth)
ASSUME AbsentAssumption == Absent \notin {"truth", "symbolized"}

VARIABLES
    step,               \* how far score_symbolization has come
    part, absolute, replacements, pc, left, table, hax, haxrel, replaced,
    headers, scanning, pos, main, compared, fail

namVars == <<part, absolute, replacements, pc, left, table, hax, haxrel, replaced>>
segVars == <<headers, scanning, pos, main, compared, fail>>
gradeVars == <<step, cmpVars, namVars, segVars>>

Names == INSTANCE SectionResolve WITH
    Parts <- {s.part : s \in UNION Setups}, Absolute <- {s.absolute : s \in UNION Setups},
    Replacements <- {s.replacements : s \in UNION Setups}
Segs == INSTANCE SegmentCompare WITH
    None <- Absent, TruthTables <- {s.headers.truth : s \in UNION Setups},
    PredTables <- {s.headers.symbolized : s \in UNION Setups}

(* The relocations of the symbolized file are those of its part, behind      *)
(* others that are simply given.                                             *)
GradeInit ==
    /\ \E family \in Setups : \E s \in family :
            /\ it1 = s.truth /\ it2 = s.given
            /\ part = s.part /\ absolute = s.absolute /\ replacements = s.replacements
            /\ headers = s.headers
    /\ step = "read"
    /\ CmpInit /\ Names!Unread /\ Segs!Unscanned

-----------------------------------------------------------------------------

(* A ValueError is caught and scores 0; the duplicates' assertions and the   *)
(* division by zero end the check.                                           *)
ComparisonNext ==
    IF cmp' \in {"sort", "merge"} THEN "compare"
    ELSE IF cmp' = "scored" THEN "segments" ELSE "aborted"

(* The list of all relocations is complete before it is sorted.              *)
ReadPart ==
    /\ step = "read" /\ pc = "relocations"
    /\ IF left # {}
       THEN /\ \E r \in left : Names!YieldRelocation(r) \/ Names!NameError(r)
            /\ step' = IF pc' = "unreadable" THEN "segments" ELSE "read"
            /\ UNCHANGED cmpVars
       ELSE /\ it2' = it2 \o SetToSeq(table)
            /\ step' = "compare"
            /\ UNCHANGED <<it1, genVars, cmp, seen, counters, namVars>>
    /\ UNCHANGED segVars

Compare ==
    /\ step = "compare" /\ CmpNext
    /\ step' = ComparisonNext
    /\ UNCHANGED <<namVars, segVars>>

(* evaluate_relinking: whether segments differ does not matter to what       *)
(* follows.                                                                  *)
CompareSegments ==
    /\ step = "segments" /\ Segs!Next
    /\ step' = IF compared' = Len(Segs!Roles) THEN "replace" ELSE "segments"
    /\ UNCHANGED <<cmpVars, namVars>>

(* evaluate_replacement *)
Replace ==
    /\ step = "replace"
    /\ Names!CopyPart \/ Names!ModifyInplace \/ Names!NotFound \/ Names!Link
    /\ step' = IF pc' \in {"linked", "not_found"} THEN "graded" ELSE "replace"
    /\ UNCHANGED <<cmpVars, segVars>>

GradeNext == ReadPart \/ Compare \/ CompareSegments \/ Replace

(* One thread, which runs to the end. *)
GradeSpec == GradeInit /\ [][GradeNext]_gradeVars /\ WF_gradeVars(GradeNext)

-----------------------------------------------------------------------------
(* The symbolized file cuts the very program of the truth into sections      *)
(* whose names can be read, refers to objects by symbols, and has a section  *)
(* at every place the test wants to replace.                                 *)
AsksFor(rep, s) == CASE rep.by = "section_name" -> rep.key = s.name
                     [] rep.by = "symbol_name" -> rep.key = s.first
                     [] rep.by = "vaddr" -> rep.key = Program[s.first].addr
Perfect ==
    /\ Rels(it1) = Names!TruthTable /\ part # <<>> /\ absolute = {}
    /\ Names!Complete /\ Names!Named({"hex"})
    /\ headers.truth = headers.symbolized
    /\ \A j \in 1..Len(replacements) : \E x \in 1..Len(part) :
            part[x].alloc /\ AsksFor(replacements[j], part[x])

(* A perfect symbolization gets full marks in all three steps, in whatever   *)
(* way it cuts the program and orders the sections, whatever the headers of  *)
(* the relinked file are (the empty one of the public tests included).       *)
FullMarks ==
    step \in {"graded", "aborted"} /\ Perfect =>
        cmp = "scored" /\ match = total /\ ~fail /\ pc = "linked"

(* One name that a relocation needs and that cannot be read makes the file   *)
(* score 0, and none of its relocations is counted, but segments and         *)
(* replacement are graded all the same: both can still be right.             *)
ReadOrZero ==
    step \in {"graded", "aborted"} =>
        \/ cmp = "sort" /\ step = "graded" /\ table = {} /\ match = 0
        \/ \A r \in Names!Refs : \E t \in Rels(it2) : t = Names!AsRecord(r)

ExactOnOneEach == Segs!ExactOnOneEach
ExchangesExactly == Names!ExchangesExactly
NoStaleRelocations == Names!NoStaleRelocations

(* Grading ends, with a score or by one of the exceptions. *)
Ends == <>(step \in {"graded", "aborted"})

-----------------------------------------------------------------------------
(* Reading, sorting, generator and loop together implement the plain join of *)
(* RelocJoin: an address is done there when the loop body has consumed the   *)
(* pair that holds it; the generator's own steps are invisible.              *)
Consumed1 == {out[x].l : x \in 1..seen}
Consumed2 == {out[x].r : x \in 1..seen}

Todo ==
    IF cmp = "sort" /\ step # "compare" THEN {}
    ELSE {Key(it1[x]) : x \in (1..Len(it1)) \ Consumed1}
            \cup {Key(it2[y]) : y \in (1..Len(it2)) \ Consumed2}
Verdict ==
    IF step = "read" THEN "reading"
    ELSE IF step = "compare" THEN "none"
    ELSE IF cmp = "scored" THEN "scored"
    ELSE IF cmp = "ZeroDivisionError" THEN "undefined" ELSE "rejected"

Join == INSTANCE RelocJoin WITH
    truth <- Rels(it1), pred <- Rels(it2), todo <- Todo, verdict <- Verdict

ImplementsJoin == Join!Spec
====
