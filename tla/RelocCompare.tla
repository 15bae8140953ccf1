---- MODULE RelocCompare ----
(* checklib/elf.py, Comparator.compare_relocations: the base score of a      *)
(* symbolization.  The relocations of the ground truth and of the symbolized *)
(* file are sorted by address, lined up by merge_sorted, and each pair is    *)
(* put in one of four counters; the score is match over their sum.           *)
(*                                                                           *)
(* The loop and the generator are coroutines: the generator runs until it    *)
(* yields, then the loop body consumes the pair.  Here it1 is the ground     *)
(* truth and it2 the symbolized file; Inputs1 and Inputs2 are the tables     *)
(* iter_relocations may return, in section order.                            *)
(*                                                                           *)
(* A relocation is a record with fields vaddr, value, type_, and what the    *)
(* comparison asks of its symbol: abs (st_shndx is SHN_ABS) and section      *)
(* (st_info.type is STT_SECTION).                                            *)
EXTENDS MergeSorted

VARIABLES
    cmp,                    \* how far compare_relocations is, or how it ended
    seen,                   \* pairs the loop has consumed
    match, false_positive, false_negative, mismatch

counters == <<match, false_positive, false_negative, mismatch>>
cmpVars  == <<vars, cmp, seen, counters>>

Undef == -1         \* iter_relocations reports 'SHN_UNDEF', a string, as the target

Perms(n) == {p \in [1..n -> 1..n] : \A a, b \in 1..n : p[a] = p[b] => a = b}
sorted(s) == {t \in {[k \in 1..Len(s) |-> s[p[k]]] : p \in Perms(Len(s))} : Sorted(t)}
HasDuplicate(s) == \E x, y \in 1..Len(s) : x # y /\ Key(s[x]) = Key(s[y])

CmpInit ==
    /\ it1 \in Inputs1 /\ it2 \in Inputs2
    /\ GenInit
    /\ cmp = "sort" /\ seen = 0
    /\ match = 0 /\ false_positive = 0 /\ false_negative = 0 /\ mismatch = 0

(* Both tables are sorted before either is tested for duplicates; the        *)
(* assertions stop the whole check, they are not caught anywhere.            *)
SortTables ==
    /\ cmp = "sort"
    /\ it1' \in sorted(it1) /\ it2' \in sorted(it2)
    /\ cmp' = CASE HasDuplicate(it1) -> "duplicate_in_truth"
                [] ~HasDuplicate(it1) /\ HasDuplicate(it2) -> "duplicate_in_symbolized"
                [] OTHER -> "merge"
    /\ UNCHANGED <<genVars, seen, counters>>

Resume ==
    /\ cmp = "merge" /\ seen = Len(out)
    /\ Generate
    /\ UNCHANGED <<inputs, cmp, seen, counters>>

-----------------------------------------------------------------------------
(* The loop body, one action per branch. *)

Consume(counter) ==
    /\ cmp = "merge" /\ seen < Len(out)
    /\ seen' = seen + 1
    /\ counter' = counter + 1
    /\ UNCHANGED <<vars, cmp>>

NoTrue == out[seen + 1].l = 0
NoPred == out[seen + 1].r = 0
true_rel == it1[out[seen + 1].l]
pred_rel == it2[out[seen + 1].r]
Relative(t) == t.type_ = "R_386_RELATIVE"

(* Mutants: a superfluous relocation counted as a mismatch; `continue`       *)
(* without advancing.                                                        *)
SuperfluousAsMismatch ==
    /\ Consume(mismatch)
    /\ NoTrue
    /\ UNCHANGED <<match, false_positive, false_negative>>

SkipRelativeStuck ==
    /\ cmp = "merge" /\ seen < Len(out)
    /\ ~NoTrue /\ Relative(true_rel)
    /\ UNCHANGED cmpVars

Superfluous ==
    /\ Consume(false_positive)
    /\ NoTrue
    /\ UNCHANGED <<match, false_negative, mismatch>>

SkipRelative ==
    /\ cmp = "merge" /\ seen < Len(out)
    /\ ~NoTrue /\ Relative(true_rel)
    /\ seen' = seen + 1
    /\ UNCHANGED <<vars, cmp, counters>>

Missing ==
    /\ Consume(false_negative)
    /\ ~NoTrue /\ ~Relative(true_rel) /\ NoPred
    /\ UNCHANGED <<match, false_positive, mismatch>>

Both == ~NoTrue /\ ~NoPred /\ ~Relative(true_rel)

(* Mutant: `or` for `and` in the test for absolute symbols.                  *)
AgreesAbsOr(t, p) ==
    IF t.value = p.value /\ t.type_ = p.type_ THEN ~(p.abs \/ t.value # 0)
    ELSE t.type_ = p.type_ /\ t.section

(* The chain of elifs that decides between match and mismatch.  The first    *)
(* branch takes the pair for good: a value and type match against an         *)
(* absolute symbol never reaches the later, laxer branches.                  *)
Agrees(t, p) ==
    LET value_match == t.value = p.value
        type_match  == t.type_ = p.type_
    IN  IF value_match /\ type_match
        THEN ~(p.abs /\ t.value # 0)
        ELSE \/ p.value = Undef /\ type_match /\ t.type_ = "R_386_GOTPC"
             \/ value_match /\ t.type_ = "R_386_PLT32" /\ p.type_ = "R_386_PC32"
             \/ type_match /\ t.section

Matched ==
    /\ Consume(match)
    /\ Both /\ Agrees(true_rel, pred_rel)
    /\ UNCHANGED <<false_positive, false_negative, mismatch>>

Mismatched ==
    /\ Consume(mismatch)
    /\ Both /\ ~Agrees(true_rel, pred_rel)
    /\ UNCHANGED <<match, false_positive, false_negative>>

(* Mutant: the division guarded by the wrong counter.                        *)
ScoreGuardsMatch ==
    /\ cmp = "merge" /\ gen = "returned" /\ seen = Len(out)
    /\ cmp' = IF match = 0 THEN "ZeroDivisionError" ELSE "scored"
    /\ UNCHANGED <<vars, seen, counters>>

(* The score is the exact fraction match / total.                            *)
total == match + false_positive + false_negative + mismatch

Score ==
    /\ cmp = "merge" /\ gen = "returned" /\ seen = Len(out)
    /\ cmp' = IF total = 0 THEN "ZeroDivisionError" ELSE "scored"
    /\ UNCHANGED <<vars, seen, counters>>

Body == Superfluous \/ SkipRelative \/ Missing \/ Matched \/ Mismatched

CmpNext == SortTables \/ Resume \/ Body \/ Score

(* One thread runs both coroutines to the end. *)
CmpSpec == CmpInit /\ [][CmpNext]_cmpVars /\ WF_cmpVars(CmpNext)

-----------------------------------------------------------------------------
Ended == {"scored", "ZeroDivisionError", "duplicate_in_truth", "duplicate_in_symbolized"}

Rels(s) == {s[x] : x \in 1..Len(s)}
Addrs(s) == {Key(t) : t \in Rels(s)}
At(s, a) == CHOOSE t \in Rels(s) : Key(t) = a
Compared == {a \in Addrs(it1) : ~Relative(At(it1, a))}

(* The division by zero happens exactly when there is nothing to find and    *)
(* nothing superfluous: a truth of RELATIVE entries only, met correctly,     *)
(* crashes the check instead of scoring.                                     *)
CrashOnlyOnEmpty ==
    cmp = "ZeroDivisionError" => Compared = {} /\ Addrs(it2) \subseteq Addrs(it1)

(* A symbolization that reports the very relocations of the truth, against   *)
(* symbols defined in sections, scores ALL (unless it divides by zero).      *)
Faithful == \A a \in Compared :
    /\ a \in Addrs(it2)
    /\ At(it2, a).value = At(it1, a).value
    /\ At(it2, a).type_ = At(it1, a).type_
    /\ ~At(it2, a).abs
FaithfulScoresAll ==
    cmp = "scored" /\ Addrs(it2) \subseteq Addrs(it1) /\ Faithful => match = total

(* statement/index.rst:275, "equal sets have IoU==1", the sets being of      *)
(* (address, type) pairs: index.rst:272.  Checked as a claim of the          *)
(* document; the code compares destinations too.                             *)
EqualSetsScoreOne ==
    LET Pairs(s) == {<<t.vaddr, t.type_>> : t \in Rels(s)}
    IN  cmp = "scored" /\ Pairs(it1) = Pairs(it2) => match = total
====
