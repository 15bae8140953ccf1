---- MODULE GradingProofs ----
(* What a grading promises for every program, every way to cut it, every     *)
(* table of relocations and segments and every list of replacements.  The    *)
(* comparison of relocations is shown to be the join of RelocJoin; it rests  *)
(* on the invariant of merge_sorted, which MergeSortedProofs proves.         *)
EXTENDS Grading, MergeSortedProofs, FiniteSetTheorems, WellFoundedInduction

-----------------------------------------------------------------------------
(* Sorting a table permutes it: it has the same relocations, and a duplicate *)
(* only if it had one before.                                                *)
LEMMA Permuted ==
    ASSUME NEW n \in Nat, NEW p \in Perms(n)
    PROVE  \A y \in 1..n : \E x \in 1..n : p[x] = y
<1>1. p \in Injection(1..n, 1..n)
  BY DEF Perms, Injection, IsInjective
<1>2. IsFiniteSet(1..n)
  BY FS_Interval
<1>3. p \in Surjection(1..n, 1..n)
  BY <1>1, <1>2, FS_Injection
<1> QED
  BY <1>3 DEF Surjection

LEMMA SortingPermutes ==
    ASSUME NEW s, Keyed(s), NEW t \in sorted(s)
    PROVE  /\ Keyed(t) /\ Sorted(t) /\ Rels(t) = Rels(s)
           /\ ~HasDuplicate(s) => ~HasDuplicate(t)
<1>1. PICK p \in Perms(Len(s)) : t = [k \in 1..Len(s) |-> s[p[k]]] /\ Sorted(t)
  BY DEF sorted
<1>2. /\ Len(s) \in Nat /\ DOMAIN s = 1..Len(s)
      /\ \A x \in 1..Len(s) : Key(s[x]) \in Nat
  BY DEF Keyed
<1>3. /\ p \in [1..Len(s) -> 1..Len(s)]
      /\ \A x, y \in 1..Len(s) : p[x] = p[y] => x = y
  BY DEF Perms
<1>4. /\ DOMAIN t = 1..Len(s) /\ \A x \in 1..Len(s) : t[x] = s[p[x]]
      /\ t \in [1..Len(s) -> {t[x] : x \in DOMAIN t}]
  BY <1>1
<1>5. t \in Seq({t[x] : x \in DOMAIN t}) /\ Len(t) = Len(s)
  BY <1>2, <1>4
<1>6. Keyed(t)
  BY <1>2, <1>3, <1>4, <1>5 DEF Keyed
<1>7. Rels(t) = Rels(s)
  <2>1. \A y \in 1..Len(s) : \E x \in 1..Len(s) : p[x] = y
    BY <1>2, Permuted
  <2>2. \A x \in 1..Len(s) : t[x] \in Rels(s)
    BY <1>3, <1>4 DEF Rels
  <2>3. \A y \in 1..Len(s) : s[y] \in Rels(t)
    BY ZenonT(60), <1>4, <1>5, <2>1 DEF Rels
  <2>4. Rels(t) \subseteq Rels(s)
    BY <1>5, <2>2 DEF Rels
  <2>5. Rels(s) \subseteq Rels(t)
    BY <2>3 DEF Rels
  <2> QED
    BY <2>4, <2>5
<1>8. ~HasDuplicate(s) => ~HasDuplicate(t)
  <2> SUFFICES ASSUME NEW x \in 1..Len(t), NEW y \in 1..Len(t), x # y, Key(t[x]) = Key(t[y])
               PROVE  HasDuplicate(s)
    BY DEF HasDuplicate
  <2>1. p[x] \in 1..Len(s) /\ p[y] \in 1..Len(s) /\ p[x] # p[y]
    BY <1>3, <1>5
  <2>2. t[x] = s[p[x]] /\ t[y] = s[p[y]]
    BY <1>4, <1>5
  <2> QED
    BY <2>1, <2>2 DEF HasDuplicate
<1> QED
  BY <1>1, <1>6, <1>7, <1>8

-----------------------------------------------------------------------------
(* What the counters say of the pairs consumed so far: only as much as the   *)
(* two laws of the score need.                                               *)
Skipped(k) == out[k].l # 0 /\ Relative(it1[out[k].l])
Lone1(k) == out[k].l # 0 /\ ~Relative(it1[out[k].l]) /\ out[k].r = 0
Lone2(k) == out[k].l = 0
Wrong(k) == /\ out[k].l # 0 /\ ~Relative(it1[out[k].l]) /\ out[k].r # 0
            /\ ~Agrees(it1[out[k].l], it2[out[k].r])

CountInv ==
    /\ seen \in 0..Len(out)
    /\ match \in Nat /\ false_positive \in Nat /\ false_negative \in Nat /\ mismatch \in Nat
    /\ false_positive > 0 => \E k \in 1..seen : Lone2(k)
    /\ false_negative > 0 => \E k \in 1..seen : Lone1(k)
    /\ mismatch > 0 => \E k \in 1..seen : Wrong(k)
    /\ total = 0 => \A k \in 1..seen : Skipped(k)

(* Until the tables are sorted nothing has been paired; from then on the     *)
(* generator's invariant holds, on tables without duplicates if it is let    *)
(* run.                                                                      *)
CmpInv ==
    /\ Keyed(it1) /\ Keyed(it2)
    /\ cmp \in {"sort", "merge"} \cup Ended
    /\ cmp = "sort" => GenInit /\ seen = 0 /\ total = 0
    /\ cmp # "sort" => IInv
    /\ cmp \in {"merge", "scored", "ZeroDivisionError"} =>
            ~HasDuplicate(it1) /\ ~HasDuplicate(it2)
    /\ cmp \in {"scored", "ZeroDivisionError"} => gen = "returned" /\ seen = Len(out)
    /\ cmp = "ZeroDivisionError" => total = 0
    /\ CountInv

LEMMA OutLength == ASSUME IInv PROVE Len(out) \in Nat
  BY DEF IInv, StateInv, TypeOK

LEMMA CmpInitOK == ASSUME CmpInit PROVE CmpInv
<1>1. Keyed(it1) /\ Keyed(it2)
  BY InputsAssumption DEF CmpInit
<1> QED
  BY <1>1 DEF CmpInit, GenInit, CmpInv, CountInv, total

LEMMA StartIInvNext ==
    (Keyed(it1) /\ Keyed(it2) /\ Sorted(it1) /\ Sorted(it2) /\ GenInit)' => IInv'
  BY StartIInv, PTL

(* Every action of the comparison keeps it. *)
LEMMA CmpStep == ASSUME CmpInv, CmpNext PROVE CmpInv'
<1>1. CASE SortTables
  <2>1. /\ GenInit' /\ UNCHANGED <<seen, counters, out>> /\ seen = 0 /\ total = 0
        /\ it1' \in sorted(it1) /\ it2' \in sorted(it2) /\ cmp' # "sort"
        /\ cmp' \in {"merge", "duplicate_in_truth", "duplicate_in_symbolized"}
        /\ cmp' = "merge" => ~HasDuplicate(it1) /\ ~HasDuplicate(it2)
    BY <1>1 DEF SortTables, CmpInv, GenInit, genVars
  <2>2. /\ Keyed(it1') /\ Sorted(it1') /\ (~HasDuplicate(it1) => ~HasDuplicate(it1'))
        /\ Keyed(it2') /\ Sorted(it2') /\ (~HasDuplicate(it2) => ~HasDuplicate(it2'))
    BY <2>1, SortingPermutes DEF CmpInv
  <2>3. IInv'
    BY <2>1, <2>2, StartIInvNext
  <2>4. CountInv'
    BY <2>1 DEF CmpInv, CountInv, counters, total
  <2> QED
    BY <2>1, <2>2, <2>3, <2>4 DEF CmpInv, Ended
<1>2. CASE Resume
  <2>1. /\ cmp = "merge" /\ Next /\ UNCHANGED <<it1, it2, cmp, seen, counters>>
    BY <1>2 DEF Resume, Next, inputs
  <2>2. IInv'
    BY <2>1, IInvStep DEF CmpInv
  <2>3. Len(out) \in Nat /\ Len(out') \in Nat /\ Len(out) <= Len(out')
        /\ \A k \in 1..Len(out) : out'[k] = out[k]
    <3>1. out \in Seq([l : Nat, r : Nat])
      BY <2>1 DEF CmpInv, IInv, StateInv, TypeOK
    <3>2. out' = out \/ \E a, b : out' = Append(out, [l |-> a, r |-> b])
      BY <2>1 DEF Next, Generate, Loop, Match, Tails, PullRight, RightExhausted, PullLeft,
                  LeftExhausted, YieldBoth, YieldLeft, YieldRight, DrainLeft, DrainRight,
                  Return, Yield
    <3>3. ASSUME NEW S, NEW s \in Seq(S), NEW e
          PROVE  /\ Len(s) \in Nat /\ Len(Append(s, e)) = Len(s) + 1
                 /\ \A k \in 1..Len(s) : Append(s, e)[k] = s[k]
      OBVIOUS
    <3>4. CASE out' = out
      <4>1. Len(out) \in Nat
        BY <3>1
      <4> QED
        BY <3>4, <4>1
    <3>5. CASE \E a, b : out' = Append(out, [l |-> a, r |-> b])
      <4>1. PICK a, b : out' = Append(out, [l |-> a, r |-> b])
        BY <3>5
      <4>2. /\ Len(out) \in Nat /\ Len(out') = Len(out) + 1
            /\ \A k \in 1..Len(out) : out'[k] = out[k]
        BY <3>1, <3>3, <4>1
      <4> QED
        BY <4>2
    <3> QED
      BY <3>2, <3>4, <3>5
  <2>4. CountInv'
    <3>1. seen \in 0..Len(out) /\ 1..seen \subseteq 1..Len(out)
      BY <2>3 DEF CmpInv, CountInv
    <3>2. \A x \in 1..seen : out'[x] = out[x]
      BY <2>3, <3>1
    <3>3. \A x \in 1..seen : /\ Lone1(x)' = Lone1(x) /\ Lone2(x)' = Lone2(x)
                            /\ Wrong(x)' = Wrong(x) /\ Skipped(x)' = Skipped(x)
      BY <2>1, <3>2 DEF Lone1, Lone2, Wrong, Skipped
    <3> QED
      BY <2>1, <2>3, <3>1, <3>3 DEF CmpInv, CountInv, counters, total
  <2> QED
    BY <2>1, <2>2, <2>4 DEF CmpInv
<1>3. CASE Body
  <2>1. /\ cmp = "merge" /\ seen < Len(out) /\ seen' = seen + 1 /\ UNCHANGED <<vars, cmp>>
        /\ seen \in Nat /\ Len(out) \in Nat /\ IInv
    <3>1. cmp = "merge" /\ seen < Len(out) /\ seen' = seen + 1 /\ UNCHANGED <<vars, cmp>>
      BY <1>3 DEF Body, Superfluous, SkipRelative, Missing, Matched, Mismatched, Consume
    <3> QED
      BY <3>1, OutLength DEF CmpInv, CountInv
  <2>2. UNCHANGED <<it1, it2, out, gen, cmp>> /\ IInv'
    BY <2>1, IInvStep DEF vars
  <2> DEFINE k == seen + 1
  <2>3. /\ k \in 1..seen' /\ 1..seen \subseteq 1..seen' /\ seen' \in 0..Len(out')
        /\ \A x \in 1..seen' : x \in 1..seen \/ x = k
    BY <2>1, <2>2
  <2>4. \A x : /\ Lone1(x)' = Lone1(x) /\ Lone2(x)' = Lone2(x)
              /\ Wrong(x)' = Wrong(x) /\ Skipped(x)' = Skipped(x)
    BY <2>2 DEF Lone1, Lone2, Wrong, Skipped
  <2>5. CountInv
    BY DEF CmpInv
  <2>6. ASSUME Superfluous PROVE CountInv'
    <3>1. Lone2(k) /\ false_positive' = false_positive + 1
          /\ UNCHANGED <<match, false_negative, mismatch>>
      BY <2>6 DEF Superfluous, Consume, NoTrue, Lone2
    <3> QED
      BY <2>1, <2>3, <2>4, <2>5, <3>1 DEF CountInv, total
  <2>7. ASSUME SkipRelative PROVE CountInv'
    <3>1. Skipped(k) /\ UNCHANGED counters
      BY <2>7 DEF SkipRelative, NoTrue, true_rel, Skipped
    <3> QED
      BY <2>1, <2>3, <2>4, <2>5, <3>1 DEF CountInv, total, counters
  <2>8. ASSUME Missing PROVE CountInv'
    <3>1. Lone1(k) /\ false_negative' = false_negative + 1
          /\ UNCHANGED <<match, false_positive, mismatch>>
      BY <2>8 DEF Missing, Consume, NoTrue, NoPred, true_rel, Lone1
    <3> QED
      BY <2>1, <2>3, <2>4, <2>5, <3>1 DEF CountInv, total
  <2>9. ASSUME Matched PROVE CountInv'
    <3>1. match' = match + 1 /\ UNCHANGED <<false_positive, false_negative, mismatch>>
      BY <2>9 DEF Matched, Consume
    <3> QED
      BY <2>1, <2>3, <2>4, <2>5, <3>1 DEF CountInv, total
  <2>10. ASSUME Mismatched PROVE CountInv'
    <3>1. Wrong(k) /\ mismatch' = mismatch + 1
          /\ UNCHANGED <<match, false_positive, false_negative>>
      BY <2>10 DEF Mismatched, Both, Consume, NoTrue, NoPred, true_rel, pred_rel, Wrong
    <3> QED
      BY <2>1, <2>3, <2>4, <2>5, <3>1 DEF CountInv, total
  <2>11. CountInv'
    BY <1>3, <2>6, <2>7, <2>8, <2>9, <2>10 DEF Body
  <2> QED
    BY <2>1, <2>2, <2>11 DEF CmpInv
<1>4. CASE Score
  <2>1. /\ cmp = "merge" /\ gen = "returned" /\ seen = Len(out) /\ UNCHANGED <<vars, seen, counters>>
        /\ cmp' \in {"ZeroDivisionError", "scored"} /\ (cmp' = "ZeroDivisionError" => total = 0)
    BY <1>4 DEF Score
  <2>2. IInv'
    BY <2>1, IInvStep DEF CmpInv
  <2> QED
    BY <2>1, <2>2 DEF CmpInv, CountInv, vars, counters, total, Ended, Lone1, Lone2, Wrong, Skipped
<1> QED
  BY <1>1, <1>2, <1>3, <1>4 DEF CmpNext

-----------------------------------------------------------------------------
(* What a pair says of the two tables.                                       *)
NoDuplicates == ~HasDuplicate(it1) /\ ~HasDuplicate(it2)

LEMMA PairRange ==
    ASSUME IInv, NEW k \in 1..Len(out)
    PROVE  /\ Len(it1) \in Nat /\ Len(it2) \in Nat
           /\ out[k].l \in 0..Len(it1) /\ out[k].r \in 0..Len(it2)
           /\ out[k].l # 0 \/ out[k].r # 0
<1>1. done1 \in 0..Len(it1) /\ done2 \in 0..Len(it2)
  BY DoneTypes DEF IInv
<1>2. Len(it1) \in Nat /\ Len(it2) \in Nat
  BY KeysAreNatural DEF IInv, StateInv
<1>3. out[k].l \in 0..done1 /\ out[k].r \in 0..done2 /\ (out[k].l # 0 \/ out[k].r # 0)
  BY DEF IInv, OutInv, HandedOver
<1> QED
  BY <1>1, <1>2, <1>3

(* A key yielded alone from one side does not occur on the other.            *)
LEMMA LoneHasNoPartner ==
    ASSUME IInv, NoDuplicates, NEW k \in 1..Len(out)
    PROVE  /\ out[k].l = 0 => \A x \in 1..Len(it1) : Key(it1[x]) # Key(it2[out[k].r])
           /\ out[k].r = 0 => \A y \in 1..Len(it2) : Key(it2[y]) # Key(it1[out[k].l])
<1>1. /\ Len(it1) \in Nat /\ Len(it2) \in Nat
      /\ \A x \in 1..Len(it1) : Key(it1[x]) \in Nat
      /\ \A y \in 1..Len(it2) : Key(it2[y]) \in Nat
  BY KeysAreNatural DEF IInv, StateInv
<1>2. done1 \in 0..Len(it1) /\ done2 \in 0..Len(it2)
  BY DoneTypes DEF IInv
<1>3. HandedOver /\ PairsAgree /\ NoLostMatch /\ LoneBelow
  BY DEF IInv, OutInv
<1>4. \A m \in 1..Len(out) : /\ out[m].l \in 0..Len(it1) /\ out[m].r \in 0..Len(it2)
                             /\ out[m].l # 0 \/ out[m].r # 0
  BY PairRange
<1>5. ASSUME out[k].l = 0, NEW x \in 1..Len(it1), Key(it1[x]) = Key(it2[out[k].r])
      PROVE  FALSE
  <2>1. x \in 1..done1
    <3>1. ~(x \in (done1 + 1)..Len(it1))
      BY <1>1, <1>2, <1>3, <1>4, <1>5 DEF LoneBelow
    <3> QED
      BY <3>1, <1>1, <1>2
  <2>2. PICK m \in 1..Len(out) : out[m].l = x
    BY <2>1, <1>3 DEF HandedOver
  <2>3. out[m].r # 0
    BY <1>3, <1>5, <2>2 DEF NoLostMatch
  <2>4. Key(it1[x]) = Key(it2[out[m].r])
    BY <1>3, <2>2, <2>3 DEF PairsAgree
  <2>5. out[m].r = out[k].r
    <3>1. out[m].r \in 1..Len(it2) /\ out[k].r \in 1..Len(it2)
      BY <1>1, <1>4, <1>5, <2>3
    <3> QED
      BY <1>5, <2>4, <3>1 DEF NoDuplicates, HasDuplicate
  <2>6. m = k
    BY <1>3, <2>3, <2>5 DEF HandedOver
  <2> QED
    BY <1>5, <2>2, <2>6
<1>6. ASSUME out[k].r = 0, NEW y \in 1..Len(it2), Key(it2[y]) = Key(it1[out[k].l])
      PROVE  FALSE
  <2>1. y \in 1..done2
    <3>1. ~(y \in (done2 + 1)..Len(it2))
      BY <1>1, <1>2, <1>3, <1>4, <1>6 DEF LoneBelow
    <3> QED
      BY <3>1, <1>1, <1>2
  <2>2. PICK m \in 1..Len(out) : out[m].r = y
    BY <2>1, <1>3 DEF HandedOver
  <2>3. out[m].l # 0
    BY <1>3, <1>6, <2>2 DEF NoLostMatch
  <2>4. Key(it1[out[m].l]) = Key(it2[y])
    BY <1>3, <2>2, <2>3 DEF PairsAgree
  <2>5. out[m].l = out[k].l
    <3>1. out[m].l \in 1..Len(it1) /\ out[k].l \in 1..Len(it1)
      BY <1>1, <1>4, <1>6, <2>3
    <3> QED
      BY <1>6, <2>4, <3>1 DEF NoDuplicates, HasDuplicate
  <2>6. m = k
    BY <1>3, <2>3, <2>5 DEF HandedOver
  <2> QED
    BY <1>6, <2>2, <2>6
<1> QED
  BY <1>5, <1>6

(* An address has one entry in a table without duplicates, at its position.  *)
LEMMA AtPosition ==
    ASSUME NEW s, ~HasDuplicate(s), NEW x \in 1..Len(s)
    PROVE  At(s, Key(s[x])) = s[x]
<1>1. s[x] \in Rels(s)
  BY DEF Rels
<1>2. At(s, Key(s[x])) \in Rels(s) /\ Key(At(s, Key(s[x]))) = Key(s[x])
  BY <1>1 DEF At
<1>3. PICK y \in 1..Len(s) : At(s, Key(s[x])) = s[y]
  BY <1>2 DEF Rels
<1> QED
  BY <1>2, <1>3 DEF HasDuplicate

(* Once the loop has ended all entries have been paired and consumed.        *)
LEMMA AllConsumed ==
    ASSUME CmpInv, cmp \in {"scored", "ZeroDivisionError"}
    PROVE  /\ IInv /\ NoDuplicates /\ seen = Len(out) /\ Len(out) \in Nat
           /\ \A x \in 1..Len(it1) : \E k \in 1..Len(out) : out[k].l = x
           /\ \A y \in 1..Len(it2) : \E k \in 1..Len(out) : out[k].r = y
<1>1. IInv /\ gen = "returned" /\ seen = Len(out) /\ NoDuplicates
  BY DEF CmpInv, NoDuplicates
<1>2. NothingDropped
  BY <1>1, AllHandedOver
<1> QED
  BY <1>1, <1>2, OutLength DEF NothingDropped

LEMMA CrashMeansEmpty == ASSUME CmpInv PROVE CrashOnlyOnEmpty
<1> SUFFICES ASSUME cmp = "ZeroDivisionError"
             PROVE  Compared = {} /\ Addrs(it2) \subseteq Addrs(it1)
  BY DEF CrashOnlyOnEmpty
<1>1. /\ IInv /\ NoDuplicates /\ seen = Len(out)
      /\ \A x \in 1..Len(it1) : \E k \in 1..Len(out) : out[k].l = x
      /\ \A y \in 1..Len(it2) : \E k \in 1..Len(out) : out[k].r = y
  BY AllConsumed
<1>2. \A k \in 1..Len(out) : Skipped(k)
  BY <1>1 DEF CmpInv, CountInv
<1>3. ASSUME NEW a \in Addrs(it1) PROVE Relative(At(it1, a))
  <2>1. PICK x \in 1..Len(it1) : a = Key(it1[x])
    BY DEF Addrs, Rels
  <2>2. Relative(it1[x])
    BY <1>1, <1>2 DEF Skipped
  <2> QED
    BY <1>1, <2>1, <2>2, AtPosition DEF NoDuplicates
<1>4. ASSUME NEW b \in Addrs(it2) PROVE b \in Addrs(it1)
  <2>1. PICK y \in 1..Len(it2) : b = Key(it2[y])
    BY DEF Addrs, Rels
  <2>2. PICK k \in 1..Len(out) : out[k].r = y
    BY <1>1
  <2>3. out[k].l \in 1..Len(it1) /\ y # 0
    BY <1>1, <1>2, PairRange DEF Skipped
  <2>4. Key(it1[out[k].l]) = b
    BY SMTT(30), <1>1, <2>1, <2>2, <2>3 DEF IInv, OutInv, PairsAgree
  <2> QED
    BY <2>3, <2>4 DEF Addrs, Rels
<1> QED
  BY <1>3, <1>4 DEF Compared

LEMMA CrashMeansEmptyNext == CmpInv' => CrashOnlyOnEmpty'
  BY CrashMeansEmpty, PTL

LEMMA FaithfulHasNoErrors == ASSUME CmpInv PROVE FaithfulScoresAll
<1> SUFFICES ASSUME cmp = "scored", Addrs(it2) \subseteq Addrs(it1), Faithful
             PROVE  match = total
  BY DEF FaithfulScoresAll
<1>1. IInv /\ NoDuplicates /\ seen = Len(out)
  BY AllConsumed
<1>2. \A k \in 1..Len(out) : /\ Len(it1) \in Nat /\ Len(it2) \in Nat
                             /\ out[k].l \in 0..Len(it1) /\ out[k].r \in 0..Len(it2)
                             /\ out[k].l # 0 \/ out[k].r # 0
  BY <1>1, PairRange
<1>3. ASSUME NEW k \in 1..Len(out), Lone2(k) PROVE FALSE
  <2>1. out[k].l = 0 /\ out[k].r \in 1..Len(it2)
    BY <1>2, <1>3 DEF Lone2
  <2>2. Key(it2[out[k].r]) \in Addrs(it1)
    BY <2>1 DEF Addrs, Rels
  <2>3. PICK x \in 1..Len(it1) : Key(it1[x]) = Key(it2[out[k].r])
    BY <2>2 DEF Addrs, Rels
  <2> QED
    BY <1>1, <2>1, <2>3, LoneHasNoPartner
<1>4. \A x \in 1..Len(it1) : ~Relative(it1[x]) => Key(it1[x]) \in Compared
  BY <1>1, AtPosition DEF Compared, Addrs, Rels, NoDuplicates
<1>5. ASSUME NEW k \in 1..Len(out), Lone1(k) PROVE FALSE
  <2>1. out[k].l \in 1..Len(it1) /\ out[k].r = 0 /\ ~Relative(it1[out[k].l])
    BY <1>2, <1>5 DEF Lone1
  <2>2. Key(it1[out[k].l]) \in Addrs(it2)
    BY <1>4, <2>1 DEF Faithful
  <2>3. PICK y \in 1..Len(it2) : Key(it2[y]) = Key(it1[out[k].l])
    BY <2>2 DEF Addrs, Rels
  <2> QED
    BY <1>1, <2>1, <2>3, LoneHasNoPartner
<1>6. ASSUME NEW k \in 1..Len(out), Wrong(k) PROVE FALSE
  <2> DEFINE x == out[k].l
             y == out[k].r
  <2>1. x \in 1..Len(it1) /\ y \in 1..Len(it2) /\ ~Relative(it1[x]) /\ ~Agrees(it1[x], it2[y])
    BY <1>2, <1>6 DEF Wrong
  <2>2. Key(it1[x]) = Key(it2[y])
    BY <1>1, <2>1 DEF IInv, OutInv, PairsAgree
  <2>3. At(it1, Key(it1[x])) = it1[x] /\ At(it2, Key(it1[x])) = it2[y]
    BY <1>1, <2>1, <2>2, AtPosition DEF NoDuplicates
  <2>4. it2[y].value = it1[x].value /\ it2[y].type_ = it1[x].type_ /\ ~it2[y].abs
    BY <1>4, <2>1, <2>3 DEF Faithful
  <2> QED
    BY <2>1, <2>4 DEF Agrees
<1>7. false_positive = 0 /\ false_negative = 0 /\ mismatch = 0 /\ match \in Nat
  BY <1>1, <1>3, <1>5, <1>6 DEF CmpInv, CountInv
<1> QED
  BY <1>7 DEF total

-----------------------------------------------------------------------------
(* From reading the symbolized file to the end of the grading.               *)
LEMMA SetToSeqRels ==
    ASSUME NEW S, IsFiniteSet(S)
    PROVE  /\ SetToSeq(S) \in Seq(S) /\ Rels(SetToSeq(S)) = S
           /\ \A x, y \in 1..Len(SetToSeq(S)) : SetToSeq(S)[x] = SetToSeq(S)[y] => x = y
<1> DEFINE n == Cardinality(S)
           F(f) == f \in [1..n -> S] /\ IsInjective(f)
<1>1. n \in Nat /\ ExistsBijection(1..n, S)
  BY FS_CardinalityType
<1>2. \E f : F(f)
  BY <1>1 DEF ExistsBijection, Bijection, Injection, IsInjective
<1>3. SetToSeq(S) \in [1..n -> S] /\ IsInjective(SetToSeq(S))
  BY <1>2 DEF SetToSeq, IsInjective
<1>4. IsFiniteSet(1..n) /\ Cardinality(1..n) = n
  BY <1>1, FS_Interval
<1>5. SetToSeq(S) \in Injection(1..n, S)
  BY <1>3 DEF Injection, IsInjective
<1>6. SetToSeq(S) \in Surjection(1..n, S)
  BY <1>4, <1>5, FS_Injection
<1>7. SetToSeq(S) \in Seq(S) /\ Len(SetToSeq(S)) = n
  BY <1>1, <1>3
<1>8. \A e \in S : \E k \in 1..n : SetToSeq(S)[k] = e
  BY <1>6 DEF Surjection
<1>9. \A k \in 1..n : SetToSeq(S)[k] \in S
  BY <1>3
<1>10. \A x, y \in 1..n : SetToSeq(S)[x] = SetToSeq(S)[y] => x = y
  BY <1>5 DEF Injection, IsInjective
<1> QED
  BY <1>7, <1>8, <1>9, <1>10 DEF Rels

LEMMA Appended ==
    ASSUME NEW s, Keyed(s), NEW S, IsFiniteSet(S), \A t \in S : Key(t) \in Nat
    PROVE  Keyed(s \o SetToSeq(S)) /\ Rels(s \o SetToSeq(S)) = Rels(s) \cup S
<1> DEFINE q == SetToSeq(S)
           T == {s[x] : x \in DOMAIN s}
           c == s \o q
<1>1. q \in Seq(S) /\ Rels(q) = S /\ s \in Seq(T)
  BY SetToSeqRels DEF Keyed
<1> HIDE DEF q
<1>2. \A x \in 1..Len(s) : Key(s[x]) \in Nat
  BY <1>1 DEF Keyed
<1>3. /\ c \in Seq(T \cup S) /\ Len(c) = Len(s) + Len(q) /\ Len(s) \in Nat /\ Len(q) \in Nat
      /\ \A x \in 1..Len(c) : c[x] = IF x <= Len(s) THEN s[x] ELSE q[x - Len(s)]
  BY <1>1
<1>4. Rels(c) = Rels(s) \cup S
  <2>1. \A x \in 1..Len(s) : x \in 1..Len(c) /\ c[x] = s[x]
    BY <1>3
  <2>2. \A y \in 1..Len(q) : Len(s) + y \in 1..Len(c) /\ c[Len(s) + y] = q[y]
    BY <1>3
  <2>3. \A x \in 1..Len(c) : x \in 1..Len(s) \/ x - Len(s) \in 1..Len(q)
    BY <1>3
  <2>4. Rels(s) \subseteq Rels(c) /\ Rels(q) \subseteq Rels(c)
    BY <2>1, <2>2 DEF Rels
  <2>5. ASSUME NEW x \in 1..Len(c) PROVE c[x] \in Rels(s) \cup Rels(q)
    <3>1. CASE x \in 1..Len(s)
      BY <2>1, <3>1 DEF Rels
    <3>2. CASE x - Len(s) \in 1..Len(q)
      <4>1. c[Len(s) + (x - Len(s))] = q[x - Len(s)] /\ Len(s) + (x - Len(s)) = x
        BY <1>3, <2>2, <3>2
      <4> QED
        BY <3>2, <4>1 DEF Rels
    <3> QED
      BY <2>3, <3>1, <3>2
  <2>6. Rels(c) \subseteq Rels(s) \cup Rels(q)
    BY <2>5 DEF Rels
  <2> QED
    BY <1>1, <2>4, <2>6
<1>5. \A t \in Rels(s) \cup S : Key(t) \in Nat
  BY <1>2 DEF Rels
<1>6. \A x \in 1..Len(c) : Key(c[x]) \in Nat
  BY <1>4, <1>5 DEF Rels
<1>7. DOMAIN c = 1..Len(c) /\ c \in Seq({c[x] : x \in DOMAIN c})
  <2>1. c \in Seq(T \cup S)
    BY <1>3
  <2> HIDE DEF c
  <2>2. c \in [1..Len(c) -> T \cup S] /\ Len(c) \in Nat /\ DOMAIN c = 1..Len(c)
    BY <2>1
  <2>3. c \in [1..Len(c) -> {c[x] : x \in DOMAIN c}]
    BY <2>2
  <2> QED
    BY <2>2, <2>3
<1>8. Keyed(c)
  BY <1>6, <1>7 DEF Keyed
<1> QED
  BY <1>4, <1>8 DEF q

(* A relocation that can be read lies at an address.                         *)
LEMMA ReadableHasAddress ==
    ASSUME NEW s \in UNION Setups, part = s.part, NEW r \in Names!Refs, ~Names!Unreadable(r)
    PROVE  Key(Names!AsRecord(r)) \in Nat
<1>0. PICK x \in 1..Len(part) : \E o \in part[x].first..part[x].last :
            \E ref \in Program[o].refs : r = [sec |-> x, obj |-> o, ref |-> ref]
  BY DEF Names!Refs, Names!Sections, Names!Objects
<1>1. PICK o \in part[x].first..part[x].last :
            \E ref \in Program[o].refs : r = [sec |-> x, obj |-> o, ref |-> ref]
  BY <1>0
<1>2. PICK ref \in Program[o].refs : r = [sec |-> x, obj |-> o, ref |-> ref]
  BY <1>1
<1>3. /\ part[x].first \in 1..Len(Program) /\ part[x].last \in 1..Len(Program)
      /\ part[x].sh_addr \in Nat
  BY SetupsAssumption
<1>4. o \in 1..Len(Program) /\ part[x].first <= o /\ Len(Program) \in Nat
  BY <1>3, ProgramAssumption
<1>5. /\ Program[o].addr \in Nat /\ ref.off \in Nat
      /\ Program[part[x].first].addr \in Nat
      /\ Program[part[x].first].addr <= Program[o].addr
  <2>1. Program[o].addr \in Nat /\ ref.off \in Nat /\ Program[part[x].first].addr \in Nat
    BY <1>3, <1>4, ProgramAssumption
  <2>2. CASE part[x].first = o
    BY <2>1, <2>2
  <2>3. CASE part[x].first # o
    <3>1. part[x].first < o
      BY <1>3, <1>4, <2>3
    <3>2. Program[part[x].first].addr < Program[o].addr
      BY <1>3, <1>4, <3>1, ProgramAssumption
    <3> QED
      BY <2>1, <3>2
  <2> QED
    BY <2>1, <2>2, <2>3
<1>6. Names!resolve_section_vaddr(x) \in Nat
  <2>1. Names!resolve_section_vaddr(x) # Names!Unresolvable
    BY <1>2 DEF Names!Unreadable
  <2> QED
    BY <1>3, <1>5, <2>1 DEF Names!resolve_section_vaddr, Names!Base
<1>7. Key(Names!AsRecord(r)) =
        Names!resolve_section_vaddr(x) + Program[o].addr - Program[part[x].first].addr + ref.off
  BY <1>2 DEF Key, Names!AsRecord, Names!RelVaddr, Names!Base
<1> QED
  BY <1>5, <1>6, <1>7

(* Whatever is read arrives in the comparison, or nothing does: until the    *)
(* table is complete nothing is sorted, and a table given up is empty.       *)
Arrived == \A r \in Names!Refs : Names!AsRecord(r) \in Rels(it2)
GivenUp == cmp = "sort" /\ table = {} /\ match = 0

GradeInv ==
    /\ CmpInv
    /\ \E s \in UNION Setups : part = s.part
    /\ IsFiniteSet(table) /\ \A t \in table : Key(t) \in Nat
    /\ left \subseteq Names!Refs
    /\ step \in {"read", "compare", "segments", "replace", "graded", "aborted"}
    /\ step = "read" => /\ cmp = "sort" /\ match = 0
                        /\ \A r \in Names!Refs \ left : Names!AsRecord(r) \in table
    /\ step = "compare" => cmp \in {"sort", "merge"}
    /\ step \in {"compare", "aborted"} => Arrived
    /\ step = "aborted" => cmp \in Ended \ {"scored"}
    /\ step \in {"segments", "replace", "graded"} => GivenUp \/ (cmp = "scored" /\ Arrived)

LEMMA GradeInitOK == ASSUME GradeInit PROVE GradeInv
<1>1. CmpInv
  BY CmpInitOK DEF GradeInit
<1>2. \E s \in UNION Setups : part = s.part
  BY DEF GradeInit
<1>3. /\ table = {} /\ left = Names!Refs /\ step = "read" /\ cmp = "sort" /\ match = 0
  BY DEF GradeInit, Names!Unread, CmpInit
<1>4. IsFiniteSet(table)
  BY <1>3, FS_EmptySet
<1> QED
  BY <1>1, <1>2, <1>3, <1>4 DEF GradeInv

(* The parsed file is only read. *)
LEMMA SameFile ==
    ASSUME part' = part, absolute' = absolute
    PROVE  /\ Names!Refs' = Names!Refs
           /\ \A r : Names!AsRecord(r)' = Names!AsRecord(r)
<1>1. Names!Refs' = Names!Refs
  BY DEF Names!Refs, Names!Sections, Names!Objects
<1>2. \A x : Names!resolve_section_vaddr(x)' = Names!resolve_section_vaddr(x)
  BY DEF Names!resolve_section_vaddr, Names!Base
<1>3. \A ref : Names!Target(ref)' = Names!Target(ref)
  BY <1>2 DEF Names!Target, Names!Home, Names!Sections, Names!Objects, Names!Base
<1>4. \A r : Names!RelVaddr(r)' = Names!RelVaddr(r)
  BY <1>2 DEF Names!RelVaddr, Names!Base
<1> QED
  BY <1>1, <1>3, <1>4 DEF Names!AsRecord

LEMMA CmpInvFrame == ASSUME CmpInv, UNCHANGED cmpVars PROVE CmpInv'
<1>1. UNCHANGED <<it1, it2, n1, n2, kl, kr, gen, out, cmp, seen, match, false_positive,
                  false_negative, mismatch>>
  BY DEF cmpVars, counters, vars
<1>2. IInv => IInv'
  BY <1>1, IInvStep DEF vars
<1> QED
  BY <1>1, <1>2 DEF CmpInv, CountInv, GenInit, total, Lone1, Lone2, Wrong, Skipped

LEMMA ReadStep == ASSUME GradeInv, ReadPart PROVE GradeInv'
<1>1. step = "read" /\ cmp = "sort" /\ match = 0 /\ CmpInv
  BY DEF ReadPart, GradeInv
<1>2. CASE left # {}
  <2>1. UNCHANGED cmpVars
    BY <1>2 DEF ReadPart
  <2>2. CmpInv' /\ cmp' = cmp /\ match' = match /\ it2' = it2
    BY <1>1, <2>1, CmpInvFrame DEF cmpVars, vars, counters
  <2>3. PICK r \in left : Names!YieldRelocation(r) \/ Names!NameError(r)
    BY <1>2 DEF ReadPart
  <2>4. part' = part /\ absolute' = absolute
    BY <2>3 DEF Names!YieldRelocation, Names!NameError
  <2>5. Names!Refs' = Names!Refs /\ \A q : Names!AsRecord(q)' = Names!AsRecord(q)
    BY <2>4, SameFile
  <2>6. PICK s \in UNION Setups : part = s.part
    BY DEF GradeInv
  <2>7. CASE Names!YieldRelocation(r)
    <3>1. /\ left' = left \ {r} /\ table' = table \cup {Names!AsRecord(r)}
          /\ pc' = "relocations" /\ ~Names!Unreadable(r)
      BY <2>7 DEF Names!YieldRelocation
    <3>2. step' = "read"
      BY <1>2, <3>1 DEF ReadPart
    <3>3. r \in Names!Refs
      BY DEF GradeInv
    <3>4. Key(Names!AsRecord(r)) \in Nat
      BY <2>6, <3>1, <3>3, ReadableHasAddress
    <3>5. IsFiniteSet(table')
      BY <3>1, FS_AddElement DEF GradeInv
    <3>6. \A t \in table' : Key(t) \in Nat
      BY <3>1, <3>4 DEF GradeInv
    <3>7. \A q \in Names!Refs \ left' : Names!AsRecord(q) \in table'
      BY <1>1, <3>1 DEF GradeInv
    <3>8. left' \subseteq Names!Refs
      BY <3>1 DEF GradeInv
    <3> QED
      BY <1>1, <2>2, <2>4, <2>5, <2>6, <3>2, <3>5, <3>6, <3>7, <3>8 DEF GradeInv
  <2>8. CASE Names!NameError(r)
    <3>1. left' = {} /\ table' = {} /\ pc' = "unreadable"
      BY <2>8 DEF Names!NameError
    <3>2. step' = "segments"
      BY <1>2, <3>1 DEF ReadPart
    <3>3. IsFiniteSet(table')
      BY <3>1, FS_EmptySet
    <3> QED
      BY <1>1, <2>2, <2>4, <2>6, <3>1, <3>2, <3>3 DEF GradeInv, GivenUp
  <2> QED
    BY <2>3, <2>7, <2>8
<1>3. CASE left = {}
  <2>1. /\ it2' = it2 \o SetToSeq(table) /\ step' = "compare"
        /\ UNCHANGED <<it1, genVars, cmp, seen, counters, namVars>>
    BY <1>3 DEF ReadPart
  <2>2. Keyed(it2') /\ Rels(it2') = Rels(it2) \cup table
    BY <2>1, Appended DEF GradeInv, CmpInv
  <2>3. CmpInv'
    <3>1. /\ cmp' = "sort" /\ GenInit' /\ seen' = 0 /\ total' = 0 /\ Keyed(it1')
      BY <1>1, <2>1 DEF CmpInv, GenInit, genVars, counters, total
    <3>2. /\ out' = out /\ seen = 0 /\ total = 0
          /\ match' = match /\ false_positive' = false_positive
          /\ false_negative' = false_negative /\ mismatch' = mismatch
      BY <1>1, <2>1 DEF CmpInv, genVars, counters
    <3>3. CountInv'
      <4>1. match = 0 /\ false_positive = 0 /\ false_negative = 0 /\ mismatch = 0 /\ Len(out) \in Nat
        BY <1>1, <3>2 DEF CmpInv, CountInv, total, GenInit
      <4>2. /\ match' = 0 /\ false_positive' = 0 /\ false_negative' = 0 /\ mismatch' = 0
            /\ Len(out') \in Nat /\ 1..seen' = {} /\ seen' \in 0..Len(out')
        BY <3>1, <3>2, <4>1
      <4> QED
        BY <4>2 DEF CountInv
    <3> QED
      BY <2>2, <3>1, <3>3 DEF CmpInv
  <2>4. /\ part' = part /\ absolute' = absolute /\ left' = left /\ table' = table
        /\ cmp' = cmp
    BY <2>1 DEF namVars
  <2>5. Names!Refs' = Names!Refs /\ \A q : Names!AsRecord(q)' = Names!AsRecord(q)
    BY <2>4, SameFile
  <2>6. Arrived'
    <3>1. \A q \in Names!Refs : Names!AsRecord(q) \in table
      BY <1>1, <1>3 DEF GradeInv
    <3> QED
      BY <2>2, <2>5, <3>1 DEF Arrived
  <2> QED
    BY <1>1, <2>1, <2>3, <2>4, <2>5, <2>6 DEF GradeInv
<1> QED
  BY <1>2, <1>3

(* Sorting keeps the relocations; nothing else touches the tables.           *)
LEMMA ComparisonKeepsRels ==
    ASSUME CmpInv, CmpNext
    PROVE  Rels(it1') = Rels(it1) /\ Rels(it2') = Rels(it2)
<1>1. CASE SortTables
  BY <1>1, SortingPermutes DEF SortTables, CmpInv
<1>2. CASE ~SortTables
  BY <1>2 DEF CmpNext, Resume, Body, Superfluous, SkipRelative, Missing, Matched, Mismatched,
              Consume, Score, inputs, vars
<1> QED
  BY <1>1, <1>2

LEMMA CompareStep == ASSUME GradeInv, Compare PROVE GradeInv'
<1>1. step = "compare" /\ CmpNext /\ CmpInv /\ Arrived /\ step' = ComparisonNext
  BY DEF Compare, GradeInv
<1>2. CmpInv' /\ Rels(it2') = Rels(it2)
  BY <1>1, CmpStep, ComparisonKeepsRels
<1>3. /\ part' = part /\ absolute' = absolute /\ left' = left /\ table' = table
  BY DEF Compare, namVars
<1>4. Names!Refs' = Names!Refs /\ \A q : Names!AsRecord(q)' = Names!AsRecord(q)
  BY <1>3, SameFile
<1>5. Arrived'
  BY <1>1, <1>2, <1>4 DEF Arrived
<1>6. /\ step' \in {"compare", "segments", "aborted"}
      /\ step' = "compare" => cmp' \in {"sort", "merge"}
      /\ step' = "segments" => cmp' = "scored"
      /\ step' = "aborted" => cmp' \notin {"sort", "merge", "scored"}
  BY <1>1 DEF ComparisonNext
<1>7. cmp' \in {"sort", "merge"} \cup Ended
  BY <1>2 DEF CmpInv, Ended
<1> QED
  BY <1>2, <1>3, <1>4, <1>5, <1>6, <1>7 DEF GradeInv

(* Neither the segments nor the replacement touch the comparison.            *)
LEMMA LaterStep == ASSUME GradeInv, CompareSegments \/ Replace PROVE GradeInv'
<1>1. /\ step \in {"segments", "replace"} /\ step' \in {"segments", "replace", "graded"}
      /\ UNCHANGED cmpVars
  BY DEF CompareSegments, Replace
<1>2. UNCHANGED <<part, absolute, left, table>>
  BY DEF CompareSegments, Replace, namVars, Names!CopyPart, Names!ModifyInplace, Names!NotFound,
         Names!Link
<1>3. CmpInv' /\ it2' = it2 /\ cmp' = cmp /\ match' = match
  BY <1>1, CmpInvFrame DEF GradeInv, cmpVars, vars, counters
<1>4. Names!Refs' = Names!Refs /\ \A q : Names!AsRecord(q)' = Names!AsRecord(q)
  BY <1>2, SameFile
<1>5. GivenUp \/ (cmp = "scored" /\ Arrived)
  BY <1>1 DEF GradeInv
<1>6. GivenUp' \/ (cmp' = "scored" /\ Arrived')
  BY <1>2, <1>3, <1>4, <1>5 DEF GivenUp, Arrived
<1> QED
  BY <1>1, <1>2, <1>3, <1>4, <1>6 DEF GradeInv

LEMMA GradeInvFrame == ASSUME GradeInv, UNCHANGED gradeVars PROVE GradeInv'
<1>1. UNCHANGED <<step, it2, part, absolute, left, table, cmp, match>> /\ UNCHANGED cmpVars
  BY DEF gradeVars, cmpVars, namVars, vars, counters
<1>2. CmpInv'
  BY <1>1, CmpInvFrame DEF GradeInv
<1>3. Names!Refs' = Names!Refs /\ \A q : Names!AsRecord(q)' = Names!AsRecord(q)
  BY <1>1, SameFile
<1> QED
  BY <1>1, <1>2, <1>3 DEF GradeInv, GivenUp, Arrived

THEOREM GradeInvariance == GradeSpec => []GradeInv
<1>1. GradeInv /\ [GradeNext]_gradeVars => GradeInv'
  BY ReadStep, CompareStep, LaterStep, GradeInvFrame DEF GradeNext
<1> QED
  BY <1>1, GradeInitOK, PTL DEF GradeSpec

(* The pairing of merge_sorted is right in every grading: pairs have equal   *)
(* keys, no match is lost, the pairs come in order, and none is dropped.     *)
THEOREM PairsRight ==
    GradeSpec => [](PairsAgree /\ NoLostMatch /\ OutputSorted /\ NothingDropped)
<1>1. ASSUME GenInit PROVE PairsAgree /\ NoLostMatch /\ OutputSorted /\ NothingDropped
  <2>1. out = <<>> /\ gen = "loop" /\ 1..Len(out) = {}
    BY <1>1 DEF GenInit
  <2> QED
    BY <2>1 DEF PairsAgree, NoLostMatch, OutputSorted, NothingDropped
<1>2. ASSUME IInv PROVE PairsAgree /\ NoLostMatch /\ OutputSorted /\ NothingDropped
  BY <1>2, AllHandedOver DEF IInv, OutInv
<1>3. GradeInv => PairsAgree /\ NoLostMatch /\ OutputSorted /\ NothingDropped
  BY <1>1, <1>2 DEF GradeInv, CmpInv
<1> QED
  BY <1>3, GradeInvariance, PTL

(* compare_relocations divides by zero only where there is nothing to find   *)
(* and nothing superfluous, in whatever order the relocations are reported.  *)
THEOREM DividesByZeroOnlyOnEmpty == GradeSpec => []CrashOnlyOnEmpty
<1>1. GradeInv => CrashOnlyOnEmpty
  BY CrashMeansEmpty DEF GradeInv
<1> QED
  BY <1>1, GradeInvariance, PTL

(* The relocations of the truth, against symbols in sections, score ALL.     *)
THEOREM FaithfulScoresFully == GradeSpec => []FaithfulScoresAll
<1>1. GradeInv => FaithfulScoresAll
  BY FaithfulHasNoErrors DEF GradeInv
<1> QED
  BY <1>1, GradeInvariance, PTL

(* A symbolized file is read as a whole or scores 0: no relocation that      *)
(* could be read is ever missing from a comparison.                          *)
THEOREM ReadsAllOrNothing == GradeSpec => []ReadOrZero
<1>1. GradeInv => ReadOrZero
  BY DEF GradeInv, ReadOrZero, Arrived, GivenUp
<1> QED
  BY <1>1, GradeInvariance, PTL

-----------------------------------------------------------------------------
(* The segments.  What is known of a role depends on the headers looked at   *)
(* so far: nothing if none of them has the role, and the last that has       *)
(* otherwise.                                                                *)
RoleNames == {"text", "data", "bss"}
Scanned(f) == IF scanning = f THEN pos
              ELSE IF scanning = Absent \/ f = "truth" THEN Len(headers[f])
              ELSE 0

RoleFound(f, r) ==
    \/ /\ main[f][r] = Absent
       /\ \A k \in 1..Scanned(f) : Segs!RoleOf(headers[f][k]) # r
    \/ \E k \in 1..Scanned(f) :
          /\ main[f][r] = headers[f][k] /\ Segs!RoleOf(headers[f][k]) = r
          /\ \A j \in 1..Scanned(f) : k < j => Segs!RoleOf(headers[f][j]) # r

Differs(r) == Segs!SegmentErrors(main.truth[r], main.symbolized[r])

HeadersOK ==
    \A f \in Segs!Files : /\ Len(headers[f]) \in Nat
                          /\ \A k \in 1..Len(headers[f]) : IsHeader(headers[f][k])
RoleValues == {Absent} \cup UNION {Segs!Headers(f) : f \in Segs!Files}
SegTypeOK ==
    /\ HeadersOK
    /\ scanning \in Segs!Files \cup {Absent}
    /\ scanning # Absent => pos \in 0..Len(headers[scanning]) /\ compared = 0
    /\ compared \in 0..3 /\ fail \in BOOLEAN
    /\ main \in [Segs!Files -> [RoleNames -> RoleValues]]
RolesFound == \A f \in Segs!Files, r \in RoleNames : RoleFound(f, r)
FailInv == fail <=> \E x \in 1..compared : Differs(Segs!Roles[x])

SegInv == SegTypeOK /\ RolesFound /\ FailInv

LEMMA SegInitOK == ASSUME GradeInit PROVE SegInv
<1>1. /\ scanning = "truth" /\ pos = 0 /\ compared = 0 /\ fail = FALSE
      /\ main = [f \in Segs!Files |-> [text |-> Absent, data |-> Absent, bss |-> Absent]]
  BY DEF GradeInit, Segs!Unscanned
<1>2. HeadersOK
  BY SetupsAssumption DEF GradeInit, HeadersOK, Segs!Files
<1>3. "truth" # Absent /\ "symbolized" # Absent
  BY AbsentAssumption
<1>4. \A f \in Segs!Files : Scanned(f) = 0
  BY <1>1, <1>3 DEF Scanned, Segs!Files
<1>5. [text |-> Absent, data |-> Absent, bss |-> Absent] \in [RoleNames -> {Absent}]
  BY DEF RoleNames
<1>6. \A f \in Segs!Files, r \in RoleNames : main[f][r] = Absent
  BY <1>1, <1>5 DEF RoleNames
<1>7. \A f \in Segs!Files, r \in RoleNames : RoleFound(f, r)
  BY <1>4, <1>6 DEF RoleFound
<1>8. main \in [Segs!Files -> [RoleNames -> RoleValues]]
  BY <1>1, <1>5 DEF RoleValues
<1>9. pos \in 0..Len(headers["truth"])
  BY <1>1, <1>2 DEF HeadersOK, Segs!Files
<1>10. 1..compared = {} /\ compared \in 0..3 /\ scanning \in Segs!Files
  BY <1>1 DEF Segs!Files
<1>11. SegTypeOK
  BY <1>1, <1>2, <1>8, <1>9, <1>10 DEF SegTypeOK
<1>12. RolesFound
  BY <1>7 DEF RolesFound
<1>13. FailInv
  BY <1>1, <1>10 DEF FailInv
<1> QED
  BY <1>11, <1>12, <1>13 DEF SegInv

LEMMA SegInvFrame == ASSUME SegInv, UNCHANGED segVars PROVE SegInv'
<1>1. UNCHANGED <<headers, scanning, pos, main, compared, fail>>
  BY DEF segVars
<1>2. \A f, r : RoleFound(f, r)' = RoleFound(f, r)
  BY <1>1 DEF RoleFound, Scanned
<1>3. \A r : Differs(r)' = Differs(r)
  BY <1>1 DEF Differs
<1>4. RoleValues' = RoleValues
  BY <1>1 DEF RoleValues, Segs!Headers
<1> QED
  BY <1>1, <1>2, <1>3, <1>4 DEF SegInv, SegTypeOK, RolesFound, FailInv, HeadersOK

LEMMA ScanStep == ASSUME SegInv, Segs!ScanSegment PROVE SegInv'
<1> DEFINE f0 == scanning
           k0 == pos + 1
           h0 == headers[scanning][pos + 1]
<1>1. /\ scanning # Absent /\ pos < Len(headers[f0]) /\ pos' = k0
      /\ headers' = headers /\ scanning' = scanning /\ compared' = compared /\ fail' = fail
      /\ main' = IF Segs!RoleOf(h0) = "ignored" THEN main
                 ELSE [main EXCEPT ![f0][Segs!RoleOf(h0)] = h0]
  BY DEF Segs!ScanSegment
<1>2. f0 \in Segs!Files /\ pos \in Nat /\ Len(headers[f0]) \in Nat /\ compared = 0
  BY <1>1 DEF SegInv, SegTypeOK, RolesFound, FailInv, HeadersOK
<1>3. k0 \in 1..Len(headers[f0])
  BY <1>1, <1>2
<1>4. Segs!RoleOf(h0) \in RoleNames \cup {"ignored"}
  BY DEF Segs!RoleOf, RoleNames
<1>5. HeadersOK' /\ RoleValues' = RoleValues
  BY <1>1 DEF SegInv, SegTypeOK, RolesFound, FailInv, HeadersOK, RoleValues, Segs!Headers
<1>6. h0 \in RoleValues
  BY <1>2, <1>3 DEF RoleValues, Segs!Headers
<1>7. main' \in [Segs!Files -> [RoleNames -> RoleValues]]
  BY <1>1, <1>2, <1>4, <1>6 DEF SegInv, SegTypeOK, RolesFound, FailInv
<1>8. Scanned(f0) = pos /\ Scanned(f0)' = pos + 1
  BY <1>1 DEF Scanned
<1>9. \A f \in Segs!Files \ {f0} : Scanned(f)' = Scanned(f)
  BY <1>1 DEF Scanned
<1>10. ASSUME NEW f \in Segs!Files, NEW r \in RoleNames PROVE RoleFound(f, r)'
  <2>1. RoleFound(f, r)
    BY DEF SegInv, SegTypeOK, RolesFound, FailInv
  <2>2. CASE f # f0
    <3>1. main'[f][r] = main[f][r]
      BY <1>1, <1>2, <2>2 DEF SegInv, SegTypeOK, RolesFound, FailInv
    <3> QED
      BY <1>1, <1>9, <2>1, <2>2, <3>1 DEF RoleFound
  <2>3. CASE f = f0 /\ Segs!RoleOf(h0) = r
    <3>1. r # "ignored"
      BY DEF RoleNames
    <3>2. main'[f][r] = h0
      BY <1>1, <1>2, <2>3, <3>1 DEF SegInv, SegTypeOK, RolesFound, FailInv
    <3>3. k0 \in 1..(pos + 1)
      BY <1>2
    <3> QED
      BY <1>1, <1>8, <2>3, <3>2, <3>3 DEF RoleFound
  <2>4. CASE f = f0 /\ Segs!RoleOf(h0) # r
    <3>1. main'[f][r] = main[f][r]
      BY <1>1, <1>2, <1>4, <2>4 DEF SegInv, SegTypeOK, RolesFound, FailInv
    <3>2. \A k \in 1..(pos + 1) : k \in 1..pos \/ k = k0
      BY <1>2
    <3>3. 1..pos \subseteq 1..(pos + 1)
      BY <1>2
    <3> QED
      BY <1>1, <1>8, <2>1, <2>4, <3>1, <3>2, <3>3 DEF RoleFound
  <2> QED
    BY <2>2, <2>3, <2>4
<1>11. pos' \in 0..Len(headers'[scanning'])
  BY <1>1, <1>3
<1>12. 1..compared' = {} /\ 1..compared = {}
  BY <1>1, <1>2
<1>13. fail' = FALSE
  BY <1>1, <1>12 DEF SegInv, SegTypeOK, RolesFound, FailInv
<1>14. scanning' \in Segs!Files /\ compared' = 0
  BY <1>1, <1>2
<1>15. fail' <=> \E x \in 1..compared' : Differs(Segs!Roles[x])'
  BY <1>12, <1>13
<1> HIDE DEF f0, k0, h0
<1>16. SegTypeOK'
  <2>1. HeadersOK' /\ main' \in [Segs!Files -> [RoleNames -> RoleValues']]
    BY <1>5, <1>7
  <2>2. scanning' \in Segs!Files \cup {Absent}
    BY <1>14
  <2>3. scanning' # Absent => pos' \in 0..Len(headers'[scanning']) /\ compared' = 0
    BY <1>11, <1>14
  <2>4. compared' \in 0..3 /\ fail' \in BOOLEAN
    <3>1. fail' \in BOOLEAN
      BY <1>13, Zenon
    <3> QED
      BY <1>14, <3>1
  <2> QED
    BY <2>1, <2>2, <2>3, <2>4 DEF SegTypeOK
<1>17. RolesFound'
  BY <1>10 DEF RolesFound
<1>18. FailInv'
  BY <1>15 DEF FailInv
<1> QED
  BY <1>16, <1>17, <1>18 DEF SegInv

LEMMA EndScanStep == ASSUME SegInv, Segs!EndScan PROVE SegInv'
<1>1. /\ scanning # Absent /\ pos = Len(headers[scanning]) /\ pos' = 0
      /\ scanning' = IF scanning = "truth" THEN "symbolized" ELSE Absent
      /\ headers' = headers /\ main' = main /\ compared' = compared /\ fail' = fail
  BY DEF Segs!EndScan
<1>2. scanning \in Segs!Files /\ compared = 0 /\ "symbolized" # Absent /\ "truth" # Absent
  BY <1>1, AbsentAssumption DEF SegInv, SegTypeOK, RolesFound, FailInv
<1>3. HeadersOK' /\ RoleValues' = RoleValues
  BY <1>1 DEF SegInv, SegTypeOK, RolesFound, FailInv, HeadersOK, RoleValues, Segs!Headers
<1>4. \A f \in Segs!Files : Scanned(f)' = Scanned(f)
  BY <1>1, <1>2 DEF Scanned, Segs!Files
<1>5. ASSUME NEW f \in Segs!Files, NEW r \in RoleNames PROVE RoleFound(f, r)'
  <2>1. RoleFound(f, r)
    BY DEF SegInv, RolesFound
  <2>2. Scanned(f)' = Scanned(f) /\ main' = main /\ headers' = headers
    BY <1>1, <1>4
  <2> QED
    BY <2>1, <2>2 DEF RoleFound
<1>6. scanning' # Absent => pos' \in 0..Len(headers'[scanning'])
  BY <1>1, <1>2 DEF SegInv, SegTypeOK, RolesFound, FailInv, HeadersOK, Segs!Files
<1>7. 1..compared' = {} /\ 1..compared = {}
  BY <1>1, <1>2
<1>8. SegTypeOK'
  BY <1>1, <1>2, <1>3, <1>6 DEF SegInv, SegTypeOK, Segs!Files
<1>9. RolesFound'
  BY <1>5 DEF RolesFound
<1>10. FailInv'
  BY <1>1, <1>7 DEF SegInv, FailInv
<1> QED
  BY <1>8, <1>9, <1>10 DEF SegInv

LEMMA RoleStep == ASSUME SegInv, Segs!CompareRole PROVE SegInv'
<1> DEFINE x0 == compared + 1
           r0 == Segs!Roles[compared + 1]
<1>1. /\ scanning = Absent /\ compared < 3 /\ compared' = x0
      /\ fail' = (fail \/ Differs(r0))
      /\ headers' = headers /\ scanning' = scanning /\ main' = main /\ pos' = pos
  BY DEF Segs!CompareRole, Segs!Roles, Differs
<1>2. compared \in Nat /\ compared' \in 0..3
  BY <1>1 DEF SegInv, SegTypeOK, RolesFound, FailInv
<1>3. HeadersOK' /\ RoleValues' = RoleValues
  BY <1>1 DEF SegInv, SegTypeOK, RolesFound, FailInv, HeadersOK, RoleValues, Segs!Headers
<1>4. \A f \in Segs!Files, r \in RoleNames : RoleFound(f, r)'
  BY <1>1 DEF SegInv, SegTypeOK, RolesFound, FailInv, RoleFound, Scanned
<1>5. \A r : Differs(r)' = Differs(r)
  BY <1>1 DEF Differs
<1>6. \A x \in 1..compared' : x \in 1..compared \/ x = x0
  BY <1>1, <1>2
<1>7. x0 \in 1..compared' /\ 1..compared \subseteq 1..compared'
  BY <1>1, <1>2
<1>8. fail' <=> \E x \in 1..compared' : Differs(Segs!Roles[x])'
  BY <1>1, <1>5, <1>6, <1>7 DEF SegInv, SegTypeOK, RolesFound, FailInv
<1>9. fail' \in BOOLEAN
  BY <1>1, <1>8
<1>10. SegTypeOK'
  BY <1>1, <1>2, <1>3, <1>9 DEF SegInv, SegTypeOK
<1>11. RolesFound'
  BY <1>4 DEF RolesFound
<1>12. FailInv'
  BY <1>8 DEF FailInv
<1> QED
  BY <1>10, <1>11, <1>12 DEF SegInv

THEOREM SegInvariance == GradeSpec => []SegInv
<1>1. ASSUME SegInv, GradeNext PROVE SegInv'
  <2>1. CASE CompareSegments
    BY <1>1, <2>1, ScanStep, EndScanStep, RoleStep DEF CompareSegments, Segs!Next
  <2>2. CASE ReadPart \/ Compare \/ Replace
    BY <1>1, <2>2, SegInvFrame DEF ReadPart, Compare, Replace
  <2> QED
    BY <1>1, <2>1, <2>2 DEF GradeNext
<1>2. SegInv /\ UNCHANGED gradeVars => SegInv'
  BY SegInvFrame DEF gradeVars
<1> QED
  BY <1>1, <1>2, SegInitOK, PTL DEF GradeSpec

(* On tables with one segment per role a known role is that of the segment.  *)
LEMMA OneEachFound ==
    ASSUME SegInv, scanning = Absent, NEW f \in Segs!Files, Segs!OneEach(f)
    PROVE  /\ \A h \in Segs!Headers(f) : /\ Segs!RoleOf(h) \in RoleNames
                                        /\ main[f][Segs!RoleOf(h)] = h
           /\ \A r \in RoleNames : main[f][r] # Absent =>
                    main[f][r] \in Segs!Headers(f) /\ Segs!RoleOf(main[f][r]) = r
<1>1. Scanned(f) = Len(headers[f])
  <2>1. scanning # f
    BY AbsentAssumption DEF Segs!Files
  <2> QED
    BY <2>1 DEF Scanned
<1>2. \A r \in RoleNames : RoleFound(f, r)
  BY DEF SegInv, SegTypeOK, FailInv, RolesFound
<1>3. ASSUME NEW h \in Segs!Headers(f)
      PROVE  Segs!RoleOf(h) \in RoleNames /\ main[f][Segs!RoleOf(h)] = h
  <2>1. PICK k \in 1..Len(headers[f]) : h = headers[f][k]
    BY DEF Segs!Headers
  <2>2. Segs!RoleOf(h) # "ignored"
    BY <2>1 DEF Segs!OneEach
  <2>3. Segs!RoleOf(h) \in RoleNames
    BY <2>2 DEF Segs!RoleOf, RoleNames
  <2>4. PICK m \in 1..Len(headers[f]) :
            main[f][Segs!RoleOf(h)] = headers[f][m] /\ Segs!RoleOf(headers[f][m]) = Segs!RoleOf(h)
    BY <1>1, <1>2, <2>1, <2>3 DEF RoleFound
  <2>5. m = k
    BY <2>1, <2>4 DEF Segs!OneEach
  <2> QED
    BY <2>1, <2>3, <2>4, <2>5
<1>4. ASSUME NEW r \in RoleNames, main[f][r] # Absent
      PROVE  main[f][r] \in Segs!Headers(f) /\ Segs!RoleOf(main[f][r]) = r
  <2>1. PICK m \in 1..Len(headers[f]) :
            main[f][r] = headers[f][m] /\ Segs!RoleOf(headers[f][m]) = r
    BY <1>1, <1>2, <1>4 DEF RoleFound
  <2> QED
    BY <2>1 DEF Segs!Headers
<1> QED
  BY <1>3, <1>4

(* Two headers without an error are the same header.                         *)
LEMMA NoErrorMeansSame ==
    ASSUME NEW t, NEW p, IsHeader(t) \/ t = Absent, IsHeader(p) \/ p = Absent
    PROVE  Segs!SegmentErrors(t, p) <=> t # p
<1>1. CASE t = Absent \/ p = Absent
  BY <1>1 DEF Segs!SegmentErrors
<1>2. CASE t # Absent /\ p # Absent
  <2>1. IsHeader(t) /\ IsHeader(p)
    BY <1>2
  <2>2. Segs!SegmentErrors(t, p) <=>
            \E f \in {"vaddr", "paddr", "filesz", "memsz", "data"} : t[f] # p[f]
    BY <1>2 DEF Segs!SegmentErrors
  <2>3. (\A f \in {"vaddr", "paddr", "filesz", "memsz", "data"} : t[f] = p[f]) => t = p
    BY <2>1 DEF IsHeader
  <2> QED
    BY <2>2, <2>3
<1> QED
  BY <1>1, <1>2

(* Step 2 of the grading is exact on tables with one segment per role, in    *)
(* whatever order the headers come and whichever roles are there.            *)
THEOREM SegmentsExact == GradeSpec => []ExactOnOneEach
<1>1. ASSUME SegInv, Segs!Done, Segs!OneEach("truth"), Segs!OneEach("symbolized")
      PROVE  fail <=> Segs!Headers("truth") # Segs!Headers("symbolized")
  <2>1. compared = 3 /\ scanning = Absent
    BY <1>1 DEF SegInv, SegTypeOK, FailInv, Segs!Done, Segs!Roles
  <2>2. fail <=> \E r \in RoleNames : Differs(r)
    <3>1. /\ Segs!Roles[1] = "text" /\ Segs!Roles[2] = "data" /\ Segs!Roles[3] = "bss"
          /\ 1..3 = {1, 2, 3}
      BY DEF Segs!Roles
    <3> QED
      BY <1>1, <2>1, <3>1 DEF SegInv, SegTypeOK, FailInv, RoleNames
  <2>3. "truth" \in Segs!Files /\ "symbolized" \in Segs!Files
    BY DEF Segs!Files
  <2> DEFINE T(r) == main["truth"][r]
             P(r) == main["symbolized"][r]
  <2>4. /\ \A h \in Segs!Headers("truth") : Segs!RoleOf(h) \in RoleNames /\ T(Segs!RoleOf(h)) = h
        /\ \A r \in RoleNames : T(r) # Absent =>
              T(r) \in Segs!Headers("truth") /\ Segs!RoleOf(T(r)) = r
        /\ \A h \in Segs!Headers("symbolized") : Segs!RoleOf(h) \in RoleNames /\ P(Segs!RoleOf(h)) = h
        /\ \A r \in RoleNames : P(r) # Absent =>
              P(r) \in Segs!Headers("symbolized") /\ Segs!RoleOf(P(r)) = r
    BY <1>1, <2>1, <2>3, OneEachFound
  <2>5. \A f \in Segs!Files : \A h \in Segs!Headers(f) : IsHeader(h)
    BY <1>1 DEF SegInv, SegTypeOK, FailInv, HeadersOK, RoleValues, Segs!Headers
  <2>6. \A r \in RoleNames : Differs(r) <=> T(r) # P(r)
    <3>1. \A r \in RoleNames : (IsHeader(T(r)) \/ T(r) = Absent) /\ (IsHeader(P(r)) \/ P(r) = Absent)
      BY <2>3, <2>4, <2>5
    <3> QED
      BY <3>1, NoErrorMeansSame DEF Differs
  <2>7. ASSUME \A r \in RoleNames : T(r) = P(r)
        PROVE  Segs!Headers("truth") = Segs!Headers("symbolized")
    <3>1. \A f \in Segs!Files : \A h \in Segs!Headers(f) : h # Absent
      BY <2>5 DEF IsHeader
    <3> QED
      BY <2>3, <2>4, <2>7, <3>1
  <2>8. ASSUME Segs!Headers("truth") = Segs!Headers("symbolized")
        PROVE  \A r \in RoleNames : T(r) = P(r)
    BY <2>4, <2>8
  <2> HIDE DEF T, P
  <2> QED
    BY <2>2, <2>6, <2>7, <2>8
<1>2. SegInv => ExactOnOneEach
  BY <1>1 DEF ExactOnOneEach, Segs!ExactOnOneEach
<1> QED
  BY <1>2, SegInvariance, PTL

-----------------------------------------------------------------------------
(* Replacement, one request after another in the same copy.  The sections    *)
(* exchanged so far are those asked for so far, and no other has lost its    *)
(* relocations; this holds where the sections asked for share no name.       *)
AlwaysSetup ==
    \E family \in Setups : \E s \in family : part = s.part /\ replacements = s.replacements
New(s) == hax[s] = "new"
AskedSoFar(s) == \E j \in 1..replaced : s \in Names!Asked(replacements[j])

ReplaceInv ==
    /\ AlwaysSetup
    /\ replaced \in 0..Len(replacements)
    /\ pc \in {"relocations", "unreadable"} => replaced = 0
    /\ pc = "linked" => replaced = Len(replacements)
    /\ pc \in {"patch", "linked"} =>
          /\ hax \in [Names!Sections -> {"old", "new"}]
          /\ \A s \in haxrel : New(s) => part[s].rel # "usual"
          /\ Names!OwnNames =>
                \A s \in Names!Sections :
                    /\ New(s) <=> AskedSoFar(s)
                    /\ ~New(s) /\ Names!HasRelocations(s) => s \in haxrel

LEMMA SetupFacts ==
    ASSUME AlwaysSetup
    PROVE  /\ Len(part) \in Nat /\ Len(replacements) \in Nat /\ Len(Program) \in Nat
           /\ \A x \in 1..Len(part) : /\ part[x].first \in 1..Len(Program)
                                      /\ part[x].last \in 1..Len(Program)
                                      /\ part[x].first <= part[x].last
                                      /\ part[x].sh_addr \in {0, Program[part[x].first].addr}
           /\ \A x, y \in 1..Len(part) : x # y =>
                 part[x].last < part[y].first \/ part[y].last < part[x].first
           /\ \A j \in 1..Len(replacements) :
                 /\ replacements[j].by \in {"section_name", "symbol_name", "vaddr"}
                 /\ replacements[j].by = "symbol_name" => replacements[j].key \in 0..Len(Program)
                 /\ replacements[j].by = "vaddr" => replacements[j].key \in Nat
  BY SetupsAssumption, AddressAssumption, ProgramAssumption DEF AlwaysSetup

LEMMA ObjectsApart ==
    ASSUME NEW o \in 1..Len(Program), NEW p \in 1..Len(Program), Program[o].addr = Program[p].addr
    PROVE  o = p
<1>1. /\ Len(Program) \in Nat /\ Program[o].addr \in Nat /\ Program[p].addr \in Nat
      /\ o < p => Program[o].addr < Program[p].addr
      /\ p < o => Program[p].addr < Program[o].addr
  BY ProgramAssumption
<1> QED
  BY <1>1

(* No object is in two sections.                                             *)
LEMMA OneHome ==
    ASSUME AlwaysSetup, NEW x \in Names!Sections
    PROVE  part[x].first \in 1..Len(Program) /\ Names!Home(part[x].first) = {x}
<1>1. /\ Len(part) \in Nat /\ Len(Program) \in Nat
      /\ \A y \in 1..Len(part) : /\ part[y].first \in 1..Len(Program)
                                 /\ part[y].last \in 1..Len(Program)
                                 /\ part[y].first <= part[y].last
      /\ \A y \in 1..Len(part) : x # y =>
            part[x].last < part[y].first \/ part[y].last < part[x].first
  BY SetupFacts DEF Names!Sections
<1>2. x \in Names!Home(part[x].first)
  BY <1>1 DEF Names!Home, Names!Objects, Names!Sections
<1>3. ASSUME NEW y \in Names!Home(part[x].first) PROVE y = x
  <2>1. y \in 1..Len(part) /\ part[x].first \in part[y].first..part[y].last
    BY DEF Names!Home, Names!Objects, Names!Sections
  <2> QED
    BY <1>1, <2>1 DEF Names!Sections
<1> QED
  BY <1>1, <1>2, <1>3 DEF Names!Sections

(* Whichever section a request finds is one that it asks for, and the only   *)
(* one unless it asks by a name.                                             *)
LEMMA FindsAsked ==
    ASSUME AlwaysSetup, NEW j \in 1..Len(replacements),
           NEW s \in Names!Candidates(replacements[j])
    PROVE  /\ s \in Names!Sections /\ s \in Names!Asked(replacements[j])
           /\ Names!Asked(replacements[j]) \subseteq {s} \cup Names!Called(part[s].name)
<1> DEFINE rep == replacements[j]
<1>1. /\ Len(part) \in Nat /\ Len(Program) \in Nat
      /\ \A x \in 1..Len(part) : /\ part[x].first \in 1..Len(Program)
                                 /\ part[x].sh_addr \in {0, Program[part[x].first].addr}
      /\ rep.by \in {"section_name", "symbol_name", "vaddr"}
      /\ rep.by = "symbol_name" => rep.key \in 0..Len(Program)
      /\ rep.by = "vaddr" => rep.key \in Nat
  BY SetupFacts
<1>2. \A o \in 1..Len(Program) : Program[o].addr \in Nat \ {0}
  BY ProgramAssumption
<1>3. ASSUME NEW a, NEW x \in Names!Found(a), a # Names!Unresolvable
      PROVE  x \in 1..Len(part) /\ Program[part[x].first].addr = a
  <2>1. x \in 1..Len(part) /\ Names!resolve_section_vaddr(x) = a
    BY <1>3 DEF Names!Found, Names!Sections
  <2>2. part[x].sh_addr # 0 => part[x].sh_addr = Program[part[x].first].addr
    BY <1>1, <2>1
  <2> QED
    BY <1>3, <2>1, <2>2 DEF Names!resolve_section_vaddr, Names!Base
<1>4. CASE rep.by = "section_name"
  <2>1. Names!Asked(rep) = Names!Called(rep.key) /\ s \in Names!Called(rep.key)
    BY <1>4 DEF Names!Candidates, Names!Asked
  <2>2. s \in Names!Sections /\ part[s].name = rep.key
    BY <2>1 DEF Names!Called
  <2> QED
    BY <2>1, <2>2
<1>5. CASE rep.by = "symbol_name"
  <2>1. rep.key # 0 /\ s \in Names!Found(Program[rep.key].addr)
    BY <1>5 DEF Names!Candidates
  <2>2. rep.key \in 1..Len(Program)
    BY <1>1, <1>5, <2>1
  <2>3. Program[rep.key].addr # Names!Unresolvable
    BY <1>2, <2>2 DEF Names!Unresolvable
  <2>4. s \in 1..Len(part) /\ Program[part[s].first].addr = Program[rep.key].addr
    BY <1>3, <2>1, <2>3
  <2>5. part[s].first = rep.key
    BY <1>1, <2>2, <2>4, ObjectsApart
  <2>6. Names!Asked(rep) = Names!Home(rep.key)
    BY <1>5 DEF Names!Asked
  <2>7. s \in Names!Sections /\ Names!Home(rep.key) = {s}
    BY <2>4, <2>5, OneHome DEF Names!Sections
  <2> QED
    BY <2>6, <2>7
<1>6. CASE rep.by = "vaddr"
  <2>1. s \in Names!Found(rep.key)
    BY <1>6 DEF Names!Candidates
  <2>2. rep.key # Names!Unresolvable
    BY <1>1, <1>6 DEF Names!Unresolvable
  <2>3. s \in Names!Sections /\ Program[part[s].first].addr = rep.key
    BY <1>3, <2>1, <2>2 DEF Names!Sections
  <2>4. part[s].first \in 1..Len(Program) /\ Names!Home(part[s].first) = {s}
    BY <2>3, OneHome
  <2>5. Names!Asked(rep) =
            {x \in Names!Sections : \E o \in Names!Objects(x) : Program[o].addr = rep.key}
    BY <1>6 DEF Names!Asked
  <2>6. s \in Names!Asked(rep)
    BY <2>3, <2>4, <2>5 DEF Names!Home
  <2>7. ASSUME NEW x \in Names!Asked(rep) PROVE x = s
    <3>1. PICK o \in Names!Objects(x) : x \in Names!Sections /\ Program[o].addr = rep.key
      BY <2>5
    <3>2. o \in 1..Len(Program)
      <4>1. /\ part[x].first \in 1..Len(Program) /\ part[x].last \in 1..Len(Program)
            /\ Len(Program) \in Nat
        BY <3>1, SetupFacts DEF Names!Sections
      <4> QED
        BY <4>1 DEF Names!Objects
    <3>3. o = part[s].first
      BY <2>3, <2>4, <3>1, <3>2, ObjectsApart
    <3>4. x \in Names!Home(part[s].first)
      BY <3>1, <3>3 DEF Names!Home
    <3> QED
      BY <2>4, <3>4
  <2> QED
    BY <2>3, <2>6, <2>7
<1> QED
  BY <1>1, <1>4, <1>5, <1>6

(* Under OwnNames the name of what was found leads objcopy back to it.       *)
LEMMA NameLeadsBack ==
    ASSUME AlwaysSetup, Names!OwnNames, NEW j \in 1..Len(replacements),
           NEW s \in Names!Candidates(replacements[j])
    PROVE  Names!Called(part[s].name) = {s} /\ Names!Asked(replacements[j]) = {s}
<1>1. /\ s \in Names!Asked(replacements[j])
      /\ Names!Asked(replacements[j]) \subseteq {s} \cup Names!Called(part[s].name)
  BY FindsAsked
<1>2. Names!Called(part[s].name) = {s}
  BY <1>1 DEF Names!OwnNames
<1> QED
  BY <1>1, <1>2

(* The section taken is one of those found. *)
LEMMA HasLeast ==
    ASSUME NEW S \in SUBSET Nat, S # {}
    PROVE  \E x \in S : \A y \in S : x <= y
<1>1. PICK x \in S : \A y \in S : ~(<<y, x>> \in OpToRel(<, Nat))
  BY NatLessThanWellFounded, WFMin
<1>2. \A y \in S : ~(<<y, x>> \in {ss \in Nat \X Nat : ss[1] < ss[2]})
  BY <1>1 DEF OpToRel
<1>3. \A y \in S : ~(y < x)
  BY <1>2
<1> QED
  BY <1>3

LEMMA FirstFound ==
    ASSUME NEW S \in SUBSET Names!Sections, S # {}, Len(part) \in Nat
    PROVE  Names!First(S) \in S
<1>1. S \in SUBSET Nat
  BY DEF Names!Sections
<1>2. \E x \in S : \A y \in S : x <= y
  BY <1>1, HasLeast
<1> QED
  BY <1>2 DEF Names!First

LEMMA AskedFrame ==
    ASSUME UNCHANGED <<part, replacements>>
    PROVE  /\ \A rep : Names!Asked(rep)' = Names!Asked(rep)
           /\ Names!Sections' = Names!Sections /\ (Names!OwnNames' <=> Names!OwnNames)
           /\ \A s : Names!HasRelocations(s)' <=> Names!HasRelocations(s)
<1>1. \A rep : Names!Asked(rep)' = Names!Asked(rep)
  BY DEF Names!Asked, Names!Called, Names!Home, Names!Objects, Names!Sections
<1>2. /\ Names!Sections' = Names!Sections
      /\ \A s : Names!HasRelocations(s)' <=> Names!HasRelocations(s)
      /\ \A name : Names!Called(name)' = Names!Called(name)
  BY DEF Names!Called, Names!HasRelocations, Names!Objects, Names!Sections
<1>3. Names!OwnNames' <=> Names!OwnNames
  BY <1>1, <1>2 DEF Names!OwnNames
<1> QED
  BY <1>1, <1>2, <1>3

LEMMA ReplaceInitOK == ASSUME GradeInit PROVE ReplaceInv
<1>1. replaced = 0 /\ pc = "relocations" /\ AlwaysSetup
  BY DEF GradeInit, Names!Unread, AlwaysSetup
<1>2. Len(replacements) \in Nat
  BY <1>1, SetupFacts
<1> QED
  BY <1>1, <1>2 DEF ReplaceInv

LEMMA ReplaceInvFrame ==
    ASSUME ReplaceInv, UNCHANGED <<part, replacements, replaced, hax, haxrel>>,
           \/ pc' = pc
           \/ pc = "relocations" /\ pc' = "unreadable"
           \/ pc' = "not_found"
    PROVE  ReplaceInv'
<1>1. \A s : (AskedSoFar(s)' <=> AskedSoFar(s)) /\ (New(s)' <=> New(s))
  BY AskedFrame DEF AskedSoFar, New
<1> QED
  BY <1>1, AskedFrame DEF ReplaceInv, AlwaysSetup

LEMMA CopyPartStep == ASSUME ReplaceInv, Names!CopyPart PROVE ReplaceInv'
<1>1. /\ pc' = "patch" /\ UNCHANGED <<part, replacements, replaced>> /\ replaced = 0
      /\ hax' = [s \in Names!Sections |-> "old"]
      /\ haxrel' = {s \in Names!Sections : Names!HasRelocations(s)}
  BY DEF Names!CopyPart, ReplaceInv
<1>2. \A s \in Names!Sections : ~New(s)' /\ ~AskedSoFar(s)'
  <2>1. 1..replaced' = {}
    BY <1>1
  <2> QED
    BY <1>1, <2>1 DEF New, AskedSoFar
<1>3. \A s \in haxrel' : New(s)' => part'[s].rel # "usual"
  BY <1>1, <1>2
<1> QED
  BY <1>1, <1>2, <1>3, AskedFrame DEF ReplaceInv, AlwaysSetup

LEMMA ModifyStep == ASSUME ReplaceInv, Names!ModifyInplace PROVE ReplaceInv'
<1> DEFINE rep0 == replacements[replaced + 1]
           found == Names!First(Names!Candidates(rep0))
           called == Names!Called(part[found].name)
           s0 == Names!First(called)
<1>1. /\ pc = "patch" /\ pc' = "patch" /\ UNCHANGED <<part, replacements>>
      /\ replaced < Len(replacements) /\ replaced' = replaced + 1
      /\ Names!Candidates(rep0) # {}
      /\ hax' = [hax EXCEPT ![s0] = "new"]
      /\ haxrel' = haxrel \ {s \in called : part[s].rel = "usual"}
  BY DEF Names!ModifyInplace
<1>2. /\ AlwaysSetup /\ replaced \in 0..Len(replacements)
      /\ hax \in [Names!Sections -> {"old", "new"}]
      /\ \A s \in haxrel : New(s) => part[s].rel # "usual"
      /\ Names!OwnNames =>
            \A s \in Names!Sections :
                /\ New(s) <=> AskedSoFar(s)
                /\ ~New(s) /\ Names!HasRelocations(s) => s \in haxrel
  BY <1>1 DEF ReplaceInv
<1>3. Len(part) \in Nat /\ Len(replacements) \in Nat /\ replaced \in Nat
  BY <1>2, SetupFacts
<1>4. /\ replaced + 1 \in 1..Len(replacements) /\ replaced' \in 0..Len(replacements)
      /\ 1..replaced' = (1..replaced) \cup {replaced + 1}
  BY <1>1, <1>3
<1>5. found \in Names!Candidates(rep0) /\ found \in Names!Sections
  <2>1. Names!Candidates(rep0) \subseteq Names!Sections
    BY <1>2, <1>4, FindsAsked
  <2> QED
    BY <1>1, <1>3, <2>1, FirstFound
<1> HIDE DEF found
<1>6. s0 \in called /\ s0 \in Names!Sections /\ called \subseteq Names!Sections
  <2>1. found \in called /\ called \subseteq Names!Sections
    BY <1>5 DEF Names!Called
  <2> QED
    BY <1>3, <2>1, FirstFound
<1>7. Names!OwnNames => called = {found} /\ Names!Asked(rep0) = {found}
  BY <1>2, <1>4, <1>5, NameLeadsBack
<1> HIDE DEF s0, called
<1>8. /\ hax' \in [Names!Sections -> {"old", "new"}]
      /\ \A s \in Names!Sections : New(s)' <=> New(s) \/ s = s0
  BY <1>1, <1>2, <1>6 DEF New
<1>9. \A s \in haxrel' : New(s)' => part'[s].rel # "usual"
  <2> SUFFICES ASSUME NEW s \in haxrel', New(s)'
               PROVE  part[s].rel # "usual"
    BY <1>1
  <2>1. s \in haxrel /\ (s = s0 => part[s0].rel # "usual")
    BY <1>1, <1>6
  <2>2. s # s0 => New(s)
    BY <1>1, <1>2 DEF New
  <2> QED
    BY <1>2, <2>1, <2>2
<1>10. ASSUME Names!OwnNames, NEW s \in Names!Sections
       PROVE  /\ New(s)' <=> AskedSoFar(s)'
              /\ ~New(s)' /\ Names!HasRelocations(s) => s \in haxrel'
  <2>1. called = {found} /\ s0 = found /\ Names!Asked(rep0) = {found}
    BY <1>6, <1>7, <1>10
  <2>2. AskedSoFar(s)' <=> AskedSoFar(s) \/ s = found
    <3>1. AskedSoFar(s)' <=> \E j \in 1..replaced' : s \in Names!Asked(replacements[j])
      BY <1>1, AskedFrame DEF AskedSoFar
    <3>2. \A j \in 1..replaced' : j \in 1..replaced \/ j = replaced + 1
      BY <1>4
    <3>3. AskedSoFar(s) => AskedSoFar(s)'
      BY <1>4, <3>1 DEF AskedSoFar
    <3>4. s = found => AskedSoFar(s)'
      BY <1>4, <2>1, <3>1
    <3> HIDE DEF rep0
    <3>5. AskedSoFar(s)' => AskedSoFar(s) \/ s \in Names!Asked(replacements[replaced + 1])
      BY <3>1, <3>2 DEF AskedSoFar
    <3> QED
      BY <2>1, <3>3, <3>4, <3>5 DEF rep0
  <2>3. New(s)' <=> New(s) \/ s = found
    BY <1>8, <2>1
  <2>4. ~New(s)' /\ Names!HasRelocations(s) => s \in haxrel'
    BY <1>1, <1>2, <1>10, <2>1, <2>3
  <2> QED
    BY <1>2, <1>10, <2>2, <2>3, <2>4
<1>11. AlwaysSetup'
  BY <1>1, <1>2 DEF AlwaysSetup
<1> QED
  BY <1>1, <1>4, <1>8, <1>9, <1>10, <1>11, AskedFrame DEF ReplaceInv

LEMMA LinkStep == ASSUME ReplaceInv, Names!Link PROVE ReplaceInv'
<1>1. /\ pc = "patch" /\ pc' = "linked" /\ replaced = Len(replacements)
      /\ UNCHANGED <<part, replacements, replaced, hax, haxrel>>
  BY DEF Names!Link
<1>2. \A s : (AskedSoFar(s)' <=> AskedSoFar(s)) /\ (New(s)' <=> New(s))
  BY <1>1, AskedFrame DEF AskedSoFar, New
<1> QED
  BY <1>1, <1>2, AskedFrame DEF ReplaceInv, AlwaysSetup

THEOREM ReplaceInvariance == GradeSpec => []ReplaceInv
<1>1. ASSUME ReplaceInv, GradeNext PROVE ReplaceInv'
  <2>1. CASE ReadPart
    <3>1. CASE UNCHANGED namVars
      BY <1>1, <3>1, ReplaceInvFrame DEF namVars
    <3>2. ASSUME NEW r, Names!YieldRelocation(r) PROVE ReplaceInv'
      BY <1>1, <3>2, ReplaceInvFrame DEF Names!YieldRelocation
    <3>3. ASSUME NEW r, Names!NameError(r) PROVE ReplaceInv'
      BY <1>1, <3>3, ReplaceInvFrame DEF Names!NameError
    <3> QED
      BY <2>1, <3>1, <3>2, <3>3 DEF ReadPart
  <2>2. CASE Compare \/ CompareSegments
    BY <1>1, <2>2, ReplaceInvFrame DEF Compare, CompareSegments, namVars
  <2>3. CASE Replace
    <3>1. CASE Names!NotFound
      BY <1>1, <3>1, ReplaceInvFrame DEF Names!NotFound
    <3> QED
      BY <1>1, <2>3, <3>1, CopyPartStep, ModifyStep, LinkStep DEF Replace
  <2> QED
    BY <1>1, <2>1, <2>2, <2>3 DEF GradeNext
<1>2. ReplaceInv /\ UNCHANGED gradeVars => ReplaceInv'
  BY ReplaceInvFrame DEF gradeVars, namVars
<1> QED
  BY <1>1, <1>2, ReplaceInitOK, PTL DEF GradeSpec

(* For every cut, exactly the sections the test asks for are exchanged and   *)
(* no other loses its relocations, however the test names them, where no     *)
(* other section has the name of one that is asked for.                      *)
THEOREM ExchangesWhatIsAsked == GradeSpec => []ExchangesExactly
<1>1. ASSUME ReplaceInv, pc = "linked", Names!OwnNames, NEW s \in Names!Sections
      PROVE  /\ hax[s] = "new" <=>
                    \E j \in 1..Len(replacements) : s \in Names!Asked(replacements[j])
             /\ hax[s] = "old" /\ Names!HasRelocations(s) => s \in haxrel
  BY <1>1 DEF ReplaceInv, AskedSoFar, New
<1>2. ReplaceInv => ExchangesExactly
  BY <1>1 DEF ExchangesExactly, Names!ExchangesExactly
<1> QED
  BY <1>2, ReplaceInvariance, PTL

(* No relocation of the content that was replaced reaches the linker, unless *)
(* the file calls its relocation sections by names of its own.               *)
THEOREM LeavesNoStaleRelocations == GradeSpec => []NoStaleRelocations
<1>1. ReplaceInv => NoStaleRelocations
  BY DEF ReplaceInv, NoStaleRelocations, Names!NoStaleRelocations, New
<1> QED
  BY <1>1, ReplaceInvariance, PTL

-----------------------------------------------------------------------------
(* The comparison is the join of RelocJoin.  The addresses still to be       *)
(* counted are those of the entries no consumed pair holds.                  *)
Left1 == {Key(it1[x]) : x \in (1..Len(it1)) \ Consumed1}
Left2 == {Key(it2[y]) : y \in (1..Len(it2)) \ Consumed2}

LEMMA AllKeysLeft ==
    ASSUME seen = 0
    PROVE  Left1 \cup Left2 = Join!Addresses(Rels(it1) \cup Rels(it2))
<1>1. 1..seen = {}
  OBVIOUS
<1>2. Consumed1 = {} /\ Consumed2 = {}
  BY <1>1 DEF Consumed1, Consumed2
<1>3. Left1 = {Key(it1[x]) : x \in 1..Len(it1)} /\ Left2 = {Key(it2[y]) : y \in 1..Len(it2)}
  BY <1>2 DEF Left1, Left2
<1>4. Left1 = Join!Addresses(Rels(it1)) /\ Left2 = Join!Addresses(Rels(it2))
  BY <1>3 DEF Join!Addresses, Rels, Key
<1> QED
  BY <1>4 DEF Join!Addresses

(* What the pair about to be consumed says: its key is the least address     *)
(* left, it holds the entries of that address, and it is done afterwards.    *)
LEMMA NextPair ==
    ASSUME IInv, NoDuplicates, seen \in Nat, seen + 1 \in 1..Len(out)
    PROVE  LET k == seen + 1
               a == KeyOf(out[k])
               l == out[k].l
               r == out[k].r
           IN  /\ l \in 0..Len(it1) /\ r \in 0..Len(it2) /\ (l # 0 \/ r # 0)
               /\ a \in Left1 \cup Left2
               /\ \A b \in Left1 \cup Left2 : a <= b
               /\ a \in Addrs(it1) <=> l # 0
               /\ a \in Addrs(it2) <=> r # 0
               /\ l # 0 => At(it1, a) = it1[l]
               /\ r # 0 => At(it2, a) = it2[r]
               /\ l # 0 => l \notin Consumed1
               /\ r # 0 => r \notin Consumed2
               /\ \A x \in 1..Len(it1) : Key(it1[x]) = a <=> x = l
               /\ \A y \in 1..Len(it2) : Key(it2[y]) = a <=> y = r
<1> DEFINE k == seen + 1
           a == KeyOf(out[k])
           l == out[k].l
           r == out[k].r
<1>1. /\ Len(it1) \in Nat /\ Len(it2) \in Nat /\ Len(out) \in Nat
      /\ \A x \in 1..Len(it1) : Key(it1[x]) \in Nat
      /\ \A y \in 1..Len(it2) : Key(it2[y]) \in Nat
      /\ done1 \in 0..Len(it1) /\ done2 \in 0..Len(it2)
  BY KeysAreNatural, DoneTypes, OutLength DEF IInv, StateInv
<1>2. HandedOver /\ PairsAgree /\ Frontier /\ OutputSorted
  BY DEF IInv, OutInv
<1>3. l \in 0..Len(it1) /\ r \in 0..Len(it2) /\ (l # 0 \/ r # 0)
  BY PairRange
<1>4. (l # 0 => a = Key(it1[l])) /\ (r # 0 => a = Key(it2[r]))
  BY <1>2, <1>3 DEF KeyOf, PairsAgree
<1>5. /\ l = 0 => \A x \in 1..Len(it1) : Key(it1[x]) # a
      /\ r = 0 => \A y \in 1..Len(it2) : Key(it2[y]) # a
  BY <1>3, <1>4, LoneHasNoPartner
<1>6. \A x \in 1..Len(it1) : Key(it1[x]) = a <=> x = l
  BY SMTT(30), <1>1, <1>3, <1>4, <1>5 DEF NoDuplicates, HasDuplicate
<1>7. \A y \in 1..Len(it2) : Key(it2[y]) = a <=> y = r
  BY <1>1, <1>3, <1>4, <1>5 DEF NoDuplicates, HasDuplicate
<1>8. a \in Addrs(it1) <=> l # 0
  BY <1>3, <1>4, <1>5 DEF Addrs, Rels
<1>9. a \in Addrs(it2) <=> r # 0
  BY <1>3, <1>4, <1>5 DEF Addrs, Rels
<1>10. (l # 0 => At(it1, a) = it1[l]) /\ (r # 0 => At(it2, a) = it2[r])
  BY <1>3, <1>4, AtPosition DEF NoDuplicates
<1>11. /\ \A m \in 1..seen : m \in 1..Len(out) /\ m # k
       /\ k \in 1..Len(out)
       /\ \A m \in 1..Len(out) : m \in 1..seen \/ m = k \/ k < m
  BY <1>1
<1>12. (l # 0 => l \notin Consumed1) /\ (r # 0 => r \notin Consumed2)
  <2>1. ASSUME NEW m \in 1..seen
        PROVE  (l # 0 => out[m].l # l) /\ (r # 0 => out[m].r # r)
    <3>1. m \in 1..Len(out) /\ m # k /\ k \in 1..Len(out)
      BY <1>11
    <3> QED
      BY <1>2, <3>1 DEF HandedOver
  <2> QED
    BY <2>1 DEF Consumed1, Consumed2
<1>13. a \in Left1 \cup Left2
  BY <1>3, <1>4, <1>12 DEF Left1, Left2
<1>14. ASSUME NEW x \in (1..Len(it1)) \ Consumed1 PROVE a <= Key(it1[x])
  <2>1. CASE x \in 1..done1
    <3>1. PICK m \in 1..Len(out) : out[m].l = x
      BY <1>2, <2>1 DEF HandedOver
    <3>2. m = k \/ k < m
      BY <1>11, <1>14, <3>1 DEF Consumed1
    <3>3. a <= KeyOf(out[m])
      <4>1. CASE m = k
        <5>1. a \in Nat
          BY SMTT(30), <1>1, <1>3, <1>4
        <5> QED
          BY <4>1, <5>1
      <4>2. CASE k < m
        BY <1>2, <1>11, <4>2 DEF OutputSorted
      <4> QED
        BY <3>2, <4>1, <4>2
    <3>4. KeyOf(out[m]) = Key(it1[x])
      BY <1>1, <1>14, <3>1 DEF KeyOf
    <3> QED
      BY <3>3, <3>4
  <2>2. CASE x \in (done1 + 1)..Len(it1)
    BY <1>2, <1>11, <2>2 DEF Frontier
  <2> QED
    BY <1>1, <2>1, <2>2
<1>15. ASSUME NEW y \in (1..Len(it2)) \ Consumed2 PROVE a <= Key(it2[y])
  <2>1. CASE y \in 1..done2
    <3>1. PICK m \in 1..Len(out) : out[m].r = y
      BY <1>2, <2>1 DEF HandedOver
    <3>2. m = k \/ k < m
      BY <1>11, <1>15, <3>1 DEF Consumed2
    <3>3. a <= KeyOf(out[m])
      <4>1. CASE m = k
        <5>1. a \in Nat
          BY SMTT(30), <1>1, <1>3, <1>4
        <5> QED
          BY <4>1, <5>1
      <4>2. CASE k < m
        BY <1>2, <1>11, <4>2 DEF OutputSorted
      <4> QED
        BY <3>2, <4>1, <4>2
    <3>4. KeyOf(out[m]) = Key(it2[y])
      <4>1. out[m].r # 0
        BY <1>1, <2>1, <3>1
      <4>2. out[m].l # 0 => Key(it1[out[m].l]) = Key(it2[out[m].r])
        BY <1>2, <3>1, <4>1 DEF PairsAgree
      <4> QED
        BY <3>1, <4>2 DEF KeyOf
    <3> QED
      BY <3>3, <3>4
  <2>2. CASE y \in (done2 + 1)..Len(it2)
    BY <1>2, <1>11, <2>2 DEF Frontier
  <2> QED
    BY <1>1, <2>1, <2>2
<1>16. \A b \in Left1 \cup Left2 : a <= b
  BY <1>14, <1>15 DEF Left1, Left2
<1> QED
  BY <1>3, <1>6, <1>7, <1>8, <1>9, <1>10, <1>12, <1>13, <1>16

(* One pass through the loop body counts one address.                        *)
LEMMA BodyCountsAddress ==
    ASSUME CmpInv, Body, step = "compare", step' = "compare"
    PROVE  Join!CountAddress
<1> DEFINE k == seen + 1
           a == KeyOf(out[k])
           l == out[k].l
           r == out[k].r
<1>1. /\ cmp = "merge" /\ seen < Len(out) /\ seen' = seen + 1 /\ UNCHANGED <<vars, cmp>>
  BY DEF Body, Superfluous, SkipRelative, Missing, Matched, Mismatched, Consume
<1>2. /\ IInv /\ NoDuplicates /\ seen \in Nat /\ k \in 1..Len(out)
      /\ it1' = it1 /\ it2' = it2 /\ out' = out /\ cmp' = cmp
  BY <1>1, OutLength DEF CmpInv, CountInv, NoDuplicates, vars
<1>3. /\ l \in 0..Len(it1) /\ r \in 0..Len(it2) /\ (l # 0 \/ r # 0)
      /\ a \in Left1 \cup Left2 /\ \A b \in Left1 \cup Left2 : a <= b
      /\ a \in Addrs(it1) <=> l # 0
      /\ a \in Addrs(it2) <=> r # 0
      /\ l # 0 => At(it1, a) = it1[l]
      /\ r # 0 => At(it2, a) = it2[r]
      /\ \A x \in 1..Len(it1) : Key(it1[x]) = a <=> x = l
      /\ \A y \in 1..Len(it2) : Key(it2[y]) = a <=> y = r
  BY <1>2, NextPair
<1>4. Todo = Left1 \cup Left2 /\ Todo' = Left1' \cup Left2'
  BY <1>1, <1>2 DEF Todo, Left1, Left2
<1>5. Consumed1' = Consumed1 \cup {l} /\ Consumed2' = Consumed2 \cup {r}
  <2>1. 1..seen' = (1..seen) \cup {k}
    BY <1>1, <1>2
  <2>2. /\ Consumed1' = {out[x].l : x \in (1..seen) \cup {k}}
        /\ Consumed2' = {out[x].r : x \in (1..seen) \cup {k}}
    BY <1>2, <2>1 DEF Consumed1, Consumed2
  <2> QED
    BY <2>2 DEF Consumed1, Consumed2
<1> HIDE DEF a
<1>6. Left1' = Left1 \ {a} /\ Left2' = Left2 \ {a}
  <2>1. /\ Left1' = {Key(it1[x]) : x \in (1..Len(it1)) \ (Consumed1 \cup {l})}
        /\ Left2' = {Key(it2[y]) : y \in (1..Len(it2)) \ (Consumed2 \cup {r})}
    BY <1>2, <1>5 DEF Left1, Left2
  <2>2. \A x \in 1..Len(it1) : x \in (1..Len(it1)) \ (Consumed1 \cup {l})
                                <=> x \notin Consumed1 /\ Key(it1[x]) # a
    BY <1>3
  <2>3. \A y \in 1..Len(it2) : y \in (1..Len(it2)) \ (Consumed2 \cup {r})
                                <=> y \notin Consumed2 /\ Key(it2[y]) # a
    BY <1>3
  <2>4. Left1' = Left1 \ {a}
    BY <2>1, <2>2 DEF Left1
  <2>5. Left2' = Left2 \ {a}
    BY <2>1, <2>3 DEF Left2
  <2> QED
    BY <2>4, <2>5
<1>7. Join!Min(Todo) = a /\ Todo # {} /\ Todo' = Todo \ {a}
  <2>1. \A b \in Todo : (\A c \in Todo : b <= c) => b = a
    <3>1. \A b \in Todo : b \in Nat
      <4>1. \A x \in 1..Len(it1) : Key(it1[x]) \in Nat
        BY <1>2, KeysAreNatural DEF IInv, StateInv
      <4>2. \A y \in 1..Len(it2) : Key(it2[y]) \in Nat
        BY <1>2, KeysAreNatural DEF IInv, StateInv
      <4> QED
        BY <1>4, <4>1, <4>2 DEF Left1, Left2
    <3> QED
      BY <1>3, <1>4, <3>1
  <2>2. a \in Todo /\ \A b \in Todo : a <= b
    BY <1>3, <1>4
  <2>3. Join!Min(Todo) = a
    BY <2>1, <2>2 DEF Join!Min
  <2> QED
    BY <1>4, <1>6, <2>2, <2>3
<1>8. /\ a \in Join!Addresses(Rels(it1)) <=> l # 0
      /\ a \in Join!Addresses(Rels(it2)) <=> r # 0
      /\ l # 0 => Join!At(Rels(it1), a) = it1[l]
      /\ r # 0 => Join!At(Rels(it2), a) = it2[r]
  BY <1>3 DEF Join!Addresses, Join!At, Addrs, At, Key
<1>9. Verdict = "none" /\ Verdict' = "none"
  BY DEF Verdict
<1> DEFINE inT == l # 0
           inP == r # 0
           scored == inT /\ ~Relative(it1[l])
           good == scored /\ inP /\ Agrees(it1[l], it2[r])
<1>10. /\ Join!Bump(false_positive, ~inT)
       /\ Join!Bump(false_negative, scored /\ ~inP)
       /\ Join!Bump(match, good)
       /\ Join!Bump(mismatch, scored /\ inP /\ ~good)
  <2>1. CASE Superfluous
    BY <2>1 DEF Superfluous, Consume, NoTrue, Join!Bump
  <2>2. CASE SkipRelative
    BY <2>2 DEF SkipRelative, NoTrue, true_rel, counters, Join!Bump
  <2>3. CASE Missing
    BY <2>3 DEF Missing, Consume, NoTrue, NoPred, true_rel, Join!Bump
  <2>4. CASE Matched
    BY <2>4 DEF Matched, Both, Consume, NoTrue, NoPred, true_rel, pred_rel, Join!Bump
  <2>5. CASE Mismatched
    BY <2>5 DEF Mismatched, Both, Consume, NoTrue, NoPred, true_rel, pred_rel, Join!Bump
  <2> QED
    BY <2>1, <2>2, <2>3, <2>4, <2>5 DEF Body
<1> QED
  BY <1>2, <1>7, <1>8, <1>9, <1>10 DEF Join!CountAddress

LEMMA AllKeysLeftNext ==
    (seen = 0)' => (Left1 \cup Left2 = Join!Addresses(Rels(it1) \cup Rels(it2)))'
  BY AllKeysLeft, PTL

(* The steps of the join that the grading's steps are. *)
LEMMA ReadIsReceived == ASSUME GradeInv, ReadPart PROVE [Join!Next]_Join!vars
<1>1. /\ step = "read" /\ cmp = "sort" /\ seen = 0
      /\ Todo = {} /\ Verdict = "reading"
  BY DEF ReadPart, GradeInv, CmpInv, Todo, Verdict
<1>2. CASE left # {}
  <2>1. UNCHANGED cmpVars /\ step' \in {"segments", "read"}
    BY <1>2 DEF ReadPart
  <2>2. UNCHANGED <<it1, it2, cmp, counters>>
    BY <2>1 DEF cmpVars, vars
  <2>3. Todo' = {} /\ Verdict' \in {"reading", "rejected"}
    BY <1>1, <2>1, <2>2 DEF Todo, Verdict
  <2>4. Rels(it1)' = Rels(it1) /\ Rels(it2)' = Rels(it2)
    BY <2>2
  <2>5. CASE Verdict' = "reading"
    BY <1>1, <2>2, <2>3, <2>4, <2>5 DEF Join!vars, Join!counters, counters
  <2>6. CASE Verdict' = "rejected"
    BY <1>1, <2>2, <2>3, <2>4, <2>6 DEF Join!Next, Join!Reject, Join!counters, counters
  <2> QED
    BY <2>3, <2>5, <2>6
<1>3. CASE left = {}
  <2>1. step' = "compare" /\ UNCHANGED <<it1, cmp, seen, counters>>
    BY <1>3 DEF ReadPart
  <2>2. Verdict' = "none" /\ Todo' = Left1' \cup Left2'
    BY <2>1 DEF Verdict, Todo, Left1, Left2
  <2>3. Todo' = Join!Addresses(Rels(it1') \cup Rels(it2'))
    BY <1>1, <2>1, <2>2, AllKeysLeftNext DEF Join!Addresses
  <2>4. Rels(it1)' = Rels(it1)
    BY <2>1
  <2>5. Join!Receive
    BY <1>1, <2>1, <2>2, <2>3, <2>4 DEF Join!Receive, Join!counters, Join!Addresses, counters
  <2> QED
    BY <2>5 DEF Join!Next
<1> QED
  BY <1>2, <1>3

LEMMA ComparisonIsJoin == ASSUME GradeInv, Compare PROVE [Join!Next]_Join!vars
<1>1. /\ step = "compare" /\ CmpNext /\ CmpInv /\ step' = ComparisonNext
      /\ Verdict = "none" /\ Todo = Left1 \cup Left2
  BY DEF Compare, GradeInv, Verdict, Todo, Left1, Left2
<1>2. Rels(it1)' = Rels(it1) /\ Rels(it2)' = Rels(it2)
  BY <1>1, ComparisonKeepsRels
<1>3. CASE SortTables
  <2>1. /\ cmp = "sort" /\ seen = 0 /\ seen' = 0 /\ UNCHANGED counters
        /\ cmp' \in {"merge", "duplicate_in_truth", "duplicate_in_symbolized"}
    BY <1>1, <1>3 DEF SortTables, CmpInv
  <2>2. Todo = Join!Addresses(Rels(it1) \cup Rels(it2))
    BY <1>1, <2>1, AllKeysLeft
  <2>3. Todo' = Left1' \cup Left2'
    BY <2>1 DEF Todo, Left1, Left2
  <2>4. Todo' = Todo
    BY <1>2, <2>1, <2>2, <2>3, AllKeysLeftNext DEF Join!Addresses
  <2>5. Verdict' = "none" \/ Verdict' = "rejected"
    BY <1>1, <2>1 DEF Verdict, ComparisonNext
  <2>6. CASE Verdict' = "none"
    BY <1>1, <1>2, <2>1, <2>4, <2>6 DEF Join!vars, Join!counters, counters
  <2>7. CASE Verdict' = "rejected"
    BY <1>1, <1>2, <2>1, <2>2, <2>4, <2>7 DEF Join!Next, Join!Reject, Join!counters, counters
  <2> QED
    BY <2>5, <2>6, <2>7
<1>4. CASE Resume
  <2>1. cmp = "merge" /\ seen = Len(out) /\ Generate /\ UNCHANGED <<it1, it2, cmp, seen, counters>>
    BY <1>4 DEF Resume, inputs
  <2>2. step' = "compare" /\ Verdict' = "none"
    BY <1>1, <2>1 DEF ComparisonNext, Verdict
  <2>3. \A x \in 1..seen : out'[x] = out[x]
    <3>1. out \in Seq([l : Nat, r : Nat])
      BY <1>1, <2>1 DEF CmpInv, IInv, StateInv, TypeOK
    <3>2. out' = out \/ \E a, b : out' = Append(out, [l |-> a, r |-> b])
      BY <2>1 DEF Generate, Loop, Match, Tails, PullRight, RightExhausted, PullLeft,
                  LeftExhausted, YieldBoth, YieldLeft, YieldRight, DrainLeft, DrainRight,
                  Return, Yield
    <3>3. ASSUME NEW S, NEW s \in Seq(S), NEW e
          PROVE  \A x \in 1..Len(s) : Append(s, e)[x] = s[x]
      OBVIOUS
    <3> QED
      BY <2>1, <3>1, <3>2, <3>3
  <2>4. Consumed1' = Consumed1 /\ Consumed2' = Consumed2
    BY <2>1, <2>3 DEF Consumed1, Consumed2
  <2>5. Todo' = Todo
    BY <1>1, <2>1, <2>2, <2>4 DEF Todo
  <2> QED
    BY <1>1, <1>2, <2>1, <2>2, <2>5 DEF Join!vars, Join!counters, counters
<1>5. CASE Body
  <2>1. cmp = "merge" /\ cmp' = cmp
    BY <1>5 DEF Body, Superfluous, SkipRelative, Missing, Matched, Mismatched, Consume
  <2>2. step' = "compare"
    BY <1>1, <2>1 DEF ComparisonNext
  <2> QED
    BY <1>1, <1>5, <2>2, BodyCountsAddress DEF Join!Next
<1>6. CASE Score
  <2>1. /\ cmp = "merge" /\ gen = "returned" /\ seen = Len(out) /\ UNCHANGED <<vars, seen, counters>>
        /\ cmp' = IF total = 0 THEN "ZeroDivisionError" ELSE "scored"
    BY <1>6 DEF Score
  <2>2. NothingDropped
    BY <1>1, <2>1, AllHandedOver DEF CmpInv
  <2>3. Todo = {}
    <3>1. \A x \in 1..Len(it1) : x \in Consumed1
      BY <2>1, <2>2 DEF NothingDropped, Consumed1
    <3>2. \A y \in 1..Len(it2) : y \in Consumed2
      BY <2>1, <2>2 DEF NothingDropped, Consumed2
    <3> QED
      BY <1>1, <3>1, <3>2 DEF Left1, Left2
  <2>4. Todo' = Todo
    <3>1. UNCHANGED <<it1, it2, out, seen>>
      BY <2>1 DEF vars
    <3>2. Todo' = Left1' \cup Left2'
      BY <2>1 DEF Todo, Left1, Left2
    <3> QED
      BY <1>1, <3>1, <3>2 DEF Left1, Left2, Consumed1, Consumed2
  <2>5. Verdict' = IF total = 0 THEN "undefined" ELSE "scored"
    BY <1>1, <2>1 DEF ComparisonNext, Verdict
  <2>6. Join!Conclude
    BY <1>1, <1>2, <2>1, <2>3, <2>4, <2>5 DEF Join!Conclude, Join!counters, counters, total
  <2> QED
    BY <2>6 DEF Join!Next
<1> QED
  BY <1>1, <1>3, <1>4, <1>5, <1>6 DEF CmpNext

LEMMA LaterIsInvisible ==
    ASSUME \/ (CompareSegments \/ Replace) /\ GradeInv
           \/ UNCHANGED gradeVars
    PROVE  UNCHANGED Join!vars
<1>1. UNCHANGED <<it1, it2, out, seen, cmp, counters>>
  BY DEF CompareSegments, Replace, gradeVars, cmpVars, vars
<1>2. \/ step' = step
      \/ step \in {"segments", "replace"} /\ step' \in {"segments", "replace", "graded"}
  BY DEF CompareSegments, Replace, gradeVars
<1>3. Todo' = Todo
  BY <1>1, <1>2 DEF Todo, Consumed1, Consumed2
<1>4. Verdict' = Verdict
  BY <1>1, <1>2 DEF Verdict
<1> QED
  BY <1>1, <1>3, <1>4 DEF Join!vars, Join!counters, counters

(* Reading, sorting, generator and loop implement the join, step by step:    *)
(* what ImplementsJoin says but for its fairness.                            *)
THEOREM GradingIsJoin == GradeSpec => Join!Init /\ [][Join!Next]_Join!vars
<1>1. GradeInit => Join!Init
  BY DEF GradeInit, CmpInit, Join!Init, Todo, Verdict
<1>2. GradeInv /\ [GradeNext]_gradeVars => [Join!Next]_Join!vars
  BY ReadIsReceived, ComparisonIsJoin, LaterIsInvisible DEF GradeNext
<1> QED
  BY <1>1, <1>2, GradeInvariance, PTL DEF GradeSpec

-----------------------------------------------------------------------------
(* A perfect symbolization: its relocations are read as those of the truth,  *)
(* so the comparison has two tables of the same relocations, the segments    *)
(* are found alike, and every replacement finds its section.                 *)
LEMMA PerfectFrame ==
    ASSUME Rels(it1') = Rels(it1), UNCHANGED <<part, absolute, headers, replacements>>
    PROVE  Perfect' = Perfect
<1>1. Names!Complete' = Names!Complete
  BY DEF Names!Complete, Names!Home, Names!Sections, Names!Objects
<1>2. Names!Named({"hex"})' = Names!Named({"hex"})
  BY DEF Names!Named, Names!Sections, Names!Base
<1>3. Names!TruthTable' = Names!TruthTable
  BY DEF Names!TruthTable
<1> QED
  BY <1>1, <1>2, <1>3 DEF Perfect, AsksFor

LEMMA PerfectResolves ==
    ASSUME Perfect, AlwaysSetup, NEW x \in Names!Sections
    PROVE  /\ Names!resolve_section_vaddr(x) = Names!Base(x)
           /\ Names!Base(x) \in Nat \ {0}
<1>1. /\ part[x].first \in 1..Len(Program)
      /\ part[x].sh_addr \in {0, Program[part[x].first].addr}
  BY SetupFacts DEF Names!Sections
<1>2. Names!Base(x) \in Nat \ {0} /\ part[x].sh_addr \in {0, Names!Base(x)}
  BY <1>1, ProgramAssumption DEF Names!Base
<1>3. part[x].sh_addr = Names!Base(x) \/ part[x].form = "hex"
  BY DEF Perfect, Names!Named
<1> QED
  BY <1>2, <1>3 DEF Names!resolve_section_vaddr

LEMMA PerfectRecord ==
    ASSUME Perfect, AlwaysSetup, NEW x \in Names!Sections, NEW o \in Names!Objects(x),
           NEW ref \in Program[o].refs
    PROVE  LET r == [sec |-> x, obj |-> o, ref |-> ref]
           IN  /\ ~Names!Unreadable(r)
               /\ o \in 1..Len(Program)
               /\ Names!AsRecord(r) = [vaddr |-> Program[o].addr + ref.off,
                                       value |-> Program[ref.to].addr + ref.plus,
                                       type_ |-> ref.type_, abs |-> FALSE, section |-> FALSE]
<1> DEFINE r == [sec |-> x, obj |-> o, ref |-> ref]
<1>3. Names!resolve_section_vaddr(x) = Names!Base(x) /\ Names!Base(x) \in Nat
  BY PerfectResolves
<1>4. o \in 1..Len(Program)
  <2>1. /\ Len(Program) \in Nat /\ part[x].first \in 1..Len(Program)
        /\ part[x].last \in 1..Len(Program)
    BY SetupsAssumption, ProgramAssumption DEF AlwaysSetup, Names!Sections
  <2> QED
    BY <2>1 DEF Names!Objects
<1>5. /\ Program[o].addr \in Nat /\ ref.off \in Nat /\ ref.plus \in Int
      /\ ref.to \in 1..Len(Program) /\ Program[ref.to].addr \in Nat
      /\ Program[ref.to].addr + ref.plus \in Nat
  BY <1>4, ProgramAssumption
<1>6. PICK y \in Names!Home(ref.to) : y = CHOOSE s \in Names!Home(ref.to) : TRUE
  BY <1>5 DEF Perfect, Names!Complete
<1>7. y \in Names!Sections /\ Names!Home(ref.to) # {}
  BY <1>6 DEF Names!Home
<1>8. Names!resolve_section_vaddr(y) = Names!Base(y) /\ Names!Base(y) \in Nat
  BY <1>7, PerfectResolves
<1>9. Names!Target(ref) = Program[ref.to].addr + ref.plus - Names!Base(y) + Names!Base(y)
  BY <1>6, <1>7, <1>8 DEF Names!Target, Names!Unresolvable, Perfect
<1>10. Names!Target(ref) = Program[ref.to].addr + ref.plus
  BY <1>5, <1>8, <1>9
<1>11. Names!RelVaddr(r) = Program[o].addr + ref.off
  BY <1>3, <1>5 DEF Names!RelVaddr
<1>12. ref.to \notin absolute
  BY DEF Perfect
<1> HIDE DEF r
<1>13. Names!AsRecord(r) = [vaddr |-> Program[o].addr + ref.off,
                            value |-> Program[ref.to].addr + ref.plus,
                            type_ |-> ref.type_, abs |-> FALSE, section |-> FALSE]
  <2>1. r.ref = ref /\ (ref.to \in absolute) = FALSE
    BY <1>12 DEF r
  <2> QED
    BY <1>10, <1>11, <2>1, Zenon DEF Names!AsRecord
<1>14. ~Names!Unreadable(r)
  BY <1>3, <1>5, <1>10 DEF r, Names!Unreadable, Names!Unresolvable
<1> QED
  BY <1>4, <1>13, <1>14 DEF r

LEMMA PerfectReads ==
    ASSUME Perfect, AlwaysSetup, NEW r \in Names!Refs
    PROVE  ~Names!Unreadable(r) /\ Names!AsRecord(r) \in Names!TruthTable
<1>1. PICK x \in Names!Sections : \E o \in Names!Objects(x) :
            \E ref \in Program[o].refs : r = [sec |-> x, obj |-> o, ref |-> ref]
  BY DEF Names!Refs
<1>2. PICK o \in Names!Objects(x) :
            \E ref \in Program[o].refs : r = [sec |-> x, obj |-> o, ref |-> ref]
  BY <1>1
<1>3. PICK ref \in Program[o].refs : r = [sec |-> x, obj |-> o, ref |-> ref]
  BY <1>2
<1>4. /\ ~Names!Unreadable(r) /\ o \in 1..Len(Program)
      /\ Names!AsRecord(r) = [vaddr |-> Program[o].addr + ref.off,
                              value |-> Program[ref.to].addr + ref.plus,
                              type_ |-> ref.type_, abs |-> FALSE, section |-> FALSE]
  BY <1>3, PerfectRecord, Zenon
<1>5. Names!AsRecord(r) \in
        {[vaddr |-> Program[o].addr + q.off, value |-> Program[q.to].addr + q.plus,
          type_ |-> q.type_, abs |-> FALSE, section |-> FALSE] : q \in Program[o].refs}
  BY <1>4
<1> QED
  BY <1>4, <1>5, ZenonT(30) DEF Names!TruthTable

(* Every relocation of the truth is one of the file's, whatever the cut.     *)
LEMMA PerfectCoversTruth ==
    ASSUME Perfect, AlwaysSetup, NEW t \in Names!TruthTable
    PROVE  \E r \in Names!Refs : Names!AsRecord(r) = t
<1>1. PICK o \in 1..Len(Program) : \E ref \in Program[o].refs :
        t = [vaddr |-> Program[o].addr + ref.off,
             value |-> Program[ref.to].addr + ref.plus,
             type_ |-> ref.type_, abs |-> FALSE, section |-> FALSE]
  BY DEF Names!TruthTable
<1>2. PICK ref \in Program[o].refs :
        t = [vaddr |-> Program[o].addr + ref.off,
             value |-> Program[ref.to].addr + ref.plus,
             type_ |-> ref.type_, abs |-> FALSE, section |-> FALSE]
  BY <1>1
<1>3. PICK x \in Names!Sections : o \in Names!Objects(x)
  BY DEF Perfect, Names!Complete, Names!Home
<1> DEFINE r == [sec |-> x, obj |-> o, ref |-> ref]
<1>4. r \in Names!Refs
  BY <1>3 DEF Names!Refs
<1>5. Names!AsRecord(r) = t
  BY <1>2, <1>3, PerfectRecord
<1> QED
  BY <1>4, <1>5

LEMMA PerfectFinds ==
    ASSUME Perfect, AlwaysSetup, NEW j \in 1..Len(replacements)
    PROVE  Names!Candidates(replacements[j]) # {}
<1>1. PICK x \in 1..Len(part) : part[x].alloc /\ AsksFor(replacements[j], part[x])
  BY DEF Perfect
<1>2. Names!resolve_section_vaddr(x) = Program[part[x].first].addr
  BY PerfectResolves DEF Names!Sections, Names!Base
<1>3. x \in Names!Found(Program[part[x].first].addr)
  BY <1>1, <1>2 DEF Names!Found, Names!Sections
<1>4. part[x].first # 0 /\ replacements[j].by \in {"section_name", "symbol_name", "vaddr"}
  BY SetupFacts
<1>5. CASE replacements[j].by = "symbol_name"
  BY <1>1, <1>3, <1>4, <1>5 DEF AsksFor, Names!Candidates
<1>6. CASE replacements[j].by = "vaddr"
  BY <1>1, <1>3, <1>6 DEF AsksFor, Names!Candidates
<1>7. CASE replacements[j].by = "section_name"
  BY <1>1, <1>7 DEF AsksFor, Names!Candidates, Names!Called, Names!Sections
<1> QED
  BY <1>4, <1>5, <1>6, <1>7

(* The table listed from a set of relocations at distinct addresses.         *)
LEMMA ListedOnce ==
    ASSUME NEW S, IsFiniteSet(S), \A t, u \in S : Key(t) = Key(u) => t = u
    PROVE  ~HasDuplicate(<<>> \o SetToSeq(S))
<1> DEFINE q == SetToSeq(S)
<1>1. q \in Seq(S) /\ Rels(q) = S /\ \A x, y \in 1..Len(q) : q[x] = q[y] => x = y
  BY SetToSeqRels
<1> HIDE DEF q
<1>2. <<>> \o q = q
  BY <1>1
<1>3. \A x \in 1..Len(q) : q[x] \in S
  BY <1>1 DEF Rels
<1>4. ~HasDuplicate(q)
  BY <1>1, <1>3 DEF HasDuplicate
<1> QED
  BY <1>2, <1>4 DEF q

PerfectInv ==
    /\ step = "graded" => pc \in {"linked", "not_found"}
    /\ step \in {"replace", "graded"} => compared = 3
    /\ Perfect =>
          /\ ~HasDuplicate(it1)
          /\ step = "read" => it2 = <<>> /\ table \subseteq Names!TruthTable
          /\ step # "read" => Rels(it2) = Names!TruthTable /\ ~HasDuplicate(it2)
          /\ step # "aborted"
          /\ step \in {"segments", "replace", "graded"} => cmp = "scored"
          /\ pc \in {"relocations", "patch", "linked"}

GradedInv == GradeInv /\ SegInv /\ ReplaceInv

LEMMA PerfectInitOK == ASSUME GradeInit PROVE PerfectInv
<1>1. step = "read" /\ pc = "relocations" /\ table = {}
  BY DEF GradeInit, Names!Unread
<1>2. PICK family \in Setups : \E s \in family :
            it1 = s.truth /\ it2 = s.given /\ part = s.part
  BY DEF GradeInit
<1>3. Perfect => ~HasDuplicate(it1) /\ it2 = <<>>
  BY <1>2, CutAssumption DEF Perfect
<1> QED
  BY <1>1, <1>3 DEF PerfectInv

LEMMA PerfectReadStep == ASSUME GradedInv, PerfectInv, ReadPart PROVE PerfectInv'
<1>1. /\ step = "read" /\ cmp = "sort" /\ AlwaysSetup /\ left \subseteq Names!Refs
      /\ IsFiniteSet(table)
      /\ \A r \in Names!Refs \ left : Names!AsRecord(r) \in table
  BY DEF ReadPart, GradedInv, GradeInv, ReplaceInv
<1>2. it1' = it1 /\ step' \notin {"graded", "replace"}
  BY DEF ReadPart, cmpVars, vars
<1>3. UNCHANGED <<part, absolute, headers, replacements>>
  BY DEF ReadPart, segVars, namVars, Names!YieldRelocation, Names!NameError
<1>4. Perfect' = Perfect /\ Names!TruthTable' = Names!TruthTable
  BY <1>2, <1>3, PerfectFrame DEF Names!TruthTable
<1>5. SUFFICES ASSUME Perfect
               PROVE  /\ ~HasDuplicate(it1')
                      /\ step' = "read" => it2' = <<>> /\ table' \subseteq Names!TruthTable
                      /\ step' # "read" => Rels(it2') = Names!TruthTable /\ ~HasDuplicate(it2')
                      /\ step' \in {"read", "compare"}
                      /\ pc' = "relocations"
  BY <1>2, <1>4 DEF PerfectInv
<1>6. /\ ~HasDuplicate(it1') /\ it2 = <<>> /\ table \subseteq Names!TruthTable
      /\ Rels(it1) = Names!TruthTable
  BY <1>1, <1>2, <1>5 DEF PerfectInv, Perfect
<1>7. CASE left # {}
  <2>1. it2' = it2
    BY <1>7 DEF ReadPart, cmpVars, vars
  <2>2. PICK r \in left : Names!YieldRelocation(r) \/ Names!NameError(r)
    BY <1>7 DEF ReadPart
  <2>3. ~Names!Unreadable(r) /\ Names!AsRecord(r) \in Names!TruthTable
    BY <1>1, <1>5, PerfectReads
  <2>4. Names!YieldRelocation(r)
    BY <2>2, <2>3 DEF Names!NameError
  <2>5. table' = table \cup {Names!AsRecord(r)} /\ pc' = "relocations"
    BY <2>4 DEF Names!YieldRelocation
  <2>6. step' = "read"
    BY <1>7, <2>5 DEF ReadPart
  <2> QED
    BY <1>6, <2>1, <2>3, <2>5, <2>6
<1>8. CASE left = {}
  <2>1. it2' = <<>> \o SetToSeq(table) /\ step' = "compare" /\ pc' = "relocations"
    BY <1>6, <1>8 DEF ReadPart, namVars
  <2>2. table = Names!TruthTable
    <3>1. \A t \in Names!TruthTable : t \in table
      BY <1>1, <1>5, <1>8, PerfectCoversTruth
    <3> QED
      BY <1>6, <3>1
  <2>3. \A t, u \in table : Key(t) = Key(u) => t = u
    <3>1. \A t, u \in Rels(it1) : Key(t) = Key(u) => t = u
      BY <1>2, <1>6 DEF Rels, HasDuplicate
    <3> QED
      BY <1>6, <2>2, <3>1
  <2>4. ~HasDuplicate(it2')
    BY <1>1, <2>1, <2>3, ListedOnce
  <2>5. Rels(it2') = table
    <3>1. Keyed(it2) /\ \A t \in table : Key(t) \in Nat
      BY DEF GradedInv, GradeInv, CmpInv
    <3>2. Rels(it2 \o SetToSeq(table)) = Rels(it2) \cup table
      BY <1>1, <3>1, Appended
    <3>3. Rels(it2) = {}
      BY <1>6 DEF Rels
    <3> QED
      BY <1>6, <2>1, <3>2, <3>3
  <2> QED
    BY <1>6, <2>1, <2>2, <2>4, <2>5
<1> QED
  BY <1>7, <1>8

(* Some entry of the truth is scored, so the division is by more than zero.  *)
LEMMA PerfectDoesNotCrash ==
    ASSUME Perfect, ~HasDuplicate(it1)
    PROVE  Compared # {}
<1>1. PICK o \in 1..Len(Program) : \E ref \in Program[o].refs : ref.type_ # "R_386_RELATIVE"
  BY ProgramAssumption
<1>2. PICK ref \in Program[o].refs : ref.type_ # "R_386_RELATIVE"
  BY <1>1
<1> DEFINE t == [vaddr |-> Program[o].addr + ref.off, value |-> Program[ref.to].addr + ref.plus,
                 type_ |-> ref.type_, abs |-> FALSE, section |-> FALSE]
<1>3. t \in Names!TruthTable
  <2>1. t \in {[vaddr |-> Program[o].addr + q.off, value |-> Program[q.to].addr + q.plus,
                type_ |-> q.type_, abs |-> FALSE, section |-> FALSE] : q \in Program[o].refs}
    BY <1>2
  <2> QED
    BY <1>1, <2>1, Zenon DEF Names!TruthTable
<1>4. t \in Rels(it1) /\ ~Relative(t)
  BY <1>2, <1>3 DEF Perfect, Relative
<1> HIDE DEF t
<1>5. PICK x \in 1..Len(it1) : it1[x] = t
  BY <1>4 DEF Rels
<1>6. At(it1, Key(t)) = t
  BY <1>5, AtPosition
<1>7. Key(t) \in Addrs(it1)
  BY <1>4 DEF Addrs
<1> QED
  BY <1>4, <1>6, <1>7 DEF Compared

LEMMA PerfectCompareStep == ASSUME GradedInv, PerfectInv, Compare PROVE PerfectInv'
<1>1. /\ step = "compare" /\ CmpNext /\ CmpInv /\ step' = ComparisonNext
      /\ UNCHANGED <<part, absolute, headers, replacements, pc>>
      /\ cmp \in {"sort", "merge"}
  BY DEF Compare, GradedInv, GradeInv, namVars, segVars
<1>2. Rels(it1') = Rels(it1) /\ Rels(it2') = Rels(it2) /\ CmpInv'
  BY <1>1, ComparisonKeepsRels, CmpStep
<1>3. Perfect' = Perfect /\ Names!TruthTable' = Names!TruthTable
  BY <1>1, <1>2, PerfectFrame DEF Names!TruthTable
<1>4. step' \in {"compare", "segments", "aborted"}
  BY <1>1 DEF ComparisonNext
<1>5. SUFFICES ASSUME Perfect
               PROVE  /\ ~HasDuplicate(it1') /\ ~HasDuplicate(it2')
                      /\ cmp' \in {"merge", "scored"}
  BY <1>1, <1>2, <1>3, <1>4 DEF PerfectInv, ComparisonNext
<1>6. ~HasDuplicate(it1) /\ ~HasDuplicate(it2)
  BY <1>1, <1>5 DEF PerfectInv
<1>7. CASE SortTables
  <2>1. cmp' = "merge"
    BY <1>6, <1>7 DEF SortTables
  <2>2. ~HasDuplicate(it1') /\ ~HasDuplicate(it2')
    BY <1>1, <1>6, <1>7, SortingPermutes DEF SortTables, CmpInv
  <2> QED
    BY <2>1, <2>2
<1>8. CASE Resume \/ Body
  BY <1>6, <1>8 DEF Resume, Body, Superfluous, SkipRelative, Missing, Matched, Mismatched,
              Consume, inputs, vars
<1>9. CASE Score
  <2>1. it1' = it1 /\ it2' = it2 /\ cmp' \in {"ZeroDivisionError", "scored"}
    BY <1>9 DEF Score, vars
  <2>2. CrashOnlyOnEmpty'
    BY <1>2, CrashMeansEmptyNext
  <2>3. Compared' = Compared
    BY <2>1 DEF Compared, Addrs, At
  <2>4. cmp' # "ZeroDivisionError"
    BY <1>5, <1>6, <2>2, <2>3, PerfectDoesNotCrash DEF CrashOnlyOnEmpty
  <2> QED
    BY <1>6, <2>1, <2>4
<1> QED
  BY <1>1, <1>7, <1>8, <1>9 DEF CmpNext

LEMMA PerfectLaterStep ==
    ASSUME GradedInv, PerfectInv, CompareSegments \/ Replace
    PROVE  PerfectInv'
<1>1. UNCHANGED <<it1, it2, cmp>>
  BY DEF CompareSegments, Replace, cmpVars, vars
<1>2. UNCHANGED <<part, absolute, headers, replacements, table>>
  BY DEF CompareSegments, Replace, namVars, segVars, Names!CopyPart, Names!ModifyInplace,
         Names!NotFound, Names!Link, Segs!Next, Segs!ScanSegment, Segs!EndScan, Segs!CompareRole
<1>3. Perfect' = Perfect /\ Names!TruthTable' = Names!TruthTable
  BY <1>1, <1>2, PerfectFrame DEF Names!TruthTable
<1>4. CASE CompareSegments
  <2>1. /\ step = "segments" /\ step' \in {"segments", "replace"} /\ pc' = pc
        /\ step' = "replace" => compared' = 3
    BY <1>4 DEF CompareSegments, namVars, Segs!Roles
  <2> QED
    BY <1>1, <1>2, <1>3, <2>1 DEF PerfectInv
<1>5. CASE Replace
  <2>1. /\ step = "replace" /\ step' \in {"replace", "graded"} /\ compared' = compared
        /\ step' = "graded" => pc' \in {"linked", "not_found"}
    BY <1>5 DEF Replace, segVars
  <2>2. Perfect => pc' \in {"patch", "linked"}
    <3>1. ASSUME Perfect, Names!NotFound PROVE FALSE
      <4>1. /\ Names!Candidates(replacements[replaced + 1]) = {}
            /\ replaced < Len(replacements) /\ AlwaysSetup /\ replaced \in 0..Len(replacements)
        BY <3>1 DEF Names!NotFound, GradedInv, ReplaceInv
      <4>2. replaced + 1 \in 1..Len(replacements)
        BY <4>1, SetupFacts
      <4> QED
        BY <3>1, <4>1, <4>2, PerfectFinds
    <3> QED
      BY <1>5, <3>1 DEF Replace, Names!CopyPart, Names!ModifyInplace, Names!Link
  <2> QED
    BY <1>1, <1>2, <1>3, <2>1, <2>2 DEF PerfectInv
<1> QED
  BY <1>4, <1>5

LEMMA PerfectInvFrame == ASSUME PerfectInv, UNCHANGED gradeVars PROVE PerfectInv'
<1>1. UNCHANGED <<step, it1, it2, cmp, table, pc, compared, part, absolute, headers, replacements>>
  BY DEF gradeVars, cmpVars, vars, namVars, segVars
<1>2. Perfect' = Perfect /\ Names!TruthTable' = Names!TruthTable
  BY <1>1, PerfectFrame DEF Names!TruthTable
<1> QED
  BY <1>1, <1>2 DEF PerfectInv

THEOREM PerfectInvariance == GradeSpec => [](GradedInv /\ PerfectInv)
<1>1. GradedInv /\ PerfectInv /\ [GradeNext]_gradeVars => PerfectInv'
  BY PerfectReadStep, PerfectCompareStep, PerfectLaterStep, PerfectInvFrame DEF GradeNext
<1>2. GradeSpec => []GradedInv
  BY GradeInvariance, SegInvariance, ReplaceInvariance, PTL DEF GradedInv
<1> QED
  BY <1>1, <1>2, PerfectInitOK, PTL DEF GradeSpec

(* Tables with the same headers are found alike, whatever the headers are.   *)
LEMMA SameHeadersSameRoles ==
    ASSUME SegInv, compared = 3, headers.truth = headers.symbolized
    PROVE  ~fail
<1>1. scanning = Absent /\ "truth" \in Segs!Files /\ "symbolized" \in Segs!Files
  BY DEF SegInv, SegTypeOK, Segs!Files
<1>2. Scanned("truth") = Len(headers["truth"]) /\ Scanned("symbolized") = Len(headers["truth"])
  BY <1>1, AbsentAssumption DEF Scanned
<1>3. ASSUME NEW r \in RoleNames
      PROVE  main["truth"][r] = main["symbolized"][r]
  <2> DEFINE h == headers["truth"]
             n == Len(h)
  <2>1. n \in Nat /\ RoleFound("truth", r) /\ RoleFound("symbolized", r)
    BY <1>1 DEF SegInv, SegTypeOK, HeadersOK, RolesFound
  <2>2. \/ main["truth"][r] = Absent /\ \A k \in 1..n : Segs!RoleOf(h[k]) # r
        \/ \E k \in 1..n : /\ main["truth"][r] = h[k] /\ Segs!RoleOf(h[k]) = r
                           /\ \A j \in 1..n : k < j => Segs!RoleOf(h[j]) # r
    BY <1>2, <2>1 DEF RoleFound
  <2>3. \/ main["symbolized"][r] = Absent /\ \A k \in 1..n : Segs!RoleOf(h[k]) # r
        \/ \E k \in 1..n : /\ main["symbolized"][r] = h[k] /\ Segs!RoleOf(h[k]) = r
                           /\ \A j \in 1..n : k < j => Segs!RoleOf(h[j]) # r
    BY <1>2, <2>1 DEF RoleFound
  <2> HIDE DEF h, n
  <2> QED
    BY <2>1, <2>2, <2>3
<1>4. \A r \in RoleNames : IsHeader(main["truth"][r]) \/ main["truth"][r] = Absent
  <2>1. \A v \in RoleValues : IsHeader(v) \/ v = Absent
    BY DEF SegInv, SegTypeOK, HeadersOK, RoleValues, Segs!Headers
  <2> QED
    BY <1>1, <2>1 DEF SegInv, SegTypeOK
<1>5. \A r \in RoleNames : ~Differs(r)
  BY <1>3, <1>4, NoErrorMeansSame DEF Differs
<1>6. \A x \in 1..3 : Segs!Roles[x] \in RoleNames
  BY DEF Segs!Roles, RoleNames
<1> QED
  BY <1>5, <1>6 DEF SegInv, FailInv

(* A perfect symbolization gets full marks in all three steps, for every     *)
(* program, every way to cut it, every order of its sections and of its      *)
(* relocations, and whatever the headers.                                    *)
THEOREM PerfectGetsFullMarks == GradeSpec => []FullMarks
<1>1. ASSUME GradedInv, PerfectInv, step \in {"graded", "aborted"}, Perfect
      PROVE  cmp = "scored" /\ match = total /\ ~fail /\ pc = "linked"
  <2>1. /\ step = "graded" /\ cmp = "scored" /\ pc = "linked" /\ compared = 3
        /\ Rels(it2) = Rels(it1)
    BY <1>1 DEF PerfectInv, Perfect
  <2>2. ~fail
    BY <1>1, <2>1, SameHeadersSameRoles DEF GradedInv, Perfect
  <2>3. Addrs(it2) = Addrs(it1) /\ \A a : At(it2, a) = At(it1, a)
    BY <2>1 DEF Addrs, At
  <2>4. \A a \in Addrs(it1) : At(it1, a) \in Rels(it1)
    BY DEF Addrs, At
  <2>5. \A t \in Rels(it1) : t.abs = FALSE
    BY <1>1 DEF Perfect, Names!TruthTable
  <2>6. Faithful
    BY <2>3, <2>4, <2>5 DEF Faithful, Compared
  <2>7. FaithfulScoresAll
    BY <1>1, FaithfulHasNoErrors DEF GradedInv, GradeInv
  <2>8. match = total
    BY <2>1, <2>3, <2>6, <2>7 DEF FaithfulScoresAll
  <2> QED
    BY <2>1, <2>2, <2>8
<1>2. GradedInv /\ PerfectInv => FullMarks
  BY <1>1 DEF FullMarks
<1> QED
  BY <1>2, PerfectInvariance, PTL
====
