---- MODULE MergeSorted ----
(* checklib/utils.py, merge_sorted: a generator that walks two iterators     *)
(* sorted by the same key and yields a pair when the keys agree, and a       *)
(* one-sided pair otherwise.  Checker code relies on it to line up the       *)
(* relocations of the ground truth with those of the symbolized file.        *)
(*                                                                           *)
(* An item is a record; its `vaddr` is the key (attrgetter('vaddr')).  A     *)
(* yielded pair holds positions in the two inputs, 0 standing for Python's   *)
(* None, so that two items with equal keys stay distinguishable.             *)
EXTENDS Integers, Sequences

CONSTANTS
    Inputs1,    \* the sequences of items that may be passed as it1
    Inputs2     \* the sequences of items that may be passed as it2

Key(x) == x.vaddr
Keyed(s) == s \in Seq({s[x] : x \in DOMAIN s}) /\ \A x \in DOMAIN s : Key(s[x]) \in Nat

ASSUME InputsAssumption == \A s \in Inputs1 \cup Inputs2 : Keyed(s)

VARIABLES
    it1, it2,   \* the two inputs
    n1, n2,     \* how many items next() has taken from each
    kl, kr,     \* key of the item held from each side, or None
    gen,        \* where the generator stands
    out         \* the pairs yielded so far

inputs  == <<it1, it2>>
genVars == <<n1, n2, kl, kr, gen, out>>
vars    == <<it1, it2, n1, n2, kl, kr, gen, out>>

None == -1                  \* keys are naturals: never a key

Sorted(s) == \A x, y \in 1..Len(s) : x < y => Key(s[x]) <= Key(s[y])

GenInit ==
    /\ n1 = 0 /\ n2 = 0
    /\ kl = None /\ kr = None
    /\ gen = "loop"
    /\ out = <<>>

Init ==
    /\ it1 \in {s \in Inputs1 : Sorted(s)}
    /\ it2 \in {s \in Inputs2 : Sorted(s)}
    /\ GenInit

Yield(a, b) == out' = Append(out, [l |-> a, r |-> b])

-----------------------------------------------------------------------------
(* One round of the while loop: refill the right side, then the left side,   *)
(* then compare.  Running dry on either side leaves the loop for good.       *)

PullRight ==
    /\ gen = "loop" /\ kr = None /\ n2 < Len(it2)
    /\ n2' = n2 + 1
    /\ kr' = Key(it2[n2 + 1])
    /\ UNCHANGED <<n1, kl, gen, out>>

(* Mutant: the item held from the other side is forgotten. *)
RightExhaustedForgets ==
    /\ gen = "loop" /\ kr = None /\ n2 = Len(it2)
    /\ gen' = "rest_of_it1"
    /\ kl' = None
    /\ UNCHANGED <<n1, n2, kr, out>>

RightExhausted ==
    /\ gen = "loop" /\ kr = None /\ n2 = Len(it2)
    /\ IF kl # None THEN Yield(n1, 0) ELSE UNCHANGED out
    /\ gen' = "rest_of_it1"
    /\ kl' = None           \* l is yielded and never looked at again
    /\ UNCHANGED <<n1, n2, kr>>

PullLeft ==
    /\ gen = "loop" /\ kr # None /\ kl = None /\ n1 < Len(it1)
    /\ n1' = n1 + 1
    /\ kl' = Key(it1[n1 + 1])
    /\ UNCHANGED <<n2, kr, gen, out>>

LeftExhausted ==
    /\ gen = "loop" /\ kr # None /\ kl = None /\ n1 = Len(it1)
    /\ Yield(0, n2)
    /\ gen' = "rest_of_it2"
    /\ kr' = None           \* r is yielded and never looked at again
    /\ UNCHANGED <<n1, n2, kl>>

Holding == gen = "loop" /\ kl # None /\ kr # None

(* Mutants: pairs by position, like zip; == tested last; a comparison        *)
(* turned around.                                                            *)
YieldBothLikeZip ==
    /\ gen = "loop" /\ kl # None /\ kr # None
    /\ Yield(n1, n2)
    /\ kl' = None /\ kr' = None
    /\ UNCHANGED <<n1, n2, gen>>

YieldLeftOnEqual ==
    /\ gen = "loop" /\ kl # None /\ kr # None /\ kl <= kr
    /\ Yield(n1, 0)
    /\ kl' = None
    /\ UNCHANGED <<n1, n2, kr, gen>>

YieldLeftWhenLarger ==
    /\ gen = "loop" /\ kl # None /\ kr # None /\ kl # kr
    /\ Yield(n1, 0)
    /\ kl' = None
    /\ UNCHANGED <<n1, n2, kr, gen>>

YieldBoth ==
    /\ Holding /\ kl = kr
    /\ Yield(n1, n2)
    /\ kl' = None /\ kr' = None
    /\ UNCHANGED <<n1, n2, gen>>

YieldLeft ==
    /\ Holding /\ kl < kr
    /\ Yield(n1, 0)
    /\ kl' = None
    /\ UNCHANGED <<n1, n2, kr, gen>>

YieldRight ==
    /\ Holding /\ kl > kr
    /\ Yield(0, n2)
    /\ kr' = None
    /\ UNCHANGED <<n1, n2, kl, gen>>

(* The two `yield from` tails and the return behind them. *)
DrainLeft ==
    /\ gen = "rest_of_it1" /\ n1 < Len(it1)
    /\ n1' = n1 + 1
    /\ Yield(n1 + 1, 0)
    /\ UNCHANGED <<n2, kl, kr, gen>>

DrainRight ==
    /\ gen = "rest_of_it2" /\ n2 < Len(it2)
    /\ n2' = n2 + 1
    /\ Yield(0, n2 + 1)
    /\ UNCHANGED <<n1, kl, kr, gen>>

Return ==
    /\ \/ gen = "rest_of_it1" /\ n1 = Len(it1)
       \/ gen = "rest_of_it2" /\ n2 = Len(it2)
    /\ gen' = "returned"
    /\ UNCHANGED <<n1, n2, kl, kr, out>>

Loop  == PullRight \/ RightExhausted \/ PullLeft \/ LeftExhausted
Match == YieldBoth \/ YieldLeft \/ YieldRight
Tails == DrainLeft \/ DrainRight \/ Return

Generate == Loop \/ Match \/ Tails

Next == Generate /\ UNCHANGED inputs

(* The generator is driven by a for loop: as long as it can step, it does. *)
Spec == Init /\ [][Next]_vars /\ WF_vars(Next)

-----------------------------------------------------------------------------
(* What the generator holds, counts and yields. *)
TypeOK ==
    /\ Keyed(it1) /\ Keyed(it2)
    /\ n1 \in 0..Len(it1) /\ n2 \in 0..Len(it2)
    /\ kl \in Nat \cup {None} /\ kr \in Nat \cup {None}
    /\ gen \in {"loop", "rest_of_it1", "rest_of_it2", "returned"}
    /\ out \in Seq([l : Nat, r : Nat])

(* Items already handed to the consumer, from each side. *)
done1 == IF kl = None THEN n1 ELSE n1 - 1
done2 == IF kr = None THEN n2 ELSE n2 - 1

KeyOf(p) == IF p.l # 0 THEN Key(it1[p.l]) ELSE Key(it2[p.r])

(* "yields a pair only if the key match": a two-sided pair has equal keys.   *)
PairsAgree ==
    \A k \in 1..Len(out) :
        out[k].l # 0 /\ out[k].r # 0 => Key(it1[out[k].l]) = Key(it2[out[k].r])

(* No match is lost: an item yielded alone from the left and one yielded     *)
(* alone from the right, however far apart, never have the same key.         *)
NoLostMatch ==
    \A k, m \in 1..Len(out) :
        out[k].r = 0 /\ out[m].l = 0 => Key(it1[out[k].l]) # Key(it2[out[m].r])

(* The output is sorted: pairs come out in the order of their keys, across   *)
(* the switch from the loop to the tails too.                                *)
OutputSorted ==
    \A k, m \in 1..Len(out) : k < m => KeyOf(out[k]) <= KeyOf(out[m])

(* When the generator returns, every item of either input has come out, and  *)
(* came out once; nothing held back is dropped when one side runs dry.       *)
NothingDropped ==
    gen = "returned" =>
        /\ \A x \in 1..Len(it1) : \E k \in 1..Len(out) :
              out[k].l = x /\ \A m \in 1..Len(out) : out[m].l = x => m = k
        /\ \A y \in 1..Len(it2) : \E k \in 1..Len(out) :
              out[k].r = y /\ \A m \in 1..Len(out) : out[m].r = y => m = k

====
