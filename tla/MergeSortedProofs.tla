---- MODULE MergeSortedProofs ----
(* merge_sorted pairs correctly whatever the inputs, as long as they are     *)
(* sorted: the properties of MergeSorted as theorems.                        *)
EXTENDS MergeSorted, TLAPS

(* The item held from a side is the last one taken from it. *)
HeldInv ==
    /\ kl # None => gen = "loop" /\ n1 >= 1 /\ kl = Key(it1[n1])
    /\ kr # None => gen = "loop" /\ n2 >= 1 /\ kr = Key(it2[n2])

(* The tails run only once the other side is used up. *)
TailInv ==
    /\ gen = "rest_of_it1" => n2 = Len(it2)
    /\ gen = "rest_of_it2" => n1 = Len(it1)
    /\ gen = "returned" => n1 = Len(it1) /\ n2 = Len(it2)

(* The pairs hold the items handed over so far, each of them once. *)
HandedOver ==
    /\ \A k \in 1..Len(out) :
          /\ out[k].l \in 0..done1
          /\ out[k].r \in 0..done2
          /\ out[k].l # 0 \/ out[k].r # 0
    /\ \A x \in 1..done1 : \E k \in 1..Len(out) : out[k].l = x
    /\ \A y \in 1..done2 : \E k \in 1..Len(out) : out[k].r = y
    /\ \A k, m \in 1..Len(out) :
          /\ out[k].l # 0 /\ out[k].l = out[m].l => k = m
          /\ out[k].r # 0 /\ out[k].r = out[m].r => k = m

(* An item yielded alone has a key below everything still to come from the   *)
(* other side: this is what makes giving up on a match safe.                 *)
LoneBelow ==
    /\ \A k \in 1..Len(out) : out[k].l = 0 =>
          \A x \in (done1 + 1)..Len(it1) : Key(it2[out[k].r]) < Key(it1[x])
    /\ \A k \in 1..Len(out) : out[k].r = 0 =>
          \A y \in (done2 + 1)..Len(it2) : Key(it1[out[k].l]) < Key(it2[y])

(* Nothing yielded is above anything still to come. *)
Frontier ==
    /\ \A k \in 1..Len(out) : \A x \in (done1 + 1)..Len(it1) : KeyOf(out[k]) <= Key(it1[x])
    /\ \A k \in 1..Len(out) : \A y \in (done2 + 1)..Len(it2) : KeyOf(out[k]) <= Key(it2[y])

OutInv == HandedOver /\ PairsAgree /\ NoLostMatch /\ LoneBelow /\ Frontier /\ OutputSorted

StateInv == TypeOK /\ Sorted(it1) /\ Sorted(it2) /\ HeldInv /\ TailInv

IInv == StateInv /\ OutInv

-----------------------------------------------------------------------------
(* Keys are naturals, so a held key is never mistaken for None.              *)
LEMMA KeysAreNatural ==
    ASSUME TypeOK
    PROVE  /\ Len(it1) \in Nat /\ Len(it2) \in Nat
           /\ \A x \in 1..Len(it1) : Key(it1[x]) \in Nat
           /\ \A y \in 1..Len(it2) : Key(it2[y]) \in Nat
<1>1. ASSUME NEW s, Keyed(s)
      PROVE  Len(s) \in Nat /\ \A x \in 1..Len(s) : Key(s[x]) \in Nat
  BY <1>1 DEF Keyed
<1> QED
  BY <1>1 DEF TypeOK

LEMMA DoneTypes ==
    ASSUME StateInv
    PROVE  done1 \in 0..Len(it1) /\ done2 \in 0..Len(it2)
<1>1. Len(it1) \in Nat /\ Len(it2) \in Nat
  BY KeysAreNatural DEF StateInv
<1>2. n1 \in 0..Len(it1) /\ (kl # None => n1 >= 1)
  BY DEF StateInv, TypeOK, HeldInv
<1>3. n2 \in 0..Len(it2) /\ (kr # None => n2 >= 1)
  BY DEF StateInv, TypeOK, HeldInv
<1>4. done1 \in 0..Len(it1)
  BY <1>1, <1>2 DEF done1
<1>5. done2 \in 0..Len(it2)
  BY <1>1, <1>3 DEF done2
<1> QED
  BY <1>4, <1>5

LEMMA YieldType ==
    ASSUME TypeOK, NEW a \in Nat, NEW b \in Nat, Yield(a, b)
    PROVE  out' \in Seq([l : Nat, r : Nat])
<1>1. [l |-> a, r |-> b] \in [l : Nat, r : Nat]
  OBVIOUS
<1>2. ASSUME NEW S, NEW s \in Seq(S), NEW e \in S
      PROVE  Append(s, e) \in Seq(S)
  OBVIOUS
<1>3. out \in Seq([l : Nat, r : Nat]) /\ out' = Append(out, [l |-> a, r |-> b])
  BY DEF TypeOK, Yield
<1> QED
  BY <1>1, <1>2, <1>3

(* Every action keeps the generator's own state consistent. *)
LEMMA StateInvStep ==
    ASSUME StateInv, Next
    PROVE  StateInv'
<1>0. UNCHANGED inputs
  BY DEF Next
<1>1. TypeOK' /\ HeldInv' /\ TailInv'
  <2>0. /\ Len(it1) \in Nat /\ Len(it2) \in Nat
        /\ \A x \in 1..Len(it1) : Key(it1[x]) \in Nat
        /\ \A y \in 1..Len(it2) : Key(it2[y]) \in Nat
    BY KeysAreNatural DEF StateInv
  <2>b. n1 \in 0..Len(it1) /\ n2 \in 0..Len(it2)
    BY DEF StateInv, TypeOK
  <2>c. n1 \in Nat /\ n2 \in Nat
    BY <2>0, <2>b
  <2>a. TypeOK /\ HeldInv /\ TailInv
    BY DEF StateInv
  <2>d. /\ n1 < Len(it1) => n1 + 1 \in 0..Len(it1) /\ n1 + 1 \in Nat
        /\ n2 < Len(it2) => n2 + 1 \in 0..Len(it2) /\ n2 + 1 \in Nat
    BY <2>0, <2>c
  <2> USE <1>0, <2>0, <2>a, <2>b, <2>c DEF HeldInv, TailInv, inputs, None
  <2>1. CASE PullRight
    BY <2>1 DEF PullRight, TypeOK
  <2>2. CASE RightExhausted
    <3>1. out' \in Seq([l : Nat, r : Nat])
      <4>1. CASE kl # None
        BY <2>2, <4>1, YieldType DEF RightExhausted
      <4>2. CASE kl = None
        BY <2>2, <4>2 DEF RightExhausted, TypeOK
      <4> QED
        BY <4>1, <4>2
    <3> QED
      BY <2>2, <3>1 DEF RightExhausted, TypeOK
  <2>3. CASE PullLeft
    BY <2>3 DEF PullLeft, TypeOK
  <2>4. CASE LeftExhausted
    <3>1. out' \in Seq([l : Nat, r : Nat])
      BY <2>4, YieldType DEF LeftExhausted
    <3> QED
      BY <2>4, <3>1 DEF LeftExhausted, TypeOK
  <2>5. CASE YieldBoth
    <3>1. out' \in Seq([l : Nat, r : Nat])
      BY <2>5, YieldType DEF YieldBoth
    <3> QED
      BY <2>5, <3>1 DEF YieldBoth, Holding, TypeOK
  <2>6. CASE YieldLeft
    <3>1. out' \in Seq([l : Nat, r : Nat])
      BY <2>6, YieldType DEF YieldLeft
    <3> QED
      BY <2>6, <3>1 DEF YieldLeft, Holding, TypeOK
  <2>7. CASE YieldRight
    <3>1. out' \in Seq([l : Nat, r : Nat])
      BY <2>7, YieldType DEF YieldRight
    <3> QED
      BY <2>7, <3>1 DEF YieldRight, Holding, TypeOK
  <2>8. CASE DrainLeft
    <3>4. n1 < Len(it1)
      BY <2>8, Zenon DEF DrainLeft
    <3>0. n1 + 1 \in 0..Len(it1) /\ n1 + 1 \in Nat
      BY <3>4, <2>d, Zenon
    <3>3. TypeOK /\ Yield(n1 + 1, 0)
      BY <2>8, Zenon DEF DrainLeft
    <3>1. out' \in Seq([l : Nat, r : Nat])
      <4>1. 0 \in Nat
        OBVIOUS
      <4> QED
        BY <3>0, <3>3, <4>1, YieldType, Zenon
    <3>2. kl = None /\ kr = None
      BY <2>8 DEF DrainLeft
    <3> QED
      BY <2>8, <3>0, <3>1, <3>2 DEF DrainLeft, TypeOK
  <2>9. CASE DrainRight
    <3>4. n2 < Len(it2)
      BY <2>9, Zenon DEF DrainRight
    <3>0. n2 + 1 \in 0..Len(it2) /\ n2 + 1 \in Nat
      BY <3>4, <2>d, Zenon
    <3>3. TypeOK /\ Yield(0, n2 + 1)
      BY <2>9, Zenon DEF DrainRight
    <3>1. out' \in Seq([l : Nat, r : Nat])
      <4>1. 0 \in Nat
        OBVIOUS
      <4> QED
        BY <3>0, <3>3, <4>1, YieldType, Zenon
    <3>2. kl = None /\ kr = None
      BY <2>9 DEF DrainRight
    <3> QED
      BY <2>9, <3>0, <3>1, <3>2 DEF DrainRight, TypeOK
  <2>10. CASE Return
    BY <2>10 DEF Return, TypeOK
  <2> QED
    BY <2>1, <2>2, <2>3, <2>4, <2>5, <2>6, <2>7, <2>8, <2>9, <2>10
       DEF Next, Generate, Loop, Match, Tails
<1>2. Sorted(it1)' /\ Sorted(it2)'
  BY <1>0 DEF StateInv, Sorted, inputs
<1> QED
  BY <1>1, <1>2 DEF StateInv

-----------------------------------------------------------------------------
(* The heart of the argument, once for all the actions that yield: handing   *)
(* over the pair (a, b) keeps the output right when each of a and b is the   *)
(* next item of its side or absent, equal keys if both are there, and, for a *)
(* lone item, nothing of the other side left with a key as small.            *)
LEMMA EmitKeepsOutput ==
    ASSUME IInv, StateInv', UNCHANGED inputs,
           NEW a \in Nat, NEW b \in Nat, a # 0 \/ b # 0,
           Yield(a, b),
           a # 0 => a = done1 + 1 /\ a <= Len(it1),
           b # 0 => b = done2 + 1 /\ b <= Len(it2),
           done1' = IF a = 0 THEN done1 ELSE a,
           done2' = IF b = 0 THEN done2 ELSE b,
           a # 0 /\ b # 0 => Key(it1[a]) = Key(it2[b]),
           b = 0 => \A y \in (done2 + 1)..Len(it2) : Key(it1[a]) < Key(it2[y]),
           a = 0 => \A x \in (done1 + 1)..Len(it1) : Key(it2[b]) < Key(it1[x])
    PROVE  OutInv'
<1> DEFINE p == [l |-> a, r |-> b]
           N == Len(out)
<1>a. ASSUME NEW S, NEW s \in Seq(S), NEW e
      PROVE  /\ Len(s) \in Nat
             /\ Len(Append(s, e)) = Len(s) + 1
             /\ \A k \in 1..Len(s) : Append(s, e)[k] = s[k]
             /\ Append(s, e)[Len(s) + 1] = e
  OBVIOUS
<1>b. out \in Seq([l : Nat, r : Nat]) /\ out' = Append(out, p)
  BY DEF IInv, StateInv, TypeOK, Yield
<1>c. N \in Nat
  BY <1>a, <1>b
<1>0. /\ N \in Nat
      /\ Len(out') = N + 1
      /\ \A k \in 1..N : out'[k] = out[k]
      /\ out'[N + 1] = p
      /\ \A k \in 1..(N + 1) : k \in 1..N \/ k = N + 1
  <2> HIDE DEF p
  <2> QED
    BY <1>a, <1>b, <1>c
<1>1. /\ it1' = it1 /\ it2' = it2
      /\ done1 \in 0..Len(it1) /\ done2 \in 0..Len(it2)
      /\ Len(it1) \in Nat /\ Len(it2) \in Nat
  BY DoneTypes, KeysAreNatural DEF inputs, IInv, StateInv
<1>2. /\ \A x \in 1..Len(it1) : Key(it1[x]) \in Nat
      /\ \A y \in 1..Len(it2) : Key(it2[y]) \in Nat
  BY KeysAreNatural DEF IInv, StateInv
<1>3. \A k \in 1..N :
         /\ out[k].l \in 0..done1 /\ out[k].r \in 0..done2
         /\ out[k].l # 0 \/ out[k].r # 0
  BY DEF IInv, OutInv, HandedOver
<1> HIDE DEF p, N
<1>p. p.l = a /\ p.r = b
  BY DEF p
<1>d. /\ done1' \in Nat /\ done1 <= done1' /\ a <= done1'
      /\ done2' \in Nat /\ done2 <= done2' /\ b <= done2'
      /\ a # 0 => a \in (done1 + 1)..Len(it1) /\ a \in 1..Len(it1)
      /\ b # 0 => b \in (done2 + 1)..Len(it2) /\ b \in 1..Len(it2)
      /\ \A x \in (done1' + 1)..Len(it1) : x \in (done1 + 1)..Len(it1) /\ x \in 1..Len(it1)
      /\ \A y \in (done2' + 1)..Len(it2) : y \in (done2 + 1)..Len(it2) /\ y \in 1..Len(it2)
      /\ \A x \in (done1' + 1)..Len(it1) : a < x
      /\ \A y \in (done2' + 1)..Len(it2) : b < y
  BY <1>1
<1>e. /\ \A k \in 1..N : out[k].l # 0 => out[k].l \in 1..Len(it1)
      /\ \A k \in 1..N : out[k].l = 0 => out[k].r \in 1..Len(it2)
      /\ \A k \in 1..N : out[k].r = 0 => out[k].l \in 1..Len(it1)
      /\ \A k \in 1..N : out[k].l # a \/ a = 0
      /\ \A k \in 1..N : out[k].r # b \/ b = 0
  <2>1. SUFFICES ASSUME NEW k \in 1..N
                 PROVE  /\ out[k].l # 0 => out[k].l \in 1..Len(it1)
                        /\ out[k].l = 0 => out[k].r \in 1..Len(it2)
                        /\ out[k].r = 0 => out[k].l \in 1..Len(it1)
                        /\ out[k].l # a \/ a = 0
                        /\ out[k].r # b \/ b = 0
    OBVIOUS
  <2> DEFINE l == out[k].l
             r == out[k].r
  <2>2. l \in 0..done1 /\ r \in 0..done2 /\ (l # 0 \/ r # 0)
    BY <1>3
  <2> HIDE DEF l, r
  <2>3. l # 0 => l \in 1..Len(it1)
    BY <2>2, <1>1
  <2>4. r # 0 => r \in 1..Len(it2)
    BY <2>2, <1>1
  <2>5. (l # a \/ a = 0) /\ (r # b \/ b = 0)
    BY <2>2, <1>1
  <2> QED
    BY <2>2, <2>3, <2>4, <2>5 DEF l, r
<1>4. HandedOver'
  <2>1. HandedOver
    BY DEF IInv, OutInv
  <2>2. \A k \in 1..(N + 1) :
           /\ out'[k].l \in 0..done1' /\ out'[k].r \in 0..done2'
           /\ out'[k].l # 0 \/ out'[k].r # 0
    <3>1. ASSUME NEW k \in 1..N
          PROVE  /\ out'[k].l \in 0..done1' /\ out'[k].r \in 0..done2'
                 /\ out'[k].l # 0 \/ out'[k].r # 0
      <4>1. out'[k] = out[k]
        BY <1>0
      <4>2. /\ out[k].l \in 0..done1 /\ out[k].r \in 0..done2
            /\ out[k].l # 0 \/ out[k].r # 0
        BY <1>3
      <4> QED
        BY <4>1, <4>2, <1>1, <1>d
    <3>2. /\ out'[N + 1].l \in 0..done1' /\ out'[N + 1].r \in 0..done2'
          /\ out'[N + 1].l # 0 \/ out'[N + 1].r # 0
      BY <1>0, <1>p, <1>d
    <3> QED
      BY <3>1, <3>2, <1>0
  <2>3. \A x \in 1..done1' : \E k \in 1..(N + 1) : out'[k].l = x
    <3>1. SUFFICES ASSUME NEW x \in 1..done1'
                   PROVE  \E k \in 1..(N + 1) : out'[k].l = x
      OBVIOUS
    <3>2. CASE x \in 1..done1
      BY <3>2, <2>1, <1>0 DEF HandedOver, N
    <3>3. CASE x = a /\ a # 0
      BY <3>3, <1>0, <1>p
    <3> QED
      BY <3>2, <3>3, <1>1
  <2>4. \A y \in 1..done2' : \E k \in 1..(N + 1) : out'[k].r = y
    <3>1. SUFFICES ASSUME NEW y \in 1..done2'
                   PROVE  \E k \in 1..(N + 1) : out'[k].r = y
      OBVIOUS
    <3>2. CASE y \in 1..done2
      BY <3>2, <2>1, <1>0 DEF HandedOver, N
    <3>3. CASE y = b /\ b # 0
      BY <3>3, <1>0, <1>p
    <3> QED
      BY <3>2, <3>3, <1>1
  <2>5. \A k, m \in 1..(N + 1) :
           /\ out'[k].l # 0 /\ out'[k].l = out'[m].l => k = m
           /\ out'[k].r # 0 /\ out'[k].r = out'[m].r => k = m
    <3>1. \A k, m \in 1..N :
             /\ out[k].l # 0 /\ out[k].l = out[m].l => k = m
             /\ out[k].r # 0 /\ out[k].r = out[m].r => k = m
      BY <2>1 DEF HandedOver, N
    <3> QED
      BY SMTT(30), <3>1, <1>0, <1>e, <1>p
  <2> QED
    BY <2>2, <2>3, <2>4, <2>5, <1>0 DEF HandedOver
<1>5. PairsAgree'
  BY <1>0, <1>1, <1>p DEF IInv, OutInv, PairsAgree, N
<1>6. NoLostMatch'
  <2>1. NoLostMatch /\ LoneBelow
    BY DEF IInv, OutInv
  <2>2. SUFFICES ASSUME NEW k \in 1..(N + 1), NEW m \in 1..(N + 1),
                        out'[k].r = 0, out'[m].l = 0
                 PROVE  Key(it1[out'[k].l]) # Key(it2[out'[m].r])
    BY <1>0, <1>1 DEF NoLostMatch
  <2>3. CASE k \in 1..N /\ m \in 1..N
    BY <2>1, <2>2, <2>3, <1>0 DEF NoLostMatch, N
  <2>4. CASE k = N + 1 /\ m \in 1..N
    <3>1. /\ out'[k].l = a /\ b = 0 /\ a # 0 /\ out'[m] = out[m] /\ out[m].l = 0
      BY <2>2, <2>4, <1>0, <1>p
    <3>2. Key(it2[out[m].r]) < Key(it1[a])
      BY <2>1, <2>4, <3>1, <1>d DEF LoneBelow, N
    <3>3. Key(it2[out[m].r]) \in Nat /\ Key(it1[a]) \in Nat
      BY <2>4, <3>1, <1>2, <1>d, <1>e
    <3> QED
      BY <3>1, <3>2, <3>3
  <2>5. CASE k \in 1..N /\ m = N + 1
    <3>1. /\ out'[m].r = b /\ a = 0 /\ b # 0 /\ out'[k] = out[k] /\ out[k].r = 0
      BY <2>2, <2>5, <1>0, <1>p
    <3>2. Key(it1[out[k].l]) < Key(it2[b])
      BY <2>1, <2>5, <3>1, <1>d DEF LoneBelow, N
    <3>3. Key(it1[out[k].l]) \in Nat /\ Key(it2[b]) \in Nat
      BY <2>5, <3>1, <1>2, <1>d, <1>e
    <3> QED
      BY <3>1, <3>2, <3>3
  <2>6. CASE k = N + 1 /\ m = N + 1
    BY <2>2, <2>6, <1>0, <1>p
  <2> QED
    BY <2>3, <2>4, <2>5, <2>6, <1>0
<1>7. LoneBelow'
  <2>1. \A k \in 1..(N + 1) : out'[k].l = 0 =>
           \A x \in (done1' + 1)..Len(it1) : Key(it2[out'[k].r]) < Key(it1[x])
    BY <1>0, <1>d, <1>p DEF IInv, OutInv, LoneBelow, N
  <2>2. \A k \in 1..(N + 1) : out'[k].r = 0 =>
           \A y \in (done2' + 1)..Len(it2) : Key(it1[out'[k].l]) < Key(it2[y])
    BY <1>0, <1>d, <1>p DEF IInv, OutInv, LoneBelow, N
  <2> QED
    BY <2>1, <2>2, <1>0, <1>1 DEF LoneBelow
<1>8. KeyOf(p) = IF a # 0 THEN Key(it1[a]) ELSE Key(it2[b])
  BY <1>p DEF KeyOf
<1>9. \A k \in 1..N : KeyOf(out[k]) \in Nat
  BY <1>2, <1>e DEF KeyOf
<1>10. KeyOf(p) \in Nat
  BY <1>2, <1>8, <1>d
<1>11. \A k \in 1..(N + 1) : KeyOf(out[k])' = KeyOf(out'[k])
  BY <1>1 DEF KeyOf
<1>16. /\ \A k \in 1..N : KeyOf(out'[k]) = KeyOf(out[k])
       /\ KeyOf(out'[N + 1]) = KeyOf(p)
  BY <1>0
(* Nothing yielded before is above the new pair. *)
<1>12. \A k \in 1..N : KeyOf(out[k]) <= KeyOf(p)
  BY <1>8, <1>d DEF IInv, OutInv, Frontier, N
(* The new pair is not above anything still to come. *)
<1>13. /\ \A x \in (done1' + 1)..Len(it1) : KeyOf(p) <= Key(it1[x])
       /\ \A y \in (done2' + 1)..Len(it2) : KeyOf(p) <= Key(it2[y])
  <2>1. Sorted(it1) /\ Sorted(it2)
    BY DEF IInv, StateInv
  <2>2. CASE a # 0
    <3>1. \A x \in (done1' + 1)..Len(it1) : Key(it1[a]) <= Key(it1[x])
      BY <2>1, <2>2, <1>d DEF Sorted
    <3>2. CASE b # 0
      <4>1. \A y \in (done2' + 1)..Len(it2) : Key(it2[b]) <= Key(it2[y])
        BY <2>1, <3>2, <1>d DEF Sorted
      <4> QED
        BY <2>2, <3>1, <3>2, <4>1, <1>8
    <3>3. CASE b = 0
      BY <2>2, <3>1, <3>3, <1>2, <1>8, <1>d
    <3> QED
      BY <3>2, <3>3
  <2>3. CASE a = 0
    <3>1. \A y \in (done2' + 1)..Len(it2) : Key(it2[b]) <= Key(it2[y])
      BY <2>1, <2>3, <1>d DEF Sorted
    <3> QED
      BY <2>3, <3>1, <1>2, <1>8, <1>d
  <2> QED
    BY <2>2, <2>3
<1>14. Frontier'
  <2>0. /\ \A k \in 1..N : \A x \in (done1 + 1)..Len(it1) : KeyOf(out[k]) <= Key(it1[x])
        /\ \A k \in 1..N : \A y \in (done2 + 1)..Len(it2) : KeyOf(out[k]) <= Key(it2[y])
    BY DEF IInv, OutInv, Frontier, N
  <2>1. \A k \in 1..(N + 1) : \A x \in (done1' + 1)..Len(it1) : KeyOf(out'[k]) <= Key(it1[x])
    BY <2>0, <1>0, <1>13, <1>16, <1>d
  <2>2. \A k \in 1..(N + 1) : \A y \in (done2' + 1)..Len(it2) : KeyOf(out'[k]) <= Key(it2[y])
    BY <2>0, <1>0, <1>13, <1>16, <1>d
  <2> QED
    BY <2>1, <2>2, <1>0, <1>1, <1>11 DEF Frontier
<1>15. OutputSorted'
  <2>1. \A k, m \in 1..N : k < m => KeyOf(out[k]) <= KeyOf(out[m])
    BY DEF IInv, OutInv, OutputSorted, N
  <2>2. ASSUME NEW k \in 1..(N + 1), NEW m \in 1..(N + 1), k < m
        PROVE  KeyOf(out'[k]) <= KeyOf(out'[m])
    <3>1. k \in 1..N
      BY <2>2, <1>0
    <3>2. CASE m \in 1..N
      BY <2>1, <2>2, <3>1, <3>2, <1>16
    <3>3. CASE m = N + 1
      BY <3>1, <3>3, <1>12, <1>16
    <3> QED
      BY <3>2, <3>3, <1>0
  <2> QED
    BY <2>2, <1>0, <1>11 DEF OutputSorted
<1> QED
  BY <1>4, <1>5, <1>6, <1>7, <1>14, <1>15 DEF OutInv

-----------------------------------------------------------------------------
(* What the loop has compared is what EmitKeepsOutput asks for: everything   *)
(* not yet handed over from a side is at least the item held from it.        *)
LEMMA RestAboveHeld ==
    ASSUME StateInv
    PROVE  /\ kl # None => /\ done1 = n1 - 1
                           /\ \A x \in n1..Len(it1) : kl <= Key(it1[x])
           /\ kl = None => done1 = n1
           /\ kr # None => /\ done2 = n2 - 1
                           /\ \A y \in n2..Len(it2) : kr <= Key(it2[y])
           /\ kr = None => done2 = n2
<1>1. /\ Sorted(it1) /\ Sorted(it2)
      /\ n1 \in 0..Len(it1) /\ n2 \in 0..Len(it2)
      /\ kl # None => n1 >= 1 /\ kl = Key(it1[n1])
      /\ kr # None => n2 >= 1 /\ kr = Key(it2[n2])
  BY DEF StateInv, TypeOK, HeldInv
<1>2. /\ Len(it1) \in Nat /\ Len(it2) \in Nat
      /\ \A x \in 1..Len(it1) : Key(it1[x]) \in Nat
      /\ \A y \in 1..Len(it2) : Key(it2[y]) \in Nat
  BY KeysAreNatural DEF StateInv
<1>3. kl # None => \A x \in n1..Len(it1) : kl <= Key(it1[x])
  BY <1>1, <1>2 DEF Sorted
<1>4. kr # None => \A y \in n2..Len(it2) : kr <= Key(it2[y])
  BY <1>1, <1>2 DEF Sorted
<1> QED
  BY <1>3, <1>4 DEF done1, done2

(* A step that yields nothing moves no item from one side of the line to the *)
(* other.                                                                    *)
LEMMA SilentKeepsOutput ==
    ASSUME IInv, UNCHANGED inputs, out' = out, done1' = done1, done2' = done2
    PROVE  OutInv'
<1>1. it1' = it1 /\ it2' = it2
  BY DEF inputs
<1>2. \A p : KeyOf(p)' = KeyOf(p)
  BY <1>1 DEF KeyOf
<1> QED
  BY <1>1, <1>2 DEF IInv, OutInv, HandedOver, PairsAgree, NoLostMatch, LoneBelow,
                    Frontier, OutputSorted

(* One step of the generator keeps the output right: every action either is  *)
(* silent or emits a pair that meets the conditions of EmitKeepsOutput.      *)
LEMMA OutInvStep ==
    ASSUME IInv, Next, StateInv'
    PROVE  OutInv'
<1>1. UNCHANGED inputs /\ StateInv
  BY DEF Next, IInv
<1>2. it1' = it1 /\ it2' = it2
  BY <1>1 DEF inputs
<1>3. /\ Len(it1) \in Nat /\ Len(it2) \in Nat
      /\ \A x \in 1..Len(it1) : Key(it1[x]) \in Nat
      /\ \A y \in 1..Len(it2) : Key(it2[y]) \in Nat
  BY <1>1, KeysAreNatural DEF StateInv
<1>4. /\ n1 \in 0..Len(it1) /\ n2 \in 0..Len(it2)
      /\ kl # None => n1 >= 1 /\ kl = Key(it1[n1])
      /\ kr # None => n2 >= 1 /\ kr = Key(it2[n2])
      /\ gen # "loop" => kl = None /\ kr = None
      /\ kl \in Nat \cup {None} /\ kr \in Nat \cup {None}
      /\ TailInv
  BY <1>1 DEF StateInv, TypeOK, HeldInv
<1>5. /\ kl # None => /\ done1 = n1 - 1
                      /\ \A x \in n1..Len(it1) : kl <= Key(it1[x])
      /\ kl = None => done1 = n1
      /\ kr # None => /\ done2 = n2 - 1
                      /\ \A y \in n2..Len(it2) : kr <= Key(it2[y])
      /\ kr = None => done2 = n2
  BY <1>1, RestAboveHeld
<1>6. /\ kl' # None => done1' = n1' - 1
      /\ kl' = None => done1' = n1'
      /\ kr' # None => done2' = n2' - 1
      /\ kr' = None => done2' = n2'
  BY DEF done1, done2
<1>7. n1 \in Nat /\ n2 \in Nat
  BY <1>3, <1>4
<1>8. \A x \in 1..Len(it1) : Key(it1[x]) # None
  BY <1>3 DEF None
<1>9. \A y \in 1..Len(it2) : Key(it2[y]) # None
  BY <1>3 DEF None
<1>10. CASE PullRight
  <2>1. kr' # None /\ n2' = n2 + 1 /\ kr = None /\ kl' = kl /\ n1' = n1 /\ out' = out
    BY <1>10, <1>3, <1>7, <1>9 DEF PullRight
  <2>2. done1' = done1 /\ done2' = done2
    BY <2>1, <1>5, <1>6, <1>7
  <2> QED
    BY <2>1, <2>2, <1>1, SilentKeepsOutput
<1>11. CASE PullLeft
  <2>1. kl' # None /\ n1' = n1 + 1 /\ kl = None /\ kr' = kr /\ n2' = n2 /\ out' = out
    BY <1>11, <1>3, <1>7, <1>8 DEF PullLeft
  <2>2. done1' = done1 /\ done2' = done2
    BY <2>1, <1>5, <1>6, <1>7
  <2> QED
    BY <2>1, <2>2, <1>1, SilentKeepsOutput
<1>12. CASE Return
  <2>1. kl' = kl /\ kr' = kr /\ n1' = n1 /\ n2' = n2 /\ out' = out
    BY <1>12 DEF Return
  <2>2. done1' = done1 /\ done2' = done2
    BY <2>1 DEF done1, done2
  <2> QED
    BY <2>1, <2>2, <1>1, SilentKeepsOutput
<1>13. CASE RightExhausted
  <2>1. /\ kr = None /\ n2 = Len(it2) /\ kl' = None /\ kr' = kr /\ n1' = n1 /\ n2' = n2
        /\ IF kl # None THEN Yield(n1, 0) ELSE out' = out
    BY <1>13 DEF RightExhausted
  <2>2. CASE kl = None
    <3>1. done1' = done1 /\ done2' = done2 /\ out' = out
      BY <2>1, <2>2, <1>5, <1>6
    <3> QED
      BY <3>1, <1>1, SilentKeepsOutput
  <2>3. CASE kl # None
    <3>1. /\ done1 = n1 - 1 /\ done2 = n2 /\ done1' = n1 /\ done2' = done2
          /\ n1 # 0 /\ n1 <= Len(it1)
          /\ Yield(n1, 0)
          /\ (done2 + 1)..Len(it2) = {}
      BY <2>1, <2>3, <1>3, <1>4, <1>5, <1>6, <1>7
    <3> QED
      BY <3>1, <1>1, <1>7, EmitKeepsOutput
  <2> QED
    BY <2>2, <2>3
<1>14. CASE LeftExhausted
  <2>1. /\ kr # None /\ kl = None /\ n1 = Len(it1)
        /\ kr' = None /\ kl' = kl /\ n1' = n1 /\ n2' = n2
        /\ Yield(0, n2)
    BY <1>14 DEF LeftExhausted
  <2>2. /\ done1 = n1 /\ done2 = n2 - 1 /\ done1' = done1 /\ done2' = n2
        /\ n2 # 0 /\ n2 <= Len(it2)
        /\ (done1 + 1)..Len(it1) = {}
    BY <2>1, <1>3, <1>4, <1>5, <1>6, <1>7
  <2> QED
    BY <2>1, <2>2, <1>1, <1>7, EmitKeepsOutput
<1>15. CASE YieldBoth
  <2>1. /\ kl # None /\ kr # None /\ kl = kr
        /\ kl' = None /\ kr' = None /\ n1' = n1 /\ n2' = n2
        /\ Yield(n1, n2)
    BY <1>15 DEF YieldBoth, Holding
  <2>2. /\ done1 = n1 - 1 /\ done2 = n2 - 1 /\ done1' = n1 /\ done2' = n2
        /\ n1 # 0 /\ n1 <= Len(it1) /\ n2 # 0 /\ n2 <= Len(it2)
        /\ Key(it1[n1]) = Key(it2[n2])
    BY <2>1, <1>3, <1>4, <1>5, <1>6, <1>7
  <2> QED
    BY <2>1, <2>2, <1>1, <1>7, EmitKeepsOutput
<1>16. CASE YieldLeft
  <2>1. /\ kl # None /\ kr # None /\ kl < kr
        /\ kl' = None /\ kr' = kr /\ n1' = n1 /\ n2' = n2
        /\ Yield(n1, 0)
    BY <1>16 DEF YieldLeft, Holding
  <2>2. /\ done1 = n1 - 1 /\ done2 = n2 - 1 /\ done1' = n1 /\ done2' = done2
        /\ n1 # 0 /\ n1 <= Len(it1)
        /\ kl \in Nat /\ kr \in Nat
    BY <2>1, <1>3, <1>4, <1>5, <1>6, <1>7
  <2>3. \A y \in (done2 + 1)..Len(it2) : Key(it1[n1]) < Key(it2[y])
    <3>1. ASSUME NEW y \in (done2 + 1)..Len(it2)
          PROVE  Key(it1[n1]) < Key(it2[y])
      <4>1. y \in n2..Len(it2) /\ y \in 1..Len(it2)
        BY <2>1, <2>2, <1>3, <1>4, <1>7
      <4>2. kr <= Key(it2[y]) /\ Key(it2[y]) \in Nat /\ kl = Key(it1[n1])
        BY <4>1, <2>1, <1>3, <1>4, <1>5
      <4> QED
        BY <4>2, <2>1, <2>2
    <3> QED
      BY <3>1
  <2>4. /\ n1 \in Nat /\ 0 \in Nat /\ n1 # 0 /\ n1 = done1 + 1 /\ n1 <= Len(it1)
        /\ done1' = n1 /\ done2' = done2 /\ Yield(n1, 0)
    BY <2>1, <2>2, <1>7
  <2> QED
    BY <2>3, <2>4, <1>1, EmitKeepsOutput
<1>17. CASE YieldRight
  <2>1. /\ kl # None /\ kr # None /\ kr < kl
        /\ kr' = None /\ kl' = kl /\ n1' = n1 /\ n2' = n2
        /\ Yield(0, n2)
    BY <1>17, <1>4 DEF YieldRight, Holding, None
  <2>2. /\ done1 = n1 - 1 /\ done2 = n2 - 1 /\ done1' = done1 /\ done2' = n2
        /\ n2 # 0 /\ n2 <= Len(it2)
        /\ kl \in Nat /\ kr \in Nat
    BY <2>1, <1>3, <1>4, <1>5, <1>6, <1>7
  <2>3. \A x \in (done1 + 1)..Len(it1) : Key(it2[n2]) < Key(it1[x])
    <3>1. ASSUME NEW x \in (done1 + 1)..Len(it1)
          PROVE  Key(it2[n2]) < Key(it1[x])
      <4>1. x \in n1..Len(it1) /\ x \in 1..Len(it1)
        BY <2>1, <2>2, <1>3, <1>4, <1>7
      <4>2. kl <= Key(it1[x]) /\ Key(it1[x]) \in Nat /\ kr = Key(it2[n2])
        BY <4>1, <2>1, <1>3, <1>4, <1>5
      <4> QED
        BY <4>2, <2>1, <2>2
    <3> QED
      BY <3>1
  <2> QED
    BY <2>1, <2>2, <2>3, <1>1, <1>7, EmitKeepsOutput
<1>18. CASE DrainLeft
  <2>1. /\ gen # "loop" /\ gen = "rest_of_it1" /\ n1 < Len(it1)
        /\ n1' = n1 + 1 /\ n2' = n2 /\ kl' = kl /\ kr' = kr
    BY <1>18 DEF DrainLeft
  <2>2. Yield(n1 + 1, 0)
    BY <1>18, Zenon DEF DrainLeft
  <2>3. n2 = Len(it2) /\ kl = None /\ kr = None
    BY <2>1, <1>4 DEF TailInv
  <2>4. PICK a \in Nat : a = n1 + 1
    BY <1>7
  <2>5. done1 = n1 /\ done2 = n2 /\ done1' = a /\ done2' = done2
    BY <2>1, <2>3, <2>4, <1>5, <1>6
  <2>7. a # 0 /\ a <= Len(it1) /\ a = done1 + 1
    <3>1. n1 < Len(it1) /\ a = n1 + 1 /\ done1 = n1
      BY <2>1, <2>4, <2>5
    <3> QED
      BY <3>1, <1>3, <1>7
  <2>8. (done2 + 1)..Len(it2) = {}
    BY <2>3, <2>5, <1>3
  <2>6. Yield(a, 0)
    BY <2>2, <2>4
  <2> QED
    BY <2>5, <2>6, <2>7, <2>8, <1>1, EmitKeepsOutput
<1>19. CASE DrainRight
  <2>1. /\ gen # "loop" /\ gen = "rest_of_it2" /\ n2 < Len(it2)
        /\ n2' = n2 + 1 /\ n1' = n1 /\ kl' = kl /\ kr' = kr
    BY <1>19 DEF DrainRight
  <2>2. Yield(0, n2 + 1)
    BY <1>19, Zenon DEF DrainRight
  <2>3. n1 = Len(it1) /\ kl = None /\ kr = None
    BY <2>1, <1>4 DEF TailInv
  <2>4. PICK b \in Nat : b = n2 + 1
    BY <1>7
  <2>5. done1 = n1 /\ done2 = n2 /\ done1' = done1 /\ done2' = b
    BY <2>1, <2>3, <2>4, <1>5, <1>6
  <2>7. b # 0 /\ b <= Len(it2) /\ b = done2 + 1
    <3>1. n2 < Len(it2) /\ b = n2 + 1 /\ done2 = n2
      BY <2>1, <2>4, <2>5
    <3> QED
      BY <3>1, <1>3, <1>7
  <2>8. (done1 + 1)..Len(it1) = {}
    BY <2>3, <2>5, <1>3
  <2>6. Yield(0, b)
    BY <2>2, <2>4
  <2> QED
    BY <2>5, <2>6, <2>7, <2>8, <1>1, EmitKeepsOutput
<1> QED
  BY <1>10, <1>11, <1>12, <1>13, <1>14, <1>15, <1>16, <1>17, <1>18, <1>19
     DEF Next, Generate, Loop, Match, Tails

-----------------------------------------------------------------------------
LEMMA StartIInv ==
    Keyed(it1) /\ Keyed(it2) /\ Sorted(it1) /\ Sorted(it2) /\ GenInit => IInv
<1> SUFFICES ASSUME Keyed(it1), Keyed(it2), Sorted(it1), Sorted(it2), GenInit
             PROVE  IInv
  OBVIOUS
<1>1. Keyed(it1) /\ Keyed(it2) /\ Sorted(it1) /\ Sorted(it2)
  OBVIOUS
<1>2. n1 = 0 /\ n2 = 0 /\ kl = None /\ kr = None /\ gen = "loop" /\ out = <<>>
  BY DEF GenInit
<1>3. Len(it1) \in Nat /\ Len(it2) \in Nat /\ Len(out) = 0 /\ out \in Seq([l : Nat, r : Nat])
  BY <1>1, <1>2 DEF Keyed
<1>4. StateInv
  BY <1>1, <1>2, <1>3 DEF StateInv, TypeOK, HeldInv, TailInv
<1>5. done1 = 0 /\ done2 = 0
  BY <1>2 DEF done1, done2
<1>6. OutInv
  BY <1>3, <1>5 DEF OutInv, HandedOver, PairsAgree, NoLostMatch, LoneBelow, Frontier,
                    OutputSorted
<1> QED
  BY <1>4, <1>6 DEF IInv

(* IInv is inductive, so it holds throughout every run of the generator.     *)
LEMMA IInvStep == ASSUME IInv, [Next]_vars PROVE IInv'
<1>1. CASE Next
  BY <1>1, StateInvStep, OutInvStep DEF IInv
<1>2. CASE UNCHANGED vars
  <2>1. /\ it1' = it1 /\ it2' = it2 /\ n1' = n1 /\ n2' = n2
        /\ kl' = kl /\ kr' = kr /\ gen' = gen /\ out' = out
    BY <1>2 DEF vars
  <2>2. StateInv'
    BY <2>1 DEF IInv, StateInv, TypeOK, HeldInv, TailInv, Sorted
  <2>3. done1' = done1 /\ done2' = done2
    BY <2>1 DEF done1, done2
  <2>4. OutInv'
    BY <2>1, <2>3, SilentKeepsOutput DEF inputs
  <2> QED
    BY <2>2, <2>4 DEF IInv
<1> QED
  BY <1>1, <1>2

THEOREM Invariance == Spec => []IInv
<1>1. Init => IInv
  BY StartIInv, InputsAssumption DEF Init
<1>2. IInv /\ [Next]_vars => IInv'
  BY IInvStep
<1> QED
  BY <1>1, <1>2, PTL DEF Spec

(* Once the generator has returned, every item has been yielded once.        *)
LEMMA AllHandedOver == IInv => NothingDropped
<1> SUFFICES ASSUME IInv, gen = "returned"
             PROVE  /\ \A x \in 1..Len(it1) : \E k \in 1..Len(out) :
                          out[k].l = x /\ \A m \in 1..Len(out) : out[m].l = x => m = k
                    /\ \A y \in 1..Len(it2) : \E k \in 1..Len(out) :
                          out[k].r = y /\ \A m \in 1..Len(out) : out[m].r = y => m = k
  BY DEF NothingDropped
<1>1. n1 = Len(it1) /\ n2 = Len(it2) /\ kl = None /\ kr = None
  BY DEF IInv, StateInv, TailInv, HeldInv
<1>2. done1 = Len(it1) /\ done2 = Len(it2)
  BY <1>1 DEF done1, done2
<1>3. /\ \A x \in 1..Len(it1) : \E k \in 1..Len(out) : out[k].l = x
      /\ \A y \in 1..Len(it2) : \E k \in 1..Len(out) : out[k].r = y
      /\ \A k, m \in 1..Len(out) :
            /\ out[k].l # 0 /\ out[k].l = out[m].l => k = m
            /\ out[k].r # 0 /\ out[k].r = out[m].r => k = m
  BY <1>2 DEF IInv, OutInv, HandedOver
<1>4. (\A x \in 1..Len(it1) : x # 0) /\ (\A y \in 1..Len(it2) : y # 0)
  OBVIOUS
<1>5. ASSUME NEW x \in 1..Len(it1)
      PROVE  \E k \in 1..Len(out) :
                out[k].l = x /\ \A m \in 1..Len(out) : out[m].l = x => m = k
  <2>1. PICK k \in 1..Len(out) : out[k].l = x
    BY <1>3
  <2> QED
    BY <2>1, <1>3, <1>4
<1>6. ASSUME NEW y \in 1..Len(it2)
      PROVE  \E k \in 1..Len(out) :
                out[k].r = y /\ \A m \in 1..Len(out) : out[m].r = y => m = k
  <2>1. PICK k \in 1..Len(out) : out[k].r = y
    BY <1>3
  <2> QED
    BY <2>1, <1>3, <1>4
<1> QED
  BY <1>5, <1>6

(* The generator's variables keep their types for every input. *)
THEOREM TypeCorrect == Spec => []TypeOK
<1>1. IInv => TypeOK
  BY DEF IInv, StateInv
<1> QED
  BY <1>1, Invariance, PTL

(* Two-sided pairs have equal keys, whatever the sorted inputs. *)
THEOREM YieldsMatchingPairs == Spec => []PairsAgree
<1>1. IInv => PairsAgree
  BY DEF IInv, OutInv
<1> QED
  BY <1>1, Invariance, PTL

(* No two items that could have been paired are ever both yielded alone.     *)
THEOREM LosesNoMatch == Spec => []NoLostMatch
<1>1. IInv => NoLostMatch
  BY DEF IInv, OutInv
<1> QED
  BY <1>1, Invariance, PTL

(* The pairs come out in the order of their keys. *)
THEOREM YieldsInOrder == Spec => []OutputSorted
<1>1. IInv => OutputSorted
  BY DEF IInv, OutInv
<1> QED
  BY <1>1, Invariance, PTL

(* Once the generator has returned, every item of both inputs has been       *)
(* yielded exactly once.                                                     *)
THEOREM DropsNothing == Spec => []NothingDropped
<1>1. IInv => NothingDropped
  BY AllHandedOver
<1> QED
  BY <1>1, Invariance, PTL
=============================================================================
