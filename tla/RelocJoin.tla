---- MODULE RelocJoin ----
(* What compare_relocations promises, without sorting, iterators or pairs:   *)
(* once the relocations of both files are known, take the addresses either   *)
(* file relocates, least first, and count each once according to what the    *)
(* two files say of it.                                                      *)
EXTENDS Integers, FiniteSetsExt

CONSTANTS
    Agrees(_, _),       \* whether a prediction is as good as the truth
    Relative(_)         \* the entries of the truth that are not scored

VARIABLES
    truth, pred,        \* the relocations of the two files
    todo,               \* addresses not counted yet
    match, false_positive, false_negative, mismatch,
    verdict             \* "reading", then "none" until the comparison ends

counters == <<match, false_positive, false_negative, mismatch>>
vars == <<truth, pred, todo, counters, verdict>>

Addresses(rels) == {t.vaddr : t \in rels}
At(rels, a) == CHOOSE t \in rels : t.vaddr = a

Init ==
    /\ todo = {}
    /\ match = 0 /\ false_positive = 0 /\ false_negative = 0 /\ mismatch = 0
    /\ verdict = "reading"

(* The second file turns out to have the relocations pred'. *)
Receive ==
    /\ verdict = "reading"
    /\ todo' = Addresses(truth \cup pred')
    /\ verdict' = "none"
    /\ UNCHANGED <<truth, counters>>

Bump(c, cond) == c' = IF cond THEN c + 1 ELSE c

CountAddress ==
    /\ verdict = "none" /\ todo # {}
    /\ LET a      == Min(todo)
           inT    == a \in Addresses(truth)
           inP    == a \in Addresses(pred)
           scored == inT /\ ~Relative(At(truth, a))
           good   == scored /\ inP /\ Agrees(At(truth, a), At(pred, a))
       IN  /\ todo' = todo \ {a}
           /\ Bump(false_positive, ~inT)
           /\ Bump(false_negative, scored /\ ~inP)
           /\ Bump(match, good)
           /\ Bump(mismatch, scored /\ inP /\ ~good)
    /\ UNCHANGED <<truth, pred, verdict>>

(* A file that cannot be read, or one with two relocations for an address,   *)
(* is not compared at all.                                                   *)
Reject ==
    /\ \/ verdict = "reading"
       \/ verdict = "none" /\ todo = Addresses(truth \cup pred)
    /\ verdict' = "rejected"
    /\ UNCHANGED <<truth, pred, todo, counters>>

Conclude ==
    /\ verdict = "none" /\ todo = {}
    /\ verdict' = IF match + false_positive + false_negative + mismatch = 0
                  THEN "undefined" ELSE "scored"
    /\ UNCHANGED <<truth, pred, todo, counters>>

Next == Receive \/ CountAddress \/ Reject \/ Conclude

Spec == Init /\ [][Next]_vars /\ WF_vars(CountAddress \/ Conclude)
====
