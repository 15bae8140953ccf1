---- MODULE ListOrder ----
(* What the list half of the IoT benchmark computes (examples/IoTBench):     *)
(* every iteration searches the list, sorts it by data and sorts it back by  *)
(* idx.  The list is the sequence of its nodes, and a sort is one step to    *)
(* the one sequence that has the same nodes, ordered, ties left as they were.*)
EXTENDS Integers, Sequences

CONSTANT Less(_, _)     \* the order of data

VARIABLES
    data, key,  \* the data of each node, and the data searched for
    order,      \* the nodes from the head; a node is the idx of its info
    result,     \* what list_search_all has found
    phase       \* what main does next: "search", "data", "idx", "done"

vars == <<data, key, order, result, phase>>

Matches(n) == ~Less(data[n], key) /\ ~Less(key, data[n])

DataBefore(m, n) == Less(data[m], data[n])
IdxBefore(m, n) == m < n

(* Where n is in s. *)
At(s, n) == CHOOSE j \in DOMAIN s : s[j] = n

(* t is s sorted by Before, and ties keep their order. *)
StableSort(s, t, Before(_, _)) ==
    /\ Len(t) = Len(s)
    /\ {t[j] : j \in DOMAIN t} = {s[j] : j \in DOMAIN s}
    /\ \A j, k \in DOMAIN t : j < k =>
          \/ Before(t[j], t[k])
          \/ ~Before(t[k], t[j]) /\ At(s, t[j]) < At(s, t[k])

(* result becomes what matches, in the order of the list. *)
Search ==
    /\ phase = "search"
    /\ LET found == {n \in {order[j] : j \in DOMAIN order} : Matches(n)}
       IN  /\ result' \in Seq(found)
           /\ found = {result'[j] : j \in DOMAIN result'}
           /\ \A j, k \in DOMAIN result' : j < k => At(order, result'[j]) < At(order, result'[k])
    /\ phase' = "data"
    /\ UNCHANGED <<data, key, order>>

SortData ==
    /\ phase = "data"
    /\ phase' = "idx"
    /\ StableSort(order, order', DataBefore)
    /\ UNCHANGED <<data, key, result>>

SortIdx ==
    /\ phase = "idx"
    /\ \/ phase' = "search" /\ result' = <<>>
       \/ phase' = "done" /\ UNCHANGED result
    /\ StableSort(order, order', IdxBefore)
    /\ UNCHANGED <<data, key>>

Init == result = <<>> /\ phase = "search"
Next == Search \/ SortData \/ SortIdx
Spec == Init /\ [][Next]_vars
====
