---- MODULE MCPrograms ----
(* Layouts with and without each kind of section, and alignments up to 16;   *)
(* inputs of up to MaxTyped chars, lines at the limit of the buffer, and     *)
(* broken consoles; three placements of text, data and table.                *)
EXTENDS Programs

CONSTANT MaxTyped

Heisenberg == <<72, 101, 105, 115, 101, 110, 98, 101, 114, 103>>
HEISENBERG == [j \in DOMAIN Heisenberg |-> IF j = 1 THEN 72 ELSE Heisenberg[j] - 32]

MCLayouts ==
    [data : {1, 9}, tdata : {0, 3}, tbss : {0, 5}, bss : {0, 9}, heap_min : {0, 8},
     tdataAlign : {1, 4}, tbssAlign : {1, 16}, bssAlign : {1, 4}]
OneLayout ==
    CHOOSE l \in MCLayouts :
        l.data = 9 /\ l.tdata = 3 /\ l.tbss = 5 /\ l.bss = 9 /\ l.heap_min = 0 /\ Links(l)

Store(a, v) == [at |-> a, value |-> v]
MCInitArrays ==
    {<<>>, <<foo>>, <<Store(1, "a"), foo>>, <<foo, Store(16, "a")>>,
     <<Store(0, "a"), Store(0, "b")>>, <<Store(24, "a"), Store(25, "b"), Store(24, "c")>>}

(* A letter, the end of a line, a NUL, a byte from 0x80, a failing read.     *)
Typeable == {120, 10, 0, -1, Error}
MCInputs ==
    UNION {[1..n -> Typeable] : n \in 0..MaxTyped} \cup
    {name \o rest : name \in {Heisenberg, HEISENBERG},
                    rest \in UNION {[1..n -> Typeable] : n \in 0..2}} \cup
    {[Heisenberg EXCEPT ![j] = c] \o <<10>> : j \in {1, 10}, c \in Typeable} \cup
    {[j \in 1..(n + 1) |-> IF j <= n THEN 120 ELSE 10] : n \in (BufSize - 1)..(BufSize + 1)}
MCBroken == {<<>>, <<0>>, <<120, 10>>, Heisenberg, Heisenberg \o <<10>>}
MCChars == {-1, 10, 120}
MCTails == {<<0>>, <<120, 0>>}
MCFates == {0, 42, -11}

MCPlacements ==
    {[text |-> 100, rodata |-> 200, got |-> 300], [text |-> 300, rodata |-> 200, got |-> 100],
     [text |-> 1000, rodata |-> 60, got |-> 8]}
OnePlacement == CHOOSE p \in MCPlacements : TRUE

Setup(p, l, f, i, b, pl) ==
    [program |-> p, lay |-> l, init |-> f, input |-> i, broken |-> b, place |-> pl]
MCSetups ==
    {Setup("min_libc_constructors", l, f, <<>>, FALSE, OnePlacement) : l \in MCLayouts, f \in MCInitArrays}
    \cup {Setup("min_libc", OneLayout, <<>>, <<>>, FALSE, OnePlacement)}
    \cup {Setup("question", OneLayout, <<>>, i, FALSE, OnePlacement) : i \in MCInputs}
    \cup {Setup("question", OneLayout, <<>>, i, TRUE, OnePlacement) : i \in MCBroken}
    \cup {Setup(p, OneLayout, <<>>, <<>>, FALSE, pl) : p \in RawPrograms, pl \in MCPlacements}
====
