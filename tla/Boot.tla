---- MODULE Boot ----
(* How a program linked with picolibc gets from its ELF file to main and     *)
(* back: the layout of RAM that picolibc.ld fixes, the loader, and crt0.c.   *)
(*                                                                           *)
(* Addresses count from the origin of RAM.  A byte of memory is known by     *)
(* what was last written to it: "file" for the byte the ELF file has for     *)
(* it, "zero", "junk" for what is left in a page, or a function's value.     *)
EXTENDS Integers, Sequences

CONSTANTS
    Layouts,    \* sizes and alignments of a program's sections
    RamLength,  \* of the linker script's ram region, 40K
    StackSize,  \* __stack_size, 4K
    InitArrays  \* what __libc_init_array may have to call: sequences of
                \* functions [at, value], which store value at address at

VARIABLES
    lay,        \* the program's layout
    InitArray,  \* its initialisation functions, in the order of the tables
    mem,        \* contents of RAM
    called,     \* functions of InitArray that have been called
    at,         \* how far __start has come
    ret         \* exit status

bootVars == <<lay, InitArray, mem, called, at, ret>>

Layout == [data : Nat, tdata : Nat, tbss : Nat, bss : Nat, heap_min : Nat,
           tdataAlign : Nat \ {0}, tbssAlign : Nat \ {0}, bssAlign : Nat \ {0}]

ASSUME LayoutsAssumption == Layouts \subseteq Layout
ASSUME RamAssumption == RamLength \in Nat /\ StackSize \in Nat \ {0}
ASSUME InitArraysAssumption ==
    \A f \in InitArrays : f \in Seq([at : Nat, value : STRING])

-----------------------------------------------------------------------------
(* The linker script.  RAM starts with .data, at an address of any           *)
(* alignment; no program has data to preserve across resets.                 *)
Align(x, a) == x + ((a - (x % a)) % a)
Larger(a, b) == IF a > b THEN a ELSE b

Tdata(l) == Align(Align(l.data, 8), Larger(l.tdataAlign, l.tbssAlign))
__data_end(l) == Tdata(l) + l.tdata
Tbss(l) == Align(__data_end(l), l.tbssAlign)
Bss(l) == Align(Tbss(l) + l.tbss, l.bssAlign)
__bss_end(l) == Align(Bss(l) + l.bss, 8)

(* Mutant: only the section .bss is cleared. *)
BssStartLate(l) == Bss(l)

__bss_start(l) == Tbss(l)

__stack == RamLength
__heap_size(l) == (__stack - StackSize) - __bss_end(l)

(* Mutant: the line that build-picolibc adds to the script is missing. *)
StackSectionUnpatched(l) == __bss_end(l) + l.heap_min + StackSize

(* The end of .stack, and of what the loader maps: build-picolibc has put a  *)
(* line into the script that makes it reach over the heap to __stack.        *)
StackSectionEnd(l) ==
    __bss_end(l) + l.heap_min + (__heap_size(l) - l.heap_min) + StackSize

(* The program links: no section moves backwards. *)
Links(l) == __heap_size(l) >= l.heap_min

Ram == 0..(RamLength - 1)
InFile(l) == 0..(l.data - 1) \cup Tdata(l)..(__data_end(l) - 1)
Zeroed(l) == Tbss(l)..(Tbss(l) + l.tbss - 1) \cup Bss(l)..(Bss(l) + l.bss - 1)
Mapped(l) == 0..(StackSectionEnd(l) - 1)

-----------------------------------------------------------------------------
(* The loader copies what the file has and zeroes whole pages only: behind   *)
(* the data, in the page of its end, lies more of the file.                  *)
BootInit ==
    /\ lay \in Layouts /\ Links(lay)
    /\ InitArray \in InitArrays
    /\ \A k \in DOMAIN InitArray : InitArray[k].at \in InFile(lay) \cup Zeroed(lay)
    /\ \E rest \in {"zero", "junk"} :
            mem = [a \in Ram |-> IF a \in InFile(lay) THEN "file" ELSE rest]
    /\ called = 0 /\ at = "_start" /\ ret = -1

(* Calls and saved registers go to the end of RAM; a page that is not        *)
(* mapped ends the program.                                                  *)
Push == IF RamLength - 1 \in Mapped(lay)
        THEN mem' = [mem EXCEPT ![RamLength - 1] = "frame"]
        ELSE UNCHANGED mem

_start ==
    /\ at = "_start" /\ Push
    /\ at' = IF RamLength - 1 \in Mapped(lay) THEN "clear" ELSE "fault"
    /\ UNCHANGED <<lay, InitArray, called, ret>>

(* memset(__bss_start, 0, __bss_size); the memcpy of the data before it is   *)
(* commented out, because the loader has done it.                            *)
Clear ==
    /\ at = "clear"
    /\ mem' = [a \in Ram |-> IF a >= __bss_start(lay) /\ a < __bss_end(lay)
                             THEN "zero" ELSE mem[a]]
    /\ at' = "init"
    /\ UNCHANGED <<lay, InitArray, called, ret>>

(* __libc_init_array calls the functions of its tables, one after the other. *)
CallInit ==
    /\ at = "init" /\ called < Len(InitArray)
    /\ called' = called + 1
    /\ mem' = [mem EXCEPT ![InitArray[called'].at] = InitArray[called'].value]
    /\ UNCHANGED <<lay, InitArray, at, ret>>

CallMain ==
    /\ at = "init" /\ called = Len(InitArray)
    /\ at' = "main"
    /\ UNCHANGED <<lay, InitArray, mem, called, ret>>

(* main returns status to __start, which calls exit with it.                 *)
Exit(status) ==
    /\ at = "main"
    /\ at' = "exit" /\ ret' = status
    /\ UNCHANGED <<lay, InitArray, mem, called>>

BootNext == _start \/ Clear \/ CallInit \/ CallMain

(* The boot of a program whose main may return anything. *)
BootStep == BootNext \/ \E s : Exit(s)
BootSpec == BootInit /\ [][BootStep]_bootVars

-----------------------------------------------------------------------------
(* What the C program reads at address a after n initialisation functions:   *)
(* what the last of them stored there, or else its initialiser.              *)
After(a, n) ==
    LET stores == {k \in 1..n : InitArray[k].at = a}
    IN  IF stores # {} THEN InitArray[CHOOSE k \in stores : \A j \in stores : j <= k].value
        ELSE IF a \in InFile(lay) THEN "file" ELSE "zero"

(* main starts on the C program's memory: every variable with an initialiser *)
(* has it although crt0 copies nothing, every other one is zero although the *)
(* loader leaves the rest of a page as it is, and what the initialisation    *)
(* functions store survives, since clearing comes before them (crt0.c:103).  *)
ImageAtMain ==
    at = "main" =>
        \A a \in InFile(lay) \cup Zeroed(lay) : mem[a] = After(a, Len(InitArray))

(* The stack pointer that _start sets is the end of mapped memory, and the   *)
(* stack is behind all variables and the heap's least size.                  *)
StackIsMapped ==
    /\ at # "fault"
    /\ \A a \in Ram : a >= RamLength - StackSize =>
            a \in Mapped(lay) /\ a \notin InFile(lay) \cup Zeroed(lay)
====
