---- MODULE Programs ----
(* A process that runs one of the example programs.  Those without the C     *)
(* library start in their own text (MinPrograms); the others start in crt0   *)
(* (Boot), and their main is that of question.c (Console), of min_libc.c, or *)
(* of min_libc_constructors.c.                                               *)
EXTENDS Boot, Console, MinPrograms

CONSTANTS
    Setups,     \* records [program, lay, init, input, broken, place]
    Fates       \* how a process may end once its stack is overwritten

vars == <<bootVars, conVars, rawVars>>

RawPrograms == {"min", "min_got", "min_got_harder", "min_plt"}

(* STATIC_VAR is the first variable in min_libc_constructors.c's data; foo   *)
(* is the one function of the program that stores to it before main.         *)
foo == [at |-> 0, value |-> "42"]
STATIC_VAR == IF mem[0] = "42" THEN 42 ELSE 1
Constructed ==
    \E k \in DOMAIN InitArray :
        InitArray[k] = foo /\ \A j \in DOMAIN InitArray \ {k} : InitArray[j].at # foo.at

(* No part of the machine of MinPrograms is in use. *)
RawIdle ==
    /\ eager = FALSE /\ payload \in (IF program = "min_libc" THEN BOOLEAN ELSE {FALSE})
    /\ regs = <<>> /\ words = <<>> /\ stack = <<>> /\ zf = FALSE
    /\ ip = place.text /\ code = -1

Init ==
    /\ \E s \in Setups :
            /\ program = s.program /\ lay = s.lay /\ InitArray = s.init
            /\ typed = s.input /\ broken = s.broken /\ place = s.place
    /\ BootInit /\ ConsoleInit
    /\ IF program \in RawPrograms THEN RawInit ELSE RawIdle
    /\ program # "question" => impl = "console"
    /\ program = "min_libc_constructors" => Constructed

RunRaw == program \in RawPrograms /\ RawNext /\ UNCHANGED <<bootVars, conVars>>

RunCrt0 ==
    /\ program \notin RawPrograms /\ BootNext
    /\ UNCHANGED <<conVars, rawVars>>

RunMain ==
    /\ program = "question" /\ at = "main" /\ ConsoleNext
    /\ UNCHANGED <<bootVars, rawVars>>

(* main returns.  return0.bin may be in the place of min_libc's.             *)
Return ==
    /\ \/ program = "question" /\ pc = "exit" /\ Exit(status)
       \/ program = "min_libc" /\ Exit(IF payload THEN 0 ELSE 42)
       \/ program = "min_libc_constructors" /\ Exit(STATIC_VAR)
    /\ UNCHANGED <<conVars, rawVars>>

Run == RunRaw \/ RunCrt0 \/ RunMain \/ Return

(* With its frame overwritten main may return anything, fault, or never end: *)
(* nothing obliges this step to happen.                                      *)
Astray ==
    /\ program = "question" /\ pc = "overrun"
    /\ \E fate \in Fates : Exit(fate)
    /\ UNCHANGED <<conVars, rawVars>>

Next == Run \/ Astray

Spec == Init /\ [][Next]_vars /\ WF_vars(Run)

-----------------------------------------------------------------------------
(* question.c reads no more than its buffer has room for. *)
Bounded == program = "question" /\ impl = "console" => Fits

(* The exit status is the one that the sources and the tests of the          *)
(* repository promise, unmodified and with a payload (tests/0a, 0b and 0c),  *)
(* wherever things are linked and whatever the loader leaves in memory.  For *)
(* question.c, whose status depends on a line, the line has to fit; it is    *)
(* the only way to leave main's own two statuses.                            *)
ExitsAsWritten ==
    /\ program \in RawPrograms => ExitAsWritten
    /\ at = "exit" /\ Bounded =>
        /\ program = "min_libc" => ret = IF payload THEN 0 ELSE 42
        /\ program = "min_libc_constructors" => ret = 42
        /\ program = "question" => ret \in {0, 42}
        /\ program = "question" /\ impl = "console" /\ Complete =>
              ret = IF SameLetters(String(Typed), Name) THEN 0 ELSE 42

(* Every program ends, whether or not it can write, and question.c if the    *)
(* line it reads ends in its buffer.                                         *)
Ends == Bounded => <>(at = "exit" \/ ip = Halt)
====
