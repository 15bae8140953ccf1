---- MODULE Console ----
(* examples/question.c on the console of a program linked with picolibc:     *)
(* the program reads a line with gets, which asks fgetc of the one stream    *)
(* __stdio (stdin, stdout and stderr are the same object), which calls the   *)
(* get function of picolibc_syscalls.c, which calls _getc of _io_impl.c,     *)
(* which is a read of one byte.  Output takes the same way down to a write.  *)
(*                                                                           *)
(* The get function may also be the replacement payload of                   *)
(* mock_simulated_getc_nodata.S, which has no memory of its own and counts   *)
(* its calls in the stream's get pointer.                                    *)
(*                                                                           *)
(* A char is an integer of -128..127.  A read gives a byte, an error, or     *)
(* nothing at the end of the input; at a broken console it fails for ever    *)
(* instead of ending.                                                        *)
EXTENDS Integers, Sequences, SequencesExt

CONSTANTS
    Chars,      \* the chars an uninitialised variable may hold
    Inputs,     \* what is typed: sequences of chars and of Error
    Error,      \* a read that fails, or a write that does
    Name,       \* the answer, "Heisenberg"
    Slide,      \* length of the payload's nop slide and of its table, 128
    BufSize,    \* length of main's buf, 256
    Tails       \* what may lie behind the bytes gets has written to buf

VARIABLES
    typed, input,       \* the whole input, and what is left of it
    broken,             \* behind the input every read fails
    impl,               \* the get function: "console", or the payload ("mock")
    get,                \* how far the payload has moved the get pointer
    flags,              \* of __stdio
    pc, buf,            \* gets: the chars stored so far
    line,               \* buf as a string once gets has returned
    failed,             \* a read or a write has failed
    status              \* exit status

conVars == <<typed, input, broken, impl, get, flags, pc, buf, line, failed, status>>

EOF == -1
_FDEV_ERR == -1
_FDEV_EOF == -2
NL == 10
NUL == 0

ASSUME CharsAssumption ==
    /\ Chars \subseteq -128..127 /\ BufSize \in Nat /\ Slide \in Nat
    /\ Error \notin -128..127
    /\ \A s \in Inputs : s \in Seq(-128..127 \cup {Error})
    /\ Name \in Seq(1..127 \ {NL}) /\ Len(Name) < Slide /\ Len(Name) <= BufSize

ConsoleInit ==
    /\ typed \in Inputs /\ input = typed /\ broken \in BOOLEAN
    /\ impl \in {"console", "mock"} /\ get = 0
    /\ flags = {"SRD", "SWR"}
    /\ pc = "ask" /\ buf = <<>> /\ line = <<>>
    /\ failed = FALSE /\ status = -1

-----------------------------------------------------------------------------
ReadFails == IF input = <<>> THEN broken ELSE Head(input) = Error

(* Mutant: 0 does not count as the end, and c has not been written. *)
GetcResultsEndless ==
    IF ReadFails THEN Chars
    ELSE IF input = <<>> THEN {0}
    ELSE {Head(input)}

(* _getc: read(0, &c, 1) returns 1, 0 or a negative error number, and only 0 *)
(* counts as the end.  After an error c has not been written.                *)
GetcResults ==
    IF ReadFails THEN Chars
    ELSE IF input = <<>> THEN {EOF}
    ELSE {Head(input)}

(* Mutant: 0 is taken for the end of the input. *)
SimulatedGetcZero(c) == IF c <= 0 THEN EOF ELSE c

(* simulated_getc: every char below 0 is the end of the input.               *)
SimulatedGetc(c) == IF c < 0 THEN EOF ELSE c

(* Mutant: the payload counts from the old pointer. *)
MockGetcEarly(calls) ==
    IF calls > Len(Name) \/ calls = 0 THEN EOF ELSE Name[calls]

(* The payload's n-th call enters its slide n - 1 bytes behind the start,    *)
(* adds one to the pointer and reads the n-th byte of its table: the name    *)
(* and 0xff up to the end, sign-extended.                                    *)
MockGetc(calls) ==
    IF calls + 1 > Len(Name) THEN EOF ELSE Name[calls + 1]

(* fgetc of libc.a: a get function's value below 0 sets the error flag if it *)
(* is _FDEV_ERR and the end-of-file flag if not.                             *)
FlagsAfter(rv) ==
    IF rv >= 0 THEN flags ELSE flags \cup {IF rv = _FDEV_ERR THEN "SERR" ELSE "SEOF"}

(* gets of libc.a, one turn of its loop: a newline ends the line, and so     *)
(* does the end of the input, unless the error flag is set or nothing has    *)
(* been read: then gets returns NULL and leaves buf without its final NUL.   *)
(* A char or a NUL that would be the one behind buf's last overwrites main's *)
(* frame; what the program does then is undefined ("overrun").               *)
Turn(rv) ==
    /\ flags' = FlagsAfter(rv)
    /\ IF rv < 0 /\ ("SERR" \in flags' \/ buf = <<>>)
       THEN pc' = "echo" /\ (\E tail \in Tails : line' = buf \o tail) /\ UNCHANGED buf
       ELSE IF Len(buf) = BufSize
       THEN pc' = "overrun" /\ UNCHANGED <<buf, line>>
       ELSE IF rv < 0 \/ rv = NL
       THEN pc' = "echo" /\ line' = buf /\ UNCHANGED buf
       ELSE pc' = "gets" /\ buf' = Append(buf, rv) /\ UNCHANGED line

GetConsole ==
    /\ pc = "gets" /\ impl = "console"
    /\ \E c \in GetcResults : Turn(SimulatedGetc(c))
    /\ failed' = (failed \/ ReadFails)
    /\ input' = IF input = <<>> THEN input ELSE Tail(input)
    /\ UNCHANGED <<typed, broken, impl, get, status>>

(* The call behind the slide's last instruction reads the byte behind the    *)
(* table; the next one enters the middle of an instruction.                  *)
GetMock ==
    /\ pc = "gets" /\ impl = "mock"
    /\ IF get <= Slide
       THEN /\ get' = get + 1
            /\ \E c \in (IF get = Slide THEN Chars ELSE {MockGetc(get)}) : Turn(c)
       ELSE pc' = "overrun" /\ UNCHANGED <<get, flags, buf, line>>
    /\ UNCHANGED <<typed, input, broken, impl, failed, status>>

-----------------------------------------------------------------------------
(* puts of libc.a over simulated_putc and _putc: it stops at the first write *)
(* that does not take its byte, and marks the stream.  question.c looks at   *)
(* no result of it.                                                          *)
Puts ==
    \/ UNCHANGED <<flags, failed>>
    \/ flags' = flags \cup {"SERR"} /\ failed' = TRUE

Ask ==
    /\ pc = "ask" /\ Puts
    /\ pc' = "gets"
    /\ UNCHANGED <<typed, input, broken, impl, get, buf, line, status>>

Echo ==
    /\ pc = "echo" /\ Puts
    /\ pc' = "judge"
    /\ UNCHANGED <<typed, input, broken, impl, get, buf, line, status>>

Lower(c) == IF c \in 65..90 THEN c + 32 ELSE c

(* Strings end at their first NUL; strcasecmp compares without case. *)
Before(s, c) ==
    LET k == SelectInSeq(s, LAMBDA d : d = c)
    IN  IF k = 0 THEN s ELSE SubSeq(s, 1, k - 1)
String(s) == Before(s, NUL)
SameLetters(s, t) ==
    Len(s) = Len(t) /\ \A j \in DOMAIN s : Lower(s[j]) = Lower(t[j])

IsName(s) == SameLetters(String(s), Name)

Judge ==
    /\ pc = "judge" /\ Puts
    /\ status' = IF IsName(line) THEN 0 ELSE 42
    /\ pc' = "exit"
    /\ UNCHANGED <<typed, input, broken, impl, get, buf, line>>

ConsoleNext == Ask \/ GetConsole \/ GetMock \/ Echo \/ Judge

-----------------------------------------------------------------------------
(* The line that was typed, if it is complete: up to a newline, and nothing  *)
(* in it that the console cannot pass on (a failing read, a byte from 0x80). *)
Typed == Before(typed, NL)
Complete == NL \in ToSet(typed) /\ \A j \in DOMAIN Typed : Typed[j] # Error /\ Typed[j] >= 0

(* The line that is typed ends, and buf has room for it and for its NUL:     *)
(* gets knows no limit.  A failing read counts as a char, as it may leave one. *)
Fits == Len(Typed) < BufSize /\ (NL \in ToSet(typed) \/ ~broken)

(* A complete line that fits is judged by its letters, through the four      *)
(* layers below gets and whatever happens to the output (question.c:8, io    *)
(* below it); the last char that fits leaves room for the NUL.               *)
LineIsJudged ==
    impl = "console" /\ Complete /\ Fits =>
        /\ pc # "overrun"
        /\ pc = "exit" => status = IF SameLetters(String(Typed), Name) THEN 0 ELSE 42

(* With simulated_getc replaced, gets stores exactly the name, takes nothing *)
(* of the real input and stays inside the payload's slide.                   *)
MockSpellsName ==
    impl = "mock" /\ pc \in {"echo", "judge", "exit", "overrun"} =>
        buf = Name /\ input = typed /\ get <= Slide

(* picolibc's stdio.h:174-186 has one value for an error and another for the *)
(* end of the file, "to be used in the get function": reaching the end does  *)
(* not mark the stream as broken if nothing has failed.                      *)
EndIsNoError == "SERR" \in flags => failed
====
