---- MODULE MinPrograms ----
(* The programs without a C library, examples/min.S, min_got.S,              *)
(* min_got_harder.S and min_plt.S, on a machine with just their              *)
(* instructions, after a linker has put text, read-only data and the global  *)
(* offset table at addresses of its choice and filled in the relocated       *)
(* fields.  An instruction takes one address, a word of data four.           *)
EXTENDS Integers, Sequences

CONSTANTS
    Placements, \* records [text, rodata, got] of addresses
    Word,       \* arithmetic is modulo Word: 2^32 on the real machine
    Junk        \* what may be in a register or in memory nobody wrote to

VARIABLES
    program,    \* the program that runs
    place,      \* its placement
    eager,      \* eager_glob_dat was bound when the program was linked
    payload,    \* _exit has been replaced by exit123.bin
    regs, words, stack, zf,     \* registers, memory, stack, zero flag
    ip,         \* address of the next instruction, or Halt
    code        \* exit status

rawVars == <<program, place, eager, payload, regs, words, stack, zf, ip, code>>

W(x) == x % Word
Halt == Word                \* no address

-----------------------------------------------------------------------------
(* What the linker makes of a symbol in a field of the k-th instruction.     *)
L(k) == W(place.text + k - 1)
ExitAt == L(30)             \* _exit, which is another file's
Retval == place.rodata

(* The table's slots follow its three reserved words. *)
SlotOf == [_exit |-> 12, find |-> 16, eager_glob_dat |-> 20, lazy_jump_slot |-> 24]

(* An exit status fits a word, and the table is none of the program's data.  *)
ASSUME PlacementsAssumption ==
    /\ Word \in Nat /\ Word >= 256
    /\ Placements \subseteq [text : 0..(Word - 1), rodata : 0..(Word - 1), got : 0..(Word - 1)]
    /\ \A p \in Placements, x \in 0..7, f \in DOMAIN SlotOf :
          W(p.rodata + 4 * x) # W(p.got + SlotOf[f])

GOT(f) == SlotOf[f]                         \* f@GOT, from the table's start
Slot(f) == W(place.got + GOT(f))
GOTOFF(s) == W(s - place.got)               \* s@GOTOFF
GOTPC(k) == W(place.got - L(k))             \* _GLOBAL_OFFSET_TABLE_
LazyOffset == 0     \* of lazy_jump_slot's relocation, the only one of its kind

(* Operands: an immediate, a register, memory at a register plus four times  *)
(* another plus a displacement.                                              *)
Imm(v) == [kind |-> "imm", disp |-> v, base |-> "none", index |-> "none"]
Reg(r) == [kind |-> "reg", disp |-> 0, base |-> r, index |-> "none"]
Mem(v, r, i) == [kind |-> "mem", disp |-> v, base |-> r, index |-> i]
I(op, to, of) == [op |-> op, to |-> to, of |-> of]
None == Imm(0)

min ==
  << I("mov", Reg("eax"), Mem(Retval, "none", "none")),
     I("call", None, Imm(ExitAt)) >>

min_got ==
  << I("call", None, Imm(L(2))),
     I("pop", Reg("ebx"), None),
     I("add", Reg("ebx"), Imm(GOTPC(3) + 1)),
     I("mov", Reg("eax"), Mem(GOTOFF(Retval), "ebx", "none")),
     I("call", None, Mem(GOT("_exit"), "ebx", "none")) >>

min_got_harder ==
  << I("call", None, Imm(L(9))),
     I("add", Reg("ecx"), Imm(GOTPC(2))),
     I("lea", Reg("edx"), Mem(GOT("_exit"), "ecx", "none")),
     I("mov", Reg("ebx"), Imm(7)),
     I("mov", Reg("eax"), Mem(GOTOFF(Retval), "ecx", "ebx")),
     I("add", Reg("ecx"), Imm(GOTOFF(Retval) + 4)),
     I("add", Reg("eax"), Mem(4, "ecx", "none")),
     I("call", None, Mem(0, "edx", "none")),
     I("top", Reg("ecx"), None),                    \* __x86.get_pc_thunk.cx
     I("ret", None, None) >>

plt_start ==
  << I("call", None, Imm(L(2))),
     I("pop", Reg("ebx"), None),
     I("add", Reg("ebx"), Imm(GOTPC(3) + 1)),
     I("call", None, Imm(L(10))),
     I("cmp", None, Mem(GOT("eager_glob_dat"), "ebx", "none")),
     I("je", None, Imm(L(8))),
     I("call", None, Imm(L(21))),
     I("call", None, Imm(L(17))),                   \* skip:
     I("call", None, Imm(ExitAt)) >>
relocate ==
  << I("mov", Mem(4, "ebx", "none"), Imm(Word - 1)),
     I("mov", Reg("edx"), Mem(GOT("find"), "ebx", "none")),
     I("mov", Mem(8, "ebx", "none"), Reg("edx")),
     I("ret", None, None) >>

(* Mutant: the loader's word is kept instead of the offset. *)
findLoader == << I("pop", Reg("eax"), None), I("pop", Reg("edx"), None), I("ret", None, None) >>

find == << I("pop", Reg("eax"), None), I("pop", Reg("eax"), None), I("ret", None, None) >>

(* The linker's stubs.  lazy_jump_slot's slot leads back into its own stub,  *)
(* which pushes the relocation's offset and goes to the common stub.         *)
plt ==
  << I("jmp", None, Mem(Slot("lazy_jump_slot"), "none", "none")),
     I("push", None, Imm(LazyOffset)),
     I("push", None, Mem(W(place.got + 4), "none", "none")),
     I("jmp", None, Mem(W(place.got + 8), "none", "none")),
     I("jmp", None, Mem(Slot("eager_glob_dat"), "none", "none")),
     I("mov", Reg("eax"), Imm(99)),                 \* eager_glob_dat
     I("ret", None, None) >>

Text ==
    CASE program = "min" -> min
      [] program = "min_got" -> min_got
      [] program = "min_got_harder" -> min_got_harder
      [] program = "min_plt" -> plt_start \o relocate \o find \o plt

-----------------------------------------------------------------------------
retval == [min |-> <<33>>, min_got |-> <<42>>,
           min_got_harder |-> <<12, 22, 32, 42, 52, 62, 72, 82>>, min_plt |-> <<42>>]

(* What the linker puts into the slots. *)
Bound == [_exit |-> ExitAt, find |-> L(14), lazy_jump_slot |-> L(18),
          eager_glob_dat |-> IF eager THEN L(22) ELSE 0]

Datum(j) == W(Retval + 4 * (j - 1))

(* Memory as the loader leaves it. *)
Loaded ==
    [a \in {Datum(j) : j \in DOMAIN retval[program]} \cup {Slot(f) : f \in DOMAIN Bound} |->
        IF \E j \in DOMAIN retval[program] : a = Datum(j)
        THEN retval[program][CHOOSE j \in DOMAIN retval[program] : a = Datum(j)]
        ELSE Bound[CHOOSE f \in DOMAIN Bound : a = Slot(f)]]

RawInit ==
    /\ program \in DOMAIN retval /\ place \in Placements
    /\ eager \in (IF program = "min_plt" THEN BOOLEAN ELSE {FALSE}) /\ payload \in BOOLEAN
    /\ regs = [r \in {"eax", "ebx", "ecx", "edx"} |-> Junk]
    /\ words = Loaded /\ stack = <<>> /\ zf = FALSE
    /\ ip = place.text /\ code = -1

Register(r) == IF r = "none" THEN 0 ELSE regs[r]
Address(o) == W(o.disp + Register(o.base) + 4 * Register(o.index))
Value(o) ==
    CASE o.kind = "imm" -> W(o.disp)
      [] o.kind = "reg" -> regs[o.base]
      [] o.kind = "mem" -> IF Address(o) \in DOMAIN words THEN words[Address(o)] ELSE Junk

Next1 == W(ip + 1)
Stored(a, v) == [b \in DOMAIN words \cup {a} |-> IF b = a THEN v ELSE words[b]]
SetReg(o, v) == regs' = [regs EXCEPT ![o.base] = v]

Move(i) ==
    /\ i.op \in {"mov", "lea", "add", "top"}
    /\ LET v == CASE i.op = "mov" -> Value(i.of)
                  [] i.op = "lea" -> Address(i.of)
                  [] i.op = "add" -> W(Value(i.to) + Value(i.of))
                  [] i.op = "top" -> stack[1]
       IN  IF i.to.kind = "reg" THEN SetReg(i.to, v) /\ UNCHANGED words
           ELSE words' = Stored(Address(i.to), v) /\ UNCHANGED regs
    /\ ip' = Next1 /\ UNCHANGED <<stack, zf>>

Compare(i) ==
    /\ i.op = "cmp"
    /\ zf' = (Value(i.of) = 0) /\ ip' = Next1
    /\ UNCHANGED <<regs, words, stack>>

OnStack(i) ==
    /\ \/ i.op = "push" /\ stack' = <<Value(i.of)>> \o stack /\ UNCHANGED regs
       \/ i.op = "pop" /\ stack # <<>> /\ SetReg(i.to, stack[1]) /\ stack' = Tail(stack)
    /\ ip' = Next1 /\ UNCHANGED <<words, zf>>

Jump(i) ==
    /\ \/ i.op = "call" /\ ip' = Value(i.of) /\ stack' = <<Next1>> \o stack
       \/ i.op = "jmp" /\ ip' = Value(i.of) /\ UNCHANGED stack
       \/ i.op = "je" /\ ip' = (IF zf THEN Value(i.of) ELSE Next1) /\ UNCHANGED stack
       \/ i.op = "ret" /\ stack # <<>> /\ ip' = stack[1] /\ stack' = Tail(stack)
    /\ UNCHANGED <<regs, words, zf>>

(* _exit of _io_impl.c takes its argument in %eax; exit123.s in its place    *)
(* has a status of its own.                                                  *)
_exit ==
    /\ ip = ExitAt
    /\ code' = (IF payload THEN 123 ELSE regs["eax"] % 256) /\ ip' = Halt
    /\ UNCHANGED <<regs, words, stack, zf>>

Step ==
    \E k \in DOMAIN Text :
        /\ ip = L(k)
        /\ Move(Text[k]) \/ Compare(Text[k]) \/ OnStack(Text[k]) \/ Jump(Text[k])
        /\ UNCHANGED code

RawNext == (Step \/ _exit) /\ UNCHANGED <<program, place, eager, payload>>

-----------------------------------------------------------------------------
Written == [min |-> 33, min_got |-> 42, min_got_harder |-> 82 + 32, min_plt |-> LazyOffset]

(* Wherever the linker puts text, data and table, a program exits with the   *)
(* status its source and its test say (tests/0a, tests/0b), or with the      *)
(* payload's, and with nothing on its stack but _exit's return address: lazy *)
(* binding in min_plt has taken exactly what the stubs have pushed.          *)
ExitAsWritten ==
    ip = Halt =>
        /\ code = IF payload THEN 123 ELSE Written[program]
        /\ Len(stack) = 1
====
