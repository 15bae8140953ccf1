---- MODULE ProgramsProofs ----
(* The programs without a C library, executed instruction by instruction    *)
(* with addresses as unknowns: wherever a linker puts text, data and table,  *)
(* they exit as written.                                                     *)
(*                                                                           *)
(* The boot: for every layout that links, whatever the loader leaves in      *)
(* memory and whatever the initialisation functions store, the stack is      *)
(* mapped, and main starts on the C program's memory.  Every example program *)
(* that has a crt0 boots so; then the console and the exit status.           *)
EXTENDS Programs, SequenceTheorems, WellFoundedInduction, TLAPS

-----------------------------------------------------------------------------
(* Arithmetic modulo Word. *)
LEMMA ModFact ==
    ASSUME NEW m \in Nat \ {0}, NEW x \in Int
    PROVE  x % m \in 0..(m - 1) /\ x = m * (x \div m) + (x % m) /\ x \div m \in Int
BY SMT

LEMMA ModUnique ==
    ASSUME NEW m \in Nat \ {0}, NEW x \in 0..(m - 1), NEW y \in 0..(m - 1), NEW q \in Int, x - y = m * q
    PROVE  x = y
<1>1. q >= 1 => m * q >= m
    BY SMT
<1>2. q <= -1 => m * q <= -m
    BY SMT
<1>3. q = 0
    BY <1>1, <1>2
<1>. QED  BY <1>3

LEMMA Congruent ==
    ASSUME NEW m \in Nat \ {0}, NEW a \in Int, NEW b \in Int, NEW q \in Int, a - b = m * q
    PROVE  a % m = b % m
<1>. DEFINE x == a % m
            y == b % m
            k == a \div m
            l == b \div m
<1>1. x \in 0..(m - 1) /\ a = m * k + x /\ k \in Int
    BY ModFact
<1>2. y \in 0..(m - 1) /\ b = m * l + y /\ l \in Int
    BY ModFact
<1>. HIDE DEF x, y, k, l
<1>3. x - y = m * (q - k + l)
    BY <1>1, <1>2
<1>4. q - k + l \in Int
    BY <1>1, <1>2
<1>5. x = y
    BY <1>1, <1>2, <1>3, <1>4, ModUnique
<1>. QED  BY <1>5 DEF x, y

LEMMA WordFacts == Word \in Nat \ {0} /\ Word >= 256 /\ Word \in Int
BY PlacementsAssumption

LEMMA Wrapped ==
    ASSUME NEW a \in Int
    PROVE  /\ W(a) \in 0..(Word - 1) /\ W(a) \in Int
           /\ a \in 0..(Word - 1) => W(a) = a
<1>1. W(a) \in 0..(Word - 1) /\ a = Word * (a \div Word) + W(a) /\ a \div Word \in Int
    BY WordFacts, ModFact DEF W
<1>. DEFINE q == -(a \div Word)
<1>2. ASSUME a \in 0..(Word - 1) PROVE W(a) = a
  <2>1. W(a) - a = Word * q /\ q \in Int
      BY <1>1, WordFacts
  <2>. HIDE DEF q
  <2>. QED  BY <1>1, <1>2, <2>1, WordFacts, ModUnique
<1>. QED  BY <1>1, <1>2, WordFacts

LEMMA Wraps ==
    ASSUME NEW a \in Int, NEW b \in Int
    PROVE  W(W(a) + b) = W(a + b) /\ W(b - W(a)) = W(b - a)
<1>. DEFINE p == a \div Word
            q == -(a \div Word)
<1>1. p \in Int /\ q \in Int /\ W(a) \in Int /\ a = Word * p + W(a)
    BY WordFacts, ModFact DEF W
<1>2. (W(a) + b) - (a + b) = Word * q /\ (b - W(a)) - (b - a) = Word * p
    BY <1>1, WordFacts
<1>3. W(a) + b \in Int /\ a + b \in Int /\ b - W(a) \in Int /\ b - a \in Int
    BY <1>1
<1>4. \A x, y, r \in Int : x - y = Word * r => W(x) = W(y)
    BY WordFacts, Congruent DEF W
<1>. DEFINE w == W(a)
<1>. HIDE DEF p, q, w
<1>5. W(w + b) = W(a + b)
    BY <1>1, <1>2, <1>3, <1>4 DEF w
<1>6. W(b - w) = W(b - a)
    BY <1>1, <1>2, <1>3, <1>4 DEF w
<1>. QED  BY <1>5, <1>6 DEF w

(* Addresses that are less than a word's range apart are different.          *)
LEMMA Apart ==
    ASSUME NEW a \in Int, NEW b \in Int, a - b \in -255..255, W(a) = W(b)
    PROVE  a = b
<1>. DEFINE p == a \div Word
            q == b \div Word
            r == p - q
<1>1. /\ W(a) \in Int /\ a = Word * p + W(a) /\ p \in Int
      /\ W(b) \in Int /\ b = Word * q + W(b) /\ q \in Int
    BY WordFacts, ModFact DEF W
<1>2. r \in Int
    BY <1>1
<1>3. a - b = Word * r
  <2>. HIDE DEF p, q
  <2>1. a - b = Word * p - Word * q
      BY <1>1, WordFacts
  <2>. QED  BY SMTT(30), <1>1, <2>1, WordFacts
<1>. HIDE DEF p, q, r
<1>4. r >= 1 => Word * r >= Word
    BY <1>2, WordFacts
<1>5. r <= -1 => Word * r <= -Word
    BY <1>2, WordFacts
<1>. DEFINE u == Word * r
<1>6. u \in -255..255 /\ (r >= 1 => u >= 256) /\ (r <= -1 => u <= -256)
    BY <1>3, <1>4, <1>5, WordFacts
<1>7. r = 0
  <2>. HIDE DEF u
  <2>. QED  BY <1>2, <1>6
<1>. QED  BY <1>3, <1>7, WordFacts

LEMMA PlaceFacts ==
    ASSUME place \in Placements
    PROVE  /\ place.text \in 0..(Word - 1) /\ place.text \in Int
           /\ place.rodata \in 0..(Word - 1) /\ place.rodata \in Int
           /\ place.got \in 0..(Word - 1) /\ place.got \in Int
BY PlacementsAssumption, WordFacts

(* Different labels are different addresses, and none is Halt.               *)
LEMMA Labels ==
    ASSUME place \in Placements, NEW k \in 1..30
    PROVE  /\ L(k) \in 0..(Word - 1) /\ L(k) \in Int /\ L(k) # Halt
           /\ W(L(k)) = L(k) /\ W(L(k) + 1) = L(k + 1)
           /\ \A j \in 1..30 : L(j) = L(k) => j = k
<1>. DEFINE a(j) == place.text + j - 1
<1>1. \A j \in 1..30 : a(j) \in Int /\ a(j) - a(k) \in -255..255 /\ a(j) - a(k) = j - k
    BY PlaceFacts
<1>2. \A j \in 1..30 : W(a(j)) = W(a(k)) => j = k
  <2>. SUFFICES ASSUME NEW j \in 1..30, W(a(j)) = W(a(k)) PROVE j = k
      OBVIOUS
  <2>1. a(j) \in Int /\ a(k) \in Int
      BY <1>1
  <2>2. a(j) = a(k)
    <3>. HIDE DEF a
    <3>. QED  BY <1>1, <2>1, Apart
  <2>. QED  BY <2>2, PlaceFacts
<1>3. L(k) \in 0..(Word - 1) /\ L(k) \in Int
  <2>1. a(k) \in Int
      BY <1>1
  <2>. HIDE DEF a
  <2>2. W(a(k)) \in 0..(Word - 1) /\ W(a(k)) \in Int
      BY <2>1, Wrapped
  <2>. QED  BY <2>2 DEF L, a
<1>4. W(L(k)) = L(k) /\ L(k) # Halt
    BY <1>3, Wrapped, WordFacts DEF Halt
<1>5. W(L(k) + 1) = L(k + 1)
  <2>1. W(W(a(k)) + 1) = W(a(k) + 1)
    <3>1. a(k) \in Int
        BY <1>1
    <3>. HIDE DEF a
    <3>. QED  BY <3>1, Wraps
  <2>2. a(k) + 1 = place.text + (k + 1) - 1
      BY PlaceFacts
  <2>. QED  BY <2>1, <2>2 DEF L
<1>. QED  BY <1>2, <1>3, <1>4, <1>5 DEF L

-----------------------------------------------------------------------------
(* The stack holds at most three words. *)
LEMMA Stacks ==
    /\ \A x : <<x>> \o <<>> = <<x>> /\ Tail(<<x>>) = <<>>
    /\ \A x, y : <<x>> \o <<y>> = <<x, y>> /\ Tail(<<x, y>>) = <<y>>
    /\ \A x, y, z : <<x>> \o <<y, z>> = <<x, y, z>> /\ Tail(<<x, y, z>>) = <<y, z>>
    /\ \A x : Len(<<x>>) = 1
<1>1. \A x : <<x>> \o <<>> = <<x>>
    OBVIOUS
<1>2. \A x : Tail(<<x>>) = <<>>
    OBVIOUS
<1>3. \A x, y : <<x>> \o <<y>> = <<x, y>>
  <2>. SUFFICES ASSUME NEW x, NEW y PROVE <<x>> \o <<y>> = <<x, y>>
      OBVIOUS
  <2>. DEFINE S == {x, y}
  <2>1. <<x>> \in Seq(S) /\ <<y>> \in Seq(S) /\ <<x, y>> \in Seq(S)
      OBVIOUS
  <2>2. Len(<<x>>) = 1 /\ Len(<<y>>) = 1 /\ Len(<<x, y>>) = 2
      OBVIOUS
  <2>. DEFINE s == <<x>> \o <<y>>
  <2>3. s \in Seq(S) /\ Len(s) = 2 /\ s[1] = x /\ \A j \in 2..2 : s[j] = <<y>>[j - 1]
    <3>. HIDE DEF S
    <3>. QED  BY <2>1, <2>2, ConcatProperties
  <2>4. \A j \in 1..2 : s[j] = <<x, y>>[j]
    <3>. HIDE DEF s
    <3>. QED  BY <2>3
  <2>. HIDE DEF s, S
  <2>. QED  BY <2>1, <2>2, <2>3, <2>4, SeqEqual DEF s
<1>4. \A x, y : Tail(<<x, y>>) = <<y>>
    OBVIOUS
<1>5. \A x, y, z : <<x>> \o <<y, z>> = <<x, y, z>>
  <2>. SUFFICES ASSUME NEW x, NEW y, NEW z PROVE <<x>> \o <<y, z>> = <<x, y, z>>
      OBVIOUS
  <2>. DEFINE S == {x, y, z}
  <2>1. <<x>> \in Seq(S) /\ <<y, z>> \in Seq(S) /\ <<x, y, z>> \in Seq(S)
      OBVIOUS
  <2>2. Len(<<x>>) = 1 /\ Len(<<y, z>>) = 2 /\ Len(<<x, y, z>>) = 3
      OBVIOUS
  <2>. DEFINE s == <<x>> \o <<y, z>>
  <2>3. s \in Seq(S) /\ Len(s) = 3 /\ s[1] = x /\ \A j \in 2..3 : s[j] = <<y, z>>[j - 1]
    <3>. HIDE DEF S
    <3>. QED  BY <2>1, <2>2, ConcatProperties
  <2>4. \A j \in 1..3 : s[j] = <<x, y, z>>[j]
    <3>. HIDE DEF s
    <3>. QED  BY <2>3
  <2>. HIDE DEF s, S
  <2>. QED  BY <2>1, <2>2, <2>3, <2>4, SeqEqual DEF s
<1>6. \A x, y, z : Tail(<<x, y, z>>) = <<y, z>>
    OBVIOUS
<1>7. \A x : Len(<<x>>) = 1
    OBVIOUS
<1>. QED  BY <1>1, <1>2, <1>3, <1>4, <1>5, <1>6, <1>7

(* The registers. *)
Machine == {"eax", "ebx", "ecx", "edx"}
Executes(i) == Move(i) \/ Compare(i) \/ OnStack(i) \/ Jump(i)

(* The processor runs the instruction at ip.                                 *)
LEMMA Fetch ==
    ASSUME place \in Placements, NEW k \in 1..29, ip = L(k), RawNext, DOMAIN Text \subseteq 1..29
    PROVE  Executes(Text[k]) /\ UNCHANGED <<program, place, eager, payload, code>>
<1>1. ip # ExitAt
    BY Labels DEF ExitAt
<1>2. PICK j \in DOMAIN Text : ip = L(j) /\ Executes(Text[j]) /\ UNCHANGED code
    BY <1>1 DEF RawNext, Step, _exit, Executes
<1>3. j \in 1..30 /\ k \in 1..30 /\ L(j) = L(k)
    BY <1>2
<1>4. j = k
    BY <1>3, Labels
<1>. QED  BY <1>2, <1>4 DEF RawNext

LEMMA FetchNext ==
    ASSUME place \in Placements, NEW k \in 1..29, ip = L(k)
    PROVE  Next1 = L(k + 1)
BY Labels DEF Next1

(* What the instructions do. *)
LEMMA Loads ==
    ASSUME NEW r, NEW o, Executes(I("mov", Reg(r), o))
    PROVE  regs' = [regs EXCEPT ![r] = Value(o)] /\ ip' = Next1 /\ UNCHANGED <<words, stack, zf>>
BY DEF Executes, I, Reg, Move, SetReg, Compare, OnStack, Jump

LEMMA Stores ==
    ASSUME NEW d, NEW r, NEW j, NEW o, Executes(I("mov", Mem(d, r, j), o))
    PROVE  words' = Stored(Address(Mem(d, r, j)), Value(o)) /\ ip' = Next1 /\ UNCHANGED <<regs, stack, zf>>
BY DEF Executes, I, Mem, Move, SetReg, Compare, OnStack, Jump

LEMMA Leas ==
    ASSUME NEW r, NEW o, Executes(I("lea", Reg(r), o))
    PROVE  regs' = [regs EXCEPT ![r] = Address(o)] /\ ip' = Next1 /\ UNCHANGED <<words, stack, zf>>
BY DEF Executes, I, Reg, Move, SetReg, Compare, OnStack, Jump

LEMMA Adds ==
    ASSUME NEW r, NEW o, Executes(I("add", Reg(r), o))
    PROVE  regs' = [regs EXCEPT ![r] = W(regs[r] + Value(o))] /\ ip' = Next1 /\ UNCHANGED <<words, stack, zf>>
BY DEF Executes, I, Reg, Move, SetReg, Compare, OnStack, Jump, Value

LEMMA Tops ==
    ASSUME NEW r, Executes(I("top", Reg(r), None))
    PROVE  regs' = [regs EXCEPT ![r] = stack[1]] /\ ip' = Next1 /\ UNCHANGED <<words, stack, zf>>
BY DEF Executes, I, Reg, Move, SetReg, Compare, OnStack, Jump

LEMMA Compares ==
    ASSUME NEW o, Executes(I("cmp", None, o))
    PROVE  zf' = (Value(o) = 0) /\ ip' = Next1 /\ UNCHANGED <<regs, words, stack>>
BY DEF Executes, I, Move, Compare, OnStack, Jump

LEMMA Pushes ==
    ASSUME NEW o, Executes(I("push", None, o))
    PROVE  stack' = <<Value(o)>> \o stack /\ ip' = Next1 /\ UNCHANGED <<regs, words, zf>>
BY DEF Executes, I, Move, Compare, OnStack, Jump

LEMMA Pops ==
    ASSUME NEW r, Executes(I("pop", Reg(r), None))
    PROVE  regs' = [regs EXCEPT ![r] = stack[1]] /\ stack' = Tail(stack) /\ ip' = Next1 /\ UNCHANGED <<words, zf>>
BY DEF Executes, I, Reg, Move, SetReg, Compare, OnStack, Jump

LEMMA Calls ==
    ASSUME NEW o, Executes(I("call", None, o))
    PROVE  ip' = Value(o) /\ stack' = <<Next1>> \o stack /\ UNCHANGED <<regs, words, zf>>
BY DEF Executes, I, Move, Compare, OnStack, Jump

LEMMA Jumps ==
    ASSUME NEW o, Executes(I("jmp", None, o))
    PROVE  ip' = Value(o) /\ UNCHANGED <<regs, words, zf, stack>>
BY DEF Executes, I, Move, Compare, OnStack, Jump

LEMMA JumpsIf ==
    ASSUME NEW o, Executes(I("je", None, o))
    PROVE  ip' = (IF zf THEN Value(o) ELSE Next1) /\ UNCHANGED <<regs, words, zf, stack>>
BY DEF Executes, I, Move, Compare, OnStack, Jump

LEMMA Returns ==
    ASSUME Executes(I("ret", None, None))
    PROVE  ip' = stack[1] /\ stack' = Tail(stack) /\ UNCHANGED <<regs, words, zf>>
BY DEF Executes, I, Move, Compare, OnStack, Jump

(* Operands. *)
LEMMA Immediate == ASSUME NEW v \in 0..(Word - 1) PROVE Value(Imm(v)) = v
BY Wrapped, WordFacts DEF Value, Imm

LEMMA ValueReg == ASSUME NEW r PROVE Value(Reg(r)) = regs[r]
BY DEF Value, Reg

LEMMA Based ==
    ASSUME NEW d \in Int, NEW r \in Machine, regs[r] \in Int
    PROVE  Address(Mem(d, r, "none")) = W(d + regs[r])
BY DEF Address, Mem, Register, Machine

LEMMA Absolute ==
    ASSUME NEW d \in Int
    PROVE  Address(Mem(d, "none", "none")) = W(d)
BY DEF Address, Mem, Register

LEMMA Contents ==
    ASSUME NEW d, NEW r, NEW j, Address(Mem(d, r, j)) \in DOMAIN words
    PROVE  Value(Mem(d, r, j)) = words[Address(Mem(d, r, j))]
BY DEF Value, Mem

LEMMA PltText ==
    ASSUME program = "min_plt"
    PROVE  /\ DOMAIN Text = 1..23
           /\ \A k \in 1..9 : Text[k] = plt_start[k]
           /\ \A k \in 1..4 : Text[9 + k] = relocate[k]
           /\ \A k \in 1..3 : Text[13 + k] = find[k]
           /\ \A k \in 1..7 : Text[16 + k] = plt[k]
<1>. DEFINE S == {plt_start[k] : k \in 1..9} \cup {relocate[k] : k \in 1..4}
                 \cup {find[k] : k \in 1..3} \cup {plt[k] : k \in 1..7}
            a == plt_start
            b == relocate
            c == find
            d == plt
<1>1. Len(a) = 9 /\ a \in Seq(S)
  <2>1. Len(a) = 9
      BY DEF plt_start
  <2>2. \A k \in 1..9 : a[k] \in S
      OBVIOUS
  <2>3. a = [k \in 1..9 |-> a[k]]
      BY DEF plt_start
  <2>. HIDE DEF a, S
  <2>4. [k \in 1..9 |-> a[k]] \in Seq(S)
      BY <2>2
  <2>. QED  BY <2>1, <2>3, <2>4
<1>2. Len(b) = 4 /\ b \in Seq(S)
    BY DEF relocate
<1>3. Len(c) = 3 /\ c \in Seq(S)
    BY DEF find
<1>4. Len(d) = 7 /\ d \in Seq(S)
    BY DEF plt
<1>5. Text = a \o b \o c \o d
    BY DEF Text
<1>. HIDE DEF a, b, c, d, S
<1>. DEFINE s == a \o b
            t == s \o c
            u == t \o d
<1>. HIDE DEF s, t, u
<1>6. s \in Seq(S) /\ Len(s) = 13 /\ \A k \in 1..13 : s[k] = IF k <= 9 THEN a[k] ELSE b[k - 9]
  <2>1. s \in Seq(S) /\ Len(s) = Len(a) + Len(b)
      BY <1>1, <1>2, ConcatProperties DEF s
  <2>2. \A k \in 1..(Len(a) + Len(b)) : s[k] = IF k <= Len(a) THEN a[k] ELSE b[k - Len(a)]
      BY <1>1, <1>2, ConcatProperties DEF s
  <2>. QED  BY <1>1, <1>2, <2>1, <2>2
<1>7. t \in Seq(S) /\ Len(t) = 16 /\ \A k \in 1..16 : t[k] = IF k <= 13 THEN s[k] ELSE c[k - 13]
  <2>1. t \in Seq(S) /\ Len(t) = Len(s) + Len(c)
      BY <1>3, <1>6, ConcatProperties DEF t
  <2>2. \A k \in 1..(Len(s) + Len(c)) : t[k] = IF k <= Len(s) THEN s[k] ELSE c[k - Len(s)]
      BY <1>3, <1>6, ConcatProperties DEF t
  <2>. QED  BY <1>3, <1>6, <2>1, <2>2
<1>8. u \in Seq(S) /\ Len(u) = 23 /\ \A k \in 1..23 : u[k] = IF k <= 16 THEN t[k] ELSE d[k - 16]
  <2>1. u \in Seq(S) /\ Len(u) = Len(t) + Len(d)
      BY <1>4, <1>7, ConcatProperties DEF u
  <2>2. \A k \in 1..(Len(t) + Len(d)) : u[k] = IF k <= Len(t) THEN t[k] ELSE d[k - Len(t)]
      BY <1>4, <1>7, ConcatProperties DEF u
  <2>. QED  BY <1>4, <1>7, <2>1, <2>2
<1>9. Text = u
    BY <1>5 DEF s, t, u
<1>10. Text \in Seq(S) /\ Len(Text) = 23
    BY <1>8, <1>9
<1>11. \A k \in 1..23 : Text[k] = IF k <= 9 THEN a[k] ELSE IF k <= 13 THEN b[k - 9]
                                  ELSE IF k <= 16 THEN c[k - 13] ELSE d[k - 16]
  <2>. SUFFICES ASSUME NEW k \in 1..23
                PROVE  u[k] = IF k <= 9 THEN a[k] ELSE IF k <= 13 THEN b[k - 9]
                              ELSE IF k <= 16 THEN c[k - 13] ELSE d[k - 16]
      BY <1>9
  <2>1. u[k] = IF k <= 16 THEN t[k] ELSE d[k - 16]
      BY <1>8
  <2>2. k <= 16 => t[k] = IF k <= 13 THEN s[k] ELSE c[k - 13]
    <3>1. k <= 16 => k \in 1..16
        OBVIOUS
    <3>. QED  BY <1>7, <3>1
  <2>3. k <= 13 => s[k] = IF k <= 9 THEN a[k] ELSE b[k - 9]
    <3>1. k <= 13 => k \in 1..13
        OBVIOUS
    <3>. QED  BY <1>6, <3>1
  <2>. QED  BY <2>1, <2>2, <2>3
<1>. QED  BY <1>10, <1>11 DEF a, b, c, d

(* The words of memory that the loader fills. *)
Data == DOMAIN retval[program]

LEMMA RetvalFacts ==
    ASSUME program \in DOMAIN retval
    PROVE  Data \subseteq 1..8
BY DEF Data, retval

LEMMA AddressesApart ==
    ASSUME place \in Placements
    PROVE  /\ \A j, k \in 1..8 : Datum(j) = Datum(k) => j = k
           /\ \A f, g \in DOMAIN SlotOf : Slot(f) = Slot(g) => f = g
           /\ \A j \in 1..8, f \in DOMAIN SlotOf : Datum(j) # Slot(f)
           /\ \A f \in DOMAIN SlotOf : W(place.got + 4) # Slot(f) /\ W(place.got + 8) # Slot(f)
           /\ W(place.got + 4) # W(place.got + 8)
<1>1. ASSUME NEW j \in 1..8, NEW k \in 1..8, Datum(j) = Datum(k) PROVE j = k
  <2>. DEFINE a == place.rodata + 4 * (j - 1)
              b == place.rodata + 4 * (k - 1)
  <2>1. a \in Int /\ b \in Int /\ a - b \in -255..255 /\ (a = b => j = k)
      BY PlaceFacts
  <2>2. W(a) = W(b)
      BY <1>1 DEF Datum, Retval
  <2>. HIDE DEF a, b
  <2>. QED  BY <2>1, <2>2, Apart
<1>2. \A f \in DOMAIN SlotOf : SlotOf[f] \in {12, 16, 20, 24}
    BY DEF SlotOf
<1>3. \A f, g \in DOMAIN SlotOf : SlotOf[f] = SlotOf[g] => f = g
    BY DEF SlotOf
<1>4. ASSUME NEW x \in {4, 8, 12, 16, 20, 24}, NEW y \in {4, 8, 12, 16, 20, 24},
             W(place.got + x) = W(place.got + y)
      PROVE  x = y
  <2>. DEFINE a == place.got + x
              b == place.got + y
  <2>1. a \in Int /\ b \in Int /\ a - b \in -255..255 /\ (a = b => x = y)
      BY PlaceFacts
  <2>2. W(a) = W(b)
      BY <1>4
  <2>. HIDE DEF a, b
  <2>. QED  BY <2>1, <2>2, Apart
<1>5. \A f, g \in DOMAIN SlotOf : Slot(f) = Slot(g) => f = g
    BY <1>2, <1>3, <1>4 DEF Slot, GOT
<1>6. \A f \in DOMAIN SlotOf : W(place.got + 4) # Slot(f) /\ W(place.got + 8) # Slot(f)
  <2>. SUFFICES ASSUME NEW f \in DOMAIN SlotOf, NEW x \in {4, 8} PROVE W(place.got + x) # Slot(f)
      OBVIOUS
  <2>1. SlotOf[f] \in {12, 16, 20, 24}
      BY <1>2
  <2>. QED  BY <1>4, <2>1 DEF Slot, GOT
<1>7. W(place.got + 4) # W(place.got + 8)
    BY <1>4
<1>8. ASSUME NEW j \in 1..8, NEW f \in DOMAIN SlotOf PROVE Datum(j) # Slot(f)
  <2>1. j - 1 \in 0..7
      OBVIOUS
  <2>2. W(place.rodata + 4 * (j - 1)) # W(place.got + SlotOf[f])
      BY <2>1, PlacementsAssumption
  <2>. QED  BY <2>2 DEF Datum, Retval, Slot, GOT
<1>. QED  BY <1>1, <1>5, <1>6, <1>7, <1>8

LEMMA LoadedFacts ==
    ASSUME program \in DOMAIN retval, place \in Placements
    PROVE  /\ \A j \in Data : Datum(j) \in DOMAIN Loaded /\ Loaded[Datum(j)] = retval[program][j]
           /\ \A f \in DOMAIN SlotOf : Slot(f) \in DOMAIN Loaded /\ Loaded[Slot(f)] = Bound[f]
<1>1. DOMAIN Bound = DOMAIN SlotOf
    BY DEF Bound, SlotOf
<1>2. ASSUME NEW j \in Data PROVE Datum(j) \in DOMAIN Loaded /\ Loaded[Datum(j)] = retval[program][j]
  <2>1. \A k \in Data : Datum(j) = Datum(k) => k = j
      BY RetvalFacts, AddressesApart
  <2>2. (CHOOSE k \in Data : Datum(j) = Datum(k)) = j
      BY <2>1
  <2>3. Datum(j) \in {Datum(k) : k \in Data}
      OBVIOUS
  <2>. QED  BY <2>2, <2>3, Zenon DEF Loaded, Data
<1>3. ASSUME NEW f \in DOMAIN SlotOf
      PROVE  Slot(f) \in DOMAIN Loaded /\ Loaded[Slot(f)] = Bound[f]
  <2>1. \A e \in DOMAIN SlotOf : Slot(f) = Slot(e) => e = f
      BY AddressesApart
  <2>2. (CHOOSE e \in DOMAIN Bound : Slot(f) = Slot(e)) = f
      BY <1>1, <2>1
  <2>3. Slot(f) \in {Slot(e) : e \in DOMAIN Bound}
      BY <1>1
  <2>4. ~ \E j \in Data : Slot(f) = Datum(j)
      BY RetvalFacts, AddressesApart
  <2>. QED  BY <2>2, <2>3, <2>4, Zenon DEF Loaded, Data
<1>. QED  BY <1>2, <1>3

(* What position-independent code computes. *)
LEMMA Relative ==
    ASSUME place \in Placements
    PROVE  /\ W(L(2) + Value(Imm(GOTPC(3) + 1))) = place.got
           /\ W(L(2) + Value(Imm(GOTPC(2)))) = place.got
           /\ \A n \in 0..7 : W(GOTOFF(Retval) + place.got + 4 * n) = Datum(n + 1)
           /\ \A n \in 0..7 : W(4 * n + place.rodata) = Datum(n + 1)
           /\ W(place.got + Value(Imm(GOTOFF(Retval) + 4))) = W(place.rodata + 4)
           /\ W(4 + W(place.rodata + 4)) = Datum(3)
           /\ GOTOFF(Retval) \in Int
<1>. DEFINE g == place.got
            d == place.rodata
            x == place.text
<1>1. g \in Int /\ d \in Int /\ x \in Int /\ W(g) = g
    BY PlaceFacts, Wrapped
<1>. HIDE DEF g, d, x
<1>2. L(2) = W(x + 1) /\ L(3) = W(x + 2)
    BY <1>1 DEF L, x
<1>3. GOTPC(3) = W(g - L(3)) /\ GOTPC(2) = W(g - L(2)) /\ GOTOFF(Retval) = W(d - g)
    BY DEF GOTPC, GOTOFF, Retval, g, d
<1>4. \A v : Value(Imm(v)) = W(v)
    BY DEF Value, Imm
<1>5. GOTPC(3) = W(g - (x + 2)) /\ GOTPC(2) = W(g - (x + 1))
    BY <1>1, <1>2, <1>3, Wraps
<1>6. \A a, b \in Int : W(W(a) + b) = W(a + b) /\ W(a) \in Int /\ W(b + W(a)) = W(a + b)
  <2>. SUFFICES ASSUME NEW a \in Int, NEW b \in Int
                PROVE  W(W(a) + b) = W(a + b) /\ W(a) \in Int /\ W(b + W(a)) = W(a + b)
      OBVIOUS
  <2>1. W(W(a) + b) = W(a + b) /\ W(a) \in Int
      BY Wraps, Wrapped
  <2>2. b + W(a) = W(a) + b
      BY <2>1
  <2>. QED  BY <2>1, <2>2
<1>7. W(L(2) + W(GOTPC(3) + 1)) = g
  <2>1. W(GOTPC(3) + 1) = W((g - (x + 2)) + 1)
      BY <1>1, <1>5, <1>6
  <2>2. (g - (x + 2)) + 1 = g - x - 1 /\ g - x - 1 \in Int /\ x + 1 \in Int
      BY <1>1
  <2>3. W(W(x + 1) + W(g - x - 1)) = W((x + 1) + W(g - x - 1))
      BY <1>6, <2>2
  <2>4. W((x + 1) + W(g - x - 1)) = W((g - x - 1) + (x + 1))
      BY <1>6, <2>2
  <2>5. (g - x - 1) + (x + 1) = g
      BY <1>1
  <2>. QED  BY <1>1, <1>2, <2>1, <2>2, <2>3, <2>4, <2>5
<1>8. W(L(2) + W(GOTPC(2))) = g
  <2>1. g - (x + 1) \in Int /\ x + 1 \in Int /\ (g - (x + 1)) + (x + 1) = g
      BY <1>1
  <2>2. W(GOTPC(2)) = GOTPC(2)
    <3>. DEFINE y == g - (x + 1)
    <3>1. W(y) \in 0..(Word - 1) /\ W(y) \in Int
        BY <2>1, Wrapped
    <3>. HIDE DEF y
    <3>2. W(W(y)) = W(y)
        BY <3>1, Wrapped
    <3>. QED  BY <1>5, <3>2 DEF y
  <2>3. W(W(x + 1) + W(g - (x + 1))) = W((x + 1) + W(g - (x + 1)))
      BY <1>6, <2>1
  <2>4. W((x + 1) + W(g - (x + 1))) = W((g - (x + 1)) + (x + 1))
      BY <1>6, <2>1
  <2>. QED  BY <1>1, <1>2, <1>5, <2>1, <2>2, <2>3, <2>4
<1>9. ASSUME NEW n \in 0..7 PROVE W(GOTOFF(Retval) + g + 4 * n) = Datum(n + 1)
  <2>1. d - g \in Int /\ g + 4 * n \in Int /\ (d - g) + (g + 4 * n) = d + 4 * n
      BY <1>1
  <2>2. W(W(d - g) + (g + 4 * n)) = W((d - g) + (g + 4 * n))
      BY <1>6, <2>1
  <2>3. GOTOFF(Retval) + g + 4 * n = W(d - g) + (g + 4 * n)
    <3>1. W(d - g) \in Int
        BY <1>6, <2>1
    <3>. QED  BY <1>1, <1>3, <3>1
  <2>4. Datum(n + 1) = W(d + 4 * n)
      BY <1>1 DEF Datum, Retval, d
  <2>. QED  BY <2>1, <2>2, <2>3, <2>4
<1>10. ASSUME NEW n \in 0..7 PROVE W(4 * n + d) = Datum(n + 1)
    BY <1>1 DEF Datum, Retval, d
<1>11. W(g + W(GOTOFF(Retval) + 4)) = W(d + 4)
  <2>1. d - g \in Int /\ (d - g) + 4 \in Int /\ ((d - g) + 4) + g = d + 4
      BY <1>1
  <2>2. W(GOTOFF(Retval) + 4) = W((d - g) + 4)
      BY <1>3, <1>6, <2>1
  <2>3. W(g + W((d - g) + 4)) = W(((d - g) + 4) + g)
      BY <1>1, <1>6, <2>1
  <2>. QED  BY <2>1, <2>2, <2>3
<1>12. W(4 + W(d + 4)) = Datum(3)
  <2>1. d + 4 \in Int /\ (d + 4) + 4 = 4 * 2 + d
      BY <1>1
  <2>2. W(4 + W(d + 4)) = W((d + 4) + 4)
      BY <1>6, <2>1
  <2>. QED  BY <1>10, <2>1, <2>2
<1>13. GOTOFF(Retval) \in Int
    BY <1>1, <1>3, <1>6
<1>. QED  BY <1>4, <1>7, <1>8, <1>9, <1>10, <1>11, <1>12, <1>13 DEF g, d

-----------------------------------------------------------------------------
(* The slots of the table are as the linker has filled them, and the data of *)
(* a program that reads them is there.                                       *)
RawFrame ==
    /\ place \in Placements /\ program \in DOMAIN retval
    /\ DOMAIN regs = Machine
    /\ \A f \in DOMAIN SlotOf : Slot(f) \in DOMAIN words /\ words[Slot(f)] = Bound[f]
    /\ program # "min_plt" =>
          \A j \in Data : Datum(j) \in DOMAIN words /\ words[Datum(j)] = retval[program][j]

(* The next instruction, with the return addresses on the stack. *)
At(k, s) == ip = L(k) /\ stack = s

(* Before each instruction: what of the machine the rest of the program uses.*)
MinPoint ==
    \/ At(1, <<>>)
    \/ At(2, <<>>) /\ regs["eax"] = 33

GotPoint ==
    \/ At(1, <<>>)
    \/ At(2, <<L(2)>>)
    \/ At(3, <<>>) /\ regs["ebx"] = L(2)
    \/ At(4, <<>>) /\ regs["ebx"] = place.got
    \/ At(5, <<>>) /\ regs["ebx"] = place.got /\ regs["eax"] = 42

HarderPoint ==
    \/ At(1, <<>>)
    \/ At(9, <<L(2)>>)
    \/ At(10, <<L(2)>>) /\ regs["ecx"] = L(2)
    \/ At(2, <<>>) /\ regs["ecx"] = L(2)
    \/ At(3, <<>>) /\ regs["ecx"] = place.got
    \/ At(4, <<>>) /\ regs["ecx"] = place.got /\ regs["edx"] = Slot("_exit")
    \/ /\ At(5, <<>>) /\ regs["ecx"] = place.got /\ regs["edx"] = Slot("_exit")
       /\ regs["ebx"] = 7
    \/ /\ At(6, <<>>) /\ regs["ecx"] = place.got /\ regs["edx"] = Slot("_exit")
       /\ regs["eax"] = 82
    \/ /\ At(7, <<>>) /\ regs["ecx"] = W(place.rodata + 4) /\ regs["edx"] = Slot("_exit")
       /\ regs["eax"] = 82
    \/ At(8, <<>>) /\ regs["edx"] = Slot("_exit") /\ regs["eax"] = 114

(* relocate has registered find, in the third word of the table. *)
Registered(a, v) == W(place.got + a) \in DOMAIN words /\ words[W(place.got + a)] = v
Ready == Registered(4, Word - 1) /\ Registered(8, L(14))

PltPoint ==
    \/ At(1, <<>>)
    \/ At(2, <<L(2)>>)
    \/ At(3, <<>>) /\ regs["ebx"] = L(2)
    \/ At(4, <<>>) /\ regs["ebx"] = place.got
    \/ At(10, <<L(5)>>) /\ regs["ebx"] = place.got
    \/ At(11, <<L(5)>>) /\ regs["ebx"] = place.got /\ Registered(4, Word - 1)
    \/ /\ At(12, <<L(5)>>) /\ regs["ebx"] = place.got /\ Registered(4, Word - 1)
       /\ regs["edx"] = L(14)
    \/ At(13, <<L(5)>>) /\ regs["ebx"] = place.got /\ Ready
    \/ At(5, <<>>) /\ regs["ebx"] = place.got /\ Ready
    \/ At(6, <<>>) /\ Ready /\ (zf \/ eager)
    \/ At(7, <<>>) /\ Ready /\ eager
    \/ At(21, <<L(8)>>) /\ Ready /\ eager
    \/ At(22, <<L(8)>>) /\ Ready
    \/ At(23, <<L(8)>>) /\ Ready
    \/ At(8, <<>>) /\ Ready
    \/ At(17, <<L(9)>>) /\ Ready
    \/ At(18, <<L(9)>>) /\ Ready
    \/ At(19, <<LazyOffset, L(9)>>) /\ Ready
    \/ At(20, <<Word - 1, LazyOffset, L(9)>>) /\ Ready
    \/ At(14, <<Word - 1, LazyOffset, L(9)>>)
    \/ At(15, <<LazyOffset, L(9)>>)
    \/ At(16, <<L(9)>>) /\ regs["eax"] = LazyOffset
    \/ At(9, <<>>) /\ regs["eax"] = LazyOffset

Leaving == ip = ExitAt /\ Len(stack) = 1 /\ regs["eax"] = Written[program]

LEMMA RawConstants ==
    ASSUME UNCHANGED <<program, place, eager>>
    PROVE  /\ \A k : L(k)' = L(k)
           /\ \A f : Slot(f)' = Slot(f)
           /\ \A a : W(place.got + a)' = W(place.got + a)
           /\ ExitAt' = ExitAt /\ Bound' = Bound
BY DEF L, W, Slot, ExitAt, Bound

LEMMA FrameStays ==
    ASSUME RawFrame, UNCHANGED <<program, place, eager, words>>, DOMAIN regs' = DOMAIN regs
    PROVE  RawFrame'
BY DEF RawFrame, Data, Slot, Bound, Datum, Retval, W, L, ExitAt, GOT

LEMMA CallsLabel ==
    ASSUME place \in Placements, NEW k \in 1..29, ip = L(k), NEW j \in 1..30,
           Executes(I("call", None, Imm(L(j))))
    PROVE  ip' = L(j) /\ stack' = <<L(k + 1)>> \o stack /\ UNCHANGED <<regs, words, zf>>
<1>1. Value(Imm(L(j))) = L(j)
    BY Labels DEF Value, Imm
<1>2. Next1 = L(k + 1)
    BY FetchNext
<1>3. ip' = Value(Imm(L(j))) /\ stack' = <<Next1>> \o stack /\ UNCHANGED <<regs, words, zf>>
    BY Calls
<1>. QED  BY <1>1, <1>2, <1>3

(* An access to a slot of the table, relative to its start. *)
LEMMA ReadsSlot ==
    ASSUME RawFrame, NEW f \in DOMAIN SlotOf, NEW r \in Machine, regs[r] = place.got
    PROVE  /\ Address(Mem(GOT(f), r, "none")) = Slot(f)
           /\ Value(Mem(GOT(f), r, "none")) = Bound[f]
<1>1. GOT(f) \in Int /\ place.got \in Int
    BY PlaceFacts DEF RawFrame, GOT, SlotOf
<1>2. Address(Mem(GOT(f), r, "none")) = W(GOT(f) + place.got)
    BY <1>1, Based
<1>3. GOT(f) + place.got = place.got + GOT(f)
    BY <1>1
<1>4. Address(Mem(GOT(f), r, "none")) = Slot(f)
    BY <1>2, <1>3 DEF Slot
<1>. QED  BY <1>4, Contents DEF RawFrame

(* An access to a word of the program, wherever its address is from. *)
LEMMA ReadsDatum ==
    ASSUME RawFrame, program # "min_plt", NEW j \in Data, NEW d, NEW r, NEW i,
           Address(Mem(d, r, i)) = Datum(j)
    PROVE  Value(Mem(d, r, i)) = retval[program][j]
BY Contents DEF RawFrame

LEMMA MinRun ==
    ASSUME RawFrame, program = "min", MinPoint, RawNext
    PROVE  RawFrame' /\ (MinPoint' \/ Leaving')
<1>1. DOMAIN Text \subseteq 1..29 /\ place \in Placements
    BY DEF Text, min, RawFrame
<1>2. CASE At(1, <<>>)
  <2>1. Executes(I("mov", Reg("eax"), Mem(Retval, "none", "none")))
        /\ UNCHANGED <<program, place, eager>>
      BY <1>1, <1>2, Fetch DEF At, Text, min
  <2>2. Value(Mem(Retval, "none", "none")) = 33
    <3>1. 1 \in Data /\ retval[program][1] = 33
        BY DEF Data, retval
    <3>2. W(Retval) = Datum(1) /\ Retval \in Int
        BY <1>1, PlaceFacts DEF Datum, Retval
    <3>. QED  BY <3>1, <3>2, Absolute, ReadsDatum
  <2>3. regs' = [regs EXCEPT !["eax"] = 33] /\ ip' = L(2) /\ UNCHANGED <<words, stack>>
    <3>1. regs' = [regs EXCEPT !["eax"] = 33] /\ ip' = Next1 /\ UNCHANGED <<words, stack>>
        BY <2>1, <2>2, Loads
    <3>2. Next1 = L(2)
        BY <1>1, <1>2, FetchNext DEF At
    <3>. QED  BY <3>1, <3>2
  <2>4. regs'["eax"] = 33 /\ DOMAIN regs' = DOMAIN regs
      BY <2>3 DEF RawFrame, Machine
  <2>. QED  BY <1>2, <2>1, <2>3, <2>4, FrameStays, RawConstants DEF At, MinPoint
<1>3. CASE At(2, <<>>) /\ regs["eax"] = 33
  <2>1. Executes(I("call", None, Imm(ExitAt))) /\ UNCHANGED <<program, place, eager>>
      BY <1>1, <1>3, Fetch DEF At, Text, min
  <2>2. ip' = ExitAt /\ stack' = <<L(3)>> /\ UNCHANGED <<regs, words>>
      BY <1>1, <1>3, <2>1, CallsLabel, Stacks DEF At, ExitAt
  <2>. QED  BY <1>3, <2>1, <2>2, FrameStays, RawConstants, Stacks DEF Leaving, Written
<1>. QED  BY <1>2, <1>3 DEF MinPoint

LEMMA GotRun ==
    ASSUME RawFrame, program = "min_got", GotPoint, RawNext
    PROVE  RawFrame' /\ (GotPoint' \/ Leaving')
<1>1. DOMAIN Text \subseteq 1..29 /\ place \in Placements
    BY DEF Text, min_got, RawFrame
<1>2. CASE At(1, <<>>)
  <2>1. Executes(I("call", None, Imm(L(2)))) /\ UNCHANGED <<program, place, eager>>
      BY <1>1, <1>2, Fetch DEF At, Text, min_got
  <2>2. ip' = L(2) /\ stack' = <<L(2)>> /\ UNCHANGED <<regs, words>>
      BY <1>1, <1>2, <2>1, CallsLabel, Stacks DEF At
  <2>. QED  BY <2>1, <2>2, FrameStays, RawConstants DEF At, GotPoint
<1>3. CASE At(2, <<L(2)>>)
  <2>1. Executes(I("pop", Reg("ebx"), None)) /\ UNCHANGED <<program, place, eager>>
      BY <1>1, <1>3, Fetch DEF At, Text, min_got
  <2>2. Next1 = L(3) /\ stack[1] = L(2) /\ Tail(stack) = <<>>
      BY <1>1, <1>3, FetchNext, Stacks DEF At
  <2>3. regs' = [regs EXCEPT !["ebx"] = L(2)] /\ ip' = L(3) /\ stack' = <<>> /\ words' = words
      BY <2>1, <2>2, Pops
  <2>4. regs'["ebx"] = L(2) /\ DOMAIN regs' = DOMAIN regs
      BY <2>3 DEF RawFrame, Machine
  <2>. QED  BY <2>1, <2>3, <2>4, FrameStays, RawConstants DEF At, GotPoint
<1>4. CASE At(3, <<>>) /\ regs["ebx"] = L(2)
  <2>1. Executes(I("add", Reg("ebx"), Imm(GOTPC(3) + 1))) /\ UNCHANGED <<program, place, eager>>
      BY <1>1, <1>4, Fetch DEF At, Text, min_got
  <2>2. Next1 = L(4) /\ W(regs["ebx"] + Value(Imm(GOTPC(3) + 1))) = place.got
      BY <1>1, <1>4, FetchNext, Relative DEF At
  <2>3. regs' = [regs EXCEPT !["ebx"] = place.got] /\ ip' = L(4) /\ UNCHANGED <<words, stack>>
      BY <2>1, <2>2, Adds
  <2>4. regs'["ebx"] = place.got /\ DOMAIN regs' = DOMAIN regs
      BY <2>3 DEF RawFrame, Machine
  <2>. QED  BY <1>4, <2>1, <2>3, <2>4, FrameStays, RawConstants DEF At, GotPoint
<1>5. CASE At(4, <<>>) /\ regs["ebx"] = place.got
  <2>1. Executes(I("mov", Reg("eax"), Mem(GOTOFF(Retval), "ebx", "none")))
        /\ UNCHANGED <<program, place, eager>>
      BY <1>1, <1>5, Fetch DEF At, Text, min_got
  <2>2. Value(Mem(GOTOFF(Retval), "ebx", "none")) = 42
    <3>1. 1 \in Data /\ retval[program][1] = 42
        BY DEF Data, retval
    <3>2. GOTOFF(Retval) \in Int /\ place.got \in Int
          /\ W(GOTOFF(Retval) + place.got + 4 * 0) = Datum(0 + 1)
        BY <1>1, Relative, PlaceFacts
    <3>3. Address(Mem(GOTOFF(Retval), "ebx", "none")) = W(GOTOFF(Retval) + place.got)
        BY <1>5, <3>2, Based DEF Machine
    <3>4. W(GOTOFF(Retval) + place.got) = Datum(1)
        BY <3>2
    <3>. QED  BY <3>1, <3>3, <3>4, ReadsDatum
  <2>3. Next1 = L(5)
      BY <1>1, <1>5, FetchNext DEF At
  <2>4. regs' = [regs EXCEPT !["eax"] = 42] /\ ip' = L(5) /\ UNCHANGED <<words, stack>>
      BY <2>1, <2>2, <2>3, Loads
  <2>5. regs'["eax"] = 42 /\ regs'["ebx"] = regs["ebx"] /\ DOMAIN regs' = DOMAIN regs
      BY <2>4 DEF RawFrame, Machine
  <2>. QED  BY <1>5, <2>1, <2>4, <2>5, FrameStays, RawConstants DEF At, GotPoint
<1>6. CASE At(5, <<>>) /\ regs["ebx"] = place.got /\ regs["eax"] = 42
  <2>1. Executes(I("call", None, Mem(GOT("_exit"), "ebx", "none")))
        /\ UNCHANGED <<program, place, eager>>
      BY <1>1, <1>6, Fetch DEF At, Text, min_got
  <2>2. Value(Mem(GOT("_exit"), "ebx", "none")) = ExitAt
      BY <1>6, ReadsSlot DEF SlotOf, Bound, Machine
  <2>3. ip' = ExitAt /\ stack' = <<Next1>> /\ UNCHANGED <<regs, words>>
      BY <1>6, <2>1, <2>2, Calls, Stacks DEF At
  <2>. QED  BY <1>6, <2>1, <2>3, FrameStays, RawConstants, Stacks DEF Leaving, Written
<1>. QED  BY <1>2, <1>3, <1>4, <1>5, <1>6 DEF GotPoint

LEMMA HarderRun ==
    ASSUME RawFrame, program = "min_got_harder", HarderPoint, RawNext
    PROVE  RawFrame' /\ (HarderPoint' \/ Leaving')
<1>1. DOMAIN Text \subseteq 1..29 /\ place \in Placements
    BY DEF Text, min_got_harder, RawFrame
<1>2. CASE At(1, <<>>)
  <2>1. Executes(I("call", None, Imm(L(9)))) /\ UNCHANGED <<program, place, eager>>
      BY <1>1, <1>2, Fetch DEF At, Text, min_got_harder
  <2>2. ip' = L(9) /\ stack' = <<L(2)>> /\ UNCHANGED <<regs, words>>
      BY <1>1, <1>2, <2>1, CallsLabel, Stacks DEF At
  <2>. QED  BY <2>1, <2>2, FrameStays, RawConstants DEF At, HarderPoint
<1>3. CASE At(9, <<L(2)>>)
  <2>1. Executes(I("top", Reg("ecx"), None)) /\ UNCHANGED <<program, place, eager>>
      BY <1>1, <1>3, Fetch DEF At, Text, min_got_harder
  <2>2. Next1 = L(10) /\ stack[1] = L(2)
      BY <1>1, <1>3, FetchNext DEF At
  <2>3. regs' = [regs EXCEPT !["ecx"] = L(2)] /\ ip' = L(10) /\ UNCHANGED <<stack, words>>
      BY <2>1, <2>2, Tops
  <2>4. regs'["ecx"] = L(2) /\ DOMAIN regs' = DOMAIN regs
      BY <2>3 DEF RawFrame, Machine
  <2>. QED  BY <1>3, <2>1, <2>3, <2>4, FrameStays, RawConstants DEF At, HarderPoint
<1>4. CASE At(10, <<L(2)>>) /\ regs["ecx"] = L(2)
  <2>1. Executes(I("ret", None, None)) /\ UNCHANGED <<program, place, eager>>
      BY <1>1, <1>4, Fetch DEF At, Text, min_got_harder
  <2>2. ip' = L(2) /\ stack' = <<>> /\ UNCHANGED <<regs, words>>
      BY <1>4, <2>1, Returns, Stacks DEF At
  <2>. QED  BY <1>4, <2>1, <2>2, FrameStays, RawConstants DEF At, HarderPoint
<1>5. CASE At(2, <<>>) /\ regs["ecx"] = L(2)
  <2>1. Executes(I("add", Reg("ecx"), Imm(GOTPC(2)))) /\ UNCHANGED <<program, place, eager>>
      BY <1>1, <1>5, Fetch DEF At, Text, min_got_harder
  <2>2. Next1 = L(3) /\ W(regs["ecx"] + Value(Imm(GOTPC(2)))) = place.got
      BY <1>1, <1>5, FetchNext, Relative DEF At
  <2>3. regs' = [regs EXCEPT !["ecx"] = place.got] /\ ip' = L(3) /\ UNCHANGED <<words, stack>>
      BY <2>1, <2>2, Adds
  <2>4. regs'["ecx"] = place.got /\ DOMAIN regs' = DOMAIN regs
      BY <2>3 DEF RawFrame, Machine
  <2>. QED  BY <1>5, <2>1, <2>3, <2>4, FrameStays, RawConstants DEF At, HarderPoint
<1>6. CASE At(3, <<>>) /\ regs["ecx"] = place.got
  <2>1. Executes(I("lea", Reg("edx"), Mem(GOT("_exit"), "ecx", "none")))
        /\ UNCHANGED <<program, place, eager>>
      BY <1>1, <1>6, Fetch DEF At, Text, min_got_harder
  <2>2. Next1 = L(4) /\ Address(Mem(GOT("_exit"), "ecx", "none")) = Slot("_exit")
      BY <1>1, <1>6, FetchNext, ReadsSlot DEF At, SlotOf, Machine
  <2>3. regs' = [regs EXCEPT !["edx"] = Slot("_exit")] /\ ip' = L(4) /\ UNCHANGED <<words, stack>>
      BY <2>1, <2>2, Leas
  <2>4. regs'["edx"] = Slot("_exit") /\ regs'["ecx"] = regs["ecx"] /\ DOMAIN regs' = DOMAIN regs
      BY <2>3 DEF RawFrame, Machine
  <2>. QED  BY <1>6, <2>1, <2>3, <2>4, FrameStays, RawConstants DEF At, HarderPoint
<1>7. CASE At(4, <<>>) /\ regs["ecx"] = place.got /\ regs["edx"] = Slot("_exit")
  <2>1. Executes(I("mov", Reg("ebx"), Imm(7))) /\ UNCHANGED <<program, place, eager>>
      BY <1>1, <1>7, Fetch DEF At, Text, min_got_harder
  <2>2. Next1 = L(5) /\ Value(Imm(7)) = 7
      BY <1>1, <1>7, FetchNext, Immediate, WordFacts DEF At
  <2>3. regs' = [regs EXCEPT !["ebx"] = 7] /\ ip' = L(5) /\ UNCHANGED <<words, stack>>
      BY <2>1, <2>2, Loads
  <2>4. /\ regs'["ebx"] = 7 /\ regs'["ecx"] = regs["ecx"] /\ regs'["edx"] = regs["edx"]
        /\ DOMAIN regs' = DOMAIN regs
      BY <2>3 DEF RawFrame, Machine
  <2>. QED  BY <1>7, <2>1, <2>3, <2>4, FrameStays, RawConstants DEF At, HarderPoint
<1>8. CASE /\ At(5, <<>>) /\ regs["ecx"] = place.got /\ regs["edx"] = Slot("_exit")
           /\ regs["ebx"] = 7
  <2>1. Executes(I("mov", Reg("eax"), Mem(GOTOFF(Retval), "ecx", "ebx")))
        /\ UNCHANGED <<program, place, eager>>
      BY <1>1, <1>8, Fetch DEF At, Text, min_got_harder
  <2>2. Value(Mem(GOTOFF(Retval), "ecx", "ebx")) = 82
    <3>1. 8 \in Data /\ retval[program][8] = 82
        BY DEF Data, retval
    <3>2. W(GOTOFF(Retval) + place.got + 4 * 7) = Datum(7 + 1)
        BY <1>1, Relative
    <3>3. Address(Mem(GOTOFF(Retval), "ecx", "ebx")) = W(GOTOFF(Retval) + place.got + 4 * 7)
        BY <1>8 DEF Address, Mem, Register
    <3>4. Address(Mem(GOTOFF(Retval), "ecx", "ebx")) = Datum(8)
        BY <3>2, <3>3
    <3>. QED  BY <3>1, <3>4, ReadsDatum
  <2>3. Next1 = L(6)
      BY <1>1, <1>8, FetchNext DEF At
  <2>4. regs' = [regs EXCEPT !["eax"] = 82] /\ ip' = L(6) /\ UNCHANGED <<words, stack>>
      BY <2>1, <2>2, <2>3, Loads
  <2>5. /\ regs'["eax"] = 82 /\ regs'["ecx"] = regs["ecx"] /\ regs'["edx"] = regs["edx"]
        /\ DOMAIN regs' = DOMAIN regs
      BY <2>4 DEF RawFrame, Machine
  <2>. QED  BY <1>8, <2>1, <2>4, <2>5, FrameStays, RawConstants DEF At, HarderPoint
<1>9. CASE /\ At(6, <<>>) /\ regs["ecx"] = place.got /\ regs["edx"] = Slot("_exit")
           /\ regs["eax"] = 82
  <2>1. Executes(I("add", Reg("ecx"), Imm(GOTOFF(Retval) + 4)))
        /\ UNCHANGED <<program, place, eager>>
      BY <1>1, <1>9, Fetch DEF At, Text, min_got_harder
  <2>2. /\ Next1 = L(7)
        /\ W(regs["ecx"] + Value(Imm(GOTOFF(Retval) + 4))) = W(place.rodata + 4)
      BY <1>1, <1>9, FetchNext, Relative DEF At
  <2>3. regs' = [regs EXCEPT !["ecx"] = W(place.rodata + 4)] /\ ip' = L(7) /\ UNCHANGED <<words, stack>>
      BY <2>1, <2>2, Adds
  <2>4. /\ regs'["ecx"] = W(place.rodata + 4) /\ regs'["eax"] = regs["eax"]
        /\ regs'["edx"] = regs["edx"] /\ DOMAIN regs' = DOMAIN regs
      BY <2>3 DEF RawFrame, Machine
  <2>5. W(place.rodata + 4)' = W(place.rodata + 4)
      BY <2>1 DEF W
  <2>. QED  BY <1>9, <2>1, <2>3, <2>4, <2>5, FrameStays, RawConstants DEF At, HarderPoint
<1>10. CASE /\ At(7, <<>>) /\ regs["ecx"] = W(place.rodata + 4) /\ regs["edx"] = Slot("_exit")
            /\ regs["eax"] = 82
  <2>1. Executes(I("add", Reg("eax"), Mem(4, "ecx", "none")))
        /\ UNCHANGED <<program, place, eager>>
      BY <1>1, <1>10, Fetch DEF At, Text, min_got_harder
  <2>2. Value(Mem(4, "ecx", "none")) = 32
    <3>1. 3 \in Data /\ retval[program][3] = 32
        BY DEF Data, retval
    <3>2. place.rodata + 4 \in Int
        BY <1>1, PlaceFacts
    <3>3. regs["ecx"] \in Int
        BY <1>10, <3>2, Wrapped
    <3>4. Address(Mem(4, "ecx", "none")) = Datum(3)
        BY <1>1, <1>10, <3>3, Based, Relative DEF Machine
    <3>. QED  BY <3>1, <3>4, ReadsDatum
  <2>3. Next1 = L(8) /\ W(82 + 32) = 114
      BY <1>1, <1>10, FetchNext, Wrapped, WordFacts DEF At
  <2>4. regs' = [regs EXCEPT !["eax"] = 114] /\ ip' = L(8) /\ UNCHANGED <<words, stack>>
      BY <1>10, <2>1, <2>2, <2>3, Adds
  <2>5. /\ regs'["eax"] = 114 /\ regs'["edx"] = regs["edx"] /\ DOMAIN regs' = DOMAIN regs
      BY <2>4 DEF RawFrame, Machine
  <2>. QED  BY <1>10, <2>1, <2>4, <2>5, FrameStays, RawConstants DEF At, HarderPoint
<1>11. CASE At(8, <<>>) /\ regs["edx"] = Slot("_exit") /\ regs["eax"] = 114
  <2>1. Executes(I("call", None, Mem(0, "edx", "none"))) /\ UNCHANGED <<program, place, eager>>
      BY <1>1, <1>11, Fetch DEF At, Text, min_got_harder
  <2>2. Value(Mem(0, "edx", "none")) = ExitAt
    <3>1. place.got + GOT("_exit") \in Int
        BY <1>1, PlaceFacts DEF GOT, SlotOf
    <3>2. Slot("_exit") \in 0..(Word - 1) /\ Slot("_exit") \in Int
        BY <3>1, Wrapped DEF Slot
    <3>3. Address(Mem(0, "edx", "none")) = W(0 + Slot("_exit"))
        BY <1>11, <3>2, Based DEF Machine
    <3>4. Address(Mem(0, "edx", "none")) = Slot("_exit")
        BY <3>2, <3>3, Wrapped
    <3>5. "_exit" \in DOMAIN SlotOf /\ Bound["_exit"] = ExitAt
        BY DEF SlotOf, Bound
    <3>. QED  BY <3>4, <3>5, Contents DEF RawFrame
  <2>3. ip' = ExitAt /\ stack' = <<Next1>> /\ UNCHANGED <<regs, words>>
      BY <1>11, <2>1, <2>2, Calls, Stacks DEF At
  <2>. QED  BY <1>11, <2>1, <2>3, FrameStays, RawConstants, Stacks DEF Leaving, Written
<1>. QED  BY <1>2, <1>3, <1>4, <1>5, <1>6, <1>7, <1>8, <1>9, <1>10, <1>11 DEF HarderPoint

LEMMA ReadyStays ==
    ASSUME UNCHANGED <<place, words>>
    PROVE  Ready' = Ready /\ Registered(4, Word - 1)' = Registered(4, Word - 1)
BY DEF Ready, Registered, W, L

(* Storing into the reserved words of the table.                             *)
LEMMA StoresReserved ==
    ASSUME RawFrame, program = "min_plt", UNCHANGED <<program, place, eager, regs>>, NEW a \in {4, 8}, NEW v,
           words' = Stored(W(place.got + a), v)
    PROVE  /\ RawFrame'
           /\ words'[W(place.got + a)] = v /\ W(place.got + a) \in DOMAIN words'
           /\ a = 8 /\ Registered(4, Word - 1) => Registered(4, Word - 1)'
<1>1. \A f \in DOMAIN SlotOf : W(place.got + a) # Slot(f)
    BY AddressesApart DEF RawFrame
<1>2. W(place.got + 4) # W(place.got + 8)
    BY AddressesApart DEF RawFrame
<1>3. /\ DOMAIN words' = DOMAIN words \cup {W(place.got + a)}
      /\ words'[W(place.got + a)] = v
      /\ \A b \in DOMAIN words : b # W(place.got + a) => words'[b] = words[b]
    BY DEF Stored
<1>4. \A f \in DOMAIN SlotOf : Slot(f) \in DOMAIN words' /\ words'[Slot(f)] = Bound[f]
    BY <1>1, <1>3 DEF RawFrame
<1>5. \A f \in DOMAIN SlotOf : Slot(f)' \in DOMAIN words' /\ words'[Slot(f)'] = Bound'[f]
    BY <1>4, RawConstants
<1>6. RawFrame'
    BY <1>5 DEF RawFrame
<1>7. a = 8 /\ Registered(4, Word - 1) => Registered(4, Word - 1)'
  <2>1. W(place.got + 4)' = W(place.got + 4)
      BY RawConstants
  <2>. QED  BY <1>2, <1>3, <2>1 DEF Registered
<1>. QED  BY <1>3, <1>6, <1>7

LEMMA PltRun ==
    ASSUME RawFrame, program = "min_plt", PltPoint, RawNext
    PROVE  RawFrame' /\ (PltPoint' \/ Leaving')
<1>1. DOMAIN Text \subseteq 1..29 /\ place \in Placements
    BY PltText DEF RawFrame
<1>2. CASE At(1, <<>>)
  <2>1. Executes(I("call", None, Imm(L(2)))) /\ UNCHANGED <<program, place, eager>>
    <3>1. Text[1] = I("call", None, Imm(L(2)))
      <4>1. Text[1] = plt_start[1]
          BY PltText
      <4>. QED  BY <4>1 DEF plt_start
    <3>2. ip = L(1)
        BY <1>2 DEF At
    <3>. QED  BY <1>1, <3>1, <3>2, Fetch
  <2>2. ip' = L(2) /\ stack' = <<L(2)>> /\ UNCHANGED <<regs, words, zf>>
      BY <1>1, <1>2, <2>1, CallsLabel, Stacks DEF At
  <2>. QED  BY <1>1, <1>2, <2>1, <2>2, FrameStays, RawConstants, ReadyStays DEF At, PltPoint
<1>3. CASE At(2, <<L(2)>>)
  <2>1. Executes(I("pop", Reg("ebx"), None)) /\ UNCHANGED <<program, place, eager>>
    <3>1. Text[2] = I("pop", Reg("ebx"), None)
      <4>1. Text[2] = plt_start[2]
          BY PltText
      <4>. QED  BY <4>1 DEF plt_start
    <3>2. ip = L(2)
        BY <1>3 DEF At
    <3>. QED  BY <1>1, <3>1, <3>2, Fetch
  <2>2. Next1 = L(3) /\ stack[1] = L(2) /\ Tail(stack) = <<>>
      BY <1>1, <1>3, FetchNext, Stacks DEF At
  <2>3. regs' = [regs EXCEPT !["ebx"] = L(2)] /\ ip' = L(3) /\ stack' = <<>> /\ words' = words
      BY <2>1, <2>2, Pops
  <2>4. regs'["ebx"] = L(2) /\ DOMAIN regs' = DOMAIN regs
      BY <2>3 DEF RawFrame, Machine
  <2>. QED  BY <1>1, <1>3, <2>1, <2>2, <2>3, <2>4, FrameStays, RawConstants, ReadyStays DEF At, PltPoint
<1>4. CASE At(3, <<>>) /\ regs["ebx"] = L(2)
  <2>1. Executes(I("add", Reg("ebx"), Imm(GOTPC(3) + 1))) /\ UNCHANGED <<program, place, eager>>
    <3>1. Text[3] = I("add", Reg("ebx"), Imm(GOTPC(3) + 1))
      <4>1. Text[3] = plt_start[3]
          BY PltText
      <4>. QED  BY <4>1 DEF plt_start
    <3>2. ip = L(3)
        BY <1>4 DEF At
    <3>. QED  BY <1>1, <3>1, <3>2, Fetch
  <2>2. Next1 = L(4) /\ W(regs["ebx"] + Value(Imm(GOTPC(3) + 1))) = place.got
      BY <1>1, <1>4, FetchNext, Relative DEF At
  <2>3. regs' = [regs EXCEPT !["ebx"] = place.got] /\ ip' = L(4) /\ UNCHANGED <<words, stack>>
      BY <2>1, <2>2, Adds
  <2>4. regs'["ebx"] = place.got /\ DOMAIN regs' = DOMAIN regs
      BY <2>3 DEF RawFrame, Machine
  <2>. QED  BY <1>1, <1>4, <2>1, <2>2, <2>3, <2>4, FrameStays, RawConstants, ReadyStays DEF At, PltPoint
<1>5. CASE At(4, <<>>) /\ regs["ebx"] = place.got
  <2>1. Executes(I("call", None, Imm(L(10)))) /\ UNCHANGED <<program, place, eager>>
    <3>1. Text[4] = I("call", None, Imm(L(10)))
      <4>1. Text[4] = plt_start[4]
          BY PltText
      <4>. QED  BY <4>1 DEF plt_start
    <3>2. ip = L(4)
        BY <1>5 DEF At
    <3>. QED  BY <1>1, <3>1, <3>2, Fetch
  <2>2. ip' = L(10) /\ stack' = <<L(5)>> /\ UNCHANGED <<regs, words, zf>>
      BY <1>1, <1>5, <2>1, CallsLabel, Stacks DEF At
  <2>. QED  BY <1>1, <1>5, <2>1, <2>2, FrameStays, RawConstants, ReadyStays DEF At, PltPoint
<1>6. CASE At(10, <<L(5)>>) /\ regs["ebx"] = place.got
  <2>1. Executes(I("mov", Mem(4, "ebx", "none"), Imm(Word - 1))) /\ UNCHANGED <<program, place, eager>>
    <3>1. Text[10] = I("mov", Mem(4, "ebx", "none"), Imm(Word - 1))
      <4>1. Text[9 + 1] = relocate[1]
          BY PltText
      <4>. QED  BY <4>1 DEF relocate
    <3>2. ip = L(10)
        BY <1>6 DEF At
    <3>. QED  BY <1>1, <3>1, <3>2, Fetch
  <2>2. Next1 = L(11) /\ Value(Imm(Word - 1)) = Word - 1
      BY <1>1, <1>6, FetchNext, Immediate, WordFacts DEF At
  <2>3. Address(Mem(4, "ebx", "none")) = W(place.got + 4)
    <3>1. place.got \in Int /\ 4 + place.got = place.got + 4
        BY <1>1, PlaceFacts
    <3>. QED  BY <1>6, <3>1, Based DEF Machine
  <2>4. words' = Stored(W(place.got + 4), Word - 1) /\ ip' = L(11) /\ UNCHANGED <<regs, stack>>
      BY <2>1, <2>2, <2>3, Stores
  <2>5. RawFrame' /\ words'[W(place.got + 4)] = Word - 1 /\ W(place.got + 4) \in DOMAIN words'
      BY <2>1, <2>4, StoresReserved
  <2>6. Registered(4, Word - 1)'
      BY <2>1, <2>5, RawConstants DEF Registered
  <2>. QED  BY <1>1, <1>6, <2>1, <2>2, <2>3, <2>4, <2>5, <2>6, RawConstants DEF At, PltPoint
<1>7. CASE At(11, <<L(5)>>) /\ regs["ebx"] = place.got /\ Registered(4, Word - 1)
  <2>1. Executes(I("mov", Reg("edx"), Mem(GOT("find"), "ebx", "none"))) /\ UNCHANGED <<program, place, eager>>
    <3>1. Text[11] = I("mov", Reg("edx"), Mem(GOT("find"), "ebx", "none"))
      <4>1. Text[9 + 2] = relocate[2]
          BY PltText
      <4>. QED  BY <4>1 DEF relocate
    <3>2. ip = L(11)
        BY <1>7 DEF At
    <3>. QED  BY <1>1, <3>1, <3>2, Fetch
  <2>2. Next1 = L(12)
      BY <1>1, <1>7, FetchNext DEF At
  <2>3. Value(Mem(GOT("find"), "ebx", "none")) = L(14)
      BY <1>7, ReadsSlot DEF SlotOf, Bound, Machine
  <2>4. regs' = [regs EXCEPT !["edx"] = L(14)] /\ ip' = L(12) /\ UNCHANGED <<words, stack>>
      BY <2>1, <2>2, <2>3, Loads
  <2>5. regs'["edx"] = L(14) /\ regs'["ebx"] = regs["ebx"] /\ DOMAIN regs' = DOMAIN regs
      BY <2>4 DEF RawFrame, Machine
  <2>. QED  BY <1>1, <1>7, <2>1, <2>2, <2>3, <2>4, <2>5, FrameStays, RawConstants, ReadyStays DEF At, PltPoint
<1>8. CASE At(12, <<L(5)>>) /\ regs["ebx"] = place.got /\ Registered(4, Word - 1) /\ regs["edx"] = L(14)
  <2>1. Executes(I("mov", Mem(8, "ebx", "none"), Reg("edx"))) /\ UNCHANGED <<program, place, eager>>
    <3>1. Text[12] = I("mov", Mem(8, "ebx", "none"), Reg("edx"))
      <4>1. Text[9 + 3] = relocate[3]
          BY PltText
      <4>. QED  BY <4>1 DEF relocate
    <3>2. ip = L(12)
        BY <1>8 DEF At
    <3>. QED  BY <1>1, <3>1, <3>2, Fetch
  <2>2. Next1 = L(13) /\ Value(Reg("edx")) = L(14)
      BY <1>1, <1>8, FetchNext, ValueReg DEF At
  <2>3. Address(Mem(8, "ebx", "none")) = W(place.got + 8)
    <3>1. place.got \in Int /\ 8 + place.got = place.got + 8
        BY <1>1, PlaceFacts
    <3>. QED  BY <1>8, <3>1, Based DEF Machine
  <2>4. words' = Stored(W(place.got + 8), L(14)) /\ ip' = L(13) /\ UNCHANGED <<regs, stack>>
      BY <2>1, <2>2, <2>3, Stores
  <2>5. /\ RawFrame' /\ words'[W(place.got + 8)] = L(14) /\ W(place.got + 8) \in DOMAIN words'
        /\ Registered(4, Word - 1)'
      BY <1>8, <2>1, <2>4, StoresReserved
  <2>6. Ready'
      BY <2>1, <2>5, RawConstants DEF Ready, Registered
  <2>. QED  BY <1>1, <1>8, <2>1, <2>2, <2>3, <2>4, <2>5, <2>6, RawConstants DEF At, PltPoint
<1>9. CASE At(13, <<L(5)>>) /\ regs["ebx"] = place.got /\ Ready
  <2>1. Executes(I("ret", None, None)) /\ UNCHANGED <<program, place, eager>>
    <3>1. Text[13] = I("ret", None, None)
      <4>1. Text[9 + 4] = relocate[4]
          BY PltText
      <4>. QED  BY <4>1 DEF relocate
    <3>2. ip = L(13)
        BY <1>9 DEF At
    <3>. QED  BY <1>1, <3>1, <3>2, Fetch
  <2>2. ip' = L(5) /\ stack' = <<>> /\ UNCHANGED <<regs, words, zf>>
      BY <1>9, <2>1, Returns, Stacks DEF At
  <2>. QED  BY <1>1, <1>9, <2>1, <2>2, FrameStays, RawConstants, ReadyStays DEF At, PltPoint
<1>10. CASE At(5, <<>>) /\ regs["ebx"] = place.got /\ Ready
  <2>1. Executes(I("cmp", None, Mem(GOT("eager_glob_dat"), "ebx", "none"))) /\ UNCHANGED <<program, place, eager>>
    <3>1. Text[5] = I("cmp", None, Mem(GOT("eager_glob_dat"), "ebx", "none"))
      <4>1. Text[5] = plt_start[5]
          BY PltText
      <4>. QED  BY <4>1 DEF plt_start
    <3>2. ip = L(5)
        BY <1>10 DEF At
    <3>. QED  BY <1>1, <3>1, <3>2, Fetch
  <2>2. Next1 = L(6)
      BY <1>1, <1>10, FetchNext DEF At
  <2>3. eager \/ Value(Mem(GOT("eager_glob_dat"), "ebx", "none")) = 0
      BY <1>10, ReadsSlot DEF SlotOf, Bound, Machine
  <2>4. (zf' \/ eager') /\ ip' = L(6) /\ UNCHANGED <<regs, words, stack>>
      BY <2>1, <2>2, <2>3, Compares
  <2>. QED  BY <1>1, <1>10, <2>1, <2>2, <2>3, <2>4, FrameStays, RawConstants, ReadyStays DEF At, PltPoint
<1>11. CASE At(6, <<>>) /\ Ready /\ (zf \/ eager)
  <2>1. Executes(I("je", None, Imm(L(8)))) /\ UNCHANGED <<program, place, eager>>
    <3>1. Text[6] = I("je", None, Imm(L(8)))
      <4>1. Text[6] = plt_start[6]
          BY PltText
      <4>. QED  BY <4>1 DEF plt_start
    <3>2. ip = L(6)
        BY <1>11 DEF At
    <3>. QED  BY <1>1, <3>1, <3>2, Fetch
  <2>2. Next1 = L(7) /\ Value(Imm(L(8))) = L(8)
      BY <1>1, <1>11, FetchNext, Labels DEF At, Value, Imm
  <2>3. ip' = (IF zf THEN L(8) ELSE L(7)) /\ UNCHANGED <<regs, words, stack>>
      BY <2>1, <2>2, JumpsIf
  <2>. QED  BY <1>1, <1>11, <2>1, <2>2, <2>3, FrameStays, RawConstants, ReadyStays DEF At, PltPoint
<1>12. CASE At(7, <<>>) /\ Ready /\ eager
  <2>1. Executes(I("call", None, Imm(L(21)))) /\ UNCHANGED <<program, place, eager>>
    <3>1. Text[7] = I("call", None, Imm(L(21)))
      <4>1. Text[7] = plt_start[7]
          BY PltText
      <4>. QED  BY <4>1 DEF plt_start
    <3>2. ip = L(7)
        BY <1>12 DEF At
    <3>. QED  BY <1>1, <3>1, <3>2, Fetch
  <2>2. ip' = L(21) /\ stack' = <<L(8)>> /\ UNCHANGED <<regs, words, zf>>
      BY <1>1, <1>12, <2>1, CallsLabel, Stacks DEF At
  <2>. QED  BY <1>1, <1>12, <2>1, <2>2, FrameStays, RawConstants, ReadyStays DEF At, PltPoint
<1>13. CASE At(21, <<L(8)>>) /\ Ready /\ eager
  <2>1. Executes(I("jmp", None, Mem(Slot("eager_glob_dat"), "none", "none"))) /\ UNCHANGED <<program, place, eager>>
    <3>1. Text[21] = I("jmp", None, Mem(Slot("eager_glob_dat"), "none", "none"))
      <4>1. Text[16 + 5] = plt[5]
          BY PltText
      <4>. QED  BY <4>1 DEF plt
    <3>2. ip = L(21)
        BY <1>13 DEF At
    <3>. QED  BY <1>1, <3>1, <3>2, Fetch
  <2>2. Value(Mem(Slot("eager_glob_dat"), "none", "none")) = L(22)
    <3>1. place.got + GOT("eager_glob_dat") \in Int
        BY <1>1, PlaceFacts DEF GOT, SlotOf
    <3>2. Slot("eager_glob_dat") \in 0..(Word - 1) /\ Slot("eager_glob_dat") \in Int
        BY <3>1, Wrapped DEF Slot
    <3>3. Address(Mem(Slot("eager_glob_dat"), "none", "none")) = Slot("eager_glob_dat")
        BY <3>2, Absolute, Wrapped
    <3>4. "eager_glob_dat" \in DOMAIN SlotOf /\ Bound["eager_glob_dat"] = L(22)
        BY <1>13 DEF SlotOf, Bound
    <3>. QED  BY <3>3, <3>4, Contents DEF RawFrame
  <2>3. ip' = L(22) /\ UNCHANGED <<regs, words, stack>>
      BY <2>1, <2>2, Jumps
  <2>. QED  BY <1>1, <1>13, <2>1, <2>2, <2>3, FrameStays, RawConstants, ReadyStays DEF At, PltPoint
<1>14. CASE At(22, <<L(8)>>) /\ Ready
  <2>1. Executes(I("mov", Reg("eax"), Imm(99))) /\ UNCHANGED <<program, place, eager>>
    <3>1. Text[22] = I("mov", Reg("eax"), Imm(99))
      <4>1. Text[16 + 6] = plt[6]
          BY PltText
      <4>. QED  BY <4>1 DEF plt
    <3>2. ip = L(22)
        BY <1>14 DEF At
    <3>. QED  BY <1>1, <3>1, <3>2, Fetch
  <2>2. Next1 = L(23)
      BY <1>1, <1>14, FetchNext DEF At
  <2>3. ip' = L(23) /\ UNCHANGED <<words, stack>> /\ DOMAIN regs' = DOMAIN regs
      BY <2>1, <2>2, Loads DEF RawFrame
  <2>. QED  BY <1>1, <1>14, <2>1, <2>2, <2>3, FrameStays, RawConstants, ReadyStays DEF At, PltPoint
<1>15. CASE At(23, <<L(8)>>) /\ Ready
  <2>1. Executes(I("ret", None, None)) /\ UNCHANGED <<program, place, eager>>
    <3>1. Text[23] = I("ret", None, None)
      <4>1. Text[16 + 7] = plt[7]
          BY PltText
      <4>. QED  BY <4>1 DEF plt
    <3>2. ip = L(23)
        BY <1>15 DEF At
    <3>. QED  BY <1>1, <3>1, <3>2, Fetch
  <2>2. ip' = L(8) /\ stack' = <<>> /\ UNCHANGED <<regs, words, zf>>
      BY <1>15, <2>1, Returns, Stacks DEF At
  <2>. QED  BY <1>1, <1>15, <2>1, <2>2, FrameStays, RawConstants, ReadyStays DEF At, PltPoint
<1>16. CASE At(8, <<>>) /\ Ready
  <2>1. Executes(I("call", None, Imm(L(17)))) /\ UNCHANGED <<program, place, eager>>
    <3>1. Text[8] = I("call", None, Imm(L(17)))
      <4>1. Text[8] = plt_start[8]
          BY PltText
      <4>. QED  BY <4>1 DEF plt_start
    <3>2. ip = L(8)
        BY <1>16 DEF At
    <3>. QED  BY <1>1, <3>1, <3>2, Fetch
  <2>2. ip' = L(17) /\ stack' = <<L(9)>> /\ UNCHANGED <<regs, words, zf>>
      BY <1>1, <1>16, <2>1, CallsLabel, Stacks DEF At
  <2>. QED  BY <1>1, <1>16, <2>1, <2>2, FrameStays, RawConstants, ReadyStays DEF At, PltPoint
<1>17. CASE At(17, <<L(9)>>) /\ Ready
  <2>1. Executes(I("jmp", None, Mem(Slot("lazy_jump_slot"), "none", "none"))) /\ UNCHANGED <<program, place, eager>>
    <3>1. Text[17] = I("jmp", None, Mem(Slot("lazy_jump_slot"), "none", "none"))
      <4>1. Text[16 + 1] = plt[1]
          BY PltText
      <4>. QED  BY <4>1 DEF plt
    <3>2. ip = L(17)
        BY <1>17 DEF At
    <3>. QED  BY <1>1, <3>1, <3>2, Fetch
  <2>2. Value(Mem(Slot("lazy_jump_slot"), "none", "none")) = L(18)
    <3>1. place.got + GOT("lazy_jump_slot") \in Int
        BY <1>1, PlaceFacts DEF GOT, SlotOf
    <3>2. Slot("lazy_jump_slot") \in 0..(Word - 1) /\ Slot("lazy_jump_slot") \in Int
        BY <3>1, Wrapped DEF Slot
    <3>3. Address(Mem(Slot("lazy_jump_slot"), "none", "none")) = Slot("lazy_jump_slot")
        BY <3>2, Absolute, Wrapped
    <3>4. "lazy_jump_slot" \in DOMAIN SlotOf /\ Bound["lazy_jump_slot"] = L(18)
        BY <1>17 DEF SlotOf, Bound
    <3>. QED  BY <3>3, <3>4, Contents DEF RawFrame
  <2>3. ip' = L(18) /\ UNCHANGED <<regs, words, stack>>
      BY <2>1, <2>2, Jumps
  <2>. QED  BY <1>1, <1>17, <2>1, <2>2, <2>3, FrameStays, RawConstants, ReadyStays DEF At, PltPoint
<1>18. CASE At(18, <<L(9)>>) /\ Ready
  <2>1. Executes(I("push", None, Imm(LazyOffset))) /\ UNCHANGED <<program, place, eager>>
    <3>1. Text[18] = I("push", None, Imm(LazyOffset))
      <4>1. Text[16 + 2] = plt[2]
          BY PltText
      <4>. QED  BY <4>1 DEF plt
    <3>2. ip = L(18)
        BY <1>18 DEF At
    <3>. QED  BY <1>1, <3>1, <3>2, Fetch
  <2>2. Next1 = L(19) /\ Value(Imm(LazyOffset)) = LazyOffset
      BY <1>1, <1>18, FetchNext, Immediate, WordFacts DEF At, LazyOffset
  <2>3. stack' = <<LazyOffset, L(9)>> /\ ip' = L(19) /\ UNCHANGED <<regs, words>>
      BY <1>18, <2>1, <2>2, Pushes, Stacks DEF At
  <2>. QED  BY <1>1, <1>18, <2>1, <2>2, <2>3, FrameStays, RawConstants, ReadyStays DEF At, PltPoint
<1>19. CASE At(19, <<LazyOffset, L(9)>>) /\ Ready
  <2>1. Executes(I("push", None, Mem(W(place.got + 4), "none", "none"))) /\ UNCHANGED <<program, place, eager>>
    <3>1. Text[19] = I("push", None, Mem(W(place.got + 4), "none", "none"))
      <4>1. Text[16 + 3] = plt[3]
          BY PltText
      <4>. QED  BY <4>1 DEF plt
    <3>2. ip = L(19)
        BY <1>19 DEF At
    <3>. QED  BY <1>1, <3>1, <3>2, Fetch
  <2>2. Next1 = L(20)
      BY <1>1, <1>19, FetchNext DEF At
  <2>3. Value(Mem(W(place.got + 4), "none", "none")) = Word - 1
    <3>1. place.got + 4 \in Int
        BY <1>1, PlaceFacts
    <3>2. W(place.got + 4) \in 0..(Word - 1) /\ W(place.got + 4) \in Int
        BY <3>1, Wrapped
    <3>3. Address(Mem(W(place.got + 4), "none", "none")) = W(place.got + 4)
        BY <3>2, Absolute, Wrapped
    <3>. QED  BY <1>19, <3>3, Contents DEF Ready, Registered
  <2>4. stack' = <<Word - 1, LazyOffset, L(9)>> /\ ip' = L(20) /\ UNCHANGED <<regs, words>>
    <3>1. stack' = <<Word - 1>> \o stack /\ ip' = L(20) /\ UNCHANGED <<regs, words>>
        BY <2>1, <2>2, <2>3, Pushes
    <3>. QED  BY <1>19, <3>1, Stacks DEF At
  <2>. QED  BY <1>1, <1>19, <2>1, <2>2, <2>3, <2>4, FrameStays, RawConstants, ReadyStays DEF At, PltPoint
<1>20. CASE At(20, <<Word - 1, LazyOffset, L(9)>>) /\ Ready
  <2>1. Executes(I("jmp", None, Mem(W(place.got + 8), "none", "none"))) /\ UNCHANGED <<program, place, eager>>
    <3>1. Text[20] = I("jmp", None, Mem(W(place.got + 8), "none", "none"))
      <4>1. Text[16 + 4] = plt[4]
          BY PltText
      <4>. QED  BY <4>1 DEF plt
    <3>2. ip = L(20)
        BY <1>20 DEF At
    <3>. QED  BY <1>1, <3>1, <3>2, Fetch
  <2>2. Value(Mem(W(place.got + 8), "none", "none")) = L(14)
    <3>1. place.got + 8 \in Int
        BY <1>1, PlaceFacts
    <3>2. W(place.got + 8) \in 0..(Word - 1) /\ W(place.got + 8) \in Int
        BY <3>1, Wrapped
    <3>3. Address(Mem(W(place.got + 8), "none", "none")) = W(place.got + 8)
        BY <3>2, Absolute, Wrapped
    <3>. QED  BY <1>20, <3>3, Contents DEF Ready, Registered
  <2>3. ip' = L(14) /\ UNCHANGED <<regs, words, stack>>
      BY <2>1, <2>2, Jumps
  <2>. QED  BY <1>1, <1>20, <2>1, <2>2, <2>3, FrameStays, RawConstants, ReadyStays DEF At, PltPoint
<1>21. CASE At(14, <<Word - 1, LazyOffset, L(9)>>)
  <2>1. Executes(I("pop", Reg("eax"), None)) /\ UNCHANGED <<program, place, eager>>
    <3>1. Text[14] = I("pop", Reg("eax"), None)
      <4>1. Text[13 + 1] = find[1]
          BY PltText
      <4>. QED  BY <4>1 DEF find
    <3>2. ip = L(14)
        BY <1>21 DEF At
    <3>. QED  BY <1>1, <3>1, <3>2, Fetch
  <2>2. Next1 = L(15) /\ stack[1] = Word - 1 /\ Tail(stack) = <<LazyOffset, L(9)>>
      BY <1>1, <1>21, FetchNext, Stacks DEF At
  <2>3. regs' = [regs EXCEPT !["eax"] = Word - 1] /\ ip' = L(15) /\ stack' = <<LazyOffset, L(9)>> /\ words' = words
      BY <2>1, <2>2, Pops
  <2>4. regs'["eax"] = Word - 1 /\ DOMAIN regs' = DOMAIN regs
      BY <2>3 DEF RawFrame, Machine
  <2>. QED  BY <1>1, <1>21, <2>1, <2>2, <2>3, <2>4, FrameStays, RawConstants, ReadyStays DEF At, PltPoint
<1>22. CASE At(15, <<LazyOffset, L(9)>>)
  <2>1. Executes(I("pop", Reg("eax"), None)) /\ UNCHANGED <<program, place, eager>>
    <3>1. Text[15] = I("pop", Reg("eax"), None)
      <4>1. Text[13 + 2] = find[2]
          BY PltText
      <4>. QED  BY <4>1 DEF find
    <3>2. ip = L(15)
        BY <1>22 DEF At
    <3>. QED  BY <1>1, <3>1, <3>2, Fetch
  <2>2. Next1 = L(16) /\ stack[1] = LazyOffset /\ Tail(stack) = <<L(9)>>
      BY <1>1, <1>22, FetchNext, Stacks DEF At
  <2>3. regs' = [regs EXCEPT !["eax"] = LazyOffset] /\ ip' = L(16) /\ stack' = <<L(9)>> /\ words' = words
      BY <2>1, <2>2, Pops
  <2>4. regs'["eax"] = LazyOffset /\ DOMAIN regs' = DOMAIN regs
      BY <2>3 DEF RawFrame, Machine
  <2>. QED  BY <1>1, <1>22, <2>1, <2>2, <2>3, <2>4, FrameStays, RawConstants, ReadyStays DEF At, PltPoint
<1>23. CASE At(16, <<L(9)>>) /\ regs["eax"] = LazyOffset
  <2>1. Executes(I("ret", None, None)) /\ UNCHANGED <<program, place, eager>>
    <3>1. Text[16] = I("ret", None, None)
      <4>1. Text[13 + 3] = find[3]
          BY PltText
      <4>. QED  BY <4>1 DEF find
    <3>2. ip = L(16)
        BY <1>23 DEF At
    <3>. QED  BY <1>1, <3>1, <3>2, Fetch
  <2>2. ip' = L(9) /\ stack' = <<>> /\ UNCHANGED <<regs, words, zf>>
      BY <1>23, <2>1, Returns, Stacks DEF At
  <2>. QED  BY <1>1, <1>23, <2>1, <2>2, FrameStays, RawConstants, ReadyStays DEF At, PltPoint
<1>24. CASE At(9, <<>>) /\ regs["eax"] = LazyOffset
  <2>1. Executes(I("call", None, Imm(ExitAt))) /\ UNCHANGED <<program, place, eager>>
    <3>1. Text[9] = I("call", None, Imm(ExitAt))
      <4>1. Text[9] = plt_start[9]
          BY PltText
      <4>. QED  BY <4>1 DEF plt_start
    <3>2. ip = L(9)
        BY <1>24 DEF At
    <3>. QED  BY <1>1, <3>1, <3>2, Fetch
  <2>2. ip' = ExitAt /\ stack' = <<L(10)>> /\ UNCHANGED <<regs, words>>
      BY <1>1, <1>24, <2>1, CallsLabel, Stacks DEF At, ExitAt
  <2>. QED  BY <1>1, <1>24, <2>1, <2>2, FrameStays, RawConstants, Stacks DEF Leaving, Written
<1>. QED  BY <1>2, <1>3, <1>4, <1>5, <1>6, <1>7, <1>8, <1>9, <1>10, <1>11, <1>12, <1>13, <1>14, <1>15, <1>16, <1>17, <1>18, <1>19, <1>20, <1>21, <1>22, <1>23, <1>24 DEF PltPoint

-----------------------------------------------------------------------------
Point ==
    \/ program = "min" /\ MinPoint
    \/ program = "min_got" /\ GotPoint
    \/ program = "min_got_harder" /\ HarderPoint
    \/ program = "min_plt" /\ PltPoint

Left ==
    /\ ip = Halt /\ Len(stack) = 1
    /\ code = IF payload THEN 123 ELSE Written[program]

RawInv == RawFrame /\ (Point \/ Leaving \/ Left)

LEMMA RawInitInv == RawInit => RawInv
<1>. SUFFICES ASSUME RawInit PROVE RawInv
    OBVIOUS
<1>1. program \in DOMAIN retval /\ place \in Placements /\ words = Loaded
      /\ ip = place.text /\ stack = <<>> /\ DOMAIN regs = Machine
    BY DEF RawInit, Machine
<1>2. RawFrame
    BY <1>1, LoadedFacts DEF RawFrame
<1>3. ip = L(1)
  <2>1. place.text + 1 - 1 = place.text
      BY <1>1, PlaceFacts
  <2>. QED  BY <1>1, <2>1, PlaceFacts, Wrapped DEF L
<1>4. At(1, <<>>)
    BY <1>1, <1>3 DEF At
<1>5. program \in {"min", "min_got", "min_got_harder", "min_plt"}
    BY <1>1 DEF retval
<1>. QED  BY <1>2, <1>4, <1>5 DEF RawInv, Point, MinPoint, GotPoint, HarderPoint, PltPoint

LEMMA TextLength == ASSUME program \in DOMAIN retval PROVE DOMAIN Text \subseteq 1..29
<1>1. program = "min" => DOMAIN Text \subseteq 1..29
    BY DEF Text, min
<1>2. program = "min_got" => DOMAIN Text \subseteq 1..29
    BY DEF Text, min_got
<1>3. program = "min_got_harder" => DOMAIN Text \subseteq 1..29
    BY DEF Text, min_got_harder
<1>4. program = "min_plt" => DOMAIN Text \subseteq 1..29
    BY PltText
<1>. QED  BY <1>1, <1>2, <1>3, <1>4 DEF retval

LEMMA RawStep == RawInv /\ [RawNext]_rawVars => RawInv'
<1>. SUFFICES ASSUME RawInv, [RawNext]_rawVars PROVE RawInv'
    OBVIOUS
<1>1. RawFrame /\ place \in Placements /\ program \in DOMAIN retval
    BY DEF RawInv, RawFrame
<1>2. CASE UNCHANGED rawVars
    BY ZenonT(60), <1>2
       DEF rawVars, RawInv, RawFrame, Data, Point, Leaving, Left, At, Ready, Registered,
                MinPoint, GotPoint, HarderPoint, PltPoint, Slot, Bound, Datum, Retval, W, L,
                ExitAt, GOT
<1>3. CASE RawNext /\ Point
  <2>1. program' = program
      BY <1>3 DEF RawNext
  <2>2. CASE program = "min" /\ MinPoint
      BY <1>1, <1>3, <2>1, <2>2, MinRun DEF RawInv, Point
  <2>3. CASE program = "min_got" /\ GotPoint
      BY <1>1, <1>3, <2>1, <2>3, GotRun DEF RawInv, Point
  <2>4. CASE program = "min_got_harder" /\ HarderPoint
      BY <1>1, <1>3, <2>1, <2>4, HarderRun DEF RawInv, Point
  <2>5. CASE program = "min_plt" /\ PltPoint
      BY <1>1, <1>3, <2>1, <2>5, PltRun DEF RawInv, Point
  <2>. QED  BY <1>3, <2>2, <2>3, <2>4, <2>5 DEF Point
<1>4. CASE RawNext /\ Leaving
  <2>1. \A k \in DOMAIN Text : ip # L(k)
    <3>1. \A k \in DOMAIN Text : k \in 1..30 /\ k # 30
        BY <1>1, TextLength
    <3>2. \A k \in 1..30 : L(30) = L(k) => k = 30
        BY <1>1, Labels
    <3>. QED  BY <1>4, <3>1, <3>2 DEF Leaving, ExitAt
  <2>2. _exit /\ UNCHANGED <<program, place, eager, payload>>
      BY <1>4, <2>1 DEF RawNext, Step
  <2>3. Written[program] \in 0..255
      BY <1>1 DEF Written, retval, LazyOffset
  <2>4. Written[program] % 256 = Written[program]
      BY <2>3
  <2>5. Left'
      BY <1>4, <2>2, <2>4 DEF _exit, Leaving, Left, Halt, Written
  <2>6. RawFrame'
      BY <1>1, <2>2, FrameStays DEF _exit
  <2>. QED  BY <2>5, <2>6 DEF RawInv
<1>5. CASE RawNext /\ Left
  <2>1. \A k \in 1..30 : ip # L(k)
      BY <1>1, <1>5, Labels DEF Left
  <2>2. ip # ExitAt /\ \A k \in DOMAIN Text : ip # L(k)
      BY <1>1, <2>1, TextLength DEF ExitAt
  <2>. QED  BY <1>5, <2>2 DEF RawNext, Step, _exit
<1>. QED  BY <1>2, <1>3, <1>4, <1>5 DEF RawInv

LEMMA RawExit == RawInv => ExitAsWritten
<1>. SUFFICES ASSUME RawInv, ip = Halt PROVE ExitAsWritten
    BY DEF ExitAsWritten
<1>1. \A k \in 1..30 : L(k) # Halt
    BY Labels DEF RawInv, RawFrame
<1>2. ~Leaving
    BY <1>1 DEF Leaving, ExitAt
<1>3. ~Point
    BY <1>1 DEF Point, MinPoint, GotPoint, HarderPoint, PltPoint, At
<1>4. Left
    BY <1>2, <1>3 DEF RawInv
<1>. QED  BY <1>4 DEF Left, ExitAsWritten

(* For every placement of text, data and table, every program without a C    *)
(* library exits with the status its source says, or the payload's, and      *)
(* lazy binding in min_plt takes exactly what the stubs have pushed.         *)
THEOREM RawProgramsExit == RawInit /\ [][RawNext]_rawVars => []ExitAsWritten
<1>. QED  BY RawInitInv, RawStep, RawExit, PTL
-----------------------------------------------------------------------------
(* The boot. *)
USE DEF Layout

(* Align moves up. *)
LEMMA AlignUp ==
    ASSUME NEW x \in Nat, NEW a \in Nat \ {0}
    PROVE  Align(x, a) \in Nat /\ Align(x, a) >= x
<1>1. x % a \in 0..(a - 1)
  BY SMT
<1>2. (a - (x % a)) \in Nat
  BY <1>1
<1>3. (a - (x % a)) % a \in 0..(a - 1)
  BY <1>2
<1> QED
  BY <1>3 DEF Align

(* The sections of RAM follow one another. *)
LEMMA Ascending ==
    ASSUME NEW l \in Layout
    PROVE  /\ Tdata(l) \in Nat /\ Tbss(l) \in Nat /\ Bss(l) \in Nat /\ __bss_end(l) \in Nat
           /\ l.data <= Tdata(l) /\ Tdata(l) + l.tdata <= Tbss(l)
           /\ Tbss(l) + l.tbss <= Bss(l) /\ Bss(l) + l.bss <= __bss_end(l)
<1>1. Align(l.data, 8) \in Nat /\ Align(l.data, 8) >= l.data
  BY AlignUp
<1>2. Larger(l.tdataAlign, l.tbssAlign) \in Nat \ {0}
  BY DEF Larger
<1>3. Tdata(l) \in Nat /\ Tdata(l) >= Align(l.data, 8)
  BY <1>1, <1>2, AlignUp DEF Tdata
<1>4. __data_end(l) \in Nat
  BY <1>3 DEF __data_end
<1>5. Tbss(l) \in Nat /\ Tbss(l) >= __data_end(l)
  BY <1>4, AlignUp DEF Tbss
<1>6. Bss(l) \in Nat /\ Bss(l) >= Tbss(l) + l.tbss
  BY <1>5, AlignUp DEF Bss
<1>7. __bss_end(l) \in Nat /\ __bss_end(l) >= Bss(l) + l.bss
  BY <1>6, AlignUp DEF __bss_end
<1> QED
  BY <1>1, <1>3, <1>5, <1>6, <1>7 DEF __data_end

(* What is mapped is all of RAM, and the stack lies behind all variables.    *)
LEMMA RamMapped ==
    ASSUME NEW l \in Layouts, Links(l)
    PROVE  /\ Mapped(l) = Ram
           /\ RamLength - 1 \in Ram
           /\ InFile(l) \cup Zeroed(l) \subseteq 0..(RamLength - StackSize - 1)
           /\ __bss_end(l) <= RamLength - StackSize
<1>1. l \in Layout
  BY LayoutsAssumption
<1>2. __bss_end(l) \in Nat /\ __bss_end(l) + l.heap_min <= RamLength - StackSize
  BY <1>1, Ascending, RamAssumption DEF Links, __heap_size, __stack
<1>3. StackSectionEnd(l) = RamLength
  BY <1>1, <1>2, RamAssumption DEF StackSectionEnd, __heap_size, __stack
<1>4. \A a \in InFile(l) \cup Zeroed(l) : a \in Nat /\ a < __bss_end(l)
  BY <1>1, Ascending DEF InFile, Zeroed, __data_end
<1> QED
  BY <1>1, <1>2, <1>3, <1>4, RamAssumption DEF Mapped, Ram

(* Clearing reaches every variable without an initialiser and none with one. *)
LEMMA ClearedRight ==
    ASSUME NEW l \in Layout, NEW a
    PROVE  /\ a \in Zeroed(l) => a >= __bss_start(l) /\ a < __bss_end(l) /\ a \notin InFile(l)
           /\ a \in InFile(l) => ~(a >= __bss_start(l))
  BY Ascending DEF Zeroed, InFile, __bss_start, __data_end

(* One more initialisation function overwrites its own address only.         *)
LEMMA AfterNext ==
    ASSUME NEW a, NEW n \in Nat, n < Len(InitArray), InitArray \in Seq([at : Nat, value : STRING])
    PROVE  After(a, n + 1) = IF InitArray[n + 1].at = a THEN InitArray[n + 1].value ELSE After(a, n)
<1> DEFINE Storing(m) == {k \in 1..m : InitArray[k].at = a}
           Latest(S) == CHOOSE k \in S : \A j \in S : j <= k
           Untouched == IF a \in InFile(lay) THEN "file" ELSE "zero"
<1>1. \A m : After(a, m) =
          IF Storing(m) # {} THEN InitArray[Latest(Storing(m))].value ELSE Untouched
  BY Zenon DEF After
<1>2. CASE InitArray[n + 1].at = a
  <2>1. n + 1 \in Storing(n + 1) /\ \A j \in Storing(n + 1) : j \in Nat /\ j <= n + 1
    BY <1>2
  <2>2. Latest(Storing(n + 1)) = n + 1
    <3>1. \A k \in Storing(n + 1) : (\A j \in Storing(n + 1) : j <= k) => k = n + 1
      BY <2>1
    <3> HIDE DEF Storing
    <3> QED
      BY <2>1, <3>1
  <2>3. Storing(n + 1) # {}
    BY <2>1
  <2> HIDE DEF Storing, Latest, Untouched
  <2> QED
    BY <1>1, <1>2, <2>2, <2>3
<1>3. CASE InitArray[n + 1].at # a
  <2>1. Storing(n + 1) = Storing(n)
    BY <1>3
  <2> HIDE DEF Storing, Latest, Untouched
  <2> QED
    BY <1>1, <1>3, <2>1
<1> QED
  BY <1>2, <1>3

LEMMA AfterNone ==
    ASSUME NEW a
    PROVE  After(a, 0) = IF a \in InFile(lay) THEN "file" ELSE "zero"
<1>1. {k \in 1..0 : InitArray[k].at = a} = {}
  OBVIOUS
<1> QED
  BY <1>1 DEF After

-----------------------------------------------------------------------------
(* How far memory is, from _start to main. *)
Variables == InFile(lay) \cup Zeroed(lay)

BootInv ==
    /\ lay \in Layouts /\ Links(lay)
    /\ InitArray \in InitArrays
    /\ \A k \in DOMAIN InitArray : InitArray[k].at \in Variables
    /\ DOMAIN mem = Ram
    /\ called \in 0..Len(InitArray)
    /\ at \in {"_start", "clear", "init", "main", "exit"}
    /\ at \in {"_start", "clear"} => called = 0 /\ \A a \in InFile(lay) : mem[a] = "file"
    /\ at = "init" => \A a \in Variables : mem[a] = After(a, called)
    /\ at = "main" => \A a \in Variables : mem[a] = After(a, Len(InitArray))

LEMMA InitBoot == BootInit => BootInv
<1> SUFFICES ASSUME BootInit PROVE BootInv
  OBVIOUS
<1>1. InitArray \in Seq([at : Nat, value : STRING])
  BY InitArraysAssumption DEF BootInit
<1>2. DOMAIN mem = Ram
  BY DEF BootInit
<1>3. InFile(lay) \subseteq Ram
  BY RamMapped, RamAssumption DEF BootInit, Ram
<1>4. \A a \in InFile(lay) : mem[a] = "file"
  BY <1>3 DEF BootInit
<1>5. called \in 0..Len(InitArray) /\ called = 0 /\ at = "_start"
  BY <1>1 DEF BootInit
<1> QED
  BY <1>2, <1>4, <1>5 DEF BootInit, BootInv, Variables

(* After speaks of the constants of a run only. *)
LEMMA AfterStays ==
    ASSUME UNCHANGED <<lay, InitArray>>
    PROVE  \A a, n : After(a, n)' = After(a, n)
  BY DEF After, InFile, Tdata, __data_end, Align, Larger

LEMMA StepBoot ==
    ASSUME BootInv, BootStep
    PROVE  BootInv'
<1> USE DEF BootInv
<1>1. InitArray \in Seq([at : Nat, value : STRING])
  BY InitArraysAssumption
<1>2. /\ Mapped(lay) = Ram /\ RamLength - 1 \in Ram
      /\ Variables \subseteq 0..(RamLength - StackSize - 1)
  BY RamMapped DEF Variables
<1>3. RamLength - 1 \notin Variables
  BY <1>2, RamAssumption DEF Ram
<1>4. CASE _start
  <2>1. UNCHANGED <<lay, InitArray, called>> /\ at' = "clear" /\ called = 0
    BY <1>2, <1>4 DEF _start
  <2>2. mem' = [mem EXCEPT ![RamLength - 1] = "frame"]
    BY <1>2, <1>4 DEF _start, Push
  <2>3. \A a \in InFile(lay) : mem'[a] = "file"
    BY <1>2, <1>3, <1>4, <2>2, RamAssumption DEF _start, Variables, Ram
  <2>4. InFile(lay)' = InFile(lay) /\ Variables' = Variables /\ Links(lay)'
    BY <2>1 DEF Variables, BootInv
  <2> QED
    BY <2>1, <2>2, <2>3, <2>4
<1>5. CASE Clear
  <2>1. UNCHANGED <<lay, InitArray, called>> /\ called = 0
    BY <1>5 DEF Clear
  <2>2. ASSUME NEW a \in Variables PROVE mem'[a] = After(a, 0)
    <3>1. a \in Ram
      BY <1>2, RamAssumption DEF Ram
    <3>2. lay \in Layout
      BY LayoutsAssumption
    <3>3. After(a, 0) = IF a \in InFile(lay) THEN "file" ELSE "zero"
      BY AfterNone
    <3> QED
      BY <1>5, <3>1, <3>2, <3>3, ClearedRight DEF Clear, Variables
  <2>3. DOMAIN mem' = Ram
    BY <1>5 DEF Clear
  <2> QED
    BY <1>5, <2>1, <2>2, <2>3, AfterStays DEF Clear, Variables
<1>6. CASE CallInit
  <2>1. UNCHANGED <<lay, InitArray, at>> /\ at = "init" /\ called < Len(InitArray)
    BY <1>6 DEF CallInit
  <2>2. ASSUME NEW a \in Variables PROVE mem'[a] = After(a, called + 1)
    <3>1. a \in Ram
      BY <1>2, RamAssumption DEF Ram
    <3>2. After(a, called + 1) =
              IF InitArray[called + 1].at = a THEN InitArray[called + 1].value ELSE After(a, called)
      BY <1>1, <2>1, AfterNext
    <3> QED
      BY <1>6, <2>1, <3>1, <3>2 DEF CallInit
  <2>3. called' = called + 1 /\ called' \in 1..Len(InitArray)
    BY <1>1, <1>6 DEF CallInit
  <2>4. DOMAIN mem' = Ram
    BY <1>1, <1>6, <2>3 DEF CallInit
  <2> QED
    BY <2>1, <2>2, <2>3, <2>4, AfterStays DEF Variables
<1>7. CASE CallMain
  BY <1>7, AfterStays DEF CallMain, Variables
<1>8. CASE \E s : Exit(s)
  BY <1>8 DEF Exit, Variables
<1> QED
  BY <1>4, <1>5, <1>6, <1>7, <1>8 DEF BootNext, BootStep

LEMMA StutterBoot == BootInv /\ UNCHANGED bootVars => BootInv'
<1> SUFFICES ASSUME BootInv, UNCHANGED bootVars PROVE BootInv'
  OBVIOUS
<1> QED
  BY AfterStays DEF BootInv, bootVars, Variables

THEOREM BootInvariant == BootSpec => []BootInv
<1>1. BootInv /\ [BootStep]_bootVars => BootInv'
  BY StepBoot, StutterBoot
<1> QED
  BY InitBoot, <1>1, PTL DEF BootSpec

(* The stack pointer that _start sets is at the end of mapped memory,        *)
(* whatever the sizes and alignments of a program that links, and the patch  *)
(* of the section .stack never lets a program fault before main.             *)
THEOREM StackMapped == BootSpec => []StackIsMapped
<1>1. BootInv => StackIsMapped
  <2> SUFFICES ASSUME BootInv PROVE StackIsMapped
    OBVIOUS
  <2>1. /\ Mapped(lay) = Ram
        /\ InFile(lay) \cup Zeroed(lay) \subseteq 0..(RamLength - StackSize - 1)
    BY RamMapped DEF BootInv
  <2> QED
    BY <2>1, RamAssumption DEF BootInv, StackIsMapped, Ram
<1> QED
  BY BootInvariant, <1>1, PTL

(* main starts on the C program's memory, for any number of initialisation   *)
(* functions and whatever the loader has left behind the data.               *)
THEOREM ImageRight == BootSpec => []ImageAtMain
<1>1. BootInv => ImageAtMain
  BY DEF BootInv, ImageAtMain, Variables
<1> QED
  BY BootInvariant, <1>1, PTL

-----------------------------------------------------------------------------
(* What a program does between _start and its exit is a boot: no program of  *)
(* examples/ touches what crt0 has set up, but by returning from main.       *)
THEOREM ProgramsBoot == Spec => BootSpec
<1>1. Init => BootInit
  BY DEF Init
<1>2. [Next]_vars => [BootStep]_bootVars
  <2> SUFFICES ASSUME [Next]_vars
               PROVE  [BootStep]_bootVars
    OBVIOUS
  <2>1. CASE RunRaw
    BY <2>1 DEF RunRaw
  <2>2. CASE RunCrt0
    BY <2>2 DEF RunCrt0, BootStep
  <2>3. CASE RunMain
    BY <2>3 DEF RunMain
  <2>4. CASE Return
    BY <2>4 DEF Return, BootStep
  <2>5. CASE Astray
    BY <2>5 DEF Astray, BootStep
  <2>6. CASE UNCHANGED vars
    BY <2>6 DEF vars, bootVars
  <2> QED
    BY <2>1, <2>2, <2>3, <2>4, <2>5, <2>6 DEF Next, Run
<1> QED
  BY <1>1, <1>2, PTL DEF Spec, BootSpec

(* No example program faults on its stack, whatever the sizes and alignments *)
(* of its sections: the patch of the section .stack is enough for all.       *)
THEOREM ProgramsStackMapped == Spec => []StackIsMapped
  BY ProgramsBoot, StackMapped, PTL

(* main of every example program starts on the C program's memory.           *)
THEOREM ProgramsImageRight == Spec => []ImageAtMain
  BY ProgramsBoot, ImageRight, PTL

-----------------------------------------------------------------------------
(* The console.  A step of a program is one of Console's, or leaves it alone.*)
LEMMA ConsoleSteps == [Next]_vars => [ConsoleNext]_conVars
BY DEF Next, Run, vars, RunRaw, RunCrt0, RunMain, Return, Astray

LEMMA NameFacts ==
    /\ Len(Name) \in Nat /\ Len(Name) < Slide /\ Len(Name) <= BufSize
    /\ Slide \in Nat /\ BufSize \in Nat
    /\ Name \in Seq(Int)
    /\ \A j \in 1..Len(Name) : Name[j] \in 1..127 /\ Name[j] # NL
<1>1. Name \in Seq(1..127 \ {NL})
    BY CharsAssumption
<1>2. \A j \in 1..Len(Name) : Name[j] \in 1..127 \ {NL}
    BY <1>1, ElementOfSeq
<1>3. Name \in Seq(Int)
  <2>1. (1..127 \ {NL}) \subseteq Int
      OBVIOUS
  <2>. QED  BY <1>1, <2>1, SeqMonotonic
<1>4. Len(Name) \in Nat
    BY <1>1, LenProperties
<1>. QED  BY <1>2, <1>3, <1>4, CharsAssumption

(* A char that is not below 0 and ends no line is stored, if there is room. *)
LEMMA TurnEnds ==
    ASSUME NEW rv \in Int, Turn(rv), rv < 0 \/ rv = NL
    PROVE  /\ \/ pc' = "echo"
              \/ pc' = "overrun" /\ Len(buf) = BufSize
           /\ rv = NL => \/ pc' = "overrun"
                         \/ pc' = "echo" /\ line' = buf
<1>1. CASE rv < 0 /\ ("SERR" \in flags' \/ buf = <<>>)
  <2>1. pc' = "echo"
      BY <1>1 DEF Turn
  <2>2. rv # NL
      BY <1>1 DEF NL
  <2>. QED  BY <2>1, <2>2
<1>2. CASE ~(rv < 0 /\ ("SERR" \in flags' \/ buf = <<>>))
  <2>1. CASE Len(buf) = BufSize
      BY <1>2, <2>1 DEF Turn
  <2>2. CASE Len(buf) # BufSize
      BY <1>2, <2>2 DEF Turn
  <2>. QED  BY <2>1, <2>2
<1>. QED  BY <1>1, <1>2

LEMMA TurnStores ==
    ASSUME NEW c \in Nat, c # NL, Turn(c)
    PROVE  \/ Len(buf) = BufSize /\ pc' = "overrun"
           \/ Len(buf) # BufSize /\ pc' = "gets" /\ buf' = Append(buf, c)
<1>1. ~(c < 0)
    OBVIOUS
<1>. QED  BY <1>1 DEF Turn

(* The payload has handed out as much of the name as gets has stored, and    *)
(* then one end of the input.                                                *)
Spelled(n) == buf \in Seq(Int) /\ Len(buf) = n /\ \A j \in 1..n : buf[j] = Name[j]

MockInv ==
    impl = "mock" =>
        /\ input = typed /\ get \in Nat
        /\ pc \in {"ask", "gets", "echo", "judge", "exit"}
        /\ pc = "ask" => get = 0 /\ buf = <<>>
        /\ pc = "gets" => get <= Len(Name) /\ Spelled(get)
        /\ pc \in {"echo", "judge", "exit"} => buf = Name /\ get = Len(Name) + 1

LEMMA MockInit == Init => MockInv
BY DEF Init, ConsoleInit, MockInv

LEMMA MockStep == MockInv /\ [Next]_vars => MockInv'
<1>. SUFFICES ASSUME MockInv, [Next]_vars, impl' = "mock" PROVE MockInv'
    BY DEF MockInv
<1>1. impl = "mock" /\ [ConsoleNext]_conVars
    BY ConsoleSteps DEF ConsoleNext, conVars, Ask, GetConsole, GetMock, Echo, Judge
<1>2. CASE Ask
  <2>1. buf' = <<>> /\ get' = 0 /\ pc' = "gets" /\ UNCHANGED <<input, typed>>
      BY <1>1, <1>2 DEF Ask, MockInv
  <2>2. Spelled(0)'
      BY <2>1 DEF Spelled
  <2>. QED  BY <1>1, <2>1, <2>2, NameFacts DEF MockInv
<1>3. CASE GetMock
  <2>1. pc = "gets" /\ get \in Nat /\ get <= Len(Name) /\ Spelled(get) /\ Len(Name) < Slide
      BY <1>1, <1>3, NameFacts DEF GetMock, MockInv
  <2>2. get' = get + 1 /\ Turn(MockGetc(get)) /\ UNCHANGED <<typed, input>>
    <3>1. get <= Slide /\ get # Slide
        BY <2>1, NameFacts
    <3>. QED  BY <1>3, <3>1 DEF GetMock
  <2>3. CASE get = Len(Name)
    <3>1. MockGetc(get) = -1
        BY <2>1, <2>3, NameFacts DEF MockGetc, EOF
    <3>2. "SERR" \in flags'
        BY <2>2, <3>1 DEF Turn, FlagsAfter, _FDEV_ERR
    <3>3. pc' = "echo" /\ buf' = buf
        BY <2>2, <3>1, <3>2 DEF Turn, NL
    <3>4. buf = Name
        BY <2>1, <2>3, NameFacts, SeqEqual DEF Spelled
    <3>. QED  BY <1>1, <2>1, <2>2, <2>3, <3>3, <3>4 DEF MockInv
  <2>4. CASE get < Len(Name)
    <3>1. MockGetc(get) = Name[get + 1]
        BY <2>1, <2>4, NameFacts DEF MockGetc
    <3>2. Name[get + 1] \in 1..127 /\ Name[get + 1] # NL
        BY <2>1, <2>4, NameFacts DEF NL
    <3>3. buf' = Append(buf, Name[get + 1]) /\ pc' = "gets"
      <4>1. Name[get + 1] \in Nat
          BY <3>2
      <4>2. Turn(Name[get + 1])
          BY <2>2, <3>1
      <4>3. Len(buf) # BufSize
          BY <2>1, <2>4, NameFacts DEF Spelled
      <4>. QED  BY <3>2, <4>1, <4>2, <4>3, TurnStores
    <3>4. Spelled(get)' /\ Len(buf') = get + 1
      <4>1. buf \in Seq(Int) /\ Len(buf) = get
          BY <2>1 DEF Spelled
      <4>2. Name[get + 1] \in Int
          BY <3>2
      <4>3. buf' \in Seq(Int) /\ Len(buf') = get + 1 /\ buf'[get + 1] = Name[get + 1]
          BY <3>3, <4>1, <4>2, AppendProperties
      <4>4. \A j \in 1..get : buf'[j] = buf[j]
          BY <3>3, <4>1, <4>2, AppendProperties
      <4>5. \A j \in 1..(get + 1) : buf'[j] = Name[j]
          BY <2>1, <4>3, <4>4 DEF Spelled
      <4>. QED  BY <2>2, <4>3, <4>5 DEF Spelled
    <3>. QED  BY <1>1, <2>1, <2>2, <2>4, <3>3, <3>4 DEF Spelled, MockInv
  <2>. QED  BY <2>1, <2>3, <2>4, NameFacts
<1>4. CASE Echo \/ Judge
    BY <1>1, <1>4 DEF Echo, Judge, MockInv
<1>5. CASE UNCHANGED conVars
    BY <1>1, <1>5 DEF conVars, Spelled, MockInv
<1>. QED  BY <1>1, <1>2, <1>3, <1>4, <1>5 DEF ConsoleNext, GetConsole

(* With the payload in the place of the get function the program reads the   *)
(* name it is asked for, takes nothing of the real input and does not run    *)
(* off the payload's slide, for every name that fits the slide and the       *)
(* buffer.                                                                   *)
THEOREM PayloadSpellsName == Spec => []MockSpellsName
<1>1. MockInv => MockSpellsName
    BY NameFacts DEF MockInv, MockSpellsName
<1>. QED  BY <1>1, MockInit, MockStep, PTL DEF Spec

-----------------------------------------------------------------------------
(* The line that was typed. *)
Bytes == -128..127 \cup {Error}

LEMMA Least ==
    ASSUME NEW S \in SUBSET Nat, S # {}
    PROVE  \E x \in S : \A y \in S : x <= y
<1>1. PICK x \in S : \A y \in S : ~(<<y, x>> \in OpToRel(<, Nat))
    BY NatLessThanWellFounded, WFMin
<1>2. \A y \in S : ~(<<y, x>> \in {ss \in Nat \X Nat : ss[1] < ss[2]})
    BY <1>1 DEF OpToRel
<1>3. \A y \in S : ~(y < x)
    BY <1>2
<1>. QED  BY <1>3

LEMMA Ascii == \A c : c \in -128..127 /\ c >= 0 => c \in 0..127
OBVIOUS

LEMMA BeforeDef ==
    ASSUME NEW s, NEW c
    PROVE  LET found == {j \in 1..Len(s) : s[j] = c}
               k == IF found # {} THEN Min(found) ELSE 0
           IN  Before(s, c) = IF k = 0 THEN s ELSE SubSeq(s, 1, k - 1)
BY Zenon DEF Before, SelectInSeq

(* Where the typed line ends. *)
LEMMA TypedEnds ==
    ASSUME typed \in Seq(Bytes)
    PROVE  \E n \in Nat :
              /\ Typed \in Seq(Bytes) /\ Len(Typed) = n
              /\ \A j \in 1..n : j \in 1..Len(typed) /\ typed[j] = Typed[j] /\ typed[j] # NL
              /\ \/ n < Len(typed) /\ typed[n + 1] = NL
                 \/ n = Len(typed) /\ NL \notin ToSet(typed)
<1>. DEFINE found == {j \in 1..Len(typed) : typed[j] = NL}
            m == IF found # {} THEN Min(found) ELSE 0
<1>1. Len(typed) \in Nat /\ DOMAIN typed = 1..Len(typed) /\ found \in SUBSET Nat
    BY LenProperties
<1>2. Typed = IF m = 0 THEN typed ELSE SubSeq(typed, 1, m - 1)
    BY BeforeDef, Zenon DEF Typed
<1>3. CASE found = {}
  <2>1. m = 0
      BY <1>3
  <2>2. Typed = typed
      BY <1>2, <2>1
  <2>. QED  BY <1>1, <1>3, <2>2 DEF ToSet
<1>4. CASE found # {}
  <2>1. PICK k \in found : \A j \in found : k <= j
      BY <1>1, <1>4, Least
  <2>2. Min(found) = k
      BY <1>1, <2>1 DEF Min
  <2>3. k \in 1..Len(typed) /\ typed[k] = NL
      OBVIOUS
  <2>4. ASSUME NEW j \in 1..(k - 1), typed[j] = NL PROVE FALSE
    <3>1. j \in 1..Len(typed) /\ j < k /\ k \in Nat /\ j \in Nat
        BY <1>1, <2>3
    <3>2. j \in found
        BY <2>4, <3>1
    <3>. QED  BY <2>1, <3>1, <3>2
  <2>. DEFINE n == k - 1
  <2>5. n \in Nat /\ n < Len(typed) /\ n + 1 = k
      BY <1>1, <2>3
  <2>6. Typed = SubSeq(typed, 1, n)
    <3>1. m = k /\ k # 0
        BY <1>4, <2>2, <2>3
    <3>. HIDE DEF m
    <3>. QED  BY <1>2, <3>1
  <2>. HIDE DEF n
  <2>7. \A j \in 1..n : j \in 1..Len(typed) /\ typed[j] \in Bytes
    <3>1. \A j \in 1..n : j \in 1..Len(typed)
        BY <1>1, <2>5
    <3>. QED  BY <3>1, ElementOfSeq
  <2>8. Typed \in Seq(Bytes) /\ Len(Typed) = n /\ \A j \in 1..n : Typed[j] = typed[j]
      BY <2>5, <2>6, <2>7, SubSeqProperties
  <2>9. \A j \in 1..n : typed[j] # NL
      BY <2>4, <2>5
  <2>. QED  BY <2>3, <2>5, <2>7, <2>8, <2>9
<1>. QED  BY <1>3, <1>4

LEMMA TypedFacts ==
    ASSUME typed \in Seq(Bytes), Complete
    PROVE  \E n \in Nat :
              /\ n < Len(typed) /\ typed[n + 1] = NL
              /\ Typed \in Seq(Bytes) /\ Len(Typed) = n
              /\ \A j \in 1..n : typed[j] = Typed[j] /\ typed[j] \in 0..127 /\ typed[j] # NL
<1>1. PICK n \in Nat :
          /\ Typed \in Seq(Bytes) /\ Len(Typed) = n
          /\ \A j \in 1..n : j \in 1..Len(typed) /\ typed[j] = Typed[j] /\ typed[j] # NL
          /\ \/ n < Len(typed) /\ typed[n + 1] = NL
             \/ n = Len(typed) /\ NL \notin ToSet(typed)
    BY TypedEnds
<1>2. n < Len(typed) /\ typed[n + 1] = NL
    BY <1>1 DEF Complete
<1>3. \A j \in 1..n : typed[j] \in 0..127
  <2>. SUFFICES ASSUME NEW j \in 1..n PROVE typed[j] \in 0..127
      OBVIOUS
  <2>1. Typed[j] # Error /\ Typed[j] >= 0
    <3>1. DOMAIN Typed = 1..n
        BY <1>1
    <3>. QED  BY <3>1 DEF Complete
  <2>2. typed[j] \in Bytes /\ typed[j] = Typed[j]
      BY <1>1, ElementOfSeq
  <2>3. typed[j] \in -128..127
      BY <2>1, <2>2 DEF Bytes
  <2>4. typed[j] >= 0
      BY <2>1, <2>2
  <2>. QED  BY <2>3, <2>4, Ascii, Zenon
<1>. QED  BY <1>1, <1>2, <1>3

(* What gets has read of a complete line, and what is left of the input. *)
ReadSoFar ==
    /\ buf \in Seq(Bytes) /\ Len(buf) <= Len(Typed)
    /\ \A j \in 1..Len(buf) : buf[j] = typed[j]
    /\ input \in Seq(Bytes) /\ Len(input) = Len(typed) - Len(buf)
    /\ \A j \in 1..Len(input) : input[j] = typed[Len(buf) + j]

LineInv ==
    /\ typed \in Seq(Bytes)
    /\ impl = "console" /\ Complete =>
        /\ pc = "ask" => input = typed /\ buf = <<>>
        /\ pc = "gets" => ReadSoFar
        /\ pc \in {"echo", "judge"} => line = Typed
        /\ pc = "exit" => status = IF SameLetters(String(Typed), Name) THEN 0 ELSE 42
        /\ pc \in {"ask", "gets", "echo", "judge", "exit", "overrun"}

LEMMA LineInit == Init => LineInv
<1>. SUFFICES ASSUME Init PROVE LineInv
    OBVIOUS
<1>1. typed \in Seq(Bytes)
    BY CharsAssumption DEF Init, ConsoleInit, Bytes
<1>. QED  BY <1>1 DEF Init, ConsoleInit, LineInv

(* Reading a char of a complete line, or its end. *)
LEMMA LineRead ==
    ASSUME typed \in Seq(Bytes), Complete, ReadSoFar, GetConsole
    PROVE  \/ pc' = "gets" /\ ReadSoFar'
           \/ pc' = "overrun"
           \/ pc' = "echo" /\ line' = Typed
<1>1. PICK n \in Nat :
          /\ n < Len(typed) /\ typed[n + 1] = NL
          /\ Typed \in Seq(Bytes) /\ Len(Typed) = n
          /\ \A j \in 1..n : typed[j] = Typed[j] /\ typed[j] \in 0..127 /\ typed[j] # NL
    BY TypedFacts
<1>. DEFINE k == Len(buf)
            c == typed[k + 1]
<1>2. /\ k \in Nat /\ k <= n /\ Len(typed) \in Nat
      /\ buf \in Seq(Bytes) /\ input \in Seq(Bytes)
      /\ Len(input) = Len(typed) - k /\ \A j \in 1..Len(input) : input[j] = typed[k + j]
      /\ \A j \in 1..k : buf[j] = typed[j]
  <2>1. Len(buf) \in Nat /\ Len(typed) \in Nat
      BY LenProperties DEF ReadSoFar
  <2>. QED  BY <1>1, <2>1 DEF ReadSoFar
<1>3. input # <<>> /\ Head(input) = c /\ c = typed[k + 1] /\ Tail(input) \in Seq(Bytes)
      /\ Len(Tail(input)) = Len(input) - 1
      /\ \A j \in 1..Len(Tail(input)) : Tail(input)[j] = typed[k + 1 + j]
  <2>1. Len(input) >= 1 /\ input # <<>>
      BY <1>1, <1>2
  <2>2. Head(input) = input[1] /\ input[1] = typed[k + 1]
      BY <1>2, <2>1
  <2>3. /\ Tail(input) \in Seq(Bytes) /\ Len(Tail(input)) = Len(input) - 1
        /\ \A j \in 1..Len(Tail(input)) : Tail(input)[j] = input[j + 1]
      BY <1>2, <2>1, HeadTailProperties
  <2>4. ASSUME NEW j \in 1..Len(Tail(input))
        PROVE  Tail(input)[j] = typed[k + 1 + j]
    <3>1. j + 1 \in 1..Len(input) /\ k + (j + 1) = k + 1 + j
        BY <1>2, <2>3
    <3>. QED  BY <1>2, <2>3, <3>1
  <2>. QED  BY <2>1, <2>2, <2>3, <2>4
<1>. HIDE DEF c
<1>4. c \in 0..127 /\ c # Error
  <2>1. CASE k < n
    <3>1. k + 1 \in 1..n
        BY <1>2, <2>1
    <3>2. DOMAIN Typed = 1..n
        BY <1>1
    <3>. QED  BY <1>1, <1>3, <3>1, <3>2 DEF Complete
  <2>2. CASE k = n
    <3>1. Error # 10
        BY CharsAssumption
    <3>. QED  BY <1>1, <1>3, <2>2, <3>1 DEF NL
  <2>. QED  BY <1>2, <2>1, <2>2
<1>5. Turn(c) /\ input' = Tail(input) /\ typed' = typed
  <2>1. GetcResults = {c}
      BY <1>3, <1>4 DEF GetcResults, ReadFails
  <2>2. SimulatedGetc(c) = c
      BY <1>4 DEF SimulatedGetc
  <2>. QED  BY <1>3, <2>1, <2>2 DEF GetConsole
<1>6. CASE k = n
  <2>1. c = NL
      BY <1>1, <1>3, <1>6
  <2>2. \/ pc' = "overrun"
        \/ pc' = "echo" /\ line' = buf
      BY <1>5, <2>1, TurnEnds DEF NL
  <2>3. buf = Typed
    <3>1. Len(buf) = Len(Typed) /\ \A j \in 1..Len(buf) : buf[j] = Typed[j]
        BY <1>1, <1>2, <1>6
    <3>. QED  BY <1>1, <1>2, <3>1, SeqEqual
  <2>. QED  BY <2>2, <2>3
<1>7. CASE k < n
  <2>1. k + 1 \in 1..n
      BY <1>2, <1>7
  <2>2. c \in Nat /\ c # NL
    <3>1. typed[k + 1] # NL
        BY <1>1, <2>1
    <3>2. c \in Nat
        BY <1>4
    <3>3. c # NL
        BY <1>3, <3>1, Zenon
    <3>. QED  BY <3>2, <3>3
  <2>. SUFFICES ASSUME pc' # "overrun" PROVE pc' = "gets" /\ ReadSoFar'
      OBVIOUS
  <2>3. buf' = Append(buf, c) /\ pc' = "gets"
      BY <1>5, <2>2, TurnStores
  <2>4. c \in Bytes
      BY <1>4 DEF Bytes
  <2>5. /\ buf' \in Seq(Bytes) /\ Len(buf') = k + 1 /\ buf'[k + 1] = c
        /\ \A j \in 1..k : buf'[j] = buf[j]
      BY <1>2, <2>3, <2>4, AppendProperties
  <2>6. \A j \in 1..(k + 1) : buf'[j] = typed[j]
    <3>. SUFFICES ASSUME NEW j \in 1..(k + 1) PROVE buf'[j] = typed[j]
        OBVIOUS
    <3>1. CASE j \in 1..k
        BY <1>2, <2>5, <3>1
    <3>2. CASE j = k + 1
        BY <1>3, <2>5, <3>2
    <3>. QED  BY <1>2, <3>1, <3>2
  <2>7. Typed' = Typed
      BY <1>5 DEF Typed
  <2>8. ReadSoFar'
    <3>. HIDE DEF k
    <3>1. Len(typed) - k - 1 = Len(typed) - (k + 1) /\ k + 1 <= n
        BY <1>2, <1>7
    <3>2. /\ input' \in Seq(Bytes) /\ Len(input') = Len(typed) - (k + 1)
          /\ \A j \in 1..Len(input') : input'[j] = typed[(k + 1) + j]
        BY <1>2, <1>3, <1>5, <3>1
    <3>3. /\ buf' \in Seq(Bytes) /\ Len(buf') <= Len(Typed')
          /\ \A j \in 1..Len(buf') : buf'[j] = typed'[j]
        BY <1>1, <1>5, <2>5, <2>6, <2>7, <3>1
    <3>4. /\ Len(input') = Len(typed') - Len(buf')
          /\ \A j \in 1..Len(input') : input'[j] = typed'[Len(buf') + j]
        BY <1>5, <2>5, <3>2
    <3>. QED  BY <3>2, <3>3, <3>4 DEF ReadSoFar
  <2>. QED  BY <2>3, <2>8
<1>. QED  BY <1>2, <1>6, <1>7

LEMMA LineStep == LineInv /\ [Next]_vars => LineInv'
<1>. SUFFICES ASSUME LineInv, [Next]_vars PROVE LineInv'
    OBVIOUS
<1>1. [ConsoleNext]_conVars
    BY ConsoleSteps
<1>2. typed' = typed /\ impl' = impl
    BY <1>1 DEF ConsoleNext, conVars, Ask, GetConsole, GetMock, Echo, Judge
<1>3. typed' \in Seq(Bytes) /\ (Complete' <=> Complete) /\ Typed' = Typed
    BY <1>2 DEF LineInv, Complete, Typed
<1>4. SUFFICES ASSUME impl = "console", Complete
               PROVE  /\ (pc = "ask" => input = typed /\ buf = <<>>)'
                      /\ (pc = "gets" => ReadSoFar)'
                      /\ (pc \in {"echo", "judge"} => line = Typed)'
                      /\ (pc = "exit" => status = IF SameLetters(String(Typed), Name) THEN 0 ELSE 42)'
                      /\ (pc \in {"ask", "gets", "echo", "judge", "exit", "overrun"})'
    BY <1>2, <1>3 DEF LineInv
<1>5. CASE Ask
  <2>1. pc' = "gets" /\ buf' = <<>> /\ input' = typed /\ typed' = typed
      BY <1>4, <1>5 DEF Ask, LineInv
  <2>2. Len(Typed) \in Nat
      BY TypedFacts, <1>4 DEF LineInv
  <2>3. ReadSoFar'
    <3>1. buf' \in Seq(Bytes) /\ Len(buf') = 0 /\ Len(typed) \in Nat /\ typed \in Seq(Bytes)
        BY <2>1, LenProperties DEF LineInv
    <3>2. Len(input') = Len(typed') - Len(buf') /\ Len(buf') <= Len(Typed')
        BY <1>3, <2>1, <2>2, <3>1
    <3>3. \A j \in 1..Len(input') : input'[j] = typed'[Len(buf') + j]
        BY <2>1, <3>1
    <3>. QED  BY <2>1, <3>1, <3>2, <3>3 DEF ReadSoFar
  <2>. QED  BY <2>1, <2>3
<1>6. CASE GetConsole
  <2>1. ReadSoFar /\ typed \in Seq(Bytes)
      BY <1>4, <1>6 DEF GetConsole, LineInv
  <2>2. \/ pc' = "gets" /\ ReadSoFar'
        \/ pc' = "overrun"
        \/ pc' = "echo" /\ line' = Typed
      BY <1>4, <1>6, <2>1, LineRead
  <2>. QED  BY <1>3, <2>2
<1>7. CASE Echo
    BY <1>3, <1>4, <1>7 DEF Echo, LineInv
<1>8. CASE Judge
  <2>1. pc' = "exit" /\ status' = IF SameLetters(String(Typed), Name) THEN 0 ELSE 42
      BY <1>4, <1>8 DEF Judge, LineInv, IsName
  <2>. QED  BY <1>3, <2>1
<1>9. CASE UNCHANGED conVars
    BY <1>3, <1>4, <1>9 DEF conVars, LineInv, ReadSoFar
<1>. QED  BY <1>1, <1>4, <1>5, <1>6, <1>7, <1>8, <1>9 DEF ConsoleNext, GetMock

(* Reading a line that fits: each call so far has stored a char, and what is *)
(* left is the rest of the input.                                            *)
CallsStored ==
    /\ buf \in Seq(Int) /\ Len(buf) <= Len(Typed)
    /\ input \in Seq(Bytes) /\ Len(buf) + Len(input) = Len(typed)
    /\ \A j \in 1..Len(input) : input[j] = typed[Len(buf) + j]

RoomInv ==
    /\ typed \in Seq(Bytes)
    /\ pc = "exit" => status \in {0, 42}
    /\ impl = "console" /\ Fits =>
        /\ pc \in {"ask", "gets", "echo", "judge", "exit"}
        /\ pc = "ask" => input = typed /\ buf = <<>>
        /\ pc = "gets" => CallsStored

LEMMA RoomInit == Init => RoomInv
<1>. SUFFICES ASSUME Init PROVE RoomInv
    OBVIOUS
<1>1. typed \in Seq(Bytes)
    BY CharsAssumption DEF Init, ConsoleInit, Bytes
<1>. QED  BY <1>1 DEF Init, ConsoleInit, RoomInv

(* What the get function may return. *)
LEMMA GetcRange ==
    ASSUME input \in Seq(Bytes), NEW c \in GetcResults
    PROVE  SimulatedGetc(c) \in Int
<1>1. c \in -128..127
  <2>1. CASE ReadFails
      BY <2>1, CharsAssumption DEF GetcResults
  <2>2. CASE ~ReadFails /\ input = <<>>
      BY <2>2 DEF GetcResults, EOF
  <2>3. CASE ~ReadFails /\ input # <<>>
    <3>1. c = Head(input) /\ Head(input) # Error
        BY <2>3 DEF GetcResults, ReadFails
    <3>2. Head(input) \in Bytes
        BY <2>3, HeadTailProperties
    <3>. QED  BY <3>1, <3>2 DEF Bytes
  <2>. QED  BY <2>1, <2>2, <2>3
<1>. QED  BY <1>1 DEF SimulatedGetc, EOF

LEMMA RoomRead ==
    ASSUME typed \in Seq(Bytes), Fits, CallsStored, GetConsole
    PROVE  \/ pc' = "echo"
           \/ pc' = "gets" /\ CallsStored'
<1>1. PICK n \in Nat :
          /\ Typed \in Seq(Bytes) /\ Len(Typed) = n
          /\ \A j \in 1..n : j \in 1..Len(typed) /\ typed[j] = Typed[j] /\ typed[j] # NL
          /\ \/ n < Len(typed) /\ typed[n + 1] = NL
             \/ n = Len(typed) /\ NL \notin ToSet(typed)
    BY TypedEnds
<1>2. PICK c \in GetcResults : Turn(SimulatedGetc(c))
    BY DEF GetConsole
<1>. DEFINE rv == SimulatedGetc(c)
<1>3. rv \in Int
    BY GetcRange DEF CallsStored
<1>4. /\ n < BufSize /\ BufSize \in Nat /\ Len(buf) \in Nat /\ Len(buf) <= n
      /\ Len(input) \in Nat /\ Len(typed) \in Nat /\ Len(buf) + Len(input) = Len(typed)
    BY <1>1, CharsAssumption, LenProperties DEF Fits, CallsStored
<1>5. /\ UNCHANGED <<typed, broken>>
      /\ input' = IF input = <<>> THEN input ELSE Tail(input)
    BY DEF GetConsole
<1>6. CASE rv < 0 \/ rv = NL
  <2>1. Len(buf) # BufSize
      BY <1>4
  <2>. QED  BY <1>2, <1>3, <1>6, <2>1, TurnEnds
<1>7. CASE rv \in Nat /\ rv # NL
  <2>1. Len(buf) < n
    <3>. SUFFICES ASSUME Len(buf) = n PROVE FALSE
        BY <1>4
    <3>1. CASE n < Len(typed) /\ typed[n + 1] = NL
      <4>1. Len(input) >= 1 /\ input # <<>> /\ Head(input) = input[1]
          BY <1>4, <3>1 DEF CallsStored
      <4>2. Head(input) = NL
          BY <1>4, <3>1, <4>1 DEF CallsStored
      <4>3. NL # Error
          BY CharsAssumption DEF NL
      <4>4. c = NL
          BY <4>1, <4>2, <4>3 DEF GetcResults, ReadFails
      <4>. QED  BY <1>7, <4>4 DEF SimulatedGetc, NL
    <3>2. CASE n = Len(typed) /\ NL \notin ToSet(typed)
      <4>1. input = <<>>
          BY <1>4, <3>2 DEF CallsStored
      <4>2. ~broken
          BY <3>2 DEF Fits
      <4>3. c = EOF
          BY <4>1, <4>2 DEF GetcResults, ReadFails
      <4>. QED  BY <1>7, <4>3 DEF SimulatedGetc, EOF
    <3>. QED  BY <1>1, <3>1, <3>2
  <2>2. input # <<>> /\ Len(input) >= 1
    <3>1. n <= Len(typed)
        BY <1>1, <1>4
    <3>2. Len(input) >= 1
        BY <1>4, <2>1, <3>1
    <3>. QED  BY <3>2
  <2>3. buf' = Append(buf, rv) /\ pc' = "gets"
      BY <1>2, <1>4, <1>7, <2>1, TurnStores
  <2>. HIDE DEF rv
  <2>4. buf' \in Seq(Int) /\ Len(buf') = Len(buf) + 1
      BY <1>3, <2>3, AppendProperties DEF CallsStored
  <2>5. /\ input' \in Seq(Bytes) /\ Len(input') = Len(input) - 1
        /\ \A j \in 1..Len(input') : input'[j] = input[j + 1]
      BY <1>5, <2>2, HeadTailProperties DEF CallsStored
  <2>6. Typed' = Typed
      BY <1>5 DEF Typed
  <2>7. Len(buf') <= Len(Typed') /\ Len(buf') + Len(input') = Len(typed')
    <3>1. Len(Typed') = n /\ Len(typed') = Len(typed)
        BY <1>1, <1>5, <2>6
    <3>2. Len(buf) + 1 <= n /\ (Len(buf) + 1) + (Len(input) - 1) = Len(typed)
        BY <1>4, <2>1
    <3>. QED  BY <2>4, <2>5, <3>1, <3>2
  <2>8. ASSUME NEW j \in 1..Len(input') PROVE input'[j] = typed'[Len(buf') + j]
    <3>1. j + 1 \in 1..Len(input) /\ Len(buf) + (j + 1) = Len(buf') + j
        BY <1>4, <2>4, <2>5
    <3>2. input[j + 1] = typed[Len(buf) + (j + 1)]
        BY <3>1 DEF CallsStored
    <3>. QED  BY <1>5, <2>5, <3>1, <3>2
  <2>. QED  BY <2>3, <2>4, <2>5, <2>7, <2>8 DEF CallsStored
<1>. QED  BY <1>3, <1>6, <1>7

LEMMA RoomStep == RoomInv /\ [Next]_vars => RoomInv'
<1>. SUFFICES ASSUME RoomInv, [Next]_vars PROVE RoomInv'
    OBVIOUS
<1>1. [ConsoleNext]_conVars
    BY ConsoleSteps
<1>2. UNCHANGED <<typed, impl, broken>>
    BY <1>1 DEF ConsoleNext, conVars, Ask, GetConsole, GetMock, Echo, Judge
<1>3. typed' \in Seq(Bytes) /\ (Fits' <=> Fits) /\ Typed' = Typed
    BY <1>2 DEF RoomInv, Fits, Typed
<1>4. (pc = "exit" => status \in {0, 42})'
  <2>1. CASE Judge
      BY <2>1 DEF Judge
  <2>2. CASE UNCHANGED conVars
      BY <2>2 DEF conVars, RoomInv
  <2>3. CASE Ask \/ GetConsole \/ GetMock \/ Echo
      BY <2>3 DEF Ask, GetConsole, GetMock, Echo, Turn
  <2>. QED  BY <1>1, <2>1, <2>2, <2>3 DEF ConsoleNext
<1>5. SUFFICES ASSUME impl = "console", Fits
               PROVE  /\ (pc \in {"ask", "gets", "echo", "judge", "exit"})'
                      /\ (pc = "ask" => input = typed /\ buf = <<>>)'
                      /\ (pc = "gets" => CallsStored)'
    BY <1>2, <1>3, <1>4 DEF RoomInv
<1>6. CASE Ask
  <2>1. pc' = "gets" /\ buf' = <<>> /\ input' = typed /\ typed' = typed
      BY <1>5, <1>6 DEF Ask, RoomInv
  <2>2. Len(Typed) \in Nat
      BY TypedEnds DEF RoomInv
  <2>3. CallsStored'
    <3>1. buf' \in Seq(Int) /\ Len(buf') = 0 /\ Len(typed) \in Nat /\ typed \in Seq(Bytes)
        BY <2>1, LenProperties DEF RoomInv
    <3>2. Len(buf') + Len(input') = Len(typed') /\ Len(buf') <= Len(Typed')
        BY <1>3, <2>1, <2>2, <3>1
    <3>3. \A j \in 1..Len(input') : input'[j] = typed'[Len(buf') + j]
        BY <2>1, <3>1
    <3>. QED  BY <2>1, <3>1, <3>2, <3>3 DEF CallsStored
  <2>. QED  BY <2>1, <2>3
<1>7. CASE GetConsole
  <2>1. CallsStored /\ typed \in Seq(Bytes)
      BY <1>5, <1>7 DEF GetConsole, RoomInv
  <2>2. \/ pc' = "echo"
        \/ pc' = "gets" /\ CallsStored'
      BY <1>5, <1>7, <2>1, RoomRead
  <2>. QED  BY <2>2
<1>8. CASE Echo \/ Judge
    BY <1>8 DEF Echo, Judge
<1>9. CASE UNCHANGED conVars
    BY <1>3, <1>5, <1>9 DEF conVars, RoomInv, CallsStored
<1>. QED  BY <1>1, <1>5, <1>6, <1>7, <1>8, <1>9 DEF ConsoleNext, GetMock

(* A complete line, as long as the buffer has room for, is judged by its     *)
(* letters, and gets stays in the buffer, whatever writes may fail.          *)
THEOREM CompleteLineIsJudged == Spec => []LineIsJudged
<1>1. LineInv /\ RoomInv => LineIsJudged
    BY DEF LineInv, RoomInv, LineIsJudged
<1>. QED  BY <1>1, LineInit, LineStep, RoomInit, RoomStep, PTL DEF Spec

-----------------------------------------------------------------------------
(* The exit status.  The machine without a C library runs by itself.         *)
RawHalf == program \in RawPrograms => RawInv

LEMMA RawKept == RawHalf /\ [Next]_vars => RawHalf'
<1>. SUFFICES ASSUME RawHalf, [Next]_vars, program' \in RawPrograms PROVE RawInv'
    BY DEF RawHalf
<1>1. CASE RunRaw
    BY <1>1, RawStep DEF RunRaw, RawHalf
<1>2. CASE UNCHANGED rawVars
  <2>1. program' = program
      BY <1>2 DEF rawVars
  <2>. QED  BY <1>2, <2>1, RawStep DEF RawHalf
<1>. QED  BY <1>1, <1>2 DEF Next, Run, RunCrt0, RunMain, Return, Astray, vars

(* What a program with a C library has returned from its main. *)
Returned ==
    /\ program = "min_libc_constructors" => Constructed
    /\ at = "exit" =>
        \/ program = "question" /\ pc = "exit" /\ ret = status
        \/ program = "question" /\ pc = "overrun"
        \/ program = "min_libc" /\ ret = (IF payload THEN 0 ELSE 42)
        \/ program = "min_libc_constructors" /\ ret = 42

Consoles == impl \in {"console", "mock"}

(* foo is the only function to store to STATIC_VAR: it has stored before     *)
(* main, and clearing has not undone it.                                     *)
LEMMA StaticVar ==
    ASSUME BootInv, at = "main", Constructed
    PROVE  STATIC_VAR = 42
<1>. DEFINE n == Len(InitArray)
            stores == {k \in 1..n : InitArray[k].at = 0}
            Latest(S) == CHOOSE k \in S : \A j \in S : j <= k
<1>1. InitArray \in Seq([at : Nat, value : STRING]) /\ DOMAIN InitArray = 1..n /\ n \in Nat
    BY InitArraysAssumption, LenProperties DEF BootInv
<1>2. PICK k \in 1..n : InitArray[k] = foo /\ \A j \in (1..n) \ {k} : InitArray[j].at # foo.at
    BY <1>1 DEF Constructed
<1>3. InitArray[k].at = 0 /\ InitArray[k].value = "42" /\ foo.at = 0
    BY <1>2 DEF foo
<1>4. stores = {k}
    BY <1>2, <1>3
<1>5. Latest(stores) = k
  <2>1. k <= k
      BY <1>1
  <2>. HIDE DEF stores
  <2>. QED  BY <1>4, <2>1
<1>6. After(0, n) = "42"
  <2>1. After(0, n) = IF stores # {} THEN InitArray[Latest(stores)].value
                      ELSE IF 0 \in InFile(lay) THEN "file" ELSE "zero"
      BY Zenon DEF After
  <2>. HIDE DEF stores, Latest, n
  <2>. QED  BY <1>3, <1>4, <1>5, <2>1
<1>7. 0 \in Variables
    BY <1>1, <1>2, <1>3 DEF BootInv
<1>8. mem[0] = "42"
    BY <1>6, <1>7 DEF BootInv
<1>. QED  BY <1>8 DEF STATIC_VAR

LEMMA ReturnedInit == Init => Returned
BY DEF Init, BootInit, Returned

LEMMA ReturnedStep == BootInv /\ Returned /\ [Next]_vars => Returned'
<1>. SUFFICES ASSUME BootInv, Returned, [Next]_vars PROVE Returned'
    OBVIOUS
<1>1. CASE RunRaw
    BY <1>1 DEF RunRaw, RawNext, bootVars, conVars, Returned, Constructed, RawPrograms
<1>2. CASE RunCrt0
    BY <1>2 DEF RunCrt0, BootNext, _start, Clear, CallInit, CallMain, conVars, rawVars, Returned,
                Constructed
<1>3. CASE RunMain
    BY <1>3 DEF RunMain, bootVars, rawVars, Returned, Constructed
<1>4. CASE Return
    BY <1>4, StaticVar DEF Return, Exit, conVars, rawVars, Returned, Constructed
<1>5. CASE Astray
    BY <1>5 DEF Astray, Exit, conVars, rawVars, Returned, Constructed
<1>6. CASE UNCHANGED vars
    BY <1>6 DEF vars, bootVars, conVars, rawVars, Returned, Constructed
<1>. QED  BY <1>1, <1>2, <1>3, <1>4, <1>5, <1>6 DEF Next, Run

(* Every program exits with the status its source and the tests promise,     *)
(* with the payloads and without, wherever things are linked, whatever the   *)
(* layout and whatever else is initialised; question.c if its line fits.     *)
THEOREM ProgramsExitAsWritten == Spec => []ExitsAsWritten
<1>1. Init => RawHalf
    BY RawInitInv DEF Init, RawHalf
<1>2. RawHalf /\ Returned /\ LineInv /\ RoomInv /\ MockInv /\ Consoles => ExitsAsWritten
  <2>. SUFFICES ASSUME RawHalf, Returned, LineInv, RoomInv, MockInv, Consoles
                PROVE  ExitsAsWritten
      OBVIOUS
  <2>1. program \in RawPrograms => ExitAsWritten
      BY RawExit DEF RawHalf
  <2>2. ASSUME at = "exit", Bounded, program = "question"
        PROVE  /\ ret \in {0, 42}
               /\ impl = "console" /\ Complete =>
                     ret = IF SameLetters(String(Typed), Name) THEN 0 ELSE 42
    <3>1. pc # "overrun"
        BY <2>2 DEF Bounded, RoomInv, MockInv, Consoles
    <3>2. pc = "exit" /\ ret = status
        BY <2>2, <3>1 DEF Returned
    <3>. QED  BY <3>2 DEF RoomInv, LineInv
  <2>3. ASSUME at = "exit", program # "question"
        PROVE  /\ program = "min_libc" => ret = IF payload THEN 0 ELSE 42
               /\ program = "min_libc_constructors" => ret = 42
      BY <2>3 DEF Returned
  <2>. QED  BY <2>1, <2>2, <2>3 DEF ExitsAsWritten
<1>3. BootSpec => []BootInv
    BY BootInvariant
<1>4. Init => Consoles
    BY DEF Init, ConsoleInit, Consoles
<1>5. Consoles /\ [Next]_vars => Consoles'
  <2>1. ConsoleNext => impl' = impl
      BY DEF ConsoleNext, Ask, GetConsole, GetMock, Echo, Judge
  <2>2. UNCHANGED conVars => impl' = impl
      BY DEF conVars
  <2>. QED  BY <2>1, <2>2, ConsoleSteps DEF Consoles
<1>. QED  BY <1>1, <1>2, <1>3, <1>4, <1>5, ProgramsBoot, RawKept, ReturnedInit, ReturnedStep,
              LineInit, LineStep, RoomInit, RoomStep, MockInit, MockStep, PTL DEF Spec
====
