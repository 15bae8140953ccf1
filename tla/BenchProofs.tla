---- MODULE BenchProofs ----
(* The matrices and the layer of the IoT benchmark fit their blocks, and     *)
(* what the loop computes in them is right, for all sizes of block, seeds,   *)
(* dimensions, channels and numbers of turns: in main, whatever the list     *)
(* does beside them.                                                         *)
EXTENDS IoTMain, Sums, WellFoundedInduction, TLAPS

-----------------------------------------------------------------------------
(* Every nonempty set of naturals has a least element. *)
LEMMA Least ==
    ASSUME NEW T \in SUBSET Nat, T # {}
    PROVE  \E x \in T : \A y \in T : x <= y
<1>1. PICK x \in T : \A y \in T : ~(<<y, x>> \in OpToRel(<, Nat))
    BY NatLessThanWellFounded, WFMin
<1>2. \A y \in T : ~(<<y, x>> \in {ss \in Nat \X Nat : ss[1] < ss[2]})
    BY <1>1 DEF OpToRel
<1>3. \A y \in T : ~(y < x)
    BY <1>2
<1>. QED  BY <1>3

(* Sums.  The recursion of Total has a solution, and so Total is what it     *)
(* says.                                                                     *)
Partial(f, g, n) ==
    g = [k \in 0..n |-> IF k = 0 THEN 0 ELSE g[k - 1] + f[k - 1]]

LEMMA PartialExists == ASSUME NEW f PROVE \A n \in Nat : \E g : Partial(f, g, n)
<1>. DEFINE bad == {n \in Nat : ~ \E g : Partial(f, g, n)}
<1>. SUFFICES ASSUME bad # {} PROVE FALSE
    OBVIOUS
<1>0. bad \in SUBSET Nat
    OBVIOUS
<1>1. PICK n \in bad : \A y \in bad : n <= y
  <2>. HIDE DEF bad
  <2>. QED  BY <1>0, Least
<1>2. CASE n = 0
  <2>. DEFINE g == [k \in 0..0 |-> 0]
  <2>1. Partial(f, g, 0)
      BY DEF Partial
  <2>. QED  BY <1>2, <2>1
<1>3. CASE n # 0
  <2>1. n \in Nat /\ n - 1 \in Nat /\ n - 1 \notin bad
    <3>. HIDE DEF bad
    <3>. QED  BY <1>0, <1>1, <1>3
  <2>2. PICK g : Partial(f, g, n - 1)
      BY <2>1
  <2>. DEFINE h == [k \in 0..n |-> IF k = n THEN g[n - 1] + f[n - 1] ELSE g[k]]
  <2>3. ASSUME NEW k \in 0..n
        PROVE  h[k] = IF k = 0 THEN 0 ELSE h[k - 1] + f[k - 1]
    <3>1. CASE k = n
        BY <1>3, <2>1, <3>1
    <3>2. CASE k # n
      <4>1. k \in 0..(n - 1) /\ h[k] = g[k]
          BY <2>1, <3>2
      <4>2. g[k] = IF k = 0 THEN 0 ELSE g[k - 1] + f[k - 1]
          BY <2>2, <4>1, Zenon DEF Partial
      <4>3. k # 0 => h[k - 1] = g[k - 1]
          BY <2>1, <4>1
      <4>. QED  BY <4>1, <4>2, <4>3
    <3>. QED  BY <3>1, <3>2
  <2>4. h = [k \in 0..n |-> h[k]]
      OBVIOUS
  <2>. HIDE DEF h
  <2>5. Partial(f, h, n)
      BY <2>3, <2>4 DEF Partial
  <2>. QED  BY <2>5
<1>. QED  BY <1>2, <1>3

LEMMA PartialUnique ==
    ASSUME NEW f, NEW m \in Nat, NEW n \in Nat, NEW g, NEW h,
           Partial(f, g, m), Partial(f, h, n)
    PROVE  \A k \in Nat : k <= m /\ k <= n => g[k] = h[k]
<1>. DEFINE bad == {k \in Nat : k <= m /\ k <= n /\ g[k] # h[k]}
<1>. SUFFICES ASSUME bad # {} PROVE FALSE
    OBVIOUS
<1>0. bad \in SUBSET Nat
    OBVIOUS
<1>1. PICK k \in bad : \A y \in bad : k <= y
  <2>. HIDE DEF bad
  <2>. QED  BY <1>0, Least
<1>2. k \in 0..m /\ k \in 0..n /\ g[k] # h[k] /\ k \in Nat
    BY <1>1
<1>3. /\ g[k] = IF k = 0 THEN 0 ELSE g[k - 1] + f[k - 1]
      /\ h[k] = IF k = 0 THEN 0 ELSE h[k - 1] + f[k - 1]
    BY <1>2, Zenon DEF Partial
<1>4. k # 0 /\ k - 1 \in Nat /\ k - 1 <= m /\ k - 1 <= n /\ g[k - 1] # h[k - 1]
    BY <1>2, <1>3
<1>5. k - 1 \in bad
    BY <1>4
<1>. HIDE DEF bad
<1>. QED  BY <1>1, <1>2, <1>5

(* A sum grows by its next term. *)
LEMMA TotalStep ==
    ASSUME NEW f
    PROVE  /\ Total(f, 0) = 0
           /\ \A n \in Nat : Total(f, n + 1) = Total(f, n) + f[n]
<1>. DEFINE upTo(n) == CHOOSE g : Partial(f, g, n)
            F == [n \in Nat |-> upTo(n)[n]]
            Is(s) == s = [k \in Nat |-> IF k = 0 THEN 0 ELSE s[k - 1] + f[k - 1]]
            sum == CHOOSE s : Is(s)
<1>1. \A n \in Nat : Partial(f, upTo(n), n)
    BY PartialExists
<1>2. ASSUME NEW k \in Nat PROVE F[k] = IF k = 0 THEN 0 ELSE F[k - 1] + f[k - 1]
  <2>. HIDE DEF upTo
  <2>1. upTo(k)[k] = IF k = 0 THEN 0 ELSE upTo(k)[k - 1] + f[k - 1]
    <3>1. k \in 0..k
        OBVIOUS
    <3>. QED  BY <1>1, <3>1, Zenon DEF Partial
  <2>2. CASE k = 0
      BY <2>1, <2>2
  <2>3. CASE k # 0
    <3>1. k - 1 \in Nat /\ k - 1 <= k
        BY <2>3
    <3>2. upTo(k)[k - 1] = upTo(k - 1)[k - 1]
        BY <1>1, <3>1, PartialUnique
    <3>. QED  BY <2>1, <2>3, <3>1, <3>2
  <2>. QED  BY <2>2, <2>3
<1>3. Is(F)
  <2>1. F = [k \in Nat |-> F[k]]
      OBVIOUS
  <2>. HIDE DEF F
  <2>. QED  BY <1>2, <2>1
<1>4. Is(sum)
  <2>. HIDE DEF F, Is
  <2>. QED  BY <1>3
<1>5. \A n : Total(f, n) = sum[n]
    BY Zenon DEF Total
<1>6. \A k \in Nat : sum[k] = IF k = 0 THEN 0 ELSE sum[k - 1] + f[k - 1]
  <2>. HIDE DEF sum
  <2>. QED  BY <1>4, Zenon
<1>. HIDE DEF sum
<1>7. sum[0] = 0
    BY <1>6
<1>8. ASSUME NEW n \in Nat PROVE sum[n + 1] = sum[n] + f[n]
  <2>1. n + 1 \in Nat /\ n + 1 # 0 /\ (n + 1) - 1 = n
      OBVIOUS
  <2>. QED  BY <1>6, <2>1
<1>. QED  BY <1>5, <1>7, <1>8

(* Sums of naturals are naturals. *)
LEMMA TotalInt ==
    ASSUME NEW f, NEW n \in Nat, \A k \in 0..(n - 1) : f[k] \in Nat
    PROVE  \A m \in 0..n : Total(f, m) \in Nat
<1>. DEFINE bad == {m \in 0..n : Total(f, m) \notin Nat}
<1>. SUFFICES ASSUME bad # {} PROVE FALSE
    OBVIOUS
<1>0. bad \in SUBSET Nat
    OBVIOUS
<1>1. PICK m \in bad : \A y \in bad : m <= y
  <2>. HIDE DEF bad
  <2>. QED  BY <1>0, Least
<1>2. m \in 0..n /\ Total(f, m) \notin Nat
    BY <1>1
<1>3. m # 0
    BY <1>2, TotalStep
<1>4. m - 1 \in Nat /\ m - 1 \in 0..n /\ m - 1 \in 0..(n - 1) /\ (m - 1) + 1 = m
    BY <1>2, <1>3
<1>5. Total(f, m) = Total(f, m - 1) + f[m - 1]
    BY <1>4, TotalStep
<1>6. m - 1 \in bad
    BY <1>2, <1>4, <1>5
<1>. HIDE DEF bad
<1>. QED  BY <1>1, <1>4, <1>6

(* A sum depends on the terms below its bound only. *)
LEMMA TotalSame ==
    ASSUME NEW f, NEW g, NEW n \in Nat, \A k \in 0..(n - 1) : f[k] = g[k]
    PROVE  Total(f, n) = Total(g, n)
<1>. DEFINE bad == {m \in 0..n : Total(f, m) # Total(g, m)}
<1>. SUFFICES ASSUME bad # {} PROVE FALSE
    OBVIOUS
<1>0. bad \in SUBSET Nat
    OBVIOUS
<1>1. PICK m \in bad : \A y \in bad : m <= y
  <2>. HIDE DEF bad
  <2>. QED  BY <1>0, Least
<1>2. m \in 0..n /\ Total(f, m) # Total(g, m)
    BY <1>1
<1>3. m # 0
    BY <1>2, TotalStep
<1>4. m - 1 \in Nat /\ m - 1 \in 0..n /\ m - 1 \in 0..(n - 1) /\ (m - 1) + 1 = m
    BY <1>2, <1>3
<1>5. Total(f, m) = Total(f, m - 1) + f[m - 1] /\ Total(g, m) = Total(g, m - 1) + g[m - 1]
    BY <1>4, TotalStep
<1>6. m - 1 \in bad
    BY <1>2, <1>4, <1>5
<1>. HIDE DEF bad
<1>. QED  BY <1>1, <1>4, <1>6

(* The modules of the matrices and the layer sum alike. *)
LEMMA SameTotal == \A f, n : M!Total(f, n) = Total(f, n) /\ Conv!Total(f, n) = Total(f, n)
BY Zenon DEF M!Total, Conv!Total, Total

-----------------------------------------------------------------------------
(* Quotients and remainders. *)
(* A number is determined by its quotient and its remainder. *)
LEMMA Rest ==
    ASSUME NEW m \in Nat \ {0}, NEW q \in Int, NEW y \in 0..(m - 1)
    PROVE  (m * q + y) % m = y
<1>. DEFINE z == (m * q + y) % m
            k == (m * q + y) \div m
<1>1. z \in 0..(m - 1) /\ k \in Int /\ m * q + y = m * k + z
    BY SMT
<1>. HIDE DEF z, k
<1>2. m * (q - k) = z - y
    BY <1>1
<1>3. q - k >= 1 => m * (q - k) >= m
    BY <1>1
<1>4. q - k <= -1 => m * (q - k) <= -m
    BY <1>1
<1>5. q = k
    BY <1>1, <1>2, <1>3, <1>4
<1>6. z = y
    BY <1>1, <1>2, <1>5
<1>. QED  BY <1>6 DEF z

(* Reducing a summand does not change the sum modulo m. *)
LEMMA ModAdd ==
    ASSUME NEW m \in Nat \ {0}, NEW x \in Int, NEW y \in Int
    PROVE  ((x % m) + y) % m = (x + y) % m
<1>. DEFINE a == (x % m) + y
            q == x \div m
            r == a % m
            k == a \div m
<1>1. q \in Int /\ x % m \in Int /\ x = m * q + (x % m)
    BY SMT
<1>2. a \in Int /\ x + y = m * q + a
    BY <1>1
<1>. HIDE DEF a, q
<1>3. k \in Int /\ r \in 0..(m - 1) /\ a = m * k + r
    BY <1>2, SMT
<1>. HIDE DEF r, k
<1>4. x + y = m * (q + k) + r /\ q + k \in Int
    BY <1>1, <1>2, <1>3
<1>5. (m * (q + k) + r) % m = r
    BY <1>3, <1>4, Rest
<1>6. (x + y) % m = r
    BY <1>4, <1>5
<1>. QED  BY <1>6 DEF r, a

LEMMA Quotient ==
    ASSUME NEW n \in Nat \ {0}, NEW x \in Nat
    PROVE  x \div n \in Nat /\ x % n \in 0..(n - 1) /\ (n = 1 => x \div n = x)
<1>1. x \div n \in Nat /\ x % n \in 0..(n - 1)
    BY SMT
<1>2. n = 1 => x \div n = x
    BY SMT
<1>. QED  BY <1>1, <1>2

(* Quotient and remainder of a place in rows of n. *)
LEMMA InRow ==
    ASSUME NEW n \in Nat \ {0}, NEW x \in Nat
    PROVE  /\ x \div n \in Nat /\ x % n \in 0..(n - 1)
           /\ x = (x \div n) * n + (x % n)
           /\ \/ /\ (x + 1) \div n = x \div n /\ (x + 1) % n = (x % n) + 1
                 /\ (x % n) + 1 < n
              \/ /\ (x + 1) \div n = (x \div n) + 1 /\ (x + 1) % n = 0
                 /\ (x % n) + 1 = n
<1>1. /\ x \div n \in Nat /\ x % n \in 0..(n - 1)
      /\ x = n * (x \div n) + (x % n)
    BY SMT
<1>2. /\ (x + 1) \div n \in Nat /\ (x + 1) % n \in 0..(n - 1)
      /\ x + 1 = n * ((x + 1) \div n) + ((x + 1) % n)
    BY SMT
<1>. DEFINE q == x \div n
            r == x % n
            p == (x + 1) \div n
            s == (x + 1) % n
<1>. HIDE DEF q, r, p, s
<1>3. /\ q \in Nat /\ p \in Nat /\ r \in 0..(n - 1) /\ s \in 0..(n - 1)
      /\ x = n * q + r /\ x + 1 = n * p + s
    BY <1>1, <1>2 DEF q, r, p, s
<1>4. n * (p - q) = r + 1 - s
    BY <1>3
<1>5. p - q >= 2 => n * (p - q) >= n + n
    BY <1>3
<1>6. p - q <= -1 => n * (p - q) <= -n
    BY <1>3
<1>7. p - q \in {0, 1}
    BY <1>3, <1>4, <1>5, <1>6
<1>8. \/ p = q /\ s = r + 1 /\ r + 1 < n
      \/ p = q + 1 /\ s = 0 /\ r + 1 = n
  <2>1. CASE p = q
      BY <1>3, <1>4, <2>1
  <2>2. CASE p = q + 1
    <3>1. n * (p - q) = n
        BY <1>3, <2>2
    <3>. QED  BY <1>3, <1>4, <2>2, <3>1
  <2>. QED  BY <1>3, <1>7, <2>1, <2>2
<1>9. n * q = q * n
    BY <1>3
<1>. QED  BY <1>3, <1>8, <1>9 DEF q, r, p, s

LEMMA RowOf ==
    ASSUME NEW n \in Nat \ {0}, NEW q \in Nat, NEW r \in 0..(n - 1)
    PROVE  (q * n + r) \div n = q /\ (q * n + r) % n = r
<1>. DEFINE x == q * n + r
            p == x \div n
            s == x % n
<1>1. x \in Nat
    BY SMT
<1>2. p \in Nat /\ s \in 0..(n - 1) /\ x = p * n + s
    BY <1>1, InRow
<1>. HIDE DEF p, s
<1>3. (p - q) * n = r - s
    BY <1>2
<1>4. p - q >= 1 => (p - q) * n >= n
    BY <1>2
<1>5. p - q <= -1 => (p - q) * n <= -n
    BY <1>2
<1>6. p = q
    BY <1>2, <1>3, <1>4, <1>5
<1>7. s = r
    BY <1>2, <1>6
<1>. QED  BY <1>6, <1>7 DEF p, s

(* Dividing by one number and then by another. *)
LEMMA DivideTwice ==
    ASSUME NEW a \in Nat \ {0}, NEW b \in Nat \ {0}, NEW x \in Nat
    PROVE  x \div (a * b) = (x \div a) \div b
<1>. DEFINE u == x \div a
            v == u \div b
            r == x % a
            s == u % b
<1>1. u \in Nat /\ r \in 0..(a - 1) /\ x = u * a + r
    BY InRow, Zenon
<1>2. v \in Nat /\ s \in 0..(b - 1) /\ u = v * b + s
    BY <1>1, InRow, Zenon
<1>. HIDE DEF u, v, r, s
<1>3. x = v * (a * b) + (s * a + r)
  <2>1. u * a = (v * b) * a + s * a
      BY <1>2
  <2>2. (v * b) * a = v * (a * b)
      BY <1>2
  <2>3. (v * b) * a \in Nat /\ s * a \in Nat
      BY <1>2
  <2>. QED  BY <1>1, <2>1, <2>2, <2>3
<1>4. a * b \in Nat \ {0}
    OBVIOUS
<1>5. s * a + r \in 0..(a * b - 1)
  <2>1. (b - 1) * a = a * b - a
      OBVIOUS
  <2>2. s * a <= (b - 1) * a /\ s * a \in Nat
      BY <1>2
  <2>. QED  BY <1>1, <1>4, <2>1, <2>2
<1>6. (v * (a * b) + (s * a + r)) \div (a * b) = v
    BY <1>2, <1>4, <1>5, RowOf, Zenon
<1>7. x \div (a * b) = v
    BY <1>3, <1>6, Zenon
<1>. QED  BY <1>7 DEF v, u

(* The counters of four nested loops, in a turn and in the next. *)
Inner1(x, a) == x % a
Inner2(x, a, b) == (x \div a) % b
Inner3(x, a, b, c) == (x \div (a * b)) % c
Outer(x, a, b, c) == x \div (a * b * c)

GetOn(a, b, c, k, p, q, o, k1, p1, q1, o1) ==
    \/ k + 1 < a /\ k1 = k + 1 /\ p1 = p /\ q1 = q /\ o1 = o
    \/ k + 1 = a /\ k1 = 0 /\ p + 1 < b /\ p1 = p + 1 /\ q1 = q /\ o1 = o
    \/ k + 1 = a /\ k1 = 0 /\ p + 1 = b /\ p1 = 0 /\ q + 1 < c /\ q1 = q + 1 /\ o1 = o
    \/ k + 1 = a /\ k1 = 0 /\ p + 1 = b /\ p1 = 0 /\ q + 1 = c /\ q1 = 0 /\ o1 = o + 1

LEMMA FourLoops ==
    ASSUME NEW a \in Nat \ {0}, NEW b \in Nat \ {0}, NEW c \in Nat \ {0}, NEW x \in Nat
    PROVE  /\ Inner1(x, a) \in 0..(a - 1) /\ Inner2(x, a, b) \in 0..(b - 1)
           /\ Inner3(x, a, b, c) \in 0..(c - 1) /\ Outer(x, a, b, c) \in Nat
           /\ GetOn(a, b, c,
                    Inner1(x, a), Inner2(x, a, b), Inner3(x, a, b, c), Outer(x, a, b, c),
                    Inner1(x + 1, a), Inner2(x + 1, a, b), Inner3(x + 1, a, b, c),
                    Outer(x + 1, a, b, c))
<1>. DEFINE u == x \div a
            v == u \div b
            u1 == (x + 1) \div a
            v1 == u1 \div b
<1>1. /\ u \in Nat /\ x % a \in 0..(a - 1)
      /\ \/ u1 = u /\ (x + 1) % a = (x % a) + 1 /\ (x % a) + 1 < a
         \/ u1 = u + 1 /\ (x + 1) % a = 0 /\ (x % a) + 1 = a
    BY InRow, Zenon
<1>. HIDE DEF u, u1
<1>2. /\ v \in Nat /\ u % b \in 0..(b - 1)
      /\ \/ (u + 1) \div b = v /\ (u + 1) % b = (u % b) + 1 /\ (u % b) + 1 < b
         \/ (u + 1) \div b = v + 1 /\ (u + 1) % b = 0 /\ (u % b) + 1 = b
    BY <1>1, InRow, Zenon
<1>. HIDE DEF v
<1>3. /\ v \div c \in Nat /\ v % c \in 0..(c - 1)
      /\ \/ (v + 1) \div c = v \div c /\ (v + 1) % c = (v % c) + 1 /\ (v % c) + 1 < c
         \/ (v + 1) \div c = (v \div c) + 1 /\ (v + 1) % c = 0 /\ (v % c) + 1 = c
    BY <1>2, InRow, Zenon
<1>4. /\ x \div (a * b) = v /\ (x + 1) \div (a * b) = v1
      /\ x \div (a * b * c) = v \div c /\ (x + 1) \div (a * b * c) = v1 \div c
  <2>1. a * b \in Nat \ {0} /\ x + 1 \in Nat
      OBVIOUS
  <2>2. x \div (a * b) = v /\ (x + 1) \div (a * b) = v1
      BY <2>1, DivideTwice, Zenon DEF u, v, u1
  <2>3. /\ x \div (a * b * c) = (x \div (a * b)) \div c
        /\ (x + 1) \div (a * b * c) = ((x + 1) \div (a * b)) \div c
      BY <2>1, DivideTwice, Zenon
  <2>. QED  BY <2>2, <2>3
<1>5. u1 = (x + 1) \div a /\ u = x \div a /\ v = u \div b
    BY DEF u, u1, v
<1>. DEFINE k == Inner1(x, a)
            k1 == Inner1(x + 1, a)
            p == Inner2(x, a, b)
            p1 == Inner2(x + 1, a, b)
            q == Inner3(x, a, b, c)
            q1 == Inner3(x + 1, a, b, c)
            o == Outer(x, a, b, c)
            o1 == Outer(x + 1, a, b, c)
<1>9. /\ k = x % a /\ k1 = (x + 1) % a /\ p = u % b /\ p1 = u1 % b
      /\ q = v % c /\ q1 = v1 % c /\ o = v \div c /\ o1 = v1 \div c
    BY <1>4, <1>5 DEF Inner1, Inner2, Inner3, Outer
<1>10. v1 = u1 \div b
    OBVIOUS
<1>. HIDE DEF k, k1, p, p1, q, q1, o, o1, v1
<1>6. CASE u1 = u /\ k1 = k + 1 /\ k + 1 < a
  <2>1. p1 = p /\ v1 = v
      BY <1>5, <1>9, <1>10, <1>6, Zenon
  <2>2. q1 = q /\ o1 = o
      BY <1>9, <2>1, Zenon
  <2>. QED  BY <1>1, <1>2, <1>3, <1>9, <1>6, <2>1, <2>2, Zenon
       DEF GetOn, k, k1, p, p1, q, q1, o, o1
<1>7. CASE u1 = u + 1 /\ k1 = 0 /\ k + 1 = a /\ (u + 1) \div b = v /\ (u + 1) % b = p + 1 /\ p + 1 < b
  <2>1. p1 = p + 1 /\ v1 = v
      BY <1>9, <1>10, <1>7, Zenon
  <2>2. q1 = q /\ o1 = o
      BY <1>9, <2>1, Zenon
  <2>. QED  BY <1>1, <1>2, <1>3, <1>9, <1>7, <2>1, <2>2, Zenon
       DEF GetOn, k, k1, p, p1, q, q1, o, o1
<1>8. CASE u1 = u + 1 /\ k1 = 0 /\ k + 1 = a /\ (u + 1) \div b = v + 1 /\ (u + 1) % b = 0 /\ p + 1 = b
  <2>1. p1 = 0 /\ v1 = v + 1
      BY <1>9, <1>10, <1>8, Zenon
  <2>2. q1 = (v + 1) % c /\ o1 = (v + 1) \div c
      BY <1>9, <2>1, Zenon
  <2>. QED  BY <1>1, <1>2, <1>3, <1>9, <1>8, <2>1, <2>2, Zenon
       DEF GetOn, k, k1, p, p1, q, q1, o, o1
<1>. QED  BY <1>1, <1>2, <1>9, <1>6, <1>7, <1>8, Zenon

(* The place in rows lies within them. *)
LEMMA InRows ==
    ASSUME NEW n \in Nat \ {0}, NEW m \in Nat, NEW q \in 0..(m - 1), NEW r \in 0..(n - 1)
    PROVE  q * n + r \in 0..(m * n - 1)
<1>1. q * n <= (m - 1) * n /\ q * n \in Nat
    OBVIOUS
<1>2. (m - 1) * n = m * n - n
    OBVIOUS
<1>3. m * n \in Nat
    OBVIOUS
<1>. QED  BY <1>1, <1>2, <1>3

-----------------------------------------------------------------------------
(* The scale of the matrices.  The search for it stops at the first scale    *)
(* that does not fit, before the product of its loop condition wraps around: *)
(* from one scale to the next a matrix grows at most eightfold.              *)
P(n) == M!Power(n, M!D)

Scaling ==
    /\ block \in Blocks
    /\ mat_i \in Nat
    /\ IF mat_pc = "size" THEN mat_i > 0 => 12 * P(mat_i - 1) < block.size
       ELSE M!UsesBlock /\ N \in Nat

LEMMA PowerFacts ==
    ASSUME NEW d \in 1..3, NEW n \in Nat
    PROVE  /\ M!Power(n, d) \in Nat
           /\ n = 0 => M!Power(n, d) = 0
           /\ n = 1 => M!Power(n, d) = 1
           /\ n >= 1 => M!Power(n + 1, d) <= 8 * M!Power(n, d)
<1>1. CASE d = 1
    BY <1>1 DEF M!Power
<1>2. CASE d = 2
  <2>1. M!Power(n, d) = n * n /\ M!Power(n + 1, d) = (n + 1) * (n + 1)
      BY <1>2 DEF M!Power
  <2>2. n * n \in Nat /\ (n + 1) * (n + 1) = n * n + 2 * n + 1
      OBVIOUS
  <2>3. n >= 1 => n <= n * n
      OBVIOUS
  <2>. QED  BY <2>1, <2>2, <2>3
<1>3. CASE d = 3
  <2>1. M!Power(n, d) = n * n * n /\ M!Power(n + 1, d) = (n + 1) * (n + 1) * (n + 1)
      BY <1>3 DEF M!Power
  <2>. DEFINE q == n * n
  <2>2. q \in Nat /\ (n + 1) * (n + 1) = q + 2 * n + 1 /\ (n >= 1 => n <= q)
      OBVIOUS
  <2>3. (q + 2 * n + 1) * (n + 1) = q * n + 3 * q + 3 * n + 1
      OBVIOUS
  <2>4. q * n \in Nat /\ (n >= 1 => q <= q * n)
      OBVIOUS
  <2>5. (n + 1) * (n + 1) * (n + 1) = q * n + 3 * q + 3 * n + 1
      BY <2>2, <2>3
  <2>6. n >= 1 => q * n + 3 * q + 3 * n + 1 <= 8 * (q * n)
    <3>. HIDE DEF q
    <3>. QED  BY <2>2, <2>4
  <2>7. n = 0 => n * n * n = 0
      OBVIOUS
  <2>8. n = 1 => n * n * n = 1
      OBVIOUS
  <2>. QED  BY <2>1, <2>4, <2>5, <2>6, <2>7, <2>8
<1>. QED  BY <1>1, <1>2, <1>3

(* The loop condition of the search is the true size of the matrices. *)
LEMMA NeedExact ==
    ASSUME Scaling, mat_pc = "size"
    PROVE  M!Need(mat_i) = 12 * P(mat_i) /\ P(mat_i) \in Nat
<1>1. /\ M!D \in 1..3 /\ block.size \in Nat /\ block.size > 12
      /\ 8 * block.size <= WORD /\ mat_i \in Nat
    BY BlocksAssumption DEF Scaling, M!D
<1>2. P(mat_i) \in Nat
    BY <1>1, PowerFacts DEF P
<1>3. 12 * P(mat_i) < 8 * block.size
  <2>1. CASE mat_i = 0
      BY <1>1, <2>1, PowerFacts DEF P
  <2>2. CASE mat_i = 1
      BY <1>1, <2>2, PowerFacts DEF P
  <2>3. CASE mat_i > 1
    <3>. DEFINE n == mat_i - 1
    <3>1. n \in Nat /\ n >= 1 /\ n + 1 = mat_i
        BY <1>1, <2>3
    <3>2. P(n) \in Nat /\ 12 * P(n) < block.size
        BY <1>1, <2>3, <3>1, PowerFacts DEF P, Scaling
    <3>3. P(n + 1) <= 8 * P(n)
        BY <1>1, <3>1, PowerFacts DEF P
    <3>. QED  BY <1>1, <1>2, <3>1, <3>2, <3>3
  <2>. QED  BY <1>1, <2>1, <2>2, <2>3
<1>4. M!Need(mat_i) = (P(mat_i) * 4 * 3) % WORD
    BY DEF M!Need, P, M!SIZEOF
<1>5. WORD \in Nat /\ 12 * P(mat_i) < WORD
    BY <1>1, <1>2, <1>3, BlocksAssumption
<1>. QED  BY <1>2, <1>4, <1>5

LEMMA ScalingInit == MainInit => Scaling
<1>. SUFFICES ASSUME MainInit PROVE Scaling
    OBVIOUS
<1>. QED  BY DEF MainInit, M!Init, Scaling

LEMMA ScalingStep == Scaling /\ [MainNext]_mainVars => Scaling'
<1>. SUFFICES ASSUME Scaling, [MainNext]_mainVars PROVE Scaling'
    OBVIOUS
<1>1. /\ M!D \in 1..3 /\ block.size \in Nat /\ block.size > 12 /\ mat_i \in Nat
    BY BlocksAssumption DEF Scaling, M!D
<1>2. ASSUME UNCHANGED <<block, mat_i, N>>, mat_pc' = mat_pc \/ (mat_pc # "size" /\ mat_pc' # "size")
      PROVE  Scaling'
    BY <1>2 DEF Scaling, P, M!D, M!UsesBlock, M!Scaled, M!Elems
<1>3. ASSUME NEW n \in Nat, n >= 1, N' = n, mat_i' = mat_i, block' = block, mat_pc' = "fill",
             12 * P(n) <= block.size, block.size <= 12 * P(n + 1)
      PROVE  Scaling'
  <2>1. P(n) \in Nat /\ P(n + 1) \in Nat
      BY <1>1, PowerFacts DEF P
  <2>2. M!Elems' = P(n) /\ M!Power(N + 1, M!D)' = P(n + 1) /\ M!SIZEOF = 4
      BY <1>3 DEF M!Elems, P, M!D, M!SIZEOF
  <2>3. M!UsesBlock'
      BY <1>3, <2>1, <2>2 DEF M!UsesBlock, M!SIZEOF
  <2>. QED  BY <1>1, <1>3, <2>3 DEF Scaling
<1>4. CASE M!Scale1
  <2>. DEFINE n == block.size \div 12
  <2>1. N' = n /\ block' = block /\ mat_i' = mat_i /\ mat_pc' = "fill" /\ M!D = 1
      BY <1>4 DEF M!Scale1, M!SIZEOF
  <2>2. n \in Nat /\ n >= 1 /\ 12 * n <= block.size /\ block.size <= 12 * (n + 1)
      BY <1>1
  <2>3. P(n) = n /\ P(n + 1) = n + 1
      BY <2>1 DEF P, M!Power
  <2>. QED  BY <1>3, <2>1, <2>2, <2>3
<1>5. CASE M!Grow
  <2>1. /\ mat_pc = "size" /\ mat_pc' = "size" /\ mat_i' = mat_i + 1 /\ block' = block
        /\ M!Need(mat_i) < block.size
      BY <1>5 DEF M!Grow
  <2>2. 12 * P(mat_i) < block.size
      BY <2>1, NeedExact
  <2>3. mat_i' - 1 = mat_i /\ mat_i' \in Nat
      BY <1>1, <2>1
  <2>4. P(mat_i - 1)' = P(mat_i)
      BY <2>1, <2>3 DEF P, M!D
  <2>5. (12 * P(mat_i - 1) < block.size)'
      BY <2>1, <2>2, <2>4
  <2>. QED  BY <2>1, <2>3, <2>5 DEF Scaling
<1>6. CASE M!Scale
  <2>. DEFINE n == mat_i - 1
  <2>1. /\ mat_pc = "size" /\ mat_pc' = "fill" /\ N' = n /\ mat_i' = mat_i /\ block' = block
        /\ M!Need(mat_i) >= block.size
      BY <1>6 DEF M!Scale
  <2>2. 12 * P(mat_i) >= block.size /\ P(mat_i) \in Nat
      BY <2>1, NeedExact
  <2>3. mat_i > 1
    <3>1. (mat_i = 0 => P(mat_i) = 0) /\ (mat_i = 1 => P(mat_i) = 1)
        BY <1>1, PowerFacts DEF P
    <3>. QED  BY <1>1, <2>2, <3>1
  <2>4. n \in Nat /\ n >= 1 /\ n + 1 = mat_i
      BY <1>1, <2>3
  <2>5. 12 * P(n) < block.size /\ P(n) \in Nat
      BY <1>1, <2>1, <2>3, <2>4, PowerFacts DEF Scaling, P
  <2>. QED  BY <1>1, <1>3, <2>1, <2>2, <2>4, <2>5
<1>7. CASE M!Fill \/ M!AddConst \/ M!MulConst \/ M!Multiply \/ M!MulEnd
  <2>1. UNCHANGED <<block, mat_i, N>> /\ mat_pc # "size" /\ mat_pc' # "size"
      BY <1>7 DEF M!Fill, M!AddConst, M!MulConst, M!Multiply, M!MulEnd
  <2>. QED  BY <1>2, <2>1
<1>8. CASE UNCHANGED matVars
  <2>1. UNCHANGED <<block, mat_i, N>> /\ mat_pc' = mat_pc
      BY <1>8 DEF matVars
  <2>. QED  BY <1>2, <2>1
<1>9. M!MatrixInit \/ M!MatrixTurn \/ UNCHANGED matVars
    BY DEF MainNext, mainVars, ListInit, MatrixInit, ConvInit, RunList, RunMatrix, RunConv
<1>. QED  BY <1>4, <1>5, <1>6, <1>7, <1>8, <1>9 DEF M!MatrixInit, M!MatrixTurn

(* The three matrices end within their block, and the next scale would not   *)
(* fit below its end: the unsigned product in the search for the scale never *)
(* wraps around on the way.                                                  *)
THEOREM MatricesUseBlock == Main => []UsesBlock
<1>1. Scaling => UsesBlock
    BY DEF Scaling, UsesBlock, M!UsesBlock, M!Scaled
<1>. QED  BY <1>1, ScalingInit, ScalingStep, PTL DEF Main

-----------------------------------------------------------------------------
(* The products of the matrices. *)
Grown(p, g) == IF g = 0 THEN M!FirstA(p) ELSE (M!FirstA(p) + g * val) % WORD
Turns == IF mat_pc = "add_const" THEN mat_turn ELSE mat_turn + 1

InA(r, l) == IF M!D = 1 THEN l ELSE M!Coord(r, 1) * N + l
InB(r, l) == IF M!D = 1 THEN l ELSE l * N + M!Coord(r, 0)
Products(r, g) == [l \in 0..(N - 1) |-> Grown(InA(r, l), g) * M!FirstB(InB(r, l))]
Holds(r, n, g) == mem[M!C(r)] = Total(Products(r, g), n) % WORD

Operands ==
    \A p \in M!Positions : mem[M!A(p)] = Grown(p, Turns) /\ mem[M!B(p)] = M!FirstB(p)

(* The inductive invariant: the operands are as the turns so far have made  *)
(* them, and of the results each is the sum that the loops have reached.     *)
Multiplied ==
    /\ mat_turn \in Nat
    /\ mat_pc \in {"size", "fill", "add_const", "mul_const", "mul_matrix"}
    /\ mat_pc \in {"size", "fill"} => mat_turn = 0
    /\ DOMAIN mem = 0..((block.size \div 4) - 1)
    /\ mat_pc \notin {"size", "fill"} /\ M!D \in {1, 2} =>
          /\ Operands
          /\ mat_pc = "mul_matrix" =>
                /\ t \in Nat
                /\ \A r \in M!Results :
                      /\ r < M!Result => Holds(r, N, Turns)
                      /\ r = M!Result /\ M!Inner > 0 => Holds(r, M!Inner, Turns)
          /\ mat_pc = "add_const" /\ mat_turn > 0 =>
                \A r \in M!Results : Holds(r, N, mat_turn)

LEMMA ProductFrame ==
    ASSUME UNCHANGED <<block, N>>
    PROVE  /\ M!D' = M!D /\ M!Elems' = M!Elems /\ M!Positions' = M!Positions
           /\ M!Results' = M!Results
           /\ \A p : M!FirstA(p)' = M!FirstA(p) /\ M!FirstB(p)' = M!FirstB(p)
           /\ \A p : M!A(p)' = M!A(p) /\ M!B(p)' = M!B(p) /\ M!C(p)' = M!C(p)
           /\ \A r, g : Products(r, g)' = Products(r, g)
           /\ \A p, g : Grown(p, g)' = Grown(p, g)
<1>1. M!D' = M!D /\ (\A n, d : M!Power(n, d)' = M!Power(n, d))
    BY DEF M!D, M!Power
<1>2. M!Elems' = M!Elems /\ M!Positions' = M!Positions /\ M!Results' = M!Results
      /\ \A p, d : M!Coord(p, d)' = M!Coord(p, d)
    BY <1>1 DEF M!Elems, M!Positions, M!Results, M!Coord
<1>3. \A p : M!FirstA(p)' = M!FirstA(p) /\ M!FirstB(p)' = M!FirstB(p)
    BY <1>1, <1>2 DEF M!FirstA, M!FirstB
<1>4. \A p : M!A(p)' = M!A(p) /\ M!B(p)' = M!B(p) /\ M!C(p)' = M!C(p)
    BY <1>2 DEF M!A, M!B, M!C
<1>5. \A p, g : Grown(p, g)' = Grown(p, g)
    BY <1>3 DEF Grown
<1>6. \A r, l : InA(r, l)' = InA(r, l) /\ InB(r, l)' = InB(r, l)
    BY <1>1, <1>2 DEF InA, InB
<1>7. \A r, g : Products(r, g)' = Products(r, g)
  <2>. SUFFICES ASSUME NEW r, NEW g PROVE Products(r, g)' = Products(r, g)
      OBVIOUS
  <2>1. \A l \in 0..(N - 1) : /\ Grown(InA(r, l), g)' = Grown(InA(r, l), g)
                              /\ M!FirstB(InB(r, l))' = M!FirstB(InB(r, l))
      BY <1>3, <1>5, <1>6
  <2>. QED  BY <2>1 DEF Products
<1>. QED  BY <1>1, <1>2, <1>3, <1>4, <1>5, <1>7

(* Where everything lies, and that it is of numbers. *)
LEMMA MatrixFacts ==
    ASSUME Scaling, mat_pc # "size", M!D \in {1, 2}, DOMAIN mem = 0..((block.size \div 4) - 1)
    PROVE  /\ N \in Nat \ {0} /\ M!Elems \in Nat \ {0} /\ N <= M!Elems
           /\ M!Elems = (IF M!D = 1 THEN N ELSE N * N)
           /\ WORD \in Nat \ {0} /\ val \in Nat
           /\ \A p \in M!Positions :
                 /\ M!A(p) \in DOMAIN mem /\ M!B(p) \in DOMAIN mem /\ M!C(p) \in DOMAIN mem
                 /\ M!FirstA(p) \in Nat /\ M!FirstB(p) \in Nat
           /\ \A r \in M!Results :
                 /\ r \in M!Positions
                 /\ \A l \in 0..(N - 1) : InA(r, l) \in M!Positions /\ InB(r, l) \in M!Positions
<1>2. M!Elems = (IF M!D = 1 THEN N ELSE N * N)
    BY DEF M!Elems, M!Power
<1>1. /\ block \in Blocks /\ block.size \in Nat /\ N \in Nat /\ N >= 1
      /\ 12 * M!Elems <= block.size /\ WORD \in Nat /\ WORD > 0 /\ val \in Nat
  <2>1. block \in Blocks /\ N \in Nat /\ N >= 1 /\ 3 * M!Elems * 4 <= block.size
      BY DEF Scaling, M!UsesBlock, M!Scaled, M!SIZEOF
  <2>2. block.size \in Nat /\ block.size > 12 /\ WORD \in Nat /\ 8 * block.size <= WORD
      BY <2>1, BlocksAssumption
  <2>3. M!Elems \in Nat
    <3>1. N * N \in Nat
        BY <2>1
    <3>. QED  BY <1>2, <2>1, <3>1
  <2>. QED  BY <2>1, <2>2, <2>3, WordsAssumption
<1>3. M!Elems \in Nat \ {0} /\ N <= M!Elems
  <2>1. N * N \in Nat /\ N * N >= N
      BY <1>1
  <2>. QED  BY <1>1, <1>2, <2>1
<1>4. 3 * M!Elems <= block.size \div 4
    BY <1>1, <1>3
<1>5. ASSUME NEW p \in M!Positions
      PROVE  /\ M!A(p) \in DOMAIN mem /\ M!B(p) \in DOMAIN mem /\ M!C(p) \in DOMAIN mem
             /\ p \in 0..(M!Elems - 1)
  <2>1. p \in 0..(M!Elems - 1)
      BY DEF M!Positions
  <2>. QED  BY <1>1, <1>3, <1>4, <2>1 DEF M!A, M!B, M!C
<1>6. /\ Words \subseteq Nat /\ block.seed \in Words /\ 0..(block.size \div 4) \subseteq Words
      /\ \A x, y \in Words : BitXor(x, y) \in Words /\ BitOr(x, y) \in Words
    BY <1>1, WordsAssumption
<1>7. ASSUME NEW p \in M!Positions
      PROVE  /\ M!Coord(p, 0) \in 0..(N - 1)
             /\ M!D = 2 => M!Coord(p, 1) \in 0..(N - 1)
  <2>1. p \in Nat
      BY <1>5
  <2>2. M!Coord(p, 0) = (p \div 1) % N /\ M!Coord(p, 1) = (p \div N) % N
      BY DEF M!Coord, M!Power
  <2>. /\ N \in Nat \ {0} /\ 1 \in Nat \ {0}
      BY <1>1
  <2>3. p \div 1 = p /\ p \div N \in Nat
      BY <2>1, Quotient, Zenon
  <2>4. p % N \in 0..(N - 1) /\ (p \div N) % N \in 0..(N - 1)
      BY <2>1, <2>3, Quotient, Zenon
  <2>. QED  BY <2>2, <2>3, <2>4
<1>8. ASSUME NEW p \in M!Positions PROVE M!FirstA(p) \in Nat /\ M!FirstB(p) \in Nat
  <2>1. p \in Words /\ M!Coord(p, 0) \in Words
      BY <1>1, <1>3, <1>4, <1>5, <1>6, <1>7
  <2>2. CASE M!D = 1
      BY <1>6, <2>1, <2>2 DEF M!FirstA, M!FirstB
  <2>3. CASE M!D = 2
    <3>1. M!Coord(p, 1) \in Words
        BY <1>1, <1>3, <1>4, <1>6, <1>7, <2>3
    <3>. QED  BY <1>6, <2>1, <2>3, <3>1 DEF M!FirstA, M!FirstB
  <2>. QED  BY <2>2, <2>3
<1>9. ASSUME NEW r \in M!Results
      PROVE  /\ r \in M!Positions
             /\ \A l \in 0..(N - 1) : InA(r, l) \in M!Positions /\ InB(r, l) \in M!Positions
  <2>1. CASE M!D = 1
      BY <1>1, <1>2, <2>1 DEF M!Results, M!Positions, InA, InB
  <2>2. CASE M!D = 2
    <3>1. r \in M!Positions
        BY <2>2 DEF M!Results
    <3>2. M!Coord(r, 0) \in 0..(N - 1) /\ M!Coord(r, 1) \in 0..(N - 1)
        BY <1>7, <2>2, <3>1
    <3>3. ASSUME NEW u \in 0..(N - 1), NEW v \in 0..(N - 1) PROVE u * N + v \in 0..(N * N - 1)
      <4>1. u * N + N <= N * N
        <5>1. (u + 1) * N <= N * N
            BY <1>1
        <5>. QED  BY <1>1, <5>1
      <4>2. u * N \in Nat
          BY <1>1
      <4>. QED  BY <1>1, <4>1, <4>2
    <3>4. M!Positions = 0..(N * N - 1)
        BY <1>2, <2>2 DEF M!Positions
    <3>. QED  BY <2>2, <3>1, <3>2, <3>3, <3>4 DEF InA, InB
  <2>. QED  BY <2>1, <2>2
<1>. QED  BY <1>1, <1>2, <1>3, <1>5, <1>8, <1>9

LEMMA GrownNat ==
    ASSUME Scaling, mat_pc # "size", M!D \in {1, 2}, DOMAIN mem = 0..((block.size \div 4) - 1),
           NEW p \in M!Positions, NEW g \in Nat
    PROVE  Grown(p, g) \in Nat
<1>1. M!FirstA(p) \in Nat /\ WORD \in Nat \ {0} /\ val \in Nat
    BY MatrixFacts
<1>2. M!FirstA(p) + g * val \in Nat
    BY <1>1
<1>3. (M!FirstA(p) + g * val) % WORD \in Nat
    BY <1>1, <1>2
<1>. QED  BY <1>1, <1>3 DEF Grown

(* The operands do not change while mem changes in C only. *)
LEMMA OperandsStay ==
    ASSUME Operands, UNCHANGED <<block, N>>, Turns' = Turns,
           \A p \in M!Positions : mem'[M!A(p)] = mem[M!A(p)] /\ mem'[M!B(p)] = mem[M!B(p)]
    PROVE  Operands'
BY ProductFrame DEF Operands

LEMMA FillRight ==
    ASSUME Scaling, Multiplied, M!Fill PROVE Multiplied'
<1>1. /\ UNCHANGED <<block, N, mat_turn>> /\ mat_pc = "fill" /\ mat_pc' = "add_const"
      /\ mat_turn = 0
      /\ mem' = [w \in DOMAIN mem |->
                  CASE w < M!Elems -> M!FirstA(w)
                    [] w \in {M!B(p) : p \in M!Positions} -> M!FirstB(w - M!Elems)
                    [] OTHER -> mem[w]]
    BY DEF M!Fill, Multiplied
<1>2. Turns' = 0
    BY <1>1 DEF Turns
<1>3. M!D \in {1, 2} => Operands'
  <2>. SUFFICES ASSUME M!D \in {1, 2}, NEW p \in M!Positions
                PROVE  mem'[M!A(p)] = M!FirstA(p) /\ mem'[M!B(p)] = M!FirstB(p)
      BY <1>1, <1>2, ProductFrame DEF Operands, Grown
  <2>1. /\ M!Elems \in Nat \ {0} /\ M!A(p) \in DOMAIN mem /\ M!B(p) \in DOMAIN mem
      BY <1>1, MatrixFacts DEF Multiplied
  <2>2. p \in 0..(M!Elems - 1) /\ M!A(p) = p /\ M!B(p) = M!Elems + p
      BY DEF M!Positions, M!A, M!B
  <2>3. M!A(p) < M!Elems /\ ~(M!B(p) < M!Elems) /\ M!B(p) - M!Elems = p
      BY <2>1, <2>2
  <2>. DOMAIN mem \subseteq Int
      BY DEF Multiplied
  <2>4. ASSUME NEW w \in DOMAIN mem
        PROVE  /\ w < M!Elems => mem'[w] = M!FirstA(w)
               /\ ~(w < M!Elems) /\ w \in {M!B(q) : q \in M!Positions}
                     => mem'[w] = M!FirstB(w - M!Elems)
    <3>. DEFINE First(v) ==
                    CASE v < M!Elems -> M!FirstA(v)
                      [] v \in {M!B(q) : q \in M!Positions} -> M!FirstB(v - M!Elems)
                      [] OTHER -> mem[v]
    <3>1. mem' = [v \in DOMAIN mem |-> First(v)]
        BY <1>1
    <3>2. mem'[w] = First(w)
      <4>. HIDE DEF First
      <4>. QED  BY <3>1
    <3>3. w < M!Elems => First(w) = M!FirstA(w)
      <4>1. w < M!Elems => w \notin {M!B(q) : q \in M!Positions}
          BY <2>1 DEF M!Positions, M!B
      <4>. QED  BY <4>1 DEF First
    <3>4. ~(w < M!Elems) /\ w \in {M!B(q) : q \in M!Positions} => First(w) = M!FirstB(w - M!Elems)
        BY DEF First
    <3>. HIDE DEF First
    <3>. QED  BY <3>2, <3>3, <3>4
  <2>. HIDE <1>1
  <2>. QED  BY <2>1, <2>2, <2>3, <2>4
<1>4. DOMAIN mem' = 0..((block.size \div 4) - 1)'
    BY <1>1 DEF Multiplied
<1>. QED  BY <1>1, <1>3, <1>4, ProductFrame DEF Multiplied

LEMMA AddConstRight ==
    ASSUME Scaling, Multiplied, M!AddConst PROVE Multiplied'
<1>1. /\ UNCHANGED <<block, N, mat_turn>> /\ mat_pc = "add_const" /\ mat_pc' = "mul_const"
      /\ mem' = [w \in DOMAIN mem |->
                  IF w \in M!Positions THEN (mem[w] + val) % WORD ELSE mem[w]]
    BY DEF M!AddConst
<1>2. mat_turn \in Nat /\ Turns = mat_turn /\ Turns' = mat_turn + 1
    BY <1>1 DEF Turns, Multiplied
<1>3. M!D \in {1, 2} => Operands'
  <2>. SUFFICES ASSUME M!D \in {1, 2}, NEW p \in M!Positions
                PROVE  mem'[M!A(p)] = Grown(p, mat_turn + 1) /\ mem'[M!B(p)] = M!FirstB(p)
      BY <1>1, <1>2, ProductFrame DEF Operands
  <2>1. /\ M!Elems \in Nat \ {0} /\ M!A(p) \in DOMAIN mem /\ M!B(p) \in DOMAIN mem
        /\ WORD \in Nat \ {0} /\ val \in Nat /\ M!FirstA(p) \in Nat
      BY <1>1, MatrixFacts DEF Multiplied
  <2>2. p \in 0..(M!Elems - 1) /\ M!A(p) = p /\ M!B(p) = M!Elems + p
        /\ M!B(p) \notin M!Positions
      BY <2>1 DEF M!Positions, M!A, M!B
  <2>3. mem[M!A(p)] = Grown(p, mat_turn) /\ mem[M!B(p)] = M!FirstB(p)
      BY <1>1, <1>2 DEF Multiplied, Operands
  <2>4. (Grown(p, mat_turn) + val) % WORD = Grown(p, mat_turn + 1)
    <3>1. CASE mat_turn = 0
        BY <2>1, <3>1 DEF Grown
    <3>2. CASE mat_turn # 0
      <4>. DEFINE x == M!FirstA(p) + mat_turn * val
      <4>1. x \in Int /\ x + val = M!FirstA(p) + (mat_turn + 1) * val
          BY <1>2, <2>1
      <4>2. ((x % WORD) + val) % WORD = (x + val) % WORD
        <5>. HIDE DEF x
        <5>1. val \in Int
            BY <2>1
        <5>. QED  BY <2>1, <4>1, <5>1, ModAdd, Zenon
      <4>. QED  BY <1>2, <3>2, <4>1, <4>2 DEF Grown
    <3>. QED  BY <3>1, <3>2
  <2>. QED  BY <1>1, <2>1, <2>2, <2>3, <2>4
<1>4. DOMAIN mem' = 0..((block.size \div 4) - 1)'
    BY <1>1 DEF Multiplied
<1>. QED  BY <1>1, <1>2, <1>3, <1>4, ProductFrame DEF Multiplied

LEMMA MulConstRight ==
    ASSUME Scaling, Multiplied, M!MulConst PROVE Multiplied'
<1>1. /\ UNCHANGED <<block, N, mat_turn>> /\ mat_pc = "mul_const" /\ mat_pc' = "mul_matrix"
      /\ t' = 0
      /\ mem' = [w \in DOMAIN mem |->
                  IF w \in {M!C(p) : p \in M!Positions}
                  THEN (mem[M!A(w - 2 * M!Elems)] * val) % WORD ELSE mem[w]]
    BY DEF M!MulConst
<1>2. mat_turn \in Nat /\ Turns' = Turns
    BY <1>1 DEF Turns, Multiplied
<1>3. M!D \in {1, 2} => Operands'
  <2>. SUFFICES ASSUME M!D \in {1, 2} PROVE Operands'
      OBVIOUS
  <2>1. M!Elems \in Nat \ {0}
      BY <1>1, MatrixFacts DEF Multiplied
  <2>2. ASSUME NEW p \in M!Positions
        PROVE  mem'[M!A(p)] = mem[M!A(p)] /\ mem'[M!B(p)] = mem[M!B(p)]
    <3>1. M!A(p) \in DOMAIN mem /\ M!B(p) \in DOMAIN mem
        BY <1>1, MatrixFacts DEF Multiplied
    <3>2. M!A(p) \notin {M!C(q) : q \in M!Positions} /\ M!B(p) \notin {M!C(q) : q \in M!Positions}
        BY <2>1 DEF M!Positions, M!A, M!B, M!C
    <3>. QED  BY <1>1, <3>1, <3>2
  <2>3. Operands
      BY <1>1 DEF Multiplied
  <2>. QED  BY <1>1, <1>2, <2>2, <2>3, OperandsStay
<1>4. DOMAIN mem' = 0..((block.size \div 4) - 1)'
    BY <1>1 DEF Multiplied
<1>5. M!D \in {1, 2} => \A r \in M!Results' : ~(r < M!Result') /\ ~(M!Inner' > 0)
  <2>. SUFFICES ASSUME M!D \in {1, 2}, NEW r \in M!Results
                PROVE  ~(r < M!Result') /\ ~(M!Inner' > 0)
      BY <1>1, ProductFrame
  <2>1. N \in Nat \ {0} /\ r \in M!Positions
      BY <1>1, MatrixFacts DEF Multiplied
  <2>2. r >= 0 /\ r \in Int
      BY <2>1 DEF M!Positions
  <2>3. M!Result' = 0 \div N /\ M!Inner' = 0 % N
      BY <1>1 DEF M!Result, M!Inner
  <2>4. 0 \div N = 0 /\ 0 % N = 0
      BY <2>1
  <2>. QED  BY <2>2, <2>3, <2>4
<1>. QED  BY <1>1, <1>2, <1>3, <1>4, <1>5 DEF Multiplied, M!D

LEMMA MultiplyRight ==
    ASSUME Scaling, Multiplied, M!Multiply PROVE Multiplied'
<1>1. /\ UNCHANGED <<block, N, mat_turn, mat_pc>> /\ mat_pc = "mul_matrix"
      /\ t' = t + 1 /\ M!Result \in M!Results
      /\ mem' = [mem EXCEPT ![M!C(M!Result)] =
                    ((IF M!Inner = 0 THEN 0 ELSE mem[M!C(M!Result)])
                        + mem[M!OperandA] * mem[M!OperandB]) % WORD]
    BY DEF M!Multiply
<1>2. mat_turn \in Nat /\ Turns' = Turns /\ Turns \in Nat
    BY <1>1 DEF Turns, Multiplied
<1>3. DOMAIN mem' = 0..((block.size \div 4) - 1)'
    BY <1>1 DEF Multiplied
<1>. SUFFICES ASSUME M!D \in {1, 2}
              PROVE  /\ Operands' /\ t' \in Nat
                     /\ \A r \in M!Results :
                           /\ r < M!Result' => Holds(r, N, Turns)'
                           /\ r = M!Result' /\ M!Inner' > 0 => Holds(r, M!Inner, Turns)'
    BY <1>1, <1>2, <1>3, ProductFrame DEF Multiplied
<1>0. PICK r0, l0, g : r0 = M!Result /\ l0 = M!Inner /\ g = Turns
    BY Zenon
<1>. DEFINE f == Products(r0, g)
<1>4. /\ N \in Nat \ {0} /\ M!Elems \in Nat \ {0} /\ WORD \in Nat \ {0}
      /\ r0 \in M!Positions /\ t \in Nat /\ Operands
      /\ \A p \in M!Positions :
            M!A(p) \in DOMAIN mem /\ M!B(p) \in DOMAIN mem /\ M!C(p) \in DOMAIN mem
      /\ \A r \in M!Results : r \in M!Positions
  <2>1. DOMAIN mem = 0..((block.size \div 4) - 1) /\ t \in Nat /\ Operands
      BY <1>1 DEF Multiplied
  <2>. QED  BY <1>0, <1>1, <2>1, MatrixFacts
<1>5. /\ l0 \in 0..(N - 1)
      /\ \/ M!Result' = r0 /\ M!Inner' = l0 + 1
         \/ M!Result' = r0 + 1 /\ M!Inner' = 0 /\ l0 + 1 = N
  <2>1. r0 = t \div N /\ l0 = t % N /\ M!Result' = (t + 1) \div N /\ M!Inner' = (t + 1) % N
      BY <1>0, <1>1 DEF M!Result, M!Inner
  <2>. QED  BY <1>4, <2>1, InRow, Zenon
<1>6. /\ \A r \in M!Results : r < r0 => Holds(r, N, g)
      /\ l0 > 0 => Holds(r0, l0, g)
    BY <1>0, <1>1 DEF Multiplied
<1>7. \A p \in M!Positions : M!A(p) # M!C(r0) /\ M!B(p) # M!C(r0) /\ (p # r0 => M!C(p) # M!C(r0))
    BY <1>4 DEF M!Positions, M!A, M!B, M!C
<1>8. Operands'
  <2>1. ASSUME NEW p \in M!Positions
        PROVE  mem'[M!A(p)] = mem[M!A(p)] /\ mem'[M!B(p)] = mem[M!B(p)]
      BY <1>0, <1>1, <1>4, <1>7
  <2>. QED  BY <1>1, <1>2, <1>4, <2>1, OperandsStay
<1>9. /\ mem[M!OperandA] * mem[M!OperandB] = f[l0]
      /\ \A l \in 0..(N - 1) : f[l] \in Nat
  <2>1. DOMAIN mem = 0..((block.size \div 4) - 1) /\ r0 \in M!Results
      BY <1>0, <1>1 DEF Multiplied
  <2>2. \A l \in 0..(N - 1) : InA(r0, l) \in M!Positions /\ InB(r0, l) \in M!Positions
      BY <1>1, <2>1, MatrixFacts
  <2>3. \A p \in M!Positions : mem[M!A(p)] = Grown(p, g) /\ mem[M!B(p)] = M!FirstB(p)
      BY <1>0, <1>4 DEF Operands
  <2>4. M!OperandA = M!A(InA(r0, l0)) /\ M!OperandB = M!B(InB(r0, l0))
      BY <1>0 DEF M!OperandA, M!OperandB, InA, InB
  <2>5. \A l \in 0..(N - 1) : f[l] = Grown(InA(r0, l), g) * M!FirstB(InB(r0, l))
      BY DEF Products
  <2>6. \A p \in M!Positions : Grown(p, g) \in Nat /\ M!FirstB(p) \in Nat
      BY <1>0, <1>1, <1>2, <2>1, MatrixFacts, GrownNat
  <2>. HIDE DEF f
  <2>7. \A l \in 0..(N - 1) : f[l] \in Nat
      BY <2>2, <2>5, <2>6
  <2>. QED  BY <1>5, <2>2, <2>3, <2>4, <2>5, <2>7
<1>10. mem'[M!C(r0)] = Total(f, l0 + 1) % WORD
  <2>. DEFINE s == IF l0 = 0 THEN 0 ELSE mem[M!C(r0)]
  <2>1. mem'[M!C(r0)] = (s + f[l0]) % WORD
      BY <1>0, <1>1, <1>4, <1>9
  <2>2. Total(f, l0) \in Nat /\ Total(f, l0 + 1) = Total(f, l0) + f[l0] /\ Total(f, 0) = 0
    <3>. HIDE DEF f
    <3>1. N \in Nat /\ l0 \in 0..N /\ l0 \in Nat
        BY <1>4, <1>5
    <3>2. Total(f, l0) \in Nat
        BY <1>9, <3>1, TotalInt
    <3>. QED  BY <3>1, <3>2, TotalStep
  <2>3. s = Total(f, l0) % WORD
    <3>1. CASE l0 = 0
      <4>1. 0 % WORD = 0
          BY <1>4
      <4>. QED  BY <2>2, <3>1, <4>1
    <3>2. CASE l0 # 0
      <4>1. Holds(r0, l0, g)
          BY <1>5, <1>6, <3>2
      <4>. QED  BY <3>2, <4>1 DEF Holds
    <3>. QED  BY <3>1, <3>2
  <2>4. f[l0] \in Nat
      BY <1>5, <1>9
  <2>. HIDE DEF s, f
  <2>5. ((Total(f, l0) % WORD) + f[l0]) % WORD = (Total(f, l0) + f[l0]) % WORD
    <3>1. Total(f, l0) \in Int /\ f[l0] \in Int
        BY <2>2, <2>4
    <3>. QED  BY <1>4, <3>1, ModAdd, Zenon
  <2>. QED  BY <2>1, <2>2, <2>3, <2>5
<1>. HIDE DEF f
<1>11. Holds(r0, l0 + 1, g)'
  <2>1. Products(r0, g)' = f /\ M!C(r0)' = M!C(r0)
      BY <1>1, ProductFrame DEF f
  <2>. QED  BY <1>10, <2>1 DEF Holds
<1>12. ASSUME NEW r \in M!Results, r < r0 PROVE Holds(r, N, g)'
  <2>1. mem'[M!C(r)] = mem[M!C(r)]
      BY <1>0, <1>1, <1>4, <1>7, <1>12 DEF M!Positions
  <2>2. Products(r, g)' = Products(r, g) /\ M!C(r)' = M!C(r) /\ N' = N
      BY <1>1, ProductFrame
  <2>3. Holds(r, N, g)
      BY <1>6, <1>12
  <2>. QED  BY <2>1, <2>2, <2>3 DEF Holds
<1>13. t' \in Nat /\ N' = N /\ Turns' = g
    BY <1>0, <1>1, <1>2, <1>4
<1>14. ASSUME NEW r \in M!Results
       PROVE  /\ r < M!Result' => Holds(r, N, g)'
              /\ r = M!Result' /\ M!Inner' > 0 => (r = r0 /\ M!Inner' = l0 + 1)
  <2>1. r \in Nat /\ r0 \in Nat
      BY <1>4 DEF M!Positions
  <2>. QED  BY <1>4, <1>5, <1>11, <1>12, <1>13, <2>1 DEF Holds
<1>15. ASSUME NEW r \in M!Results, r = M!Result', M!Inner' > 0 PROVE Holds(r, M!Inner, g)'
  <2>1. r = r0 /\ M!Inner' = l0 + 1
      BY <1>14, <1>15
  <2>. QED  BY <1>11, <2>1 DEF Holds
<1>. QED  BY <1>8, <1>13, <1>14, <1>15 DEF Holds

LEMMA MulEndRight ==
    ASSUME Scaling, Multiplied, M!MulEnd PROVE Multiplied'
<1>1. /\ UNCHANGED <<block, N, mem>> /\ mat_pc = "mul_matrix" /\ mat_pc' = "add_const"
      /\ mat_turn' = mat_turn + 1 /\ M!Result \notin M!Results
    BY DEF M!MulEnd
<1>2. mat_turn \in Nat /\ Turns' = Turns /\ Turns = mat_turn'
    BY <1>1 DEF Turns, Multiplied
<1>3. DOMAIN mem' = 0..((block.size \div 4) - 1)'
    BY <1>1 DEF Multiplied
<1>. SUFFICES ASSUME M!D \in {1, 2}
              PROVE  Operands' /\ \A r \in M!Results : Holds(r, N, mat_turn)'
    BY <1>1, <1>2, <1>3, ProductFrame DEF Multiplied
<1>4. /\ N \in Nat \ {0} /\ t \in Nat /\ Operands /\ M!Elems \in Nat \ {0}
      /\ \A r \in M!Results : r \in M!Positions
  <2>1. DOMAIN mem = 0..((block.size \div 4) - 1) /\ t \in Nat /\ Operands
      BY <1>1 DEF Multiplied
  <2>. QED  BY <1>1, <2>1, MatrixFacts
<1>5. Operands'
    BY <1>1, <1>2, <1>4, OperandsStay
<1>6. ASSUME NEW r \in M!Results PROVE r < M!Result
  <2>1. M!Result \in Nat
      BY <1>4, Quotient, Zenon DEF M!Result
  <2>2. CASE M!D = 1
      BY <1>1, <2>1, <2>2 DEF M!Results
  <2>3. CASE M!D = 2
    <3>1. M!Results = 0..(M!Elems - 1)
        BY <2>3 DEF M!Results, M!Positions
    <3>. QED  BY <1>1, <1>4, <2>1, <3>1
  <2>. QED  BY <2>2, <2>3
<1>7. PICK g : g = Turns
    OBVIOUS
<1>8. ASSUME NEW r \in M!Results PROVE Holds(r, N, mat_turn)'
  <2>1. Holds(r, N, g)
      BY <1>1, <1>6, <1>7 DEF Multiplied
  <2>2. Products(r, g)' = Products(r, g) /\ M!C(r)' = M!C(r) /\ N' = N
      BY <1>1, ProductFrame
  <2>3. mat_turn' = g
      BY <1>2, <1>7
  <2>. QED  BY <1>1, <2>1, <2>2, <2>3 DEF Holds
<1>. QED  BY <1>5, <1>8

LEMMA MultipliedInit == MainInit => Multiplied
<1>. SUFFICES ASSUME MainInit PROVE Multiplied
    OBVIOUS
<1>1. mat_pc = "size" /\ mat_turn = 0 /\ mem = [w \in 0..((block.size \div 4) - 1) |-> 0]
    BY DEF MainInit, M!Init, M!SIZEOF
<1>. QED  BY <1>1 DEF Multiplied

LEMMA MultipliedStep == Scaling /\ Multiplied /\ [MainNext]_mainVars => Multiplied'
<1>. SUFFICES ASSUME Scaling, Multiplied, [MainNext]_mainVars PROVE Multiplied'
    OBVIOUS
<1>1. CASE M!Scale1 \/ M!Grow \/ M!Scale
  <2>1. /\ UNCHANGED <<block, mem, mat_turn>> /\ mat_pc = "size" /\ mat_pc' \in {"size", "fill"}
      BY <1>1 DEF M!Scale1, M!Grow, M!Scale
  <2>. QED  BY <2>1 DEF Multiplied
<1>2. CASE UNCHANGED matVars
  <2>1. UNCHANGED <<block, N, mem, mat_turn, mat_pc, t>>
      BY <1>2 DEF matVars
  <2>2. /\ M!Result' = M!Result /\ M!Inner' = M!Inner /\ Turns' = Turns
      BY <2>1 DEF M!Result, M!Inner, Turns
  <2>3. Operands => Operands'
      BY <2>1, <2>2, ProductFrame DEF Operands
  <2>4. \A r, n, g : Holds(r, n, g) => Holds(r, n, g)'
    <3>. SUFFICES ASSUME NEW r, NEW n, NEW g, Holds(r, n, g) PROVE Holds(r, n, g)'
        OBVIOUS
    <3>1. Products(r, g)' = Products(r, g) /\ M!C(r)' = M!C(r)
        BY <2>1, ProductFrame
    <3>. QED  BY <2>1, <3>1 DEF Holds
  <2>. HIDE DEF Operands
  <2>5. \A r : /\ Holds(r, N, Turns) => Holds(r, N, Turns)'
               /\ Holds(r, M!Inner, Turns) => Holds(r, M!Inner, Turns)'
               /\ Holds(r, N, mat_turn) => Holds(r, N, mat_turn)'
    <3>1. PICK n, i0, g, u : n = N /\ i0 = M!Inner /\ g = Turns /\ u = mat_turn
        BY Zenon
    <3>. QED  BY <2>1, <2>2, <2>4, <3>1 DEF Holds
  <2>. QED  BY <2>1, <2>2, <2>3, <2>5, ProductFrame DEF Multiplied
<1>3. M!MatrixInit \/ M!MatrixTurn \/ UNCHANGED matVars
    BY DEF MainNext, mainVars, ListInit, MatrixInit, ConvInit, RunList, RunMatrix, RunConv
<1>. QED  BY <1>1, <1>2, <1>3, FillRight, AddConstRight, MulConstRight, MultiplyRight, MulEndRight
          DEF M!MatrixInit, M!MatrixTurn

(* C is the product of A and B after every turn, for all sizes of block,     *)
(* seeds and numbers of turns, vectors and matrices.                         *)
THEOREM ProductIsRight == Main => []ProductRight
<1>1. Scaling /\ Multiplied => ProductRight
  <2>. SUFFICES ASSUME Scaling, Multiplied PROVE ProductRight
      OBVIOUS
  <2>. SUFFICES ASSUME mat_pc = "add_const", mat_turn > 0 PROVE ProductRight
      BY DEF ProductRight, M!ProductRight
  <2>. DEFINE GrownA(p) == (M!FirstA(p) + mat_turn * val) % WORD
              Dot(c, d) ==
                  M!Total([l \in 0..(N - 1) |-> GrownA(c[l]) * M!FirstB(d[l])], N) % WORD
              Line == [l \in 0..(N - 1) |-> l]
  <2>1. CASE M!D = 1
    <3>1. 0 \in M!Results /\ N \in Nat \ {0}
        BY <2>1, MatrixFacts DEF M!Results, Multiplied
    <3>2. Holds(0, N, mat_turn)
        BY <2>1, <3>1 DEF Multiplied
    <3>3. Products(0, mat_turn) = [l \in 0..(N - 1) |-> GrownA(Line[l]) * M!FirstB(Line[l])]
        BY <2>1 DEF Products, InA, InB, Grown, Multiplied
    <3>4. mem[M!C(0)] = Dot(Line, Line)
        BY <3>2, <3>3, SameTotal DEF Holds
    <3>. QED  BY <2>1, <3>4 DEF ProductRight, M!ProductRight
  <2>2. CASE M!D = 2
    <3>1. ASSUME NEW row \in 0..(N - 1), NEW column \in 0..(N - 1)
          PROVE  mem[M!C(row * N + column)] =
                    Dot([l \in 0..(N - 1) |-> row * N + l], [l \in 0..(N - 1) |-> l * N + column])
      <4>1. N \in Nat \ {0} /\ M!Elems = N * N
          BY <2>2, MatrixFacts DEF Multiplied
      <4>. DEFINE r == row * N + column
                  us == [l \in 0..(N - 1) |-> row * N + l]
                  vs == [l \in 0..(N - 1) |-> l * N + column]
      <4>2. r \in Nat /\ r \div N = row /\ r % N = column
        <5>1. r \in Nat
            BY <4>1
        <5>2. row \in Nat /\ N \in Nat \ {0}
            BY <4>1
        <5>3. r \div N = row /\ r % N = column
            BY <5>2, RowOf, Zenon
        <5>. QED  BY <5>1, <5>3
      <4>3. r \in M!Results
        <5>1. (row + 1) * N <= N * N
            BY <4>1
        <5>2. r <= N * N - 1
            BY <4>1, <5>1
        <5>. QED  BY <2>2, <4>1, <4>2, <5>2 DEF M!Results, M!Positions
      <4>4. M!Coord(r, 1) = row /\ M!Coord(r, 0) = column
        <5>1. M!Coord(r, 1) = (r \div N) % N /\ M!Coord(r, 0) = (r \div 1) % N
            BY DEF M!Coord, M!Power
        <5>2. r \div 1 = r /\ row % N = row
            BY <4>1, <4>2
        <5>. HIDE DEF r
        <5>. QED  BY <4>2, <5>1, <5>2
      <4>. HIDE DEF r
      <4>5. Holds(r, N, mat_turn)
          BY <2>2, <4>3 DEF Multiplied
      <4>6. Products(r, mat_turn) = [l \in 0..(N - 1) |-> GrownA(us[l]) * M!FirstB(vs[l])]
          BY <2>2, <4>4 DEF Products, InA, InB, Grown, Multiplied
      <4>. HIDE DEF us, vs
      <4>7. mem[M!C(r)] = Dot(us, vs)
          BY <4>5, <4>6, SameTotal DEF Holds
      <4>. QED  BY <4>7 DEF r, us, vs
    <3>. QED  BY <2>2, <3>1 DEF ProductRight, M!ProductRight
  <2>3. CASE M!D \notin {1, 2}
      BY <2>3 DEF ProductRight, M!ProductRight
  <2>. QED  BY <2>1, <2>2, <2>3
<1>2. Main => [](Scaling /\ Multiplied)
    BY ScalingInit, ScalingStep, MultipliedInit, MultipliedStep, PTL DEF Main
<1>. QED  BY <1>1, <1>2, PTL

-----------------------------------------------------------------------------
(* The scale of the layer.  Below the filter's width the number of places is *)
(* negative and wraps around; what it contributes to the size vanishes       *)
(* modulo WORD, or is small.  From the filter's width on the unsigned size   *)
(* is the true one until after it has passed the block's end.                *)
Room == Conv!Bytes(layer.filter_size) < layer.size

LEMMA LayerFacts ==
    ASSUME layer \in Layers
    PROVE  /\ Conv!D \in 1..3 /\ Conv!S \in {1, 2} /\ Conv!K \in 1..3
           /\ Conv!Ic \in Nat \ {0} /\ Conv!Oc \in Nat \ {0}
           /\ Conv!FilterSize \in Nat
           /\ layer.size \in Nat /\ 8 * layer.size <= WORD
           /\ WORD \in Nat \ {0} /\ WORD % 4 = 0 /\ WORD >= 8
<1>1. /\ Conv!D \in 1..3 /\ Conv!S \in {1, 2} /\ Conv!K \in 1..3
      /\ Conv!Ic \in Nat \ {0} /\ Conv!Oc \in Nat \ {0}
      /\ layer.size \in Nat \ {0} /\ 8 * layer.size <= WORD /\ WORD \in Nat /\ WORD % 4 = 0
    BY LayersAssumption DEF Conv!D, Conv!S, Conv!K, Conv!Ic, Conv!Oc
<1>2. Conv!Cube(Conv!K, Conv!D) \in Nat
    BY <1>1 DEF Conv!Cube
<1>3. Conv!FilterSize \in Nat
    BY <1>1, <1>2 DEF Conv!FilterSize
<1>. QED  BY <1>1, <1>3

LEMMA CubeFacts ==
    ASSUME NEW d \in 1..3, NEW n \in Nat
    PROVE  /\ Conv!Cube(n, d) \in Nat
           /\ n = 0 => Conv!Cube(n, d) = 0
           /\ n = 1 => Conv!Cube(n, d) = 1
           /\ n >= 1 => Conv!Cube(n, d) >= n /\ Conv!Cube(n, d) >= 1
           /\ n >= 1 => Conv!Cube(n + 1, d) <= 8 * Conv!Cube(n, d)
           /\ Conv!Cube(n, d) <= Conv!Cube(n + 1, d)
<1>1. \A x : Conv!Cube(x, d) = M!Power(x, d)
    BY DEF Conv!Cube, M!Power
<1>2. Conv!Cube(n, d) >= n
  <2>1. CASE d = 1
      BY <2>1 DEF Conv!Cube
  <2>2. CASE d = 2
      BY <2>2, n * n >= n DEF Conv!Cube
  <2>3. CASE d = 3
    <3>. DEFINE q == n * n
    <3>1. q >= n /\ q \in Nat
        OBVIOUS
    <3>2. n >= 1 => q * n >= q
        OBVIOUS
    <3>3. n = 0 => q * n = 0
        OBVIOUS
    <3>4. q * n >= n
      <4>. HIDE DEF q
      <4>. QED  BY <3>1, <3>2, <3>3
    <3>. QED  BY <2>3, <3>4 DEF Conv!Cube
  <2>. QED  BY <2>1, <2>2, <2>3
<1>3. Conv!Cube(n, d) <= Conv!Cube(n + 1, d)
  <2>1. CASE d = 1
      BY <2>1 DEF Conv!Cube
  <2>2. CASE d = 2
      BY <2>2, (n + 1) * (n + 1) = n * n + 2 * n + 1 DEF Conv!Cube
  <2>3. CASE d = 3
    <3>. DEFINE q == n * n
    <3>1. (n + 1) * (n + 1) = q + 2 * n + 1 /\ q \in Nat
        OBVIOUS
    <3>2. (q + 2 * n + 1) * (n + 1) = q * n + 3 * q + 3 * n + 1
        OBVIOUS
    <3>. QED  BY <2>3, <3>1, <3>2 DEF Conv!Cube
  <2>. QED  BY <2>1, <2>2, <2>3
<1>. QED  BY <1>1, <1>2, <1>3, PowerFacts

(* The unsigned power is the true one if that fits a word. *)
LEMMA PowerExact ==
    ASSUME layer \in Layers, NEW n \in Nat, Conv!Cube(n, Conv!D) < WORD
    PROVE  Conv!Power(n) = Conv!Cube(n, Conv!D)
<1>1. Conv!D \in 1..3 /\ WORD \in Nat \ {0}
    BY LayerFacts
<1>2. CASE Conv!D = 1
    BY <1>2 DEF Conv!Power, Conv!Cube
<1>3. CASE Conv!D = 2
  <2>1. n * n \in 0..(WORD - 1)
      BY <1>1, <1>3 DEF Conv!Cube
  <2>2. (n * n) % WORD = n * n
      BY <1>1, <2>1
  <2>. QED  BY <1>3, <2>2 DEF Conv!Power, Conv!Cube, Conv!Times
<1>4. CASE Conv!D = 3
  <2>. DEFINE q == n * n
  <2>1. q \in Nat /\ q * n \in Nat /\ q * n < WORD
      BY <1>4 DEF Conv!Cube
  <2>2. q <= q * n
    <3>1. n = 0 => q = 0
        OBVIOUS
    <3>2. n >= 1 => q <= q * n
        OBVIOUS
    <3>. HIDE DEF q
    <3>. QED  BY <2>1, <3>1, <3>2
  <2>3. n * q = q * n
      OBVIOUS
  <2>4. Conv!Power(n) = (n * (q % WORD)) % WORD /\ Conv!Cube(n, Conv!D) = q * n
      BY <1>4 DEF Conv!Power, Conv!Times, Conv!Cube
  <2>. HIDE DEF q
  <2>5. q % WORD = q
      BY <1>1, <2>1, <2>2
  <2>6. (q * n) % WORD = q * n
      BY <1>1, <2>1
  <2>. QED  BY <2>3, <2>4, <2>5, <2>6
<1>. QED  BY <1>1, <1>2, <1>3, <1>4

(* The true number of places. *)
Wide(w) == (w - Conv!K) \div Conv!S + 1

LEMMA WideFacts ==
    ASSUME layer \in Layers, NEW w \in Nat, w >= Conv!K
    PROVE  /\ Wide(w) \in Nat \ {0} /\ Wide(w) <= w
           /\ Wide(w + 1) \in {Wide(w), Wide(w) + 1}
           /\ w = Conv!K => Wide(w) = 1
           /\ w < WORD => Conv!Places(w) = Wide(w)
<1>1. Conv!K \in 1..3 /\ Conv!S \in {1, 2} /\ WORD \in Nat \ {0}
    BY LayerFacts
<1>. DEFINE x == w - Conv!K
<1>2. x \in Nat /\ x <= w - 1
    BY <1>1
<1>3. /\ x \div Conv!S \in Nat /\ x \div Conv!S <= x
      /\ (x + 1) \div Conv!S \in {x \div Conv!S, x \div Conv!S + 1}
      /\ x = 0 => x \div Conv!S = 0
  <2>. HIDE DEF x
  <2>1. CASE Conv!S = 1
      BY <1>2, <2>1
  <2>2. CASE Conv!S = 2
      BY <1>2, <2>2
  <2>. QED  BY <1>1, <2>1, <2>2
<1>4. w + 1 - Conv!K = x + 1
    BY <1>1
<1>5. ASSUME w < WORD PROVE Conv!Places(w) = Wide(w)
  <2>1. x % WORD = x
      BY <1>1, <1>2, <1>5
  <2>2. (x \div Conv!S + 1) \in 0..(WORD - 1)
      BY <1>1, <1>2, <1>3, <1>5
  <2>3. (x \div Conv!S + 1) % WORD = x \div Conv!S + 1
    <3>. HIDE DEF x
    <3>. QED  BY <1>1, <2>2
  <2>. QED  BY <2>1, <2>3 DEF Conv!Places, Wide
<1>. QED  BY <1>1, <1>2, <1>3, <1>4, <1>5 DEF Wide

LEMMA BytesFacts ==
    ASSUME layer \in Layers, NEW w \in Nat, w >= Conv!K
    PROVE  /\ Conv!Bytes(w) \in Nat
           /\ Conv!Bytes(w + 1) <= 8 * Conv!Bytes(w)
           /\ Conv!Bytes(w) < WORD => Conv!Need(w) = Conv!Bytes(w)
<1>. DEFINE c == Conv!Cube(w, Conv!D)
            p == Conv!Cube(Wide(w), Conv!D)
            c1 == Conv!Cube(w + 1, Conv!D)
            p1 == Conv!Cube(Wide(w + 1), Conv!D)
            a == Conv!Ic
            o == Conv!Oc
            f == Conv!FilterSize
<1>1. /\ Conv!D \in 1..3 /\ a \in Nat \ {0} /\ o \in Nat \ {0} /\ f \in Nat
      /\ WORD \in Nat \ {0} /\ Conv!K \in 1..3 /\ w >= 1
    BY LayerFacts
<1>2. Wide(w) \in Nat \ {0} /\ Wide(w) <= w /\ Wide(w + 1) \in {Wide(w), Wide(w) + 1}
    BY WideFacts
<1>3. c \in Nat /\ c1 \in Nat /\ c1 <= 8 * c /\ c >= w
  <2>1. c \in Nat /\ c1 <= 8 * c /\ c >= w
      BY <1>1, CubeFacts
  <2>2. w + 1 \in Nat
      OBVIOUS
  <2>3. c1 \in Nat
      BY <1>1, <2>2, CubeFacts
  <2>. QED  BY <2>1, <2>3
<1>4. p \in Nat /\ p1 \in Nat /\ p1 <= 8 * p
  <2>1. Wide(w) \in Nat /\ Wide(w) + 1 \in Nat /\ Wide(w) >= 1
      BY <1>2
  <2>2. p \in Nat /\ Conv!Cube(Wide(w) + 1, Conv!D) <= 8 * p
      BY <1>1, <2>1, CubeFacts
  <2>3. Conv!Cube(Wide(w) + 1, Conv!D) \in Nat
      BY <1>1, <2>1, CubeFacts
  <2>4. CASE Wide(w + 1) = Wide(w)
    <3>. HIDE DEF p
    <3>1. p1 = p
        BY <2>4 DEF p
    <3>. QED  BY <2>2, <3>1
  <2>5. CASE Wide(w + 1) = Wide(w) + 1
      BY <2>2, <2>3, <2>5
  <2>. QED  BY <1>2, <2>4, <2>5
<1>5. /\ Conv!Bytes(w) = (a * c + f + o * p + o) * 4
      /\ Conv!Bytes(w + 1) = (a * c1 + f + o * p1 + o) * 4
    BY DEF Conv!Bytes, Wide, Conv!SIZEOF
<1>6. ASSUME Conv!Bytes(w) < WORD PROVE Conv!Need(w) = Conv!Bytes(w)
  <2>1. c <= a * c /\ p <= o * p /\ a * c \in Nat /\ o * p \in Nat
    <3>. HIDE DEF c, p, a, o
    <3>. QED  BY <1>1, <1>3, <1>4
  <2>2. c < WORD /\ p < WORD /\ w < WORD
    <3>. HIDE DEF c, p, a, o, f
    <3>. QED  BY <1>1, <1>3, <1>4, <1>5, <1>6, <2>1
  <2>3. Conv!Power(w) = c
      BY <2>2, PowerExact
  <2>4. Conv!Places(w) = Wide(w)
      BY <2>2, WideFacts
  <2>5. Conv!Power(Conv!Places(w)) = p
      BY <1>2, <2>2, <2>4, PowerExact
  <2>6. Conv!Need(w) = ((c * a + f + p * o + o) * 4) % WORD
      BY <2>3, <2>5 DEF Conv!Need, Conv!SIZEOF
  <2>. HIDE DEF c, p, a, o, f
  <2>7. c * a = a * c /\ p * o = o * p
      BY <1>1, <1>3, <1>4
  <2>8. (a * c + f + o * p + o) * 4 \in 0..(WORD - 1)
      BY <1>1, <1>5, <1>6, <2>1
  <2>. QED  BY <1>1, <1>5, <2>6, <2>7, <2>8
<1>7. Conv!Bytes(w) \in Nat /\ Conv!Bytes(w + 1) <= 8 * Conv!Bytes(w)
  <2>. HIDE DEF c, p, c1, p1, a, o, f
  <2>1. a * c \in Nat /\ o * p \in Nat
      BY <1>1, <1>3, <1>4
  <2>2. a * c1 <= a * (8 * c) /\ o * p1 <= o * (8 * p)
      BY <1>1, <1>3, <1>4
  <2>3. a * (8 * c) = 8 * (a * c) /\ o * (8 * p) = 8 * (o * p)
      BY <1>1, <1>3, <1>4
  <2>4. a * c1 \in Nat /\ o * p1 \in Nat
      BY <1>1, <1>3, <1>4
  <2>. QED  BY <1>1, <1>5, <2>1, <2>2, <2>3, <2>4
<1>. QED  BY <1>6, <1>7

(* The power of a number of places that has wrapped around: four times it is *)
(* a multiple of WORD, but for 4 or -4.                                      *)
LEMMA NarrowPower ==
    ASSUME layer \in Layers, NEW w \in Nat, w >= 1, w < Conv!K
    PROVE  \E q \in Nat, e \in {-4, 0, 4} :
              /\ Conv!Power(Conv!Places(w)) \in Nat
              /\ Conv!Power(Conv!Places(w)) * 4 = WORD * q + e
<1>1. /\ Conv!D \in 1..3 /\ Conv!S \in {1, 2} /\ Conv!K \in 1..3
      /\ WORD \in Nat \ {0} /\ WORD % 4 = 0 /\ WORD >= 8
    BY LayerFacts
<1>. DEFINE h == WORD \div 4
<1>2. h \in Nat /\ h >= 2 /\ WORD = 4 * h
    BY <1>1
<1>. HIDE DEF h
<1>3. w - Conv!K \in {-1, -2}
    BY <1>1
<1>4. (-1) % WORD = WORD - 1 /\ (-2) % WORD = WORD - 2
  <2>1. (WORD * (-1) + (WORD - 1)) % WORD = WORD - 1
      BY <1>1, Rest
  <2>2. (WORD * (-1) + (WORD - 2)) % WORD = WORD - 2
      BY <1>1, Rest
  <2>3. WORD * (-1) + (WORD - 1) = -1 /\ WORD * (-1) + (WORD - 2) = -2
      BY <1>1
  <2>. QED  BY <2>1, <2>2, <2>3
<1>5. Conv!Places(w) \in {0, WORD - 1, 2 * h}
  <2>1. CASE Conv!S = 1
    <3>1. (w - Conv!K) % WORD \in {WORD - 1, WORD - 2}
        BY <1>3, <1>4
    <3>2. ((w - Conv!K) % WORD) \div Conv!S + 1 \in {WORD, WORD - 1}
        BY <1>1, <2>1, <3>1
    <3>3. WORD % WORD = 0 /\ (WORD - 1) % WORD = WORD - 1
        BY <1>1
    <3>. QED  BY <3>2, <3>3 DEF Conv!Places
  <2>2. CASE Conv!S = 2
    <3>1. (w - Conv!K) % WORD \in {4 * h - 1, 4 * h - 2}
        BY <1>2, <1>3, <1>4
    <3>2. (4 * h - 1) \div 2 = 2 * h - 1 /\ (4 * h - 2) \div 2 = 2 * h - 1
        BY <1>2
    <3>3. ((w - Conv!K) % WORD) \div Conv!S + 1 = 2 * h
        BY <1>2, <2>2, <3>1, <3>2
    <3>4. (2 * h) % WORD = 2 * h
        BY <1>2
    <3>. QED  BY <3>3, <3>4 DEF Conv!Places
  <2>. QED  BY <1>1, <2>1, <2>2
<1>6. CASE Conv!Places(w) = 0
  <2>1. Conv!Cube(0, Conv!D) = 0
      BY <1>1, CubeFacts
  <2>2. Conv!Power(0) = 0
      BY <1>1, <2>1, PowerExact
  <2>3. Conv!Power(Conv!Places(w)) \in Nat /\ Conv!Power(Conv!Places(w)) * 4 = WORD * 0 + 0
      BY <1>1, <1>6, <2>2
  <2>. QED  BY <2>3
<1>7. CASE Conv!Places(w) = WORD - 1
  <2>. DEFINE m == WORD - 1
  <2>1. (m * m) % WORD = 1
    <3>1. m * m = WORD * (WORD - 2) + 1
        BY <1>1
    <3>2. (WORD * (WORD - 2) + 1) % WORD = 1
      <4>1. WORD - 2 \in Int /\ 1 \in 0..(WORD - 1)
          BY <1>1
      <4>. QED  BY <1>1, <4>1, Rest
    <3>. HIDE DEF m
    <3>. QED  BY <3>1, <3>2
  <2>2. m % WORD = m /\ m * 1 = m /\ m \in Nat
      BY <1>1
  <2>3. Conv!Power(m) \in {1, m}
    <3>. HIDE DEF m
    <3>. QED  BY <1>1, <2>1, <2>2 DEF Conv!Power, Conv!Times
  <2>4. 1 * 4 = WORD * 0 + 4 /\ m * 4 = WORD * 4 + (-4)
      BY <1>1
  <2>5. CASE Conv!Power(m) = 1
      BY <1>7, <2>4, <2>5
  <2>6. CASE Conv!Power(m) = m
      BY <1>7, <2>2, <2>4, <2>6
  <2>. QED  BY <2>3, <2>5, <2>6
<1>8. CASE Conv!Places(w) = 2 * h
  <2>. DEFINE m == 2 * h
  <2>1. (m * m) % WORD = 0
    <3>1. m * m = WORD * h + 0
        BY <1>2
    <3>2. (WORD * h + 0) % WORD = 0
      <4>1. h \in Int /\ 0 \in 0..(WORD - 1)
          BY <1>1, <1>2
      <4>. QED  BY <1>1, <4>1, Rest
    <3>. HIDE DEF m
    <3>. QED  BY <3>1, <3>2
  <2>2. m * 0 = 0 /\ 0 % WORD = 0 /\ m \in Nat
      BY <1>1, <1>2
  <2>3. Conv!Power(m) \in {0, m}
    <3>. HIDE DEF m
    <3>. QED  BY <1>1, <2>1, <2>2 DEF Conv!Power, Conv!Times
  <2>4. 0 * 4 = WORD * 0 + 0 /\ m * 4 = WORD * 2 + 0
      BY <1>1, <1>2
  <2>5. CASE Conv!Power(m) = 0
      BY <1>8, <2>4, <2>5
  <2>6. CASE Conv!Power(m) = m
      BY <1>8, <2>2, <2>4, <2>6
  <2>. QED  BY <2>3, <2>5, <2>6
<1>. QED  BY <1>5, <1>6, <1>7, <1>8

(* Below the width of the filter the search goes on. *)
LEMMA NarrowGoesOn ==
    ASSUME layer \in Layers, Room, NEW w \in Nat, w >= 1, w < Conv!K
    PROVE  Conv!Need(w) \in Nat /\ Conv!Need(w) < layer.size
<1>. DEFINE k == Conv!Cube(Conv!K, Conv!D)
            c == Conv!Cube(w, Conv!D)
            r == Conv!Power(Conv!Places(w))
            a == Conv!Ic
            o == Conv!Oc
            f == Conv!FilterSize
<1>1. /\ Conv!D \in 1..3 /\ Conv!K \in 1..3 /\ a \in Nat \ {0} /\ o \in Nat \ {0} /\ f \in Nat
      /\ layer.size \in Nat /\ 8 * layer.size <= WORD /\ WORD \in Nat \ {0}
    BY LayerFacts
<1>2. c \in Nat /\ k \in Nat /\ c <= k /\ c < WORD => Conv!Power(w) = c
    BY PowerExact
<1>3. c \in Nat /\ k \in Nat /\ c <= k /\ c >= 1
  <2>1. c \in Nat /\ c >= 1 /\ c <= Conv!Cube(w + 1, Conv!D)
      BY <1>1, CubeFacts
  <2>2. Conv!Cube(w + 1, Conv!D) \in Nat /\ Conv!Cube(w + 1, Conv!D) <= Conv!Cube(w + 2, Conv!D)
    <3>1. w + 1 \in Nat /\ (w + 1) + 1 = w + 2
        OBVIOUS
    <3>. QED  BY <1>1, <3>1, CubeFacts
  <2>3. Conv!Cube(w + 2, Conv!D) \in Nat
    <3>1. w + 2 \in Nat
        OBVIOUS
    <3>. QED  BY <1>1, <3>1, CubeFacts
  <2>4. Conv!K = w + 1 \/ Conv!K = w + 2
      BY <1>1
  <2>. QED  BY <2>1, <2>2, <2>3, <2>4
<1>4. /\ Conv!Bytes(Conv!K) = (a * k + f + o * 1 + o) * 4 /\ Conv!Bytes(Conv!K) < layer.size
      /\ Conv!Bytes(Conv!K) \in Nat
  <2>1. Wide(Conv!K) = 1
      BY <1>1, WideFacts
  <2>2. Conv!Cube(1, Conv!D) = 1
      BY <1>1, CubeFacts
  <2>3. Conv!K \in Nat /\ Conv!K >= Conv!K
      BY <1>1
  <2>4. Conv!Bytes(Conv!K) \in Nat
      BY <2>3, BytesFacts
  <2>. QED  BY <2>1, <2>2, <2>4 DEF Conv!Bytes, Wide, Conv!SIZEOF, Room, Conv!K
<1>5. PICK q \in Nat, e \in {-4, 0, 4} : r \in Nat /\ r * 4 = WORD * q + e
    BY NarrowPower
<1>6. a * c <= a * k /\ a * c \in Nat /\ a * k \in Nat /\ a * k >= k
  <2>. HIDE DEF a, c, k
  <2>. QED  BY <1>1, <1>3
<1>7. c < WORD
  <2>. HIDE DEF a, c, k, f, o
  <2>. QED  BY <1>1, <1>3, <1>4, <1>6
<1>8. Conv!Need(w) = ((c * a + f + r * o + o) * 4) % WORD
    BY <1>2, <1>3, <1>7 DEF Conv!Need, Conv!SIZEOF
<1>. DEFINE y == (a * c + f + o) * 4 + e * o
<1>9. y \in Nat /\ y <= Conv!Bytes(Conv!K)
  <2>. HIDE DEF a, c, k, f, o
  <2>1. e * o \in {-(4 * o), 0, 4 * o}
      BY <1>1
  <2>. QED  BY <1>1, <1>3, <1>4, <1>6, <2>1
<1>10. (c * a + f + r * o + o) * 4 = WORD * (q * o) + y
  <2>. HIDE DEF a, c, k, f, o, r
  <2>1. (r * o) * 4 = (r * 4) * o
      BY <1>1, <1>5
  <2>2. (WORD * q + e) * o = WORD * (q * o) + e * o
      BY <1>1
  <2>3. r * o \in Nat /\ c * a = a * c
      BY <1>1, <1>3, <1>5
  <2>4. (c * a + f + r * o + o) * 4 = (a * c + f + o) * 4 + (r * o) * 4
      BY <1>1, <1>6, <2>3
  <2>5. (r * 4) * o = (WORD * q + e) * o
      BY <1>5
  <2>6. WORD * (q * o) \in Int /\ e * o \in Int
      BY <1>1
  <2>7. (r * o) * 4 = WORD * (q * o) + e * o
      BY <2>1, <2>2, <2>5
  <2>. QED  BY <1>1, <1>6, <2>4, <2>6, <2>7
<1>11. y \in 0..(WORD - 1) /\ q * o \in Int
  <2>. HIDE DEF y
  <2>1. y \in Nat /\ y < WORD
      BY <1>1, <1>4, <1>9
  <2>2. q * o \in Int
    <3>. HIDE DEF o
    <3>. QED  BY <1>1
  <2>. QED  BY <1>1, <2>1, <2>2
<1>12. Conv!Need(w) = y
  <2>. HIDE DEF y, o, a, c, f, r
  <2>1. (WORD * (q * o) + y) % WORD = y
      BY <1>1, <1>11, Rest
  <2>. QED  BY <1>8, <1>10, <2>1
<1>. HIDE DEF y
<1>. QED  BY <1>1, <1>4, <1>9, <1>12

Widest ==
    /\ layer \in Layers
    /\ conv_i \in Nat
    /\ conv_pc \in {"size", "fill", "ready", "conv"}
    /\ Room =>
        IF conv_pc = "size"
        THEN conv_i > Conv!K => Conv!Bytes(conv_i - 1) < layer.size
        ELSE /\ InWidth \in Nat /\ InWidth >= Conv!K
             /\ Conv!Bytes(InWidth) < layer.size /\ Conv!Bytes(InWidth + 1) >= layer.size

(* The scale that stops the search is the first that does not fit. *)
LEMMA SearchExact ==
    ASSUME Widest, Room, conv_pc = "size", conv_i > 0
    PROVE  /\ conv_i < Conv!K => Conv!Need(conv_i) \in Nat /\ Conv!Need(conv_i) < layer.size
           /\ conv_i >= Conv!K => Conv!Need(conv_i) = Conv!Bytes(conv_i)
<1>1. /\ layer \in Layers /\ conv_i \in Nat /\ conv_i >= 1 /\ Conv!K \in 1..3
      /\ layer.size \in Nat /\ 8 * layer.size <= WORD /\ WORD \in Nat
    BY LayerFacts DEF Widest
<1>2. conv_i < Conv!K => Conv!Need(conv_i) \in Nat /\ Conv!Need(conv_i) < layer.size
    BY <1>1, NarrowGoesOn
<1>3. CASE conv_i = Conv!K
  <2>1. Conv!Bytes(conv_i) \in Nat /\ Conv!Bytes(conv_i) < layer.size
      BY <1>1, <1>3, BytesFacts DEF Room, Conv!K
  <2>2. Conv!Bytes(conv_i) < WORD
      BY <1>1, <2>1
  <2>. QED  BY <1>1, <1>3, <2>2, BytesFacts
<1>4. CASE conv_i > Conv!K
  <2>. DEFINE n == conv_i - 1
  <2>1. n \in Nat /\ n >= Conv!K /\ n + 1 = conv_i
      BY <1>1, <1>4
  <2>2. Conv!Bytes(n) < layer.size
      BY <1>4 DEF Widest
  <2>. HIDE DEF n
  <2>3. Conv!Bytes(n) \in Nat /\ Conv!Bytes(n + 1) <= 8 * Conv!Bytes(n)
      BY <1>1, <2>1, BytesFacts
  <2>4. Conv!Bytes(conv_i) \in Nat
      BY <1>1, <1>4, BytesFacts
  <2>5. Conv!Bytes(conv_i) < WORD
      BY <1>1, <2>1, <2>2, <2>3, <2>4
  <2>. QED  BY <1>1, <1>4, <2>5, BytesFacts
<1>. QED  BY <1>1, <1>2, <1>3, <1>4

LEMMA WidestInit == MainInit => Widest
<1>. SUFFICES ASSUME MainInit PROVE Widest
    OBVIOUS
<1>1. layer \in Layers /\ conv_pc = "size" /\ conv_i = 0
    BY DEF MainInit, Conv!Init
<1>2. Conv!K \in 1..3
    BY <1>1, LayerFacts
<1>. QED  BY <1>1, <1>2 DEF Widest

(* The layer is a constant of a run. *)
LEMMA LayerStays ==
    ASSUME layer' = layer
    PROVE  /\ Room' = Room /\ Conv!K' = Conv!K
           /\ \A w : Conv!Bytes(w)' = Conv!Bytes(w)
BY DEF Room, Conv!Bytes, Conv!Cube, Conv!FilterSize, Conv!D, Conv!S, Conv!K, Conv!Ic, Conv!Oc

LEMMA WidestStep == Widest /\ [MainNext]_mainVars => Widest'
<1>. SUFFICES ASSUME Widest, [MainNext]_mainVars PROVE Widest'
    OBVIOUS
<1>1. Conv!ConvInit \/ Conv!ConvTurn \/ UNCHANGED convVars
    BY DEF MainNext, mainVars, ListInit, MatrixInit, ConvInit, RunList, RunMatrix, RunConv
<1>2. Conv!K \in 1..3 /\ layer \in Layers /\ conv_i \in Nat /\ layer.size \in Nat
    BY LayerFacts DEF Widest
<1>3. CASE Conv!Grow
  <2>1. /\ conv_pc = "size" /\ conv_pc' = "size" /\ conv_i' = conv_i + 1 /\ layer' = layer
        /\ conv_i > 0 => Conv!Need(conv_i) < layer.size
      BY <1>3 DEF Conv!Grow
  <2>2. ASSUME Room, conv_i' > Conv!K PROVE Conv!Bytes(conv_i) < layer.size
    <3>1. conv_i > 0 /\ conv_i >= Conv!K
        BY <1>2, <2>1, <2>2
    <3>. QED  BY <2>1, <2>2, <3>1, SearchExact
  <2>3. conv_i' - 1 = conv_i /\ conv_i' \in Nat
      BY <1>2, <2>1
  <2>4. Room => (conv_i > Conv!K => Conv!Bytes(conv_i - 1) < layer.size)'
      BY <2>1, <2>2, <2>3, LayerStays
  <2>. QED  BY <1>2, <2>1, <2>3, <2>4, LayerStays DEF Widest
<1>4. CASE Conv!Scale
  <2>1. /\ conv_pc = "size" /\ conv_pc' = "fill" /\ conv_i' = conv_i /\ layer' = layer
        /\ conv_i > 0 /\ Conv!Need(conv_i) >= layer.size /\ InWidth' = conv_i - 1
      BY <1>4 DEF Conv!Scale
  <2>2. ASSUME Room
        PROVE  /\ InWidth' \in Nat /\ InWidth' >= Conv!K
               /\ Conv!Bytes(InWidth') < layer.size /\ Conv!Bytes(InWidth' + 1) >= layer.size
    <3>1. conv_i >= Conv!K
      <4>1. ASSUME conv_i < Conv!K PROVE FALSE
          BY <1>2, <2>1, <2>2, <4>1, SearchExact
      <4>. QED  BY <1>2, <4>1
    <3>2. Conv!Bytes(conv_i) >= layer.size
        BY <2>1, <2>2, <3>1, SearchExact
    <3>3. conv_i # Conv!K
        BY <1>2, <2>2, <3>2, BytesFacts DEF Room, Conv!K
    <3>4. conv_i > Conv!K
        BY <1>2, <3>1, <3>3
    <3>5. Conv!Bytes(conv_i - 1) < layer.size
        BY <2>1, <2>2, <3>4 DEF Widest
    <3>6. InWidth' + 1 = conv_i /\ InWidth' \in Nat /\ InWidth' >= Conv!K
        BY <1>2, <2>1, <3>4
    <3>. QED  BY <2>1, <3>2, <3>5, <3>6
  <2>3. (Room => /\ InWidth \in Nat /\ InWidth >= Conv!K
                 /\ Conv!Bytes(InWidth) < layer.size /\ Conv!Bytes(InWidth + 1) >= layer.size)'
      BY <2>1, <2>2, LayerStays
  <2>. QED  BY <1>2, <2>1, <2>3 DEF Widest
<1>5. CASE Conv!Fill \/ Conv!Begin \/ Conv!Convolve \/ Conv!End
  <2>1. /\ UNCHANGED <<layer, conv_i, InWidth>> /\ conv_pc # "size"
        /\ conv_pc' \in {"fill", "ready", "conv"}
      BY <1>5 DEF Conv!Fill, Conv!Begin, Conv!Convolve, Conv!End
  <2>. QED  BY <2>1, LayerStays DEF Widest
<1>6. CASE UNCHANGED convVars
  <2>1. UNCHANGED <<layer, conv_i, InWidth, conv_pc>>
      BY <1>6 DEF convVars
  <2>. QED  BY <2>1, LayerStays DEF Widest
<1>. QED  BY <1>1, <1>3, <1>4, <1>5, <1>6 DEF Conv!ConvInit, Conv!ConvTurn

(* The input is the widest the block has room for, at least as wide as the   *)
(* filter, and input, output, filters and biases end within the block, for   *)
(* all sizes of block, numbers of channels and dimensions: the wrap-around   *)
(* below the filter's width does not stop the search for the scale.          *)
THEOREM LayerFitsBlock == Main => []FitsBlock
<1>1. Widest => FitsBlock
  <2>. SUFFICES ASSUME Widest, conv_pc # "size", Room
                PROVE  /\ InWidth >= Conv!K /\ Conv!Bytes(InWidth + 1) >= layer.size
                       /\ (Conv!Bias(Conv!Oc - 1) + 1) * Conv!SIZEOF <= layer.size
      BY DEF FitsBlock, Conv!FitsBlock, Room, Conv!K
  <2>1. /\ layer \in Layers /\ InWidth \in Nat /\ InWidth >= Conv!K
        /\ Conv!Bytes(InWidth) < layer.size /\ Conv!Bytes(InWidth + 1) >= layer.size
      BY DEF Widest
  <2>2. /\ Conv!D \in 1..3 /\ Conv!Oc \in Nat \ {0} /\ Conv!Ic \in Nat \ {0}
        /\ Conv!FilterSize \in Nat /\ layer.size \in Nat
      BY <2>1, LayerFacts
  <2>3. Conv!OutWidth \in Nat
      BY <2>1, WideFacts DEF Conv!OutWidth, Wide
  <2>4. Conv!InSize \in Nat /\ Conv!OutSize \in Nat
    <3>1. Conv!Cube(InWidth, Conv!D) \in Nat /\ Conv!Cube(Conv!OutWidth, Conv!D) \in Nat
        BY <2>1, <2>2, <2>3, CubeFacts
    <3>. QED  BY <2>2, <3>1 DEF Conv!InSize, Conv!OutSize
  <2>5. Conv!Bytes(InWidth) = (Conv!InSize + Conv!FilterSize + Conv!OutSize + Conv!Oc) * 4
      BY DEF Conv!Bytes, Conv!InSize, Conv!OutSize, Conv!OutWidth, Conv!SIZEOF
  <2>6. Conv!Bias(Conv!Oc - 1) + 1 = Conv!InSize + Conv!FilterSize + Conv!OutSize + Conv!Oc
      BY <2>2, <2>4 DEF Conv!Bias
  <2>. QED  BY <2>1, <2>2, <2>4, <2>5, <2>6 DEF Conv!SIZEOF
<1>. QED  BY <1>1, WidestInit, WidestStep, PTL DEF Main

-----------------------------------------------------------------------------
(* The convolution.  Where the filter lies on the input.                     *)
InCube == Conv!Cube(InWidth, Conv!D)
OutCube == Conv!Cube(Conv!OutWidth, Conv!D)
FilterCube == Conv!Cube(Conv!K, Conv!D)

Corner(x) ==
    Total([d \in 0..(Conv!D - 1) |->
              Conv!S * Conv!Coord(x, Conv!OutWidth, d) * Conv!Cube(InWidth, d)], Conv!D)
Offset(k) ==
    Total([d \in 0..(Conv!D - 1) |-> Conv!Coord(k, Conv!K, d) * Conv!Cube(InWidth, d)], Conv!D)
Covered(x, k) ==
    Total([d \in 0..(Conv!D - 1) |->
              (Conv!Coord(k, Conv!K, d) + Conv!Coord(x, Conv!OutWidth, d) * Conv!S)
                  * Conv!Cube(InWidth, d)], Conv!D)

(* One term for each of at most three dimensions. *)
LEMMA FewTerms ==
    ASSUME NEW f, f[0] \in Int
    PROVE  /\ Total(f, 1) = f[0]
           /\ Total(f, 2) = f[0] + f[1]
           /\ Total(f, 3) = f[0] + f[1] + f[2]
<1>1. Total(f, 0) = 0 /\ Total(f, 0 + 1) = Total(f, 0) + f[0]
    BY TotalStep
<1>2. Total(f, 1 + 1) = Total(f, 1) + f[1] /\ Total(f, 2 + 1) = Total(f, 2) + f[2]
    BY TotalStep
<1>3. 0 + 1 = 1 /\ 1 + 1 = 2 /\ 2 + 1 = 3
    OBVIOUS
<1>. QED  BY <1>1, <1>2, <1>3

(* A coordinate lies within the width. *)
LEMMA CoordRange ==
    ASSUME NEW n \in Nat \ {0}, NEW x \in Nat, NEW d \in 0..2
    PROVE  Conv!Coord(x, n, d) \in 0..(n - 1)
<1>1. Conv!Cube(n, d) \in Nat \ {0}
  <2>1. n * n \in Nat \ {0}
      OBVIOUS
  <2>2. n * n * n \in Nat \ {0}
    <3>. DEFINE q == n * n
    <3>1. q \in Nat \ {0}
        BY <2>1
    <3>. HIDE DEF q
    <3>2. q * n \in Nat \ {0}
        BY <3>1
    <3>. QED  BY <3>2 DEF q
  <2>. QED  BY <2>1, <2>2 DEF Conv!Cube
<1>2. x \div Conv!Cube(n, d) \in Nat
    BY <1>1, Quotient, Zenon
<1>3. (x \div Conv!Cube(n, d)) % n \in 0..(n - 1)
    BY <1>2, Quotient, Zenon
<1>. QED  BY <1>3 DEF Conv!Coord

(* What a filter at a place covers lies in one channel of the input. *)
LEMMA Covers ==
    ASSUME layer \in Layers, InWidth \in Nat, InWidth >= Conv!K,
           NEW x \in Nat, NEW k \in Nat
    PROVE  /\ Covered(x, k) = Corner(x) + Offset(k)
           /\ Corner(x) \in Nat /\ Offset(k) \in Nat
           /\ Covered(x, k) \in 0..(InCube - 1)
<1>1. /\ Conv!D \in 1..3 /\ Conv!S \in {1, 2} /\ Conv!K \in 1..3 /\ InWidth \in Nat \ {0}
    BY LayerFacts
<1>2. Conv!OutWidth \in Nat \ {0} /\ Conv!OutWidth = (InWidth - Conv!K) \div Conv!S + 1
    BY WideFacts DEF Conv!OutWidth, Wide
<1>. DEFINE w == InWidth
            q == w * w
            a(d) == Conv!Coord(k, Conv!K, d)
            b(d) == Conv!Coord(x, Conv!OutWidth, d)
            v(d) == a(d) + b(d) * Conv!S
            c(d) == Conv!Cube(w, d)
            f == [d \in 0..(Conv!D - 1) |-> Conv!S * b(d) * c(d)]
            g == [d \in 0..(Conv!D - 1) |-> a(d) * c(d)]
            h == [d \in 0..(Conv!D - 1) |-> v(d) * c(d)]
<1>3. \A d \in 0..2 : a(d) \in 0..(Conv!K - 1) /\ b(d) \in 0..(Conv!OutWidth - 1)
  <2>1. Conv!K \in Nat \ {0}
      BY <1>1
  <2>. QED  BY <1>2, <2>1, CoordRange, Zenon
<1>4. /\ Corner(x) = Total(f, Conv!D) /\ Offset(k) = Total(g, Conv!D)
      /\ Covered(x, k) = Total(h, Conv!D)
    BY DEF Corner, Offset, Covered
<1>5. /\ c(0) = 1 /\ c(1) = w /\ c(2) = q
      /\ InCube = (IF Conv!D = 1 THEN w ELSE IF Conv!D = 2 THEN q ELSE q * w)
    BY <1>1 DEF Conv!Cube, InCube
<1>6. \A d \in 0..(Conv!D - 1) : f[d] = Conv!S * b(d) * c(d) /\ g[d] = a(d) * c(d) /\ h[d] = v(d) * c(d)
    OBVIOUS
<1>. HIDE DEF a, b, c, f, g, h
<1>7. \A d \in 0..2 : v(d) \in 0..(w - 1)
  <2>. SUFFICES ASSUME NEW d \in 0..2 PROVE v(d) \in 0..(w - 1)
      OBVIOUS
  <2>1. a(d) \in 0..(Conv!K - 1) /\ b(d) \in 0..(Conv!OutWidth - 1)
      BY <1>3
  <2>2. CASE Conv!S = 1
      BY <1>1, <1>2, <2>1, <2>2
  <2>3. CASE Conv!S = 2
      BY <1>1, <1>2, <2>1, <2>3
  <2>. QED  BY <1>1, <2>2, <2>3
<1>8. q \in Nat /\ w \in Nat /\ \A d \in 0..2 : c(d) \in Nat
  <2>1. q \in Nat /\ w \in Nat
      BY <1>1
  <2>. QED  BY <1>5, <2>1
<1>9. \A d \in 0..2 : /\ Conv!S * b(d) * c(d) \in Nat /\ a(d) * c(d) \in Nat
                      /\ v(d) * c(d) = Conv!S * b(d) * c(d) + a(d) * c(d)
  <2>. SUFFICES ASSUME NEW d \in 0..2
                PROVE  /\ Conv!S * b(d) * c(d) \in Nat /\ a(d) * c(d) \in Nat
                       /\ v(d) * c(d) = Conv!S * b(d) * c(d) + a(d) * c(d)
      OBVIOUS
  <2>1. a(d) \in Nat /\ b(d) \in Nat /\ c(d) \in Nat /\ Conv!S \in Nat
      BY <1>1, <1>2, <1>3, <1>8
  <2>. QED  BY <2>1
<1>. DEFINE sb == Conv!S * b(0) * c(0)
<1>10. /\ f[0] \in Int /\ g[0] \in Int /\ h[0] \in Int
  <2>1. 0 \in 0..(Conv!D - 1) /\ 0 \in 0..2
      BY <1>1
  <2>2. f[0] \in Nat /\ g[0] \in Nat /\ h[0] = f[0] + g[0]
      BY <1>6, <1>9, <2>1
  <2>. QED  BY <2>2
<1>11. CASE Conv!D = 1
  <2>1. /\ f[0] \in Nat /\ g[0] \in Nat /\ h[0] = f[0] + g[0] /\ h[0] = v(0) * c(0)
      BY <1>6, <1>9, <1>11
  <2>2. Corner(x) = f[0] /\ Offset(k) = g[0] /\ Covered(x, k) = h[0]
      BY <1>4, <1>10, <1>11, FewTerms
  <2>3. h[0] = v(0)
      BY <1>5, <1>7, <2>1
  <2>. HIDE DEF v
  <2>. QED  BY <1>5, <1>7, <1>11, <2>1, <2>2, <2>3
<1>12. CASE Conv!D = 2
  <2>1. \A d \in 0..1 : f[d] \in Nat /\ g[d] \in Nat /\ h[d] = f[d] + g[d] /\ h[d] = v(d) * c(d)
      BY <1>6, <1>9, <1>12
  <2>2. Corner(x) = f[0] + f[1] /\ Offset(k) = g[0] + g[1] /\ Covered(x, k) = h[0] + h[1]
      BY <1>4, <1>10, <1>12, FewTerms
  <2>3. h[0] = v(0) /\ h[1] = v(1) * w
      BY <1>5, <1>7, <2>1
  <2>4. v(0) \in 0..(w - 1) /\ v(1) \in 0..(w - 1)
      BY <1>7
  <2>. HIDE DEF v
  <2>5. v(1) * w <= (w - 1) * w /\ (w - 1) * w = q - w
      BY <1>1, <2>4
  <2>. HIDE DEF q
  <2>6. f[0] \in Nat /\ f[1] \in Nat /\ g[0] \in Nat /\ g[1] \in Nat
        /\ h[0] = f[0] + g[0] /\ h[1] = f[1] + g[1]
      BY <2>1
  <2>. QED  BY <1>5, <1>8, <1>12, <2>2, <2>3, <2>4, <2>5, <2>6
<1>13. CASE Conv!D = 3
  <2>1. \A d \in 0..2 : f[d] \in Nat /\ g[d] \in Nat /\ h[d] = f[d] + g[d] /\ h[d] = v(d) * c(d)
      BY <1>6, <1>9, <1>13
  <2>2. /\ Corner(x) = f[0] + f[1] + f[2] /\ Offset(k) = g[0] + g[1] + g[2]
        /\ Covered(x, k) = h[0] + h[1] + h[2]
      BY <1>4, <1>10, <1>13, FewTerms
  <2>3. h[0] = v(0) /\ h[1] = v(1) * w /\ h[2] = v(2) * q
      BY <1>5, <1>7, <2>1
  <2>4. v(0) \in 0..(w - 1) /\ v(1) \in 0..(w - 1) /\ v(2) \in 0..(w - 1)
      BY <1>7
  <2>. HIDE DEF v
  <2>5. v(1) * w <= (w - 1) * w /\ (w - 1) * w = q - w
      BY <1>1, <2>4
  <2>. HIDE DEF q
  <2>6. v(2) * q <= (w - 1) * q /\ (w - 1) * q = q * w - q
      BY <1>1, <1>8, <2>4
  <2>7. f[0] \in Nat /\ f[1] \in Nat /\ f[2] \in Nat /\ g[0] \in Nat /\ g[1] \in Nat /\ g[2] \in Nat
        /\ h[0] = f[0] + g[0] /\ h[1] = f[1] + g[1] /\ h[2] = f[2] + g[2]
      BY <2>1
  <2>8. q * w \in Int
      BY <1>8
  <2>. QED  BY <1>5, <1>8, <1>13, <2>2, <2>3, <2>4, <2>5, <2>6, <2>7, <2>8
<1>. QED  BY <1>1, <1>11, <1>12, <1>13

(* What an output holds once the filter's first c channels, and of the next  *)
(* one the first k words, have been added.                                   *)
Terms(o, x, c) ==
    [k \in 0..(FilterCube - 1) |->
        Conv!FirstIn(c * InCube + Corner(x) + Offset(k))
            * Conv!FirstFilter((o * Conv!Ic + c) * FilterCube + k)]
Channels(o, x) == [c \in 0..(Conv!Ic - 1) |-> Total(Terms(o, x, c), FilterCube)]
Output(o, x) == Conv!Out(o * OutCube + x)
Summed(o, x, c, k) ==
    conv_mem[Output(o, x)] =
        (Conv!FirstBias(o) + Total(Channels(o, x), c) + Total(Terms(o, x, c), k)) % WORD

(* How far the loops are with an output. *)
ChannelsSeen(o, x) ==
    IF o < Conv!no THEN Conv!Ic
    ELSE IF o # Conv!no THEN 0
    ELSE IF x < Conv!place THEN Conv!ni + 1 ELSE Conv!ni
WordsSeen(o, x) == IF o = Conv!no /\ x = Conv!place THEN Conv!filterWord ELSE 0

Loaded ==
    /\ \A x \in 0..(Conv!InSize - 1) : conv_mem[Conv!In(x)] = Conv!FirstIn(x)
    /\ \A x \in 0..(Conv!FilterSize - 1) : conv_mem[Conv!Filter(x)] = Conv!FirstFilter(x)
    /\ \A o \in 0..(Conv!Oc - 1) : conv_mem[Conv!Bias(o)] = Conv!FirstBias(o)

(* The inductive invariant: input, filters and biases are as conv_init has   *)
(* stored them, and each output is the sum that the loops have reached.      *)
Convolved ==
    /\ conv_turn \in Nat
    /\ conv_pc \in {"size", "fill"} => conv_turn = 0
    /\ DOMAIN conv_mem = 0..((layer.size \div 4) - 1)
    /\ conv_pc \in {"ready", "conv"} /\ Room =>
          /\ Loaded
          /\ conv_pc = "conv" =>
                /\ conv_t \in Nat
                /\ \A o \in 0..(Conv!Oc - 1), x \in 0..(OutCube - 1) :
                      ChannelsSeen(o, x) > 0 \/ WordsSeen(o, x) > 0 =>
                          Summed(o, x, ChannelsSeen(o, x), WordsSeen(o, x))
          /\ conv_pc = "ready" /\ conv_turn > 0 =>
                \A o \in 0..(Conv!Oc - 1), x \in 0..(OutCube - 1) : Summed(o, x, Conv!Ic, 0)

LEMMA ConvFrame ==
    ASSUME UNCHANGED <<layer, InWidth>>
    PROVE  /\ Room' = Room /\ Conv!Ic' = Conv!Ic /\ Conv!Oc' = Conv!Oc
           /\ InCube' = InCube /\ OutCube' = OutCube /\ FilterCube' = FilterCube
           /\ Conv!InSize' = Conv!InSize /\ Conv!OutSize' = Conv!OutSize
           /\ Conv!FilterSize' = Conv!FilterSize
           /\ \A x : /\ Conv!In(x)' = Conv!In(x) /\ Conv!Filter(x)' = Conv!Filter(x)
                     /\ Conv!Bias(x)' = Conv!Bias(x)
                     /\ Conv!FirstIn(x)' = Conv!FirstIn(x)
                     /\ Conv!FirstFilter(x)' = Conv!FirstFilter(x)
                     /\ Conv!FirstBias(x)' = Conv!FirstBias(x)
           /\ \A o, x : Output(o, x)' = Output(o, x) /\ Channels(o, x)' = Channels(o, x)
           /\ \A o, x, c : Terms(o, x, c)' = Terms(o, x, c)
<1>1. /\ Conv!D' = Conv!D /\ Conv!S' = Conv!S /\ Conv!K' = Conv!K
      /\ Conv!Ic' = Conv!Ic /\ Conv!Oc' = Conv!Oc /\ Conv!OutWidth' = Conv!OutWidth
    BY DEF Conv!D, Conv!S, Conv!K, Conv!Ic, Conv!Oc, Conv!OutWidth
<1>2. Room' = Room
    BY LayerStays
<1>3. \A n, d : Conv!Cube(n, d)' = Conv!Cube(n, d)
    BY DEF Conv!Cube
<1>4. \A x, w, d : Conv!Coord(x, w, d)' = Conv!Coord(x, w, d)
    BY <1>3 DEF Conv!Coord
<1>5. InCube' = InCube /\ OutCube' = OutCube /\ FilterCube' = FilterCube
    BY <1>1, <1>3 DEF InCube, OutCube, FilterCube, Conv!Cube
<1>6. /\ Conv!InSize' = Conv!InSize /\ Conv!OutSize' = Conv!OutSize
      /\ Conv!FilterSize' = Conv!FilterSize
    BY <1>1, <1>5 DEF Conv!InSize, Conv!OutSize, Conv!FilterSize, Conv!Cube
<1>7. \A x : /\ Conv!In(x)' = Conv!In(x) /\ Conv!Filter(x)' = Conv!Filter(x)
             /\ Conv!Bias(x)' = Conv!Bias(x) /\ Conv!Out(x)' = Conv!Out(x)
    BY <1>6 DEF Conv!In, Conv!Filter, Conv!Bias, Conv!Out
<1>8. \A x : /\ Conv!FirstIn(x)' = Conv!FirstIn(x)
             /\ Conv!FirstFilter(x)' = Conv!FirstFilter(x)
             /\ Conv!FirstBias(x)' = Conv!FirstBias(x)
    BY <1>1, <1>4 DEF Conv!FirstIn, Conv!FirstFilter, Conv!FirstBias, Conv!Cube
<1>9. \A o, x : Output(o, x)' = Output(o, x)
    BY <1>5, <1>7 DEF Output
<1>10. \A x : Corner(x)' = Corner(x) /\ Offset(x)' = Offset(x)
    BY <1>1, <1>4 DEF Corner, Offset, Conv!Cube
<1>11. \A o, x, c : Terms(o, x, c)' = Terms(o, x, c)
    BY <1>1, <1>5, <1>8, <1>10 DEF Terms
<1>12. \A o, x : Channels(o, x)' = Channels(o, x)
    BY <1>1, <1>5, <1>11 DEF Channels
<1>. QED  BY <1>1, <1>2, <1>5, <1>6, <1>7, <1>8, <1>9, <1>11, <1>12

(* Where everything lies, and that it is of numbers. *)
LEMMA ConvFacts ==
    ASSUME Widest, Room, conv_pc # "size"
    PROVE  /\ layer \in Layers /\ InWidth \in Nat /\ InWidth >= Conv!K
           /\ Conv!Ic \in Nat \ {0} /\ Conv!Oc \in Nat \ {0} /\ WORD \in Nat \ {0}
           /\ InCube \in Nat \ {0} /\ OutCube \in Nat \ {0} /\ FilterCube \in Nat \ {0}
           /\ Conv!InSize = Conv!Ic * InCube /\ Conv!OutSize = Conv!Oc * OutCube
           /\ Conv!FilterSize = (Conv!Oc * Conv!Ic) * FilterCube
           /\ Conv!InSize \in Nat /\ Conv!OutSize \in Nat /\ Conv!FilterSize \in Nat
           /\ Conv!InSize + Conv!OutSize + Conv!FilterSize + Conv!Oc <= layer.size \div 4
           /\ layer.size \div 4 \in Nat
<1>1. layer \in Layers /\ InWidth \in Nat /\ InWidth >= Conv!K /\ Conv!Bytes(InWidth) < layer.size
    BY DEF Widest
<1>2. /\ Conv!D \in 1..3 /\ Conv!K \in 1..3 /\ Conv!Ic \in Nat \ {0} /\ Conv!Oc \in Nat \ {0}
      /\ layer.size \in Nat /\ WORD \in Nat \ {0}
    BY <1>1, LayerFacts
<1>3. Conv!OutWidth \in Nat \ {0}
    BY <1>1, WideFacts DEF Conv!OutWidth, Wide
<1>4. \A n \in Nat \ {0} : Conv!Cube(n, Conv!D) \in Nat \ {0}
  <2>. SUFFICES ASSUME NEW n \in Nat \ {0} PROVE Conv!Cube(n, Conv!D) \in Nat \ {0}
      OBVIOUS
  <2>1. n \in Nat /\ n >= 1
      OBVIOUS
  <2>2. Conv!Cube(n, Conv!D) \in Nat /\ Conv!Cube(n, Conv!D) >= 1
      BY <1>2, <2>1, CubeFacts
  <2>. QED  BY <2>2
<1>5. InCube \in Nat \ {0} /\ OutCube \in Nat \ {0} /\ FilterCube \in Nat \ {0}
  <2>1. InWidth \in Nat \ {0} /\ Conv!K \in Nat \ {0}
      BY <1>1, <1>2
  <2>. QED  BY <1>3, <1>4, <2>1 DEF InCube, OutCube, FilterCube
<1>6. /\ Conv!InSize = Conv!Ic * InCube /\ Conv!OutSize = Conv!Oc * OutCube
      /\ Conv!FilterSize = (Conv!Oc * Conv!Ic) * FilterCube
    BY DEF Conv!InSize, Conv!OutSize, Conv!FilterSize, InCube, OutCube, FilterCube
<1>7. /\ Conv!InSize \in Nat /\ Conv!OutSize \in Nat /\ Conv!FilterSize \in Nat
  <2>1. Conv!Oc * Conv!Ic \in Nat
      BY <1>2
  <2>. QED  BY <1>2, <1>5, <1>6, <2>1
<1>8. Conv!Bytes(InWidth) = (Conv!InSize + Conv!FilterSize + Conv!OutSize + Conv!Oc) * 4
    BY DEF Conv!Bytes, Conv!InSize, Conv!OutSize, Conv!OutWidth, Conv!SIZEOF
<1>9. Conv!InSize + Conv!OutSize + Conv!FilterSize + Conv!Oc <= layer.size \div 4
      /\ layer.size \div 4 \in Nat
    BY <1>1, <1>2, <1>7, <1>8
<1>. QED  BY <1>1, <1>2, <1>5, <1>6, <1>7, <1>9

(* What conv_init stores are words. *)
LEMMA FirstWords ==
    ASSUME Widest, Room, conv_pc # "size"
    PROVE  /\ \A x \in 0..(Conv!InSize - 1) : Conv!FirstIn(x) \in Nat
           /\ \A x \in 0..(Conv!FilterSize - 1) : Conv!FirstFilter(x) \in Nat
           /\ \A o \in 0..(Conv!Oc - 1) : Conv!FirstBias(o) \in Nat
<1>1. /\ Words \subseteq Nat /\ layer.seed \in Words /\ 0..(layer.size \div 4) \subseteq Words
      /\ \A x, y \in Words : BitXor(x, y) \in Words
    BY WordsAssumption DEF Widest
<1>2. /\ Conv!InSize \in Nat /\ Conv!OutSize \in Nat /\ Conv!FilterSize \in Nat
      /\ Conv!Oc \in Nat \ {0} /\ Conv!Ic \in Nat \ {0}
      /\ Conv!InSize + Conv!OutSize + Conv!FilterSize + Conv!Oc <= layer.size \div 4
      /\ layer.size \div 4 \in Nat /\ InCube \in Nat \ {0} /\ InWidth \in Nat
      /\ Conv!InSize = Conv!Ic * InCube /\ layer \in Layers /\ InWidth >= Conv!K
    BY ConvFacts
<1>3. Conv!D \in 1..3 /\ Conv!K \in 1..3
    BY <1>2, LayerFacts
<1>4. InWidth \in Nat \ {0} /\ InWidth <= Conv!InSize
  <2>1. InWidth \in Nat \ {0}
      BY <1>2, <1>3
  <2>2. InCube >= InWidth
    <3>1. InWidth \in Nat /\ InWidth >= 1
        BY <2>1
    <3>. QED  BY <1>3, <3>1, CubeFacts DEF InCube
  <2>3. Conv!Ic * InCube >= InCube
      BY <1>2
  <2>. QED  BY <1>2, <2>1, <2>2, <2>3
<1>5. ASSUME NEW x \in 0..(Conv!InSize - 1) PROVE Conv!FirstIn(x) \in Nat
  <2>1. x \in Nat /\ x \in Words
      BY <1>1, <1>2
  <2>2. x \div InCube \in Words
    <3>1. x \div InCube \in Nat /\ x = (x \div InCube) * InCube + (x % InCube)
          /\ x % InCube \in 0..(InCube - 1)
        BY <1>2, <2>1, InRow, Zenon
    <3>. DEFINE q == x \div InCube
                r == x % InCube
    <3>. HIDE DEF q, r
    <3>2. q \in Nat /\ x = q * InCube + r /\ r \in 0..(InCube - 1)
        BY <3>1 DEF q, r
    <3>3. q * InCube >= q
        BY <1>2, <3>2
    <3>4. q <= x
        BY <1>2, <2>1, <3>2, <3>3
    <3>. QED  BY <1>1, <1>2, <2>1, <3>2, <3>4 DEF q
  <2>3. \A d \in 0..2 : Conv!Coord(x, InWidth, d) \in Words
    <3>1. \A d \in 0..2 : Conv!Coord(x, InWidth, d) \in 0..(InWidth - 1)
        BY <1>4, <2>1, CoordRange, Zenon
    <3>. QED  BY <1>1, <1>2, <1>4, <3>1
  <2>4. BitXor(layer.seed, x) \in Nat
      BY <1>1, <2>1
  <2>. DEFINE c0 == Conv!Coord(x, InWidth, 0)
              c1 == Conv!Coord(x, InWidth, 1)
              u == BitXor(layer.seed, x \div InCube)
  <2>5. c0 \in Words /\ c1 \in Words
      BY <2>3
  <2>6. u \in Words
      BY <1>1, <2>2
  <2>. HIDE DEF c0, c1, u
  <2>7. BitXor(u, c0) \in Words /\ BitXor(u, c1) \in Words
      BY <1>1, <2>5, <2>6
  <2>8. BitXor(BitXor(u, c1), c0) \in Words
      BY <1>1, <2>5, <2>7
  <2>. QED  BY <1>1, <1>3, <2>4, <2>7, <2>8 DEF Conv!FirstIn, InCube, c0, c1, u
<1>6. ASSUME NEW x \in 0..(Conv!FilterSize - 1) PROVE Conv!FirstFilter(x) \in Nat
  <2>1. x \in Words
      BY <1>1, <1>2
  <2>. QED  BY <1>1, <2>1 DEF Conv!FirstFilter
<1>7. ASSUME NEW x \in 0..(Conv!Oc - 1) PROVE Conv!FirstBias(x) \in Nat
  <2>1. x \in Words
      BY <1>1, <1>2
  <2>. QED  BY <1>1, <2>1 DEF Conv!FirstBias
<1>. QED  BY <1>5, <1>6, <1>7

(* The terms of an output are products of words of the input and the filters. *)
LEMMA TermFacts ==
    ASSUME Widest, Room, conv_pc # "size",
           NEW o \in 0..(Conv!Oc - 1), NEW x \in 0..(OutCube - 1),
           NEW c \in 0..(Conv!Ic - 1), NEW k \in 0..(FilterCube - 1)
    PROVE  /\ c * InCube + Corner(x) + Offset(k) \in 0..(Conv!InSize - 1)
           /\ c * InCube + Covered(x, k) = c * InCube + Corner(x) + Offset(k)
           /\ (o * Conv!Ic + c) * FilterCube + k \in 0..(Conv!FilterSize - 1)
           /\ Terms(o, x, c)[k] =
                 Conv!FirstIn(c * InCube + Corner(x) + Offset(k))
                     * Conv!FirstFilter((o * Conv!Ic + c) * FilterCube + k)
           /\ Terms(o, x, c)[k] \in Nat
<1>1. /\ layer \in Layers /\ InWidth \in Nat /\ InWidth >= Conv!K
      /\ Conv!Ic \in Nat \ {0} /\ Conv!Oc \in Nat \ {0}
      /\ InCube \in Nat \ {0} /\ OutCube \in Nat \ {0} /\ FilterCube \in Nat \ {0}
      /\ Conv!InSize = Conv!Ic * InCube
      /\ Conv!FilterSize = (Conv!Oc * Conv!Ic) * FilterCube
    BY ConvFacts
<1>2. x \in Nat /\ k \in Nat
    BY <1>1
<1>3. /\ Covered(x, k) = Corner(x) + Offset(k)
      /\ Corner(x) \in Nat /\ Offset(k) \in Nat
      /\ Covered(x, k) \in 0..(InCube - 1)
    BY <1>1, <1>2, Covers
<1>4. c * InCube + Covered(x, k) \in 0..(Conv!InSize - 1)
  <2>1. Conv!Ic \in Nat
      BY <1>1
  <2>2. c * InCube + Covered(x, k) \in 0..(Conv!Ic * InCube - 1)
      BY <1>1, <1>3, <2>1, InRows, Zenon
  <2>. QED  BY <1>1, <2>2
<1>5. c * InCube + Covered(x, k) = c * InCube + Corner(x) + Offset(k)
  <2>1. c * InCube \in Nat
      BY <1>1
  <2>. QED  BY <1>3, <2>1
<1>6. (o * Conv!Ic + c) * FilterCube + k \in 0..(Conv!FilterSize - 1)
  <2>1. Conv!Oc \in Nat /\ Conv!Oc * Conv!Ic \in Nat
      BY <1>1
  <2>2. o * Conv!Ic + c \in 0..(Conv!Oc * Conv!Ic - 1)
      BY <1>1, <2>1, InRows, Zenon
  <2>3. (o * Conv!Ic + c) * FilterCube + k \in 0..((Conv!Oc * Conv!Ic) * FilterCube - 1)
      BY <1>1, <2>1, <2>2, InRows, Zenon
  <2>. QED  BY <1>1, <2>3
<1>7. Terms(o, x, c)[k] =
          Conv!FirstIn(c * InCube + Corner(x) + Offset(k))
              * Conv!FirstFilter((o * Conv!Ic + c) * FilterCube + k)
    BY DEF Terms
<1>8. /\ Conv!FirstIn(c * InCube + Corner(x) + Offset(k)) \in Nat
      /\ Conv!FirstFilter((o * Conv!Ic + c) * FilterCube + k) \in Nat
    BY <1>4, <1>5, <1>6, FirstWords
<1>9. \A u, v \in Nat : u * v \in Nat
    OBVIOUS
<1>. QED  BY <1>4, <1>5, <1>6, <1>7, <1>8, <1>9

(* The sums grow by a term, and a sum over a whole channel by the channel. *)
LEMMA SumFacts ==
    ASSUME Widest, Room, conv_pc # "size",
           NEW o \in 0..(Conv!Oc - 1), NEW x \in 0..(OutCube - 1), NEW c \in 0..(Conv!Ic - 1)
    PROVE  /\ Conv!FirstBias(o) \in Nat
           /\ Total(Channels(o, x), 0) = 0 /\ \A d : Total(Terms(o, x, d), 0) = 0
           /\ Total(Channels(o, x), c) \in Nat
           /\ Total(Channels(o, x), c + 1) =
                 Total(Channels(o, x), c) + Total(Terms(o, x, c), FilterCube)
           /\ Total(Terms(o, x, c), FilterCube) \in Nat
           /\ \A k \in 0..(FilterCube - 1) :
                 /\ Total(Terms(o, x, c), k) \in Nat
                 /\ Total(Terms(o, x, c), k + 1) = Total(Terms(o, x, c), k) + Terms(o, x, c)[k]
<1>1. Conv!Ic \in Nat \ {0} /\ FilterCube \in Nat \ {0}
    BY ConvFacts
<1>2. Conv!FirstBias(o) \in Nat
    BY FirstWords
<1>3. Total(Channels(o, x), 0) = 0 /\ \A d : Total(Terms(o, x, d), 0) = 0
    BY TotalStep
<1>4. \A d \in 0..(Conv!Ic - 1) : \A k \in 0..FilterCube : Total(Terms(o, x, d), k) \in Nat
  <2>. SUFFICES ASSUME NEW d \in 0..(Conv!Ic - 1)
                PROVE  \A k \in 0..FilterCube : Total(Terms(o, x, d), k) \in Nat
      OBVIOUS
  <2>1. \A k \in 0..(FilterCube - 1) : Terms(o, x, d)[k] \in Nat
      BY TermFacts
  <2>2. FilterCube \in Nat
      BY <1>1
  <2>. QED  BY <2>1, <2>2, TotalInt, Zenon
<1>5. /\ Total(Channels(o, x), c) \in Nat
      /\ Channels(o, x)[c] = Total(Terms(o, x, c), FilterCube)
  <2>1. \A d \in 0..(Conv!Ic - 1) : Channels(o, x)[d] = Total(Terms(o, x, d), FilterCube)
      BY DEF Channels
  <2>2. \A d \in 0..(Conv!Ic - 1) : Channels(o, x)[d] \in Nat
    <3>1. FilterCube \in 0..FilterCube
        BY <1>1
    <3>. QED  BY <1>4, <2>1, <3>1
  <2>3. \A d \in 0..Conv!Ic : Total(Channels(o, x), d) \in Nat
    <3>1. Conv!Ic \in Nat
        BY <1>1
    <3>. QED  BY <2>2, <3>1, TotalInt, Zenon
  <2>4. c \in 0..Conv!Ic
      BY <1>1
  <2>. QED  BY <2>1, <2>3, <2>4
<1>6. Total(Channels(o, x), c + 1) =
          Total(Channels(o, x), c) + Total(Terms(o, x, c), FilterCube)
  <2>1. c \in Nat
      BY <1>1
  <2>. QED  BY <1>5, <2>1, TotalStep
<1>7. \A k \in 0..(FilterCube - 1) :
          Total(Terms(o, x, c), k + 1) = Total(Terms(o, x, c), k) + Terms(o, x, c)[k]
  <2>1. \A k \in 0..(FilterCube - 1) : k \in Nat
      BY <1>1
  <2>. QED  BY <2>1, TotalStep
<1>8. FilterCube \in 0..FilterCube /\ \A k \in 0..(FilterCube - 1) : k \in 0..FilterCube
    BY <1>1
<1>. QED  BY <1>2, <1>3, <1>4, <1>5, <1>6, <1>7, <1>8

(* Outputs, inputs, filters and biases are apart. *)
LEMMA Apart ==
    ASSUME Widest, Room, conv_pc # "size", DOMAIN conv_mem = 0..((layer.size \div 4) - 1),
           NEW o \in 0..(Conv!Oc - 1), NEW x \in 0..(OutCube - 1)
    PROVE  /\ Output(o, x) \in DOMAIN conv_mem
           /\ \A p \in 0..(Conv!Oc - 1), y \in 0..(OutCube - 1) :
                 Output(p, y) = Output(o, x) => p = o /\ y = x
           /\ \A w \in 0..(Conv!InSize - 1) : Conv!In(w) # Output(o, x)
           /\ \A w \in 0..(Conv!FilterSize - 1) : Conv!Filter(w) # Output(o, x)
           /\ \A w \in 0..(Conv!Oc - 1) : Conv!Bias(w) # Output(o, x)
<1>1. /\ Conv!Oc \in Nat \ {0} /\ OutCube \in Nat \ {0}
      /\ Conv!InSize \in Nat /\ Conv!OutSize \in Nat /\ Conv!FilterSize \in Nat
      /\ Conv!OutSize = Conv!Oc * OutCube
      /\ Conv!InSize + Conv!OutSize + Conv!FilterSize + Conv!Oc <= layer.size \div 4
      /\ layer.size \div 4 \in Nat
    BY ConvFacts
<1>2. \A p \in 0..(Conv!Oc - 1), y \in 0..(OutCube - 1) :
          /\ p * OutCube + y \in 0..(Conv!OutSize - 1)
          /\ (p * OutCube + y) \div OutCube = p /\ (p * OutCube + y) % OutCube = y
          /\ Output(p, y) = Conv!InSize + (p * OutCube + y)
  <2>. SUFFICES ASSUME NEW p \in 0..(Conv!Oc - 1), NEW y \in 0..(OutCube - 1)
                PROVE  /\ p * OutCube + y \in 0..(Conv!OutSize - 1)
                       /\ (p * OutCube + y) \div OutCube = p /\ (p * OutCube + y) % OutCube = y
                       /\ Output(p, y) = Conv!InSize + (p * OutCube + y)
      BY Zenon
  <2>1. p \in Nat /\ Conv!Oc \in Nat
      BY <1>1
  <2>2. p * OutCube + y \in 0..(Conv!Oc * OutCube - 1)
      BY <1>1, <2>1, InRows, Zenon
  <2>3. (p * OutCube + y) \div OutCube = p /\ (p * OutCube + y) % OutCube = y
      BY <1>1, <2>1, RowOf, Zenon
  <2>4. Output(p, y) = Conv!InSize + (p * OutCube + y)
      BY DEF Output, Conv!Out
  <2>. QED  BY <1>1, <2>2, <2>3, <2>4, Zenon
<1>3. PICK z : z = o * OutCube + x
    OBVIOUS
<1>4. z \in 0..(Conv!OutSize - 1) /\ Output(o, x) = Conv!InSize + z
    BY <1>2, <1>3, Zenon
<1>5. ASSUME NEW p \in 0..(Conv!Oc - 1), NEW y \in 0..(OutCube - 1),
             Output(p, y) = Output(o, x)
      PROVE  p = o /\ y = x
  <2>1. PICK u : u = p * OutCube + y
      OBVIOUS
  <2>2. u \in 0..(Conv!OutSize - 1) /\ Output(p, y) = Conv!InSize + u
      BY <1>2, <2>1, Zenon
  <2>3. u = z
      BY <1>1, <1>4, <1>5, <2>2
  <2>4. z \div OutCube = o /\ z % OutCube = x
      BY <1>2, <1>3, Zenon
  <2>5. u \div OutCube = p /\ u % OutCube = y
      BY <1>2, <2>1, Zenon
  <2>. QED  BY <2>3, <2>4, <2>5, Zenon
<1>6. /\ Output(o, x) \in DOMAIN conv_mem
      /\ \A w \in 0..(Conv!InSize - 1) : Conv!In(w) # Output(o, x)
      /\ \A w \in 0..(Conv!FilterSize - 1) : Conv!Filter(w) # Output(o, x)
      /\ \A w \in 0..(Conv!Oc - 1) : Conv!Bias(w) # Output(o, x)
    BY <1>1, <1>4 DEF Conv!In, Conv!Filter, Conv!Bias
<1>. QED  BY <1>5, <1>6

LEMMA FillLoads ==
    ASSUME Widest, Convolved, Conv!Fill PROVE Convolved'
<1>1. /\ UNCHANGED <<layer, InWidth, conv_turn>> /\ conv_pc = "fill" /\ conv_pc' = "ready"
      /\ conv_turn = 0
      /\ conv_mem' = [w \in DOMAIN conv_mem |->
            CASE w \in {Conv!In(x) : x \in 0..(Conv!InSize - 1)} -> Conv!FirstIn(w)
              [] w \in {Conv!Filter(x) : x \in 0..(Conv!FilterSize - 1)} ->
                    Conv!FirstFilter(w - Conv!Filter(0))
              [] w \in {Conv!Bias(x) : x \in 0..(Conv!Oc - 1)} -> Conv!FirstBias(w - Conv!Bias(0))
              [] OTHER -> conv_mem[w]]
    BY DEF Conv!Fill, Convolved
<1>2. DOMAIN conv_mem' = 0..((layer.size \div 4) - 1)' /\ DOMAIN conv_mem = 0..((layer.size \div 4) - 1)
    BY <1>1 DEF Convolved
<1>3. ASSUME Room PROVE Loaded'
  <2>. DEFINE ins == {Conv!In(x) : x \in 0..(Conv!InSize - 1)}
              filters == {Conv!Filter(x) : x \in 0..(Conv!FilterSize - 1)}
              biases == {Conv!Bias(x) : x \in 0..(Conv!Oc - 1)}
              First(w) == CASE w \in ins -> Conv!FirstIn(w)
                            [] w \in filters -> Conv!FirstFilter(w - Conv!Filter(0))
                            [] w \in biases -> Conv!FirstBias(w - Conv!Bias(0))
                            [] OTHER -> conv_mem[w]
  <2>1. /\ Conv!InSize \in Nat /\ Conv!OutSize \in Nat /\ Conv!FilterSize \in Nat
        /\ Conv!Oc \in Nat
        /\ Conv!InSize + Conv!OutSize + Conv!FilterSize + Conv!Oc <= layer.size \div 4
        /\ layer.size \div 4 \in Nat
      BY <1>1, <1>3, ConvFacts
  <2>2. \A w \in DOMAIN conv_mem : conv_mem'[w] = First(w)
    <3>1. conv_mem' = [w \in DOMAIN conv_mem |-> First(w)]
        BY <1>1
    <3>. HIDE DEF First
    <3>. QED  BY <3>1
  <2>3. /\ \A w \in ins : w \in 0..(Conv!InSize - 1)
        /\ \A w \in filters : w >= Conv!InSize + Conv!OutSize
                              /\ w < Conv!InSize + Conv!OutSize + Conv!FilterSize /\ w \in Int
        /\ \A w \in biases : w >= Conv!InSize + Conv!OutSize + Conv!FilterSize /\ w \in Int
      BY <2>1 DEF Conv!In, Conv!Filter, Conv!Bias
  <2>4. /\ ins \cap filters = {} /\ ins \cap biases = {} /\ filters \cap biases = {}
    <3>. HIDE DEF ins, filters, biases
    <3>. QED  BY <2>1, <2>3
  <2>5. /\ \A w \in ins : First(w) = Conv!FirstIn(w)
        /\ \A w \in filters : First(w) = Conv!FirstFilter(w - Conv!Filter(0))
        /\ \A w \in biases : First(w) = Conv!FirstBias(w - Conv!Bias(0))
    <3>. HIDE DEF ins, filters, biases
    <3>. QED  BY <2>4, Zenon
  <2>. HIDE DEF First
  <2>6. ASSUME NEW x \in 0..(Conv!InSize - 1) PROVE conv_mem'[Conv!In(x)] = Conv!FirstIn(x)
    <3>1. Conv!In(x) \in ins /\ Conv!In(x) \in DOMAIN conv_mem /\ Conv!In(x) = x
        BY <1>2, <2>1 DEF Conv!In
    <3>. QED  BY <2>2, <2>5, <3>1
  <2>7. ASSUME NEW x \in 0..(Conv!FilterSize - 1)
        PROVE  conv_mem'[Conv!Filter(x)] = Conv!FirstFilter(x)
    <3>1. Conv!Filter(x) \in filters /\ Conv!Filter(x) \in DOMAIN conv_mem
          /\ Conv!Filter(x) - Conv!Filter(0) = x
        BY <1>2, <2>1 DEF Conv!Filter
    <3>. HIDE DEF filters, ins, biases
    <3>2. conv_mem'[Conv!Filter(x)] = First(Conv!Filter(x))
        BY <2>2, <3>1
    <3>3. First(Conv!Filter(x)) = Conv!FirstFilter(Conv!Filter(x) - Conv!Filter(0))
        BY <2>5, <3>1
    <3>. QED  BY <3>1, <3>2, <3>3
  <2>8. ASSUME NEW x \in 0..(Conv!Oc - 1) PROVE conv_mem'[Conv!Bias(x)] = Conv!FirstBias(x)
    <3>1. Conv!Bias(x) \in biases /\ Conv!Bias(x) \in DOMAIN conv_mem
          /\ Conv!Bias(x) - Conv!Bias(0) = x
        BY <1>2, <2>1 DEF Conv!Bias
    <3>. HIDE DEF filters, ins, biases
    <3>2. conv_mem'[Conv!Bias(x)] = First(Conv!Bias(x))
        BY <2>2, <3>1
    <3>3. First(Conv!Bias(x)) = Conv!FirstBias(Conv!Bias(x) - Conv!Bias(0))
        BY <2>5, <3>1
    <3>. QED  BY <3>1, <3>2, <3>3
  <2>. QED  BY ZenonT(60), <1>1, <2>6, <2>7, <2>8, ConvFrame DEF Loaded
<1>. QED  BY <1>1, <1>2, <1>3, ConvFrame DEF Convolved

LEMMA BeginConvolved ==
    ASSUME Widest, Convolved, Conv!Begin PROVE Convolved'
<1>1. /\ UNCHANGED <<layer, InWidth, conv_turn, conv_mem>>
      /\ conv_pc = "ready" /\ conv_pc' = "conv" /\ conv_t' = 0
    BY DEF Conv!Begin
<1>2. Room => Loaded'
    BY <1>1, ConvFrame DEF Convolved, Loaded
<1>3. ASSUME Room, NEW o \in 0..(Conv!Oc - 1), NEW x \in 0..(OutCube - 1)
      PROVE  ~(ChannelsSeen(o, x)' > 0) /\ ~(WordsSeen(o, x)' > 0)
  <2>1. /\ Conv!Ic \in Nat \ {0} /\ OutCube \in Nat \ {0} /\ FilterCube \in Nat \ {0}
        /\ Conv!Oc \in Nat
      BY <1>1, <1>3, ConvFacts
  <2>2. /\ Conv!filterWord' = 0 % FilterCube /\ Conv!place' = (0 \div FilterCube) % OutCube
        /\ Conv!ni' = (0 \div (FilterCube * OutCube)) % Conv!Ic
        /\ Conv!no' = 0 \div (FilterCube * OutCube * Conv!Ic)
    <3>1. FilterCube' = FilterCube /\ OutCube' = OutCube /\ Conv!Ic' = Conv!Ic
        BY <1>1, ConvFrame
    <3>. QED  BY <1>1, <3>1 DEF Conv!filterWord, Conv!place, Conv!ni, Conv!no, FilterCube, OutCube
  <2>3. \A n \in Nat \ {0} : 0 \div n = 0 /\ 0 % n = 0
      OBVIOUS
  <2>4. FilterCube * OutCube \in Nat \ {0} /\ FilterCube * OutCube * Conv!Ic \in Nat \ {0}
    <3>1. \A u, v \in Nat \ {0} : u * v \in Nat \ {0}
        OBVIOUS
    <3>2. FilterCube * OutCube \in Nat \ {0}
        BY <2>1, <3>1
    <3>. QED  BY <2>1, <3>1, <3>2, Zenon
  <2>5. Conv!filterWord' = 0 /\ Conv!place' = 0 /\ Conv!ni' = 0 /\ Conv!no' = 0
      BY <2>1, <2>2, <2>3, <2>4, Zenon
  <2>. QED  BY <2>1, <2>5 DEF ChannelsSeen, WordsSeen
<1>. QED  BY <1>1, <1>2, <1>3, ConvFrame DEF Convolved

LEMMA EndConvolved ==
    ASSUME Widest, Convolved, Conv!End PROVE Convolved'
<1>1. /\ UNCHANGED <<layer, InWidth, conv_mem>> /\ conv_turn' = conv_turn + 1
      /\ conv_pc = "conv" /\ conv_pc' = "ready" /\ Conv!no = Conv!Oc
    BY DEF Conv!End
<1>2. Room => Loaded'
    BY <1>1, ConvFrame DEF Convolved, Loaded
<1>3. ASSUME Room, NEW o \in 0..(Conv!Oc - 1), NEW x \in 0..(OutCube - 1)
      PROVE  Summed(o, x, Conv!Ic, 0)'
  <2>1. Conv!Ic \in Nat \ {0} /\ Conv!Oc \in Nat
      BY <1>1, <1>3, ConvFacts
  <2>2. ChannelsSeen(o, x) = Conv!Ic /\ WordsSeen(o, x) = 0
      BY <1>1, <2>1 DEF ChannelsSeen, WordsSeen
  <2>3. Summed(o, x, Conv!Ic, 0)
    <3>1. ChannelsSeen(o, x) > 0
        BY <2>1, <2>2
    <3>. QED  BY <1>1, <1>3, <2>2, <3>1 DEF Convolved
  <2>. QED  BY <1>1, <2>3, ConvFrame DEF Summed
<1>. QED  BY <1>1, <1>2, <1>3, ConvFrame DEF Convolved

(* A turn of the innermost loop gets on with one output. *)
LEMMA SeenNext ==
    ASSUME Widest, Room, conv_pc # "size", conv_t \in Nat, conv_t' = conv_t + 1,
           UNCHANGED <<layer, InWidth>>, Conv!no < Conv!Oc
    PROVE  /\ Conv!no \in 0..(Conv!Oc - 1) /\ Conv!place \in 0..(OutCube - 1)
           /\ Conv!ni \in 0..(Conv!Ic - 1) /\ Conv!filterWord \in 0..(FilterCube - 1)
           /\ \A o \in 0..(Conv!Oc - 1), x \in 0..(OutCube - 1) :
                 IF o = Conv!no /\ x = Conv!place
                 THEN \/ /\ ChannelsSeen(o, x)' = Conv!ni
                         /\ WordsSeen(o, x)' = Conv!filterWord + 1
                      \/ /\ Conv!filterWord + 1 = FilterCube
                         /\ ChannelsSeen(o, x)' = Conv!ni + 1 /\ WordsSeen(o, x)' = 0
                 ELSE /\ ChannelsSeen(o, x)' = ChannelsSeen(o, x)
                      /\ WordsSeen(o, x)' = 0 /\ WordsSeen(o, x) = 0
<1>1. /\ Conv!Ic \in Nat \ {0} /\ Conv!Oc \in Nat \ {0}
      /\ OutCube \in Nat \ {0} /\ FilterCube \in Nat \ {0}
    BY ConvFacts
<1>2. PICK a, b, c, n : a = FilterCube /\ b = OutCube /\ c = Conv!Ic /\ n = conv_t
    BY Zenon
<1>3. PICK k, p, q, z, k1, p1, q1, z1 :
          /\ k = Inner1(n, a) /\ p = Inner2(n, a, b)
          /\ q = Inner3(n, a, b, c) /\ z = Outer(n, a, b, c)
          /\ k1 = Inner1(n + 1, a) /\ p1 = Inner2(n + 1, a, b)
          /\ q1 = Inner3(n + 1, a, b, c) /\ z1 = Outer(n + 1, a, b, c)
    BY Zenon
<1>4. Conv!filterWord = k /\ Conv!place = p /\ Conv!ni = q /\ Conv!no = z
    BY <1>2, <1>3, Zenon
    DEF Conv!filterWord, Conv!place, Conv!ni, Conv!no, FilterCube, OutCube,
        Inner1, Inner2, Inner3, Outer
<1>5. Conv!filterWord' = k1 /\ Conv!place' = p1 /\ Conv!ni' = q1 /\ Conv!no' = z1
  <2>1. FilterCube' = a /\ OutCube' = b /\ Conv!Ic' = c /\ conv_t' = n + 1
      BY <1>2, ConvFrame
  <2>. QED  BY <1>3, <2>1, Zenon
       DEF Conv!filterWord, Conv!place, Conv!ni, Conv!no, FilterCube, OutCube,
        Inner1, Inner2, Inner3, Outer
<1>6. a \in Nat \ {0} /\ b \in Nat \ {0} /\ c \in Nat \ {0} /\ n \in Nat
    BY <1>1, <1>2
<1>7. /\ k \in 0..(a - 1) /\ p \in 0..(b - 1) /\ q \in 0..(c - 1) /\ z \in Nat
      /\ GetOn(a, b, c, k, p, q, z, k1, p1, q1, z1)
    BY <1>3, <1>6, FourLoops
<1>8. z \in 0..(Conv!Oc - 1)
    BY <1>1, <1>4, <1>7
<1>9. ASSUME NEW o \in 0..(Conv!Oc - 1), NEW x \in 0..(OutCube - 1)
      PROVE  /\ ChannelsSeen(o, x) =
                   (IF o < z THEN c ELSE IF o # z THEN 0 ELSE IF x < p THEN q + 1 ELSE q)
             /\ WordsSeen(o, x) = (IF o = z /\ x = p THEN k ELSE 0)
             /\ ChannelsSeen(o, x)' =
                   (IF o < z1 THEN c ELSE IF o # z1 THEN 0 ELSE IF x < p1 THEN q1 + 1 ELSE q1)
             /\ WordsSeen(o, x)' = (IF o = z1 /\ x = p1 THEN k1 ELSE 0)
  <2>1. Conv!Ic' = c /\ Conv!Ic = c
      BY <1>2, ConvFrame
  <2>. QED  BY <1>4, <1>5, <2>1 DEF ChannelsSeen, WordsSeen
<1>10. ASSUME NEW o \in 0..(Conv!Oc - 1), NEW x \in 0..(OutCube - 1)
       PROVE  IF o = z /\ x = p
              THEN \/ ChannelsSeen(o, x)' = q /\ WordsSeen(o, x)' = k + 1
                   \/ k + 1 = a /\ ChannelsSeen(o, x)' = q + 1 /\ WordsSeen(o, x)' = 0
              ELSE /\ ChannelsSeen(o, x)' = ChannelsSeen(o, x)
                   /\ WordsSeen(o, x)' = 0 /\ WordsSeen(o, x) = 0
  <2>1. o \in Nat /\ x \in 0..(b - 1)
      BY <1>1, <1>2
  <2>2. PICK s, s1, v, v1 : /\ s = ChannelsSeen(o, x) /\ s1 = ChannelsSeen(o, x)'
                            /\ v = WordsSeen(o, x) /\ v1 = WordsSeen(o, x)'
      BY Zenon
  <2>3. /\ s = (IF o < z THEN c ELSE IF o # z THEN 0 ELSE IF x < p THEN q + 1 ELSE q)
        /\ v = (IF o = z /\ x = p THEN k ELSE 0)
        /\ s1 = (IF o < z1 THEN c ELSE IF o # z1 THEN 0 ELSE IF x < p1 THEN q1 + 1 ELSE q1)
        /\ v1 = (IF o = z1 /\ x = p1 THEN k1 ELSE 0)
      BY <1>9, <2>2
  <2>4. CASE k + 1 < a /\ k1 = k + 1 /\ p1 = p /\ q1 = q /\ z1 = z
    <3>1. IF o = z /\ x = p THEN s1 = q /\ v1 = k + 1 ELSE s1 = s /\ v1 = 0 /\ v = 0
        BY <1>6, <1>7, <2>1, <2>3, <2>4
    <3>. QED  BY <2>2, <3>1
  <2>5. CASE k + 1 = a /\ k1 = 0 /\ p + 1 < b /\ p1 = p + 1 /\ q1 = q /\ z1 = z
    <3>1. IF o = z /\ x = p THEN k + 1 = a /\ s1 = q + 1 /\ v1 = 0 ELSE s1 = s /\ v1 = 0 /\ v = 0
        BY <1>6, <1>7, <2>1, <2>3, <2>5
    <3>. QED  BY <2>2, <3>1
  <2>6. CASE /\ k + 1 = a /\ k1 = 0 /\ p + 1 = b /\ p1 = 0
             /\ q + 1 < c /\ q1 = q + 1 /\ z1 = z
    <3>1. IF o = z /\ x = p THEN k + 1 = a /\ s1 = q + 1 /\ v1 = 0 ELSE s1 = s /\ v1 = 0 /\ v = 0
        BY <1>6, <1>7, <2>1, <2>3, <2>6
    <3>. QED  BY <2>2, <3>1
  <2>7. CASE /\ k + 1 = a /\ k1 = 0 /\ p + 1 = b /\ p1 = 0
             /\ q + 1 = c /\ q1 = 0 /\ z1 = z + 1
    <3>1. IF o = z /\ x = p THEN k + 1 = a /\ s1 = q + 1 /\ v1 = 0 ELSE s1 = s /\ v1 = 0 /\ v = 0
        BY <1>6, <1>7, <2>1, <2>3, <2>7
    <3>. QED  BY <2>2, <3>1
  <2>. QED  BY <1>7, <2>4, <2>5, <2>6, <2>7 DEF GetOn
<1>. QED  BY <1>2, <1>4, <1>7, <1>8, <1>10

LEMMA ConvolveAdds ==
    ASSUME Widest, Convolved, Conv!Convolve PROVE Convolved'
<1>1. /\ UNCHANGED <<layer, InWidth, conv_turn, conv_pc>> /\ conv_pc = "conv"
      /\ Conv!no < Conv!Oc /\ conv_t' = conv_t + 1
      /\ conv_mem' = [conv_mem EXCEPT ![Conv!Out(Conv!OIdx)] =
            ((IF Conv!ni = 0 /\ Conv!filterWord = 0
              THEN conv_mem[Conv!Bias(Conv!no)] ELSE conv_mem[Conv!Out(Conv!OIdx)])
             + conv_mem[Conv!In(Conv!IIdx)] * conv_mem[Conv!Filter(Conv!WIdx)]) % WORD]
    BY DEF Conv!Convolve
<1>2. /\ DOMAIN conv_mem = 0..((layer.size \div 4) - 1) /\ conv_turn \in Nat
      /\ DOMAIN conv_mem' = 0..((layer.size \div 4) - 1)'
    BY <1>1 DEF Convolved
<1>. SUFFICES ASSUME Room
              PROVE  /\ Loaded' /\ conv_t' \in Nat
                     /\ \A o \in 0..(Conv!Oc - 1), x \in 0..(OutCube - 1) :
                           ChannelsSeen(o, x)' > 0 \/ WordsSeen(o, x)' > 0 =>
                               Summed(o, x, ChannelsSeen(o, x), WordsSeen(o, x))'
    BY <1>1, <1>2, ConvFrame DEF Convolved
<1>3. /\ Loaded /\ conv_t \in Nat
      /\ \A o \in 0..(Conv!Oc - 1), x \in 0..(OutCube - 1) :
            ChannelsSeen(o, x) > 0 \/ WordsSeen(o, x) > 0 =>
                Summed(o, x, ChannelsSeen(o, x), WordsSeen(o, x))
    BY <1>1 DEF Convolved
<1>4. PICK z, p, q, k : z = Conv!no /\ p = Conv!place /\ q = Conv!ni /\ k = Conv!filterWord
    BY Zenon
<1>5. /\ z \in 0..(Conv!Oc - 1) /\ p \in 0..(OutCube - 1)
      /\ q \in 0..(Conv!Ic - 1) /\ k \in 0..(FilterCube - 1)
      /\ \A o \in 0..(Conv!Oc - 1), x \in 0..(OutCube - 1) :
            IF o = z /\ x = p
            THEN \/ ChannelsSeen(o, x)' = q /\ WordsSeen(o, x)' = k + 1
                 \/ k + 1 = FilterCube /\ ChannelsSeen(o, x)' = q + 1 /\ WordsSeen(o, x)' = 0
            ELSE /\ ChannelsSeen(o, x)' = ChannelsSeen(o, x)
                 /\ WordsSeen(o, x)' = 0 /\ WordsSeen(o, x) = 0
    BY <1>1, <1>3, <1>4, SeenNext
<1>6. /\ Conv!Ic \in Nat \ {0} /\ Conv!Oc \in Nat \ {0} /\ WORD \in Nat \ {0}
      /\ OutCube \in Nat \ {0} /\ FilterCube \in Nat \ {0}
    BY <1>1, ConvFacts
<1>7. /\ Conv!Out(Conv!OIdx) = Output(z, p)
      /\ Conv!IIdx = q * InCube + Covered(p, k)
      /\ Conv!WIdx = (z * Conv!Ic + q) * FilterCube + k
  <2>1. Conv!Out(Conv!OIdx) = Output(z, p)
      BY <1>4 DEF Conv!OIdx, Output, OutCube
  <2>2. Conv!IIdx = q * InCube + Covered(p, k)
      BY <1>4, SameTotal DEF Conv!IIdx, Covered, InCube
  <2>3. Conv!WIdx = z * FilterCube * Conv!Ic + q * FilterCube + k
      BY <1>4 DEF Conv!WIdx, FilterCube
  <2>4. z * FilterCube * Conv!Ic + q * FilterCube = (z * Conv!Ic + q) * FilterCube
      BY <1>5, <1>6
  <2>. QED  BY <2>1, <2>2, <2>3, <2>4
<1>8. /\ Terms(z, p, q)[k] \in Nat
      /\ conv_mem[Conv!In(Conv!IIdx)] * conv_mem[Conv!Filter(Conv!WIdx)] = Terms(z, p, q)[k]
  <2>1. /\ Conv!IIdx \in 0..(Conv!InSize - 1) /\ Conv!WIdx \in 0..(Conv!FilterSize - 1)
        /\ Terms(z, p, q)[k] = Conv!FirstIn(Conv!IIdx) * Conv!FirstFilter(Conv!WIdx)
        /\ Terms(z, p, q)[k] \in Nat
      BY <1>1, <1>5, <1>7, TermFacts
  <2>2. /\ conv_mem[Conv!In(Conv!IIdx)] = Conv!FirstIn(Conv!IIdx)
        /\ conv_mem[Conv!Filter(Conv!WIdx)] = Conv!FirstFilter(Conv!WIdx)
      BY <1>3, <2>1 DEF Loaded
  <2>. QED  BY <2>1, <2>2
<1>9. /\ Output(z, p) \in DOMAIN conv_mem
      /\ \A o \in 0..(Conv!Oc - 1), x \in 0..(OutCube - 1) :
            Output(o, x) = Output(z, p) => o = z /\ x = p
      /\ \A w \in 0..(Conv!InSize - 1) : Conv!In(w) # Output(z, p)
      /\ \A w \in 0..(Conv!FilterSize - 1) : Conv!Filter(w) # Output(z, p)
      /\ \A w \in 0..(Conv!Oc - 1) : Conv!Bias(w) # Output(z, p)
    BY <1>1, <1>2, <1>5, Apart
<1>10. \A w : w # Output(z, p) => conv_mem'[w] = conv_mem[w]
  <2>1. \A w \in DOMAIN conv_mem : w # Output(z, p) => conv_mem'[w] = conv_mem[w]
      BY <1>1, <1>7
  <2>. QED  BY <1>1, <1>7
<1>11. Loaded'
    BY <1>1, <1>3, <1>9, <1>10, ConvFrame DEF Loaded
<1>12. PICK s : s = IF q = 0 /\ k = 0 THEN conv_mem[Conv!Bias(z)] ELSE conv_mem[Output(z, p)]
    OBVIOUS
<1>13. conv_mem'[Output(z, p)] = (s + Terms(z, p, q)[k]) % WORD
    BY <1>1, <1>4, <1>7, <1>8, <1>9, <1>12
<1>. DEFINE b == Conv!FirstBias(z)
            cs == Total(Channels(z, p), q)
            ts == Total(Terms(z, p, q), k)
            next1 == Terms(z, p, q)[k]
<1>14. /\ b \in Nat /\ cs \in Nat /\ ts \in Nat
       /\ Total(Terms(z, p, q), k + 1) = ts + next1
       /\ Total(Channels(z, p), 0) = 0 /\ Total(Terms(z, p, q), 0) = 0
    BY <1>1, <1>5, SumFacts
<1>15. (s + next1) % WORD = (b + cs + (ts + next1)) % WORD
  <2>1. CASE q = 0 /\ k = 0
    <3>1. s = b
        BY <1>3, <1>5, <1>12, <2>1 DEF Loaded
    <3>2. cs = 0 /\ ts = 0
        BY <1>14, <2>1
    <3>. HIDE DEF b, cs, ts, next1
    <3>3. b + cs + (ts + next1) = s + next1
        BY <1>8, <1>14, <3>1, <3>2 DEF next1
    <3>. QED  BY <3>3
  <2>2. CASE ~(q = 0 /\ k = 0)
    <3>1. ChannelsSeen(z, p) = q /\ WordsSeen(z, p) = k
        BY <1>4, <1>5, <1>6 DEF ChannelsSeen, WordsSeen
    <3>2. q > 0 \/ k > 0
        BY <1>5, <2>2
    <3>3. Summed(z, p, q, k)
        BY <1>3, <1>5, <3>1, <3>2
    <3>4. s = (b + cs + ts) % WORD
        BY <1>12, <2>2, <3>3 DEF Summed
    <3>5. next1 \in Int
        BY <1>8
    <3>. HIDE DEF b, cs, ts, next1
    <3>6. b + cs + ts \in Int
        BY <1>14
    <3>7. (((b + cs + ts) % WORD) + next1) % WORD = ((b + cs + ts) + next1) % WORD
        BY <1>6, <3>5, <3>6, ModAdd, Zenon
    <3>8. (b + cs + ts) + next1 = b + cs + (ts + next1)
        BY <1>14, <3>5
    <3>. QED  BY <3>4, <3>7, <3>8
  <2>. QED  BY <2>1, <2>2
<1>16. Summed(z, p, q, k + 1)'
  <2>1. conv_mem'[Output(z, p)] = (b + cs + Total(Terms(z, p, q), k + 1)) % WORD
      BY <1>13, <1>14, <1>15
  <2>. QED  BY <1>1, <2>1, ConvFrame DEF Summed
<1>17. k + 1 = FilterCube => Summed(z, p, q + 1, 0)'
  <2>. SUFFICES ASSUME k + 1 = FilterCube PROVE Summed(z, p, q + 1, 0)'
      OBVIOUS
  <2>1. cs + Total(Terms(z, p, q), FilterCube) = Total(Channels(z, p), q + 1)
        /\ Total(Terms(z, p, q), FilterCube) \in Nat /\ Total(Terms(z, p, q + 1), 0) = 0
      BY <1>1, <1>5, SumFacts
  <2>2. b + cs + Total(Terms(z, p, q), FilterCube) =
            b + Total(Channels(z, p), q + 1) + Total(Terms(z, p, q + 1), 0)
    <3>. HIDE DEF b, cs
    <3>. QED  BY <1>14, <2>1
  <2>3. conv_mem'[Output(z, p)] = (b + cs + Total(Terms(z, p, q), k + 1)) % WORD
      BY <1>13, <1>14, <1>15
  <2>4. conv_mem'[Output(z, p)] =
            (b + Total(Channels(z, p), q + 1) + Total(Terms(z, p, q + 1), 0)) % WORD
    <3>. HIDE DEF b, cs
    <3>. QED  BY <2>2, <2>3
  <2>. QED  BY <1>1, <2>4, ConvFrame DEF Summed
<1>18. ASSUME NEW o \in 0..(Conv!Oc - 1), NEW x \in 0..(OutCube - 1),
              ChannelsSeen(o, x)' > 0 \/ WordsSeen(o, x)' > 0
       PROVE  Summed(o, x, ChannelsSeen(o, x), WordsSeen(o, x))'
  <2>1. CASE o = z /\ x = p
    <3>1. \/ ChannelsSeen(o, x)' = q /\ WordsSeen(o, x)' = k + 1
          \/ k + 1 = FilterCube /\ ChannelsSeen(o, x)' = q + 1 /\ WordsSeen(o, x)' = 0
        BY <1>5, <2>1
    <3>. QED  BY <1>16, <1>17, <2>1, <3>1 DEF Summed
  <2>2. CASE ~(o = z /\ x = p)
    <3>1. /\ ChannelsSeen(o, x)' = ChannelsSeen(o, x)
          /\ WordsSeen(o, x)' = 0 /\ WordsSeen(o, x) = 0
        BY <1>5, <2>2
    <3>2. Summed(o, x, ChannelsSeen(o, x), WordsSeen(o, x))
        BY <1>3, <1>18, <3>1
    <3>3. conv_mem'[Output(o, x)] = conv_mem[Output(o, x)]
        BY <1>9, <1>10, <2>2
    <3>. QED  BY <1>1, <3>1, <3>2, <3>3, ConvFrame DEF Summed
  <2>. QED  BY <2>1, <2>2
<1>. QED  BY <1>1, <1>3, <1>11, <1>18

LEMMA ConvolvedInit == MainInit => Convolved
<1>. SUFFICES ASSUME MainInit PROVE Convolved
    OBVIOUS
<1>1. conv_pc = "size" /\ conv_turn = 0 /\ conv_mem = [w \in 0..((layer.size \div 4) - 1) |-> 0]
    BY DEF MainInit, Conv!Init, Conv!SIZEOF
<1>. QED  BY <1>1 DEF Convolved

LEMMA ConvolvedStep == Widest /\ Convolved /\ [MainNext]_mainVars => Convolved'
<1>. SUFFICES ASSUME Widest, Convolved, [MainNext]_mainVars PROVE Convolved'
    OBVIOUS
<1>1. CASE Conv!Grow \/ Conv!Scale
  <2>1. /\ UNCHANGED <<layer, conv_mem, conv_turn>> /\ conv_pc = "size"
        /\ conv_pc' \in {"size", "fill"}
      BY <1>1 DEF Conv!Grow, Conv!Scale
  <2>. QED  BY <2>1 DEF Convolved
<1>2. CASE UNCHANGED convVars
  <2>1. UNCHANGED <<layer, InWidth, conv_mem, conv_turn, conv_pc, conv_t>>
      BY <1>2 DEF convVars
  <2>2. /\ Conv!no' = Conv!no /\ Conv!ni' = Conv!ni
        /\ Conv!place' = Conv!place /\ Conv!filterWord' = Conv!filterWord
    <3>1. FilterCube' = FilterCube /\ OutCube' = OutCube /\ Conv!Ic' = Conv!Ic
        BY <2>1, ConvFrame
    <3>. QED  BY <2>1, <3>1 DEF Conv!filterWord, Conv!place, Conv!ni, Conv!no, FilterCube, OutCube
  <2>3. /\ Room' = Room /\ Conv!Ic' = Conv!Ic /\ Conv!Oc' = Conv!Oc /\ OutCube' = OutCube
        /\ (Loaded' <=> Loaded)
        /\ \A o, x : /\ ChannelsSeen(o, x)' = ChannelsSeen(o, x)
                     /\ WordsSeen(o, x)' = WordsSeen(o, x)
        /\ \A o, x, c, k : Summed(o, x, c, k)' <=> Summed(o, x, c, k)
      BY <2>1, <2>2, ConvFrame DEF Loaded, ChannelsSeen, WordsSeen, Summed
  <2>4. \A o, x : Summed(o, x, ChannelsSeen(o, x), WordsSeen(o, x))'
                      <=> Summed(o, x, ChannelsSeen(o, x), WordsSeen(o, x))
      BY <2>1, <2>3, ConvFrame DEF Summed
  <2>. QED  BY <2>1, <2>3, <2>4 DEF Convolved
<1>3. Conv!ConvInit \/ Conv!ConvTurn \/ UNCHANGED convVars
    BY DEF MainNext, mainVars, ListInit, MatrixInit, ConvInit, RunList, RunMatrix, RunConv
<1>. QED  BY <1>1, <1>2, <1>3, FillLoads, BeginConvolved, ConvolveAdds, EndConvolved
     DEF Conv!ConvInit, Conv!ConvTurn

(* After every turn each output is its bias plus the products of the filter  *)
(* with the input it covers, summed over the channels, modulo the word: for  *)
(* every layer with room for an input as wide as the filter, in one, two and *)
(* three dimensions, and every number of channels and turns.                 *)
THEOREM ConvolutionIsRight == Main => []ConvRight
<1>1. Widest /\ Convolved => ConvRight
  <2>. SUFFICES ASSUME Widest, Convolved, conv_pc = "ready", conv_turn > 0, Room PROVE ConvRight
      BY DEF ConvRight, Conv!ConvRight, Room, Conv!K
  <2>1. ASSUME NEW o \in 0..(Conv!Oc - 1), NEW x \in 0..(OutCube - 1)
        PROVE  conv_mem[Conv!Out(o * OutCube + x)] =
                   (Conv!FirstBias(o) + Total(Channels(o, x), Conv!Ic)) % WORD
    <3>1. Summed(o, x, Conv!Ic, 0)
        BY DEF Convolved
    <3>2. Total(Terms(o, x, Conv!Ic), 0) = 0
        BY TotalStep
    <3>3. Conv!FirstBias(o) + Total(Channels(o, x), Conv!Ic) \in Nat
      <4>1. Conv!Ic - 1 \in 0..(Conv!Ic - 1) /\ (Conv!Ic - 1) + 1 = Conv!Ic
          BY ConvFacts
      <4>2. /\ Conv!FirstBias(o) \in Nat
            /\ Total(Channels(o, x), Conv!Ic - 1) \in Nat
            /\ Total(Terms(o, x, Conv!Ic - 1), FilterCube) \in Nat
            /\ Total(Channels(o, x), Conv!Ic) =
                  Total(Channels(o, x), Conv!Ic - 1) + Total(Terms(o, x, Conv!Ic - 1), FilterCube)
        <5>. DEFINE c == Conv!Ic - 1
        <5>1. c \in 0..(Conv!Ic - 1) /\ c + 1 = Conv!Ic
            BY <4>1
        <5>. HIDE DEF c
        <5>2. /\ Conv!FirstBias(o) \in Nat
              /\ Total(Channels(o, x), c) \in Nat
              /\ Total(Terms(o, x, c), FilterCube) \in Nat
              /\ Total(Channels(o, x), c + 1) =
                    Total(Channels(o, x), c) + Total(Terms(o, x, c), FilterCube)
            BY <5>1, SumFacts
        <5>. QED  BY <5>1, <5>2 DEF c
      <4>. QED  BY <4>2
    <3>. QED  BY <3>1, <3>2, <3>3 DEF Summed, Output
  <2>2. \A x, c, k, o :
            /\ Corner(x) = Conv!Total([d \in 0..(Conv!D - 1) |->
                   Conv!S * Conv!Coord(x, Conv!OutWidth, d) * Conv!Cube(InWidth, d)], Conv!D)
            /\ Offset(k) = Conv!Total([d \in 0..(Conv!D - 1) |->
                   Conv!Coord(k, Conv!K, d) * Conv!Cube(InWidth, d)], Conv!D)
      BY SameTotal DEF Corner, Offset
  <2>3. \A o, x : Channels(o, x) =
            [c \in 0..(Conv!Ic - 1) |->
                Conv!Total([k \in 0..(FilterCube - 1) |->
                    Conv!FirstIn(c * InCube + Corner(x) + Offset(k))
                        * Conv!FirstFilter((o * Conv!Ic + c) * FilterCube + k)], FilterCube)]
      BY SameTotal DEF Channels, Terms
  <2>. QED  BY ZenonT(60), <2>1, <2>2, <2>3, SameTotal
       DEF ConvRight, Conv!ConvRight, InCube, OutCube, FilterCube
<1>. QED  BY <1>1, WidestInit, WidestStep, ConvolvedInit, ConvolvedStep, PTL DEF Main
====
