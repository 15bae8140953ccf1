---- MODULE Sums ----
(* What the matrix operations and the convolution are to compute is stated   *)
(* with sums, and so is the index of a word in a cube.                       *)
EXTENDS Integers

(* f[0] + ... + f[n - 1] *)
Total(f, n) ==
    LET sum[k \in Nat] == IF k = 0 THEN 0 ELSE sum[k - 1] + f[k - 1]
    IN  sum[n]
====
