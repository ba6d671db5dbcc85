---------------------------- MODULE KernelProofs ----------------------------
(***************************************************************************)
(* Proofs about the three kernels of src/jit/compiler.cpp: the threshold   *)
(* comparison (ThresholdKernel), the bit-sliced expression                 *)
(* (BitSlicedKernel) and the scalar expression (ScalarKernel), for every   *)
(* tree, every column and every width of a word.                           *)
(*                                                                         *)
(* The kernels are built from recursive functions: numbers from bits, a    *)
(* tree's post-order, the values of its nodes.  The module first proves    *)
(* induction from the well-foundedness of < on Nat and that a function     *)
(* defined by recursion over 0 .. N exists, then what those functions are, *)
(* then the invariants of the kernels.                                     *)
(***************************************************************************)
EXTENDS ThresholdKernel, BitSlicedKernel, ScalarKernel, FiniteSetTheorems,
        WellFoundedInduction, TLAPS

\* Induction over the naturals, the induction hypothesis being a set.
LEMMA Induction ==
    ASSUME NEW T, 0 \in T, \A n \in Nat : n \in T => n + 1 \in T
    PROVE  Nat \subseteq T
  <1> DEFINE R == OpToRel(<, Nat)
             M == Nat \ T
  <1>1. IsWellFoundedOn(R, Nat)
    BY NatLessThanWellFounded
  <1>2. \A x, y \in Nat : x < y => <<x, y>> \in R
    BY DEF OpToRel
  <1> HIDE DEF R
  <1>3. SUFFICES ASSUME M # {} PROVE FALSE
    OBVIOUS
  <1>4. PICK m \in M : \A n \in M : ~ (<<n, m>> \in R)
    BY <1>1, <1>3, WFMin, Zenon
  <1>5. m \in Nat /\ m # 0
    OBVIOUS
  <1>6. m - 1 \in Nat /\ m - 1 < m /\ m - 1 + 1 = m
    BY <1>5
  <1>7. m - 1 \in M
    BY <1>5, <1>6
  <1>8. <<m - 1, m>> \in R
    BY <1>2, <1>5, <1>6
  <1> QED
    BY <1>4, <1>7, <1>8

\* The same up to a bound.
LEMMA BoundedInduction ==
    ASSUME NEW N \in Nat, NEW T, 0 \in T,
           \A n \in 1 .. N : n - 1 \in T => n \in T
    PROVE  0 .. N \subseteq T
  <1> DEFINE U == T \cup {n \in Nat : n > N}
  <1>1. 0 \in U
    OBVIOUS
  <1>2. \A n \in Nat : n \in U => n + 1 \in U
    <2> SUFFICES ASSUME NEW n \in Nat, n \in U PROVE n + 1 \in U
      OBVIOUS
    <2>1. CASE n < N
      <3>1. n + 1 \in 1 .. N /\ n + 1 - 1 = n /\ n \in T
        BY <2>1
      <3> QED
        BY <3>1
    <2>2. CASE ~(n < N)
      BY <2>2
    <2> QED
      BY <2>1, <2>2
  <1> HIDE DEF U
  <1>3. Nat \subseteq U
    BY <1>1, <1>2, Induction
  <1> QED
    BY <1>3 DEF U

\* Each number up to N is in T if those below it are.
LEMMA StrongInduction ==
    ASSUME NEW N \in Nat, NEW T,
           \A n \in 0 .. N : (\A m \in 0 .. n - 1 : m \in T) => n \in T
    PROVE  0 .. N \subseteq T
  <1> DEFINE U == {n \in 0 .. N : \A m \in 0 .. n : m \in T}
  <1>1. 0 \in U
    BY 0 \in 0 .. N
  <1>2. \A n \in 1 .. N : n - 1 \in U => n \in U
    <2> SUFFICES ASSUME NEW n \in 1 .. N, n - 1 \in U PROVE n \in U
      OBVIOUS
    <2>1. n \in 0 .. N /\ \A m \in 0 .. n - 1 : m \in T
      OBVIOUS
    <2>2. \A m \in 0 .. n : m \in 0 .. n - 1 \/ m = n
      OBVIOUS
    <2> QED
      BY <2>1, <2>2
  <1> HIDE DEF U
  <1>3. 0 .. N \subseteq U
    BY <1>1, <1>2, BoundedInduction
  <1>4. \A n \in 0 .. N : n \in 0 .. n
    OBVIOUS
  <1> QED
    BY <1>3, <1>4 DEF U

\* step[n] takes a function on 0 .. n - 1 to its value at n.
IsStep(step, N, S) ==
    \A n \in 1 .. N : \A f \in [0 .. n - 1 -> S] : step[n][f] \in S

Upto(f, n) == [m \in 0 .. n |-> f[m]]

IsRecursive(f, N, S, a, step) ==
    /\ f \in [0 .. N -> S]
    /\ f[0] = a
    /\ \A n \in 1 .. N : f[n] = step[n][Upto(f, n - 1)]

\* A function defined by recursion over 0 .. N exists, whichever of its
\* earlier values a step looks at.
LEMMA Recursion ==
    ASSUME NEW N \in Nat, NEW S, NEW a \in S, NEW step,
           IsStep(step, N, S)
    PROVE  \E f : IsRecursive(f, N, S, a, step)
  <1> DEFINE Begun(n) == \E f : IsRecursive(f, n, S, a, step)
             T == {n \in 0 .. N : Begun(n)}
  <1>1. 0 \in T
    <2>1. IsRecursive([i \in 0 .. 0 |-> a], 0, S, a, step)
      BY DEF IsRecursive
    <2> QED
      BY <2>1
  <1>2. ASSUME NEW n \in 1 .. N, n - 1 \in T PROVE n \in T
    <2>1. PICK f : IsRecursive(f, n - 1, S, a, step)
      BY <1>2
    <2> DEFINE v == step[n][Upto(f, n - 1)]
               g == [i \in 0 .. n |-> IF i = n THEN v ELSE f[i]]
    <2>2. f \in [0 .. n - 1 -> S] /\ f[0] = a
      BY <2>1 DEF IsRecursive
    <2>3. v \in S
      BY <2>2 DEF IsStep, Upto
    <2> HIDE DEF v
    <2>4. g \in [0 .. n -> S] /\ g[0] = a
      BY <2>2, <2>3
    <2>5. ASSUME NEW m \in 1 .. n PROVE g[m] = step[m][Upto(g, m - 1)]
      <3>1. Upto(g, m - 1) = Upto(f, m - 1)
        BY DEF Upto
      <3>2. CASE m = n
        BY <3>1, <3>2 DEF v
      <3>3. CASE m # n
        <4>1. m \in 1 .. n - 1 /\ g[m] = f[m]
          BY <3>3
        <4> QED
          BY <2>1, <3>1, <4>1 DEF IsRecursive
      <3> QED
        BY <3>2, <3>3
    <2>6. IsRecursive(g, n, S, a, step)
      <3> HIDE DEF g
      <3> QED
        BY <2>4, <2>5 DEF IsRecursive
    <2> QED
      BY <2>6
  <1> HIDE DEF Begun
  <1>3. \A n \in 1 .. N : n - 1 \in T => n \in T
    BY <1>2
  <1> HIDE DEF T
  <1>4. N \in T
    BY <1>1, <1>3, BoundedInduction
  <1> QED
    BY <1>4 DEF T, Begun

\* Quotient and remainder are what a sum splits into.
LEMMA DivModUnique ==
    ASSUME NEW d \in Nat \ {0}, NEW q \in Int, NEW r \in 0 .. d - 1
    PROVE  (d * q + r) \div d = q /\ (d * q + r) % d = r
  OBVIOUS

\* The lowest bit of the quotient is the next bit of the remainder.
LEMMA ModDouble ==
    ASSUME NEW d \in Nat \ {0}, NEW v \in Int
    PROVE  v % (2 * d) = (v % d) + d * ((v \div d) % 2)
  <1> DEFINE q == v \div d
             r == v % d
             h == q \div 2
             s == q % 2
  <1>1. v = d * q + r /\ q \in Int /\ r \in 0 .. d - 1
    OBVIOUS
  <1>2. q = 2 * h + s /\ h \in Int /\ s \in 0 .. 1
    BY <1>1
  <1> HIDE DEF q, r, h, s
  <1>3. v = 2 * d * h + (d * s + r)
    BY <1>1, <1>2
  <1>4. d * s + r \in 0 .. 2 * d - 1
    <2>1. s = 0 \/ s = 1
      BY <1>2
    <2> QED
      BY <1>1, <2>1
  <1>5. 2 * d \in Nat \ {0}
    OBVIOUS
  <1>6. v = (2 * d) * h + (d * s + r)
    BY <1>3
  <1>7. v % (2 * d) = d * s + r
    BY <1>2, <1>4, <1>5, <1>6, DivModUnique
  <1> QED
    BY <1>1, <1>2, <1>7 DEF q, r, s

\* f[m] is 2^m, up to n.
Doubles(f, n) ==
    /\ f \in [0 .. n -> Nat \ {0}]
    /\ f[0] = 1
    /\ \A m \in 1 .. n : f[m] = 2 * f[m - 1]

LEMMA DoublesExist == \A n \in Nat : \E f : Doubles(f, n)
  <1> DEFINE T == {n \in Nat : \E f : Doubles(f, n)}
  <1>1. 0 \in T
    <2>1. Doubles([m \in 0 .. 0 |-> 1], 0)
      BY DEF Doubles
    <2> QED
      BY <2>1
  <1>2. ASSUME NEW n \in Nat, n \in T PROVE n + 1 \in T
    <2>1. PICK f : Doubles(f, n)
      BY <1>2
    <2> DEFINE g == [m \in 0 .. n + 1 |->
                        IF m = n + 1 THEN 2 * f[n] ELSE f[m]]
    <2>2. g \in [0 .. n + 1 -> Nat \ {0}] /\ g[0] = 1
      BY <2>1 DEF Doubles
    <2>3. ASSUME NEW m \in 1 .. n + 1 PROVE g[m] = 2 * g[m - 1]
      <3>1. g[m - 1] = f[m - 1]
        OBVIOUS
      <3>2. CASE m = n + 1
        BY <3>1, <3>2
      <3>3. CASE m # n + 1
        <4>1. m \in 1 .. n /\ g[m] = f[m]
          BY <3>3
        <4> QED
          BY <2>1, <3>1, <4>1 DEF Doubles
      <3> QED
        BY <3>2, <3>3
    <2>4. Doubles(g, n + 1)
      <3> HIDE DEF g
      <3> QED
        BY <2>2, <2>3 DEF Doubles
    <2> QED
      BY <2>4
  <1> HIDE DEF T
  <1>3. Nat \subseteq T
    BY <1>1, <1>2, Induction
  <1> QED
    BY <1>3 DEF T

LEMMA DoublesAgree ==
    ASSUME NEW n \in Nat, NEW f, Doubles(f, n), NEW g, Doubles(g, n + 1)
    PROVE  \A m \in 0 .. n : f[m] = g[m]
  <1> DEFINE T == {m \in 0 .. n : f[m] = g[m]}
  <1>1. 0 \in T
    BY DEF Doubles
  <1>2. ASSUME NEW m \in 1 .. n, m - 1 \in T PROVE m \in T
    <2>1. m \in 1 .. n + 1 /\ f[m - 1] = g[m - 1]
      BY <1>2
    <2>2. f[m] = 2 * f[m - 1] /\ g[m] = 2 * g[m - 1]
      BY <2>1 DEF Doubles
    <2> QED
      BY <2>1, <2>2
  <1> HIDE DEF T
  <1>3. 0 .. n \subseteq T
    BY <1>1, <1>2, BoundedInduction
  <1> QED
    BY <1>3 DEF T

\* The powers of two.
LEMMA Powers ==
    /\ Power2[0] = 1
    /\ \A n \in Nat : Power2[n] \in Nat \ {0} /\ Power2[n + 1] = 2 * Power2[n]
  <1> DEFINE F(n) == CHOOSE f : Doubles(f, n)
             p == [n \in Nat |-> F(n)[n]]
  <1>1. \A n \in Nat : Doubles(F(n), n)
    BY DoublesExist
  <1> HIDE DEF F
  <1>2. p[0] = 1
    BY <1>1 DEF Doubles
  <1>3. ASSUME NEW n \in Nat
        PROVE  p[n] \in Nat \ {0} /\ p[n + 1] = 2 * p[n]
    <2>1. Doubles(F(n), n) /\ Doubles(F(n + 1), n + 1)
      BY <1>1
    <2>2. F(n)[n] \in Nat \ {0}
      BY <2>1 DEF Doubles
    <2>3. F(n)[n] = F(n + 1)[n]
      BY <2>1, DoublesAgree, n \in 0 .. n
    <2>4. n + 1 \in 1 .. n + 1 /\ n + 1 - 1 = n
      OBVIOUS
    <2>5. F(n + 1)[n + 1] = 2 * F(n + 1)[n]
      BY <2>1, <2>4 DEF Doubles
    <2> QED
      BY <2>2, <2>3, <2>5
  <1>4. p = [n \in Nat |-> IF n = 0 THEN 1 ELSE 2 * p[n - 1]]
    <2>1. \A n \in Nat : p[n] = IF n = 0 THEN 1 ELSE 2 * p[n - 1]
      <3> HIDE DEF p
      <3> TAKE n \in Nat
      <3>1. CASE n = 0
        BY <1>2, <3>1
      <3>2. CASE n # 0
        <4>1. n - 1 \in Nat /\ n - 1 + 1 = n
          BY <3>2
        <4> QED
          BY <1>3, <3>2, <4>1
      <3> QED
        BY <3>1, <3>2
    <2>2. p = [n \in Nat |-> p[n]]
      OBVIOUS
    <2> HIDE DEF p
    <2> QED
      BY <2>1, <2>2
  <1> HIDE DEF p
  <1> DEFINE q == CHOOSE q : q = [n \in Nat |-> IF n = 0 THEN 1 ELSE 2 * q[n - 1]]
  <1>5. q = [n \in Nat |-> IF n = 0 THEN 1 ELSE 2 * q[n - 1]]
    BY <1>4, Zenon
  <1>6. Power2 = q
    BY DEF Power2
  <1> HIDE DEF q
  <1>7. q[0] = 1 /\ \A n \in Nat : q[n + 1] = 2 * q[n]
    <2>1. q[0] = 1
      BY <1>5
    <2>2. ASSUME NEW n \in Nat PROVE q[n + 1] = 2 * q[n]
      <3>1. n + 1 \in Nat /\ n + 1 # 0 /\ n + 1 - 1 = n
        OBVIOUS
      <3> QED
        BY <1>5, <3>1
    <2> QED
      BY <2>1, <2>2
  <1> DEFINE T == {n \in Nat : q[n] \in Nat \ {0}}
  <1>8. 0 \in T
    BY <1>7
  <1>9. \A n \in Nat : n \in T => n + 1 \in T
    BY <1>7
  <1> HIDE DEF T
  <1>10. Nat \subseteq T
    BY <1>8, <1>9, Induction
  <1> QED
    BY <1>6, <1>7, <1>10 DEF T

-----------------------------------------------------------------------------
(* Bits and numbers.                                                       *)

\* The recursion of Lowest, and its bound.
LEMMA LowestIs ==
    ASSUME NEW S
    PROVE  /\ Lowest(S) \in [0 .. W -> Nat]
           /\ Lowest(S)[0] = 0
           /\ \A n \in 1 .. W : Lowest(S)[n] = Lowest(S)[n - 1]
                  + IF n - 1 \in S THEN Power2[n - 1] ELSE 0
           /\ \A n \in 0 .. W : Lowest(S)[n] < Power2[n]
  <1> DEFINE addend(n) == IF n - 1 \in S THEN Power2[n - 1] ELSE 0
             step == [n \in 1 .. W |->
                        [f \in [0 .. n - 1 -> Nat] |-> f[n - 1] + addend(n)]]
             v == CHOOSE v : v = [n \in 0 .. W |->
                     IF n = 0 THEN 0
                     ELSE v[n - 1] + IF n - 1 \in S THEN Power2[n - 1] ELSE 0]
  <1>1. W \in Nat /\ 0 \in Nat
    BY WAssumption
  <1>2. \A n \in 1 .. W : addend(n) \in Nat /\ addend(n) <= Power2[n - 1]
    <2> TAKE n \in 1 .. W
    <2>1. n - 1 \in Nat
      OBVIOUS
    <2>2. Power2[n - 1] \in Nat
      BY <2>1, Powers
    <2> QED
      BY <2>2
  <1>3. \A n \in 1 .. W : \A f \in [0 .. n - 1 -> Nat] :
            step[n][f] = f[n - 1] + addend(n)
    OBVIOUS
  <1> HIDE DEF step, addend
  <1>4. IsStep(step, W, Nat)
    BY <1>2, <1>3 DEF IsStep
  <1>5. PICK f : IsRecursive(f, W, Nat, 0, step)
    BY <1>1, <1>4, Recursion
  <1>6. \A n \in 1 .. W : f[n] = f[n - 1] + addend(n)
    <2> TAKE n \in 1 .. W
    <2> DEFINE g == Upto(f, n - 1)
    <2>1. f \in [0 .. W -> Nat] /\ n - 1 \in 0 .. n - 1
      BY <1>5 DEF IsRecursive
    <2>2. g \in [0 .. n - 1 -> Nat] /\ g[n - 1] = f[n - 1]
      BY <1>1, <2>1 DEF Upto
    <2>3. f[n] = step[n][g]
      BY <1>5 DEF IsRecursive
    <2> HIDE DEF g
    <2> QED
      BY <1>3, <2>2, <2>3
  <1>7. f = [n \in 0 .. W |-> IF n = 0 THEN 0 ELSE f[n - 1] + addend(n)]
    <2>1. \A n \in 0 .. W : n = 0 \/ n \in 1 .. W
      BY <1>1
    <2>2. \A n \in 0 .. W : f[n] = IF n = 0 THEN 0 ELSE f[n - 1] + addend(n)
      BY <1>5, <1>6, <2>1, Zenon DEF IsRecursive
    <2>3. f = [n \in 0 .. W |-> f[n]]
      BY <1>5 DEF IsRecursive
    <2> QED
      BY <2>2, <2>3
  <1>8. v = [n \in 0 .. W |-> IF n = 0 THEN 0 ELSE v[n - 1] + addend(n)]
    BY <1>7, Zenon DEF addend
  <1>9. Lowest(S) = v
    BY DEF Lowest
  <1> HIDE DEF v
  <1>10. v[0] = 0 /\ \A n \in 1 .. W : v[n] = v[n - 1] + addend(n)
    <2>1. v[0] = 0
      BY <1>1, <1>8
    <2>2. ASSUME NEW n \in 1 .. W PROVE v[n] = v[n - 1] + addend(n)
      <3>1. n \in 0 .. W /\ n # 0
        BY <1>1
      <3> QED
        BY <1>8, <3>1
    <2> QED
      BY <2>1, <2>2
  <1> DEFINE T == {n \in 0 .. W : v[n] \in Nat /\ v[n] < Power2[n]}
  <1>11. 0 \in T
    BY <1>1, <1>10, Powers
  <1>12. ASSUME NEW n \in 1 .. W, n - 1 \in T PROVE n \in T
    <2>1. n - 1 \in Nat /\ n - 1 + 1 = n
      OBVIOUS
    <2>2. Power2[n] = 2 * Power2[n - 1] /\ Power2[n - 1] \in Nat
      BY <2>1, Powers
    <2> QED
      BY <1>2, <1>10, <1>12, <2>2
  <1> HIDE DEF T
  <1>13. 0 .. W \subseteq T
    BY <1>1, <1>11, <1>12, BoundedInduction
  <1>14. \A n \in 0 .. W : v[n] \in Nat /\ v[n] < Power2[n]
    BY <1>13 DEF T
  <1>15. v = [n \in 0 .. W |-> v[n]]
    BY <1>8
  <1>16. v \in [0 .. W -> Nat]
    BY <1>14, <1>15
  <1> QED
    BY <1>9, <1>10, <1>14, <1>16 DEF addend

\* The recursion of Highest.
LEMMA HighestIs ==
    ASSUME NEW S
    PROVE  /\ Highest(S) \in [0 .. W -> Nat]
           /\ Highest(S)[0] = 0
           /\ \A n \in 1 .. W :
                  Highest(S)[n] = 2 * Highest(S)[n - 1] + Truth(W - n \in S)
  <1> DEFINE addend(n) == Truth(W - n \in S)
             step == [n \in 1 .. W |->
                        [f \in [0 .. n - 1 -> Nat] |-> 2 * f[n - 1] + addend(n)]]
             v == CHOOSE v : v = [n \in 0 .. W |->
                     IF n = 0 THEN 0 ELSE 2 * v[n - 1] + Truth(W - n \in S)]
  <1>1. W \in Nat /\ 0 \in Nat
    BY WAssumption
  <1>2. \A n \in 1 .. W : addend(n) \in Nat
    BY DEF Truth
  <1>3. \A n \in 1 .. W : \A f \in [0 .. n - 1 -> Nat] :
            step[n][f] = 2 * f[n - 1] + addend(n)
    OBVIOUS
  <1> HIDE DEF step, addend
  <1>4. IsStep(step, W, Nat)
    BY <1>2, <1>3 DEF IsStep
  <1>5. PICK f : IsRecursive(f, W, Nat, 0, step)
    BY <1>1, <1>4, Recursion
  <1>6. \A n \in 1 .. W : f[n] = 2 * f[n - 1] + addend(n)
    <2> TAKE n \in 1 .. W
    <2> DEFINE g == Upto(f, n - 1)
    <2>1. f \in [0 .. W -> Nat] /\ n - 1 \in 0 .. n - 1
      BY <1>5 DEF IsRecursive
    <2>2. g \in [0 .. n - 1 -> Nat] /\ g[n - 1] = f[n - 1]
      BY <1>1, <2>1 DEF Upto
    <2>3. f[n] = step[n][g]
      BY <1>5 DEF IsRecursive
    <2> HIDE DEF g
    <2> QED
      BY <1>3, <2>2, <2>3
  <1>7. f = [n \in 0 .. W |-> IF n = 0 THEN 0 ELSE 2 * f[n - 1] + addend(n)]
    <2>1. \A n \in 0 .. W : n = 0 \/ n \in 1 .. W
      BY <1>1
    <2>2. \A n \in 0 .. W : f[n] = IF n = 0 THEN 0 ELSE 2 * f[n - 1] + addend(n)
      BY <1>5, <1>6, <2>1, Zenon DEF IsRecursive
    <2>3. f = [n \in 0 .. W |-> f[n]]
      BY <1>5 DEF IsRecursive
    <2> QED
      BY <2>2, <2>3
  <1>8. v = [n \in 0 .. W |-> IF n = 0 THEN 0 ELSE 2 * v[n - 1] + addend(n)]
    BY <1>7, Zenon DEF addend
  <1>9. Highest(S) = v
    BY DEF Highest
  <1> HIDE DEF v
  <1>10. v[0] = 0 /\ \A n \in 1 .. W : v[n] = 2 * v[n - 1] + addend(n)
    <2>1. v[0] = 0
      BY <1>1, <1>8
    <2>2. ASSUME NEW n \in 1 .. W PROVE v[n] = 2 * v[n - 1] + addend(n)
      <3>1. n \in 0 .. W /\ n # 0
        BY <1>1
      <3> QED
        BY <1>8, <3>1
    <2> QED
      BY <2>1, <2>2
  <1> DEFINE T == {n \in 0 .. W : v[n] \in Nat}
  <1>11. 0 \in T
    BY <1>1, <1>10
  <1>12. ASSUME NEW n \in 1 .. W, n - 1 \in T PROVE n \in T
    BY <1>2, <1>10, <1>12
  <1> HIDE DEF T
  <1>13. 0 .. W \subseteq T
    BY <1>1, <1>11, <1>12, BoundedInduction
  <1>14. \A n \in 0 .. W : v[n] \in Nat
    BY <1>13 DEF T
  <1>15. v = [n \in 0 .. W |-> v[n]]
    BY <1>8
  <1>16. v \in [0 .. W -> Nat]
    BY <1>14, <1>15
  <1> QED
    BY <1>9, <1>10, <1>16 DEF addend

\* A word is its highest n bits followed by the others.
LEMMA HighLow ==
    ASSUME NEW S
    PROVE  \A n \in 0 .. W :
               Highest(S)[n] * Power2[W - n] + Lowest(S)[W - n] = WordOf(S)
  <1> DEFINE H(n) == Highest(S)[n]
             L(n) == Lowest(S)[n]
             T == {n \in 0 .. W : H(n) * Power2[W - n] + L(W - n) = WordOf(S)}
  <1>1. W \in Nat
    BY WAssumption
  <1>2. 0 \in T
    <2>1. Power2[W] \in Nat /\ L(W) \in Nat /\ H(0) = 0
      <3>1. Highest(S)[0] = 0 /\ Lowest(S) \in [0 .. W -> Nat]
        BY LowestIs, HighestIs
      <3>2. W \in 0 .. W
        BY <1>1
      <3>3. Lowest(S)[W] \in Nat
        BY <3>1, <3>2
      <3>4. Power2[W] \in Nat
        BY <1>1, Powers
      <3> QED
        BY <3>1, <3>3, <3>4
    <2> QED
      BY <1>1, <2>1 DEF WordOf
  <1>3. ASSUME NEW n \in 1 .. W, n - 1 \in T PROVE n \in T
    <2> DEFINE p == Power2[W - n]
               s == Truth(W - n \in S)
    <2>1. /\ n \in 0 .. W /\ n - 1 \in 0 .. W
          /\ W - n \in Nat /\ W - n + 1 = W - (n - 1)
          /\ W - (n - 1) \in 1 .. W /\ W - (n - 1) - 1 = W - n
      BY <1>1
    <2>2. p \in Nat /\ Power2[W - (n - 1)] = 2 * p
      BY <2>1, Powers
    <2>3. H(n) = 2 * H(n - 1) + s
      BY HighestIs
    <2>4. L(W - (n - 1)) = L(W - n) + IF W - n \in S THEN p ELSE 0
      BY <2>1, LowestIs
    <2>5. H(n - 1) \in Nat /\ L(W - n) \in Nat
      <3>1. W - n \in 0 .. W
        BY <1>1
      <3>2. Highest(S) \in [0 .. W -> Nat] /\ Lowest(S) \in [0 .. W -> Nat]
        BY LowestIs, HighestIs
      <3> QED
        BY <2>1, <3>1, <3>2
    <2>6. H(n - 1) * (2 * p) + L(W - (n - 1)) = WordOf(S)
      BY <1>3, <2>2
    <2> HIDE DEF p, H, L
    <2>7. (2 * H(n - 1) + s) * p + L(W - n) = H(n - 1) * (2 * p) + L(W - (n - 1))
      <3>1. CASE W - n \in S
        BY <2>2, <2>4, <2>5, <3>1 DEF Truth
      <3>2. CASE W - n \notin S
        BY <2>2, <2>4, <2>5, <3>2 DEF Truth
      <3> QED
        BY <3>1, <3>2
    <2>8. H(n) * p + L(W - n) = WordOf(S)
      BY <2>3, <2>6, <2>7
    <2> QED
      BY <2>1, <2>8 DEF p
  <1> HIDE DEF T
  <1>4. 0 .. W \subseteq T
    BY <1>1, <1>2, <1>3, BoundedInduction
  <1> QED
    BY <1>4 DEF T

\* Reading the bits from the top gives the word.
LEMMA HighestIsWord == ASSUME NEW S PROVE Highest(S)[W] = WordOf(S)
  <1>1. W \in 0 .. W /\ W - W = 0
    BY WAssumption
  <1>2. Highest(S)[W] * Power2[0] + Lowest(S)[0] = WordOf(S)
    BY <1>1, HighLow
  <1>3. Highest(S)[W] \in Nat
    BY <1>1, HighestIs
  <1> QED
    BY SMTT(30), <1>2, <1>3, Powers, LowestIs

\* A set of bits stands for a word.
LEMMA WordOfIsWord == ASSUME NEW S PROVE WordOf(S) \in Word
  <1>1. W \in 0 .. W /\ W \in Nat
    BY WAssumption
  <1>2. Lowest(S)[W] \in Nat /\ Lowest(S)[W] < Power2[W] /\ Power2[W] \in Nat
    BY <1>1, LowestIs, Powers
  <1> QED
    BY <1>2 DEF WordOf, Word

\* The lowest bits of a number are a remainder of it.
LEMMA LowestOfBits ==
    ASSUME NEW v \in Nat
    PROVE  \A n \in 0 .. W : Lowest(BitsOf(v))[n] = v % Power2[n]
  <1> DEFINE L(n) == Lowest(BitsOf(v))[n]
             T == {n \in 0 .. W : L(n) = v % Power2[n]}
  <1>1. W \in Nat
    BY WAssumption
  <1>2. 0 \in T
    <2>1. L(0) = 0 /\ Power2[0] = 1 /\ v % 1 = 0
      BY LowestIs, Powers
    <2> QED
      BY <1>1, <2>1
  <1>3. ASSUME NEW n \in 1 .. W, n - 1 \in T PROVE n \in T
    <2> DEFINE p == Power2[n - 1]
    <2>1. n - 1 \in Nat /\ n - 1 + 1 = n /\ n - 1 \in Bits
      BY <1>1 DEF Bits
    <2>2. p \in Nat \ {0} /\ Power2[n] = 2 * p
      BY <2>1, Powers
    <2>3. L(n) = L(n - 1) + IF BitOf(v, n - 1) = 1 THEN p ELSE 0
      BY <2>1, LowestIs DEF BitsOf
    <2>4. BitOf(v, n - 1) = (v \div p) % 2
      BY DEF BitOf
    <2> HIDE DEF p, L
    <2>5. v % (2 * p) = (v % p) + p * ((v \div p) % 2)
      <3>1. v \in Int
        OBVIOUS
      <3> QED
        BY <2>2, <3>1, ModDouble, Zenon
    <2>6. (v \div p) \in Int
      BY <2>2
    <2>7. (v \div p) % 2 \in {0, 1}
      BY <2>6
    <2>8. L(n - 1) = v % p
      BY <1>3 DEF p
    <2>9. L(n) = v % (2 * p)
      <3> DEFINE x == (v \div p) % 2
      <3>1. L(n) = (v % p) + IF x = 1 THEN p ELSE 0
        BY <2>3, <2>4, <2>8
      <3>2. x \in {0, 1} /\ v % (2 * p) = (v % p) + p * x
        BY <2>5, <2>7
      <3> HIDE DEF x
      <3> QED
        BY <2>2, <3>1, <3>2
    <2> QED
      BY <2>1, <2>2, <2>9
  <1> HIDE DEF T
  <1>4. 0 .. W \subseteq T
    BY <1>1, <1>2, <1>3, BoundedInduction
  <1> QED
    BY <1>4 DEF T

\* A word is the number its bits stand for.
LEMMA WordOfBits == ASSUME NEW v \in Word PROVE WordOf(BitsOf(v)) = v
  <1>1. W \in 0 .. W /\ W \in Nat
    BY WAssumption
  <1>2. Power2[W] \in Nat \ {0}
    BY <1>1, Powers
  <1>3. v \in Nat /\ v < Power2[W]
    BY <1>2 DEF Word
  <1>4. v % Power2[W] = v
    BY <1>2, <1>3
  <1> QED
    BY <1>1, <1>3, <1>4, LowestOfBits DEF WordOf

-----------------------------------------------------------------------------
(* The analysis of a tree.                                                 *)

\* What the recursion of Dedup computes: d[n] is made of the first n of s.
Dedups(d, s) ==
    d = [n \in 0 .. Len(s) |->
            IF n = 0 THEN <<>> ELSE AppendNew(d[n - 1], s[n])]

LEMMA AppendNewSeq ==
    ASSUME NEW S, NEW t \in Seq(S), NEW x \in S
    PROVE  AppendNew(t, x) \in Seq(S)
  BY DEF AppendNew

LEMMA DedupsExist ==
    ASSUME NEW S, NEW s \in Seq(S)
    PROVE  \E d : Dedups(d, s)
  <1> DEFINE N == Len(s)
             step == [n \in 1 .. N |->
                        [f \in [0 .. n - 1 -> Seq(S)] |-> AppendNew(f[n - 1], s[n])]]
  <1>1. N \in Nat /\ <<>> \in Seq(S) /\ \A n \in 1 .. N : s[n] \in S
    OBVIOUS
  <1>2. \A n \in 1 .. N : \A f \in [0 .. n - 1 -> Seq(S)] :
            step[n][f] = AppendNew(f[n - 1], s[n])
    OBVIOUS
  <1> HIDE DEF N, step
  <1>3. IsStep(step, N, Seq(S))
    <2> SUFFICES ASSUME NEW n \in 1 .. N, NEW f \in [0 .. n - 1 -> Seq(S)]
                 PROVE  step[n][f] \in Seq(S)
      BY DEF IsStep
    <2>1. n - 1 \in 0 .. n - 1
      BY <1>1
    <2>2. f[n - 1] \in Seq(S)
      BY <2>1
    <2> QED
      BY <1>1, <1>2, <2>2, AppendNewSeq
  <1>4. PICK f : IsRecursive(f, N, Seq(S), <<>>, step)
    BY <1>1, <1>3, Recursion
  <1>5. \A n \in 1 .. N : f[n] = AppendNew(f[n - 1], s[n])
    <2> TAKE n \in 1 .. N
    <2>1. f \in [0 .. N -> Seq(S)] /\ n - 1 \in 0 .. n - 1
      BY <1>4 DEF IsRecursive
    <2>2. /\ Upto(f, n - 1) \in [0 .. n - 1 -> Seq(S)]
          /\ Upto(f, n - 1)[n - 1] = f[n - 1]
      BY <1>1, <2>1 DEF Upto
    <2>3. f[n] = step[n][Upto(f, n - 1)]
      BY <1>4 DEF IsRecursive
    <2> QED
      BY <1>2, <2>2, <2>3
  <1>6. \A n \in 0 .. N :
            f[n] = IF n = 0 THEN <<>> ELSE AppendNew(f[n - 1], s[n])
    <2>1. \A n \in 0 .. N : n = 0 \/ n \in 1 .. N
      BY <1>1
    <2> QED
      BY <1>4, <1>5, <2>1, Zenon DEF IsRecursive
  <1>7. f = [n \in 0 .. N |-> f[n]]
    BY <1>4 DEF IsRecursive
  <1> QED
    BY <1>6, <1>7 DEF Dedups, N

\* s has the same elements as the first n of t, each once, in the order of
\* their first places in t.
FirstPlaces(s, t, n) ==
    /\ \A j \in 1 .. n : \E k \in 1 .. Len(s) : s[k] = t[j]
    /\ \A k \in 1 .. Len(s) : \E j \in 1 .. n :
           /\ s[k] = t[j]
           /\ \A i \in 1 .. j - 1 : \E m \in 1 .. k - 1 : s[m] = t[i]
    /\ \A j, k \in 1 .. Len(s) : s[j] = s[k] => j = k

LEMMA FirstPlacesStep ==
    ASSUME NEW S, NEW s \in Seq(S), NEW t \in Seq(S), NEW n \in 1 .. Len(t),
           FirstPlaces(s, t, n - 1)
    PROVE  FirstPlaces(AppendNew(s, t[n]), t, n)
  <1>1. CASE Contains(s, t[n])
    <2>1. AppendNew(s, t[n]) = s
      BY <1>1 DEF AppendNew
    <2>2. \E k \in 1 .. Len(s) : s[k] = t[n]
      BY <1>1 DEF Contains
    <2>3. \A j \in 1 .. n : j \in 1 .. n - 1 \/ j = n
      OBVIOUS
    <2> QED
      BY <2>1, <2>2, <2>3 DEF FirstPlaces
  <1>2. CASE ~Contains(s, t[n])
    <2> DEFINE u == Append(s, t[n])
    <2>1. AppendNew(s, t[n]) = u
      BY <1>2 DEF AppendNew
    <2>2. \A k \in 1 .. Len(s) : s[k] # t[n]
      BY <1>2 DEF Contains
    <2>3. /\ Len(s) \in Nat
          /\ Len(u) = Len(s) + 1
          /\ \A k \in 1 .. Len(s) : u[k] = s[k]
          /\ u[Len(s) + 1] = t[n]
      OBVIOUS
    <2> HIDE DEF u
    <2>4. \A j \in 1 .. n : j \in 1 .. n - 1 \/ j = n
      OBVIOUS
    <2>5. \A k \in 1 .. Len(u) : k \in 1 .. Len(s) \/ k = Len(s) + 1
      BY <2>3
    <2>6. ASSUME NEW j \in 1 .. n PROVE \E k \in 1 .. Len(u) : u[k] = t[j]
      <3>1. CASE j = n
        BY <2>3, <3>1
      <3>2. CASE j # n
        <4>1. PICK k \in 1 .. Len(s) : s[k] = t[j]
          BY <3>2 DEF FirstPlaces
        <4> QED
          BY <2>3, <4>1
      <3> QED
        BY <3>1, <3>2
    <2>7. ASSUME NEW k \in 1 .. Len(u)
          PROVE  \E j \in 1 .. n :
                     /\ u[k] = t[j]
                     /\ \A i \in 1 .. j - 1 : \E m \in 1 .. k - 1 : u[m] = t[i]
      <3>1. CASE k \in 1 .. Len(s)
        <4>1. PICK j \in 1 .. n - 1 :
                  /\ s[k] = t[j]
                  /\ \A i \in 1 .. j - 1 : \E m \in 1 .. k - 1 : s[m] = t[i]
          BY <3>1 DEF FirstPlaces
        <4>2. \A m \in 1 .. k - 1 : u[m] = s[m]
          BY <2>3, <3>1
        <4> QED
          BY <2>3, <3>1, <4>1, <4>2
      <3>2. CASE k = Len(s) + 1
        <4>1. u[k] = t[n] /\ k - 1 = Len(s) /\ n \in 1 .. n
          BY <2>3, <3>2
        <4>2. \A i \in 1 .. n - 1 : \E m \in 1 .. Len(s) : s[m] = t[i]
          BY DEF FirstPlaces
        <4>3. \A i \in 1 .. n - 1 : \E m \in 1 .. k - 1 : u[m] = t[i]
          BY <2>3, <4>1, <4>2
        <4> QED
          BY <4>1, <4>3
      <3> QED
        BY <2>5, <3>1, <3>2
    <2>8. ASSUME NEW j \in 1 .. Len(u), NEW k \in 1 .. Len(u), u[j] = u[k]
          PROVE  j = k
      <3>1. CASE j \in 1 .. Len(s) /\ k \in 1 .. Len(s)
        BY <2>3, <2>8, <3>1 DEF FirstPlaces
      <3>2. CASE j = Len(s) + 1 \/ k = Len(s) + 1
        BY <2>2, <2>3, <2>5, <2>8, <3>2
      <3> QED
        BY <2>5, <3>1, <3>2
    <2> QED
      BY <2>1, <2>6, <2>7, <2>8 DEF FirstPlaces
  <1> QED
    BY <1>1, <1>2

\* Dedup keeps the first of every element.
LEMMA DedupFirstPlaces ==
    ASSUME NEW S, NEW s \in Seq(S)
    PROVE  Dedup(s) \in Seq(S) /\ FirstPlaces(Dedup(s), s, Len(s))
  <1> DEFINE d == CHOOSE d : d = [n \in 0 .. Len(s) |->
                      IF n = 0 THEN <<>> ELSE AppendNew(d[n - 1], s[n])]
             T == {n \in 0 .. Len(s) : d[n] \in Seq(S) /\ FirstPlaces(d[n], s, n)}
  <1>1. Dedup(s) = d[Len(s)]
    BY DEF Dedup
  <1>2. Dedups(d, s)
    BY DedupsExist, Zenon DEF Dedups
  <1> HIDE DEF d
  <1>3. Len(s) \in Nat
    OBVIOUS
  <1>4. 0 \in T
    <2>1. d[0] = <<>>
      BY <1>2, <1>3 DEF Dedups
    <2>2. FirstPlaces(<<>>, s, 0)
      BY DEF FirstPlaces
    <2>3. d[0] \in Seq(S) /\ FirstPlaces(d[0], s, 0)
      BY <2>1, <2>2
    <2> QED
      BY <1>3, <2>3
  <1>5. ASSUME NEW n \in 1 .. Len(s), n - 1 \in T PROVE n \in T
    <2>1. n \in 0 .. Len(s) /\ n # 0 /\ s[n] \in S
      BY <1>3
    <2>2. d[n] = AppendNew(d[n - 1], s[n])
      BY <1>2, <2>1 DEF Dedups
    <2>3. d[n - 1] \in Seq(S) /\ FirstPlaces(d[n - 1], s, n - 1)
      BY <1>5
    <2>4. d[n] \in Seq(S)
      BY <2>1, <2>2, <2>3, AppendNewSeq
    <2>5. FirstPlaces(d[n], s, n)
      BY <2>2, <2>3, FirstPlacesStep
    <2> QED
      BY <2>1, <2>4, <2>5
  <1> HIDE DEF T
  <1>6. 0 .. Len(s) \subseteq T
    BY <1>3, <1>4, <1>5, BoundedInduction
  <1>7. Len(s) \in T
    BY <1>3, <1>6
  <1> QED
    BY <1>1, <1>7 DEF T

\* The pointers of a node that are set.
Children(e, i) == {e[i].left, e[i].right, e[i].cond} \ {0}

\* The nodes of a tree come after their children.
LEMMA TreeShape ==
    ASSUME NEW e, NEW names, IsTree(e, names)
    PROVE  /\ Len(e) \in Nat \ {0}
           /\ DOMAIN e = 1 .. Len(e)
           /\ \A i \in 1 .. Len(e) :
                  /\ e[i].left \in 0 .. i - 1
                  /\ e[i].right \in 0 .. i - 1
                  /\ e[i].cond \in 0 .. i - 1
                  /\ e[i].kind \in NodeKinds
                  /\ Children(e, i) \subseteq 1 .. i - 1
  <1> DEFINE R == [kind : NodeKinds, left : Nat, right : Nat, cond : Nat,
                   field : names \cup {""}, value : Int]
  <1>1. e \in Seq(R) /\ e # <<>>
    BY DEF IsTree
  <1>2. \A r \in R : /\ r.left \in Nat /\ r.right \in Nat /\ r.cond \in Nat
                     /\ r.kind \in NodeKinds
    OBVIOUS
  <1> HIDE DEF R
  <1>3. /\ Len(e) \in Nat \ {0}
        /\ DOMAIN e = 1 .. Len(e)
        /\ \A i \in 1 .. Len(e) : e[i] \in R
    BY <1>1
  <1>4. \A i \in 1 .. Len(e) : e[i].left < i /\ e[i].right < i /\ e[i].cond < i
    BY DEF IsTree
  <1>5. ASSUME NEW i \in 1 .. Len(e)
        PROVE  /\ e[i].left \in 0 .. i - 1
               /\ e[i].right \in 0 .. i - 1
               /\ e[i].cond \in 0 .. i - 1
               /\ e[i].kind \in NodeKinds
    BY <1>2, <1>3, <1>4
  <1> QED
    BY <1>3, <1>5 DEF Children

\* What the recursion of PostOrder computes: post[i] is the post-order of the
\* nodes below i.
PostOrders(post, e) ==
    post = [i \in 0 .. Len(e) |->
               IF i = 0 THEN <<>>
               ELSE post[e[i].left] \o post[e[i].right] \o post[e[i].cond]
                        \o <<i>>]

LEMMA PostOrdersExist ==
    ASSUME NEW e, NEW names, IsTree(e, names)
    PROVE  \E post : PostOrders(post, e)
  <1> DEFINE N == Len(e)
             S == Seq(Nat)
             At(f, i) == f[e[i].left] \o f[e[i].right] \o f[e[i].cond] \o <<i>>
             step == [i \in 1 .. N |-> [f \in [0 .. i - 1 -> S] |-> At(f, i)]]
  <1>1. N \in Nat /\ <<>> \in S
    BY TreeShape
  <1>2. \A i \in 1 .. N : /\ e[i].left \in 0 .. i - 1
                          /\ e[i].right \in 0 .. i - 1
                          /\ e[i].cond \in 0 .. i - 1
    BY TreeShape
  <1>3. \A i \in 1 .. N : \A f \in [0 .. i - 1 -> S] : step[i][f] = At(f, i)
    OBVIOUS
  <1>4. ASSUME NEW i \in 1 .. N, NEW f \in [0 .. i - 1 -> S]
        PROVE  At(f, i) \in S
    <2>1. /\ f[e[i].left] \in Seq(Nat)
          /\ f[e[i].right] \in Seq(Nat)
          /\ f[e[i].cond] \in Seq(Nat)
      BY <1>2
    <2>2. <<i>> \in Seq(Nat)
      BY <1>1
    <2> QED
      BY <2>1, <2>2
  <1> HIDE DEF N, S, step, At
  <1>5. IsStep(step, N, S)
    BY <1>3, <1>4 DEF IsStep
  <1>6. PICK f : IsRecursive(f, N, S, <<>>, step)
    BY <1>1, <1>5, Recursion
  <1>7. \A i \in 1 .. N : f[i] = At(f, i)
    <2> TAKE i \in 1 .. N
    <2> DEFINE g == Upto(f, i - 1)
    <2>1. f \in [0 .. N -> S]
      BY <1>6 DEF IsRecursive
    <2>2. g \in [0 .. i - 1 -> S] /\ \A m \in 0 .. i - 1 : g[m] = f[m]
      BY <1>1, <2>1 DEF Upto
    <2>3. f[i] = step[i][g]
      BY <1>6 DEF IsRecursive
    <2> HIDE DEF g
    <2>4. f[i] = At(g, i)
      BY <1>3, <2>2, <2>3
    <2> QED
      BY <1>2, <2>2, <2>4 DEF At
  <1>8. \A i \in 0 .. N : f[i] = IF i = 0 THEN <<>> ELSE At(f, i)
    <2>1. \A i \in 0 .. N : i = 0 \/ i \in 1 .. N
      BY <1>1
    <2> QED
      BY <1>6, <1>7, <2>1, Zenon DEF IsRecursive
  <1>9. f = [i \in 0 .. N |-> f[i]]
    BY <1>6 DEF IsRecursive
  <1> QED
    BY <1>8, <1>9 DEF PostOrders, N, At

\* Every node of s comes after its children.
ChildrenBefore(e, s) ==
    \A k \in 1 .. Len(s) : \A c \in Children(e, s[k]) :
        \E j \in 1 .. k - 1 : s[j] = c

LEMMA JoinBefore ==
    ASSUME NEW e, NEW s \in Seq(Nat), NEW t \in Seq(Nat),
           ChildrenBefore(e, s), ChildrenBefore(e, t)
    PROVE  ChildrenBefore(e, s \o t)
  <1> DEFINE u == s \o t
  <1>1. /\ Len(s) \in Nat /\ Len(t) \in Nat
        /\ Len(u) = Len(s) + Len(t)
        /\ \A k \in 1 .. Len(s) : u[k] = s[k]
        /\ \A k \in 1 .. Len(t) : u[Len(s) + k] = t[k]
    OBVIOUS
  <1> HIDE DEF u
  <1>2. ASSUME NEW k \in 1 .. Len(u), NEW c \in Children(e, u[k])
        PROVE  \E j \in 1 .. k - 1 : u[j] = c
    <2>1. CASE k \in 1 .. Len(s)
      <3>1. PICK j \in 1 .. k - 1 : s[j] = c
        BY <1>1, <1>2, <2>1 DEF ChildrenBefore
      <3> QED
        BY SMTT(30), <1>1, <2>1, <3>1
    <2>2. CASE k \notin 1 .. Len(s)
      <3>1. k - Len(s) \in 1 .. Len(t) /\ Len(s) + (k - Len(s)) = k
        BY <1>1, <2>2
      <3>2. u[k] = t[k - Len(s)]
        BY <1>1, <3>1
      <3>3. PICK j \in 1 .. k - Len(s) - 1 : t[j] = c
        BY <1>2, <3>1, <3>2 DEF ChildrenBefore
      <3>4. Len(s) + j \in 1 .. k - 1 /\ u[Len(s) + j] = c
        BY <1>1, <3>1, <3>3
      <3> QED
        BY <3>4
    <2> QED
      BY <2>1, <2>2
  <1> QED
    BY <1>2 DEF ChildrenBefore, u

\* A post-order holds nodes up to its root, which is its last and occurs only
\* there, and children come before their parents.
IsPostOrder(e, s, i) ==
    /\ s \in Seq(Nat)
    /\ \A k \in 1 .. Len(s) : s[k] \in 1 .. i
    /\ ChildrenBefore(e, s)
    /\ i > 0 => /\ Len(s) > 0
                /\ s[Len(s)] = i
                /\ \A k \in 1 .. Len(s) - 1 : s[k] # i

LEMMA PostOrderStep ==
    ASSUME NEW e, NEW names, IsTree(e, names), NEW i \in 1 .. Len(e),
           NEW a, IsPostOrder(e, a, e[i].left),
           NEW b, IsPostOrder(e, b, e[i].right),
           NEW c, IsPostOrder(e, c, e[i].cond)
    PROVE  IsPostOrder(e, a \o b \o c \o <<i>>, i)
  <1> DEFINE s == a \o b \o c
             u == Append(s, i)
  <1>1. /\ e[i].left \in 0 .. i - 1
        /\ e[i].right \in 0 .. i - 1
        /\ e[i].cond \in 0 .. i - 1
        /\ i \in Nat
    BY TreeShape
  <1>2. a \in Seq(Nat) /\ b \in Seq(Nat) /\ c \in Seq(Nat)
    BY DEF IsPostOrder
  <1>3. s \in Seq(Nat) /\ a \o b \in Seq(Nat) /\ s \o <<i>> = u
    BY SMTT(30), <1>1, <1>2
  <1>4. ChildrenBefore(e, s)
    BY <1>2, <1>3, JoinBefore DEF IsPostOrder
  <1>5. /\ Len(s) = Len(a) + Len(b) + Len(c)
        /\ \A k \in 1 .. Len(a) : s[k] = a[k]
        /\ \A k \in 1 .. Len(b) : s[Len(a) + k] = b[k]
        /\ \A k \in 1 .. Len(c) : s[Len(a) + Len(b) + k] = c[k]
        /\ Len(a) \in Nat /\ Len(b) \in Nat /\ Len(c) \in Nat
    BY SMTT(30), <1>2
  <1>6. \A k \in 1 .. Len(s) :
            \/ k \in 1 .. Len(a)
            \/ k - Len(a) \in 1 .. Len(b)
            \/ k - Len(a) - Len(b) \in 1 .. Len(c)
    BY <1>5
  <1>7. ASSUME NEW k \in 1 .. Len(s) PROVE s[k] \in 1 .. i - 1
    <2>1. CASE k \in 1 .. Len(a)
      <3>1. a[k] \in 1 .. e[i].left
        BY <2>1 DEF IsPostOrder
      <3> QED
        BY SMTT(30), <1>1, <1>5, <2>1, <3>1
    <2>2. CASE k - Len(a) \in 1 .. Len(b)
      <3>1. b[k - Len(a)] \in 1 .. e[i].right
        BY <2>2 DEF IsPostOrder
      <3>2. s[k] = b[k - Len(a)]
        <4>1. k = Len(a) + (k - Len(a))
          BY <1>5
        <4> QED
          BY <1>5, <2>2, <4>1
      <3> QED
        BY <1>1, <3>1, <3>2
    <2>3. CASE k - Len(a) - Len(b) \in 1 .. Len(c)
      <3>1. c[k - Len(a) - Len(b)] \in 1 .. e[i].cond
        BY <2>3 DEF IsPostOrder
      <3>2. s[k] = c[k - Len(a) - Len(b)]
        <4>1. k = Len(a) + Len(b) + (k - Len(a) - Len(b))
          BY <1>5
        <4> QED
          BY <1>5, <2>3, <4>1
      <3> QED
        BY <1>1, <3>1, <3>2
    <2> QED
      BY <1>6, <2>1, <2>2, <2>3
  <1>8. \A d \in Children(e, i) : \E k \in 1 .. Len(s) : s[k] = d
    <2>1. e[i].left > 0 => \E k \in 1 .. Len(s) : s[k] = e[i].left
      <3> SUFFICES ASSUME e[i].left > 0
                   PROVE  \E k \in 1 .. Len(s) : s[k] = e[i].left
        OBVIOUS
      <3>1. Len(a) > 0 /\ a[Len(a)] = e[i].left
        BY DEF IsPostOrder
      <3>2. Len(a) \in 1 .. Len(s) /\ Len(a) \in 1 .. Len(a)
        BY <1>5, <3>1
      <3> QED
        BY <1>5, <3>1, <3>2
    <2>2. e[i].right > 0 => \E k \in 1 .. Len(s) : s[k] = e[i].right
      <3> SUFFICES ASSUME e[i].right > 0
                   PROVE  \E k \in 1 .. Len(s) : s[k] = e[i].right
        OBVIOUS
      <3>1. Len(b) > 0 /\ b[Len(b)] = e[i].right
        BY DEF IsPostOrder
      <3>2. Len(a) + Len(b) \in 1 .. Len(s) /\ Len(b) \in 1 .. Len(b)
        BY <1>5, <3>1
      <3> QED
        BY <1>5, <3>1, <3>2
    <2>3. e[i].cond > 0 => \E k \in 1 .. Len(s) : s[k] = e[i].cond
      <3> SUFFICES ASSUME e[i].cond > 0
                   PROVE  \E k \in 1 .. Len(s) : s[k] = e[i].cond
        OBVIOUS
      <3>1. Len(c) > 0 /\ c[Len(c)] = e[i].cond
        BY DEF IsPostOrder
      <3>2. Len(a) + Len(b) + Len(c) \in 1 .. Len(s) /\ Len(c) \in 1 .. Len(c)
        BY <1>5, <3>1
      <3> QED
        BY <1>5, <3>1, <3>2
    <2>4. ASSUME NEW d \in Children(e, i)
          PROVE  d > 0 /\ (d = e[i].left \/ d = e[i].right \/ d = e[i].cond)
      BY <1>1 DEF Children
    <2> QED
      BY <2>1, <2>2, <2>3, <2>4
  <1>9. Len(s) \in Nat
    BY <1>3
  <1> HIDE DEF s
  <1>10. /\ u \in Seq(Nat)
         /\ Len(u) = Len(s) + 1
         /\ \A k \in 1 .. Len(s) : u[k] = s[k]
         /\ u[Len(s) + 1] = i
    BY <1>1, <1>3
  <1> HIDE DEF u
  <1>11. \A k \in 1 .. Len(u) : k \in 1 .. Len(s) \/ k = Len(s) + 1
    BY <1>9, <1>10
  <1>12. \A k \in 1 .. Len(u) : u[k] \in 1 .. i
    <2> SUFFICES ASSUME NEW k \in 1 .. Len(u) PROVE u[k] \in 1 .. i
      OBVIOUS
    <2>1. CASE k \in 1 .. Len(s)
      <3>1. u[k] = s[k] /\ s[k] \in 1 .. i - 1
        BY <1>7, <1>10, <2>1
      <3> QED
        BY <1>1, <3>1
    <2>2. CASE k = Len(s) + 1
      BY <1>1, <1>10, <2>2
    <2> QED
      BY <1>11, <2>1, <2>2
  <1>13. ChildrenBefore(e, u)
    <2> SUFFICES ASSUME NEW k \in 1 .. Len(u), NEW d \in Children(e, u[k])
                 PROVE  \E j \in 1 .. k - 1 : u[j] = d
      BY DEF ChildrenBefore
    <2>1. CASE k \in 1 .. Len(s)
      <3>1. PICK j \in 1 .. k - 1 : s[j] = d
        BY <1>4, <1>10, <2>1 DEF ChildrenBefore
      <3> QED
        BY <1>9, <1>10, <2>1, <3>1
    <2>2. CASE k = Len(s) + 1
      <3>1. PICK j \in 1 .. Len(s) : s[j] = d
        BY <1>8, <1>10, <2>2
      <3> QED
        BY <1>9, <1>10, <2>2, <3>1
    <2> QED
      BY <1>11, <2>1, <2>2
  <1>14. /\ Len(u) > 0
         /\ u[Len(u)] = i
         /\ \A k \in 1 .. Len(u) - 1 : u[k] # i
    BY <1>7, <1>9, <1>10
  <1> QED
    BY <1>3, <1>10, <1>12, <1>13, <1>14 DEF IsPostOrder, s

LEMMA PostOrderIs ==
    ASSUME NEW e, NEW names, IsTree(e, names)
    PROVE  IsPostOrder(e, PostOrder(e), Len(e))
  <1> DEFINE N == Len(e)
             post == CHOOSE post : post = [i \in 0 .. Len(e) |->
                 IF i = 0 THEN <<>>
                 ELSE post[e[i].left] \o post[e[i].right] \o post[e[i].cond]
                          \o <<i>>]
             T == {i \in 0 .. N : IsPostOrder(e, post[i], i)}
  <1>1. PostOrder(e) = post[N]
    BY DEF PostOrder
  <1>2. PostOrders(post, e)
    BY PostOrdersExist, Zenon DEF PostOrders
  <1> HIDE DEF post
  <1>3. N \in Nat
    BY TreeShape
  <1>4. ASSUME NEW i \in 0 .. N, \A m \in 0 .. i - 1 : m \in T
        PROVE  i \in T
    <2>1. CASE i = 0
      <3>1. post[0] = <<>>
        BY <1>2, <1>3 DEF PostOrders
      <3>2. IsPostOrder(e, <<>>, 0)
        BY DEF IsPostOrder, ChildrenBefore
      <3>3. IsPostOrder(e, post[0], 0)
        BY <3>1, <3>2
      <3> QED
        BY <1>3, <2>1, <3>3
    <2>2. CASE i # 0
      <3>1. i \in 1 .. N
        BY <2>2
      <3>2. /\ e[i].left \in 0 .. i - 1
            /\ e[i].right \in 0 .. i - 1
            /\ e[i].cond \in 0 .. i - 1
        BY <3>1, TreeShape
      <3>3. /\ IsPostOrder(e, post[e[i].left], e[i].left)
            /\ IsPostOrder(e, post[e[i].right], e[i].right)
            /\ IsPostOrder(e, post[e[i].cond], e[i].cond)
        BY <1>4, <3>2
      <3>4. post[i] = post[e[i].left] \o post[e[i].right] \o post[e[i].cond]
                          \o <<i>>
        BY <1>2, <2>2 DEF PostOrders
      <3> HIDE DEF N
      <3>5. IsPostOrder(e, post[i], i)
        BY <3>1, <3>3, <3>4, PostOrderStep DEF N
      <3> QED
        BY <3>5
    <2> QED
      BY <2>1, <2>2
  <1> HIDE DEF T
  <1>5. 0 .. N \subseteq T
    BY <1>3, <1>4, StrongInduction
  <1>6. N \in T
    BY <1>3, <1>5
  <1> QED
    BY <1>1, <1>6 DEF T

\* Each node once.
Distinct(s) == \A j, k \in 1 .. Len(s) : s[j] = s[k] => j = k

\* all_nodes holds every node once, children before their parents, and the
\* root last.
LEMMA AllNodesOrder ==
    ASSUME NEW e, NEW names, IsTree(e, names),
           NEW s, s = AllNodes(e)
    PROVE  /\ s \in Seq(Nat)
           /\ \A k \in 1 .. Len(s) : s[k] \in 1 .. Len(e)
           /\ Distinct(s)
           /\ ChildrenBefore(e, s)
           /\ Len(s) \in Nat \ {0}
           /\ s[Len(s)] = Len(e)
  <1> DEFINE t == PostOrder(e)
             n == Len(t)
             root == Len(e)
  <1>1. IsPostOrder(e, t, root)
    BY PostOrderIs
  <1>2. t \in Seq(Nat)
    BY <1>1 DEF IsPostOrder
  <1>3. s \in Seq(Nat) /\ FirstPlaces(s, t, n)
    BY <1>2, DedupFirstPlaces DEF AllNodes
  <1>4. root \in Nat \ {0} /\ n \in Nat /\ Len(s) \in Nat
    BY <1>2, <1>3, TreeShape
  <1>5. /\ n > 0
        /\ t[n] = root
        /\ \A k \in 1 .. n - 1 : t[k] # root
    BY <1>1, <1>4 DEF IsPostOrder
  <1> HIDE DEF t, n, root
  <1>6. \A k \in 1 .. Len(s) : s[k] \in 1 .. root
    BY <1>1, <1>3 DEF FirstPlaces, IsPostOrder, n
  <1>7. Distinct(s)
    BY <1>3 DEF FirstPlaces, Distinct
  <1>8. ASSUME NEW k \in 1 .. Len(s), NEW c \in Children(e, s[k])
        PROVE  \E j \in 1 .. k - 1 : s[j] = c
    <2>1. PICK j \in 1 .. n :
              /\ s[k] = t[j]
              /\ \A i \in 1 .. j - 1 : \E m \in 1 .. k - 1 : s[m] = t[i]
      BY <1>3 DEF FirstPlaces
    <2>2. PICK i \in 1 .. j - 1 : t[i] = c
      BY <1>1, <1>8, <2>1 DEF IsPostOrder, ChildrenBefore, n
    <2> QED
      BY <2>1, <2>2
  <1>9. PICK k \in 1 .. Len(s) : s[k] = root
    BY <1>3, <1>4, <1>5, n \in 1 .. n DEF FirstPlaces
  <1>10. PICK j \in 1 .. n :
             /\ s[k] = t[j]
             /\ \A i \in 1 .. j - 1 : \E m \in 1 .. k - 1 : s[m] = t[i]
    BY <1>3 DEF FirstPlaces
  <1>11. j = n
    BY <1>4, <1>5, <1>9, <1>10
  <1>12. k = Len(s)
    <2> SUFFICES ASSUME k # Len(s) PROVE FALSE
      OBVIOUS
    <2>1. k + 1 \in 1 .. Len(s)
      BY <1>4
    <2>2. PICK i \in 1 .. n : s[k + 1] = t[i]
      BY <1>3, <2>1 DEF FirstPlaces
    <2>3. CASE i = n
      <3>1. s[k + 1] = s[k]
        BY <1>5, <1>9, <2>2, <2>3
      <3> QED
        BY <1>7, <2>1, <3>1 DEF Distinct
    <2>4. CASE i # n
      <3>1. PICK m \in 1 .. k - 1 : s[m] = s[k + 1]
        BY <1>4, <1>10, <1>11, <2>2, <2>4
      <3>2. m \in 1 .. Len(s) /\ m # k + 1
        BY <1>4
      <3> QED
        BY <1>7, <2>1, <3>1, <3>2 DEF Distinct
    <2> QED
      BY <2>3, <2>4
  <1> QED
    BY <1>3, <1>4, <1>6, <1>7, <1>8, <1>9, <1>12 DEF ChildrenBefore, root

\* What the recursion of NodesOfKind computes.
Keeps(k, e, nodes, kinds) ==
    k = [n \in 0 .. Len(nodes) |->
            IF n = 0 THEN <<>>
            ELSE IF e[nodes[n]].kind \in kinds THEN Append(k[n - 1], nodes[n])
            ELSE k[n - 1]]

LEMMA KeepsExist ==
    ASSUME NEW e, NEW nodes \in Seq(Nat), NEW kinds
    PROVE  \E k : Keeps(k, e, nodes, kinds)
  <1> DEFINE N == Len(nodes)
             S == Seq(Nat)
             At(f, n) == IF e[nodes[n]].kind \in kinds
                         THEN Append(f[n - 1], nodes[n])
                         ELSE f[n - 1]
             step == [n \in 1 .. N |-> [f \in [0 .. n - 1 -> S] |-> At(f, n)]]
  <1>1. N \in Nat /\ <<>> \in S /\ \A n \in 1 .. N : nodes[n] \in Nat
    OBVIOUS
  <1>2. \A n \in 1 .. N : \A f \in [0 .. n - 1 -> S] : step[n][f] = At(f, n)
    OBVIOUS
  <1>3. ASSUME NEW n \in 1 .. N, NEW f \in [0 .. n - 1 -> S]
        PROVE  At(f, n) \in S
    <2>1. f[n - 1] \in Seq(Nat) /\ nodes[n] \in Nat
      BY <1>1
    <2> QED
      BY <2>1
  <1> HIDE DEF N, S, step, At
  <1>4. IsStep(step, N, S)
    BY <1>2, <1>3 DEF IsStep
  <1>5. PICK f : IsRecursive(f, N, S, <<>>, step)
    BY <1>1, <1>4, Recursion
  <1>6. \A n \in 1 .. N : f[n] = At(f, n)
    <2> TAKE n \in 1 .. N
    <2> DEFINE g == Upto(f, n - 1)
    <2>1. f \in [0 .. N -> S] /\ n - 1 \in 0 .. n - 1
      BY <1>5 DEF IsRecursive
    <2>2. g \in [0 .. n - 1 -> S] /\ g[n - 1] = f[n - 1]
      BY <1>1, <2>1 DEF Upto
    <2>3. f[n] = step[n][g]
      BY <1>5 DEF IsRecursive
    <2> HIDE DEF g
    <2>4. f[n] = At(g, n)
      BY <1>2, <2>2, <2>3
    <2> QED
      BY <2>2, <2>4 DEF At
  <1>7. \A n \in 0 .. N : f[n] = IF n = 0 THEN <<>> ELSE At(f, n)
    <2>1. \A n \in 0 .. N : n = 0 \/ n \in 1 .. N
      BY <1>1
    <2> QED
      BY <1>5, <1>6, <2>1, Zenon DEF IsRecursive
  <1>8. f = [n \in 0 .. N |-> f[n]]
    BY <1>5 DEF IsRecursive
  <1> QED
    BY <1>7, <1>8 DEF Keeps, N, At

\* s holds the first n of nodes that are of the given kinds, in their order.
Kept(s, e, nodes, n, kinds) ==
    /\ s \in Seq(Nat)
    /\ Distinct(s)
    /\ \A j \in 1 .. n : e[nodes[j]].kind \in kinds =>
           \E k \in 1 .. Len(s) : s[k] = nodes[j]
    /\ \A k \in 1 .. Len(s) : \E j \in 1 .. n :
           /\ s[k] = nodes[j]
           /\ e[nodes[j]].kind \in kinds
           /\ \A i \in 1 .. j - 1 : e[nodes[i]].kind \in kinds =>
                  \E m \in 1 .. k - 1 : s[m] = nodes[i]

LEMMA KeptStep ==
    ASSUME NEW e, NEW nodes \in Seq(Nat), Distinct(nodes), NEW kinds,
           NEW n \in 1 .. Len(nodes), NEW s, Kept(s, e, nodes, n - 1, kinds),
           NEW u, u = IF e[nodes[n]].kind \in kinds THEN Append(s, nodes[n])
                      ELSE s
    PROVE  Kept(u, e, nodes, n, kinds)
  <1>1. \A j \in 1 .. n : j \in 1 .. n - 1 \/ j = n
    OBVIOUS
  <1>2. CASE e[nodes[n]].kind \notin kinds
    <2>1. u = s
      BY <1>2
    <2>2. /\ s \in Seq(Nat) /\ Distinct(s)
          /\ \A j \in 1 .. n - 1 : e[nodes[j]].kind \in kinds =>
                 \E k \in 1 .. Len(s) : s[k] = nodes[j]
          /\ \A k \in 1 .. Len(s) : \E j \in 1 .. n - 1 :
                 /\ s[k] = nodes[j]
                 /\ e[nodes[j]].kind \in kinds
                 /\ \A i \in 1 .. j - 1 : e[nodes[i]].kind \in kinds =>
                        \E m \in 1 .. k - 1 : s[m] = nodes[i]
      BY DEF Kept
    <2>3. \A j \in 1 .. n : e[nodes[j]].kind \in kinds =>
              \E k \in 1 .. Len(s) : s[k] = nodes[j]
      BY <1>1, <1>2, <2>2
    <2>4. \A j \in 1 .. n - 1 : j \in 1 .. n
      OBVIOUS
    <2>5. \A k \in 1 .. Len(s) : \E j \in 1 .. n :
              /\ s[k] = nodes[j]
              /\ e[nodes[j]].kind \in kinds
              /\ \A i \in 1 .. j - 1 : e[nodes[i]].kind \in kinds =>
                     \E m \in 1 .. k - 1 : s[m] = nodes[i]
      BY Zenon, <2>2, <2>4
    <2> QED
      BY SMTT(30), <2>1, <2>2, <2>3, <2>5 DEF Kept
  <1>3. CASE e[nodes[n]].kind \in kinds
    <2>1. s \in Seq(Nat) /\ nodes[n] \in Nat /\ u = Append(s, nodes[n])
      BY <1>3 DEF Kept
    <2>2. /\ u \in Seq(Nat)
          /\ Len(s) \in Nat
          /\ Len(u) = Len(s) + 1
          /\ \A k \in 1 .. Len(s) : u[k] = s[k]
          /\ u[Len(s) + 1] = nodes[n]
      BY <2>1
    <2>3. \A k \in 1 .. Len(u) : k \in 1 .. Len(s) \/ k = Len(s) + 1
      BY <2>2
    <2>4. \A k \in 1 .. Len(s) : s[k] # nodes[n]
      <3> SUFFICES ASSUME NEW k \in 1 .. Len(s) PROVE s[k] # nodes[n]
        OBVIOUS
      <3>1. PICK j \in 1 .. n - 1 : s[k] = nodes[j]
        BY DEF Kept
      <3> QED
        BY SMTT(30), <3>1 DEF Distinct
    <2>5. Distinct(u)
      <3> SUFFICES ASSUME NEW j \in 1 .. Len(u), NEW k \in 1 .. Len(u),
                          u[j] = u[k]
                   PROVE  j = k
        BY DEF Distinct
      <3>1. CASE j \in 1 .. Len(s) /\ k \in 1 .. Len(s)
        BY <2>2, <3>1 DEF Kept, Distinct
      <3>2. CASE j = Len(s) + 1 \/ k = Len(s) + 1
        BY <2>2, <2>3, <2>4, <3>2
      <3> QED
        BY <2>3, <3>1, <3>2
    <2>6. ASSUME NEW j \in 1 .. n, e[nodes[j]].kind \in kinds
          PROVE  \E k \in 1 .. Len(u) : u[k] = nodes[j]
      <3>1. CASE j = n
        <4>1. Len(s) + 1 \in 1 .. Len(u)
          BY <2>2
        <4> QED
          BY <2>2, <3>1, <4>1
      <3>2. CASE j # n
        <4>1. PICK k \in 1 .. Len(s) : s[k] = nodes[j]
          BY <2>6, <3>2 DEF Kept
        <4> QED
          BY <2>2, <4>1
      <3> QED
        BY <3>1, <3>2
    <2>7. ASSUME NEW k \in 1 .. Len(u)
          PROVE  \E j \in 1 .. n :
                     /\ u[k] = nodes[j]
                     /\ e[nodes[j]].kind \in kinds
                     /\ \A i \in 1 .. j - 1 : e[nodes[i]].kind \in kinds =>
                            \E m \in 1 .. k - 1 : u[m] = nodes[i]
      <3>1. CASE k \in 1 .. Len(s)
        <4>1. PICK j \in 1 .. n - 1 :
                  /\ s[k] = nodes[j]
                  /\ e[nodes[j]].kind \in kinds
                  /\ \A i \in 1 .. j - 1 : e[nodes[i]].kind \in kinds =>
                         \E m \in 1 .. k - 1 : s[m] = nodes[i]
          BY <3>1 DEF Kept
        <4>2. \A m \in 1 .. k - 1 : u[m] = s[m]
          BY <2>2, <3>1
        <4>3. \A i \in 1 .. j - 1 : e[nodes[i]].kind \in kinds =>
                  \E m \in 1 .. k - 1 : u[m] = nodes[i]
          BY <4>1, <4>2
        <4>4. u[k] = nodes[j] /\ j \in 1 .. n
          BY <2>2, <3>1, <4>1
        <4> QED
          BY <4>1, <4>3, <4>4
      <3>2. CASE k = Len(s) + 1
        <4>1. u[k] = nodes[n] /\ k - 1 = Len(s) /\ n \in 1 .. n
          BY <2>2, <3>2
        <4>2. \A i \in 1 .. n - 1 : e[nodes[i]].kind \in kinds =>
                  \E m \in 1 .. Len(s) : s[m] = nodes[i]
          BY DEF Kept
        <4>3. \A i \in 1 .. n - 1 : e[nodes[i]].kind \in kinds =>
                  \E m \in 1 .. k - 1 : u[m] = nodes[i]
          BY <2>2, <4>1, <4>2
        <4> QED
          BY <1>3, <4>1, <4>3
      <3> QED
        BY <2>3, <3>1, <3>2
    <2> QED
      BY <2>2, <2>5, <2>6, <2>7 DEF Kept
  <1> QED
    BY <1>2, <1>3

\* The nodes of the given kinds are in the order of all_nodes: each once,
\* after its children of these kinds.
LEMMA KindOrder ==
    ASSUME NEW e, NEW names, IsTree(e, names), NEW kinds,
           NEW s, s = NodesOfKind(e, kinds)
    PROVE  /\ s \in Seq(Nat)
           /\ Distinct(s)
           /\ \A k \in 1 .. Len(s) :
                  /\ s[k] \in 1 .. Len(e)
                  /\ e[s[k]].kind \in kinds
                  /\ \A c \in Children(e, s[k]) : e[c].kind \in kinds =>
                         \E j \in 1 .. k - 1 : s[j] = c
           /\ \A j \in 1 .. Len(AllNodes(e)) : e[AllNodes(e)[j]].kind \in kinds =>
                  \E k \in 1 .. Len(s) : s[k] = AllNodes(e)[j]
  <1> DEFINE nodes == AllNodes(e)
             N == Len(nodes)
             k == CHOOSE k : k = [n \in 0 .. Len(nodes) |->
                     IF n = 0 THEN <<>>
                     ELSE IF e[nodes[n]].kind \in kinds THEN Append(k[n - 1], nodes[n])
                     ELSE k[n - 1]]
             T == {n \in 0 .. N : Kept(k[n], e, nodes, n, kinds)}
  <1>1. s = k[N]
    BY DEF NodesOfKind
  <1>2. /\ nodes \in Seq(Nat)
        /\ Distinct(nodes)
        /\ ChildrenBefore(e, nodes)
        /\ \A j \in 1 .. Len(nodes) : nodes[j] \in 1 .. Len(e)
    BY AllNodesOrder
  <1> HIDE DEF nodes
  <1>3. Keeps(k, e, nodes, kinds)
    <2>1. \E f : Keeps(f, e, nodes, kinds)
      BY <1>2, KeepsExist
    <2> QED
      BY <2>1, Zenon DEF Keeps
  <1> HIDE DEF k
  <1>4. N \in Nat
    BY <1>2
  <1>5. 0 \in T
    <2>1. k[0] = <<>>
      BY <1>3, <1>4 DEF Keeps
    <2>2. Kept(<<>>, e, nodes, 0, kinds)
      BY DEF Kept, Distinct
    <2>3. Kept(k[0], e, nodes, 0, kinds)
      BY <2>1, <2>2
    <2> QED
      BY <1>4, <2>3
  <1>6. ASSUME NEW n \in 1 .. N, n - 1 \in T PROVE n \in T
    <2>1. n \in 0 .. N /\ n # 0
      BY <1>4
    <2>2. k[n] = IF e[nodes[n]].kind \in kinds THEN Append(k[n - 1], nodes[n])
                 ELSE k[n - 1]
      BY <1>3, <2>1 DEF Keeps
    <2>3. Kept(k[n - 1], e, nodes, n - 1, kinds)
      BY <1>6
    <2>4. Kept(k[n], e, nodes, n, kinds)
      BY <1>2, <2>2, <2>3, KeptStep
    <2> QED
      BY <2>1, <2>4
  <1> HIDE DEF T
  <1>7. 0 .. N \subseteq T
    BY <1>4, <1>5, <1>6, BoundedInduction
  <1>8. N \in T
    BY <1>4, <1>7
  <1>9. Kept(s, e, nodes, N, kinds)
    BY <1>1, <1>8 DEF T
  <1>10. ASSUME NEW p \in 1 .. Len(s)
         PROVE  /\ s[p] \in 1 .. Len(e)
                /\ e[s[p]].kind \in kinds
                /\ \A c \in Children(e, s[p]) : e[c].kind \in kinds =>
                       \E j \in 1 .. p - 1 : s[j] = c
    <2>1. PICK j \in 1 .. N :
              /\ s[p] = nodes[j]
              /\ e[nodes[j]].kind \in kinds
              /\ \A i \in 1 .. j - 1 : e[nodes[i]].kind \in kinds =>
                     \E m \in 1 .. p - 1 : s[m] = nodes[i]
      BY <1>9 DEF Kept
    <2>2. \A c \in Children(e, s[p]) : \E i \in 1 .. j - 1 : nodes[i] = c
      BY <1>2, <2>1 DEF ChildrenBefore
    <2>3. \A c \in Children(e, s[p]) : e[c].kind \in kinds =>
              \E m \in 1 .. p - 1 : s[m] = c
      BY <2>1, <2>2
    <2> QED
      BY <1>2, <2>1, <2>3
  <1>11. \A j \in 1 .. N : e[nodes[j]].kind \in kinds =>
             \E p \in 1 .. Len(s) : s[p] = nodes[j]
    BY <1>9 DEF Kept
  <1> QED
    BY <1>9, <1>10, <1>11 DEF Kept, nodes

-----------------------------------------------------------------------------
(* The meaning of a tree.                                                  *)

\* A node has the children and the attributes its kind needs.
LEMMA NodeShape ==
    ASSUME NEW e, NEW names, IsTree(e, names), NEW i \in 1 .. Len(e)
    PROVE  /\ e[i].value \in Int
           /\ e[i].kind = "LOAD" => e[i].field \in names
           /\ e[i].kind \in {"LSL", "LSR"} => e[i].value \in Nat
           /\ e[i].kind \notin Leaves => e[i].left \in 1 .. i - 1
           /\ e[i].kind \notin Leaves \cup Unary => e[i].right \in 1 .. i - 1
  <1> DEFINE R == [kind : NodeKinds, left : Nat, right : Nat, cond : Nat,
                   field : names \cup {""}, value : Int]
  <1>1. e \in Seq(R)
    BY DEF IsTree
  <1>2. \A r \in R : r.value \in Int
    OBVIOUS
  <1> HIDE DEF R
  <1>3. e[i].value \in Int
    BY <1>1, <1>2
  <1>4. /\ e[i].left # 0 <=> e[i].kind \notin Leaves
        /\ e[i].right # 0 <=> e[i].kind \notin Leaves \cup Unary
        /\ e[i].kind = "LOAD" => e[i].field \in names
        /\ e[i].kind \in {"LSL", "LSR"} => e[i].value \in Nat
    BY DEF IsTree
  <1>5. e[i].left \in 0 .. i - 1 /\ e[i].right \in 0 .. i - 1
    BY TreeShape
  <1> QED
    BY <1>3, <1>4, <1>5

LEMMA ApplyIsInt ==
    ASSUME NEW e, NEW names, IsTree(e, names), NEW i \in 1 .. Len(e),
           NEW row \in [names -> Int], NEW a \in Int, NEW b \in Int, NEW c
    PROVE  Apply(e[i], a, b, c, row) \in Int
  <1> DEFINE n == e[i]
             p == Power2[W]
             q == Power2[n.value]
  <1>1. /\ n.kind \in NodeKinds
        /\ n.value \in Int
        /\ n.kind = "LOAD" => row[n.field] \in Int
        /\ n.kind \in {"LSL", "LSR"} => n.value \in Nat
    BY TreeShape, NodeShape
  <1>2. p \in Nat \ {0}
    BY WAssumption, Powers
  <1>3. n.kind \in {"LSL", "LSR"} => q \in Nat \ {0}
    BY <1>1, Powers
  <1>4. Truth(a > b) \in Int /\ Truth(a < b) \in Int /\ Truth(a = b) \in Int
            /\ Truth(a + b > 0) \in Int
    BY DEF Truth
  <1>5. n.kind \in {"LOAD", "CONST", "NOT", "LSL", "LSR", "ADD", "SUB", "GT",
                    "LT", "EQ", "AND", "OR", "SELECT"}
    BY <1>1 DEF NodeKinds, Leaves, Unary, Arithmetic
  <1>6. (n.value % p) \in Int /\ ((a + b) % p) \in Int /\ ((a - b) % p) \in Int
            /\ a * b \in Int /\ 1 - a \in Int
    BY <1>1, <1>2
  <1>7. n.kind = "LSL" => ((a * q) % p) \in Int
    <2> SUFFICES ASSUME n.kind = "LSL" PROVE ((a * q) % p) \in Int
      OBVIOUS
    <2>1. a * q \in Int
      BY <1>3
    <2> HIDE DEF p, q
    <2> QED
      BY <2>1, <1>2
  <1>8. n.kind = "LSR" => (a \div q) \in Int
    BY <1>3
  <1> HIDE DEF p, q, n
  <1>9. Apply(n, a, b, c, row) \in Int
    <2>1. CASE n.kind \in {"LOAD", "CONST", "ADD", "SUB"}
      BY <1>1, <1>6, <2>1 DEF Apply, p
    <2>2. CASE n.kind \in {"GT", "LT", "EQ", "OR"}
      BY <1>4, <2>2 DEF Apply
    <2>3. CASE n.kind \in {"AND", "NOT", "SELECT"}
      BY <1>6, <2>3 DEF Apply
    <2>4. CASE n.kind \in {"LSL", "LSR"}
      BY <1>7, <1>8, <2>4 DEF Apply, p, q
    <2> QED
      BY <1>5, <2>1, <2>2, <2>3, <2>4
  <1> QED
    BY <1>9 DEF n

\* The value of every node is that of its kind on the values of its children.
LEMMA ValuesAre ==
    ASSUME NEW e, NEW names, IsTree(e, names), NEW row \in [names -> Int]
    PROVE  /\ Values(e, row) \in [0 .. Len(e) -> Int]
           /\ \A i \in 1 .. Len(e) :
                  Values(e, row)[i] =
                      Apply(e[i], Values(e, row)[e[i].left],
                            Values(e, row)[e[i].right],
                            Values(e, row)[e[i].cond], row)
  <1> DEFINE N == Len(e)
             At(f, i) == Apply(e[i], f[e[i].left], f[e[i].right], f[e[i].cond],
                               row)
             step == [i \in 1 .. N |-> [f \in [0 .. i - 1 -> Int] |-> At(f, i)]]
             v == CHOOSE v : v = [i \in 0 .. Len(e) |->
                     IF i = 0 THEN 0
                     ELSE Apply(e[i], v[e[i].left], v[e[i].right],
                                v[e[i].cond], row)]
  <1>1. N \in Nat /\ 0 \in Int
    BY TreeShape
  <1>2. \A i \in 1 .. N : /\ e[i].left \in 0 .. i - 1
                          /\ e[i].right \in 0 .. i - 1
                          /\ e[i].cond \in 0 .. i - 1
    BY TreeShape
  <1>3. \A i \in 1 .. N : \A f \in [0 .. i - 1 -> Int] : step[i][f] = At(f, i)
    OBVIOUS
  <1>4. ASSUME NEW i \in 1 .. N, NEW f,
               f[e[i].left] \in Int, f[e[i].right] \in Int
        PROVE  At(f, i) \in Int
    BY <1>4, ApplyIsInt
  <1>5. Values(e, row) = v
    BY DEF Values
  <1>6. (\E f : f = [i \in 0 .. N |-> IF i = 0 THEN 0 ELSE At(f, i)])
            => v = [i \in 0 .. N |-> IF i = 0 THEN 0 ELSE At(v, i)]
    BY Zenon
  <1>7. \A i \in 1 .. N : At(v, i) = Apply(e[i], v[e[i].left], v[e[i].right],
                                           v[e[i].cond], row)
    OBVIOUS
  <1>8. ASSUME NEW i \in 1 .. N, NEW f, NEW g,
               \A m \in 0 .. i - 1 : g[m] = f[m]
        PROVE  At(g, i) = At(f, i)
    BY <1>2, <1>8
  <1> HIDE DEF step, At, v
  <1>9. IsStep(step, N, Int)
    <2> SUFFICES ASSUME NEW i \in 1 .. N, NEW f \in [0 .. i - 1 -> Int]
                 PROVE  step[i][f] \in Int
      BY DEF IsStep
    <2>1. f[e[i].left] \in Int /\ f[e[i].right] \in Int
      BY <1>2
    <2> QED
      BY <1>3, <1>4, <2>1
  <1> HIDE DEF N
  <1>10. PICK f : IsRecursive(f, N, Int, 0, step)
    BY <1>1, <1>9, Recursion
  <1>11. \A i \in 1 .. N : f[i] = At(f, i)
    <2> TAKE i \in 1 .. N
    <2> DEFINE g == Upto(f, i - 1)
    <2>1. f \in [0 .. N -> Int]
      BY <1>10 DEF IsRecursive
    <2>2. g \in [0 .. i - 1 -> Int] /\ \A m \in 0 .. i - 1 : g[m] = f[m]
      BY <1>1, <2>1 DEF Upto
    <2>3. f[i] = step[i][g]
      BY <1>10 DEF IsRecursive
    <2> HIDE DEF g
    <2> QED
      BY <1>3, <1>8, <2>2, <2>3
  <1>12. f = [i \in 0 .. N |-> IF i = 0 THEN 0 ELSE At(f, i)]
    <2>1. \A i \in 0 .. N : i = 0 \/ i \in 1 .. N
      BY <1>1
    <2>2. \A i \in 0 .. N : f[i] = IF i = 0 THEN 0 ELSE At(f, i)
      BY <1>10, <1>11, <2>1, Zenon DEF IsRecursive
    <2>3. f = [i \in 0 .. N |-> f[i]]
      BY <1>10 DEF IsRecursive
    <2> QED
      BY <2>2, <2>3
  <1>13. v = [i \in 0 .. N |-> IF i = 0 THEN 0 ELSE At(v, i)]
    BY <1>6, <1>12, Zenon
  <1>14. v[0] = 0
    BY <1>1, <1>13
  <1>15. \A i \in 1 .. N : v[i] = At(v, i)
    <2> TAKE i \in 1 .. N
    <2>1. i \in 0 .. N /\ i # 0
      BY <1>1
    <2> QED
      BY <1>13, <2>1
  <1> DEFINE T == {i \in 0 .. N : v[i] \in Int}
  <1>16. ASSUME NEW i \in 0 .. N, \A m \in 0 .. i - 1 : m \in T
         PROVE  i \in T
    <2>1. CASE i = 0
      BY <1>1, <1>14, <2>1
    <2>2. CASE i # 0
      <3>1. i \in 1 .. N
        BY <2>2
      <3>2. v[e[i].left] \in Int /\ v[e[i].right] \in Int
        BY <1>2, <1>16, <3>1
      <3>3. At(v, i) \in Int
        BY <1>4, <3>1, <3>2
      <3> QED
        BY <1>15, <3>1, <3>3
    <2> QED
      BY <2>1, <2>2
  <1> HIDE DEF T
  <1>17. 0 .. N \subseteq T
    BY <1>1, <1>16, StrongInduction
  <1>18. \A i \in 0 .. N : v[i] \in Int
    BY <1>17 DEF T
  <1>19. v = [i \in 0 .. N |-> v[i]]
    BY <1>13
  <1>20. v \in [0 .. N -> Int]
    BY <1>18, <1>19
  <1> QED
    BY <1>5, <1>7, <1>15, <1>20 DEF N

-----------------------------------------------------------------------------
(* The scalar kernel.                                                      *)

\* Truth is a bit.
LEMMA TruthIsBit ==
    ASSUME NEW P \in BOOLEAN
    PROVE  Truth(P) \in {0, 1} /\ (Truth(P) = 1 <=> P)
  BY DEF Truth

LEMMA BitsAreWords == {0, 1} \subseteq Word
  <1>1. W - 1 \in Nat /\ W - 1 + 1 = W
    BY WAssumption
  <1>2. Power2[W] = 2 * Power2[W - 1] /\ Power2[W - 1] \in Nat \ {0}
    BY <1>1, Powers
  <1> QED
    BY <1>2 DEF Word

\* all_nodes fits into the nodes.
LEMMA AllNodesFit ==
    ASSUME NEW e, NEW names, IsTree(e, names)
    PROVE  Len(AllNodes(e)) <= Len(e)
  <1> DEFINE s == AllNodes(e)
             S == 1 .. Len(s)
             T == 1 .. Len(e)
  <1>1. /\ s \in Seq(Nat)
        /\ Distinct(s)
        /\ \A k \in S : s[k] \in T
        /\ Len(s) \in Nat
    BY AllNodesOrder
  <1>2. Len(e) \in Nat
    BY TreeShape
  <1> HIDE DEF s
  <1> DEFINE f == [k \in S |-> s[k]]
  <1>3. f \in [S -> T] /\ \A j, k \in S : f[j] = f[k] => j = k
    BY <1>1 DEF Distinct
  <1>4. f \in Injection(S, T)
    BY <1>3 DEF Injection, IsInjective
  <1>5. \A n \in Nat : IsFiniteSet(1 .. n) /\ Cardinality(1 .. n) = n
    <2> TAKE n \in Nat
    <2>1. /\ IsFiniteSet(1 .. n)
          /\ Cardinality(1 .. n) = IF 1 > n THEN 0 ELSE n - 1 + 1
      BY FS_Interval
    <2> QED
      BY <2>1
  <1>6. /\ IsFiniteSet(T)
        /\ Cardinality(S) = Len(s)
        /\ Cardinality(T) = Len(e)
    BY <1>1, <1>2, <1>5
  <1> HIDE DEF f, S, T
  <1>7. Cardinality(S) <= Cardinality(T)
    BY <1>4, <1>6, FS_Injection
  <1> QED
    BY <1>6, <1>7 DEF s

\* The variables that the loops of the kernel rest on.
ScalarInv ==
    /\ ScalarTypeOK
    /\ expr \in Exprs
    /\ data \in [FieldNames -> [Rows -> Word]]
    /\ phase \in {"run", "done"} => all_nodes = AllNodes(expr)
    /\ phase = "run" => pos \in 1 .. Len(AllNodes(expr)) + 1
    /\ phase = "compile" => pos = 1 /\ row_index = 0 /\ final_mask = {}

LEMMA ScalarShape ==
    ASSUME ScalarInv
    PROVE  /\ IsTree(expr, FieldNames)
           /\ Len(expr) \in Nat \ {0}
           /\ DOMAIN expr = 1 .. Len(expr)
           /\ W \in Nat \ {0}
           /\ Power2[W] \in Nat \ {0}
           /\ Rows = Bits
  BY TreesAssumption, TreeShape, WAssumption, Powers
     DEF ScalarInv, Rows, Bits

\* The operands of a node are words.
LEMMA OperandInRowType ==
    ASSUME ScalarInv, row_index < W, NEW i \in 1 .. Len(expr)
    PROVE  OperandInRow(i) \in Word
  <1>1. row_index \in Rows /\ scratchpad[i] \in Word
    BY ScalarShape DEF ScalarInv, ScalarTypeOK, Rows
  <1>2. CASE expr[i].kind = "LOAD"
    <2>1. expr[i].field \in FieldNames
      BY <1>2, ScalarShape, NodeShape
    <2>2. data[expr[i].field][row_index] \in Word
      BY <1>1, <2>1 DEF ScalarInv
    <2> QED
      BY <1>2, <2>2 DEF OperandInRow
  <1>3. CASE expr[i].kind = "CONST"
    <2>1. expr[i].value \in Int
      BY ScalarShape, NodeShape
    <2>2. (expr[i].value % Power2[W]) \in 0 .. Power2[W] - 1
      BY <2>1, ScalarShape
    <2> QED
      BY <1>3, <2>2 DEF OperandInRow, Word
  <1>4. CASE expr[i].kind \notin {"LOAD", "CONST"}
    BY <1>1, <1>4 DEF OperandInRow
  <1> QED
    BY <1>2, <1>3, <1>4

\* What an instruction group leaves in the result register is a word.
LEMMA ResultType ==
    ASSUME ScalarInv, row_index < W, NEW i \in 1 .. Len(expr)
    PROVE  Result(i) \in Word
  <1> DEFINE n == expr[i]
             a == OperandInRow(n.left)
             b == OperandInRow(n.right)
  <1>1. n.kind \in NodeKinds
    BY ScalarShape, TreeShape
  <1>2. n.kind \notin Leaves => a \in Word
    <2> SUFFICES ASSUME n.kind \notin Leaves PROVE a \in Word
      OBVIOUS
    <2>1. n.left \in 1 .. i - 1
      BY ScalarShape, NodeShape
    <2>2. n.left \in 1 .. Len(expr)
      BY <2>1, ScalarShape
    <2> QED
      BY <2>2, OperandInRowType
  <1>3. n.kind \notin Leaves \cup Unary => b \in Word
    <2> SUFFICES ASSUME n.kind \notin Leaves \cup Unary PROVE b \in Word
      OBVIOUS
    <2>1. n.right \in 1 .. i - 1
      BY ScalarShape, NodeShape
    <2>2. n.right \in 1 .. Len(expr)
      BY <2>1, ScalarShape
    <2> QED
      BY <2>2, OperandInRowType
  <1>4. OperandInRow(i) \in Word /\ val_res \in Word
    BY OperandInRowType DEF ScalarInv, ScalarTypeOK
  <1>5. Power2[W] \in Nat \ {0}
    BY ScalarShape
  <1>6. n.kind \in {"ADD", "SUB", "GT", "LT", "EQ", "AND", "OR"} =>
            a \in Int /\ b \in Int
    BY <1>2, <1>3, <1>5 DEF Leaves, Unary, Word
  <1>7. Truth(a > b) \in Word /\ Truth(a < b) \in Word /\ Truth(a = b) \in Word
    BY BitsAreWords DEF Truth
  <1>8. /\ WordOf(BitsOf(a) \cap BitsOf(b)) \in Word
        /\ WordOf(BitsOf(a) \cup BitsOf(b)) \in Word
    BY WordOfIsWord
  <1>9. n.kind \in {"ADD", "SUB"} =>
            ((a + b) % Power2[W]) \in Word /\ ((a - b) % Power2[W]) \in Word
    BY SMTT(30), <1>5, <1>6 DEF Word
  <1> HIDE DEF n, a, b
  <1>10. Result(i) =
           CASE n.kind \in {"LOAD", "CONST"} -> OperandInRow(i)
             [] n.kind = "ADD" -> (a + b) % Power2[W]
             [] n.kind = "SUB" -> (a - b) % Power2[W]
             [] n.kind = "GT" -> Truth(a > b)
             [] n.kind = "LT" -> Truth(a < b)
             [] n.kind = "EQ" -> Truth(a = b)
             [] n.kind = "AND" -> WordOf(BitsOf(a) \cap BitsOf(b))
             [] n.kind = "OR" -> WordOf(BitsOf(a) \cup BitsOf(b))
             [] OTHER -> val_res
    BY DEF Result, n, a, b
  <1> QED
    BY <1>4, <1>7, <1>8, <1>9, <1>10

LEMMA ScalarInvInit == ScalarInit => ScalarInv
  <1> SUFFICES ASSUME ScalarInit PROVE ScalarInv
    OBVIOUS
  <1>1. IsTree(expr, FieldNames)
    BY TreesAssumption DEF ScalarInit
  <1>2. Len(expr) \in Nat \ {0}
    BY <1>1, TreeShape
  <1> QED
    BY <1>2, BitsAreWords, WAssumption
       DEF ScalarInit, ScalarInv, ScalarTypeOK

LEMMA ScalarInvStep == ScalarInv /\ [ScalarNext]_scalar_vars => ScalarInv'
  <1> SUFFICES ASSUME ScalarInv, [ScalarNext]_scalar_vars PROVE ScalarInv'
    OBVIOUS
  <1>1. /\ Len(AllNodes(expr)) \in Nat \ {0}
        /\ Len(AllNodes(expr)) <= Len(expr)
        /\ \A k \in 1 .. Len(AllNodes(expr)) :
               AllNodes(expr)[k] \in 1 .. Len(expr)
    BY ScalarShape, AllNodesOrder, AllNodesFit
  <1>2. CASE ScalarCompile
    BY <1>1, <1>2 DEF ScalarCompile, ScalarInv, ScalarTypeOK, inputs
  <1>3. CASE ScalarReject
    BY <1>3 DEF ScalarReject, ScalarInv, ScalarTypeOK, inputs
  <1>4. CASE EvalNode
    <2>1. /\ phase = "run" /\ all_nodes = AllNodes(expr)
          /\ row_index < W /\ pos \in 1 .. Len(AllNodes(expr))
      BY <1>1, <1>4 DEF EvalNode, ScalarInv
    <2>2. all_nodes[pos] \in 1 .. Len(expr)
      BY <1>1, <2>1
    <2>3. val_res' \in Word
      BY <1>4, <2>1, <2>2, ResultType DEF EvalNode
    <2>4. scratchpad' \in [DOMAIN expr -> Word]
      BY <1>4, <2>3 DEF EvalNode, ScalarInv, ScalarTypeOK
    <2>5. pos' = pos + 1 /\ pos' \in 1 .. Len(AllNodes(expr)) + 1
              /\ pos' \in 1 .. Len(expr) + 1
      BY <1>1, <1>4, <2>1, ScalarShape DEF EvalNode
    <2> QED
      BY <1>4, <2>1, <2>3, <2>4, <2>5
         DEF EvalNode, ScalarInv, ScalarTypeOK, inputs
  <1>5. CASE NextRow
    <2>1. row_index \in 0 .. W /\ row_index < W /\ phase = "run"
      BY <1>5 DEF NextRow, ScalarInv, ScalarTypeOK
    <2>2. row_index' \in 0 .. W
      BY <1>5, <2>1, ScalarShape DEF NextRow
    <2>3. final_mask' \subseteq Rows
      BY <1>5 DEF NextRow, Shifted, ScalarInv, ScalarTypeOK
    <2>4. 1 \in 1 .. Len(AllNodes(expr)) + 1 /\ 1 \in 1 .. Len(expr) + 1
      BY <1>1, ScalarShape
    <2> QED
      BY <1>5, <2>1, <2>2, <2>3, <2>4
         DEF NextRow, ScalarInv, ScalarTypeOK, inputs
  <1>6. CASE ReturnMask
    BY <1>6 DEF ReturnMask, ScalarInv, ScalarTypeOK, inputs
  <1>7. CASE UNCHANGED scalar_vars
    BY <1>7 DEF scalar_vars, ScalarInv, ScalarTypeOK, inputs
  <1> QED
    BY <1>2, <1>3, <1>4, <1>5, <1>6, <1>7 DEF ScalarNext, ScalarFinished

LEMMA ScalarInvHolds == ScalarSpec => []ScalarInv
  BY ScalarInvInit, ScalarInvStep, PTL DEF ScalarSpec

\* Registers, scratchpad and mask of the scalar kernel keep their types, for
\* every tree and every width of a word.
THEOREM ScalarTypeCorrect == ScalarSpec => []ScalarTypeOK
  <1>1. ScalarInv => ScalarTypeOK
    BY DEF ScalarInv
  <1> QED
    BY <1>1, ScalarInvHolds, PTL

\* The nodes whose value is a truth value.
TruthKinds == {"GT", "LT", "EQ", "AND", "OR"}

LEMMA RowsAreRows ==
    ASSUME ScalarInv, NEW r \in Rows
    PROVE  /\ RowOf(r) \in [FieldNames -> Int]
           /\ \A f \in FieldNames : RowOf(r)[f] = data[f][r]
  <1>1. \A f \in FieldNames : data[f][r] \in Word
    BY DEF ScalarInv
  <1>2. Word \subseteq Int
    BY ScalarShape DEF Word
  <1> QED
    BY <1>1, <1>2 DEF RowOf

\* In a supported tree these nodes are 0 or 1.
LEMMA TruthValues ==
    ASSUME ScalarInv, ScalarSupported, NEW r \in Rows,
           NEW i \in 1 .. Len(expr), expr[i].kind \in TruthKinds
    PROVE  Values(expr, RowOf(r))[i] \in {0, 1}
  <1> DEFINE N == Len(expr)
             v == Values(expr, RowOf(r))
             T == {j \in 0 .. N : j > 0 /\ expr[j].kind \in TruthKinds =>
                                      v[j] \in {0, 1}}
  <1>1. N \in Nat /\ IsTree(expr, FieldNames)
    BY ScalarShape
  <1>2. \A j \in 1 .. N : v[j] = Apply(expr[j], v[expr[j].left], v[expr[j].right],
                                       v[expr[j].cond], RowOf(r))
    BY <1>1, RowsAreRows, ValuesAre
  <1>3. v \in [0 .. N -> Int]
    BY <1>1, RowsAreRows, ValuesAre
  <1> HIDE DEF v
  <1>4. ASSUME NEW j \in 0 .. N, \A m \in 0 .. j - 1 : m \in T
        PROVE  j \in T
    <2> SUFFICES ASSUME j > 0, expr[j].kind \in TruthKinds
                 PROVE  v[j] \in {0, 1}
      OBVIOUS
    <2> DEFINE n == expr[j]
               a == v[n.left]
               b == v[n.right]
    <2>1. j \in 1 .. N
      BY <1>1
    <2>2. v[j] = Apply(n, a, b, v[n.cond], RowOf(r))
      BY <1>2, <2>1
    <2>3. CASE n.kind \in {"GT", "LT", "EQ"}
      <3> HIDE DEF n, a, b
      <3>1. v[j] \in {Truth(a > b), Truth(a < b), Truth(a = b)}
        BY <2>2, <2>3 DEF Apply
      <3> QED
        BY <3>1 DEF Truth
    <2>4. CASE n.kind = "OR"
      <3> HIDE DEF n, a, b
      <3>1. v[j] = Truth(a + b > 0)
        BY <2>2, <2>4 DEF Apply
      <3> QED
        BY <3>1 DEF Truth
    <2>5. CASE n.kind = "AND"
      <3>1. n.left \in 1 .. j - 1 /\ n.right \in 1 .. j - 1
        BY <1>1, <2>1, <2>5, NodeShape DEF Leaves, Unary
      <3>2. expr[n.left].kind \in TruthKinds /\ expr[n.right].kind \in TruthKinds
        <4>1. {expr[n.left].kind, expr[n.right].kind} \subseteq
                  OperandKinds(expr, j)
          BY <1>1, <3>1 DEF OperandKinds
        <4>2. OperandKinds(expr, j) \cap (Leaves \cup Arithmetic) = {}
          BY <2>1, <2>5 DEF ScalarSupported
        <4>3. {expr[n.left].kind, expr[n.right].kind} \subseteq Kinds(expr)
          BY <1>1, <2>1, <3>1, ScalarShape DEF Kinds
        <4>4. Kinds(expr) \cap {"NOT", "SELECT", "LSL", "LSR"} = {}
          BY DEF ScalarSupported
        <4>5. {expr[n.left].kind, expr[n.right].kind} \subseteq NodeKinds
          BY SMTT(30), <1>1, <2>1, <3>1, TreeShape
        <4> QED
          BY <4>1, <4>2, <4>3, <4>4, <4>5
             DEF NodeKinds, Leaves, Unary, Arithmetic, TruthKinds
      <3>3. a \in {0, 1} /\ b \in {0, 1}
        BY <1>1, <1>4, <2>1, <3>1, <3>2
      <3> HIDE DEF n, a, b
      <3>4. v[j] = a * b
        BY <2>2, <2>5 DEF Apply
      <3> QED
        BY <3>3, <3>4
    <2> QED
      BY <2>3, <2>4, <2>5 DEF TruthKinds
  <1> HIDE DEF T
  <1>5. 0 .. N \subseteq T
    BY <1>1, <1>4, StrongInduction
  <1>6. i \in T
    BY <1>1, <1>5
  <1> QED
    BY <1>1, <1>6 DEF T, v

\* The bits of a truth value.
LEMMA BitsOfTruth ==
    BitsOf(0) = {} /\ BitsOf(1) = {0} /\ WordOf({}) = 0 /\ WordOf({0}) = 1
  <1>1. W \in Nat \ {0} /\ 0 \in Bits
    BY WAssumption DEF Bits
  <1>2. \A b \in Bits : b \in Nat /\ Power2[b] \in Nat \ {0}
    BY Powers DEF Bits
  <1>3. BitsOf(0) = {}
    <2>1. \A b \in Bits : BitOf(0, b) = 0
      <3> TAKE b \in Bits
      <3>1. (0 \div Power2[b]) = 0
        BY <1>2
      <3> QED
        BY <3>1 DEF BitOf
    <2> QED
      BY <2>1 DEF BitsOf
  <1>4. BitOf(1, 0) = 1
    BY Powers DEF BitOf
  <1>5. \A b \in Bits \ {0} : BitOf(1, b) = 0
    <2> TAKE b \in Bits \ {0}
    <2>1. b - 1 \in Nat /\ b - 1 + 1 = b
      BY DEF Bits
    <2>2. Power2[b] = 2 * Power2[b - 1] /\ Power2[b - 1] \in Nat \ {0}
      BY <2>1, Powers
    <2>3. Power2[b] \in Nat /\ Power2[b] > 1
      BY <2>2
    <2>4. (1 \div Power2[b]) = 0
      BY <2>3
    <2> QED
      BY <2>4 DEF BitOf
  <1>6. BitsOf(1) = {0}
    BY <1>1, <1>4, <1>5 DEF BitsOf
  <1> QED
    BY <1>3, <1>6, BitsAreWords, WordOfBits

\* An instruction group computes the value of its node from the values of the
\* nodes before it.
LEMMA ResultIsValue ==
    ASSUME ScalarInv, ScalarSupported, ScratchpadIsCurrent,
           phase = "run", row_index < W, pos \in 1 .. Len(all_nodes)
    PROVE  Result(all_nodes[pos]) =
               Values(expr, RowOf(row_index))[all_nodes[pos]]
  <1> DEFINE row == RowOf(row_index)
             v == Values(expr, row)
             i == all_nodes[pos]
             n == expr[i]
             a == OperandInRow(n.left)
             b == OperandInRow(n.right)
  <1>1. /\ IsTree(expr, FieldNames)
        /\ all_nodes = AllNodes(expr)
        /\ row_index \in Rows
        /\ Len(expr) \in Nat
    BY ScalarShape DEF ScalarInv, ScalarTypeOK, Rows
  <1>2. /\ \A k \in 1 .. Len(all_nodes) : all_nodes[k] \in 1 .. Len(expr)
        /\ ChildrenBefore(expr, all_nodes)
    BY <1>1, AllNodesOrder
  <1>3. i \in 1 .. Len(expr)
    BY <1>2
  <1>4. row \in [FieldNames -> Int]
            /\ \A f \in FieldNames : row[f] = data[f][row_index]
    BY <1>1, RowsAreRows
  <1>5. /\ v \in [0 .. Len(expr) -> Int]
        /\ \A j \in 1 .. Len(expr) :
               v[j] = Apply(expr[j], v[expr[j].left], v[expr[j].right],
                            v[expr[j].cond], row)
    BY <1>1, <1>4, ValuesAre
  <1>6. \A k \in 1 .. pos - 1 : scratchpad[all_nodes[k]] = v[all_nodes[k]]
    BY DEF ScratchpadIsCurrent
  <1> HIDE DEF v, row
  <1>7. ASSUME NEW j \in 1 .. Len(expr), expr[j].kind \in {"LOAD", "CONST"}
        PROVE  OperandInRow(j) = v[j]
    <2>1. CASE expr[j].kind = "LOAD"
      <3>1. expr[j].field \in FieldNames
        BY <1>1, <2>1, NodeShape
      <3>2. v[j] = row[expr[j].field]
        BY <1>5, <2>1 DEF Apply
      <3> QED
        BY <1>4, <2>1, <3>1, <3>2 DEF OperandInRow
    <2>2. CASE expr[j].kind = "CONST"
      BY <1>5, <2>2 DEF Apply, OperandInRow
    <2> QED
      BY <1>7, <2>1, <2>2
  <1>8. ASSUME NEW c \in Children(expr, i)
        PROVE  OperandInRow(c) = v[c]
    <2>1. PICK k \in 1 .. pos - 1 : all_nodes[k] = c
      BY <1>2 DEF ChildrenBefore
    <2>2. c \in 1 .. Len(expr) /\ scratchpad[c] = v[c]
      BY <1>2, <1>6, <2>1
    <2>3. CASE expr[c].kind \in {"LOAD", "CONST"}
      BY <1>7, <2>2, <2>3
    <2>4. CASE expr[c].kind \notin {"LOAD", "CONST"}
      BY <2>2, <2>4 DEF OperandInRow
    <2> QED
      BY <2>3, <2>4
  <1>9. n.kind \notin Leaves => n.left \in Children(expr, i) /\ n.left \in 1 .. Len(expr)
    <2> SUFFICES ASSUME n.kind \notin Leaves
                 PROVE  n.left \in Children(expr, i) /\ n.left \in 1 .. Len(expr)
      OBVIOUS
    <2>1. n.left \in 1 .. i - 1
      BY <1>1, <1>3, NodeShape
    <2> QED
      BY <1>1, <1>3, <2>1 DEF Children
  <1>10. n.kind \notin Leaves \cup Unary =>
             n.right \in Children(expr, i) /\ n.right \in 1 .. Len(expr)
    <2> SUFFICES ASSUME n.kind \notin Leaves \cup Unary
                 PROVE  n.right \in Children(expr, i) /\ n.right \in 1 .. Len(expr)
      OBVIOUS
    <2>1. n.right \in 1 .. i - 1
      BY <1>1, <1>3, NodeShape
    <2> QED
      BY <1>1, <1>3, <2>1 DEF Children
  <1>11. n.kind \in {"LOAD", "CONST", "ADD", "SUB"} \cup TruthKinds
    <2>1. n.kind \in Kinds(expr) /\ n.kind \in NodeKinds
      BY <1>1, <1>3, ScalarShape, TreeShape DEF Kinds
    <2> QED
      BY <2>1
         DEF ScalarSupported, NodeKinds, Leaves, Unary, Arithmetic, TruthKinds
  <1>12. n.kind \in {"ADD", "SUB"} \cup TruthKinds =>
             a = v[n.left] /\ b = v[n.right]
    BY <1>8, <1>9, <1>10 DEF Leaves, Unary, TruthKinds
  <1>13. n.kind \in {"AND", "OR"} => a \in {0, 1} /\ b \in {0, 1}
    <2> SUFFICES ASSUME n.kind \in {"AND", "OR"}
                 PROVE  a \in {0, 1} /\ b \in {0, 1}
      OBVIOUS
    <2>1. n.left \in 1 .. Len(expr) /\ n.right \in 1 .. Len(expr)
              /\ n.left # 0 /\ n.right # 0
      BY <1>9, <1>10 DEF Leaves, Unary
    <2>2. {expr[n.left].kind, expr[n.right].kind} \subseteq OperandKinds(expr, i)
      BY <2>1 DEF OperandKinds
    <2>3. OperandKinds(expr, i) \cap (Leaves \cup Arithmetic) = {}
      BY <1>3 DEF ScalarSupported
    <2>4. {expr[n.left].kind, expr[n.right].kind} \subseteq
              Kinds(expr) \cap NodeKinds
      <3>1. {expr[n.left].kind, expr[n.right].kind} \subseteq NodeKinds
        BY SMTT(30), <1>1, <2>1, TreeShape
      <3> QED
        BY <2>1, <3>1, ScalarShape DEF Kinds
    <2>5. Kinds(expr) \cap {"NOT", "SELECT", "LSL", "LSR"} = {}
      BY DEF ScalarSupported
    <2>6. expr[n.left].kind \in TruthKinds /\ expr[n.right].kind \in TruthKinds
      BY <2>2, <2>3, <2>4, <2>5
         DEF NodeKinds, Leaves, Unary, Arithmetic, TruthKinds
    <2>7. v[n.left] \in {0, 1} /\ v[n.right] \in {0, 1}
      BY <1>1, <2>1, <2>6, TruthValues DEF v, row
    <2> QED
      BY <1>12, <2>7 DEF TruthKinds
  <1>14. v[i] = Apply(n, v[n.left], v[n.right], v[n.cond], row)
    BY <1>3, <1>5
  <1> DEFINE x == v[n.left]
             y == v[n.right]
  <1>15. n.kind \in {"LOAD", "CONST"} => OperandInRow(i) = v[i]
    BY <1>3, <1>7
  <1>16. Result(i) =
           CASE n.kind \in {"LOAD", "CONST"} -> OperandInRow(i)
             [] n.kind = "ADD" -> (a + b) % Power2[W]
             [] n.kind = "SUB" -> (a - b) % Power2[W]
             [] n.kind = "GT" -> Truth(a > b)
             [] n.kind = "LT" -> Truth(a < b)
             [] n.kind = "EQ" -> Truth(a = b)
             [] n.kind = "AND" -> WordOf(BitsOf(a) \cap BitsOf(b))
             [] n.kind = "OR" -> WordOf(BitsOf(a) \cup BitsOf(b))
             [] OTHER -> val_res
    BY DEF Result
  <1> HIDE DEF i, n, a, b
  <1>17. ASSUME n.kind \in {"LOAD", "CONST"}
         PROVE  Result(i) = v[i]
    BY <1>15, <1>16, <1>17
  <1>18. ASSUME n.kind \in {"ADD", "SUB"}
         PROVE  Result(i) = v[i]
    BY <1>12, <1>14, <1>16, <1>18 DEF Apply
  <1>19. ASSUME n.kind \in {"GT", "LT", "EQ"}
         PROVE  Result(i) = v[i]
    BY <1>12, <1>14, <1>16, <1>19 DEF Apply, TruthKinds
  <1>20. ASSUME n.kind = "AND"
         PROVE  Result(i) = v[i]
    <2>1. a = x /\ b = y /\ a \in {0, 1} /\ b \in {0, 1}
      BY <1>12, <1>13, <1>20 DEF TruthKinds
    <2>2. v[i] = a * b
      BY <1>14, <1>20, <2>1 DEF Apply
    <2>3. Result(i) = WordOf(BitsOf(a) \cap BitsOf(b))
      BY <1>16, <1>20
    <2>4. CASE a = 1 /\ b = 1
      <3>1. BitsOf(a) \cap BitsOf(b) = {0}
        BY <2>4, BitsOfTruth
      <3>2. Result(i) = 1
        BY <2>3, <3>1, BitsOfTruth
      <3>3. a * b = 1
        BY <2>4
      <3> QED
        BY <2>2, <3>2, <3>3
    <2>5. CASE a = 0 \/ b = 0
      <3>1. BitsOf(a) \cap BitsOf(b) = {}
        BY <2>5, BitsOfTruth
      <3>2. a * b = 0
        BY <2>1, <2>5
      <3> QED
        BY <2>2, <2>3, <3>1, <3>2, BitsOfTruth
    <2> QED
      BY <2>1, <2>4, <2>5
  <1>21. ASSUME n.kind = "OR"
         PROVE  Result(i) = v[i]
    <2>1. a = x /\ b = y /\ a \in {0, 1} /\ b \in {0, 1}
      BY <1>12, <1>13, <1>21 DEF TruthKinds
    <2>2. v[i] = Truth(a + b > 0)
      BY <1>14, <1>21, <2>1 DEF Apply
    <2>3. Result(i) = WordOf(BitsOf(a) \cup BitsOf(b))
      BY <1>16, <1>21
    <2>4. CASE a = 0 /\ b = 0
      <3>1. BitsOf(a) \cup BitsOf(b) = {}
        BY <2>4, BitsOfTruth
      <3>2. Truth(a + b > 0) = 0
        BY <2>4 DEF Truth
      <3>3. Result(i) = 0
        BY <2>3, <3>1, BitsOfTruth
      <3> QED
        BY <2>2, <3>2, <3>3
    <2>5. CASE a = 1 \/ b = 1
      <3>1. BitsOf(a) \cup BitsOf(b) = {0}
        BY <2>1, <2>5, BitsOfTruth
      <3>2. Truth(a + b > 0) = 1
        BY <2>1, <2>5 DEF Truth
      <3>3. Result(i) = 1
        BY <2>3, <3>1, BitsOfTruth
      <3> QED
        BY <2>2, <3>2, <3>3
    <2> QED
      BY <2>1, <2>4, <2>5
  <1> QED
    BY <1>11, <1>17, <1>18, <1>19, <1>20, <1>21 DEF TruthKinds, v, row, i

\* The scratchpad holds the values of the nodes evaluated in this row, the
\* register that of the last of them.
ScratchInv ==
    /\ ScratchpadIsCurrent
    /\ phase = "run" /\ pos > 1 => val_res = scratchpad[all_nodes[pos - 1]]

LEMMA ScratchInit == ScalarInit => ScratchInv
  BY DEF ScalarInit, ScratchInv, ScratchpadIsCurrent

LEMMA ScratchStep ==
    ScalarInv /\ ScratchInv /\ [ScalarNext]_scalar_vars => ScratchInv'
  <1> SUFFICES ASSUME ScalarInv, ScratchInv, [ScalarNext]_scalar_vars
               PROVE  ScratchInv'
    OBVIOUS
  <1>1. ASSUME inputs' = inputs, row_index' = row_index
        PROVE  /\ ScalarSupported' <=> ScalarSupported
               /\ expr' = expr
               /\ RowOf(row_index)' = RowOf(row_index)
    BY <1>1 DEF inputs, ScalarSupported, RowOf
  <1>2. CASE ScalarCompile
    BY <1>2 DEF ScalarCompile, ScalarInv, ScratchInv, ScratchpadIsCurrent
  <1>3. CASE ScalarReject
    BY <1>3 DEF ScalarReject, ScratchInv, ScratchpadIsCurrent
  <1>4. CASE EvalNode
    <2> DEFINE i == all_nodes[pos]
               v == Values(expr, RowOf(row_index))
    <2>1. /\ phase = "run" /\ phase' = "run"
          /\ all_nodes' = all_nodes /\ all_nodes = AllNodes(expr)
          /\ pos \in 1 .. Len(all_nodes) /\ pos' = pos + 1
          /\ row_index < W /\ row_index' = row_index /\ inputs' = inputs
          /\ val_res' = Result(i)
          /\ scratchpad' = [scratchpad EXCEPT ![i] = val_res']
          /\ scratchpad \in [DOMAIN expr -> Word]
      <3>1. Len(AllNodes(expr)) \in Nat
        BY ScalarShape, AllNodesOrder
      <3> QED
        BY <1>4, <3>1 DEF EvalNode, ScalarInv, ScalarTypeOK
    <2>2. /\ \A k \in 1 .. Len(all_nodes) : all_nodes[k] \in DOMAIN expr
          /\ Distinct(all_nodes)
      BY <2>1, ScalarShape, AllNodesOrder
    <2>3. \A k \in 1 .. pos - 1 : scratchpad'[all_nodes[k]] = scratchpad[all_nodes[k]]
      BY <2>1, <2>2 DEF Distinct
    <2>4. scratchpad'[i] = val_res'
      BY <2>1, <2>2
    <2>5. ScalarSupported => val_res' = v[i]
      BY <2>1, ResultIsValue DEF ScratchInv
    <2>6. ScalarSupported =>
              \A k \in 1 .. pos - 1 : scratchpad[all_nodes[k]] = v[all_nodes[k]]
      BY <2>1 DEF ScratchInv, ScratchpadIsCurrent
    <2>7. ScalarSupported =>
              \A k \in 1 .. pos : scratchpad'[all_nodes[k]] = v[all_nodes[k]]
      <3>1. \A k \in 1 .. pos : k \in 1 .. pos - 1 \/ k = pos
        BY <2>1
      <3> QED
        BY <2>3, <2>4, <2>5, <2>6, <3>1
    <2>8. Values(expr, RowOf(row_index))' = v
      BY <1>1, <2>1
    <2>9. pos' - 1 = pos
      BY <2>1
    <2> HIDE DEF v
    <2> QED
      BY <1>1, <2>1, <2>4, <2>7, <2>8, <2>9 DEF ScratchInv, ScratchpadIsCurrent
  <1>5. CASE NextRow
    BY <1>5 DEF NextRow, ScratchInv, ScratchpadIsCurrent
  <1>6. CASE ReturnMask
    BY <1>6 DEF ReturnMask, ScratchInv, ScratchpadIsCurrent
  <1>7. CASE UNCHANGED scalar_vars
    BY <1>1, <1>7 DEF scalar_vars, ScratchInv, ScratchpadIsCurrent
  <1> QED
    BY <1>2, <1>3, <1>4, <1>5, <1>6, <1>7 DEF ScalarNext, ScalarFinished

LEMMA ScratchHolds == ScalarSpec => []ScratchInv
  BY ScratchInit, ScratchStep, ScalarInvHolds, PTL DEF ScalarSpec

\* In every row the scratchpad holds the values of the nodes evaluated so far
\* and nothing that is left over from the row before.
THEOREM ScalarScratchpad == ScalarSpec => []ScratchpadIsCurrent
  <1>1. ScratchInv => ScratchpadIsCurrent
    BY DEF ScratchInv
  <1> QED
    BY <1>1, ScratchHolds, PTL

\* Shifting a truth value sets the bit of this row or none.
LEMMA ShiftedTruth ==
    ASSUME ScalarInv, row_index < W, NEW v \in {0, 1}
    PROVE  Shifted(v) = IF v = 1 THEN {row_index} ELSE {}
  <1>1. row_index \in Rows /\ Rows = Bits /\ W \in Nat
    BY ScalarShape DEF ScalarInv, ScalarTypeOK, Rows
  <1>2. \A r \in Rows : r >= row_index =>
            r - row_index \in Bits /\ (BitOf(v, r - row_index) = 1 <=>
                                           r - row_index \in BitsOf(v))
    BY <1>1 DEF Bits, BitsOf
  <1>3. \A b \in Bits : b \in BitsOf(v) <=> v = 1 /\ b = 0
    BY BitsOfTruth
  <1>4. \A r \in Rows : r >= row_index /\ BitOf(v, r - row_index) = 1 <=>
            v = 1 /\ r = row_index
    <2> SUFFICES ASSUME NEW r \in Rows
                 PROVE  r >= row_index /\ BitOf(v, r - row_index) = 1 <=>
                            v = 1 /\ r = row_index
      OBVIOUS
    <2>1. r \in Nat /\ row_index \in Nat
      BY <1>1 DEF Bits
    <2>2. r - row_index = 0 <=> r = row_index
      BY <2>1
    <2>3. CASE r >= row_index
      BY <1>2, <1>3, <2>2, <2>3
    <2>4. CASE ~(r >= row_index)
      BY <2>1, <2>4
    <2> QED
      BY <2>3, <2>4
  <1> QED
    BY <1>1, <1>4 DEF Shifted

LEMMA ScalarMaskStep ==
    ScalarInv /\ ScratchInv /\ ScalarMaskIsMeaning
        /\ [ScalarNext]_scalar_vars => ScalarMaskIsMeaning'
  <1> SUFFICES ASSUME ScalarInv, ScratchInv, ScalarMaskIsMeaning,
                      [ScalarNext]_scalar_vars
               PROVE  ScalarMaskIsMeaning'
    OBVIOUS
  <1>1. ASSUME inputs' = inputs
        PROVE  /\ ScalarSupported' <=> ScalarSupported
               /\ expr' = expr
               /\ \A r : RowOf(r)' = RowOf(r)
    BY <1>1 DEF inputs, ScalarSupported, RowOf
  <1>2. CASE ScalarCompile
    <2>1. final_mask' = {} /\ row_index' = 0
      BY <1>2 DEF ScalarCompile, ScalarInv
    <2>2. 0 .. 0 - 1 = {}
      OBVIOUS
    <2> QED
      BY <2>1, <2>2 DEF ScalarMaskIsMeaning
  <1>3. CASE ScalarReject
    BY <1>3 DEF ScalarReject, ScalarMaskIsMeaning
  <1>4. CASE EvalNode \/ ReturnMask \/ UNCHANGED scalar_vars
    <2>1. /\ inputs' = inputs
          /\ row_index' = row_index
          /\ final_mask' = final_mask
          /\ phase' \in {"run", "done"} => phase \in {"run", "done"}
      BY <1>4 DEF EvalNode, ReturnMask, scalar_vars
    <2> QED
      BY <1>1, <2>1 DEF ScalarMaskIsMeaning
  <1>5. CASE NextRow
    <2> SUFFICES ASSUME ScalarSupported
                 PROVE  final_mask' =
                            {r \in 0 .. row_index : Meaning(expr, RowOf(r)) = 1}
      <3>1. /\ inputs' = inputs
            /\ row_index' = row_index + 1
            /\ row_index \in Nat
        BY <1>5 DEF NextRow, ScalarInv, ScalarTypeOK
      <3>2. row_index' - 1 = row_index
        BY <3>1
      <3> QED
        BY <1>1, <3>1, <3>2 DEF ScalarMaskIsMeaning
    <2> DEFINE v == Values(expr, RowOf(row_index))
               N == Len(all_nodes)
    <2>1. /\ phase = "run" /\ row_index < W /\ row_index \in Nat
          /\ all_nodes = AllNodes(expr)
          /\ pos > N /\ pos \in 1 .. N + 1
          /\ final_mask' = final_mask \cup Shifted(val_res)
      BY <1>5 DEF NextRow, ScalarInv, ScalarTypeOK
    <2>2. N \in Nat \ {0} /\ all_nodes[N] = Len(expr)
      BY <2>1, ScalarShape, AllNodesOrder
    <2>3. pos = N + 1 /\ pos - 1 = N /\ N \in 1 .. pos - 1 /\ pos > 1
      BY <2>1, <2>2
    <2>4. val_res = scratchpad[all_nodes[N]]
      BY <2>1, <2>3 DEF ScratchInv
    <2>5. scratchpad[all_nodes[N]] = v[all_nodes[N]]
      BY <2>1, <2>3 DEF ScratchInv, ScratchpadIsCurrent
    <2>6. val_res = Meaning(expr, RowOf(row_index))
      BY <2>2, <2>4, <2>5 DEF Meaning
    <2>7. val_res \in {0, 1}
      <3>1. row_index \in Rows /\ Len(expr) \in 1 .. Len(expr)
        BY <2>1, ScalarShape DEF Rows
      <3>2. expr[Len(expr)].kind \in TruthKinds
        BY DEF ScalarSupported, TruthKinds
      <3>3. v[Len(expr)] \in {0, 1}
        BY <3>1, <3>2, TruthValues
      <3> QED
        BY <2>2, <2>4, <2>5, <3>3
    <2>8. Shifted(val_res) = IF val_res = 1 THEN {row_index} ELSE {}
      BY <2>1, <2>7, ShiftedTruth
    <2>9. final_mask = {r \in 0 .. row_index - 1 : Meaning(expr, RowOf(r)) = 1}
      BY <2>1 DEF ScalarMaskIsMeaning
    <2>10. \A r : r \in 0 .. row_index <=> r \in 0 .. row_index - 1 \/ r = row_index
      BY <2>1
    <2> QED
      BY <2>1, <2>6, <2>8, <2>9, <2>10
  <1> QED
    BY <1>2, <1>3, <1>4, <1>5 DEF ScalarNext, ScalarFinished

\* The scalar kernel's mask is the documented meaning of the tree, row by row,
\* for every tree of the supported kinds and every width of a word.
THEOREM ScalarMask == ScalarSpec => []ScalarMaskIsMeaning
  <1>1. ScalarInit => ScalarMaskIsMeaning
    BY DEF ScalarInit, ScalarMaskIsMeaning
  <1> QED
    BY <1>1, ScalarMaskStep, ScalarInvHolds, ScratchHolds, PTL DEF ScalarSpec

-----------------------------------------------------------------------------
(* The comparisons under a spine of ANDs.                                  *)

Compared == {"GT", "LT", "EQ"}

\* What the recursion of Comparisons computes: c[i] lists those under node i.
Collects(c, e) ==
    c = [i \in 0 .. Len(e) |->
            IF i = 0 THEN <<>>
            ELSE IF e[i].kind \in {"GT", "LT", "EQ"} THEN <<i>>
            ELSE IF e[i].kind = "AND" THEN c[e[i].left] \o c[e[i].right]
            ELSE <<>>]

LEMMA CollectsExist ==
    ASSUME NEW e, NEW names, IsTree(e, names)
    PROVE  \E c : Collects(c, e)
  <1> DEFINE N == Len(e)
             S == Seq(Nat)
             At(f, i) == IF e[i].kind \in {"GT", "LT", "EQ"} THEN <<i>>
                         ELSE IF e[i].kind = "AND"
                         THEN f[e[i].left] \o f[e[i].right]
                         ELSE <<>>
             step == [i \in 1 .. N |-> [f \in [0 .. i - 1 -> S] |-> At(f, i)]]
  <1>1. N \in Nat /\ <<>> \in S
    BY TreeShape
  <1>2. \A i \in 1 .. N : e[i].left \in 0 .. i - 1 /\ e[i].right \in 0 .. i - 1
    BY TreeShape
  <1>3. \A i \in 1 .. N : \A f \in [0 .. i - 1 -> S] : step[i][f] = At(f, i)
    OBVIOUS
  <1>4. ASSUME NEW i \in 1 .. N, NEW f \in [0 .. i - 1 -> S]
        PROVE  At(f, i) \in S
    <2>1. f[e[i].left] \in Seq(Nat) /\ f[e[i].right] \in Seq(Nat)
      BY <1>2
    <2>2. <<i>> \in Seq(Nat) /\ <<>> \in Seq(Nat)
      BY <1>1
    <2>3. f[e[i].left] \o f[e[i].right] \in Seq(Nat)
      BY <2>1
    <2> QED
      BY <2>2, <2>3
  <1>5. ASSUME NEW i \in 1 .. N, NEW f, NEW g,
               \A m \in 0 .. i - 1 : g[m] = f[m]
        PROVE  At(g, i) = At(f, i)
    BY <1>2, <1>5
  <1> HIDE DEF N, S, step, At
  <1>9. IsStep(step, N, S)
    BY <1>3, <1>4 DEF IsStep
  <1>10. PICK f : IsRecursive(f, N, S, <<>>, step)
    BY <1>1, <1>9, Recursion
  <1>11. \A i \in 1 .. N : f[i] = At(f, i)
    <2> TAKE i \in 1 .. N
    <2> DEFINE g == Upto(f, i - 1)
    <2>1. f \in [0 .. N -> S]
      BY <1>10 DEF IsRecursive
    <2>2. g \in [0 .. i - 1 -> S] /\ \A m \in 0 .. i - 1 : g[m] = f[m]
      BY <1>1, <2>1 DEF Upto
    <2>3. f[i] = step[i][g]
      BY <1>10 DEF IsRecursive
    <2> HIDE DEF g
    <2> QED
      BY <1>3, <1>5, <2>2, <2>3
  <1>12. \A i \in 0 .. N : f[i] = IF i = 0 THEN <<>> ELSE At(f, i)
    <2>1. \A i \in 0 .. N : i = 0 \/ i \in 1 .. N
      BY <1>1
    <2> QED
      BY <1>10, <1>11, <2>1, Zenon DEF IsRecursive
  <1>13. f = [i \in 0 .. N |-> f[i]]
    BY <1>10 DEF IsRecursive
  <1> QED
    BY <1>12, <1>13 DEF Collects, N, At

\* The comparisons of the tree, and what they are made of.
LEMMA ComparisonsAre ==
    ASSUME NEW e, NEW names, IsTree(e, names)
    PROVE  \E c : /\ Comparisons(e) = c[Len(e)]
                  /\ c[0] = <<>>
                  /\ \A i \in 1 .. Len(e) :
                         c[i] = IF e[i].kind \in Compared THEN <<i>>
                                ELSE IF e[i].kind = "AND"
                                THEN c[e[i].left] \o c[e[i].right]
                                ELSE <<>>
  <1> DEFINE c == CHOOSE c : c = [i \in 0 .. Len(e) |->
                     IF i = 0 THEN <<>>
                     ELSE IF e[i].kind \in {"GT", "LT", "EQ"} THEN <<i>>
                     ELSE IF e[i].kind = "AND"
                     THEN c[e[i].left] \o c[e[i].right]
                     ELSE <<>>]
  <1>1. Comparisons(e) = c[Len(e)]
    BY DEF Comparisons
  <1>2. Collects(c, e)
    BY CollectsExist, Zenon DEF Collects
  <1> HIDE DEF c
  <1>3. Len(e) \in Nat
    BY TreeShape
  <1>4. c[0] = <<>>
    BY <1>2, <1>3 DEF Collects
  <1>5. ASSUME NEW i \in 1 .. Len(e)
        PROVE  c[i] = IF e[i].kind \in Compared THEN <<i>>
                      ELSE IF e[i].kind = "AND"
                      THEN c[e[i].left] \o c[e[i].right]
                      ELSE <<>>
    <2>1. i \in 0 .. Len(e) /\ i > 0 /\ i # 0
      BY <1>3
    <2> QED
      BY <1>2, <2>1 DEF Collects, Compared
  <1> QED
    BY <1>1, <1>4, <1>5

\* The comparisons are comparisons, and among the nodes the analysis reaches.
Reached(e) == {AllNodes(e)[k] : k \in 1 .. Len(AllNodes(e))}

LEMMA ReachedChildren ==
    ASSUME NEW e, NEW names, IsTree(e, names)
    PROVE  /\ Len(e) \in Reached(e)
           /\ Reached(e) \subseteq 1 .. Len(e)
           /\ \A i \in Reached(e) : Children(e, i) \subseteq Reached(e)
  <1>1. /\ \A k \in 1 .. Len(AllNodes(e)) : AllNodes(e)[k] \in 1 .. Len(e)
        /\ ChildrenBefore(e, AllNodes(e))
        /\ Len(AllNodes(e)) \in Nat \ {0}
        /\ AllNodes(e)[Len(AllNodes(e))] = Len(e)
    BY AllNodesOrder
  <1>2. Len(e) \in Reached(e)
    BY <1>1 DEF Reached
  <1>3. ASSUME NEW i \in Reached(e), NEW d \in Children(e, i)
        PROVE  d \in Reached(e)
    <2>1. PICK k \in 1 .. Len(AllNodes(e)) : i = AllNodes(e)[k]
      BY DEF Reached
    <2>2. PICK j \in 1 .. k - 1 : AllNodes(e)[j] = d
      BY <1>1, <2>1 DEF ChildrenBefore
    <2>3. j \in 1 .. Len(AllNodes(e))
      BY <1>1
    <2> QED
      BY <2>2, <2>3 DEF Reached
  <1> QED
    BY <1>1, <1>2, <1>3 DEF Reached

\* T is closed under joining: what holds of the comparisons under the
\* operands of an AND holds of those under the AND.
LEMMA ComparisonsType ==
    ASSUME NEW e, NEW names, IsTree(e, names)
    PROVE  /\ Comparisons(e) \in Seq(Nat)
           /\ \A k \in 1 .. Len(Comparisons(e)) :
                  /\ Comparisons(e)[k] \in Reached(e)
                  /\ e[Comparisons(e)[k]].kind \in Compared
  <1> DEFINE N == Len(e)
             Good == {i \in Reached(e) : e[i].kind \in Compared}
  <1>1. PICK c : /\ Comparisons(e) = c[N]
                 /\ c[0] = <<>>
                 /\ \A i \in 1 .. N :
                        c[i] = IF e[i].kind \in Compared THEN <<i>>
                               ELSE IF e[i].kind = "AND"
                               THEN c[e[i].left] \o c[e[i].right]
                               ELSE <<>>
    BY ComparisonsAre
  <1> DEFINE T == {i \in 0 .. N : i \in Reached(e) => c[i] \in Seq(Good)}
  <1>2. /\ N \in Nat \ {0}
        /\ N \in Reached(e)
        /\ Reached(e) \subseteq 1 .. N
        /\ \A i \in Reached(e) : Children(e, i) \subseteq Reached(e)
    BY ReachedChildren, TreeShape
  <1> HIDE DEF N
  <1>3. ASSUME NEW i \in 0 .. N, \A m \in 0 .. i - 1 : m \in T
        PROVE  i \in T
    <2> SUFFICES ASSUME i \in Reached(e) PROVE c[i] \in Seq(Good)
      OBVIOUS
    <2>1. i \in 1 .. N
      BY <1>2
    <2>2. CASE e[i].kind \in Compared
      <3>1. i \in Good
        BY <2>2
      <3>2. c[i] = <<i>>
        BY <1>1, <2>1, <2>2
      <3> QED
        BY <3>1, <3>2
    <2>3. CASE e[i].kind = "AND"
      <3>1. c[i] = c[e[i].left] \o c[e[i].right]
        BY <1>1, <2>1, <2>3 DEF Compared
      <3>2. e[i].left \in 1 .. i - 1 /\ e[i].right \in 1 .. i - 1
        BY <2>1, <2>3, NodeShape DEF N, Leaves, Unary
      <3>3. e[i].left \in Children(e, i) /\ e[i].right \in Children(e, i)
        BY <3>2 DEF Children
      <3>4. e[i].left \in Reached(e) /\ e[i].right \in Reached(e)
        BY <1>2, <3>3
      <3>5. c[e[i].left] \in Seq(Good) /\ c[e[i].right] \in Seq(Good)
        BY <1>3, <3>2, <3>4
      <3> HIDE DEF Good
      <3> QED
        BY <3>1, <3>5
    <2>4. CASE e[i].kind \notin Compared \cup {"AND"}
      <3>1. c[i] = <<>>
        BY <1>1, <2>1, <2>4
      <3> QED
        BY <3>1
    <2> QED
      BY <2>2, <2>3, <2>4
  <1> HIDE DEF T
  <1>4. 0 .. N \subseteq T
    BY <1>2, <1>3, StrongInduction
  <1>5. N \in T
    BY <1>2, <1>4
  <1>6. Comparisons(e) \in Seq(Good)
    BY <1>1, <1>2, <1>5 DEF T
  <1>7. Good \subseteq Nat
    BY <1>2
  <1>8. /\ Comparisons(e) \in Seq(Nat)
        /\ \A k \in 1 .. Len(Comparisons(e)) : Comparisons(e)[k] \in Good
    <2> DEFINE s == Comparisons(e)
    <2>1. s \in Seq(Good)
      BY <1>6
    <2> HIDE DEF Good, s
    <2>2. \A k \in 1 .. Len(s) : s[k] \in Good
      BY <2>1
    <2>3. s \in Seq(Nat)
      <3>1. Len(s) \in Nat /\ s \in [1 .. Len(s) -> Good]
        BY <2>1
      <3>2. s \in [1 .. Len(s) -> Nat]
        BY <1>7, <3>1, Zenon
      <3> QED
        BY <3>1, <3>2
    <2> QED
      BY <2>2, <2>3 DEF s
  <1> QED
    BY <1>8

\* The first few of a sequence.
LEMMA FirstFewIs ==
    ASSUME NEW s \in Seq(Nat), NEW n \in Nat
    PROVE  /\ FirstFew(s, n) \in Seq(Nat)
           /\ Len(FirstFew(s, n)) <= Len(s)
           /\ Len(FirstFew(s, n)) <= n
           /\ \A k \in 1 .. Len(FirstFew(s, n)) : FirstFew(s, n)[k] = s[k]
           /\ Len(s) <= n => Len(FirstFew(s, n)) = Len(s)
  <1> DEFINE m == IF Len(s) < n THEN Len(s) ELSE n
  <1>1. m \in 0 .. Len(s) /\ m <= n /\ (Len(s) <= n => m = Len(s))
    OBVIOUS
  <1>2. FirstFew(s, n) = SubSeq(s, 1, m)
    BY DEF FirstFew
  <1> HIDE DEF m
  <1>3. /\ SubSeq(s, 1, m) \in Seq(Nat)
        /\ Len(SubSeq(s, 1, m)) = m
        /\ \A k \in 1 .. m : SubSeq(s, 1, m)[k] = s[k]
    BY <1>1
  <1> QED
    BY <1>1, <1>2, <1>3

-----------------------------------------------------------------------------
(* The bit-sliced kernel.                                                  *)

\* The variables that the loops of the kernel rest on.
SlicedInv ==
    /\ TypeOK
    /\ expr \in Exprs
    /\ data \in [FieldNames -> [Lanes -> Word]]
    /\ phase \in {"compile", "rejected"} =>
           /\ prog = [adders |-> <<>>, compares |-> <<>>]
           /\ bit_index = 0 /\ pos = 1
    /\ phase \in {"arith", "compare", "done"} => prog = Program(expr)
    /\ phase = "arith" => bit_index \in 0 .. W /\ (bit_index = W => pos = 1)
    /\ phase = "compare" =>
           /\ bit_index \in -1 .. W - 1 /\ (bit_index = -1 => pos = 1)
           /\ DOMAIN gt = DOMAIN prog.compares
    /\ phase = "done" => pos = 1

LEMMA SlicedShape ==
    ASSUME SlicedInv
    PROVE  /\ IsTree(expr, FieldNames)
           /\ Len(expr) \in Nat \ {0}
           /\ DOMAIN expr = 1 .. Len(expr)
           /\ W \in Nat \ {0}
  BY TreesAssumption, TreeShape, WAssumption DEF SlicedInv

\* What the compiler decides: the adders after their operands, and the first
\* few comparisons.
LEMMA ProgramIs ==
    ASSUME NEW e \in Exprs
    PROVE  LET adders == Program(e).adders
               compares == Program(e).compares
           IN  /\ adders = NodesOfKind(e, {"ADD", "SUB"})
               /\ adders \in Seq(DOMAIN e)
               /\ \A k \in 1 .. Len(adders) : e[adders[k]].kind \in {"ADD", "SUB"}
               /\ compares \in Seq(DOMAIN e)
               /\ Program(e) \in [adders : Seq(DOMAIN e), compares : Seq(DOMAIN e)]
               /\ \A k \in 1 .. Len(compares) :
                      /\ compares[k] = Comparisons(e)[k]
                      /\ compares[k] \in Reached(e)
                      /\ e[compares[k]].kind \in Compared
  <1> DEFINE adders == NodesOfKind(e, {"ADD", "SUB"})
             all == Comparisons(e)
             compares == FirstFew(all, MaxCompares)
  <1>1. IsTree(e, FieldNames)
    BY TreesAssumption
  <1>2. DOMAIN e = 1 .. Len(e) /\ Reached(e) \subseteq 1 .. Len(e)
    BY <1>1, TreeShape, ReachedChildren
  <1>3. /\ adders \in Seq(Nat)
        /\ \A k \in 1 .. Len(adders) : /\ adders[k] \in 1 .. Len(e)
                                       /\ e[adders[k]].kind \in {"ADD", "SUB"}
    BY <1>1, KindOrder
  <1>4. /\ all \in Seq(Nat)
        /\ \A k \in 1 .. Len(all) : all[k] \in Reached(e) /\ e[all[k]].kind \in Compared
    BY <1>1, ComparisonsType
  <1> HIDE DEF all
  <1>5. MaxCompares \in Nat
    BY KernelAssumption
  <1>6. /\ compares \in Seq(Nat)
        /\ Len(compares) <= Len(all)
        /\ \A k \in 1 .. Len(compares) : compares[k] = all[k]
    BY <1>4, <1>5, FirstFewIs
  <1>7. Program(e) = [adders |-> adders, compares |-> compares]
    BY DEF Program, all
  <1> HIDE DEF adders, compares
  <1>8. \A k \in 1 .. Len(compares) :
            /\ compares[k] = all[k]
            /\ compares[k] \in Reached(e)
            /\ e[compares[k]].kind \in Compared
    <2>1. Len(compares) \in Nat /\ Len(all) \in Nat
      BY <1>4, <1>6
    <2>2. \A k \in 1 .. Len(compares) : k \in 1 .. Len(all)
      BY <1>6, <2>1
    <2> QED
      BY <1>4, <1>6, <2>2
  <1>9. adders \in Seq(DOMAIN e) /\ compares \in Seq(DOMAIN e)
    <2>1. ASSUME NEW s \in Seq(Nat),
                 \A k \in 1 .. Len(s) : s[k] \in 1 .. Len(e)
          PROVE  s \in Seq(1 .. Len(e))
      <3>1. Len(s) \in Nat /\ s \in [1 .. Len(s) -> Nat]
        OBVIOUS
      <3>2. s \in [1 .. Len(s) -> 1 .. Len(e)]
        BY <2>1, <3>1, Zenon
      <3> QED
        BY <3>1, <3>2
    <2>2. \A k \in 1 .. Len(compares) : compares[k] \in 1 .. Len(e)
      BY <1>2, <1>8
    <2> QED
      BY <1>2, <1>3, <1>6, <2>1, <2>2
  <1> QED
    BY <1>3, <1>7, <1>8, <1>9 DEF adders, all

\* Each adder once, after the adders among its operands.
LEMMA AdderOrder ==
    ASSUME SlicedInv, phase \in {"arith", "compare", "done"}
    PROVE  /\ prog.adders \in Seq(1 .. Len(expr))
           /\ Len(prog.adders) \in Nat
           /\ DOMAIN prog.adders = 1 .. Len(prog.adders)
           /\ Distinct(prog.adders)
           /\ \A k \in 1 .. Len(prog.adders) :
                  /\ prog.adders[k] \in 1 .. Len(expr)
                  /\ expr[prog.adders[k]].kind \in {"ADD", "SUB"}
                  /\ expr[prog.adders[k]].left \in 1 .. prog.adders[k] - 1
                  /\ expr[prog.adders[k]].right \in 1 .. prog.adders[k] - 1
                  /\ \A c \in {expr[prog.adders[k]].left,
                               expr[prog.adders[k]].right} :
                         expr[c].kind \in {"ADD", "SUB"} =>
                             \E j \in 1 .. k - 1 : prog.adders[j] = c
  <1> DEFINE s == prog.adders
  <1>1. IsTree(expr, FieldNames) /\ DOMAIN expr = 1 .. Len(expr)
    BY SlicedShape
  <1>2. s = NodesOfKind(expr, {"ADD", "SUB"}) /\ s \in Seq(DOMAIN expr)
    BY ProgramIs DEF SlicedInv
  <1> HIDE DEF s
  <1>3. /\ Distinct(s)
        /\ \A k \in 1 .. Len(s) :
               /\ s[k] \in 1 .. Len(expr)
               /\ expr[s[k]].kind \in {"ADD", "SUB"}
               /\ \A c \in Children(expr, s[k]) : expr[c].kind \in {"ADD", "SUB"} =>
                      \E j \in 1 .. k - 1 : s[j] = c
    <2> DEFINE K == {"ADD", "SUB"}
    <2>1. s = NodesOfKind(expr, K)
      BY <1>2
    <2> HIDE DEF K
    <2>2. /\ Distinct(s)
          /\ \A k \in 1 .. Len(s) :
                 /\ s[k] \in 1 .. Len(expr)
                 /\ expr[s[k]].kind \in K
                 /\ \A c \in Children(expr, s[k]) : expr[c].kind \in K =>
                        \E j \in 1 .. k - 1 : s[j] = c
      BY SMTT(30), <1>1, <2>1, KindOrder
    <2> QED
      BY <2>2 DEF K
  <1>4. ASSUME NEW k \in 1 .. Len(s)
        PROVE  /\ expr[s[k]].left \in 1 .. s[k] - 1
               /\ expr[s[k]].right \in 1 .. s[k] - 1
               /\ {expr[s[k]].left, expr[s[k]].right} \subseteq Children(expr, s[k])
    <2>1. /\ expr[s[k]].left \in 1 .. s[k] - 1
          /\ expr[s[k]].right \in 1 .. s[k] - 1
      BY <1>1, <1>3, NodeShape DEF Leaves, Unary
    <2>2. expr[s[k]].left # 0 /\ expr[s[k]].right # 0
      BY <2>1
    <2> QED
      BY <2>1, <2>2 DEF Children
  <1>5. s \in Seq(1 .. Len(expr)) /\ Len(s) \in Nat /\ DOMAIN s = 1 .. Len(s)
    BY <1>1, <1>2
  <1> QED
    BY <1>3, <1>4, <1>5 DEF s

\* A register holds a mask of the block's lanes.
LEMMA OperandInLanes ==
    ASSUME SlicedInv, NEW i \in 1 .. Len(expr), NEW b \in Bits
    PROVE  OperandAtBit(i, b) \subseteq Lanes
  <1>1. slot[i][b] \subseteq Lanes
    BY SMTT(30), SlicedShape DEF SlicedInv, TypeOK
  <1>2. FieldPlane(expr[i].field, b) \subseteq Lanes
    BY DEF FieldPlane
  <1>3. ConstPlane(expr[i].value, b) \subseteq Lanes
    BY DEF ConstPlane
  <1> QED
    BY <1>1, <1>2, <1>3 DEF OperandAtBit

\* The operands of the comparisons.
LEMMA CompareOperands ==
    ASSUME SlicedInv, phase \in {"arith", "compare", "done"}
    PROVE  /\ Len(prog.compares) \in Nat
           /\ DOMAIN prog.compares = 1 .. Len(prog.compares)
           /\ \A c \in 1 .. Len(prog.compares) :
                  /\ prog.compares[c] \in 1 .. Len(expr)
                  /\ prog.compares[c] = Comparisons(expr)[c]
                  /\ prog.compares[c] \in Reached(expr)
                  /\ expr[prog.compares[c]].kind \in Compared
                  /\ expr[prog.compares[c]].left \in 1 .. prog.compares[c] - 1
                  /\ expr[prog.compares[c]].right \in 1 .. prog.compares[c] - 1
  <1> DEFINE s == prog.compares
  <1>1. IsTree(expr, FieldNames) /\ Reached(expr) \subseteq 1 .. Len(expr)
    BY SlicedShape, ReachedChildren
  <1>2. /\ s \in Seq(DOMAIN expr)
        /\ \A k \in 1 .. Len(s) : /\ s[k] = Comparisons(expr)[k]
                                  /\ s[k] \in Reached(expr)
                                  /\ expr[s[k]].kind \in Compared
    BY ProgramIs DEF SlicedInv
  <1> HIDE DEF s
  <1>3. ASSUME NEW k \in 1 .. Len(s)
        PROVE  /\ s[k] \in 1 .. Len(expr)
               /\ expr[s[k]].left \in 1 .. s[k] - 1
               /\ expr[s[k]].right \in 1 .. s[k] - 1
    BY <1>1, <1>2, NodeShape DEF Leaves, Unary, Compared
  <1>4. Len(s) \in Nat /\ DOMAIN s = 1 .. Len(s)
    BY <1>2
  <1> QED
    BY <1>2, <1>3, <1>4 DEF s

LEMMA SlicedInit == Init => SlicedInv
  <1> SUFFICES ASSUME Init PROVE SlicedInv
    OBVIOUS
  <1>1. W \in Nat \ {0}
    BY WAssumption
  <1>2. prog \in [adders : Seq(DOMAIN expr), compares : Seq(DOMAIN expr)]
    <2>1. <<>> \in Seq(DOMAIN expr)
      OBVIOUS
    <2> QED
      BY <2>1 DEF Init
  <1>3. /\ carry \in [DOMAIN expr -> SUBSET Lanes]
        /\ slot \in [DOMAIN expr -> [Bits -> SUBSET Lanes]]
    BY DEF Init
  <1>4. gt \in [DOMAIN gt -> SUBSET Lanes] /\ eq \in [DOMAIN gt -> SUBSET Lanes]
    BY DEF Init
  <1>5. 1 \in 1 .. 1 + Len(<<>>) /\ 0 \in -1 .. W
    BY <1>1
  <1> QED
    BY <1>2, <1>3, <1>4, <1>5 DEF Init, SlicedInv, TypeOK

LEMMA SlicedStep == SlicedInv /\ [Next]_vars => SlicedInv'
  <1> SUFFICES ASSUME SlicedInv, [Next]_vars PROVE SlicedInv'
    OBVIOUS
  <1>1. /\ expr \in Exprs /\ W \in Nat \ {0}
        /\ prog \in [adders : Seq(DOMAIN expr), compares : Seq(DOMAIN expr)]
        /\ Len(prog.adders) \in Nat /\ Len(prog.compares) \in Nat
    BY SlicedShape DEF SlicedInv, TypeOK
  <1>2. CASE Compile
    <2>1. /\ Program(expr) \in [adders : Seq(DOMAIN expr), compares : Seq(DOMAIN expr)]
          /\ Len(Program(expr).adders) \in Nat
      BY <1>1, ProgramIs
    <2>2. [i \in DOMAIN expr |-> CarryIn(expr[i].kind)] \in
              [DOMAIN expr -> SUBSET Lanes]
      BY KernelAssumption DEF CarryIn, Lanes
    <2>3. pos' \in 1 .. 1 + Len(prog'.adders)
      BY <1>2, <2>1 DEF Compile, SlicedInv
    <2> QED
      BY <1>1, <1>2, <2>1, <2>2, <2>3 DEF Compile, SlicedInv, TypeOK, inputs
  <1>3. CASE Reject
    BY <1>3 DEF Reject, SlicedInv, TypeOK, inputs, regs
  <1>4. CASE AddNode
    <2> DEFINE i == prog.adders[pos]
               A == OperandAtBit(expr[i].left, bit_index)
               B == OperandAtBit(expr[i].right, bit_index)
               r == FullAdder(A, IF expr[i].kind = "SUB" THEN Lanes \ B ELSE B,
                              carry[i])
    <2>1. /\ phase = "arith" /\ bit_index < W /\ pos <= Len(prog.adders)
          /\ slot' = [slot EXCEPT ![i][bit_index] = r.sum]
          /\ carry' = [carry EXCEPT ![i] = r.carry]
          /\ pos' = pos + 1
          /\ UNCHANGED <<inputs, prog, phase, bit_index, gt, eq, mask>>
      BY <1>4 DEF AddNode
    <2>2. bit_index \in Bits /\ pos \in 1 .. Len(prog.adders)
      BY <1>1, <2>1 DEF SlicedInv, TypeOK, Bits
    <2>3. /\ i \in 1 .. Len(expr)
          /\ expr[i].left \in 1 .. Len(expr)
          /\ expr[i].right \in 1 .. Len(expr)
      <3>1. /\ prog.adders[pos] \in 1 .. Len(expr)
            /\ expr[prog.adders[pos]].left \in 1 .. prog.adders[pos] - 1
            /\ expr[prog.adders[pos]].right \in 1 .. prog.adders[pos] - 1
        BY <2>1, <2>2, AdderOrder
      <3>2. Len(expr) \in Nat
        BY SlicedShape
      <3>3. \A p \in 1 .. Len(expr) : \A c \in 1 .. p - 1 :
                c \in 1 .. Len(expr)
        BY <3>2
      <3> QED
        BY Zenon, <3>1, <3>3
    <2>4. A \subseteq Lanes /\ B \subseteq Lanes /\ carry[i] \subseteq Lanes
      BY <2>2, <2>3, OperandInLanes, SlicedShape DEF SlicedInv, TypeOK
    <2> HIDE DEF A, B, i
    <2>5. r.sum \subseteq Lanes /\ r.carry \subseteq Lanes
      BY <2>4 DEF FullAdder, Xor
    <2> HIDE DEF r
    <2>6. /\ carry' \in [DOMAIN expr -> SUBSET Lanes]
          /\ slot' \in [DOMAIN expr -> [Bits -> SUBSET Lanes]]
      BY <2>1, <2>5 DEF SlicedInv, TypeOK
    <2>7. pos' \in 1 .. 1 + Len(prog.adders)
      BY <1>1, <2>1, <2>2
    <2> QED
      BY <2>1, <2>6, <2>7 DEF SlicedInv, TypeOK, inputs
  <1>5. CASE AddNextBit
    BY <1>1, <1>5 DEF AddNextBit, SlicedInv, TypeOK, inputs, regs
  <1>6. CASE AddEnd
    <2>1. /\ gt' \in [DOMAIN gt' -> SUBSET Lanes]
          /\ eq' \in [DOMAIN gt' -> SUBSET Lanes]
          /\ DOMAIN gt' = DOMAIN prog.compares
      BY <1>6 DEF AddEnd
    <2>2. pos' = 1 /\ 1 \in 1 .. 1 + Len(prog.compares)
      BY <1>1, <1>6 DEF AddEnd, SlicedInv
    <2>3. bit_index' \in 0 .. W - 1 /\ bit_index' \in -1 .. W
      BY <1>1, <1>6 DEF AddEnd
    <2> QED
      BY <1>6, <2>1, <2>2, <2>3 DEF AddEnd, SlicedInv, TypeOK, inputs
  <1>7. CASE CompareNode
    <2> DEFINE n == expr[prog.compares[pos]]
               A == OperandAtBit(n.left, bit_index)
               B == OperandAtBit(n.right, bit_index)
               r == CASE n.kind = "GT" -> EmitGt(A, B, gt[pos], eq[pos])
                      [] n.kind = "LT" -> EmitGt(B, A, gt[pos], eq[pos])
                      [] n.kind = "EQ" -> [gt |-> gt[pos], eq |-> eq[pos]]
    <2>1. /\ phase = "compare" /\ bit_index >= 0 /\ pos <= Len(prog.compares)
          /\ gt' = [gt EXCEPT ![pos] = r.gt]
          /\ eq' = [eq EXCEPT ![pos] = r.eq]
          /\ pos' = pos + 1
          /\ UNCHANGED <<inputs, prog, phase, bit_index, carry, slot, mask>>
      BY <1>7 DEF CompareNode
    <2>2. bit_index \in Bits /\ pos \in 1 .. Len(prog.compares)
      BY <1>1, <2>1 DEF SlicedInv, TypeOK, Bits
    <2>3. /\ n.left \in 1 .. Len(expr)
          /\ n.right \in 1 .. Len(expr)
          /\ n.kind \in Compared
          /\ pos \in DOMAIN gt
      <3>1. /\ prog.compares[pos] \in 1 .. Len(expr)
            /\ n.left \in 1 .. prog.compares[pos] - 1
            /\ n.right \in 1 .. prog.compares[pos] - 1
            /\ n.kind \in Compared
            /\ DOMAIN prog.compares = 1 .. Len(prog.compares)
        BY <2>1, <2>2, CompareOperands
      <3>2. n.left \in 1 .. Len(expr) /\ n.right \in 1 .. Len(expr)
        BY <3>1, SlicedShape
      <3> QED
        BY <2>1, <2>2, <3>1, <3>2 DEF SlicedInv
    <2>4. /\ A \subseteq Lanes /\ B \subseteq Lanes
          /\ gt[pos] \subseteq Lanes /\ eq[pos] \subseteq Lanes
      BY <2>2, <2>3, OperandInLanes DEF SlicedInv, TypeOK
    <2>5. r.gt \subseteq Lanes /\ r.eq \subseteq Lanes
      <3> HIDE DEF A, B, n
      <3>1. /\ EmitGt(A, B, gt[pos], eq[pos]).gt \subseteq Lanes
            /\ EmitGt(A, B, gt[pos], eq[pos]).eq \subseteq Lanes
            /\ EmitGt(B, A, gt[pos], eq[pos]).gt \subseteq Lanes
            /\ EmitGt(B, A, gt[pos], eq[pos]).eq \subseteq Lanes
        BY <2>4 DEF EmitGt
      <3>2. CASE n.kind = "GT"
        BY <3>1, <3>2
      <3>3. CASE n.kind = "LT"
        BY <3>1, <3>3
      <3>4. CASE n.kind = "EQ"
        BY <2>4, <3>4
      <3> QED
        BY <2>3, <3>2, <3>3, <3>4 DEF Compared
    <2> HIDE DEF r
    <2>6. /\ gt' \in [DOMAIN gt' -> SUBSET Lanes]
          /\ eq' \in [DOMAIN gt' -> SUBSET Lanes]
          /\ DOMAIN gt' = DOMAIN gt
      BY <2>1, <2>5 DEF SlicedInv, TypeOK
    <2>7. pos' \in 1 .. 1 + Len(prog.compares)
      BY <1>1, <2>1, <2>2
    <2> QED
      BY <2>1, <2>6, <2>7 DEF SlicedInv, TypeOK, inputs
  <1>8. CASE CompareNextBit
    BY <1>1, <1>8 DEF CompareNextBit, SlicedInv, TypeOK, inputs, regs
  <1>9. CASE CompareEnd
    <2>1. mask' \subseteq Lanes
      BY <1>9 DEF CompareEnd, Fold
    <2>2. pos' = 1 /\ 1 \in 1 .. 1 + Len(prog.adders)
      BY <1>1, <1>9 DEF CompareEnd, SlicedInv
    <2> QED
      BY <1>9, <2>1, <2>2 DEF CompareEnd, SlicedInv, TypeOK, inputs
  <1>10. CASE UNCHANGED vars
    BY <1>10 DEF vars, SlicedInv, TypeOK, inputs, regs
  <1> QED
    BY <1>2, <1>3, <1>4, <1>5, <1>6, <1>7, <1>8, <1>9, <1>10
       DEF Next, Finished

LEMMA SlicedInvHolds == Spec => []SlicedInv
  BY SlicedInit, SlicedStep, PTL DEF Spec

\* Registers, scratchpad and masks keep their types and the loop indices stay
\* in the loop bodies, for every tree, block and width of a word.
THEOREM SlicedTypeCorrect == Spec => []TypeOK
  <1>1. SlicedInv => TypeOK
    BY DEF SlicedInv
  <1> QED
    BY <1>1, SlicedInvHolds, PTL

-----------------------------------------------------------------------------
(* The adders.                                                             *)

\* The lowest n bits are a matter of the bits below n.
LEMMA LowestSame ==
    ASSUME NEW S, NEW T, NEW n \in 0 .. W,
           \A m \in 0 .. n - 1 : m \in S <=> m \in T
    PROVE  Lowest(S)[n] = Lowest(T)[n]
  <1> DEFINE U == {m \in 0 .. n : Lowest(S)[m] = Lowest(T)[m]}
  <1>1. n \in Nat /\ W \in Nat
    BY WAssumption
  <1>2. 0 \in U
    BY <1>1, LowestIs
  <1>3. ASSUME NEW m \in 1 .. n, m - 1 \in U PROVE m \in U
    <2>1. m \in 1 .. W /\ m \in 0 .. n /\ m - 1 \in 0 .. n - 1
      BY <1>1
    <2>2. /\ Lowest(S)[m] = Lowest(S)[m - 1]
                 + IF m - 1 \in S THEN Power2[m - 1] ELSE 0
          /\ Lowest(T)[m] = Lowest(T)[m - 1]
                 + IF m - 1 \in T THEN Power2[m - 1] ELSE 0
      BY <2>1, LowestIs
    <2>3. m - 1 \in S <=> m - 1 \in T
      BY <2>1
    <2>4. Lowest(S)[m - 1] = Lowest(T)[m - 1]
      BY <1>3
    <2> QED
      BY <2>1, <2>2, <2>3, <2>4
  <1> HIDE DEF U
  <1>4. 0 .. n \subseteq U
    BY <1>1, <1>2, <1>3, BoundedInduction
  <1>5. n \in U
    BY <1>1, <1>4
  <1> QED
    BY <1>5 DEF U

\* What RippleCarry says of the k-th adder, lane l and the lowest b bits.
RippleAt(k, l, b) ==
    LET i == prog.adders[k]
        n == expr[i]
        c == IF l \in carry[i] THEN Power2[b] ELSE 0
        x == Low(n.left, l, b)
        y == Low(n.right, l, b)
    IN  Low(i, l, b) + c =
            IF n.kind = "ADD" THEN x + y
            ELSE x - y + Power2[b] - Truth(l # 0)

\* It holds of the bits done while the adders run, of all bits afterwards.
Ripples ==
    /\ phase = "arith" =>
           \A k \in DOMAIN prog.adders, l \in Lanes, b \in 0 .. W :
               b = BitsDone(k) => RippleAt(k, l, b)
    /\ phase \in {"compare", "done"} =>
           \A k \in DOMAIN prog.adders, l \in Lanes : RippleAt(k, l, W)

LEMMA LowIsNat ==
    ASSUME NEW i, NEW l, NEW b \in 0 .. W
    PROVE  Low(i, l, b) \in Nat
  BY ZenonT(30), LowestIs DEF Low

\* The next bit of an operand.
LEMMA LowestNext ==
    ASSUME NEW S, NEW b \in Bits
    PROVE  Lowest(S)[b + 1] = Lowest(S)[b] + IF b \in S THEN Power2[b] ELSE 0
  <1>1. PICK n \in 1 .. W : n = b + 1 /\ n - 1 = b
    BY WAssumption DEF Bits
  <1>2. Lowest(S)[n] = Lowest(S)[n - 1]
            + IF n - 1 \in S THEN Power2[n - 1] ELSE 0
    BY LowestIs
  <1> QED
    BY <1>1, <1>2

LEMMA LowNext ==
    ASSUME NEW i, NEW l, NEW b \in Bits
    PROVE  Low(i, l, b + 1) =
               Low(i, l, b) + IF l \in OperandAtBit(i, b) THEN Power2[b] ELSE 0
  <1>1. b \in LaneBits(i, l) <=> l \in OperandAtBit(i, b)
    BY DEF LaneBits
  <1> QED
    BY <1>1, LowestNext DEF Low

LEMMA LowNextAfter ==
    ASSUME NEW i, NEW l, NEW b \in Bits
    PROVE  Low(i, l, b + 1)' =
               Low(i, l, b)' + IF l \in OperandAtBit(i, b)' THEN Power2[b] ELSE 0
  <1> DEFINE S == LaneBits(i, l)'
  <1>1. b \in S <=> l \in OperandAtBit(i, b)'
    BY DEF LaneBits
  <1>2. Low(i, l, b + 1)' = Lowest(S)[b + 1] /\ Low(i, l, b)' = Lowest(S)[b]
    BY DEF Low
  <1> HIDE DEF S
  <1> QED
    BY <1>1, <1>2, LowestNext

\* What the low bits of a node depend on.
LEMMA LowKept ==
    ASSUME NEW i, NEW l, NEW b \in 0 .. W,
           \A m \in 0 .. b - 1 : OperandAtBit(i, m)' = OperandAtBit(i, m)
    PROVE  Low(i, l, b)' = Low(i, l, b)
  <1> DEFINE S == LaneBits(i, l)
             T == {m \in Bits : l \in OperandAtBit(i, m)'}
  <1>1. S = {m \in Bits : l \in OperandAtBit(i, m)}
    BY DEF LaneBits
  <1>2. LaneBits(i, l)' = T
    BY DEF LaneBits
  <1>3. Low(i, l, b) = Lowest(S)[b]
    BY DEF Low
  <1>4. Low(i, l, b)' = Lowest(T)[b]
    BY <1>2 DEF Low
  <1>5. \A m \in 0 .. b - 1 : m \in S <=> m \in T
    BY <1>1
  <1> HIDE DEF S, T
  <1> QED
    BY <1>3, <1>4, <1>5, LowestSame

\* An adder is right about the bits below b as long as these stay.
LEMMA RippleKept ==
    ASSUME NEW k, NEW l, NEW b \in 0 .. W, RippleAt(k, l, b),
           expr' = expr, prog' = prog,
           carry'[prog.adders[k]] = carry[prog.adders[k]],
           \A j \in {prog.adders[k], expr[prog.adders[k]].left,
                     expr[prog.adders[k]].right} : \A m \in 0 .. b - 1 :
               OperandAtBit(j, m)' = OperandAtBit(j, m)
    PROVE  RippleAt(k, l, b)'
  <1> DEFINE i == prog.adders[k]
             n == expr[i]
  <1>1. /\ Low(i, l, b)' = Low(i, l, b)
        /\ Low(n.left, l, b)' = Low(n.left, l, b)
        /\ Low(n.right, l, b)' = Low(n.right, l, b)
    BY LowKept
  <1> QED
    BY <1>1 DEF RippleAt

\* One full adder: with q = 2^b, the sum and carry bits of the operand bits.
Weight(S, l, q) == IF l \in S THEN q ELSE 0

Balanced(r, A, B, c, l, q) ==
    Weight(r.sum, l, q) + Weight(r.carry, l, 2 * q) =
        Weight(A, l, q) + Weight(B, l, q) + Weight(c, l, q)

LEMMA AdderBits ==
    ASSUME NEW A, NEW B, NEW c, NEW l, NEW q \in Nat,
           NEW r, r = FullAdder(A, B, c)
    PROVE  Balanced(r, A, B, c, l, q)
  <1>1. /\ l \in r.sum <=> (l \in A <=> (l \in B <=> l \in c))
        /\ l \in r.carry <=> \/ l \in A /\ l \in B
                             \/ l \in A /\ l \notin B /\ l \in c
                             \/ l \notin A /\ l \in B /\ l \in c
    BY DEF FullAdder, Xor
  <1>2. CASE l \in A /\ l \in B
    BY <1>1, <1>2 DEF Weight, Balanced
  <1>3. CASE l \in A /\ l \notin B
    BY <1>1, <1>3 DEF Weight, Balanced
  <1>4. CASE l \notin A /\ l \in B
    BY <1>1, <1>4 DEF Weight, Balanced
  <1>5. CASE l \notin A /\ l \notin B
    BY <1>1, <1>5 DEF Weight, Balanced
  <1> QED
    BY <1>2, <1>3, <1>4, <1>5

\* What the instruction group of an adder leaves alone.
LEMMA AddNodeFrame ==
    ASSUME SlicedInv, AddNode
    PROVE  LET i == prog.adders[pos]
           IN  /\ bit_index \in Bits
               /\ pos \in 1 .. Len(prog.adders)
               /\ UNCHANGED <<expr, data, prog, phase, bit_index>>
               /\ pos' = pos + 1
               /\ i \in 1 .. Len(expr)
               /\ expr[i].kind \in {"ADD", "SUB"}
               /\ expr[i].left \in 1 .. i - 1
               /\ expr[i].right \in 1 .. i - 1
               /\ slot \in [1 .. Len(expr) -> [Bits -> SUBSET Lanes]]
               /\ carry \in [1 .. Len(expr) -> SUBSET Lanes]
               /\ \A j \in 1 .. Len(expr) : j # i => carry'[j] = carry[j]
               /\ \A j \in 1 .. Len(expr), m \in Bits :
                      j # i \/ m # bit_index =>
                          OperandAtBit(j, m)' = OperandAtBit(j, m)
  <1> DEFINE i == prog.adders[pos]
  <1>1. PICK S, c : /\ phase = "arith" /\ bit_index < W /\ pos <= Len(prog.adders)
                    /\ slot' = [slot EXCEPT ![i][bit_index] = S]
                    /\ carry' = [carry EXCEPT ![i] = c]
                    /\ pos' = pos + 1
                    /\ UNCHANGED <<expr, data, prog, phase, bit_index>>
    BY Zenon DEF AddNode, inputs
  <1>2. bit_index \in Bits /\ pos \in 1 .. Len(prog.adders)
    BY <1>1, SlicedShape DEF SlicedInv, TypeOK, Bits
  <1>3. /\ i \in 1 .. Len(expr)
        /\ expr[i].kind \in {"ADD", "SUB"}
        /\ expr[i].left \in 1 .. i - 1
        /\ expr[i].right \in 1 .. i - 1
    BY <1>1, <1>2, AdderOrder
  <1>4. /\ slot \in [1 .. Len(expr) -> [Bits -> SUBSET Lanes]]
        /\ carry \in [1 .. Len(expr) -> SUBSET Lanes]
    BY SlicedShape DEF SlicedInv, TypeOK
  <1> HIDE DEF i
  <1>5. \A j \in 1 .. Len(expr) : j # i => carry'[j] = carry[j]
    BY <1>1, <1>4
  <1>6. \A j \in 1 .. Len(expr), m \in Bits :
            j # i \/ m # bit_index => slot'[j][m] = slot[j][m]
    BY <1>1, <1>2, <1>3, <1>4
  <1>7. \A f, m : FieldPlane(f, m)' = FieldPlane(f, m)
    BY <1>1 DEF FieldPlane
  <1>8. ASSUME NEW j \in 1 .. Len(expr), NEW m \in Bits, j # i \/ m # bit_index
        PROVE  OperandAtBit(j, m)' = OperandAtBit(j, m)
    BY <1>1, <1>6, <1>7, <1>8 DEF OperandAtBit
  <1> QED
    BY <1>1, <1>2, <1>3, <1>4, <1>5, <1>8 DEF i

\* What it does.
LEMMA AddNodeResult ==
    ASSUME SlicedInv, AddNode,
           NEW i, i = prog.adders[pos],
           NEW A, A = OperandAtBit(expr[i].left, bit_index),
           NEW B, B = OperandAtBit(expr[i].right, bit_index),
           NEW D, D = IF expr[i].kind = "SUB" THEN Lanes \ B ELSE B
    PROVE  /\ OperandAtBit(i, bit_index)' = FullAdder(A, D, carry[i]).sum
           /\ carry'[i] = FullAdder(A, D, carry[i]).carry
  <1> DEFINE r == FullAdder(A, D, carry[i])
  <1>1. /\ slot' = [slot EXCEPT ![i][bit_index] = r.sum]
        /\ carry' = [carry EXCEPT ![i] = r.carry]
    BY DEF AddNode
  <1>2. /\ bit_index \in Bits
        /\ i \in 1 .. Len(expr)
        /\ expr[i].kind \in {"ADD", "SUB"}
        /\ slot \in [1 .. Len(expr) -> [Bits -> SUBSET Lanes]]
        /\ carry \in [1 .. Len(expr) -> SUBSET Lanes]
        /\ UNCHANGED <<expr, bit_index>>
    BY AddNodeFrame
  <1>3. slot'[i][bit_index] = r.sum /\ carry'[i] = r.carry
    BY <1>1, <1>2
  <1>4. OperandAtBit(i, bit_index)' = slot'[i][bit_index]
    BY <1>2 DEF OperandAtBit
  <1> QED
    BY <1>3, <1>4

\* The instruction group of an adder makes it right about one bit more.
LEMMA AddNodeRipple ==
    ASSUME SlicedInv, AddNode, NEW l \in Lanes, NEW b \in Bits, b = bit_index,
           RippleAt(pos, l, b), NEW k, k = pos
    PROVE  RippleAt(k, l, b + 1)'
  <1>1. PICK i, A, B, D, c, r :
            /\ i = prog.adders[pos]
            /\ c = carry[i]
            /\ A = OperandAtBit(expr[i].left, bit_index)
            /\ B = OperandAtBit(expr[i].right, bit_index)
            /\ D = IF expr[i].kind = "SUB" THEN Lanes \ B ELSE B
            /\ r = FullAdder(A, D, c)
    OBVIOUS
  <1>2. PICK n, u, v : n = expr[i] /\ u = n.left /\ v = n.right
    OBVIOUS
  <1>3. PICK x, y, s, q :
            /\ x = Low(u, l, b) /\ y = Low(v, l, b) /\ s = Low(i, l, b)
            /\ q = Power2[b]
    OBVIOUS
  <1>4. /\ UNCHANGED <<expr, data, prog, phase, bit_index>>
        /\ i \in 1 .. Len(expr)
        /\ n.kind \in {"ADD", "SUB"}
        /\ u \in 1 .. i - 1
        /\ v \in 1 .. i - 1
        /\ OperandAtBit(i, b)' = r.sum
        /\ carry'[i] = r.carry
        /\ \A j \in 1 .. Len(expr), m \in Bits :
               j # i \/ m # b => OperandAtBit(j, m)' = OperandAtBit(j, m)
    <2>1. r = FullAdder(A, D, carry[i])
      BY <1>1
    <2>2. /\ UNCHANGED <<expr, data, prog, phase, bit_index>>
          /\ i \in 1 .. Len(expr)
          /\ expr[i].kind \in {"ADD", "SUB"}
          /\ expr[i].left \in 1 .. i - 1
          /\ expr[i].right \in 1 .. i - 1
          /\ \A j \in 1 .. Len(expr), m \in Bits :
                 j # i \/ m # bit_index =>
                     OperandAtBit(j, m)' = OperandAtBit(j, m)
      BY <1>1, AddNodeFrame
    <2>3. /\ OperandAtBit(i, bit_index)' = FullAdder(A, D, carry[i]).sum
          /\ carry'[i] = FullAdder(A, D, carry[i]).carry
      <3>1. /\ i = prog.adders[pos]
            /\ A = OperandAtBit(expr[i].left, bit_index)
            /\ B = OperandAtBit(expr[i].right, bit_index)
            /\ D = IF expr[i].kind = "SUB" THEN Lanes \ B ELSE B
        BY <1>1
      <3>2. OperandAtBit(i, bit_index)' = FullAdder(A, D, carry[i]).sum
        BY ZenonT(30), <3>1, AddNodeResult
      <3>3. carry'[i] = FullAdder(A, D, carry[i]).carry
        BY ZenonT(30), <3>1, AddNodeResult
      <3> QED
        BY <3>2, <3>3
    <2>4. OperandAtBit(i, b)' = r.sum
      BY <2>1, <2>2, <2>3
    <2> QED
      BY <1>2, <2>1, <2>2, <2>3, <2>4
  <1>5. u \in 1 .. Len(expr) /\ u # i /\ v \in 1 .. Len(expr) /\ v # i
    BY <1>4, SlicedShape
  <1>6. /\ b \in 0 .. W /\ b \in Nat
        /\ \A m \in 0 .. b - 1 : m \in Bits /\ m # b
    BY WAssumption DEF Bits
  <1>7. q \in Nat /\ Power2[b + 1] = 2 * q
    BY <1>3, <1>6, Powers
  <1>8. x \in Nat /\ y \in Nat /\ s \in Nat
    BY <1>3, <1>6, LowIsNat
  <1>9. /\ Low(u, l, b)' = x
        /\ Low(v, l, b)' = y
        /\ Low(i, l, b)' = s
    <2>1. \A m \in 0 .. b - 1 :
              /\ OperandAtBit(u, m)' = OperandAtBit(u, m)
              /\ OperandAtBit(v, m)' = OperandAtBit(v, m)
              /\ OperandAtBit(i, m)' = OperandAtBit(i, m)
      BY <1>4, <1>5, <1>6
    <2> QED
      BY <1>3, <1>6, <2>1, LowKept
  <1>10. OperandAtBit(u, b)' = A /\ OperandAtBit(v, b)' = B
    BY <1>1, <1>2, <1>4, <1>5
  <1>11. /\ Low(u, l, b + 1)' = x + IF l \in A THEN q ELSE 0
         /\ Low(v, l, b + 1)' = y + IF l \in B THEN q ELSE 0
         /\ Low(i, l, b + 1)' = s + IF l \in r.sum THEN q ELSE 0
    BY <1>3, <1>4, <1>9, <1>10, LowNextAfter
  <1>12. Weight(r.sum, l, q) + Weight(r.carry, l, 2 * q) =
             Weight(A, l, q) + Weight(D, l, q) + Weight(c, l, q)
    <2>1. Balanced(r, A, D, c, l, q)
      BY <1>1, <1>7, AdderBits
    <2> QED
      BY <2>1 DEF Balanced
  <1>13. s + Weight(c, l, q) =
             IF n.kind = "ADD" THEN x + y ELSE x - y + q - Truth(l # 0)
    BY <1>1, <1>2, <1>3 DEF RippleAt, Weight
  <1>14. Weight(D, l, q) = IF n.kind = "SUB" THEN q - Weight(B, l, q)
                           ELSE Weight(B, l, q)
    BY <1>1, <1>2, <1>7 DEF Weight
  <1>15. Truth(l # 0) \in {0, 1}
    BY DEF Truth
  <1>16. /\ Weight(A, l, q) \in Int /\ Weight(B, l, q) \in Int
         /\ Weight(c, l, q) \in Int /\ Weight(r.sum, l, q) \in Int
         /\ Weight(r.carry, l, 2 * q) \in Int
    BY <1>7 DEF Weight
  <1>17. /\ Low(u, l, b + 1)' = x + Weight(A, l, q)
         /\ Low(v, l, b + 1)' = y + Weight(B, l, q)
         /\ Low(i, l, b + 1)' = s + Weight(r.sum, l, q)
    BY <1>11 DEF Weight
  <1>18. Low(i, l, b + 1)' + Weight(r.carry, l, 2 * q) =
             IF n.kind = "ADD" THEN Low(u, l, b + 1)' + Low(v, l, b + 1)'
             ELSE Low(u, l, b + 1)' - Low(v, l, b + 1)' + 2 * q - Truth(l # 0)
    <2>1. CASE n.kind = "ADD"
      <3>1. /\ s + Weight(c, l, q) = x + y
            /\ Weight(D, l, q) = Weight(B, l, q)
        BY <1>13, <1>14, <2>1
      <3>2. s + Weight(r.sum, l, q) + Weight(r.carry, l, 2 * q) =
                x + Weight(A, l, q) + (y + Weight(B, l, q))
        BY <1>7, <1>8, <1>12, <1>16, <3>1
      <3> QED
        BY <1>17, <2>1, <3>2
    <2>2. CASE n.kind = "SUB"
      <3>1. /\ s + Weight(c, l, q) = x - y + q - Truth(l # 0)
            /\ Weight(D, l, q) = q - Weight(B, l, q)
        BY <1>13, <1>14, <2>2
      <3>2. s + Weight(r.sum, l, q) + Weight(r.carry, l, 2 * q) =
                x + Weight(A, l, q) - (y + Weight(B, l, q)) + 2 * q
                    - Truth(l # 0)
        BY <1>7, <1>8, <1>12, <1>15, <1>16, <3>1
      <3>3. Low(i, l, b + 1)' + Weight(r.carry, l, 2 * q) =
                Low(u, l, b + 1)' - Low(v, l, b + 1)' + 2 * q - Truth(l # 0)
        BY <1>7, <1>8, <1>15, <1>16, <1>17, <3>2
      <3> QED
        BY <2>2, <3>3
    <2> QED
      BY <1>4, <2>1, <2>2
  <1>19. /\ expr'[prog'.adders[k]] = n
         /\ prog'.adders[k] = i
    BY <1>1, <1>2, <1>4
  <1> QED
    BY <1>2, <1>4, <1>7, <1>18, <1>19 DEF RippleAt, Weight

\* A step that writes no operand leaves the adders right.
LEMMA OperandKept ==
    ASSUME UNCHANGED <<expr, data, slot>>
    PROVE  \A i, b : OperandAtBit(i, b)' = OperandAtBit(i, b)
  <1>1. \A f, b : FieldPlane(f, b)' = FieldPlane(f, b)
    BY DEF FieldPlane
  <1> QED
    BY <1>1 DEF OperandAtBit

LEMMA RippleSame ==
    ASSUME UNCHANGED <<expr, data, slot, prog, carry>>
    PROVE  \A k, l : \A b \in 0 .. W : RippleAt(k, l, b) => RippleAt(k, l, b)'
  <1> SUFFICES ASSUME NEW k, NEW l, NEW b \in 0 .. W, RippleAt(k, l, b)
               PROVE  RippleAt(k, l, b)'
    OBVIOUS
  <1>1. \A j : \A m \in 0 .. b - 1 : OperandAtBit(j, m)' = OperandAtBit(j, m)
    BY OperandKept
  <1> QED
    BY <1>1, RippleKept

LEMMA RippleInit == Init => Ripples
  BY DEF Init, Ripples

LEMMA RippleCompile ==
    ASSUME SlicedInv, Compile, NEW k \in DOMAIN prog'.adders, NEW l \in Lanes
    PROVE  RippleAt(k, l, 0)'
  <1>1. /\ prog' = Program(expr) /\ expr' = expr /\ expr \in Exprs
        /\ carry' = [j \in DOMAIN expr |-> CarryIn(expr[j].kind)]
    BY DEF Compile, inputs, SlicedInv
  <1>2. PICK i, n : i = prog'.adders[k] /\ n = expr[i]
    OBVIOUS
  <1>3. i \in DOMAIN expr /\ n.kind \in {"ADD", "SUB"}
    <2> DEFINE s == Program(expr).adders
    <2>1. /\ s \in Seq(DOMAIN expr)
          /\ \A j \in 1 .. Len(s) : expr[s[j]].kind \in {"ADD", "SUB"}
      BY <1>1, ProgramIs
    <2> HIDE DEF s
    <2>2. k \in 1 .. Len(s)
      BY <1>1, <2>1 DEF s
    <2>3. s[k] \in DOMAIN expr /\ expr[s[k]].kind \in {"ADD", "SUB"}
      BY <2>1, <2>2
    <2> QED
      BY <1>1, <1>2, <2>3 DEF s
  <1>4. 0 \in 0 .. W
    BY WAssumption
  <1>5. ASSUME NEW j PROVE Low(j, l, 0)' = 0
    <2> DEFINE S == LaneBits(j, l)'
    <2>1. Low(j, l, 0)' = Lowest(S)[0]
      BY DEF Low
    <2> HIDE DEF S
    <2> QED
      BY <2>1, LowestIs
  <1>6. Power2[0] = 1
    BY Powers
  <1>7. carry'[i] = CarryIn(n.kind)
    BY <1>1, <1>2, <1>3
  <1>8. Low(i, l, 0)' + (IF l \in carry'[i] THEN Power2[0] ELSE 0) =
            IF n.kind = "ADD" THEN Low(n.left, l, 0)' + Low(n.right, l, 0)'
            ELSE Low(n.left, l, 0)' - Low(n.right, l, 0)' + Power2[0]
                     - Truth(l # 0)
    BY <1>3, <1>5, <1>6, <1>7 DEF CarryIn, Truth
  <1>9. expr'[prog'.adders[k]] = n /\ prog'.adders[k] = i
    BY <1>1, <1>2
  <1> QED
    BY <1>8, <1>9 DEF RippleAt

LEMMA RippleAdd ==
    ASSUME SlicedInv, Ripples, AddNode,
           NEW k \in DOMAIN prog.adders, NEW l \in Lanes, NEW b \in 0 .. W,
           b = BitsDone(k)'
    PROVE  RippleAt(k, l, b)'
  <1> DEFINE s == prog.adders
  <1>1. /\ phase = "arith" /\ bit_index \in Bits /\ pos \in 1 .. Len(s)
        /\ pos' = pos + 1 /\ bit_index' = bit_index
        /\ expr' = expr /\ prog' = prog
        /\ \A j \in 1 .. Len(expr) : j # s[pos] => carry'[j] = carry[j]
        /\ \A j \in 1 .. Len(expr), m \in Bits :
               j # s[pos] \/ m # bit_index =>
                   OperandAtBit(j, m)' = OperandAtBit(j, m)
    BY AddNodeFrame DEF AddNode
  <1>2. /\ Len(s) \in Nat /\ DOMAIN s = 1 .. Len(s) /\ Distinct(s)
        /\ \A h \in 1 .. Len(s) :
               /\ s[h] \in 1 .. Len(expr)
               /\ expr[s[h]].kind \in {"ADD", "SUB"}
               /\ expr[s[h]].left \in 1 .. s[h] - 1
               /\ expr[s[h]].right \in 1 .. s[h] - 1
               /\ \A c \in {expr[s[h]].left, expr[s[h]].right} :
                      expr[c].kind \in {"ADD", "SUB"} =>
                          \E j \in 1 .. h - 1 : s[j] = c
    BY <1>1, AdderOrder
  <1> HIDE DEF s
  <1>3. k \in 1 .. Len(s)
    BY <1>2 DEF s
  <1>4. \A j \in {s[k], expr[s[k]].left, expr[s[k]].right} : j \in 1 .. Len(expr)
    BY <1>2, <1>3, SlicedShape
  <1>5. \A m \in 0 .. b - 1 : m \in Bits
    BY WAssumption DEF Bits
  <1>6. b = IF k < pos + 1 THEN bit_index + 1 ELSE bit_index
    BY <1>1 DEF BitsDone
  <1>7. BitsDone(k) \in 0 .. W /\ RippleAt(k, l, BitsDone(k))
    <2>1. BitsDone(k) \in 0 .. W
      BY <1>1, WAssumption DEF BitsDone, Bits
    <2> QED
      BY <1>1, <2>1 DEF Ripples
  <1>8. CASE k < pos
    <2>1. b = BitsDone(k)
      BY <1>1, <1>3, <1>6, <1>8 DEF BitsDone
    <2>2. s[k] # s[pos]
      BY <1>1, <1>2, <1>3, <1>8 DEF Distinct
    <2>3. ASSUME NEW c \in {expr[s[k]].left, expr[s[k]].right} PROVE c # s[pos]
      <3>1. SUFFICES ASSUME c = s[pos] PROVE FALSE
        OBVIOUS
      <3>2. expr[c].kind \in {"ADD", "SUB"}
        BY <1>1, <1>2, <3>1
      <3>3. PICK j \in 1 .. k - 1 : s[j] = c
        BY <1>2, <1>3, <3>2
      <3>4. j \in 1 .. Len(s) /\ j # pos
        BY <1>1, <1>2, <1>3, <1>8
      <3> QED
        BY <1>1, <1>2, <3>1, <3>3, <3>4 DEF Distinct
    <2>4. \A j \in {s[k], expr[s[k]].left, expr[s[k]].right} :
              \A m \in 0 .. b - 1 : OperandAtBit(j, m)' = OperandAtBit(j, m)
      BY <1>1, <1>4, <1>5, <2>2, <2>3
    <2>5. carry'[s[k]] = carry[s[k]]
      BY <1>1, <1>4, <2>2
    <2>6. RippleAt(k, l, b)
      BY <1>7, <2>1
    <2> QED
      BY <1>1, <2>4, <2>5, <2>6, RippleKept DEF s
  <1>9. CASE k = pos
    <2>1. PICK c \in Bits : c = bit_index /\ b = c + 1
      BY <1>1, <1>6, <1>9
    <2>2. BitsDone(k) = c
      BY <1>1, <1>9, <2>1 DEF BitsDone
    <2>3. RippleAt(pos, l, c)
      BY <1>7, <1>9, <2>2
    <2> QED
      BY <1>9, <2>1, <2>3, AddNodeRipple
  <1>10. CASE k > pos
    <2>1. b = BitsDone(k) /\ b = bit_index
      BY <1>1, <1>3, <1>6, <1>10 DEF BitsDone
    <2>2. s[k] # s[pos]
      BY <1>1, <1>2, <1>3, <1>10 DEF Distinct
    <2>3. \A m \in 0 .. b - 1 : m # bit_index
      BY <1>1, <2>1 DEF Bits
    <2>4. \A j \in {s[k], expr[s[k]].left, expr[s[k]].right} :
              \A m \in 0 .. b - 1 : OperandAtBit(j, m)' = OperandAtBit(j, m)
      BY <1>1, <1>4, <1>5, <2>3
    <2>5. carry'[s[k]] = carry[s[k]]
      BY <1>1, <1>4, <2>2
    <2>6. RippleAt(k, l, b)
      BY <1>7, <2>1
    <2> QED
      BY <1>1, <2>4, <2>5, <2>6, RippleKept DEF s
  <1> QED
    BY <1>1, <1>3, <1>8, <1>9, <1>10

LEMMA RippleStep == SlicedInv /\ Ripples /\ [Next]_vars => Ripples'
  <1> SUFFICES ASSUME SlicedInv, Ripples, [Next]_vars PROVE Ripples'
    OBVIOUS
  <1>1. CASE Compile
    <2>1. /\ phase' = "arith" /\ bit_index' = 0 /\ pos' = 1
      BY <1>1 DEF Compile, SlicedInv
    <2>2. ASSUME NEW k \in DOMAIN prog'.adders PROVE BitsDone(k)' = 0
      <3>1. Program(expr).adders \in Seq(DOMAIN expr) /\ prog' = Program(expr)
        BY <1>1, ProgramIs DEF Compile, SlicedInv
      <3>2. k \in Nat /\ k >= 1
        BY <3>1
      <3> QED
        BY <2>1, <3>2 DEF BitsDone
    <2> QED
      BY <1>1, <2>1, <2>2, RippleCompile DEF Ripples
  <1>2. CASE Reject
    BY <1>2 DEF Reject, Ripples
  <1>3. CASE AddNode
    <2>1. phase' = "arith" /\ prog' = prog
      BY <1>3 DEF AddNode
    <2> QED
      BY <1>3, <2>1, RippleAdd DEF Ripples
  <1>4. CASE AddNextBit
    <2>1. /\ phase = "arith" /\ phase' = "arith" /\ prog' = prog
          /\ bit_index' = bit_index + 1 /\ pos' = 1 /\ pos > Len(prog.adders)
          /\ UNCHANGED <<expr, data, slot, prog, carry>>
      BY <1>4 DEF AddNextBit, inputs, regs
    <2>2. ASSUME NEW k \in DOMAIN prog.adders PROVE BitsDone(k)' = BitsDone(k)
      <3>1. k \in 1 .. Len(prog.adders) /\ pos \in Nat /\ Len(prog.adders) \in Nat
                /\ bit_index \in Int
        BY <2>1, AdderOrder DEF SlicedInv, TypeOK
      <3>2. k < pos /\ ~(k < 1)
        BY <2>1, <3>1
      <3> QED
        BY <2>1, <3>1, <3>2 DEF BitsDone
    <2> QED
      BY <2>1, <2>2, RippleSame DEF Ripples
  <1>5. CASE AddEnd
    <2>1. /\ phase = "arith" /\ phase' = "compare" /\ bit_index = W
          /\ UNCHANGED <<expr, data, slot, prog, carry>>
      BY <1>5 DEF AddEnd, inputs
    <2>2. pos = 1 /\ W \in 0 .. W
      BY <2>1, WAssumption DEF SlicedInv
    <2>3. ASSUME NEW k \in DOMAIN prog.adders PROVE BitsDone(k) = W
      <3>1. k \in 1 .. Len(prog.adders)
        BY <2>1, AdderOrder
      <3> QED
        BY <2>1, <2>2, <3>1 DEF BitsDone
    <2>4. \A k \in DOMAIN prog.adders, l \in Lanes : RippleAt(k, l, W)
      BY <2>1, <2>2, <2>3 DEF Ripples
    <2> QED
      BY <2>1, <2>2, <2>4, RippleSame DEF Ripples
  <1>6. CASE CompareNode \/ CompareNextBit \/ CompareEnd
    <2>1. /\ phase = "compare" /\ phase' \in {"compare", "done"}
          /\ UNCHANGED <<expr, data, slot, prog, carry>>
      BY <1>6 DEF CompareNode, CompareNextBit, CompareEnd, inputs, regs
    <2>2. W \in 0 .. W
      BY WAssumption
    <2> QED
      BY <2>1, <2>2, RippleSame DEF Ripples
  <1>7. CASE UNCHANGED vars
    <2>1. UNCHANGED <<expr, data, slot, prog, carry, phase, bit_index, pos>>
      BY <1>7 DEF vars, inputs, regs
    <2>2. \A k : BitsDone(k)' = BitsDone(k)
      BY <2>1 DEF BitsDone
    <2>3. W \in 0 .. W
      BY WAssumption
    <2> QED
      BY <2>1, <2>2, <2>3, RippleSame DEF Ripples
  <1> QED
    BY <1>1, <1>2, <1>3, <1>4, <1>5, <1>6, <1>7 DEF Next, Finished

LEMMA RipplesHold == Spec => []Ripples
  BY RippleInit, RippleStep, SlicedInvHolds, PTL DEF Spec

\* At every point of the loop over the bits the sum bits and the carry of each
\* adder are the sum or the difference of its operands' lowest bits, whatever
\* adders feed it or share its operands.
THEOREM SlicedRipple == Spec => []RippleCarry
  <1>1. SlicedInv /\ Ripples => RippleCarry
    <2> SUFFICES ASSUME SlicedInv, Ripples, phase = "arith",
                        NEW k \in DOMAIN prog.adders, NEW l \in Lanes
                 PROVE  RippleAt(k, l, BitsDone(k))
      BY DEF RippleCarry, RippleAt
    <2>1. k \in 1 .. Len(prog.adders)
      BY AdderOrder
    <2>2. bit_index \in 0 .. W /\ (bit_index = W => pos = 1) /\ pos \in Nat
      BY DEF SlicedInv, TypeOK
    <2>3. BitsDone(k) \in 0 .. W
      BY <2>1, <2>2, WAssumption DEF BitsDone
    <2> QED
      BY <2>3 DEF Ripples
  <1> QED
    BY <1>1, SlicedInvHolds, RipplesHold, PTL

-----------------------------------------------------------------------------
(* The comparisons.                                                        *)

\* What GtEqPrefix says of the c-th comparison, lane l and the bits from b up.
CompareAt(c, l, b) ==
    LET n == expr[prog.compares[c]]
        x == High(IF n.kind = "LT" THEN n.right ELSE n.left, l, b)
        y == High(IF n.kind = "LT" THEN n.left ELSE n.right, l, b)
    IN  n.kind # "EQ" =>
            /\ l \in gt[c] <=> x > y
            /\ l \in eq[c] <=> x = y

\* The lowest bit the c-th comparison has seen.
BitsSeen(c) == IF c < pos THEN bit_index ELSE bit_index + 1

\* It holds of the bits seen while the comparisons run, of all afterwards.
ComparesRight ==
    /\ phase = "compare" =>
           \A c \in DOMAIN prog.compares, l \in Lanes, b \in 0 .. W :
               b = BitsSeen(c) => CompareAt(c, l, b)
    /\ phase = "done" =>
           /\ \A c \in DOMAIN prog.compares, l \in Lanes : CompareAt(c, l, 0)
           /\ mask = Fold

LEMMA HighIsNat ==
    ASSUME NEW i, NEW l, NEW b \in 0 .. W
    PROVE  High(i, l, b) \in Nat
  <1>1. W - b \in 0 .. W
    BY WAssumption
  <1> QED
    BY <1>1, HighestIs DEF High

\* One bit further down.
LEMMA HighNext ==
    ASSUME NEW i, NEW l, NEW b \in Bits
    PROVE  High(i, l, b) =
               2 * High(i, l, b + 1) + Truth(l \in OperandAtBit(i, b))
  <1> DEFINE S == LaneBits(i, l)
  <1>1. PICK n \in 1 .. W : n = W - b /\ W - n = b /\ n - 1 = W - (b + 1)
    <2>1. W \in Nat /\ b \in Nat /\ b < W
      BY WAssumption DEF Bits
    <2>2. W - b \in 1 .. W /\ W - (W - b) = b /\ (W - b) - 1 = W - (b + 1)
      BY <2>1
    <2> QED
      BY <2>2
  <1>2. Highest(S)[n] = 2 * Highest(S)[n - 1] + Truth(W - n \in S)
    BY HighestIs
  <1>3. b \in S <=> l \in OperandAtBit(i, b)
    BY DEF LaneBits
  <1>4. High(i, l, b) = Highest(S)[n] /\ High(i, l, b + 1) = Highest(S)[n - 1]
    BY <1>1 DEF High
  <1> HIDE DEF S
  <1> QED
    BY <1>1, <1>2, <1>3, <1>4 DEF Truth

LEMMA HighKept ==
    ASSUME UNCHANGED <<expr, data, slot>>
    PROVE  \A i, l, b : High(i, l, b)' = High(i, l, b)
  <1> TAKE i, l, b
  <1>1. \A m : OperandAtBit(i, m)' = OperandAtBit(i, m)
    BY OperandKept
  <1>2. LaneBits(i, l)' = LaneBits(i, l)
    BY <1>1 DEF LaneBits
  <1> QED
    BY <1>2 DEF High

LEMMA CompareKept ==
    ASSUME UNCHANGED <<expr, data, slot, prog>>,
           NEW c, gt'[c] = gt[c], eq'[c] = eq[c],
           NEW l, NEW b, CompareAt(c, l, b)
    PROVE  CompareAt(c, l, b)'
  <1>1. PICK n : n = expr[prog.compares[c]]
    OBVIOUS
  <1>2. /\ High(n.left, l, b)' = High(n.left, l, b)
        /\ High(n.right, l, b)' = High(n.right, l, b)
    BY HighKept
  <1>3. n = expr'[prog'.compares[c]]
    BY <1>1
  <1> QED
    BY <1>1, <1>2, <1>3 DEF CompareAt

\* Lane l of the masks tells which of x and y is greater.
Decides(g, e, l, x, y) ==
    /\ l \in g <=> x > y
    /\ l \in e <=> x = y

\* One bit more decides an undecided comparison.
LEMMA EmitGtBit ==
    ASSUME NEW l, NEW A, NEW B, NEW g, NEW e, NEW x \in Nat, NEW y \in Nat,
           Decides(g, e, l, x, y),
           NEW p, p = Truth(l \in A), NEW q, q = Truth(l \in B)
    PROVE  Decides(EmitGt(A, B, g, e).gt, EmitGt(A, B, g, e).eq, l,
                   2 * x + p, 2 * y + q)
  <1>1. /\ l \in EmitGt(A, B, g, e).gt
               <=> l \in g \/ (l \in e /\ l \in A /\ l \notin B)
        /\ l \in EmitGt(A, B, g, e).eq
               <=> l \in e /\ (l \in A <=> l \in B)
    BY DEF EmitGt, Xor
  <1>2. CASE x > y
    BY <1>1, <1>2 DEF Truth, Decides
  <1>3. CASE x = y
    BY <1>1, <1>3 DEF Truth, Decides
  <1>4. CASE x < y
    BY <1>1, <1>4 DEF Truth, Decides
  <1> QED
    BY <1>2, <1>3, <1>4

\* The instruction group of a comparison.
LEMMA CompareNodeStep ==
    ASSUME SlicedInv, ComparesRight, CompareNode,
           NEW c \in DOMAIN prog.compares, NEW l \in Lanes, NEW b \in 0 .. W,
           b = BitsSeen(c)'
    PROVE  CompareAt(c, l, b)'
  <1>1. PICK n, A, B, r :
            /\ n = expr[prog.compares[pos]]
            /\ A = OperandAtBit(n.left, bit_index)
            /\ B = OperandAtBit(n.right, bit_index)
            /\ r = CASE n.kind = "GT" -> EmitGt(A, B, gt[pos], eq[pos])
                     [] n.kind = "LT" -> EmitGt(B, A, gt[pos], eq[pos])
                     [] n.kind = "EQ" -> [gt |-> gt[pos], eq |-> eq[pos]]
    OBVIOUS
  <1>2. /\ phase = "compare" /\ bit_index >= 0 /\ pos <= Len(prog.compares)
        /\ gt' = [gt EXCEPT ![pos] = r.gt]
        /\ eq' = [eq EXCEPT ![pos] = r.eq]
        /\ pos' = pos + 1
        /\ UNCHANGED <<expr, data, prog, bit_index, slot>>
    BY <1>1 DEF CompareNode, inputs
  <1>3. /\ bit_index \in Bits
        /\ Len(prog.compares) \in Nat
        /\ DOMAIN prog.compares = 1 .. Len(prog.compares)
        /\ DOMAIN gt = DOMAIN prog.compares
        /\ DOMAIN eq = DOMAIN prog.compares
        /\ pos \in DOMAIN prog.compares
        /\ c \in Nat
    <2>1. /\ Len(prog.compares) \in Nat
          /\ DOMAIN prog.compares = 1 .. Len(prog.compares)
      BY <1>2, CompareOperands
    <2>2. bit_index \in Bits
      BY <1>2, SlicedShape DEF SlicedInv, Bits
    <2>3. DOMAIN gt = DOMAIN prog.compares /\ DOMAIN eq = DOMAIN prog.compares
      BY <1>2 DEF SlicedInv, TypeOK
    <2>4. pos \in Nat /\ pos >= 1
      BY <1>2, <2>1 DEF SlicedInv, TypeOK
    <2> QED
      BY <1>2, <2>1, <2>2, <2>3, <2>4
  <1>4. n.kind \in Compared
    BY <1>1, <1>2, <1>3, CompareOperands
  <1>5. CASE c # pos
    <2>1. gt'[c] = gt[c] /\ eq'[c] = eq[c]
      BY <1>2, <1>3, <1>5
    <2>2. b = BitsSeen(c)
      BY <1>2, <1>3, <1>5 DEF BitsSeen
    <2>3. CompareAt(c, l, b)
      BY <1>2, <2>2 DEF ComparesRight
    <2> QED
      BY <1>2, <2>1, <2>3, CompareKept
  <1>6. CASE c = pos
    <2>1. b = bit_index /\ b \in Bits /\ b + 1 = BitsSeen(c) /\ b + 1 \in 0 .. W
      BY <1>2, <1>3, <1>6, WAssumption DEF BitsSeen, Bits
    <2>2. CompareAt(c, l, b + 1)
      BY <1>2, <2>1 DEF ComparesRight
    <2>3. gt'[c] = r.gt /\ eq'[c] = r.eq
      BY <1>2, <1>3, <1>6
    <2>4. n = expr'[prog'.compares[c]]
      BY <1>1, <1>2, <1>6
    <2>5. CASE n.kind = "EQ"
      BY <2>4, <2>5 DEF CompareAt
    <2>6. CASE n.kind # "EQ"
      <3>1. PICK u, v, P, Q, p, q, x, y, g, e :
                /\ u = IF n.kind = "LT" THEN n.right ELSE n.left
                /\ v = IF n.kind = "LT" THEN n.left ELSE n.right
                /\ P = OperandAtBit(u, b) /\ Q = OperandAtBit(v, b)
                /\ x = High(u, l, b + 1) /\ y = High(v, l, b + 1)
                /\ g = gt[c] /\ e = eq[c]
                /\ p = Truth(l \in P) /\ q = Truth(l \in Q)
        OBVIOUS
      <3>2. x \in Nat /\ y \in Nat
        BY <2>1, <3>1, HighIsNat
      <3>3. Decides(g, e, l, x, y)
        BY <1>1, <1>6, <2>2, <2>6, <3>1 DEF CompareAt, Decides
      <3>4. r = EmitGt(P, Q, g, e)
        BY <1>1, <1>4, <1>6, <2>1, <2>6, <3>1 DEF Compared
      <3>5. Decides(EmitGt(P, Q, g, e).gt, EmitGt(P, Q, g, e).eq, l,
                    2 * x + p, 2 * y + q)
        BY <3>1, <3>2, <3>3, EmitGtBit
      <3>6. /\ High(u, l, b)' = 2 * x + p
            /\ High(v, l, b)' = 2 * y + q
        BY <1>2, <2>1, <3>1, HighNext, HighKept
      <3>7. /\ l \in gt'[c] <=> High(u, l, b)' > High(v, l, b)'
            /\ l \in eq'[c] <=> High(u, l, b)' = High(v, l, b)'
        BY <2>3, <3>4, <3>5, <3>6 DEF Decides
      <3> QED
        BY <2>4, <2>6, <3>1, <3>7 DEF CompareAt
    <2> QED
      BY <2>5, <2>6
  <1> QED
    BY <1>5, <1>6

LEMMA ComparesInit == Init => ComparesRight
  BY DEF Init, ComparesRight

LEMMA ComparesStep == SlicedInv /\ ComparesRight /\ [Next]_vars => ComparesRight'
  <1> SUFFICES ASSUME SlicedInv, ComparesRight, [Next]_vars
               PROVE  ComparesRight'
    OBVIOUS
  <1>1. CASE Compile \/ Reject \/ AddNode \/ AddNextBit
    BY <1>1 DEF Compile, Reject, AddNode, AddNextBit, ComparesRight
  <1>2. CASE AddEnd
    <2>1. /\ phase = "arith" /\ phase' = "compare" /\ bit_index' = W - 1
          /\ pos' = 1 /\ prog' = prog
          /\ gt' = [c \in DOMAIN prog.compares |-> {}]
          /\ eq' = [c \in DOMAIN prog.compares |-> Lanes]
      BY <1>2 DEF AddEnd, SlicedInv
    <2>2. DOMAIN prog.compares = 1 .. Len(prog.compares) /\ Len(prog.compares) \in Nat
      BY <2>1, CompareOperands
    <2>3. ASSUME NEW c \in DOMAIN prog.compares PROVE BitsSeen(c)' = W
      BY <2>1, <2>2, WAssumption DEF BitsSeen
    <2>4. ASSUME NEW i, NEW l PROVE High(i, l, W)' = 0
      <3> DEFINE S == LaneBits(i, l)'
      <3>1. High(i, l, W)' = Highest(S)[W - W]
        BY DEF High
      <3> HIDE DEF S
      <3>2. W - W = 0
        BY WAssumption
      <3> QED
        BY <3>1, <3>2, HighestIs
    <2>5. ASSUME NEW c \in DOMAIN prog.compares, NEW l \in Lanes
          PROVE  CompareAt(c, l, W)'
      <3>1. l \notin gt'[c] /\ l \in eq'[c]
        BY <2>1
      <3> QED
        BY <2>4, <3>1 DEF CompareAt
    <2> QED
      BY <2>1, <2>3, <2>5 DEF ComparesRight
  <1>3. CASE CompareNode
    <2>1. phase' = "compare" /\ prog' = prog
      BY <1>3 DEF CompareNode
    <2> QED
      BY <1>3, <2>1, CompareNodeStep DEF ComparesRight
  <1>4. CASE CompareNextBit
    <2>1. /\ phase = "compare" /\ phase' = "compare" /\ pos > Len(prog.compares)
          /\ bit_index' = bit_index - 1 /\ pos' = 1
          /\ UNCHANGED <<expr, data, slot, prog, gt, eq>>
      BY <1>4 DEF CompareNextBit, inputs, regs
    <2>2. ASSUME NEW c \in DOMAIN prog.compares PROVE BitsSeen(c)' = BitsSeen(c)
      <3>1. c \in 1 .. Len(prog.compares) /\ pos \in Nat
                /\ Len(prog.compares) \in Nat /\ bit_index \in Int
        BY <2>1, CompareOperands DEF SlicedInv, TypeOK
      <3>2. c < pos /\ ~(c < 1)
        BY <2>1, <3>1
      <3> QED
        BY <2>1, <3>1, <3>2 DEF BitsSeen
    <2> QED
      BY <2>1, <2>2, CompareKept DEF ComparesRight
  <1>5. CASE CompareEnd
    <2>1. /\ phase = "compare" /\ phase' = "done" /\ bit_index = -1 /\ pos = 1
          /\ mask' = Fold
          /\ UNCHANGED <<expr, data, slot, prog, gt, eq>>
      BY <1>5 DEF CompareEnd, inputs, SlicedInv
    <2>2. ASSUME NEW c \in DOMAIN prog.compares
          PROVE  BitsSeen(c) = 0 /\ 0 \in 0 .. W
      <3>1. c \in 1 .. Len(prog.compares)
        BY <2>1, CompareOperands
      <3> QED
        BY <2>1, <3>1, WAssumption DEF BitsSeen
    <2>3. \A c \in DOMAIN prog.compares, l \in Lanes : CompareAt(c, l, 0)
      BY <2>1, <2>2 DEF ComparesRight
    <2>4. Fold' = Fold
      BY <2>1 DEF Fold
    <2> QED
      BY <2>1, <2>3, <2>4, CompareKept DEF ComparesRight
  <1>6. CASE UNCHANGED vars
    <2>1. UNCHANGED <<expr, data, slot, prog, phase, bit_index, pos, gt, eq, mask>>
      BY <1>6 DEF vars, inputs, regs
    <2>2. (\A c : BitsSeen(c)' = BitsSeen(c)) /\ Fold' = Fold
      BY <2>1 DEF BitsSeen, Fold
    <2> QED
      BY <2>1, <2>2, CompareKept DEF ComparesRight
  <1> QED
    BY <1>1, <1>2, <1>3, <1>4, <1>5, <1>6 DEF Next, Finished

LEMMA ComparesHold == Spec => []ComparesRight
  BY ComparesInit, ComparesStep, SlicedInvHolds, PTL DEF Spec

\* At every point of the downward loop over the bits the GT and EQ masks tell
\* which operand is greater as far as the bits seen so far decide.
THEOREM SlicedGtEq == Spec => []GtEqPrefix
  <1>1. SlicedInv /\ ComparesRight => GtEqPrefix
    <2> SUFFICES ASSUME SlicedInv, ComparesRight, phase = "compare",
                        NEW c \in DOMAIN prog.compares, NEW l \in Lanes
                 PROVE  CompareAt(c, l, BitsSeen(c))
      BY DEF GtEqPrefix, CompareAt, BitsSeen
    <2>1. c \in 1 .. Len(prog.compares)
      BY CompareOperands
    <2>2. bit_index \in -1 .. W - 1 /\ (bit_index = -1 => pos = 1) /\ pos \in Nat
      BY DEF SlicedInv, TypeOK
    <2>3. BitsSeen(c) \in 0 .. W
      BY <2>1, <2>2, WAssumption DEF BitsSeen
    <2> QED
      BY <2>3 DEF ComparesRight
  <1> QED
    BY <1>1, SlicedInvHolds, ComparesHold, PTL

-----------------------------------------------------------------------------
(* The mask is the meaning of the tree.                                    *)

LEMMA LanesAreRows ==
    ASSUME SlicedInv, NEW l \in Lanes
    PROVE  /\ RowOf(l) \in [FieldNames -> Int]
           /\ \A f \in FieldNames : RowOf(l)[f] = data[f][l] /\ data[f][l] \in Word
  <1>1. \A f \in FieldNames : data[f][l] \in Word
    BY DEF SlicedInv
  <1>2. Word \subseteq Int
    BY DEF Word
  <1> QED
    BY <1>1, <1>2 DEF RowOf

\* The kinds whose value is a word held in bit planes.
WordKinds == {"LOAD", "CONST", "ADD", "SUB"}

\* Every adder the value rests on is in the loop body.
LEMMA AdderDone ==
    ASSUME SlicedInv, Ripples, phase \in {"compare", "done"}, NEW l \in Lanes,
           NEW i \in Reached(expr), expr[i].kind \in {"ADD", "SUB"}
    PROVE  \E c \in {0, 1} :
               WordOf(LaneBits(i, l)) + Power2[W] * c =
                   IF expr[i].kind = "ADD"
                   THEN WordOf(LaneBits(expr[i].left, l))
                            + WordOf(LaneBits(expr[i].right, l))
                   ELSE WordOf(LaneBits(expr[i].left, l))
                            - WordOf(LaneBits(expr[i].right, l)) + Power2[W]
                            - Truth(l # 0)
  <1>1. PICK j \in 1 .. Len(AllNodes(expr)) : AllNodes(expr)[j] = i
    BY DEF Reached
  <1>2. PICK k \in 1 .. Len(prog.adders) : prog.adders[k] = i
    <2> DEFINE K == {"ADD", "SUB"}
               s == NodesOfKind(expr, K)
    <2>1. prog.adders = s /\ IsTree(expr, FieldNames)
      BY SlicedShape, ProgramIs DEF SlicedInv
    <2>2. expr[AllNodes(expr)[j]].kind \in K
      BY <1>1
    <2> HIDE DEF K
    <2>3. \E k \in 1 .. Len(s) : s[k] = AllNodes(expr)[j]
      BY <2>1, <2>2, KindOrder
    <2> QED
      BY <1>1, <2>1, <2>3
  <1>3. RippleAt(k, l, W)
    BY <1>2, AdderOrder DEF Ripples
  <1>4. \A m : Low(m, l, W) = WordOf(LaneBits(m, l))
    BY DEF Low, WordOf
  <1>5. PICK c \in {0, 1} : c = IF l \in carry[i] THEN 1 ELSE 0
    OBVIOUS
  <1>6. Power2[W] \in Nat
    BY WAssumption, Powers
  <1>7. Power2[W] * c = IF l \in carry[i] THEN Power2[W] ELSE 0
    BY <1>5, <1>6
  <1> QED
    BY <1>2, <1>3, <1>4, <1>7 DEF RippleAt

\* The operands of a supported adder or comparison are words.
LEMMA WordOperands ==
    ASSUME SlicedInv, Supported, NEW i \in Reached(expr),
           expr[i].kind \in {"ADD", "SUB", "GT", "LT"}
    PROVE  /\ i \in 1 .. Len(expr)
           /\ \A c \in {expr[i].left, expr[i].right} :
                  /\ c \in 1 .. i - 1
                  /\ c \in Reached(expr)
                  /\ expr[c].kind \in WordKinds
  <1>1. /\ IsTree(expr, FieldNames)
        /\ i \in 1 .. Len(expr)
        /\ Children(expr, i) \subseteq Reached(expr)
        /\ DOMAIN expr = 1 .. Len(expr)
        /\ Reached(expr) \subseteq 1 .. Len(expr)
    BY SlicedShape, ReachedChildren
  <1>2. expr[i].left \in 1 .. i - 1 /\ expr[i].right \in 1 .. i - 1
    BY <1>1, NodeShape DEF Leaves, Unary
  <1>3. ASSUME NEW c \in {expr[i].left, expr[i].right}
        PROVE  c \in 1 .. i - 1 /\ c \in Reached(expr) /\ expr[c].kind \in WordKinds
    <2>1. c \in 1 .. i - 1 /\ c # 0
      BY <1>2
    <2>2. c \in Reached(expr)
      BY <1>1, <2>1 DEF Children
    <2>3. expr[c].kind \in OperandKinds(expr, i)
      BY <2>1 DEF OperandKinds
    <2>4. OperandKinds(expr, i) \subseteq Leaves \cup Arithmetic
      BY <1>1, ExprsAssumption DEF SlicedInv, Arithmetic
    <2>5. expr[c].kind \in Kinds(expr)
      BY <1>1, <2>2 DEF Kinds
    <2> QED
      BY <2>1, <2>2, <2>3, <2>4, <2>5
         DEF Supported, Leaves, Arithmetic, WordKinds
  <1> QED
    BY <1>1, <1>3

\* What the planes of a leaf hold.
LEMMA LeafWord ==
    ASSUME SlicedInv, NEW l \in Lanes, NEW i \in 1 .. Len(expr),
           expr[i].kind \in Leaves
    PROVE  WordOf(LaneBits(i, l)) =
               IF expr[i].kind = "LOAD" THEN RowOf(l)[expr[i].field]
               ELSE expr[i].value % Power2[W]
  <1>1. IsTree(expr, FieldNames) /\ Power2[W] \in Nat \ {0}
    BY SlicedShape, Powers
  <1>2. CASE expr[i].kind = "LOAD"
    <2>1. PICK w : w = data[expr[i].field][l]
      OBVIOUS
    <2>2. expr[i].field \in FieldNames
      BY <1>1, <1>2, NodeShape
    <2>3. w \in Word /\ RowOf(l)[expr[i].field] = w
      BY <2>1, <2>2, LanesAreRows
    <2>4. LaneBits(i, l) = BitsOf(w)
      BY <1>2, <2>1 DEF LaneBits, BitsOf, OperandAtBit, FieldPlane
    <2> QED
      BY <1>2, <2>3, <2>4, WordOfBits
  <1>3. CASE expr[i].kind = "CONST"
    <2>1. PICK w : w = expr[i].value % Power2[W]
      OBVIOUS
    <2>2. expr[i].value \in Int
      BY <1>1, NodeShape
    <2>3. w \in Word
      BY <1>1, <2>1, <2>2 DEF Word
    <2>4. LaneBits(i, l) = BitsOf(w)
      BY <1>3, <2>1 DEF LaneBits, BitsOf, OperandAtBit, ConstPlane
    <2> QED
      BY <1>3, <2>1, <2>3, <2>4, WordOfBits
  <1> QED
    BY <1>2, <1>3 DEF Leaves

\* A lane of an adder is the word the expression is documented to have.
LEMMA SlicedWord ==
    ASSUME SlicedInv, Ripples, phase \in {"compare", "done"}, Supported,
           NEW l \in Lanes, l = 0 \/ "SUB" \notin Kinds(expr),
           NEW i \in Reached(expr), expr[i].kind \in WordKinds
    PROVE  WordOf(LaneBits(i, l)) = Values(expr, RowOf(l))[i]
  <1> DEFINE N == Len(expr)
             v == Values(expr, RowOf(l))
             T == {j \in 0 .. N : j \in Reached(expr) /\ expr[j].kind \in WordKinds
                                      => WordOf(LaneBits(j, l)) = v[j]}
  <1>1. /\ N \in Nat /\ IsTree(expr, FieldNames)
        /\ DOMAIN expr = 1 .. N
        /\ Reached(expr) \subseteq 1 .. N
    BY SlicedShape, ReachedChildren
  <1>2. /\ \A j \in 1 .. N : v[j] = Apply(expr[j], v[expr[j].left],
                                          v[expr[j].right], v[expr[j].cond],
                                          RowOf(l))
        /\ v \in [0 .. N -> Int]
    BY <1>1, LanesAreRows, ValuesAre
  <1> HIDE DEF v
  <1>3. Power2[W] \in Nat \ {0} /\ W \in Nat
    BY SlicedShape, Powers
  <1>4. ASSUME NEW j \in 0 .. N, \A m \in 0 .. j - 1 : m \in T
        PROVE  j \in T
    <2> SUFFICES ASSUME j \in Reached(expr), expr[j].kind \in WordKinds
                 PROVE  WordOf(LaneBits(j, l)) = v[j]
      OBVIOUS
    <2>1. j \in 1 .. N
      BY <1>1
    <2>2. PICK n, a, b, d : /\ n = expr[j] /\ a = v[n.left] /\ b = v[n.right]
                            /\ d = v[n.cond]
      OBVIOUS
    <2>3. v[j] = Apply(n, a, b, d, RowOf(l))
      BY <1>2, <2>1, <2>2
    <2>4. CASE n.kind \in Leaves
      <3>1. WordOf(LaneBits(j, l)) = IF n.kind = "LOAD" THEN RowOf(l)[n.field]
                                     ELSE n.value % Power2[W]
        BY <2>1, <2>2, <2>4, LeafWord
      <3> QED
        BY <2>3, <2>4, <3>1 DEF Apply, Leaves
    <2>5. CASE n.kind \in {"ADD", "SUB"}
      <3>1. PICK x, y, z, q : /\ x = WordOf(LaneBits(n.left, l))
                              /\ y = WordOf(LaneBits(n.right, l))
                              /\ z = WordOf(LaneBits(j, l))
                              /\ q = Power2[W]
        OBVIOUS
      <3>2. x = a /\ y = b
        <4>1. \A c \in {n.left, n.right} :
                  /\ c \in 1 .. j - 1
                  /\ c \in Reached(expr)
                  /\ expr[c].kind \in WordKinds
          BY <2>2, <2>5, WordOperands
        <4>2. \A c \in {n.left, n.right} : WordOf(LaneBits(c, l)) = v[c]
          BY <1>1, <1>4, <2>1, <4>1
        <4> QED
          BY <2>2, <3>1, <4>2
      <3>3. x \in Int /\ y \in Int /\ z \in 0 .. q - 1 /\ q \in Nat \ {0}
        BY <1>3, <3>1, WordOfIsWord DEF Word
      <3>4. PICK c \in {0, 1} :
                z + q * c = IF n.kind = "ADD" THEN x + y
                            ELSE x - y + q - Truth(l # 0)
        BY <2>2, <2>5, <3>1, AdderDone
      <3>5. CASE n.kind = "ADD"
        <4>1. x + y = q * c + z /\ c \in Int
          BY <3>3, <3>4, <3>5
        <4>2. (x + y) % q = z
          BY <3>3, <4>1, DivModUnique
        <4>3. v[j] = (x + y) % q
          BY <2>3, <3>1, <3>2, <3>5 DEF Apply
        <4> QED
          BY <3>1, <4>2, <4>3
      <3>6. CASE n.kind = "SUB"
        <4>1. l = 0
          BY <1>1, <2>1, <2>2, <3>6 DEF Kinds
        <4>2. z + q * c = x - y + q
          BY <3>3, <3>4, <3>6, <4>1 DEF Truth
        <4>3. x - y = q * (c - 1) + z /\ c - 1 \in Int
          BY <3>3, <4>2
        <4>4. (x - y) % q = z
          BY SMTT(30), <3>3, <4>3, DivModUnique
        <4>5. v[j] = (x - y) % q
          BY <2>3, <3>1, <3>2, <3>6 DEF Apply
        <4> QED
          BY <3>1, <4>4, <4>5
      <3> QED
        BY <2>5, <3>5, <3>6
    <2> QED
      BY <2>2, <2>4, <2>5 DEF WordKinds, Leaves
  <1> HIDE DEF T
  <1>5. 0 .. N \subseteq T
    BY <1>1, <1>4, StrongInduction
  <1>6. i \in T
    BY <1>1, <1>5
  <1> QED
    BY <1>6 DEF T, v

\* Each comparison with registers of its own has come to its documented value.
LEMMA SlicedComparison ==
    ASSUME SlicedInv, Ripples, ComparesRight, phase = "done", Supported,
           NEW l \in Lanes, l = 0 \/ "SUB" \notin Kinds(expr),
           NEW c \in 1 .. Len(prog.compares)
    PROVE  l \in gt[c] <=> Values(expr, RowOf(l))[Comparisons(expr)[c]] = 1
  <1> DEFINE v == Values(expr, RowOf(l))
  <1>1. PICK i, n, x, y : /\ i = prog.compares[c] /\ n = expr[i]
                          /\ x = WordOf(LaneBits(n.left, l))
                          /\ y = WordOf(LaneBits(n.right, l))
    OBVIOUS
  <1>2. /\ DOMAIN prog.compares = 1 .. Len(prog.compares)
        /\ i = Comparisons(expr)[c] /\ i \in Reached(expr) /\ n.kind \in Compared
        /\ i \in 1 .. Len(expr)
    BY <1>1, CompareOperands
  <1>3. n.kind \in {"GT", "LT"}
    <2>1. n.kind \in Kinds(expr)
      BY <1>1, <1>2, SlicedShape DEF Kinds
    <2> QED
      BY <1>2, <2>1 DEF Supported, Compared, Leaves
  <1>4. x = v[n.left] /\ y = v[n.right]
    <2>1. \A d \in {n.left, n.right} :
              d \in Reached(expr) /\ expr[d].kind \in WordKinds
      BY <1>1, <1>2, <1>3, WordOperands
    <2> QED
      BY <1>1, <2>1, SlicedWord
  <1>5. \A m : High(m, l, 0) = WordOf(LaneBits(m, l))
    <2>1. W - 0 = W
      BY WAssumption
    <2> QED
      BY <2>1, HighestIsWord DEF High
  <1>6. CompareAt(c, l, 0)
    BY <1>2 DEF ComparesRight
  <1>7. l \in gt[c] <=> IF n.kind = "GT" THEN x > y ELSE y > x
    BY <1>1, <1>3, <1>5, <1>6 DEF CompareAt
  <1>8. v[i] = Apply(n, v[n.left], v[n.right], v[n.cond], RowOf(l))
    <2>1. RowOf(l) \in [FieldNames -> Int] /\ IsTree(expr, FieldNames)
      BY SlicedShape, LanesAreRows
    <2>2. \A j \in 1 .. Len(expr) :
              v[j] = Apply(expr[j], v[expr[j].left], v[expr[j].right],
                           v[expr[j].cond], RowOf(l))
      BY <2>1, ValuesAre
    <2> QED
      BY <1>1, <1>2, <2>2
  <1> HIDE DEF v
  <1>9. v[i] = IF n.kind = "GT" THEN Truth(x > y) ELSE Truth(x < y)
    BY <1>3, <1>4, <1>8 DEF Apply
  <1>10. x \in Int /\ y \in Int
    BY <1>1, WordOfIsWord DEF Word
  <1>11. l \in gt[c] <=> v[i] = 1
    BY <1>7, <1>9, <1>10 DEF Truth
  <1> QED
    BY <1>2, <1>11 DEF v

\* All elements of s are in S.
Within(s, S) == \A k \in 1 .. Len(s) : s[k] \in S

LEMMA WithinJoin ==
    ASSUME NEW s \in Seq(Nat), NEW t \in Seq(Nat), NEW S
    PROVE  Within(s \o t, S) <=> Within(s, S) /\ Within(t, S)
  <1>1. /\ Len(s) \in Nat /\ Len(t) \in Nat
        /\ Len(s \o t) = Len(s) + Len(t)
        /\ \A k \in 1 .. Len(s) : (s \o t)[k] = s[k]
        /\ \A k \in 1 .. Len(t) : (s \o t)[Len(s) + k] = t[k]
    OBVIOUS
  <1>2. ASSUME Within(s \o t, S) PROVE Within(s, S) /\ Within(t, S)
    <2>1. \A k \in 1 .. Len(s) : k \in 1 .. Len(s \o t)
      BY <1>1
    <2>2. \A k \in 1 .. Len(t) : Len(s) + k \in 1 .. Len(s \o t)
      BY <1>1
    <2> QED
      BY <1>1, <1>2, <2>1, <2>2 DEF Within
  <1>3. ASSUME Within(s, S), Within(t, S), NEW k \in 1 .. Len(s \o t)
        PROVE  (s \o t)[k] \in S
    <2>1. CASE k <= Len(s)
      <3>1. k \in 1 .. Len(s)
        BY <1>1, <2>1
      <3> QED
        BY <1>1, <1>3, <3>1 DEF Within
    <2>2. CASE k > Len(s)
      <3>1. PICK j \in 1 .. Len(t) : k = Len(s) + j
        <4>1. k - Len(s) \in 1 .. Len(t) /\ k = Len(s) + (k - Len(s))
          BY <1>1, <2>2
        <4> QED
          BY <4>1
      <3> QED
        BY <1>1, <1>3, <3>1 DEF Within
    <2> QED
      BY <1>1, <2>1, <2>2
  <1> QED
    BY <1>2, <1>3 DEF Within

\* A supported tree is true of a row if all its comparisons are.
LEMMA ConjunctionValue ==
    ASSUME SlicedInv, Supported, NEW l \in Lanes
    PROVE  Meaning(expr, RowOf(l)) = 1 <=>
               \A k \in 1 .. Len(Comparisons(expr)) :
                   Values(expr, RowOf(l))[Comparisons(expr)[k]] = 1
  <1> DEFINE N == Len(expr)
             v == Values(expr, RowOf(l))
             S == {j \in Nat : v[j] = 1}
  <1>1. /\ N \in Nat \ {0} /\ IsTree(expr, FieldNames)
        /\ DOMAIN expr = 1 .. N
    BY SlicedShape
  <1>2. /\ \A j \in 1 .. N : v[j] = Apply(expr[j], v[expr[j].left],
                                          v[expr[j].right], v[expr[j].cond],
                                          RowOf(l))
        /\ v \in [0 .. N -> Int]
    BY <1>1, LanesAreRows, ValuesAre
  <1>3. PICK c : /\ Comparisons(expr) = c[N]
                 /\ \A i \in 1 .. N :
                        c[i] = IF expr[i].kind \in Compared THEN <<i>>
                               ELSE IF expr[i].kind = "AND"
                               THEN c[expr[i].left] \o c[expr[i].right]
                               ELSE <<>>
    BY <1>1, ComparisonsAre
  <1> DEFINE T == {i \in 0 .. N :
                      i > 0 /\ expr[i].kind \in {"GT", "LT", "AND"} =>
                          /\ c[i] \in Seq(Nat)
                          /\ v[i] \in {0, 1}
                          /\ v[i] = 1 <=> Within(c[i], S)}
  <1> HIDE DEF v, S
  <1>4. ASSUME NEW i \in 0 .. N, \A m \in 0 .. i - 1 : m \in T
        PROVE  i \in T
    <2> SUFFICES ASSUME i > 0, expr[i].kind \in {"GT", "LT", "AND"}
                 PROVE  /\ c[i] \in Seq(Nat)
                        /\ v[i] \in {0, 1}
                        /\ v[i] = 1 <=> Within(c[i], S)
      OBVIOUS
    <2>1. i \in 1 .. N /\ i \in Nat
      BY <1>1
    <2>2. PICK n, a, b : n = expr[i] /\ a = v[n.left] /\ b = v[n.right]
      OBVIOUS
    <2>3. v[i] = Apply(n, a, b, v[n.cond], RowOf(l))
      BY <1>2, <2>1, <2>2
    <2>4. CASE n.kind \in {"GT", "LT"}
      <3>1. v[i] \in {Truth(a > b), Truth(a < b)}
        BY <2>3, <2>4 DEF Apply
      <3>2. v[i] \in {0, 1}
        BY <3>1 DEF Truth
      <3>3. c[i] = <<i>>
        BY <1>3, <2>1, <2>2, <2>4 DEF Compared
      <3>4. <<i>> \in Seq(Nat) /\ Len(<<i>>) = 1 /\ <<i>>[1] = i
        BY <2>1
      <3>5. Within(<<i>>, S) <=> i \in S
        BY <3>4 DEF Within
      <3> QED
        BY <2>1, <3>2, <3>3, <3>4, <3>5 DEF S
    <2>5. CASE n.kind = "AND"
      <3>1. n.left \in 1 .. i - 1 /\ n.right \in 1 .. i - 1
        BY <1>1, <2>1, <2>2, <2>5, NodeShape DEF Leaves, Unary
      <3>2. {expr[n.left].kind, expr[n.right].kind} \subseteq {"GT", "LT", "AND"}
        <4>1. {expr[n.left].kind, expr[n.right].kind} \subseteq OperandKinds(expr, i)
          BY <2>1, <2>2, <3>1 DEF OperandKinds
        <4> QED
          BY <1>1, <2>1, <2>2, <2>5, <4>1 DEF Supported
      <3>3. PICK s, t : s = c[n.left] /\ t = c[n.right]
        OBVIOUS
      <3>4. /\ s \in Seq(Nat) /\ a \in {0, 1} /\ (a = 1 <=> Within(s, S))
            /\ t \in Seq(Nat) /\ b \in {0, 1} /\ (b = 1 <=> Within(t, S))
        <4>1. n.left \in T /\ n.right \in T /\ n.left > 0 /\ n.right > 0
          BY <1>4, <2>1, <3>1
        <4> QED
          BY <2>2, <3>2, <3>3, <4>1
      <3>5. c[i] = s \o t
        BY <1>3, <2>1, <2>2, <2>5, <3>3 DEF Compared
      <3>6. v[i] = a * b
        BY <2>3, <2>5 DEF Apply
      <3>7. v[i] \in {0, 1} /\ (v[i] = 1 <=> a = 1 /\ b = 1)
        BY <3>4, <3>6
      <3>8. s \o t \in Seq(Nat) /\ (Within(s \o t, S) <=> Within(s, S) /\ Within(t, S))
        BY <3>4, WithinJoin
      <3> QED
        BY <3>4, <3>5, <3>7, <3>8
    <2> QED
      BY <2>2, <2>4, <2>5
  <1> HIDE DEF T
  <1>5. 0 .. N \subseteq T
    BY <1>1, <1>4, StrongInduction
  <1>6. N \in T
    BY <1>1, <1>5
  <1>7. v[N] = 1 <=> Within(Comparisons(expr), S)
    BY <1>1, <1>3, <1>6 DEF T, Supported
  <1>8. Comparisons(expr) \in Seq(Nat)
    BY <1>1, ComparisonsType
  <1>9. \A k \in 1 .. Len(Comparisons(expr)) : Comparisons(expr)[k] \in Nat
    BY <1>8
  <1>10. Within(Comparisons(expr), S) <=>
             \A k \in 1 .. Len(Comparisons(expr)) : v[Comparisons(expr)[k]] = 1
    BY <1>9 DEF Within, S
  <1> QED
    BY <1>7, <1>10 DEF Meaning, v

\* Lane by lane the mask is the documented meaning of the expression as far as
\* the kernel has registers for its comparisons, whatever the tree.
THEOREM SlicedMask == Spec => []MaskIsMeaning
  <1>1. SlicedInv /\ Ripples /\ ComparesRight => MaskIsMeaning
    <2> SUFFICES ASSUME SlicedInv, Ripples, ComparesRight, phase = "done",
                        Supported, NEW l \in Lanes,
                        l = 0 \/ "SUB" \notin Kinds(expr)
                 PROVE  /\ l \in mask <=> l \in FirstComparisonsHold
                        /\ Len(Comparisons(expr)) <= MaxCompares =>
                               (l \in mask <=> l \in ReferenceMask)
      BY DEF MaskIsMeaning
    <2> DEFINE s == Comparisons(expr)
               f == FirstFew(s, MaxCompares)
               v == Values(expr, RowOf(l))
    <2>1. prog.compares = f
      BY DEF SlicedInv, Program
    <2>2. /\ s \in Seq(Nat)
          /\ Len(s) <= MaxCompares => Len(f) = Len(s)
      BY SlicedShape, ComparisonsType, FirstFewIs, KernelAssumption
    <2>3. DOMAIN f = 1 .. Len(f)
      BY <2>1, CompareOperands
    <2>4. l \in mask <=> \A c \in 1 .. Len(f) : l \in gt[c]
      BY <2>1, <2>3 DEF ComparesRight, Fold
    <2>5. \A c \in 1 .. Len(f) : l \in gt[c] <=> v[s[c]] = 1
      BY <2>1, SlicedComparison
    <2>6. l \in FirstComparisonsHold <=> \A c \in 1 .. Len(f) : v[s[c]] = 1
      BY <2>3 DEF FirstComparisonsHold
    <2>7. l \in ReferenceMask <=> \A c \in 1 .. Len(s) : v[s[c]] = 1
      BY ConjunctionValue DEF ReferenceMask
    <2> HIDE DEF s, f, v
    <2> QED
      BY <2>2, <2>4, <2>5, <2>6, <2>7 DEF s
  <1> QED
    BY <1>1, SlicedInvHolds, RipplesHold, ComparesHold, PTL

-----------------------------------------------------------------------------
(* The threshold kernel.                                                   *)

\* Each register and the bit counter keep their type through every
\* instruction group.
LEMMA ThresholdTypeStep ==
    ThresholdTypeOK /\ [ThresholdNext]_threshold_vars => ThresholdTypeOK'
  <1> SUFFICES ASSUME ThresholdTypeOK, [ThresholdNext]_threshold_vars
               PROVE  ThresholdTypeOK'
    OBVIOUS
  <1> USE WAssumption DEF ThresholdTypeOK
  <1>1. CASE ThresholdBit0
    BY <1>1 DEF ThresholdBit0
  <1>2. CASE ThresholdBit1
    BY <1>2 DEF ThresholdBit1
  <1>3. CASE ThresholdReturn
    BY <1>3 DEF ThresholdReturn
  <1>4. CASE UNCHANGED threshold_vars
    BY <1>4 DEF threshold_vars
  <1> QED
    BY <1>1, <1>2, <1>3, <1>4 DEF ThresholdNext, ThresholdFinished

\* Every variable of the kernel keeps its type.
THEOREM ThresholdTypeCorrect == ThresholdSpec => []ThresholdTypeOK
  <1>1. ThresholdInit => ThresholdTypeOK
    BY WAssumption DEF ThresholdInit, ThresholdTypeOK
  <1> QED
    BY <1>1, ThresholdTypeStep, PTL DEF ThresholdSpec

\* Two words agree above b - 1 when they agree above b and at b.
LEMMA EqualStep ==
    ASSUME NEW x \in BitWord, NEW y \in BitWord, NEW b \in Bits
    PROVE  EqualAbove(x, y, b - 1) <=> EqualAbove(x, y, b) /\ x[b] = y[b]
  <1> USE WAssumption DEF Bits
  <1>1. \A c \in Bits : c > b - 1 <=> c > b \/ c = b
    OBVIOUS
  <1> QED
    BY <1>1 DEF EqualAbove

\* The bit b decides for "greater" exactly the words that agree above it.
LEMMA GreaterStep ==
    ASSUME NEW x \in BitWord, NEW y \in BitWord, NEW b \in Bits
    PROVE  GreaterAbove(x, y, b - 1) <=>
               \/ GreaterAbove(x, y, b)
               \/ EqualAbove(x, y, b) /\ x[b] = 1 /\ y[b] = 0
  <1> USE WAssumption DEF Bits
  <1>1. \A c \in Bits : c > b - 1 <=> c > b \/ c = b
    OBVIOUS
  <1> QED
    BY <1>1 DEF GreaterAbove

\* Both masks describe the bits seen so far, before and after a group.
LEMMA ThresholdPrefixStep ==
    ThresholdTypeOK /\ PrefixDecides /\ [ThresholdNext]_threshold_vars
        => PrefixDecides'
  <1> SUFFICES ASSUME ThresholdTypeOK, PrefixDecides,
                      [ThresholdNext]_threshold_vars
               PROVE  PrefixDecides'
    OBVIOUS
  <1>a. \A l \in Block : /\ value[l] \in BitWord
                         /\ \A c \in Bits : value[l][c] \in {0, 1}
    BY DEF ThresholdTypeOK, BitWord
  <1>b. threshold \in BitWord
    BY DEF ThresholdTypeOK
  <1>1. ASSUME ThresholdBit0 \/ ThresholdBit1 PROVE PrefixDecides'
    <2>1. /\ bit \in Bits
          /\ bit' = bit - 1
          /\ value' = value
          /\ threshold' = threshold
      BY <1>1, WAssumption DEF ThresholdBit0, ThresholdBit1, ThresholdTypeOK, Bits
    <2>2. \A l \in Block :
              /\ EqualAbove(value[l], threshold, bit - 1) <=>
                     EqualAbove(value[l], threshold, bit)
                         /\ value[l][bit] = threshold[bit]
              /\ GreaterAbove(value[l], threshold, bit - 1) <=>
                     \/ GreaterAbove(value[l], threshold, bit)
                     \/ /\ EqualAbove(value[l], threshold, bit)
                        /\ value[l][bit] = 1
                        /\ threshold[bit] = 0
      BY <1>a, <1>b, <2>1, EqualStep, GreaterStep
    <2>3. ASSUME ThresholdBit0
          PROVE  /\ gt_mask' = {l \in Block :
                         GreaterAbove(value[l], threshold, bit - 1)}
                 /\ eq_mask' = {l \in Block :
                         EqualAbove(value[l], threshold, bit - 1)}
      <3>1. threshold[bit] = 0
        BY <2>3 DEF ThresholdBit0
      <3>2. \A l \in Block : value[l][bit] \in {0, 1}
        BY <1>a, <2>1
      <3> QED
        BY <2>2, <2>3, <3>1, <3>2 DEF ThresholdBit0, PrefixDecides, Plane
    <2>4. ASSUME ThresholdBit1
          PROVE  /\ gt_mask' = {l \in Block :
                         GreaterAbove(value[l], threshold, bit - 1)}
                 /\ eq_mask' = {l \in Block :
                         EqualAbove(value[l], threshold, bit - 1)}
      <3>1. threshold[bit] = 1
        BY <2>4 DEF ThresholdBit1
      <3> QED
        BY <2>2, <2>4, <3>1 DEF ThresholdBit1, PrefixDecides, Plane
    <2> QED
      BY <1>1, <2>1, <2>3, <2>4 DEF PrefixDecides
  <1>2. CASE ThresholdReturn
    BY <1>2 DEF ThresholdReturn, PrefixDecides
  <1>3. CASE UNCHANGED threshold_vars
    BY <1>3 DEF threshold_vars, PrefixDecides
  <1> QED
    BY <1>1, <1>2, <1>3 DEF ThresholdNext, ThresholdFinished

\* At the first instruction group no bit has been seen.
LEMMA ThresholdPrefixInit == ThresholdInit => PrefixDecides
  <1> SUFFICES ASSUME ThresholdInit PROVE PrefixDecides
    OBVIOUS
  <1>1. \A c \in Bits : ~(c > W - 1)
    BY WAssumption DEF Bits
  <1> QED
    BY <1>1 DEF ThresholdInit, PrefixDecides, GreaterAbove, EqualAbove

\* The GT and EQ masks are right after every instruction group of the kernel,
\* for words of any width and blocks of any size.
THEOREM ThresholdPrefix == ThresholdSpec => []PrefixDecides
  <1> QED
    BY ThresholdPrefixInit, ThresholdPrefixStep, ThresholdTypeCorrect, PTL
    DEF ThresholdSpec

\* The returned mask was copied from GT after the last bit.
LEMMA ThresholdMaskStep ==
    ThresholdTypeOK /\ PrefixDecides /\ MaskIsGreater
        /\ [ThresholdNext]_threshold_vars => MaskIsGreater'
  <1> SUFFICES ASSUME ThresholdTypeOK, PrefixDecides, MaskIsGreater,
                      [ThresholdNext]_threshold_vars
               PROVE  MaskIsGreater'
    OBVIOUS
  <1>1. CASE ThresholdBit0 \/ ThresholdBit1
    BY <1>1 DEF ThresholdBit0, ThresholdBit1, MaskIsGreater
  <1>2. CASE ThresholdReturn
    BY <1>2 DEF ThresholdReturn, MaskIsGreater, PrefixDecides
  <1>3. CASE UNCHANGED threshold_vars
    BY <1>3 DEF threshold_vars, MaskIsGreater
  <1> QED
    BY <1>1, <1>2, <1>3 DEF ThresholdNext, ThresholdFinished

\* The kernel returns the lanes whose word is greater than the threshold, for
\* words of any width and blocks of any size.
THEOREM ThresholdMask == ThresholdSpec => []MaskIsGreater
  <1>1. ThresholdInit => MaskIsGreater
    BY DEF ThresholdInit, MaskIsGreater
  <1> QED
    BY <1>1, ThresholdMaskStep, ThresholdTypeCorrect, ThresholdPrefix, PTL
    DEF ThresholdSpec


\* The bits that are 1 in a word.
OneBits(x) == {b \in Bits : x[b] = 1}

\* The numbers read from the top bits of two words compare like the words
\* themselves, for every number of bits read.
LEMMA TopCompares ==
    ASSUME NEW x \in BitWord, NEW y \in BitWord
    PROVE  \A b \in 0 .. W :
               /\ Highest(OneBits(x))[b] > Highest(OneBits(y))[b] <=>
                      GreaterAbove(x, y, W - b - 1)
               /\ Highest(OneBits(x))[b] = Highest(OneBits(y))[b] <=>
                      EqualAbove(x, y, W - b - 1)
  <1> DEFINE
        m(b) == Highest(OneBits(x))[b]
        n(b) == Highest(OneBits(y))[b]
        T == {b \in 0 .. W :
                /\ m(b) > n(b) <=> GreaterAbove(x, y, W - b - 1)
                /\ m(b) = n(b) <=> EqualAbove(x, y, W - b - 1)}
  <1>1. W \in Nat
    BY WAssumption
  <1>2. 0 \in T
    <2>1. m(0) = 0 /\ n(0) = 0
      BY HighestIs
    <2>2. \A c \in Bits : ~(c > W - 0 - 1)
      BY <1>1 DEF Bits
    <2>3. EqualAbove(x, y, W - 0 - 1)
      BY <2>2 DEF EqualAbove
    <2>4. ~GreaterAbove(x, y, W - 0 - 1)
      BY <2>2 DEF GreaterAbove
    <2> HIDE DEF m, n
    <2> QED
      BY <1>1, <2>1, <2>3, <2>4
  <1>3. ASSUME NEW b \in 1 .. W, b - 1 \in T PROVE b \in T
    <2> DEFINE c == W - b
    <2>1. /\ b \in 0 .. W /\ b # 0 /\ b - 1 \in 0 .. W
          /\ c \in Bits /\ W - b - 1 = c - 1 /\ W - (b - 1) - 1 = c
      BY <1>1 DEF Bits
    <2>2. x[c] \in {0, 1} /\ y[c] \in {0, 1}
      BY <2>1 DEF BitWord
    <2>3. Truth(c \in OneBits(x)) = x[c] /\ Truth(c \in OneBits(y)) = y[c]
      BY <2>1, <2>2 DEF Truth, OneBits
    <2>4. m(b) = 2 * m(b - 1) + x[c] /\ n(b) = 2 * n(b - 1) + y[c]
      BY <2>3, HighestIs
    <2>5. m(b - 1) \in Nat /\ n(b - 1) \in Nat
      <3>1. /\ Highest(OneBits(x)) \in [0 .. W -> Nat]
            /\ Highest(OneBits(y)) \in [0 .. W -> Nat]
        BY HighestIs
      <3> QED
        BY <2>1, <3>1
    <2>6. /\ m(b - 1) > n(b - 1) <=> GreaterAbove(x, y, c)
          /\ m(b - 1) = n(b - 1) <=> EqualAbove(x, y, c)
      BY <1>3, <2>1
    <2> HIDE DEF c, m, n
    <2>7. /\ m(b) > n(b) <=>
                 \/ m(b - 1) > n(b - 1)
                 \/ m(b - 1) = n(b - 1) /\ x[c] = 1 /\ y[c] = 0
          /\ m(b) = n(b) <=> m(b - 1) = n(b - 1) /\ x[c] = y[c]
      BY <2>2, <2>4, <2>5
    <2>8. /\ m(b) > n(b) <=> GreaterAbove(x, y, c - 1)
          /\ m(b) = n(b) <=> EqualAbove(x, y, c - 1)
      BY <2>1, <2>6, <2>7, EqualStep, GreaterStep
    <2> QED
      BY <2>1, <2>8
  <1> HIDE DEF T
  <1>4. 0 .. W \subseteq T
    BY <1>1, <1>2, <1>3, BoundedInduction
  <1> QED
    BY <1>4 DEF T

\* The order of the words is that of their numbers.
LEMMA NumberOrder ==
    ASSUME NEW x \in BitWord, NEW y \in BitWord
    PROVE  Number(x) > Number(y) <=> GreaterAbove(x, y, -1)
  <1>1. /\ Number(x) = Highest(OneBits(x))[W]
        /\ Number(y) = Highest(OneBits(y))[W]
    BY HighestIsWord DEF Number, OneBits
  <1>2. W \in 0 .. W /\ W - W - 1 = -1
    BY WAssumption
  <1>3. Highest(OneBits(x))[W] > Highest(OneBits(y))[W] <=>
            GreaterAbove(x, y, W - W - 1)
    BY <1>2, TopCompares, Zenon
  <1> QED
    BY <1>1, <1>2, <1>3

\* The kernel of set_logic selects the rows whose field is greater than the
\* threshold as unsigned integers, for words of any width.
THEOREM ThresholdNumericMask ==
    ThresholdSpec => []MaskIsNumericGreater
  <1>1. ThresholdTypeOK /\ MaskIsGreater =>
            MaskIsNumericGreater
    <2> SUFFICES ASSUME ThresholdTypeOK, MaskIsGreater
                 PROVE  MaskIsNumericGreater
      OBVIOUS
    <2>1. threshold \in BitWord
            /\ \A l \in Block : value[l] \in BitWord
      BY DEF ThresholdTypeOK
    <2>2. \A l \in Block :
              Number(value[l]) > Number(threshold) <=>
                  GreaterAbove(value[l], threshold, -1)
      BY <2>1, NumberOrder
    <2> QED
      BY <2>2 DEF MaskIsGreater, MaskIsNumericGreater
  <1> QED
    BY <1>1, ThresholdTypeCorrect, ThresholdMask, PTL
=============================================================================
