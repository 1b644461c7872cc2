--------------------------- MODULE Idioms_proofs ---------------------------
(***************************************************************************)
(* The sequences a compiler relies on mean what they should, for words of  *)
(* any width, every operand and every one of the sequences.  The first     *)
(* part is about numbers and the bits they are made of; the second runs    *)
(* each sequence and says what every instruction leaves in the registers.  *)
(***************************************************************************)
EXTENDS Idioms, WellFoundedInduction, TLAPS

(***************************************************************************)
(* Recursive functions                                                     *)
(***************************************************************************)

(* Induction: a set with zero and every number's successor has them all.   *)
LEMMA Induction ==
  ASSUME NEW S, 0 \in S, \A n \in Nat : n \in S => n + 1 \in S
  PROVE  \A n \in Nat : n \in S
<1> DEFINE T == {n \in Nat : n \notin S}
<1> SUFFICES ASSUME T # {} PROVE FALSE
  OBVIOUS
<1>1. T \subseteq Nat
  OBVIOUS
<1>2. \E x \in T : \A y \in T : <<y, x>> \notin OpToRel(<, Nat)
  BY <1>1, NatLessThanWellFounded, WFMin
<1>3. PICK x \in T : \A y \in T : <<y, x>> \notin OpToRel(<, Nat)
  BY <1>2
<1>4. x \in Nat /\ x # 0 /\ x - 1 \in Nat
  OBVIOUS
<1>5. x - 1 \notin T
  <2>1. <<x - 1, x>> \in Nat \X Nat
    BY <1>4
  <2>2. x - 1 < x
    BY <1>4
  <2>3. <<x - 1, x>> \in OpToRel(<, Nat)
    BY <2>1, <2>2 DEF OpToRel
  <2> QED
    BY <1>3, <2>3
<1>6. x - 1 \in S
  BY <1>4, <1>5
<1>7. x - 1 + 1 \in S
  BY <1>4, <1>6
<1> QED
  BY <1>4, <1>7

(* A first value and a step make a sequence of values.                     *)
IsStep(step, V) == step \in [Nat -> [V -> V]]
Follows(g, V, c, step) ==
  /\ g \in [Nat -> V]
  /\ g[0] = c
  /\ \A n \in Nat : g[n + 1] = step[n][g[n]]

LEMMA Recursion ==
  ASSUME NEW V, NEW c, NEW step, c \in V, IsStep(step, V)
  PROVE  \E g : Follows(g, V, c, step)
<1>0. step \in [Nat -> [V -> V]]
  BY DEF IsStep
<1> DEFINE Upto(g, n) == g[0] = c /\ \A i \in 0 .. n - 1 : g[i + 1] = step[i][g[i]]
           S == {n \in Nat : \E g \in [Nat -> V] : Upto(g, n)}
           g0 == [i \in Nat |-> c]
<1>1. 0 \in S
  <2>1. g0 \in [Nat -> V] /\ Upto(g0, 0)
    OBVIOUS
  <2> QED
    BY <2>1
<1>2. ASSUME NEW n \in Nat, n \in S PROVE n + 1 \in S
  <2>1. PICK g \in [Nat -> V] : Upto(g, n)
    BY <1>2
  <2> DEFINE h == [i \in Nat |-> IF i <= n THEN g[i] ELSE step[n][g[n]]]
  <2>2. h \in [Nat -> V]
    BY <1>0
  <2>3. Upto(h, n + 1)
    <3>1. h[0] = c
      BY <2>1
    <3>2. ASSUME NEW i \in 0 .. n PROVE h[i + 1] = step[i][h[i]]
      <4>1. CASE i = n
        BY <4>1
      <4>2. CASE i \in 0 .. n - 1
        <5>1. g[i + 1] = step[i][g[i]]
          BY <2>1, <4>2
        <5> QED
          BY <4>2, <5>1
      <4> QED
        BY <4>1, <4>2
    <3> QED
      BY <3>1, <3>2
  <2>4. n + 1 \in Nat
    OBVIOUS
  <2> HIDE DEF h, Upto
  <2> QED
    BY <2>2, <2>3, <2>4
<1>3. \A n \in Nat : n \in S
  <2> HIDE DEF S
  <2> QED
    BY <1>1, <1>2, Induction
<1> DEFINE G == [n \in Nat |-> CHOOSE g \in [Nat -> V] : Upto(g, n)]
           F == [n \in Nat |-> G[n][n]]
<1>4. \A n \in Nat : G[n] \in [Nat -> V] /\ Upto(G[n], n)
  <2> SUFFICES ASSUME NEW n \in Nat PROVE G[n] \in [Nat -> V] /\ Upto(G[n], n)
    OBVIOUS
  <2>1. \E g \in [Nat -> V] : Upto(g, n)
    BY <1>3
  <2> HIDE DEF Upto
  <2> QED
    BY <2>1
(* Two sequences made by the same rule agree as far as they go.            *)
<1>5. ASSUME NEW m \in Nat, NEW g \in [Nat -> V], NEW h \in [Nat -> V], Upto(g, m), Upto(h, m)
      PROVE  \A i \in 0 .. m : g[i] = h[i]
  <2> DEFINE A == {i \in Nat : i <= m => g[i] = h[i]}
  <2>1. 0 \in A
    BY <1>5
  <2>2. ASSUME NEW i \in Nat, i \in A PROVE i + 1 \in A
    <3> SUFFICES ASSUME i + 1 <= m PROVE g[i + 1] = h[i + 1]
      OBVIOUS
    <3>1. g[i] = h[i] /\ i \in 0 .. m - 1
      BY <2>2
    <3>2. g[i + 1] = step[i][g[i]] /\ h[i + 1] = step[i][h[i]]
      BY <1>5, <3>1
    <3> QED
      BY <3>1, <3>2
  <2>3. \A i \in Nat : i \in A
    <3> HIDE DEF A
    <3> QED
      BY <2>1, <2>2, Induction
  <2> QED
    BY <2>3
<1>6. F \in [Nat -> V]
  <2> HIDE DEF G
  <2> QED
    BY <1>4
<1>7. F[0] = c
  <2> HIDE DEF G
  <2> QED
    BY <1>4
<1>8. ASSUME NEW n \in Nat PROVE F[n + 1] = step[n][F[n]]
  <2> HIDE DEF G
  <2>1. Upto(G[n + 1], n + 1) /\ G[n + 1] \in [Nat -> V] /\ Upto(G[n], n) /\ G[n] \in [Nat -> V]
    BY <1>4
  <2>2. Upto(G[n + 1], n)
    BY <2>1
  <2>3. G[n + 1][n] = G[n][n]
    <3> HIDE DEF Upto
    <3> QED
      BY <1>5, <2>1, <2>2
  <2>4. G[n + 1][n + 1] = step[n][G[n + 1][n]]
    BY <2>1
  <2> QED
    BY <2>3, <2>4
<1> HIDE DEF F
<1>9. Follows(F, V, c, step)
  BY <1>6, <1>7, <1>8 DEF Follows
<1> QED
  BY <1>9

LEMMA TwoDef ==
  /\ Two \in [Nat -> Nat]
  /\ Two[0] = 1
  /\ \A n \in Nat : Two[n + 1] = 2 * Two[n]
<1> DEFINE step == [i \in Nat |-> [x \in Nat |-> 2 * x]]
<1>1. step \in [Nat -> [Nat -> Nat]]
  OBVIOUS
<1>2. PICK g : Follows(g, Nat, 1, step)
  <2>1. IsStep(step, Nat) /\ 1 \in Nat
    BY <1>1 DEF IsStep
  <2> HIDE DEF step
  <2> QED
    BY <2>1, Recursion
<1>3. \A n \in Nat : g[n + 1] = 2 * g[n]
  BY <1>2 DEF Follows
<1>4. g = [n \in Nat |-> IF n = 0 THEN 1 ELSE 2 * g[n - 1]]
  <2>1. ASSUME NEW n \in Nat PROVE g[n] = IF n = 0 THEN 1 ELSE 2 * g[n - 1]
    <3>1. CASE n = 0
      BY <1>2, <3>1 DEF Follows
    <3>2. CASE n # 0
      <4>1. n - 1 \in Nat
        BY <3>2
      <4>2. g[(n - 1) + 1] = 2 * g[n - 1]
        BY <1>3, <4>1
      <4> QED
        BY <3>2, <4>2
    <3> QED
      BY <3>1, <3>2
  <2> QED
    BY <1>2, <2>1 DEF Follows
<1>5. Two = [n \in Nat |-> IF n = 0 THEN 1 ELSE 2 * Two[n - 1]]
  BY <1>4 DEF Two
<1>6. \A n \in Nat : Two[n] = IF n = 0 THEN 1 ELSE 2 * Two[n - 1]
  BY <1>5
<1>7. Two[0] = 1 /\ \A n \in Nat : Two[n + 1] = 2 * Two[n]
  BY <1>6
<1> DEFINE S == {n \in Nat : Two[n] \in Nat}
<1>8. 0 \in S /\ \A n \in Nat : n \in S => n + 1 \in S
  BY <1>7
<1>9. \A n \in Nat : n \in S
  <2> HIDE DEF S
  <2> QED
    BY <1>8, Induction
<1> QED
  BY <1>5, <1>7, <1>9

LEMMA SumDef ==
  /\ Sum \in [Nat -> [SUBSET Nat -> Nat]]
  /\ \A w \in SUBSET Nat : Sum[0][w] = 0
  /\ \A n \in Nat, w \in SUBSET Nat :
       Sum[n + 1][w] = Sum[n][w] + IF n \in w THEN Two[n] ELSE 0
<1> DEFINE V == [SUBSET Nat -> Nat]
           add(n, x) == [w \in SUBSET Nat |-> x[w] + IF n \in w THEN Two[n] ELSE 0]
           more == [n \in Nat |-> [x \in V |-> add(n, x)]]
           zero == [w \in SUBSET Nat |-> 0]
<1>0. \A n \in Nat, x \in V : add(n, x) \in V
  BY TwoDef
<1>1. more \in [Nat -> [V -> V]] /\ zero \in V
  <2>1. zero \in V
    OBVIOUS
  <2> HIDE DEF V, add
  <2> QED
    BY <1>0, <2>1
<1>2. PICK g : Follows(g, V, zero, more)
  <2>1. IsStep(more, V)
    BY <1>1 DEF IsStep
  <2> HIDE DEF V, more, zero
  <2> QED
    BY <1>1, <2>1, Recursion
<1>3. /\ g \in [Nat -> V] /\ g[0] = zero
      /\ \A n \in Nat : g[n + 1] = more[n][g[n]]
  <2> HIDE DEF V, more, zero
  <2> QED
    BY <1>2 DEF Follows
<1>4. ASSUME NEW n \in Nat, NEW w \in SUBSET Nat
      PROVE  g[n + 1][w] = g[n][w] + IF n \in w THEN Two[n] ELSE 0
  <2>1. g[n + 1] = add(n, g[n])
    <3> HIDE DEF V, add
    <3> QED
      BY <1>3
  <2> QED
    BY <2>1
<1> DEFINE body(h, n) == [w \in SUBSET Nat |->
             IF n = 0 THEN 0 ELSE h[n - 1][w] + IF n - 1 \in w THEN Two[n - 1] ELSE 0]
<1>5. g = [n \in Nat |-> body(g, n)]
  <2>1. ASSUME NEW n \in Nat PROVE g[n] = body(g, n)
    <3>1. CASE n = 0
      BY <1>3, <3>1
    <3>2. CASE n # 0
      <4>1. n - 1 \in Nat /\ (n - 1) + 1 = n
        BY <3>2
      <4>2. PICK m \in Nat : n = m + 1
        BY <4>1
      <4>3. g[n] \in V /\ g[m] \in V
        BY <1>3
      <4>4. \A w \in SUBSET Nat : g[n][w] = body(g, n)[w]
        <5>1. \A w \in SUBSET Nat : g[n][w] = g[m][w] + IF m \in w THEN Two[m] ELSE 0
          BY <1>4, <4>2
        <5>2. n - 1 = m /\ n # 0
          BY <4>2
        <5> QED
          BY <5>1, <5>2
      <4> QED
        BY <4>3, <4>4
    <3> QED
      BY <3>1, <3>2
  <2> HIDE DEF body
  <2> QED
    BY <1>3, <2>1
<1>6. Sum = [n \in Nat |-> body(Sum, n)]
  BY <1>5 DEF Sum
<1>7. \A n \in Nat : Sum[n] = body(Sum, n)
  <2> HIDE DEF body
  <2> QED
    BY <1>6
<1>8. Sum[0] = zero
  BY <1>7
<1>9. ASSUME NEW n \in Nat PROVE Sum[n + 1] = add(n, Sum[n])
  <2>1. Sum[n + 1] = body(Sum, n + 1)
    <3> HIDE DEF body
    <3> QED
      BY <1>7
  <2>2. (n + 1) - 1 = n /\ n + 1 # 0
    OBVIOUS
  <2> QED
    BY <2>1, <2>2
<1> DEFINE S == {n \in Nat : Sum[n] \in V}
<1>10. 0 \in S
  <2> HIDE DEF V, zero
  <2> QED
    BY <1>1, <1>8
<1>11. ASSUME NEW n \in Nat, n \in S PROVE n + 1 \in S
  <2> HIDE DEF V, add
  <2> QED
    BY <1>0, <1>9, <1>11
<1>12. \A n \in Nat : n \in S
  <2> HIDE DEF S
  <2> QED
    BY <1>10, <1>11, Induction
<1>13. Sum \in [Nat -> V]
  <2> HIDE DEF V, body
  <2> QED
    BY <1>6, <1>12
<1>14. \A w \in SUBSET Nat : Sum[0][w] = 0
  BY <1>8
<1>15. \A n \in Nat, w \in SUBSET Nat : Sum[n + 1][w] = Sum[n][w] + IF n \in w THEN Two[n] ELSE 0
  <2> SUFFICES ASSUME NEW n \in Nat, NEW w \in SUBSET Nat
               PROVE  Sum[n + 1][w] = Sum[n][w] + IF n \in w THEN Two[n] ELSE 0
    OBVIOUS
  <2>1. Sum[n + 1] = add(n, Sum[n])
    BY <1>9
  <2> QED
    BY <2>1
<1> QED
  BY <1>13, <1>14, <1>15

(***************************************************************************)
(* Powers of two, quotients and rests                                      *)
(***************************************************************************)

LEMMA TwoType ==
  /\ \A n \in Nat : Two[n] \in Nat /\ Two[n] >= 1 /\ Two[n + 1] = 2 * Two[n]
  /\ Two[0] = 1
<1> DEFINE S == {n \in Nat : Two[n] >= 1}
<1>1. 0 \in S /\ \A n \in Nat : n \in S => n + 1 \in S
  BY TwoDef
<1>2. \A n \in Nat : n \in S
  <2> HIDE DEF S
  <2> QED
    BY <1>1, Induction
<1> QED
  BY <1>2, TwoDef

LEMMA Associate ==
  ASSUME NEW a \in Int, NEW b \in Int, NEW c \in Int
  PROVE  /\ a * (b * c) = (a * b) * c /\ a * b = b * a
         /\ a * (b + c) = a * b + a * c /\ a * (b - c) = a * b - a * c
         /\ a * b \in Int
  OBVIOUS

LEMMA Natural ==
  ASSUME NEW a \in Nat, NEW b \in Nat
  PROVE  a * b \in Nat
  OBVIOUS

LEMMA TwoAdd ==
  \A m, n \in Nat : Two[m + n] = Two[m] * Two[n]
<1> SUFFICES ASSUME NEW m \in Nat PROVE \A n \in Nat : Two[m + n] = Two[m] * Two[n]
  OBVIOUS
<1> DEFINE S == {n \in Nat : Two[m + n] = Two[m] * Two[n]}
<1>1. 0 \in S
  BY TwoType
<1>2. ASSUME NEW n \in Nat, n \in S PROVE n + 1 \in S
  <2>1. Two[m + n] = Two[m] * Two[n]
    BY <1>2
  <2>2. Two[m + (n + 1)] = 2 * Two[m + n]
    <3>1. m + (n + 1) = (m + n) + 1 /\ m + n \in Nat
      OBVIOUS
    <3> QED
      BY <3>1, TwoType
  <2>3. Two[n + 1] = 2 * Two[n] /\ Two[m] \in Nat /\ Two[n] \in Nat
    BY TwoType
  <2>4. 2 * (Two[m] * Two[n]) = Two[m] * (2 * Two[n])
    BY <2>3
  <2> QED
    BY <2>1, <2>2, <2>3, <2>4
<1>3. \A n \in Nat : n \in S
  <2> HIDE DEF S
  <2> QED
    BY <1>1, <1>2, Induction
<1> QED
  BY <1>3

LEMMA TwoMonotone ==
  ASSUME NEW m \in Nat, NEW n \in Nat, m <= n
  PROVE  Two[n] = Two[m] * Two[n - m] /\ Two[m] <= Two[n]
<1>1. n - m \in Nat /\ m + (n - m) = n
  OBVIOUS
<1>2. Two[n] = Two[m] * Two[n - m]
  BY <1>1, TwoAdd
<1>3. PICK a \in Nat, b \in Nat : a = Two[m] /\ b = Two[n - m] /\ b >= 1
  BY <1>1, TwoType
<1>4. a * b >= a
  BY <1>3
<1> QED
  BY <1>2, <1>3, <1>4

(* What division leaves, and that nothing else is left.                    *)
LEMMA Divided ==
  ASSUME NEW x \in Int, NEW m \in Nat, m >= 1
  PROVE  x \div m \in Int /\ x % m \in 0 .. m - 1 /\ x = m * (x \div m) + (x % m)
<1>1. x \div m \in Int
  OBVIOUS
<1>2. x % m \in 0 .. m - 1
  OBVIOUS
<1>3. x = m * (x \div m) + (x % m)
  OBVIOUS
<1> QED
  BY <1>1, <1>2, <1>3

LEMMA DividedOnly ==
  ASSUME NEW x \in Int, NEW m \in Nat, m >= 1, NEW k \in Int, NEW j \in 0 .. m - 1,
         x = m * k + j
  PROVE  x \div m = k /\ x % m = j
<1>1. PICK q \in Int, s \in 0 .. m - 1 : q = x \div m /\ s = x % m /\ x = m * q + s
  BY Divided
<1>2. m * (q - k) = j - s
  BY <1>1
<1>3. ~(q - k >= 1)
  <2> SUFFICES ASSUME q - k >= 1 PROVE FALSE
    OBVIOUS
  <2>1. m * (q - k) >= m
    BY <1>1
  <2> QED
    BY <1>1, <1>2, <2>1
<1>4. ~(q - k <= -1)
  <2> SUFFICES ASSUME q - k <= -1 PROVE FALSE
    OBVIOUS
  <2>1. m * (q - k) <= -m
    BY <1>1
  <2> QED
    BY <1>1, <1>2, <2>1
<1>5. q = k
  BY <1>3, <1>4
<1> QED
  BY <1>1, <1>5

LEMMA RestOf ==
  ASSUME NEW x \in Int, NEW m \in Nat, m >= 1
  PROVE  \E k \in Int : x % m = x + m * k
<1>1. PICK q \in Int, s \in 0 .. m - 1 : q = x \div m /\ s = x % m /\ x = m * q + s
  BY Divided
<1>2. PICK k \in Int : k = -q
  OBVIOUS
<1>3. m * k = -(m * q) /\ m * q \in Int
  BY <1>2
<1>4. s = x + m * k
  BY <1>1, <1>3
<1> QED
  BY <1>1, <1>4

(* Numbers that are the same modulo m leave the same rest.                 *)
LEMMA SameRest ==
  ASSUME NEW x \in Int, NEW y \in Int, NEW m \in Nat, m >= 1, NEW k \in Int, x = y + m * k
  PROVE  x % m = y % m
<1>1. PICK q \in Int, s \in 0 .. m - 1 : q = y \div m /\ s = y % m /\ y = m * q + s
  BY Divided
<1>2. x = m * (q + k) + s
  BY <1>1
<1>3. PICK p \in Int : p = q + k
  OBVIOUS
<1>4. x = m * p + s
  BY <1>2, <1>3
<1>5. x % m = s
  BY <1>4, DividedOnly
<1> QED
  BY <1>1, <1>5

(* Dividing by a product is dividing twice; a rest of a product splits.    *)
LEMMA DividedTwice ==
  ASSUME NEW x \in Int, NEW a \in Nat, NEW b \in Nat, a >= 1, b >= 1
  PROVE  /\ x \div (a * b) = (x \div a) \div b
         /\ x % (a * b) = (x % a) + a * ((x \div a) % b)
         /\ a * b \in Nat /\ a * b >= 1
<1>1. PICK q \in Int, s \in 0 .. a - 1 : q = x \div a /\ s = x % a /\ x = a * q + s
  BY Divided
<1>2. PICK p \in Int, t \in 0 .. b - 1 : p = q \div b /\ t = q % b /\ q = b * p + t
  BY Divided
<1>3. x = (a * b) * p + (s + a * t)
  <2>1. a * q = a * (b * p) + a * t
    BY <1>2, Associate
  <2>2. a * (b * p) = (a * b) * p
    BY Associate
  <2> QED
    BY <1>1, <2>1, <2>2
<1>4. s + a * t \in 0 .. a * b - 1
  <2>1. a * t <= a * (b - 1)
    BY <1>2
  <2>2. a * (b - 1) = a * b - a /\ a * t \in Nat
    BY <1>2
  <2> QED
    BY <1>1, <2>1, <2>2
<1>5. a * b \in Nat /\ a * b >= 1
  OBVIOUS
<1>6. PICK c \in Nat, j \in Nat : c = a * b /\ j = s + a * t
  BY <1>4, <1>5
<1>7. x \div c = p /\ x % c = j
  <2>1. x = c * p + j /\ j \in 0 .. c - 1 /\ c >= 1
    BY <1>3, <1>4, <1>5, <1>6
  <2> QED
    BY <2>1, DividedOnly
<1> QED
  BY <1>1, <1>2, <1>5, <1>6, <1>7

(***************************************************************************)
(* The number a set of bits stands for                                     *)
(***************************************************************************)

Nats == SUBSET Nat

(* The n lowest bits make a number below the n-th power of two.            *)
LEMMA SumType ==
  \A n \in Nat, w \in Nats :
    /\ Sum[n][w] \in 0 .. Two[n] - 1
    /\ Sum[n + 1][w] = Sum[n][w] + IF n \in w THEN Two[n] ELSE 0
    /\ Sum[0][w] = 0
<1> SUFFICES ASSUME NEW w \in Nats
             PROVE  \A n \in Nat : Sum[n][w] \in 0 .. Two[n] - 1
  BY SumDef DEF Nats
<1> DEFINE S == {n \in Nat : Sum[n][w] \in 0 .. Two[n] - 1}
<1>1. 0 \in S
  BY SumDef, TwoType DEF Nats
<1>2. ASSUME NEW n \in Nat, n \in S PROVE n + 1 \in S
  <2>1. Sum[n + 1][w] = Sum[n][w] + IF n \in w THEN Two[n] ELSE 0
    BY SumDef DEF Nats
  <2>2. Two[n + 1] = 2 * Two[n] /\ Two[n] \in Nat
    BY TwoType
  <2> QED
    BY <1>2, <2>1, <2>2
<1>3. \A n \in Nat : n \in S
  <2> HIDE DEF S
  <2> QED
    BY <1>1, <1>2, Induction
<1> QED
  BY <1>3

(* Equal bits make equal numbers, and equal numbers have equal bits.       *)
LEMMA SumOfSame ==
  ASSUME NEW v \in Nats, NEW w \in Nats
  PROVE  \A n \in Nat : Sum[n][v] = Sum[n][w] <=> \A i \in 0 .. n - 1 : i \in v <=> i \in w
<1> DEFINE Same(n) == \A i \in 0 .. n - 1 : i \in v <=> i \in w
           S == {n \in Nat : Sum[n][v] = Sum[n][w] <=> Same(n)}
<1>1. 0 \in S
  BY SumType
<1>2. ASSUME NEW n \in Nat, n \in S PROVE n + 1 \in S
  <2>1. PICK a \in Nat, b \in Nat, t \in Nat :
          a = Sum[n][v] /\ b = Sum[n][w] /\ t = Two[n] /\ a < t /\ b < t
    <3>1. Sum[n][v] \in 0 .. Two[n] - 1 /\ Sum[n][w] \in 0 .. Two[n] - 1 /\ Two[n] \in Nat
      BY SumType, TwoType
    <3> QED
      BY <3>1
  <2>2. /\ Sum[n + 1][v] = a + IF n \in v THEN t ELSE 0
        /\ Sum[n + 1][w] = b + IF n \in w THEN t ELSE 0
    BY <2>1, SumType
  <2>3. Sum[n + 1][v] = Sum[n + 1][w] <=> a = b /\ (n \in v <=> n \in w)
    BY <2>1, <2>2
  <2>4. Same(n + 1) <=> Same(n) /\ (n \in v <=> n \in w)
    OBVIOUS
  <2>5. a = b <=> Same(n)
    BY <1>2, <2>1
  <2> HIDE DEF Same
  <2> QED
    BY <2>3, <2>4, <2>5
<1>3. \A n \in Nat : n \in S
  <2> HIDE DEF S
  <2> QED
    BY <1>1, <1>2, Induction
<1> QED
  BY <1>3

LEMMA ShrIn ==
  ASSUME NEW w \in Nats, NEW n \in Nat
  PROVE  /\ Shr(w, n) \in Nats
         /\ \A i \in Nat : i \in Shr(w, n) <=> i + n \in w
<1>1. Shr(w, n) \in Nats
  BY DEF Shr, Nats
<1>2. ASSUME NEW i \in Nat, i + n \in w PROVE i \in Shr(w, n)
  <2>1. i + n >= n /\ (i + n) - n = i
    OBVIOUS
  <2> QED
    BY <1>2, <2>1 DEF Shr, Nats
<1>3. ASSUME NEW i \in Nat, i \in Shr(w, n) PROVE i + n \in w
  BY <1>3 DEF Shr, Nats
<1> QED
  BY <1>1, <1>2, <1>3

(* The bits up to o + n are those up to o and the next n, moved up.        *)
LEMMA SumSplit ==
  ASSUME NEW w \in Nats, NEW o \in Nat
  PROVE  \A n \in Nat : Sum[o + n][w] = Sum[o][w] + Two[o] * Sum[n][Shr(w, o)]
<1> DEFINE up == Shr(w, o)
           S == {n \in Nat : Sum[o + n][w] = Sum[o][w] + Two[o] * Sum[n][up]}
<1>0. up \in Nats /\ \A i \in Nat : i \in up <=> i + o \in w
  BY ShrIn
<1> HIDE DEF up
<1>1. 0 \in S
  BY <1>0, SumType, TwoType
<1>2. ASSUME NEW n \in Nat, n \in S PROVE n + 1 \in S
  <2>1. /\ Sum[(o + n) + 1][w] = Sum[o + n][w] + (IF o + n \in w THEN Two[o + n] ELSE 0)
        /\ Sum[n + 1][up] = Sum[n][up] + (IF n \in up THEN Two[n] ELSE 0)
    BY <1>0, SumType
  <2>2. Two[o + n] = Two[o] * Two[n] /\ o + (n + 1) = (o + n) + 1 /\ n + o = o + n
    BY TwoAdd
  <2>3. PICK a \in Nat, b \in Nat, s \in Nat, t \in Nat :
          a = Two[o] /\ b = Two[n] /\ s = Sum[o][w] /\ t = Sum[n][up]
    <3>1. Two[o] \in Nat /\ Two[n] \in Nat /\ Sum[o][w] \in Nat /\ Sum[n][up] \in Nat
      BY <1>0, SumType, TwoType
    <3> QED
      BY <3>1
  <2>4. Sum[o + n][w] = s + a * t
    BY <1>2, <2>3
  <2>5. n \in up <=> o + n \in w
    BY <1>0, <2>2
  <2>6. CASE n \in up
    <3>1. Sum[o + (n + 1)][w] = (s + a * t) + a * b
      BY <2>1, <2>2, <2>3, <2>4, <2>5, <2>6
    <3>2. Two[o] * Sum[n + 1][up] = a * (t + b)
      BY <2>1, <2>3, <2>6
    <3>3. a * (t + b) = a * t + a * b /\ a * t \in Int /\ a * b \in Int
      BY Associate
    <3> QED
      BY <2>3, <3>1, <3>2, <3>3
  <2>7. CASE n \notin up
    BY <2>1, <2>2, <2>3, <2>4, <2>5, <2>7
  <2> QED
    BY <2>6, <2>7
<1>3. \A n \in Nat : n \in S
  <2> HIDE DEF S
  <2> QED
    BY <1>1, <1>2, Induction
<1> QED
  BY <1>3 DEF up

(* Bits taken from a number by halving make its rest.                      *)
LEMMA SumOfBits ==
  ASSUME NEW x \in Int, NEW w \in Nats, NEW m \in Nat,
         \A i \in 0 .. m - 1 : i \in w <=> (x \div Two[i]) % 2 = 1
  PROVE  Sum[m][w] = x % Two[m]
<1> DEFINE S == {n \in Nat : n <= m => Sum[n][w] = x % Two[n]}
<1>1. 0 \in S
  <2>1. x % 1 = 0
    OBVIOUS
  <2> QED
    BY <2>1, SumType, TwoType
<1>2. ASSUME NEW n \in Nat, n \in S PROVE n + 1 \in S
  <2> SUFFICES ASSUME n + 1 <= m PROVE Sum[n + 1][w] = x % Two[n + 1]
    OBVIOUS
  <2>1. PICK a \in Nat : a = Two[n] /\ a >= 1 /\ Two[n + 1] = a * 2
    BY TwoType
  <2>2. x % (a * 2) = (x % a) + a * ((x \div a) % 2)
    <3>1. PICK two \in Nat : two = 2 /\ two >= 1
      OBVIOUS
    <3>2. x % (a * two) = (x % a) + a * ((x \div a) % two)
      BY <2>1, <3>1, DividedTwice
    <3> QED
      BY <3>1, <3>2
  <2>3. (x \div a) % 2 \in {0, 1}
    <3>1. x \div a \in Int
      BY <2>1, Divided
    <3> QED
      BY <3>1
  <2>4. Sum[n][w] = x % a
    BY <1>2, <2>1
  <2>5. n \in w <=> (x \div a) % 2 = 1
    BY <2>1
  <2>6. Sum[n + 1][w] = Sum[n][w] + IF n \in w THEN a ELSE 0
    BY <2>1, SumType
  <2> QED
    BY <2>1, <2>2, <2>3, <2>4, <2>5, <2>6
<1>3. \A n \in Nat : n \in S
  <2> HIDE DEF S
  <2> QED
    BY <1>1, <1>2, Induction
<1> QED
  BY <1>3

(* The low bits are the rest, and the bits above them the quotient.        *)
LEMMA SumDivided ==
  ASSUME NEW w \in Nats, NEW n \in Nat, NEW m \in Nat, n <= m
  PROVE  /\ Sum[m][w] % Two[n] = Sum[n][w]
         /\ Sum[m][w] \div Two[n] = Sum[m - n][Shr(w, n)]
         /\ m - n \in Nat /\ Shr(w, n) \in Nats
<1>1. m - n \in Nat /\ n + (m - n) = m
  OBVIOUS
<1>2. Shr(w, n) \in Nats
  BY ShrIn
<1>3. Sum[m][w] = Sum[n][w] + Two[n] * Sum[m - n][Shr(w, n)]
  BY <1>1, SumSplit
<1>4. PICK k \in Nat, x \in Nat, j \in Nat, t \in Nat :
        /\ k = Sum[m - n][Shr(w, n)] /\ j = Sum[n][w] /\ x = Sum[m][w] /\ t = Two[n]
        /\ j \in 0 .. t - 1 /\ t >= 1
  <2>1. /\ Sum[m - n][Shr(w, n)] \in Nat /\ Sum[n][w] \in 0 .. Two[n] - 1
        /\ Sum[m][w] \in Nat /\ Two[n] \in Nat /\ Two[n] >= 1
    BY <1>1, <1>2, SumType, TwoType
  <2> QED
    BY <2>1
<1>5. x = t * k + j
  BY <1>3, <1>4
<1>6. x \div t = k /\ x % t = j
  <2>1. x \in Int /\ k \in Int /\ t \in Nat /\ t >= 1 /\ j \in 0 .. t - 1
    BY <1>4
  <2> QED
    BY <1>5, <2>1, DividedOnly
<1> QED
  BY <1>1, <1>2, <1>4, <1>6

LEMMA SumOfNone ==
  ASSUME NEW w \in Nats, NEW m \in Nat, \A i \in 0 .. m - 1 : i \notin w
  PROVE  Sum[m][w] = 0
<1>1. \A i \in 0 .. m - 1 : ~((0 \div Two[i]) % 2 = 1)
  <2> SUFFICES ASSUME NEW i \in 0 .. m - 1 PROVE ~((0 \div Two[i]) % 2 = 1)
    OBVIOUS
  <2>1. PICK t \in Nat : t = Two[i] /\ t >= 1
    BY TwoType
  <2>2. 0 \div t = 0
    BY <2>1
  <2> QED
    BY <2>1, <2>2
<1>2. PICK x \in Int : x = 0
  OBVIOUS
<1>3. \A i \in 0 .. m - 1 : i \in w <=> (x \div Two[i]) % 2 = 1
  BY <1>1, <1>2
<1>4. Sum[m][w] = x % Two[m]
  <2>1. \A i \in 0 .. m - 1 : i \in w <=> (x \div Two[i]) % 2 = 1
    BY <1>3
  <2> QED
    BY <2>1, SumOfBits DEF Nats
<1>5. PICK t \in Nat : t = Two[m] /\ t >= 1
  BY TwoType
<1>6. 0 % t = 0
  BY <1>5
<1> QED
  BY <1>2, <1>4, <1>5, <1>6

(* Bits there are none of add nothing.                                     *)
LEMMA SumOfFew ==
  ASSUME NEW w \in Nats, NEW n \in Nat, NEW m \in Nat, n <= m, \A i \in w : i < n
  PROVE  Sum[m][w] = Sum[n][w]
<1>1. m - n \in Nat /\ n + (m - n) = m /\ Shr(w, n) \in Nats
  BY ShrIn
<1>2. \A i \in 0 .. (m - n) - 1 : i \notin Shr(w, n)
  BY ShrIn
<1>3. Sum[m - n][Shr(w, n)] = 0
  BY <1>1, <1>2, SumOfNone
<1>4. Sum[m][w] = Sum[n][w] + Two[n] * Sum[m - n][Shr(w, n)]
  BY <1>1, SumSplit
<1>5. Sum[n][w] \in Nat /\ Two[n] \in Nat
  BY SumType, TwoType
<1> QED
  BY <1>3, <1>4, <1>5

LEMMA SumOfBoth ==
  ASSUME NEW v \in Nats, NEW w \in Nats, v \cap w = {}
  PROVE  v \cup w \in Nats /\ \A n \in Nat : Sum[n][v \cup w] = Sum[n][v] + Sum[n][w]
<1> DEFINE u == v \cup w
           S == {n \in Nat : Sum[n][u] = Sum[n][v] + Sum[n][w]}
<1>0. u \in Nats /\ \A i \in Nat : (i \in u <=> i \in v \/ i \in w) /\ ~(i \in v /\ i \in w)
  BY DEF Nats
<1> HIDE DEF u
<1>1. 0 \in S
  BY <1>0, SumType
<1>2. ASSUME NEW n \in Nat, n \in S PROVE n + 1 \in S
  <2>1. /\ Sum[n + 1][u] = Sum[n][u] + IF n \in u THEN Two[n] ELSE 0
        /\ Sum[n + 1][v] = Sum[n][v] + IF n \in v THEN Two[n] ELSE 0
        /\ Sum[n + 1][w] = Sum[n][w] + IF n \in w THEN Two[n] ELSE 0
    BY <1>0, SumType
  <2>2. Sum[n][u] \in Nat /\ Sum[n][v] \in Nat /\ Sum[n][w] \in Nat /\ Two[n] \in Nat
    BY <1>0, SumType, TwoType
  <2> QED
    BY <1>0, <1>2, <2>1, <2>2
<1>3. \A n \in Nat : n \in S
  <2> HIDE DEF S
  <2> QED
    BY <1>1, <1>2, Induction
<1> QED
  BY <1>0, <1>3 DEF u

(* Bits moved up stand for a product.                                      *)
LEMMA SumOfMoved ==
  ASSUME NEW v \in Nats, NEW w \in Nats, NEW o \in Nat, NEW n \in Nat,
         \A i \in 0 .. o - 1 : i \notin v,
         \A i \in 0 .. n - 1 : i + o \in v <=> i \in w
  PROVE  Sum[o + n][v] = Two[o] * Sum[n][w]
<1>1. Sum[o][v] = 0
  BY SumOfNone
<1>2. Shr(v, o) \in Nats /\ \A i \in 0 .. n - 1 : i \in Shr(v, o) <=> i \in w
  <2>1. Shr(v, o) \in Nats /\ \A i \in Nat : i \in Shr(v, o) <=> i + o \in v
    BY ShrIn
  <2> QED
    BY <2>1
<1>3. Sum[n][Shr(v, o)] = Sum[n][w]
  BY <1>2, SumOfSame
<1>4. Sum[o + n][v] = Sum[o][v] + Two[o] * Sum[n][Shr(v, o)]
  BY SumSplit
<1>5. PICK a \in Nat, b \in Nat : a = Two[o] /\ b = Sum[n][w]
  <2>1. Two[o] \in Nat /\ Sum[n][w] \in Nat
    BY SumType, TwoType
  <2> QED
    BY <2>1
<1>6. a * b \in Nat
  BY <1>5, Natural
<1> QED
  BY <1>1, <1>3, <1>4, <1>5, <1>6

(* A bit of a sum is found by halving.                                     *)
LEMMA SumBit ==
  ASSUME NEW w \in Nats, NEW m \in Nat, NEW i \in 0 .. m - 1
  PROVE  i \in w <=> (Sum[m][w] \div Two[i]) % 2 = 1
<1>1. /\ Sum[m][w] \div Two[i] = Sum[m - i][Shr(w, i)]
      /\ m - i \in Nat /\ m - i >= 1 /\ Shr(w, i) \in Nats
  <2>1. i \in Nat /\ i <= m /\ m - i >= 1
    OBVIOUS
  <2> QED
    BY <2>1, SumDivided
<1>2. Sum[m - i][Shr(w, i)] % Two[1] = Sum[1][Shr(w, i)]
  BY <1>1, SumDivided
<1>3. Two[1] = 2
  <2>1. Two[0 + 1] = 2 * Two[0]
    BY TwoType
  <2> QED
    BY <2>1, TwoType
<1>4. Sum[0 + 1][Shr(w, i)] = Sum[0][Shr(w, i)] + IF 0 \in Shr(w, i) THEN Two[0] ELSE 0
  BY <1>1, SumType
<1>5. Sum[1][Shr(w, i)] = IF 0 \in Shr(w, i) THEN 1 ELSE 0
  BY <1>1, <1>4, SumType, TwoType
<1>6. 0 \in Shr(w, i) <=> i \in w
  <2>1. 0 \in Shr(w, i) <=> 0 + i \in w
    BY ShrIn
  <2> QED
    BY <2>1
<1> QED
  BY <1>1, <1>2, <1>3, <1>5, <1>6

(***************************************************************************)
(* Words                                                                   *)
(***************************************************************************)

LEMMA Widths ==
  W \in Nat /\ B \in Nat /\ W = 4 * B /\ B >= 3 /\ W \div 2 = 2 * B /\ W >= 12
<1>1. W \in Nat /\ W % 4 = 0 /\ W >= 12
  BY InstructionsAssumption
<1>2. W = 4 * (W \div 4) /\ W \div 4 \in Nat
  BY <1>1
<1> QED
  BY <1>1, <1>2 DEF B

LEMMA WordIn ==
  ASSUME NEW w \in Word
  PROVE  /\ w \in Nats /\ Number[w] = Sum[W][w]
         /\ Number[w] \in 0 .. Two[W] - 1 /\ Number[w] \in Nat
<1>1. w \in Nats
  BY Widths DEF Word, Bits, Nats
<1>2. Number[w] = Sum[W][w]
  BY DEF Number
<1> QED
  BY <1>1, <1>2, SumType, Widths, TwoType

LEMMA NumberSame ==
  ASSUME NEW v \in Word, NEW w \in Word
  PROVE  Number[v] = Number[w] <=> v = w
<1>1. Sum[W][v] = Sum[W][w] <=> \A i \in 0 .. W - 1 : i \in v <=> i \in w
  BY WordIn, Widths, SumOfSame
<1>2. v \subseteq 0 .. W - 1 /\ w \subseteq 0 .. W - 1
  BY DEF Word, Bits
<1> QED
  BY <1>1, <1>2, WordIn

LEMMA NumberOfWord ==
  ASSUME NEW x \in Int
  PROVE  WordOf(x) \in Word /\ Number[WordOf(x)] = x % Two[W]
<1>1. WordOf(x) \in Word
  BY DEF WordOf, Word
<1>2. \A i \in 0 .. W - 1 : i \in WordOf(x) <=> (x \div Two[i]) % 2 = 1
  BY DEF WordOf, Bits
<1>3. WordOf(x) \in Nats
  BY <1>1, WordIn
<1> HIDE DEF WordOf
<1>4. Sum[W][WordOf(x)] = x % Two[W]
  BY <1>2, <1>3, Widths, SumOfBits
<1> QED
  BY <1>1, <1>4, WordIn

LEMMA WordOfNumber ==
  ASSUME NEW w \in Word
  PROVE  WordOf(Number[w]) = w
<1>1. \A i \in 0 .. W - 1 : i \in w <=> (Sum[W][w] \div Two[i]) % 2 = 1
  BY WordIn, Widths, SumBit
<1> QED
  BY <1>1, WordIn DEF WordOf, Word, Bits

(* The sign bit is half of what a word holds.                              *)
LEMMA Halved ==
  /\ W - 1 \in Nat /\ Two[W] = 2 * Two[W - 1] /\ Two[W - 1] \in Nat /\ Two[W] \in Nat
  /\ Two[W - 1] >= 1024 /\ Two[W + 1] = 2 * Two[W] /\ W + 1 \in Nat
<1>1. W - 1 \in Nat /\ (W - 1) + 1 = W /\ W \in Nat /\ W - 1 >= 10
  BY Widths
<1>2. Two[10] = 1024
  <2>1. /\ Two[0 + 1] = 2 * Two[0] /\ Two[1 + 1] = 2 * Two[1] /\ Two[2 + 1] = 2 * Two[2]
        /\ Two[3 + 1] = 2 * Two[3] /\ Two[4 + 1] = 2 * Two[4] /\ Two[5 + 1] = 2 * Two[5]
        /\ Two[6 + 1] = 2 * Two[6] /\ Two[7 + 1] = 2 * Two[7] /\ Two[8 + 1] = 2 * Two[8]
        /\ Two[9 + 1] = 2 * Two[9] /\ Two[0] = 1
    BY TwoType
  <2> QED
    BY <2>1
<1>3. Two[10] <= Two[W - 1]
  BY <1>1, TwoMonotone
<1> QED
  BY <1>1, <1>2, <1>3, TwoType

LEMMA SignedIs ==
  ASSUME NEW w \in Word
  PROVE  /\ Signed(w) \in -Two[W - 1] .. Two[W - 1] - 1
         /\ W - 1 \in w <=> Number[w] >= Two[W - 1]
         /\ Signed(w) = IF Number[w] >= Two[W - 1] THEN Number[w] - Two[W] ELSE Number[w]
<1>1. Sum[(W - 1) + 1][w] = Sum[W - 1][w] + IF W - 1 \in w THEN Two[W - 1] ELSE 0
  BY WordIn, Halved, SumType
<1>2. Sum[W - 1][w] \in 0 .. Two[W - 1] - 1
  BY WordIn, Halved, SumType
<1>3. (W - 1) + 1 = W
  BY Widths
<1> QED
  BY <1>1, <1>2, <1>3, WordIn, Halved DEF Signed

LEMMA SignedSame ==
  ASSUME NEW v \in Word, NEW w \in Word
  PROVE  Signed(v) = Signed(w) <=> v = w
<1>1. Signed(v) = Signed(w) => Number[v] = Number[w]
  BY SignedIs, WordIn, Halved
<1> QED
  BY <1>1, NumberSame

(* A word whose number is n modulo the word's size, where n has room in    *)
(* it, is n as a signed number.                                            *)
LEMMA SignedOf ==
  ASSUME NEW w \in Word, NEW n \in -Two[W - 1] .. Two[W - 1] - 1, NEW k \in Int,
         Number[w] = n + Two[W] * k
  PROVE  Signed(w) = n
<1>1. PICK h \in Nat, m \in Nat, x \in Nat :
        h = Two[W - 1] /\ m = Two[W] /\ x = Number[w] /\ m = 2 * h /\ x < m
  <2>1. /\ Two[W - 1] \in Nat /\ Two[W] \in Nat /\ Number[w] \in Nat /\ Two[W] = 2 * Two[W - 1]
        /\ Number[w] < Two[W]
    BY Halved, WordIn
  <2> QED
    BY <2>1
<1>2. n \in -h .. h - 1 /\ x = n + m * k
  BY <1>1
<1>3. k \in {0, 1}
  <2>1. ~(k >= 2)
    <3> SUFFICES ASSUME k >= 2 PROVE FALSE
      OBVIOUS
    <3>1. m * k >= m * 2
      BY <1>1
    <3> QED
      BY <1>1, <1>2, <3>1
  <2>2. ~(k <= -1)
    <3> SUFFICES ASSUME k <= -1 PROVE FALSE
      OBVIOUS
    <3>1. m * k <= -m
      BY <1>1
    <3> QED
      BY <1>1, <1>2, <3>1
  <2> QED
    BY <2>1, <2>2
<1>4. x = n \/ x = n + m
  BY <1>1, <1>2, <1>3
<1> QED
  BY <1>1, <1>2, <1>4, SignedIs

(* Signed or not, a word stands for one number modulo the word's size.     *)
LEMMA SignedNumber ==
  ASSUME NEW w \in Word
  PROVE  Signed(w) \in Int /\ \E k \in Int : Number[w] = Signed(w) + Two[W] * k
<1>0. Signed(w) \in Int
  BY SignedIs, Halved
<1> SUFFICES \E k \in Int : Number[w] = Signed(w) + Two[W] * k
  BY <1>0
<1>1. Number[w] = Signed(w) + Two[W] * 0 \/ Number[w] = Signed(w) + Two[W] * 1
  <2>1. Two[W] * 0 = 0 /\ Two[W] * 1 = Two[W] /\ Two[W] \in Nat
    BY Halved
  <2>2. Number[w] \in Nat /\ Number[w] \in {Signed(w), Signed(w) + Two[W]}
    BY SignedIs, WordIn, Halved
  <2> QED
    BY <1>0, <2>1, <2>2
<1>2. CASE Number[w] = Signed(w) + Two[W] * 0
  <2> WITNESS 0 \in Int
  <2> QED
    BY <1>2
<1>3. CASE Number[w] = Signed(w) + Two[W] * 1
  <2> WITNESS 1 \in Int
  <2> QED
    BY <1>3
<1> QED
  BY <1>1, <1>2, <1>3

LEMMA SignedOfWordOf ==
  ASSUME NEW n \in -Two[W - 1] .. Two[W - 1] - 1
  PROVE  Signed(WordOf(n)) = n
<1>0. n \in Int
  BY Halved
<1>1. WordOf(n) \in Word /\ Number[WordOf(n)] = n % Two[W]
  BY <1>0, NumberOfWord
<1>2. PICK m \in Nat : m = Two[W] /\ m >= 1
  BY Halved
<1>3. PICK k \in Int : n % m = n + m * k
  BY <1>0, <1>2, RestOf
<1>4. Number[WordOf(n)] = n + Two[W] * k
  BY <1>1, <1>2, <1>3
<1> QED
  BY <1>1, <1>4, SignedOf

(***************************************************************************)
(* The instructions of the sequences, and what they leave in registers     *)
(***************************************************************************)

Operators == {"and", "mask", "or", "xor", "add", "sub", "mul", "div", "divu", "cmp"}
Tests == {"bb0", "bb1", "bcnd", "tb0", "tb1", "tcnd"}
FieldOps == {"ext", "extu", "mak", "clr", "set", "rot"}
Rounders == {"int", "nint", "trnc"}

Operand(i) ==
  \/ i.form \in {"reg", "comp"} /\ i.n \in 0 .. 5
  \/ i.form \in {"imm", "upper"} /\ i.h \in Halves

(* What an access of a sequence reaches: memory, or the timer's counter.   *)
Reach(i) ==
  /\ i.size \in {1, 2, 4} /\ i.ea \in Nat
  /\ i.ea < TIMER_ADDR => i.ea + i.size <= 8
  /\ i.ea >= TIMER_ADDR => i.ea + i.size <= 12

Shaped(i) ==
  /\ i.op \in Operators \cup Tests \cup FieldOps \cup Rounders
               \cup {"ff1", "ff0", "ld", "ldu", "st", "xmem", "fcmp", "flt"}
  /\ i.op \in Operators => i.d \in 0 .. 5 /\ i.a \in 0 .. 5 /\ Operand(i)
  /\ i.op \in Tests => i.a \in 0 .. 5
  /\ i.op \in FieldOps => i.d \in 0 .. 5 /\ i.a \in 0 .. 5 /\ i.w \in 0 .. W - 1 /\ i.o \in 0 .. W - 1
  /\ i.op \in {"ff1", "ff0"} => i.d \in 0 .. 5 /\ i.a \in 0 .. 5
  /\ i.op \in {"ld", "ldu"} => i.d \in 0 .. 5 /\ Reach(i)
  /\ i.op \in {"st", "xmem"} => i.d \in 0 .. 5 /\ Reach(i) /\ i.ea < TIMER_ADDR
  /\ i.op = "fcmp" => i.d \in 0 .. 5 /\ i.a \in 2 .. 4 /\ i.n \in 2 .. 4
  /\ i.op = "flt" => i.d \in 2 .. 4 /\ i.n \in 0 .. 5
  /\ i.op \in Rounders => i.d \in 0 .. 5 /\ i.n \in 2 .. 4

ShapedProgram(p) ==
  Len(p) \in 1 .. 4 /\ \A i \in 1 .. Len(p) : Shaped(p[i])

LEMMA ShapedOne ==
  ASSUME NEW a, Shaped(a)
  PROVE  ShapedProgram(<<a>>)
  BY DEF ShapedProgram

LEMMA ShapedTwo ==
  ASSUME NEW a, NEW b, Shaped(a), Shaped(b)
  PROVE  ShapedProgram(<<a, b>>)
  BY DEF ShapedProgram

LEMMA ShapedThree ==
  ASSUME NEW a, NEW b, NEW c, Shaped(a), Shaped(b), Shaped(c)
  PROVE  ShapedProgram(<<a, b, c>>)
  BY DEF ShapedProgram

LEMMA ShapedFour ==
  ASSUME NEW a, NEW b, NEW c, NEW d, Shaped(a), Shaped(b), Shaped(c), Shaped(d)
  PROVE  ShapedProgram(<<a, b, c, d>>)
  BY DEF ShapedProgram

LEMMA ShapedRegs ==
  ASSUME NEW op \in Operators, NEW d \in 0 .. 5, NEW a \in 0 .. 5, NEW n \in 0 .. 5
  PROVE  Shaped(Reg(op, d, a, n)) /\ Shaped(Comp(op, d, a, n))
  BY DEF Shaped, Operand, Reg, Comp, Operators, Tests, FieldOps, Rounders

LEMMA ShapedHalves ==
  ASSUME NEW op \in Operators, NEW d \in 0 .. 5, NEW a \in 0 .. 5, NEW h \in Halves
  PROVE  Shaped(Imm(op, d, a, h)) /\ Shaped(Upper(op, d, a, h))
  BY DEF Shaped, Operand, Imm, Upper, Operators, Tests, FieldOps, Rounders

LEMMA OperatorNames ==
  \A op \in {"and", "mask", "or", "xor", "add", "sub", "mul", "div", "divu", "cmp"} :
    op \in Operators
  BY DEF Operators

LEMMA ShapedOthers ==
  /\ \A bit : \A op \in Tests, a \in 0 .. 5 : Shaped(Test(op, bit, a))
  /\ \A op \in FieldOps, d \in 0 .. 5, a \in 0 .. 5, w \in 0 .. W - 1, o \in 0 .. W - 1 :
       Shaped(Part(op, d, a, w, o))
  /\ \A op \in {"ff1", "ff0"}, d \in 0 .. 5, n \in 0 .. 5 : Shaped(Unary(op, d, n))
<1>1. ASSUME NEW op \in Tests, NEW bit, NEW a \in 0 .. 5 PROVE Shaped(Test(op, bit, a))
  BY DEF Shaped, Test, Operators, Tests, FieldOps, Rounders
<1>2. ASSUME NEW op \in FieldOps, NEW d \in 0 .. 5, NEW a \in 0 .. 5,
             NEW w \in 0 .. W - 1, NEW o \in 0 .. W - 1
      PROVE  Shaped(Part(op, d, a, w, o))
  BY DEF Shaped, Part, Operators, Tests, FieldOps, Rounders
<1>3. ASSUME NEW op \in {"ff1", "ff0"}, NEW d \in 0 .. 5, NEW n \in 0 .. 5
      PROVE  Shaped(Unary(op, d, n))
  BY DEF Shaped, Unary, Operators, Tests, FieldOps, Rounders
<1> QED
  BY <1>1, <1>2, <1>3

LEMMA ShapedAccess ==
  ASSUME NEW d \in 0 .. 5, NEW size \in {1, 2, 4}, NEW ea \in Nat
  PROVE  /\ ea + size <= 8 =>
              \A op \in {"ld", "ldu", "st", "xmem"} : Shaped(Access(op, d, size, ea))
         /\ ea >= 8 /\ ea + size <= 12 =>
              \A op \in {"ld", "ldu"} : Shaped(Access(op, d, size, ea))
<1>1. ASSUME ea + size <= 8, NEW op \in {"ld", "ldu", "st", "xmem"}
      PROVE  Shaped(Access(op, d, size, ea))
  BY <1>1 DEF Shaped, Access, Reach, TIMER_ADDR, Operators, Tests, FieldOps, Rounders
<1>2. ASSUME ea >= 8, ea + size <= 12, NEW op \in {"ld", "ldu"}
      PROVE  Shaped(Access(op, d, size, ea))
  BY <1>2 DEF Shaped, Access, Reach, TIMER_ADDR, Operators, Tests, FieldOps, Rounders
<1> QED
  BY <1>1, <1>2

LEMMA WordsOfHalves ==
  /\ Halves \subseteq Word /\ {0} \in Halves /\ {} \in Halves
  /\ \A h \in Halves : \A i \in h : i \in 0 .. 2 * B - 1
  BY Widths DEF Halves, Low, Word, Bits

LEMMA ShapedCompare ==
  ASSUME NEW p \in CompareBranch \cup CompareHalf(Halves) \cup BranchOnZero
  PROVE  ShapedProgram(p)
<1>1. CASE p \in CompareBranch
  <2>1. PICK op \in {"bb0", "bb1", "tb0", "tb1"}, rel \in Relations :
          p = <<Reg("cmp", 4, 2, 3), Test(op, ConditionBit[rel], 4)>>
    BY <1>1 DEF CompareBranch
  <2>2. Shaped(Reg("cmp", 4, 2, 3))
    BY OperatorNames, ShapedRegs, ShapedHalves
  <2>3. Shaped(Test(op, ConditionBit[rel], 4))
    BY ShapedOthers DEF Tests
  <2> QED
    BY <2>1, <2>2, <2>3, ShapedTwo
<1>2. CASE p \in CompareHalf(Halves)
  <2>1. PICK h \in Halves, rel \in Relations :
          p = <<Imm("cmp", 4, 2, h), Test("bb1", ConditionBit[rel], 4)>>
    BY <1>2 DEF CompareHalf
  <2>2. Shaped(Imm("cmp", 4, 2, h))
    BY OperatorNames, ShapedRegs, ShapedHalves
  <2>3. Shaped(Test("bb1", ConditionBit[rel], 4))
    BY ShapedOthers DEF Tests
  <2> QED
    BY <2>1, <2>2, <2>3, ShapedTwo
<1>3. CASE p \in BranchOnZero
  <2>1. PICK op \in {"bcnd", "tcnd"}, rel \in DOMAIN ConditionMask :
          p = <<Test(op, ConditionMask[rel], 2)>>
    BY <1>3 DEF BranchOnZero
  <2>2. Shaped(Test(op, ConditionMask[rel], 2))
    BY ShapedOthers DEF Tests
  <2> QED
    BY <2>1, <2>2, ShapedOne
<1> QED
  BY <1>1, <1>2, <1>3

LEMMA ShapedFields ==
  ASSUME NEW p \in ReadField(Fields) \cup ReplaceField(Fields) \cup Rotate
  PROVE  ShapedProgram(p)
<1>1. CASE p \in ReadField(Fields)
  <2>1. PICK op \in {"ext", "extu"}, w \in 0 .. W - 1, o \in 0 .. W - 1 :
          p = <<Part(op, 4, 2, w, o)>>
    BY <1>1 DEF ReadField, Fields
  <2>2. Shaped(Part(op, 4, 2, w, o))
    BY ShapedOthers DEF FieldOps
  <2> QED
    BY <2>1, <2>2, ShapedOne
<1>2. CASE p \in ReplaceField(Fields)
  <2>1. PICK w \in 0 .. W - 1, o \in 0 .. W - 1 :
          p = <<Part("clr", 4, 2, w, o), Part("mak", 5, 3, w, o), Reg("or", 4, 4, 5)>>
    BY <1>2 DEF ReplaceField, Fields
  <2>2. Shaped(Part("clr", 4, 2, w, o)) /\ Shaped(Part("mak", 5, 3, w, o))
    BY ShapedOthers DEF FieldOps
  <2>3. Shaped(Reg("or", 4, 4, 5))
    BY OperatorNames, ShapedRegs, ShapedHalves
  <2> QED
    BY <2>1, <2>2, <2>3, ShapedThree
<1>3. CASE p \in Rotate
  <2>1. PICK o \in 0 .. W - 1 :
          p = <<Part("rot", 4, 2, 0, o), Part("rot", 5, 4, 0, (W - o) % W)>>
    BY <1>3 DEF Rotate
  <2>2. 0 \in 0 .. W - 1 /\ (W - o) % W \in 0 .. W - 1
    BY Widths
  <2>3. Shaped(Part("rot", 4, 2, 0, o)) /\ Shaped(Part("rot", 5, 4, 0, (W - o) % W))
    BY <2>2, ShapedOthers DEF FieldOps
  <2> QED
    BY <2>1, <2>3, ShapedTwo
<1> QED
  BY <1>1, <1>2, <1>3

LEMMA ShapedNumbers ==
  ASSUME NEW p \in DivideAndRest \cup BuildConstant(Halves) \cup EditHalves(Halves)
                     \cup Negate \cup Discard \cup FindHighest
  PROVE  ShapedProgram(p)
<1>1. CASE p \in DivideAndRest
  <2>1. PICK op \in {"div", "divu"} :
          p = <<Reg(op, 4, 2, 3), Reg("mul", 5, 4, 3), Reg("sub", 5, 2, 5)>>
    BY <1>1 DEF DivideAndRest
  <2>2. Shaped(Reg(op, 4, 2, 3)) /\ Shaped(Reg("mul", 5, 4, 3)) /\ Shaped(Reg("sub", 5, 2, 5))
    BY OperatorNames, ShapedRegs, ShapedHalves
  <2> QED
    BY <2>1, <2>2, ShapedThree
<1>2. CASE p \in BuildConstant(Halves)
  <2>1. PICK h \in Halves, l \in Halves : p = <<Upper("or", 4, 0, h), Imm("or", 4, 4, l)>>
    BY <1>2 DEF BuildConstant
  <2>2. Shaped(Upper("or", 4, 0, h)) /\ Shaped(Imm("or", 4, 4, l))
    BY OperatorNames, ShapedRegs, ShapedHalves
  <2> QED
    BY <2>1, <2>2, ShapedTwo
<1>3. CASE p \in EditHalves(Halves)
  <2>1. PICK op \in {"and", "or", "xor", "mask"}, h \in Halves :
          p = <<Upper(op, 4, 2, h), Imm(op, 5, 2, h)>>
    BY <1>3 DEF EditHalves
  <2>2. Shaped(Upper(op, 4, 2, h)) /\ Shaped(Imm(op, 5, 2, h))
    BY OperatorNames, ShapedRegs, ShapedHalves
  <2> QED
    BY <2>1, <2>2, ShapedTwo
<1>4. CASE p \in Negate
  <2>1. p = <<Comp("or", 4, 0, 2), Imm("add", 4, 4, {0}), Reg("sub", 5, 0, 2)>>
    BY <1>4 DEF Negate
  <2>2. Shaped(Comp("or", 4, 0, 2)) /\ Shaped(Imm("add", 4, 4, {0})) /\ Shaped(Reg("sub", 5, 0, 2))
    <3>1. PICK h \in Halves : h = {0}
      BY WordsOfHalves
    <3>2. Shaped(Imm("add", 4, 4, h))
      BY OperatorNames, ShapedRegs, ShapedHalves
    <3> QED
      BY <3>1, <3>2, OperatorNames, ShapedRegs
  <2> QED
    BY <2>1, <2>2, ShapedThree
<1>5. CASE p \in Discard
  <2>1. p = <<Reg("or", 0, 2, 3), Reg("add", 4, 0, 0)>>
    BY <1>5 DEF Discard
  <2>2. Shaped(Reg("or", 0, 2, 3)) /\ Shaped(Reg("add", 4, 0, 0))
    BY OperatorNames, ShapedRegs, ShapedHalves
  <2> QED
    BY <2>1, <2>2, ShapedTwo
<1>6. CASE p \in FindHighest
  <2>1. PICK op \in {"ff1", "ff0"} : p = <<Unary(op, 4, 2)>>
    BY <1>6 DEF FindHighest
  <2>2. Shaped(Unary(op, 4, 2))
    BY ShapedOthers
  <2> QED
    BY <2>1, <2>2, ShapedOne
<1> QED
  BY <1>1, <1>2, <1>3, <1>4, <1>5, <1>6

LEMMA ShapedMemory ==
  ASSUME NEW p \in ThroughMemory \cup ExchangeMemory \cup ReadTimer
  PROVE  ShapedProgram(p)
<1>1. CASE p \in ThroughMemory
  <2>1. PICK op \in {"ld", "ldu"}, s \in {x \in {1, 2, 4} \X (0 .. 7) : x[2] % x[1] = 0},
             l \in {x \in {1, 2, 4} \X (0 .. 7) : x[2] % x[1] = 0} :
          p = <<Access("st", 2, 4, 0), Access("st", 2, 4, 4), Access("st", 3, s[1], s[2]),
                Access(op, 5, l[1], l[2])>>
    BY <1>1 DEF ThroughMemory
  <2>2. /\ s[1] \in {1, 2, 4} /\ s[2] \in Nat /\ s[2] + s[1] <= 8
        /\ l[1] \in {1, 2, 4} /\ l[2] \in Nat /\ l[2] + l[1] <= 8
    OBVIOUS
  <2>3. /\ Shaped(Access("st", 2, 4, 0)) /\ Shaped(Access("st", 2, 4, 4))
        /\ Shaped(Access("st", 3, s[1], s[2])) /\ Shaped(Access(op, 5, l[1], l[2]))
    BY <2>2, ShapedAccess
  <2> QED
    BY <2>1, <2>3, ShapedFour
<1>2. CASE p \in ExchangeMemory
  <2>1. PICK n \in {1, 4} :
          p = <<Access("st", 2, 4, 0), Reg("or", 5, 0, 3), Access("xmem", 5, n, 0),
                Access("ldu", 4, 4, 0)>>
    BY <1>2 DEF ExchangeMemory
  <2>2. /\ Shaped(Access("st", 2, 4, 0)) /\ Shaped(Access("xmem", 5, n, 0))
        /\ Shaped(Access("ldu", 4, 4, 0))
    BY ShapedAccess
  <2>3. Shaped(Reg("or", 5, 0, 3))
    BY OperatorNames, ShapedRegs, ShapedHalves
  <2> QED
    BY <2>1, <2>2, <2>3, ShapedFour
<1>3. CASE p \in ReadTimer
  <2>1. PICK op \in {"ld", "ldu"}, l \in {x \in {1, 2, 4} \X (0 .. 3) : x[2] % x[1] = 0} :
          p = <<Access(op, 4, l[1], TIMER_ADDR + l[2])>>
    BY <1>3 DEF ReadTimer
  <2>2. l[1] \in {1, 2, 4} /\ 8 + l[2] \in Nat /\ 8 + l[2] >= 8 /\ (8 + l[2]) + l[1] <= 12
    OBVIOUS
  <2>3. Shaped(Access(op, 4, l[1], 8 + l[2]))
    BY <2>2, ShapedAccess
  <2> QED
    BY <2>1, <2>3, ShapedOne DEF TIMER_ADDR
<1> QED
  BY <1>1, <1>2, <1>3

LEMMA ShapedFloats ==
  ASSUME NEW p \in FloatBranch \cup ToFloatAndBack \cup RoundFloat
  PROVE  ShapedProgram(p)
<1>1. CASE p \in FloatBranch
  <2>1. PICK bit \in 0 .. 7 : p = <<[op |-> "fcmp", d |-> 4, a |-> 2, n |-> 3], Test("bb1", bit, 4)>>
    BY <1>1 DEF FloatBranch
  <2>2. Shaped([op |-> "fcmp", d |-> 4, a |-> 2, n |-> 3])
    BY DEF Shaped, Operators, Tests, FieldOps, Rounders
  <2>3. Shaped(Test("bb1", bit, 4))
    BY ShapedOthers DEF Tests
  <2> QED
    BY <2>1, <2>2, <2>3, ShapedTwo
<1>2. ASSUME NEW op \in Rounders PROVE \A k \in {2, 4} : Shaped([op |-> op, d |-> 4, n |-> k])
  BY DEF Shaped, Operators, Tests, FieldOps, Rounders
<1>3. CASE p \in ToFloatAndBack
  <2>1. PICK op \in {"int", "nint", "trnc"} :
          p = <<[op |-> "flt", d |-> 4, n |-> 2], [op |-> op, d |-> 4, n |-> 4]>>
    BY <1>3 DEF ToFloatAndBack
  <2>2. Shaped([op |-> "flt", d |-> 4, n |-> 2])
    BY DEF Shaped, Operators, Tests, FieldOps, Rounders
  <2> QED
    BY <1>2, <2>1, <2>2, ShapedTwo DEF Rounders
<1>4. CASE p \in RoundFloat
  <2>1. PICK op \in {"int", "nint", "trnc"} : p = <<[op |-> op, d |-> 4, n |-> 2]>>
    BY <1>4 DEF RoundFloat
  <2> QED
    BY <1>2, <2>1, ShapedOne DEF Rounders
<1> QED
  BY <1>1, <1>3, <1>4

LEMMA ShapedFamilies ==
  ASSUME NEW p \in Families
  PROVE  ShapedProgram(p)
<1>1. \/ p \in CompareBranch \cup CompareHalf(Halves) \cup BranchOnZero
      \/ p \in ReadField(Fields) \cup ReplaceField(Fields) \cup Rotate
      \/ p \in DivideAndRest \cup BuildConstant(Halves) \cup EditHalves(Halves)
                 \cup Negate \cup Discard \cup FindHighest
      \/ p \in ThroughMemory \cup ExchangeMemory \cup ReadTimer
      \/ p \in FloatBranch \cup ToFloatAndBack \cup RoundFloat
  BY DEF Families
<1> QED
  BY <1>1, ShapedCompare, ShapedFields, ShapedNumbers, ShapedMemory, ShapedFloats

(***************************************************************************)
(* Steps                                                                   *)
(***************************************************************************)

Onward == at' = at + 1 /\ prog' = prog /\ status' = status

Puts(w) == r' = Put(r, ins.d, w) /\ Onward /\ f' = f /\ mem' = mem

LoadResult ==
  LET v == Loaded(ins.size, ins.ea)
  IN IF ins.op = "ld" /\ ins.size < 4 THEN SignExtended(v, B * ins.size) ELSE v

Conversions ==
  IF ins.op = "trnc" THEN Truncated(f[ins.n])
  ELSE {IF f[ins.n] = NaN THEN {} ELSE WordOf(Nearest(f[ins.n]))}

(* What a step does follows from the instruction the program has come to.  *)
Performed ==
  /\ status = "running" /\ at <= Len(prog) /\ prog' = prog
  /\ ins.op \in {"and", "mask", "or", "xor"} => Puts(LogicalResult(r[ins.a], Second))
  /\ ins.op \in {"add", "sub", "mul"} =>
       Puts(ArithmeticResult(Number[r[ins.a]], Number[Second]))
  /\ ins.op \in {"div", "divu"} =>
       \/ Second = {} /\ Leave("divide")
       \/ Overflows /\ (Leave("stopped") \/ Puts(Least))
       \/ /\ Second # {} /\ ~Overflows
          /\ Puts(WordOf(IF ins.op = "divu" THEN Number[r[ins.a]] \div Number[Second]
                         ELSE Quotient(Signed(r[ins.a]), Signed(Second))))
  /\ ins.op = "cmp" => Puts(do_cmp(r[ins.a], Second))
  /\ ins.op \in Tests =>
       IF Fires THEN Leave(IF ins.op \in {"tb0", "tb1", "tcnd"} THEN "trap" ELSE "taken")
       ELSE Onward /\ UNCHANGED <<r, f, mem>>
  /\ ins.op \in FieldOps => Puts(bitfield(r[ins.a], ins.w, ins.o))
  /\ ins.op \in {"ff1", "ff0"} =>
       Puts(Highest(IF ins.op = "ff1" THEN r[ins.a] ELSE Bits \ r[ins.a]))
  /\ ins.op \in {"ld", "ldu"} => Puts(LoadResult)
  /\ ins.op = "st" =>
       mem' = Stored(r[ins.d], ins.size, ins.ea) /\ Onward /\ r' = r /\ f' = f
  /\ ins.op = "xmem" =>
       /\ mem' = Stored(r[ins.d], ins.size, ins.ea)
       /\ r' = Put(r, ins.d, Fetched(ins.size, ins.ea)) /\ Onward /\ f' = f
  /\ ins.op = "fcmp" => Puts(fcmp(f[ins.a], f[ins.n]))
  /\ ins.op = "flt" =>
       f' = [f EXCEPT ![ins.d] = 4 * Signed(r[ins.n])] /\ Onward /\ r' = r /\ mem' = mem
  /\ ins.op \in Rounders => \E w \in Conversions : Puts(w)

LEMMA Performs == Next => Performed
<1> SUFFICES ASSUME Next PROVE Performed
  OBVIOUS
<1> USE DEF Runs, Tests, FieldOps, Rounders
<1>1. CASE Logical
  BY <1>1 DEF Logical, Performed, Puts, Onward, Retire
<1>2. CASE Arithmetic
  BY <1>2 DEF Arithmetic, Performed, Puts, Onward, Retire
<1>3. CASE Divide
  BY <1>3 DEF Divide, Performed, Puts, Onward, Retire
<1>4. CASE DivideByZero
  BY <1>4 DEF DivideByZero, Performed, Leave
<1>5. CASE DivideOverflow
  BY <1>5 DEF DivideOverflow, Performed, Puts, Onward, Retire, Leave
<1>6. CASE Compare
  BY <1>6 DEF Compare, Performed, Puts, Onward, Retire
<1>7. CASE Branch
  BY <1>7 DEF Branch, Performed, Leave
<1>8. CASE Trap
  BY <1>8 DEF Trap, Performed, Leave
<1>9. CASE FallThrough
  BY <1>9 DEF FallThrough, Performed, Onward, Retire
<1>10. CASE BitField
  BY <1>10 DEF BitField, Performed, Puts, Onward, Retire
<1>11. CASE FindBit
  BY <1>11 DEF FindBit, Performed, Puts, Onward, Retire
<1>12. CASE Load
  BY <1>12 DEF Load, Performed, Puts, Onward, Retire, LoadResult
<1>13. CASE Store
  BY <1>13 DEF Store, Performed, Onward, Retire
<1>14. CASE Exchange
  BY <1>14 DEF Exchange, Performed, Onward, Retire
<1>15. CASE FloatCompare
  BY <1>15 DEF FloatCompare, Performed, Puts, Onward, Retire
<1>16. CASE Float
  BY <1>16 DEF Float, Performed, Onward, Retire
<1>17. CASE ToInteger
  BY <1>17 DEF ToInteger, Performed, Puts, Onward, Retire, Conversions
<1> QED
  BY <1>1, <1>2, <1>3, <1>4, <1>5, <1>6, <1>7, <1>8, <1>9, <1>10, <1>11, <1>12, <1>13,
     <1>14, <1>15, <1>16, <1>17 DEF Next

(***************************************************************************)
(* Registers hold words                                                    *)
(***************************************************************************)

Registers == [0 .. 5 -> Word]

LEMMA BitsIn ==
  \A w : (\A i \in w : i \in Bits) => w \in Word
  BY DEF Word

LEMMA SecondIn ==
  ASSUME r \in Registers, Operand(ins)
  PROVE  Second \in Word
<1>1. CASE ins.form = "reg" /\ ins.n \in 0 .. 5
  BY <1>1 DEF Second, Registers
<1>2. CASE ins.form = "comp" /\ ins.n \in 0 .. 5
  BY <1>2, BitsIn DEF Second, Registers
<1>3. CASE ins.form = "imm" /\ ins.h \in Halves
  BY <1>3, WordsOfHalves DEF Second
<1>4. CASE ins.form = "upper" /\ ins.h \in Halves
  <2>1. Second = Shl(ins.h, W \div 2)
    BY <1>4 DEF Second
  <2> QED
    BY <2>1, BitsIn DEF Shl
<1> QED
  BY <1>1, <1>2, <1>3, <1>4 DEF Operand

LEMMA PutIn ==
  ASSUME NEW regs \in Registers, NEW n \in 0 .. 5, NEW w \in Word, regs[0] = {}
  PROVE  /\ Put(regs, n, w) \in Registers /\ Put(regs, n, w)[0] = {}
         /\ n # 0 => Put(regs, n, w)[n] = w
         /\ \A k \in 0 .. 5 : k # n => Put(regs, n, w)[k] = regs[k]
  BY DEF Put, Registers

LEMMA LogicalIn ==
  ASSUME NEW a \in Word, NEW b \in Word, ins.op \in {"and", "mask", "or", "xor"}
  PROVE  LogicalResult(a, b) \in Word
<1>1. \A i \in LogicalResult(a, b) : i \in a \cup b
  BY DEF LogicalResult
<1> QED
  BY <1>1, BitsIn DEF Word

LEMMA CompareIn ==
  /\ \A a, b : do_cmp(a, b) \in Word
  /\ \A x, y : fcmp(x, y) \in Word
<1>0. \A i \in 0 .. 11 : i \in Bits
  BY Widths DEF Bits
<1>1. \A a, b : \A i \in do_cmp(a, b) : i \in 0 .. 11
  BY DEF do_cmp, C_EQ, C_NE, C_GT, C_LE, C_LT, C_GE, C_HI, C_LS, C_LO, C_HS
<1>2. \A x, y : \A i \in fcmp(x, y) : i \in 0 .. 11
  BY DEF fcmp, C_EQ, C_NE, C_GT, C_LE, C_LT, C_GE
<1> HIDE DEF do_cmp, fcmp
<1> QED
  BY <1>0, <1>1, <1>2, BitsIn

(* Bits moved down or up, kept to the word, are bits of it.                *)
LEMMA MovedIn ==
  /\ \A w, n : Shl(w, n) \in Word
  /\ \A w \in Word, n \in Nat : Shr(w, n) \in Word
  /\ \A w \in Word, n \in Nat : SignExtended(w, n) \in Word
<1>1. \A w, n : Shl(w, n) \in Word
  BY BitsIn DEF Shl
<1>2. ASSUME NEW w \in Word, NEW n \in Nat PROVE Shr(w, n) \in Word
  <2>1. \A i \in Shr(w, n) : i \in Bits
    BY Widths DEF Shr, Word, Bits
  <2> QED
    BY <2>1, BitsIn
<1>3. ASSUME NEW w \in Word, NEW n \in Nat PROVE SignExtended(w, n) \in Word
  <2>1. \A i \in SignExtended(w, n) : i \in Bits
    BY Widths DEF SignExtended, Word, Bits
  <2> QED
    BY <2>1, BitsIn
<1> QED
  BY <1>1, <1>2, <1>3

LEMMA FieldIn ==
  ASSUME NEW a \in Word, ins.op \in FieldOps, NEW w \in 0 .. W - 1, NEW o \in 0 .. W - 1
  PROVE  bitfield(a, w, o) \in Word
<1> DEFINE m == IF w = 0 THEN Bits ELSE 0 .. w - 1
           v == Shr(a, o) \cap m
<1>1. v \in Word /\ a \cup Shl(m, o) \in Word /\ a \ Shl(m, o) \in Word
  BY MovedIn, Widths DEF Word
<1>2. Shl(a \cap m, o) \in Word /\ Shr(a, o) \cup Shl(a, W - o) \in Word
  BY MovedIn, Widths DEF Word
<1>3. SignExtended(v, w) \in Word
  <2> HIDE DEF v
  <2> QED
    BY <1>1, MovedIn
<1>4. bitfield(a, w, o) \in
        {v, a \cup Shl(m, o), a \ Shl(m, o), Shl(a \cap m, o), Shr(a, o) \cup Shl(a, W - o),
         SignExtended(v, w)}
  BY Zenon DEF bitfield, FieldOps
<1> HIDE DEF v, m
<1> QED
  BY <1>1, <1>2, <1>3, <1>4

LEMMA WordOfIn ==
  /\ \A x : WordOf(x) \in Word
  /\ \A bits : Highest(bits) \in Word
  /\ Least \in Word /\ Bits \in Word /\ {} \in Word
<1>1. \A x : WordOf(x) \in Word
  BY BitsIn DEF WordOf
<1>2. W - 1 \in Bits
  BY Widths DEF Bits
<1> QED
  BY <1>1, <1>2 DEF Highest, Least, Word

LEMMA LoadIn ==
  ASSUME Reach(ins)
  PROVE  LoadResult \in Word
<1>1. Fetched(ins.size, ins.ea) \in Word
  <2>1. \A i \in Fetched(ins.size, ins.ea) : i \in Bits
    BY MovedIn DEF Fetched, Word
  <2> QED
    BY <2>1, BitsIn
<1>2. ins.ea >= TIMER_ADDR => PartOfTimer(ins.size, ins.ea - TIMER_ADDR) \in Word
  <2> SUFFICES ASSUME ins.ea >= TIMER_ADDR PROVE PartOfTimer(ins.size, ins.ea - TIMER_ADDR) \in Word
    OBVIOUS
  <2>1. \A n : \A i \in Shr(Now, n) \cap (0 .. 2 * B - 1) : i \in Bits
    BY Widths DEF Bits
  <2>2. \A n : \A i \in Shr(Now, n) \cap (0 .. B - 1) : i \in Bits
    BY Widths DEF Bits
  <2>3. /\ \A n : Shr(Now, n) \cap (0 .. 2 * B - 1) \in Word
        /\ \A n : Shr(Now, n) \cap (0 .. B - 1) \in Word
    BY <2>1, <2>2, BitsIn
  <2>4. ins.size \in {1, 2, 4}
    BY DEF Reach
  <2> QED
    BY <2>3, <2>4, WordsAssumption DEF PartOfTimer
<1>3. Loaded(ins.size, ins.ea) \in Word
  BY <1>1, <1>2 DEF Loaded
<1>4. B * ins.size \in Nat
  BY Widths DEF Reach
<1> QED
  BY <1>3, <1>4, MovedIn DEF LoadResult

Memory == [0 .. 7 -> SUBSET (0 .. B - 1)]

LEMMA StoredIn ==
  ASSUME NEW w, NEW n, NEW ea, mem \in Memory
  PROVE  Stored(w, n, ea) \in Memory
<1>1. \A k : ByteOf(w, n, k) \in SUBSET (0 .. B - 1)
  BY DEF ByteOf
<1> QED
  BY <1>1 DEF Stored, Memory

(* Every instruction of a sequence leaves registers and memory that hold   *)
(* what they are made for, and nothing leaves the sequence's operands.     *)
Typed == prog \in Families /\ TypeOK

LEMMA InitTyped == Init => Typed
<1> SUFFICES ASSUME Init PROVE Typed
  OBVIOUS
<1>1. prog \in Families /\ at = 1 /\ status = "running"
  BY IdiomsAssumption DEF Init
<1>2. ShapedProgram(prog)
  BY <1>1, ShapedFamilies
<1>3. at \in 1 .. Len(prog) + 1
  BY <1>1, <1>2 DEF ShapedProgram
<1>4. r \in Registers /\ r[0] = {}
  <2>1. PICK a \in Word, b \in Word : r = [n \in 0 .. 5 |-> CASE n = 2 -> a [] n = 3 -> b [] OTHER -> {}]
    <3>1. \A w \in (IF ReadsFloats THEN {{}} ELSE Operands) : w \in Word
      BY WordsAssumption, WordOfIn
    <3> QED
      BY <3>1 DEF Init
  <2>2. {} \in Word
    BY WordOfIn
  <2> QED
    BY <2>1, <2>2 DEF Registers
<1>5. f \in [2 .. 4 -> Int \cup {NaN}]
  <2>1. PICK x \in Int \cup {NaN}, y \in Int \cup {NaN} :
          f = [n \in 2 .. 4 |-> CASE n = 2 -> x [] n = 3 -> y [] n = 4 -> 0]
    <3>1. \A x \in (IF ReadsFloats THEN Floats ELSE {0}) : x \in Int \cup {NaN}
      BY FloatsAssumption
    <3> QED
      BY <3>1 DEF Init
  <2>2. \A n \in 2 .. 4 : n = 2 \/ n = 3 \/ n = 4
    OBVIOUS
  <2> QED
    BY <2>1, <2>2
<1>6. mem \in [0 .. 7 -> SUBSET (0 .. B - 1)]
  BY DEF Init
<1> QED
  BY <1>1, <1>3, <1>4, <1>5, <1>6 DEF Typed, TypeOK, Registers

(* A register that is put holds a word.                                    *)
LEMMA PutsTyped ==
  ASSUME Typed, NEW w \in Word, Puts(w), status = "running", at <= Len(prog), prog' = prog,
         ins.d \in 0 .. 5
  PROVE  Typed'
<1>1. r \in Registers /\ r[0] = {}
  BY DEF Typed, TypeOK, Registers
<1>2. r' \in Registers /\ r'[0] = {}
  <2>1. r' = Put(r, ins.d, w)
    BY DEF Puts
  <2>2. Put(r, ins.d, w) \in Registers /\ Put(r, ins.d, w)[0] = {}
    BY <1>1, PutIn
  <2> QED
    BY <2>1, <2>2
<1>3. at' \in 1 .. Len(prog) + 1 /\ status' = status /\ f' = f /\ mem' = mem
  <2>1. Len(prog) \in Nat /\ at \in 1 .. Len(prog) + 1
    BY ShapedFamilies DEF Typed, TypeOK, ShapedProgram
  <2> QED
    BY <2>1 DEF Puts, Onward
<1> QED
  BY <1>2, <1>3 DEF Typed, TypeOK, Registers

LEMMA StepTyped ==
  ASSUME Typed, [Next]_vars
  PROVE  Typed'
<1>0. CASE UNCHANGED vars
  BY <1>0 DEF vars, Typed, TypeOK
<1>1. CASE Next
  <2>1. Performed
    BY <1>1, Performs
  <2>2. status = "running" /\ at <= Len(prog) /\ prog' = prog
    BY <2>1 DEF Performed
  <2>3. Len(prog) \in 1 .. 4 /\ at \in 1 .. Len(prog)
    BY <2>2, ShapedFamilies DEF Typed, TypeOK, ShapedProgram
  <2>4. Shaped(ins)
    BY <2>3, ShapedFamilies DEF Typed, ShapedProgram, ins
  <2>5. r \in Registers /\ r[0] = {}
    BY DEF Typed, TypeOK, Registers
  <2>6. ins.op \in Operators => ins.d \in 0 .. 5 /\ r[ins.a] \in Word /\ Second \in Word
    BY <2>4, <2>5, SecondIn DEF Shaped, Registers
  <2>7. \A why \in {"divide", "stopped", "taken", "trap"} : Leave(why) => Typed'
    BY DEF Leave, Typed, TypeOK
  <2>8. CASE ins.op \in {"and", "mask", "or", "xor"}
    <3>1. Puts(LogicalResult(r[ins.a], Second)) /\ ins.op \in Operators
      BY <2>1, <2>8 DEF Performed, Operators
    <3>2. LogicalResult(r[ins.a], Second) \in Word
      BY <2>6, <2>8, <3>1, LogicalIn
    <3> QED
      BY <2>2, <2>6, <3>1, <3>2, PutsTyped
  <2>9. CASE ins.op \in {"add", "sub", "mul"}
    <3>1. Puts(ArithmeticResult(Number[r[ins.a]], Number[Second])) /\ ins.op \in Operators
      BY <2>1, <2>9 DEF Performed, Operators
    <3>2. ArithmeticResult(Number[r[ins.a]], Number[Second]) \in Word
      BY WordOfIn DEF ArithmeticResult
    <3> QED
      BY <2>2, <2>6, <3>1, <3>2, PutsTyped
  <2>10. CASE ins.op \in {"div", "divu"}
    <3>1. PICK w \in Word : Leave("divide") \/ Leave("stopped") \/ Puts(w)
      <4>1. Least \in Word /\ \A x : WordOf(x) \in Word
        BY WordOfIn
      <4> QED
        BY <2>1, <2>10, <4>1 DEF Performed
    <3>2. ins.op \in Operators
      BY <2>10 DEF Operators
    <3> QED
      BY <2>2, <2>6, <2>7, <3>1, <3>2, PutsTyped
  <2>11. CASE ins.op = "cmp"
    <3>1. Puts(do_cmp(r[ins.a], Second)) /\ ins.op \in Operators
      BY <2>1, <2>11 DEF Performed, Operators
    <3>2. do_cmp(r[ins.a], Second) \in Word
      BY CompareIn
    <3> QED
      BY <2>2, <2>6, <3>1, <3>2, PutsTyped
  <2>12. CASE ins.op \in Tests
    <3>1. IF Fires THEN Leave(IF ins.op \in {"tb0", "tb1", "tcnd"} THEN "trap" ELSE "taken")
          ELSE Onward /\ UNCHANGED <<r, f, mem>>
      BY <2>1, <2>12 DEF Performed
    <3>2. Onward /\ UNCHANGED <<r, f, mem>> => Typed'
      BY <2>3 DEF Onward, Typed, TypeOK
    <3> QED
      BY <2>7, <3>1, <3>2
  <2>13. CASE ins.op \in FieldOps
    <3>1. Puts(bitfield(r[ins.a], ins.w, ins.o))
      BY <2>1, <2>13 DEF Performed
    <3>2. ins.d \in 0 .. 5 /\ ins.a \in 0 .. 5 /\ ins.w \in 0 .. W - 1 /\ ins.o \in 0 .. W - 1
      BY <2>4, <2>13 DEF Shaped
    <3>3. bitfield(r[ins.a], ins.w, ins.o) \in Word
      <4>1. r[ins.a] \in Word
        BY <2>5, <3>2 DEF Registers
      <4> QED
        BY <2>13, <3>2, <4>1, FieldIn
    <3> QED
      BY <2>2, <3>1, <3>2, <3>3, PutsTyped
  <2>14. CASE ins.op \in {"ff1", "ff0"}
    <3>1. Puts(Highest(IF ins.op = "ff1" THEN r[ins.a] ELSE Bits \ r[ins.a]))
      BY <2>1, <2>14 DEF Performed
    <3>2. ins.d \in 0 .. 5
      BY <2>4, <2>14 DEF Shaped
    <3> QED
      BY <2>2, <3>1, <3>2, PutsTyped, WordOfIn
  <2>15. CASE ins.op \in {"ld", "ldu"}
    <3>1. Puts(LoadResult) /\ ins.d \in 0 .. 5 /\ Reach(ins)
      BY <2>1, <2>4, <2>15 DEF Performed, Shaped
    <3> QED
      BY <2>2, <3>1, LoadIn, PutsTyped
  <2>16. CASE ins.op = "st"
    <3>1. mem' = Stored(r[ins.d], ins.size, ins.ea) /\ Onward /\ r' = r /\ f' = f
      BY <2>1, <2>16 DEF Performed
    <3>2. mem \in Memory
      BY DEF Typed, TypeOK, Memory
    <3>3. mem' \in Memory
      BY <3>1, <3>2, StoredIn
    <3> QED
      BY <2>3, <3>1, <3>3 DEF Onward, Typed, TypeOK, Memory
  <2>17. CASE ins.op = "xmem"
    <3>1. /\ mem' = Stored(r[ins.d], ins.size, ins.ea) /\ Onward /\ f' = f
          /\ r' = Put(r, ins.d, Fetched(ins.size, ins.ea)) /\ ins.d \in 0 .. 5
      BY <2>1, <2>4, <2>17 DEF Performed, Shaped
    <3>2. mem \in Memory
      BY DEF Typed, TypeOK, Memory
    <3>3. mem' \in Memory
      BY <3>1, <3>2, StoredIn
    <3>4. Fetched(ins.size, ins.ea) \in Word
      <4>1. \A i \in Fetched(ins.size, ins.ea) : i \in Bits
        BY MovedIn DEF Fetched, Word
      <4> QED
        BY <4>1, BitsIn
    <3>5. r' \in Registers /\ r'[0] = {}
      BY <2>5, <3>1, <3>4, PutIn
    <3> QED
      BY <2>3, <3>1, <3>3, <3>5 DEF Onward, Typed, TypeOK, Memory, Registers
  <2>18. CASE ins.op = "fcmp"
    <3>1. Puts(fcmp(f[ins.a], f[ins.n])) /\ ins.d \in 0 .. 5
      BY <2>1, <2>4, <2>18 DEF Performed, Shaped
    <3> QED
      BY <2>2, <3>1, CompareIn, PutsTyped
  <2>19. CASE ins.op = "flt"
    <3>1. /\ f' = [f EXCEPT ![ins.d] = 4 * Signed(r[ins.n])] /\ Onward /\ r' = r /\ mem' = mem
          /\ ins.d \in 2 .. 4 /\ ins.n \in 0 .. 5
      BY <2>1, <2>4, <2>19 DEF Performed, Shaped
    <3>2. 4 * Signed(r[ins.n]) \in Int
      <4>1. r[ins.n] \in Word
        BY <2>5, <3>1 DEF Registers
      <4> QED
        BY <4>1, SignedNumber
    <3>3. f' \in [2 .. 4 -> Int \cup {NaN}]
      <4>1. f \in [2 .. 4 -> Int \cup {NaN}]
        BY DEF Typed, TypeOK
      <4> QED
        BY <3>1, <3>2, <4>1
    <3>4. at' \in 1 .. Len(prog) + 1 /\ prog' = prog /\ status' = status /\ r' = r /\ mem' = mem
      BY <2>3, <3>1 DEF Onward
    <3> QED
      BY <3>3, <3>4 DEF Typed, TypeOK
  <2>20. CASE ins.op \in Rounders
    <3>1. PICK w \in Conversions : Puts(w)
      BY <2>1, <2>20 DEF Performed
    <3>2. w \in Word
      <4>1. \A x : WordOf(x) \in Word /\ Least \in Word /\ Bits \ Least \in Word /\ {} \in Word
        BY WordOfIn, BitsIn
      <4> QED
        BY <4>1 DEF Conversions, Truncated
    <3>3. ins.d \in 0 .. 5
      BY <2>4, <2>20 DEF Shaped
    <3> QED
      BY <2>2, <3>1, <3>2, <3>3, PutsTyped
  <2>21. ins.op \in Operators \cup Tests \cup FieldOps \cup Rounders
               \cup {"ff1", "ff0", "ld", "ldu", "st", "xmem", "fcmp", "flt"}
    BY <2>4 DEF Shaped
  <2> QED
    BY <2>8, <2>9, <2>10, <2>11, <2>12, <2>13, <2>14, <2>15, <2>16, <2>17, <2>18, <2>19, <2>20,
       <2>21 DEF Operators
<1> QED
  BY <1>0, <1>1

(* Whatever sequence runs, a register is left with a word, the memory with   *)
(* bytes and the floating-point registers with numbers or a NaN, and         *)
(* register 0 with zero (RD and WR, nx88.h:143-144; step, cpu.c:1420-1640).  *)
THEOREM RegistersHoldWords == Spec => []TypeOK
<1>1. Spec => []Typed
  BY InitTyped, StepTyped, PTL DEF Spec
<1> QED
  BY <1>1, PTL DEF Typed

(***************************************************************************)
(* Steps of a sequence                                                     *)
(***************************************************************************)

Floating == [2 .. 4 -> Int \cup {NaN}]

(* What every step of a sequence may rely on.                              *)
LEMMA Steps ==
  ASSUME Typed, Next
  PROVE  /\ Performed /\ prog' = prog /\ status = "running" /\ ins = prog[at]
         /\ Len(prog) \in 1 .. 4 /\ at \in 1 .. Len(prog)
         /\ r \in Registers /\ r[0] = {} /\ f \in Floating /\ mem \in Memory
<1>1. Performed
  BY Performs
<1>2. status = "running" /\ at <= Len(prog) /\ prog' = prog
  BY <1>1 DEF Performed
<1>3. Len(prog) \in 1 .. 4 /\ at \in 1 .. Len(prog)
  BY <1>2, ShapedFamilies DEF Typed, TypeOK, ShapedProgram
<1> QED
  BY <1>1, <1>2, <1>3 DEF Typed, TypeOK, Registers, Floating, Memory, ins

(* A register that is put holds the result; everything else stays.         *)
LEMMA PutsOne ==
  ASSUME r \in Registers, NEW w, Puts(w), ins.d \in 1 .. 5
  PROVE  /\ r'[ins.d] = w /\ \A k \in 0 .. 5 : k # ins.d => r'[k] = r[k]
         /\ at' = at + 1 /\ status' = status /\ f' = f /\ mem' = mem
  BY DEF Puts, Onward, Put, Registers

LEMMA Held ==
  ASSUME Typed
  PROVE  /\ Len(prog) \in 1 .. 4 /\ at \in 1 .. Len(prog) + 1
         /\ \A k \in 0 .. 5 : r[k] \in Word
         /\ r[0] = {}
         /\ \A k \in 2 .. 4 : f[k] \in Int \cup {NaN}
         /\ Done => at = Len(prog) + 1 \/ status # "running"
  BY ShapedFamilies DEF Typed, TypeOK, ShapedProgram, Done

(* How each family of sequences is told apart.                             *)
LEMMA Sorts ==
  ASSUME NEW p
  PROVE  /\ p \in CompareBranch \cup CompareHalf(Halves) => Len(p) = 2 /\ p[1].op = "cmp"
         /\ p \in BranchOnZero => Len(p) = 1 /\ p[1].op \in {"bcnd", "tcnd"}
         /\ p \in ReadField(Fields) => Len(p) = 1 /\ p[1].op \in {"ext", "extu"}
         /\ p \in ReplaceField(Fields) => Len(p) = 3 /\ p[1].op = "clr"
         /\ p \in Rotate => Len(p) = 2 /\ p[1].op = "rot"
         /\ p \in DivideAndRest => Len(p) = 3 /\ p[1].op \in {"div", "divu"}
         /\ p \in BuildConstant(Halves) => Len(p) = 2 /\ p[1].op = "or" /\ p[1].a = 0
         /\ p \in EditHalves(Halves) =>
              Len(p) = 2 /\ p[1].op \in {"and", "or", "xor", "mask"} /\ p[1].a = 2
         /\ p \in Negate => Len(p) = 3 /\ p[1].op = "or"
         /\ p \in Discard => Len(p) = 2 /\ p[1].op = "or" /\ p[1].d = 0
         /\ p \in FindHighest => Len(p) = 1 /\ p[1].op \in {"ff1", "ff0"}
         /\ p \in ThroughMemory => Len(p) = 4 /\ p[1].op = "st" /\ p[3].op = "st"
         /\ p \in ExchangeMemory => Len(p) = 4 /\ p[1].op = "st" /\ p[3].op = "xmem"
         /\ p \in ReadTimer => Len(p) = 1 /\ p[1].op \in {"ld", "ldu"}
         /\ p \in FloatBranch => Len(p) = 2 /\ p[1].op = "fcmp"
         /\ p \in ToFloatAndBack => Len(p) = 2 /\ p[1].op = "flt"
         /\ p \in RoundFloat => Len(p) = 1 /\ p[1].op \in {"int", "nint", "trnc"}
<1>1. p \in CompareBranch \cup CompareHalf(Halves) => Len(p) = 2 /\ p[1].op = "cmp"
  BY DEF CompareBranch, CompareHalf, Reg, Imm
<1>2. p \in BranchOnZero => Len(p) = 1 /\ p[1].op \in {"bcnd", "tcnd"}
  BY DEF BranchOnZero, Test
<1>3. p \in ReadField(Fields) => Len(p) = 1 /\ p[1].op \in {"ext", "extu"}
  BY DEF ReadField, Part
<1>4. p \in ReplaceField(Fields) => Len(p) = 3 /\ p[1].op = "clr"
  BY DEF ReplaceField, Part
<1>5. p \in Rotate => Len(p) = 2 /\ p[1].op = "rot"
  BY DEF Rotate, Part
<1>6. p \in DivideAndRest => Len(p) = 3 /\ p[1].op \in {"div", "divu"}
  BY DEF DivideAndRest, Reg
<1>7. p \in BuildConstant(Halves) => Len(p) = 2 /\ p[1].op = "or" /\ p[1].a = 0
  BY DEF BuildConstant, Upper
<1>8. p \in EditHalves(Halves) =>
        Len(p) = 2 /\ p[1].op \in {"and", "or", "xor", "mask"} /\ p[1].a = 2
  BY DEF EditHalves, Upper
<1>9. p \in Negate => Len(p) = 3 /\ p[1].op = "or"
  BY DEF Negate, Comp
<1>10. p \in Discard => Len(p) = 2 /\ p[1].op = "or" /\ p[1].d = 0
  BY DEF Discard, Reg
<1>11. p \in FindHighest => Len(p) = 1 /\ p[1].op \in {"ff1", "ff0"}
  BY DEF FindHighest, Unary
<1>12. p \in ThroughMemory => Len(p) = 4 /\ p[1].op = "st" /\ p[3].op = "st"
  BY DEF ThroughMemory, Access
<1>13. p \in ExchangeMemory => Len(p) = 4 /\ p[1].op = "st" /\ p[3].op = "xmem"
  BY DEF ExchangeMemory, Access
<1>14. p \in ReadTimer => Len(p) = 1 /\ p[1].op \in {"ld", "ldu"}
  BY DEF ReadTimer, Access
<1>15. p \in FloatBranch => Len(p) = 2 /\ p[1].op = "fcmp"
  BY DEF FloatBranch
<1>16. p \in ToFloatAndBack => Len(p) = 2 /\ p[1].op = "flt"
  BY DEF ToFloatAndBack
<1>17. p \in RoundFloat => Len(p) = 1 /\ p[1].op \in {"int", "nint", "trnc"}
  BY DEF RoundFloat
<1> QED
  BY <1>1, <1>2, <1>3, <1>4, <1>5, <1>6, <1>7, <1>8, <1>9, <1>10, <1>11, <1>12, <1>13, <1>14,
     <1>15, <1>16, <1>17

LEMMA Sorted ==
  ASSUME NEW p \in Families
  PROVE  /\ Len(p) = 2 /\ p[1].op = "cmp" => p \in CompareBranch \cup CompareHalf(Halves)
         /\ Len(p) = 1 /\ p[1].op \in {"ext", "extu"} => p \in ReadField(Fields)
         /\ Len(p) = 3 /\ p[1].op = "clr" => p \in ReplaceField(Fields)
         /\ Len(p) = 2 /\ p[1].op = "or" /\ p[1].a = 0 /\ p[1].d = 4 => p \in BuildConstant(Halves)
         /\ Len(p) = 2 /\ p[1].op \in {"and", "or", "xor", "mask"} /\ p[1].a = 2 /\ p[1].d = 4 =>
              p \in EditHalves(Halves)
         /\ Len(p) = 4 /\ p[3].op = "st" => p \in ThroughMemory
<1>1. \/ p \in CompareBranch \cup CompareHalf(Halves)
      \/ p \in BranchOnZero \/ p \in ReadField(Fields) \/ p \in ReplaceField(Fields)
      \/ p \in Rotate \/ p \in DivideAndRest \/ p \in BuildConstant(Halves)
      \/ p \in EditHalves(Halves) \/ p \in Negate \/ p \in Discard \/ p \in FindHighest
      \/ p \in ThroughMemory \/ p \in ExchangeMemory \/ p \in ReadTimer
      \/ p \in FloatBranch \/ p \in ToFloatAndBack \/ p \in RoundFloat
  BY DEF Families
<1> QED
  BY <1>1, Sorts

(***************************************************************************)
(* Comparing and branching                                                 *)
(***************************************************************************)

LEMMA ConditionBits ==
  /\ ConditionBit["eq"] = 2 /\ ConditionBit["ne"] = 3 /\ ConditionBit["gt"] = 4
  /\ ConditionBit["le"] = 5 /\ ConditionBit["lt"] = 6 /\ ConditionBit["ge"] = 7
  /\ ConditionBit["hi"] = 8 /\ ConditionBit["ls"] = 9 /\ ConditionBit["lo"] = 10
  /\ ConditionBit["hs"] = 11
  /\ DOMAIN ConditionMask = {"gt", "eq", "ge", "lt", "ne", "le"}
  /\ ConditionMask["gt"] = 1 /\ ConditionMask["eq"] = 2 /\ ConditionMask["ge"] = 3
  /\ ConditionMask["lt"] = 12 /\ ConditionMask["ne"] = 13 /\ ConditionMask["le"] = 14
  BY DEF ConditionBit, ConditionMask

LEMMA Relates ==
  ASSUME NEW x \in Int, NEW y \in Int, NEW m \in Int, NEW n \in Int
  PROVE  /\ Holds("eq", x, y, m, n) <=> x = y
         /\ Holds("ne", x, y, m, n) <=> x # y
         /\ Holds("gt", x, y, m, n) <=> x > y
         /\ Holds("le", x, y, m, n) <=> x <= y
         /\ Holds("lt", x, y, m, n) <=> x < y
         /\ Holds("ge", x, y, m, n) <=> x >= y
         /\ Holds("hi", x, y, m, n) <=> m > n
         /\ Holds("ls", x, y, m, n) <=> m <= n
         /\ Holds("lo", x, y, m, n) <=> m < n
         /\ Holds("hs", x, y, m, n) <=> m >= n
  BY DEF Holds

LEMMA CompareMeans ==
  ASSUME NEW a \in Word, NEW b \in Word, NEW rel \in Relations
  PROVE  ConditionBit[rel] \in do_cmp(a, b) <=>
           Holds(rel, Signed(a), Signed(b), Number[a], Number[b])
<1>1. PICK x \in Int, y \in Int, m \in Int, n \in Int :
        x = Signed(a) /\ y = Signed(b) /\ m = Number[a] /\ n = Number[b] /\ (x = y <=> a = b)
  <2>1. /\ Number[a] \in Int /\ Number[b] \in Int /\ Signed(a) \in Int /\ Signed(b) \in Int
        /\ Signed(a) = Signed(b) <=> a = b
    BY WordIn, SignedNumber, SignedSame
  <2> QED
    BY <2>1
<1>2. /\ 2 \in do_cmp(a, b) <=> x = y
      /\ 3 \in do_cmp(a, b) <=> x # y
      /\ 4 \in do_cmp(a, b) <=> x > y
      /\ 5 \in do_cmp(a, b) <=> x <= y
      /\ 6 \in do_cmp(a, b) <=> x < y
      /\ 7 \in do_cmp(a, b) <=> x >= y
      /\ 8 \in do_cmp(a, b) <=> m > n
      /\ 9 \in do_cmp(a, b) <=> m <= n
      /\ 10 \in do_cmp(a, b) <=> m < n
      /\ 11 \in do_cmp(a, b) <=> m >= n
  BY <1>1 DEF do_cmp, C_EQ, C_NE, C_GT, C_LE, C_LT, C_GE, C_HI, C_LS, C_LO, C_HS
<1>3. ConditionBit[rel] \in do_cmp(a, b) <=> Holds(rel, x, y, m, n)
  <2>0. /\ Holds("eq", x, y, m, n) <=> x = y
        /\ Holds("ne", x, y, m, n) <=> x # y
        /\ Holds("gt", x, y, m, n) <=> x > y
        /\ Holds("le", x, y, m, n) <=> x <= y
        /\ Holds("lt", x, y, m, n) <=> x < y
        /\ Holds("ge", x, y, m, n) <=> x >= y
        /\ Holds("hi", x, y, m, n) <=> m > n
        /\ Holds("ls", x, y, m, n) <=> m <= n
        /\ Holds("lo", x, y, m, n) <=> m < n
        /\ Holds("hs", x, y, m, n) <=> m >= n
    BY Relates
  <2>1. ConditionBit["eq"] \in do_cmp(a, b) <=> Holds("eq", x, y, m, n)
    BY <1>2, <2>0, ConditionBits
  <2>2. ConditionBit["ne"] \in do_cmp(a, b) <=> Holds("ne", x, y, m, n)
    BY <1>2, <2>0, ConditionBits
  <2>3. ConditionBit["gt"] \in do_cmp(a, b) <=> Holds("gt", x, y, m, n)
    BY <1>2, <2>0, ConditionBits
  <2>4. ConditionBit["le"] \in do_cmp(a, b) <=> Holds("le", x, y, m, n)
    BY <1>2, <2>0, ConditionBits
  <2>5. ConditionBit["lt"] \in do_cmp(a, b) <=> Holds("lt", x, y, m, n)
    BY <1>2, <2>0, ConditionBits
  <2>6. ConditionBit["ge"] \in do_cmp(a, b) <=> Holds("ge", x, y, m, n)
    BY <1>2, <2>0, ConditionBits
  <2>7. ConditionBit["hi"] \in do_cmp(a, b) <=> Holds("hi", x, y, m, n)
    BY <1>2, <2>0, ConditionBits
  <2>8. ConditionBit["ls"] \in do_cmp(a, b) <=> Holds("ls", x, y, m, n)
    BY <1>2, <2>0, ConditionBits
  <2>9. ConditionBit["lo"] \in do_cmp(a, b) <=> Holds("lo", x, y, m, n)
    BY <1>2, <2>0, ConditionBits
  <2>10. ConditionBit["hs"] \in do_cmp(a, b) <=> Holds("hs", x, y, m, n)
    BY <1>2, <2>0, ConditionBits
  <2> HIDE DEF do_cmp, Holds, ConditionBit
  <2> QED
    BY <2>1, <2>2, <2>3, <2>4, <2>5, <2>6, <2>7, <2>8, <2>9, <2>10 DEF Relations
<1> QED
  BY <1>1, <1>3

LEMMA ConditionMeans ==
  ASSUME NEW a \in Word, NEW rel \in DOMAIN ConditionMask
  PROVE  cond_true(ConditionMask[rel], a) <=> Holds(rel, Signed(a), 0, Number[a], 0)
<1>1. PICK x \in Int, m \in Int, z \in Int : x = Signed(a) /\ m = Number[a] /\ z = 0
  BY SignedNumber, WordIn
<1>2. /\ cond_true(1, a) <=> x > z
      /\ cond_true(2, a) <=> x = z
      /\ cond_true(3, a) <=> x >= z
      /\ cond_true(12, a) <=> x < z
      /\ cond_true(13, a) <=> x # z
      /\ cond_true(14, a) <=> x <= z
  BY <1>1 DEF cond_true
<1>3. cond_true(ConditionMask[rel], a) <=> Holds(rel, x, z, m, z)
  <2>1. cond_true(ConditionMask["gt"], a) <=> Holds("gt", x, z, m, z)
    BY <1>2, Relates, ConditionBits
  <2>2. cond_true(ConditionMask["eq"], a) <=> Holds("eq", x, z, m, z)
    BY <1>2, Relates, ConditionBits
  <2>3. cond_true(ConditionMask["ge"], a) <=> Holds("ge", x, z, m, z)
    BY <1>2, Relates, ConditionBits
  <2>4. cond_true(ConditionMask["lt"], a) <=> Holds("lt", x, z, m, z)
    BY <1>2, Relates, ConditionBits
  <2>5. cond_true(ConditionMask["ne"], a) <=> Holds("ne", x, z, m, z)
    BY <1>2, Relates, ConditionBits
  <2>6. cond_true(ConditionMask["le"], a) <=> Holds("le", x, z, m, z)
    BY <1>2, Relates, ConditionBits
  <2> QED
    BY <2>1, <2>2, <2>3, <2>4, <2>5, <2>6, ConditionBits
<1> QED
  BY <1>1, <1>3

(* A comparison leaves its bits in register 4, and the test of one ends    *)
(* the sequence there or goes on.                                          *)
Passes(i, w) == i.bit \in w <=> i.op \in {"bb1", "tb1"}

Tested(i, w) ==
  \/ at = 2 /\ status = "running"
  \/ at = 2 /\ Passes(i, w) /\ status = Outcome(i.op)
  \/ at = 3 /\ ~Passes(i, w) /\ status = "running"

Comparand == IF prog[1].form = "imm" THEN prog[1].h ELSE r[3]

CompareRuns ==
  prog \in CompareBranch \cup CompareHalf(Halves) =>
    \/ at = 1 /\ status = "running"
    \/ r[4] = do_cmp(r[2], Comparand) /\ Tested(prog[2], r[4])

LEMMA BitTests ==
  ASSUME ins.op \in {"bb0", "bb1", "tb0", "tb1"}, ins.a = 4
  PROVE  Fires <=> Passes(ins, r[4])
<1>1. CASE ins.op \in {"bb0", "tb0"}
  <2>1. Fires <=> ins.bit \notin r[4]
    BY <1>1 DEF Fires
  <2>2. Passes(ins, r[4]) <=> ins.bit \notin r[4]
    BY <1>1 DEF Passes
  <2> QED
    BY <2>1, <2>2
<1>2. CASE ins.op \in {"bb1", "tb1"}
  <2>1. Fires <=> ins.bit \in r[4]
    BY <1>2 DEF Fires
  <2>2. Passes(ins, r[4]) <=> ins.bit \in r[4]
    BY <1>2 DEF Passes
  <2> QED
    BY <2>1, <2>2
<1> QED
  BY <1>1, <1>2

LEMMA TestsBit ==
  ASSUME Performed, at = 2, ins = prog[2], prog[2].a = 4,
         prog[2].op \in {"bb0", "bb1", "tb0", "tb1"}
  PROVE  Tested(prog[2], r[4])' /\ r' = r /\ f' = f
<1>1. IF Fires THEN Leave(Outcome(ins.op)) ELSE Onward /\ UNCHANGED <<r, f, mem>>
  BY DEF Performed, Tests, Outcome
<1>2. Fires <=> Passes(prog[2], r[4])
  BY BitTests
<1>3. status = "running" /\ prog' = prog
  BY DEF Performed
<1> QED
  BY <1>1, <1>2, <1>3 DEF Leave, Onward, Tested, Passes

LEMMA CompareStarts ==
  ASSUME NEW p \in CompareBranch \cup CompareHalf(Halves)
  PROVE  /\ Len(p) = 2 /\ p[1].op = "cmp" /\ p[1].d = 4 /\ p[1].a = 2
         /\ \/ p[1].form = "reg" /\ p[1].n = 3
            \/ p[1].form = "imm" /\ p[1].h \in Halves
         /\ p[2].a = 4 /\ p[2].op \in {"bb0", "bb1", "tb0", "tb1"}
  BY DEF CompareBranch, CompareHalf, Reg, Imm, Test

LEMMA CompareRun ==
  /\ Init => CompareRuns
  /\ Typed /\ CompareRuns /\ [Next]_vars => CompareRuns'
<1>1. Init => CompareRuns
  BY DEF Init, CompareRuns
<1>2. CompareRuns /\ UNCHANGED vars => CompareRuns'
  BY DEF CompareRuns, vars, Comparand, Tested, Passes
<1>3. ASSUME Typed, CompareRuns, Next PROVE CompareRuns'
  <2> SUFFICES ASSUME prog \in CompareBranch \cup CompareHalf(Halves) PROVE CompareRuns'
    BY <1>3, Steps DEF CompareRuns
  <2>1. /\ Performed /\ prog' = prog /\ status = "running" /\ ins = prog[at]
        /\ at \in 1 .. Len(prog) /\ r \in Registers
    BY <1>3, Steps
  <2>2. /\ Len(prog) = 2 /\ prog[1].op = "cmp" /\ prog[1].d = 4 /\ prog[1].a = 2
        /\ \/ prog[1].form = "reg" /\ prog[1].n = 3
           \/ prog[1].form = "imm" /\ prog[1].h \in Halves
        /\ prog[2].a = 4 /\ prog[2].op \in {"bb0", "bb1", "tb0", "tb1"}
    BY CompareStarts
  <2>3. CASE at = 1
    <3>1. Puts(do_cmp(r[2], Second)) /\ Second = Comparand /\ ins.d = 4
      BY <2>1, <2>2, <2>3 DEF Performed, Second, Comparand
    <3>2. /\ r'[4] = do_cmp(r[2], Comparand) /\ r'[2] = r[2] /\ r'[3] = r[3]
          /\ at' = at + 1 /\ status' = status
      BY <2>1, <3>1, PutsOne
    <3> QED
      BY <2>1, <2>2, <2>3, <3>2 DEF CompareRuns, Comparand, Tested
  <2>4. CASE at = 2
    <3>1. Tested(prog[2], r[4])' /\ r' = r
      BY <2>1, <2>2, <2>4, TestsBit
    <3>2. r[4] = do_cmp(r[2], Comparand)
      BY <1>3, <2>4 DEF CompareRuns
    <3> QED
      BY <2>1, <3>1, <3>2 DEF CompareRuns, Comparand
  <2> QED
    BY <2>1, <2>2, <2>3, <2>4
<1> QED
  BY <1>1, <1>2, <1>3

ZeroRuns ==
  prog \in BranchOnZero =>
    LET true == cond_true(prog[1].bit, r[2])
    IN \/ at = 1 /\ status = "running"
       \/ at = 1 /\ true /\ status = Outcome(prog[1].op)
       \/ at = 2 /\ ~true /\ status = "running"

LEMMA ZeroRun ==
  /\ Init => ZeroRuns
  /\ Typed /\ ZeroRuns /\ [Next]_vars => ZeroRuns'
<1>1. Init => ZeroRuns
  BY DEF Init, ZeroRuns
<1>2. ZeroRuns /\ UNCHANGED vars => ZeroRuns'
  BY DEF ZeroRuns, vars, cond_true, Signed
<1>3. ASSUME Typed, ZeroRuns, Next PROVE ZeroRuns'
  <2> SUFFICES ASSUME prog \in BranchOnZero PROVE ZeroRuns'
    BY <1>3, Steps DEF ZeroRuns
  <2>1. /\ Performed /\ prog' = prog /\ status = "running" /\ ins = prog[at]
        /\ at \in 1 .. Len(prog) /\ r \in Registers
    BY <1>3, Steps
  <2>2. Len(prog) = 1 /\ prog[1].op \in {"bcnd", "tcnd"} /\ prog[1].a = 2
    BY DEF BranchOnZero, Test
  <2>3. at = 1 /\ ins = prog[1]
    BY <2>1, <2>2
  <2>4. Fires <=> cond_true(prog[1].bit, r[2])
    BY <2>2, <2>3 DEF Fires
  <2>5. IF Fires THEN Leave(Outcome(prog[1].op)) ELSE Onward /\ UNCHANGED <<r, f, mem>>
    BY <2>1, <2>2, <2>3 DEF Performed, Tests, Outcome
  <2>6. r' = r
    BY <2>5 DEF Leave
  <2>7. cond_true(prog[1].bit, r[2])' = cond_true(prog[1].bit, r[2])
    BY <2>1, <2>6
  <2> QED
    BY <2>1, <2>2, <2>3, <2>4, <2>5, <2>7 DEF ZeroRuns, Leave, Onward
<1> QED
  BY <1>1, <1>2, <1>3

FloatRuns ==
  prog \in FloatBranch =>
    \/ at = 1 /\ status = "running"
    \/ r[4] = fcmp(f[2], f[3]) /\ Tested(prog[2], r[4])

LEMMA FloatRun ==
  /\ Init => FloatRuns
  /\ Typed /\ FloatRuns /\ [Next]_vars => FloatRuns'
<1>1. Init => FloatRuns
  BY DEF Init, FloatRuns
<1>2. FloatRuns /\ UNCHANGED vars => FloatRuns'
  BY DEF FloatRuns, vars, Tested, Passes
<1>3. ASSUME Typed, FloatRuns, Next PROVE FloatRuns'
  <2> SUFFICES ASSUME prog \in FloatBranch PROVE FloatRuns'
    BY <1>3, Steps DEF FloatRuns
  <2>1. /\ Performed /\ prog' = prog /\ status = "running" /\ ins = prog[at]
        /\ at \in 1 .. Len(prog) /\ r \in Registers
    BY <1>3, Steps
  <2>2. /\ Len(prog) = 2 /\ prog[1].op = "fcmp" /\ prog[1].d = 4 /\ prog[1].a = 2 /\ prog[1].n = 3
        /\ prog[2].a = 4 /\ prog[2].op = "bb1"
    BY DEF FloatBranch, Test
  <2>3. CASE at = 1
    <3>1. Puts(fcmp(f[2], f[3])) /\ ins.d = 4
      BY <2>1, <2>2, <2>3 DEF Performed
    <3>2. r'[4] = fcmp(f[2], f[3]) /\ f' = f /\ at' = at + 1 /\ status' = status
      BY <2>1, <3>1, PutsOne
    <3> QED
      BY <2>1, <2>3, <3>2 DEF FloatRuns, Tested
  <2>4. CASE at = 2
    <3>1. Tested(prog[2], r[4])' /\ r' = r /\ f' = f
      BY <2>1, <2>2, <2>4, TestsBit
    <3>2. r[4] = fcmp(f[2], f[3])
      BY <1>3, <2>4 DEF FloatRuns
    <3> QED
      BY <2>1, <3>1, <3>2 DEF FloatRuns
  <2> QED
    BY <2>1, <2>2, <2>3, <2>4
<1> QED
  BY <1>1, <1>2, <1>3

LEMMA IntegersCompared ==
  Typed /\ CompareRuns /\ ZeroRuns => BranchesCompare
<1> SUFFICES ASSUME Typed, CompareRuns, ZeroRuns PROVE BranchesCompare
  OBVIOUS
<1>1. ASSUME Done, Len(prog) = 2, prog[1].op = "cmp",
             NEW rel \in Relations, prog[2].bit = ConditionBit[rel]
      PROVE  LET b == IF prog[1].form = "imm" THEN prog[1].h ELSE r[3]
                 true == Holds(rel, Signed(r[2]), Signed(b), Number[r[2]], Number[b])
             IN status = IF true <=> prog[2].op \in {"bb1", "tb1"} THEN Outcome(prog[2].op)
                         ELSE "running"
  <2>1. prog \in CompareBranch \cup CompareHalf(Halves)
    BY <1>1, Sorted DEF Typed
  <2>2. at = 3 \/ status # "running"
    BY <1>1, Held
  <2>3. r[4] = do_cmp(r[2], Comparand) /\ Tested(prog[2], r[4])
    BY <2>1, <2>2 DEF CompareRuns
  <2>4. r[2] \in Word /\ Comparand \in Word
    BY <2>1, CompareStarts, Held, WordsOfHalves DEF Comparand
  <2>5. prog[2].bit \in r[4] <=>
          Holds(rel, Signed(r[2]), Signed(Comparand), Number[r[2]], Number[Comparand])
    BY <1>1, <2>3, <2>4, CompareMeans
  <2>6. status = IF Passes(prog[2], r[4]) THEN Outcome(prog[2].op) ELSE "running"
    BY <2>2, <2>3 DEF Tested
  <2> DEFINE h == Holds(rel, Signed(r[2]), Signed(Comparand), Number[r[2]], Number[Comparand])
  <2>7. Passes(prog[2], r[4]) <=> (h <=> prog[2].op \in {"bb1", "tb1"})
    <3> HIDE DEF h
    <3> QED
      BY <2>5 DEF Passes, h
  <2> HIDE DEF h
  <2>8. status = IF h <=> prog[2].op \in {"bb1", "tb1"} THEN Outcome(prog[2].op) ELSE "running"
    BY <2>6, <2>7
  <2> QED
    BY <2>8, Zenon DEF Comparand, h
<1>2. ASSUME Ran(BranchOnZero), NEW rel \in DOMAIN ConditionMask, prog[1].bit = ConditionMask[rel]
      PROVE  status = IF Holds(rel, Signed(r[2]), 0, Number[r[2]], 0)
                        THEN Outcome(prog[1].op) ELSE "running"
  <2>1. prog \in BranchOnZero /\ Done
    BY <1>2 DEF Ran
  <2>2. at = 2 \/ status # "running"
    <3>1. Len(prog) = 1
      BY <2>1, Sorts
    <3> QED
      BY <2>1, <3>1, Held
  <2>3. cond_true(prog[1].bit, r[2]) <=> Holds(rel, Signed(r[2]), 0, Number[r[2]], 0)
    BY <1>2, Held, ConditionMeans
  <2>4. status = IF cond_true(prog[1].bit, r[2]) THEN Outcome(prog[1].op) ELSE "running"
    BY <2>1, <2>2 DEF ZeroRuns
  <2> QED
    BY <2>3, <2>4
<1> QED
  BY <1>1, <1>2, Zenon DEF BranchesCompare

LEMMA FloatsCompared ==
  Typed /\ FloatRuns => FloatBranchesCompare
<1> SUFFICES ASSUME Typed, FloatRuns, prog \in FloatBranch, Done PROVE FloatBranchesCompare
  BY DEF FloatBranchesCompare, Ran
<1>1. at = 3 \/ status # "running"
  <2>1. Len(prog) = 2
    BY Sorts
  <2> QED
    BY <2>1, Held
<1>2. r[4] = fcmp(f[2], f[3]) /\ Tested(prog[2], r[4])
  BY <1>1 DEF FloatRuns
<1>3. PICK bit \in 0 .. 7 : prog[2].bit = bit /\ prog[2].op = "bb1"
  BY DEF FloatBranch, Test
<1>4. status = "taken" <=> bit \in fcmp(f[2], f[3])
  BY <1>1, <1>2, <1>3 DEF Tested, Passes, Outcome
<1>5. f[2] \in Int \cup {NaN} /\ f[3] \in Int \cup {NaN}
  BY Held
<1>6. CASE NaN \in {f[2], f[3]}
  BY <1>3, <1>4, <1>6 DEF FloatBranchesCompare, fcmp
<1>7. CASE NaN \notin {f[2], f[3]}
  <2>1. PICK x \in Int, y \in Int : x = f[2] /\ y = f[3]
    BY <1>5, <1>7
  <2>2. /\ 0 \notin fcmp(x, y) /\ 1 \in fcmp(x, y)
        /\ 2 \in fcmp(x, y) <=> x = y
        /\ 3 \in fcmp(x, y) <=> x # y
        /\ 4 \in fcmp(x, y) <=> x > y
        /\ 5 \in fcmp(x, y) <=> x <= y
        /\ 6 \in fcmp(x, y) <=> x < y
        /\ 7 \in fcmp(x, y) <=> x >= y
    BY <1>7, <2>1 DEF fcmp, C_EQ, C_NE, C_GT, C_LE, C_LT, C_GE
  <2> DEFINE E == \E rel \in Relations : bit = ConditionBit[rel] /\ Holds(rel, x, y, x, y)
  <2>3. bit \in fcmp(x, y) <=> bit = 1 \/ E
    <3>1. /\ Holds("eq", x, y, x, y) <=> x = y
          /\ Holds("ne", x, y, x, y) <=> x # y
          /\ Holds("gt", x, y, x, y) <=> x > y
          /\ Holds("le", x, y, x, y) <=> x <= y
          /\ Holds("lt", x, y, x, y) <=> x < y
          /\ Holds("ge", x, y, x, y) <=> x >= y
      BY Relates
    <3>2. \A rel \in Relations :
            /\ ConditionBit[rel] = 2 <=> rel = "eq"
            /\ ConditionBit[rel] = 3 <=> rel = "ne"
            /\ ConditionBit[rel] = 4 <=> rel = "gt"
            /\ ConditionBit[rel] = 5 <=> rel = "le"
            /\ ConditionBit[rel] = 6 <=> rel = "lt"
            /\ ConditionBit[rel] = 7 <=> rel = "ge"
            /\ ConditionBit[rel] # 0 /\ ConditionBit[rel] # 1
      BY ConditionBits DEF Relations
    <3>3. {"eq", "ne", "gt", "le", "lt", "ge"} \subseteq Relations
      BY DEF Relations
    <3>4. bit \in {0, 1, 2, 3, 4, 5, 6, 7}
      BY <1>3
    <3> HIDE DEF Holds, fcmp
    <3> QED
      BY <2>2, <3>1, <3>2, <3>3, <3>4
  <2> HIDE DEF E
  <2>4. status = "taken" <=> bit = 1 \/ E
    BY <1>4, <2>1, <2>3
  <2> QED
    BY <1>3, <1>7, <2>1, <2>4 DEF FloatBranchesCompare, E
<1> QED
  BY <1>6, <1>7

(* BranchesMeanRelations: for words of any width, a branch or trap on the    *)
(* bit a comparison sets is taken just when the operands, signed for gt, le, *)
(* lt and ge and unsigned for hi, ls, lo and hs, are in that relation; bcnd  *)
(* and tcnd when the operand is in it with zero; and after fcmp no relation  *)
(* holds of a NaN (do_cmp and cond_true, cpu.c:776-804; 1494-1513).          *)
THEOREM BranchesAlwaysMeanRelations == Spec => []BranchesMeanRelations
<1>1. Spec => []Typed
  BY InitTyped, StepTyped, PTL DEF Spec
<1>2. Spec => []CompareRuns
  BY <1>1, CompareRun, PTL DEF Spec
<1>3. Spec => []ZeroRuns
  BY <1>1, ZeroRun, PTL DEF Spec
<1>4. Spec => []FloatRuns
  BY <1>1, FloatRun, PTL DEF Spec
<1>5. Typed /\ CompareRuns /\ ZeroRuns /\ FloatRuns => BranchesMeanRelations
  BY IntegersCompared, FloatsCompared DEF BranchesMeanRelations
<1> QED
  BY <1>1, <1>2, <1>3, <1>4, <1>5, PTL

(***************************************************************************)
(* Dividing                                                                *)
(***************************************************************************)

(* All bits up to n are one less than the next power of two.               *)
LEMMA SumOfAll ==
  ASSUME NEW w \in Nats, NEW m \in Nat, \A i \in 0 .. m - 1 : i \in w
  PROVE  Sum[m][w] = Two[m] - 1
<1> DEFINE S == {n \in Nat : n <= m => Sum[n][w] = Two[n] - 1}
<1>1. 0 \in S
  BY SumType, TwoType
<1>2. ASSUME NEW n \in Nat, n \in S PROVE n + 1 \in S
  <2>1. Sum[n + 1][w] = Sum[n][w] + IF n \in w THEN Two[n] ELSE 0
    BY SumType
  <2>2. Two[n + 1] = 2 * Two[n] /\ Two[n] \in Nat
    BY TwoType
  <2> QED
    BY <1>2, <2>1, <2>2
<1>3. \A n \in Nat : n \in S
  <2> HIDE DEF S
  <2> QED
    BY <1>1, <1>2, Induction
<1> QED
  BY <1>3

(* The bits a word has not make up, with those it has, the largest number. *)
LEMMA Complement ==
  ASSUME NEW w \in Word
  PROVE  Bits \ w \in Word /\ Number[Bits \ w] = Two[W] - 1 - Number[w]
<1>1. Bits \ w \in Word /\ (Bits \ w) \cap w = {} /\ (Bits \ w) \cup w = Bits /\ Bits \in Word
  BY DEF Word
<1>2. PICK v \in Word : v = Bits \ w
  BY <1>1
<1>3. Sum[W][v \cup w] = Sum[W][v] + Sum[W][w]
  <2>1. v \in Nats /\ w \in Nats /\ v \cap w = {}
    BY <1>1, <1>2, WordIn
  <2> QED
    BY <2>1, Widths, SumOfBoth
<1>4. Sum[W][Bits] = Two[W] - 1
  <2>1. Bits \in Nats /\ \A i \in 0 .. W - 1 : i \in Bits
    BY <1>1, WordIn DEF Bits
  <2> QED
    BY <2>1, Widths, SumOfAll
<1>5. Number[v] = Sum[W][v] /\ Number[w] = Sum[W][w] /\ Number[v] \in Nat /\ Number[w] \in Nat
  BY WordIn
<1>6. Number[v] = Two[W] - 1 - Number[w]
  <2>1. Sum[W][v \cup w] = Sum[W][Bits]
    BY <1>1, <1>2
  <2>2. PICK x \in Nat, y \in Nat, t \in Nat : x = Number[v] /\ y = Number[w] /\ t = Two[W]
    BY <1>5, Halved
  <2>3. t - 1 = x + y
    BY <1>3, <1>4, <1>5, <2>1, <2>2
  <2> QED
    BY <2>2, <2>3
<1> QED
  BY <1>1, <1>2, <1>6

LEMMA Limits ==
  /\ Number[Least] = Two[W - 1] /\ Signed(Least) = -Two[W - 1]
  /\ Number[Bits] = Two[W] - 1 /\ Signed(Bits) = -1
  /\ Number[{}] = 0
  /\ \A w \in Word : Number[w] = 0 <=> w = {}
<1>1. Least \in Word /\ Bits \in Word /\ {} \in Word
  BY WordOfIn
<1>2. Number[{}] = 0
  <2>1. \A i \in 0 .. W - 1 : i \notin {}
    OBVIOUS
  <2>2. {} \in Nats /\ Number[{}] = Sum[W][{}]
    BY <1>1, WordIn
  <2> QED
    BY <2>1, <2>2, Widths, SumOfNone
<1>3. Number[Bits] = Two[W] - 1
  <2>1. Number[Bits \ {}] = Two[W] - 1 - Number[{}]
    BY <1>1, Complement
  <2>2. Bits \ {} = Bits
    OBVIOUS
  <2> QED
    BY <1>2, <2>1, <2>2, Halved
<1>4. Number[Least] = Two[W - 1]
  <2>1. Least \in Nats /\ Number[Least] = Sum[W][Least]
    BY <1>1, WordIn
  <2>2. \A i \in 0 .. (W - 1) - 1 : i \notin Least
    BY Widths DEF Least
  <2>3. Sum[W - 1][Least] = 0
    BY <2>1, <2>2, Halved, SumOfNone
  <2>4. Sum[(W - 1) + 1][Least] = Sum[W - 1][Least] + IF W - 1 \in Least THEN Two[W - 1] ELSE 0
    BY <2>1, Halved, SumType
  <2>5. (W - 1) + 1 = W /\ W - 1 \in Least
    BY Widths DEF Least
  <2> QED
    BY <2>1, <2>3, <2>4, <2>5, Halved
<1>5. \A w \in Word : Number[w] = 0 <=> w = {}
  BY <1>1, <1>2, NumberSame
<1> QED
  BY <1>1, <1>2, <1>3, <1>4, <1>5, SignedIs, Halved

LEMMA QuotientIs ==
  ASSUME NEW a \in Int, NEW d \in Int, d # 0
  PROVE  /\ Quotient(a, d) \in Int
         /\ \E e \in Int :
              /\ a = Quotient(a, d) * d + e
              /\ (IF e < 0 THEN -e ELSE e) < (IF d < 0 THEN -d ELSE d)
              /\ e = 0 \/ (e < 0 <=> a < 0)
<1>1. PICK x \in Nat, y \in Nat :
        /\ a >= 0 => x = a
        /\ a < 0 => x = -a
        /\ d > 0 => y = d
        /\ d < 0 => y = -d
        /\ y >= 1
  <2>1. PICK x \in Nat : (a >= 0 => x = a) /\ (a < 0 => x = -a)
    <3>1. CASE a >= 0
      BY <3>1
    <3>2. CASE a < 0
      <4>1. -a \in Nat
        BY <3>2
      <4> QED
        BY <3>2, <4>1
    <3> QED
      BY <3>1, <3>2
  <2>2. PICK y \in Nat : (d > 0 => y = d) /\ (d < 0 => y = -d) /\ y >= 1
    <3>1. CASE d > 0
      BY <3>1
    <3>2. CASE d < 0
      <4>1. -d \in Nat /\ -d >= 1
        BY <3>2
      <4> QED
        BY <3>2, <4>1
    <3> QED
      BY <3>1, <3>2
  <2> QED
    BY <2>1, <2>2
<1>2. PICK p \in Int, s \in 0 .. y - 1 : p = x \div y /\ s = x % y /\ x = y * p + s
  <2>1. x \in Int /\ y \in Nat /\ y >= 1
    BY <1>1
  <2>2. x \div y \in Int /\ x % y \in 0 .. y - 1 /\ x = y * (x \div y) + (x % y)
    BY <2>1, Divided
  <2> QED
    BY <2>2
<1>3. CASE a >= 0 /\ d > 0
  <2>1. Quotient(a, d) = p /\ x = a /\ y = d
    BY <1>1, <1>2, <1>3 DEF Quotient
  <2>2. a = p * d + s /\ s \in Int
    BY <1>2, <2>1
  <2>3. (IF s < 0 THEN -s ELSE s) < (IF d < 0 THEN -d ELSE d) /\ (s = 0 \/ (s < 0 <=> a < 0))
    BY <1>2, <1>3, <2>1
  <2> QED
    BY <2>1, <2>2, <2>3
<1>4. CASE a >= 0 /\ d < 0
  <2>1. Quotient(a, d) = -p /\ x = a /\ y = -d
    BY <1>1, <1>2, <1>4 DEF Quotient
  <2>2. a = (-p) * d + s /\ s \in Int /\ -p \in Int
    <3>1. PICK g \in Int : g = p * d
      OBVIOUS
    <3>2. (-d) * p = -g
      BY <3>1
    <3>3. (-p) * d = -g
      BY <3>1
    <3>4. a = -g + s
      BY <1>2, <2>1, <3>2
    <3> QED
      BY <3>3, <3>4
  <2>3. (IF s < 0 THEN -s ELSE s) < (IF d < 0 THEN -d ELSE d) /\ (s = 0 \/ (s < 0 <=> a < 0))
    BY <1>2, <1>4, <2>1
  <2> QED
    BY <2>1, <2>2, <2>3
<1>5. CASE a < 0 /\ d > 0
  <2>1. Quotient(a, d) = -p /\ x = -a /\ y = d
    BY <1>1, <1>2, <1>5 DEF Quotient
  <2>2. PICK e \in Int : e = -s
    OBVIOUS
  <2>3. a = (-p) * d + e /\ -p \in Int
    BY <1>2, <2>1, <2>2
  <2>4. (IF e < 0 THEN -e ELSE e) < (IF d < 0 THEN -d ELSE d) /\ (e = 0 \/ (e < 0 <=> a < 0))
    BY <1>2, <1>5, <2>1, <2>2
  <2> QED
    BY <2>1, <2>3, <2>4
<1>6. CASE a < 0 /\ d < 0
  <2>1. Quotient(a, d) = p /\ x = -a /\ y = -d
    BY <1>1, <1>2, <1>6 DEF Quotient
  <2>2. PICK e \in Int : e = -s
    OBVIOUS
  <2>3. a = p * d + e
    <3>1. PICK g \in Int : g = p * d
      OBVIOUS
    <3>2. (-d) * p = -g
      BY <3>1
    <3>3. -a = -g + s
      BY <1>2, <2>1, <3>2
    <3> QED
      BY <2>2, <3>1, <3>3
  <2>4. (IF e < 0 THEN -e ELSE e) < (IF d < 0 THEN -d ELSE d) /\ (e = 0 \/ (e < 0 <=> a < 0))
    BY <1>2, <1>6, <2>1, <2>2
  <2> QED
    BY <2>1, <2>3, <2>4
<1> QED
  BY <1>3, <1>4, <1>5, <1>6

(* Numbers that are the same modulo the word's size.                       *)
Alike(x, y) == \E k \in Int : x = y + Two[W] * k

LEMMA AlikeSame ==
  ASSUME NEW x \in Int
  PROVE  Alike(x, x) /\ Alike(x % Two[W], x)
<1>1. PICK m \in Nat : m = Two[W] /\ m >= 1
  BY Halved
<1>2. Alike(x, x)
  <2>1. PICK k \in Int : k = 0
    OBVIOUS
  <2>2. x = x + m * k
    BY <2>1
  <2> QED
    BY <1>1, <2>2 DEF Alike
<1>3. PICK k \in Int : x % m = x + m * k
  BY <1>1, RestOf
<1> QED
  BY <1>1, <1>2, <1>3 DEF Alike

LEMMA AlikeBoth ==
  ASSUME NEW x \in Int, NEW y \in Int, NEW a \in Int, NEW b \in Int, Alike(x, a), Alike(y, b)
  PROVE  Alike(x + y, a + b) /\ Alike(x - y, a - b) /\ Alike(x * y, a * b)
<1>1. PICK m \in Nat : m = Two[W]
  BY Halved
<1>2. PICK i \in Int : x = a + m * i
  BY <1>1 DEF Alike
<1>3. PICK j \in Int : y = b + m * j
  BY <1>1 DEF Alike
<1>4. Alike(x + y, a + b)
  <2>1. PICK k \in Int : k = i + j
    OBVIOUS
  <2>2. m * k = m * i + m * j
    BY <2>1
  <2>3. x + y = (a + b) + m * k
    BY <1>2, <1>3, <2>2
  <2> QED
    BY <1>1, <2>3 DEF Alike
<1>5. Alike(x - y, a - b)
  <2>1. PICK k \in Int : k = i - j
    OBVIOUS
  <2>2. m * k = m * i - m * j
    BY <2>1
  <2>3. x - y = (a - b) + m * k
    BY <1>2, <1>3, <2>2
  <2> QED
    BY <1>1, <2>3 DEF Alike
<1>6. Alike(x * y, a * b)
  <2>1. x * y = a * y + (m * i) * y
    BY <1>2, Associate
  <2>2. a * y = a * b + m * (a * j)
    <3>1. a * (m * j) = m * (a * j) /\ a * y = a * b + a * (m * j)
      BY <1>3
    <3> QED
      BY <3>1
  <2>3. (m * i) * y = m * (i * y)
    OBVIOUS
  <2>4. PICK k \in Int : k = a * j + i * y
    OBVIOUS
  <2>5. m * k = m * (a * j) + m * (i * y)
    BY <2>4
  <2>6. PICK p \in Int, q \in Int, u \in Int, c \in Int, e \in Int, g \in Int :
          /\ p = x * y /\ q = a * y /\ u = a * b /\ c = m * (a * j) /\ e = m * (i * y) /\ g = m * k
    OBVIOUS
  <2>7. p = u + g
    BY <2>1, <2>2, <2>3, <2>5, <2>6
  <2>8. x * y = a * b + m * k
    BY <2>6, <2>7
  <2> QED
    BY <1>1, <2>8 DEF Alike
<1> QED
  BY <1>4, <1>5, <1>6

LEMMA AlikeThen ==
  ASSUME NEW x \in Int, NEW y \in Int, NEW z \in Int, Alike(x, y), Alike(y, z)
  PROVE  Alike(x, z)
<1>1. PICK m \in Nat : m = Two[W]
  BY Halved
<1>2. PICK i \in Int : x = y + m * i
  BY <1>1 DEF Alike
<1>3. PICK j \in Int : y = z + m * j
  BY <1>1 DEF Alike
<1>4. PICK k \in Int : k = i + j
  OBVIOUS
<1>5. m * k = m * i + m * j
  BY <1>4
<1>6. x = z + m * k
  BY <1>2, <1>3, <1>5
<1> QED
  BY <1>1, <1>6 DEF Alike

LEMMA AlikeOnly ==
  ASSUME NEW x \in 0 .. Two[W] - 1, NEW y \in 0 .. Two[W] - 1, Alike(x, y)
  PROVE  x = y
<1>1. PICK m \in Nat : m = Two[W] /\ m >= 1
  BY Halved
<1>2. PICK k \in Int : x = y + m * k
  BY <1>1 DEF Alike
<1>3. x \in 0 .. m - 1 /\ y \in 0 .. m - 1
  BY <1>1
<1>4. ~(k >= 1)
  <2> SUFFICES ASSUME k >= 1 PROVE FALSE
    OBVIOUS
  <2>1. m * k >= m
    BY <1>1
  <2> QED
    BY <1>2, <1>3, <2>1
<1>5. ~(k <= -1)
  <2> SUFFICES ASSUME k <= -1 PROVE FALSE
    OBVIOUS
  <2>1. m * k <= -m
    BY <1>1
  <2> QED
    BY <1>2, <1>3, <2>1
<1>6. k = 0
  BY <1>4, <1>5
<1> QED
  BY <1>2, <1>3, <1>6

LEMMA WordAlike ==
  /\ \A w \in Word : Signed(w) \in Int /\ Number[w] \in Int /\ Alike(Number[w], Signed(w))
  /\ \A x \in Int : WordOf(x) \in Word /\ Number[WordOf(x)] \in Int /\ Alike(Number[WordOf(x)], x)
<1>1. ASSUME NEW w \in Word
      PROVE  Signed(w) \in Int /\ Number[w] \in Int /\ Alike(Number[w], Signed(w))
  BY SignedNumber, WordIn DEF Alike
<1>2. ASSUME NEW x \in Int
      PROVE  WordOf(x) \in Word /\ Number[WordOf(x)] \in Int /\ Alike(Number[WordOf(x)], x)
  BY NumberOfWord, AlikeSame, WordIn
<1> QED
  BY <1>1, <1>2

LEMMA AlikeSigned ==
  ASSUME NEW w \in Word, NEW n \in -Two[W - 1] .. Two[W - 1] - 1, Alike(Number[w], n)
  PROVE  Signed(w) = n
  BY SignedOf DEF Alike

Divides(w) ==
  LET a == r[2]
      b == r[3]
  IN IF prog[1].op = "divu" THEN w = WordOf(Number[a] \div Number[b])
     ELSE IF a = Least /\ b = Bits THEN w = Least
     ELSE w = WordOf(Quotient(Signed(a), Signed(b)))

DivideRuns ==
  prog \in DivideAndRest =>
    \/ at = 1 /\ status = "running" /\ r[4] = {}
    \/ at = 1 /\ status = "divide" /\ r[3] = {} /\ r[4] = {}
    \/ at = 1 /\ status = "stopped" /\ r[2] = Least /\ r[3] = Bits
    \/ /\ status = "running" /\ r[3] # {} /\ Divides(r[4])
       /\ \/ at = 2
          \/ at = 3 /\ r[5] = WordOf(Number[r[4]] * Number[r[3]])
          \/ at = 4 /\ r[5] = WordOf(Number[r[2]] - Number[WordOf(Number[r[4]] * Number[r[3]])])

LEMMA DivideRun ==
  /\ Init => DivideRuns
  /\ Typed /\ DivideRuns /\ [Next]_vars => DivideRuns'
<1>1. Init => DivideRuns
  BY DEF Init, DivideRuns
<1>2. DivideRuns /\ UNCHANGED vars => DivideRuns'
  BY DEF DivideRuns, vars, Divides, Signed
<1>3. ASSUME Typed, DivideRuns, Next PROVE DivideRuns'
  <2> SUFFICES ASSUME prog \in DivideAndRest PROVE DivideRuns'
    BY <1>3, Steps DEF DivideRuns
  <2>1. /\ Performed /\ prog' = prog /\ status = "running" /\ ins = prog[at]
        /\ at \in 1 .. Len(prog) /\ r \in Registers
    BY <1>3, Steps
  <2>2. /\ Len(prog) = 3 /\ prog[1].op \in {"div", "divu"} /\ prog[1].d = 4 /\ prog[1].a = 2
        /\ prog[1].form = "reg" /\ prog[1].n = 3
    BY DEF DivideAndRest, Reg
  <2>3. /\ prog[2].op = "mul" /\ prog[2].d = 5 /\ prog[2].a = 4
        /\ prog[2].form = "reg" /\ prog[2].n = 3
        /\ prog[3].op = "sub" /\ prog[3].d = 5 /\ prog[3].a = 2
        /\ prog[3].form = "reg" /\ prog[3].n = 5
    BY DEF DivideAndRest, Reg
  <2>4. CASE at = 1
    <3>1. ins = prog[1] /\ ins.op \in {"div", "divu"} /\ Second = r[3] /\ ins.d = 4 /\ ins.a = 2
      BY <2>1, <2>2, <2>4 DEF Second
    <3>2. Overflows <=> prog[1].op = "div" /\ r[2] = Least /\ r[3] = Bits
      BY <3>1 DEF Overflows
    <3>3. \/ r[3] = {} /\ Leave("divide")
          \/ r[2] = Least /\ r[3] = Bits /\ prog[1].op = "div" /\ (Leave("stopped") \/ Puts(Least))
          \/ /\ r[3] # {} /\ ~Overflows
             /\ Puts(WordOf(IF prog[1].op = "divu" THEN Number[r[2]] \div Number[r[3]]
                            ELSE Quotient(Signed(r[2]), Signed(r[3]))))
      BY <2>1, <3>1, <3>2 DEF Performed
    <3>4. r[4] = {}
      BY <1>3, <2>1, <2>4 DEF DivideRuns
    <3>5. CASE r[3] = {} /\ Leave("divide")
      BY <2>4, <3>4, <3>5 DEF DivideRuns, Leave
    <3>6. CASE r[2] = Least /\ r[3] = Bits /\ Leave("stopped")
      BY <2>4, <3>6 DEF DivideRuns, Leave
    <3>7. ASSUME NEW w, Puts(w), r[3] # {}, Divides(w) PROVE DivideRuns'
      <4>1. /\ r'[4] = w /\ r'[2] = r[2] /\ r'[3] = r[3] /\ at' = 2 /\ status' = "running"
        BY <2>1, <2>4, <3>1, <3>7, PutsOne
      <4>2. Divides(r[4])'
        BY <2>1, <3>7, <4>1 DEF Divides, Signed
      <4> QED
        BY <3>7, <4>1, <4>2 DEF DivideRuns
    <3>8. CASE r[2] = Least /\ r[3] = Bits /\ prog[1].op = "div" /\ Puts(Least)
      <4>1. W - 1 \in r[3]
        BY <3>8, Widths DEF Bits
      <4> QED
        BY <3>7, <3>8, <4>1 DEF Divides
    <3>9. CASE /\ r[3] # {} /\ ~Overflows
               /\ Puts(WordOf(IF prog[1].op = "divu" THEN Number[r[2]] \div Number[r[3]]
                              ELSE Quotient(Signed(r[2]), Signed(r[3]))))
      BY <2>2, <3>2, <3>7, <3>9 DEF Divides
    <3> QED
      BY <3>3, <3>5, <3>6, <3>8, <3>9
  <2>5. CASE at = 2
    <3>1. r[3] # {} /\ Divides(r[4])
      BY <1>3, <2>5 DEF DivideRuns
    <3>2. Puts(WordOf(Number[r[4]] * Number[r[3]])) /\ ins.d = 5
      BY <2>1, <2>3, <2>5 DEF Performed, ArithmeticResult, Second
    <3>3. /\ r'[5] = WordOf(Number[r[4]] * Number[r[3]]) /\ r'[2] = r[2] /\ r'[3] = r[3]
          /\ r'[4] = r[4] /\ at' = 3 /\ status' = "running"
      BY <2>1, <2>5, <3>2, PutsOne
    <3>4. Divides(r[4])'
      BY <2>1, <3>1, <3>3 DEF Divides, Signed
    <3> QED
      BY <3>1, <3>3, <3>4 DEF DivideRuns
  <2>6. CASE at = 3
    <3>1. r[3] # {} /\ Divides(r[4]) /\ r[5] = WordOf(Number[r[4]] * Number[r[3]])
      BY <1>3, <2>6 DEF DivideRuns
    <3>2. Puts(WordOf(Number[r[2]] - Number[r[5]])) /\ ins.d = 5
      BY <2>1, <2>3, <2>6 DEF Performed, ArithmeticResult, Second
    <3>3. /\ r'[5] = WordOf(Number[r[2]] - Number[r[5]]) /\ r'[2] = r[2] /\ r'[3] = r[3]
          /\ r'[4] = r[4] /\ at' = 4 /\ status' = "running"
      BY <2>1, <2>6, <3>2, PutsOne
    <3>4. Divides(r[4])'
      BY <2>1, <3>1, <3>3 DEF Divides, Signed
    <3> QED
      BY <3>1, <3>3, <3>4 DEF DivideRuns
  <2> QED
    BY <2>1, <2>2, <2>4, <2>5, <2>6
<1> QED
  BY <1>1, <1>2, <1>3

(* What is left, modulo the word's size, for any numbers the dividend, the *)
(* divisor and the quotient are like.                                      *)
LEMMA RestAlike ==
  ASSUME NEW x \in Word, NEW y \in Word, NEW z \in Word,
         NEW a \in Int, NEW d \in Int, NEW q \in Int,
         Alike(Number[x], a), Alike(Number[y], d), Alike(Number[z], q),
         NEW s, s = WordOf(Number[x] - Number[WordOf(Number[z] * Number[y])])
  PROVE  s \in Word /\ Number[s] \in Int /\ Alike(Number[s], a - q * d)
<1>1. PICK nx \in Int, ny \in Int, nz \in Int : nx = Number[x] /\ ny = Number[y] /\ nz = Number[z]
  BY WordIn
<1>2. PICK p \in Int, u \in Int : p = nz * ny /\ u = q * d
  OBVIOUS
<1>3. Alike(p, u)
  BY <1>1, <1>2, AlikeBoth
<1>4. PICK t \in Int : t = Number[WordOf(p)] /\ Alike(t, p)
  BY WordAlike
<1>5. Alike(t, u)
  BY <1>3, <1>4, AlikeThen
<1>6. Alike(nx - t, a - u)
  BY <1>1, <1>5, AlikeBoth
<1>7. nx - t \in Int /\ a - u \in Int
  OBVIOUS
<1>8. s = WordOf(nx - t)
  BY <1>1, <1>2, <1>4
<1>9. s \in Word /\ Number[s] \in Int /\ Alike(Number[s], nx - t)
  BY <1>7, <1>8, WordAlike
<1>10. Alike(Number[s], a - u)
  BY <1>6, <1>7, <1>9, AlikeThen
<1> QED
  BY <1>2, <1>9, <1>10

(* Every quotient, the one that does not fit as well, is kept modulo the   *)
(* word's size.                                                            *)
LEMMA QuotientAlike ==
  ASSUME NEW w \in Word, r[2] \in Word, r[3] \in Word, r[3] # {}, Divides(w),
         prog[1].op = "div"
  PROVE  /\ Signed(r[3]) # 0 /\ Quotient(Signed(r[2]), Signed(r[3])) \in Int
         /\ Alike(Number[w], Quotient(Signed(r[2]), Signed(r[3])))
<1>1. PICK a \in Int, d \in Int : a = Signed(r[2]) /\ d = Signed(r[3]) /\ d # 0
  <2>1. Signed({}) = 0
    BY Limits, SignedIs, WordOfIn, Halved
  <2>2. Signed(r[3]) # 0 /\ Signed(r[2]) \in Int /\ Signed(r[3]) \in Int
    BY <2>1, SignedNumber, SignedSame, WordOfIn
  <2> QED
    BY <2>2
<1>2. Quotient(a, d) \in Int
  BY <1>1, QuotientIs
<1>3. CASE r[2] = Least /\ r[3] = Bits
  <2>1. w = Least
    BY <1>3 DEF Divides
  <2>2. PICK h \in Nat : h = Two[W - 1] /\ h >= 1 /\ a = -h /\ d = -1 /\ Number[w] = h
    BY <1>1, <1>3, <2>1, Limits, Halved
  <2>3. Quotient(-h, -1) = h
    <3>1. h \div 1 = h
      OBVIOUS
    <3> QED
      BY <2>2, <3>1 DEF Quotient
  <2>4. Alike(Number[w], Quotient(a, d))
    BY <2>2, <2>3, AlikeSame
  <2> QED
    BY <1>1, <1>2, <2>4
<1>4. CASE ~(r[2] = Least /\ r[3] = Bits)
  <2>1. w = WordOf(Quotient(a, d))
    BY <1>1, <1>4 DEF Divides
  <2> QED
    BY <1>1, <1>2, <2>1, WordAlike
<1> QED
  BY <1>3, <1>4

LEMMA SignedRest ==
  ASSUME NEW w \in Word, NEW s \in Word, r[2] \in Word, r[3] \in Word, r[3] # {}, Divides(w),
         prog[1].op = "div",
         s = WordOf(Number[r[2]] - Number[WordOf(Number[w] * Number[r[3]])])
  PROVE  LET abs(n) == IF n < 0 THEN -n ELSE n
         IN /\ abs(Signed(s)) < abs(Signed(r[3]))
            /\ Signed(s) = 0 \/ (Signed(s) < 0 <=> Signed(r[2]) < 0)
<1>0. PICK a \in Int, d \in Int : a = Signed(r[2]) /\ d = Signed(r[3])
  BY SignedNumber
<1>1. d # 0 /\ Quotient(a, d) \in Int /\ Alike(Number[w], Quotient(a, d))
  BY <1>0, QuotientAlike
<1>2. PICK q \in Int : q = Quotient(a, d)
  BY <1>1
<1>3. Alike(Number[r[2]], a) /\ Alike(Number[r[3]], d) /\ Alike(Number[w], q)
  BY <1>0, <1>1, <1>2, WordAlike
<1>4. Alike(Number[s], a - q * d)
  BY <1>3, RestAlike
<1>5. PICK e \in Int : /\ a = q * d + e
                       /\ (IF e < 0 THEN -e ELSE e) < (IF d < 0 THEN -d ELSE d)
                       /\ e = 0 \/ (e < 0 <=> a < 0)
  BY <1>1, <1>2, QuotientIs
<1>6. a - q * d = e
  <2>1. PICK g \in Int : g = q * d
    OBVIOUS
  <2> QED
    BY <1>5, <2>1
<1>7. e \in -Two[W - 1] .. Two[W - 1] - 1
  <2>1. d \in -Two[W - 1] .. Two[W - 1] - 1 /\ Two[W - 1] \in Nat
    BY <1>0, SignedIs, Halved
  <2> QED
    BY <1>5, <2>1
<1>8. Signed(s) = e
  BY <1>4, <1>6, <1>7, AlikeSigned
<1> QED
  BY <1>0, <1>5, <1>8

LEMMA UnsignedRest ==
  ASSUME NEW w \in Word, NEW s \in Word, r[2] \in Word, r[3] \in Word, r[3] # {}, Divides(w),
         prog[1].op = "divu",
         s = WordOf(Number[r[2]] - Number[WordOf(Number[w] * Number[r[3]])])
  PROVE  Number[s] \in Nat /\ Number[s] < Number[r[3]]
<1>1. PICK m \in Nat, x \in Nat, y \in Nat :
        /\ m = Two[W] /\ x = Number[r[2]] /\ y = Number[r[3]] /\ y >= 1 /\ y < m
  <2>1. /\ Number[r[2]] \in Nat /\ Number[r[3]] \in 0 .. Two[W] - 1
        /\ Two[W] \in Nat /\ Number[r[3]] # 0
    BY WordIn, Halved, Limits
  <2> QED
    BY <2>1
<1>2. PICK q \in Int, e \in 0 .. y - 1 : q = x \div y /\ e = x % y /\ x = y * q + e
  <2>1. x \in Int /\ y \in Nat /\ y >= 1
    BY <1>1
  <2>2. x \div y \in Int /\ x % y \in 0 .. y - 1 /\ x = y * (x \div y) + (x % y)
    BY <2>1, Divided, Zenon
  <2> QED
    BY <2>2, Zenon
<1>3. w = WordOf(q)
  <2>1. w = WordOf(Number[r[2]] \div Number[r[3]])
    BY Zenon DEF Divides
  <2> QED
    BY <1>1, <1>2, <2>1, Zenon
<1>4. Alike(Number[r[2]], x) /\ Alike(Number[r[3]], y) /\ Alike(Number[w], q)
  <2>1. Alike(x, x) /\ Alike(y, y)
    BY AlikeSame
  <2>2. q \in Int
    OBVIOUS
  <2>3. Alike(Number[w], q)
    BY <1>3, <2>2, WordAlike
  <2> QED
    BY <1>1, <2>1, <2>3
<1>5. Alike(Number[s], x - q * y)
  <2>1. x \in Int /\ y \in Int /\ q \in Int
    OBVIOUS
  <2> QED
    BY <1>4, <2>1, RestAlike
<1>6. x - q * y = e
  <2>1. PICK g \in Int : g = q * y /\ y * q = g
    OBVIOUS
  <2> QED
    BY <1>2, <2>1
<1>7. Number[s] \in 0 .. Two[W] - 1 /\ e \in 0 .. Two[W] - 1 /\ Alike(Number[s], e)
  <2>1. Number[s] \in 0 .. Two[W] - 1 /\ Two[W] = m
    BY <1>1, WordIn
  <2>2. e \in 0 .. m - 1
    BY <1>1
  <2> QED
    BY <1>5, <1>6, <2>1, <2>2
<1>8. Number[s] = e
  BY <1>7, AlikeOnly
<1> QED
  BY <1>1, <1>8

(* The quotient times the divisor and the rest are the dividend.           *)
LEMMA AddsUp ==
  ASSUME NEW x \in Word, NEW y \in Word, NEW z \in Word, NEW s \in Word,
         s = WordOf(Number[x] - Number[WordOf(Number[z] * Number[y])])
  PROVE  (Number[z] * Number[y] + Number[s]) % Two[W] = Number[x]
<1>1. PICK m \in Nat, nx \in Nat, ny \in Int, nz \in Int, ns \in Int :
        /\ m = Two[W] /\ m >= 1 /\ nx = Number[x] /\ ny = Number[y] /\ nz = Number[z]
        /\ ns = Number[s] /\ nx < m
  <2>1. /\ Number[x] \in 0 .. Two[W] - 1 /\ Number[y] \in Int /\ Number[z] \in Int
        /\ Number[s] \in Int /\ Two[W] \in Nat /\ Two[W] >= 1
    BY WordIn, Halved
  <2> QED
    BY <2>1
<1>2. Alike(Number[x], nx) /\ Alike(Number[y], ny) /\ Alike(Number[z], nz)
  BY <1>1, AlikeSame
<1>3. Alike(ns, nx - nz * ny)
  <2>1. nx \in Int /\ ny \in Int /\ nz \in Int
    OBVIOUS
  <2>2. Alike(Number[s], nx - nz * ny)
    BY <1>2, <2>1, RestAlike
  <2> QED
    BY <1>1, <2>2
<1>4. PICK p \in Int : p = nz * ny
  OBVIOUS
<1>5. Alike(p, p) /\ nx - p \in Int /\ p + ns \in Int
  BY AlikeSame
<1>6. Alike(p + ns, p + (nx - p))
  BY <1>3, <1>4, <1>5, AlikeBoth
<1>7. Alike((p + ns) % m, p + ns) /\ (p + ns) % m \in 0 .. m - 1
  BY <1>1, <1>5, AlikeSame, Divided
<1>8. p + (nx - p) = nx
  OBVIOUS
<1>9. Alike((p + ns) % m, nx)
  <2>1. (p + ns) % m \in Int
    BY <1>7
  <2> QED
    BY <1>5, <1>6, <1>7, <1>8, <2>1, AlikeThen
<1>10. (p + ns) % m = nx
  <2>1. (p + ns) % m \in 0 .. Two[W] - 1 /\ nx \in 0 .. Two[W] - 1
    BY <1>1, <1>7
  <2> QED
    BY <1>9, <2>1, AlikeOnly
<1> QED
  BY <1>1, <1>4, <1>10

LEMMA DividesRight ==
  Typed /\ DivideRuns => QuotientAndRest
<1> SUFFICES ASSUME Typed, DivideRuns, prog \in DivideAndRest, Done PROVE QuotientAndRest
  BY DEF QuotientAndRest, Ran
<1>1. at = 4 \/ status # "running"
  <2>1. Len(prog) = 3
    BY Sorts
  <2> QED
    BY <2>1, Held
<1>2. r[2] \in Word /\ r[3] \in Word /\ r[4] \in Word /\ r[5] \in Word
  BY Held
<1>3. prog[1].op \in {"div", "divu"}
  BY Sorts
<1>4. CASE status = "divide" /\ r[3] = {} /\ r[4] = {}
  BY <1>4 DEF QuotientAndRest
<1>5. CASE status = "stopped" /\ r[2] = Least /\ r[3] = Bits
  <2>1. r[3] # {}
    BY <1>5, Widths DEF Bits
  <2> QED
    BY <1>5, <2>1 DEF QuotientAndRest
<1>6. CASE /\ status = "running" /\ r[3] # {} /\ Divides(r[4])
           /\ r[5] = WordOf(Number[r[2]] - Number[WordOf(Number[r[4]] * Number[r[3]])])
  <2>1. (Number[r[4]] * Number[r[3]] + Number[r[5]]) % Two[W] = Number[r[2]]
    BY <1>2, <1>6, AddsUp
  <2>2. CASE prog[1].op = "div"
    <3>1. LET abs(n) == IF n < 0 THEN -n ELSE n
          IN /\ abs(Signed(r[5])) < abs(Signed(r[3]))
             /\ Signed(r[5]) = 0 \/ (Signed(r[5]) < 0 <=> Signed(r[2]) < 0)
      BY <1>2, <1>6, <2>2, SignedRest
    <3>2. Signed(r[5]) \in Int /\ Signed(r[2]) \in Int /\ Signed(r[3]) \in Int
      BY <1>2, SignedNumber
    <3> QED
      BY <1>6, <2>1, <2>2, <3>1, <3>2 DEF QuotientAndRest
  <2>3. CASE prog[1].op = "divu"
    <3>1. Number[r[5]] \in Nat /\ Number[r[5]] < Number[r[3]]
      BY <1>2, <1>6, <2>3, UnsignedRest
    <3>2. Number[r[2]] \in Nat /\ Number[r[3]] \in Nat
      BY <1>2, WordIn
    <3> QED
      BY <1>6, <2>1, <2>3, <3>1, <3>2 DEF QuotientAndRest
  <2> QED
    BY <1>3, <2>2, <2>3
<1> QED
  BY <1>1, <1>4, <1>5, <1>6 DEF DivideRuns

(***************************************************************************)
(* Converting                                                              *)
(***************************************************************************)

Converts(op, q) ==
  IF op = "trnc" THEN Truncated(q) ELSE {IF q = NaN THEN {} ELSE WordOf(Nearest(q))}

BackRuns ==
  prog \in ToFloatAndBack =>
    \/ at = 1 /\ status = "running"
    \/ at = 2 /\ status = "running" /\ f[4] = 4 * Signed(r[2])
    \/ at = 3 /\ status = "running" /\ r[4] \in Converts(prog[2].op, 4 * Signed(r[2]))

RoundRuns ==
  prog \in RoundFloat =>
    \/ at = 1 /\ status = "running"
    \/ at = 2 /\ status = "running" /\ r[4] \in Converts(prog[1].op, f[2])

LEMMA PutsConverted ==
  ASSUME Performed, ins.op \in Rounders, ins.d = 4, r \in Registers
  PROVE  /\ r'[4] \in Converts(ins.op, f[ins.n]) /\ r'[2] = r[2]
         /\ at' = at + 1 /\ status' = status /\ f' = f
<1>1. PICK w \in Conversions : Puts(w)
  BY DEF Performed
<1>2. Conversions = Converts(ins.op, f[ins.n])
  BY DEF Conversions, Converts
<1>3. r'[4] = w /\ r'[2] = r[2] /\ at' = at + 1 /\ status' = status /\ f' = f
  BY <1>1, PutsOne
<1> QED
  BY <1>1, <1>2, <1>3

LEMMA BackRun ==
  /\ Init => BackRuns
  /\ Typed /\ BackRuns /\ [Next]_vars => BackRuns'
<1>1. Init => BackRuns
  BY DEF Init, BackRuns
<1>2. BackRuns /\ UNCHANGED vars => BackRuns'
  BY DEF BackRuns, vars, Signed
<1>3. ASSUME Typed, BackRuns, Next PROVE BackRuns'
  <2> SUFFICES ASSUME prog \in ToFloatAndBack PROVE BackRuns'
    BY <1>3, Steps DEF BackRuns
  <2>1. /\ Performed /\ prog' = prog /\ status = "running" /\ ins = prog[at]
        /\ at \in 1 .. Len(prog) /\ r \in Registers /\ f \in Floating
    BY <1>3, Steps
  <2>2. /\ Len(prog) = 2 /\ prog[1].op = "flt" /\ prog[1].d = 4 /\ prog[1].n = 2
        /\ prog[2].op \in Rounders /\ prog[2].d = 4 /\ prog[2].n = 4
    BY DEF ToFloatAndBack, Rounders
  <2>3. CASE at = 1
    <3>1. f' = [f EXCEPT ![4] = 4 * Signed(r[2])] /\ Onward /\ r' = r
      BY <2>1, <2>2, <2>3 DEF Performed
    <3>2. f'[4] = 4 * Signed(r[2])
      BY <2>1, <3>1 DEF Floating
    <3>3. (4 * Signed(r[2]))' = 4 * Signed(r[2])
      BY <3>1 DEF Signed
    <3> QED
      BY <2>1, <2>3, <3>1, <3>2, <3>3 DEF BackRuns, Onward
  <2>4. CASE at = 2
    <3>1. f[4] = 4 * Signed(r[2])
      BY <1>3, <2>4 DEF BackRuns
    <3>2. ins.op = prog[2].op /\ ins.op \in Rounders /\ ins.d = 4 /\ ins.n = 4
      BY <2>1, <2>2, <2>4
    <3>3. /\ r'[4] \in Converts(prog[2].op, f[4]) /\ r'[2] = r[2]
          /\ at' = at + 1 /\ status' = status
      BY <2>1, <3>2, PutsConverted
    <3>4. (4 * Signed(r[2]))' = 4 * Signed(r[2])
      BY <3>3 DEF Signed
    <3> QED
      BY <2>1, <2>4, <3>1, <3>3, <3>4 DEF BackRuns
  <2> QED
    BY <2>1, <2>2, <2>3, <2>4
<1> QED
  BY <1>1, <1>2, <1>3

LEMMA RoundRun ==
  /\ Init => RoundRuns
  /\ Typed /\ RoundRuns /\ [Next]_vars => RoundRuns'
<1>1. Init => RoundRuns
  BY DEF Init, RoundRuns
<1>2. RoundRuns /\ UNCHANGED vars => RoundRuns'
  BY DEF RoundRuns, vars
<1>3. ASSUME Typed, RoundRuns, Next PROVE RoundRuns'
  <2> SUFFICES ASSUME prog \in RoundFloat PROVE RoundRuns'
    BY <1>3, Steps DEF RoundRuns
  <2>1. /\ Performed /\ prog' = prog /\ status = "running" /\ ins = prog[at]
        /\ at \in 1 .. Len(prog) /\ r \in Registers
    BY <1>3, Steps
  <2>2. Len(prog) = 1 /\ prog[1].op \in Rounders /\ prog[1].d = 4 /\ prog[1].n = 2
    BY DEF RoundFloat, Rounders
  <2>3. at = 1 /\ ins = prog[1]
    BY <2>1, <2>2
  <2>4. /\ r'[4] \in Converts(prog[1].op, f[2])
        /\ at' = at + 1 /\ status' = status /\ f' = f
    BY <2>1, <2>2, <2>3, PutsConverted
  <2> QED
    BY <2>1, <2>3, <2>4 DEF RoundRuns
<1> QED
  BY <1>1, <1>2, <1>3

(* Cutting and rounding a number of quarters.                              *)
LEMMA Cuts ==
  ASSUME NEW q \in Int
  PROVE  LET n == Quotient(q, 4)
             abs(i) == IF i < 0 THEN -i ELSE i
         IN /\ n \in Int /\ abs(4 * n) <= abs(q) /\ abs(q) - abs(4 * n) < 4
            /\ n = 0 \/ (n < 0 <=> q < 0)
<1>1. CASE q >= 0
  <2>1. Quotient(q, 4) = q \div 4
    BY <1>1 DEF Quotient
  <2> QED
    BY <1>1, <2>1
<1>2. CASE q < 0
  <2>1. Quotient(q, 4) = -((-q) \div 4)
    BY <1>2 DEF Quotient
  <2> QED
    BY <1>2, <2>1
<1> QED
  BY <1>1, <1>2

LEMMA Rounds ==
  ASSUME NEW q \in Int
  PROVE  LET n == Nearest(q)
             abs(i) == IF i < 0 THEN -i ELSE i
         IN n \in Int /\ (abs(4 * n - q) < 2 \/ (abs(4 * n - q) = 2 /\ n % 2 = 0))
<1>1. PICK n \in Int, e \in 0 .. 3 : n = (q + 2) \div 4 /\ e = (q + 2) % 4 /\ q + 2 = 4 * n + e
  OBVIOUS
<1>2. CASE e = 0 /\ n % 2 = 1
  <2>1. Nearest(q) = n - 1 /\ (n - 1) % 2 = 0 /\ 4 * (n - 1) - q = -2
    BY <1>1, <1>2 DEF Nearest
  <2> QED
    BY <2>1
<1>3. CASE e = 0 /\ n % 2 # 1
  <2>1. Nearest(q) = n /\ n % 2 = 0 /\ 4 * n - q = 2
    BY <1>1, <1>3 DEF Nearest
  <2> QED
    BY <2>1
<1>4. CASE e # 0
  <2>1. Nearest(q) = n /\ 4 * n - q \in -1 .. 1
    BY <1>1, <1>4 DEF Nearest
  <2> QED
    BY <2>1
<1> QED
  BY <1>2, <1>3, <1>4

LEMMA ComesBack ==
  Typed /\ BackRuns => (Ran(ToFloatAndBack) => r[4] = r[2])
<1> SUFFICES ASSUME Typed, BackRuns, prog \in ToFloatAndBack, Done PROVE r[4] = r[2]
  BY DEF Ran
<1>1. Len(prog) = 2
  BY Sorts
<1>2. r[2] \in Word /\ r[4] \in Word /\ at = 3
  BY <1>1, Held DEF BackRuns
<1>3. PICK s \in Int, h \in Nat, q \in Int :
        /\ s = Signed(r[2]) /\ h = Two[W - 1] /\ s >= -h /\ s < h /\ Two[W + 1] = 4 * h
        /\ q = 4 * s
  <2>1. Signed(r[2]) \in -Two[W - 1] .. Two[W - 1] - 1 /\ Two[W - 1] \in Nat
    BY <1>2, SignedIs, Halved
  <2>2. Two[W + 1] = 4 * Two[W - 1]
    BY Halved
  <2>3. 4 * Signed(r[2]) \in Int
    BY <2>1
  <2> QED
    BY <2>1, <2>2, <2>3
<1>4. r[4] \in Converts(prog[2].op, q)
  BY <1>2, <1>3 DEF BackRuns
<1>5. q # NaN /\ q \in -Two[W + 1] - 3 .. Two[W + 1] - 1
  BY <1>3, FloatsAssumption
<1>6. Quotient(q, 4) = s
  <2>1. PICK n \in Int : n = Quotient(q, 4)
    BY Cuts
  <2>2. LET abs(i) == IF i < 0 THEN -i ELSE i
        IN /\ abs(4 * n) <= abs(q) /\ abs(q) - abs(4 * n) < 4
           /\ n = 0 \/ (n < 0 <=> q < 0)
    BY <2>1, Cuts
  <2>3. q = 4 * s
    BY <1>3
  <2>4. n = s
    BY <2>2, <2>3
  <2> QED
    BY <2>1, <2>4
<1>7. Nearest(q) = s
  <2>1. (q + 2) % 4 = 2 /\ (q + 2) \div 4 = s
    BY <1>3
  <2> QED
    BY <2>1 DEF Nearest
<1>8. r[4] = WordOf(s)
  BY <1>4, <1>5, <1>6, <1>7 DEF Converts, Truncated
<1>9. Signed(WordOf(s)) = s
  BY <1>3, SignedOfWordOf
<1> QED
  BY <1>2, <1>3, <1>8, <1>9, SignedSame

LEMMA RoundsRight ==
  Typed /\ BackRuns /\ RoundRuns => Rounded
<1> SUFFICES ASSUME Typed, BackRuns, RoundRuns PROVE Rounded
  OBVIOUS
<1>1. ASSUME Ran(RoundFloat), f[2] # NaN
      PROVE  LET q == f[2]
                 n == Signed(r[4])
                 abs(i) == IF i < 0 THEN -i ELSE i
             IN abs(q) < Two[W + 1] - 4 =>
                  IF prog[1].op = "trnc"
                    THEN /\ abs(4 * n) <= abs(q) /\ abs(q) - abs(4 * n) < 4
                         /\ n = 0 \/ (n < 0) = (q < 0)
                    ELSE abs(4 * n - q) < 2 \/ (abs(4 * n - q) = 2 /\ n % 2 = 0)
  <2>1. prog \in RoundFloat /\ Done
    BY <1>1 DEF Ran
  <2>2. Len(prog) = 1
    BY <2>1, Sorts
  <2>3. at = 2 /\ r[4] \in Converts(prog[1].op, f[2])
    BY <2>1, <2>2, Held DEF RoundRuns
  <2>4. PICK q \in Int : q = f[2]
    BY <1>1, Held
  <2>5. PICK h \in Nat : h = Two[W - 1] /\ Two[W + 1] = 4 * h /\ h >= 1024
    BY Halved
  <2> SUFFICES ASSUME q < 4 * h - 4, -q < 4 * h - 4
      PROVE  LET n == Signed(r[4])
                 abs(i) == IF i < 0 THEN -i ELSE i
             IN IF prog[1].op = "trnc"
                  THEN /\ abs(4 * n) <= abs(q) /\ abs(q) - abs(4 * n) < 4
                       /\ n = 0 \/ (n < 0) = (q < 0)
                  ELSE abs(4 * n - q) < 2 \/ (abs(4 * n - q) = 2 /\ n % 2 = 0)
    BY <2>4, <2>5
  <2>6. q # NaN /\ q \in -Two[W + 1] - 3 .. Two[W + 1] - 1
    BY <1>1, <2>4, <2>5
  <2>7. CASE prog[1].op = "trnc"
    <3>1. PICK n \in Int : n = Quotient(q, 4)
      BY Cuts
    <3>2. LET abs(i) == IF i < 0 THEN -i ELSE i
          IN /\ abs(4 * n) <= abs(q) /\ abs(q) - abs(4 * n) < 4
             /\ n = 0 \/ (n < 0 <=> q < 0)
      BY <3>1, Cuts
    <3>3. r[4] = WordOf(n)
      BY <2>3, <2>4, <2>6, <2>7, <3>1 DEF Converts, Truncated
    <3>4. n \in -Two[W - 1] .. Two[W - 1] - 1
      BY <2>5, <3>2
    <3>5. Signed(r[4]) = n
      BY <3>3, <3>4, SignedOfWordOf
    <3> QED
      BY <2>7, <3>2, <3>5
  <2>8. CASE prog[1].op # "trnc"
    <3>1. PICK n \in Int : n = Nearest(q)
      BY Rounds
    <3>2. LET abs(i) == IF i < 0 THEN -i ELSE i
          IN abs(4 * n - q) < 2 \/ (abs(4 * n - q) = 2 /\ n % 2 = 0)
      BY <3>1, Rounds
    <3>3. r[4] = WordOf(n)
      BY <2>3, <2>4, <2>6, <2>8, <3>1 DEF Converts
    <3>4. n \in -Two[W - 1] .. Two[W - 1] - 1
      BY <2>5, <3>2
    <3>5. Signed(r[4]) = n
      BY <3>3, <3>4, SignedOfWordOf
    <3> QED
      BY <2>8, <3>2, <3>5
  <2> QED
    BY <2>7, <2>8
<1> QED
  BY <1>1, ComesBack DEF Rounded

(* ArithmeticAgrees: for words of any width and any operands, div and divu   *)
(* leave a quotient that truncates and a rest that mul and sub recover,      *)
(* dividing by zero alone traps, and an integer survives conversion to       *)
(* floating point and back, where trnc truncates and int and nint round to   *)
(* the even one of two (cpu.c:1445-1451, 1486-1492, 1559-1568, 1628).        *)
THEOREM ArithmeticAlwaysAgrees == Spec => []ArithmeticAgrees
<1>1. Spec => []Typed
  BY InitTyped, StepTyped, PTL DEF Spec
<1>2. Spec => []DivideRuns
  BY <1>1, DivideRun, PTL DEF Spec
<1>3. Spec => []BackRuns
  BY <1>1, BackRun, PTL DEF Spec
<1>4. Spec => []RoundRuns
  BY <1>1, RoundRun, PTL DEF Spec
<1>5. Typed /\ DivideRuns /\ BackRuns /\ RoundRuns => ArithmeticAgrees
  BY DividesRight, RoundsRight DEF ArithmeticAgrees, Typed
<1> QED
  BY <1>1, <1>2, <1>3, <1>4, <1>5, PTL

(***************************************************************************)
(* Bit fields                                                              *)
(***************************************************************************)

Mask(w) == IF w = 0 THEN Bits ELSE 0 .. w - 1
Width(w) == IF w = 0 THEN W ELSE w

ReadOf(op, a, w, o) ==
  IF op = "ext" /\ w # 0 THEN SignExtended(Shr(a, o) \cap Mask(w), w) ELSE Shr(a, o) \cap Mask(w)
Cleared(a, w, o) == a \ Shl(Mask(w), o)
Made(a, w, o) == Shl(a \cap Mask(w), o)
Rotated(a, o) == Shr(a, o) \cup Shl(a, W - o)

ReadRuns ==
  prog \in ReadField(Fields) =>
    \/ at = 1 /\ status = "running"
    \/ at = 2 /\ status = "running" /\ r[4] = ReadOf(prog[1].op, r[2], prog[1].w, prog[1].o)

ReplaceRuns ==
  prog \in ReplaceField(Fields) =>
    LET w == prog[1].w
        o == prog[1].o
    IN \/ at = 1 /\ status = "running"
       \/ at = 2 /\ status = "running" /\ r[4] = Cleared(r[2], w, o)
       \/ at = 3 /\ status = "running" /\ r[4] = Cleared(r[2], w, o) /\ r[5] = Made(r[3], w, o)
       \/ at = 4 /\ status = "running" /\ r[4] = Cleared(r[2], w, o) \cup Made(r[3], w, o)

RotateRuns ==
  prog \in Rotate =>
    LET o == prog[1].o
    IN \/ at = 1 /\ status = "running"
       \/ at = 2 /\ status = "running" /\ r[4] = Rotated(r[2], o)
       \/ at = 3 /\ status = "running" /\ r[5] = Rotated(Rotated(r[2], o), (W - o) % W)

(* What each bit-field instruction computes.                               *)
LEMMA FieldResult ==
  ASSUME NEW a, NEW w, NEW o
  PROVE  /\ ins.op \in {"ext", "extu"} => bitfield(a, w, o) = ReadOf(ins.op, a, w, o)
         /\ ins.op = "clr" => bitfield(a, w, o) = Cleared(a, w, o)
         /\ ins.op = "mak" => bitfield(a, w, o) = Made(a, w, o)
         /\ ins.op = "rot" => bitfield(a, w, o) = Rotated(a, o)
<1>1. CASE ins.op = "ext"
  BY <1>1 DEF bitfield, ReadOf, Mask
<1>2. CASE ins.op = "extu"
  BY <1>2 DEF bitfield, ReadOf, Mask
<1>3. CASE ins.op = "clr"
  BY <1>3 DEF bitfield, Cleared, Mask
<1>4. CASE ins.op = "mak"
  BY <1>4 DEF bitfield, Made, Mask
<1>5. CASE ins.op = "rot"
  BY <1>5 DEF bitfield, Rotated
<1> QED
  BY <1>1, <1>2, <1>3, <1>4, <1>5

LEMMA ReadRun ==
  /\ Init => ReadRuns
  /\ Typed /\ ReadRuns /\ [Next]_vars => ReadRuns'
<1>1. Init => ReadRuns
  BY DEF Init, ReadRuns
<1>2. ReadRuns /\ UNCHANGED vars => ReadRuns'
  BY DEF ReadRuns, vars
<1>3. ASSUME Typed, ReadRuns, Next PROVE ReadRuns'
  <2> SUFFICES ASSUME prog \in ReadField(Fields) PROVE ReadRuns'
    BY <1>3, Steps DEF ReadRuns
  <2>1. /\ Performed /\ prog' = prog /\ status = "running" /\ ins = prog[at]
        /\ at \in 1 .. Len(prog) /\ r \in Registers
    BY <1>3, Steps
  <2>2. Len(prog) = 1 /\ prog[1].op \in {"ext", "extu"} /\ prog[1].d = 4 /\ prog[1].a = 2
    BY DEF ReadField, Part
  <2>3. at = 1 /\ ins = prog[1]
    BY <2>1, <2>2
  <2>4. Puts(ReadOf(prog[1].op, r[2], prog[1].w, prog[1].o)) /\ ins.d = 4
    <3>1. Puts(bitfield(r[2], prog[1].w, prog[1].o))
      BY <2>1, <2>2, <2>3 DEF Performed, FieldOps
    <3> QED
      BY <2>2, <2>3, <3>1, FieldResult
  <2>5. /\ r'[4] = ReadOf(prog[1].op, r[2], prog[1].w, prog[1].o) /\ r'[2] = r[2]
        /\ at' = 2 /\ status' = "running"
    BY <2>1, <2>3, <2>4, PutsOne
  <2> QED
    BY <2>1, <2>5 DEF ReadRuns
<1> QED
  BY <1>1, <1>2, <1>3

LEMMA ReplaceRun ==
  /\ Init => ReplaceRuns
  /\ Typed /\ ReplaceRuns /\ [Next]_vars => ReplaceRuns'
<1>1. Init => ReplaceRuns
  BY DEF Init, ReplaceRuns
<1>2. ReplaceRuns /\ UNCHANGED vars => ReplaceRuns'
  BY DEF ReplaceRuns, vars
<1>3. ASSUME Typed, ReplaceRuns, Next PROVE ReplaceRuns'
  <2> SUFFICES ASSUME prog \in ReplaceField(Fields) PROVE ReplaceRuns'
    BY <1>3, Steps DEF ReplaceRuns
  <2>1. /\ Performed /\ prog' = prog /\ status = "running" /\ ins = prog[at]
        /\ at \in 1 .. Len(prog) /\ r \in Registers
    BY <1>3, Steps
  <2>2. PICK w, o : /\ prog[1].w = w /\ prog[1].o = o /\ prog[2].w = w /\ prog[2].o = o
                    /\ Len(prog) = 3 /\ prog[1].op = "clr" /\ prog[1].d = 4 /\ prog[1].a = 2
                    /\ prog[2].op = "mak" /\ prog[2].d = 5 /\ prog[2].a = 3
    BY DEF ReplaceField, Part
  <2>3. /\ prog[3].op = "or" /\ prog[3].d = 4 /\ prog[3].a = 4
        /\ prog[3].form = "reg" /\ prog[3].n = 5
    BY DEF ReplaceField, Part, Reg
  <2>4. CASE at = 1
    <3>1. Puts(Cleared(r[2], w, o)) /\ ins.d = 4
      <4>1. Puts(bitfield(r[2], w, o)) /\ ins.op = "clr" /\ ins.d = 4
        BY <2>1, <2>2, <2>4 DEF Performed, FieldOps
      <4> QED
        BY <4>1, FieldResult
    <3>2. /\ r'[4] = Cleared(r[2], w, o) /\ r'[2] = r[2] /\ at' = 2 /\ status' = "running"
      BY <2>1, <2>4, <3>1, PutsOne
    <3> QED
      BY <2>1, <2>2, <3>2 DEF ReplaceRuns
  <2>5. CASE at = 2
    <3>1. r[4] = Cleared(r[2], w, o)
      BY <1>3, <2>2, <2>5 DEF ReplaceRuns
    <3>2. Puts(Made(r[3], w, o)) /\ ins.d = 5
      <4>1. Puts(bitfield(r[3], w, o)) /\ ins.op = "mak" /\ ins.d = 5
        BY <2>1, <2>2, <2>5 DEF Performed, FieldOps
      <4> QED
        BY <4>1, FieldResult
    <3>3. /\ r'[5] = Made(r[3], w, o) /\ r'[2] = r[2] /\ r'[3] = r[3] /\ r'[4] = r[4]
          /\ at' = 3 /\ status' = "running"
      BY <2>1, <2>5, <3>2, PutsOne
    <3> QED
      BY <2>1, <2>2, <3>1, <3>3 DEF ReplaceRuns
  <2>6. CASE at = 3
    <3>1. r[4] = Cleared(r[2], w, o) /\ r[5] = Made(r[3], w, o)
      BY <1>3, <2>2, <2>6 DEF ReplaceRuns
    <3>2. Puts(r[4] \cup r[5]) /\ ins.d = 4
      BY <2>1, <2>3, <2>6 DEF Performed, LogicalResult, Second
    <3>3. /\ r'[4] = r[4] \cup r[5] /\ r'[2] = r[2] /\ r'[3] = r[3]
          /\ at' = 4 /\ status' = "running"
      BY <2>1, <2>6, <3>2, PutsOne
    <3> QED
      BY <2>1, <2>2, <3>1, <3>3 DEF ReplaceRuns
  <2> QED
    BY <2>1, <2>2, <2>4, <2>5, <2>6
<1> QED
  BY <1>1, <1>2, <1>3

LEMMA RotateRun ==
  /\ Init => RotateRuns
  /\ Typed /\ RotateRuns /\ [Next]_vars => RotateRuns'
<1>1. Init => RotateRuns
  BY DEF Init, RotateRuns
<1>2. RotateRuns /\ UNCHANGED vars => RotateRuns'
  BY DEF RotateRuns, vars
<1>3. ASSUME Typed, RotateRuns, Next PROVE RotateRuns'
  <2> SUFFICES ASSUME prog \in Rotate PROVE RotateRuns'
    BY <1>3, Steps DEF RotateRuns
  <2>1. /\ Performed /\ prog' = prog /\ status = "running" /\ ins = prog[at]
        /\ at \in 1 .. Len(prog) /\ r \in Registers
    BY <1>3, Steps
  <2>2. PICK o \in 0 .. W - 1 :
          /\ prog[1].o = o /\ prog[2].o = (W - o) % W /\ Len(prog) = 2
          /\ prog[1].op = "rot" /\ prog[1].d = 4 /\ prog[1].a = 2
          /\ prog[2].op = "rot" /\ prog[2].d = 5 /\ prog[2].a = 4
    BY DEF Rotate, Part
  <2>3. CASE at = 1
    <3>1. Puts(Rotated(r[2], o)) /\ ins.d = 4
      <4>1. Puts(bitfield(r[2], prog[1].w, o)) /\ ins.op = "rot" /\ ins.d = 4
        BY <2>1, <2>2, <2>3 DEF Performed, FieldOps
      <4> QED
        BY <4>1, FieldResult
    <3>2. r'[4] = Rotated(r[2], o) /\ r'[2] = r[2] /\ at' = 2 /\ status' = "running"
      BY <2>1, <2>3, <3>1, PutsOne
    <3> QED
      BY <2>1, <2>2, <3>2 DEF RotateRuns
  <2>4. CASE at = 2
    <3>1. r[4] = Rotated(r[2], o)
      BY <1>3, <2>2, <2>4 DEF RotateRuns
    <3>2. Puts(Rotated(r[4], (W - o) % W)) /\ ins.d = 5
      <4>1. Puts(bitfield(r[4], prog[2].w, (W - o) % W)) /\ ins.op = "rot" /\ ins.d = 5
        BY <2>1, <2>2, <2>4 DEF Performed, FieldOps
      <4> QED
        BY <4>1, FieldResult
    <3>3. r'[5] = Rotated(r[4], (W - o) % W) /\ r'[2] = r[2] /\ at' = 3 /\ status' = "running"
      BY <2>1, <2>4, <3>2, PutsOne
    <3> QED
      BY <2>1, <2>2, <3>1, <3>3 DEF RotateRuns
  <2> QED
    BY <2>1, <2>2, <2>3, <2>4
<1> QED
  BY <1>1, <1>2, <1>3

LEMMA ShlIn ==
  ASSUME NEW w \in Nats, NEW n \in Nat
  PROVE  /\ Shl(w, n) \in Nats
         /\ \A i \in Nat : i \in Shl(w, n) <=> i < W /\ i >= n /\ i - n \in w
<1>1. Shl(w, n) \in Nats
  BY MovedIn, WordIn
<1>2. ASSUME NEW i \in Nat, i < W, i >= n, i - n \in w PROVE i \in Shl(w, n)
  <2>1. i \in Bits /\ (i - n) + n = i
    BY <1>2, Widths DEF Bits
  <2> QED
    BY <1>2, <2>1 DEF Shl
<1>3. ASSUME NEW i \in Nat, i \in Shl(w, n) PROVE i < W /\ i >= n /\ i - n \in w
  <2>1. i \in Bits /\ \E j \in w : i = j + n
    BY <1>3 DEF Shl
  <2>2. PICK j \in w : i = j + n
    BY <2>1
  <2>3. j \in Nat /\ j = i - n
    BY <2>2 DEF Nats
  <2> QED
    BY <2>1, <2>2, <2>3, Widths DEF Bits
<1> QED
  BY <1>1, <1>2, <1>3

LEMMA MaskIn ==
  ASSUME NEW w \in 0 .. W - 1
  PROVE  /\ Mask(w) \in Nats /\ Width(w) \in 1 .. W
         /\ \A i \in Nat : i \in Mask(w) <=> i < Width(w)
<1>1. CASE w = 0
  BY <1>1, Widths DEF Mask, Width, Bits, Nats
<1>2. CASE w # 0
  BY <1>2, Widths DEF Mask, Width, Nats
<1> QED
  BY <1>1, <1>2

(* A field of v bits, from bit o up, as a number.                          *)
LEMMA FieldNumber ==
  ASSUME NEW a \in Word, NEW w \in 0 .. W - 1, NEW o \in 0 .. W - 1, Width(w) + o <= W
  PROVE  LET v == Shr(a, o) \cap Mask(w)
         IN /\ v \in Word /\ \A i \in v : i < Width(w)
            /\ Sum[Width(w)][v] = (Number[a] \div Two[o]) % Two[Width(w)]
            /\ Number[v] = Sum[Width(w)][v]
<1>0. PICK t \in Nat : t = Width(w) /\ t >= 1 /\ t + o <= W
  BY MaskIn
<1>1. PICK v : v = Shr(a, o) \cap Mask(w)
  OBVIOUS
<1>2. a \in Nats /\ Number[a] = Sum[W][a] /\ o \in Nat /\ W \in Nat /\ o <= W
  BY WordIn, Widths
<1>3. Shr(a, o) \in Nats /\ Shr(a, o) \in Word
  BY <1>2, ShrIn, MovedIn
<1>4. v \in Word /\ v \in Nats
  <2>1. v \in Word
    BY <1>1, <1>3 DEF Word
  <2> QED
    BY <2>1, WordIn
<1>5. \A i \in Nat : i \in v <=> i \in Shr(a, o) /\ i < t
  BY <1>0, <1>1, MaskIn
<1>6. \A i \in v : i < t
  BY <1>4, <1>5 DEF Nats
<1>7. Number[v] = Sum[W][v] /\ Sum[W][v] = Sum[t][v]
  <2>1. t <= W
    BY <1>0, <1>2
  <2>2. Sum[W][v] = Sum[t][v]
    BY <1>0, <1>2, <1>4, <1>6, <2>1, SumOfFew
  <2> QED
    BY <1>4, <2>2, WordIn
<1>8. Sum[t][v] = Sum[t][Shr(a, o)]
  <2>1. \A i \in 0 .. t - 1 : i \in v <=> i \in Shr(a, o)
    BY <1>5
  <2> QED
    BY <1>0, <1>3, <1>4, <2>1, SumOfSame
<1>9. Sum[W][a] \div Two[o] = Sum[W - o][Shr(a, o)] /\ W - o \in Nat
  BY <1>2, SumDivided
<1>10. Sum[W - o][Shr(a, o)] % Two[t] = Sum[t][Shr(a, o)]
  <2>1. t <= W - o
    BY <1>0, <1>2
  <2> QED
    BY <1>0, <1>3, <1>9, <2>1, SumDivided
<1> QED
  BY <1>0, <1>1, <1>2, <1>4, <1>6, <1>7, <1>8, <1>9, <1>10

(* Filling the bits above a field with ones takes what the field can hold  *)
(* from the number.                                                        *)
LEMMA FilledNumber ==
  ASSUME NEW v \in Word, NEW w \in 1 .. W - 1, \A i \in v : i < w, w - 1 \in v
  PROVE  LET u == SignExtended(v, w)
         IN u \in Word /\ Signed(u) = Sum[w][v] - Two[w] /\ Sum[w][v] >= Two[w - 1]
<1>1. PICK u, x : u = v \cup x /\ x = w .. W - 1 /\ u = SignExtended(v, w)
  BY DEF SignExtended
<1>2. u \in Word /\ x \in Nats /\ v \in Nats /\ v \cap x = {} /\ w \in Nat /\ W \in Nat /\ w <= W
  <2>1. u \in Word
    <3>1. w \in Nat /\ SignExtended(v, w) \in Word
      BY MovedIn
    <3> QED
      BY <1>1, <3>1
  <2>2. v \in Nats
    BY WordIn
  <2>3. x \in Nats
    BY <1>1, Widths DEF Nats
  <2>4. \A i \in v : i \in Nat /\ i < w
    BY <2>2 DEF Nats
  <2>5. v \cap x = {}
    BY <1>1, <2>4
  <2> QED
    BY <2>1, <2>2, <2>3, <2>5, Widths
<1>3. Sum[W][u] = Sum[W][v] + Sum[W][x]
  <2>1. Sum[W][v \cup x] = Sum[W][v] + Sum[W][x]
    BY <1>2, SumOfBoth
  <2> QED
    BY <1>1, <2>1
<1>4. Sum[W][v] = Sum[w][v]
  <2>1. \A i \in v : i < w
    OBVIOUS
  <2>2. w \in Nat /\ W \in Nat /\ w <= W /\ v \in Nats
    BY <1>2
  <2> HIDE <1>2
  <2> QED
    BY <2>1, <2>2, SumOfFew
<1>5. Sum[W][x] = Two[W] - Two[w]
  <2>1. W - w \in Nat /\ w + (W - w) = W
    BY <1>2
  <2>2. \A i \in 0 .. w - 1 : i \notin x
    BY <1>1
  <2>3. Sum[w][x] = 0
    BY <1>2, <2>2, SumOfNone
  <2>4. Shr(x, w) \in Nats /\ \A i \in 0 .. (W - w) - 1 : i \in Shr(x, w)
    <3>1. Shr(x, w) \in Nats /\ \A i \in Nat : i \in Shr(x, w) <=> i + w \in x
      BY <1>2, ShrIn
    <3>2. \A i \in 0 .. (W - w) - 1 : i + w \in x
      BY <1>1, <1>2
    <3> QED
      BY <3>1, <3>2
  <2>5. Sum[W - w][Shr(x, w)] = Two[W - w] - 1
    BY <2>1, <2>4, SumOfAll
  <2>6. Sum[w + (W - w)][x] = Sum[w][x] + Two[w] * Sum[W - w][Shr(x, w)]
    BY <1>2, <2>1, SumSplit
  <2>7. Two[w + (W - w)] = Two[w] * Two[W - w]
    BY <1>2, <2>1, TwoAdd
  <2>8. PICK a \in Nat, b \in Nat : a = Two[w] /\ b = Two[W - w]
    BY <1>2, <2>1, TwoType
  <2>9. a * (b - 1) = a * b - a /\ a * b \in Nat
    BY Natural
  <2> QED
    BY <2>1, <2>3, <2>5, <2>6, <2>7, <2>8, <2>9
<1>6. W - 1 \in u
  BY <1>1, Widths
<1>7. Number[u] = Sum[W][u] /\ Two[W] \in Nat /\ Two[w] \in Nat /\ Sum[w][v] \in Nat
  BY <1>2, WordIn, Halved, TwoType, SumType
<1>8. Signed(u) = Number[u] - Two[W]
  BY <1>6 DEF Signed
<1>9. Sum[w][v] >= Two[w - 1]
  <2>1. w - 1 \in Nat /\ (w - 1) + 1 = w
    OBVIOUS
  <2>2. Sum[(w - 1) + 1][v] = Sum[w - 1][v] + Two[w - 1] /\ Sum[w - 1][v] \in Nat /\ Two[w - 1] \in Nat
    BY <1>2, <2>1, SumType, TwoType
  <2> QED
    BY <2>1, <2>2
<1> QED
  <2>1. Signed(u) = Sum[w][v] - Two[w]
    BY <1>3, <1>4, <1>5, <1>7, <1>8
  <2> QED
    BY <1>1, <1>2, <1>9, <2>1

LEMMA FieldsRead ==
  Typed /\ ReadRuns =>
    (Done /\ Len(prog) = 1 /\ prog[1].op \in {"ext", "extu"} =>
       LET w == IF prog[1].w = 0 THEN W ELSE prog[1].w
           n == (Number[r[2]] \div Two[prog[1].o]) % Two[w]
       IN w + prog[1].o <= W =>
            IF prog[1].op = "extu" THEN Number[r[4]] = n
            ELSE Signed(r[4]) = IF n >= Two[w - 1] THEN n - Two[w] ELSE n)
<1> SUFFICES ASSUME Typed, ReadRuns, Done, Len(prog) = 1, prog[1].op \in {"ext", "extu"},
                    Width(prog[1].w) + prog[1].o <= W
             PROVE  LET t == Width(prog[1].w)
                        n == (Number[r[2]] \div Two[prog[1].o]) % Two[t]
                    IN IF prog[1].op = "extu" THEN Number[r[4]] = n
                       ELSE Signed(r[4]) = IF n >= Two[t - 1] THEN n - Two[t] ELSE n
  BY Zenon DEF Width
<1>1. prog \in ReadField(Fields)
  BY Sorted DEF Typed
<1>2. PICK w \in 0 .. W - 1, o \in 0 .. W - 1 : w = prog[1].w /\ o = prog[1].o
  BY <1>1 DEF ReadField, Fields, Part
<1>3. at = 2 /\ r[4] = ReadOf(prog[1].op, r[2], w, o)
  BY <1>1, <1>2, Held DEF ReadRuns
<1>4. PICK a \in Word : a = r[2]
  BY Held
<1>5. PICK t \in 1 .. W : t = Width(w)
  BY MaskIn
<1>6. PICK v \in Word : /\ v = Shr(a, o) \cap Mask(w) /\ \A i \in v : i < t
                        /\ Sum[t][v] = (Number[a] \div Two[o]) % Two[t]
                        /\ Number[v] = Sum[t][v]
  <2>1. Width(w) + o <= W
    BY <1>2
  <2>2. LET v == Shr(a, o) \cap Mask(w)
        IN /\ v \in Word /\ \A i \in v : i < Width(w)
           /\ Sum[Width(w)][v] = (Number[a] \div Two[o]) % Two[Width(w)]
           /\ Number[v] = Sum[Width(w)][v]
    BY <2>1, FieldNumber
  <2> QED
    BY <1>5, <2>2, Zenon
<1>7. PICK n \in Nat : n = (Number[a] \div Two[o]) % Two[t] /\ n = Number[v]
  BY <1>6, WordIn
<1>8. CASE prog[1].op = "extu"
  BY <1>2, <1>3, <1>4, <1>5, <1>6, <1>7, <1>8 DEF ReadOf
<1>9. CASE prog[1].op = "ext" /\ w = 0
  <2>1. r[4] = v /\ t = W
    BY <1>3, <1>4, <1>5, <1>6, <1>9 DEF ReadOf, Width
  <2>2. Signed(v) = IF n >= Two[t - 1] THEN n - Two[t] ELSE n
    BY <1>7, <2>1, SignedIs
  <2> QED
    BY <1>2, <1>4, <1>5, <1>7, <1>9, <2>1, <2>2
<1>10. CASE prog[1].op = "ext" /\ w # 0
  <2>1. r[4] = SignExtended(v, w) /\ t = w /\ w \in 1 .. W - 1
    BY <1>3, <1>4, <1>5, <1>6, <1>10 DEF ReadOf, Width
  <2>2. Signed(r[4]) = IF n >= Two[t - 1] THEN n - Two[t] ELSE n
    <3>1. CASE w - 1 \in v
      BY <1>6, <1>7, <2>1, <3>1, FilledNumber
    <3>2. CASE w - 1 \notin v
      <4>1. r[4] = v /\ W - 1 \notin v
        BY <1>6, <2>1, <3>2, Widths DEF SignExtended
      <4>2. Signed(r[4]) = n
        BY <1>7, <4>1 DEF Signed
      <4>3. n < Two[w - 1]
        <5>1. w - 1 \in Nat /\ (w - 1) + 1 = w /\ v \in Nats
          BY <2>1, WordIn
        <5>2. Sum[(w - 1) + 1][v] = Sum[w - 1][v] /\ Sum[w - 1][v] \in 0 .. Two[w - 1] - 1
          <6>1. /\ Sum[(w - 1) + 1][v] = Sum[w - 1][v] + IF w - 1 \in v THEN Two[w - 1] ELSE 0
                /\ Sum[w - 1][v] \in 0 .. Two[w - 1] - 1
            BY <5>1, SumType
          <6>2. Sum[w - 1][v] \in Nat
            BY <6>1
          <6> QED
            BY <3>2, <6>1, <6>2
        <5>3. Two[w - 1] \in Nat
          BY <5>1, TwoType
        <5> QED
          BY <1>6, <1>7, <2>1, <5>1, <5>2, <5>3
      <4>4. Two[w - 1] \in Nat
        BY <2>1, TwoType
      <4> QED
        BY <2>1, <4>2, <4>3, <4>4
    <3> QED
      BY <3>1, <3>2
  <2> QED
    BY <1>2, <1>4, <1>5, <1>7, <1>10, <2>2
<1> QED
  BY <1>8, <1>9, <1>10

(* The bits of a word whose field has been replaced.                       *)
LEMMA ReplacedBits ==
  ASSUME NEW a \in Word, NEW c \in Word, NEW w \in 0 .. W - 1, NEW o \in 0 .. W - 1
  PROVE  LET u == Cleared(a, w, o) \cup Made(c, w, o)
         IN /\ u \in Nats
            /\ \A i \in 0 .. W - 1 :
                 i \in u <=> IF i >= o /\ i - o < Width(w) THEN i - o \in c ELSE i \in a
<1>1. PICK u : u = Cleared(a, w, o) \cup Made(c, w, o)
  OBVIOUS
<1>2. a \in Nats /\ c \in Nats /\ o \in Nat /\ Mask(w) \in Nats /\ c \cap Mask(w) \in Nats
  <2>1. a \in Nats /\ c \in Nats /\ o \in Nat /\ Mask(w) \in Nats
    BY WordIn, MaskIn
  <2> QED
    BY <2>1 DEF Nats
<1>3. /\ Shl(Mask(w), o) \in Nats
      /\ \A i \in Nat : i \in Shl(Mask(w), o) <=> i < W /\ i >= o /\ i - o \in Mask(w)
  BY <1>2, ShlIn
<1>4. /\ Shl(c \cap Mask(w), o) \in Nats
      /\ \A i \in Nat : i \in Shl(c \cap Mask(w), o) <=> i < W /\ i >= o /\ i - o \in c \cap Mask(w)
  BY <1>2, ShlIn
<1>5. u \in Nats
  BY <1>1, <1>2, <1>4 DEF Nats, Cleared, Made
<1>6. ASSUME NEW i \in 0 .. W - 1
      PROVE  i \in u <=> IF i >= o /\ i - o < Width(w) THEN i - o \in c ELSE i \in a
  <2>1. i \in Nat /\ i < W
    BY Widths
  <2>2. i \in u <=> (i \in a /\ i \notin Shl(Mask(w), o)) \/ i \in Shl(c \cap Mask(w), o)
    BY <1>1 DEF Cleared, Made
  <2>3. CASE i >= o
    <3>1. i - o \in Nat
      BY <2>1, <2>3
    <3>2. i - o \in Mask(w) <=> i - o < Width(w)
      BY <3>1, MaskIn
    <3> QED
      BY <1>3, <1>4, <2>1, <2>2, <2>3, <3>2
  <2>4. CASE ~(i >= o)
    BY <1>3, <1>4, <2>1, <2>2, <2>4
  <2> QED
    BY <2>3, <2>4
<1> QED
  BY <1>1, <1>5, <1>6

LEMMA ReplacedNumber ==
  ASSUME NEW a \in Word, NEW c \in Word, NEW u \in Word, NEW t \in 1 .. W, NEW o \in 0 .. W - 1,
         t + o <= W,
         \A i \in 0 .. W - 1 : i \in u <=> IF i >= o /\ i - o < t THEN i - o \in c ELSE i \in a
  PROVE  Number[u] = (Number[a] % Two[o]) + (Number[c] % Two[t]) * Two[o]
                     + (Number[a] \div Two[t + o]) * Two[t + o]
<1>1. /\ a \in Nats /\ c \in Nats /\ u \in Nats
      /\ Number[a] = Sum[W][a] /\ Number[c] = Sum[W][c] /\ Number[u] = Sum[W][u]
  BY WordIn
<1>2. PICK b \in Nat, z \in Nat : b = t + o /\ z = W - b /\ W = b + z /\ W \in Nat /\ b <= W
  <2>1. t + o \in Nat /\ W - (t + o) \in Nat /\ W \in Nat /\ W = (t + o) + (W - (t + o))
    BY Widths
  <2> QED
    BY <2>1
<1>3. t \in Nat /\ o \in Nat /\ o + t = b /\ o <= W /\ t <= W
  BY <1>2
<1>4. Sum[o][u] = Number[a] % Two[o]
  <2>1. \A i \in 0 .. o - 1 : i \in u <=> i \in a
    BY <1>2, <1>3
  <2>2. Sum[o][u] = Sum[o][a]
    BY <1>1, <1>3, <2>1, SumOfSame
  <2>3. Sum[W][a] % Two[o] = Sum[o][a]
    BY <1>1, <1>2, <1>3, SumDivided
  <2> QED
    BY <1>1, <2>2, <2>3
<1>5. Sum[t][Shr(u, o)] = Number[c] % Two[t] /\ Shr(u, o) \in Nats
  <2>1. Shr(u, o) \in Nats /\ \A i \in Nat : i \in Shr(u, o) <=> i + o \in u
    BY <1>1, <1>3, ShrIn
  <2>2. \A i \in 0 .. t - 1 : i \in Shr(u, o) <=> i \in c
    <3> SUFFICES ASSUME NEW i \in 0 .. t - 1 PROVE i \in Shr(u, o) <=> i \in c
      OBVIOUS
    <3>1. i + o \in 0 .. W - 1 /\ i + o >= o /\ (i + o) - o = i /\ i < t /\ i \in Nat
      BY <1>2, <1>3
    <3> QED
      BY <2>1, <3>1
  <2>3. Sum[t][Shr(u, o)] = Sum[t][c]
    BY <1>1, <1>3, <2>1, <2>2, SumOfSame
  <2>4. Sum[W][c] % Two[t] = Sum[t][c]
    BY <1>1, <1>2, <1>3, SumDivided
  <2> QED
    BY <1>1, <2>1, <2>3, <2>4
<1>6. Sum[z][Shr(u, b)] = Number[a] \div Two[b]
  <2>1. /\ Shr(u, b) \in Nats /\ \A i \in Nat : i \in Shr(u, b) <=> i + b \in u
        /\ Shr(a, b) \in Nats /\ \A i \in Nat : i \in Shr(a, b) <=> i + b \in a
    BY <1>1, <1>2, ShrIn
  <2>2. \A i \in 0 .. z - 1 : i \in Shr(u, b) <=> i \in Shr(a, b)
    <3> SUFFICES ASSUME NEW i \in 0 .. z - 1 PROVE i \in Shr(u, b) <=> i \in Shr(a, b)
      OBVIOUS
    <3>1. i + b \in 0 .. W - 1 /\ ~((i + b) - o < t) /\ i \in Nat
      BY <1>2, <1>3
    <3> QED
      BY <2>1, <3>1
  <2>3. Sum[z][Shr(u, b)] = Sum[z][Shr(a, b)]
    BY <1>2, <2>1, <2>2, SumOfSame
  <2>4. Sum[W][a] \div Two[b] = Sum[W - b][Shr(a, b)]
    BY <1>1, <1>2, SumDivided
  <2> QED
    BY <1>1, <1>2, <2>3, <2>4
<1>7. Sum[W][u] = Sum[b][u] + Two[b] * Sum[z][Shr(u, b)]
  <2>1. Sum[b + z][u] = Sum[b][u] + Two[b] * Sum[z][Shr(u, b)]
    BY <1>1, <1>2, SumSplit
  <2> QED
    BY <1>2, <2>1
<1>8. Sum[b][u] = Sum[o][u] + Two[o] * Sum[t][Shr(u, o)]
  <2>1. Sum[o + t][u] = Sum[o][u] + Two[o] * Sum[t][Shr(u, o)]
    BY <1>1, <1>3, SumSplit
  <2> QED
    BY <1>3, <2>1
<1>9. PICK p \in Nat, q \in Nat, x \in Nat, y \in Nat, v \in Nat :
        /\ p = Two[o] /\ q = Two[b] /\ x = Sum[o][u] /\ y = Sum[t][Shr(u, o)]
        /\ v = Sum[z][Shr(u, b)]
  <2>1. Shr(u, b) \in Nats
    BY <1>1, <1>2, ShrIn
  <2>2. /\ Two[o] \in Nat /\ Two[b] \in Nat /\ Sum[o][u] \in Nat /\ Sum[t][Shr(u, o)] \in Nat
        /\ Sum[z][Shr(u, b)] \in Nat
    BY <1>1, <1>2, <1>3, <1>5, <2>1, SumType, TwoType
  <2> QED
    BY <2>2
<1>10. p * y = y * p /\ q * v = v * q /\ p * y \in Nat /\ q * v \in Nat
  BY Natural
<1>11. Number[u] = x + y * p + v * q
  BY <1>1, <1>7, <1>8, <1>9, <1>10
<1> QED
  BY <1>2, <1>4, <1>5, <1>6, <1>9, <1>11

LEMMA FieldsReplaced ==
  Typed /\ ReplaceRuns =>
    (Done /\ Len(prog) = 3 /\ prog[1].op = "clr" =>
       LET w == IF prog[1].w = 0 THEN W ELSE prog[1].w
           o == prog[1].o
           old == Number[r[2]]
       IN w + o <= W =>
            Number[r[4]] = (old % Two[o]) + (Number[r[3]] % Two[w]) * Two[o]
                           + (old \div Two[w + o]) * Two[w + o])
<1> SUFFICES ASSUME Typed, ReplaceRuns, Done, Len(prog) = 3, prog[1].op = "clr",
                    Width(prog[1].w) + prog[1].o <= W
             PROVE  LET w == Width(prog[1].w)
                        o == prog[1].o
                        old == Number[r[2]]
                    IN Number[r[4]] = (old % Two[o]) + (Number[r[3]] % Two[w]) * Two[o]
                                      + (old \div Two[w + o]) * Two[w + o]
  BY Zenon DEF Width
<1>1. prog \in ReplaceField(Fields)
  BY Sorted DEF Typed
<1>2. PICK w \in 0 .. W - 1, o \in 0 .. W - 1 : w = prog[1].w /\ o = prog[1].o
  BY <1>1 DEF ReplaceField, Fields, Part
<1>3. r[4] = Cleared(r[2], w, o) \cup Made(r[3], w, o)
  <2>1. at = 4 \/ status # "running"
    BY Held
  <2> QED
    BY <1>1, <1>2, <2>1 DEF ReplaceRuns
<1>4. PICK a \in Word, c \in Word, u \in Word : a = r[2] /\ c = r[3] /\ u = r[4]
  BY Held
<1>5. PICK t \in 1 .. W : t = Width(w)
  BY MaskIn
<1>6. \A i \in 0 .. W - 1 : i \in u <=> IF i >= o /\ i - o < t THEN i - o \in c ELSE i \in a
  <2>1. \A i \in 0 .. W - 1 :
          i \in Cleared(a, w, o) \cup Made(c, w, o) <=>
            IF i >= o /\ i - o < Width(w) THEN i - o \in c ELSE i \in a
    BY ReplacedBits
  <2>2. u = Cleared(a, w, o) \cup Made(c, w, o)
    BY <1>3, <1>4
  <2> QED
    BY <1>5, <2>1, <2>2
<1>7. t + o <= W
  BY <1>2, <1>5
<1>8. Number[u] = (Number[a] % Two[o]) + (Number[c] % Two[t]) * Two[o]
                  + (Number[a] \div Two[t + o]) * Two[t + o]
  BY <1>6, <1>7, ReplacedNumber
<1> QED
  BY <1>2, <1>4, <1>5, <1>8

(* Rotating by what is left of the word undoes a rotation.                 *)
LEMMA RotatedBits ==
  ASSUME NEW a \in Word, NEW o \in 0 .. W - 1
  PROVE  /\ Rotated(a, o) \in Word
         /\ \A i \in 0 .. W - 1 :
              i \in Rotated(a, o) <=> IF i + o < W THEN i + o \in a ELSE i - (W - o) \in a
<1>1. a \in Nats /\ o \in Nat /\ W - o \in Nat /\ \A i \in a : i \in Nat /\ i < W
  <2>1. a \in Nats
    BY WordIn
  <2>2. \A i \in a : i \in 0 .. W - 1
    BY DEF Word, Bits
  <2> QED
    BY <2>1, <2>2, Widths
<1>2. Rotated(a, o) \in Word
  <2>1. Shr(a, o) \in Word /\ Shl(a, W - o) \in Word
    BY <1>1, MovedIn
  <2> QED
    BY <2>1 DEF Rotated, Word
<1>3. ASSUME NEW i \in 0 .. W - 1
      PROVE  i \in Rotated(a, o) <=> IF i + o < W THEN i + o \in a ELSE i - (W - o) \in a
  <2>1. i \in Nat /\ i < W /\ W \in Nat
    BY Widths
  <2>2. i \in Shr(a, o) <=> i + o \in a
    BY <1>1, <2>1, ShrIn
  <2>3. i \in Shl(a, W - o) <=> i < W /\ i >= W - o /\ i - (W - o) \in a
    BY <1>1, <2>1, ShlIn
  <2>4. i + o \in a => i + o < W
    BY <1>1
  <2> QED
    BY <2>1, <2>2, <2>3, <2>4 DEF Rotated
<1> QED
  BY <1>2, <1>3

LEMMA RotatesBack ==
  Typed /\ RotateRuns => (Ran(Rotate) => r[5] = r[2])
<1> SUFFICES ASSUME Typed, RotateRuns, prog \in Rotate, Done PROVE r[5] = r[2]
  BY DEF Ran
<1>1. PICK o \in 0 .. W - 1 : prog[1].o = o
  BY DEF Rotate, Part
<1>2. at = 3 \/ status # "running"
  <2>1. Len(prog) = 2
    BY Sorts
  <2> QED
    BY <2>1, Held
<1>3. r[5] = Rotated(Rotated(r[2], o), (W - o) % W)
  BY <1>1, <1>2 DEF RotateRuns
<1>4. PICK a \in Word : a = r[2]
  BY Held
<1>5. PICK e \in 0 .. W - 1 : e = (W - o) % W /\ (o = 0 => e = 0) /\ (o # 0 => e = W - o)
  <2>1. CASE o = 0
    BY <2>1, Widths
  <2>2. CASE o # 0
    BY <2>2, Widths
  <2> QED
    BY <2>1, <2>2
<1>6. PICK b \in Word : /\ b = Rotated(a, o)
                        /\ \A i \in 0 .. W - 1 :
                             i \in b <=> IF i + o < W THEN i + o \in a ELSE i - (W - o) \in a
  BY RotatedBits
<1>7. PICK c \in Word : /\ c = Rotated(b, e)
                        /\ \A i \in 0 .. W - 1 :
                             i \in c <=> IF i + e < W THEN i + e \in b ELSE i - (W - e) \in b
  BY RotatedBits
<1>8. ASSUME NEW i \in 0 .. W - 1 PROVE i \in c <=> i \in a
  <2>1. CASE o = 0
    BY <1>5, <1>6, <1>7, <2>1, Widths
  <2>2. CASE o # 0 /\ i + e < W
    <3>1. i + e \in 0 .. W - 1 /\ ~((i + e) + o < W) /\ (i + e) - (W - o) = i
      BY <1>5, <2>2, Widths
    <3> QED
      BY <1>6, <1>7, <2>2, <3>1
  <2>3. CASE o # 0 /\ ~(i + e < W)
    <3>1. i - (W - e) \in 0 .. W - 1 /\ (i - (W - e)) + o < W /\ (i - (W - e)) + o = i
      BY <1>5, <2>3, Widths
    <3> QED
      BY <1>6, <1>7, <2>3, <3>1
  <2> QED
    BY <2>1, <2>2, <2>3
<1>9. c = a
  <2>1. c \subseteq 0 .. W - 1 /\ a \subseteq 0 .. W - 1
    BY DEF Word, Bits
  <2> QED
    BY <1>8, <2>1
<1> QED
  BY <1>3, <1>4, <1>5, <1>6, <1>7, <1>9

LEMMA FieldsHold ==
  Typed /\ ReadRuns /\ ReplaceRuns /\ RotateRuns => FieldsHoldNumbers
  BY FieldsRead, FieldsReplaced, RotatesBack DEF FieldsHoldNumbers

(***************************************************************************)
(* Halves of words                                                         *)
(***************************************************************************)

Edited(op, a, b, kept) ==
  CASE op = "and"  -> a \cap (b \cup kept)
    [] op = "mask" -> a \cap b
    [] op = "or"   -> a \cup b
    [] op = "xor"  -> (a \ b) \cup (b \ a)

BuildRuns ==
  prog \in BuildConstant(Halves) =>
    LET upper == Shl(prog[1].h, W \div 2)
    IN \/ at = 1 /\ status = "running"
       \/ at = 2 /\ status = "running" /\ r[4] = upper
       \/ at = 3 /\ status = "running" /\ r[4] = upper \cup prog[2].h

EditRuns ==
  prog \in EditHalves(Halves) =>
    LET op == prog[1].op
        h == prog[1].h
        upper == Edited(op, r[2], Shl(h, W \div 2), Low)
    IN \/ at = 1 /\ status = "running"
       \/ at = 2 /\ status = "running" /\ r[4] = upper
       \/ at = 3 /\ status = "running" /\ r[4] = upper /\ r[5] = Edited(op, r[2], h, High)

NegateRuns ==
  prog \in Negate =>
    LET complement == Bits \ r[2]
        more == WordOf(Number[complement] + Number[{0}])
    IN \/ at = 1 /\ status = "running"
       \/ at = 2 /\ status = "running" /\ r[4] = complement
       \/ at = 3 /\ status = "running" /\ r[4] = more
       \/ at = 4 /\ status = "running" /\ r[4] = more /\ r[5] = WordOf(Number[{}] - Number[r[2]])

DiscardRuns ==
  prog \in Discard =>
    \/ at \in {1, 2} /\ status = "running"
    \/ at = 3 /\ status = "running" /\ r[4] = WordOf(Number[{}] + Number[{}])

LEMMA LogicalEdits ==
  ASSUME NEW a, NEW b, ins.op \in {"and", "or", "xor", "mask"}
  PROVE  LogicalResult(a, b) = Edited(ins.op, a, b, Kept)
<1>1. CASE ins.op = "and"
  BY <1>1 DEF LogicalResult, Edited
<1>2. CASE ins.op = "or"
  BY <1>2 DEF LogicalResult, Edited
<1>3. CASE ins.op = "xor"
  BY <1>3 DEF LogicalResult, Edited
<1>4. CASE ins.op = "mask"
  BY <1>4 DEF LogicalResult, Edited
<1> QED
  BY <1>1, <1>2, <1>3, <1>4

LEMMA BuildRun ==
  /\ Init => BuildRuns
  /\ Typed /\ BuildRuns /\ [Next]_vars => BuildRuns'
<1>1. Init => BuildRuns
  BY DEF Init, BuildRuns
<1>2. BuildRuns /\ UNCHANGED vars => BuildRuns'
  BY DEF BuildRuns, vars
<1>3. ASSUME Typed, BuildRuns, Next PROVE BuildRuns'
  <2> SUFFICES ASSUME prog \in BuildConstant(Halves) PROVE BuildRuns'
    BY <1>3, Steps DEF BuildRuns
  <2>1. /\ Performed /\ prog' = prog /\ status = "running" /\ ins = prog[at]
        /\ at \in 1 .. Len(prog) /\ r \in Registers /\ r[0] = {}
    BY <1>3, Steps
  <2>2. PICK h, l : /\ prog[1].h = h /\ prog[2].h = l /\ Len(prog) = 2
                    /\ prog[1].op = "or" /\ prog[1].d = 4 /\ prog[1].a = 0 /\ prog[1].form = "upper"
                    /\ prog[2].op = "or" /\ prog[2].d = 4 /\ prog[2].a = 4 /\ prog[2].form = "imm"
    BY DEF BuildConstant, Upper, Imm
  <2>3. CASE at = 1
    <3>1. Puts(Shl(h, W \div 2)) /\ ins.d = 4
      <4>1. Puts(LogicalResult(r[0], Second)) /\ ins.op = "or" /\ ins.d = 4
        BY <2>1, <2>2, <2>3 DEF Performed
      <4>2. Second = Shl(h, W \div 2)
        BY <2>1, <2>2, <2>3 DEF Second
      <4>3. LogicalResult(r[0], Second) = Shl(h, W \div 2)
        BY <2>1, <4>1, <4>2 DEF LogicalResult
      <4> QED
        BY <4>1, <4>3
    <3>2. r'[4] = Shl(h, W \div 2) /\ at' = 2 /\ status' = "running"
      BY <2>1, <2>3, <3>1, PutsOne
    <3> QED
      BY <2>1, <2>2, <3>2 DEF BuildRuns
  <2>4. CASE at = 2
    <3>1. r[4] = Shl(h, W \div 2)
      BY <1>3, <2>2, <2>4 DEF BuildRuns
    <3>2. Puts(r[4] \cup l) /\ ins.d = 4
      BY <2>1, <2>2, <2>4 DEF Performed, LogicalResult, Second
    <3>3. r'[4] = r[4] \cup l /\ at' = 3 /\ status' = "running"
      BY <2>1, <2>4, <3>2, PutsOne
    <3> QED
      BY <2>1, <2>2, <3>1, <3>3 DEF BuildRuns
  <2> QED
    BY <2>1, <2>2, <2>3, <2>4
<1> QED
  BY <1>1, <1>2, <1>3

LEMMA EditRun ==
  /\ Init => EditRuns
  /\ Typed /\ EditRuns /\ [Next]_vars => EditRuns'
<1>1. Init => EditRuns
  BY DEF Init, EditRuns
<1>2. EditRuns /\ UNCHANGED vars => EditRuns'
  BY DEF EditRuns, vars
<1>3. ASSUME Typed, EditRuns, Next PROVE EditRuns'
  <2> SUFFICES ASSUME prog \in EditHalves(Halves) PROVE EditRuns'
    BY <1>3, Steps DEF EditRuns
  <2>1. /\ Performed /\ prog' = prog /\ status = "running" /\ ins = prog[at]
        /\ at \in 1 .. Len(prog) /\ r \in Registers
    BY <1>3, Steps
  <2>2. PICK op \in {"and", "or", "xor", "mask"}, h \in Halves :
          /\ prog[1].h = h /\ prog[2].h = h /\ Len(prog) = 2
          /\ prog[1].op = op /\ prog[1].d = 4 /\ prog[1].a = 2 /\ prog[1].form = "upper"
          /\ prog[2].op = op /\ prog[2].d = 5 /\ prog[2].a = 2 /\ prog[2].form = "imm"
    BY DEF EditHalves, Upper, Imm
  <2>3. CASE at = 1
    <3>1. Puts(Edited(op, r[2], Shl(h, W \div 2), Low)) /\ ins.d = 4
      <4>1. Puts(LogicalResult(r[2], Second)) /\ ins.op = op /\ ins.d = 4
        BY <2>1, <2>2, <2>3 DEF Performed
      <4>2. Second = Shl(h, W \div 2) /\ Kept = Low
        BY <2>1, <2>2, <2>3 DEF Second, Kept
      <4> QED
        BY <4>1, <4>2, LogicalEdits
    <3>2. /\ r'[4] = Edited(op, r[2], Shl(h, W \div 2), Low) /\ r'[2] = r[2]
          /\ at' = 2 /\ status' = "running"
      BY <2>1, <2>3, <3>1, PutsOne
    <3> QED
      BY <2>1, <2>2, <3>2 DEF EditRuns
  <2>4. CASE at = 2
    <3>1. r[4] = Edited(op, r[2], Shl(h, W \div 2), Low)
      BY <1>3, <2>2, <2>4 DEF EditRuns
    <3>2. Puts(Edited(op, r[2], h, High)) /\ ins.d = 5
      <4>1. Puts(LogicalResult(r[2], Second)) /\ ins.op = op /\ ins.d = 5
        BY <2>1, <2>2, <2>4 DEF Performed
      <4>2. Second = h /\ Kept = High
        BY <2>1, <2>2, <2>4 DEF Second, Kept
      <4> QED
        BY <4>1, <4>2, LogicalEdits
    <3>3. /\ r'[5] = Edited(op, r[2], h, High) /\ r'[2] = r[2] /\ r'[4] = r[4]
          /\ at' = 3 /\ status' = "running"
      BY <2>1, <2>4, <3>2, PutsOne
    <3> QED
      BY <2>1, <2>2, <3>1, <3>3 DEF EditRuns
  <2> QED
    BY <2>1, <2>2, <2>3, <2>4
<1> QED
  BY <1>1, <1>2, <1>3

LEMMA NegateRun ==
  /\ Init => NegateRuns
  /\ Typed /\ NegateRuns /\ [Next]_vars => NegateRuns'
<1>1. Init => NegateRuns
  BY DEF Init, NegateRuns
<1>2. NegateRuns /\ UNCHANGED vars => NegateRuns'
  BY DEF NegateRuns, vars
<1>3. ASSUME Typed, NegateRuns, Next PROVE NegateRuns'
  <2> SUFFICES ASSUME prog \in Negate PROVE NegateRuns'
    BY <1>3, Steps DEF NegateRuns
  <2>1. /\ Performed /\ prog' = prog /\ status = "running" /\ ins = prog[at]
        /\ at \in 1 .. Len(prog) /\ r \in Registers /\ r[0] = {}
    BY <1>3, Steps
  <2>2. /\ Len(prog) = 3 /\ prog[1].op = "or" /\ prog[1].d = 4 /\ prog[1].a = 0
        /\ prog[1].form = "comp" /\ prog[1].n = 2
        /\ prog[2].op = "add" /\ prog[2].d = 4 /\ prog[2].a = 4
        /\ prog[2].form = "imm" /\ prog[2].h = {0}
    BY DEF Negate, Comp, Imm
  <2>3. /\ prog[3].op = "sub" /\ prog[3].d = 5 /\ prog[3].a = 0
        /\ prog[3].form = "reg" /\ prog[3].n = 2
    BY DEF Negate, Reg
  <2>4. CASE at = 1
    <3>1. Puts(Bits \ r[2]) /\ ins.d = 4
      <4>1. Puts(r[0] \cup (Bits \ r[2])) /\ ins.d = 4
        BY <2>1, <2>2, <2>4 DEF Performed, LogicalResult, Second
      <4> QED
        BY <2>1, <4>1
    <3>2. r'[4] = Bits \ r[2] /\ r'[2] = r[2] /\ at' = 2 /\ status' = "running"
      BY <2>1, <2>4, <3>1, PutsOne
    <3> QED
      BY <2>1, <3>2 DEF NegateRuns
  <2>5. CASE at = 2
    <3>1. r[4] = Bits \ r[2]
      BY <1>3, <2>5 DEF NegateRuns
    <3>2. Puts(WordOf(Number[Bits \ r[2]] + Number[{0}])) /\ ins.d = 4
      BY <2>1, <2>2, <2>5, <3>1 DEF Performed, ArithmeticResult, Second
    <3>3. /\ r'[4] = WordOf(Number[Bits \ r[2]] + Number[{0}]) /\ r'[2] = r[2]
          /\ at' = 3 /\ status' = "running"
      BY <2>1, <2>5, <3>2, PutsOne
    <3> QED
      BY <2>1, <3>3 DEF NegateRuns
  <2>6. CASE at = 3
    <3>1. r[4] = WordOf(Number[Bits \ r[2]] + Number[{0}])
      BY <1>3, <2>6 DEF NegateRuns
    <3>2. Puts(WordOf(Number[{}] - Number[r[2]])) /\ ins.d = 5
      BY <2>1, <2>3, <2>6 DEF Performed, ArithmeticResult, Second
    <3>3. /\ r'[5] = WordOf(Number[{}] - Number[r[2]]) /\ r'[2] = r[2] /\ r'[4] = r[4]
          /\ at' = 4 /\ status' = "running"
      BY <2>1, <2>6, <3>2, PutsOne
    <3> QED
      BY <2>1, <3>1, <3>3 DEF NegateRuns
  <2> QED
    BY <2>1, <2>2, <2>4, <2>5, <2>6
<1> QED
  BY <1>1, <1>2, <1>3

LEMMA DiscardRun ==
  /\ Init => DiscardRuns
  /\ Typed /\ DiscardRuns /\ [Next]_vars => DiscardRuns'
<1>1. Init => DiscardRuns
  BY DEF Init, DiscardRuns
<1>2. DiscardRuns /\ UNCHANGED vars => DiscardRuns'
  BY DEF DiscardRuns, vars
<1>3. ASSUME Typed, DiscardRuns, Next PROVE DiscardRuns'
  <2> SUFFICES ASSUME prog \in Discard PROVE DiscardRuns'
    BY <1>3, Steps DEF DiscardRuns
  <2>1. /\ Performed /\ prog' = prog /\ status = "running" /\ ins = prog[at]
        /\ at \in 1 .. Len(prog) /\ r \in Registers /\ r[0] = {}
    BY <1>3, Steps
  <2>2. /\ Len(prog) = 2 /\ prog[1].op = "or" /\ prog[2].op = "add" /\ prog[2].d = 4
        /\ prog[2].a = 0 /\ prog[2].form = "reg" /\ prog[2].n = 0
    BY DEF Discard, Reg
  <2>3. CASE at = 1
    <3>1. \E w : Puts(w)
      BY <2>1, <2>2, <2>3 DEF Performed
    <3>2. at' = 2 /\ status' = "running"
      BY <2>1, <2>3, <3>1 DEF Puts, Onward
    <3> QED
      BY <2>1, <3>2 DEF DiscardRuns
  <2>4. CASE at = 2
    <3>1. Puts(WordOf(Number[{}] + Number[{}])) /\ ins.d = 4
      BY <2>1, <2>2, <2>4 DEF Performed, ArithmeticResult, Second
    <3>2. r'[4] = WordOf(Number[{}] + Number[{}]) /\ at' = 3 /\ status' = "running"
      BY <2>1, <2>4, <3>1, PutsOne
    <3> QED
      BY <2>1, <3>2 DEF DiscardRuns
  <2> QED
    BY <2>1, <2>2, <2>3, <2>4
<1> QED
  BY <1>1, <1>2, <1>3

(* The upper half moved into its place, with a lower half.                 *)
LEMMA HalvesNumber ==
  ASSUME NEW h \in Halves, NEW l \in Halves, NEW w \in Word, w = Shl(h, W \div 2) \cup l
  PROVE  Number[w] = Number[h] * Two[W \div 2] + Number[l]
<1>1. PICK c \in Nat : c = W \div 2 /\ W = c + c /\ c <= W /\ W \in Nat
  BY Widths
<1>2. /\ h \in Word /\ l \in Word /\ h \in Nats /\ l \in Nats /\ w \in Nats
      /\ Number[w] = Sum[W][w] /\ Number[h] = Sum[W][h] /\ Number[l] = Sum[W][l]
  BY WordsOfHalves, WordIn
<1>3. \A i \in h \cup l : i \in Nat /\ i < c
  BY <1>1, Widths, WordsOfHalves
<1>4. Sum[W][h] = Sum[c][h] /\ Sum[W][l] = Sum[c][l]
  BY <1>1, <1>2, <1>3, SumOfFew
<1>5. Shl(h, c) \in Nats /\ \A i \in Nat : i \in Shl(h, c) <=> i < W /\ i >= c /\ i - c \in h
  BY <1>1, <1>2, ShlIn
<1>6. \A i : i \in w <=> i \in Shl(h, c) \/ i \in l
  <2>1. w = Shl(h, c) \cup l
    BY <1>1
  <2> QED
    BY <2>1
<1>7. Sum[c][w] = Sum[c][l]
  <2>1. \A i \in 0 .. c - 1 : i \in w <=> i \in l
    BY <1>5, <1>6
  <2> QED
    <3>1. w \in Nats /\ l \in Nats
      BY <1>2
    <3>2. Sum[c][w] = Sum[c][l] <=> \A i \in 0 .. c - 1 : i \in w <=> i \in l
      BY <3>1, SumOfSame
    <3> QED
      BY <2>1, <3>2
<1>8. Sum[c][Shr(w, c)] = Sum[c][h] /\ Shr(w, c) \in Nats
  <2>1. Shr(w, c) \in Nats /\ \A i \in Nat : i \in Shr(w, c) <=> i + c \in w
    BY <1>1, <1>2, ShrIn
  <2>2. \A i \in 0 .. c - 1 : i \in Shr(w, c) <=> i \in h
    <3> SUFFICES ASSUME NEW i \in 0 .. c - 1 PROVE i \in Shr(w, c) <=> i \in h
      OBVIOUS
    <3>1. i + c \in Nat /\ i + c < W /\ i + c >= c /\ (i + c) - c = i /\ ~(i + c < c) /\ i \in Nat
      BY <1>1
    <3>2. i + c \notin l
      BY <1>3, <3>1
    <3> QED
      BY <1>5, <1>6, <2>1, <3>1, <3>2
  <2> QED
    <3>1. Shr(w, c) \in Nats /\ h \in Nats
      BY <1>2, <2>1
    <3>2. Sum[c][Shr(w, c)] = Sum[c][h] <=> \A i \in 0 .. c - 1 : i \in Shr(w, c) <=> i \in h
      BY <3>1, SumOfSame
    <3> QED
      BY <2>1, <2>2, <3>2
<1>9. Sum[c + c][w] = Sum[c][w] + Two[c] * Sum[c][Shr(w, c)]
  BY <1>1, <1>2, SumSplit
<1>10. PICK p \in Nat, x \in Nat, y \in Nat : p = Two[c] /\ x = Sum[c][h] /\ y = Sum[c][l]
  <2>1. Two[c] \in Nat /\ Sum[c][h] \in Nat /\ Sum[c][l] \in Nat
    BY <1>1, <1>2, SumType, TwoType
  <2> QED
    BY <2>1
<1>11. Number[w] = y + p * x
  BY <1>1, <1>2, <1>7, <1>8, <1>9, <1>10
<1>12. p * x = x * p /\ p * x \in Nat
  BY Natural
<1> QED
  BY <1>1, <1>2, <1>4, <1>10, <1>11, <1>12

LEMMA ConstantsBuilt ==
  Typed /\ BuildRuns =>
    (Done /\ Len(prog) = 2 /\ prog[1].op = "or" /\ prog[1].a = 0 /\ prog[1].d = 4 =>
       Number[r[4]] = Number[prog[1].h] * Two[W \div 2] + Number[prog[2].h])
<1> SUFFICES ASSUME Typed, BuildRuns, Done, Len(prog) = 2, prog[1].op = "or",
                    prog[1].a = 0, prog[1].d = 4
             PROVE  Number[r[4]] = Number[prog[1].h] * Two[W \div 2] + Number[prog[2].h]
  OBVIOUS
<1>1. prog \in BuildConstant(Halves)
  BY Sorted DEF Typed
<1>2. PICK h \in Halves, l \in Halves : h = prog[1].h /\ l = prog[2].h
  BY <1>1 DEF BuildConstant, Upper, Imm
<1>3. at = 3 \/ status # "running"
  BY Held
<1>4. r[4] = Shl(h, W \div 2) \cup l
  BY <1>1, <1>2, <1>3 DEF BuildRuns
<1>5. PICK w \in Word : w = r[4]
  BY Held
<1>6. Number[w] = Number[h] * Two[W \div 2] + Number[l]
  BY <1>4, <1>5, HalvesNumber
<1> QED
  BY <1>2, <1>5, <1>6

LEMMA HalvesEdited ==
  Typed /\ EditRuns =>
    (Done /\ Len(prog) = 2 /\ prog[1].op \in {"and", "or", "xor", "mask"} /\ prog[1].a = 2 /\ prog[1].d = 4 =>
       LET rest(w) == IF prog[1].op = "mask" THEN {} ELSE w
       IN /\ r[4] \cap Low = rest(r[2] \cap Low) /\ r[5] \cap High = rest(r[2] \cap High)
          /\ \A i \in Low :
               /\ i \in r[5] <=> CASE prog[1].op \in {"and", "mask"} -> i \in r[2] /\ i \in prog[1].h
                                   [] prog[1].op = "or" -> i \in r[2] \/ i \in prog[1].h
                                   [] prog[1].op = "xor" -> (i \in r[2]) # (i \in prog[1].h))
<1> SUFFICES ASSUME Typed, EditRuns, Done, Len(prog) = 2, prog[1].op \in {"and", "or", "xor", "mask"},
                    prog[1].a = 2, prog[1].d = 4
             PROVE  LET rest(w) == IF prog[1].op = "mask" THEN {} ELSE w
                    IN /\ r[4] \cap Low = rest(r[2] \cap Low) /\ r[5] \cap High = rest(r[2] \cap High)
                       /\ \A i \in Low :
                            /\ i \in r[5] <=> CASE prog[1].op \in {"and", "mask"} -> i \in r[2] /\ i \in prog[1].h
                                                [] prog[1].op = "or" -> i \in r[2] \/ i \in prog[1].h
                                                [] prog[1].op = "xor" -> (i \in r[2]) # (i \in prog[1].h)
  BY Zenon
<1>1. prog \in EditHalves(Halves)
  BY Sorted DEF Typed
<1>2. PICK h \in Halves : h = prog[1].h
  BY <1>1 DEF EditHalves, Upper
<1>3. at = 3 \/ status # "running"
  BY Held
<1>4. PICK op : op = prog[1].op
  OBVIOUS
<1>5. r[4] = Edited(op, r[2], Shl(h, W \div 2), Low) /\ r[5] = Edited(op, r[2], h, High)
  BY <1>1, <1>2, <1>3, <1>4 DEF EditRuns
<1>6. PICK a \in Word, x \in Word, y \in Word : a = r[2] /\ x = r[4] /\ y = r[5]
  BY Held
<1>7. PICK u : u = Shl(h, W \div 2)
  OBVIOUS
<1>8. u \cap Low = {} /\ h \cap High = {} /\ High \cap Low = {} /\ a \subseteq Low \cup High
  <2>1. \A i \in u : i \notin Low
    <3> SUFFICES ASSUME NEW i \in u PROVE i \notin Low
      OBVIOUS
    <3>1. W \div 2 \in Nat /\ h \in Nats
      BY Widths, WordsOfHalves, WordIn
    <3>2. i \in Nat /\ i >= W \div 2
      BY <1>7, <3>1, ShlIn DEF Nats
    <3> QED
      BY <3>1, <3>2 DEF Low
  <2>2. h \subseteq Low
    BY DEF Halves
  <2>3. a \subseteq Bits
    BY DEF Word
  <2> QED
    BY <2>1, <2>2, <2>3 DEF High
<1>9. CASE op = "and"
  <2>1. x = a \cap (u \cup Low) /\ y = a \cap (h \cup High)
    BY <1>5, <1>6, <1>7, <1>9 DEF Edited
  <2>2. x \cap Low = a \cap Low /\ y \cap High = a \cap High
    BY <1>8, <2>1
  <2>3. \A i \in Low : i \in y <=> i \in a /\ i \in h
    BY <1>8, <2>1
  <2> QED
    BY <1>2, <1>4, <1>6, <1>9, <2>2, <2>3
<1>10. CASE op = "mask"
  <2>1. x = a \cap u /\ y = a \cap h
    BY <1>5, <1>6, <1>7, <1>10 DEF Edited
  <2>2. x \cap Low = {} /\ y \cap High = {}
    BY <1>8, <2>1
  <2>3. \A i \in Low : i \in y <=> i \in a /\ i \in h
    BY <2>1
  <2> QED
    BY <1>2, <1>4, <1>6, <1>10, <2>2, <2>3
<1>11. CASE op = "or"
  <2>1. x = a \cup u /\ y = a \cup h
    BY <1>5, <1>6, <1>7, <1>11 DEF Edited
  <2>2. x \cap Low = a \cap Low /\ y \cap High = a \cap High
    BY <1>8, <2>1
  <2>3. \A i \in Low : i \in y <=> i \in a \/ i \in h
    BY <2>1
  <2> QED
    BY <1>2, <1>4, <1>6, <1>11, <2>2, <2>3
<1>12. CASE op = "xor"
  <2>1. x = (a \ u) \cup (u \ a) /\ y = (a \ h) \cup (h \ a)
    BY <1>5, <1>6, <1>7, <1>12 DEF Edited
  <2>2. x \cap Low = a \cap Low /\ y \cap High = a \cap High
    BY <1>8, <2>1
  <2>3. \A i \in Low : i \in y <=> (i \in a) # (i \in h)
    BY <2>1
  <2> QED
    BY <1>2, <1>4, <1>6, <1>12, <2>2, <2>3
<1> QED
  BY <1>4, <1>9, <1>10, <1>11, <1>12

(* The complement and one is what subtraction from zero gives.             *)
LEMMA Negated ==
  Typed /\ NegateRuns =>
    (Ran(Negate) => r[4] = r[5] /\ (Number[r[4]] + Number[r[2]]) % Two[W] = 0)
<1> SUFFICES ASSUME Typed, NegateRuns, prog \in Negate, Done
             PROVE  r[4] = r[5] /\ (Number[r[4]] + Number[r[2]]) % Two[W] = 0
  BY DEF Ran
<1>1. at = 4 \/ status # "running"
  <2>1. Len(prog) = 3
    BY Sorts
  <2> QED
    BY <2>1, Held
<1>2. PICK a \in Word, x \in Word, y \in Word : a = r[2] /\ x = r[4] /\ y = r[5]
  BY Held
<1>3. /\ x = WordOf(Number[Bits \ a] + Number[{0}])
      /\ y = WordOf(Number[{}] - Number[a])
  BY <1>1, <1>2 DEF NegateRuns
<1>4. Number[{}] = 0 /\ Number[{0}] = 1
  <2>1. {} \in Word /\ {0} \in Word
    BY WordsOfHalves
  <2>2. {} \in Nats /\ {0} \in Nats /\ Number[{}] = Sum[W][{}] /\ Number[{0}] = Sum[W][{0}]
    BY <2>1, WordIn
  <2>3. Sum[W][{}] = 0
    BY <2>2, Widths, SumOfNone
  <2>4. Sum[W][{0}] = Sum[1][{0}]
    BY <2>2, Widths, SumOfFew
  <2>5. Sum[0 + 1][{0}] = Sum[0][{0}] + Two[0] /\ Sum[0][{0}] = 0 /\ Two[0] = 1
    BY <2>2, SumType, TwoType
  <2> QED
    BY <2>2, <2>3, <2>4, <2>5
<1>5. PICK m \in Nat, n \in Nat : m = Two[W] /\ n = Number[a] /\ m >= 1 /\ n < m
  BY Halved, WordIn
<1>6. Number[Bits \ a] = m - 1 - n
  BY <1>5, Complement
<1>7. x = WordOf(m - n) /\ y = WordOf(0 - n)
  BY <1>3, <1>4, <1>5, <1>6
<1>8. Number[x] = (m - n) % m /\ Number[y] = (0 - n) % m
  BY <1>5, <1>7, NumberOfWord
<1>9. (m - n) % m = (0 - n) % m
  <2>1. m - n = (0 - n) + m * 1
    OBVIOUS
  <2>2. m - n \in Int /\ 0 - n \in Int /\ 1 \in Int
    OBVIOUS
  <2> QED
    BY <1>5, <2>1, <2>2, SameRest
<1>10. x = y
  BY <1>8, <1>9, NumberSame
<1>11. (Number[x] + n) % m = 0
  <2>1. CASE n = 0
    <3>1. Number[x] = 0
      <4>1. 0 % m = 0
        BY <1>5
      <4> QED
        BY <1>8, <1>9, <2>1, <4>1
    <3>2. 0 % m = 0
      BY <1>5
    <3> QED
      BY <2>1, <3>1, <3>2
  <2>2. CASE n # 0
    <3>1. Number[x] = m - n
      BY <1>5, <1>8, <2>2
    <3>2. m % m = 0
      <4>1. m = m * 1 + 0 /\ 0 \in 0 .. m - 1
        BY <1>5
      <4> QED
        BY <1>5, <4>1, DividedOnly
    <3> QED
      BY <3>1, <3>2
  <2> QED
    BY <2>1, <2>2
<1> QED
  BY <1>2, <1>5, <1>10, <1>11

LEMMA Discarded ==
  Typed /\ DiscardRuns => (Ran(Discard) => r[4] = {})
<1> SUFFICES ASSUME Typed, DiscardRuns, prog \in Discard, Done PROVE r[4] = {}
  BY DEF Ran
<1>1. at = 3 \/ status # "running"
  <2>1. Len(prog) = 2
    BY Sorts
  <2> QED
    BY <2>1, Held
<1>2. r[4] = WordOf(Number[{}] + Number[{}])
  BY <1>1 DEF DiscardRuns
<1>3. {} \in Word /\ {} \in Nats /\ Number[{}] = Sum[W][{}]
  BY WordsOfHalves, WordIn
<1>4. Number[{}] = 0
  BY <1>3, Widths, SumOfNone
<1>5. WordOf(Number[{}]) = {}
  BY <1>3, WordOfNumber
<1> QED
  BY <1>2, <1>4, <1>5

LEMMA HalvesMake ==
  Typed /\ BuildRuns /\ EditRuns /\ NegateRuns /\ DiscardRuns => HalvesMakeWords
  BY ConstantsBuilt, HalvesEdited, Negated, Discarded DEF HalvesMakeWords

(***************************************************************************)
(* The highest bit                                                         *)
(***************************************************************************)

Searched == IF prog[1].op = "ff1" THEN r[2] ELSE Bits \ r[2]

FindRuns ==
  prog \in FindHighest =>
    \/ at = 1 /\ status = "running"
    \/ at = 2 /\ status = "running" /\ r[4] = Highest(Searched)

LEMMA FindRun ==
  /\ Init => FindRuns
  /\ Typed /\ FindRuns /\ [Next]_vars => FindRuns'
<1>1. Init => FindRuns
  BY DEF Init, FindRuns
<1>2. FindRuns /\ UNCHANGED vars => FindRuns'
  BY DEF FindRuns, Searched, vars
<1>3. ASSUME Typed, FindRuns, Next PROVE FindRuns'
  <2> SUFFICES ASSUME prog \in FindHighest PROVE FindRuns'
    BY <1>3, Steps DEF FindRuns
  <2>1. /\ Performed /\ prog' = prog /\ status = "running" /\ ins = prog[at]
        /\ at \in 1 .. Len(prog) /\ r \in Registers
    BY <1>3, Steps
  <2>2. /\ Len(prog) = 1 /\ prog[1].op \in {"ff1", "ff0"} /\ prog[1].d = 4 /\ prog[1].a = 2
    BY DEF FindHighest, Unary
  <2>3. at = 1 /\ ins = prog[1]
    BY <2>1, <2>2
  <2>4. Puts(Highest(Searched)) /\ ins.d = 4
    BY <2>1, <2>2, <2>3 DEF Performed, Searched
  <2>5. r'[4] = Highest(Searched) /\ r'[2] = r[2] /\ at' = 2 /\ status' = "running"
    BY <2>1, <2>3, <2>4, PutsOne
  <2>6. Searched' = Searched
    BY <2>1, <2>5 DEF Searched
  <2> QED
    BY <2>1, <2>5, <2>6 DEF FindRuns
<1> QED
  BY <1>1, <1>2, <1>3

LEMMA MaxIn ==
  ASSUME NEW v \in Word, v # {}
  PROVE  Max(v) \in v /\ \A i \in v : i <= Max(v)
<1>1. \A i \in v : i \in Nat /\ i < W
  BY Widths DEF Word, Bits
<1> DEFINE Top(n, x) == x < n /\ \A i \in v : i < n => i <= x
           S == {n \in Nat : (\E i \in v : i < n) => \E x \in v : Top(n, x)}
<1>2. 0 \in S
  BY <1>1
<1>3. ASSUME NEW n \in Nat, n \in S PROVE n + 1 \in S
  <2> SUFFICES ASSUME \E i \in v : i < n + 1 PROVE \E x \in v : Top(n + 1, x)
    OBVIOUS
  <2>1. CASE n \in v
    <3>1. Top(n + 1, n)
      BY <1>1
    <3> QED
      BY <2>1, <3>1
  <2>2. CASE n \notin v
    <3>1. \A i \in v : i < n + 1 => i < n
      BY <1>1, <2>2
    <3>2. PICK x \in v : Top(n, x)
      BY <1>3, <3>1
    <3>3. Top(n + 1, x)
      BY <1>1, <3>1, <3>2
    <3> QED
      BY <3>3
  <2> QED
    BY <2>1, <2>2
<1>4. W \in S
  <2> HIDE DEF S
  <2> QED
    BY <1>2, <1>3, Induction, Widths
<1>5. PICK x \in v : \A i \in v : i <= x
  BY <1>1, <1>4
<1>6. \E j \in v : \A i \in v : j >= i
  BY <1>1, <1>5
<1>7. Max(v) \in v /\ \A i \in v : Max(v) >= i
  BY <1>6 DEF Max
<1> QED
  BY <1>1, <1>7

LEMMA TwoBeyond ==
  \A n \in Nat : n < Two[n]
<1> DEFINE S == {n \in Nat : n < Two[n]}
<1>1. 0 \in S
  BY TwoType
<1>2. ASSUME NEW n \in Nat, n \in S PROVE n + 1 \in S
  <2>1. n < Two[n] /\ Two[n] \in Nat /\ Two[n] >= 1 /\ Two[n + 1] = 2 * Two[n]
    BY <1>2, TwoType
  <2> QED
    BY <2>1
<1>3. \A n \in Nat : n \in S
  <2> HIDE DEF S
  <2> QED
    BY <1>1, <1>2, Induction
<1> QED
  BY <1>3

LEMMA HighestIs ==
  ASSUME NEW u \in Word
  PROVE  LET n == Number[Highest(u)]
             v == Number[u]
         IN IF v = 0 THEN n = W ELSE Two[n] <= v /\ v < Two[n + 1]
<1>1. \A n \in 0 .. W : Number[WordOf(n)] = n
  <2> SUFFICES ASSUME NEW n \in 0 .. W PROVE Number[WordOf(n)] = n
    OBVIOUS
  <2>1. PICK m \in Nat : m = Two[W] /\ W < m
    BY Widths, TwoType, TwoBeyond
  <2>2. n \in 0 .. m - 1 /\ n = m * 0 + n /\ n \in Int /\ m >= 1
    BY <2>1, Widths
  <2>3. n % m = n
    BY <2>2, DividedOnly
  <2> QED
    BY <2>1, <2>2, <2>3, NumberOfWord
<1>2. Number[u] = 0 <=> u = {}
  <2>1. {} \in Word /\ {} \in Nats /\ Number[{}] = Sum[W][{}]
    BY WordsOfHalves, WordIn
  <2>2. Number[{}] = 0
    BY <2>1, Widths, SumOfNone
  <2>3. PICK e \in Word : e = {}
    BY <2>1
  <2>4. Number[u] = Number[e] <=> u = e
    BY NumberSame
  <2> QED
    BY <2>2, <2>3, <2>4
<1>3. CASE u = {}
  <2>1. Highest(u) = WordOf(W) /\ W \in 0 .. W
    BY <1>3, Widths DEF Highest
  <2>2. Number[Highest(u)] = W
    BY <1>1, <2>1
  <2> QED
    BY <1>2, <1>3, <2>2
<1>4. CASE u # {}
  <2>1. PICK n \in u : n = Max(u) /\ \A i \in u : i <= n
    BY <1>4, MaxIn
  <2>2. \A i \in u : i \in 0 .. W - 1
    BY DEF Word, Bits
  <2>3. n \in Nat /\ n \in 0 .. W /\ n + 1 \in Nat /\ n + 1 <= W /\ \A i \in u : i < n + 1
    BY <2>1, <2>2, Widths
  <2>4. Number[Highest(u)] = n
    BY <1>1, <1>4, <2>1, <2>3 DEF Highest
  <2>5. u \in Nats /\ Number[u] = Sum[W][u]
    BY WordIn
  <2>6. Sum[W][u] = Sum[n + 1][u]
    BY <2>3, <2>5, Widths, SumOfFew
  <2>7. Sum[n + 1][u] = Sum[n][u] + Two[n] /\ Sum[n][u] \in 0 .. Two[n] - 1
    BY <2>1, <2>3, <2>5, SumType
  <2>8. Two[n] \in Nat /\ Two[n + 1] = 2 * Two[n]
    BY <2>3, TwoType
  <2>9. Two[n] <= Number[u] /\ Number[u] < Two[n + 1]
    BY <2>5, <2>6, <2>7, <2>8
  <2> QED
    BY <1>2, <1>4, <2>4, <2>9
<1> QED
  BY <1>3, <1>4

LEMMA HighestFound ==
  Typed /\ FindRuns => FindsHighest
<1> SUFFICES ASSUME Typed, FindRuns, prog \in FindHighest, Done
             PROVE  LET n == Number[r[4]]
                        v == Number[Searched]
                    IN IF v = 0 THEN n = W ELSE Two[n] <= v /\ v < Two[n + 1]
  BY Zenon DEF FindsHighest, Ran, Searched
<1>1. at = 2 \/ status # "running"
  <2>1. Len(prog) = 1
    BY Sorts
  <2> QED
    BY <2>1, Held
<1>2. r[4] = Highest(Searched)
  BY <1>1 DEF FindRuns
<1>3. Searched \in Word
  <2>1. r[2] \in Word
    BY Held
  <2>2. Bits \ r[2] \in Word
    BY <2>1, Complement
  <2> QED
    BY <2>1, <2>2 DEF Searched
<1> QED
  BY <1>2, <1>3, HighestIs

(* The numbers bits stand for.                                             *)
BitRuns ==
  /\ Typed /\ ReadRuns /\ ReplaceRuns /\ RotateRuns
  /\ BuildRuns /\ EditRuns /\ NegateRuns /\ DiscardRuns /\ FindRuns

(* BitsMeanNumbers: for words and fields of any width, ext and extu read the *)
(* number a field holds, clr, mak and or replace it by the low bits of       *)
(* another and change nothing else, two halves make the constant they spell, *)
(* a half's logical instruction leaves the other half alone, and ff1 and ff0 *)
(* find the highest bit (bitfield, cpu.c:806-823; 1436-1443, 1571-1575).     *)
THEOREM BitsAlwaysMeanNumbers == Spec => []BitsMeanNumbers
<1>1. Init => BitRuns
  BY InitTyped, ReadRun, ReplaceRun, RotateRun, BuildRun, EditRun, NegateRun, DiscardRun, FindRun
     DEF BitRuns
<1>2. BitRuns /\ [Next]_vars => BitRuns'
  BY StepTyped, ReadRun, ReplaceRun, RotateRun, BuildRun, EditRun, NegateRun, DiscardRun, FindRun
     DEF BitRuns
<1>3. BitRuns => BitsMeanNumbers
  BY FieldsHold, HalvesMake, HighestFound DEF BitRuns, BitsMeanNumbers
<1> QED
  BY <1>1, <1>2, <1>3, PTL DEF Spec

(***************************************************************************)
(* Memory                                                                  *)
(***************************************************************************)

Bytes == SUBSET (0 .. B - 1)

From(bytes, n, ea) == UNION {Shl(bytes[ea + k], B * (n - 1 - k)) : k \in 0 .. n - 1}
Extended(op, n, v) == IF op = "ld" /\ n < 4 THEN SignExtended(v, B * n) ELSE v

(* Memory that holds the first word twice, after part of the second one.   *)
Written(a, b, s) ==
  [k \in 0 .. 7 |-> IF k \in s.ea .. s.ea + s.size - 1 THEN ByteOf(b, 4, 4 - s.size + k - s.ea)
                    ELSE ByteOf(a, 4, k % 4)]

ThroughRuns ==
  prog \in ThroughMemory =>
    \/ at = 1 /\ status = "running"
    \/ at = 2 /\ status = "running" /\ \A k \in 0 .. 3 : mem[k] = ByteOf(r[2], 4, k)
    \/ at = 3 /\ status = "running" /\ \A k \in 0 .. 7 : mem[k] = ByteOf(r[2], 4, k % 4)
    \/ at = 4 /\ status = "running" /\ mem = Written(r[2], r[3], prog[3])
    \/ /\ at = 5 /\ status = "running"
       /\ r[5] = Extended(prog[4].op, prog[4].size,
                          From(Written(r[2], r[3], prog[3]), prog[4].size, prog[4].ea))

(* The first four bytes hold a word; then, its first n bytes are another's *)
Holding(a) == \A k \in 0 .. 3 : mem[k] = ByteOf(a, 4, k)
Swapped(a, b, n) == [k \in 0 .. 3 |-> IF k < n THEN ByteOf(b, 4, 4 - n + k) ELSE ByteOf(a, 4, k)]
Spread(a) == [k \in 0 .. 3 |-> ByteOf(a, 4, k)]

ExchangeRuns ==
  prog \in ExchangeMemory =>
    LET n == prog[3].size
    IN \/ at = 1 /\ status = "running"
       \/ at = 2 /\ status = "running" /\ Holding(r[2])
       \/ at = 3 /\ status = "running" /\ Holding(r[2]) /\ r[5] = r[3]
       \/ /\ at = 4 /\ status = "running" /\ r[5] = From(Spread(r[2]), n, 0)
          /\ \A k \in 0 .. 3 : mem[k] = Swapped(r[2], r[3], n)[k]
       \/ /\ at = 5 /\ status = "running" /\ r[5] = From(Spread(r[2]), n, 0)
          /\ r[4] = From(Swapped(r[2], r[3], n), 4, 0)

TimerRuns ==
  prog \in ReadTimer =>
    \/ at = 1 /\ status = "running"
    \/ /\ at = 2 /\ status = "running"
       /\ r[4] = Extended(prog[1].op, prog[1].size,
                          PartOfTimer(prog[1].size, prog[1].ea - TIMER_ADDR))

LEMMA StoredOne ==
  ASSUME NEW w, NEW n \in {1, 2, 4}, NEW ea \in 0 .. 7, NEW k \in 0 .. 7
  PROVE  Stored(w, n, ea)[k] = IF k \in ea .. ea + n - 1 THEN ByteOf(w, 4, 4 - n + k - ea) ELSE mem[k]
<1>1. n - 1 - (k - ea) = 4 - 1 - (4 - n + k - ea)
  OBVIOUS
<1>2. ByteOf(w, n, k - ea) = ByteOf(w, 4, 4 - n + k - ea)
  BY <1>1 DEF ByteOf
<1> QED
  BY <1>2 DEF Stored

(* What is fetched depends only on the bytes that are read.                *)
LEMMA FromSame ==
  ASSUME NEW x, NEW y, NEW n \in {1, 2, 4}, NEW ea \in 0 .. 7,
         \A k \in ea .. ea + n - 1 : x[k] = y[k]
  PROVE  From(x, n, ea) = From(y, n, ea)
<1>1. \A k \in 0 .. n - 1 : ea + k \in ea .. ea + n - 1
  OBVIOUS
<1>2. \A k \in 0 .. n - 1 : Shl(x[ea + k], B * (n - 1 - k)) = Shl(y[ea + k], B * (n - 1 - k))
  BY <1>1
<1>3. {Shl(x[ea + k], B * (n - 1 - k)) : k \in 0 .. n - 1}
        = {Shl(y[ea + k], B * (n - 1 - k)) : k \in 0 .. n - 1}
  BY <1>2
<1> QED
  BY <1>3 DEF From

LEMMA ThroughRun ==
  /\ Init => ThroughRuns
  /\ Typed /\ ThroughRuns /\ [Next]_vars => ThroughRuns'
<1>1. Init => ThroughRuns
  BY DEF Init, ThroughRuns
<1>2. ThroughRuns /\ UNCHANGED vars => ThroughRuns'
  BY DEF ThroughRuns, vars
<1>3. ASSUME Typed, ThroughRuns, Next PROVE ThroughRuns'
  <2> SUFFICES ASSUME prog \in ThroughMemory PROVE ThroughRuns'
    BY <1>3, Steps DEF ThroughRuns
  <2>1. /\ Performed /\ prog' = prog /\ status = "running" /\ ins = prog[at]
        /\ at \in 1 .. Len(prog) /\ r \in Registers /\ mem \in Memory
    BY <1>3, Steps
  <2>2. /\ Len(prog) = 4
        /\ prog[1].op = "st" /\ prog[1].d = 2 /\ prog[1].size = 4 /\ prog[1].ea = 0
        /\ prog[2].op = "st" /\ prog[2].d = 2 /\ prog[2].size = 4 /\ prog[2].ea = 4
        /\ prog[3].op = "st" /\ prog[3].d = 3
        /\ prog[4].op \in {"ld", "ldu"} /\ prog[4].d = 5
    BY DEF ThroughMemory, Access
  <2>3. PICK s \in {1, 2, 4} \X (0 .. 7), l \in {1, 2, 4} \X (0 .. 7) :
          /\ prog[3].size = s[1] /\ prog[3].ea = s[2] /\ s[2] % s[1] = 0
          /\ prog[4].size = l[1] /\ prog[4].ea = l[2] /\ l[2] % l[1] = 0
    BY DEF ThroughMemory, Access
  <2>4. CASE at = 1
    <3>1. mem' = Stored(r[2], 4, 0) /\ Onward /\ r' = r
      BY <2>1, <2>2, <2>4 DEF Performed
    <3>2. \A k \in 0 .. 3 : Stored(r[2], 4, 0)[k] = ByteOf(r[2], 4, k)
      BY StoredOne
    <3> QED
      BY <2>1, <2>4, <3>1, <3>2 DEF ThroughRuns, Onward
  <2>5. CASE at = 2
    <3>1. mem' = Stored(r[2], 4, 4) /\ Onward /\ r' = r
      BY <2>1, <2>2, <2>5 DEF Performed
    <3>2. \A k \in 0 .. 3 : mem[k] = ByteOf(r[2], 4, k)
      BY <1>3, <2>5 DEF ThroughRuns
    <3>3. ASSUME NEW k \in 0 .. 7 PROVE Stored(r[2], 4, 4)[k] = ByteOf(r[2], 4, k % 4)
      <4>1. CASE k < 4
        BY <3>2, <4>1, StoredOne
      <4>2. CASE k >= 4
        <5>1. 4 - 4 + k - 4 = k % 4
          BY <4>2
        <5> QED
          BY <4>2, <5>1, StoredOne
      <4> QED
        BY <4>1, <4>2
    <3> QED
      BY <2>1, <2>5, <3>1, <3>3 DEF ThroughRuns, Onward
  <2>6. CASE at = 3
    <3>1. mem' = Stored(r[3], s[1], s[2]) /\ Onward /\ r' = r
      BY <2>1, <2>2, <2>3, <2>6 DEF Performed
    <3>2. \A k \in 0 .. 7 : mem[k] = ByteOf(r[2], 4, k % 4)
      BY <1>3, <2>6 DEF ThroughRuns
    <3>3. ASSUME NEW k \in 0 .. 7
          PROVE  Stored(r[3], s[1], s[2])[k] = Written(r[2], r[3], prog[3])[k]
      <4>1. s[1] \in {1, 2, 4} /\ s[2] \in 0 .. 7
        OBVIOUS
      <4>2. Stored(r[3], s[1], s[2])[k] =
              IF k \in s[2] .. s[2] + s[1] - 1 THEN ByteOf(r[3], 4, 4 - s[1] + k - s[2])
              ELSE ByteOf(r[2], 4, k % 4)
        <5>1. Stored(r[3], s[1], s[2])[k] =
                IF k \in s[2] .. s[2] + s[1] - 1 THEN ByteOf(r[3], 4, 4 - s[1] + k - s[2]) ELSE mem[k]
          BY <4>1, StoredOne
        <5>2. mem[k] = ByteOf(r[2], 4, k % 4)
          BY <3>2
        <5> QED
          BY <5>1, <5>2, Zenon
      <4>3. Written(r[2], r[3], prog[3])[k] =
              IF k \in s[2] .. s[2] + s[1] - 1 THEN ByteOf(r[3], 4, 4 - s[1] + k - s[2])
              ELSE ByteOf(r[2], 4, k % 4)
        BY <2>3 DEF Written
      <4> QED
        BY <4>2, <4>3
    <3>4. Stored(r[3], s[1], s[2]) = Written(r[2], r[3], prog[3])
      BY <3>3 DEF Stored, Written
    <3> QED
      BY <2>1, <2>6, <3>1, <3>4 DEF ThroughRuns, Onward
  <2>7. CASE at = 4
    <3>1. mem = Written(r[2], r[3], prog[3])
      BY <1>3, <2>7 DEF ThroughRuns
    <3>2. Puts(LoadResult) /\ ins.d = 5 /\ ins = prog[4]
      BY <2>1, <2>2, <2>7 DEF Performed
    <3>3. LoadResult = Extended(prog[4].op, prog[4].size, From(mem, prog[4].size, prog[4].ea))
      <4>1. ins.size \in {1, 2, 4} /\ ins.ea \in 0 .. 7 /\ ~(ins.ea >= TIMER_ADDR)
        BY <2>3, <3>2 DEF TIMER_ADDR
      <4>2. Loaded(ins.size, ins.ea) = From(mem, ins.size, ins.ea)
        BY <4>1, Zenon DEF Loaded, Fetched, From
      <4> QED
        BY <3>2, <4>2, Zenon DEF LoadResult, Extended
    <3>4. /\ r'[5] = LoadResult /\ r'[2] = r[2] /\ r'[3] = r[3]
          /\ at' = 5 /\ status' = "running"
      BY <2>1, <2>7, <3>2, PutsOne
    <3> QED
      BY <2>1, <3>1, <3>3, <3>4 DEF ThroughRuns
  <2> QED
    BY <2>1, <2>2, <2>4, <2>5, <2>6, <2>7
<1> QED
  BY <1>1, <1>2, <1>3

LEMMA ExchangeRun ==
  /\ Init => ExchangeRuns
  /\ Typed /\ ExchangeRuns /\ [Next]_vars => ExchangeRuns'
<1>1. Init => ExchangeRuns
  BY DEF Init, ExchangeRuns
<1>2. ExchangeRuns /\ UNCHANGED vars => ExchangeRuns'
  BY DEF ExchangeRuns, Holding, vars
<1>3. ASSUME Typed, ExchangeRuns, Next PROVE ExchangeRuns'
  <2> SUFFICES ASSUME prog \in ExchangeMemory PROVE ExchangeRuns'
    BY <1>3, Steps DEF ExchangeRuns
  <2>1. /\ Performed /\ prog' = prog /\ status = "running" /\ ins = prog[at]
        /\ at \in 1 .. Len(prog) /\ r \in Registers /\ r[0] = {} /\ mem \in Memory
    BY <1>3, Steps
  <2>2. PICK n \in {1, 4} :
          /\ Len(prog) = 4
          /\ prog[1].op = "st" /\ prog[1].d = 2 /\ prog[1].size = 4 /\ prog[1].ea = 0
          /\ prog[3].op = "xmem" /\ prog[3].d = 5 /\ prog[3].size = n /\ prog[3].ea = 0
          /\ prog[4].op = "ldu" /\ prog[4].d = 4 /\ prog[4].size = 4 /\ prog[4].ea = 0
    BY DEF ExchangeMemory, Access
  <2>3. /\ prog[2].op = "or" /\ prog[2].d = 5 /\ prog[2].a = 0
        /\ prog[2].form = "reg" /\ prog[2].n = 3
    BY DEF ExchangeMemory, Reg
  <2>4. CASE at = 1
    <3>1. mem' = Stored(r[2], 4, 0) /\ Onward /\ r' = r
      BY <2>1, <2>2, <2>4 DEF Performed
    <3>2. \A k \in 0 .. 3 : Stored(r[2], 4, 0)[k] = ByteOf(r[2], 4, k)
      BY StoredOne
    <3> QED
      BY <2>1, <2>4, <3>1, <3>2 DEF ExchangeRuns, Holding, Onward
  <2>5. CASE at = 2
    <3>1. Holding(r[2])
      BY <1>3, <2>5 DEF ExchangeRuns
    <3>2. Puts(r[3]) /\ ins.d = 5
      <4>1. Puts(r[0] \cup r[3]) /\ ins.d = 5
        BY <2>1, <2>3, <2>5 DEF Performed, LogicalResult, Second
      <4> QED
        BY <2>1, <4>1
    <3>3. /\ r'[5] = r[3] /\ r'[2] = r[2] /\ r'[3] = r[3] /\ mem' = mem
          /\ at' = 3 /\ status' = "running"
      BY <2>1, <2>5, <3>2, PutsOne
    <3> QED
      BY <2>1, <3>1, <3>3 DEF ExchangeRuns, Holding
  <2>6. CASE at = 3
    <3>1. Holding(r[2]) /\ r[5] = r[3]
      BY <1>3, <2>6 DEF ExchangeRuns
    <3>2. mem' = Stored(r[3], n, 0) /\ r' = Put(r, 5, Fetched(n, 0)) /\ Onward
      BY <2>1, <2>2, <2>6, <3>1 DEF Performed
    <3>3. r'[5] = Fetched(n, 0) /\ r'[2] = r[2] /\ r'[3] = r[3] /\ at' = 4 /\ status' = "running"
      BY <2>1, <2>6, <3>2 DEF Put, Registers, Onward
    <3>4. Fetched(n, 0) = From(Spread(r[2]), n, 0)
      <4>1. \A k \in 0 .. 0 + n - 1 : mem[k] = Spread(r[2])[k]
        BY <3>1 DEF Holding, Spread
      <4>2. From(mem, n, 0) = From(Spread(r[2]), n, 0)
        BY <4>1, FromSame
      <4> QED
        BY <4>2, Zenon DEF Fetched, From
    <3>5. ASSUME NEW k \in 0 .. 3 PROVE Stored(r[3], n, 0)[k] = Swapped(r[2], r[3], n)[k]
      <4>1. Stored(r[3], n, 0)[k] = IF k \in 0 .. 0 + n - 1 THEN ByteOf(r[3], 4, 4 - n + k - 0) ELSE mem[k]
        BY StoredOne
      <4>2. 4 - n + k - 0 = 4 - n + k /\ (k \in 0 .. 0 + n - 1 <=> k < n)
        OBVIOUS
      <4> QED
        BY <3>1, <4>1, <4>2 DEF Holding, Swapped
    <3> QED
      BY <2>1, <2>2, <3>2, <3>3, <3>4, <3>5 DEF ExchangeRuns
  <2>7. CASE at = 4
    <3>1. /\ r[5] = From(Spread(r[2]), n, 0)
          /\ \A k \in 0 .. 3 : mem[k] = Swapped(r[2], r[3], n)[k]
      BY <1>3, <2>2, <2>7 DEF ExchangeRuns
    <3>2. Puts(LoadResult) /\ ins.d = 4 /\ ins = prog[4]
      BY <2>1, <2>2, <2>7 DEF Performed
    <3>3. LoadResult = From(Swapped(r[2], r[3], n), 4, 0)
      <4>1. ins.op = "ldu" /\ ins.size = 4 /\ ins.ea = 0 /\ ~(0 >= TIMER_ADDR)
        BY <2>2, <3>2 DEF TIMER_ADDR
      <4>2. LoadResult = From(mem, 4, 0)
        <5>1. ~(ins.ea >= TIMER_ADDR)
          BY <4>1
        <5>2. Loaded(ins.size, ins.ea) = From(mem, ins.size, ins.ea)
          BY <5>1, Zenon DEF Loaded, Fetched, From
        <5> QED
          BY <4>1, <5>2 DEF LoadResult
      <4>3. From(mem, 4, 0) = From(Swapped(r[2], r[3], n), 4, 0)
        BY <3>1, FromSame
      <4> QED
        BY <4>2, <4>3
    <3>4. /\ r'[4] = LoadResult /\ r'[2] = r[2] /\ r'[3] = r[3] /\ r'[5] = r[5]
          /\ at' = 5 /\ status' = "running"
      BY <2>1, <2>7, <3>2, PutsOne
    <3> QED
      BY <2>1, <2>2, <3>1, <3>3, <3>4 DEF ExchangeRuns
  <2> QED
    BY <2>1, <2>2, <2>4, <2>5, <2>6, <2>7
<1> QED
  BY <1>1, <1>2, <1>3

LEMMA TimerRun ==
  /\ Init => TimerRuns
  /\ Typed /\ TimerRuns /\ [Next]_vars => TimerRuns'
<1>1. Init => TimerRuns
  BY DEF Init, TimerRuns
<1>2. TimerRuns /\ UNCHANGED vars => TimerRuns'
  BY DEF TimerRuns, vars
<1>3. ASSUME Typed, TimerRuns, Next PROVE TimerRuns'
  <2> SUFFICES ASSUME prog \in ReadTimer PROVE TimerRuns'
    BY <1>3, Steps DEF TimerRuns
  <2>1. /\ Performed /\ prog' = prog /\ status = "running" /\ ins = prog[at]
        /\ at \in 1 .. Len(prog) /\ r \in Registers
    BY <1>3, Steps
  <2>2. PICK l \in {1, 2, 4} \X (0 .. 3) :
          /\ prog[1].size = l[1] /\ prog[1].ea = TIMER_ADDR + l[2]
          /\ Len(prog) = 1 /\ prog[1].op \in {"ld", "ldu"} /\ prog[1].d = 4
    BY DEF ReadTimer, Access
  <2>3. at = 1 /\ ins = prog[1]
    BY <2>1, <2>2
  <2>4. Puts(LoadResult) /\ ins.d = 4
    BY <2>1, <2>2, <2>3 DEF Performed
  <2>5. LoadResult = Extended(prog[1].op, prog[1].size,
                              PartOfTimer(prog[1].size, prog[1].ea - TIMER_ADDR))
    <3>1. ins.ea >= TIMER_ADDR
      BY <2>2, <2>3 DEF TIMER_ADDR
    <3> QED
      BY <2>3, <3>1, Zenon DEF LoadResult, Loaded, Extended
  <2>6. r'[4] = LoadResult /\ at' = 2 /\ status' = "running"
    BY <2>1, <2>3, <2>4, PutsOne
  <2> QED
    BY <2>1, <2>5, <2>6 DEF TimerRuns
<1> QED
  BY <1>1, <1>2, <1>3

(***************************************************************************)
(* Words and the bytes that spell them                                     *)
(***************************************************************************)

SpelledOne(v, a) == \A i \in 0 .. B - 1 : i \in v <=> i \in a
SpelledTwo(v, a, b) == \A i \in 0 .. B - 1 : (i + B \in v <=> i \in a) /\ (i \in v <=> i \in b)
SpelledFour(v, a, b, c, d) ==
  \A i \in 0 .. B - 1 :
    /\ i + 3 * B \in v <=> i \in a
    /\ i + 2 * B \in v <=> i \in b
    /\ i + B \in v <=> i \in c
    /\ i \in v <=> i \in d

LEMMA ByteIn ==
  /\ \A a \in Bytes : a \in Word /\ a \in Nats /\ Number[a] = Sum[B][a] /\ \A i \in a : i \in Nat /\ i < B
  /\ \A w, n, k : ByteOf(w, n, k) \in Bytes
<1>1. ASSUME NEW a \in Bytes
      PROVE  a \in Word /\ a \in Nats /\ Number[a] = Sum[B][a] /\ \A i \in a : i \in Nat /\ i < B
  <2>1. \A i \in a : i \in Bits /\ i \in Nat /\ i < B
    BY Widths DEF Bytes, Bits
  <2>2. a \in Word /\ a \in Nats /\ Number[a] = Sum[W][a]
    BY <2>1, BitsIn, WordIn
  <2>3. B <= W
    BY Widths
  <2>4. Sum[W][a] = Sum[B][a]
    BY <2>1, <2>2, <2>3, Widths, SumOfFew
  <2> QED
    BY <2>1, <2>2, <2>4
<1>2. \A w, n, k : ByteOf(w, n, k) \in Bytes
  BY DEF ByteOf, Bytes
<1> QED
  BY <1>1, <1>2

(* The bits of each byte of a word.                                        *)
LEMMA ByteBits ==
  ASSUME NEW w \in Word, NEW i \in 0 .. B - 1
  PROVE  /\ i \in ByteOf(w, 4, 0) <=> i + 3 * B \in w
         /\ i \in ByteOf(w, 4, 1) <=> i + 2 * B \in w
         /\ i \in ByteOf(w, 4, 2) <=> i + B \in w
         /\ i \in ByteOf(w, 4, 3) <=> i \in w
<1>1. /\ w \in Nats /\ i \in Nat /\ 3 * B \in Nat /\ 2 * B \in Nat /\ B \in Nat /\ 0 \in Nat
      /\ B * (4 - 1 - 0) = 3 * B /\ B * (4 - 1 - 1) = 2 * B /\ B * (4 - 1 - 2) = B
      /\ B * (4 - 1 - 3) = 0 /\ i + 0 = i
  BY WordIn, Widths
<1>2. \A n \in Nat : i \in Shr(w, n) <=> i + n \in w
  BY <1>1, ShrIn
<1>3. /\ i \in ByteOf(w, 4, 0) <=> i \in Shr(w, B * (4 - 1 - 0))
      /\ i \in ByteOf(w, 4, 1) <=> i \in Shr(w, B * (4 - 1 - 1))
      /\ i \in ByteOf(w, 4, 2) <=> i \in Shr(w, B * (4 - 1 - 2))
      /\ i \in ByteOf(w, 4, 3) <=> i \in Shr(w, B * (4 - 1 - 3))
  BY DEF ByteOf
<1>4. /\ i \in ByteOf(w, 4, 0) <=> i \in Shr(w, 3 * B)
      /\ i \in ByteOf(w, 4, 1) <=> i \in Shr(w, 2 * B)
      /\ i \in ByteOf(w, 4, 2) <=> i \in Shr(w, B)
      /\ i \in ByteOf(w, 4, 3) <=> i \in Shr(w, 0)
  BY <1>1, <1>3
<1> QED
  BY <1>1, <1>2, <1>4

LEMMA ByteNumber ==
  ASSUME NEW w \in Word, NEW k \in 0 .. 3
  PROVE  Number[ByteOf(w, 4, k)] = (Number[w] \div Two[B * (3 - k)]) % Two[B]
<1>1. PICK o \in 0 .. W - 1 : o = B * (3 - k) /\ o = B * (4 - 1 - k) /\ B + o <= W
  <2>1. k = 0 \/ k = 1 \/ k = 2 \/ k = 3
    OBVIOUS
  <2>2. /\ B * (3 - 0) = 3 * B /\ B * (3 - 1) = 2 * B /\ B * (3 - 2) = B /\ B * (3 - 3) = 0
        /\ 4 - 1 - k = 3 - k
    BY Widths
  <2> QED
    BY <2>1, <2>2, Widths
<1>2. B \in 0 .. W - 1 /\ Width(B) = B /\ Mask(B) = 0 .. B - 1
  BY Widths DEF Width, Mask
<1>3. ByteOf(w, 4, k) = Shr(w, o) \cap Mask(B)
  BY <1>1, <1>2 DEF ByteOf
<1>4. Number[Shr(w, o) \cap Mask(B)] = (Number[w] \div Two[o]) % Two[B]
  <2>1. Width(B) + o <= W
    BY <1>1, <1>2
  <2>2. LET v == Shr(w, o) \cap Mask(B)
        IN /\ Sum[Width(B)][v] = (Number[w] \div Two[o]) % Two[Width(B)]
           /\ Number[v] = Sum[Width(B)][v]
    BY <1>2, <2>1, FieldNumber
  <2> QED
    BY <1>2, <2>2, Zenon
<1> QED
  BY <1>1, <1>3, <1>4

LEMMA Spelling ==
  ASSUME NEW w \in Word
  PROVE  SpelledFour(w, ByteOf(w, 4, 0), ByteOf(w, 4, 1), ByteOf(w, 4, 2), ByteOf(w, 4, 3))
  BY ByteBits DEF SpelledFour

(* Four bytes spell one word.                                              *)
LEMMA SpelledOnly ==
  ASSUME NEW v \in Word, NEW w \in Word,
         SpelledFour(v, ByteOf(w, 4, 0), ByteOf(w, 4, 1), ByteOf(w, 4, 2), ByteOf(w, 4, 3))
  PROVE  v = w
<1>1. \A i \in 0 .. B - 1 :
        /\ i + 3 * B \in v <=> i + 3 * B \in w
        /\ i + 2 * B \in v <=> i + 2 * B \in w
        /\ i + B \in v <=> i + B \in w
        /\ i \in v <=> i \in w
  BY ByteBits DEF SpelledFour
<1>2. ASSUME NEW i \in 0 .. W - 1 PROVE i \in v <=> i \in w
  <2>1. CASE i < B
    BY <1>1, <2>1, Widths
  <2>2. CASE i >= B /\ i < 2 * B
    <3>1. i - B \in 0 .. B - 1 /\ (i - B) + B = i
      BY <2>2, Widths
    <3> QED
      BY <1>1, <3>1
  <2>3. CASE i >= 2 * B /\ i < 3 * B
    <3>1. i - 2 * B \in 0 .. B - 1 /\ (i - 2 * B) + 2 * B = i
      BY <2>3, Widths
    <3> QED
      BY <1>1, <3>1
  <2>4. CASE i >= 3 * B
    <3>1. i - 3 * B \in 0 .. B - 1 /\ (i - 3 * B) + 3 * B = i
      BY <2>4, Widths
    <3> QED
      BY <1>1, <3>1
  <2> QED
    BY <2>1, <2>2, <2>3, <2>4, Widths
<1> QED
  <2>1. v \subseteq 0 .. W - 1 /\ w \subseteq 0 .. W - 1
    BY DEF Word, Bits
  <2> QED
    BY <1>2, <2>1

(* The bytes of a word are those it is spelled with.                       *)
LEMMA SpelledBytes ==
  ASSUME NEW v \in Word, NEW a \in Bytes, NEW b \in Bytes, NEW c \in Bytes, NEW d \in Bytes,
         SpelledFour(v, a, b, c, d)
  PROVE  /\ ByteOf(v, 4, 0) = a /\ ByteOf(v, 4, 1) = b
         /\ ByteOf(v, 4, 2) = c /\ ByteOf(v, 4, 3) = d
<1>1. \A i \in 0 .. B - 1 :
        /\ i \in ByteOf(v, 4, 0) <=> i \in a
        /\ i \in ByteOf(v, 4, 1) <=> i \in b
        /\ i \in ByteOf(v, 4, 2) <=> i \in c
        /\ i \in ByteOf(v, 4, 3) <=> i \in d
  BY ByteBits DEF SpelledFour
<1>2. \A x \in Bytes, y \in Bytes : (\A i \in 0 .. B - 1 : i \in x <=> i \in y) => x = y
  BY DEF Bytes
<1> QED
  BY <1>1, <1>2, ByteIn

(* Two equal parts joined make a number.                                   *)
LEMMA Joined ==
  ASSUME NEW t \in Nat, NEW v \in Nats, NEW x \in Nats, NEW y \in Nats,
         \A i \in 0 .. t - 1 : i + t \in v <=> i \in x,
         \A i \in 0 .. t - 1 : i \in v <=> i \in y
  PROVE  Sum[t + t][v] = Sum[t][x] * Two[t] + Sum[t][y]
<1>1. Sum[t][v] = Sum[t][y]
  BY SumOfSame
<1>2. Shr(v, t) \in Nats /\ \A i \in Nat : i \in Shr(v, t) <=> i + t \in v
  BY ShrIn
<1>3. \A i \in 0 .. t - 1 : i \in Shr(v, t) <=> i \in x
  BY <1>2
<1>4. Sum[t][Shr(v, t)] = Sum[t][x]
  <2>1. Sum[t][Shr(v, t)] = Sum[t][x] <=> \A i \in 0 .. t - 1 : i \in Shr(v, t) <=> i \in x
    BY <1>2, SumOfSame
  <2> QED
    BY <1>3, <2>1
<1>5. Sum[t + t][v] = Sum[t][v] + Two[t] * Sum[t][Shr(v, t)]
  BY SumSplit
<1>6. PICK p \in Nat, m \in Nat, n \in Nat : p = Two[t] /\ m = Sum[t][x] /\ n = Sum[t][y]
  <2>1. Two[t] \in Nat /\ Sum[t][x] \in Nat /\ Sum[t][y] \in Nat
    BY SumType, TwoType
  <2> QED
    BY <2>1
<1>7. p * m = m * p /\ p * m \in Nat
  BY Natural
<1> QED
  BY <1>1, <1>4, <1>5, <1>6, <1>7

PairOf(x, y) == x * Two[B] + y

LEMMA OneNumber ==
  ASSUME NEW v \in Word, NEW a \in Bytes, SpelledOne(v, a)
  PROVE  Sum[B][v] = Number[a]
<1>1. v \in Nats /\ a \in Nats /\ Number[a] = Sum[B][a]
  BY WordIn, ByteIn
<1> QED
  BY <1>1, Widths, SumOfSame DEF SpelledOne

LEMMA TwoNumber ==
  ASSUME NEW v \in Nats, NEW a \in Bytes, NEW b \in Bytes, SpelledTwo(v, a, b)
  PROVE  Sum[2 * B][v] = PairOf(Number[a], Number[b])
<1>1. a \in Nats /\ b \in Nats /\ Number[a] = Sum[B][a] /\ Number[b] = Sum[B][b]
  BY ByteIn
<1>2. B \in Nat /\ B + B = 2 * B
  BY Widths
<1>3. Sum[B + B][v] = Sum[B][a] * Two[B] + Sum[B][b]
  BY <1>1, <1>2, Joined DEF SpelledTwo
<1> QED
  BY <1>1, <1>2, <1>3 DEF PairOf

LEMMA FourNumber ==
  ASSUME NEW v \in Word, NEW a \in Bytes, NEW b \in Bytes, NEW c \in Bytes, NEW d \in Bytes,
         SpelledFour(v, a, b, c, d)
  PROVE  Number[v] = PairOf(Number[a], Number[b]) * Two[2 * B] + PairOf(Number[c], Number[d])
<1>1. PICK t \in Nat : t = 2 * B /\ t + t = W
  BY Widths
<1>2. v \in Nats /\ Number[v] = Sum[W][v]
  BY WordIn
<1>3. Shr(v, t) \in Nats /\ \A i \in Nat : i \in Shr(v, t) <=> i + t \in v
  BY <1>1, <1>2, ShrIn
<1>4. Sum[t + t][v] = Sum[t][Shr(v, t)] * Two[t] + Sum[t][v]
  BY <1>1, <1>2, <1>3, Joined
<1>5. Sum[t][v] = PairOf(Number[c], Number[d])
  <2>1. SpelledTwo(v, c, d)
    BY DEF SpelledFour, SpelledTwo
  <2> QED
    BY <1>1, <1>2, <2>1, TwoNumber
<1>6. Sum[t][Shr(v, t)] = PairOf(Number[a], Number[b])
  <2>1. SpelledTwo(Shr(v, t), a, b)
    <3> SUFFICES ASSUME NEW i \in 0 .. B - 1
                 PROVE  (i + B \in Shr(v, t) <=> i \in a) /\ (i \in Shr(v, t) <=> i \in b)
      BY DEF SpelledTwo
    <3>1. i \in Nat /\ i + B \in Nat /\ (i + B) + t = i + 3 * B /\ i + t = i + 2 * B
      BY <1>1, Widths
    <3>2. (i + 3 * B \in v <=> i \in a) /\ (i + 2 * B \in v <=> i \in b)
      BY DEF SpelledFour
    <3>3. (i + B \in Shr(v, t) <=> (i + B) + t \in v) /\ (i \in Shr(v, t) <=> i + t \in v)
      BY <1>3, <3>1
    <3> QED
      BY <3>1, <3>2, <3>3
  <2> QED
    BY <1>1, <1>3, <2>1, TwoNumber
<1> QED
  BY <1>1, <1>2, <1>4, <1>5, <1>6

(* Extending a part of a word by its highest bit gives a signed number.    *)
LEMMA SignExtends ==
  ASSUME NEW v \in Word, NEW w \in 1 .. W - 1, \A i \in v : i < w
  PROVE  Signed(SignExtended(v, w)) =
           IF Number[v] >= Two[w - 1] THEN Number[v] - Two[w] ELSE Number[v]
<1>1. v \in Nats /\ Number[v] = Sum[W][v] /\ w \in Nat /\ W \in Nat /\ w <= W
  BY WordIn, Widths
<1>2. Number[v] = Sum[w][v]
  <2>1. Sum[W][v] = Sum[w][v]
    BY <1>1, SumOfFew
  <2> QED
    BY <1>1, <2>1
<1>3. CASE w - 1 \in v
  BY <1>2, <1>3, FilledNumber
<1>4. CASE w - 1 \notin v
  <2>1. SignExtended(v, w) = v /\ W - 1 \notin v
    BY <1>1, <1>4 DEF SignExtended
  <2>2. Signed(v) = Number[v]
    BY <2>1 DEF Signed
  <2>3. w - 1 \in Nat /\ (w - 1) + 1 = w /\ Two[w - 1] \in Nat
    BY TwoType
  <2>4. /\ Sum[(w - 1) + 1][v] = Sum[w - 1][v] + IF w - 1 \in v THEN Two[w - 1] ELSE 0
        /\ Sum[w - 1][v] \in 0 .. Two[w - 1] - 1
    BY <1>1, <2>3, SumType
  <2>5. Sum[w][v] = Sum[w - 1][v] /\ Sum[w - 1][v] \in Nat
    BY <1>4, <2>3, <2>4
  <2>6. Number[v] < Two[w - 1]
    BY <1>2, <2>3, <2>4, <2>5
  <2> QED
    BY <2>1, <2>2, <2>3, <2>5, <2>6, <1>2
<1> QED
  BY <1>3, <1>4

(* What a load makes of v, the n bytes it has read, of number x.           *)
LEMMA LoadedNumber ==
  ASSUME NEW v \in Word, NEW n \in {1, 2, 4}, \A i \in v : i < B * n, NEW op \in {"ld", "ldu"}
  PROVE  LET u == Extended(op, n, v)
             x == Number[v]
         IN (IF op = "ld" THEN Signed(u) ELSE Number[u]) =
              IF op = "ld" /\ x >= Two[B * n - 1] THEN x - Two[B * n] ELSE x
<1>1. CASE op = "ldu"
  BY <1>1 DEF Extended
<1>2. CASE op = "ld" /\ n = 4
  <2>1. Extended(op, n, v) = v /\ B * n = W
    BY <1>2, Widths DEF Extended
  <2> QED
    BY <1>2, <2>1, SignedIs
<1>3. CASE op = "ld" /\ n # 4
  <2>1. PICK w \in 1 .. W - 1 : w = B * n
    BY <1>3, Widths
  <2>2. Extended(op, n, v) = SignExtended(v, w)
    BY <1>3, <2>1 DEF Extended
  <2>3. \A i \in v : i < w
    BY <2>1
  <2> QED
    BY <1>3, <2>1, <2>2, <2>3, SignExtends
<1> QED
  BY <1>1, <1>2, <1>3

LEMMA PlacedBits ==
  ASSUME NEW a \in Bytes, NEW o \in Nat, o + B <= W
  PROVE  \A i \in Nat : i \in Shl(a, o) <=> i >= o /\ i < o + B /\ i - o \in a
<1>1. a \in Nats /\ \A j \in a : j \in Nat /\ j < B
  BY ByteIn
<1>2. \A i \in Nat : i \in Shl(a, o) <=> i < W /\ i >= o /\ i - o \in a
  BY <1>1, ShlIn
<1>3. \A i \in Nat : i - o \in a => i < o + B
  BY <1>1, Widths
<1> QED
  BY <1>2, <1>3, Widths

(* The bytes x holds from ea on spell the n bytes of v.                    *)
Spelled(n, v, x, ea) ==
  /\ v \in Word /\ \A i \in v : i < B * n
  /\ n = 1 => SpelledOne(v, x[ea])
  /\ n = 2 => SpelledTwo(v, x[ea], x[ea + 1])
  /\ n = 4 => SpelledFour(v, x[ea], x[ea + 1], x[ea + 2], x[ea + 3])

LEMMA FromIn ==
  ASSUME NEW x, NEW n, NEW ea
  PROVE  From(x, n, ea) \in Word
<1>1. \A i \in From(x, n, ea) : i \in Bits
  BY MovedIn DEF From, Word
<1> QED
  BY <1>1, BitsIn

LEMMA FromSpelled ==
  ASSUME NEW x, NEW n \in {1, 2, 4}, NEW ea \in 0 .. 7, \A k \in 0 .. n - 1 : x[ea + k] \in Bytes
  PROVE  Spelled(n, From(x, n, ea), x, ea)
<1>1. PICK v \in Word : v = From(x, n, ea)
  BY FromIn
<1>2. \A i : i \in v <=> \E k \in 0 .. n - 1 : i \in Shl(x[ea + k], B * (n - 1 - k))
  BY <1>1 DEF From
<1>3. \A i \in v : i \in Nat
  BY Widths DEF Word, Bits
<1>4. CASE n = 1
  <2>1. PICK a \in Bytes : a = x[ea]
    BY <1>4
  <2>2. B * (1 - 1 - 0) = 0 /\ ea + 0 = ea
    BY Widths
  <2>3. \A i : i \in v <=> i \in Shl(a, 0)
    BY <1>2, <1>4, <2>1, <2>2
  <2>4. \A i \in Nat : i \in Shl(a, 0) <=> i >= 0 /\ i < 0 + B /\ i - 0 \in a
    BY PlacedBits, Widths
  <2>5. \A i \in Nat : i \in v <=> i < B /\ i \in a
    BY <2>3, <2>4, Widths
  <2>6. SpelledOne(v, a) /\ \A i \in v : i < B * n
    BY <1>3, <1>4, <2>5, Widths DEF SpelledOne
  <2> QED
    BY <1>1, <1>4, <2>1, <2>6 DEF Spelled
<1>5. CASE n = 2
  <2>1. PICK a \in Bytes, b \in Bytes : a = x[ea] /\ b = x[ea + 1]
    BY <1>5
  <2>2. B * (2 - 1 - 0) = B /\ B * (2 - 1 - 1) = 0 /\ ea + 0 = ea
    BY Widths
  <2>3. \A i : i \in v <=> i \in Shl(a, B) \/ i \in Shl(b, 0)
    <3>1. \A k : k \in 0 .. n - 1 <=> k = 0 \/ k = 1
      BY <1>5
    <3> QED
      BY <1>2, <1>5, <2>1, <2>2, <3>1
  <2>4. /\ \A i \in Nat : i \in Shl(a, B) <=> i >= B /\ i < B + B /\ i - B \in a
        /\ \A i \in Nat : i \in Shl(b, 0) <=> i >= 0 /\ i < 0 + B /\ i - 0 \in b
    BY PlacedBits, Widths
  <2>5. SpelledTwo(v, a, b)
    <3> SUFFICES ASSUME NEW i \in 0 .. B - 1
                 PROVE  (i + B \in v <=> i \in a) /\ (i \in v <=> i \in b)
      BY DEF SpelledTwo
    <3>1. /\ i \in Nat /\ i + B \in Nat /\ i < B /\ (i + B) - B = i /\ i - 0 = i /\ i + B < B + B
          /\ i >= 0 /\ ~(i + B < 0 + B) /\ ~(i >= B) /\ i < 0 + B /\ i + B >= B
      BY Widths
    <3> QED
      BY <2>3, <2>4, <3>1
  <2>6. \A i \in v : i < B * n
    BY <1>3, <1>5, <2>3, <2>4, Widths
  <2> QED
    BY <1>1, <1>5, <2>1, <2>5, <2>6 DEF Spelled
<1>6. CASE n = 4
  <2>1. PICK a \in Bytes, b \in Bytes, c \in Bytes, d \in Bytes :
          a = x[ea] /\ b = x[ea + 1] /\ c = x[ea + 2] /\ d = x[ea + 3]
    BY <1>6
  <2>2. /\ B * (4 - 1 - 0) = 3 * B /\ B * (4 - 1 - 1) = 2 * B /\ B * (4 - 1 - 2) = B
        /\ B * (4 - 1 - 3) = 0 /\ ea + 0 = ea
    BY Widths
  <2>3. \A i : i \in v <=> \/ i \in Shl(a, 3 * B) \/ i \in Shl(b, 2 * B)
                           \/ i \in Shl(c, B) \/ i \in Shl(d, 0)
    <3>1. \A k : k \in 0 .. n - 1 <=> k = 0 \/ k = 1 \/ k = 2 \/ k = 3
      BY <1>6
    <3> QED
      BY <1>2, <1>6, <2>1, <2>2, <3>1
  <2>4. /\ \A i \in Nat : i \in Shl(a, 3 * B) <=> i >= 3 * B /\ i < 3 * B + B /\ i - 3 * B \in a
        /\ \A i \in Nat : i \in Shl(b, 2 * B) <=> i >= 2 * B /\ i < 2 * B + B /\ i - 2 * B \in b
        /\ \A i \in Nat : i \in Shl(c, B) <=> i >= B /\ i < B + B /\ i - B \in c
        /\ \A i \in Nat : i \in Shl(d, 0) <=> i >= 0 /\ i < 0 + B /\ i - 0 \in d
    BY PlacedBits, Widths
  <2>5. SpelledFour(v, a, b, c, d)
    <3> SUFFICES ASSUME NEW i \in 0 .. B - 1
                 PROVE  /\ i + 3 * B \in v <=> i \in a
                        /\ i + 2 * B \in v <=> i \in b
                        /\ i + B \in v <=> i \in c
                        /\ i \in v <=> i \in d
      BY DEF SpelledFour
    <3>1. /\ i \in Nat /\ i + B \in Nat /\ i + 2 * B \in Nat /\ i + 3 * B \in Nat /\ B \in Nat
          /\ i >= 0 /\ i < B
      BY Widths
    <3>2. i + 3 * B \in v <=> i \in a
      <4>1. (i + 3 * B) - 3 * B = i
        BY <3>1
      <4> QED
        BY <2>3, <2>4, <3>1, <4>1
    <3>3. i + 2 * B \in v <=> i \in b
      <4>1. (i + 2 * B) - 2 * B = i
        BY <3>1
      <4> QED
        BY <2>3, <2>4, <3>1, <4>1
    <3>4. i + B \in v <=> i \in c
      <4>1. (i + B) - B = i
        BY <3>1
      <4> QED
        BY <2>3, <2>4, <3>1, <4>1
    <3>5. i \in v <=> i \in d
      <4>1. i - 0 = i
        BY <3>1
      <4> QED
        BY <2>3, <2>4, <3>1, <4>1
    <3> QED
      BY <3>2, <3>3, <3>4, <3>5
  <2>6. \A i \in v : i < B * n
    BY <1>3, <1>6, Widths DEF Word, Bits
  <2> QED
    BY <1>1, <1>6, <2>1, <2>5, <2>6 DEF Spelled
<1> QED
  BY <1>4, <1>5, <1>6

ValueOf(b, n) ==
  CASE n = 1 -> b[0]
    [] n = 2 -> b[0] * Two[B] + b[1]
    [] n = 4 -> (b[0] * Two[B] + b[1]) * Two[2 * B] + (b[2] * Two[B] + b[3])

LEMMA SpelledNumber ==
  ASSUME NEW x, NEW n \in {1, 2, 4}, NEW ea \in Nat, \A k \in 0 .. n - 1 : x[ea + k] \in Bytes,
         NEW g, \A k \in 0 .. n - 1 : g[k] = Number[x[ea + k]],
         NEW v, Spelled(n, v, x, ea)
  PROVE  Number[v] = ValueOf(g, n)
<1>1. v \in Word /\ v \in Nats /\ Number[v] = Sum[W][v] /\ \A i \in v : i < B * n
  BY WordIn DEF Spelled
<1>2. ea + 0 = ea
  OBVIOUS
<1>3. CASE n = 1
  <2>1. g[0] = Number[x[ea]] /\ x[ea] \in Bytes /\ SpelledOne(v, x[ea])
    BY <1>2, <1>3 DEF Spelled
  <2>2. Sum[W][v] = Sum[B][v]
    <3>1. \A i \in v : i < B
      BY <1>1, <1>3, Widths
    <3>2. B <= W /\ B \in Nat /\ W \in Nat
      BY Widths
    <3> QED
      BY <1>1, <3>1, <3>2, SumOfFew
  <2>3. Number[v] = g[0]
    BY <1>1, <2>1, <2>2, OneNumber
  <2> QED
    BY <1>3, <2>3 DEF ValueOf
<1>4. CASE n = 2
  <2>1. /\ g[0] = Number[x[ea]] /\ g[1] = Number[x[ea + 1]]
        /\ x[ea] \in Bytes /\ x[ea + 1] \in Bytes /\ SpelledTwo(v, x[ea], x[ea + 1])
    BY <1>2, <1>4 DEF Spelled
  <2>2. Sum[W][v] = Sum[2 * B][v]
    <3>1. PICK t \in Nat : t = 2 * B /\ t <= W /\ W \in Nat /\ B * n = t
      BY <1>4, Widths
    <3>2. \A i \in v : i < t
      BY <1>1, <3>1
    <3> QED
      BY <1>1, <3>1, <3>2, SumOfFew
  <2>3. Number[v] = PairOf(g[0], g[1])
    BY <1>1, <2>1, <2>2, TwoNumber
  <2> QED
    BY <1>4, <2>3 DEF ValueOf, PairOf
<1>5. CASE n = 4
  <2>1. /\ g[0] = Number[x[ea]] /\ g[1] = Number[x[ea + 1]]
        /\ g[2] = Number[x[ea + 2]] /\ g[3] = Number[x[ea + 3]]
        /\ x[ea] \in Bytes /\ x[ea + 1] \in Bytes /\ x[ea + 2] \in Bytes /\ x[ea + 3] \in Bytes
        /\ SpelledFour(v, x[ea], x[ea + 1], x[ea + 2], x[ea + 3])
    BY <1>2, <1>5 DEF Spelled
  <2>2. Number[v] = PairOf(g[0], g[1]) * Two[2 * B] + PairOf(g[2], g[3])
    BY <1>1, <2>1, FourNumber
  <2> QED
    BY <1>5, <2>2 DEF ValueOf, PairOf
<1> QED
  BY <1>3, <1>4, <1>5

LEMMA PartSpelled ==
  ASSUME NEW n \in {1, 2, 4}, NEW off \in 0 .. 3, off % n = 0
  PROVE  Spelled(n, PartOfTimer(n, off), Spread(Now), off)
<1>0. \A k \in 0 .. 3 : Spread(Now)[k] = ByteOf(Now, 4, k)
  BY DEF Spread
<1>1. PICK w \in Word : w = Now
  BY WordsAssumption
<1>2. w \in Nats
  BY WordIn
<1>3. CASE n = 1
  <2>1. 3 * B - off * B = B * (4 - 1 - off)
    <3>1. off = 0 \/ off = 1 \/ off = 2 \/ off = 3
      OBVIOUS
    <3> QED
      BY <3>1, Widths
  <2>2. PartOfTimer(n, off) = ByteOf(w, 4, off)
    BY <1>1, <1>3, <2>1 DEF PartOfTimer, ByteOf
  <2>3. PICK v \in Bytes : v = ByteOf(w, 4, off)
    BY ByteIn
  <2>4. v \in Word /\ \A i \in v : i < B * n
    BY <1>3, ByteIn, Widths
  <2> QED
    BY <1>0, <1>1, <1>3, <2>2, <2>3, <2>4 DEF Spelled, SpelledOne
<1>4. CASE n = 2
  <2>1. PICK o \in Nat : o = (IF off < 2 THEN 2 * B ELSE 0)
    BY Widths
  <2>2. PICK v : v = Shr(w, o) \cap (0 .. 2 * B - 1)
    OBVIOUS
  <2>3. PartOfTimer(n, off) = v
    BY <1>1, <1>4, <2>1, <2>2 DEF PartOfTimer
  <2>4. \A i \in Nat : i \in Shr(w, o) <=> i + o \in w
    BY <1>2, ShrIn
  <2>5. \A i \in 0 .. 2 * B - 1 : i \in v <=> i + o \in w
    BY <2>2, <2>4, Widths
  <2>6. v \in Word /\ \A i \in v : i < B * n
    <3>1. \A i \in v : i \in Bits
      BY <2>2, Widths DEF Bits
    <3>2. \A i \in v : i < B * n
      BY <1>4, <2>2, Widths
    <3> QED
      BY <3>1, <3>2, BitsIn
  <2>7. CASE off = 0
    <3>1. SpelledTwo(v, ByteOf(w, 4, 0), ByteOf(w, 4, 1))
      <4> SUFFICES ASSUME NEW i \in 0 .. B - 1
                   PROVE  /\ i + B \in v <=> i \in ByteOf(w, 4, 0)
                          /\ i \in v <=> i \in ByteOf(w, 4, 1)
        BY DEF SpelledTwo
      <4>1. /\ i + B \in 0 .. 2 * B - 1 /\ i \in 0 .. 2 * B - 1
            /\ (i + B) + o = i + 3 * B /\ i + o = i + 2 * B
        BY <2>1, <2>7, Widths
      <4> QED
        BY <2>5, <4>1, ByteBits
    <3> QED
      BY <1>0, <1>1, <1>4, <2>3, <2>6, <2>7, <3>1 DEF Spelled
  <2>8. CASE off = 2
    <3>1. SpelledTwo(v, ByteOf(w, 4, 2), ByteOf(w, 4, 3))
      <4> SUFFICES ASSUME NEW i \in 0 .. B - 1
                   PROVE  /\ i + B \in v <=> i \in ByteOf(w, 4, 2)
                          /\ i \in v <=> i \in ByteOf(w, 4, 3)
        BY DEF SpelledTwo
      <4>1. /\ i + B \in 0 .. 2 * B - 1 /\ i \in 0 .. 2 * B - 1
            /\ (i + B) + o = i + B /\ i + o = i
        BY <2>1, <2>8, Widths
      <4> QED
        BY <2>5, <4>1, ByteBits
    <3> QED
      BY <1>0, <1>1, <1>4, <2>3, <2>6, <2>8, <3>1 DEF Spelled
  <2> QED
    BY <1>4, <2>7, <2>8
<1>5. CASE n = 4
  <2>1. off = 0 /\ PartOfTimer(n, off) = w
    BY <1>1, <1>5 DEF PartOfTimer
  <2>2. \A i \in w : i < B * n
    BY <1>5, Widths DEF Word, Bits
  <2>3. SpelledFour(w, ByteOf(w, 4, 0), ByteOf(w, 4, 1), ByteOf(w, 4, 2), ByteOf(w, 4, 3))
    BY Spelling
  <2> QED
    BY <1>0, <1>1, <1>5, <2>1, <2>2, <2>3 DEF Spelled
<1> QED
  BY <1>3, <1>4, <1>5

(***************************************************************************)
(* What a load makes of the bytes it reads, as the property has it.        *)
(***************************************************************************)

ByteNum(w, k) == (Number[w] \div Two[B * (3 - k)]) % Two[B]
PairIn(b) == b[0] * Two[B] + b[1]
QuadIn(b) == PairIn(b) * Two[2 * B] + PairIn([k \in 0 .. 1 |-> b[k + 2]])
ValueIn(b, n) == CASE n = 1 -> b[0] [] n = 2 -> PairIn(b) [] n = 4 -> QuadIn(b)
LoadedIn(bytes, i) ==
  LET n == ValueIn([k \in 0 .. i.size - 1 |-> bytes[(i.ea % 8) + k]], i.size)
  IN IF i.op = "ld" /\ n >= Two[B * i.size - 1] THEN n - Two[B * i.size] ELSE n
As(i, w) == IF i.op = "ld" THEN Signed(w) ELSE Number[w]

LEMMA ValueSame ==
  ASSUME NEW b, NEW n \in {1, 2, 4}
  PROVE  ValueIn(b, n) = ValueOf(b, n)
<1>1. PICK c : c = [k \in 0 .. 1 |-> b[k + 2]]
  OBVIOUS
<1>2. c[0] = b[2] /\ c[1] = b[3]
  <2>1. 0 + 2 = 2 /\ 1 + 2 = 3
    OBVIOUS
  <2> QED
    BY <1>1, <2>1
<1>3. QuadIn(b) = (b[0] * Two[B] + b[1]) * Two[2 * B] + (b[2] * Two[B] + b[3])
  BY <1>1, <1>2 DEF QuadIn, PairIn
<1> QED
  BY <1>3 DEF ValueIn, ValueOf, PairIn

(* An instruction that has loaded v, n bytes spelled by those x holds.     *)
LEMMA Loads ==
  ASSUME NEW i, i.op \in {"ld", "ldu"}, NEW n \in {1, 2, 4}, NEW ea \in 0 .. 7,
         i.size = n, i.ea % 8 = ea,
         NEW x, \A k \in 0 .. n - 1 : x[ea + k] \in Bytes,
         NEW bytes, \A k \in 0 .. n - 1 : bytes[ea + k] = Number[x[ea + k]],
         NEW v, Spelled(n, v, x, ea)
  PROVE  As(i, Extended(i.op, n, v)) = LoadedIn(bytes, i)
<1>1. PICK g : g = [k \in 0 .. n - 1 |-> Number[x[ea + k]]]
  OBVIOUS
<1>2. [k \in 0 .. i.size - 1 |-> bytes[(i.ea % 8) + k]] = g
  BY <1>1
<1>3. Number[v] = ValueIn(g, n)
  <2>1. ea \in Nat
    OBVIOUS
  <2>2. \A k \in 0 .. n - 1 : g[k] = Number[x[ea + k]]
    BY <1>1
  <2>4. Number[v] = ValueOf(g, n)
    BY <2>1, <2>2, SpelledNumber
  <2>3. ValueIn(g, n) = ValueOf(g, n)
    BY ValueSame
  <2> QED
    BY <2>3, <2>4
<1>4. v \in Word /\ \A j \in v : j < B * n
  BY DEF Spelled
<1>5. PICK op \in {"ld", "ldu"} : op = i.op
  OBVIOUS
<1>6. PICK y : y = Number[v]
  OBVIOUS
<1>7. PICK u : u = Extended(op, n, v)
  OBVIOUS
<1>8. (IF op = "ld" THEN Signed(u) ELSE Number[u]) =
        IF op = "ld" /\ y >= Two[B * n - 1] THEN y - Two[B * n] ELSE y
  BY <1>4, <1>5, <1>7, <1>6, LoadedNumber
<1>9. LoadedIn(bytes, i) = IF op = "ld" /\ y >= Two[B * n - 1] THEN y - Two[B * n] ELSE y
  BY <1>2, <1>3, <1>5, <1>6 DEF LoadedIn
<1> QED
  BY <1>5, <1>7, <1>8, <1>9, <1>6 DEF As

PartlyWritten ==
  LET s == prog[3]
  IN [k \in 0 .. 7 |->
        IF k \in s.ea .. s.ea + s.size - 1 THEN ByteNum(r[3], 4 - s.size + k - s.ea)
        ELSE ByteNum(r[2], k % 4)]

LEMMA ThroughLoads ==
  Typed /\ ThroughRuns =>
    (Done /\ Len(prog) = 4 /\ prog[3].op = "st" => As(prog[4], r[5]) = LoadedIn(PartlyWritten, prog[4]))
<1> SUFFICES ASSUME Typed, ThroughRuns, Done, Len(prog) = 4, prog[3].op = "st"
             PROVE  As(prog[4], r[5]) = LoadedIn(PartlyWritten, prog[4])
  OBVIOUS
<1>1. prog \in ThroughMemory
  BY Sorted DEF Typed
<1>2. at = 5 \/ status # "running"
  BY Held
<1>3. PICK s \in {1, 2, 4} \X (0 .. 7), l \in {1, 2, 4} \X (0 .. 7) :
        /\ prog[3].size = s[1] /\ prog[3].ea = s[2] /\ s[2] % s[1] = 0
        /\ prog[4].size = l[1] /\ prog[4].ea = l[2] /\ l[2] % l[1] = 0
        /\ prog[4].op \in {"ld", "ldu"}
  BY <1>1 DEF ThroughMemory, Access
<1>4. PICK m \in {1, 2, 4}, sa \in 0 .. 7 : m = prog[3].size /\ sa = prog[3].ea
  BY <1>3
<1>5. PICK n \in {1, 2, 4}, ea \in 0 .. 7 :
        n = prog[4].size /\ ea = prog[4].ea /\ ea % n = 0
  BY <1>3
<1>6. PICK a \in Word, b \in Word : a = r[2] /\ b = r[3]
  BY Held
<1>7. PICK x : x = Written(a, b, prog[3])
  OBVIOUS
<1>8. PICK v : v = From(x, n, ea)
  OBVIOUS
<1>9. r[5] = Extended(prog[4].op, n, v)
  BY <1>1, <1>2, <1>5, <1>6, <1>7, <1>8 DEF ThroughRuns
<1>10. \A k \in 0 .. n - 1 : ea + k \in 0 .. 7
  BY <1>5
<1>11. ASSUME NEW k \in 0 .. 7
       PROVE  x[k] \in Bytes /\ PartlyWritten[k] = Number[x[k]]
  <2>1. x[k] = IF k \in sa .. sa + m - 1 THEN ByteOf(b, 4, 4 - m + k - sa) ELSE ByteOf(a, 4, k % 4)
    BY <1>4, <1>7 DEF Written
  <2>2. PartlyWritten[k] =
          IF k \in sa .. sa + m - 1 THEN ByteNum(b, 4 - m + k - sa) ELSE ByteNum(a, k % 4)
    BY <1>4, <1>6 DEF PartlyWritten
  <2>3. CASE k \in sa .. sa + m - 1
    <3>1. PICK j \in 0 .. 3 : j = 4 - m + k - sa
      BY <2>3
    <3>2. Number[ByteOf(b, 4, j)] = ByteNum(b, j) /\ ByteOf(b, 4, j) \in Bytes
      BY ByteNumber, ByteIn DEF ByteNum
    <3> QED
      BY <2>1, <2>2, <2>3, <3>1, <3>2
  <2>4. CASE k \notin sa .. sa + m - 1
    <3>1. PICK j \in 0 .. 3 : j = k % 4
      OBVIOUS
    <3>2. Number[ByteOf(a, 4, j)] = ByteNum(a, j) /\ ByteOf(a, 4, j) \in Bytes
      BY ByteNumber, ByteIn DEF ByteNum
    <3> QED
      BY <2>1, <2>2, <2>4, <3>1, <3>2
  <2> QED
    BY <2>3, <2>4
<1>12. \A k \in 0 .. n - 1 : x[ea + k] \in Bytes /\ PartlyWritten[ea + k] = Number[x[ea + k]]
  BY <1>10, <1>11
<1>13. Spelled(n, v, x, ea)
  BY <1>8, <1>12, FromSpelled
<1>14. PICK i, bytes : i = prog[4] /\ bytes = PartlyWritten
  OBVIOUS
<1>15. i.ea % 8 = ea /\ i.size = n /\ i.op \in {"ld", "ldu"}
  BY <1>3, <1>5, <1>14
<1>16. \A k \in 0 .. n - 1 : x[ea + k] \in Bytes /\ bytes[ea + k] = Number[x[ea + k]]
  BY <1>12, <1>14
<1>17. As(i, Extended(i.op, n, v)) = LoadedIn(bytes, i)
  BY <1>13, <1>15, <1>16, Loads
<1> QED
  BY <1>9, <1>14, <1>17

LEMMA TimerLoads ==
  Typed /\ TimerRuns =>
    (Ran(ReadTimer) => As(prog[1], r[4]) = LoadedIn([k \in 0 .. 3 |-> ByteNum(Now, k)], prog[1]))
<1> SUFFICES ASSUME Typed, TimerRuns, prog \in ReadTimer, Done
             PROVE  As(prog[1], r[4]) = LoadedIn([k \in 0 .. 3 |-> ByteNum(Now, k)], prog[1])
  BY DEF Ran
<1>1. at = 2 \/ status # "running"
  <2>1. Len(prog) = 1
    BY Sorts
  <2> QED
    BY <2>1, Held
<1>2. PICK l \in {1, 2, 4} \X (0 .. 3) :
        /\ prog[1].size = l[1] /\ prog[1].ea = TIMER_ADDR + l[2] /\ l[2] % l[1] = 0
        /\ prog[1].op \in {"ld", "ldu"}
  BY DEF ReadTimer, Access
<1>3. PICK n \in {1, 2, 4}, off \in 0 .. 3 :
        n = prog[1].size /\ prog[1].ea = 8 + off /\ off % n = 0
  BY <1>2 DEF TIMER_ADDR
<1>4. PICK v, x : v = PartOfTimer(n, off) /\ x = Spread(Now)
  OBVIOUS
<1>5. r[4] = Extended(prog[1].op, n, v)
  <2>1. prog[1].ea - TIMER_ADDR = off
    BY <1>3 DEF TIMER_ADDR
  <2> QED
    BY <1>1, <1>3, <1>4, <2>1 DEF TimerRuns
<1>6. Spelled(n, v, x, off)
  BY <1>3, <1>4, PartSpelled
<1>7. PICK i, bytes : i = prog[1] /\ bytes = [k \in 0 .. 3 |-> ByteNum(Now, k)]
  OBVIOUS
<1>8. \A k \in 0 .. 3 : x[k] \in Bytes /\ bytes[k] = Number[x[k]]
  <2> SUFFICES ASSUME NEW k \in 0 .. 3 PROVE x[k] \in Bytes /\ bytes[k] = Number[x[k]]
    OBVIOUS
  <2>1. x[k] = ByteOf(Now, 4, k) /\ bytes[k] = ByteNum(Now, k)
    BY <1>4, <1>7 DEF Spread
  <2>2. Number[ByteOf(Now, 4, k)] = ByteNum(Now, k) /\ ByteOf(Now, 4, k) \in Bytes
    BY WordsAssumption, ByteNumber, ByteIn DEF ByteNum
  <2> QED
    BY <2>1, <2>2
<1>9. \A k \in 0 .. n - 1 : x[off + k] \in Bytes /\ bytes[off + k] = Number[x[off + k]]
  <2>1. \A k \in 0 .. n - 1 : off + k \in 0 .. 3
    BY <1>3
  <2> QED
    BY <1>8, <2>1
<1>10. i.ea % 8 = off /\ i.size = n /\ i.op \in {"ld", "ldu"}
  BY <1>2, <1>3, <1>7
<1>11. As(i, Extended(i.op, n, v)) = LoadedIn(bytes, i)
  BY <1>6, <1>9, <1>10, Loads
<1> QED
  BY <1>5, <1>7, <1>11

(* Reading four bytes back gives the word that has been spread over them.  *)
LEMMA FromSpread ==
  ASSUME NEW w \in Word, NEW x, \A k \in 0 .. 3 : x[k] = ByteOf(w, 4, k)
  PROVE  From(x, 4, 0) = w
<1>1. PICK v \in Word : v = From(x, 4, 0)
  BY FromIn
<1>2. \A k \in 0 .. 4 - 1 : x[0 + k] \in Bytes
  BY ByteIn
<1>3. Spelled(4, v, x, 0)
  BY <1>1, <1>2, FromSpelled
<1>4. SpelledFour(v, ByteOf(w, 4, 0), ByteOf(w, 4, 1), ByteOf(w, 4, 2), ByteOf(w, 4, 3))
  BY <1>3 DEF Spelled
<1>5. v = w
  BY <1>4, SpelledOnly
<1> QED
  BY <1>1, <1>5

LEMMA ByteExchanged ==
  ASSUME NEW a \in Word, NEW b \in Word, NEW v, NEW w,
         v = From(Spread(a), 1, 0), w = From(Swapped(a, b, 1), 4, 0)
  PROVE  /\ Number[v] = ByteNum(a, 0)
         /\ \A k \in 0 .. 3 : ByteNum(w, k) = IF k = 0 THEN ByteNum(b, 3) ELSE ByteNum(a, k)
<1>1. PICK x : x = Spread(a) /\ x[0] = ByteOf(a, 4, 0)
  BY DEF Spread
<1>2. PICK y : /\ y = Swapped(a, b, 1) /\ y[0] = ByteOf(b, 4, 3) /\ y[1] = ByteOf(a, 4, 1)
               /\ y[2] = ByteOf(a, 4, 2) /\ y[3] = ByteOf(a, 4, 3)
  <2>1. 4 - 1 + 0 = 3
    OBVIOUS
  <2> QED
    BY <2>1 DEF Swapped
<1>3. Number[v] = ByteNum(a, 0)
  <2>1. \A k \in 0 .. 1 - 1 : x[0 + k] \in Bytes
    BY <1>1, ByteIn
  <2>2. Spelled(1, v, x, 0)
    BY <1>1, <2>1, FromSpelled
  <2>3. PICK g : g = [k \in 0 .. 0 |-> Number[ByteOf(a, 4, 0)]]
    OBVIOUS
  <2>4. \A k \in 0 .. 1 - 1 : g[k] = Number[x[0 + k]]
    BY <1>1, <2>3
  <2>5. Number[v] = ValueOf(g, 1)
    BY <2>1, <2>2, <2>4, SpelledNumber
  <2>6. ValueOf(g, 1) = g[0] /\ g[0] = Number[ByteOf(a, 4, 0)]
    BY <2>3 DEF ValueOf
  <2> QED
    BY <2>5, <2>6, ByteNumber DEF ByteNum
<1>4. w \in Word /\ SpelledFour(w, ByteOf(b, 4, 3), ByteOf(a, 4, 1), ByteOf(a, 4, 2), ByteOf(a, 4, 3))
  <2>1. \A k \in 0 .. 4 - 1 : y[0 + k] \in Bytes
    <3>1. \A k \in 0 .. 4 - 1 : k = 0 \/ k = 1 \/ k = 2 \/ k = 3
      OBVIOUS
    <3> QED
      BY <1>2, <3>1, ByteIn
  <2>2. Spelled(4, w, y, 0)
    BY <1>2, <2>1, FromSpelled
  <2> QED
    BY <1>2, <2>2 DEF Spelled
<1>5. /\ ByteOf(w, 4, 0) = ByteOf(b, 4, 3) /\ ByteOf(w, 4, 1) = ByteOf(a, 4, 1)
      /\ ByteOf(w, 4, 2) = ByteOf(a, 4, 2) /\ ByteOf(w, 4, 3) = ByteOf(a, 4, 3)
  BY <1>4, ByteIn, SpelledBytes
<1>6. ASSUME NEW k \in 0 .. 3
      PROVE  ByteNum(w, k) = IF k = 0 THEN ByteNum(b, 3) ELSE ByteNum(a, k)
  <2>1. /\ ByteNum(w, k) = Number[ByteOf(w, 4, k)] /\ ByteNum(a, k) = Number[ByteOf(a, 4, k)]
        /\ ByteNum(b, 3) = Number[ByteOf(b, 4, 3)]
    BY <1>4, ByteNumber DEF ByteNum
  <2>2. k = 0 \/ k = 1 \/ k = 2 \/ k = 3
    OBVIOUS
  <2> QED
    BY <1>5, <2>1, <2>2
<1> QED
  BY <1>3, <1>6

LEMMA Exchanged ==
  Typed /\ ExchangeRuns =>
    (Ran(ExchangeMemory) =>
       IF prog[3].size = 4 THEN r[5] = r[2] /\ r[4] = r[3]
       ELSE /\ Number[r[5]] = ByteNum(r[2], 0)
            /\ \A k \in 0 .. 3 : ByteNum(r[4], k) = IF k = 0 THEN ByteNum(r[3], 3) ELSE ByteNum(r[2], k))
<1> SUFFICES ASSUME Typed, ExchangeRuns, prog \in ExchangeMemory, Done
             PROVE  IF prog[3].size = 4 THEN r[5] = r[2] /\ r[4] = r[3]
                    ELSE /\ Number[r[5]] = ByteNum(r[2], 0)
                         /\ \A k \in 0 .. 3 :
                              ByteNum(r[4], k) = IF k = 0 THEN ByteNum(r[3], 3) ELSE ByteNum(r[2], k)
  BY DEF Ran
<1>1. at = 5 \/ status # "running"
  <2>1. Len(prog) = 4
    BY Sorts
  <2> QED
    BY <2>1, Held
<1>2. PICK n \in {1, 4} : n = prog[3].size
  BY DEF ExchangeMemory, Access
<1>3. PICK a \in Word, b \in Word : a = r[2] /\ b = r[3]
  BY Held
<1>4. r[5] = From(Spread(a), n, 0) /\ r[4] = From(Swapped(a, b, n), 4, 0)
  BY <1>1, <1>2, <1>3 DEF ExchangeRuns
<1>5. CASE n = 4
  <2>1. \A k \in 0 .. 3 : Spread(a)[k] = ByteOf(a, 4, k)
    BY DEF Spread
  <2>2. \A k \in 0 .. 3 : Swapped(a, b, 4)[k] = ByteOf(b, 4, k)
    <3>1. \A k \in 0 .. 3 : 4 - 4 + k = k /\ k < 4
      OBVIOUS
    <3> QED
      BY <3>1 DEF Swapped
  <2>3. From(Spread(a), 4, 0) = a /\ From(Swapped(a, b, 4), 4, 0) = b
    BY <2>1, <2>2, FromSpread
  <2> QED
    BY <1>2, <1>3, <1>4, <1>5, <2>3
<1>6. CASE n = 1
  BY <1>2, <1>3, <1>4, <1>6, ByteExchanged
<1> QED
  BY <1>5, <1>6

MemoryRuns == Typed /\ ThroughRuns /\ ExchangeRuns /\ TimerRuns

LEMMA MemoryHolds == MemoryRuns => MemoryIsBigEndian
<1> SUFFICES ASSUME MemoryRuns PROVE MemoryIsBigEndian
  OBVIOUS
<1>1. Done /\ Len(prog) = 4 /\ prog[3].op = "st" => As(prog[4], r[5]) = LoadedIn(PartlyWritten, prog[4])
  BY ThroughLoads DEF MemoryRuns
<1>2. Ran(ExchangeMemory) =>
        IF prog[3].size = 4 THEN r[5] = r[2] /\ r[4] = r[3]
        ELSE /\ Number[r[5]] = ByteNum(r[2], 0)
             /\ \A k \in 0 .. 3 : ByteNum(r[4], k) = IF k = 0 THEN ByteNum(r[3], 3) ELSE ByteNum(r[2], k)
  BY Exchanged DEF MemoryRuns
<1>3. Ran(ReadTimer) => As(prog[1], r[4]) = LoadedIn([k \in 0 .. 3 |-> ByteNum(Now, k)], prog[1])
  BY TimerLoads DEF MemoryRuns
<1> QED
  BY <1>1, <1>2, <1>3, Zenon
     DEF MemoryIsBigEndian, PartlyWritten, As, LoadedIn, ValueIn, QuadIn, PairIn, ByteNum

(* MemoryIsBigEndian: for bytes of any width, a load of any size, after a    *)
(* store of any size over any part of what was there, gives the big-endian   *)
(* number of the bytes it reads, signed or not; xmem exchanges; and a part   *)
(* of the timer's counter is the bytes it would have in memory (memop,       *)
(* devices.c:101-132; mem_w32 and mem_w16, nx88.h:357-383).                  *)
THEOREM MemoryAlwaysBigEndian == Spec => []MemoryIsBigEndian
<1>1. Init => MemoryRuns
  BY InitTyped, ThroughRun, ExchangeRun, TimerRun DEF MemoryRuns
<1>2. MemoryRuns /\ [Next]_vars => MemoryRuns'
  BY StepTyped, ThroughRun, ExchangeRun, TimerRun DEF MemoryRuns
<1> QED
  BY <1>1, <1>2, MemoryHolds, PTL DEF Spec
=============================================================================
