--------------------------- MODULE RewritesProofs ----------------------------
(***************************************************************************)
(* A block stays one that LLVM's verifier takes, however many passes are   *)
(* run on it, in whatever order, with whatever random choices; and a pass  *)
(* that says it has changed nothing has changed nothing.  What the words   *)
(* compute comes first.                                                    *)
(***************************************************************************)
EXTENDS Rewrites, WellFoundedInduction, TLAPS

(***************************************************************************)
(* The operations on words, for words of every width: what they give is a  *)
(* word again; the identities that inst_sub.cc, constant_altering.cc and   *)
(* Mul2ToShl1.cpp rely on.                                                 *)
(***************************************************************************)

\* Induction: a set of numbers that is not empty has a least element.
LEMMA Least ==
  ASSUME NEW T \in SUBSET Nat, T # {}
  PROVE  \E n \in T : \A k \in T : ~(k < n)
<1>1. PICK n \in T : \A k \in T : ~(<<k, n>> \in OpToRel(<, Nat))
  BY NatLessThanWellFounded, WFMin
<1>2. QED
  BY <1>1 DEF OpToRel

\* A step can be repeated from any first value on.
Repeats(h, a, F, n) == h[0] = a /\ \A i \in 0 .. n - 1 : h[i + 1] = F[h[i]]

Repeatable(F, S) == F \in [S -> S]
Forever(g, S, a, F) == g \in [Nat -> S] /\ g[0] = a /\ \A n \in Nat : g[n + 1] = F[g[n]]

LEMMA Recursion ==
  ASSUME NEW S, NEW a \in S, NEW F, Repeatable(F, S)
  PROVE  \E g : Forever(g, S, a, F)
<1> USE DEF Repeatable, Forever
<1> DEFINE Bad == {n \in Nat : ~\E h \in [0 .. n -> S] : Repeats(h, a, F, n)}
<1>1. Bad = {}
  <2>1. SUFFICES ASSUME Bad # {} PROVE FALSE
    OBVIOUS
  <2>2. PICK m \in Bad : \A k \in Bad : ~(k < m)
    <3>1. Bad \subseteq Nat
      OBVIOUS
    <3> HIDE DEF Bad
    <3>2. QED
      BY <2>1, <3>1, Least
  <2>3. m # 0
    <3> DEFINE h == [i \in 0 .. 0 |-> a]
    <3>1. h \in [0 .. 0 -> S] /\ h[0] = a
      OBVIOUS
    <3>2. Repeats(h, a, F, 0)
      BY <3>1 DEF Repeats
    <3>3. QED
      BY <2>2, <3>1, <3>2
  <2>4. m \in Nat /\ m - 1 \in Nat /\ m - 1 < m
    BY <2>2, <2>3
  <2>5. PICK h \in [0 .. m - 1 -> S] : Repeats(h, a, F, m - 1)
    BY <2>2, <2>4
  <2> DEFINE g == [i \in 0 .. m |-> IF i = m THEN F[h[m - 1]] ELSE h[i]]
  <2>6. g \in [0 .. m -> S]
    <3>1. h[m - 1] \in S
      BY <2>4
    <3>2. \A i \in 0 .. m : i # m => i \in 0 .. m - 1
      BY <2>4
    <3>3. QED
      BY <3>1, <3>2
  <2>7. Repeats(g, a, F, m)
    <3>1. g[0] = a
      BY <2>3, <2>4, <2>5 DEF Repeats
    <3>2. ASSUME NEW i \in 0 .. m - 1 PROVE g[i + 1] = F[g[i]]
      <4>1. g[i] = h[i]
        BY <2>4
      <4>2. CASE i = m - 1
        BY <2>4, <4>1, <4>2
      <4>3. CASE i # m - 1
        <5>1. i \in 0 .. m - 2 /\ i + 1 \in 0 .. m /\ i + 1 # m
          BY <2>4, <4>3
        <5>2. h[i + 1] = F[h[i]]
          BY <2>4, <2>5, <5>1 DEF Repeats
        <5>3. QED
          BY <4>1, <5>1, <5>2
      <4>4. QED
        BY <4>2, <4>3
    <3> HIDE DEF g
    <3>3. QED
      BY <3>1, <3>2 DEF Repeats
  <2> HIDE DEF g
  <2>8. QED
    BY <2>2, <2>6, <2>7
<1> DEFINE H(n) == CHOOSE h : h \in [0 .. n -> S] /\ Repeats(h, a, F, n)
<1>2. ASSUME NEW n \in Nat PROVE H(n) \in [0 .. n -> S] /\ Repeats(H(n), a, F, n)
  BY <1>1
<1> HIDE DEF Bad, H
\* Two such sequences agree as far as both go.
<1>3. ASSUME NEW n \in Nat, NEW i \in 0 .. n PROVE H(n + 1)[i] = H(n)[i]
  <2> DEFINE Off == {k \in 0 .. n : H(n + 1)[k] # H(n)[k]}
  <2>1. SUFFICES ASSUME Off # {} PROVE FALSE
    OBVIOUS
  <2>2. PICK k \in Off : \A l \in Off : ~(l < k)
    <3>1. Off \subseteq Nat
      OBVIOUS
    <3> HIDE DEF Off
    <3>2. QED
      BY <2>1, <3>1, Least
  <2>3. Repeats(H(n), a, F, n) /\ Repeats(H(n + 1), a, F, n + 1)
    BY <1>2
  <2>4. k # 0
    BY <2>2, <2>3 DEF Repeats
  <2>5. k \in Nat /\ k - 1 \in 0 .. n - 1 /\ k - 1 \in 0 .. (n + 1) - 1 /\ (k - 1) + 1 = k
    BY <2>2, <2>4
  <2>6. H(n)[k] = F[H(n)[k - 1]] /\ H(n + 1)[k] = F[H(n + 1)[k - 1]]
    BY <2>3, <2>5 DEF Repeats
  <2>7. k - 1 < k /\ k - 1 \in 0 .. n
    BY <2>5
  <2>8. k - 1 \notin Off
    BY <2>2, <2>7
  <2>9. QED
    BY <2>2, <2>6, <2>7, <2>8
<1> DEFINE G == [n \in Nat |-> H(n)[n]]
<1>4. G \in [Nat -> S]
  BY <1>2
<1>5. G[0] = a
  BY <1>2 DEF Repeats
<1>6. ASSUME NEW n \in Nat PROVE G[n + 1] = F[G[n]]
  <2>1. n \in 0 .. n /\ n + 1 \in Nat /\ n \in 0 .. (n + 1) - 1
    OBVIOUS
  <2>2. H(n + 1)[n + 1] = F[H(n + 1)[n]]
    BY <1>2, <2>1 DEF Repeats
  <2>3. H(n + 1)[n] = H(n)[n]
    BY <1>3, <2>1
  <2>4. QED
    BY <2>1, <2>2, <2>3
<1> HIDE DEF G
<1>7. QED
  BY <1>4, <1>5, <1>6

\* 2 to the power of n.
LEMMA Pow2Is ==
  /\ Pow2[0] = 1
  /\ \A n \in Nat : Pow2[n] \in Nat \ {0} /\ Pow2[n + 1] = 2 * Pow2[n]
<1> DEFINE F == [v \in Nat \ {0} |-> 2 * v]
           S == Nat \ {0}
<1>1. F \in [S -> S] /\ 1 \in S
  OBVIOUS
<1>2. PICK g \in [Nat -> S] : g[0] = 1 /\ \A n \in Nat : g[n + 1] = F[g[n]]
  <2> HIDE DEF F, S
  <2>1. Repeatable(F, S)
    BY <1>1 DEF Repeatable
  <2>2. \E g : Forever(g, S, 1, F)
    BY <1>1, <2>1, Recursion
  <2>3. QED
    BY <2>2 DEF Forever
<1>3. \A n \in Nat : g[n + 1] = 2 * g[n]
  BY <1>2
<1>4. g = [n \in Nat |-> IF n = 0 THEN 1 ELSE 2 * g[n - 1]]
  <2>1. ASSUME NEW n \in Nat PROVE g[n] = IF n = 0 THEN 1 ELSE 2 * g[n - 1]
    <3>1. n # 0 => n - 1 \in Nat /\ (n - 1) + 1 = n
      OBVIOUS
    <3>2. QED
      BY <1>2, <1>3, <3>1
  <2>2. QED
    BY <2>1
<1>5. Pow2 = [n \in Nat |-> IF n = 0 THEN 1 ELSE 2 * Pow2[n - 1]]
  BY <1>4 DEF Pow2
<1>6. \A n \in Nat : Pow2[n] = IF n = 0 THEN 1 ELSE 2 * Pow2[n - 1]
  BY <1>5
<1>7. ASSUME NEW n \in Nat PROVE Pow2[n] = g[n]
  <2> DEFINE Off == {k \in Nat : Pow2[k] # g[k]}
  <2>1. SUFFICES ASSUME Off # {} PROVE FALSE
    OBVIOUS
  <2>2. PICK k \in Off : \A l \in Off : ~(l < k)
    <3>1. Off \subseteq Nat
      OBVIOUS
    <3> HIDE DEF Off
    <3>2. QED
      BY <2>1, <3>1, Least
  <2>3. k # 0
    BY <1>2, <1>6, <2>2
  <2>4. k - 1 \in Nat /\ k - 1 < k /\ (k - 1) + 1 = k
    BY <2>2, <2>3
  <2>5. Pow2[k - 1] = g[k - 1]
    BY <2>2, <2>4
  <2>6. QED
    BY <1>3, <1>6, <2>2, <2>3, <2>4, <2>5
<1>8. QED
  BY <1>2, <1>3, <1>7

LEMMA Quotient ==
  ASSUME NEW a \in Int, NEW m \in Nat \ {0}
  PROVE  a % m \in 0 .. m - 1 /\ \E k \in Int : a = m * k + (a % m)
<1>1. a \div m \in Int /\ a % m \in 0 .. m - 1 /\ a = m * (a \div m) + (a % m)
  OBVIOUS
<1>2. QED
  BY <1>1

LEMMA RemainderUnique ==
  ASSUME NEW m \in Nat \ {0}, NEW k \in Int, NEW l \in Int,
         NEW r \in 0 .. m - 1, NEW s \in 0 .. m - 1, m * k + r = m * l + s
  PROVE  r = s
<1>1. m * (k - l) = s - r
  <2>1. m * (k - l) = m * k - m * l /\ m * k \in Int /\ m * l \in Int
    OBVIOUS
  <2>2. QED
    BY <2>1
<1>2. k - l \in Int /\ -m < s - r /\ s - r < m
  OBVIOUS
<1>3. ~(k - l >= 1)
  <2>1. ASSUME NEW d \in Int, d >= 1, m * d < m PROVE FALSE
    <3>1. m * d = m + m * (d - 1) /\ m * (d - 1) >= 0 /\ m * (d - 1) \in Int
      BY <2>1
    <3>2. QED
      BY <2>1, <3>1
  <2>2. QED
    BY <1>1, <1>2, <2>1
<1>4. ~(k - l <= -1)
  <2>1. ASSUME NEW d \in Int, d <= -1, m * d > -m PROVE FALSE
    <3>1. m * d = -m - m * (-1 - d) /\ m * (-1 - d) >= 0 /\ m * (-1 - d) \in Int
      BY <2>1
    <3>2. QED
      BY <2>1, <3>1
  <2>2. QED
    BY <1>1, <1>2, <2>1
<1>5. k - l = 0
  BY <1>2, <1>3, <1>4
<1>6. QED
  BY <1>1, <1>5

\* Numbers that differ by a multiple of m have one remainder.
LEMMA SameRemainder ==
  ASSUME NEW a \in Int, NEW b \in Int, NEW m \in Nat \ {0}, NEW j \in Int, b = a + m * j
  PROVE  b % m = a % m
<1>1. PICK k \in Int : a = m * k + (a % m)
  BY Quotient
<1>2. PICK l \in Int : b = m * l + (b % m)
  BY Quotient
<1>3. a % m \in 0 .. m - 1 /\ b % m \in 0 .. m - 1
  BY Quotient
<1>4. m * (k + j) = m * k + m * j /\ m * k \in Int /\ m * j \in Int /\ m * l \in Int
  OBVIOUS
<1>5. m * (k + j) + (a % m) = m * l + (b % m)
  BY <1>1, <1>2, <1>3, <1>4
<1>6. k + j \in Int
  OBVIOUS
<1>7. QED
  BY <1>3, <1>5, <1>6, RemainderUnique

\* Remainders may be taken early.
LEMMA EarlySum ==
  ASSUME NEW a \in Int, NEW b \in Int, NEW m \in Nat \ {0}
  PROVE  ((a % m) + b) % m = (a + b) % m
<1>1. PICK k \in Int : a = m * k + (a % m)
  BY Quotient
<1>2. a % m \in Int /\ m * k \in Int
  BY Quotient
<1> DEFINE p == (a % m) + b
           q == a + b
<1>3. q = p + m * k /\ p \in Int /\ q \in Int
  BY <1>1, <1>2
<1> HIDE DEF p, q
<1>4. q % m = p % m
  BY <1>3, SameRemainder
<1>5. QED
  BY <1>4 DEF p, q

LEMMA EarlyDifference ==
  ASSUME NEW a \in Int, NEW b \in Int, NEW m \in Nat \ {0}
  PROVE  (a - (b % m)) % m = (a - b) % m
<1>1. PICK k \in Int : b = m * k + (b % m)
  BY Quotient
<1>2. b % m \in Int /\ m * k \in Int
  BY Quotient
<1> DEFINE p == a - b
           q == a - (b % m)
<1>3. q = p + m * k /\ p \in Int /\ q \in Int
  BY <1>1, <1>2
<1> HIDE DEF p, q
<1>4. q % m = p % m
  BY <1>3, SameRemainder
<1>5. QED
  BY <1>4 DEF p, q

LEMMA EarlyNegation ==
  ASSUME NEW b \in Int, NEW m \in Nat \ {0}
  PROVE  (0 - (b % m)) % m = (0 - b) % m
<1>1. PICK z \in Int : z = 0
  OBVIOUS
<1>2. (z - (b % m)) % m = (z - b) % m
  BY EarlyDifference
<1>3. QED
  BY <1>1, <1>2

LEMMA EarlyProduct ==
  ASSUME NEW a \in Int, NEW b \in Int, NEW m \in Nat \ {0}
  PROVE  ((a % m) * b) % m = (a * b) % m
<1>1. PICK k \in Int : a = m * k + (a % m)
  BY Quotient
<1> DEFINE r == a % m
<1>2. r \in Int /\ a = m * k + r
  BY <1>1, Quotient
<1> HIDE DEF r
<1>3. a * b = r * b + m * (k * b) /\ r * b \in Int /\ a * b \in Int /\ k * b \in Int
  BY <1>2
<1>4. PICK p \in Int, q \in Int, j \in Int : p = r * b /\ q = a * b /\ j = k * b
  BY <1>3
<1>5. q = p + m * j
  BY <1>3, <1>4
<1>6. q % m = p % m
  BY <1>5, SameRemainder, ZenonT(60)
<1>7. QED
  BY <1>4, <1>6 DEF r

\* inst_sub.cc:46-103: the five expressions that replace an addition, a subtraction
\* or a multiplication have its value, for all operands and words of every width:
\* x - (-y) and -((-x) + (-y)) for x + y, x + (-y) for x - y, -((-x) * y) and
\* x * (y - 1) + x for x * y.  Each operation inside is on words, too.
THEOREM SubstitutionsAgree ==
  ASSUME NEW w \in Nat, NEW x \in 0 .. Pow2[w] - 1, NEW y \in 0 .. Pow2[w] - 1
  PROVE  LET neg(v) == Compute("sub", 0, v, w)
         IN  /\ Compute("sub", x, neg(y), w) = Compute("add", x, y, w)
             /\ neg(Compute("add", neg(x), neg(y), w)) = Compute("add", x, y, w)
             /\ Compute("add", x, neg(y), w) = Compute("sub", x, y, w)
             /\ neg(Compute("mul", neg(x), y, w)) = Compute("mul", x, y, w)
             /\ Compute("add", Compute("mul", x, Compute("sub", y, Trunc(1, w), w), w), x, w)
                  = Compute("mul", x, y, w)
<1> DEFINE m == Pow2[w]
           neg(v) == Compute("sub", 0, v, w)
<1>1. m \in Nat \ {0} /\ x \in Int /\ y \in Int
  BY Pow2Is
<1>2. /\ \A a, b : Compute("add", a, b, w) = (a + b) % m
      /\ \A a, b : Compute("sub", a, b, w) = (a - b) % m
      /\ \A a, b : Compute("mul", a, b, w) = (a * b) % m
      /\ Trunc(1, w) = 1 % m
  BY DEF Compute, Trunc
<1> HIDE DEF m
<1>3. \A a \in Int : a % m \in Int
  BY <1>1, Quotient
<1>4. PICK nx \in Int, ny \in Int : nx = 0 - x /\ ny = 0 - y
  BY <1>1
<1>5. nx % m \in Int /\ ny % m \in Int
  BY <1>1, <1>3
<1>6. (x - (ny % m)) % m = (x + y) % m
  <2>1. (x - (ny % m)) % m = (x - ny) % m
    BY <1>1, EarlyDifference
  <2>2. x - ny = x + y
    BY <1>1, <1>4
  <2>3. QED
    BY <2>1, <2>2
<1>7. (0 - (((nx % m) + (ny % m)) % m)) % m = (x + y) % m
  <2>1. ((nx % m) + (ny % m)) % m = (nx + (ny % m)) % m
    BY <1>1, <1>5, EarlySum
  <2>2. ((ny % m) + nx) % m = (ny + nx) % m
    BY <1>1, EarlySum
  <2>3. nx + (ny % m) = (ny % m) + nx
    BY <1>5
  <2>4. PICK s \in Int : s = ny + nx
    OBVIOUS
  <2>5. (0 - (s % m)) % m = (0 - s) % m
    BY <1>1, EarlyNegation
  <2>6. 0 - s = x + y
    BY <1>1, <1>4, <2>4
  <2>7. QED
    BY <2>1, <2>2, <2>3, <2>4, <2>5, <2>6
<1>8. (x + (ny % m)) % m = (x - y) % m
  <2>1. ((ny % m) + x) % m = (ny + x) % m
    BY <1>1, EarlySum
  <2>2. (ny % m) + x = x + (ny % m) /\ ny + x = x - y
    BY <1>1, <1>4, <1>5
  <2>3. QED
    BY <2>1, <2>2
<1>9. (0 - (((nx % m) * y) % m)) % m = (x * y) % m
  <2>1. ((nx % m) * y) % m = (nx * y) % m
    BY <1>1, EarlyProduct
  <2>2. PICK p \in Int : p = nx * y
    BY <1>1
  <2>3. (0 - (p % m)) % m = (0 - p) % m
    BY <1>1, EarlyNegation
  <2>4. 0 - p = x * y
    BY <1>1, <1>4, <2>2
  <2>5. QED
    BY <2>1, <2>2, <2>3, <2>4
<1>10. (((x * ((y - (1 % m)) % m)) % m) + x) % m = (x * y) % m
  <2>1. PICK z \in Int : z = y - 1
    BY <1>1
  <2>2. (y - (1 % m)) % m = z % m
    BY <1>1, <2>1, EarlyDifference
  <2>3. z % m \in Int
    BY <1>1, <1>3
  <2>4. ((z % m) * x) % m = (z * x) % m
    BY <1>1, EarlyProduct
  <2>5. (z % m) * x = x * (z % m)
    BY <1>1, <2>3
  <2>6. PICK p \in Int : p = z * x
    BY <1>1
  <2>7. ((p % m) + x) % m = (p + x) % m
    BY <1>1, EarlySum
  <2>8. p + x = x * y
    BY <1>1, <2>1, <2>6
  <2>9. QED
    BY <2>2, <2>4, <2>5, <2>6, <2>7, <2>8
<1>11. /\ neg(x) = nx % m /\ neg(y) = ny % m
       /\ neg(Compute("add", neg(x), neg(y), w)) = (0 - (((nx % m) + (ny % m)) % m)) % m
       /\ neg(Compute("mul", neg(x), y, w)) = (0 - (((nx % m) * y) % m)) % m
  BY <1>2, <1>4
<1>12. QED
  BY <1>2, <1>4, <1>6, <1>7, <1>8, <1>9, <1>10, <1>11
-----------------------------------------------------------------------------
(* Bit by bit.                                                             *)
IsTable(f) == f \in [0 .. 1 -> [0 .. 1 -> 0 .. 1]]

IsWord(g, f) ==
  g = [n \in Nat |-> [a \in Nat |-> [b \in Nat |->
         IF n = 0 THEN 0 ELSE f[a % 2][b % 2] + 2 * g[n - 1][a \div 2][b \div 2]]]]

\* The lowest bit, and the others.
LEMMA Halves ==
  ASSUME NEW a \in Nat
  PROVE  a % 2 \in 0 .. 1 /\ a \div 2 \in Nat /\ a = (a % 2) + 2 * (a \div 2)
OBVIOUS

LEMMA HalvesUnique ==
  ASSUME NEW a \in Nat, NEW r \in 0 .. 1, NEW q \in Nat, a = r + 2 * q
  PROVE  a % 2 = r /\ a \div 2 = q
OBVIOUS

LEMMA WordExists ==
  ASSUME NEW f, IsTable(f)
  PROVE  \E g : IsWord(g, f)
<1> DEFINE S == [Nat -> [Nat -> Nat]]
           Longer(h) == [a \in Nat |-> [b \in Nat |-> f[a % 2][b % 2] + 2 * h[a \div 2][b \div 2]]]
           F == [h \in S |-> Longer(h)]
           none == [a \in Nat |-> [b \in Nat |-> 0]]
<1>1. none \in S
  OBVIOUS
<1>2. ASSUME NEW h \in S PROVE Longer(h) \in S
  <2>1. ASSUME NEW a \in Nat, NEW b \in Nat PROVE f[a % 2][b % 2] + 2 * h[a \div 2][b \div 2] \in Nat
    <3>0. \A z \in Nat : z % 2 \in 0 .. 1 /\ z \div 2 \in Nat
      BY Halves
    <3>1. a % 2 \in 0 .. 1 /\ b % 2 \in 0 .. 1 /\ a \div 2 \in Nat /\ b \div 2 \in Nat
      BY <3>0
    <3>2. f[a % 2][b % 2] \in 0 .. 1
      BY <3>1 DEF IsTable
    <3>3. h[a \div 2][b \div 2] \in Nat
      BY <3>1
    <3>4. \A u \in 0 .. 1, v \in Nat : u + 2 * v \in Nat
      OBVIOUS
    <3>5. QED
      BY <3>2, <3>3, <3>4
  <2>2. QED
    BY <2>1
<1>3. F \in [S -> S]
  BY <1>2
<1>4. PICK g \in [Nat -> S] : g[0] = none /\ \A n \in Nat : g[n + 1] = F[g[n]]
  <2> HIDE DEF S, F, none
  <2>1. Repeatable(F, S)
    BY <1>3 DEF Repeatable
  <2>2. \E g : Forever(g, S, none, F)
    BY <1>1, <2>1, Recursion
  <2>3. QED
    BY <2>2 DEF Forever
<1> DEFINE Step(n) == [a \in Nat |-> [b \in Nat |->
                         IF n = 0 THEN 0 ELSE f[a % 2][b % 2] + 2 * g[n - 1][a \div 2][b \div 2]]]
<1>5. ASSUME NEW n \in Nat PROVE g[n] = Step(n)
  <2>1. CASE n = 0
    BY <1>4, <2>1
  <2>2. CASE n # 0
    <3>1. n - 1 \in Nat /\ (n - 1) + 1 = n
      BY <2>2
    <3>2. g[n - 1] \in S /\ g[n] = F[g[n - 1]]
      <4> HIDE DEF S, F
      <4>1. QED
        BY <1>4, <3>1
    <3>3. F[g[n - 1]] = Longer(g[n - 1])
      <4> HIDE DEF S, Longer
      <4>1. QED
        BY <3>2
    <3>4. Step(n) = Longer(g[n - 1])
      BY <2>2
    <3>5. QED
      BY <3>2, <3>3, <3>4
  <2>3. QED
    BY <2>1, <2>2
<1>6. g = [n \in Nat |-> Step(n)]
  <2> HIDE DEF S, Step
  <2>1. QED
    BY <1>4, <1>5
<1>7. IsWord(g, f)
  BY <1>6 DEF IsWord
<1>8. QED
  BY <1>7
Bit(x) == x % 2
Low(f, x, y) == f[Bit(x)][Bit(y)]
Half(x) == x \div 2
Joined(r, q) == r + 2 * q

LEMMA BitwiseIs ==
  ASSUME NEW f, IsTable(f), NEW x \in Nat, NEW y \in Nat
  PROVE  /\ Bitwise(f, x, y, 0) = 0
         /\ \A w \in Nat : Bitwise(f, x, y, w + 1)
                             = Joined(Low(f, x, y), Bitwise(f, Half(x), Half(y), w))
<1> DEFINE g == CHOOSE g : IsWord(g, f)
<1>1. IsWord(g, f)
  BY WordExists
<1>2. \A w, a, b : Bitwise(f, a, b, w) = g[w][a][b]
  BY DEF Bitwise, IsWord
<1> HIDE DEF g
<1>3. g = [n \in Nat |-> [a \in Nat |-> [b \in Nat |->
              IF n = 0 THEN 0 ELSE Joined(Low(f, a, b), g[n - 1][Half(a)][Half(b)])]]]
  BY <1>1 DEF IsWord, Joined, Low, Half, Bit
<1>4. ASSUME NEW n \in Nat, NEW a \in Nat, NEW b \in Nat
      PROVE  g[n][a][b] = IF n = 0 THEN 0 ELSE Joined(Low(f, a, b), g[n - 1][Half(a)][Half(b)])
  <2> DEFINE E(m, c, d) == IF m = 0 THEN 0 ELSE Joined(Low(f, c, d), g[m - 1][Half(c)][Half(d)])
             Row(m, c) == [d \in Nat |-> E(m, c, d)]
             Table(m) == [c \in Nat |-> Row(m, c)]
  <2>1. g = [m \in Nat |-> Table(m)]
    BY <1>3
  <2>2. Table(n)[a] = Row(n, a)
    <3> HIDE DEF Row
    <3>1. QED
      OBVIOUS
  <2>3. Row(n, a)[b] = E(n, a, b)
    <3> HIDE DEF E
    <3>1. QED
      OBVIOUS
  <2>4. g[n] = Table(n)
    <3> HIDE DEF Table
    <3>1. QED
      BY <2>1
  <2>5. g[n][a][b] = E(n, a, b)
    <3> HIDE DEF E, Row, Table
    <3>1. QED
      BY <2>2, <2>3, <2>4
  <2>6. QED
    BY <2>5
<1>5. \A w \in Nat : w + 1 \in Nat /\ w + 1 # 0 /\ (w + 1) - 1 = w
  OBVIOUS
<1>6. Bitwise(f, x, y, 0) = 0
  BY <1>2, <1>4
<1>7. ASSUME NEW w \in Nat
      PROVE  Bitwise(f, x, y, w + 1) = Joined(Low(f, x, y), Bitwise(f, Half(x), Half(y), w))
  <2>1. Bitwise(f, x, y, w + 1) = g[w + 1][x][y] /\ Bitwise(f, Half(x), Half(y), w) = g[w][Half(x)][Half(y)]
    BY <1>2
  <2>2. g[w + 1][x][y] = Joined(Low(f, x, y), g[(w + 1) - 1][Half(x)][Half(y)])
    BY <1>4, <1>5
  <2>3. (w + 1) - 1 = w
    BY <1>5
  <2>4. QED
    BY <2>1, <2>2, <2>3
<1>8. QED
  BY <1>6, <1>7

Successor(m, n) == m = n + 1

LEMMA BitwiseNext ==
  ASSUME NEW f, IsTable(f), NEW x \in Nat, NEW y \in Nat, NEW w \in Nat, NEW m, Successor(m, w)
  PROVE  Bitwise(f, x, y, m) = Joined(Low(f, x, y), Bitwise(f, Half(x), Half(y), w))
BY BitwiseIs DEF Successor

\* What Low and Half are of a number made of a bit and others.
LEMMA HalfIs ==
  /\ \A a \in Nat : Bit(a) \in 0 .. 1 /\ Half(a) \in Nat /\ a = Joined(Bit(a), Half(a))
  /\ \A r \in 0 .. 1, q \in Nat : Joined(r, q) \in Nat /\ Bit(Joined(r, q)) = r /\ Half(Joined(r, q)) = q
<1>1. \A a \in Nat : Bit(a) \in 0 .. 1 /\ Half(a) \in Nat /\ a = Joined(Bit(a), Half(a))
  BY Halves DEF Half, Joined, Bit
<1>2. ASSUME NEW r \in 0 .. 1, NEW q \in Nat
      PROVE  Joined(r, q) \in Nat /\ Bit(Joined(r, q)) = r /\ Half(Joined(r, q)) = q
  <2>1. PICK a \in Nat : a = r + 2 * q
    OBVIOUS
  <2>2. Bit(a) = r /\ a \div 2 = q
    BY <2>1, HalvesUnique DEF Bit
  <2>3. QED
    BY <2>1, <2>2 DEF Joined, Half, Bit
<1>3. QED
  BY <1>1, <1>2

LEMMA LowIs ==
  ASSUME NEW f, IsTable(f), NEW x \in Nat, NEW y \in Nat
  PROVE  Low(f, x, y) \in 0 .. 1
<1>1. Bit(x) \in 0 .. 1 /\ Bit(y) \in 0 .. 1
  BY HalfIs
<1>2. QED
  BY <1>1 DEF Low, IsTable

\* A word of w bits, cut into its lowest bit and the others.
InWord(x, w) == x \in 0 .. Pow2[w] - 1

LEMMA WordHalves ==
  ASSUME NEW w \in Nat, NEW x, InWord(x, w + 1)
  PROVE  x \in Nat /\ InWord(Half(x), w)
<1>1. Pow2[w + 1] = 2 * Pow2[w] /\ Pow2[w] \in Nat
  BY Pow2Is
<1>2. x \in Nat /\ x < 2 * Pow2[w]
  BY <1>1 DEF InWord
<1>3. Bit(x) \in 0 .. 1 /\ Half(x) \in Nat /\ x = Joined(Bit(x), Half(x))
  BY <1>2, HalfIs
<1> DEFINE q == Half(x)
           r == Bit(x)
<1>4. q \in Nat /\ r \in 0 .. 1 /\ x = r + 2 * q
  BY <1>3 DEF Joined
<1> HIDE DEF q, r
<1>5. q \in 0 .. Pow2[w] - 1
  BY <1>1, <1>2, <1>4
<1>6. QED
  BY <1>2, <1>5 DEF InWord, q

LEMMA WordJoined ==
  ASSUME NEW w \in Nat, NEW r \in 0 .. 1, NEW q, InWord(q, w)
  PROVE  InWord(Joined(r, q), w + 1)
<1>1. Pow2[w + 1] = 2 * Pow2[w] /\ Pow2[w] \in Nat
  BY Pow2Is
<1>2. QED
  BY <1>1 DEF InWord, Joined

LEMMA BitwiseWord ==
  ASSUME NEW f, IsTable(f)
  PROVE  \A w \in Nat : \A x, y \in Nat : InWord(Bitwise(f, x, y, w), w)
<1> DEFINE Holds(w) == \A x, y \in Nat : InWord(Bitwise(f, x, y, w), w)
           Bad == {w \in Nat : ~Holds(w)}
<1>1. SUFFICES ASSUME Bad # {} PROVE FALSE
  OBVIOUS
<1>2. PICK w \in Bad : \A k \in Bad : ~(k < w)
  <2>1. Bad \subseteq Nat
    OBVIOUS
  <2> HIDE DEF Bad
  <2>2. QED
    BY <1>1, <2>1, Least
<1>3. w # 0
  <2>1. \A x, y \in Nat : Bitwise(f, x, y, 0) = 0
    BY BitwiseIs
  <2>2. Holds(0)
    BY <2>1, Pow2Is DEF InWord
  <2> HIDE DEF Holds
  <2>3. QED
    BY <1>2, <2>2
<1>4. w \in Nat /\ w - 1 \in Nat /\ w - 1 < w /\ (w - 1) + 1 = w
  BY <1>2, <1>3
<1>5. Holds(w - 1)
  BY <1>2, <1>4
<1>6. ASSUME NEW x \in Nat, NEW y \in Nat PROVE InWord(Bitwise(f, x, y, w), w)
  <2>1. Bitwise(f, x, y, (w - 1) + 1) = Joined(Low(f, x, y), Bitwise(f, Half(x), Half(y), w - 1))
    BY <1>4, BitwiseIs
  <2>2. Half(x) \in Nat /\ Half(y) \in Nat /\ Low(f, x, y) \in 0 .. 1
    BY HalfIs, LowIs
  <2>3. InWord(Bitwise(f, Half(x), Half(y), w - 1), w - 1)
    BY <1>5, <2>2
  <2>4. QED
    BY <1>4, <2>1, <2>2, <2>3, WordJoined
<1>7. QED
  BY <1>2, <1>6
LEMMA TruncWord ==
  ASSUME NEW x \in Int, NEW w \in Nat
  PROVE  InWord(Trunc(x, w), w) /\ Trunc(x, w) \in Nat
<1>1. Pow2[w] \in Nat \ {0}
  BY Pow2Is
<1> DEFINE m == Pow2[w]
<1>2. m \in Nat \ {0} /\ Trunc(x, w) = x % m
  BY <1>1 DEF Trunc
<1> HIDE DEF m
<1>3. x % m \in 0 .. m - 1
  BY <1>2, Quotient
<1>4. QED
  BY <1>2, <1>3 DEF InWord, m

\* Trunc gives the only word that differs from x by a multiple.
LEMMA TruncUnique ==
  ASSUME NEW x \in Int, NEW w \in Nat, NEW t, InWord(t, w), NEW k \in Int, x = Pow2[w] * k + t
  PROVE  Trunc(x, w) = t
<1> DEFINE m == Pow2[w]
<1>1. m \in Nat \ {0} /\ Trunc(x, w) = x % m /\ t \in 0 .. m - 1 /\ x = m * k + t
  BY Pow2Is DEF Trunc, InWord
<1> HIDE DEF m
<1>2. PICK l \in Int : x = m * l + (x % m)
  BY <1>1, Quotient
<1>3. x % m \in 0 .. m - 1
  BY <1>1, Quotient
<1>4. x % m = t
  BY <1>1, <1>2, <1>3, RemainderUnique
<1>5. QED
  BY <1>1, <1>4

LEMMA TruncOfWord ==
  ASSUME NEW w \in Nat, NEW x, InWord(x, w)
  PROVE  Trunc(x, w) = x /\ x \in Nat
<1>1. Pow2[w] \in Nat
  BY Pow2Is
<1>2. x \in Int /\ x = Pow2[w] * 0 + x
  BY <1>1 DEF InWord
<1>3. QED
  BY <1>1, <1>2, TruncUnique DEF InWord

LEMMA TruncTimes ==
  ASSUME NEW x \in Int, NEW w \in Nat
  PROVE  \E k \in Int : x = Pow2[w] * k + Trunc(x, w)
<1> DEFINE m == Pow2[w]
<1>1. m \in Nat \ {0} /\ Trunc(x, w) = x % m
  BY Pow2Is DEF Trunc
<1> HIDE DEF m
<1>2. \E k \in Int : x = m * k + (x % m)
  BY <1>1, Quotient
<1>3. QED
  BY <1>1, <1>2 DEF m

LEMMA TruncJoined ==
  ASSUME NEW x \in Nat, NEW w \in Nat
  PROVE  Trunc(x, 0) = 0 /\ Trunc(x, w + 1) = Joined(Bit(x), Trunc(Half(x), w))
<1>1. Trunc(x, 0) = 0
  <2>1. InWord(Trunc(x, 0), 0)
    BY TruncWord
  <2>2. QED
    BY <2>1, Pow2Is DEF InWord
<1>2. Bit(x) \in 0 .. 1 /\ Half(x) \in Nat /\ x = Joined(Bit(x), Half(x))
  BY HalfIs
<1> DEFINE h == Half(x)
           r == Bit(x)
           t == Trunc(h, w)
           m == Pow2[w]
<1>3. r \in 0 .. 1 /\ h \in Nat /\ x = r + 2 * h
  BY <1>2 DEF Joined
<1> HIDE DEF h, r
<1>4. PICK k \in Int : h = m * k + t
  BY <1>3, TruncTimes
<1>5. InWord(t, w) /\ t \in Nat
  BY <1>3, TruncWord
<1>6. InWord(Joined(r, t), w + 1)
  BY <1>3, <1>5, WordJoined
<1>7. m \in Nat /\ Pow2[w + 1] = 2 * m
  BY Pow2Is
<1>8. x = Pow2[w + 1] * k + Joined(r, t)
  <2> HIDE DEF m, t
  <2>1. (2 * m) * k = 2 * (m * k) /\ m * k \in Int
    BY <1>7
  <2>2. QED
    BY <1>3, <1>4, <1>5, <1>7, <2>1 DEF Joined
<1>9. Trunc(x, w + 1) = Joined(r, t)
  <2>1. w + 1 \in Nat /\ x \in Int
    OBVIOUS
  <2> HIDE DEF t
  <2>2. QED
    BY <1>6, <1>8, <2>1, TruncUnique
<1>10. QED
  BY <1>1, <1>9 DEF h, r, t

\* The longer word is a multiple of the shorter one.
LEMMA Multiple ==
  ASSUME NEW w \in Nat
  PROVE  \A d \in Nat : \E q \in Nat \ {0} : Pow2[w + d] = Pow2[w] * q
<1> DEFINE Bad == {d \in Nat : ~\E q \in Nat \ {0} : Pow2[w + d] = Pow2[w] * q}
<1>1. SUFFICES ASSUME Bad # {} PROVE FALSE
  OBVIOUS
<1>2. PICK d \in Bad : \A k \in Bad : ~(k < d)
  <2>1. Bad \subseteq Nat
    OBVIOUS
  <2> HIDE DEF Bad
  <2>2. QED
    BY <1>1, <2>1, Least
<1>3. d # 0
  <2>1. Pow2[w + 0] = Pow2[w] * 1
    BY Pow2Is
  <2>2. QED
    BY <1>2, <2>1
<1>4. d \in Nat /\ d - 1 \in Nat /\ d - 1 < d /\ w + d = (w + (d - 1)) + 1 /\ w + (d - 1) \in Nat
  BY <1>2, <1>3
<1>5. PICK q \in Nat \ {0} : Pow2[w + (d - 1)] = Pow2[w] * q
  BY <1>2, <1>4
<1>6. Pow2[w + d] = 2 * Pow2[w + (d - 1)]
  BY <1>4, Pow2Is
<1>7. Pow2[w] \in Nat
  BY Pow2Is
<1>8. Pow2[w + d] = Pow2[w] * (2 * q) /\ 2 * q \in Nat \ {0}
  <2>1. \A m \in Nat : 2 * (m * q) = m * (2 * q)
    OBVIOUS
  <2>2. QED
    BY <1>5, <1>6, <1>7, <2>1
<1>9. QED
  BY <1>2, <1>8

LEMMA LongerWord ==
  ASSUME NEW w \in Nat, NEW v \in Nat, w <= v
  PROVE  /\ \A x : InWord(x, w) => InWord(x, v)
         /\ \A x \in Int : Trunc(Trunc(x, v), w) = Trunc(x, w)
<1>1. v - w \in Nat /\ w + (v - w) = v
  OBVIOUS
<1>2. PICK q \in Nat \ {0} : Pow2[v] = Pow2[w] * q
  BY <1>1, Multiple
<1> DEFINE m == Pow2[w]
           n == Pow2[v]
<1>3. m \in Nat \ {0} /\ n \in Nat /\ n = m * q
  BY <1>2, Pow2Is
<1>4. \A x : InWord(x, w) <=> x \in 0 .. m - 1
  BY DEF InWord
<1>5. \A x : InWord(x, v) <=> x \in 0 .. n - 1
  BY DEF InWord
<1> HIDE DEF m, n
<1>6. m <= n
  <2>1. PICK p \in Nat : p = q - 1
    OBVIOUS
  <2>2. m * q = m + m * p /\ m * p \in Nat
    BY <1>3, <2>1
  <2>3. QED
    BY <1>3, <2>2
<1>7. \A x : InWord(x, w) => InWord(x, v)
  BY <1>3, <1>4, <1>5, <1>6
<1>8. ASSUME NEW x \in Int PROVE Trunc(Trunc(x, v), w) = Trunc(x, w)
  <2>1. PICK k \in Int : x = n * k + Trunc(x, v)
    BY TruncTimes DEF n
  <2>2. Trunc(x, v) \in Int
    BY TruncWord
  <2> DEFINE t == Trunc(x, v)
  <2>3. x = n * k + t /\ t \in Int
    BY <2>1, <2>2
  <2> HIDE DEF t
  <2>4. PICK j \in Int : t = m * j + Trunc(t, w)
    BY <2>3, TruncTimes DEF m
  <2>5. InWord(Trunc(t, w), w) /\ Trunc(t, w) \in Nat
    BY <2>3, TruncWord
  <2>6. n * k = m * (q * k) /\ q * k \in Int /\ m * (q * k) \in Int
    BY <1>3
  <2>7. PICK i \in Int : i = q * k
    BY <2>6
  <2>8. m * (i + j) = m * i + m * j /\ i + j \in Int /\ m * i \in Int /\ m * j \in Int
    BY <1>3
  <2>9. x = m * (i + j) + Trunc(t, w)
    BY <2>3, <2>4, <2>5, <2>6, <2>7, <2>8
  <2>10. Trunc(x, w) = Trunc(t, w)
    BY <2>5, <2>8, <2>9, TruncUnique DEF m
  <2>11. QED
    BY <2>10 DEF t
<1>9. QED
  BY <1>7, <1>8
\* Only the lowest w bits of the operands count.
LEMMA BitwiseTrunc ==
  ASSUME NEW f, IsTable(f)
  PROVE  \A w \in Nat : \A x, y \in Nat : Bitwise(f, Trunc(x, w), Trunc(y, w), w) = Bitwise(f, x, y, w)
<1> DEFINE Holds(w) == \A x, y \in Nat : Bitwise(f, Trunc(x, w), Trunc(y, w), w) = Bitwise(f, x, y, w)
           Bad == {w \in Nat : ~Holds(w)}
<1>1. SUFFICES ASSUME Bad # {} PROVE FALSE
  OBVIOUS
<1>2. PICK w \in Bad : \A k \in Bad : ~(k < w)
  <2>1. Bad \subseteq Nat
    OBVIOUS
  <2> HIDE DEF Bad
  <2>2. QED
    BY <1>1, <2>1, Least
<1>3. w # 0
  <2>1. \A x, y \in Nat : Bitwise(f, x, y, 0) = 0
    BY BitwiseIs
  <2>2. \A x \in Nat : Trunc(x, 0) \in Nat
    <3>1. \A x \in Nat : Trunc(x, 0) = 0
      BY TruncJoined
    <3>2. QED
      BY <3>1
  <2>3. Holds(0)
    BY <2>1, <2>2
  <2> HIDE DEF Holds
  <2>4. QED
    BY <1>2, <2>3
<1>4. w \in Nat /\ w - 1 \in Nat /\ w - 1 < w /\ (w - 1) + 1 = w
  BY <1>2, <1>3
<1> DEFINE v == w - 1
<1>5. v \in Nat /\ v + 1 = w /\ Holds(v)
  BY <1>2, <1>4
<1> HIDE DEF v
<1>6. ASSUME NEW x \in Nat
      PROVE  /\ Trunc(x, w) \in Nat /\ Bit(Trunc(x, w)) = Bit(x)
             /\ Half(Trunc(x, w)) = Trunc(Half(x), v) /\ Half(x) \in Nat
  <2>1. Half(x) \in Nat /\ Bit(x) \in 0 .. 1
    BY HalfIs
  <2>2. Trunc(Half(x), v) \in Nat
    BY <1>5, <2>1, TruncWord
  <2>3. Trunc(x, w) = Joined(Bit(x), Trunc(Half(x), v))
    BY <1>5, TruncJoined
  <2>4. QED
    BY <2>1, <2>2, <2>3, HalfIs
<1>7. ASSUME NEW x \in Nat, NEW y \in Nat
      PROVE  Bitwise(f, Trunc(x, w), Trunc(y, w), w) = Bitwise(f, x, y, w)
  <2>1. Bitwise(f, x, y, w) = Joined(Low(f, x, y), Bitwise(f, Half(x), Half(y), v))
    BY <1>5, BitwiseIs
  <2> DEFINE tx == Trunc(x, w)
             ty == Trunc(y, w)
  <2>2. tx \in Nat /\ ty \in Nat
    BY <1>6
  <2>3. Bitwise(f, tx, ty, w) = Joined(Low(f, tx, ty), Bitwise(f, Half(tx), Half(ty), v))
    <3> HIDE DEF tx, ty
    <3>1. QED
      BY <1>5, <2>2, BitwiseIs
  <2>4. Low(f, tx, ty) = Low(f, x, y)
    BY <1>6 DEF Low
  <2>5. Bitwise(f, Half(tx), Half(ty), v) = Bitwise(f, Half(x), Half(y), v)
    BY <1>5, <1>6
  <2>6. QED
    BY <2>1, <2>3, <2>4, <2>5
<1>8. QED
  BY <1>2, <1>7

LEMMA XorIs ==
  /\ IsTable(XorBit) /\ IsTable(OrBit) /\ IsTable(AndBit)
  /\ \A a, b \in 0 .. 1 : XorBit[XorBit[a][b]][b] = a
<1>1. IsTable(XorBit) /\ IsTable(OrBit) /\ IsTable(AndBit)
  BY DEF IsTable, XorBit, OrBit, AndBit
<1>2. \A a, b \in 0 .. 1 : XorBit[a][b] = IF a = b THEN 0 ELSE 1
  BY DEF XorBit
<1>3. QED
  BY <1>1, <1>2

LEMMA XorNat == \A w \in Nat : \A x, y \in Nat : InWord(Xor(x, y, w), w) /\ Xor(x, y, w) \in Nat
<1>1. IsTable(XorBit)
  BY XorIs
<1>2. \A w \in Nat : \A x, y \in Nat : InWord(Xor(x, y, w), w)
  BY <1>1, BitwiseWord DEF Xor
<1>3. \A w \in Nat : \A x : InWord(x, w) => x \in Nat
  BY TruncOfWord
<1>4. QED
  BY <1>2, <1>3

\* One bit of the word masked twice.
LEMMA XorStep ==
  ASSUME NEW v \in Nat, NEW r \in Nat, NEW n \in Nat, NEW w \in Nat,
         NEW m, Successor(m, n), NEW u, Successor(u, w)
  PROVE  Xor(Xor(v, r, m), r, u) = Joined(Bit(v), Xor(Xor(Half(v), Half(r), n), Half(r), w))
<1>1. IsTable(XorBit)
  BY XorIs
<1>2. \A k \in Nat : \A a, b \in Nat : Xor(a, b, k) \in Nat
  BY XorNat
<1>3. Half(v) \in Nat /\ Half(r) \in Nat /\ Bit(v) \in 0 .. 1 /\ Bit(r) \in 0 .. 1
  BY HalfIs
<1> DEFINE x == Xor(v, r, m)
           q == Xor(Half(v), Half(r), n)
           l == XorBit[Bit(v)][Bit(r)]
<1>4. x = Joined(l, q) /\ l \in 0 .. 1 /\ q \in Nat
  <2>1. x = Joined(Low(XorBit, v, r), q)
    BY <1>1, BitwiseNext DEF Xor
  <2>2. l \in 0 .. 1 /\ l = Low(XorBit, v, r)
    BY <1>1, LowIs DEF Low
  <2>3. QED
    BY <1>2, <1>3, <2>1, <2>2
<1>5. x \in Nat /\ Bit(x) = l /\ Half(x) = q
  <2> HIDE DEF x, q, l
  <2>1. QED
    BY <1>4, HalfIs
<1>6. Xor(x, r, u) = Joined(Low(XorBit, x, r), Xor(Half(x), Half(r), w))
  <2> HIDE DEF x
  <2>1. Bitwise(XorBit, x, r, u) = Joined(Low(XorBit, x, r), Bitwise(XorBit, Half(x), Half(r), w))
    BY <1>1, <1>5, BitwiseNext
  <2>2. QED
    BY <2>1 DEF Xor
<1>7. Low(XorBit, x, r) = Bit(v)
  <2>1. Low(XorBit, x, r) = XorBit[l][Bit(r)]
    <3> HIDE DEF x, l
    <3>1. QED
      BY <1>5 DEF Low
  <2>2. QED
    BY <1>3, <2>1, XorIs
<1>8. QED
  BY <1>2, <1>5, <1>6, <1>7

\* In no more bits than the value was masked in.
LEMMA XorTwice ==
  \A w \in Nat : \A n \in Nat : \A v, r \in Nat :
    w <= n => Xor(Xor(v, r, n), r, w) = Trunc(v, w)
<1> DEFINE Holds(w) == \A n \in Nat : \A v, r \in Nat :
                         w <= n => Xor(Xor(v, r, n), r, w) = Trunc(v, w)
           Bad == {w \in Nat : ~Holds(w)}
<1>1. SUFFICES ASSUME Bad # {} PROVE FALSE
  OBVIOUS
<1>2. PICK w \in Bad : \A k \in Bad : ~(k < w)
  <2>1. Bad \subseteq Nat
    OBVIOUS
  <2> HIDE DEF Bad
  <2>2. QED
    BY <1>1, <2>1, Least
<1>3. w # 0
  <2>1. IsTable(XorBit)
    BY XorIs
  <2>2. ASSUME NEW n \in Nat, NEW v \in Nat, NEW r \in Nat PROVE Xor(Xor(v, r, n), r, 0) = Trunc(v, 0)
    <3>1. Xor(v, r, n) \in Nat
      BY XorNat
    <3>2. Xor(Xor(v, r, n), r, 0) = 0
      <4> DEFINE x == Xor(v, r, n)
      <4>1. x \in Nat
        BY <3>1
      <4> HIDE DEF x
      <4>2. Xor(x, r, 0) = 0
        BY <2>1, <4>1, BitwiseIs DEF Xor
      <4>3. QED
        BY <4>2 DEF x
    <3>3. QED
      BY <3>2, TruncJoined
  <2>3. Holds(0)
    BY <2>2
  <2> HIDE DEF Holds
  <2>4. QED
    BY <1>2, <2>3
<1>4. w \in Nat /\ w - 1 \in Nat /\ w - 1 < w /\ (w - 1) + 1 = w
  BY <1>2, <1>3
<1>5. Holds(w - 1)
  BY <1>2, <1>4
<1>6. ASSUME NEW n \in Nat, NEW v \in Nat, NEW r \in Nat, w <= n
      PROVE  Xor(Xor(v, r, n), r, w) = Trunc(v, w)
  <2>1. PICK m \in Nat, u \in Nat : m + 1 = n /\ u + 1 = w /\ u <= m /\ u = w - 1
    BY <1>4, <1>6
  <2>2. Half(v) \in Nat /\ Half(r) \in Nat
    BY HalfIs
  <2>3. Xor(Xor(v, r, n), r, w) = Joined(Bit(v), Xor(Xor(Half(v), Half(r), m), Half(r), u))
    <3>1. Successor(n, m) /\ Successor(w, u)
      BY <2>1 DEF Successor
    <3>2. QED
      BY <3>1, XorStep
  <2>4. Xor(Xor(Half(v), Half(r), m), Half(r), u) = Trunc(Half(v), u)
    BY <1>5, <2>1, <2>2
  <2>5. Trunc(v, u + 1) = Joined(Bit(v), Trunc(Half(v), u))
    BY TruncJoined
  <2>6. QED
    BY <2>1, <2>3, <2>4, <2>5
<1>7. QED
  BY <1>2, <1>6
\* In more bits than the value and the mask have.
LEMMA XorTwiceWide ==
  \A w \in Nat : \A n \in Nat : \A v, r :
    n <= w /\ InWord(v, n) /\ InWord(r, n) => Xor(Xor(v, r, n), r, w) = v
<1> DEFINE Holds(w) == \A n \in Nat : \A v, r :
                         n <= w /\ InWord(v, n) /\ InWord(r, n) => Xor(Xor(v, r, n), r, w) = v
           Bad == {w \in Nat : ~Holds(w)}
<1>1. SUFFICES ASSUME Bad # {} PROVE FALSE
  OBVIOUS
<1>2. PICK w \in Bad : \A k \in Bad : ~(k < w)
  <2>1. Bad \subseteq Nat
    OBVIOUS
  <2> HIDE DEF Bad
  <2>2. QED
    BY <1>1, <2>1, Least
<1>3. IsTable(XorBit)
  BY XorIs
<1>4. \A v : InWord(v, 0) => v = 0
  BY Pow2Is DEF InWord
<1>5. \A v, r \in Nat : Xor(v, r, 0) = 0
  BY <1>3, BitwiseIs DEF Xor
<1>6. PICK n \in Nat : \E v, r : n <= w /\ InWord(v, n) /\ InWord(r, n) /\ Xor(Xor(v, r, n), r, w) # v
  BY <1>2
<1>7. PICK v, r : n <= w /\ InWord(v, n) /\ InWord(r, n) /\ Xor(Xor(v, r, n), r, w) # v
  BY <1>6
<1>8. w # 0
  <2>1. SUFFICES ASSUME w = 0 PROVE FALSE
    OBVIOUS
  <2>2. n = 0
    BY <1>7, <2>1
  <2>3. v = 0 /\ r = 0
    BY <1>4, <1>7, <2>2
  <2>4. Xor(0, 0, 0) = 0
    BY <1>5
  <2>5. QED
    BY <1>7, <2>1, <2>2, <2>3, <2>4
<1>9. PICK u \in Nat : u + 1 = w /\ Holds(u)
  <2>1. w \in Nat /\ w - 1 \in Nat /\ w - 1 < w /\ (w - 1) + 1 = w
    BY <1>2, <1>8
  <2>2. Holds(w - 1)
    BY <1>2, <2>1
  <2> HIDE DEF Holds
  <2>3. QED
    BY <2>1, <2>2
<1>10. Joined(0, 0) = 0 /\ Bit(0) = 0 /\ Half(0) = 0
  <2>1. Joined(0, 0) = 0
    BY DEF Joined
  <2>2. QED
    BY <2>1, HalfIs
<1>11. CASE n = 0
  <2>1. v = 0 /\ r = 0 /\ Xor(0, 0, 0) = 0
    BY <1>4, <1>5, <1>7, <1>11
  <2>2. Xor(0, 0, u) = 0
    <3>1. InWord(0, 0)
      BY Pow2Is DEF InWord
    <3>2. Xor(Xor(0, 0, 0), 0, u) = 0
      BY <1>9, <3>1
    <3>3. QED
      BY <2>1, <3>2
  <2>3. Bitwise(XorBit, 0, 0, u + 1) = Joined(Low(XorBit, 0, 0), Bitwise(XorBit, Half(0), Half(0), u))
    BY <1>3, BitwiseIs
  <2>4. Low(XorBit, 0, 0) = 0
    BY <1>10 DEF Low, XorBit
  <2>5. Xor(0, 0, w) = 0
    BY <1>9, <1>10, <2>2, <2>3, <2>4 DEF Xor
  <2>6. QED
    BY <1>7, <1>11, <2>1, <2>5
<1>12. CASE n # 0
  <2>1. PICK m \in Nat : m + 1 = n /\ m <= u
    <3>1. n - 1 \in Nat /\ (n - 1) + 1 = n /\ n - 1 <= u
      BY <1>7, <1>9, <1>12
    <3>2. QED
      BY <3>1
  <2>2. v \in Nat /\ r \in Nat /\ InWord(Half(v), m) /\ InWord(Half(r), m)
    BY <1>7, <2>1, WordHalves
  <2>3. Xor(Xor(v, r, n), r, w) = Joined(Bit(v), Xor(Xor(Half(v), Half(r), m), Half(r), u))
    <3>1. Successor(n, m) /\ Successor(w, u)
      BY <1>9, <2>1 DEF Successor
    <3>2. QED
      BY <2>2, <3>1, XorStep
  <2>4. Xor(Xor(Half(v), Half(r), m), Half(r), u) = Half(v)
    BY <1>9, <2>1, <2>2
  <2>5. v = Joined(Bit(v), Half(v))
    BY <2>2, HalfIs
  <2>6. QED
    BY <1>7, <2>3, <2>4, <2>5
<1>13. QED
  BY <1>11, <1>12

\* constant_altering.cc:52-60: the constant c of w bits, altered by a random word of
\* n bits and through the black box, is c again: of any width up to that of the
\* machine word, and wider if it is not negative.  (It is not, if it is.)
THEOREM MaskCancels ==
  ASSUME NEW w \in Nat \ {0}, NEW n \in Nat \ {0}, NEW c, InWord(c, w), NEW r, InWord(r, n),
         Signed(c, w) \in -Pow2[n - 1] .. Pow2[n - 1] - 1,
         w <= n \/ Signed(c, w) >= 0
  PROVE  Xor(Trunc(Xor(Trunc(Signed(c, w), n), r, n), w), Trunc(r, w), w) = c
<1> DEFINE s == Signed(c, w)
           v == Trunc(s, n)
           x == Xor(v, r, n)
<1>1. Pow2[w] \in Nat /\ c \in 0 .. Pow2[w] - 1 /\ c \in Nat /\ s \in Int /\ (s = c \/ s = c - Pow2[w])
  BY Pow2Is DEF InWord, Signed
<1>2. InWord(v, n) /\ v \in Nat
  BY <1>1, TruncWord
<1>3. IsTable(XorBit)
  BY XorIs
<1>4. r \in Nat /\ InWord(r, n)
  BY TruncOfWord
<1>5. InWord(x, n) /\ x \in Nat
  <2>1. InWord(x, n)
    BY <1>2, <1>3, <1>4, BitwiseWord DEF Xor
  <2> HIDE DEF x
  <2>2. QED
    BY <2>1, TruncOfWord
<1> HIDE DEF s, v, x
<1>6. CASE w <= n
  <2>1. Xor(Trunc(x, w), Trunc(r, w), w) = Xor(x, r, w)
    BY <1>3, <1>4, <1>5, BitwiseTrunc DEF Xor
  <2>2. Xor(x, r, w) = Trunc(v, w)
    BY <1>2, <1>4, <1>6, XorTwice DEF x
  <2>3. Trunc(v, w) = Trunc(s, w)
    BY <1>1, <1>6, LongerWord DEF v
  <2>4. Trunc(s, w) = c
    <3>1. s = Pow2[w] * 0 + c \/ s = Pow2[w] * (-1) + c
      BY <1>1
    <3>2. QED
      BY <1>1, <3>1, TruncUnique
  <2>5. QED
    BY <2>1, <2>2, <2>3, <2>4 DEF x, v, s
<1>7. CASE ~(w <= n)
  <2>1. s = c /\ n <= w
    BY <1>1, <1>7 DEF s
  <2>2. InWord(c, n)
    <3>1. n - 1 \in Nat /\ (n - 1) + 1 = n
      OBVIOUS
    <3>2. Pow2[n] = 2 * Pow2[n - 1] /\ Pow2[n - 1] \in Nat
      BY <3>1, Pow2Is
    <3>3. QED
      BY <1>1, <2>1, <3>2 DEF InWord, s
  <2>3. v = c
    BY <2>1, <2>2, TruncOfWord DEF v
  <2>4. Trunc(x, w) = x /\ Trunc(r, w) = r
    <3>1. InWord(x, w) /\ InWord(r, w)
      BY <1>4, <1>5, <2>1, LongerWord
    <3>2. QED
      BY <3>1, TruncOfWord
  <2>5. Xor(x, r, w) = v
    BY <1>2, <1>4, <2>1, XorTwiceWide DEF x
  <2>6. QED
    BY <2>3, <2>4, <2>5 DEF x, v, s
<1>8. QED
  BY <1>6, <1>7
\* What an operation that is not undefined makes of two words is a word.
LEMMA ComputeWord ==
  ASSUME NEW op \in Binary, NEW w \in Nat, NEW x, InWord(x, w), NEW y, InWord(y, w),
         ~Undefined(op, x, y, w)
  PROVE  InWord(Compute(op, x, y, w), w)
<1>1. x \in Nat /\ y \in Nat /\ Pow2[w] \in Nat /\ x < Pow2[w] /\ y < Pow2[w]
  <2>1. x \in Nat /\ y \in Nat
    BY TruncOfWord
  <2>2. QED
    BY <2>1, Pow2Is DEF InWord
<1>2. CASE op = "add"
  <2>1. x + y \in Int
    BY <1>1
  <2>2. QED
    BY <1>2, <2>1, TruncWord DEF Compute
<1>3. CASE op = "sub"
  <2>1. x - y \in Int
    BY <1>1
  <2>2. QED
    BY <1>3, <2>1, TruncWord DEF Compute
<1>4. CASE op = "mul"
  <2>1. x * y \in Int
    BY <1>1
  <2>2. QED
    BY <1>4, <2>1, TruncWord DEF Compute
<1>5. CASE op = "shl"
  <2>1. Pow2[y] \in Nat
    BY <1>1, Pow2Is
  <2>2. x * Pow2[y] \in Int
    BY <1>1, <2>1
  <2>3. QED
    BY <1>5, <2>2, TruncWord DEF Compute
<1>6. CASE op \in {"xor", "or", "and"}
  <2>1. \A f : IsTable(f) => InWord(Bitwise(f, x, y, w), w)
    BY <1>1, BitwiseWord
  <2>2. QED
    BY <1>6, <2>1, XorIs DEF Compute, Xor
<1>7. CASE op = "sdiv"
  <2> DEFINE a == Signed(x, w)
             b == Signed(y, w)
             abs(z) == IF z < 0 THEN -z ELSE z
             q == abs(a) \div abs(b)
  <2>1. y # 0
    BY <1>7 DEF Undefined
  <2>2. a \in Int /\ b \in Int /\ b # 0
    BY <1>1, <2>1 DEF Signed
  <2> HIDE DEF a, b
  <2>3. PICK i \in Nat, j \in Nat \ {0} : i = abs(a) /\ j = abs(b)
    BY <2>2
  <2>4. i \div j \in Int
    OBVIOUS
  <2>5. q \in Int
    BY <2>3, <2>4
  <2> HIDE DEF q
  <2>6. (IF (a < 0) = (b < 0) THEN q ELSE -q) \in Int
    BY <2>5
  <2>7. InWord(Trunc(IF (a < 0) = (b < 0) THEN q ELSE -q, w), w)
    <3> DEFINE z == IF (a < 0) = (b < 0) THEN q ELSE -q
    <3>1. z \in Int
      BY <2>6
    <3> HIDE DEF z
    <3>2. InWord(Trunc(z, w), w)
      BY <3>1, TruncWord
    <3>3. QED
      BY <3>2 DEF z
  <2>8. Compute(op, x, y, w) = Trunc(IF (a < 0) = (b < 0) THEN q ELSE -q, w)
    BY <1>7 DEF Compute, SDiv, a, b, q
  <2>9. QED
    BY <2>7, <2>8
<1>8. QED
  BY <1>2, <1>3, <1>4, <1>5, <1>6, <1>7 DEF Binary

LEMMA TwoIs ==
  ASSUME NEW w \in Nat \ {0}
  PROVE  InWord(0, w) /\ InWord(1, w) /\ (InWord(2, w) <=> w # 1) /\ Pow2[1] = 2
<1>1. w - 1 \in Nat /\ (w - 1) + 1 = w
  OBVIOUS
<1>2. Pow2[w] = 2 * Pow2[w - 1] /\ Pow2[w - 1] \in Nat \ {0} /\ Pow2[w] \in Nat
  BY <1>1, Pow2Is
<1>3. Pow2[1] = 2
  <2>1. 0 \in Nat /\ 0 + 1 = 1
    OBVIOUS
  <2>2. QED
    BY <2>1, Pow2Is
<1>4. w # 1 => Pow2[w - 1] >= 2
  <2>1. SUFFICES ASSUME w # 1 PROVE Pow2[w - 1] >= 2
    OBVIOUS
  <2>2. w - 2 \in Nat /\ (w - 2) + 1 = w - 1
    BY <2>1
  <2>3. Pow2[w - 1] = 2 * Pow2[w - 2] /\ Pow2[w - 2] \in Nat \ {0}
    BY <2>2, Pow2Is
  <2>4. QED
    BY <2>3
<1>5. QED
  BY <1>2, <1>3, <1>4 DEF InWord

\* Mul2ToShl1.cpp:46-52: where 2 is a word at all, a product with it on either side
\* is the shift by one, which is defined.
THEOREM DoubleIsShift ==
  ASSUME NEW w \in Nat \ {0}, InWord(2, w), NEW x \in Nat
  PROVE  /\ ~Undefined("shl", x, 1, w)
         /\ Compute("shl", x, 1, w) = Compute("mul", x, 2, w)
         /\ Compute("shl", x, 1, w) = Compute("mul", 2, x, w)
<1>1. w # 1 /\ Pow2[1] = 2
  BY TwoIs
<1>2. ~Undefined("shl", x, 1, w)
  BY <1>1 DEF Undefined
<1>3. x * Pow2[1] = x * 2 /\ x * 2 = 2 * x
  BY <1>1
<1>4. QED
  BY <1>2, <1>3 DEF Compute

(***************************************************************************)
(* Blocks.                                                                 *)
(***************************************************************************)

(* Sequences, whatever their elements are.                                 *)
IsSeq(s) == Len(s) \in Nat /\ s = [i \in 1 .. Len(s) |-> s[i]]

LEMMA SeqFrom ==
  ASSUME NEW S, NEW s \in Seq(S)
  PROVE  IsSeq(s) /\ DOMAIN s = 1 .. Len(s)
BY DEF IsSeq

LEMMA SeqIn ==
  ASSUME NEW s, IsSeq(s)
  PROVE  s \in Seq({s[i] : i \in 1 .. Len(s)}) /\ DOMAIN s = 1 .. Len(s)
<1> DEFINE S == {s[i] : i \in 1 .. Len(s)}
<1>1. s \in [1 .. Len(s) -> S] /\ Len(s) \in Nat
  BY DEF IsSeq
<1> HIDE DEF S
<1>2. s \in Seq(S) /\ DOMAIN s = 1 .. Len(s)
  BY <1>1
<1>3. QED
  BY <1>2 DEF S

\* Two sequences of which one knows length and elements are the same.
LEMMA SeqMade ==
  ASSUME NEW n \in Nat, NEW s, s = [i \in 1 .. n |-> s[i]]
  PROVE  IsSeq(s) /\ Len(s) = n /\ DOMAIN s = 1 .. n
<1> DEFINE S == {s[i] : i \in 1 .. n}
<1>1. s \in [1 .. n -> S]
  OBVIOUS
<1> HIDE DEF S
<1>2. s \in Seq(S) /\ Len(s) = n
  BY <1>1
<1>3. QED
  BY <1>2 DEF IsSeq

LEMMA ConcatIs ==
  ASSUME NEW s, NEW t, IsSeq(s), IsSeq(t)
  PROVE  LET r == s \o t
         IN  /\ IsSeq(r) /\ Len(r) = Len(s) + Len(t)
             /\ \A i \in 1 .. Len(s) : r[i] = s[i]
             /\ \A i \in 1 .. Len(t) : r[Len(s) + i] = t[i]
<1> DEFINE S == {s[i] : i \in 1 .. Len(s)} \cup {t[i] : i \in 1 .. Len(t)}
           r == s \o t
<1>1. s \in [1 .. Len(s) -> S] /\ t \in [1 .. Len(t) -> S] /\ Len(s) \in Nat /\ Len(t) \in Nat
  BY DEF IsSeq
<1> HIDE DEF S
<1>2. s \in Seq(S) /\ t \in Seq(S)
  BY <1>1
<1>3. r \in Seq(S)
  BY <1>2
<1>4. Len(r) = Len(s) + Len(t) /\ IsSeq(r)
  <2>1. Len(r) = Len(s) + Len(t)
    BY <1>2
  <2> HIDE DEF r
  <2>2. IsSeq(r)
    BY <1>3, SeqFrom
  <2>3. QED
    BY <2>1, <2>2
<1>5. \A i \in 1 .. Len(s) : r[i] = s[i]
  BY <1>2
<1>6. ASSUME NEW i \in 1 .. Len(t) PROVE r[Len(s) + i] = t[i]
  BY <1>2
<1>7. QED
  BY <1>4, <1>5, <1>6

LEMMA SubSeqIs ==
  ASSUME NEW s, IsSeq(s), NEW m \in 1 .. Len(s) + 1, NEW n \in m - 1 .. Len(s)
  PROVE  LET r == SubSeq(s, m, n)
         IN  /\ IsSeq(r) /\ Len(r) = n - m + 1
             /\ \A i \in 1 .. n - m + 1 : r[i] = s[m + i - 1]
<1> DEFINE S == {s[i] : i \in 1 .. Len(s)}
<1>1. s \in Seq(S) /\ Len(s) \in Nat
  BY SeqIn DEF IsSeq
<1> HIDE DEF S
<1>2. SubSeq(s, m, n) \in Seq(S) /\ Len(SubSeq(s, m, n)) = n - m + 1
  BY <1>1
<1>3. \A i \in 1 .. n - m + 1 : SubSeq(s, m, n)[i] = s[m + i - 1]
  BY <1>1
<1>4. QED
  BY <1>2, <1>3, SeqFrom

LEMMA HeadTail ==
  ASSUME NEW s, IsSeq(s), s # <<>>
  PROVE  /\ Len(s) >= 1 /\ Head(s) = s[1] /\ IsSeq(Tail(s)) /\ Len(Tail(s)) = Len(s) - 1
         /\ \A i \in 1 .. Len(s) - 1 : Tail(s)[i] = s[i + 1]
<1> DEFINE S == {s[i] : i \in 1 .. Len(s)}
<1>1. s \in Seq(S)
  BY SeqIn
<1> HIDE DEF S
<1>2. Len(s) >= 1 /\ Head(s) = s[1] /\ Tail(s) \in Seq(S) /\ Len(Tail(s)) = Len(s) - 1
  BY <1>1
<1>3. \A i \in 1 .. Len(s) - 1 : Tail(s)[i] = s[i + 1]
  BY <1>1
<1>4. QED
  BY <1>2, <1>3, SeqFrom

LEMMA AppendIs ==
  ASSUME NEW s, IsSeq(s), NEW e
  PROVE  LET r == Append(s, e)
         IN  /\ IsSeq(r) /\ Len(r) = Len(s) + 1 /\ r[Len(s) + 1] = e
             /\ \A i \in 1 .. Len(s) : r[i] = s[i]
<1> DEFINE S == {s[i] : i \in 1 .. Len(s)} \cup {e}
<1>1. s \in [1 .. Len(s) -> S] /\ Len(s) \in Nat
  BY DEF IsSeq
<1>2. e \in S
  OBVIOUS
<1> HIDE DEF S
<1>3. s \in Seq(S)
  BY <1>1
<1>4. /\ Append(s, e) \in Seq(S) /\ Len(Append(s, e)) = Len(s) + 1 /\ Append(s, e)[Len(s) + 1] = e
      /\ \A i \in 1 .. Len(s) : Append(s, e)[i] = s[i]
  BY <1>2, <1>3
<1>5. QED
  BY <1>4, SeqFrom

\* Code inserted at k, and an element removed.
LEMMA BeforeIs ==
  ASSUME NEW b, NEW new, IsSeq(b), IsSeq(new), NEW k \in 1 .. Len(b)
  PROVE  LET r == Before(b, k, new)
             n == Len(new)
         IN  /\ IsSeq(r) /\ Len(r) = Len(b) + n
             /\ \A i \in 1 .. k - 1 : r[i] = b[i]
             /\ \A i \in 1 .. n : r[k - 1 + i] = new[i]
             /\ \A i \in k .. Len(b) : r[i + n] = b[i]
<1> DEFINE n == Len(new)
           s == SubSeq(b, 1, k - 1)
           t == SubSeq(b, k, Len(b))
           u == s \o new
           r == u \o t
<1>1. Len(b) \in Nat /\ n \in Nat
  BY DEF IsSeq
<1>2. /\ IsSeq(s) /\ Len(s) = k - 1 - 1 + 1 /\ \A i \in 1 .. k - 1 - 1 + 1 : s[i] = b[1 + i - 1]
  <2>1. 1 \in 1 .. Len(b) + 1 /\ k - 1 \in 1 - 1 .. Len(b)
    BY <1>1
  <2>2. QED
    BY <2>1, SubSeqIs
<1>3. /\ IsSeq(t) /\ Len(t) = Len(b) - k + 1 /\ \A i \in 1 .. Len(b) - k + 1 : t[i] = b[k + i - 1]
  <2>1. k \in 1 .. Len(b) + 1 /\ Len(b) \in k - 1 .. Len(b)
    BY <1>1
  <2>2. QED
    BY <2>1, SubSeqIs
<1>4. /\ IsSeq(u) /\ Len(u) = Len(s) + n
      /\ \A i \in 1 .. Len(s) : u[i] = s[i]
      /\ \A i \in 1 .. n : u[Len(s) + i] = new[i]
  BY <1>2, ConcatIs
<1>5. /\ IsSeq(r) /\ Len(r) = Len(u) + Len(t)
      /\ \A i \in 1 .. Len(u) : r[i] = u[i]
      /\ \A i \in 1 .. Len(t) : r[Len(u) + i] = t[i]
  <2>1. IsSeq(u) /\ IsSeq(t)
    BY <1>3, <1>4
  <2> HIDE DEF u, t
  <2>2. QED
    BY <2>1, ConcatIs
<1>6. Before(b, k, new) = r
  BY DEF Before
<1> HIDE DEF n, s, t, u, r
<1>7. Len(s) = k - 1 /\ Len(u) = k - 1 + n /\ Len(r) = Len(b) + n
  BY <1>1, <1>2, <1>3, <1>4, <1>5
<1>8. ASSUME NEW i \in 1 .. k - 1 PROVE r[i] = b[i]
  <2>1. i \in 1 .. Len(u) /\ i \in 1 .. Len(s) /\ i \in 1 .. k - 1 - 1 + 1 /\ 1 + i - 1 = i
    BY <1>1, <1>7
  <2>2. QED
    BY <1>2, <1>4, <1>5, <2>1
<1>9. ASSUME NEW i \in 1 .. n PROVE r[k - 1 + i] = new[i]
  <2>1. k - 1 + i \in 1 .. Len(u) /\ Len(s) + i = k - 1 + i
    BY <1>1, <1>7
  <2>2. QED
    BY <1>4, <1>5, <2>1
<1>10. ASSUME NEW i \in k .. Len(b) PROVE r[i + n] = b[i]
  <2>1. i - k + 1 \in 1 .. Len(t) /\ Len(u) + (i - k + 1) = i + n /\ k + (i - k + 1) - 1 = i
    BY <1>1, <1>3, <1>7
  <2>2. t[i - k + 1] = b[i]
    BY <1>3, <2>1
  <2>3. QED
    BY <1>5, <2>1, <2>2
<1>11. /\ IsSeq(r) /\ Len(r) = Len(b) + n
       /\ \A i \in 1 .. k - 1 : r[i] = b[i]
       /\ \A i \in 1 .. n : r[k - 1 + i] = new[i]
       /\ \A i \in k .. Len(b) : r[i + n] = b[i]
  BY <1>5, <1>7, <1>8, <1>9, <1>10
<1>12. QED
  BY <1>6, <1>11 DEF n

LEMMA RemoveAtIs ==
  ASSUME NEW b, IsSeq(b), NEW k \in 1 .. Len(b)
  PROVE  LET r == RemoveAt(b, k)
         IN  /\ IsSeq(r) /\ Len(r) = Len(b) - 1
             /\ \A i \in 1 .. k - 1 : r[i] = b[i]
             /\ \A i \in k .. Len(b) - 1 : r[i] = b[i + 1]
<1> DEFINE s == SubSeq(b, 1, k - 1)
           t == SubSeq(b, k + 1, Len(b))
           r == s \o t
<1>1. Len(b) \in Nat
  BY DEF IsSeq
<1>2. /\ IsSeq(s) /\ Len(s) = k - 1 - 1 + 1 /\ \A i \in 1 .. k - 1 - 1 + 1 : s[i] = b[1 + i - 1]
  <2>1. 1 \in 1 .. Len(b) + 1 /\ k - 1 \in 1 - 1 .. Len(b)
    BY <1>1
  <2>2. QED
    BY <2>1, SubSeqIs
<1>3. /\ IsSeq(t) /\ Len(t) = Len(b) - (k + 1) + 1 /\ \A i \in 1 .. Len(b) - (k + 1) + 1 : t[i] = b[k + 1 + i - 1]
  <2>1. k + 1 \in 1 .. Len(b) + 1 /\ Len(b) \in (k + 1) - 1 .. Len(b)
    BY <1>1
  <2>2. QED
    BY <2>1, SubSeqIs
<1>4. /\ IsSeq(r) /\ Len(r) = Len(s) + Len(t)
      /\ \A i \in 1 .. Len(s) : r[i] = s[i]
      /\ \A i \in 1 .. Len(t) : r[Len(s) + i] = t[i]
  <2>1. IsSeq(s) /\ IsSeq(t)
    BY <1>2, <1>3
  <2> HIDE DEF s, t
  <2>2. QED
    BY <2>1, ConcatIs
<1>5. RemoveAt(b, k) = r
  BY DEF RemoveAt
<1> HIDE DEF s, t, r
<1>6. Len(s) = k - 1 /\ Len(t) = Len(b) - k /\ Len(r) = Len(b) - 1
  BY <1>1, <1>2, <1>3, <1>4
<1>7. ASSUME NEW i \in 1 .. k - 1 PROVE r[i] = b[i]
  <2>1. i \in 1 .. Len(s) /\ i \in 1 .. k - 1 - 1 + 1 /\ 1 + i - 1 = i
    BY <1>1, <1>6
  <2>2. QED
    BY <1>2, <1>4, <2>1
<1>8. ASSUME NEW i \in k .. Len(b) - 1 PROVE r[i] = b[i + 1]
  <2>1. i - k + 1 \in 1 .. Len(t) /\ i - k + 1 \in 1 .. Len(b) - (k + 1) + 1
        /\ Len(s) + (i - k + 1) = i /\ k + 1 + (i - k + 1) - 1 = i + 1
    BY <1>1, <1>6
  <2>2. t[i - k + 1] = b[i + 1]
    BY <1>3, <2>1
  <2>3. QED
    BY <1>4, <2>1, <2>2
<1>9. /\ IsSeq(r) /\ Len(r) = Len(b) - 1
      /\ \A i \in 1 .. k - 1 : r[i] = b[i]
      /\ \A i \in k .. Len(b) - 1 : r[i] = b[i + 1]
  BY <1>4, <1>6, <1>7, <1>8
<1>10. QED
  BY <1>5, <1>9

\* What FlattenSeq makes of a sequence of sequences, by induction on the number of
\* sequences joined: o says where an element comes from.
From(s, xs, m, o) ==
  /\ o \in [1 .. Len(s) -> 1 .. m]
  /\ \A i \in 1 .. Len(s) : \E j \in 1 .. Len(xs[o[i]]) : s[i] = xs[o[i]][j]
  /\ (\A k \in 1 .. m : Len(xs[k]) <= 1) => \A i, l \in 1 .. Len(s) : i < l => o[i] < o[l]
  /\ \A k \in 1 .. m : Len(xs[k]) >= 1 => \E i \in 1 .. Len(s) : o[i] = k

LEMMA FromFirst ==
  ASSUME NEW xs, IsSeq(xs[1])
  PROVE  \E o : From(xs[1], xs, 1, o)
<1> DEFINE o == [i \in 1 .. Len(xs[1]) |-> 1]
<1>1. From(xs[1], xs, 1, o)
  <2>1. o \in [1 .. Len(xs[1]) -> 1 .. 1] /\ Len(xs[1]) \in Nat
    BY DEF IsSeq
  <2>2. \A i \in 1 .. Len(xs[1]) : \E j \in 1 .. Len(xs[o[i]]) : xs[1][i] = xs[o[i]][j]
    OBVIOUS
  <2>3. ASSUME \A k \in 1 .. 1 : Len(xs[k]) <= 1, NEW i \in 1 .. Len(xs[1]), NEW l \in 1 .. Len(xs[1]), i < l
        PROVE  FALSE
    <3>1. Len(xs[1]) <= 1
      BY <2>3
    <3>2. QED
      BY <2>1, <2>3, <3>1
  <2>4. ASSUME NEW k \in 1 .. 1, Len(xs[k]) >= 1 PROVE \E i \in 1 .. Len(xs[1]) : o[i] = k
    <3>1. k = 1 /\ 1 \in 1 .. Len(xs[1])
      BY <2>1, <2>4
    <3>2. o[1] = k
      BY <3>1
    <3>3. QED
      BY <3>1, <3>2
  <2>5. QED
    BY <2>1, <2>2, <2>3, <2>4 DEF From
<1>2. QED
  BY <1>1

LEMMA FromNext ==
  ASSUME NEW xs, NEW s, NEW m \in Nat, NEW o, IsSeq(s), IsSeq(xs[m + 1]), From(s, xs, m, o)
  PROVE  IsSeq(s \o xs[m + 1]) /\ \E p : From(s \o xs[m + 1], xs, m + 1, p)
<1> DEFINE x == xs[m + 1]
           n == Len(s)
           r == s \o x
           p == [i \in 1 .. n + Len(x) |-> IF i <= n THEN o[i] ELSE m + 1]
<1>1. n \in Nat /\ Len(x) \in Nat
  BY DEF IsSeq
<1>2. /\ IsSeq(r) /\ Len(r) = n + Len(x) /\ \A i \in 1 .. n : r[i] = s[i]
      /\ \A i \in 1 .. Len(x) : r[n + i] = x[i]
  BY ConcatIs
<1>3. o \in [1 .. n -> 1 .. m] /\ \A i \in 1 .. n : \E j \in 1 .. Len(xs[o[i]]) : s[i] = xs[o[i]][j]
  BY DEF From
<1> HIDE DEF r
<1>4. p \in [1 .. Len(r) -> 1 .. m + 1]
  <2>1. ASSUME NEW i \in 1 .. n + Len(x) PROVE (IF i <= n THEN o[i] ELSE m + 1) \in 1 .. m + 1
    <3>1. CASE i <= n
      <4>1. i \in 1 .. n
        BY <1>1, <3>1
      <4>2. o[i] \in 1 .. m
        BY <1>3, <4>1
      <4>3. QED
        BY <3>1, <4>2
    <3>2. CASE ~(i <= n)
      BY <3>2
    <3>3. QED
      BY <3>1, <3>2
  <2>2. QED
    BY <1>2, <2>1
<1>5. ASSUME NEW i \in 1 .. Len(r) PROVE \E j \in 1 .. Len(xs[p[i]]) : r[i] = xs[p[i]][j]
  <2>1. i \in 1 .. n + Len(x)
    BY <1>2
  <2>2. CASE i <= n
    <3>1. i \in 1 .. n /\ p[i] = o[i] /\ r[i] = s[i]
      BY <1>1, <1>2, <2>1, <2>2
    <3>2. QED
      BY <1>3, <3>1
  <2>3. CASE ~(i <= n)
    <3>1. i - n \in 1 .. Len(x) /\ n + (i - n) = i
      BY <1>1, <2>1, <2>3
    <3>2. p[i] = m + 1
      BY <2>1, <2>3
    <3>3. r[i] = x[i - n]
      BY <1>2, <3>1
    <3>4. QED
      BY <3>1, <3>2, <3>3
  <2>4. QED
    BY <2>2, <2>3
<1>6. ASSUME \A k \in 1 .. m + 1 : Len(xs[k]) <= 1, NEW i \in 1 .. Len(r), NEW l \in 1 .. Len(r), i < l
      PROVE  p[i] < p[l]
  <2>1. \A k \in 1 .. m : Len(xs[k]) <= 1
    BY <1>6
  <2>2. i \in 1 .. n + Len(x) /\ l \in 1 .. n + Len(x) /\ Len(x) <= 1
    BY <1>2, <1>6
  <2>3. i \in 1 .. n
    BY <1>1, <1>6, <2>2
  <2>4. p[i] = o[i] /\ o[i] \in 1 .. m
    BY <1>3, <2>2, <2>3
  <2>5. CASE l <= n
    <3>1. l \in 1 .. n /\ p[l] = o[l]
      BY <1>1, <2>2, <2>5
    <3>2. QED
      BY <1>6, <2>1, <2>3, <2>4, <3>1 DEF From
  <2>6. CASE ~(l <= n)
    <3>1. p[l] = m + 1
      BY <2>2, <2>6
    <3>2. QED
      BY <2>4, <3>1
  <2>7. QED
    BY <2>5, <2>6
<1>7. ASSUME NEW k \in 1 .. m + 1, Len(xs[k]) >= 1 PROVE \E i \in 1 .. Len(r) : p[i] = k
  <2>1. CASE k = m + 1
    <3>1. n + 1 \in 1 .. n + Len(x) /\ ~(n + 1 <= n)
      BY <1>1, <1>7, <2>1
    <3>2. p[n + 1] = k
      BY <2>1, <3>1
    <3>3. QED
      BY <1>2, <3>1, <3>2
  <2>2. CASE k # m + 1
    <3>1. k \in 1 .. m
      BY <2>2
    <3>2. PICK i \in 1 .. n : o[i] = k
      BY <1>7, <3>1 DEF From
    <3>3. i \in 1 .. n + Len(x) /\ i <= n
      BY <1>1
    <3>4. p[i] = k
      BY <3>2, <3>3
    <3>5. QED
      BY <1>2, <3>3, <3>4
  <2>3. QED
    BY <2>1, <2>2
<1>8. From(r, xs, m + 1, p)
  <2> HIDE DEF p
  <2>1. QED
    BY <1>4, <1>5, <1>6, <1>7 DEF From
<1>9. QED
  BY <1>2, <1>8 DEF r

Joins(f, xs, n) == f = [i \in 1 .. n |-> IF i = 1 THEN xs[i] ELSE f[i - 1] \o xs[i]]

LEMMA JoinsExists ==
  ASSUME NEW xs, NEW n \in Nat \ {0}
  PROVE  \E f : Joins(f, xs, n)
<1> DEFINE None == {m \in Nat \ {0} : ~\E f : Joins(f, xs, m)}
<1>1. SUFFICES ASSUME None # {} PROVE FALSE
  OBVIOUS
<1>2. PICK m \in None : \A k \in None : ~(k < m)
  <2>1. None \subseteq Nat
    OBVIOUS
  <2> HIDE DEF None
  <2>2. QED
    BY <1>1, <2>1, Least
<1>3. m # 1
  <2> DEFINE f == [i \in 1 .. 1 |-> xs[1]]
  <2>1. Joins(f, xs, 1)
    BY DEF Joins
  <2>2. QED
    BY <1>2, <2>1
<1>4. m - 1 \in Nat \ {0} /\ m - 1 < m
  BY <1>2, <1>3
<1>5. PICK f : Joins(f, xs, m - 1)
  BY <1>2, <1>4
<1> DEFINE g == [i \in 1 .. m |-> IF i < m THEN f[i] ELSE f[m - 1] \o xs[m]]
<1>6. g = [i \in 1 .. m |-> IF i = 1 THEN xs[i] ELSE g[i - 1] \o xs[i]]
  <2>1. ASSUME NEW i \in 1 .. m PROVE g[i] = IF i = 1 THEN xs[i] ELSE g[i - 1] \o xs[i]
    <3>1. CASE i < m
      <4>1. i \in 1 .. m - 1 /\ g[i] = f[i]
        BY <1>2, <3>1
      <4>2. f[i] = IF i = 1 THEN xs[i] ELSE f[i - 1] \o xs[i]
        BY <1>5, <4>1 DEF Joins
      <4>3. i # 1 => i - 1 \in 1 .. m /\ i - 1 < m
        BY <1>2, <3>1
      <4>4. i # 1 => g[i - 1] = f[i - 1]
        BY <4>3
      <4> HIDE DEF g
      <4>5. QED
        BY <4>1, <4>2, <4>4
    <3>2. CASE i = m
      <4>1. m - 1 \in 1 .. m /\ m - 1 < m /\ m \in 1 .. m /\ ~(m < m)
        BY <1>2, <1>4
      <4>2. g[m] = f[m - 1] \o xs[m]
        BY <4>1
      <4>4. g[m - 1] = f[m - 1]
        BY <4>1
      <4> HIDE DEF g
      <4>3. QED
        BY <1>3, <3>2, <4>2, <4>4
    <3>3. QED
      BY <1>2, <3>1, <3>2
  <2>2. g = [i \in 1 .. m |-> g[i]]
    OBVIOUS
  <2> HIDE DEF g
  <2>3. QED
    BY <2>1, <2>2
<1>7. Joins(g, xs, m)
  <2> HIDE DEF g
  <2>1. QED
    BY <1>6 DEF Joins
<1>8. QED
  BY <1>2, <1>7

LEMMA JoinsFrom ==
  ASSUME NEW xs, NEW n \in Nat \ {0}, NEW f, Joins(f, xs, n), \A k \in 1 .. n : IsSeq(xs[k])
  PROVE  IsSeq(f[n]) /\ \E o : From(f[n], xs, n, o)
<1> DEFINE Bad == {m \in 1 .. n : ~(IsSeq(f[m]) /\ \E o : From(f[m], xs, m, o))}
<1>1. SUFFICES ASSUME Bad # {} PROVE FALSE
  OBVIOUS
<1>2. PICK m \in Bad : \A k \in Bad : ~(k < m)
  <2>1. Bad \subseteq Nat
    OBVIOUS
  <2> HIDE DEF Bad
  <2>2. QED
    BY <1>1, <2>1, Least
<1>3. m \in 1 .. n
  BY <1>2
<1>4. f[m] = IF m = 1 THEN xs[m] ELSE f[m - 1] \o xs[m]
  BY <1>3 DEF Joins
<1>5. CASE m = 1
  BY <1>2, <1>3, <1>4, <1>5, FromFirst
<1>6. CASE m # 1
  <2>1. m - 1 \in 1 .. n /\ m - 1 < m /\ m - 1 \in Nat /\ (m - 1) + 1 = m
    BY <1>3, <1>6
  <2>2. IsSeq(f[m - 1]) /\ \E o : From(f[m - 1], xs, m - 1, o)
    BY <1>2, <2>1
  <2>3. PICK o : From(f[m - 1], xs, m - 1, o)
    BY <2>2
  <2>4. IsSeq(xs[(m - 1) + 1])
    BY <1>3, <2>1
  <2> DEFINE k == m - 1
             s == f[m - 1]
  <2> HIDE DEF k, s
  <2>5. IsSeq(s) /\ From(s, xs, k, o) /\ IsSeq(xs[k + 1]) /\ k \in Nat
    BY <2>1, <2>2, <2>3, <2>4 DEF k, s
  <2>6. IsSeq(s \o xs[k + 1]) /\ \E p : From(s \o xs[k + 1], xs, k + 1, p)
    BY <2>5, FromNext
  <2>7. k + 1 = m /\ f[m] = s \o xs[m]
    BY <1>4, <1>6, <2>1 DEF k, s
  <2>8. QED
    BY <1>2, <2>6, <2>7
<1>7. QED
  BY <1>5, <1>6

LEMMA FlattenIs ==
  ASSUME NEW xs, IsSeq(xs), Len(xs) # 0, \A k \in 1 .. Len(xs) : IsSeq(xs[k])
  PROVE  IsSeq(FlattenSeq(xs)) /\ \E o : From(FlattenSeq(xs), xs, Len(xs), o)
<1> DEFINE n == Len(xs)
           f == CHOOSE f : Joins(f, xs, n)
<1>1. n \in Nat \ {0}
  BY DEF IsSeq
<1>2. Joins(f, xs, n)
  BY <1>1, JoinsExists
<1>3. FlattenSeq(xs) = f[n]
  BY DEF FlattenSeq, Joins
<1> HIDE DEF f
<1>4. IsSeq(f[n]) /\ \E o : From(f[n], xs, n, o)
  BY <1>1, <1>2, JoinsFrom
<1>5. QED
  BY <1>3, <1>4
(* Blocks the verifier takes, with what each instruction must be besides.  *)
IsOperand(a) == a = Const(a.n) \/ a = Value(a.n)

LEMMA OperandIs ==
  ASSUME NEW a, IsOperand(a), ~IsConst(a)
  PROVE  a = Value(a.n)
<1>1. Const(a.n).sort = "const"
  BY DEF Const
<1>2. QED
  BY <1>1 DEF IsOperand, IsConst

ImmediatesKept(I, src) ==
  I.id \in Ids(src) /\ I.op \in Immediate =>
    \A j \in 1 .. Len(I.args) : IsConst(At(src, I.id).args[j]) => IsConst(I.args[j])

GoodInst(I, src) ==
  /\ I = Inst(I.id, I.op, I.w, I.args) /\ I.id \in Nat
  /\ IsSeq(I.args) /\ \A j \in 1 .. Len(I.args) : IsOperand(I.args[j])
  /\ I.op \in Binary => Len(I.args) = 2
  /\ ImmediatesKept(I, src)

\* The value x is there for the k-th instruction.
Defined(b, k, x) == \E i \in 1 .. k - 1 : b[i].id = x

Distinct(b) == \A i, j \in 1 .. Len(b) : b[i].id = b[j].id => i = j
PhisLead(b) == \A k \in 1 .. Len(b) : b[k].op = "phi" /\ k > 1 => b[k - 1].op = "phi"
OneTerminator(b) == \A k \in 1 .. Len(b) : b[k].op \in Terminators <=> k = Len(b)
UsesDefined(b) ==
  \A k \in 1 .. Len(b) : \A j \in 1 .. Len(b[k].args) :
    ~IsConst(b[k].args[j]) => Defined(b, k, b[k].args[j].n)

\* The instructions of the source have numbers, too.
Numbered(src) == IsSeq(src) /\ \A k \in 1 .. Len(src) : src[k].id \in Nat

Good(b, src) ==
  /\ IsSeq(b) /\ Len(b) >= 1 /\ Numbered(src)
  /\ \A k \in 1 .. Len(b) : GoodInst(b[k], src)
  /\ Distinct(b) /\ PhisLead(b) /\ OneTerminator(b) /\ UsesDefined(b)

\* What may be inserted in front of the k-th instruction.
NewInst(I) ==
  /\ I = Inst(I.id, I.op, I.w, I.args) /\ I.id \in Nat
  /\ IsSeq(I.args) /\ \A j \in 1 .. Len(I.args) : IsOperand(I.args[j])
  /\ I.op \in Binary => Len(I.args) = 2
  /\ I.op \in Immediate => \A j \in 1 .. Len(I.args) : IsConst(I.args[j])
  /\ I.op \notin Terminators \cup {"phi"}

NewCode(b, k, new) ==
  /\ IsSeq(new)
  /\ \A i \in 1 .. Len(new) : NewInst(new[i]) /\ \A l \in 1 .. Len(b) : new[i].id # b[l].id
  /\ Distinct(new)
  /\ \A i \in 1 .. Len(new) : \A j \in 1 .. Len(new[i].args) :
       ~IsConst(new[i].args[j]) =>
         Defined(b, k, new[i].args[j].n) \/ Defined(new, i, new[i].args[j].n)

\* Inserted in front of an instruction that is no PHI.
LEMMA InsertGood ==
  ASSUME NEW b, NEW src, Good(b, src), NEW k \in 1 .. Len(b), b[k].op # "phi",
         NEW new, NewCode(b, k, new)
  PROVE  Good(Before(b, k, new), src)
<1> DEFINE r == Before(b, k, new)
           n == Len(new)
<1>1. /\ IsSeq(r) /\ Len(r) = Len(b) + n
      /\ \A i \in 1 .. k - 1 : r[i] = b[i]
      /\ \A i \in 1 .. n : r[k - 1 + i] = new[i]
      /\ \A i \in k .. Len(b) : r[i + n] = b[i]
  <2>1. IsSeq(b) /\ IsSeq(new)
    BY DEF Good, NewCode
  <2>2. QED
    BY <2>1, BeforeIs
<1> HIDE DEF r
<1>2. Len(b) \in Nat /\ n \in Nat /\ Len(b) >= 1
  BY DEF Good, NewCode, IsSeq
<1> HIDE DEF n
<1>3. \A i \in 1 .. Len(r) :
        \/ i \in 1 .. k - 1
        \/ i - k + 1 \in 1 .. n /\ k - 1 + (i - k + 1) = i
        \/ i - n \in k .. Len(b) /\ i - n + n = i
  <2>1. TAKE i \in 1 .. Len(r)
  <2>2. i \in Int /\ 1 <= i /\ i <= Len(b) + n /\ k \in Int /\ 1 <= k /\ k <= Len(b)
    BY <1>1, <1>2
  <2>3. CASE i < k
    BY <1>2, <2>2, <2>3
  <2>4. CASE ~(i < k) /\ i < k + n
    BY <1>2, <2>2, <2>4
  <2>5. CASE ~(i < k) /\ ~(i < k + n)
    BY <1>2, <2>2, <2>5
  <2>6. QED
    BY <2>3, <2>4, <2>5
<1>4. \A i \in 1 .. Len(r) :
        \/ i \in 1 .. k - 1 /\ r[i] = b[i]
        \/ i - k + 1 \in 1 .. n /\ r[i] = new[i - k + 1]
        \/ i - n \in k .. Len(b) /\ r[i] = b[i - n]
  <2>1. TAKE i \in 1 .. Len(r)
  <2>2. CASE i \in 1 .. k - 1
    BY <1>1, <2>2
  <2>3. CASE i - k + 1 \in 1 .. n /\ k - 1 + (i - k + 1) = i
    BY <1>1, <2>3
  <2>4. CASE i - n \in k .. Len(b) /\ i - n + n = i
    BY <1>1, <2>4
  <2>5. QED
    BY <1>3, <2>2, <2>3, <2>4
<1>5. ASSUME NEW i \in 1 .. Len(r) PROVE GoodInst(r[i], src)
  <2>1. CASE i \in 1 .. k - 1 /\ r[i] = b[i]
    BY <1>2, <2>1 DEF Good
  <2>2. CASE i - k + 1 \in 1 .. n /\ r[i] = new[i - k + 1]
    <3>1. NewInst(r[i])
      BY <2>2 DEF NewCode, n
    <3>2. QED
      BY <3>1 DEF NewInst, GoodInst, ImmediatesKept
  <2>3. CASE i - n \in k .. Len(b) /\ r[i] = b[i - n]
    BY <1>2, <2>3 DEF Good
  <2>4. QED
    BY <1>4, <2>1, <2>2, <2>3
<1>6. Distinct(r)
  <2>1. SUFFICES ASSUME NEW i \in 1 .. Len(r), NEW j \in 1 .. Len(r), r[i].id = r[j].id PROVE i = j
    BY DEF Distinct
  <2>2. Distinct(b) /\ Distinct(new) /\ \A p \in 1 .. n, l \in 1 .. Len(b) : new[p].id # b[l].id
    BY DEF Good, NewCode, n
  <2>3. \A p, q \in 1 .. Len(b) : b[p].id = b[q].id => p = q
    BY <2>2 DEF Distinct
  <2>4. \A p, q \in 1 .. n : new[p].id = new[q].id => p = q
    BY <2>2 DEF Distinct, n
  <2>5. CASE i \in 1 .. k - 1 /\ r[i] = b[i]
    <3>1. i \in 1 .. Len(b)
      BY <1>2, <2>5
    <3>2. CASE j \in 1 .. k - 1 /\ r[j] = b[j]
      BY <1>2, <2>1, <2>3, <2>5, <3>1, <3>2
    <3>3. CASE j - k + 1 \in 1 .. n /\ r[j] = new[j - k + 1]
      BY <2>1, <2>2, <2>5, <3>1, <3>3
    <3>4. CASE j - n \in k .. Len(b) /\ r[j] = b[j - n]
      <4>1. j - n \in 1 .. Len(b) /\ i # j - n
        BY <1>2, <2>5, <3>4
      <4>2. QED
        BY <2>1, <2>3, <2>5, <3>1, <3>4, <4>1
    <3>5. QED
      BY <1>4, <3>2, <3>3, <3>4
  <2>6. CASE i - k + 1 \in 1 .. n /\ r[i] = new[i - k + 1]
    <3>2. CASE j \in 1 .. k - 1 /\ r[j] = b[j]
      <4>1. j \in 1 .. Len(b)
        BY <1>2, <3>2
      <4>2. QED
        BY <2>1, <2>2, <2>6, <3>2, <4>1
    <3>3. CASE j - k + 1 \in 1 .. n /\ r[j] = new[j - k + 1]
      <4>1. i - k + 1 = j - k + 1
        BY <2>1, <2>4, <2>6, <3>3
      <4>2. QED
        BY <1>1, <1>2, <4>1
    <3>4. CASE j - n \in k .. Len(b) /\ r[j] = b[j - n]
      <4>1. j - n \in 1 .. Len(b)
        BY <1>2, <3>4
      <4>2. QED
        BY <2>1, <2>2, <2>6, <3>4, <4>1
    <3>5. QED
      BY <1>4, <3>2, <3>3, <3>4
  <2>7. CASE i - n \in k .. Len(b) /\ r[i] = b[i - n]
    <3>1. i - n \in 1 .. Len(b)
      BY <1>2, <2>7
    <3>2. CASE j \in 1 .. k - 1 /\ r[j] = b[j]
      <4>1. j \in 1 .. Len(b) /\ j # i - n
        BY <1>2, <2>7, <3>2
      <4>2. QED
        BY <2>1, <2>3, <2>7, <3>1, <3>2, <4>1
    <3>3. CASE j - k + 1 \in 1 .. n /\ r[j] = new[j - k + 1]
      BY <2>1, <2>2, <2>7, <3>1, <3>3
    <3>4. CASE j - n \in k .. Len(b) /\ r[j] = b[j - n]
      <4>1. j - n \in 1 .. Len(b)
        BY <1>2, <3>4
      <4>2. i - n = j - n
        BY <2>1, <2>3, <2>7, <3>1, <3>4, <4>1
      <4>3. QED
        BY <1>1, <1>2, <4>2
    <3>5. QED
      BY <1>4, <3>2, <3>3, <3>4
  <2>8. QED
    BY <1>4, <2>5, <2>6, <2>7
<1>7. \A i \in 1 .. n : new[i].op \notin Terminators \cup {"phi"}
  BY DEF NewCode, NewInst, n
<1>8. OneTerminator(r)
  <2>1. SUFFICES ASSUME NEW i \in 1 .. Len(r) PROVE r[i].op \in Terminators <=> i = Len(r)
    BY DEF OneTerminator
  <2>2. \A l \in 1 .. Len(b) : b[l].op \in Terminators <=> l = Len(b)
    BY DEF Good, OneTerminator
  <2>3. CASE i \in 1 .. k - 1 /\ r[i] = b[i]
    <3>1. i \in 1 .. Len(b) /\ i # Len(b) /\ i # Len(r)
      BY <1>1, <1>2, <2>3
    <3>2. QED
      BY <2>2, <2>3, <3>1
  <2>4. CASE i - k + 1 \in 1 .. n /\ r[i] = new[i - k + 1]
    <3>1. i # Len(r)
      BY <1>1, <1>2, <2>4
    <3>2. QED
      BY <1>7, <2>4, <3>1
  <2>5. CASE i - n \in k .. Len(b) /\ r[i] = b[i - n]
    <3>1. i - n \in 1 .. Len(b) /\ (i - n = Len(b) <=> i = Len(r))
      BY <1>1, <1>2, <2>5
    <3>2. QED
      BY <2>2, <2>5, <3>1
  <2>6. QED
    BY <1>4, <2>3, <2>4, <2>5
<1>9. PhisLead(r)
  <2>1. SUFFICES ASSUME NEW i \in 1 .. Len(r), r[i].op = "phi", i > 1 PROVE r[i - 1].op = "phi"
    BY DEF PhisLead
  <2>2. \A l \in 1 .. Len(b) : b[l].op = "phi" /\ l > 1 => b[l - 1].op = "phi"
    BY DEF Good, PhisLead
  <2>3. CASE i \in 1 .. k - 1 /\ r[i] = b[i]
    <3>1. i \in 1 .. Len(b) /\ i - 1 \in 1 .. k - 1
      BY <1>2, <2>1, <2>3
    <3>2. r[i - 1] = b[i - 1]
      BY <1>1, <3>1
    <3>3. QED
      BY <2>1, <2>2, <2>3, <3>1, <3>2
  <2>4. CASE i - k + 1 \in 1 .. n /\ r[i] = new[i - k + 1]
    BY <1>7, <2>1, <2>4
  <2>5. CASE i - n \in k .. Len(b) /\ r[i] = b[i - n]
    <3>1. i - n \in 1 .. Len(b) /\ i - n # k
      BY <1>2, <2>1, <2>5
    <3>2. i - n > 1 /\ i - n - 1 \in k .. Len(b) /\ (i - n - 1) + n = i - 1
      BY <1>2, <2>5, <3>1
    <3>3. r[i - 1] = b[i - n - 1]
      BY <1>1, <3>2
    <3>4. QED
      BY <2>1, <2>2, <2>5, <3>1, <3>2, <3>3
  <2>6. QED
    BY <1>4, <2>3, <2>4, <2>5
<1>10. UsesDefined(r)
  <2>1. SUFFICES ASSUME NEW i \in 1 .. Len(r), NEW j \in 1 .. Len(r[i].args), ~IsConst(r[i].args[j])
                 PROVE  Defined(r, i, r[i].args[j].n)
    BY DEF UsesDefined
  <2> DEFINE x == r[i].args[j].n
  <2>2. \A l \in 1 .. Len(b) : \A m \in 1 .. Len(b[l].args) :
          ~IsConst(b[l].args[m]) => Defined(b, l, b[l].args[m].n)
    BY DEF Good, UsesDefined
  <2> HIDE DEF x
  <2>3. CASE i \in 1 .. k - 1 /\ r[i] = b[i]
    <3>1. i \in 1 .. Len(b)
      BY <1>2, <2>3
    <3>2. PICK l \in 1 .. i - 1 : b[l].id = x
      BY <2>1, <2>2, <2>3, <3>1 DEF Defined, x
    <3>3. l \in 1 .. k - 1
      BY <1>2, <2>3
    <3>4. r[l].id = x
      BY <1>1, <3>2, <3>3
    <3>5. QED
      BY <3>4 DEF Defined, x
  <2>4. CASE i - k + 1 \in 1 .. n /\ r[i] = new[i - k + 1]
    <3>1. Defined(b, k, x) \/ Defined(new, i - k + 1, x)
      BY <2>1, <2>4 DEF NewCode, n, x
    <3>2. CASE Defined(b, k, x)
      <4>1. PICK l \in 1 .. k - 1 : b[l].id = x
        BY <3>2 DEF Defined
      <4>2. l \in 1 .. i - 1
        BY <1>2, <2>4
      <4>3. r[l].id = x
        BY <1>1, <4>1
      <4>4. QED
        BY <4>2, <4>3 DEF Defined, x
    <3>3. CASE Defined(new, i - k + 1, x)
      <4>1. PICK l \in 1 .. (i - k + 1) - 1 : new[l].id = x
        BY <3>3 DEF Defined
      <4>2. l \in 1 .. n /\ k - 1 + l \in 1 .. i - 1
        BY <1>2, <2>4
      <4>3. r[k - 1 + l].id = x
        BY <1>1, <4>1, <4>2
      <4>4. QED
        BY <4>2, <4>3 DEF Defined, x
    <3>4. QED
      BY <3>1, <3>2, <3>3
  <2>5. CASE i - n \in k .. Len(b) /\ r[i] = b[i - n]
    <3>1. i - n \in 1 .. Len(b)
      BY <1>2, <2>5
    <3>2. PICK l \in 1 .. i - n - 1 : b[l].id = x
      BY <2>1, <2>2, <2>5, <3>1 DEF Defined, x
    <3>3. CASE l < k
      <4>1. l \in 1 .. k - 1 /\ l \in 1 .. i - 1
        BY <1>2, <2>5, <3>3
      <4>2. r[l].id = x
        BY <1>1, <3>2, <4>1
      <4>3. QED
        BY <4>1, <4>2 DEF Defined, x
    <3>4. CASE ~(l < k)
      <4>1. l \in k .. Len(b) /\ l + n \in 1 .. i - 1
        BY <1>2, <2>5, <3>4
      <4>2. r[l + n].id = x
        BY <1>1, <3>2, <4>1
      <4>3. QED
        BY <4>1, <4>2 DEF Defined, x
    <3>5. QED
      BY <3>3, <3>4
  <2>6. QED
    BY <1>4, <2>3, <2>4, <2>5
<1>11. Len(r) >= 1
  BY <1>1, <1>2
<1>12. QED
  BY <1>1, <1>5, <1>6, <1>8, <1>9, <1>10, <1>11 DEF Good, r

\* Operands changed, instruction by instruction.
LEMMA RewireGood ==
  ASSUME NEW b, NEW src, Good(b, src), NEW r, IsSeq(r), Len(r) = Len(b),
         \A k \in 1 .. Len(b) :
           /\ GoodInst(r[k], src) /\ r[k].id = b[k].id /\ r[k].op = b[k].op
           /\ \A j \in 1 .. Len(r[k].args) :
                ~IsConst(r[k].args[j]) => Defined(b, k, r[k].args[j].n)
  PROVE  Good(r, src)
<1>1. Len(b) \in Nat /\ Len(b) >= 1 /\ Distinct(b) /\ PhisLead(b) /\ OneTerminator(b)
  BY DEF Good, IsSeq
<1>2. Distinct(r)
  BY <1>1 DEF Distinct
<1>3. PhisLead(r)
  <2>1. SUFFICES ASSUME NEW i \in 1 .. Len(b), r[i].op = "phi", i > 1 PROVE r[i - 1].op = "phi"
    BY DEF PhisLead
  <2>2. i - 1 \in 1 .. Len(b)
    BY <1>1, <2>1
  <2>3. QED
    BY <1>1, <2>1, <2>2 DEF PhisLead
<1>4. OneTerminator(r)
  BY <1>1 DEF OneTerminator
<1>5. UsesDefined(r)
  <2>1. SUFFICES ASSUME NEW k \in 1 .. Len(b), NEW j \in 1 .. Len(r[k].args), ~IsConst(r[k].args[j])
                 PROVE  Defined(r, k, r[k].args[j].n)
    BY DEF UsesDefined
  <2>2. PICK l \in 1 .. k - 1 : b[l].id = r[k].args[j].n
    BY <2>1 DEF Defined
  <2>3. l \in 1 .. Len(b)
    BY <1>1
  <2>4. r[l].id = r[k].args[j].n
    BY <2>2, <2>3
  <2>5. QED
    BY <2>4 DEF Defined
<1>6. QED
  BY <1>1, <1>2, <1>3, <1>4, <1>5 DEF Good

Unused(b, x) == \A k \in 1 .. Len(b) : \A j \in 1 .. Len(b[k].args) : b[k].args[j] # Value(x)

Replaced(args, x, a) == [j \in DOMAIN args |-> IF args[j] = Value(x) THEN a ELSE args[j]]

LEMMA ReplacedIs ==
  ASSUME NEW args, IsSeq(args), NEW x, NEW a
  PROVE  LET c == Replaced(args, x, a)
         IN  /\ IsSeq(c) /\ Len(c) = Len(args)
             /\ \A j \in 1 .. Len(args) : c[j] = IF args[j] = Value(x) THEN a ELSE args[j]
<1> DEFINE c == Replaced(args, x, a)
           n == Len(args)
<1>1. DOMAIN args = 1 .. n /\ n \in Nat
  BY SeqIn DEF IsSeq
<1>2. \A j \in 1 .. n : c[j] = IF args[j] = Value(x) THEN a ELSE args[j]
  BY <1>1 DEF Replaced
<1>3. c = [i \in 1 .. n |-> c[i]]
  BY <1>1 DEF Replaced
<1> HIDE DEF c, n
<1>4. IsSeq(c) /\ Len(c) = n
  BY <1>1, <1>3, SeqMade
<1>5. QED
  BY <1>2, <1>4 DEF c, n

LEMMA ReplaceIs ==
  ASSUME NEW b, NEW src, Good(b, src), NEW x, NEW a
  PROVE  LET r == replaceAllUsesWith(b, x, a)
         IN  /\ IsSeq(r) /\ Len(r) = Len(b)
             /\ \A k \in 1 .. Len(b) :
                  r[k] = Inst(b[k].id, b[k].op, b[k].w, Replaced(b[k].args, x, a))
<1> DEFINE r == replaceAllUsesWith(b, x, a)
           n == Len(b)
<1>1. DOMAIN b = 1 .. n /\ n \in Nat
  BY SeqIn DEF IsSeq, Good
<1>2. r = [k \in 1 .. n |-> [b[k] EXCEPT !.args = Replaced(b[k].args, x, a)]]
  BY <1>1 DEF replaceAllUsesWith, Replaced
<1>3. r = [k \in 1 .. n |-> r[k]]
  BY <1>2
<1>4. ASSUME NEW k \in 1 .. n PROVE r[k] = Inst(b[k].id, b[k].op, b[k].w, Replaced(b[k].args, x, a))
  <2>1. b[k] = [id |-> b[k].id, op |-> b[k].op, w |-> b[k].w, args |-> b[k].args]
    BY DEF Good, GoodInst, Inst
  <2>2. r[k] = [b[k] EXCEPT !.args = Replaced(b[k].args, x, a)]
    BY <1>2
  <2>3. QED
    BY <2>1, <2>2 DEF Inst
<1> HIDE DEF r, n
<1>5. IsSeq(r) /\ Len(r) = n
  BY <1>1, <1>3, SeqMade
<1>6. QED
  BY <1>4, <1>5 DEF r, n

\* The value of an instruction replaced by a constant or by an earlier value.
LEMMA ReplaceGood ==
  ASSUME NEW b, NEW src, Good(b, src), NEW p \in 1 .. Len(b), NEW a, IsOperand(a),
         a # Value(b[p].id), IsConst(a) \/ Defined(b, p, a.n)
  PROVE  LET r == replaceAllUsesWith(b, b[p].id, a)
         IN  /\ Good(r, src) /\ Unused(r, b[p].id) /\ Len(r) = Len(b)
             /\ \A k \in 1 .. Len(b) : r[k].id = b[k].id /\ r[k].op = b[k].op
             /\ \A x : Unused(b, x) /\ a # Value(x) => Unused(r, x)
<1> DEFINE x == b[p].id
           r == replaceAllUsesWith(b, x, a)
<1>1. /\ IsSeq(r) /\ Len(r) = Len(b)
      /\ \A k \in 1 .. Len(b) : r[k] = Inst(b[k].id, b[k].op, b[k].w, Replaced(b[k].args, x, a))
  <2> HIDE DEF x
  <2>1. QED
    BY ReplaceIs
<1> HIDE DEF r
<1>2. Len(b) \in Nat
  BY DEF Good, IsSeq
<1>3. ASSUME NEW k \in 1 .. Len(b)
      PROVE  /\ r[k].id = b[k].id /\ r[k].op = b[k].op /\ r[k] = Inst(r[k].id, r[k].op, r[k].w, r[k].args)
             /\ IsSeq(r[k].args) /\ Len(r[k].args) = Len(b[k].args)
             /\ \A j \in 1 .. Len(b[k].args) :
                  r[k].args[j] = IF b[k].args[j] = Value(x) THEN a ELSE b[k].args[j]
  <2> HIDE DEF x
  <2>1. r[k] = Inst(b[k].id, b[k].op, b[k].w, Replaced(b[k].args, x, a))
    BY <1>1
  <2>2. r[k].id = b[k].id /\ r[k].op = b[k].op /\ r[k].w = b[k].w /\ r[k].args = Replaced(b[k].args, x, a)
    BY <2>1 DEF Inst
  <2>3. IsSeq(b[k].args)
    BY DEF Good, GoodInst
  <2>4. QED
    BY <2>1, <2>2, <2>3, ReplacedIs
<1>4. ASSUME NEW k \in 1 .. Len(b), NEW j \in 1 .. Len(b[k].args)
      PROVE  /\ IsOperand(r[k].args[j])
             /\ ~IsConst(r[k].args[j]) => Defined(b, k, r[k].args[j].n)
             /\ IsConst(b[k].args[j]) => IsConst(r[k].args[j])
             /\ r[k].args[j] # Value(x)
             /\ \A y : b[k].args[j] # Value(y) /\ a # Value(y) => r[k].args[j] # Value(y)
  <2>1. r[k].args[j] = IF b[k].args[j] = Value(x) THEN a ELSE b[k].args[j]
    BY <1>3
  <2>2. IsOperand(b[k].args[j]) /\ (~IsConst(b[k].args[j]) => Defined(b, k, b[k].args[j].n))
    BY DEF Good, GoodInst, UsesDefined
  <2>3. CASE b[k].args[j] = Value(x)
    <3>1. r[k].args[j] = a /\ ~IsConst(b[k].args[j]) /\ b[k].args[j].n = x
      BY <2>1, <2>3 DEF Value, IsConst
    <3>2. PICK l \in 1 .. k - 1 : b[l].id = x
      BY <2>2, <3>1 DEF Defined
    <3>3. l \in 1 .. Len(b)
      BY <1>2
    <3>4. l = p
      BY <3>2, <3>3 DEF Good, Distinct
    <3>5. Defined(b, p, a.n) => Defined(b, k, a.n)
      <4>1. ASSUME NEW q \in 1 .. p - 1 PROVE q \in 1 .. k - 1
        BY <1>2, <3>2, <3>4
      <4>2. QED
        BY <4>1 DEF Defined
    <3>6. QED
      BY <3>1, <3>5
  <2>4. CASE b[k].args[j] # Value(x)
    BY <2>1, <2>2, <2>4
  <2>5. QED
    BY <2>3, <2>4
<1>5. ASSUME NEW k \in 1 .. Len(b) PROVE GoodInst(r[k], src)
  <2>1. GoodInst(b[k], src)
    BY DEF Good
  <2>2. r[k].id \in Nat /\ (r[k].op \in Binary => Len(r[k].args) = 2)
    BY <1>3, <2>1 DEF GoodInst
  <2>3. ImmediatesKept(r[k], src)
    <3>1. ImmediatesKept(b[k], src)
      BY <2>1 DEF GoodInst
    <3>2. QED
      BY <1>3, <1>4, <3>1 DEF ImmediatesKept
  <2>4. QED
    BY <1>3, <1>4, <2>2, <2>3 DEF GoodInst
<1>6. Good(r, src)
  <2>1. \A k \in 1 .. Len(b) : \A j \in 1 .. Len(r[k].args) :
          ~IsConst(r[k].args[j]) => Defined(b, k, r[k].args[j].n)
    BY <1>3, <1>4
  <2>2. QED
    BY <1>1, <1>3, <1>5, <2>1, RewireGood
<1>7. Unused(r, x)
  BY <1>1, <1>3, <1>4 DEF Unused
<1>8. \A y : Unused(b, y) /\ a # Value(y) => Unused(r, y)
  BY <1>1, <1>3, <1>4 DEF Unused
<1>9. QED
  BY <1>1, <1>3, <1>6, <1>7, <1>8 DEF r

\* An instruction erased that nothing uses.
LEMMA RemoveGood ==
  ASSUME NEW b, NEW src, Good(b, src), NEW p \in 1 .. Len(b), Unused(b, b[p].id),
         b[p].op \notin Terminators \cup {"phi"}
  PROVE  Good(RemoveAt(b, p), src)
<1> DEFINE r == RemoveAt(b, p)
           old(i) == IF i < p THEN i ELSE i + 1
<1>1. /\ IsSeq(r) /\ Len(r) = Len(b) - 1
      /\ \A i \in 1 .. p - 1 : r[i] = b[i]
      /\ \A i \in p .. Len(b) - 1 : r[i] = b[i + 1]
  <2>1. IsSeq(b)
    BY DEF Good
  <2>2. QED
    BY <2>1, RemoveAtIs
<1> HIDE DEF r
<1>2. Len(b) \in Nat /\ Len(b) >= 1 /\ p # Len(b)
  BY DEF Good, IsSeq, OneTerminator
<1>3. ASSUME NEW i \in 1 .. Len(r)
      PROVE  old(i) \in 1 .. Len(b) /\ r[i] = b[old(i)] /\ old(i) # p
  <2>1. i \in Int /\ 1 <= i /\ i <= Len(b) - 1 /\ p \in Int
    BY <1>1, <1>2
  <2>2. CASE i < p
    BY <1>1, <1>2, <2>1, <2>2
  <2>3. CASE ~(i < p)
    BY <1>1, <1>2, <2>1, <2>3
  <2>4. QED
    BY <2>2, <2>3
<1>4. \A i \in 1 .. Len(r) : GoodInst(r[i], src)
  BY <1>3 DEF Good
<1>5. Distinct(r)
  <2>1. SUFFICES ASSUME NEW i \in 1 .. Len(r), NEW j \in 1 .. Len(r), r[i].id = r[j].id PROVE i = j
    BY DEF Distinct
  <2>2. old(i) = old(j)
    <3> HIDE DEF old
    <3>1. QED
      BY <1>3, <2>1 DEF Good, Distinct
  <2>3. QED
    BY <1>1, <1>2, <2>2
<1>6. OneTerminator(r)
  <2>1. SUFFICES ASSUME NEW i \in 1 .. Len(r) PROVE r[i].op \in Terminators <=> i = Len(r)
    BY DEF OneTerminator
  <2>2. b[old(i)].op \in Terminators <=> old(i) = Len(b)
    <3> HIDE DEF old
    <3>1. QED
      BY <1>3 DEF Good, OneTerminator
  <2>3. old(i) = Len(b) <=> i = Len(r)
    BY <1>1, <1>2
  <2>4. QED
    BY <1>3, <2>2, <2>3
<1>7. PhisLead(r)
  <2>1. SUFFICES ASSUME NEW i \in 1 .. Len(r), r[i].op = "phi", i > 1 PROVE r[i - 1].op = "phi"
    BY DEF PhisLead
  <2>2. \A l \in 1 .. Len(b) : b[l].op = "phi" /\ l > 1 => b[l - 1].op = "phi"
    BY DEF Good, PhisLead
  <2>3. i \in Int /\ i - 1 \in 1 .. Len(r) /\ p \in Int
    BY <1>1, <1>2, <2>1
  <2>4. b[old(i)].op = "phi" /\ r[i - 1] = b[old(i - 1)]
    BY <1>3, <2>1, <2>3
  <2>5. CASE i = p
    <3>1. p + 1 \in 1 .. Len(b) /\ old(i) = p + 1 /\ (p + 1) - 1 = p /\ p + 1 > 1
      BY <1>1, <1>2, <2>5
    <3>2. b[p].op = "phi"
      BY <2>2, <2>4, <3>1
    <3>3. QED
      BY <3>2
  <2>6. CASE i # p
    <3>1. old(i) \in 1 .. Len(b) /\ old(i) > 1 /\ old(i) - 1 = old(i - 1)
      BY <1>1, <1>2, <2>1, <2>3, <2>6
    <3>2. QED
      BY <2>2, <2>4, <3>1
  <2>7. QED
    BY <2>5, <2>6
<1>8. UsesDefined(r)
  <2>1. SUFFICES ASSUME NEW i \in 1 .. Len(r), NEW j \in 1 .. Len(r[i].args), ~IsConst(r[i].args[j])
                 PROVE  Defined(r, i, r[i].args[j].n)
    BY DEF UsesDefined
  <2> DEFINE y == r[i].args[j].n
  <2>2. old(i) \in 1 .. Len(b) /\ r[i] = b[old(i)]
    BY <1>3
  <2>3. r[i].args[j] = Value(y) /\ Defined(b, old(i), y) /\ r[i].args[j] # Value(b[p].id)
    <3> HIDE DEF old
    <3>1. GoodInst(r[i], src)
      BY <1>4
    <3>2. r[i].args[j] = Value(y)
      BY <2>1, <3>1, OperandIs DEF GoodInst
    <3>3. Defined(b, old(i), y) /\ r[i].args[j] # Value(b[p].id)
      BY <2>1, <2>2 DEF Good, UsesDefined, Unused
    <3>4. QED
      BY <3>2, <3>3
  <2> HIDE DEF y
  <2>4. PICK l \in 1 .. old(i) - 1 : b[l].id = y
    BY <2>3 DEF Defined
  <2>5. l # p
    BY <2>3, <2>4
  <2>6. CASE l < p
    <3>1. l \in 1 .. p - 1 /\ l \in 1 .. i - 1
      BY <1>1, <1>2, <2>4, <2>6
    <3>2. r[l].id = y
      BY <1>1, <2>4, <3>1
    <3>3. QED
      BY <3>1, <3>2 DEF Defined, y
  <2>7. CASE ~(l < p)
    <3>1. l - 1 \in p .. Len(b) - 1 /\ l - 1 \in 1 .. i - 1 /\ (l - 1) + 1 = l
      BY <1>1, <1>2, <2>4, <2>5, <2>7
    <3>2. r[l - 1].id = y
      BY <1>1, <2>4, <3>1
    <3>3. QED
      BY <3>1, <3>2 DEF Defined, y
  <2>8. QED
    BY <2>6, <2>7
<1>9. Len(r) >= 1
  BY <1>1, <1>2
<1>10. QED
  BY <1>1, <1>4, <1>5, <1>6, <1>7, <1>8, <1>9 DEF Good, r

\* The instruction an operand, a visit or ToErase names.
LEMMA PositionIs ==
  ASSUME NEW b, NEW src, Good(b, src), NEW k \in 1 .. Len(b)
  PROVE  Position(b, b[k].id) = k /\ At(b, b[k].id) = b[k] /\ b[k].id \in Ids(b)
<1>1. DOMAIN b = 1 .. Len(b)
  BY SeqIn DEF Good
<1>2. \A i \in DOMAIN b : b[i].id = b[k].id => i = k
  BY <1>1 DEF Good, Distinct
<1>3. (CHOOSE i \in DOMAIN b : b[i].id = b[k].id) = k
  BY <1>1, <1>2
<1>4. QED
  BY <1>1, <1>3 DEF Position, At, Ids

LEMMA Greatest ==
  ASSUME NEW n \in Nat \ {0}, NEW f \in [1 .. n -> Nat]
  PROVE  \E m \in 1 .. n : \A k \in 1 .. n : f[k] <= f[m]
<1> DEFINE Top(i) == \E m \in 1 .. i : \A k \in 1 .. i : f[k] <= f[m]
           Bad == {i \in 1 .. n : ~Top(i)}
<1>1. SUFFICES ASSUME Bad # {} PROVE FALSE
  <2>1. n \in 1 .. n
    OBVIOUS
  <2>2. QED
    BY <2>1
<1>2. PICK i \in Bad : \A k \in Bad : ~(k < i)
  <2>1. Bad \subseteq Nat
    OBVIOUS
  <2> HIDE DEF Bad
  <2>2. QED
    BY <1>1, <2>1, Least
<1>3. i \in 1 .. n /\ ~Top(i)
  BY <1>2
<1>4. i # 1
  <2>1. i = 1 => Top(i)
    OBVIOUS
  <2>2. QED
    BY <1>3, <2>1
<1>5. i - 1 \in 1 .. n /\ i - 1 < i
  BY <1>3, <1>4
<1>6. PICK m \in 1 .. i - 1 : \A k \in 1 .. i - 1 : f[k] <= f[m]
  BY <1>2, <1>5
<1>7. m \in 1 .. i /\ i \in 1 .. i /\ f[m] \in Nat /\ f[i] \in Nat
  BY <1>3
<1>8. ASSUME NEW k \in 1 .. i PROVE f[k] \in Nat /\ (f[k] <= f[m] \/ f[k] <= f[i])
  <2>1. k \in 1 .. n /\ f[k] \in Nat /\ f[i] \in Nat
    BY <1>3
  <2>2. CASE k = i
    BY <2>1, <2>2
  <2>3. CASE k # i
    <3>1. k \in 1 .. i - 1
      BY <1>3, <2>3
    <3>2. QED
      BY <1>6, <2>1, <3>1
  <2>4. QED
    BY <2>2, <2>3
<1>9. CASE f[m] <= f[i]
  <2>1. ASSUME NEW k \in 1 .. i PROVE f[k] <= f[i]
    <3>1. f[k] \in Nat /\ (f[k] <= f[m] \/ f[k] <= f[i])
      BY <1>8
    <3>2. QED
      BY <1>7, <1>9, <3>1
  <2>2. QED
    BY <1>3, <1>7, <2>1
<1>10. CASE f[i] <= f[m]
  <2>1. ASSUME NEW k \in 1 .. i PROVE f[k] <= f[m]
    <3>1. f[k] \in Nat /\ (f[k] <= f[m] \/ f[k] <= f[i])
      BY <1>8
    <3>2. QED
      BY <1>7, <1>10, <3>1
  <2>2. QED
    BY <1>3, <1>7, <2>1
<1>11. QED
  BY <1>7, <1>9, <1>10

LEMMA FreshIs ==
  ASSUME Good(block, source)
  PROVE  /\ Fresh \in Nat /\ \A k \in 1 .. Len(block) : block[k].id < Fresh
         /\ \A k \in 1 .. Len(source) : source[k].id < Fresh
<1> DEFINE n == Len(block)
           l == Len(source)
           ids == Ids(block) \cup Ids(source)
<1>1. n \in Nat \ {0} /\ DOMAIN block = 1 .. n /\ \A k \in 1 .. n : block[k].id \in Nat
  <2>1. IsSeq(block) /\ n >= 1 /\ \A k \in 1 .. n : block[k].id \in Nat
    BY DEF Good, GoodInst
  <2>2. n \in Nat
    BY <2>1 DEF IsSeq
  <2>3. DOMAIN block = 1 .. n
    BY <2>1, SeqIn
  <2>4. QED
    BY <2>1, <2>2, <2>3
<1>2. l \in Nat /\ DOMAIN source = 1 .. l /\ \A k \in 1 .. l : source[k].id \in Nat
  <2>1. IsSeq(source) /\ \A k \in 1 .. l : source[k].id \in Nat
    BY DEF Good, Numbered
  <2>2. l \in Nat /\ DOMAIN source = 1 .. l
    BY <2>1, SeqIn DEF IsSeq
  <2>3. QED
    BY <2>1, <2>2
<1>3. Ids(block) = {block[k].id : k \in 1 .. n} /\ Ids(source) = {source[k].id : k \in 1 .. l}
  BY <1>1, <1>2 DEF Ids
<1> DEFINE f == [k \in 1 .. n + l |-> IF k <= n THEN block[k].id ELSE source[k - n].id]
<1>4. f \in [1 .. n + l -> Nat] /\ n + l \in Nat \ {0}
  <2>1. \A k \in 1 .. n + l : k \notin 1 .. n => k - n \in 1 .. l
    BY <1>1, <1>2
  <2>2. \A k \in 1 .. n + l : (IF k <= n THEN block[k].id ELSE source[k - n].id) \in Nat
    BY <1>1, <1>2, <2>1
  <2>3. QED
    BY <1>1, <1>2, <2>2
<1>5. PICK t \in 1 .. n + l : \A k \in 1 .. n + l : f[k] <= f[t]
  <2> HIDE DEF f, n, l
  <2>1. QED
    BY <1>4, Greatest
<1>6. /\ \A k \in 1 .. n : f[k] = block[k].id /\ k \in 1 .. n + l
      /\ \A k \in 1 .. l : f[n + k] = source[k].id /\ n + k \in 1 .. n + l
  <2>1. \A k \in 1 .. n : k \in 1 .. n + l /\ k <= n
    BY <1>1, <1>2
  <2>2. \A k \in 1 .. l : n + k \in 1 .. n + l /\ ~(n + k <= n) /\ (n + k) - n = k
    BY <1>1, <1>2
  <2> HIDE DEF n, l
  <2>3. QED
    BY <2>1, <2>2
<1>7. f[t] \in ids
  <2>1. CASE t <= n
    <3>1. t \in 1 .. n /\ f[t] = block[t].id
      BY <1>1, <1>2, <2>1
    <3>2. QED
      BY <1>3, <3>1
  <2>2. CASE ~(t <= n)
    <3>1. t - n \in 1 .. l /\ f[t] = source[t - n].id
      BY <1>1, <1>2, <2>2
    <3>2. QED
      BY <1>3, <3>1
  <2>3. QED
    BY <2>1, <2>2
<1> HIDE DEF f, n, l
<1>8. (\A k \in 1 .. n : block[k].id <= f[t]) /\ (\A k \in 1 .. l : source[k].id <= f[t])
  BY <1>5, <1>6
<1>9. \A m \in ids : m <= f[t]
  BY <1>3, <1>8
<1> DEFINE max == CHOOSE x \in ids : \A m \in ids : m <= x
<1>10. max \in ids /\ \A m \in ids : m <= max
  BY <1>7, <1>9
<1>11. Fresh = 1 + max
  BY DEF Fresh, max, ids
<1> HIDE DEF max, ids
<1>12. ids \subseteq Nat
  BY <1>1, <1>2, <1>3 DEF ids
<1>13. max \in Nat /\ (\A k \in 1 .. n : block[k].id <= max) /\ (\A k \in 1 .. l : source[k].id <= max)
  <2>1. (\A k \in 1 .. n : block[k].id \in ids) /\ (\A k \in 1 .. l : source[k].id \in ids)
    BY <1>3 DEF ids
  <2>2. QED
    BY <1>10, <1>12, <2>1
<1>14. QED
  BY <1>1, <1>2, <1>11, <1>13 DEF n, l

LEMMA FirstInsertionPtIs ==
  ASSUME NEW b, NEW src, Good(b, src)
  PROVE  /\ FirstInsertionPt(b) \in 1 .. Len(b) /\ b[FirstInsertionPt(b)].op # "phi"
         /\ \A j \in 1 .. FirstInsertionPt(b) - 1 : b[j].op = "phi"
<1> DEFINE T == {k \in 1 .. Len(b) : b[k].op # "phi"}
<1>1. Len(b) \in Nat /\ Len(b) >= 1 /\ DOMAIN b = 1 .. Len(b)
  BY SeqIn DEF Good, IsSeq
<1>2. Len(b) \in T
  <2>1. Len(b) \in 1 .. Len(b)
    BY <1>1
  <2>3. b[Len(b)].op \in Terminators
    BY <2>1 DEF Good, OneTerminator
  <2>2. QED
    BY <2>1, <2>3 DEF Terminators
<1>3. PICK k \in T : \A l \in T : ~(l < k)
  <2>1. T \in SUBSET Nat /\ T # {}
    BY <1>2
  <2> HIDE DEF T
  <2>2. QED
    BY <2>1, Least
<1>4. k \in 1 .. Len(b) /\ b[k].op # "phi" /\ \A j \in 1 .. k - 1 : b[j].op = "phi"
  <2>1. \A j \in 1 .. k - 1 : j \in 1 .. Len(b) /\ j < k
    BY <1>1, <1>3
  <2>2. QED
    BY <1>3, <2>1
<1>5. QED
  BY <1>1, <1>4 DEF FirstInsertionPt

\* A visit t of pass p that is still to come: its instruction is there, one the pass
\* may visit, and the base value or counter is computed in front of it.
Fits(b, p, t) ==
  \E i \in 1 .. Len(b) :
    /\ b[i].id = t[1] /\ b[i].op # "phi"
    /\ p = "inst_sub" => b[i].op \in {"add", "sub", "mul"}
    /\ p = "Mul2ToShl1" => b[i].op = "mul"
    /\ p = "constant_altering" => b[i].op \notin Immediate
    /\ p \in Counting \cup {"garbage_insert"} => Defined(b, i, t[3])
    /\ p = "garbage_insert" => b[i].op \notin Terminators

LEMMA InsertFits ==
  ASSUME NEW b, NEW new, IsSeq(b), IsSeq(new), NEW k \in 1 .. Len(b), NEW p, NEW t, Fits(b, p, t)
  PROVE  Fits(Before(b, k, new), p, t)
<1> DEFINE r == Before(b, k, new)
           n == Len(new)
<1>1. /\ Len(r) = Len(b) + n
      /\ \A i \in 1 .. k - 1 : r[i] = b[i]
      /\ \A i \in k .. Len(b) : r[i + n] = b[i]
      /\ Len(b) \in Nat /\ n \in Nat
  BY BeforeIs DEF IsSeq
<1> HIDE DEF r, n
<1>2. PICK i \in 1 .. Len(b) :
    /\ b[i].id = t[1] /\ b[i].op # "phi"
    /\ p = "inst_sub" => b[i].op \in {"add", "sub", "mul"}
    /\ p = "Mul2ToShl1" => b[i].op = "mul"
    /\ p = "constant_altering" => b[i].op \notin Immediate
    /\ p \in Counting \cup {"garbage_insert"} => Defined(b, i, t[3])
    /\ p = "garbage_insert" => b[i].op \notin Terminators
  BY DEF Fits
<1> DEFINE at(j) == IF j < k THEN j ELSE j + n
<1>3. ASSUME NEW j \in 1 .. Len(b) PROVE at(j) \in 1 .. Len(r) /\ r[at(j)] = b[j]
  <2>1. CASE j < k
    <3>1. at(j) = j /\ j \in 1 .. k - 1 /\ j \in 1 .. Len(r)
      BY <1>1, <2>1
    <3>2. QED
      BY <1>1, <3>1
  <2>2. CASE ~(j < k)
    <3>1. at(j) = j + n /\ j \in k .. Len(b) /\ j + n \in 1 .. Len(r)
      BY <1>1, <2>2
    <3>2. QED
      BY <1>1, <3>1
  <2>3. QED
    BY <2>1, <2>2
<1>4. ASSUME Defined(b, i, t[3]) PROVE Defined(r, at(i), t[3])
  <2>1. PICK l \in 1 .. i - 1 : b[l].id = t[3]
    BY <1>4 DEF Defined
  <2>2. l \in 1 .. Len(b) /\ at(l) \in 1 .. at(i) - 1
    BY <1>1
  <2> HIDE DEF at
  <2>3. r[at(l)].id = t[3]
    BY <1>3, <2>1, <2>2
  <2>4. QED
    BY <2>2, <2>3 DEF Defined
<1>5. at(i) \in 1 .. Len(r) /\ r[at(i)] = b[i]
  BY <1>3
<1> HIDE DEF at
<1>6. Fits(r, p, t)
  BY <1>2, <1>4, <1>5 DEF Fits
<1>7. QED
  BY <1>6 DEF r

LEMMA RewireFits ==
  ASSUME NEW b, NEW r, Len(r) = Len(b), Len(b) \in Nat,
         \A k \in 1 .. Len(b) : r[k].id = b[k].id /\ r[k].op = b[k].op,
         NEW p, NEW t, Fits(b, p, t)
  PROVE  Fits(r, p, t)
<1>1. ASSUME NEW i \in 1 .. Len(b), Defined(b, i, t[3]) PROVE Defined(r, i, t[3])
  <2>1. \A l \in 1 .. i - 1 : l \in 1 .. Len(b)
    OBVIOUS
  <2>2. QED
    BY <1>1, <2>1 DEF Defined
<1>2. QED
  BY <1>1 DEF Fits

LEMMA RemoveFits ==
  ASSUME NEW b, IsSeq(b), NEW k \in 1 .. Len(b), NEW p, p \notin Counting \cup {"garbage_insert"},
         NEW t, Fits(b, p, t), t[1] # b[k].id
  PROVE  Fits(RemoveAt(b, k), p, t)
<1> DEFINE r == RemoveAt(b, k)
<1>1. /\ Len(r) = Len(b) - 1
      /\ \A i \in 1 .. k - 1 : r[i] = b[i]
      /\ \A i \in k .. Len(b) - 1 : r[i] = b[i + 1]
      /\ Len(b) \in Nat
  BY RemoveAtIs DEF IsSeq
<1> HIDE DEF r
<1>2. PICK i \in 1 .. Len(b) :
    /\ b[i].id = t[1] /\ b[i].op # "phi"
    /\ p = "inst_sub" => b[i].op \in {"add", "sub", "mul"}
    /\ p = "Mul2ToShl1" => b[i].op = "mul"
    /\ p = "constant_altering" => b[i].op \notin Immediate
  BY DEF Fits
<1>3. PICK j \in 1 .. Len(r) : r[j] = b[i]
  <2>1. i # k
    BY <1>2
  <2>2. CASE i < k
    <3>1. i \in 1 .. k - 1 /\ i \in 1 .. Len(r)
      BY <1>1, <2>2
    <3>2. QED
      BY <1>1, <3>1
  <2>3. CASE ~(i < k)
    <3>1. i - 1 \in k .. Len(b) - 1 /\ i - 1 \in 1 .. Len(r) /\ (i - 1) + 1 = i
      BY <1>1, <2>1, <2>3
    <3>2. r[i - 1] = b[i]
      BY <1>1, <3>1
    <3>3. QED
      BY <3>1, <3>2
  <2>4. QED
    BY <2>2, <2>3
<1>4. Fits(r, p, t)
  BY <1>2, <1>3 DEF Fits
<1>5. QED
  BY <1>4 DEF r

LEMMA EmptyIs == IsSeq(<<>>) /\ Len(<<>>) = 0
<1>1. <<>> \in Seq({})
  OBVIOUS
<1>2. QED
  BY <1>1, SeqFrom

LEMMA SingleIs ==
  ASSUME NEW s, NEW x, s = <<x>>
  PROVE  IsSeq(s) /\ Len(s) = 1 /\ s[1] = x
<1>1. s \in Seq({x}) /\ Len(s) = 1 /\ s[1] = x
  OBVIOUS
<1>2. QED
  BY <1>1, SeqFrom

LEMMA PairIs ==
  ASSUME NEW s, NEW x, NEW y, s = <<x, y>>
  PROVE  IsSeq(s) /\ Len(s) = 2 /\ s[1] = x /\ s[2] = y
<1>1. s \in Seq({x, y}) /\ Len(s) = 2 /\ s[1] = x /\ s[2] = y
  OBVIOUS
<1>2. QED
  BY <1>1, SeqFrom

(* What the IRBuilder makes in front of the k-th instruction.              *)
Avail(k, code, x) ==
  IsOperand(x) /\ (IsConst(x) \/ Defined(block, k, x.n) \/ Defined(code, Len(code) + 1, x.n))

Made(k, s) ==
  /\ s = [code |-> s.code, a |-> s.a]
  /\ NewCode(block, k, s.code)
  /\ \A i \in 1 .. Len(s.code) : s.code[i].id = Fresh + i - 1
  /\ Avail(k, s.code, s.a)

LEMMA OperandSorts ==
  ASSUME NEW n
  PROVE  /\ IsOperand(Const(n)) /\ IsConst(Const(n))
         /\ IsOperand(Value(n)) /\ ~IsConst(Value(n)) /\ Value(n).n = n
         /\ \A m : Const(m) # Value(n) /\ (Value(m) = Value(n) => m = n)
<1>1. Const(n).n = n /\ Const(n).sort = "const" /\ Value(n).n = n /\ Value(n).sort = "value"
  BY DEF Const, Value
<1>2. \A m : Const(m).sort = "const" /\ Value(m).n = m
  BY DEF Const, Value
<1>3. "const" # "value"
  OBVIOUS
<1>4. QED
  BY <1>1, <1>2, <1>3 DEF IsOperand, IsConst

LEMMA StartMade ==
  ASSUME NEW k
  PROVE  Made(k, Start) /\ Start.code = <<>> /\ Start.a = Const(0)
<1>1. Start = [code |-> <<>>, a |-> Const(0)] /\ Start.code = <<>> /\ Start.a = Const(0)
  BY DEF Start
<1>2. IsSeq(<<>>) /\ Len(<<>>) = 0
  BY EmptyIs
<1>3. NewCode(block, k, <<>>)
  BY <1>2 DEF NewCode, Distinct
<1>4. Avail(k, <<>>, Const(0))
  BY OperandSorts DEF Avail
<1>5. QED
  BY <1>1, <1>2, <1>3, <1>4 DEF Made

\* One operation more.
LEMMA NewCodeGrows ==
  ASSUME NEW b, NEW k, NEW code, NEW I, NewCode(b, k, code), NewInst(I),
         \A l \in 1 .. Len(b) : I.id # b[l].id,
         \A l \in 1 .. Len(code) : I.id # code[l].id,
         \A j \in 1 .. Len(I.args) : ~IsConst(I.args[j]) =>
           Defined(b, k, I.args[j].n) \/ Defined(code, Len(code) + 1, I.args[j].n)
  PROVE  NewCode(b, k, Append(code, I))
<1> DEFINE r == Append(code, I)
           n == Len(code)
<1>1. IsSeq(r) /\ Len(r) = n + 1 /\ r[n + 1] = I /\ (\A i \in 1 .. n : r[i] = code[i]) /\ n \in Nat
  <2>1. IsSeq(code)
    BY DEF NewCode
  <2>2. QED
    BY <2>1, AppendIs DEF IsSeq
<1> HIDE DEF r
<1>2. \A i \in 1 .. Len(r) : i \in 1 .. n \/ i = n + 1
  BY <1>1
<1>3. \A i \in 1 .. Len(r) : NewInst(r[i]) /\ \A l \in 1 .. Len(b) : r[i].id # b[l].id
  BY <1>1, <1>2 DEF NewCode
<1>4. Distinct(r)
  <2>1. \A i, l \in 1 .. n : code[i].id = code[l].id => i = l
    BY DEF NewCode, Distinct
  <2>2. QED
    BY <1>1, <1>2, <2>1 DEF Distinct
<1>5. ASSUME NEW i \in 1 .. Len(r), NEW x, Defined(code, i, x) PROVE Defined(r, i, x)
  <2>1. PICK l \in 1 .. i - 1 : code[l].id = x
    BY <1>5 DEF Defined
  <2>2. l \in 1 .. n
    BY <1>1
  <2>3. r[l].id = x
    BY <1>1, <2>1, <2>2
  <2>4. QED
    BY <2>3 DEF Defined
<1>6. ASSUME NEW i \in 1 .. Len(r), NEW j \in 1 .. Len(r[i].args), ~IsConst(r[i].args[j])
      PROVE  Defined(b, k, r[i].args[j].n) \/ Defined(r, i, r[i].args[j].n)
  <2>1. CASE i \in 1 .. n
    <3>1. r[i] = code[i]
      BY <1>1, <2>1
    <3>2. Defined(b, k, r[i].args[j].n) \/ Defined(code, i, r[i].args[j].n)
      BY <1>6, <2>1, <3>1 DEF NewCode
    <3>3. QED
      BY <1>5, <3>2
  <2>2. CASE i = n + 1
    <3>1. r[i] = I
      BY <1>1, <2>2
    <3>2. Defined(b, k, r[i].args[j].n) \/ Defined(code, i, r[i].args[j].n)
      BY <1>6, <2>2, <3>1
    <3>3. QED
      BY <1>5, <3>2
  <2>3. QED
    BY <1>2, <2>1, <2>2
<1>7. QED
  BY <1>1, <1>3, <1>4, <1>6 DEF NewCode, r

LEMMA CreateMade ==
  ASSUME Good(block, source), NEW k \in 1 .. Len(block), NEW s, Made(k, s),
         NEW op \in Binary, NEW w, NEW x, NEW y, Avail(k, s.code, x), Avail(k, s.code, y)
  PROVE  LET t == Create(s, op, w, x, y)
         IN  /\ Made(k, t)
             /\ \A z : Avail(k, s.code, z) => Avail(k, t.code, z)
             /\ \A i \in 1 .. Len(block) : t.a # Value(block[i].id)
             /\ \A e : Unused(s.code, e) /\ x # Value(e) /\ y # Value(e) => Unused(t.code, e)
<1> DEFINE t == Create(s, op, w, x, y)
           n == Len(s.code)
<1>1. s = [code |-> s.code, a |-> s.a] /\ NewCode(block, k, s.code) /\ IsSeq(s.code) /\ n \in Nat
  BY DEF Made, NewCode, IsSeq
<1>2. Fresh \in Nat /\ \A i \in 1 .. Len(block) : block[i].id < Fresh /\ block[i].id \in Nat
  BY FreshIs DEF Good, GoodInst
<1>3. CASE IsConst(x) /\ IsConst(y)
  <2>1. PICK c : t = [s EXCEPT !.a = Const(c)]
    BY <1>3 DEF Create
  <2>2. t = [code |-> s.code, a |-> Const(c)] /\ t.code = s.code /\ t.a = Const(c)
    BY <1>1, <2>1
  <2> HIDE DEF t
  <2>3. Avail(k, t.code, t.a) /\ \A i \in 1 .. Len(block) : t.a # Value(block[i].id)
    BY <2>2, OperandSorts DEF Avail
  <2>4. Made(k, t)
    BY <2>2, <2>3 DEF Made
  <2>5. QED
    BY <2>2, <2>3, <2>4 DEF t
<1>4. CASE ~(IsConst(x) /\ IsConst(y))
  <2> DEFINE id == Fresh + n
             I == Inst(id, op, w, <<x, y>>)
  <2>1. t = [code |-> Append(s.code, I), a |-> Value(id)] /\ t.code = Append(s.code, I) /\ t.a = Value(id)
    BY <1>4 DEF Create
  <2> HIDE DEF t
  <2>2. id \in Nat /\ \A i \in 1 .. Len(block) : id # block[i].id
    BY <1>1, <1>2
  <2>3. \A i \in 1 .. n : id # s.code[i].id
    BY <1>1, <1>2 DEF Made
  <2> HIDE DEF id
  <2>4. /\ I.id = id /\ I.op = op /\ I.w = w /\ I.args = <<x, y>> /\ IsSeq(I.args) /\ Len(I.args) = 2
        /\ I.args[1] = x /\ I.args[2] = y /\ I = Inst(I.id, I.op, I.w, I.args)
    <3>1. /\ I.id = id /\ I.op = op /\ I.w = w /\ I.args = <<x, y>>
          /\ I = Inst(I.id, I.op, I.w, I.args)
      BY DEF Inst
    <3> HIDE DEF I
    <3>2. QED
      BY <3>1, PairIs
  <2> HIDE DEF I
  <2>5. op \notin Terminators \cup {"phi"} \cup Immediate
    BY DEF Binary, Terminators, Immediate
  <2>6. \A j \in 1 .. 2 : I.args[j] = x \/ I.args[j] = y
    BY <2>4
  <2>7. NewInst(I)
    BY <2>2, <2>4, <2>5, <2>6 DEF NewInst, Avail
  <2>8. NewCode(block, k, t.code)
    <3>1. \A j \in 1 .. Len(I.args) : ~IsConst(I.args[j]) =>
            Defined(block, k, I.args[j].n) \/ Defined(s.code, Len(s.code) + 1, I.args[j].n)
      BY <2>4, <2>6 DEF Avail
    <3>2. QED
      BY <1>1, <2>1, <2>2, <2>3, <2>4, <2>7, <3>1, NewCodeGrows
  <2>9. Len(t.code) = n + 1 /\ t.code[n + 1] = I /\ \A i \in 1 .. n : t.code[i] = s.code[i]
    BY <1>1, <2>1, AppendIs
  <2>10. ASSUME NEW z, Avail(k, s.code, z) PROVE Avail(k, t.code, z)
    <3>1. CASE Defined(s.code, n + 1, z.n)
      <4>1. PICK l \in 1 .. (n + 1) - 1 : s.code[l].id = z.n
        BY <3>1 DEF Defined
      <4>2. l \in 1 .. n /\ l \in 1 .. (Len(t.code) + 1) - 1
        BY <1>1, <2>9
      <4>3. t.code[l].id = z.n
        BY <2>9, <4>1, <4>2
      <4>4. QED
        BY <2>10, <4>2, <4>3 DEF Avail, Defined
    <3>2. QED
      BY <2>10, <3>1 DEF Avail
  <2>11. Avail(k, t.code, t.a)
    <3>1. n + 1 \in 1 .. (Len(t.code) + 1) - 1 /\ t.code[n + 1].id = id
      BY <1>1, <2>4, <2>9
    <3>2. QED
      BY <2>1, <3>1, OperandSorts DEF Avail, Defined
  <2>12. ASSUME NEW i \in 1 .. Len(t.code) PROVE t.code[i].id = Fresh + i - 1
    <3>1. CASE i \in 1 .. n
      BY <2>9, <3>1 DEF Made
    <3>2. CASE i = n + 1
      BY <1>1, <1>2, <2>4, <2>9, <3>2 DEF id
    <3>3. QED
      BY <1>1, <2>9, <3>1, <3>2
  <2>13. Made(k, t)
    BY <2>1, <2>8, <2>11, <2>12 DEF Made
  <2>14. \A i \in 1 .. Len(block) : t.a # Value(block[i].id)
    BY <2>1, <2>2, OperandSorts
  <2>15. ASSUME NEW e, Unused(s.code, e), x # Value(e), y # Value(e) PROVE Unused(t.code, e)
    <3>1. SUFFICES ASSUME NEW i \in 1 .. Len(t.code), NEW j \in 1 .. Len(t.code[i].args)
                   PROVE  t.code[i].args[j] # Value(e)
      BY DEF Unused
    <3>2. CASE i \in 1 .. n
      BY <2>9, <2>15, <3>2 DEF Unused
    <3>3. CASE i = n + 1
      BY <2>4, <2>6, <2>9, <2>15, <3>3
    <3>4. QED
      BY <1>1, <2>9, <3>2, <3>3
  <2>16. QED
    BY <2>10, <2>13, <2>14, <2>15 DEF t
<1>5. QED
  BY <1>3, <1>4

\* CreateMade for operations that are built on one another.
Grows(k, s, t) ==
  /\ Made(k, t)
  /\ \A z : Avail(k, s.code, z) => Avail(k, t.code, z)
  /\ \A i \in 1 .. Len(block) : t.a # Value(block[i].id)

LEMMA CreateGrows ==
  ASSUME Good(block, source), NEW k \in 1 .. Len(block), NEW s, Made(k, s),
         NEW op \in Binary, NEW w, NEW x, NEW y, Avail(k, s.code, x), Avail(k, s.code, y)
  PROVE  Grows(k, s, Create(s, op, w, x, y))
<1> DEFINE t == Create(s, op, w, x, y)
<1>1. /\ Made(k, t)
      /\ \A z : Avail(k, s.code, z) => Avail(k, t.code, z)
      /\ \A i \in 1 .. Len(block) : t.a # Value(block[i].id)
      /\ \A e : Unused(s.code, e) /\ x # Value(e) /\ y # Value(e) => Unused(t.code, e)
  BY CreateMade
<1> HIDE DEF t
<1>2. Grows(k, s, t)
  BY <1>1 DEF Grows
<1>3. QED
  BY <1>2 DEF t

LEMMA NegGrows ==
  ASSUME Good(block, source), NEW k \in 1 .. Len(block), NEW s, Made(k, s),
         NEW w, NEW x, Avail(k, s.code, x)
  PROVE  Grows(k, s, Neg(s, x, w)) /\ Avail(k, Neg(s, x, w).code, Neg(s, x, w).a)
<1>1. "sub" \in Binary
  BY DEF Binary
<1>2. Avail(k, s.code, Const(0))
  BY OperandSorts DEF Avail
<1>3. Grows(k, s, Neg(s, x, w))
  BY <1>1, <1>2, CreateGrows DEF Neg
<1>4. QED
  BY <1>3 DEF Grows, Made

LEMMA ConstAvail ==
  ASSUME NEW k, NEW code, NEW n
  PROVE  Avail(k, code, Const(n))
BY OperandSorts DEF Avail

\* The operands of an instruction are there where it is.
LEMMA ArgsAvail ==
  ASSUME Good(block, source), NEW k \in 1 .. Len(block), NEW j \in 1 .. Len(block[k].args), NEW code
  PROVE  Avail(k, code, block[k].args[j])
BY DEF Good, GoodInst, UsesDefined, Avail

LEMMA SubstitutionMade ==
  ASSUME Good(block, source), NEW k \in 1 .. Len(block),
         block[k].op \in {"add", "sub", "mul"}, NEW dice \in {0, 1}
  PROVE  LET t == Substitution(block[k], dice)
         IN  Made(k, t) /\ \A i \in 1 .. Len(block) : t.a # Value(block[i].id)
<1> DEFINE I == block[k]
           a == I.args[1]
           b == I.args[2]
           t == Substitution(I, dice)
           nega == Neg(Start, a, I.w)
           negb == Neg(Start, b, I.w)
           both == Neg(nega, b, I.w)
           sum == Create(both, "add", I.w, nega.a, both.a)
           prod == Create(nega, "mul", I.w, nega.a, b)
           less == Create(Start, "sub", I.w, b, ConstInt(1, I.w))
           part == Create(less, "mul", I.w, a, less.a)
<1>1. {"add", "sub", "mul"} \subseteq Binary
  BY DEF Binary
<1>2. Made(k, Start) /\ \A code : Avail(k, code, a) /\ Avail(k, code, b)
  <2>1. Len(block[k].args) = 2
    BY <1>1 DEF Good, GoodInst
  <2>2. 1 \in 1 .. Len(block[k].args) /\ 2 \in 1 .. Len(block[k].args)
    BY <2>1
  <2>3. \A code : Avail(k, code, block[k].args[1]) /\ Avail(k, code, block[k].args[2])
    BY <2>2, ArgsAvail
  <2>4. QED
    BY <2>3, StartMade
<1>4. "add" \in Binary /\ "sub" \in Binary /\ "mul" \in Binary
  BY DEF Binary
<1>5. CASE I.op = "add" /\ dice = 0
  <2>1. t = Create(negb, "sub", I.w, a, negb.a)
    BY <1>5 DEF Substitution
  <2> HIDE DEF t, a, b, I
  <2>2. Made(k, negb) /\ Avail(k, negb.code, negb.a)
    BY <1>2, NegGrows DEF Grows
  <2> HIDE DEF negb
  <2>3. Grows(k, negb, t)
    BY <1>2, <1>4, <2>1, <2>2, CreateGrows
  <2>4. QED
    BY <2>3 DEF Grows, t, I
<1>6. CASE I.op = "add" /\ dice = 1
  <2>1. t = Neg(sum, sum.a, I.w)
    BY <1>6 DEF Substitution
  <2> HIDE DEF t, a, b, I
  <2>2. Made(k, nega) /\ Avail(k, nega.code, nega.a)
    BY <1>2, NegGrows DEF Grows
  <2> HIDE DEF nega
  <2>3. Grows(k, nega, both) /\ Avail(k, both.code, both.a)
    BY <1>2, <2>2, NegGrows
  <2>4. Made(k, both) /\ Avail(k, both.code, nega.a)
    BY <2>2, <2>3 DEF Grows
  <2> HIDE DEF both
  <2>5. Grows(k, both, sum)
    BY <1>4, <2>3, <2>4, CreateGrows
  <2>6. Made(k, sum) /\ Avail(k, sum.code, sum.a)
    BY <2>5 DEF Grows, Made
  <2> HIDE DEF sum
  <2>7. Grows(k, sum, t)
    BY <2>1, <2>6, NegGrows
  <2>8. QED
    BY <2>7 DEF Grows, t, I
<1>7. CASE I.op = "sub"
  <2>1. t = Create(negb, "add", I.w, a, negb.a)
    BY <1>7 DEF Substitution
  <2> HIDE DEF t, a, b, I
  <2>2. Made(k, negb) /\ Avail(k, negb.code, negb.a)
    BY <1>2, NegGrows DEF Grows
  <2> HIDE DEF negb
  <2>3. Grows(k, negb, t)
    BY <1>2, <1>4, <2>1, <2>2, CreateGrows
  <2>4. QED
    BY <2>3 DEF Grows, t, I
<1>8. CASE I.op = "mul" /\ dice = 0
  <2>1. t = Neg(prod, prod.a, I.w)
    BY <1>8 DEF Substitution
  <2> HIDE DEF t, a, b, I
  <2>2. Made(k, nega) /\ Avail(k, nega.code, nega.a)
    BY <1>2, NegGrows DEF Grows
  <2> HIDE DEF nega
  <2>3. Grows(k, nega, prod)
    BY <1>2, <1>4, <2>2, CreateGrows
  <2>4. Made(k, prod) /\ Avail(k, prod.code, prod.a)
    BY <2>3 DEF Grows, Made
  <2> HIDE DEF prod
  <2>5. Grows(k, prod, t)
    BY <2>1, <2>4, NegGrows
  <2>6. QED
    BY <2>5 DEF Grows, t, I
<1>9. CASE I.op = "mul" /\ dice = 1
  <2>1. t = Create(part, "add", I.w, part.a, a)
    BY <1>9 DEF Substitution
  <2> HIDE DEF t, a, b, I
  <2>2. Grows(k, Start, less)
    <3>1. Avail(k, Start.code, ConstInt(1, I.w))
      BY ConstAvail DEF ConstInt
    <3>2. QED
      BY <1>2, <1>4, <3>1, CreateGrows
  <2>3. Made(k, less) /\ Avail(k, less.code, less.a)
    BY <2>2 DEF Grows, Made
  <2> HIDE DEF less
  <2>4. Grows(k, less, part)
    BY <1>2, <1>4, <2>3, CreateGrows
  <2>5. Made(k, part) /\ Avail(k, part.code, part.a)
    BY <2>4 DEF Grows, Made
  <2> HIDE DEF part
  <2>6. Grows(k, part, t)
    BY <1>2, <1>4, <2>1, <2>5, CreateGrows
  <2>7. QED
    BY <2>6 DEF Grows, t, I
<1>10. QED
  BY <1>5, <1>6, <1>7, <1>8, <1>9

LEMMA GarbageMade ==
  ASSUME Good(block, source), NEW k \in 1 .. Len(block), NEW x, \A code : Avail(k, code, x),
         NEW w, NEW pattern \in 0 .. 4, NEW n
  PROVE  Made(k, Garbage(x, w, pattern, n))
<1>1. ASSUME NEW op1 \in Binary, NEW op2 \in Binary, NEW m PROVE Made(k, Twice(x, w, op1, op2, m))
  <2> DEFINE s == Create(Start, op1, w, x, ConstInt(m, w))
             c == ConstInt(m, w)
  <2>1. Made(k, Start) /\ \A code : Avail(k, code, c)
    <3>1. c = Const(Trunc(m, w))
      BY DEF ConstInt
    <3> HIDE DEF c
    <3>2. QED
      BY <3>1, StartMade, ConstAvail
  <2>2. Twice(x, w, op1, op2, m) = Create(s, op2, w, s.a, c)
    BY DEF Twice
  <2> HIDE DEF c
  <2>3. Grows(k, Start, s)
    BY <2>1, CreateGrows DEF c
  <2>4. Made(k, s) /\ Avail(k, s.code, s.a)
    <3> HIDE DEF s
    <3>1. QED
      BY <2>3 DEF Grows, Made
  <2> HIDE DEF s
  <2>5. Grows(k, s, Create(s, op2, w, s.a, c))
    BY <2>1, <2>4, CreateGrows
  <2>6. QED
    BY <2>2, <2>5 DEF Grows
<1>2. ASSUME NEW op \in Binary, NEW m PROVE Made(k, Create(Start, op, w, x, Const(m)))
  <2>1. Made(k, Start) /\ Avail(k, Start.code, Const(m))
    BY StartMade, ConstAvail
  <2>2. QED
    BY <2>1, CreateGrows DEF Grows
<1>3. {"add", "sub", "mul", "sdiv", "xor", "or", "and"} \subseteq Binary
  BY DEF Binary
<1>4. CASE pattern = 0
  BY <1>1, <1>3, <1>4 DEF Garbage
<1>5. CASE pattern = 1
  BY <1>1, <1>3, <1>5 DEF Garbage
<1>6. CASE pattern = 2
  BY <1>1, <1>3, <1>6 DEF Garbage
<1>7. CASE pattern = 3
  BY <1>2, <1>3, <1>7 DEF Garbage
<1>8. CASE pattern = 4
  BY <1>2, <1>3, <1>8 DEF Garbage, ConstInt
<1>9. QED
  BY <1>4, <1>5, <1>6, <1>7, <1>8

(* The inductive invariant: the block is good, the visits to come fit it,  *)
(* and what is to be erased is a multiplication nothing uses, to be erased *)
(* once and not to be visited again.                                       *)
VisitsFit ==
  /\ IsSeq(todo) /\ passes \in Seq(Passes) /\ pc \in {"start", "visit", "broken"}
  /\ pc # "visit" => todo = <<>>
  /\ pc = "visit" =>
       /\ passes # <<>>
       /\ \A k \in 1 .. Len(todo) : Fits(block, Pass, todo[k])
       /\ Pass # "constant_altering" =>
            \A i, k \in 1 .. Len(todo) : todo[i][1] = todo[k][1] => i = k

ErasedFit ==
  /\ IsSeq(toErase)
  /\ toErase # <<>> => pc = "visit" /\ Pass = "Mul2ToShl1"
  /\ \A k \in 1 .. Len(toErase) :
       /\ Unused(block, toErase[k])
       /\ \E i \in 1 .. Len(block) : block[i].id = toErase[k] /\ block[i].op = "mul"
       /\ \A i \in 1 .. Len(toErase) : toErase[i] = toErase[k] => i = k
       /\ \A i \in 1 .. Len(todo) : toErase[k] # todo[i][1]

IInv == Good(block, source) /\ VisitsFit /\ ErasedFit

LEMMA InitInv == Init => IInv
<1> SUFFICES ASSUME Init PROVE IInv
  OBVIOUS
<1>1. /\ source \in Seq(Instructions) /\ source # <<>> /\ Verified(source) /\ block = source
      /\ passes \in Seq(Passes) /\ pc = "start" /\ todo = <<>> /\ toErase = <<>>
  BY RewritesAssumption DEF Init
<1>2. IsSeq(source) /\ DOMAIN source = 1 .. Len(source) /\ Len(source) >= 1
  <2>1. Len(source) \in Nat /\ Len(source) # 0
    BY <1>1
  <2>2. QED
    BY <1>1, <2>1, SeqFrom
<1>3. Distinct(source) /\ PhisLead(source) /\ OneTerminator(source)
  BY <1>1, <1>2 DEF Verified, Distinct, PhisLead, OneTerminator
<1>4. ASSUME NEW k \in 1 .. Len(source)
      PROVE  /\ source[k] \in Instructions /\ source[k] = Inst(source[k].id, source[k].op, source[k].w, source[k].args)
             /\ source[k].args \in Seq(Operands) /\ IsSeq(source[k].args)
             /\ DOMAIN source[k].args = 1 .. Len(source[k].args)
  <2>1. source[k] \in Instructions
    BY <1>1
  <2>2. /\ source[k] = Inst(source[k].id, source[k].op, source[k].w, source[k].args)
        /\ source[k].args \in Seq(Operands)
    BY <2>1 DEF Instructions, Inst
  <2>3. QED
    BY <2>1, <2>2, SeqFrom
<1>5. UsesDefined(source)
  BY <1>1, <1>2, <1>4 DEF Verified, UsesDefined, Defined
<1>6. ASSUME NEW k \in 1 .. Len(source) PROVE GoodInst(source[k], source)
  <2> DEFINE I == source[k]
  <2>1. At(source, I.id) = I
    <3>1. \A i \in DOMAIN source : source[i].id = I.id => i = k
      BY <1>2, <1>3 DEF Distinct
    <3>2. (CHOOSE i \in DOMAIN source : source[i].id = I.id) = k
      BY <1>2, <3>1
    <3>3. QED
      BY <3>2 DEF At
  <2>2. \A a \in Operands : IsOperand(a)
    BY DEF Operands, IsOperand, Const, Value
  <2>3. \A j \in 1 .. Len(I.args) : IsOperand(I.args[j])
    BY <1>4, <2>2
  <2>4. I.id \in Nat
    BY <1>4 DEF Instructions
  <2>5. I.op \in Binary => Len(I.args) = 2
    BY <1>1, <1>2 DEF Verified
  <2>6. ImmediatesKept(I, source)
    BY <2>1 DEF ImmediatesKept
  <2>7. QED
    BY <1>4, <2>3, <2>4, <2>5, <2>6 DEF GoodInst
<1>11. Numbered(source)
  BY <1>2, <1>6 DEF Numbered, GoodInst
<1>7. Good(block, source)
  BY <1>1, <1>2, <1>3, <1>5, <1>6, <1>11 DEF Good
<1>8. IsSeq(<<>>) /\ Len(<<>>) = 0
  BY EmptyIs
<1>9. VisitsFit /\ ErasedFit
  BY <1>1, <1>8 DEF VisitsFit, ErasedFit
<1>10. QED
  BY <1>7, <1>9 DEF IInv

(* The visits a pass begins with.                                          *)

\* The visits v are those of the instructions o tells, of their operands if the pass is
\* constant_altering, and else in the order of the block.
VisitsOf(v, o, a) ==
  /\ o \in [1 .. Len(v) -> 1 .. Len(block)]
  /\ \A i \in 1 .. Len(v) :
       /\ Visits(block[o[i]]) /\ v[i][1] = block[o[i]].id
       /\ Pass # "constant_altering" => v[i][3] = a
       /\ Pass = "constant_altering" => v[i][3] = 0 /\ v[i][2] \in 1 .. Len(block[o[i]].args)
  /\ Pass # "constant_altering" =>
       /\ \A i, l \in 1 .. Len(v) : i < l => o[i] < o[l]
       /\ \A k \in 1 .. Len(block) : Visits(block[k]) => \E i \in 1 .. Len(v) : o[i] = k

LEMMA VisitedFrom ==
  ASSUME Good(block, source), NEW a
  PROVE  LET v == Visited(block, a) IN IsSeq(v) /\ \E o : VisitsOf(v, o, a)
<1> DEFINE item(k) == IF ~Visits(block[k]) THEN <<>>
                      ELSE IF Pass = "constant_altering"
                        THEN [j \in DOMAIN block[k].args |-> <<block[k].id, j, 0>>]
                      ELSE <<<<block[k].id, 0, a>>>>
           xs == [k \in DOMAIN block |-> item(k)]
           n == Len(block)
           v == FlattenSeq(xs)
<1>1. DOMAIN block = 1 .. n /\ n \in Nat /\ n >= 1
  BY SeqIn DEF Good, IsSeq
<1>2. Visited(block, a) = v
  BY DEF Visited
<1>3. xs = [k \in 1 .. n |-> xs[k]] /\ \A k \in 1 .. n : xs[k] = item(k)
  BY <1>1
<1> HIDE DEF xs
<1>4. IsSeq(xs) /\ Len(xs) = n
  BY <1>1, <1>3, SeqMade
<1>5. ASSUME NEW k \in 1 .. n
      PROVE  /\ IsSeq(item(k))
             /\ Pass # "constant_altering" => Len(item(k)) <= 1 /\ (Visits(block[k]) => Len(item(k)) >= 1)
             /\ \A j \in 1 .. Len(item(k)) :
                  /\ Visits(block[k]) /\ item(k)[j][1] = block[k].id
                  /\ Pass # "constant_altering" => item(k)[j][3] = a
                  /\ Pass = "constant_altering" =>
                       item(k)[j][3] = 0 /\ item(k)[j][2] \in 1 .. Len(block[k].args)
  <2>1. CASE ~Visits(block[k])
    <3>1. item(k) = <<>>
      BY <2>1
    <3> HIDE DEF item
    <3>2. Len(item(k)) = 0 /\ IsSeq(item(k))
      BY <3>1, EmptyIs
    <3>3. ~Visits(block[k])
      BY <2>1
    <3>4. Len(item(k)) <= 1 /\ \A j \in 1 .. Len(item(k)) : FALSE
      BY <3>2
    <3> QED
      BY <3>2, <3>3, <3>4, Zenon
  <2>2. CASE Visits(block[k]) /\ Pass # "constant_altering"
    <3> DEFINE e == <<block[k].id, 0, a>>
    <3>1. item(k) = <<e>> /\ e[1] = block[k].id /\ e[3] = a
      BY <2>2
    <3> HIDE DEF e, item
    <3>2. IsSeq(item(k)) /\ Len(item(k)) = 1 /\ item(k)[1] = e
      BY <3>1, SingleIs
    <3>3. QED
      BY <2>2, <3>1, <3>2
  <2>3. CASE Visits(block[k]) /\ Pass = "constant_altering"
    <3> DEFINE m == Len(block[k].args)
               s == [j \in 1 .. m |-> <<block[k].id, j, 0>>]
    <3>1. DOMAIN block[k].args = 1 .. m /\ m \in Nat
      BY SeqIn DEF Good, GoodInst, IsSeq
    <3>2. item(k) = s
      BY <2>3, <3>1
    <3>3. s = [j \in 1 .. m |-> s[j]] /\ \A j \in 1 .. m : s[j][1] = block[k].id /\ s[j][2] = j /\ s[j][3] = 0
      OBVIOUS
    <3> HIDE DEF s, m, item
    <3>4. IsSeq(s) /\ Len(s) = m
      BY <3>1, <3>3, SeqMade
    <3>5. m = Len(block[k].args)
      BY DEF m
    <3>6. QED
      BY <2>3, <3>2, <3>3, <3>4, <3>5
  <2>4. QED
    BY <2>1, <2>2, <2>3
<1> HIDE DEF item
<1>6. IsSeq(v) /\ \E o : From(v, xs, n, o)
  <2>1. Len(xs) # 0 /\ \A k \in 1 .. Len(xs) : IsSeq(xs[k])
    BY <1>1, <1>3, <1>4, <1>5
  <2>2. IsSeq(v) /\ \E o : From(v, xs, Len(xs), o)
    BY <1>4, <2>1, FlattenIs
  <2>3. QED
    BY <1>4, <2>2
<1> HIDE DEF v
<1>7. PICK o : From(v, xs, n, o)
  BY <1>6
<1>8. ASSUME NEW i \in 1 .. Len(v)
      PROVE  /\ o[i] \in 1 .. n /\ Visits(block[o[i]]) /\ v[i][1] = block[o[i]].id
             /\ Pass # "constant_altering" => v[i][3] = a
             /\ Pass = "constant_altering" => v[i][3] = 0 /\ v[i][2] \in 1 .. Len(block[o[i]].args)
  <2>1. o[i] \in 1 .. n
    BY <1>7 DEF From
  <2>2. PICK j \in 1 .. Len(xs[o[i]]) : v[i] = xs[o[i]][j]
    BY <1>7 DEF From
  <2>3. xs[o[i]] = item(o[i])
    BY <1>3, <2>1
  <2>4. QED
    BY <1>5, <2>1, <2>2, <2>3
<1>9. ASSUME Pass # "constant_altering"
      PROVE  /\ \A i, l \in 1 .. Len(v) : i < l => o[i] < o[l]
             /\ \A k \in 1 .. n : Visits(block[k]) => \E i \in 1 .. Len(v) : o[i] = k
  <2>1. \A k \in 1 .. n : Len(xs[k]) <= 1 /\ (Visits(block[k]) => Len(xs[k]) >= 1)
    BY <1>3, <1>5, <1>9
  <2>2. QED
    BY <1>7, <2>1 DEF From
<1>10. VisitsOf(v, o, a)
  BY <1>7, <1>8, <1>9 DEF VisitsOf, From
<1>11. QED
  BY <1>2, <1>6, <1>10

LEMMA VisitedIs ==
  ASSUME Good(block, source), NEW a
  PROVE  LET v == Visited(block, a)
         IN  /\ IsSeq(v)
             /\ \A i \in 1 .. Len(v) :
                  \E k \in 1 .. Len(block) :
                    /\ Visits(block[k]) /\ v[i][1] = block[k].id
                    /\ Pass # "constant_altering" => v[i][3] = a
             /\ Pass # "constant_altering" =>
                  \A i, l \in 1 .. Len(v) : v[i][1] = v[l][1] => i = l
<1> DEFINE v == Visited(block, a)
<1>1. IsSeq(v) /\ \E o : VisitsOf(v, o, a)
  BY VisitedFrom
<1> HIDE DEF v
<1>2. PICK o : VisitsOf(v, o, a)
  BY <1>1
<1>3. \A i \in 1 .. Len(v) : o[i] \in 1 .. Len(block) /\ v[i][1] = block[o[i]].id
  BY <1>2 DEF VisitsOf
<1>4. ASSUME Pass # "constant_altering", NEW i \in 1 .. Len(v), NEW l \in 1 .. Len(v), v[i][1] = v[l][1]
      PROVE  i = l
  <2>1. o[i] = o[l] /\ o[i] \in Int
    <3>1. Distinct(block)
      BY DEF Good
    <3>2. /\ o[i] \in 1 .. Len(block) /\ o[l] \in 1 .. Len(block)
          /\ block[o[i]].id = block[o[l]].id
      BY <1>3, <1>4
    <3>3. QED
      BY <3>1, <3>2 DEF Distinct
  <2>2. \A x, y \in 1 .. Len(v) : x < y => o[x] < o[y]
    BY <1>2, <1>4 DEF VisitsOf
  <2>3. ~(i < l)
    BY <2>1, <2>2
  <2>4. ~(l < i)
    BY <2>1, <2>2
  <2>5. i \in Int /\ l \in Int
    OBVIOUS
  <2>6. QED
    BY <2>3, <2>4, <2>5
<1>5. QED
  BY <1>1, <1>2, <1>3, <1>4 DEF VisitsOf, v

\* The pass that begins has all its visits in a list of its own.
LEMMA VisitsBegin ==
  ASSUME IInv, pc = "start", passes # <<>>, passes' = passes, pc' = "visit",
         IsSeq(todo'), \A i \in 1 .. Len(todo') : Fits(block', Pass, todo'[i]),
         Pass # "constant_altering" =>
           \A i, l \in 1 .. Len(todo') : todo'[i][1] = todo'[l][1] => i = l,
         toErase' = toErase
  PROVE  VisitsFit' /\ ErasedFit'
<1>1. passes' \in Seq(Passes) /\ Pass' = Pass
  BY DEF IInv, VisitsFit, Pass
<1>2. toErase = <<>> /\ toErase' = <<>>
  BY DEF IInv, ErasedFit
<1>3. VisitsFit'
  BY <1>1 DEF VisitsFit
<1>4. ErasedFit'
  BY <1>2, EmptyIs DEF ErasedFit
<1>5. QED
  BY <1>3, <1>4

LEMMA PassIs ==
  ASSUME IInv, passes # <<>>
  PROVE  Pass \in Passes
BY DEF IInv, VisitsFit, Pass

LEMMA CollectInv == IInv /\ Collect => IInv'
<1> SUFFICES ASSUME IInv, Collect PROVE IInv'
  OBVIOUS
<1> DEFINE v == Visited(block, 0)
<1>1. /\ pc = "start" /\ passes # <<>> /\ Pass \notin Counting \cup {"garbage_insert"} /\ todo' = v
      /\ pc' = "visit" /\ source' = source /\ block' = block /\ passes' = passes /\ toErase' = toErase
  BY DEF Collect
<1>2. Good(block, source)
  BY DEF IInv
<1>3. /\ IsSeq(v)
      /\ \A i \in 1 .. Len(v) : \E k \in 1 .. Len(block) : Visits(block[k]) /\ v[i][1] = block[k].id
      /\ Pass # "constant_altering" => \A i, l \in 1 .. Len(v) : v[i][1] = v[l][1] => i = l
  BY <1>2, VisitedIs
<1> HIDE DEF v
<1>4. ASSUME NEW i \in 1 .. Len(v) PROVE Fits(block, Pass, v[i])
  <2>1. PICK k \in 1 .. Len(block) : Visits(block[k]) /\ v[i][1] = block[k].id
    BY <1>3
  <2>2. Pass \in {"inst_sub", "constant_altering", "Mul2ToShl1"}
    BY <1>1, PassIs DEF Passes
  <2>7. Pass \notin Counting \cup {"garbage_insert"} /\ Pass # "garbage_insert"
    BY <1>1
  <2>3. CASE Pass = "inst_sub"
    <3>1. block[k].op \in {"add", "sub", "mul"}
      BY <2>1, <2>3, <2>7 DEF Visits
    <3>2. block[k].op # "phi" /\ Pass # "Mul2ToShl1" /\ Pass # "constant_altering"
      BY <2>3, <3>1
    <3>3. QED
      BY <2>1, <2>7, <3>1, <3>2 DEF Fits
  <2>4. CASE Pass = "constant_altering"
    <3>1. block[k].op \notin Immediate
      BY <2>1, <2>4, <2>7 DEF Visits
    <3>2. block[k].op # "phi" /\ Pass # "Mul2ToShl1" /\ Pass # "inst_sub"
      BY <2>4, <3>1 DEF Immediate
    <3>3. QED
      BY <2>1, <2>7, <3>1, <3>2 DEF Fits
  <2>5. CASE Pass = "Mul2ToShl1"
    <3>1. block[k].op = "mul"
      BY <2>1, <2>5, <2>7 DEF Visits
    <3>2. block[k].op # "phi" /\ Pass # "inst_sub" /\ Pass # "constant_altering"
      BY <2>5, <3>1
    <3>3. QED
      BY <2>1, <2>7, <3>1, <3>2 DEF Fits
  <2>6. QED
    BY <2>2, <2>3, <2>4, <2>5
<1>5. VisitsFit' /\ ErasedFit'
  <2>1. IsSeq(todo') /\ \A i \in 1 .. Len(todo') : Fits(block', Pass, todo'[i])
    BY <1>1, <1>3, <1>4
  <2>2. Pass # "constant_altering" => \A i, l \in 1 .. Len(todo') : todo'[i][1] = todo'[l][1] => i = l
    BY <1>1, <1>3
  <2>3. QED
    BY <1>1, <2>1, <2>2, VisitsBegin
<1>6. Good(block, source)'
  BY <1>1, <1>2
<1>7. QED
  BY <1>5, <1>6 DEF IInv

\* Points of the block, and for each an integer in front of it.
PointsOf(v, o) ==
  /\ o \in [1 .. Len(v) -> 1 .. Len(block)]
  /\ \A i \in 1 .. Len(v) : /\ block[o[i]].op \notin Skipped /\ v[i][1] = block[o[i]].id
                            /\ v[i][3] \in availableValues(o[i])
  /\ \A i, l \in 1 .. Len(v) : i < l => o[i] < o[l]

LEMMA PickedIs ==
  ASSUME Good(block, source), PickPoints
  PROVE  IsSeq(todo') /\ \E o : PointsOf(todo', o)
<1>1. /\ pc = "start" /\ passes # <<>> /\ Pass = "garbage_insert" /\ pc' = "visit"
      /\ source' = source /\ block' = block /\ passes' = passes /\ toErase' = toErase
  BY DEF PickPoints, Running
<1>3. PICK picked, base :
        /\ \A k \in picked : /\ k \in DOMAIN block /\ block[k].op \notin Skipped
                             /\ base[k] \in availableValues(k)
        /\ todo' = FlattenSeq([k \in DOMAIN block |->
                                 IF k \in picked THEN <<<<block[k].id, 0, base[k]>>>> ELSE <<>>])
  BY DEF PickPoints
<1> DEFINE n == Len(block)
           item(k) == IF k \in picked THEN <<<<block[k].id, 0, base[k]>>>> ELSE <<>>
           xs == [k \in DOMAIN block |-> item(k)]
           v == FlattenSeq(xs)
<1>4. DOMAIN block = 1 .. n /\ n \in Nat /\ n >= 1
  BY SeqIn DEF Good, IsSeq
<1>5. todo' = v
  BY <1>3
<1>6. xs = [k \in 1 .. n |-> xs[k]] /\ \A k \in 1 .. n : xs[k] = item(k)
  BY <1>4
<1> HIDE DEF xs
<1>7. IsSeq(xs) /\ Len(xs) = n
  BY <1>4, <1>6, SeqMade
<1>8. ASSUME NEW k \in 1 .. n
      PROVE  /\ IsSeq(item(k)) /\ Len(item(k)) <= 1
             /\ \A j \in 1 .. Len(item(k)) :
                  k \in picked /\ item(k)[j][1] = block[k].id /\ item(k)[j][3] = base[k]
  <2>1. CASE k \in picked
    <3> DEFINE e == <<block[k].id, 0, base[k]>>
    <3>1. item(k) = <<e>> /\ e[1] = block[k].id /\ e[3] = base[k]
      BY <2>1
    <3> HIDE DEF e, item
    <3>2. IsSeq(item(k)) /\ Len(item(k)) = 1 /\ item(k)[1] = e
      BY <3>1, SingleIs
    <3>3. QED
      BY <2>1, <3>1, <3>2
  <2>2. CASE k \notin picked
    <3>1. item(k) = <<>>
      BY <2>2
    <3> HIDE DEF item
    <3>2. Len(item(k)) = 0 /\ IsSeq(item(k))
      BY <3>1, EmptyIs
    <3>3. QED
      BY <3>2
  <2>3. QED
    BY <2>1, <2>2
<1> HIDE DEF item
<1>9. IsSeq(v) /\ \E o : From(v, xs, n, o)
  <2>1. Len(xs) # 0 /\ \A k \in 1 .. Len(xs) : IsSeq(xs[k])
    BY <1>4, <1>6, <1>7, <1>8
  <2>2. IsSeq(v) /\ \E o : From(v, xs, Len(xs), o)
    BY <1>7, <2>1, FlattenIs
  <2>3. QED
    BY <1>7, <2>2
<1> HIDE DEF v
<1>10. PICK o : From(v, xs, n, o)
  BY <1>9
<1>11. ASSUME NEW i \in 1 .. Len(v)
       PROVE  o[i] \in 1 .. n /\ o[i] \in picked /\ v[i][1] = block[o[i]].id /\ v[i][3] = base[o[i]]
  <2>1. o[i] \in 1 .. n
    BY <1>10 DEF From
  <2>2. PICK j \in 1 .. Len(xs[o[i]]) : v[i] = xs[o[i]][j]
    BY <1>10 DEF From
  <2>3. xs[o[i]] = item(o[i])
    BY <1>6, <2>1
  <2>4. QED
    BY <1>8, <2>1, <2>2, <2>3
<1>12. \A i, l \in 1 .. Len(v) : i < l => o[i] < o[l]
  <2>1. \A k \in 1 .. n : Len(xs[k]) <= 1
    BY <1>6, <1>8
  <2>2. QED
    BY <1>10, <2>1 DEF From
<1>13. PointsOf(v, o)
  <2>1. o \in [1 .. Len(v) -> 1 .. Len(block)]
    BY <1>10 DEF From
  <2>2. QED
    BY <1>3, <1>11, <1>12, <2>1 DEF PointsOf
<1>14. QED
  BY <1>5, <1>9, <1>13

LEMMA PickPointsInv == IInv /\ PickPoints => IInv'
<1> SUFFICES ASSUME IInv, PickPoints PROVE IInv'
  OBVIOUS
<1>1. /\ pc = "start" /\ passes # <<>> /\ Pass = "garbage_insert" /\ pc' = "visit"
      /\ source' = source /\ block' = block /\ passes' = passes /\ toErase' = toErase
  BY DEF PickPoints, Running
<1>2. Good(block, source)
  BY DEF IInv
<1>3. IsSeq(todo') /\ \E o : PointsOf(todo', o)
  BY <1>2, PickedIs
<1>4. PICK o : PointsOf(todo', o)
  BY <1>3
<1> DEFINE v == todo'
<1>5. ASSUME NEW i \in 1 .. Len(v), NEW l \in 1 .. Len(v), v[i][1] = v[l][1] PROVE i = l
  <2>1. o[i] = o[l] /\ o[i] \in Int
    BY <1>2, <1>4, <1>5 DEF Good, Distinct, PointsOf
  <2>2. i \in Int /\ l \in Int /\ ~(i < l) /\ ~(l < i)
    BY <1>4, <2>1 DEF PointsOf
  <2>3. QED
    BY <2>2
<1>6. ASSUME NEW i \in 1 .. Len(v) PROVE Fits(block, Pass, v[i])
  <2>1. /\ o[i] \in 1 .. Len(block) /\ v[i][1] = block[o[i]].id
        /\ block[o[i]].op \notin Skipped /\ v[i][3] \in availableValues(o[i])
    BY <1>4 DEF PointsOf
  <2>2. Defined(block, o[i], v[i][3])
    BY <2>1 DEF availableValues, Defined
  <2>3. block[o[i]].op # "phi" /\ block[o[i]].op \notin Terminators
    BY <2>1 DEF Skipped
  <2>4. QED
    BY <1>1, <2>1, <2>2, <2>3 DEF Fits
<1>7. VisitsFit' /\ ErasedFit'
  <2>1. \A i \in 1 .. Len(todo') : Fits(block', Pass, todo'[i])
    BY <1>1, <1>6
  <2>2. \A i, l \in 1 .. Len(todo') : todo'[i][1] = todo'[l][1] => i = l
    BY <1>5
  <2>3. QED
    BY <1>1, <1>3, <2>1, <2>2, VisitsBegin
<1>8. Good(block, source)'
  BY <1>1, <1>2
<1>9. QED
  BY <1>7, <1>8 DEF IInv

LEMMA NewUnary ==
  ASSUME NEW id \in Nat, NEW op, op \notin Terminators \cup {"phi"} \cup Binary, NEW w,
         NEW x, IsOperand(x), op \in Immediate => IsConst(x)
  PROVE  LET I == Inst(id, op, w, <<x>>)
         IN  NewInst(I) /\ I.id = id /\ Len(I.args) = 1 /\ I.args[1] = x
<1> DEFINE I == Inst(id, op, w, <<x>>)
<1>1. I.id = id /\ I.op = op /\ I.w = w /\ I.args = <<x>> /\ I = Inst(I.id, I.op, I.w, I.args)
  BY DEF Inst
<1> HIDE DEF I
<1>2. IsSeq(I.args) /\ Len(I.args) = 1 /\ I.args[1] = x
  BY <1>1, SingleIs
<1>3. NewInst(I)
  BY <1>1, <1>2 DEF NewInst
<1>4. QED
  BY <1>1, <1>2, <1>3 DEF I

LEMMA NewPair ==
  ASSUME NEW id \in Nat, NEW op, op \notin Terminators \cup {"phi"} \cup Immediate, NEW w,
         NEW x, NEW y, IsOperand(x), IsOperand(y)
  PROVE  LET I == Inst(id, op, w, <<x, y>>)
         IN  NewInst(I) /\ I.id = id /\ Len(I.args) = 2 /\ I.args[1] = x /\ I.args[2] = y
<1> DEFINE I == Inst(id, op, w, <<x, y>>)
<1>1. I.id = id /\ I.op = op /\ I.w = w /\ I.args = <<x, y>> /\ I = Inst(I.id, I.op, I.w, I.args)
  BY DEF Inst
<1> HIDE DEF I
<1>2. IsSeq(I.args) /\ Len(I.args) = 2 /\ I.args[1] = x /\ I.args[2] = y
  BY <1>1, PairIs
<1>3. NewInst(I)
  BY <1>1, <1>2 DEF NewInst
<1>4. QED
  BY <1>1, <1>2, <1>3 DEF I

\* Code whose instructions have the next numbers.
LEMMA NumberedCode ==
  ASSUME Good(block, source), NEW k, NEW new, IsSeq(new),
         \A i \in 1 .. Len(new) :
           /\ NewInst(new[i]) /\ new[i].id = Fresh + (i - 1)
           /\ \A j \in 1 .. Len(new[i].args) : ~IsConst(new[i].args[j]) =>
                \/ Defined(block, k, new[i].args[j].n)
                \/ \E l \in 1 .. i - 1 : new[i].args[j].n = Fresh + (l - 1)
  PROVE  NewCode(block, k, new)
<1>1. Fresh \in Nat /\ \A l \in 1 .. Len(block) : block[l].id < Fresh /\ block[l].id \in Nat
  BY FreshIs DEF Good, GoodInst
<1>2. Len(new) \in Nat
  BY DEF IsSeq
<1>3. Distinct(new)
  BY <1>1, <1>2 DEF Distinct
<1>4. \A i \in 1 .. Len(new) : \A l \in 1 .. Len(block) : new[i].id # block[l].id
  BY <1>1, <1>2
<1>5. ASSUME NEW i \in 1 .. Len(new), NEW x, NEW l \in 1 .. i - 1, x = Fresh + (l - 1)
      PROVE  Defined(new, i, x)
  <2>1. l \in 1 .. Len(new)
    BY <1>2
  <2>2. QED
    BY <1>5, <2>1 DEF Defined
<1>6. QED
  BY <1>3, <1>4, <1>5 DEF NewCode

LEMMA InsertCounterInv == IInv /\ InsertCounter => IInv'
<1> SUFFICES ASSUME IInv, InsertCounter PROVE IInv'
  OBVIOUS
<1> DEFINE v == Visited(block, Fresh)
           I1 == Inst(Fresh, "alloca", Word, <<Const(1)>>)
           I2 == Inst(Fresh + 1, "store", Word, <<Const(0), Value(Fresh)>>)
           new == <<I1, I2>>
           p == FirstInsertionPt(block)
           r == Before(block, p, new)
<1>1. /\ pc = "start" /\ passes # <<>> /\ Pass \in Counting /\ block' = r /\ todo' = v
      /\ pc' = "visit" /\ source' = source /\ passes' = passes /\ toErase' = toErase
  BY DEF InsertCounter
<1>2. Good(block, source) /\ Len(block) \in Nat /\ IsSeq(block)
  BY DEF IInv, Good, IsSeq
<1>3. Fresh \in Nat
  BY <1>2, FreshIs
<1>4. Pass \in {"count_additions", "count_calls"}
  BY <1>1 DEF Counting
<1>5. /\ IsSeq(v)
      /\ \A i \in 1 .. Len(v) :
           \E k \in 1 .. Len(block) : Visits(block[k]) /\ v[i][1] = block[k].id /\ v[i][3] = Fresh
      /\ \A i, l \in 1 .. Len(v) : v[i][1] = v[l][1] => i = l
  BY <1>2, <1>4, VisitedIs
<1>6. p \in 1 .. Len(block) /\ block[p].op # "phi" /\ \A j \in 1 .. p - 1 : block[j].op = "phi"
  BY <1>2, FirstInsertionPtIs
<1>7. NewInst(I1) /\ I1.id = Fresh /\ Len(I1.args) = 1 /\ I1.args[1] = Const(1)
  <2>1. "alloca" \notin Terminators \cup {"phi"} \cup Binary
    BY DEF Terminators, Binary
  <2>2. QED
    BY <1>3, <2>1, NewUnary, OperandSorts
<1>8. /\ NewInst(I2) /\ I2.id = Fresh + 1 /\ Len(I2.args) = 2
      /\ I2.args[1] = Const(0) /\ I2.args[2] = Value(Fresh)
  <2>1. "store" \notin Terminators \cup {"phi"} \cup Immediate
    BY DEF Terminators, Immediate
  <2>2. Fresh + 1 \in Nat
    BY <1>3
  <2>3. QED
    BY <2>1, <2>2, NewPair, OperandSorts
<1> HIDE DEF v, I1, I2
<1>9. IsSeq(new) /\ Len(new) = 2 /\ new[1] = I1 /\ new[2] = I2
  <2>1. new = <<I1, I2>>
    OBVIOUS
  <2> HIDE DEF new
  <2>2. QED
    BY <2>1, PairIs
<1> HIDE DEF new, p, r
<1>10. NewCode(block, p, new)
  <2>1. ASSUME NEW i \in 1 .. Len(new)
        PROVE  /\ NewInst(new[i]) /\ new[i].id = Fresh + (i - 1)
               /\ \A j \in 1 .. Len(new[i].args) : ~IsConst(new[i].args[j]) =>
                    \/ Defined(block, p, new[i].args[j].n)
                    \/ \E l \in 1 .. i - 1 : new[i].args[j].n = Fresh + (l - 1)
    <3>1. CASE i = 1
      BY <1>3, <1>7, <1>9, <3>1, OperandSorts
    <3>2. CASE i = 2
      <4>1. \A j \in 1 .. 2 : I2.args[j] = Const(0) \/ I2.args[j] = Value(Fresh)
        BY <1>8
      <4>2. \A j \in 1 .. 2 : ~IsConst(I2.args[j]) => I2.args[j].n = Fresh + (1 - 1)
        BY <1>3, <4>1, OperandSorts
      <4>3. 1 \in 1 .. 2 - 1
        OBVIOUS
      <4>4. QED
        BY <1>3, <1>8, <1>9, <3>2, <4>2, <4>3
    <3>3. QED
      BY <1>9, <3>1, <3>2
  <2>2. QED
    BY <1>2, <1>9, <2>1, NumberedCode
<1>11. Good(r, source)
  BY <1>2, <1>6, <1>10, InsertGood DEF r
<1>12. /\ Len(r) = Len(block) + 2
       /\ \A i \in 1 .. Len(new) : r[p - 1 + i] = new[i]
       /\ \A i \in p .. Len(block) : r[i + Len(new)] = block[i]
  <2>1. IsSeq(block) /\ IsSeq(new) /\ p \in 1 .. Len(block)
    BY <1>2, <1>6, <1>9
  <2>2. /\ IsSeq(r) /\ Len(r) = Len(block) + Len(new)
        /\ \A i \in 1 .. p - 1 : r[i] = block[i]
        /\ \A i \in 1 .. Len(new) : r[p - 1 + i] = new[i]
        /\ \A i \in p .. Len(block) : r[i + Len(new)] = block[i]
    BY <2>1, BeforeIs DEF r
  <2>3. QED
    BY <1>9, <2>2
<1>13. ASSUME NEW i \in 1 .. Len(v) PROVE Fits(r, Pass, v[i])
  <2>1. PICK k \in 1 .. Len(block) : Visits(block[k]) /\ v[i][1] = block[k].id /\ v[i][3] = Fresh
    BY <1>5
  <2>2. block[k].op \in Counted \cup {"ret"}
    BY <1>1, <1>4, <2>1 DEF Visits
  <2>3. block[k].op # "phi"
    BY <2>2 DEF Counted
  <2>4. k \in p .. Len(block)
    BY <1>2, <1>6, <2>3
  <2>5. k + 2 \in 1 .. Len(r) /\ r[k + 2] = block[k]
    BY <1>2, <1>6, <1>9, <1>12, <2>4
  <2>6. Defined(r, k + 2, Fresh)
    <3>1. p \in 1 .. (k + 2) - 1 /\ 1 \in 1 .. Len(new) /\ p - 1 + 1 = p
      BY <1>2, <1>6, <1>9, <2>4
    <3>2. r[p] = new[1]
      BY <1>12, <3>1
    <3>3. QED
      BY <1>7, <1>9, <3>1, <3>2 DEF Defined
  <2>7. Pass # "inst_sub" /\ Pass # "Mul2ToShl1" /\ Pass # "constant_altering" /\ Pass # "garbage_insert"
    BY <1>4
  <2>8. QED
    BY <2>1, <2>3, <2>5, <2>6, <2>7 DEF Fits
<1>14. VisitsFit' /\ ErasedFit'
  <2>1. IsSeq(todo') /\ \A i \in 1 .. Len(todo') : Fits(block', Pass, todo'[i])
    BY <1>1, <1>5, <1>13
  <2>2. \A i, l \in 1 .. Len(todo') : todo'[i][1] = todo'[l][1] => i = l
    BY <1>1, <1>5
  <2>3. QED
    BY <1>1, <2>1, <2>2, VisitsBegin
<1>15. Good(block, source)'
  BY <1>1, <1>11
<1>16. QED
  BY <1>14, <1>15 DEF IInv
(* One visit.                                                              *)

LEMMA ThisIs ==
  ASSUME IInv, pc = "visit", todo # <<>>
  PROVE  \E k \in 1 .. Len(block) :
           /\ This = block[k] /\ Visit[1] = block[k].id /\ Position(block, block[k].id) = k
           /\ block[k].op # "phi"
           /\ Pass = "inst_sub" => block[k].op \in {"add", "sub", "mul"}
           /\ Pass = "Mul2ToShl1" => block[k].op = "mul"
           /\ Pass = "constant_altering" => block[k].op \notin Immediate
           /\ Pass \in Counting \cup {"garbage_insert"} => Defined(block, k, Visit[3])
           /\ Pass = "garbage_insert" => block[k].op \notin Terminators
<1>1. Good(block, source)
  BY DEF IInv
<1>2. Len(todo) >= 1 /\ Visit = todo[1] /\ Len(todo) \in Nat
  BY HeadTail DEF IInv, VisitsFit, Visit, IsSeq
<1>3. Fits(block, Pass, Visit)
  BY <1>2 DEF IInv, VisitsFit
<1>4. PICK k \in 1 .. Len(block) :
    /\ block[k].id = Visit[1] /\ block[k].op # "phi"
    /\ Pass = "inst_sub" => block[k].op \in {"add", "sub", "mul"}
    /\ Pass = "Mul2ToShl1" => block[k].op = "mul"
    /\ Pass = "constant_altering" => block[k].op \notin Immediate
    /\ Pass \in Counting \cup {"garbage_insert"} => Defined(block, k, Visit[3])
    /\ Pass = "garbage_insert" => block[k].op \notin Terminators
  BY <1>3 DEF Fits
<1>5. Position(block, block[k].id) = k /\ At(block, block[k].id) = block[k]
  BY <1>1, PositionIs
<1>6. QED
  BY <1>4, <1>5 DEF This

LEMMA LaterFits ==
  ASSUME IInv, pc = "visit", todo # <<>>, NEW i \in 2 .. Len(todo)
  PROVE  /\ Fits(block, Pass, todo[i])
         /\ Pass # "constant_altering" => todo[i][1] # Visit[1]
<1>1. Len(todo) >= 1 /\ Visit = todo[1] /\ Len(todo) \in Nat
  BY HeadTail DEF IInv, VisitsFit, Visit, IsSeq
<1>2. 1 \in 1 .. Len(todo) /\ i \in 1 .. Len(todo) /\ i # 1
  BY <1>1
<1>3. QED
  BY <1>1, <1>2 DEF IInv, VisitsFit

LEMMA VisitDone ==
  ASSUME IInv, pc = "visit", todo # <<>>, todo' = Tail(todo), passes' = passes, pc' = pc,
         \A i \in 2 .. Len(todo) : Fits(block', Pass, todo[i])
  PROVE  VisitsFit'
<1>1. /\ IsSeq(Tail(todo)) /\ Len(Tail(todo)) = Len(todo) - 1 /\ Len(todo) \in Nat
      /\ \A i \in 1 .. Len(todo) - 1 : Tail(todo)[i] = todo[i + 1]
  BY HeadTail DEF IInv, VisitsFit, IsSeq
<1>2. \A i \in 1 .. Len(todo') : i + 1 \in 2 .. Len(todo) /\ i + 1 \in 1 .. Len(todo) /\ todo'[i] = todo[i + 1]
  BY <1>1
<1>3. Pass' = Pass /\ passes # <<>> /\ passes' \in Seq(Passes)
  BY DEF Pass, IInv, VisitsFit
<1>4. \A i \in 1 .. Len(todo') : Fits(block', Pass, todo'[i])
  BY <1>2
<1>5. ASSUME Pass # "constant_altering", NEW i \in 1 .. Len(todo'), NEW k \in 1 .. Len(todo'),
             todo'[i][1] = todo'[k][1]
      PROVE  i = k
  <2>1. i + 1 = k + 1
    BY <1>2, <1>5 DEF IInv, VisitsFit
  <2>2. QED
    BY <2>1
<1>6. IsSeq(todo')
  BY <1>1
<1>7. QED
  BY <1>3, <1>4, <1>5, <1>6 DEF VisitsFit

LEMMA NothingErased ==
  ASSUME IInv, Pass # "Mul2ToShl1", toErase' = toErase
  PROVE  ErasedFit'
<1>1. toErase' = <<>>
  BY DEF IInv, ErasedFit
<1>2. QED
  BY <1>1, EmptyIs DEF ErasedFit

\* Code inserted in front of the k-th instruction, and nothing else.
LEMMA InsertInv ==
  ASSUME IInv, pc = "visit", todo # <<>>, todo' = Tail(todo), passes' = passes, pc' = pc,
         source' = source, toErase' = toErase, Pass # "Mul2ToShl1",
         NEW k \in 1 .. Len(block), block[k].op # "phi",
         NEW new, NewCode(block, k, new), block' = Before(block, k, new)
  PROVE  IInv'
<1>1. Good(block, source) /\ IsSeq(block) /\ IsSeq(new)
  BY DEF IInv, Good, NewCode
<1>2. Good(block', source')
  BY <1>1, InsertGood
<1>3. \A i \in 2 .. Len(todo) : Fits(block', Pass, todo[i])
  BY <1>1, LaterFits, InsertFits
<1>4. VisitsFit' /\ ErasedFit'
  BY <1>3, VisitDone, NothingErased
<1>5. QED
  BY <1>2, <1>4 DEF IInv

LEMMA InsertGarbageInv ==
  ASSUME IInv, NEW pattern \in 0 .. 4, NEW n, InsertGarbage(pattern, n)
  PROVE  IInv'
<1> DEFINE base == At(block, Visit[3])
           s == Garbage(Value(base.id), base.w, pattern, n)
<1>1. /\ pc = "visit" /\ Pass = "garbage_insert" /\ todo # <<>>
      /\ block' = Before(block, Position(block, This.id) + 1, s.code)
      /\ todo' = Tail(todo) /\ passes' = passes /\ pc' = pc /\ source' = source /\ toErase' = toErase
  BY DEF InsertGarbage, Visiting, Running, EndVisit
<1>2. Good(block, source) /\ Len(block) \in Nat
  BY DEF IInv, Good, IsSeq
<1>3. PICK k \in 1 .. Len(block) :
        /\ This = block[k] /\ Position(block, block[k].id) = k
        /\ block[k].op # "phi" /\ block[k].op \notin Terminators /\ Defined(block, k, Visit[3])
  BY <1>1, ThisIs
<1>4. k + 1 \in 1 .. Len(block)
  BY <1>2, <1>3 DEF Good, OneTerminator
<1>5. block[k + 1].op # "phi"
  BY <1>2, <1>3, <1>4 DEF Good, PhisLead
<1>6. PICK l \in 1 .. k - 1 : block[l].id = Visit[3]
  BY <1>3 DEF Defined
<1>7. base.id = block[l].id
  <2>1. l \in 1 .. Len(block)
    BY <1>2
  <2>2. At(block, block[l].id) = block[l]
    BY <1>2, <2>1, PositionIs
  <2>3. QED
    BY <1>6, <2>2
<1>8. \A code : Avail(k + 1, code, Value(base.id))
  <2> HIDE DEF base
  <2>1. l \in 1 .. (k + 1) - 1
    BY <1>2
  <2>2. Defined(block, k + 1, base.id)
    BY <1>7, <2>1 DEF Defined
  <2>3. QED
    BY <2>2, OperandSorts DEF Avail
<1>9. Made(k + 1, s)
  <2> DEFINE x == Value(base.id)
             w == base.w
             m == k + 1
  <2>1. m \in 1 .. Len(block) /\ \A code : Avail(m, code, x)
    BY <1>4, <1>8
  <2> HIDE DEF x, w, m
  <2>2. Made(m, Garbage(x, w, pattern, n))
    BY <1>2, <2>1, GarbageMade
  <2>3. QED
    BY <2>2 DEF x, w, m
<1> HIDE DEF s, base
<1>10. NewCode(block, k + 1, s.code)
  BY <1>9 DEF Made
<1>11. block' = Before(block, k + 1, s.code) /\ Pass # "Mul2ToShl1"
  BY <1>1, <1>3
<1>12. QED
  BY <1>1, <1>4, <1>5, <1>10, <1>11, InsertInv

\* Operands of which each is a constant, a value defined in front, or that of a
\* numbered instruction further up.
Reaches(k, i, x) ==
  ~IsConst(x) => Defined(block, k, x.n) \/ \E l \in 1 .. i - 1 : x.n = Fresh + (l - 1)

LEMMA CountOneInv == IInv /\ CountOne => IInv'
<1> SUFFICES ASSUME IInv, CountOne PROVE IInv'
  OBVIOUS
<1> DEFINE I1 == Inst(Fresh, "load", Word, <<Value(Visit[3])>>)
           I2 == Inst(Fresh + 1, "add", Word, <<Value(Fresh), Const(1)>>)
           I3 == Inst(Fresh + 2, "store", Word, <<Value(Fresh + 1), Value(Visit[3])>>)
           R == Inst(Fresh + 1, "report", Word, <<Value(Fresh)>>)
           code == <<I1>> \o (IF This.op = "ret" THEN <<R>> ELSE <<I2, I3>>)
<1>1. /\ pc = "visit" /\ Pass \in Counting /\ todo # <<>>
      /\ block' = Before(block, Position(block, This.id), code)
      /\ todo' = Tail(todo) /\ passes' = passes /\ pc' = pc /\ source' = source /\ toErase' = toErase
  BY DEF CountOne, EndVisit
<1>2. Good(block, source)
  BY DEF IInv
<1>3. Fresh \in Nat /\ Fresh + 1 \in Nat /\ Fresh + 2 \in Nat
  BY <1>2, FreshIs
<1>4. PICK k \in 1 .. Len(block) :
        /\ This = block[k] /\ Position(block, block[k].id) = k
        /\ block[k].op # "phi" /\ Defined(block, k, Visit[3])
  BY <1>1, ThisIs
<1>5. /\ \A i : Reaches(k, i, Value(Visit[3])) /\ Reaches(k, i, Const(1))
      /\ Reaches(k, 2, Value(Fresh)) /\ Reaches(k, 3, Value(Fresh + 1))
  <2>1. \A i : Reaches(k, i, Value(Visit[3])) /\ Reaches(k, i, Const(1))
    BY <1>4, OperandSorts DEF Reaches
  <2>2. Reaches(k, 2, Value(Fresh))
    <3>1. 1 \in 1 .. 2 - 1 /\ Fresh = Fresh + (1 - 1)
      BY <1>3
    <3>2. QED
      BY <3>1, OperandSorts DEF Reaches
  <2>3. Reaches(k, 3, Value(Fresh + 1))
    <3>1. 2 \in 1 .. 3 - 1 /\ Fresh + 1 = Fresh + (2 - 1)
      BY <1>3
    <3>2. QED
      BY <3>1, OperandSorts DEF Reaches
  <2>4. QED
    BY <2>1, <2>2, <2>3
<1>6. {"load", "report", "add", "store"} \cap (Terminators \cup {"phi"} \cup Immediate) = {}
  BY DEF Terminators, Immediate
<1>7. {"load", "report"} \cap Binary = {}
  BY DEF Binary
<1>8. /\ NewInst(I1) /\ I1.id = Fresh + (1 - 1)
      /\ \A j \in 1 .. Len(I1.args) : Reaches(k, 1, I1.args[j])
  <2>1. "load" \notin Terminators \cup {"phi"} \cup Binary /\ "load" \notin Immediate
    BY <1>6, <1>7
  <2>2. NewInst(I1) /\ I1.id = Fresh /\ Len(I1.args) = 1 /\ I1.args[1] = Value(Visit[3])
    <3> DEFINE x == Value(Visit[3])
    <3>1. IsOperand(x)
      BY OperandSorts
    <3> HIDE DEF x
    <3>2. QED
      BY <1>3, <2>1, <3>1, NewUnary DEF x
  <2> HIDE DEF I1
  <2>3. QED
    BY <1>3, <1>5, <2>2
<1>9. /\ NewInst(R) /\ R.id = Fresh + (2 - 1)
      /\ \A j \in 1 .. Len(R.args) : Reaches(k, 2, R.args[j])
  <2>1. "report" \notin Terminators \cup {"phi"} \cup Binary /\ "report" \notin Immediate
    BY <1>6, <1>7
  <2>2. NewInst(R) /\ R.id = Fresh + 1 /\ Len(R.args) = 1 /\ R.args[1] = Value(Fresh)
    BY <1>3, <2>1, NewUnary, OperandSorts
  <2> HIDE DEF R
  <2>3. QED
    BY <1>3, <1>5, <2>2
<1>10. /\ NewInst(I2) /\ I2.id = Fresh + (2 - 1)
       /\ \A j \in 1 .. Len(I2.args) : Reaches(k, 2, I2.args[j])
  <2>1. "add" \notin Terminators \cup {"phi"} \cup Immediate
    BY <1>6
  <2>2. /\ NewInst(I2) /\ I2.id = Fresh + 1 /\ Len(I2.args) = 2
        /\ I2.args[1] = Value(Fresh) /\ I2.args[2] = Const(1)
    BY <1>3, <2>1, NewPair, OperandSorts
  <2> HIDE DEF I2
  <2>3. \A j \in 1 .. 2 : I2.args[j] = Value(Fresh) \/ I2.args[j] = Const(1)
    BY <2>2
  <2>4. QED
    BY <1>3, <1>5, <2>2, <2>3
<1>11. /\ NewInst(I3) /\ I3.id = Fresh + (3 - 1)
       /\ \A j \in 1 .. Len(I3.args) : Reaches(k, 3, I3.args[j])
  <2>1. "store" \notin Terminators \cup {"phi"} \cup Immediate
    BY <1>6
  <2>2. /\ NewInst(I3) /\ I3.id = Fresh + 2 /\ Len(I3.args) = 2
        /\ I3.args[1] = Value(Fresh + 1) /\ I3.args[2] = Value(Visit[3])
    BY <1>3, <2>1, NewPair, OperandSorts
  <2> HIDE DEF I3
  <2>3. \A j \in 1 .. 2 : I3.args[j] = Value(Fresh + 1) \/ I3.args[j] = Value(Visit[3])
    BY <2>2
  <2>4. QED
    BY <1>3, <1>5, <2>2, <2>3
<1> HIDE DEF I1, I2, I3, R
<1>12. NewCode(block, k, code)
  <2>1. SUFFICES /\ IsSeq(code)
                 /\ \A i \in 1 .. Len(code) :
                      /\ NewInst(code[i]) /\ code[i].id = Fresh + (i - 1)
                      /\ \A j \in 1 .. Len(code[i].args) : Reaches(k, i, code[i].args[j])
    <3> HIDE DEF code
    <3>1. QED
      BY <1>2, NumberedCode DEF Reaches
  <2>2. CASE This.op = "ret"
    <3> DEFINE u == <<I1>>
               t == <<R>>
               r == u \o t
    <3>1. code = r
      BY <2>2
    <3>5. IsSeq(u) /\ Len(u) = 1 /\ u[1] = I1 /\ IsSeq(t) /\ Len(t) = 1 /\ t[1] = R
      BY SingleIs
    <3>10. IsSeq(u) /\ IsSeq(t)
      BY <3>5
    <3> HIDE DEF code, u, t
    <3>6. /\ IsSeq(r) /\ Len(r) = Len(u) + Len(t)
          /\ \A i \in 1 .. Len(u) : r[i] = u[i]
          /\ \A i \in 1 .. Len(t) : r[Len(u) + i] = t[i]
      BY <3>10, ConcatIs
    <3> HIDE DEF r
    <3>8. 1 \in 1 .. Len(u) /\ 1 \in 1 .. Len(t) /\ Len(u) + 1 = 2 /\ Len(u) + Len(t) = 2
      BY <3>5
    <3>9. r[Len(u) + 1] = t[1] /\ r[1] = u[1]
      BY <3>6, <3>8
    <3>2. IsSeq(code) /\ Len(code) = 2 /\ code[1] = I1 /\ code[2] = R
      BY <3>1, <3>5, <3>6, <3>8, <3>9
    <3>3. \A i \in 1 .. 2 : i = 1 \/ i = 2
      OBVIOUS
    <3>4. QED
      BY <1>8, <1>9, <3>2, <3>3
  <2>3. CASE This.op # "ret"
    <3> DEFINE u == <<I1>>
               t == <<I2, I3>>
               r == u \o t
    <3>1. code = r
      BY <2>3
    <3>5. IsSeq(u) /\ Len(u) = 1 /\ u[1] = I1
      BY SingleIs
    <3>7. IsSeq(t) /\ Len(t) = 2 /\ t[1] = I2 /\ t[2] = I3
      BY PairIs
    <3>10. IsSeq(u) /\ IsSeq(t)
      BY <3>5, <3>7
    <3> HIDE DEF code, u, t
    <3>6. /\ IsSeq(r) /\ Len(r) = Len(u) + Len(t)
          /\ \A i \in 1 .. Len(u) : r[i] = u[i]
          /\ \A i \in 1 .. Len(t) : r[Len(u) + i] = t[i]
      BY <3>10, ConcatIs
    <3> HIDE DEF r
    <3>8. /\ 1 \in 1 .. Len(u) /\ 1 \in 1 .. Len(t) /\ 2 \in 1 .. Len(t)
          /\ Len(u) + 1 = 2 /\ Len(u) + 2 = 3 /\ Len(u) + Len(t) = 3
      BY <3>5, <3>7
    <3>9. r[Len(u) + 1] = t[1] /\ r[Len(u) + 2] = t[2] /\ r[1] = u[1]
      BY <3>6, <3>8
    <3>2. IsSeq(code) /\ Len(code) = 3 /\ code[1] = I1 /\ code[2] = I2 /\ code[3] = I3
      BY <3>1, <3>5, <3>6, <3>7, <3>8, <3>9
    <3>3. \A i \in 1 .. 3 : i = 1 \/ i = 2 \/ i = 3
      OBVIOUS
    <3>4. QED
      BY <1>8, <1>10, <1>11, <3>2, <3>3
  <2>4. QED
    BY <2>2, <2>3
<1> HIDE DEF code
<1>13. block' = Before(block, k, code) /\ Pass # "Mul2ToShl1"
  BY <1>1, <1>4 DEF Counting
<1>14. QED
  BY <1>1, <1>4, <1>12, <1>13, InsertInv

\* An instruction's value computed anew in front of it and used from then on.
LEMMA Superseded ==
  ASSUME Good(block, source), NEW k \in 1 .. Len(block), block[k].op # "phi",
         NEW s, Made(k, s), s.a # Value(block[k].id)
  PROVE  LET r == replaceAllUsesWith(Before(block, k, s.code), block[k].id, s.a)
             q == k + Len(s.code)
         IN  /\ Good(r, source) /\ q \in 1 .. Len(r)
             /\ r[q].id = block[k].id /\ r[q].op = block[k].op /\ Unused(r, block[k].id)
             /\ \A p, t : Fits(block, p, t) => Fits(r, p, t)
             /\ \A x : Unused(block, x) /\ Unused(s.code, x) /\ s.a # Value(x) => Unused(r, x)
             /\ \A i \in 1 .. Len(block) :
                  \E j \in 1 .. Len(r) : r[j].id = block[i].id /\ r[j].op = block[i].op
<1> DEFINE new == s.code
           n == Len(new)
           q == k + n
           c == Before(block, k, new)
           r == replaceAllUsesWith(c, block[k].id, s.a)
<1>1. IsSeq(block) /\ IsSeq(new) /\ NewCode(block, k, new) /\ Avail(k, new, s.a)
  BY DEF Good, Made, NewCode
<1>2. Good(c, source)
  BY <1>1, InsertGood
<1>3. Len(block) \in Nat /\ n \in Nat
  BY <1>1 DEF IsSeq
<1>4. /\ IsSeq(c) /\ Len(c) = Len(block) + n
      /\ \A i \in 1 .. k - 1 : c[i] = block[i]
      /\ \A i \in 1 .. n : c[k - 1 + i] = new[i]
      /\ \A i \in k .. Len(block) : c[i + n] = block[i]
  BY <1>1, BeforeIs
<1>5. \A p, t : Fits(block, p, t) => Fits(c, p, t)
  BY <1>1, InsertFits
<1> HIDE DEF c, n
<1>6. q \in 1 .. Len(c) /\ c[q] = block[k]
  BY <1>3, <1>4
<1>7. IsOperand(s.a) /\ s.a # Value(c[q].id) /\ (IsConst(s.a) \/ Defined(c, q, s.a.n))
  <2> DEFINE x == s.a.n
  <2>1. IsOperand(s.a) /\ (IsConst(s.a) \/ Defined(block, k, x) \/ Defined(new, n + 1, x))
    BY <1>1 DEF Avail, n
  <2> HIDE DEF x
  <2>2. CASE Defined(block, k, x)
    <3>1. PICK l \in 1 .. k - 1 : block[l].id = x
      BY <2>2 DEF Defined
    <3>2. l \in 1 .. q - 1
      BY <1>3
    <3>3. c[l].id = x
      BY <1>4, <3>1
    <3>4. QED
      BY <1>6, <2>1, <3>2, <3>3 DEF Defined, x
  <2>3. CASE Defined(new, n + 1, x)
    <3>1. PICK l \in 1 .. (n + 1) - 1 : new[l].id = x
      BY <2>3 DEF Defined
    <3>2. l \in 1 .. n /\ k - 1 + l \in 1 .. q - 1
      BY <1>3
    <3>3. c[k - 1 + l].id = x
      BY <1>4, <3>1, <3>2
    <3>4. QED
      BY <1>6, <2>1, <3>2, <3>3 DEF Defined, x
  <2>4. QED
    BY <1>6, <2>1, <2>2, <2>3 DEF x
<1>8. r = replaceAllUsesWith(c, c[q].id, s.a)
  BY <1>6
<1> HIDE DEF r, q
<1>9. /\ Good(r, source) /\ Unused(r, c[q].id) /\ Len(r) = Len(c)
      /\ \A i \in 1 .. Len(c) : r[i].id = c[i].id /\ r[i].op = c[i].op
      /\ \A x : Unused(c, x) /\ s.a # Value(x) => Unused(r, x)
  <2>1. q \in 1 .. Len(c)
    BY <1>6
  <2>2. QED
    BY <1>2, <1>7, <1>8, <2>1, ReplaceGood
<1>10. \A p, t : Fits(block, p, t) => Fits(r, p, t)
  <2>1. Len(c) \in Nat
    BY <1>3, <1>4
  <2>2. QED
    BY <1>5, <1>9, <2>1, RewireFits
<1>11. ASSUME NEW i \in 1 .. Len(c) PROVE (\E l \in 1 .. Len(block) : c[i] = block[l]) \/ (\E l \in 1 .. n : c[i] = new[l])
  <2>1. CASE i < k
    BY <1>3, <1>4, <2>1
  <2>2. CASE ~(i < k) /\ i < k + n
    <3>1. i - k + 1 \in 1 .. n /\ k - 1 + (i - k + 1) = i
      BY <1>3, <1>4, <2>2
    <3>2. QED
      BY <1>4, <3>1
  <2>3. CASE ~(i < k) /\ ~(i < k + n)
    <3>1. i - n \in k .. Len(block) /\ i - n + n = i /\ i - n \in 1 .. Len(block)
      BY <1>3, <1>4, <2>3
    <3>2. QED
      BY <1>4, <3>1
  <2>4. QED
    BY <2>1, <2>2, <2>3
<1>12. ASSUME NEW x, Unused(block, x), Unused(new, x), s.a # Value(x) PROVE Unused(r, x)
  <2>1. Unused(c, x)
    <3>1. ASSUME NEW i \in 1 .. Len(c), NEW j \in 1 .. Len(c[i].args) PROVE c[i].args[j] # Value(x)
      <4>1. CASE \E l \in 1 .. Len(block) : c[i] = block[l]
        BY <1>12, <4>1 DEF Unused
      <4>2. CASE \E l \in 1 .. n : c[i] = new[l]
        BY <1>12, <4>2 DEF Unused, n
      <4>3. QED
        BY <1>11, <4>1, <4>2
    <3>2. QED
      BY <3>1 DEF Unused
  <2>2. QED
    BY <1>9, <1>12, <2>1
<1>13. ASSUME NEW i \in 1 .. Len(block)
       PROVE  \E j \in 1 .. Len(r) : r[j].id = block[i].id /\ r[j].op = block[i].op
  <2>1. CASE i < k
    <3>1. i \in 1 .. k - 1 /\ i \in 1 .. Len(c)
      BY <1>3, <1>4, <2>1
    <3>2. QED
      BY <1>4, <1>9, <3>1
  <2>2. CASE ~(i < k)
    <3>1. i \in k .. Len(block) /\ i + n \in 1 .. Len(c)
      BY <1>3, <1>4, <2>2
    <3>2. c[i + n] = block[i]
      BY <1>4, <3>1
    <3>3. QED
      BY <1>9, <3>1, <3>2
  <2>3. QED
    BY <2>1, <2>2
<1>14. q \in 1 .. Len(r) /\ r[q].id = block[k].id /\ r[q].op = block[k].op /\ Unused(r, block[k].id)
  BY <1>6, <1>9
<1>15. QED
  BY <1>9, <1>10, <1>12, <1>13, <1>14 DEF r, c, q, n

LEMMA SubstituteInv ==
  ASSUME IInv, NEW dice \in {0, 1}, Substitute(dice)
  PROVE  IInv'
<1> DEFINE s == Substitution(This, dice)
<1>1. /\ pc = "visit" /\ Pass = "inst_sub" /\ todo # <<>>
      /\ block' = eraseFromParent(replaceAllUsesWith(Before(block, Position(block, This.id), s.code),
                                                     This.id, s.a), This.id)
      /\ todo' = Tail(todo) /\ passes' = passes /\ pc' = pc /\ source' = source /\ toErase' = toErase
  BY DEF Substitute, Visiting, Running, EndVisit
<1>2. Good(block, source)
  BY DEF IInv
<1>3. PICK k \in 1 .. Len(block) :
        /\ This = block[k] /\ Visit[1] = block[k].id /\ Position(block, block[k].id) = k
        /\ block[k].op # "phi" /\ block[k].op \in {"add", "sub", "mul"}
  BY <1>1, ThisIs
<1>4. Made(k, s) /\ s.a # Value(block[k].id)
  BY <1>2, <1>3, SubstitutionMade
<1> DEFINE r == replaceAllUsesWith(Before(block, k, s.code), block[k].id, s.a)
           q == k + Len(s.code)
<1>5. block' = eraseFromParent(r, block[k].id)
  BY <1>1, <1>3
<1> HIDE DEF s
<1>6. /\ Good(r, source) /\ q \in 1 .. Len(r)
      /\ r[q].id = block[k].id /\ r[q].op = block[k].op /\ Unused(r, block[k].id)
      /\ \A p, t : Fits(block, p, t) => Fits(r, p, t)
  BY <1>2, <1>3, <1>4, Superseded
<1> HIDE DEF r, q
<1>7. Position(r, r[q].id) = q
  BY <1>6, PositionIs
<1>8. block' = RemoveAt(r, q)
  BY <1>5, <1>6, <1>7 DEF eraseFromParent
<1>9. Good(RemoveAt(r, q), source)
  <2>1. r[q].op \notin Terminators \cup {"phi"} /\ Unused(r, r[q].id)
    BY <1>3, <1>6 DEF Terminators
  <2>2. QED
    BY <1>6, <2>1, RemoveGood
<1>10. Pass \notin Counting \cup {"garbage_insert"} /\ Pass # "Mul2ToShl1" /\ Pass # "constant_altering"
  BY <1>1 DEF Counting
<1>11. ASSUME NEW i \in 2 .. Len(todo) PROVE Fits(block', Pass, todo[i])
  <2>1. Fits(r, Pass, todo[i]) /\ todo[i][1] # r[q].id
    BY <1>1, <1>3, <1>6, <1>10, LaterFits
  <2>2. IsSeq(r)
    BY <1>6 DEF Good
  <2>3. QED
    BY <1>6, <1>8, <1>10, <2>1, <2>2, RemoveFits
<1>12. VisitsFit' /\ ErasedFit'
  BY <1>1, <1>10, <1>11, VisitDone, NothingErased
<1>13. QED
  BY <1>1, <1>8, <1>9, <1>12 DEF IInv

LEMMA QuadIs ==
  ASSUME NEW s, NEW x, NEW y, NEW z, NEW u, s = <<x, y, z, u>>
  PROVE  IsSeq(s) /\ Len(s) = 4 /\ s[1] = x /\ s[2] = y /\ s[3] = z /\ s[4] = u
<1>1. s \in Seq({x, y, z, u}) /\ Len(s) = 4 /\ s[1] = x /\ s[2] = y /\ s[3] = z /\ s[4] = u
  OBVIOUS
<1>2. QED
  BY <1>1, SeqFrom

LEMMA BlackboxedIs ==
  ASSUME Good(block, source), NEW k \in 1 .. Len(block), NEW c, NEW w, NEW random
  PROVE  LET code == Blackboxed(c, w, random)
         IN  NewCode(block, k, code) /\ Len(code) = 4 /\ code[4].id = Fresh + 3
<1> DEFINE stored == ConstInt(Xor(Trunc(Signed(c, w), Word), random, Word), w)
           mask == ConstInt(random, w)
           I1 == Inst(Fresh, "alloca", w, <<Const(1)>>)
           I2 == Inst(Fresh + 1, "store", w, <<stored, Value(Fresh)>>)
           I3 == Inst(Fresh + 2, "load", w, <<Value(Fresh)>>)
           I4 == Inst(Fresh + 3, "xor", w, <<Value(Fresh + 2), mask>>)
           code == Blackboxed(c, w, random)
<1>1. code = <<I1, I2, I3, I4>>
  BY DEF Blackboxed
<1>2. Fresh \in Nat /\ Fresh + 1 \in Nat /\ Fresh + 2 \in Nat /\ Fresh + 3 \in Nat
  BY FreshIs
<1>3. IsOperand(stored) /\ IsConst(stored) /\ IsOperand(mask) /\ IsConst(mask)
  BY OperandSorts DEF ConstInt
<1> HIDE DEF stored, mask, code
<1>4. /\ Reaches(k, 1, Const(1)) /\ Reaches(k, 2, stored) /\ Reaches(k, 4, mask)
      /\ Reaches(k, 2, Value(Fresh)) /\ Reaches(k, 3, Value(Fresh)) /\ Reaches(k, 4, Value(Fresh + 2))
  <2>1. Reaches(k, 1, Const(1)) /\ Reaches(k, 2, stored) /\ Reaches(k, 4, mask)
    BY <1>3, OperandSorts DEF Reaches
  <2>2. 1 \in 1 .. 2 - 1 /\ 1 \in 1 .. 3 - 1 /\ Fresh = Fresh + (1 - 1)
    BY <1>2
  <2>3. Reaches(k, 2, Value(Fresh)) /\ Reaches(k, 3, Value(Fresh))
    BY <2>2, OperandSorts DEF Reaches
  <2>4. 3 \in 1 .. 4 - 1 /\ Fresh + 2 = Fresh + (3 - 1)
    BY <1>2
  <2>5. Reaches(k, 4, Value(Fresh + 2))
    BY <2>4, OperandSorts DEF Reaches
  <2>6. QED
    BY <2>1, <2>3, <2>5
<1>5. /\ NewInst(I1) /\ I1.id = Fresh + (1 - 1)
      /\ \A j \in 1 .. Len(I1.args) : Reaches(k, 1, I1.args[j])
  <2>1. "alloca" \notin Terminators \cup {"phi"} \cup Binary
    BY DEF Terminators, Binary
  <2>2. NewInst(I1) /\ I1.id = Fresh /\ Len(I1.args) = 1 /\ I1.args[1] = Const(1)
    BY <1>2, <2>1, NewUnary, OperandSorts
  <2> HIDE DEF I1
  <2>3. QED
    BY <1>2, <1>4, <2>2
<1>6. /\ NewInst(I2) /\ I2.id = Fresh + (2 - 1)
      /\ \A j \in 1 .. Len(I2.args) : Reaches(k, 2, I2.args[j])
  <2>1. "store" \notin Terminators \cup {"phi"} \cup Immediate
    BY DEF Terminators, Immediate
  <2>2. /\ NewInst(I2) /\ I2.id = Fresh + 1 /\ Len(I2.args) = 2
        /\ I2.args[1] = stored /\ I2.args[2] = Value(Fresh)
    BY <1>2, <1>3, <2>1, NewPair, OperandSorts
  <2> HIDE DEF I2
  <2>3. \A j \in 1 .. 2 : I2.args[j] = stored \/ I2.args[j] = Value(Fresh)
    BY <2>2
  <2>4. QED
    BY <1>2, <1>4, <2>2, <2>3
<1>7. /\ NewInst(I3) /\ I3.id = Fresh + (3 - 1)
      /\ \A j \in 1 .. Len(I3.args) : Reaches(k, 3, I3.args[j])
  <2>1. "load" \notin Terminators \cup {"phi"} \cup Binary /\ "load" \notin Immediate
    BY DEF Terminators, Binary, Immediate
  <2>2. NewInst(I3) /\ I3.id = Fresh + 2 /\ Len(I3.args) = 1 /\ I3.args[1] = Value(Fresh)
    BY <1>2, <2>1, NewUnary, OperandSorts
  <2> HIDE DEF I3
  <2>3. QED
    BY <1>2, <1>4, <2>2
<1>8. /\ NewInst(I4) /\ I4.id = Fresh + (4 - 1) /\ I4.id = Fresh + 3
      /\ \A j \in 1 .. Len(I4.args) : Reaches(k, 4, I4.args[j])
  <2>1. "xor" \notin Terminators \cup {"phi"} \cup Immediate
    BY DEF Terminators, Immediate
  <2>2. /\ NewInst(I4) /\ I4.id = Fresh + 3 /\ Len(I4.args) = 2
        /\ I4.args[1] = Value(Fresh + 2) /\ I4.args[2] = mask
    BY <1>2, <1>3, <2>1, NewPair, OperandSorts
  <2> HIDE DEF I4
  <2>3. \A j \in 1 .. 2 : I4.args[j] = Value(Fresh + 2) \/ I4.args[j] = mask
    BY <2>2
  <2>4. QED
    BY <1>2, <1>4, <2>2, <2>3
<1> HIDE DEF I1, I2, I3, I4
<1>9. IsSeq(code) /\ Len(code) = 4 /\ code[1] = I1 /\ code[2] = I2 /\ code[3] = I3 /\ code[4] = I4
  BY <1>1, QuadIs
<1>10. ASSUME NEW i \in 1 .. Len(code)
       PROVE  /\ NewInst(code[i]) /\ code[i].id = Fresh + (i - 1)
              /\ \A j \in 1 .. Len(code[i].args) : Reaches(k, i, code[i].args[j])
  <2>1. i = 1 \/ i = 2 \/ i = 3 \/ i = 4
    BY <1>9
  <2>2. QED
    BY <1>5, <1>6, <1>7, <1>8, <1>9, <2>1
<1>11. NewCode(block, k, code)
  BY <1>9, <1>10, NumberedCode DEF Reaches
<1>12. QED
  BY <1>8, <1>9, <1>11 DEF code

LEMMA AlterConstantInv ==
  ASSUME IInv, NEW random, AlterConstant(random)
  PROVE  IInv'
<1> DEFINE code == Blackboxed(Operand.n, This.w, random)
           argsOf(I) == [j \in DOMAIN I.args |->
                           IF I.args[j] = Operand THEN Value(Fresh + 3) ELSE I.args[j]]
           args == argsOf(This)
<1>1. /\ pc = "visit" /\ Pass = "constant_altering" /\ todo # <<>>
      /\ block' = Before([block EXCEPT ![Position(block, This.id)].args = args],
                         Position(block, This.id), code)
      /\ todo' = Tail(todo) /\ passes' = passes /\ pc' = pc /\ source' = source /\ toErase' = toErase
  BY DEF AlterConstant, Visiting, Running, EndVisit
<1>2. Good(block, source) /\ IsSeq(block) /\ Len(block) \in Nat
  BY DEF IInv, Good, IsSeq
<1>3. PICK k \in 1 .. Len(block) :
        /\ This = block[k] /\ Position(block, block[k].id) = k
        /\ block[k].op # "phi" /\ block[k].op \notin Immediate
  BY <1>1, ThisIs
<1>4. NewCode(block, k, code) /\ Len(code) = 4 /\ code[4].id = Fresh + 3 /\ IsSeq(code)
  <2> DEFINE value == Operand.n
             width == This.w
  <2>1. code = Blackboxed(value, width, random)
    OBVIOUS
  <2> HIDE DEF code, value, width
  <2>2. NewCode(block, k, code) /\ Len(code) = 4 /\ code[4].id = Fresh + 3
    BY <1>2, <2>1, BlackboxedIs
  <2>3. QED
    BY <2>2 DEF NewCode
<1> DEFINE b == [block EXCEPT ![k].args = args]
           c == Before(block, k, code)
           r == Before(b, k, code)
<1>5. block' = r
  BY <1>1, <1>3
<1>6. args = argsOf(block[k])
  BY <1>3
<1>7. /\ IsSeq(args) /\ Len(args) = Len(block[k].args)
      /\ \A j \in 1 .. Len(block[k].args) :
           args[j] = IF block[k].args[j] = Operand THEN Value(Fresh + 3) ELSE block[k].args[j]
  <2> DEFINE m == Len(block[k].args)
  <2>1. DOMAIN block[k].args = 1 .. m /\ m \in Nat
    BY <1>2, SeqIn DEF Good, GoodInst, IsSeq
  <2>2. \A j \in 1 .. m : args[j] = IF block[k].args[j] = Operand THEN Value(Fresh + 3) ELSE block[k].args[j]
    BY <1>6, <2>1
  <2>3. args = [j \in 1 .. m |-> args[j]]
    BY <1>6, <2>1
  <2> HIDE DEF args, m
  <2>4. IsSeq(args) /\ Len(args) = m
    BY <2>1, <2>3, SeqMade
  <2>5. QED
    BY <2>2, <2>4 DEF m
<1> HIDE DEF code, args
<1>8. /\ IsSeq(b) /\ Len(b) = Len(block) /\ b[k] = Inst(block[k].id, block[k].op, block[k].w, args)
      /\ \A i \in 1 .. Len(block) : i # k => b[i] = block[i]
  <2>1. block = [i \in 1 .. Len(block) |-> block[i]]
    BY <1>2 DEF IsSeq
  <2>2. block[k] = Inst(block[k].id, block[k].op, block[k].w, block[k].args)
    BY <1>2 DEF Good, GoodInst
  <2>3. b = [i \in 1 .. Len(block) |-> IF i = k THEN [block[k] EXCEPT !.args = args] ELSE block[i]]
    BY <2>1
  <2>4. b = [i \in 1 .. Len(block) |-> b[i]] /\ b[k] = [block[k] EXCEPT !.args = args]
        /\ \A i \in 1 .. Len(block) : i # k => b[i] = block[i]
    BY <2>3
  <2> HIDE DEF b
  <2>5. IsSeq(b) /\ Len(b) = Len(block)
    BY <1>2, <2>4, SeqMade
  <2>6. b[k] = Inst(block[k].id, block[k].op, block[k].w, args)
    BY <2>2, <2>4 DEF Inst
  <2>7. QED
    BY <2>4, <2>5, <2>6
<1>9. Good(c, source)
  BY <1>2, <1>3, <1>4, InsertGood
<1>10. /\ IsSeq(c) /\ Len(c) = Len(block) + Len(code)
       /\ \A i \in 1 .. k - 1 : c[i] = block[i]
       /\ \A i \in 1 .. Len(code) : c[k - 1 + i] = code[i]
       /\ \A i \in k .. Len(block) : c[i + Len(code)] = block[i]
  <2>1. IsSeq(block) /\ IsSeq(code)
    BY <1>2, <1>4
  <2>2. QED
    BY <2>1, BeforeIs
<1> HIDE DEF b
<1>11. /\ IsSeq(r) /\ Len(r) = Len(b) + Len(code)
       /\ \A i \in 1 .. k - 1 : r[i] = b[i]
       /\ \A i \in 1 .. Len(code) : r[k - 1 + i] = code[i]
       /\ \A i \in k .. Len(b) : r[i + Len(code)] = b[i]
  <2>1. IsSeq(b) /\ IsSeq(code) /\ k \in 1 .. Len(b)
    BY <1>4, <1>8
  <2>2. QED
    BY <2>1, BeforeIs
<1> HIDE DEF c, r
<1>12. Len(r) = Len(c)
  BY <1>8, <1>10, <1>11
<1>13. /\ k + 4 \in 1 .. Len(c) /\ c[k + 4] = block[k] /\ r[k + 4] = b[k]
  <2>1. k \in k .. Len(block) /\ k \in k .. Len(b)
    BY <1>2, <1>8
  <2>2. QED
    BY <1>2, <1>4, <1>8, <1>10, <1>11, <2>1
<1>14. ASSUME NEW i \in 1 .. Len(c), i # k + 4 PROVE r[i] = c[i]
  <2>1. i \in Int /\ 1 <= i /\ i <= Len(block) + 4 /\ k \in Int /\ 1 <= k /\ k <= Len(block)
    BY <1>2, <1>4, <1>10
  <2>2. CASE i < k
    <3>1. i \in 1 .. k - 1 /\ i \in 1 .. Len(block) /\ i # k
      BY <1>2, <2>1, <2>2
    <3>2. QED
      BY <1>8, <1>10, <1>11, <3>1
  <2>3. CASE ~(i < k) /\ i < k + 4
    <3>1. i - k + 1 \in 1 .. Len(code) /\ k - 1 + (i - k + 1) = i
      BY <1>4, <2>1, <2>3
    <3>2. r[k - 1 + (i - k + 1)] = code[i - k + 1] /\ c[k - 1 + (i - k + 1)] = code[i - k + 1]
      BY <1>10, <1>11, <3>1
    <3>3. QED
      BY <3>1, <3>2
  <2>4. CASE ~(i < k + 4)
    <3>1. /\ i - 4 \in k .. Len(block) /\ i - 4 \in k .. Len(b) /\ i - 4 + Len(code) = i
          /\ i - 4 # k /\ i - 4 \in 1 .. Len(block)
      BY <1>4, <1>8, <1>14, <2>1, <2>4
    <3>2. r[i] = b[i - 4] /\ c[i] = block[i - 4]
      BY <1>10, <1>11, <3>1
    <3>3. QED
      BY <1>8, <3>1, <3>2
  <2>5. QED
    BY <2>2, <2>3, <2>4
<1>15. /\ b[k].id = block[k].id /\ b[k].op = block[k].op /\ b[k].w = block[k].w /\ b[k].args = args
  BY <1>8 DEF Inst
<1>16. ASSUME NEW j \in 1 .. Len(args)
       PROVE  IsOperand(args[j]) /\ (~IsConst(args[j]) => Defined(c, k + 4, args[j].n))
  <2>1. CASE args[j] = Value(Fresh + 3)
    <3>1. k - 1 + 4 \in 1 .. (k + 4) - 1 /\ 4 \in 1 .. Len(code)
      BY <1>2, <1>4
    <3>2. c[k - 1 + 4].id = Fresh + 3
      BY <1>4, <1>10, <3>1
    <3>3. Defined(c, k + 4, Fresh + 3)
      BY <3>1, <3>2 DEF Defined
    <3>4. QED
      BY <2>1, <3>3, OperandSorts
  <2>2. CASE args[j] = block[k].args[j]
    <3>1. GoodInst(block[k], source) /\ UsesDefined(c)
      BY <1>2, <1>9 DEF Good
    <3>2. IsOperand(args[j])
      BY <1>7, <2>2, <3>1 DEF GoodInst
    <3>3. ~IsConst(args[j]) => Defined(c, k + 4, args[j].n)
      BY <1>7, <1>13, <2>2, <3>1 DEF UsesDefined
    <3>4. QED
      BY <3>2, <3>3
  <2>3. QED
    BY <1>7, <2>1, <2>2
<1>17. GoodInst(b[k], source)
  <2>1. GoodInst(block[k], source)
    BY <1>2 DEF Good
  <2>2. block[k].id \in Nat /\ (block[k].op \in Binary => Len(block[k].args) = 2)
    BY <2>1 DEF GoodInst
  <2>3. ImmediatesKept(b[k], source)
    BY <1>3, <1>15 DEF ImmediatesKept
  <2>4. b[k] = Inst(b[k].id, b[k].op, b[k].w, b[k].args)
    BY <1>8, <1>15
  <2>5. QED
    BY <1>7, <1>15, <1>16, <2>2, <2>3, <2>4 DEF GoodInst
<1>18. ASSUME NEW i \in 1 .. Len(c)
       PROVE  /\ GoodInst(r[i], source) /\ r[i].id = c[i].id /\ r[i].op = c[i].op
              /\ \A j \in 1 .. Len(r[i].args) :
                   ~IsConst(r[i].args[j]) => Defined(c, i, r[i].args[j].n)
  <2>1. CASE i = k + 4
    BY <1>13, <1>15, <1>16, <1>17, <2>1
  <2>2. CASE i # k + 4
    <3>1. r[i] = c[i]
      BY <1>14, <2>2
    <3>2. QED
      BY <1>9, <3>1 DEF Good, UsesDefined
  <2>3. QED
    BY <2>1, <2>2
<1>19. Good(r, source)
  BY <1>9, <1>11, <1>12, <1>18, RewireGood
<1>20. Pass # "Mul2ToShl1"
  BY <1>1
<1>21. ASSUME NEW i \in 2 .. Len(todo) PROVE Fits(block', Pass, todo[i])
  <2>1. Fits(block, Pass, todo[i])
    BY <1>1, LaterFits
  <2>2. Fits(c, Pass, todo[i])
    BY <1>2, <1>4, <2>1, InsertFits DEF c
  <2>3. Len(c) \in Nat
    BY <1>10 DEF IsSeq
  <2>4. Fits(r, Pass, todo[i])
    BY <1>12, <1>18, <2>2, <2>3, RewireFits
  <2>5. QED
    BY <1>5, <2>4 DEF r
<1>22. VisitsFit' /\ ErasedFit'
  BY <1>1, <1>20, <1>21, VisitDone, NothingErased
<1>23. Good(block', source')
  BY <1>1, <1>5, <1>19 DEF r
<1>24. QED
  BY <1>22, <1>23 DEF IInv

LEMMA PassByInv == IInv /\ PassBy => IInv'
<1> SUFFICES ASSUME IInv, PassBy PROVE IInv'
  OBVIOUS
<1>1. /\ pc = "visit" /\ todo # <<>> /\ todo' = Tail(todo) /\ passes' = passes /\ pc' = pc
      /\ source' = source /\ block' = block /\ toErase' = toErase
  BY DEF PassBy, Visiting, EndVisit
<1>2. Good(block, source)'
  BY <1>1 DEF IInv
<1>3. VisitsFit'
  BY <1>1, LaterFits, VisitDone
<1>4. \A i \in 1 .. Len(todo') : i + 1 \in 1 .. Len(todo) /\ todo'[i] = todo[i + 1]
  BY <1>1, HeadTail DEF IInv, VisitsFit, IsSeq
<1>5. ErasedFit'
  <2>1. Pass' = Pass
    BY <1>1 DEF Pass
  <2>2. QED
    BY <1>1, <1>4, <2>1 DEF IInv, ErasedFit
<1>6. QED
  BY <1>2, <1>3, <1>5 DEF IInv

LEMMA ToShlInv == IInv /\ ToShl => IInv'
<1> SUFFICES ASSUME IInv, ToShl PROVE IInv'
  OBVIOUS
<1> DEFINE x == This.args[3 - ConstantSide(This)]
           s == Create(Start, "shl", This.w, x, Const(1))
<1>1. /\ pc = "visit" /\ Pass = "Mul2ToShl1" /\ todo # <<>> /\ IsMulBy2(This)
      /\ block' = replaceAllUsesWith(Before(block, Position(block, This.id), s.code), This.id, s.a)
      /\ toErase' = Append(toErase, This.id)
      /\ todo' = Tail(todo) /\ passes' = passes /\ pc' = pc /\ source' = source
  BY DEF ToShl, Visiting, Running, EndVisit
<1>2. Good(block, source)
  BY DEF IInv
<1>3. PICK k \in 1 .. Len(block) :
        /\ This = block[k] /\ Visit[1] = block[k].id /\ Position(block, block[k].id) = k
        /\ block[k].op # "phi" /\ block[k].op = "mul"
  BY <1>1, ThisIs
<1>4. PICK j \in 1 .. Len(block[k].args) : x = block[k].args[j]
  <2>1. ConstantSide(This) = 2 \/ ConstantSide(This) = 1
    BY <1>1 DEF IsMulBy2, ConstantSide
  <2>2. Len(block[k].args) = 2
    BY <1>2, <1>3 DEF Good, GoodInst, Binary
  <2>3. 3 - ConstantSide(This) \in 1 .. Len(block[k].args)
    BY <2>1, <2>2
  <2>4. QED
    BY <1>3, <2>3
<1> HIDE DEF x
<1>5. /\ Made(k, s) /\ s.a # Value(block[k].id)
      /\ \A i \in 1 .. Len(block) : s.a # Value(block[i].id)
      /\ \A e : x # Value(e) => Unused(s.code, e)
  <2>1. Avail(k, Start.code, x) /\ Avail(k, Start.code, Const(1)) /\ "shl" \in Binary /\ Made(k, Start)
    BY <1>2, <1>4, ArgsAvail, ConstAvail, StartMade DEF Binary
  <2>2. \A e : Unused(Start.code, e) /\ Const(1) # Value(e)
    BY StartMade, EmptyIs, OperandSorts DEF Unused
  <2> DEFINE w == This.w
             y == Const(1)
             op == "shl"
  <2> HIDE DEF y, w, op
  <2>3. /\ Avail(k, Start.code, x) /\ Avail(k, Start.code, y) /\ op \in Binary /\ Made(k, Start)
        /\ \A e : Unused(Start.code, e) /\ y # Value(e)
    BY <2>1, <2>2 DEF y, op
  <2>4. /\ Made(k, Create(Start, op, w, x, y))
        /\ \A i \in 1 .. Len(block) : Create(Start, op, w, x, y).a # Value(block[i].id)
        /\ \A e : Unused(Start.code, e) /\ x # Value(e) /\ y # Value(e) =>
                    Unused(Create(Start, op, w, x, y).code, e)
    BY <1>2, <2>3, CreateMade
  <2>5. s = Create(Start, op, w, x, y)
    BY DEF op, w, y
  <2> HIDE DEF s
  <2>6. QED
    BY <2>3, <2>4, <2>5
<1> DEFINE r == replaceAllUsesWith(Before(block, k, s.code), block[k].id, s.a)
           q == k + Len(s.code)
<1>6. block' = r
  BY <1>1, <1>3
<1> HIDE DEF s
<1>7. /\ Good(r, source) /\ q \in 1 .. Len(r)
      /\ r[q].id = block[k].id /\ r[q].op = block[k].op /\ Unused(r, block[k].id)
      /\ \A p, t : Fits(block, p, t) => Fits(r, p, t)
      /\ \A e : Unused(block, e) /\ Unused(s.code, e) /\ s.a # Value(e) => Unused(r, e)
      /\ \A i \in 1 .. Len(block) :
           \E l \in 1 .. Len(r) : r[l].id = block[i].id /\ r[l].op = block[i].op
  <2>1. Good(block, source) /\ block[k].op # "phi" /\ Made(k, s) /\ s.a # Value(block[k].id)
    BY <1>2, <1>3, <1>5
  <2>2. /\ Good(r, source) /\ q \in 1 .. Len(r)
        /\ r[q].id = block[k].id /\ r[q].op = block[k].op /\ Unused(r, block[k].id)
        /\ \A p, t : Fits(block, p, t) => Fits(r, p, t)
        /\ \A e : Unused(block, e) /\ Unused(s.code, e) /\ s.a # Value(e) => Unused(r, e)
        /\ \A i \in 1 .. Len(block) :
             \E l \in 1 .. Len(r) : r[l].id = block[i].id /\ r[l].op = block[i].op
    BY <2>1, Superseded
  <2> HIDE DEF r, q
  <2>3. QED
    BY <2>2
<1> HIDE DEF r, q
<1>8. ASSUME NEW i \in 2 .. Len(todo)
      PROVE  Fits(block', Pass, todo[i]) /\ todo[i][1] # block[k].id
  BY <1>1, <1>3, <1>6, <1>7, LaterFits
<1>9. VisitsFit'
  BY <1>1, <1>8, VisitDone
<1> DEFINE n == Len(toErase)
<1>10. /\ IsSeq(toErase') /\ Len(toErase') = n + 1 /\ toErase'[n + 1] = block[k].id
       /\ (\A i \in 1 .. n : toErase'[i] = toErase[i]) /\ n \in Nat
  <2>1. IsSeq(toErase) /\ n \in Nat
    BY DEF IInv, ErasedFit, IsSeq
  <2>2. QED
    BY <1>1, <1>3, <2>1, AppendIs
<1>11. /\ Visit = todo[1] /\ 1 \in 1 .. Len(todo)
       /\ \A i \in 1 .. Len(todo') : i + 1 \in 1 .. Len(todo) /\ i + 1 \in 2 .. Len(todo) /\ todo'[i] = todo[i + 1]
  <2>1. /\ Len(todo) >= 1 /\ Head(todo) = todo[1] /\ Len(Tail(todo)) = Len(todo) - 1 /\ Len(todo) \in Nat
        /\ \A i \in 1 .. Len(todo) - 1 : Tail(todo)[i] = todo[i + 1]
    BY <1>1, HeadTail DEF IInv, VisitsFit, IsSeq
  <2>2. QED
    BY <1>1, <2>1 DEF Visit
<1>12. ASSUME NEW i \in 1 .. n
       PROVE  /\ Unused(r, toErase[i]) /\ toErase[i] # block[k].id
              /\ \E l \in 1 .. Len(r) : r[l].id = toErase[i] /\ r[l].op = "mul"
              /\ \A l \in 1 .. n : toErase[l] = toErase[i] => l = i
              /\ \A l \in 1 .. Len(todo) : toErase[i] # todo[l][1]
  <2>1. /\ Unused(block, toErase[i])
        /\ \A l \in 1 .. n : toErase[l] = toErase[i] => l = i
        /\ \A l \in 1 .. Len(todo) : toErase[i] # todo[l][1]
    BY DEF IInv, ErasedFit
  <2>2. PICK p \in 1 .. Len(block) : block[p].id = toErase[i] /\ block[p].op = "mul"
    BY DEF IInv, ErasedFit
  <2>3. x # Value(toErase[i])
    BY <1>4, <2>1 DEF Unused
  <2>4. Unused(r, toErase[i])
    BY <1>5, <1>7, <2>1, <2>2, <2>3
  <2>5. \E l \in 1 .. Len(r) : r[l].id = toErase[i] /\ r[l].op = "mul"
    BY <1>7, <2>2
  <2>6. QED
    BY <1>3, <1>11, <2>1, <2>4, <2>5
<1> HIDE DEF n
<1>13. ASSUME NEW i \in 1 .. Len(toErase')
       PROVE  /\ Unused(block', toErase'[i])
              /\ \E l \in 1 .. Len(block') : block'[l].id = toErase'[i] /\ block'[l].op = "mul"
              /\ \A l \in 1 .. Len(toErase') : toErase'[l] = toErase'[i] => l = i
              /\ \A l \in 1 .. Len(todo') : toErase'[i] # todo'[l][1]
  <2>1. \A l \in 1 .. Len(toErase') : l \in 1 .. n \/ l = n + 1
    BY <1>10
  <2>2. CASE i \in 1 .. n
    <3>1. toErase'[i] = toErase[i]
      BY <1>10, <2>2
    <3>2. \A l \in 1 .. Len(toErase') : toErase'[l] = toErase[i] => l = i
      <4>1. toErase[i] # toErase'[n + 1]
        BY <1>10, <1>12, <2>2
      <4>2. ASSUME NEW l \in 1 .. n, toErase'[l] = toErase[i] PROVE l = i
        <5>1. toErase[l] = toErase[i]
          BY <1>10, <4>2
        <5>2. QED
          BY <1>12, <2>2, <5>1
      <4>3. QED
        BY <2>1, <4>1, <4>2
    <3>3. ASSUME NEW l \in 1 .. Len(todo') PROVE toErase[i] # todo'[l][1]
      <4>1. l + 1 \in 1 .. Len(todo) /\ todo'[l] = todo[l + 1]
        BY <1>11
      <4>2. toErase[i] # todo[l + 1][1]
        BY <1>12, <2>2, <4>1
      <4>3. QED
        BY <4>1, <4>2
    <3>4. QED
      BY <1>6, <1>12, <2>2, <3>1, <3>2, <3>3
  <2>3. CASE i = n + 1
    <3>1. toErase'[i] = block[k].id
      BY <1>10, <2>3
    <3>2. \A l \in 1 .. Len(toErase') : toErase'[l] = block[k].id => l = i
      BY <1>10, <1>12, <2>1, <2>3
    <3>3. \A l \in 1 .. Len(todo') : block[k].id # todo'[l][1]
      BY <1>8, <1>11
    <3>4. QED
      BY <1>3, <1>6, <1>7, <3>1, <3>2, <3>3
  <2>4. QED
    BY <2>1, <2>2, <2>3
<1>14. ErasedFit'
  <2>1. pc' = "visit" /\ Pass' = "Mul2ToShl1"
    BY <1>1 DEF Pass
  <2>2. QED
    BY <1>10, <1>13, <2>1 DEF ErasedFit
<1>15. Good(block', source')
  BY <1>1, <1>6, <1>7
<1>16. QED
  BY <1>9, <1>14, <1>15 DEF IInv

LEMMA EraseOneInv == IInv /\ EraseOne => IInv'
<1> SUFFICES ASSUME IInv, EraseOne PROVE IInv'
  OBVIOUS
<1>1. /\ pc = "visit" /\ todo = <<>> /\ toErase # <<>>
      /\ block' = eraseFromParent(block, Head(toErase)) /\ toErase' = Tail(toErase)
      /\ source' = source /\ passes' = passes /\ pc' = pc /\ todo' = todo
  BY DEF EraseOne
<1>2. Good(block, source) /\ IsSeq(block) /\ Len(block) \in Nat
  BY DEF IInv, Good, IsSeq
<1> DEFINE n == Len(toErase)
<1>3. /\ n >= 1 /\ Head(toErase) = toErase[1] /\ IsSeq(toErase') /\ Len(toErase') = n - 1
      /\ (\A i \in 1 .. n - 1 : toErase'[i] = toErase[i + 1]) /\ n \in Nat
  <2>1. IsSeq(toErase) /\ n \in Nat
    BY DEF IInv, ErasedFit, IsSeq
  <2>2. QED
    BY <1>1, <2>1, HeadTail
<1>4. ASSUME NEW i \in 1 .. n
      PROVE  /\ Unused(block, toErase[i])
             /\ \E l \in 1 .. Len(block) : block[l].id = toErase[i] /\ block[l].op = "mul"
             /\ \A l \in 1 .. n : toErase[l] = toErase[i] => l = i
  BY DEF IInv, ErasedFit
<1>5. Pass = "Mul2ToShl1"
  BY <1>1 DEF IInv, ErasedFit
<1> HIDE DEF n
<1>6. 1 \in 1 .. n
  BY <1>3
<1>7. PICK p \in 1 .. Len(block) : block[p].id = toErase[1] /\ block[p].op = "mul"
  BY <1>4, <1>6
<1>8. block' = RemoveAt(block, p)
  BY <1>1, <1>2, <1>3, <1>7, PositionIs DEF eraseFromParent
<1>9. Good(RemoveAt(block, p), source)
  <2>1. block[p].op \notin Terminators \cup {"phi"} /\ Unused(block, block[p].id)
    BY <1>4, <1>6, <1>7 DEF Terminators
  <2>2. QED
    BY <1>2, <2>1, RemoveGood
<1> DEFINE r == RemoveAt(block, p)
<1>10. /\ IsSeq(r) /\ Len(r) = Len(block) - 1
       /\ \A i \in 1 .. p - 1 : r[i] = block[i]
       /\ \A i \in p .. Len(block) - 1 : r[i] = block[i + 1]
  BY <1>2, RemoveAtIs
<1> HIDE DEF r
<1>11. ASSUME NEW l \in 1 .. Len(block), l # p PROVE \E i \in 1 .. Len(r) : r[i] = block[l]
  <2>1. CASE l < p
    <3>1. l \in 1 .. p - 1 /\ l \in 1 .. Len(r)
      BY <1>2, <1>10, <2>1
    <3>2. QED
      BY <1>10, <3>1
  <2>2. CASE ~(l < p)
    <3>1. l - 1 \in p .. Len(block) - 1 /\ l - 1 \in 1 .. Len(r) /\ (l - 1) + 1 = l
      BY <1>2, <1>10, <1>11, <2>2
    <3>2. r[l - 1] = block[l]
      BY <1>10, <3>1
    <3>3. QED
      BY <3>1, <3>2
  <2>3. QED
    BY <2>1, <2>2
<1>12. ASSUME NEW i \in 1 .. Len(r) PROVE \E l \in 1 .. Len(block) : r[i] = block[l]
  <2>1. CASE i < p
    <3>1. i \in 1 .. p - 1 /\ i \in 1 .. Len(block)
      BY <1>2, <1>10, <2>1
    <3>2. QED
      BY <1>10, <3>1
  <2>2. CASE ~(i < p)
    <3>1. i \in p .. Len(block) - 1 /\ i + 1 \in 1 .. Len(block)
      BY <1>2, <1>10, <2>2
    <3>2. QED
      BY <1>10, <3>1
  <2>3. QED
    BY <2>1, <2>2
<1>13. ASSUME NEW e, Unused(block, e) PROVE Unused(r, e)
  <2>1. ASSUME NEW i \in 1 .. Len(r), NEW j \in 1 .. Len(r[i].args) PROVE r[i].args[j] # Value(e)
    <3>1. PICK l \in 1 .. Len(block) : r[i] = block[l]
      BY <1>12
    <3>2. \A m \in 1 .. Len(block[l].args) : block[l].args[m] # Value(e)
      BY <1>13 DEF Unused
    <3>3. QED
      BY <3>1, <3>2
  <2>2. QED
    BY <2>1 DEF Unused
<1>14. ASSUME NEW i \in 1 .. Len(toErase')
       PROVE  /\ Unused(r, toErase'[i])
              /\ \E l \in 1 .. Len(r) : r[l].id = toErase'[i] /\ r[l].op = "mul"
              /\ \A l \in 1 .. Len(toErase') : toErase'[l] = toErase'[i] => l = i
  <2>1. \A l \in 1 .. Len(toErase') : l + 1 \in 1 .. n /\ l + 1 # 1 /\ toErase'[l] = toErase[l + 1]
    BY <1>3
  <2>2. PICK l \in 1 .. Len(block) : block[l].id = toErase[i + 1] /\ block[l].op = "mul"
    BY <1>4, <2>1
  <2>3. l # p
    BY <1>4, <1>6, <1>7, <2>1, <2>2
  <2>4. \E m \in 1 .. Len(r) : r[m].id = toErase'[i] /\ r[m].op = "mul"
    BY <1>11, <2>1, <2>2, <2>3
  <2>5. Unused(r, toErase'[i])
    BY <1>4, <1>13, <2>1
  <2>6. ASSUME NEW m \in 1 .. Len(toErase'), toErase'[m] = toErase'[i] PROVE m = i
    <3>1. m + 1 = i + 1
      BY <1>4, <2>1, <2>6
    <3>2. QED
      BY <3>1
  <2>7. QED
    BY <2>4, <2>5, <2>6
<1>15. todo' = <<>> /\ Len(todo') = 0 /\ IsSeq(todo')
  BY <1>1, EmptyIs
<1>16. ErasedFit'
  <2>1. pc' = "visit" /\ Pass' = "Mul2ToShl1"
    BY <1>1, <1>5 DEF Pass
  <2>2. \A i \in 1 .. Len(todo') : FALSE
    BY <1>15
  <2>3. block' = r
    BY <1>8 DEF r
  <2>4. QED
    BY <1>3, <1>14, <2>1, <2>2, <2>3 DEF ErasedFit
<1>17. VisitsFit'
  <2>1. \A i \in 1 .. Len(todo') : FALSE
    BY <1>15
  <2>2. QED
    BY <1>1, <1>15, <2>1 DEF IInv, VisitsFit
<1>18. Good(block', source')
  BY <1>1, <1>8, <1>9
<1>19. QED
  BY <1>16, <1>17, <1>18 DEF IInv

LEMMA EndPassInv == IInv /\ EndPass => IInv'
<1> SUFFICES ASSUME IInv, EndPass PROVE IInv'
  OBVIOUS
<1>1. /\ pc = "visit" /\ todo = <<>> /\ toErase = <<>> /\ passes' = Tail(passes) /\ pc' = "start"
      /\ source' = source /\ block' = block /\ todo' = todo /\ toErase' = toErase
  BY DEF EndPass
<1>2. passes' \in Seq(Passes)
  BY <1>1 DEF IInv, VisitsFit
<1>3. Good(block, source)'
  BY <1>1 DEF IInv
<1>4. QED
  BY <1>1, <1>2, <1>3, EmptyIs DEF IInv, VisitsFit, ErasedFit

LEMMA TextClashInv == IInv /\ TextClash => IInv'
<1> SUFFICES ASSUME IInv, TextClash PROVE IInv'
  OBVIOUS
<1>1. /\ pc = "start" /\ pc' = "broken" /\ passes' = passes
      /\ source' = source /\ block' = block /\ todo' = todo /\ toErase' = toErase
  BY DEF TextClash
<1>2. todo = <<>> /\ toErase = <<>>
  BY <1>1 DEF IInv, VisitsFit, ErasedFit
<1>3. Good(block, source)'
  BY <1>1 DEF IInv
<1>4. QED
  BY <1>1, <1>2, <1>3, EmptyIs DEF IInv, VisitsFit, ErasedFit

LEMMA NextInv == IInv /\ [Next]_vars => IInv'
<1> SUFFICES ASSUME IInv, [Next]_vars PROVE IInv'
  OBVIOUS
<1>1. CASE Collect
  BY <1>1, CollectInv
<1>2. CASE PickPoints
  BY <1>2, PickPointsInv
<1>3. CASE InsertCounter
  BY <1>3, InsertCounterInv
<1>4. CASE \E dice \in {0, 1} : Substitute(dice)
  BY <1>4, SubstituteInv
<1>5. CASE \E pattern \in 0 .. 4, n \in RandomValues : InsertGarbage(pattern, n)
  BY <1>5, InsertGarbageInv
<1>6. CASE \E random \in Randoms : AlterConstant(random)
  BY <1>6, AlterConstantInv
<1>7. CASE ToShl
  BY <1>7, ToShlInv
<1>8. CASE PassBy
  BY <1>8, PassByInv
<1>9. CASE CountOne
  BY <1>9, CountOneInv
<1>10. CASE EraseOne
  BY <1>10, EraseOneInv
<1>11. CASE EndPass
  BY <1>11, EndPassInv
<1>12. CASE TextClash
  BY <1>12, TextClashInv
<1>13. CASE UNCHANGED vars
  <2>1. /\ source' = source /\ block' = block /\ passes' = passes /\ pc' = pc
        /\ todo' = todo /\ toErase' = toErase
    BY <1>13 DEF vars
  <2>2. Pass' = Pass
    BY <2>1 DEF Pass
  <2>3. QED
    BY <2>1, <2>2 DEF IInv, VisitsFit, ErasedFit
<1>14. QED
  BY <1>1, <1>2, <1>3, <1>4, <1>5, <1>6, <1>7, <1>8, <1>9, <1>10, <1>11, <1>12, <1>13 DEF Next, Finished

LEMMA GoodIsValid == IInv => ValidBlock
<1> SUFFICES ASSUME IInv PROVE ValidBlock
  OBVIOUS
<1>1. Good(block, source) /\ DOMAIN block = 1 .. Len(block)
  BY SeqIn DEF IInv, Good
<1>2. ASSUME NEW k \in 1 .. Len(block) PROVE DOMAIN block[k].args = 1 .. Len(block[k].args)
  BY <1>1, SeqIn DEF Good, GoodInst
<1>3. Verified(block)
  <2>1. \A i, j \in DOMAIN block : block[i].id = block[j].id => i = j
    BY <1>1 DEF Good, Distinct
  <2>2. ASSUME NEW k \in 1 .. Len(block)
        PROVE  /\ \A j \in DOMAIN block[k].args :
                    ~IsConst(block[k].args[j]) => \E i \in 1 .. k - 1 : block[i].id = block[k].args[j].n
               /\ block[k].op = "phi" /\ k > 1 => block[k - 1].op = "phi"
               /\ block[k].op \in Terminators <=> k = Len(block)
               /\ block[k].op \in Binary => Len(block[k].args) = 2
    BY <1>1, <1>2 DEF Good, UsesDefined, Defined, PhisLead, OneTerminator, GoodInst
  <2>3. QED
    BY <1>1, <2>1, <2>2 DEF Verified
<1>4. \A k \in 1 .. Len(block) : ImmediatesKept(block[k], source)
  BY <1>1 DEF Good, GoodInst
<1>5. QED
  BY <1>1, <1>2, <1>3, <1>4 DEF ValidBlock, ImmediatesKept, Immediate

\* However many passes are run, in whatever order, whatever they draw: at every moment
\* the block is one that LLVM's verifier takes, and an immediate operand stays a
\* constant (inst_sub.cc, garbage_insert.cc, constant_altering.cc, Mul2ToShl1.cpp,
\* count_additions.cc, count_calls.cc).
THEOREM BlocksStayValid == Spec => []ValidBlock
<1>1. Init => IInv
  BY InitInv
<1>2. IInv /\ [Next]_vars => IInv'
  BY NextInv
<1>3. IInv => ValidBlock
  BY GoodIsValid
<1>4. QED
  BY <1>1, <1>2, <1>3, PTL DEF Spec
(* What a pass returns.                                                    *)

\* The passes that change the block with every visit have said so before the first;
\* the others have when they put off an instruction's removal.
HonestInv ==
  /\ modified \/ block = found
  /\ pc = "start" => block = found /\ toErase = <<>>
  /\ pc = "visit" /\ Pass \in Counting \cup {"constant_altering"} => modified
  /\ toErase # <<>> => modified

LEMMA HonestNext == HonestInv /\ [Next]_vars => HonestInv'
<1> SUFFICES ASSUME HonestInv, [Next]_vars PROVE HonestInv'
  OBVIOUS
<1>1. passes' = passes => Pass' = Pass
  BY DEF Pass
<1>2. CASE Collect
  <2>1. passes' = passes /\ block' = block /\ found' = found /\ toErase' = toErase
    BY <1>2 DEF Collect
  <2>2. block = found /\ toErase = <<>> /\ pc' = "visit" /\ Pass \notin Counting
        /\ modified' = (Pass = "constant_altering")
    BY <1>2 DEF Collect, HonestInv
  <2>3. Pass \in Counting \cup {"constant_altering"} => modified'
    BY <2>2
  <2>4. QED
    BY <1>1, <2>1, <2>2, <2>3 DEF HonestInv
<1>3. CASE PickPoints
  <2>1. /\ passes' = passes /\ block' = block /\ found' = found /\ toErase' = toErase
        /\ Pass = "garbage_insert" /\ pc' = "visit" /\ pc = "start"
    BY <1>3 DEF PickPoints, Running
  <2>2. Pass \notin Counting \cup {"constant_altering"}
    BY <2>1 DEF Counting
  <2>3. QED
    BY <1>1, <2>1, <2>2 DEF HonestInv
<1>4. CASE InsertCounter
  <2>1. modified' = TRUE /\ pc' = "visit"
    BY <1>4 DEF InsertCounter
  <2>2. QED
    BY <2>1 DEF HonestInv
<1>5. ASSUME NEW dice \in {0, 1}, Substitute(dice) PROVE HonestInv'
  <2>1. modified' = TRUE /\ pc' = pc /\ pc = "visit"
    BY <1>5 DEF Substitute, Visiting, EndVisit
  <2>2. QED
    BY <2>1 DEF HonestInv
<1>6. ASSUME NEW pattern \in 0 .. 4, NEW n \in RandomValues, InsertGarbage(pattern, n) PROVE HonestInv'
  <2>1. modified' = TRUE /\ pc' = pc /\ pc = "visit"
    BY <1>6 DEF InsertGarbage, Visiting, EndVisit
  <2>2. QED
    BY <2>1 DEF HonestInv
<1>7. ASSUME NEW random \in Randoms, AlterConstant(random) PROVE HonestInv'
  <2>1. Pass = "constant_altering" /\ modified' = modified /\ pc' = pc /\ pc = "visit"
    BY <1>7 DEF AlterConstant, Visiting, Running, EndVisit
  <2>2. modified
    BY <2>1 DEF HonestInv
  <2>3. QED
    BY <2>1, <2>2 DEF HonestInv
<1>8. CASE ToShl
  <2>1. modified' = TRUE /\ pc' = pc /\ pc = "visit"
    BY <1>8 DEF ToShl, Visiting, EndVisit
  <2>2. QED
    BY <2>1 DEF HonestInv
<1>9. CASE PassBy
  <2>1. /\ block' = block /\ found' = found /\ modified' = modified /\ toErase' = toErase
        /\ passes' = passes /\ pc' = pc
    BY <1>9 DEF PassBy, EndVisit
  <2>2. QED
    BY <1>1, <2>1 DEF HonestInv
<1>10. CASE CountOne
  <2>1. Pass \in Counting /\ modified' = modified /\ pc' = pc /\ pc = "visit"
    BY <1>10 DEF CountOne, EndVisit
  <2>2. modified
    BY <2>1 DEF HonestInv
  <2>3. QED
    BY <2>1, <2>2 DEF HonestInv
<1>11. CASE EraseOne
  <2>1. toErase # <<>> /\ modified' = modified /\ pc' = pc /\ pc = "visit"
    BY <1>11 DEF EraseOne
  <2>2. modified
    BY <2>1 DEF HonestInv
  <2>3. QED
    BY <2>1, <2>2 DEF HonestInv
<1>12. CASE EndPass
  <2>1. block' = block /\ found' = block /\ toErase = <<>> /\ toErase' = toErase /\ pc' = "start"
    BY <1>12 DEF EndPass
  <2>2. QED
    BY <2>1 DEF HonestInv
<1>13. CASE UNCHANGED vars
  <2>1. /\ block' = block /\ found' = found /\ modified' = modified /\ toErase' = toErase
        /\ passes' = passes /\ pc' = pc
    BY <1>13 DEF vars
  <2>2. QED
    BY <1>1, <2>1 DEF HonestInv
<1>14. CASE TextClash
  <2>1. /\ block' = block /\ found' = found /\ modified' = modified /\ toErase' = toErase
        /\ pc = "start" /\ pc' = "broken"
    BY <1>14 DEF TextClash
  <2>2. QED
    BY <2>1 DEF HonestInv
<1>15. QED
  BY <1>2, <1>3, <1>4, <1>5, <1>6, <1>7, <1>8, <1>9, <1>10, <1>11, <1>12, <1>13, <1>14 DEF Next, Finished

\* A pass that returns false has left the block as it found it, so that LLVM may keep
\* every analysis of the function (gen.zig:43-62, Mul2ToShl1.cpp:66).
THEOREM ReportedTruly == Spec => []ReportedChanges
<1>1. Init => HonestInv
  <2> SUFFICES ASSUME Init PROVE HonestInv
    OBVIOUS
  <2>1. found = block /\ pc = "start" /\ toErase = <<>>
    BY DEF Init
  <2>2. QED
    BY <2>1 DEF HonestInv
<1>2. HonestInv => ReportedChanges
  BY DEF HonestInv, ReportedChanges
<1>3. QED
  BY <1>1, <1>2, HonestNext, PTL DEF Spec
=============================================================================
