---------------------------- MODULE LayoutProofs -----------------------------
(***************************************************************************)
(* What the passes that move things do to a list of any length, for every  *)
(* order the shuffles may come up with and every sequence of passes: the   *)
(* invariants of Layout.  A move takes an element out from behind the      *)
(* place it goes to, so each one is a rotation of a part of the list.      *)
(***************************************************************************)
EXTENDS Layout, FiniteSetTheorems, WellFoundedInduction, TLAPS

LEMMA IndexUnique ==
  ASSUME NEW s, IsInjective(s), NEW i \in DOMAIN s
  PROVE  IndexOf(s, s[i]) = i
BY DEF IndexOf, IsInjective

\* The list after a move to the front: where its elements are ...
LEMMA MovedIs ==
  ASSUME NEW S, NEW s \in Seq(S), NEW i \in 1 .. Len(s), NEW j \in 1 .. i
  PROVE  LET m == Moved(s, i, j)
         IN  /\ m \in Seq(S) /\ Len(m) = Len(s)
             /\ m[j] = s[i]
             /\ \A k \in 1 .. j - 1 : m[k] = s[k]
             /\ \A k \in j + 1 .. i : m[k] = s[k - 1]
             /\ \A k \in i + 1 .. Len(s) : m[k] = s[k]
<1> DEFINE m == Moved(s, i, j)
<1>1. Len(s) \in Nat /\ i \in Int /\ j \in Int /\ \A k \in 1 .. Len(s) : s[k] \in S
  OBVIOUS
<1>2. /\ m[j] = s[i]
      /\ \A k \in 1 .. j - 1 : m[k] = s[k]
      /\ \A k \in j + 1 .. i : m[k] = s[k - 1]
      /\ \A k \in i + 1 .. Len(s) : m[k] = s[k]
  BY <1>1 DEF Moved
<1>3. m \in [1 .. Len(s) -> S]
  <2>1. m = [k \in 1 .. Len(s) |-> m[k]]
    BY DEF Moved
  <2>2. \A k \in 1 .. Len(s) : k \in 1 .. j - 1 \/ k = j \/ k \in j + 1 .. i \/ k \in i + 1 .. Len(s)
    BY <1>1
  <2>3. ASSUME NEW k \in 1 .. Len(s) PROVE m[k] \in S
    <3>1. CASE k \in j + 1 .. i
      <4>1. k - 1 \in 1 .. Len(s) /\ m[k] = s[k - 1]
        BY <1>1, <1>2, <3>1
      <4>2. QED
        BY <1>1, <4>1
    <3>2. CASE k \notin j + 1 .. i
      BY <1>1, <1>2, <2>2, <3>2
    <3>3. QED
      BY <3>1, <3>2
  <2> HIDE DEF m
  <2>4. QED
    BY <2>1, <2>3
<1>4. QED
  BY <1>1, <1>2, <1>3

\* ... and where they went.
Target(i, j, k) == IF k = i THEN j ELSE IF j <= k /\ k < i THEN k + 1 ELSE k
Source(i, j, k) == IF k = j THEN i ELSE IF j < k /\ k <= i THEN k - 1 ELSE k

LEMMA MovedTo ==
  ASSUME NEW S, NEW s \in Seq(S), NEW i \in 1 .. Len(s), NEW j \in 1 .. i
  PROVE  LET m == Moved(s, i, j)
         IN  /\ \A k \in 1 .. Len(s) : Target(i, j, k) \in 1 .. Len(s) /\ m[Target(i, j, k)] = s[k]
             /\ Elements(m) = Elements(s)
             /\ IsInjective(s) => IsInjective(m)
<1> DEFINE m == Moved(s, i, j)
<1>1. Len(s) \in Nat /\ i \in Int /\ j \in Int /\ DOMAIN s = 1 .. Len(s)
  OBVIOUS
<1>2. m \in Seq(S) /\ Len(m) = Len(s) /\ DOMAIN m = 1 .. Len(s)
  BY MovedIs
<1>3. \A k \in 1 .. Len(s) : m[k] = s[Source(i, j, k)]
  BY <1>1 DEF Moved, Source
<1>4. \A k \in 1 .. Len(s) :
        /\ Target(i, j, k) \in 1 .. Len(s) /\ Source(i, j, k) \in 1 .. Len(s)
        /\ Source(i, j, Target(i, j, k)) = k /\ Target(i, j, Source(i, j, k)) = k
  BY <1>1 DEF Target, Source
<1>5. \A k \in 1 .. Len(s) : m[Target(i, j, k)] = s[k]
  BY <1>3, <1>4
<1>6. Elements(m) = Elements(s)
  <2>1. ASSUME NEW x \in Elements(m) PROVE x \in Elements(s)
    BY <1>1, <1>2, <1>3, <1>4 DEF Elements
  <2>2. ASSUME NEW x \in Elements(s) PROVE x \in Elements(m)
    <3>1. PICK k \in 1 .. Len(s) : x = s[k]
      BY <1>1 DEF Elements
    <3>2. x = m[Target(i, j, k)] /\ Target(i, j, k) \in DOMAIN m
      BY <3>1, <1>2, <1>4, <1>5
    <3>3. QED
      BY <3>2 DEF Elements
  <2>3. QED
    BY <2>1, <2>2
<1>7. IsInjective(s) => IsInjective(m)
  <2>1. SUFFICES ASSUME IsInjective(s), NEW a \in 1 .. Len(s), NEW b \in 1 .. Len(s), m[a] = m[b]
                 PROVE  a = b
    BY <1>2 DEF IsInjective
  <2>2. Source(i, j, a) = Source(i, j, b)
    BY <2>1, <1>1, <1>3, <1>4 DEF IsInjective
  <2>3. QED
    BY <2>2, <1>4
<1>8. QED
  BY <1>4, <1>5, <1>6, <1>7

\* The elements other than the one moved keep their order.
LEMMA MovedKeepsOrder ==
  ASSUME NEW S, NEW s \in Seq(S), IsInjective(s), NEW i \in 1 .. Len(s), NEW j \in 1 .. i,
         NEW x \in Elements(s) \ {s[i]}, NEW y \in Elements(s) \ {s[i]}, Before(s, x, y)
  PROVE  Before(Moved(s, i, j), x, y)
<1> DEFINE m == Moved(s, i, j)
<1>1. Len(s) \in Nat /\ i \in Int /\ j \in Int /\ DOMAIN s = 1 .. Len(s)
  OBVIOUS
<1>2. PICK a \in 1 .. Len(s), b \in 1 .. Len(s) : x = s[a] /\ y = s[b]
  BY <1>1 DEF Elements
<1>3. a # i /\ b # i /\ a < b
  BY <1>1, <1>2, IndexUnique DEF Before
<1>4. Target(i, j, a) < Target(i, j, b)
  BY <1>1, <1>3 DEF Target
<1>5. /\ IsInjective(m) /\ DOMAIN m = 1 .. Len(s)
      /\ Target(i, j, a) \in 1 .. Len(s) /\ m[Target(i, j, a)] = x
      /\ Target(i, j, b) \in 1 .. Len(s) /\ m[Target(i, j, b)] = y
  <2>1. m \in Seq(S) /\ Len(m) = Len(s)
    BY MovedIs
  <2>2. IsInjective(m) /\ \A k \in 1 .. Len(s) : Target(i, j, k) \in 1 .. Len(s) /\ m[Target(i, j, k)] = s[k]
    BY MovedTo
  <2>3. QED
    BY <1>2, <2>1, <2>2
<1>6. IndexOf(m, x) = Target(i, j, a) /\ IndexOf(m, y) = Target(i, j, b)
  BY <1>5, IndexUnique
<1>7. QED
  BY <1>4, <1>6 DEF Before

-----------------------------------------------------------------------------
\* The leading run of allocas: there is one, and only one.
IsRun(s, n) ==
  /\ \A i \in 1 .. n : s[i].kind = "alloca"
  /\ n < Len(s) => s[n + 1].kind # "alloca"

LEMMA Least ==
  ASSUME NEW T \in SUBSET Nat, T # {}
  PROVE  \E n \in T : \A k \in T : ~(k < n)
<1>1. PICK n \in T : \A k \in T : ~(<<k, n>> \in OpToRel(<, Nat))
  BY NatLessThanWellFounded, WFMin
<1>2. QED
  BY <1>1 DEF OpToRel

LEMMA RunExists ==
  ASSUME NEW s \in Seq(Element)
  PROVE  \E n \in 0 .. Len(s) : IsRun(s, n)
<1> DEFINE End == {n \in 0 .. Len(s) : n < Len(s) => s[n + 1].kind # "alloca"}
<1>1. Len(s) \in Nat
  OBVIOUS
<1>2. End \subseteq Nat /\ End # {}
  BY <1>1
<1>3. PICK n \in End : \A k \in End : ~(k < n)
  BY <1>2, Least
<1>4. ASSUME NEW i \in 1 .. n PROVE s[i].kind = "alloca"
  <2>1. i - 1 \in 0 .. Len(s) /\ i - 1 < n /\ i - 1 < Len(s) /\ (i - 1) + 1 = i
    BY <1>1
  <2>2. i - 1 \notin End
    BY <2>1, <1>3
  <2>3. QED
    BY <2>1, <2>2
<1>5. QED
  BY <1>3, <1>4 DEF IsRun

LEMMA RunUnique ==
  ASSUME NEW s \in Seq(Element), NEW n \in 0 .. Len(s), IsRun(s, n)
  PROVE  LeadingAllocas(s) = n
<1>1. Len(s) \in Nat
  OBVIOUS
<1>2. ASSUME NEW k \in 0 .. Len(s), IsRun(s, k) PROVE k = n
  <2>1. k < n => k + 1 \in 1 .. n /\ k < Len(s)
    BY <1>1
  <2>2. n < k => n + 1 \in 1 .. k /\ n < Len(s)
    BY <1>1
  <2>3. QED
    BY <1>1, <1>2, <2>1, <2>2 DEF IsRun
<1>3. QED
  BY <1>2 DEF LeadingAllocas, IsRun

LEMMA LeadingRun ==
  ASSUME NEW s \in Seq(Element)
  PROVE  LeadingAllocas(s) \in 0 .. Len(s) /\ IsRun(s, LeadingAllocas(s))
BY RunExists, RunUnique

LEMMA FirstAllocaIn ==
  ASSUME NEW s \in Seq(Element), s # <<>>
  PROVE  FirstAlloca(s) \in 1 .. Len(s)
<1>1. Len(s) \in Nat /\ DOMAIN s = 1 .. Len(s) /\ 1 \in 1 .. Len(s)
  OBVIOUS
<1>2. CASE \E i \in DOMAIN s : s[i].kind = "alloca"
  <2> DEFINE A == {i \in DOMAIN s : s[i].kind = "alloca"}
  <2>1. A \in SUBSET Nat /\ A # {}
    BY <1>1, <1>2
  <2>2. PICK n \in A : \A k \in A : ~(k < n)
    BY <2>1, Least
  <2>3. \A j \in 1 .. n - 1 : s[j].kind # "alloca"
    BY <1>1, <2>2
  <2>4. QED
    BY <1>1, <1>2, <2>2, <2>3 DEF FirstAlloca
<1>3. CASE ~\E i \in DOMAIN s : s[i].kind = "alloca"
  BY <1>1, <1>3 DEF FirstAlloca
<1>4. QED
  BY <1>2, <1>3

-----------------------------------------------------------------------------
\* The vector, and what is collected into it.
LEMMA VectorStep ==
  ASSUME NEW S, NEW t \in Seq(S), t # <<>>, IsInjective(t), NEW m \in Seq(S), IsInjective(m),
         Elements(t) \cap Elements(m) = {}
  PROVE  /\ Head(t) \in Elements(t)
         /\ Tail(t) \in Seq(S) /\ IsInjective(Tail(t))
         /\ Append(m, Head(t)) \in Seq(S) /\ IsInjective(Append(m, Head(t)))
         /\ Elements(Tail(t)) = Elements(t) \ {Head(t)}
         /\ Elements(Append(m, Head(t))) = Elements(m) \cup {Head(t)}
<1> DEFINE a == Append(m, Head(t))
<1>1. /\ Len(t) \in Nat /\ Len(t) > 0 /\ DOMAIN t = 1 .. Len(t)
      /\ Tail(t) \in Seq(S) /\ Len(Tail(t)) = Len(t) - 1 /\ DOMAIN Tail(t) = 1 .. Len(t) - 1
      /\ \A k \in 1 .. Len(t) - 1 : Tail(t)[k] = t[k + 1]
      /\ Head(t) = t[1]
  OBVIOUS
<1>2. /\ Len(m) \in Nat /\ DOMAIN m = 1 .. Len(m)
      /\ a \in Seq(S) /\ DOMAIN a = 1 .. Len(m) + 1
      /\ \A k \in 1 .. Len(m) : a[k] = m[k]
      /\ a[Len(m) + 1] = Head(t)
  BY <1>1
<1>3. Head(t) \in Elements(t)
  BY <1>1 DEF Elements
<1>4. IsInjective(Tail(t))
  BY <1>1 DEF IsInjective
<1>5. Head(t) \notin Elements(m)
  BY <1>3
<1>6. IsInjective(a)
  <2>1. \A k \in 1 .. Len(m) : a[k] # Head(t)
    BY <1>2, <1>5 DEF Elements
  <2>2. \A k \in 1 .. Len(m) + 1 : k \in 1 .. Len(m) \/ k = Len(m) + 1
    BY <1>2
  <2>3. QED
    BY <1>2, <2>1, <2>2 DEF IsInjective
<1>7. Elements(Tail(t)) = Elements(t) \ {Head(t)}
  <2>1. ASSUME NEW x \in Elements(Tail(t)) PROVE x \in Elements(t) /\ x # Head(t)
    <3>1. PICK k \in 1 .. Len(t) - 1 : x = t[k + 1]
      BY <1>1 DEF Elements
    <3>2. k + 1 \in 1 .. Len(t) /\ k + 1 # 1 /\ 1 \in 1 .. Len(t)
      BY <1>1
    <3>3. QED
      BY <1>1, <3>1, <3>2 DEF Elements, IsInjective
  <2>2. ASSUME NEW x \in Elements(t), x # Head(t) PROVE x \in Elements(Tail(t))
    <3>1. PICK k \in 1 .. Len(t) : x = t[k]
      BY <1>1 DEF Elements
    <3>2. k - 1 \in 1 .. Len(t) - 1 /\ (k - 1) + 1 = k
      BY <1>1, <2>2, <3>1
    <3>3. x = Tail(t)[k - 1]
      BY <1>1, <3>1, <3>2
    <3>4. QED
      BY <1>1, <3>2, <3>3 DEF Elements
  <2>3. QED
    BY <2>1, <2>2
<1>8. Elements(a) = Elements(m) \cup {Head(t)}
  <2>1. ASSUME NEW x \in Elements(a) PROVE x \in Elements(m) \cup {Head(t)}
    <3>1. PICK k \in 1 .. Len(m) + 1 : x = a[k]
      BY <1>2 DEF Elements
    <3>2. k \in 1 .. Len(m) \/ k = Len(m) + 1
      BY <1>2
    <3>3. QED
      BY <1>2, <3>1, <3>2 DEF Elements
  <2>2. ASSUME NEW x \in Elements(m) PROVE x \in Elements(a)
    <3>1. PICK k \in 1 .. Len(m) : x = m[k]
      BY <1>2 DEF Elements
    <3>2. k \in 1 .. Len(m) + 1 /\ x = a[k]
      BY <1>2, <3>1
    <3>3. QED
      BY <1>2, <3>2 DEF Elements
  <2>3. Head(t) \in Elements(a)
    <3>1. Len(m) + 1 \in 1 .. Len(m) + 1
      BY <1>2
    <3>2. QED
      BY <1>2, <3>1 DEF Elements
  <2>4. QED
    BY <2>1, <2>2, <2>3
<1>9. QED
  BY <1>1, <1>2, <1>3, <1>4, <1>6, <1>7, <1>8

LEMMA ElementsFinite ==
  ASSUME NEW S, NEW s \in Seq(S)
  PROVE  IsFiniteSet(Elements(s))
<1>1. Len(s) \in Nat /\ DOMAIN s = 1 .. Len(s)
  OBVIOUS
<1>2. s \in Surjection(1 .. Len(s), Elements(s))
  <2>1. s \in [1 .. Len(s) -> Elements(s)]
    BY <1>1 DEF Elements
  <2>2. \A x \in Elements(s) : \E i \in 1 .. Len(s) : s[i] = x
    BY <1>1 DEF Elements
  <2>3. QED
    BY <2>1, <2>2 DEF Surjection
<1>3. IsFiniteSet(1 .. Len(s))
  BY <1>1, FS_Interval
<1>4. QED
  BY <1>2, <1>3, FS_Surjection

LEMMA CollectedIn ==
  ASSUME Pass \in Shuffling, NEW s \in Seq(Element)
  PROVE  /\ Collected(s) \subseteq Elements(s)
         /\ Cardinality(Collected(s)) \in Nat
<1>1. Len(s) \in Nat /\ DOMAIN s = 1 .. Len(s) /\ LeadingAllocas(s) \in 0 .. Len(s)
  BY LeadingRun
<1>2. 1 .. LeadingAllocas(s) \subseteq DOMAIN s /\ 2 .. Len(s) \subseteq DOMAIN s
  BY <1>1
<1>3. Collected(s) \subseteq Elements(s)
  BY <1>2 DEF Collected, Elements, Shuffling
<1>4. QED
  BY <1>3, ElementsFinite, FS_Subset, FS_CardinalityType
-----------------------------------------------------------------------------
LEMMA LayoutInit == Init => LayoutInv
<1>1. SUFFICES ASSUME Init PROVE LayoutInv
  OBVIOUS
<1>2. PICK job \in Jobs : list = job.list /\ passes = job.passes /\ rets = job.rets
  BY <1>1 DEF Init
<1>3. /\ list \in Seq(Element) /\ list # <<>> /\ IsInjective(list)
      /\ \A i \in DOMAIN list : list[i].id >= 0 /\ (list[i].kind = "entry" => i = 1)
      /\ \A k \in DOMAIN passes, i \in DOMAIN list : list[i].kind \in Sort(passes[k])
      /\ passes \in Seq(Passes) /\ rets \in BOOLEAN
  BY <1>2, LayoutAssumption
<1>4. \A i \in DOMAIN list : list[i].id >= -Len(list)
  <2>1. Len(list) \in Nat /\ \A i \in DOMAIN list : list[i] \in Element
    BY <1>3
  <2> DEFINE Id(i) == list[i].id
  <2>2. \A i \in DOMAIN list : Id(i) \in Int
    BY <2>1 DEF Element
  <2>3. \A i \in DOMAIN list : Id(i) >= 0
    BY <1>3
  <2> HIDE DEF Id
  <2>4. \A i \in DOMAIN list : Id(i) >= -Len(list)
    BY <2>1, <2>2, <2>3
  <2>5. QED
    BY <2>4 DEF Id
<1>5. ListInv(list)
  BY <1>3, <1>4 DEF ListInv
<1>6. QED
  BY <1>1, <1>3, <1>5 DEF Init, LayoutInv

\* What a pass leaves to the next one.
LEMMA EndPassStep ==
  ASSUME LayoutInv, passes # <<>>, EndPass, changed' \in BOOLEAN,
         list' \in Seq(Element), list' # <<>>, IsInjective(list'),
         \A i \in DOMAIN list' : list'[i].id >= -Len(list') /\ (list'[i].kind = "entry" => i = 1),
         \A k \in DOMAIN passes \ {1}, i \in DOMAIN list' : list'[i].kind \in Sort(passes[k])
  PROVE  LayoutInv'
<1>1. /\ passes \in Seq(Passes) /\ Len(passes) \in Nat /\ DOMAIN passes = 1 .. Len(passes)
      /\ rets \in BOOLEAN
  BY DEF LayoutInv
<1>2. /\ passes' \in Seq(Passes) /\ DOMAIN passes' = 1 .. Len(passes) - 1
      /\ \A k \in 1 .. Len(passes) - 1 : passes'[k] = passes[k + 1]
  BY <1>1 DEF EndPass
<1>3. \A k \in 1 .. Len(passes) - 1 : k + 1 \in DOMAIN passes \ {1}
  BY <1>1
<1>4. \A k \in DOMAIN passes', i \in DOMAIN list' : list'[i].kind \in Sort(passes'[k])
  BY <1>2, <1>3
<1>5. ListInv(list)' /\ found' = list'
  BY <1>4 DEF ListInv, EndPass
<1>6. QED
  BY <1>1, <1>2, <1>5 DEF LayoutInv, EndPass, ListInv

\* A pass that leaves the list as it is.
LEMMA EndUnmoved ==
  ASSUME LayoutInv, passes # <<>>, EndPass, changed' \in BOOLEAN, UNCHANGED list
  PROVE  LayoutInv'
BY EndPassStep DEF LayoutInv, ListInv

LEMMA Steady ==
  ASSUME UNCHANGED <<passes, found>>
  PROVE  Collected(found)' = Collected(found) /\ Pass' = Pass /\ Anchor' = Anchor
<1>1. passes' = passes /\ found' = found
  OBVIOUS
<1>2. Pass' = Pass /\ Anchor' = Anchor
  BY <1>1 DEF Pass, Anchor, Running
<1>3. Collected(found)' = Collected(found)
  BY <1>1, <1>2, Zenon DEF Collected
<1>4. QED
  BY <1>2, <1>3

LEMMA ShuffleStep ==
  ASSUME LayoutInv, Shuffle
  PROVE  LayoutInv'
<1> DEFINE C == Collected(list)
<1>1. /\ list = found /\ moved = <<>> /\ Pass \in Shuffling /\ passes # <<>>
      /\ list \in Seq(Element) /\ list # <<>>
      /\ pc' = "place" /\ passes' = passes /\ list' = list /\ found' = found /\ moved' = moved
  BY DEF LayoutInv, ListInv, Shuffle
<1>2. Cardinality(C) \in Nat /\ C \subseteq Element
  <2>1. Elements(list) \subseteq Element
    BY <1>1 DEF Elements
  <2>2. QED
    BY <2>1, <1>1, CollectedIn
<1>3. todo' \in Bijection(1 .. Cardinality(C), C)
  BY DEF Shuffle
<1>4. todo' \in Seq(Element) /\ IsInjective(todo') /\ Elements(todo') = C
  <2>1. /\ todo' \in [1 .. Cardinality(C) -> C] /\ IsInjective(todo')
        /\ \A x \in C : \E k \in 1 .. Cardinality(C) : todo'[k] = x
    BY <1>3 DEF Bijection, Injection, Surjection
  <2>2. QED
    BY <2>1, <1>2 DEF Elements
<1>5. VectorInv'
  <2>1. Elements(moved') = {} /\ IsInjective(moved') /\ moved' \in Seq(Element)
    BY <1>1 DEF Elements, IsInjective
  <2>2. Collected(found)' = C
    BY <1>1, Steady
  <2>3. QED
    BY <1>4, <2>1, <2>2 DEF VectorInv
<1>6. PrevInv'
  <2>1. prev' = IF Pass = "func_rand" THEN None ELSE list[1]
    BY DEF Shuffle
  <2>2. Len(moved') = 0 /\ Len(list) \in Nat /\ 0 < Len(list)
    BY <1>1
  <2>3. QED
    BY <1>1, <2>1, <2>2 DEF PrevInv, Pass
<1>7. PlacedInFront'
  BY <1>1 DEF PlacedInFront
<1>8. AllocasStayLeading'
  BY <1>1 DEF AllocasStayLeading
<1>9. ListInv(list)' /\ ListInv(found)'
  BY <1>1 DEF LayoutInv, ListInv
<1>10. QED
  <2>1. passes' \in Seq(Passes) /\ changed' \in BOOLEAN /\ rets' \in BOOLEAN
    BY DEF LayoutInv, Shuffle
  <2>2. Pass' = Pass
    BY <1>1 DEF Pass
  <2>3. QED
    BY <1>1, <1>5, <1>6, <1>7, <1>8, <1>9, <2>1, <2>2 DEF LayoutInv

-----------------------------------------------------------------------------
\* The element to be placed is behind its place.
Place == Anchor + Len(moved) + 1

LEMMA PlaceFacts ==
  ASSUME LayoutInv, pc = "place", todo # <<>>
  PROVE  /\ list \in Seq(Element) /\ Len(list) \in Nat /\ Len(moved) \in Nat /\ Anchor \in {0, 1}
         /\ IndexOf(list, Next1) \in 1 .. Len(list) /\ list[IndexOf(list, Next1)] = Next1
         /\ Place \in 1 .. IndexOf(list, Next1)
         /\ Next1 \in Collected(found) /\ Next1 \notin Elements(moved)
<1> DEFINE i == IndexOf(list, Next1)
<1>1. /\ list \in Seq(Element) /\ IsInjective(list) /\ Len(list) \in Nat /\ DOMAIN list = 1 .. Len(list)
      /\ found \in Seq(Element) /\ IsInjective(found) /\ Len(found) = Len(list)
      /\ Elements(list) = Elements(found) /\ list # <<>>
      /\ VectorInv /\ Pass \in Shuffling /\ passes # <<>>
      /\ \A k \in DOMAIN moved : list[Anchor + k] = moved[k]
      /\ Pass = "bbrand" => list[1] = found[1]
  BY DEF LayoutInv, ListInv, PlacedInFront
<1>2. Len(moved) \in Nat /\ DOMAIN moved = 1 .. Len(moved) /\ Anchor \in {0, 1}
  BY <1>1 DEF VectorInv, Anchor
<1>3. Next1 \in Elements(todo) /\ Next1 \in Collected(found) /\ Next1 \notin Elements(moved)
  BY <1>1, VectorStep DEF VectorInv, Next1
<1>4. i \in 1 .. Len(list) /\ list[i] = Next1
  <2>1. Next1 \in Elements(list)
    BY <1>1, <1>3, CollectedIn
  <2>2. PICK k \in DOMAIN list : list[k] = Next1
    BY <2>1 DEF Elements
  <2>3. QED
    BY <1>1, <2>2, IndexUnique
<1>5. \A k \in 1 .. Len(moved) : i # Anchor + k
  BY <1>1, <1>2, <1>3, <1>4 DEF Elements
<1>6. Anchor = 1 => i # 1
  <2>1. SUFFICES ASSUME Anchor = 1 PROVE list[1] # Next1
    BY <1>4
  <2>2. Pass = "bbrand"
    BY <2>1 DEF Anchor, Running
  <2>3. PICK k \in 2 .. Len(found) : Next1 = found[k]
    BY <1>3, <2>2 DEF Collected
  <2>4. k \in DOMAIN found /\ 1 \in DOMAIN found /\ k # 1
    BY <1>1
  <2>5. QED
    BY <1>1, <2>2, <2>3, <2>4 DEF IsInjective
<1>7. Place <= i
  <2>1. Anchor + Len(moved) >= i => i - Anchor \in 1 .. Len(moved) \/ (Anchor = 1 /\ i = 1)
    BY <1>2, <1>4
  <2>2. QED
    BY <1>2, <1>4, <1>5, <1>6, <2>1 DEF Place
<1>8. QED
  BY <1>1, <1>2, <1>3, <1>4, <1>7 DEF Place

\* A step of the loop, once its move is known to be to Place.
LEMMA PlaceStep ==
  ASSUME LayoutInv, pc = "place", todo # <<>>, Advance,
         list' = Moved(list, IndexOf(list, Next1), Place), PrevInv'
  PROVE  LayoutInv'
<1> DEFINE i == IndexOf(list, Next1)
           m == Moved(list, i, Place)
<1>1. /\ list \in Seq(Element) /\ Len(list) \in Nat /\ Len(moved) \in Nat /\ Anchor \in {0, 1}
      /\ i \in 1 .. Len(list) /\ list[i] = Next1 /\ Place \in 1 .. i
      /\ Next1 \in Collected(found) /\ Next1 \notin Elements(moved)
  BY PlaceFacts
<1>2. /\ ListInv(list) /\ ListInv(found) /\ Len(list) = Len(found) /\ Elements(list) = Elements(found)
      /\ IsInjective(list) /\ VectorInv /\ PlacedInFront /\ AllocasStayLeading
      /\ Pass \in Shuffling /\ passes # <<>> /\ passes \in Seq(Passes)
      /\ changed \in BOOLEAN /\ rets \in BOOLEAN
      /\ Pass = "bbrand" => list[1] = found[1]
  BY DEF LayoutInv, ListInv
<1>3. /\ UNCHANGED <<passes, found, rets, changed, pc>> /\ list' = m
      /\ todo' = Tail(todo) /\ moved' = Append(moved, Next1)
  BY DEF Advance
<1>4. /\ m \in Seq(Element) /\ Len(m) = Len(list) /\ DOMAIN m = 1 .. Len(list)
      /\ m[Place] = Next1
      /\ \A k \in 1 .. Place - 1 : m[k] = list[k]
      /\ \A k \in Place + 1 .. i : m[k] = list[k - 1]
      /\ \A k \in i + 1 .. Len(list) : m[k] = list[k]
  BY <1>1, MovedIs
<1>5. Elements(m) = Elements(list) /\ IsInjective(m)
  BY <1>1, <1>2, MovedTo
<1>6. Collected(found)' = Collected(found) /\ Pass' = Pass /\ Anchor' = Anchor
  BY <1>3, Steady
<1>7. /\ moved \in Seq(Element) /\ moved' \in Seq(Element)
      /\ Elements(moved') = Elements(moved) \cup {Next1} /\ VectorInv'
  <2>1. /\ Tail(todo) \in Seq(Element) /\ IsInjective(Tail(todo)) /\ Next1 \in Elements(todo)
        /\ moved' \in Seq(Element) /\ IsInjective(moved')
        /\ Elements(Tail(todo)) = Elements(todo) \ {Next1}
        /\ Elements(moved') = Elements(moved) \cup {Next1}
    BY <1>2, <1>3, VectorStep DEF VectorInv, Next1
  <2>2. QED
    BY <2>1, <1>2, <1>3, <1>6 DEF VectorInv
<1>8. Pass = "bbrand" => m[1] = found[1]
  <2>1. SUFFICES ASSUME Pass = "bbrand" PROVE m[1] = found[1]
    OBVIOUS
  <2>2. Anchor = 1
    BY <1>2, <2>1 DEF Anchor, Running
  <2>3. 1 \in 1 .. Place - 1
    BY <1>1, <2>2 DEF Place
  <2>4. QED
    BY <1>2, <1>4, <2>1, <2>3
<1>9. ListInv(list)' /\ ListInv(found)'
  <2>1. ASSUME NEW k \in DOMAIN m
        PROVE  /\ m[k].id >= -Len(m)
               /\ m[k].kind = "entry" => k = 1
               /\ \A l \in DOMAIN passes : m[k].kind \in Sort(passes[l])
    <3>1. PICK l \in DOMAIN found : m[k] = found[l]
      BY <1>2, <1>5 DEF Elements
    <3>2. m[k].id >= -Len(m) /\ \A n \in DOMAIN passes : m[k].kind \in Sort(passes[n])
      BY <3>1, <1>2, <1>4 DEF ListInv
    <3>3. ASSUME m[k].kind = "entry" PROVE k = 1
      <4>1. l = 1
        BY <3>1, <3>3, <1>2 DEF ListInv
      <4>2. 1 \in DOMAIN passes /\ passes[1] = Pass
        BY <1>2 DEF Pass
      <4>3. Pass = "bbrand"
        BY <3>2, <3>3, <4>2, <1>2 DEF Sort, Shuffling
      <4>4. m[k] = m[1] /\ 1 \in DOMAIN m
        BY <3>1, <4>1, <4>3, <1>1, <1>4, <1>8
      <4>5. QED
        BY <4>4, <1>5 DEF IsInjective
    <3>4. QED
      BY <3>2, <3>3
  <2>2. m # <<>>
    BY <1>1, <1>4
  <2>3. QED
    BY <2>1, <2>2, <1>2, <1>3, <1>4, <1>5 DEF ListInv
<1>10. PlacedInFront'
  <2>1. ASSUME NEW k \in 1 .. Len(moved) + 1 PROVE m[Anchor + k] = moved'[k]
    <3>1. CASE k \in 1 .. Len(moved)
      <4>1. Anchor + k \in 1 .. Place - 1
        BY <1>1, <3>1 DEF Place
      <4>2. moved'[k] = moved[k] /\ list[Anchor + k] = moved[k]
        BY <1>2, <1>3, <1>7, <3>1, pc = "place" DEF PlacedInFront
      <4>3. QED
        BY <4>1, <4>2, <1>4
    <3>2. CASE k = Len(moved) + 1
      <4>1. Anchor + k = Place
        BY <1>1, <3>2 DEF Place
      <4>2. moved'[k] = Next1
        BY <1>3, <1>7, <3>2
      <4>3. QED
        BY <4>1, <4>2, <1>4
    <3>3. QED
      BY <1>1, <3>1, <3>2
  <2>2. ASSUME NEW x \in Elements(m) \ Elements(moved'), NEW y \in Elements(m) \ Elements(moved'),
               Before(found, x, y)
        PROVE  Before(m, x, y)
    <3>1. x \in Elements(list) \ Elements(moved) /\ y \in Elements(list) \ Elements(moved)
      BY <1>5, <1>7
    <3>2. Before(list, x, y)
      BY <1>2, <2>2, <3>1, pc = "place" DEF PlacedInFront
    <3>3. x # list[i] /\ y # list[i]
      BY <1>1, <1>7
    <3>4. QED
      BY <1>1, <1>2, <3>1, <3>2, <3>3, MovedKeepsOrder
  <2>3. DOMAIN moved' = 1 .. Len(moved) + 1
    BY <1>3, <1>7
  <2>4. QED
    BY <1>3, <1>6, <2>1, <2>2, <2>3 DEF PlacedInFront
<1>11. AllocasStayLeading'
  <2> DEFINE L == LeadingAllocas(found)
  <2>1. SUFFICES ASSUME Pass = "stack_reorder"
                 PROVE  LeadingAllocas(m) = L /\ \A k \in L + 1 .. Len(m) : m[k] = found[k]
    BY <1>3, <1>6 DEF AllocasStayLeading, Running
  <2>2. LeadingAllocas(list) = L /\ \A k \in L + 1 .. Len(list) : list[k] = found[k]
    BY <1>2, <2>1 DEF AllocasStayLeading, Running
  <2>3. found \in Seq(Element) /\ IsInjective(found) /\ DOMAIN found = 1 .. Len(list)
    BY <1>2 DEF ListInv
  <2>4. L \in 0 .. Len(list) /\ IsRun(found, L) /\ IsRun(list, L)
    BY <1>1, <1>2, <2>2, <2>3, LeadingRun
  <2>5. i <= L
    <3>1. PICK k \in 1 .. L : Next1 = found[k]
      BY <1>1, <2>1 DEF Collected
    <3>2. k \in DOMAIN found /\ i \in DOMAIN found
      BY <1>1, <2>3, <2>4
    <3>3. i > L => found[k] = found[i]
      BY <1>1, <2>2, <2>4, <3>1
    <3>4. QED
      BY <1>1, <2>3, <2>4, <3>1, <3>2, <3>3 DEF IsInjective
  <2>6. \A k \in L + 1 .. Len(m) : m[k] = found[k]
    BY <1>1, <1>4, <2>2, <2>4, <2>5
  <2>7. ASSUME NEW k \in 1 .. L PROVE m[k].kind = "alloca"
    <3>1. \A n \in 1 .. L : list[n].kind = "alloca"
      BY <2>4 DEF IsRun
    <3>2. \/ k \in 1 .. Place - 1 \/ k = Place
          \/ k \in Place + 1 .. i /\ k - 1 \in 1 .. L
          \/ k \in i + 1 .. Len(list)
      BY <1>1, <2>4, <2>5
    <3>3. i \in 1 .. L
      BY <1>1, <2>4, <2>5
    <3>4. QED
      BY <1>1, <1>4, <3>1, <3>2, <3>3
  <2>8. IsRun(m, L)
    <3>1. L < Len(m) => m[L + 1] = found[L + 1]
      BY <1>1, <1>4, <2>4, <2>6
    <3>2. QED
      BY <1>2, <1>4, <2>4, <2>7, <3>1 DEF IsRun
  <2>9. QED
    BY <1>4, <2>4, <2>6, <2>8, RunUnique
<1>12. QED
  <2>1. passes' \in Seq(Passes) /\ changed' \in BOOLEAN /\ rets' \in BOOLEAN
    BY <1>2, <1>3
  <2>2. Len(list') = Len(found') /\ Elements(list') = Elements(found')
    BY <1>2, <1>3, <1>4, <1>5
  <2>3. pc' = "place" /\ passes' # <<>> /\ Pass' \in Shuffling
    BY <1>2, <1>3, <1>6
  <2>4. Pass' = "bbrand" => list'[1] = found'[1]
    BY <1>3, <1>6, <1>8
  <2>5. QED
    BY <1>7, <1>9, <1>10, <1>11, <2>1, <2>2, <2>3, <2>4 DEF LayoutInv

LEMMA PlaceFunctionStep ==
  ASSUME LayoutInv, PlaceFunction
  PROVE  LayoutInv'
<1> DEFINE i == IndexOf(list, Next1)
<1>1. /\ list \in Seq(Element) /\ Len(list) \in Nat /\ Len(moved) \in Nat
      /\ i \in 1 .. Len(list) /\ list[i] = Next1 /\ Place \in 1 .. i
  BY PlaceFacts DEF PlaceFunction
<1>2. /\ IsInjective(list) /\ PrevInv /\ Pass = "func_rand" /\ DOMAIN list = 1 .. Len(list)
      /\ moved \in Seq(Element)
  BY DEF LayoutInv, ListInv, VectorInv, PlaceFunction, Running
<1>3. Anchor = 0 /\ Place = Len(moved) + 1
  BY <1>1, <1>2 DEF Anchor, Running, Place
<1>4. UNCHANGED <<passes, found>> /\ moved' = Append(moved, Next1) /\ prev' = Next1 /\ Advance
  BY DEF PlaceFunction, Advance
<1>5. \A k \in 1 .. Len(list) : list[k] # None
  BY <1>1, LayoutAssumption
<1>6. list' = Moved(list, i, Place)
  <2>1. CASE Len(moved) = 0
    <3>1. prev = None
      BY <1>2, <2>1 DEF PrevInv
    <3>2. IndexOf(list, list[1]) = 1
      BY <1>1, <1>2, IndexUnique
    <3>3. (IF i < 1 THEN 1 - 1 ELSE 1) = Place
      BY <1>1, <1>3, <2>1
    <3>4. QED
      BY <3>1, <3>2, <3>3 DEF PlaceFunction, MoveBefore
  <2>2. CASE Len(moved) # 0
    <3>1. Len(moved) \in 1 .. Len(list) /\ Len(moved) < i
      BY <1>1, <1>3, <2>2
    <3>2. prev = list[Len(moved)] /\ prev # None
      BY <1>2, <1>5, <2>2, <3>1 DEF PrevInv
    <3>3. IndexOf(list, prev) = Len(moved)
      BY <1>2, <3>1, <3>2, IndexUnique
    <3>4. QED
      BY <1>3, <3>1, <3>2, <3>3 DEF PlaceFunction, MoveAfter
  <2>3. QED
    BY <2>1, <2>2
<1>7. PrevInv'
  <2>1. list'[Place] = Next1 /\ Len(moved') = Place /\ Place # 0
    BY <1>1, <1>2, <1>3, <1>4, <1>6, MovedIs
  <2>2. Pass' = "func_rand"
    BY <1>2, <1>4, Steady
  <2>3. QED
    BY <1>4, <2>1, <2>2 DEF PrevInv
<1>8. QED
  BY <1>4, <1>6, <1>7, PlaceStep DEF PlaceFunction

LEMMA PlaceBlockStep ==
  ASSUME LayoutInv, PlaceBlock
  PROVE  LayoutInv'
<1> DEFINE i == IndexOf(list, Next1)
<1>1. /\ list \in Seq(Element) /\ Len(list) \in Nat /\ Len(moved) \in Nat
      /\ i \in 1 .. Len(list) /\ list[i] = Next1 /\ Place \in 1 .. i
  BY PlaceFacts DEF PlaceBlock
<1>2. /\ IsInjective(list) /\ PrevInv /\ Pass = "bbrand" /\ passes # <<>> /\ DOMAIN list = 1 .. Len(list)
      /\ moved \in Seq(Element)
  BY DEF LayoutInv, ListInv, VectorInv, PlaceBlock, Running
<1>3. Anchor = 1 /\ Place = Len(moved) + 2
  BY <1>1, <1>2 DEF Anchor, Running, Place
<1>4. UNCHANGED <<passes, found>> /\ moved' = Append(moved, Next1) /\ prev' = Next1 /\ Advance
  BY DEF PlaceBlock, Advance
<1>5. list' = Moved(list, i, Place)
  <2>1. Len(moved) + 1 \in 1 .. Len(list) /\ Len(moved) + 1 < i /\ (Len(moved) + 1) + 1 = Place
    BY <1>1, <1>3
  <2>2. prev = list[Len(moved) + 1]
    BY <1>2 DEF PrevInv
  <2>3. IndexOf(list, prev) = Len(moved) + 1
    BY <1>2, <2>1, <2>2, IndexUnique
  <2>4. QED
    BY <2>1, <2>3 DEF PlaceBlock, MoveAfter
<1>6. PrevInv'
  <2>1. list'[Place] = Next1 /\ Len(moved') + 1 = Place
    BY <1>1, <1>2, <1>3, <1>4, <1>5, MovedIs
  <2>2. Pass' = "bbrand"
    BY <1>2, <1>4, Steady
  <2>3. QED
    BY <1>4, <2>1, <2>2 DEF PrevInv
<1>7. QED
  BY <1>4, <1>5, <1>6, PlaceStep DEF PlaceBlock

LEMMA PlaceAllocaStep ==
  ASSUME LayoutInv, PlaceAlloca
  PROVE  LayoutInv'
<1> DEFINE i == IndexOf(list, Next1)
<1>1. /\ list \in Seq(Element) /\ Len(list) \in Nat /\ Len(moved) \in Nat
      /\ i \in 1 .. Len(list) /\ list[i] = Next1 /\ Place \in 1 .. i
  BY PlaceFacts DEF PlaceAlloca
<1>2. /\ IsInjective(list) /\ PrevInv /\ Pass = "stack_reorder" /\ DOMAIN list = 1 .. Len(list)
      /\ moved \in Seq(Element)
  BY DEF LayoutInv, ListInv, VectorInv, PlaceAlloca, Running
<1>3. Anchor = 0 /\ Place = Len(moved) + 1
  BY <1>1, <1>2 DEF Anchor, Running, Place
<1>4. UNCHANGED <<passes, found>> /\ moved' = Append(moved, Next1) /\ Advance
  BY DEF PlaceAlloca, Advance
<1>5. list' = Moved(list, i, Place)
  <2>1. Place \in 1 .. Len(list) /\ ~(i < Place)
    BY <1>1
  <2>2. prev = list[Place]
    BY <1>1, <1>2, <1>3, <2>1 DEF PrevInv
  <2>3. IndexOf(list, prev) = Place
    BY <1>2, <2>1, <2>2, IndexUnique
  <2>4. QED
    BY <2>1, <2>3 DEF PlaceAlloca, MoveBefore
<1>6. PrevInv'
  <2>1. list' \in Seq(Element) /\ Len(list') = Len(list) /\ list'[Place] = Next1 /\ Len(moved') = Place
    BY <1>1, <1>2, <1>3, <1>4, <1>5, MovedIs
  <2>2. IsInjective(list') /\ Place \in DOMAIN list'
    BY <1>1, <1>2, <1>5, <2>1, MovedTo
  <2>3. IndexOf(list', Next1) = Place
    BY <2>1, <2>2, IndexUnique
  <2>4. prev' = IF Place < Len(list) THEN list'[Place + 1] ELSE None
    BY <2>3 DEF PlaceAlloca
  <2>5. Pass' = "stack_reorder"
    BY <1>2, <1>4, Steady
  <2>6. QED
    BY <2>1, <2>4, <2>5 DEF PrevInv
<1>7. QED
  BY <1>4, <1>5, <1>6, PlaceStep DEF PlaceAlloca
-----------------------------------------------------------------------------
LEMMA ConcatIs ==
  ASSUME NEW S, NEW s \in Seq(S), NEW t \in Seq(S)
  PROVE  /\ s \o t \in Seq(S) /\ Len(s \o t) = Len(s) + Len(t)
         /\ \A k \in 1 .. Len(s) : (s \o t)[k] = s[k]
         /\ \A k \in Len(s) + 1 .. Len(s) + Len(t) : (s \o t)[k] = t[k - Len(s)]
OBVIOUS

\* Where the elements of a list with new ones inserted come from.
LEMMA InsertedIs ==
  ASSUME NEW s \in Seq(Element), NEW i \in 1 .. Len(s), NEW new \in Seq(Element)
  PROVE  LET r == Inserted(s, i, new)
         IN  /\ r \in Seq(Element) /\ Len(r) = Len(s) + Len(new)
             /\ \A k \in 1 .. i - 1 : r[k] = s[k]
             /\ \A k \in i .. i + Len(new) - 1 : r[k] = new[k - i + 1]
             /\ \A k \in i + Len(new) .. Len(s) + Len(new) : r[k] = s[k - Len(new)]
<1> DEFINE a == SubSeq(s, 1, i - 1)
           b == SubSeq(s, i, Len(s))
           r == (a \o new) \o b
<1>1. Len(s) \in Nat /\ Len(new) \in Nat /\ i \in Int
  OBVIOUS
<1>2. /\ a \in Seq(Element) /\ Len(a) = i - 1 /\ \A k \in 1 .. i - 1 : a[k] = s[k]
      /\ b \in Seq(Element) /\ Len(b) = Len(s) - i + 1
      /\ \A k \in 1 .. Len(s) - i + 1 : b[k] = s[k + i - 1]
  BY <1>1
<1> HIDE DEF a, b
<1>3. /\ a \o new \in Seq(Element) /\ Len(a \o new) = i - 1 + Len(new)
      /\ \A k \in 1 .. i - 1 : (a \o new)[k] = a[k]
      /\ \A k \in i .. i - 1 + Len(new) : (a \o new)[k] = new[k - (i - 1)]
  <2>1. /\ a \o new \in Seq(Element) /\ Len(a \o new) = Len(a) + Len(new)
        /\ \A k \in 1 .. Len(a) : (a \o new)[k] = a[k]
        /\ \A k \in Len(a) + 1 .. Len(a) + Len(new) : (a \o new)[k] = new[k - Len(a)]
    <3>1. a \in Seq(Element) /\ new \in Seq(Element)
      BY <1>2
    <3>2. QED
      BY <3>1, ConcatIs
  <2>2. (i - 1) + 1 = i
    BY <1>1
  <2>3. QED
    BY <1>2, <2>1, <2>2
<1>4. /\ r \in Seq(Element) /\ Len(r) = Len(s) + Len(new)
      /\ \A k \in 1 .. i - 1 + Len(new) : r[k] = (a \o new)[k]
      /\ \A k \in i + Len(new) .. Len(s) + Len(new) : r[k] = b[k - (i - 1 + Len(new))]
  <2> DEFINE c == a \o new
  <2> HIDE DEF c
  <2>1. c \in Seq(Element) /\ Len(c) = i - 1 + Len(new)
    BY <1>3 DEF c
  <2>2. /\ c \o b \in Seq(Element) /\ Len(c \o b) = Len(c) + Len(b)
        /\ \A k \in 1 .. Len(c) : (c \o b)[k] = c[k]
        /\ \A k \in Len(c) + 1 .. Len(c) + Len(b) : (c \o b)[k] = b[k - Len(c)]
    <3>1. b \in Seq(Element) /\ c \in Seq(Element)
      BY <1>2, <2>1
    <3>2. QED
      BY <3>1, ConcatIs
  <2>3. Len(c) + 1 = i + Len(new) /\ Len(c) + Len(b) = Len(s) + Len(new)
    BY <1>1, <1>2, <2>1
  <2>4. QED
    BY <2>1, <2>2, <2>3 DEF c
<1>5. \A k \in 1 .. i - 1 : r[k] = s[k]
  BY <1>1, <1>2, <1>3, <1>4
<1>6. ASSUME NEW k \in i .. i + Len(new) - 1 PROVE r[k] = new[k - i + 1]
  BY <1>1, <1>3, <1>4
<1>7. ASSUME NEW k \in i + Len(new) .. Len(s) + Len(new) PROVE r[k] = s[k - Len(new)]
  <2>1. r[k] = b[k - (i - 1 + Len(new))]
    BY <1>4
  <2>2. k - (i - 1 + Len(new)) \in 1 .. Len(b)
    BY <1>1, <1>2
  <2>3. (k - (i - 1 + Len(new))) + i - 1 = k - Len(new)
    BY <1>1
  <2>4. QED
    BY <1>2, <2>1, <2>2, <2>3
<1>8. r = Inserted(s, i, new)
  BY DEF Inserted, a, b
<1>9. QED
  BY <1>4, <1>5, <1>6, <1>7, <1>8

\* Instructions with ids of their own, inserted into an entry block.
LEMMA InsertStep ==
  ASSUME LayoutInv, passes # <<>>, Pass \in {"stackpad_rand", "shadow_stack"},
         EndPass, changed' \in BOOLEAN, NEW i \in 1 .. Len(list),
         NEW new \in Seq(Element),
         \A k \in DOMAIN new : new[k].id = -(Len(list) + k) /\ new[k].kind \in {"alloca", "inst"},
         list' = Inserted(list, i, new)
  PROVE  LayoutInv'
<1> DEFINE n == Len(new)
           Old(k) == IF k < i THEN k ELSE k - n
           Fresh == i .. i + n - 1
<1>1. /\ list \in Seq(Element) /\ IsInjective(list) /\ Len(list) \in Nat /\ DOMAIN list = 1 .. Len(list)
      /\ \A k \in DOMAIN list : list[k].id >= -Len(list)
      /\ \A k \in DOMAIN passes, j \in DOMAIN list : list[j].kind \in Sort(passes[k])
      /\ passes \in Seq(Passes) /\ DOMAIN passes = 1 .. Len(passes) /\ Len(passes) \in Nat
  BY DEF LayoutInv, ListInv
<1>2. n \in Nat /\ DOMAIN new = 1 .. n
  OBVIOUS
<1>3. /\ list' \in Seq(Element) /\ Len(list') = Len(list) + n /\ DOMAIN list' = 1 .. Len(list) + n
      /\ \A k \in 1 .. i - 1 : list'[k] = list[k]
      /\ \A k \in Fresh : list'[k] = new[k - i + 1]
      /\ \A k \in i + n .. Len(list) + n : list'[k] = list[k - n]
  <2> DEFINE r == Inserted(list, i, new)
  <2>1. /\ r \in Seq(Element) /\ Len(r) = Len(list) + Len(new)
        /\ \A k \in 1 .. i - 1 : r[k] = list[k]
        /\ \A k \in i .. i + Len(new) - 1 : r[k] = new[k - i + 1]
        /\ \A k \in i + Len(new) .. Len(list) + Len(new) : r[k] = list[k - Len(new)]
    <3>1. list \in Seq(Element) /\ new \in Seq(Element) /\ i \in 1 .. Len(list)
      BY <1>1
    <3> HIDE DEF n
    <3>2. QED
      BY <3>1, InsertedIs
  <2> HIDE DEF r
  <2>2. list' = r
    BY DEF r
  <2>3. \A k \in Fresh : list'[k] = new[k - i + 1]
    BY <2>1, <2>2
  <2>4. \A k \in i + n .. Len(list) + n : list'[k] = list[k - n]
    BY <2>1, <2>2
  <2>5. list' \in Seq(Element) /\ Len(list') = Len(list) + n /\ \A k \in 1 .. i - 1 : list'[k] = list[k]
    BY <2>1, <2>2
  <2> HIDE DEF n, Fresh
  <2>6. DOMAIN list' = 1 .. Len(list')
    BY <2>5
  <2>7. QED
    BY <2>3, <2>4, <2>5, <2>6
<1>4. ASSUME NEW k \in DOMAIN list' \ Fresh
      PROVE  Old(k) \in DOMAIN list /\ list'[k] = list[Old(k)]
  <2>1. k \in 1 .. i - 1 \/ k \in i + n .. Len(list) + n
    BY <1>1, <1>2, <1>3
  <2>2. CASE k \in 1 .. i - 1
    BY <1>1, <1>3, <2>2
  <2>3. CASE k \in i + n .. Len(list) + n
    <3>1. ~(k < i) /\ k - n \in 1 .. Len(list)
      BY <1>1, <1>2, <2>3
    <3>2. list'[k] = list[k - n]
      BY <1>3, <2>3
    <3>3. QED
      BY <1>1, <3>1, <3>2
  <2>4. QED
    BY <2>1, <2>2, <2>3
<1>5. ASSUME NEW k \in Fresh
      PROVE  /\ k - i + 1 \in DOMAIN new /\ list'[k] = new[k - i + 1]
             /\ list'[k].id = -(Len(list) + (k - i + 1))
             /\ list'[k].kind \in {"alloca", "inst"}
  <2>1. list'[k] = new[k - i + 1]
    BY <1>3
  <2>2. k - i + 1 \in 1 .. n
    BY <1>2
  <2>3. k - i + 1 \in DOMAIN new
    BY <1>2, <2>2
  <2> HIDE DEF n, Fresh
  <2>4. QED
    BY <2>1, <2>3
<1>6. \A k \in DOMAIN list : list[k].id \in Int
  <2>1. \A k \in DOMAIN list : list[k] \in Element
    BY <1>1
  <2>2. QED
    BY <2>1 DEF Element
<1>7. \A k \in DOMAIN passes : Sort(passes[k]) = {"alloca", "inst"}
  <2>1. Sort(Pass) = {"alloca", "inst"} /\ Pass = passes[1] /\ 1 \in DOMAIN passes
    BY <1>1 DEF Sort, Pass
  <2>2. 1 \in DOMAIN list /\ list[1].kind \in {"alloca", "inst"}
    BY <1>1, <2>1
  <2>3. ASSUME NEW k \in DOMAIN passes PROVE Sort(passes[k]) = {"alloca", "inst"}
    <3>1. list[1].kind \in Sort(passes[k]) /\ passes[k] \in Passes
      BY <1>1, <2>2
    <3>2. QED
      BY <2>2, <3>1 DEF Sort, Passes
  <2>4. QED
    BY <2>3
<1>8. \A k \in DOMAIN list' : list'[k].kind \in {"alloca", "inst"}
  <2>1. \A k \in DOMAIN list : list[k].kind \in {"alloca", "inst"}
    <3>1. 1 \in DOMAIN passes
      BY <1>1
    <3>2. QED
      BY <1>1, <1>7, <3>1
  <2>2. QED
    BY <2>1, <1>4, <1>5
<1>9. ASSUME NEW k \in DOMAIN list' PROVE list'[k].id >= -Len(list')
  <2>1. CASE k \in Fresh
    <3>1. -(Len(list) + (k - i + 1)) >= -(Len(list) + n)
      BY <1>1, <1>2, <2>1
    <3>2. QED
      BY <1>3, <1>5, <2>1, <3>1
  <2>2. CASE k \notin Fresh
    <3>1. list'[k].id >= -Len(list) /\ list'[k].id \in Int
      BY <1>1, <1>4, <1>6, <2>2
    <3> DEFINE id == list'[k].id
    <3> HIDE DEF id
    <3>2. id >= -Len(list) /\ id \in Int
      BY <3>1 DEF id
    <3>3. id >= -(Len(list) + n)
      BY <1>1, <1>2, <3>2
    <3>4. QED
      BY <1>3, <3>3 DEF id
  <2>3. QED
    BY <2>1, <2>2
<1>10. IsInjective(list')
  <2>1. SUFFICES ASSUME NEW a \in DOMAIN list', NEW b \in DOMAIN list', list'[a] = list'[b]
                 PROVE  a = b
    BY DEF IsInjective
  <2>2. ASSUME NEW k \in DOMAIN list' \ Fresh, NEW l \in Fresh PROVE list'[k] # list'[l]
    <3>1. list'[k].id >= -Len(list) /\ list'[k].id \in Int
      BY <1>1, <1>4, <1>6
    <3>2. list'[l].id = -(Len(list) + (l - i + 1)) /\ l - i + 1 >= 1
      BY <1>2, <1>5
    <3>3. -(Len(list) + (l - i + 1)) < -Len(list)
      BY <1>1, <3>2
    <3>4. QED
      BY <1>1, <3>1, <3>2, <3>3
  <2>3. CASE a \in Fresh /\ b \in Fresh
    <3>1. -(Len(list) + (a - i + 1)) = -(Len(list) + (b - i + 1))
      <4>1. list'[a].id = -(Len(list) + (a - i + 1))
        BY <1>5, <2>3
      <4>2. list'[b].id = -(Len(list) + (b - i + 1))
        BY <1>5, <2>3
      <4>3. QED
        BY <4>1, <4>2, <2>1
    <3>2. a \in Int /\ b \in Int /\ i \in Int /\ Len(list) \in Int
      BY <1>1, <1>2, <2>3
    <3>3. QED
      BY <3>1, <3>2
  <2>4. CASE a \notin Fresh /\ b \notin Fresh
    <3>1. Old(a) = Old(b)
      BY <1>1, <1>4, <2>1, <2>4 DEF IsInjective
    <3>2. QED
      BY <1>2, <1>3, <2>4, <3>1
  <2>5. QED
    BY <2>1, <2>2, <2>3, <2>4
<1>11. list' # <<>> /\ \A k \in DOMAIN passes \ {1}, j \in DOMAIN list' : list'[j].kind \in Sort(passes[k])
  BY <1>1, <1>2, <1>3, <1>7, <1>8
<1>12. \A k \in DOMAIN list' : list'[k].id >= -Len(list') /\ (list'[k].kind = "entry" => k = 1)
  BY <1>8, <1>9
<1>13. QED
  BY <1>3, <1>10, <1>11, <1>12, EndPassStep

LEMMA PadStep ==
  ASSUME LayoutInv, Pad
  PROVE  LayoutInv'
<1>1. list \in Seq(Element) /\ list # <<>> /\ Len(list) \in Nat /\ FirstAlloca(list) \in 1 .. Len(list)
  BY FirstAllocaIn DEF LayoutInv, ListInv
<1>2. /\ Padding(list) \in Seq(Element)
      /\ \A k \in DOMAIN Padding(list) :
           Padding(list)[k].id = -(Len(list) + k) /\ Padding(list)[k].kind \in {"alloca", "inst"}
  <2>1. {"alloca", "inst"} \subseteq ElementKinds
    BY DEF ElementKinds, Sort, Passes
  <2>2. New(list, 1, "alloca") \in Element /\ New(list, 2, "inst") \in Element
    BY <1>1, <2>1 DEF New, Element
  <2>3. DOMAIN Padding(list) = 1 .. 2 /\ Padding(list)[1] = New(list, 1, "alloca") /\ Padding(list)[2] = New(list, 2, "inst")
    BY DEF Padding
  <2>4. \A k \in 1 .. 2 : k = 1 \/ k = 2
    OBVIOUS
  <2>5. Padding(list) \in Seq(Element)
    BY <2>2 DEF Padding
  <2>6. QED
    BY <2>3, <2>4, <2>5 DEF New
<1>3. QED
  BY <1>1, <1>2, InsertStep DEF Pad, Running

LEMMA InsertPrologueStep ==
  ASSUME LayoutInv, InsertPrologue
  PROVE  LayoutInv'
<1>1. list \in Seq(Element) /\ list # <<>> /\ Len(list) \in Nat /\ 1 \in 1 .. Len(list) /\ rets \in BOOLEAN
  BY DEF LayoutInv, ListInv
<1>2. /\ Prologue(list) \in Seq(Element)
      /\ \A k \in DOMAIN Prologue(list) :
           Prologue(list)[k].id = -(Len(list) + k) /\ Prologue(list)[k].kind \in {"alloca", "inst"}
  <2>1. {"alloca", "inst"} \subseteq ElementKinds
    BY DEF ElementKinds, Sort, Passes
  <2>2. New(list, 1, "inst") \in Element
    BY <1>1, <2>1 DEF New, Element
  <2>3. DOMAIN Prologue(list) = 1 .. 1 /\ Prologue(list)[1] = New(list, 1, "inst")
    BY DEF Prologue
  <2>4. Prologue(list) \in Seq(Element)
    BY <2>2 DEF Prologue
  <2>5. QED
    BY <2>3, <2>4 DEF New
<1>3. QED
  BY <1>1, <1>2, InsertStep DEF InsertPrologue, Running

LEMMA LayoutNext == LayoutInv /\ [Next]_vars => LayoutInv'
<1>1. SUFFICES ASSUME LayoutInv, [Next]_vars PROVE LayoutInv'
  OBVIOUS
<1>2. CASE Skip
  BY <1>1, <1>2, EndUnmoved DEF Skip
<1>3. CASE Shuffle
  BY <1>1, <1>3, ShuffleStep
<1>4. CASE PlaceFunction
  BY <1>1, <1>4, PlaceFunctionStep
<1>5. CASE PlaceBlock
  BY <1>1, <1>5, PlaceBlockStep
<1>6. CASE PlaceAlloca
  BY <1>1, <1>6, PlaceAllocaStep
<1>7. CASE EndShuffle
  <2>1. passes # <<>>
    BY <1>1, <1>7 DEF LayoutInv, EndShuffle
  <2>2. QED
    BY <1>1, <1>7, <2>1, EndUnmoved DEF EndShuffle
<1>8. CASE Pad
  BY <1>1, <1>8, PadStep
<1>9. CASE InsertPrologue
  BY <1>1, <1>9, InsertPrologueStep
<1>10. CASE UNCHANGED vars
  <2>1. /\ UNCHANGED <<list, passes, rets, pc, todo, prev, found, moved, changed>>
        /\ Collected(found)' = Collected(found) /\ Pass' = Pass /\ Anchor' = Anchor
    BY <1>10, Steady DEF vars
  <2>2. /\ ListInv(list)' = ListInv(list) /\ ListInv(found)' = ListInv(found)
        /\ VectorInv' = VectorInv /\ PrevInv' = PrevInv
        /\ PlacedInFront' = PlacedInFront /\ AllocasStayLeading' = AllocasStayLeading
    BY <2>1 DEF ListInv, VectorInv, PrevInv, PlacedInFront, AllocasStayLeading, Running
  <2>3. QED
    BY <1>1, <2>1, <2>2 DEF LayoutInv
<1>11. QED
  BY <1>1, <1>2, <1>3, <1>4, <1>5, <1>6, <1>7, <1>8, <1>9, <1>10 DEF Next, Finished

LEMMA LayoutInvariant == Spec => []LayoutInv
<1>1. QED
  BY LayoutInit, LayoutNext, PTL DEF Spec
-----------------------------------------------------------------------------
\* Whatever lists and passes, and whatever orders std::shuffle makes: no pass loses
\* an element or has one twice, and the vector holds elements of the list.
THEOREM TypeCorrect == Spec => []TypeOK
<1>1. LayoutInv => TypeOK
  <2>1. SUFFICES ASSUME LayoutInv PROVE TypeOK
    OBVIOUS
  <2>2. /\ list \in Seq(Element) /\ list # <<>> /\ IsInjective(list)
        /\ Elements(list) = Elements(found) /\ found \in Seq(Element)
        /\ changed \in BOOLEAN /\ rets \in BOOLEAN
    BY <2>1 DEF LayoutInv, ListInv
  <2>3. CASE pc = "start"
    <3>1. todo = <<>> /\ moved = <<>> /\ prev = None
      BY <2>1, <2>3 DEF LayoutInv
    <3>2. Elements(todo) = {} /\ Elements(moved) = {} /\ IsInjective(todo) /\ IsInjective(moved)
      BY <3>1 DEF Elements, IsInjective
    <3>3. QED
      BY <2>2, <2>3, <3>1, <3>2 DEF TypeOK
  <2>4. CASE pc # "start"
    <3>1. pc = "place" /\ VectorInv /\ PrevInv /\ PlacedInFront /\ Pass \in Shuffling /\ passes # <<>>
      BY <2>1, <2>4 DEF LayoutInv
    <3>2. Elements(todo) \cup Elements(moved) \subseteq Elements(list)
      BY <2>2, <3>1, CollectedIn DEF VectorInv
    <3>3. prev \in Elements(list) \cup {None}
      <4>1. /\ Len(moved) \in Nat /\ Len(list) \in Nat /\ Len(list) > 0 /\ DOMAIN list = 1 .. Len(list)
            /\ DOMAIN moved = 1 .. Len(moved)
        BY <2>2, <3>1 DEF VectorInv
      <4>2. CASE Pass = "func_rand" /\ Len(moved) # 0
        <5>1. Anchor = 0 /\ Len(moved) \in DOMAIN moved /\ Anchor + Len(moved) = Len(moved)
          BY <4>1, <4>2 DEF Anchor, Running
        <5>2. prev = list[Len(moved)] /\ list[Len(moved)] = moved[Len(moved)]
          BY <3>1, <4>2, <5>1 DEF PrevInv, PlacedInFront
        <5>3. moved[Len(moved)] \in Elements(moved)
          BY <5>1 DEF Elements
        <5>4. QED
          BY <3>2, <5>2, <5>3
      <4>3. CASE Pass = "bbrand"
        <5>1. Anchor = 1 /\ prev = list[Len(moved) + 1]
          BY <3>1, <4>3 DEF Anchor, Running, PrevInv
        <5>2. CASE Len(moved) = 0
          BY <4>1, <5>1, <5>2 DEF Elements
        <5>3. CASE Len(moved) # 0
          <6>1. Len(moved) \in DOMAIN moved /\ Anchor + Len(moved) = Len(moved) + 1
            BY <4>1, <5>1, <5>3
          <6>2. prev = moved[Len(moved)]
            BY <3>1, <5>1, <6>1 DEF PlacedInFront
          <6>3. moved[Len(moved)] \in Elements(moved)
            BY <6>1 DEF Elements
          <6>4. QED
            BY <3>2, <6>2, <6>3
        <5>4. QED
          BY <5>2, <5>3
      <4>4. CASE Pass = "stack_reorder" /\ Len(moved) < Len(list)
        <5>1. prev = list[Len(moved) + 1] /\ Len(moved) + 1 \in DOMAIN list
          BY <3>1, <4>1, <4>4 DEF PrevInv
        <5>2. QED
          BY <5>1 DEF Elements
      <4>5. CASE \/ Pass = "func_rand" /\ Len(moved) = 0
                 \/ Pass = "stack_reorder" /\ ~(Len(moved) < Len(list))
        BY <3>1, <4>5 DEF PrevInv
      <4>6. QED
        BY <3>1, <4>2, <4>3, <4>4, <4>5 DEF Shuffling
    <3>4. QED
      BY <2>2, <3>1, <3>2, <3>3 DEF TypeOK, VectorInv
  <2>5. QED
    BY <2>3, <2>4
<1>2. QED
  BY <1>1, LayoutInvariant, PTL

\* Halfway through its moves, too, a pass has the elements moved so far in their
\* shuffled order, without a gap, and all others in the order it found them in.
THEOREM MovedInOrder == Spec => []PlacedInFront
<1>1. LayoutInv => PlacedInFront
  BY DEF LayoutInv, PlacedInFront
<1>2. QED
  BY <1>1, LayoutInvariant, PTL

\* No pass puts a block in front of the entry block.
THEOREM EntryKept == Spec => []EntryStaysFirst
<1>1. LayoutInv => EntryStaysFirst
  BY DEF LayoutInv, ListInv, EntryStaysFirst
<1>2. QED
  BY <1>1, LayoutInvariant, PTL

\* stack_reorder permutes the leading run of allocas and touches nothing behind it.
THEOREM AllocasKept == Spec => []AllocasStayLeading
<1>1. LayoutInv => AllocasStayLeading
  <2>1. SUFFICES ASSUME LayoutInv, pc = "start" PROVE AllocasStayLeading
    BY DEF LayoutInv
  <2>2. list = found
    BY <2>1 DEF LayoutInv
  <2>3. list \in Seq(Element)
    BY <2>1 DEF LayoutInv, ListInv
  <2>4. LeadingAllocas(found) \in 0 .. Len(list) /\ Len(list) \in Nat
    BY <2>2, <2>3, LeadingRun
  <2>5. QED
    BY <2>2, <2>4 DEF AllocasStayLeading
<1>2. QED
  BY <1>1, LayoutInvariant, PTL

\* A pass that reports no change has left the list alone, but for the prologues of
\* shadow_stack in a module without a ret.
THEOREM ChangesReported == Spec => ReportedChanges
<1> DEFINE Reports == passes' # passes /\ ~changed' => list' = found \/ (Running("shadow_stack") /\ ~rets)
<1>1. ASSUME LayoutInv, [Next]_vars PROVE [Reports]_vars
  <2>1. CASE Skip
    <3>1. list' = list /\ list = found
      BY <1>1, <2>1 DEF Skip, LayoutInv
    <3>2. QED
      BY <3>1
  <2>2. CASE Shuffle
    BY <2>2 DEF Shuffle
  <2>3. CASE PlaceFunction \/ PlaceBlock \/ PlaceAlloca
    BY <2>3 DEF PlaceFunction, PlaceBlock, PlaceAlloca, Advance
  <2>4. CASE EndShuffle \/ Pad
    BY <2>4 DEF EndShuffle, Pad
  <2>5. CASE InsertPrologue
    BY <2>5 DEF InsertPrologue
  <2>6. CASE UNCHANGED vars
    BY <2>6
  <2>7. QED
    BY <1>1, <2>1, <2>2, <2>3, <2>4, <2>5, <2>6 DEF Next, Finished
<1>2. QED
  BY <1>1, LayoutInvariant, PTL DEF Spec, ReportedChanges
=============================================================================
