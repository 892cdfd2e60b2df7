-------------------------- MODULE InstReorderProofs --------------------------
(***************************************************************************)
(* What inst_reorder.cc does to a block of any length, whatever the random *)
(* choices: the invariants of InstReorder, proved from the maximal chains  *)
(* of swapped neighbours that partition the block.                         *)
(***************************************************************************)
EXTENDS InstReorder, TLAPS

\* Every position lies in a chain.
Covered == \A k \in 1 .. N : \E l, h \in 1 .. N : Chain(l, h) /\ l <= k /\ k <= h

\* The pairs still to come lie to the right of those already swapped.
LeftToRight ==
  /\ \A c \in chosen, i \in pending : c < i
  /\ pc = "collect" => chosen = {}
  /\ modified <=> chosen # {}

Types ==
  /\ block \in Blocks
  /\ order \in [1 .. N -> 1 .. N]
  /\ pc \in {"collect", "decide", "done"}
  /\ pending \subseteq reorderablePairs(block)
  /\ chosen \subseteq reorderablePairs(block) \ pending
  /\ modified \in BOOLEAN

ChainInv == Types /\ Covered /\ LeftToRight /\ ChainsReversed

LEMMA PairsInBlock ==
  ASSUME Types
  PROVE  /\ N \in Nat
         /\ \A i \in reorderablePairs(block) : i \in 1 .. N /\ i + 1 \in 1 .. N
<1>1. block \in Seq(Instruction)
  BY InstReorderAssumption DEF Types
<1>2. N \in Nat
  BY <1>1 DEF N
<1>3. QED
  BY <1>2 DEF reorderablePairs, N

\* Two chains that share a position are the same.
LEMMA ChainUnique ==
  ASSUME Types, NEW k \in 1 .. N,
         NEW l \in 1 .. N, NEW h \in 1 .. N, Chain(l, h), l <= k, k <= h,
         NEW a \in 1 .. N, NEW b \in 1 .. N, Chain(a, b), a <= k, k <= b
  PROVE  l = a /\ h = b
<1>1. N \in Nat
  BY PairsInBlock
<1>2. ~(l < a) /\ ~(a < l)
  <2>1. l < a => a - 1 \in l .. h - 1
    BY <1>1
  <2>2. a < l => l - 1 \in a .. b - 1
    BY <1>1
  <2>3. QED
    BY <2>1, <2>2 DEF Chain
<1>3. ~(h < b) /\ ~(b < h)
  <2>1. h < b => h \in a .. b - 1
    BY <1>1
  <2>2. b < h => b \in l .. h - 1
    BY <1>1
  <2>3. QED
    BY <2>1, <2>2 DEF Chain
<1>4. QED
  BY <1>1, <1>2, <1>3

\* A position and the instruction now there lie in the same chain, so no
\* instruction is at two positions.
LEMMA OrderInjective ==
  ASSUME ChainInv, NEW k \in 1 .. N, NEW m \in 1 .. N, order[k] = order[m]
  PROVE  k = m
<1>1. N \in Nat /\ Types
  BY PairsInBlock DEF ChainInv
<1>2. PICK l \in 1 .. N, h \in 1 .. N : Chain(l, h) /\ l <= k /\ k <= h
  BY DEF ChainInv, Covered
<1>3. PICK a \in 1 .. N, b \in 1 .. N : Chain(a, b) /\ a <= m /\ m <= b
  BY DEF ChainInv, Covered
<1>4. order[k] = l + h - k /\ order[m] = a + b - m
  BY <1>1, <1>2, <1>3 DEF ChainInv, ChainsReversed
<1>5. order[k] \in 1 .. N /\ l <= order[k] /\ order[k] <= h /\ a <= order[k] /\ order[k] <= b
  <2>1. order[k] \in 1 .. N
    BY DEF ChainInv, Types
  <2>2. k \in Int /\ m \in Int /\ l \in Int /\ h \in Int /\ a \in Int /\ b \in Int
    BY <1>1
  <2>3. l <= l + h - k /\ l + h - k <= h
    BY <2>2, <1>2
  <2>4. a <= a + b - m /\ a + b - m <= b
    BY <2>2, <1>3
  <2>5. QED
    BY <2>1, <2>3, <2>4, <1>4
<1>6. l = a /\ h = b
  BY <1>1, <1>2, <1>3, <1>5, ChainUnique
<1>7. k \in Int /\ m \in Int /\ l \in Int /\ h \in Int
  BY <1>1
<1>8. l + h - k = l + h - m
  BY <1>4, <1>6
<1>9. QED
  BY <1>7, <1>8

\* The next pair <<i, i + 1>>: i ends a chain, whose first position it is at
\* now, and i + 1 is a chain of its own.
LEMMA NextPair ==
  ASSUME ChainInv, NEW i \in pending
  PROVE  /\ i \in 1 .. N /\ i + 1 \in 1 .. N
         /\ i \notin chosen
         /\ Chain(i + 1, i + 1) \/ i + 1 \in chosen
         /\ \E l \in 1 .. N : Chain(l, i) /\ order[l] = i
<1>1. N \in Nat /\ Types
  BY PairsInBlock DEF ChainInv
<1>2. i \in 1 .. N /\ i + 1 \in 1 .. N /\ i \notin chosen
  BY <1>1, PairsInBlock DEF Types
<1>3. Chain(i + 1, i + 1) \/ i + 1 \in chosen
  BY <1>1, <1>2 DEF Chain
<1>4. PICK l \in 1 .. N, h \in 1 .. N : Chain(l, h) /\ l <= i /\ i <= h
  BY <1>2 DEF ChainInv, Covered
<1>5. h = i
  <2>1. i < h => i \in l .. h - 1
    BY <1>1, <1>2, <1>4
  <2>2. QED
    BY <1>1, <1>2, <1>4, <2>1 DEF Chain
<1>6. order[l] = i
  BY <1>1, <1>2, <1>4, <1>5 DEF ChainInv, ChainsReversed
<1>7. QED
  BY <1>2, <1>3, <1>4, <1>5, <1>6

\* Moving i + 1 before i puts it in front of the chain that i ends.
LEMMA SwapMoves ==
  ASSUME ChainInv, NEW i \in pending, NEW l \in 1 .. N, Chain(l, i)
  PROVE  LET moved == MoveBefore(order, i + 1, i)
         IN  /\ moved \in [1 .. N -> 1 .. N]
             /\ moved[l] = i + 1
             /\ \A k \in 1 .. N : l < k /\ k <= i + 1 => moved[k] = order[k - 1]
             /\ \A k \in 1 .. N : k < l \/ i + 1 < k => moved[k] = order[k]
<1>1. /\ N \in Nat /\ Types /\ i \in 1 .. N /\ i + 1 \in 1 .. N /\ l <= i
      /\ order \in [1 .. N -> 1 .. N]
  BY PairsInBlock, NextPair DEF ChainInv, Types, Chain
<1>2. order[l] = i
  BY <1>1 DEF ChainInv, ChainsReversed
<1>3. order[i + 1] = i + 1
  <2>1. i + 1 \notin chosen
    BY <1>1 DEF ChainInv, LeftToRight
  <2>2. Chain(i + 1, i + 1)
    BY <2>1, NextPair
  <2>3. QED
    BY <1>1, <2>2 DEF ChainInv, ChainsReversed
<1>4. IndexOf(order, i) = l /\ IndexOf(order, i + 1) = i + 1
  <2>1. \A k \in 1 .. N : (order[k] = i => k = l) /\ (order[k] = i + 1 => k = i + 1)
    BY <1>1, <1>2, <1>3, OrderInjective
  <2>2. DOMAIN order = 1 .. N
    BY <1>1
  <2>3. QED
    BY <1>1, <1>2, <1>3, <2>1, <2>2 DEF IndexOf
<1>5. Len(order) = N
  BY <1>1
<1>6. MoveBefore(order, i + 1, i) = Moved(order, i + 1, l)
  BY <1>1, <1>4 DEF MoveBefore
<1>7. Moved(order, i + 1, l) =
        [k \in 1 .. N |-> IF k = l THEN i + 1
                          ELSE IF l < k /\ k <= i + 1 THEN order[k - 1] ELSE order[k]]
  <2>1. \A k \in 1 .. N : ~(i + 1 <= k /\ k < l)
    BY <1>1
  <2>2. QED
    BY <1>1, <1>3, <1>5, <2>1 DEF Moved
<1>8. \A k \in 1 .. N : l < k /\ k <= i + 1 => k - 1 \in 1 .. N
  BY <1>1
<1> DEFINE mv == MoveBefore(order, i + 1, i)
<1>9. mv = [k \in 1 .. N |-> IF k = l THEN i + 1
                             ELSE IF l < k /\ k <= i + 1 THEN order[k - 1] ELSE order[k]]
  BY <1>6, <1>7
<1> HIDE DEF mv
<1>10. mv \in [1 .. N -> 1 .. N]
  BY <1>1, <1>8, <1>9
<1>11. mv[l] = i + 1 /\ \A k \in 1 .. N : l < k /\ k <= i + 1 => mv[k] = order[k - 1]
  BY <1>1, <1>9
<1>12. \A k \in 1 .. N : k < l \/ i + 1 < k => mv[k] = order[k]
  BY <1>1, <1>9
<1>13. QED
  BY <1>10, <1>11, <1>12 DEF mv

-----------------------------------------------------------------------------
(* The invariant.                                                           *)

LEMMA ChainInit == Init => ChainInv
<1>1. SUFFICES ASSUME Init PROVE ChainInv
  OBVIOUS
<1>2. N \in Nat
  <2>1. block \in Seq(Instruction)
    BY <1>1, InstReorderAssumption DEF Init
  <2>2. QED
    BY <2>1 DEF N
<1>3. Types
  BY <1>1, <1>2 DEF Init, Types, N
<1>4. \A k \in 1 .. N : Chain(k, k)
  BY <1>1, <1>2 DEF Init, Chain
<1>5. Covered
  BY <1>2, <1>4 DEF Covered
<1>6. \A l, h \in 1 .. N : Chain(l, h) => l = h
  BY <1>1, <1>2 DEF Init, Chain
<1>7. ChainsReversed
  <2>1. ASSUME NEW l \in 1 .. N, NEW h \in 1 .. N, Chain(l, h), NEW k \in l .. h
        PROVE  order[k] = l + h - k
    <3>1. l = h /\ k = l
      BY <1>2, <1>6, <2>1
    <3>2. order[k] = k
      BY <1>1, <3>1 DEF Init, N
    <3>3. QED
      BY <1>2, <3>1, <3>2
  <2>2. QED
    BY <2>1 DEF ChainsReversed
<1>8. LeftToRight
  BY <1>1 DEF Init, LeftToRight
<1>9. QED
  BY <1>3, <1>5, <1>7, <1>8 DEF ChainInv

\* A step that swaps nothing leaves every chain as it is.
LEMMA NoSwap ==
  ASSUME ChainInv, UNCHANGED <<block, order, chosen, modified>>, Types', LeftToRight'
  PROVE  ChainInv'
<1>1. N' = N
  BY DEF N
<1>2. \A l, h : Chain(l, h)' <=> Chain(l, h)
  BY <1>1 DEF Chain
<1>3. Covered' /\ ChainsReversed'
  BY <1>1, <1>2 DEF ChainInv, Covered, ChainsReversed
<1>4. QED
  BY <1>3 DEF ChainInv

\* A swap joins the chain that i ends and the chain i + 1 into one.
LEMMA SwapChains ==
  ASSUME ChainInv, NEW i \in pending, NEW l \in 1 .. N, Chain(l, i), Swap(i)
  PROVE  /\ N' = N /\ i + 1 \in 1 .. N
         /\ Chain(l, i + 1)'
         /\ \A a, b \in 1 .. N :
              Chain(a, b)' => (a = l /\ b = i + 1) \/ (Chain(a, b) /\ (b < l \/ i + 1 < a))
         /\ \A a, b \in 1 .. N : Chain(a, b) /\ (b < l \/ i + 1 < a) => Chain(a, b)'
<1>1. /\ N \in Nat /\ Types /\ i \in 1 .. N /\ i + 1 \in 1 .. N /\ i \notin chosen
      /\ N' = N /\ chosen' = chosen \cup {i}
  BY PairsInBlock, NextPair DEF ChainInv, Swap, N
<1>2. \A c \in chosen : c < i
  BY DEF ChainInv, LeftToRight
<1>3. /\ l \in 1 .. N /\ l <= i /\ l - 1 \notin chosen
      /\ \A k \in l .. i - 1 : k \in chosen
  BY <1>1 DEF Chain
<1>4. Chain(l, i + 1)'
  <2>1. l .. i + 1 - 1 \subseteq chosen'
    BY <1>1, <1>3
  <2>2. l - 1 \notin chosen' /\ i + 1 \notin chosen'
    BY <1>1, <1>2, <1>3
  <2>3. QED
    BY <1>1, <1>3, <2>1, <2>2 DEF Chain
<1>5. ASSUME NEW a \in 1 .. N, NEW b \in 1 .. N, Chain(a, b)'
      PROVE  (a = l /\ b = i + 1) \/ (Chain(a, b) /\ (b < l \/ i + 1 < a))
  <2>1. /\ a <= b /\ a - 1 \notin chosen /\ b \notin chosen /\ a - 1 # i /\ b # i
        /\ \A k \in a .. b - 1 : k \in chosen \/ k = i
    BY <1>1, <1>5 DEF Chain
  <2>2. CASE i \in a .. b - 1
    <3>1. b = i + 1
      <4>1. i + 1 < b => i + 1 \in a .. b - 1
        BY <1>1, <2>2
      <4>2. i + 1 \notin chosen /\ i + 1 # i
        BY <1>1, <1>2
      <4>3. QED
        BY <1>1, <2>1, <2>2, <4>1, <4>2
    <3>2. Chain(a, i)
      BY <1>1, <2>1, <2>2 DEF Chain
    <3>3. a = l
      BY <1>1, <1>3, <2>2, <3>2, ChainUnique
    <3>4. QED
      BY <3>1, <3>3
  <2>3. CASE i \notin a .. b - 1
    <3>1. Chain(a, b)
      BY <1>1, <2>1, <2>3 DEF Chain
    <3>2. b < i \/ i < a
      BY <1>1, <2>1, <2>3
    <3>3. b < i => b < l
      <4>1. b < i /\ l <= b => b \in l .. i - 1
        BY <1>1
      <4>2. QED
        BY <1>1, <1>3, <2>1, <4>1
    <3>4. i < a => i + 1 < a
      BY <1>1, <2>1
    <3>5. QED
      BY <3>1, <3>2, <3>3, <3>4
  <2>4. QED
    BY <2>2, <2>3
<1>6. ASSUME NEW a \in 1 .. N, NEW b \in 1 .. N, Chain(a, b), b < l \/ i + 1 < a
      PROVE  Chain(a, b)'
  <2>1. b # i /\ a - 1 # i
    BY <1>1, <1>3, <1>6 DEF Chain
  <2>2. QED
    BY <1>1, <1>6, <2>1 DEF Chain
<1>7. QED
  BY <1>1, <1>4, <1>5, <1>6

LEMMA SwapInv ==
  ASSUME ChainInv, NEW i \in pending, Swap(i)
  PROVE  ChainInv'
<1>1. PICK l \in 1 .. N : Chain(l, i)
  BY NextPair
<1>2. /\ N \in Nat /\ Types /\ i \in 1 .. N /\ i + 1 \in 1 .. N /\ l <= i
  BY <1>1, PairsInBlock, NextPair DEF ChainInv, Chain
<1>3. /\ N' = N
      /\ Chain(l, i + 1)'
      /\ \A a, b \in 1 .. N :
           Chain(a, b)' => (a = l /\ b = i + 1) \/ (Chain(a, b) /\ (b < l \/ i + 1 < a))
      /\ \A a, b \in 1 .. N : Chain(a, b) /\ (b < l \/ i + 1 < a) => Chain(a, b)'
  BY <1>1, SwapChains
<1>4. /\ order' \in [1 .. N -> 1 .. N]
      /\ order'[l] = i + 1
      /\ \A k \in 1 .. N : l < k /\ k <= i + 1 => order'[k] = order[k - 1]
      /\ \A k \in 1 .. N : k < l \/ i + 1 < k => order'[k] = order[k]
  BY <1>1, SwapMoves DEF Swap
<1>5. Types'
  <2>1. block' = block /\ pc' = pc /\ reorderablePairs(block)' = reorderablePairs(block)
    BY DEF Swap
  <2>2. order' \in [1 .. N' -> 1 .. N']
    BY <1>3, <1>4
  <2>3. /\ pending' \subseteq reorderablePairs(block)
        /\ chosen' \subseteq reorderablePairs(block) \ pending'
        /\ modified' \in BOOLEAN
    BY <1>2 DEF Types, Swap
  <2>4. QED
    BY <1>2, <2>1, <2>2, <2>3 DEF Types
<1>6. LeftToRight'
  <2>1. /\ \A c \in chosen : c < i
        /\ \A j \in pending : i <= j /\ j \in 1 .. N
    BY <1>2, PairsInBlock DEF ChainInv, LeftToRight, Swap, First, Types
  <2>2. \A c \in chosen', j \in pending' : c < j
    BY <1>2, <2>1 DEF Swap, ChainInv, LeftToRight
  <2>3. QED
    BY <2>2 DEF LeftToRight, Swap
<1>7. Covered'
  <2>1. ASSUME NEW k \in 1 .. N
        PROVE  \E a, b \in 1 .. N : Chain(a, b)' /\ a <= k /\ k <= b
    <3>1. CASE l <= k /\ k <= i + 1
      BY <1>2, <1>3, <3>1
    <3>2. CASE k < l \/ i + 1 < k
      <4>1. PICK a \in 1 .. N, b \in 1 .. N : Chain(a, b) /\ a <= k /\ k <= b
        BY DEF ChainInv, Covered
      <4>2. b < l \/ i + 1 < a
        <5>1. a <= l /\ l <= b => a = l /\ b = i
          BY <1>1, <1>2, <4>1, ChainUnique
        <5>2. a <= i + 1 /\ i + 1 <= b /\ l < a => a = i + 1
          <6>1. i \notin chosen
            BY NextPair
          <6>2. a <= i /\ i + 1 <= b => i \in a .. b - 1
            BY <1>2
          <6>3. QED
            BY <1>2, <4>1, <6>1, <6>2 DEF Chain
        <5>3. i + 1 < b /\ a = i + 1 => i + 1 \in chosen
          BY <1>2, <4>1 DEF Chain
        <5>4. i + 1 \notin chosen
          BY <1>2 DEF ChainInv, LeftToRight
        <5>5. a \in l + 1 .. i => a - 1 \in l .. i - 1
          BY <1>2
        <5>6. a \notin l + 1 .. i
          BY <1>1, <4>1, <5>5 DEF Chain
        <5>7. QED
          BY <1>2, <3>2, <4>1, <5>1, <5>2, <5>3, <5>4, <5>6
      <4>3. QED
        BY <1>3, <4>1, <4>2
    <3>3. QED
      BY <1>2, <3>1, <3>2
  <2>2. QED
    BY <1>3, <2>1 DEF Covered
<1>8. ChainsReversed'
  <2>1. ASSUME NEW a \in 1 .. N, NEW b \in 1 .. N, Chain(a, b)', NEW k \in a .. b
        PROVE  order'[k] = a + b - k
    <3>1. k \in 1 .. N /\ a <= k /\ k <= b
      BY <1>2
    <3>2. CASE a = l /\ b = i + 1
      <4>1. CASE k = l
        BY <1>2, <1>4, <3>2, <4>1
      <4>2. CASE l < k
        <5>1. k - 1 \in l .. i
          BY <1>2, <3>2, <4>2
        <5>2. order[k - 1] = l + i - (k - 1)
          BY <1>1, <1>2, <5>1 DEF ChainInv, ChainsReversed
        <5>3. order'[k] = order[k - 1]
          <6>1. k <= i + 1
            BY <3>1, <3>2
          <6>2. QED
            BY <1>4, <3>1, <4>2, <6>1
        <5>4. QED
          BY <1>2, <3>1, <3>2, <5>2, <5>3
      <4>3. QED
        BY <1>2, <3>1, <3>2, <4>1, <4>2
    <3>3. CASE Chain(a, b) /\ (b < l \/ i + 1 < a)
      <4>1. order[k] = a + b - k
        BY <3>3 DEF ChainInv, ChainsReversed
      <4>2. k < l \/ i + 1 < k
        BY <1>2, <3>1, <3>3
      <4>3. QED
        BY <1>4, <3>1, <4>1, <4>2
    <3>4. QED
      BY <1>3, <2>1, <3>2, <3>3
  <2>2. QED
    BY <1>3, <2>1 DEF ChainsReversed
<1>9. QED
  BY <1>5, <1>6, <1>7, <1>8 DEF ChainInv

LEMMA ChainNext == ChainInv /\ [Next]_vars => ChainInv'
<1>1. SUFFICES ASSUME ChainInv, [Next]_vars PROVE ChainInv'
  OBVIOUS
<1>2. Types /\ LeftToRight
  BY <1>1 DEF ChainInv
<1>3. CASE Collect
  <2>1. Types'
    BY <1>2, <1>3 DEF Collect, Types, N, LeftToRight
  <2>2. LeftToRight'
    BY <1>2, <1>3 DEF Collect, LeftToRight
  <2>3. QED
    BY <1>1, <1>3, <2>1, <2>2, NoSwap DEF Collect
<1>4. ASSUME NEW i \in pending, Swap(i) PROVE ChainInv'
  BY <1>1, <1>4, SwapInv
<1>5. ASSUME NEW i \in pending, Keep(i) PROVE ChainInv'
  <2>1. Types'
    BY <1>2, <1>5 DEF Keep, Types, N
  <2>2. LeftToRight'
    BY <1>2, <1>5 DEF Keep, LeftToRight
  <2>3. QED
    BY <1>1, <1>5, <2>1, <2>2, NoSwap DEF Keep
<1>6. CASE Finish \/ UNCHANGED vars
  <2>1. Types'
    BY <1>2, <1>6 DEF Finish, vars, Types, N
  <2>2. LeftToRight'
    BY <1>2, <1>6 DEF Finish, vars, LeftToRight
  <2>3. QED
    BY <1>1, <1>6, <2>1, <2>2, NoSwap DEF Finish, vars
<1>7. QED
  BY <1>1, <1>3, <1>4, <1>5, <1>6 DEF Next, Done

LEMMA ChainInvariant == Spec => []ChainInv
<1>1. Init => ChainInv
  BY ChainInit
<1>2. ChainInv /\ [Next]_vars => ChainInv'
  BY ChainNext
<1>3. QED
  BY <1>1, <1>2, PTL DEF Spec

-----------------------------------------------------------------------------
(* What follows from it.                                                    *)

\* The block stays a permutation of its instructions.
THEOREM BlockIsPermuted == Spec => []TypeOK
<1>1. ChainInv => TypeOK
  <2>1. SUFFICES ASSUME ChainInv PROVE TypeOK
    OBVIOUS
  <2>2. \A k, m \in 1 .. N : order[k] = order[m] => k = m
    BY <2>1, OrderInjective
  <2>3. QED
    BY <2>1, <2>2 DEF ChainInv, Types, TypeOK
<1>2. QED
  BY <1>1, ChainInvariant, PTL

\* Whatever the random choices, the pass reverses maximal runs of chosen pairs.
THEOREM SwapsReverseChains == Spec => []ChainsReversed
<1>1. ChainInv => ChainsReversed
  BY DEF ChainInv
<1>2. QED
  BY <1>1, ChainInvariant, PTL

\* No random choice moves anything past an alloca, a PHI, a call or a terminator.
THEOREM WallsHold == Spec => []WallsNeverCrossed
<1>1. ChainInv => WallsNeverCrossed
  <2>1. SUFFICES ASSUME ChainInv, NEW w \in 1 .. N, block[w].kind \in Walls
                 PROVE  /\ order[w] = w
                        /\ \A k \in 1 .. N : k < w => order[k] < w
    BY DEF WallsNeverCrossed
  <2>2. N \in Nat /\ Types
    BY <2>1, PairsInBlock DEF ChainInv
  <2>3. w \notin reorderablePairs(block) /\ w - 1 \notin reorderablePairs(block)
    BY <2>1, <2>2 DEF reorderablePairs, canReorder
  <2>4. w \notin chosen /\ w - 1 \notin chosen
    BY <2>2, <2>3 DEF Types
  <2>5. order[w] = w
    <3>1. Chain(w, w)
      BY <2>2, <2>4 DEF Chain
    <3>2. QED
      BY <2>1, <2>2, <3>1 DEF ChainInv, ChainsReversed
  <2>6. ASSUME NEW k \in 1 .. N, k < w
        PROVE  order[k] < w
    <3>1. PICK a \in 1 .. N, b \in 1 .. N : Chain(a, b) /\ a <= k /\ k <= b
      BY <2>1 DEF ChainInv, Covered
    <3>2. w <= b => w - 1 \in a .. b - 1
      BY <2>2, <2>6, <3>1
    <3>3. b < w
      BY <2>2, <2>4, <3>1, <3>2 DEF Chain
    <3>4. order[k] = a + b - k
      BY <2>1, <2>2, <3>1 DEF ChainInv, ChainsReversed
    <3>5. QED
      BY <2>2, <3>1, <3>3, <3>4
  <2>7. QED
    BY <2>5, <2>6
<1>2. QED
  BY <1>1, ChainInvariant, PTL

\* canReorder never passes a pair of which the second depends on the first.
LEMMA ReorderableIndependent ==
  ASSUME NEW b, NEW i, NEW j, b[i] \in Instruction, b[j] \in Instruction, canReorder(b, i, j)
  PROVE  ~Depends(b, i, j)
<1>1. i \notin b[j].uses /\ b[i].kind \notin Walls /\ b[j].kind \notin Walls
  BY DEF canReorder, dependsOn
<1>2. CASE ~mayWriteToMemory(b[i]) /\ ~mayWriteToMemory(b[j])
  BY <1>1, <1>2 DEF mayWriteToMemory, Depends, Writes
<1>3. CASE definitelyDifferentMemory(getPointer(b[i]), getPointer(b[j]))
  <2>1. /\ b[i].kind \in {"load", "store"} /\ b[j].kind \in {"load", "store"}
        /\ b[i].ptr \in Allocas \cup Globals /\ b[j].ptr \in Allocas \cup Globals
        /\ b[i].ptr # b[j].ptr
    BY <1>3 DEF definitelyDifferentMemory, getPointer
  <2>2. Touches(b[i]) = {b[i].ptr} /\ Touches(b[j]) = {b[j].ptr}
    BY <2>1 DEF Touches, getPointer
  <2>3. QED
    BY <1>1, <2>1, <2>2 DEF Depends
<1>4. QED
  BY <1>2, <1>3 DEF canReorder

\* As long as no instruction takes part in two swaps, dependences keep their order.
THEOREM LoneSwapsAreSafe == Spec => []SafeWithoutOverlap
<1>1. ChainInv => SafeWithoutOverlap
  <2>1. SUFFICES ASSUME ChainInv, \A i \in chosen : i + 1 \notin chosen,
                        NEW k \in 1 .. N, NEW m \in 1 .. N, k < m, order[m] < order[k]
                 PROVE  ~Depends(block, order[m], order[k])
    BY DEF SafeWithoutOverlap, KeepsOrder
  <2>2. N \in Nat /\ Types /\ block \in Seq(Instruction)
    BY <2>1, PairsInBlock, InstReorderAssumption DEF ChainInv, Types
  <2>3. PICK a \in 1 .. N, b \in 1 .. N : Chain(a, b) /\ a <= k /\ k <= b
    BY <2>1 DEF ChainInv, Covered
  <2>4. PICK c \in 1 .. N, d \in 1 .. N : Chain(c, d) /\ c <= m /\ m <= d
    BY <2>1 DEF ChainInv, Covered
  <2>5. order[k] = a + b - k /\ order[m] = c + d - m
    BY <2>1, <2>2, <2>3, <2>4 DEF ChainInv, ChainsReversed
  <2>6. a = c /\ b = d
    <3>1. a + b - k <= b /\ c <= c + d - m
      BY <2>2, <2>3, <2>4
    <3>2. c < b
      BY <2>1, <2>2, <2>5, <3>1
    <3>3. CASE c <= k
      BY <2>1, <2>2, <2>3, <2>4, <3>3, ChainUnique
    <3>4. CASE k < c
      BY <2>2, <2>3, <2>4, <3>2, <3>4, ChainUnique
    <3>5. QED
      BY <2>2, <3>3, <3>4
  <2>7. b = a + 1 /\ a \in chosen
    <3>1. a \in a .. b - 1
      BY <2>1, <2>2, <2>3, <2>4, <2>6
    <3>2. a \in chosen
      BY <2>3, <3>1 DEF Chain
    <3>3. a + 1 < b => a + 1 \in a .. b - 1
      BY <2>2
    <3>4. QED
      BY <2>1, <2>2, <2>3, <3>1, <3>2, <3>3 DEF Chain
  <2>8. order[k] = a + 1 /\ order[m] = a
    BY <2>1, <2>2, <2>3, <2>4, <2>5, <2>6, <2>7
  <2>9. canReorder(block, a, a + 1)
    BY <2>2, <2>7 DEF Types, reorderablePairs
  <2>10. block[a] \in Instruction /\ block[a + 1] \in Instruction
    BY <2>2, <2>7 DEF N
  <2>11. QED
    BY <2>8, <2>9, <2>10, ReorderableIndependent
<1>2. QED
  BY <1>1, ChainInvariant, PTL

\* The pass reports a change exactly when there is one.
THEOREM ModifiedIsExact == Spec => []ModifiedExact
<1>1. ChainInv => ModifiedExact
  <2>1. SUFFICES ASSUME ChainInv PROVE chosen # {} <=> \E k \in 1 .. N : order[k] # k
    BY DEF ModifiedExact, ChainInv, LeftToRight
  <2>2. N \in Nat /\ Types
    BY <2>1, PairsInBlock DEF ChainInv
  <2>3. ASSUME chosen = {}, NEW k \in 1 .. N
        PROVE  order[k] = k
    <3>1. Chain(k, k)
      BY <2>2, <2>3 DEF Chain
    <3>2. QED
      BY <2>1, <2>2, <3>1 DEF ChainInv, ChainsReversed
  <2>4. ASSUME NEW i \in chosen
        PROVE  \E k \in 1 .. N : order[k] # k
    <3>1. i \in 1 .. N
      BY <2>2, PairsInBlock DEF Types
    <3>2. PICK a \in 1 .. N, b \in 1 .. N : Chain(a, b) /\ a <= i /\ i <= b
      BY <2>1, <3>1 DEF ChainInv, Covered
    <3>3. a < b
      BY <2>2, <3>1, <3>2 DEF Chain
    <3>4. order[a] = b
      BY <2>1, <2>2, <3>2, <3>3 DEF ChainInv, ChainsReversed
    <3>5. QED
      BY <2>2, <3>3, <3>4
  <2>5. QED
    BY <2>3, <2>4
<1>2. QED
  BY <1>1, ChainInvariant, PTL
=============================================================================
