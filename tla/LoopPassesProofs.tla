-------------------------- MODULE LoopPassesProofs ---------------------------
(***************************************************************************)
(* What loop_split.cc and loop_flatten.cc make of any loop and any nest,   *)
(* in words of any size: the invariants of LoopPasses, proved from how the *)
(* new loops adjoin and how far the one that runs has come.                *)
(***************************************************************************)
EXTENDS LoopPasses, TLAPS

Word == -Half .. Half - 1
Range == [start : Word, end : Word]

Types ==
  /\ nest \in Nests
  /\ found \in Nat \X Nat
  /\ code \in Seq(Range)
  /\ at \in Nat \ {0}
  /\ i \in Word
  /\ pc \in {"pass", "header", "body", "latch", "exit", "returned", "broken"}
  /\ out \in Seq(Int)
  /\ heads \in Seq(Int)
  /\ pairs \in Seq(Nat \X Nat)
  /\ pc # "pass" => at <= Len(code)
  /\ pc = "pass" => at = 1 /\ i = 0
  /\ pc \in {"pass", "broken"} => out = <<>> /\ heads = <<>> /\ pairs = <<>>
  /\ pc # "pass" /\ nest.pass = "loop_flatten" => found \in (1 .. 100) \X (1 .. 100)

Last == code[Len(code)].end

\* loop_split's loops adjoin, from 0 to one of the bounds; loop_flatten's is one, which
\* ends at the product, if that is a word, and else at what is left of it.
Adjoin ==
  pc # "pass" =>
    /\ code[1].start = 0
    /\ \A k \in 1 .. Len(code) - 1 : code[k + 1].start = code[k].end
    /\ nest.pass = "loop_split" =>
         /\ \A k \in DOMAIN code : code[k].start <= code[k].end /\ code[k].end <= Last
         /\ Last \in nest.cmps
    /\ nest.pass = "loop_flatten" => Len(code) = 1 /\ Last = Wrap(found[1] * found[2])

\* Where the loop that runs is: a product that has wrapped may lie in front of its start.
Inside ==
  /\ pc = "header" =>
       /\ code[at].start <= i
       /\ i <= code[at].end \/ (nest.pass = "loop_flatten" /\ i = 0)
  /\ pc \in {"body", "latch"} => code[at].start <= i /\ i < code[at].end

\* The codes of the headers run so far: one per value of i and one per loop entered.
HeadsRun ==
  /\ nest.pass = "loop_flatten" => heads = <<>>
  /\ \A k \in 1 .. Len(heads) - 1 :
       \/ heads[k + 1] = heads[k] + 1
       \/ heads[k + 1] = heads[k] /\ \E r \in 2 .. Len(code) : code[r].start = heads[k]
  /\ nest.pass = "loop_split" =>
       /\ pc = "header" =>
            /\ Len(heads) = i + at - 1
            /\ heads # <<>> =>
                 \/ i = heads[Len(heads)] + 1
                 \/ i = heads[Len(heads)] /\ \E r \in 2 .. Len(code) : code[r].start = i
       /\ pc \in {"body", "latch"} => Len(heads) = i + at /\ heads[Len(heads)] = i
       /\ pc = "exit" /\ i = Last => Len(heads) = i + Len(code)

\* The codes of the bodies run so far: one per value of i.
BodiesRun ==
  /\ nest.pass = "loop_flatten" => out = <<>>
  /\ nest.pass = "loop_split" =>
       /\ pc = "body" => Bodies(nest.shape) # {}
       /\ \A k \in DOMAIN out : out[k] = k - 1
       /\ pc \in {"header", "body"} => Len(out) = i
       /\ pc = "latch" => Len(out) = IF Bodies(nest.shape) = {} THEN i ELSE i + 1

Pair(k) == <<(k - 1) \div found[2], (k - 1) % found[2]>>

\* The codes of the inner header run so far: one per value of i.
PairsRun ==
  /\ nest.pass = "loop_split" => pairs = <<>>
  /\ nest.pass = "loop_flatten" =>
       /\ \A k \in DOMAIN pairs : pairs[k] = Pair(k)
       /\ pc \in {"header", "body", "exit", "returned"} => Len(pairs) = i
       /\ pc = "latch" => Len(pairs) = i + 1
       /\ pc \in {"exit", "returned"} => Last <= i /\ (i = Last \/ i = 0)

\* Where the source leaves the loop, the new loops do.
LeftInTime ==
  nest.pass = "loop_split" /\ OwnBound =>
    /\ nest.exit = "body" =>
         /\ pc \in {"header", "body"} => i < nest.n
         /\ pc = "latch" => i < nest.n - 1
    /\ pc \in {"exit", "returned"} => Len(out) = nest.n

LoopInv == Types /\ Adjoin /\ Inside /\ HeadsRun /\ BodiesRun /\ PairsRun /\ LeftInTime

LEMMA LoopFacts ==
  ASSUME nest \in Nests
  PROVE  /\ nest.pass \in {"loop_split", "loop_flatten"}
         /\ nest.n \in 0 .. Half - 1
         /\ nest.cmps \subseteq 0 .. Half - 1
         /\ nest.halfJ \in Nat /\ nest.cmpsJ \subseteq 0 .. nest.halfJ - 1
         /\ nest.exit \in {"header", "body", "latch"}
         /\ nest.exit = "body" => nest.n > 0 /\ Bodies(nest.shape) # {}
BY LoopAssumption

LEMMA WrapInWord == ASSUME NEW x \in Int PROVE Wrap(x) \in Word
<1> DEFINE y == x + Half
           z == 2 * Half
<1>1. y \in Int /\ z \in Nat /\ z > 0 /\ Half \in Nat
  BY LoopAssumption
<1>2. y % z \in 0 .. z - 1
  <2> HIDE DEF y, z
  <2> QED
    BY <1>1
<1>3. Wrap(x) = (y % z) - Half
  BY DEF Wrap
<1>4. QED
  <2> HIDE DEF y
  <2> QED
    BY <1>1, <1>2, <1>3 DEF Word

LEMMA WrapWithin == ASSUME NEW x \in Word PROVE Wrap(x) = x
<1> DEFINE y == x + Half
           z == 2 * Half
<1>1. y \in 0 .. z - 1 /\ z \in Nat /\ z > 0 /\ Half \in Nat /\ x \in Int
  BY LoopAssumption DEF Word
<1>2. y % z = y
  <2> HIDE DEF y, z
  <2> QED
    BY <1>1
<1>3. QED
  BY <1>1, <1>2 DEF Wrap

\* The ranges of loop_split, one by one.
LEMMA SplitRanges ==
  ASSUME NEW N \in 4 .. Half - 1, NEW splits \in {2, 3}
  PROVE  Between(splitPoints(N, splits)) =
           IF splits = 2
             THEN <<[start |-> 0, end |-> N \div 2], [start |-> N \div 2, end |-> N]>>
             ELSE <<[start |-> 0, end |-> N \div 3], [start |-> N \div 3, end |-> (2 * N) \div 3],
                    [start |-> (2 * N) \div 3, end |-> N]>>
<1>1. Half \in Nat /\ N \in Word /\ 0 \in Word
  BY LoopAssumption DEF Word
<1>2. N \div 2 \in Word /\ N \div 3 \in Word /\ (2 * N) \div 3 \in Word
  BY <1>1 DEF Word
<1>3. Wrap(0) = 0 /\ Wrap(N) = N /\ Wrap(N \div 2) = N \div 2 /\ Wrap(N \div 3) = N \div 3
      /\ Wrap((2 * N) \div 3) = (2 * N) \div 3
  BY <1>1, <1>2, WrapWithin
<1>4. CASE splits = 2
  <2>1. splitPoints(N, splits) = <<0, N \div 2, N>>
    BY <1>4 DEF splitPoints
  <2>2. Between(<<0, N \div 2, N>>) = <<[start |-> 0, end |-> N \div 2], [start |-> N \div 2, end |-> N]>>
    BY <1>3 DEF Between
  <2>3. QED
    BY <2>1, <2>2, <1>4
<1>5. CASE splits = 3
  <2>1. splitPoints(N, splits) = <<0, N \div 3, (2 * N) \div 3, N>>
    BY <1>5 DEF splitPoints
  <2>2. Between(<<0, N \div 3, (2 * N) \div 3, N>>) =
          <<[start |-> 0, end |-> N \div 3], [start |-> N \div 3, end |-> (2 * N) \div 3],
            [start |-> (2 * N) \div 3, end |-> N]>>
    BY <1>3 DEF Between
  <2>3. QED
    BY <2>1, <2>2, <1>5
<1>6. QED
  BY <1>4, <1>5

LEMMA SplitAdjoins ==
  ASSUME NEW N \in 4 .. Half - 1, NEW splits \in {2, 3}
  PROVE  \E c \in Seq(Range) :
           /\ c = Between(splitPoints(N, splits)) /\ Len(c) = splits
           /\ c[1].start = 0 /\ c[Len(c)].end = N
           /\ \A k \in 1 .. Len(c) - 1 : c[k + 1].start = c[k].end
           /\ \A k \in DOMAIN c : c[k].start <= c[k].end /\ c[k].end <= N
<1> DEFINE c == Between(splitPoints(N, splits))
<1> SUFFICES /\ c \in Seq(Range) /\ Len(c) = splits
             /\ c[1].start = 0 /\ c[Len(c)].end = N
             /\ \A k \in 1 .. Len(c) - 1 : c[k + 1].start = c[k].end
             /\ \A k \in DOMAIN c : c[k].start <= c[k].end /\ c[k].end <= N
  BY Zenon
<1>1. Half \in Nat /\ N \in Word /\ 0 \in Word
  BY LoopAssumption DEF Word
<1>2. N \div 2 \in Word /\ N \div 3 \in Word /\ (2 * N) \div 3 \in Word
  BY <1>1 DEF Word
<1>3. 0 <= N \div 2 /\ N \div 2 <= N /\ 0 <= N \div 3 /\ N \div 3 <= (2 * N) \div 3 /\ (2 * N) \div 3 <= N
      /\ N \div 3 <= N
  BY <1>1
<1>4. CASE splits = 2
  <2>1. c = <<[start |-> 0, end |-> N \div 2], [start |-> N \div 2, end |-> N]>>
    BY <1>4, SplitRanges
  <2> HIDE DEF c
  <2>2. QED
    BY <2>1, <1>1, <1>2, <1>3, <1>4 DEF Range
<1>5. CASE splits = 3
  <2>1. c = <<[start |-> 0, end |-> N \div 3], [start |-> N \div 3, end |-> (2 * N) \div 3],
              [start |-> (2 * N) \div 3, end |-> N]>>
    BY <1>5, SplitRanges
  <2> HIDE DEF c
  <2>2. QED
    BY <2>1, <1>1, <1>2, <1>3, <1>5 DEF Range
<1>6. QED
  BY <1>4, <1>5

\* The one range of loop_flatten.
LEMMA FlatRange ==
  ASSUME NEW p \in Int, NEW c, c = Between(<<0, p>>)
  PROVE  c \in Seq(Range) /\ Len(c) = 1 /\ c[1].start = 0 /\ c[1].end = Wrap(p)
<1>1. Half \in Nat /\ 0 \in Word /\ Wrap(0) = 0 /\ Wrap(p) \in Word
  BY LoopAssumption, WrapInWord, WrapWithin DEF Word
<1> DEFINE r == [start |-> 0, end |-> Wrap(p)]
<1>2. c = <<r>>
  BY <1>1 DEF Between
<1>3. r \in Range /\ r.start = 0 /\ r.end = Wrap(p)
  BY <1>1 DEF Range
<1>4. QED
  <2> HIDE DEF r
  <2> QED
    BY <1>2, <1>3

-----------------------------------------------------------------------------
(* The steps.                                                              *)

LEMMA InitInv == Init => LoopInv
<1> SUFFICES ASSUME Init PROVE LoopInv
  OBVIOUS
<1>1. Half \in Nat /\ Half > 100 /\ nest \in Nests
  BY LoopAssumption DEF Init
<1>2. Types
  BY <1>1 DEF Types, Init, Word
<1>3. LeftInTime
  BY <1>1, LoopFacts DEF LeftInTime, Init
<1>4. QED
  BY <1>2, <1>3 DEF LoopInv, Init, Adjoin, Inside, HeadsRun, BodiesRun, PairsRun

\* A loop the pass leaves in the source's place.
LEMMA EnterStep ==
  ASSUME LoopInv, pc = "pass", NEW c \in Seq(Range), Len(c) > 0, c[1].start = 0,
         NEW bounds \in Nat \X Nat, NEW sound, Enter(bounds, c, sound),
         \A k \in 1 .. Len(c) - 1 : c[k + 1].start = c[k].end,
         nest.pass = "loop_split" =>
           /\ \A k \in DOMAIN c : c[k].start <= c[k].end /\ c[k].end <= c[Len(c)].end
           /\ c[Len(c)].end \in nest.cmps,
         nest.pass = "loop_flatten" =>
           /\ bounds \in (1 .. 100) \X (1 .. 100)
           /\ Len(c) = 1 /\ c[Len(c)].end = Wrap(bounds[1] * bounds[2])
  PROVE  LoopInv'
<1>1. /\ Half \in Nat /\ Half > 100 /\ nest \in Nests /\ at = 1 /\ i = 0
      /\ out = <<>> /\ heads = <<>> /\ pairs = <<>>
      /\ nest' = nest /\ at' = 1 /\ out' = <<>> /\ heads' = <<>> /\ pairs' = <<>>
      /\ found' = bounds /\ code' = c /\ i' = 0 /\ pc' \in {"header", "broken"}
  BY LoopAssumption DEF LoopInv, Types, Enter
<1>2. Types'
  BY <1>1 DEF Types, Word
<1>3. Adjoin'
  BY <1>1, LoopFacts DEF Adjoin, Last
<1>4. Inside'
  <2>1. 1 \in DOMAIN c
    OBVIOUS
  <2>2. QED
    BY <1>1, <2>1, LoopFacts DEF Inside
<1>5. HeadsRun'
  BY <1>1 DEF HeadsRun
<1>6. BodiesRun' /\ PairsRun'
  BY <1>1 DEF BodiesRun, PairsRun
<1>7. LeftInTime'
  BY <1>1, LoopFacts DEF LeftInTime, OwnBound
<1>8. QED
  BY <1>2, <1>3, <1>4, <1>5, <1>6, <1>7 DEF LoopInv

LEMMA SplitStep ==
  ASSUME LoopInv, NEW N \in nest.cmps, NEW splits \in {2, 3}, LoopSplit(N, splits)
  PROVE  LoopInv'
<1>1. /\ nest \in Nests /\ nest.pass = "loop_split" /\ pc = "pass"
      /\ Enter(<<N, 0>>, Between(splitPoints(N, splits)), SplitSound(nest.shape))
  BY DEF LoopSplit, LoopInv, Types
<1>2. N \in 4 .. Half - 1
  BY <1>1, LoopFacts, LoopAssumption DEF LoopSplit
<1>3. PICK c \in Seq(Range) :
        /\ c = Between(splitPoints(N, splits)) /\ Len(c) = splits
        /\ c[1].start = 0 /\ c[Len(c)].end = N
        /\ \A k \in 1 .. Len(c) - 1 : c[k + 1].start = c[k].end
        /\ \A k \in DOMAIN c : c[k].start <= c[k].end /\ c[k].end <= N
  BY <1>2, SplitAdjoins
<1>4. <<N, 0>> \in Nat \X Nat /\ Len(c) > 0
  BY <1>2, <1>3, LoopAssumption
<1>5. QED
  BY <1>1, <1>3, <1>4, EnterStep

LEMMA FlattenStep ==
  ASSUME LoopInv, NEW N \in nest.cmps, NEW M \in nest.cmpsJ, LoopFlatten(N, M)
  PROVE  LoopInv'
<1> DEFINE p == N * M
           c == Between(<<0, p>>)
           sound == FlatSound(nest.shape) /\ FlatTyped
<1>1. nest \in Nests /\ nest.pass = "loop_flatten" /\ pc = "pass" /\ Enter(<<N, M>>, c, sound)
  BY DEF LoopFlatten, LoopInv, Types
<1>2. N \in 1 .. 100 /\ M \in 1 .. 100
  BY <1>1, LoopFacts, LoopAssumption DEF LoopFlatten
<1>3. p \in Int
  BY <1>2
<1>4. c \in Seq(Range) /\ Len(c) = 1 /\ c[1].start = 0 /\ c[1].end = Wrap(p)
  <2> HIDE DEF p
  <2> QED
    BY <1>3, FlatRange
<1>5. <<N, M>>[1] * <<N, M>>[2] = p
  OBVIOUS
<1>6. <<N, M>> \in Nat \X Nat /\ <<N, M>> \in (1 .. 100) \X (1 .. 100)
  BY <1>2
<1>7. nest.pass # "loop_split"
  BY <1>1
<1> HIDE DEF c, p, sound
<1>8. 1 .. Len(c) - 1 = {} /\ c[Len(c)].end = Wrap(<<N, M>>[1] * <<N, M>>[2]) /\ Len(c) > 0
  BY <1>4, <1>5
<1>9. \A k \in 1 .. Len(c) - 1 : c[k + 1].start = c[k].end
  BY <1>8
<1> DEFINE bounds == <<N, M>>
<1>10. /\ bounds \in Nat \X Nat /\ bounds \in (1 .. 100) \X (1 .. 100)
       /\ Enter(bounds, c, sound) /\ c[Len(c)].end = Wrap(bounds[1] * bounds[2])
  BY <1>1, <1>6, <1>8
<1> HIDE DEF bounds
<1>11. QED
  BY <1>1, <1>4, <1>7, <1>8, <1>9, <1>10, EnterStep

\* What the steps of the new loops leave alone.
LEMMA Steady ==
  ASSUME nest' = nest, code' = code, found' = found
  PROVE  /\ OwnBound' <=> OwnBound
         /\ Last' = Last
         /\ \A k \in Nat : Pair(k)' = Pair(k)
BY DEF OwnBound, Last, Pair

LEMMA Running ==
  ASSUME LoopInv, pc # "pass"
  PROVE  /\ Half \in Nat /\ Half > 100 /\ i \in Int /\ at \in 1 .. Len(code) /\ Len(code) \in Nat
         /\ code[at].start \in Word /\ code[at].end \in Word /\ Last \in Word
         /\ at < Len(code) => code[at + 1].start \in Word /\ nest.pass = "loop_split"
         /\ nest.pass = "loop_split" => code[at].end <= Last
         /\ nest.pass = "loop_flatten" => code[at].start = 0 /\ code[at].end = Last
<1>1. Half \in Nat /\ Half > 100 /\ i \in Int /\ at \in 1 .. Len(code) /\ Len(code) \in Nat /\ code \in Seq(Range)
  BY LoopAssumption DEF LoopInv, Types, Word
<1>2. code[at] \in Range /\ code[Len(code)] \in Range /\ (at < Len(code) => code[at + 1] \in Range)
  BY <1>1
<1>3. nest.pass = "loop_split" => code[at].end <= Last
  BY <1>1 DEF LoopInv, Adjoin
<1>4. nest.pass = "loop_flatten" => at = 1 /\ Len(code) = 1
  <2>1. nest.pass = "loop_flatten" => Len(code) = 1
    BY Zenon DEF LoopInv, Adjoin
  <2>2. at \in Nat /\ at # 0 /\ at <= Len(code)
    BY DEF LoopInv, Types
  <2>3. \A a \in Nat : a # 0 /\ a <= 1 => a = 1
    OBVIOUS
  <2>4. QED
    BY <2>1, <2>2, <2>3, Zenon
<1>5. nest.pass \in {"loop_split", "loop_flatten"}
  BY LoopFacts DEF LoopInv, Types
<1>6. nest.pass = "loop_flatten" => code[at].start = 0 /\ code[at].end = Last
  BY <1>4 DEF LoopInv, Adjoin, Last
<1>7. at < Len(code) => nest.pass = "loop_split"
  <2>1. nest.pass = "loop_flatten" => ~(at < Len(code))
    <3> SUFFICES ASSUME nest.pass = "loop_flatten" PROVE ~(at < Len(code))
      OBVIOUS
    <3>1. at = 1 /\ Len(code) = 1
      BY <1>4
    <3>2. ~(1 < 1)
      OBVIOUS
    <3>3. QED
      BY <3>1, <3>2, Zenon
  <2>2. QED
    BY <1>5, <2>1
<1>8. QED
  BY <1>1, <1>2, <1>3, <1>6, <1>7 DEF Range, Last

\* One more run of a header's code.
LEMMA HeadAppended ==
  ASSUME LoopInv, pc = "header", nest.pass = "loop_split", heads' = Append(heads, i)
  PROVE  /\ Len(heads') = i + at /\ heads'[Len(heads')] = i
         /\ \A k \in 1 .. Len(heads') - 1 :
              \/ heads'[k + 1] = heads'[k] + 1
              \/ heads'[k + 1] = heads'[k] /\ \E r \in 2 .. Len(code) : code[r].start = heads'[k]
<1>1. heads \in Seq(Int) /\ i \in Int /\ at \in Int
  BY Running DEF LoopInv, Types
<1>2. Len(heads) = i + at - 1 /\ Len(heads) \in Nat
  BY <1>1 DEF LoopInv, HeadsRun
<1>3. Len(heads') = Len(heads) + 1 /\ heads'[Len(heads')] = i
  BY <1>1
<1>4. ASSUME NEW k \in 1 .. Len(heads') - 1
      PROVE  \/ heads'[k + 1] = heads'[k] + 1
             \/ heads'[k + 1] = heads'[k] /\ \E r \in 2 .. Len(code) : code[r].start = heads'[k]
  <2>1. k \in 1 .. Len(heads) /\ heads'[k] = heads[k]
    BY <1>1, <1>2, <1>3
  <2>2. CASE k < Len(heads)
    <3>1. k \in 1 .. Len(heads) - 1 /\ heads'[k + 1] = heads[k + 1]
      BY <1>1, <1>2, <2>1, <2>2
    <3>2. QED
      BY <2>1, <3>1 DEF LoopInv, HeadsRun
  <2>3. CASE k = Len(heads)
    <3>1. heads # <<>> /\ heads'[k + 1] = i /\ heads[k] = heads[Len(heads)]
      BY <1>1, <1>2, <1>3, <2>1, <2>3
    <3>2. QED
      BY <2>1, <3>1 DEF LoopInv, HeadsRun
  <2>4. QED
    BY <1>2, <2>1, <2>2, <2>3
<1>5. Len(heads') = i + at
  BY <1>1, <1>2, <1>3
<1>6. QED
  BY <1>3, <1>4, <1>5

LEMMA HeadStep ==
  ASSUME LoopInv, Header
  PROVE  LoopInv'
<1>1. /\ pc = "header" /\ i < code[at].end /\ RunHead /\ pc' \in {"body", "latch"}
      /\ nest' = nest /\ code' = code /\ found' = found /\ at' = at /\ i' = i /\ out' = out /\ pairs' = pairs
      /\ pc' = "latch" => nest.pass = "loop_split" /\ Bodies(nest.shape) = {}
      /\ pc' = "body" /\ nest.pass = "loop_split" => Bodies(nest.shape) # {}
      /\ nest \in Nests /\ heads \in Seq(Int)
  BY DEF Header, LoopInv, Types
<1>2. Types'
  <2>1. heads' \in Seq(Int)
    BY <1>1, Running DEF RunHead
  <2>2. QED
    BY <1>1, <2>1 DEF LoopInv, Types
<1>3. Adjoin'
  BY <1>1, Steady DEF LoopInv, Adjoin
<1>4. Inside'
  BY <1>1, Steady, Running DEF LoopInv, Inside
<1>5. HeadsRun'
  <2>1. CASE nest.pass = "loop_flatten"
    BY <1>1, <2>1 DEF LoopInv, HeadsRun, RunHead
  <2>2. CASE nest.pass = "loop_split"
    <3>1. heads' = Append(heads, i)
      BY <1>1, <2>2 DEF RunHead
    <3>2. QED
      BY <1>1, <2>2, <3>1, HeadAppended DEF HeadsRun
  <2>3. QED
    BY <1>1, <2>1, <2>2, LoopFacts
<1>6. BodiesRun' /\ PairsRun'
  BY <1>1, Steady DEF LoopInv, BodiesRun, PairsRun, Pair
<1>7. LeftInTime'
  BY <1>1, Steady, LoopFacts DEF LoopInv, LeftInTime
<1>8. QED
  BY <1>2, <1>3, <1>4, <1>5, <1>6, <1>7 DEF LoopInv

LEMMA NextStep ==
  ASSUME LoopInv, NextLoop
  PROVE  LoopInv'
<1>1. /\ pc = "header" /\ i >= code[at].end /\ at < Len(code) /\ RunHead
      /\ at' = at + 1 /\ i' = code[at + 1].start
      /\ nest' = nest /\ code' = code /\ found' = found /\ pc' = pc /\ out' = out /\ pairs' = pairs
      /\ nest \in Nests /\ heads \in Seq(Int)
  BY DEF NextLoop, LoopInv, Types
<1>2. nest.pass = "loop_split"
  BY <1>1, Running
<1>3. Types'
  <2>1. heads' \in Seq(Int)
    BY <1>1, Running DEF RunHead
  <2>2. at' \in Nat \ {0} /\ at' <= Len(code) /\ i' \in Word
    BY <1>1, Running
  <2>3. QED
    BY <1>1, <2>1, <2>2 DEF LoopInv, Types
<1>4. Adjoin'
  BY <1>1, Steady DEF LoopInv, Adjoin
<1>5. i' = i /\ i = code[at].end
  <2>1. i <= code[at].end
    BY <1>1, <1>2 DEF LoopInv, Inside
  <2>2. code[at + 1].start = code[at].end
    BY <1>1, Running DEF LoopInv, Adjoin
  <2>3. QED
    BY <1>1, <2>1, <2>2, Running DEF Word
<1>6. Inside'
  <2>1. code[at + 1].start <= code[at + 1].end
    BY <1>1, <1>2, Running DEF LoopInv, Adjoin
  <2>2. i' \in Int
    BY <1>1, Running DEF Word
  <2>3. QED
    BY <1>1, <2>1, <2>2 DEF Inside
<1>7. HeadsRun'
  <2>1. heads' = Append(heads, i) /\ i' = i
    BY <1>1, <1>2, <1>5 DEF RunHead
  <2>2. Len(heads') = i' + at' - 1 /\ heads'[Len(heads')] = i'
    BY <1>1, <1>2, <2>1, HeadAppended, Running
  <2>3. at + 1 \in 2 .. Len(code) /\ code[at + 1].start = i'
    BY <1>1, Running
  <2>4. QED
    BY <1>1, <1>2, <2>1, <2>2, <2>3, HeadAppended DEF HeadsRun
<1>8. BodiesRun' /\ PairsRun'
  BY <1>1, <1>2, <1>5 DEF LoopInv, BodiesRun, PairsRun
<1>9. LeftInTime'
  BY <1>1, <1>5, Steady, LoopFacts DEF LoopInv, LeftInTime
<1>10. QED
  BY <1>3, <1>4, <1>6, <1>7, <1>8, <1>9 DEF LoopInv

LEMMA ExitStep ==
  ASSUME LoopInv, Exit
  PROVE  LoopInv'
<1>1. /\ pc = "header" /\ i >= code[at].end /\ at = Len(code) /\ RunHead
      /\ pc' \in {"exit", "returned"}
      /\ nest' = nest /\ code' = code /\ found' = found /\ at' = at /\ i' = i /\ out' = out /\ pairs' = pairs
      /\ nest \in Nests /\ heads \in Seq(Int)
  BY DEF Exit, LoopInv, Types
<1>2. Types'
  <2>1. heads' \in Seq(Int)
    BY <1>1, Running DEF RunHead
  <2>2. QED
    BY <1>1, <2>1 DEF LoopInv, Types
<1>3. Adjoin'
  BY <1>1, Steady DEF LoopInv, Adjoin
<1>4. Inside'
  BY <1>1 DEF Inside
<1>5. HeadsRun'
  <2>1. CASE nest.pass = "loop_flatten"
    BY <1>1, <2>1 DEF LoopInv, HeadsRun, RunHead
  <2>2. CASE nest.pass = "loop_split"
    <3>1. heads' = Append(heads, i)
      BY <1>1, <2>2 DEF RunHead
    <3>2. Len(heads') = i + Len(code)
      BY <1>1, <2>2, <3>1, HeadAppended
    <3>3. QED
      BY <1>1, <2>2, <3>1, <3>2, HeadAppended DEF HeadsRun
  <2>3. QED
    BY <1>1, <2>1, <2>2, LoopFacts
<1>6. Last <= i /\ (i = Last \/ (nest.pass = "loop_flatten" /\ i = 0))
  <2>1. i <= code[at].end \/ (nest.pass = "loop_flatten" /\ i = 0)
    BY <1>1 DEF LoopInv, Inside
  <2>2. QED
    BY <1>1, <2>1, Running DEF Last, Word
<1>7. BodiesRun'
  BY <1>1 DEF LoopInv, BodiesRun
<1>8. PairsRun'
  BY <1>1, <1>6, Steady DEF LoopInv, PairsRun, Pair
<1>9. LeftInTime'
  <2>1. ASSUME nest.pass = "loop_split", OwnBound PROVE Len(out) = nest.n
    <3>1. Len(out) = Last /\ Last \in nest.cmps /\ i = Last
      BY <1>1, <1>6, <2>1 DEF LoopInv, Adjoin, BodiesRun
    <3>2. CASE nest.exit = "body"
      <4>1. i < nest.n /\ Last >= nest.n
        BY <1>1, <2>1, <3>1, <3>2 DEF LoopInv, LeftInTime, OwnBound
      <4>2. QED
        BY <1>1, <3>1, <4>1, Running, LoopFacts
    <3>3. CASE nest.exit # "body"
      BY <2>1, <3>1, <3>3 DEF OwnBound
    <3>4. QED
      BY <3>2, <3>3
  <2>2. QED
    BY <1>1, <2>1, Steady DEF LeftInTime
<1>10. QED
  BY <1>2, <1>3, <1>4, <1>5, <1>7, <1>8, <1>9 DEF LoopInv

\* One more run of a body's code.
LEMMA BodyAppended ==
  ASSUME LoopInv, pc # "pass", nest.pass = "loop_split", out' = Append(out, i), Len(out) = i
  PROVE  /\ out' \in Seq(Int) /\ Len(out') = i + 1
         /\ \A k \in DOMAIN out' : out'[k] = k - 1
<1>1. out \in Seq(Int) /\ i \in Int
  BY Running DEF LoopInv, Types
<1>2. out' \in Seq(Int) /\ Len(out') = i + 1
  BY <1>1
<1>3. ASSUME NEW k \in DOMAIN out' PROVE out'[k] = k - 1
  <2>1. k \in 1 .. i + 1
    BY <1>1, <1>2
  <2>2. CASE k = i + 1
    BY <1>1, <2>2
  <2>3. CASE k # i + 1
    <3>1. k \in DOMAIN out /\ out'[k] = out[k]
      BY <1>1, <2>1, <2>3
    <3>2. QED
      BY <3>1 DEF LoopInv, BodiesRun
  <2>4. QED
    BY <2>2, <2>3
<1>4. QED
  BY <1>2, <1>3

LEMMA SplitBodyStep ==
  ASSUME LoopInv, SplitBody
  PROVE  LoopInv'
<1>1. /\ pc = "body" /\ nest.pass = "loop_split" /\ out' = Append(out, i)
      /\ pc' = IF nest.exit = "body" /\ i = nest.n - 1 THEN "exit" ELSE "latch"
      /\ nest' = nest /\ code' = code /\ found' = found /\ at' = at /\ i' = i
      /\ heads' = heads /\ pairs' = pairs
      /\ nest \in Nests /\ Bodies(nest.shape) # {}
  BY DEF SplitBody, LoopInv, Types, BodiesRun
<1>2. i \in Int /\ Len(out) = i /\ code[at].start <= i /\ i < code[at].end
  BY <1>1, Running DEF LoopInv, BodiesRun, Inside
<1>3. out' \in Seq(Int) /\ Len(out') = i + 1 /\ \A k \in DOMAIN out' : out'[k] = k - 1
  BY <1>1, <1>2, BodyAppended
<1>4. Types'
  BY <1>1, <1>3 DEF LoopInv, Types
<1>5. Adjoin'
  BY <1>1, Steady DEF LoopInv, Adjoin
<1>6. Inside'
  BY <1>1, <1>2 DEF Inside
<1>7. i # Last
  <2>1. code[at].end <= Last
    BY <1>1, Running
  <2>2. QED
    BY <1>1, <1>2, <2>1, Running DEF Word
<1>8. HeadsRun'
  BY <1>1, <1>7, Steady DEF LoopInv, HeadsRun
<1>9. BodiesRun' /\ PairsRun'
  BY <1>1, <1>3 DEF LoopInv, BodiesRun, PairsRun
<1>10. LeftInTime'
  BY <1>1, <1>2, <1>3, Steady, LoopFacts DEF LoopInv, LeftInTime
<1>11. QED
  BY <1>4, <1>5, <1>6, <1>8, <1>9, <1>10 DEF LoopInv

LEMMA FlatBodyStep ==
  ASSUME LoopInv, FlatBody
  PROVE  LoopInv'
<1> DEFINE M == found[2]
           e == <<i \div M, i % M>>
<1>1. /\ pc = "body" /\ nest.pass = "loop_flatten" /\ pairs' = Append(pairs, e) /\ pc' = "latch"
      /\ nest' = nest /\ code' = code /\ found' = found /\ at' = at /\ i' = i
      /\ heads' = heads /\ out' = out
      /\ nest \in Nests /\ M \in Nat \ {0} /\ pairs \in Seq(Nat \X Nat)
  <2>1. /\ pc = "body" /\ nest.pass = "loop_flatten" /\ pairs' = Append(pairs, e) /\ pc' = "latch"
        /\ nest' = nest /\ code' = code /\ found' = found /\ at' = at /\ i' = i
        /\ heads' = heads /\ out' = out
    BY Zenon DEF FlatBody
  <2>2. found \in (1 .. 100) \X (1 .. 100) /\ nest \in Nests /\ pairs \in Seq(Nat \X Nat)
    <3> HIDE DEF e, M
    <3> QED
      BY <2>1 DEF LoopInv, Types
  <2>3. M \in Nat \ {0}
    <3>1. found[2] \in 1 .. 100
      BY <2>2
    <3> HIDE DEF e
    <3>2. QED
      BY <3>1
  <2> HIDE DEF e, M
  <2>4. QED
    BY <2>1, <2>2, <2>3
<1>2. /\ i \in Int /\ Len(pairs) = i /\ \A k \in DOMAIN pairs : pairs[k] = Pair(k)
      /\ code[at].start <= i /\ i < code[at].end
  BY <1>1, Running DEF LoopInv, PairsRun, Inside
<1>3. i \in Nat
  BY <1>1, <1>2, Running
<1>4. e \in Nat \X Nat
  <2> HIDE DEF M
  <2>1. i \div M \in Nat /\ i % M \in Nat
    BY <1>1, <1>3
  <2>2. QED
    BY <2>1
<1>5. e = Pair(i + 1)
  <2>1. (i + 1) - 1 = i
    BY <1>3
  <2>2. QED
    BY <2>1 DEF Pair
<1> HIDE DEF e, M
<1>6. pairs' \in Seq(Nat \X Nat) /\ Len(pairs') = i + 1
  BY <1>1, <1>2, <1>4
<1>7. ASSUME NEW k \in DOMAIN pairs' PROVE pairs'[k] = Pair(k)'
  <2>1. k \in 1 .. i + 1 /\ Pair(k)' = Pair(k)
    BY <1>1, <1>6 DEF Pair
  <2>2. CASE k = i + 1
    BY <1>1, <1>2, <1>5, <2>1, <2>2
  <2>3. CASE k # i + 1
    <3>1. k \in DOMAIN pairs /\ pairs'[k] = pairs[k]
      BY <1>1, <1>2, <1>3, <2>1, <2>3
    <3>2. QED
      BY <1>2, <2>1, <3>1
  <2>4. QED
    BY <2>2, <2>3
<1>8. Types'
  BY <1>1, <1>6 DEF LoopInv, Types
<1>9. Adjoin'
  BY <1>1, Steady DEF LoopInv, Adjoin
<1>10. Inside' /\ HeadsRun' /\ BodiesRun'
  BY <1>1, <1>2, Steady DEF LoopInv, Inside, HeadsRun, BodiesRun
<1>11. PairsRun' /\ LeftInTime'
  BY <1>1, <1>6, <1>7 DEF PairsRun, LeftInTime
<1>12. QED
  BY <1>8, <1>9, <1>10, <1>11 DEF LoopInv

LEMMA LatchStep ==
  ASSUME LoopInv, Latch
  PROVE  LoopInv'
<1>1. /\ pc = "latch" /\ i' = Wrap(i + 1) /\ pc' = "header"
      /\ out' = IF nest.pass = "loop_split" /\ Bodies(nest.shape) = {} THEN Append(out, i) ELSE out
      /\ nest' = nest /\ code' = code /\ found' = found /\ at' = at /\ heads' = heads /\ pairs' = pairs
      /\ nest \in Nests /\ i \in Int
  BY Running DEF Latch, LoopInv, Types
<1>2. code[at].start <= i /\ i < code[at].end
  BY <1>1 DEF LoopInv, Inside
<1>3. i + 1 \in Word
  BY <1>1, <1>2, Running DEF Word
<1>4. i' = i + 1
  BY <1>1, <1>3, WrapWithin
<1>5. nest.pass = "loop_split" =>
        out' \in Seq(Int) /\ Len(out') = i + 1 /\ \A k \in DOMAIN out' : out'[k] = k - 1
  <2>1. CASE nest.pass = "loop_split" /\ Bodies(nest.shape) = {}
    <3>1. Len(out) = i
      BY <1>1, <2>1 DEF LoopInv, BodiesRun
    <3>2. QED
      BY <1>1, <2>1, <3>1, BodyAppended
  <2>2. CASE ~(nest.pass = "loop_split" /\ Bodies(nest.shape) = {})
    BY <1>1, <2>2 DEF LoopInv, BodiesRun, Types
  <2>3. QED
    BY <2>1, <2>2
<1>6. Types'
  <2>1. out' \in Seq(Int)
    BY <1>1, <1>5 DEF LoopInv, Types
  <2>2. QED
    BY <1>1, <1>3, <1>4, <2>1 DEF LoopInv, Types
<1>7. Adjoin'
  BY <1>1, Steady DEF LoopInv, Adjoin
<1>8. Inside'
  BY <1>1, <1>2, <1>4, Running DEF Inside, Word
<1>9. HeadsRun'
  BY <1>1, <1>4, Steady, Running DEF LoopInv, HeadsRun
<1>10. BodiesRun'
  BY <1>1, <1>4, <1>5 DEF LoopInv, BodiesRun
<1>11. PairsRun'
  BY <1>1, <1>4, Steady DEF LoopInv, PairsRun, Pair
<1>12. LeftInTime'
  BY <1>1, <1>4, Steady, LoopFacts DEF LoopInv, LeftInTime
<1>13. QED
  BY <1>6, <1>7, <1>8, <1>9, <1>10, <1>11, <1>12 DEF LoopInv

LEMMA NextInv == LoopInv /\ [Next]_vars => LoopInv'
<1> SUFFICES ASSUME LoopInv, [Next]_vars PROVE LoopInv'
  OBVIOUS
<1>1. ASSUME UNCHANGED vars PROVE LoopInv'
  <2>1. /\ nest' = nest /\ found' = found /\ code' = code /\ at' = at /\ i' = i /\ pc' = pc
        /\ out' = out /\ heads' = heads /\ pairs' = pairs
    BY <1>1 DEF vars
  <2>2. Types'
    BY <2>1 DEF LoopInv, Types
  <2>3. Adjoin' /\ Inside'
    BY <2>1, Steady DEF LoopInv, Adjoin, Inside
  <2>4. HeadsRun'
    BY <2>1, Steady DEF LoopInv, HeadsRun
  <2>5. BodiesRun' /\ PairsRun' /\ LeftInTime'
    BY <2>1, Steady DEF LoopInv, BodiesRun, PairsRun, LeftInTime, Pair
  <2>6. QED
    BY <2>2, <2>3, <2>4, <2>5 DEF LoopInv
<1>2. ASSUME NEW N \in nest.cmps, NEW splits \in {2, 3}, LoopSplit(N, splits) PROVE LoopInv'
  BY <1>2, SplitStep
<1>3. ASSUME NEW N \in nest.cmps, NEW M \in nest.cmpsJ, LoopFlatten(N, M) PROVE LoopInv'
  BY <1>3, FlattenStep
<1>4. CASE LeaveAlone \/ Exited
  BY <1>1, <1>4 DEF LeaveAlone, Exited
<1>5. CASE Loops
  BY <1>5, HeadStep, NextStep, ExitStep, SplitBodyStep, FlatBodyStep, LatchStep DEF Loops
<1>6. QED
  BY <1>1, <1>2, <1>3, <1>4, <1>5 DEF Next

LEMMA Invariant == Spec => []LoopInv
BY InitInv, NextInv, PTL DEF Spec

-----------------------------------------------------------------------------
(* Quotients and remainders.                                               *)

LEMMA DivMod ==
  ASSUME NEW a \in Nat, NEW m \in Nat \ {0}
  PROVE  /\ a \div m \in Nat /\ a % m \in 0 .. m - 1
         /\ a = m * (a \div m) + (a % m)
OBVIOUS

LEMMA TimesMonotone ==
  ASSUME NEW m \in Nat, NEW a \in Nat, NEW b \in Nat, a <= b
  PROVE  m * a <= m * b
<1>1. PICK d \in Nat : b = a + d
  <2>1. b - a \in Nat /\ b = a + (b - a)
    OBVIOUS
  <2>2. QED
    BY <2>1
<1>2. m * b = m * a + m * d
  BY <1>1
<1>3. m * d \in Nat /\ m * a \in Nat
  OBVIOUS
<1>4. QED
  BY <1>2, <1>3

\* The pairs of counters of a and a + 1, in the order of the nest.
LEMMA PairsInOrder ==
  ASSUME NEW a \in Nat, NEW m \in Nat \ {0}
  PROVE  Earlier(<<a \div m, a % m>>, <<(a + 1) \div m, (a + 1) % m>>)
<1> DEFINE q == a \div m
           r == a % m
           b == a + 1
           q1 == b \div m
           r1 == b % m
<1>1. q \in Nat /\ r \in 0 .. m - 1 /\ a = m * q + r
  BY DivMod
<1>2. q1 \in Nat /\ r1 \in 0 .. m - 1 /\ a + 1 = m * q1 + r1
  <2>1. b \in Nat /\ b = a + 1
    OBVIOUS
  <2> HIDE DEF b
  <2>2. QED
    BY <2>1, DivMod
<1> HIDE DEF q, r, q1, r1
<1>3. ~(q1 < q)
  <2>1. ASSUME q1 < q PROVE FALSE
    <3>1. m * (q1 + 1) <= m * q
      BY <1>1, <1>2, <2>1, TimesMonotone
    <3>2. m * (q1 + 1) = m * q1 + m
      BY <1>2
    <3>3. m * q1 \in Int /\ m * q \in Int
      BY <1>1, <1>2
    <3>4. QED
      BY <1>1, <1>2, <3>1, <3>2, <3>3
  <2>2. QED
    BY <2>1
<1>4. q = q1 => r < r1
  <2>1. m * q \in Int
    BY <1>1
  <2>2. QED
    BY <1>1, <1>2, <2>1
<1>5. q < q1 \/ (q = q1 /\ r < r1)
  BY <1>1, <1>2, <1>3, <1>4
<1>6. QED
  BY <1>5 DEF Earlier, q, r, q1, r1

LEMMA PairsInRange ==
  ASSUME NEW a \in Nat, NEW m \in Nat \ {0}, NEW n \in Nat, a < n * m
  PROVE  a \div m \in 0 .. n - 1 /\ a % m \in 0 .. m - 1
<1> DEFINE q == a \div m
           r == a % m
<1>1. q \in Nat /\ r \in 0 .. m - 1 /\ a = m * q + r
  BY DivMod
<1> HIDE DEF q, r
<1>2. ~(n <= q)
  <2>1. ASSUME n <= q PROVE FALSE
    <3>1. m * n <= m * q
      BY <1>1, <2>1, TimesMonotone
    <3>2. m * n = n * m /\ m * n \in Int /\ m * q \in Int
      BY <1>1
    <3>3. QED
      BY <1>1, <3>1, <3>2
  <2>2. QED
    BY <2>1
<1>3. q \in 0 .. n - 1 /\ r \in 0 .. m - 1
  BY <1>1, <1>2
<1>4. QED
  BY <1>3 DEF q, r

\* The end of the flattened loop: the product itself when it is a word, else less.
LEMMA WrappedProduct ==
  ASSUME NEW n \in 1 .. 100, NEW m \in 1 .. 100
  PROVE  /\ n * m \in Nat /\ n * m > 0
         /\ n * m < Half => Wrap(n * m) = n * m
         /\ n * m >= Half => Wrap(n * m) < n * m
<1> DEFINE p == n * m
<1>1. n \in Nat \ {0} /\ m \in Nat \ {0} /\ Half \in Nat
  BY LoopAssumption
<1>2. p \in Nat /\ p >= n
  <2>1. p \in Nat /\ n * 1 <= n * m /\ n * 1 = n
    BY <1>1, TimesMonotone
  <2>2. QED
    BY <2>1
<1> HIDE DEF p
<1>3. p < Half => Wrap(p) = p
  BY <1>1, <1>2, WrapWithin DEF Word
<1>4. p >= Half => Wrap(p) < p
  <2>1. Wrap(p) \in Word
    BY <1>2, WrapInWord
  <2>2. QED
    BY <1>1, <1>2, <2>1 DEF Word
<1>5. p > 0
  BY <1>1, <1>2
<1>6. QED
  BY <1>2, <1>3, <1>4, <1>5 DEF p

-----------------------------------------------------------------------------
(* The theorems.                                                           *)

\* For any loops and any width: every variable keeps its type, in particular the
\* bounds of the new loops and their counters are words of the counter's type
\* (loop_split.cc:153, 173, loop_flatten.cc:160, 162).
THEOREM TypeCorrect == Spec => []TypeOK
<1>1. LoopInv => TypeOK
  <2> SUFFICES ASSUME LoopInv PROVE TypeOK
    OBVIOUS
  <2>1. \A k \in DOMAIN code : {code[k].start, code[k].end} \subseteq -Half .. Half - 1
    <3>1. \A k \in DOMAIN code : code[k] \in Range
      BY DEF LoopInv, Types
    <3>2. QED
      BY <3>1 DEF Range, Word
  <2>2. /\ \A k \in DOMAIN out : out[k] \in Int
        /\ \A k \in DOMAIN pairs : pairs[k] \in Nat \X Nat
    BY DEF LoopInv, Types
  <2>3. pc # "pass" => at \in DOMAIN code
    BY DEF LoopInv, Types
  <2>4. QED
    BY <2>1, <2>2, <2>3 DEF LoopInv, Types, TypeOK, Word
<1>2. QED
  BY <1>1, Invariant, PTL

\* loop_split.cc:15-19: in whatever two or three ranges a loop of any length is
\* split, a loop that counts by one keeps its iterations, in their order, and its
\* end, at its header or in its body.
THEOREM UnitStepsKept == Spec => []SplitKeepsUnitSteps
<1>1. LoopInv => SplitKeepsUnitSteps
  <2> SUFFICES ASSUME LoopInv, nest.pass = "loop_split", OwnBound
               PROVE  /\ \A k \in DOMAIN out : out[k] = k - 1
                      /\ Len(out) <= nest.n
                      /\ pc = "exit" => Len(out) = nest.n
    BY DEF SplitKeepsUnitSteps
  <2>1. nest \in Nests /\ nest.n \in Nat /\ Half \in Nat
    BY LoopFacts, LoopAssumption DEF LoopInv, Types
  <2>2. \A k \in DOMAIN out : out[k] = k - 1
    BY <2>1 DEF LoopInv, BodiesRun
  <2>3. pc \in {"exit", "returned"} => Len(out) = nest.n
    BY DEF LoopInv, LeftInTime
  <2>4. CASE pc \in {"pass", "broken"}
    BY <2>1, <2>2, <2>4 DEF LoopInv, Types
  <2>5. CASE pc \in {"exit", "returned"}
    BY <2>1, <2>2, <2>3, <2>5
  <2>6. CASE pc \in {"header", "body", "latch"}
    <3>1. code[at].end <= Last /\ i <= code[at].end /\ (pc # "header" => i < code[at].end)
      BY <2>6, Running DEF LoopInv, Inside, Word
    <3>2. /\ i \in Int /\ Last \in Int /\ Last \in nest.cmps /\ i <= Last /\ (pc # "header" => i < Last)
      BY <2>1, <2>6, <3>1, Running DEF LoopInv, Adjoin, Word
    <3>3. nest.exit # "body" => Last = nest.n
      BY <3>2 DEF OwnBound
    <3>4. Len(out) = i \/ (pc = "latch" /\ Len(out) = i + 1)
      BY <2>1, <2>6 DEF LoopInv, BodiesRun
    <3>5. Len(out) <= nest.n
      BY <2>1, <2>6, <3>2, <3>3, <3>4 DEF LoopInv, LeftInTime
    <3>6. QED
      BY <2>2, <2>6, <3>5
  <2>7. QED
    BY <2>4, <2>5, <2>6 DEF LoopInv, Types
<1>2. QED
  BY <1>1, Invariant, PTL

\* loop_split.cc:156-181: the header's code is run once for every value of the
\* counter and once more per split point, for loops of any length.
THEOREM HeadsRepeatedExactly == Spec => []HeadsRepeatAtSplits
<1>1. LoopInv => HeadsRepeatAtSplits
  BY DEF LoopInv, HeadsRun, HeadsRepeatAtSplits, Last
<1>2. QED
  BY <1>1, Invariant, PTL

\* loop_flatten.cc:143-168, for all bounds the pass finds, foreign ones included, and
\* words of all sizes, products that wrap included: the pairs come in the order of a
\* nest, within the bounds found, and all of them exactly when the product is a word.
THEOREM PairsVisitedInOrder == Spec => []FlatPairsInOrder
<1>1. LoopInv => FlatPairsInOrder
  <2> DEFINE N == found[1]
             M == found[2]
  <2> SUFFICES ASSUME LoopInv, nest.pass = "loop_flatten"
               PROVE  /\ \A k \in 1 .. Len(pairs) - 1 : Earlier(pairs[k], pairs[k + 1])
                      /\ \A k \in DOMAIN pairs : pairs[k] \in (0 .. N - 1) \X (0 .. M - 1)
                      /\ pc \in {"exit", "returned"} => (Len(pairs) = N * M <=> N * M < Half)
    BY DEF FlatPairsInOrder
  <2>1. CASE pc \in {"pass", "broken"}
    BY <2>1 DEF LoopInv, Types
  <2>2. CASE pc \notin {"pass", "broken"}
    <3>1. N \in 1 .. 100 /\ M \in 1 .. 100 /\ pairs \in Seq(Nat \X Nat) /\ Half \in Nat
      BY <2>2, LoopAssumption DEF LoopInv, Types
    <3>2. /\ \A k \in DOMAIN pairs : pairs[k] = <<(k - 1) \div M, (k - 1) % M>>
          /\ Last = Wrap(N * M)
      BY <2>2 DEF LoopInv, PairsRun, Adjoin, Pair
    <3>3. /\ Last \in Int /\ i \in Int /\ Len(pairs) \in Nat
          /\ Len(pairs) <= Last \/ Len(pairs) = 0
      <4>1. Last \in Int /\ i \in Int /\ Len(pairs) \in Nat
        BY <2>2, <3>1, Running DEF Word
      <4>2. CASE pc \in {"exit", "returned"}
        BY <4>1, <4>2 DEF LoopInv, PairsRun
      <4>3. CASE pc \in {"header", "body", "latch"}
        <5>1. code[at].end = Last
          BY <2>2, Running
        <5>2. /\ pc = "header" => i <= Last \/ i = 0
              /\ pc # "header" => i < Last
          BY <4>3, <5>1 DEF LoopInv, Inside
        <5>3. Len(pairs) = i \/ (pc = "latch" /\ Len(pairs) = i + 1)
          BY <4>3 DEF LoopInv, PairsRun
        <5>4. QED
          BY <4>1, <4>3, <5>2, <5>3
      <4>4. QED
        BY <2>2, <4>1, <4>2, <4>3 DEF LoopInv, Types
    <3>4. pc \in {"exit", "returned"} => Len(pairs) = i /\ Last <= i
      BY DEF LoopInv, PairsRun
    <3> HIDE DEF N, M
    <3>5. /\ N * M \in Nat /\ N * M > 0 /\ N \in Nat /\ M \in Nat \ {0}
          /\ N * M < Half => Last = N * M
          /\ N * M >= Half => Last < N * M
      <4>1. /\ N * M \in Nat /\ N * M > 0
            /\ N * M < Half => Wrap(N * M) = N * M
            /\ N * M >= Half => Wrap(N * M) < N * M
        BY <3>1, WrappedProduct
      <4>2. N \in Nat /\ M \in Nat \ {0}
        BY <3>1
      <4>3. QED
        BY <3>2, <4>1, <4>2, Zenon
    <3>6. Len(pairs) <= N * M /\ (N * M >= Half => Len(pairs) < N * M)
      <4> DEFINE p == N * M
      <4> SUFFICES Len(pairs) <= p /\ (p >= Half => Len(pairs) < p)
        OBVIOUS
      <4>1. p \in Nat /\ p > 0 /\ (p < Half => Last = p) /\ (p >= Half => Last < p)
        BY <3>5
      <4> HIDE DEF p
      <4>2. QED
        BY <3>1, <3>3, <4>1
    <3>7. ASSUME NEW k \in 1 .. Len(pairs) - 1 PROVE Earlier(pairs[k], pairs[k + 1])
      <4>1. k - 1 \in Nat /\ k \in DOMAIN pairs /\ k + 1 \in DOMAIN pairs
        BY <3>1
      <4>2. Earlier(<<(k - 1) \div M, (k - 1) % M>>, <<((k - 1) + 1) \div M, ((k - 1) + 1) % M>>)
        BY <3>5, <4>1, PairsInOrder
      <4>3. (k - 1) + 1 = k /\ (k + 1) - 1 = k
        OBVIOUS
      <4>4. QED
        BY <3>2, <4>1, <4>2, <4>3
    <3>8. ASSUME NEW k \in DOMAIN pairs PROVE pairs[k] \in (0 .. N - 1) \X (0 .. M - 1)
      <4>1. k - 1 \in Nat /\ k <= Len(pairs) /\ k \in Nat
        BY <3>1
      <4>2. k - 1 < N * M
        <5> DEFINE p == N * M
        <5>1. p \in Nat /\ Len(pairs) <= p
          BY <3>5, <3>6
        <5> HIDE DEF p
        <5>2. k - 1 < p
          BY <3>3, <4>1, <5>1
        <5>3. QED
          BY <5>2 DEF p
      <4>3. (k - 1) \div M \in 0 .. N - 1 /\ (k - 1) % M \in 0 .. M - 1
        BY <3>5, <4>1, <4>2, PairsInRange
      <4>4. QED
        BY <3>2, <4>3
    <3>9. ASSUME pc \in {"exit", "returned"} PROVE Len(pairs) = N * M <=> N * M < Half
      <4> DEFINE p == N * M
      <4> SUFFICES Len(pairs) = p <=> p < Half
        OBVIOUS
      <4>1. /\ p \in Nat /\ (p < Half => Last = p) /\ Last <= Len(pairs)
            /\ Len(pairs) <= p /\ (p >= Half => Len(pairs) < p)
        BY <3>4, <3>5, <3>6, <3>9
      <4> HIDE DEF p
      <4>2. QED
        BY <3>1, <3>3, <4>1
    <3>10. QED
      BY <3>7, <3>8, <3>9 DEF N, M
  <2>3. QED
    BY <2>1, <2>2
<1>2. QED
  BY <1>1, Invariant, PTL
=============================================================================
