----------------------------- MODULE CountProofs -----------------------------
(***************************************************************************)
(* What the counting passes report: the values that the counts are         *)
(* computed of depend on nothing else, whatever passes come later, and     *)
(* what is reported is the number of additions or calls there were to      *)
(* count.                                                                  *)
(***************************************************************************)
EXTENDS BehaviourProofs, FiniteSetTheorems

\* The block returns: what is counted in it is reported.
Ret(b) == b[Len(b)].op = "ret"

LEMMA CountedIs ==
  ASSUME Pass \in Counting, NEW I
  PROVE  Visits(I) <=> I.op \in Counted \cup {"ret"}
<1>1. CASE Pass = "count_additions"
  BY <1>1 DEF Visits, Counting
<1>2. CASE Pass = "count_calls"
  BY <1>2 DEF Visits, Counting
<1>3. QED
  BY <1>1, <1>2 DEF Counting

\* A list that goes through a set of numbers from the lowest to the highest is as long
\* as there are numbers.
LEMMA InOrderCount ==
  ASSUME NEW n \in Nat, NEW m \in Nat, NEW V \in SUBSET (1 .. m), NEW o \in [1 .. n -> V],
         \A i, l \in 1 .. n : i < l => o[i] < o[l],
         \A k \in V : \E i \in 1 .. n : o[i] = k
  PROVE  IsFiniteSet(V) /\ Cardinality(V) = n
<1>1. o \in Bijection(1 .. n, V)
  <2>1. \A i, l \in 1 .. n : o[i] = o[l] => i = l
    <3>1. ASSUME NEW i \in 1 .. n, NEW l \in 1 .. n, o[i] = o[l] PROVE i = l
      <4>1. o[i] \in 1 .. m /\ o[l] \in 1 .. m
        BY <3>1
      <4>2. ~(i < l) /\ ~(l < i)
        BY <3>1, <4>1
      <4>3. QED
        BY <4>2
    <3>2. QED
      BY <3>1
  <2>2. QED
    BY <2>1 DEF Bijection, Injection, Surjection, IsInjective
<1>2. ExistsBijection(1 .. n, V)
  BY <1>1 DEF ExistsBijection
<1>3. IsFiniteSet(1 .. n) /\ Cardinality(1 .. n) = n
  <2>1. IsFiniteSet(1 .. n) /\ Cardinality(1 .. n) = IF 1 > n THEN 0 ELSE n - 1 + 1
    BY FS_Interval
  <2>2. QED
    BY <2>1
<1>4. QED
  BY <1>2, <1>3, FS_Bijection

\* Those that count first come first, the ret last.
LEMMA CountedVisits ==
  ASSUME IInv, Pass \in Counting, NEW a
  PROVE  LET v == Visited(block, a)
         IN  /\ IsSeq(v) /\ Executed \in Nat
             /\ \A i \in 1 .. Len(v) : v[i][3] = a
             /\ Ret(block) => Len(v) = Executed + 1 /\ v[Len(v)][1] = block[Len(block)].id
<1> DEFINE v == Visited(block, a)
           n == Len(block)
           E == {k \in 1 .. n : block[k].op \in Counted}
           V == {k \in 1 .. n : block[k].op \in Counted \cup {"ret"}}
<1>1. Good(block, source) /\ n \in Nat /\ n >= 1 /\ DOMAIN block = 1 .. n
  BY BlockIs, SeqIn DEF Good, IsSeq
<1>2. Executed = Cardinality(E)
  BY <1>1 DEF Executed, Counted
<1>3. IsFiniteSet(E) /\ Executed \in Nat
  <2>1. IsFiniteSet(1 .. n)
    BY <1>1, FS_Interval
  <2>2. IsFiniteSet(E)
    BY <2>1, FS_Subset
  <2>3. QED
    BY <1>2, <2>2, FS_CardinalityType
<1>4. Pass # "constant_altering"
  BY DEF Counting
<1>5. IsSeq(v) /\ \E o : VisitsOf(v, o, a)
  BY <1>1, VisitedFrom
<1> HIDE DEF v
<1>6. PICK o : VisitsOf(v, o, a)
  BY <1>5
<1>7. /\ o \in [1 .. Len(v) -> 1 .. n] /\ Len(v) \in Nat
      /\ \A i \in 1 .. Len(v) : block[o[i]].op \in Counted \cup {"ret"}
      /\ \A i \in 1 .. Len(v) : v[i][1] = block[o[i]].id /\ v[i][3] = a
      /\ \A i, l \in 1 .. Len(v) : i < l => o[i] < o[l]
      /\ \A k \in 1 .. n : block[k].op \in Counted \cup {"ret"} => \E i \in 1 .. Len(v) : o[i] = k
  BY <1>4, <1>5, <1>6, CountedIs DEF VisitsOf, IsSeq
<1>8. Cardinality(V) = Len(v)
  <2>1. o \in [1 .. Len(v) -> V]
    BY <1>7
  <2>2. V \in SUBSET (1 .. n) /\ \A k \in V : \E i \in 1 .. Len(v) : o[i] = k
    BY <1>7
  <2> HIDE DEF V
  <2>3. QED
    BY <1>1, <1>7, <2>1, <2>2, InOrderCount
<1>9. ASSUME Ret(block) PROVE Len(v) = Executed + 1 /\ v[Len(v)][1] = block[n].id
  <2>1. n \notin E /\ V = E \cup {n}
    <3>1. \A k \in 1 .. n : block[k].op = "ret" <=> k = n
      BY <1>1, <1>9 DEF Good, OneTerminator, Terminators, Ret
    <3>2. "ret" \notin Counted
      BY DEF Counted
    <3>3. n \in 1 .. n /\ block[n].op = "ret"
      BY <1>1, <1>9 DEF Ret
    <3>4. \A k : k \in V <=> k \in E \/ k = n
      BY <3>1, <3>3, Zenon
    <3>5. n \notin E
      BY <3>2, <3>3
    <3> HIDE DEF V, E
    <3>6. QED
      BY <3>4, <3>5
  <2>2. Cardinality(E \cup {n}) = Cardinality(E) + 1
    BY <1>3, <2>1, FS_AddElement
  <2>3. Len(v) = Executed + 1
    BY <1>2, <1>8, <2>1, <2>2
  <2>4. PICK i \in 1 .. Len(v) : o[i] = n
    BY <1>1, <1>7, <1>9 DEF Ret
  <2>5. i = Len(v)
    <3>1. Len(v) \in 1 .. Len(v) /\ o[Len(v)] \in 1 .. n
      BY <1>7
    <3>2. ~(i < Len(v))
      BY <1>1, <1>7, <2>4, <3>1
    <3>3. QED
      BY <1>7, <3>2
  <2>6. QED
    BY <1>7, <2>3, <2>4, <2>5
<1>10. QED
  BY <1>3, <1>5, <1>7, <1>9 DEF v

\* What holds for p and goes from each number to the next holds from p on.
LEMMA Climbs ==
  ASSUME NEW p \in Nat, NEW n \in Nat, NEW S, p \in S, \A i \in p + 1 .. n : i - 1 \in S => i \in S
  PROVE  \A i \in p .. n : i \in S
<1> DEFINE Bad == {i \in p .. n : i \notin S}
<1>1. SUFFICES ASSUME Bad # {} PROVE FALSE
  OBVIOUS
<1>2. PICK i \in Bad : \A k \in Bad : ~(k < i)
  <2>1. Bad \subseteq Nat
    OBVIOUS
  <2> HIDE DEF Bad
  <2>2. QED
    BY <1>1, <2>1, Least
<1>3. i \in p .. n /\ i \notin S
  BY <1>2
<1>4. \A k \in p .. n : k < i => k \in S
  BY <1>2
<1> HIDE DEF Bad
<1>5. i \in p + 1 .. n /\ i - 1 \in p .. n /\ i - 1 < i
  BY <1>3
<1>6. QED
  BY <1>3, <1>4, <1>5

(* What a run has written, and where.                                      *)

\* A store to another place than the slot of m leaves its address alone.
LEMMA StoreAside ==
  ASSUME NEW b, NEW src, Good(b, src), WellTyped(b), NEW input, InputOK(input), NEW i \in 1 .. Len(b),
         b[i].op = "store", NEW m \in Nat \ {0}, b[i].args[2] # Value(m)
  PROVE  Evaluated(Ran(Outset, b, input)[i - 1], b[i].args)[2] # -m
<1> DEFINE s == Ran(Outset, b, input)[i - 1]
           I == b[i]
<1>1. Shaped(I) /\ IsSeq(I.args)
  BY DEF WellTyped, Good, GoodInst
<1>2. Len(I.args) = 2 /\ I.args[2] # Value(m)
  BY <1>1 DEF Shaped
<1>3. 2 \in 1 .. 2
  OBVIOUS
<1>4. Readable(s, I, I.args[2])
  BY <1>2, <1>3, ArgsThere
<1>5. Evaluated(s, I.args)[2] = ArgValue(s, I.args[2])
  BY <1>1, <1>2, <1>3, EvaluatedIs
<1> HIDE DEF s, I
<1>6. ArgValue(s, I.args[2]) # -m
  <2>1. CASE ArgValue(s, I.args[2]) \in Nat
    BY <2>1
  <2>2. CASE ArgValue(s, I.args[2]) \notin Nat
    <3>1. I.args[2] = Value(I.args[2].n) /\ I.args[2].n \in Nat /\ ArgValue(s, I.args[2]) = -I.args[2].n
      BY <1>4, <2>2 DEF Readable
    <3>2. I.args[2].n # m
      BY <1>2, <3>1
    <3>3. QED
      BY <3>1, <3>2
  <2>3. QED
    BY <2>1, <2>2
<1>7. QED
  BY <1>5, <1>6 DEF s, I

\* Behind the k-th instruction nothing is stored to the slot of m.
Untouched(b, k, m) == \A i \in k + 1 .. Len(b) : b[i].op = "store" => b[i].args[2] # Value(m)

\* What the address -m holds behind the first p instructions.
Holds(b, input, p, m, v) ==
  LET mem == Ran(Outset, b, input)[p].mem IN -m \in DOMAIN mem /\ mem[-m] = v

LEMMA MemKept ==
  ASSUME NEW b, NEW src, Good(b, src), WellTyped(b), NEW input, InputOK(input), NEW p \in 0 .. Len(b),
         NEW m \in Nat \ {0}, Untouched(b, p, m), NEW v, Holds(b, input, p, m, v)
  PROVE  \A q \in p .. Len(b) : Holds(b, input, q, m, v)
<1> DEFINE S == {q \in Nat : Holds(b, input, q, m, v)}
<1>1. Len(b) \in Nat /\ IsSeq(b)
  BY DEF Good, IsSeq
<1>2. p \in Nat /\ p \in S
  BY <1>1
<1>3. ASSUME NEW i \in p + 1 .. Len(b), i - 1 \in S PROVE i \in S
  <2> DEFINE s == Ran(Outset, b, input)[i - 1]
             t == Ran(Outset, b, input)[i]
             x == Evaluated(s, b[i].args)
  <2>1. i \in 1 .. Len(b) /\ i \in Nat
    BY <1>1
  <2>2. Holds(b, input, i - 1, m, v)
    BY <1>3
  <2>3. t = Exec(s, b[i], input)
    BY <1>1, <2>1, RunNext
  <2>4. Effect(s, b[i], x, Result(s.mem, b[i], x, Given(b[i], input)), t)
    BY <2>3, ExecIs
  <2>5. -m \in DOMAIN s.mem /\ s.mem[-m] = v
    BY <2>2 DEF Holds
  <2>6. CASE b[i].op # "store"
    <3>1. t.mem = s.mem
      BY <2>4, <2>6 DEF Effect
    <3>2. QED
      BY <2>1, <2>5, <3>1 DEF Holds
  <2>7. CASE b[i].op = "store"
    <3>1. b[i].args[2] # Value(m)
      BY <2>7 DEF Untouched
    <3>2. x[2] # -m
      BY <2>1, <2>7, <3>1, StoreAside
    <3>3. Updated(t.mem, s.mem, x[2], x[1])
      BY <2>4, <2>7 DEF Effect
    <3> HIDE DEF s, t, x
    <3>4. -m \in DOMAIN t.mem /\ t.mem[-m] = v
      BY <2>5, <3>2, <3>3 DEF Updated
    <3>5. QED
      BY <2>1, <3>4 DEF Holds, t
  <2>8. QED
    BY <2>6, <2>7
<1> HIDE DEF S
<1>4. \A q \in p .. Len(b) : q \in S
  BY <1>1, <1>2, <1>3, Climbs
<1>5. QED
  BY <1>4 DEF S

\* A run through code that has been put in front of the k-th instruction.
LEMMA CodeRun ==
  ASSUME NEW b, IsSeq(b), NEW k \in 1 .. Len(b), NEW new, IsSeq(new), NEW input
  PROVE  Ran(Outset, Before(b, k, new), input)[k - 1 + Len(new)] = After(Ran(Outset, b, input)[k - 1], new, input)
<1> DEFINE c == Before(b, k, new)
           n == Len(new)
<1>1. /\ IsSeq(c) /\ Len(c) = Len(b) + n
      /\ \A i \in 1 .. k - 1 : c[i] = b[i]
      /\ \A i \in 1 .. n : c[k - 1 + i] = new[i]
      /\ \A i \in k .. Len(b) : c[i + n] = b[i]
  BY BeforeIs
<1>2. n \in Nat /\ Len(b) \in Nat
  BY DEF IsSeq
<1> HIDE DEF c
<1>3. Ran(Outset, c, input)[k - 1] = Ran(Outset, b, input)[k - 1]
  <2> DEFINE z == k - 1
  <2>1. z \in 0 .. Len(b) /\ z <= Len(c) /\ \A i \in 1 .. z : c[i] = b[i]
    BY <1>1, <1>2
  <2>2. IsSeq(c)
    BY <1>1
  <2> HIDE DEF z
  <2>3. Ran(Outset, c, input)[z] = Ran(Outset, b, input)[z]
    BY <2>1, <2>2, RanPrefix
  <2>4. QED
    BY <2>3 DEF z
<1>4. RanAlong(Outset, c, new, input, k - 1)
  <2>1. Part(new, c, k - 1) /\ k - 1 \in Nat
    BY <1>1, <1>2 DEF Part
  <2>2. QED
    BY <1>1, <2>1, RanWithin
<1>5. n \in 0 .. Len(new)
  BY <1>2
<1>6. Ran(Outset, c, input)[k - 1 + n] = Ran(Ran(Outset, c, input)[k - 1], new, input)[n]
  BY <1>4, <1>5 DEF RanAlong
<1>7. QED
  BY <1>3, <1>6 DEF After, c

(* The counters, and the values C that the counts are computed of; S are their slots. *)
Plain == {"add", "sub", "xor", "load", "alloca"}

Into(I, S) == I.op = "store" /\ \E m \in S : I.args[2] = Value(m)
Mine(I, C, S) == I.id \in C \/ I.op = "report" \/ Into(I, S)
Pure(I, C) == \A j \in 1 .. Len(I.args) : IsConst(I.args[j]) \/ I.args[j].n \in C

Clear(I, C, S) ==
  /\ I.id \in S => I.op = "alloca"
  /\ I.id \in C => I.op \in Plain /\ (I.op = "load" => \E m \in S : I.args[1] = Value(m))
  /\ Mine(I, C, S) => I.w = Word /\ Pure(I, C)

Present(b, n) == \E k \in 1 .. Len(b) : b[k].id = n

\* The values C are computed from constants and each other, and nothing else is stored
\* to the slots S, or reported.
Clean(b, C, S) ==
  /\ S \subseteq C /\ S \subseteq Nat \ {0} /\ \A n \in C : Present(b, n)
  /\ \A k \in 1 .. Len(b) : Clear(b[k], C, S)

\* The value x gives way to a, and other values count.
Hands(x, a, C, S, D, T) ==
  /\ \A n \in C : n # x => n \in D
  /\ \A n \in S : n # x => n \in T
  /\ \/ a = Value(x) /\ (x \in C => x \in D) /\ (x \in S <=> x \in T)
     \/ IsOperand(a) /\ x \notin S /\ (IsConst(a) \/ (a.n \notin T /\ (x \in C => a.n \in D)))

LEMMA RewiredClear ==
  ASSUME NEW I, IsSeq(I.args), \A j \in 1 .. Len(I.args) : IsOperand(I.args[j]), Shaped(I),
         NEW C, NEW S, NEW D, NEW T, Clear(I, C, S), I.id \in C <=> I.id \in D, I.id \in S <=> I.id \in T,
         NEW x, NEW a, Hands(x, a, C, S, D, T),
         \A j \in 1 .. Len(I.args) : \A n \in T : n # x /\ I.args[j] = Value(n) => n \in S
  PROVE  Clear(Rewired(I, x, a), D, T)
<1> DEFINE J == Rewired(I, x, a)
<1>1. /\ J.id = I.id /\ J.op = I.op /\ J.w = I.w /\ Len(J.args) = Len(I.args)
      /\ \A j \in 1 .. Len(I.args) : J.args[j] = IF I.args[j] = Value(x) THEN a ELSE I.args[j]
  BY RewiredIs
<1> HIDE DEF J
<1>2. ASSUME NEW j \in 1 .. Len(I.args), NEW m \in T, J.args[j] = Value(m) PROVE m \in S /\ I.args[j] = Value(m)
  <2>1. CASE I.args[j] = Value(x)
    <3>1. a = Value(m)
      BY <1>1, <1>2, <2>1
    <3>2. ~IsConst(a) /\ a.n = m
      BY <3>1, OperandSorts
    <3>3. a = Value(x) /\ (x \in S <=> x \in T)
      BY <1>2, <3>2 DEF Hands
    <3>4. m = x
      BY <3>1, <3>3, OperandSorts
    <3>5. QED
      BY <1>2, <2>1, <3>3, <3>4
  <2>2. CASE I.args[j] # Value(x)
    <3>1. I.args[j] = Value(m) /\ m # x
      BY <1>1, <1>2, <2>2
    <3>2. QED
      BY <1>2, <3>1
  <2>3. QED
    BY <2>1, <2>2
<1>3. Mine(J, D, T) => Mine(I, C, S)
  <2>1. ASSUME Into(J, T) PROVE Into(I, S)
    <3>1. PICK m \in T : J.args[2] = Value(m)
      BY <2>1 DEF Into
    <3>2. I.op = "store" /\ 2 \in 1 .. Len(I.args)
      BY <1>1, <2>1 DEF Into, Shaped
    <3>3. QED
      BY <1>2, <3>1, <3>2 DEF Into
  <2>2. QED
    BY <1>1, <2>1 DEF Mine
<1>4. ASSUME Pure(I, C) PROVE Pure(J, D)
  <2>1. SUFFICES ASSUME NEW j \in 1 .. Len(I.args) PROVE IsConst(J.args[j]) \/ J.args[j].n \in D
    BY <1>1 DEF Pure
  <2>2. IsConst(I.args[j]) \/ I.args[j].n \in C
    BY <1>4 DEF Pure
  <2>3. CASE I.args[j] = Value(x)
    <3>1. J.args[j] = a /\ x \in C
      BY <1>1, <2>2, <2>3, OperandSorts
    <3>2. a = Value(x) => a.n = x
      BY OperandSorts
    <3>3. QED
      BY <3>1, <3>2 DEF Hands
  <2>4. CASE I.args[j] # Value(x)
    <3>1. J.args[j] = I.args[j]
      BY <1>1, <2>4
    <3>2. IsConst(I.args[j]) \/ I.args[j] = Value(I.args[j].n)
      BY OperandIs
    <3>3. IsConst(I.args[j]) \/ I.args[j].n # x
      BY <2>4, <3>2
    <3>4. QED
      BY <2>2, <3>1, <3>3 DEF Hands
  <2>5. QED
    BY <2>3, <2>4
<1>5. ASSUME I.id \in C, I.op = "load" PROVE \E m \in T : J.args[1] = Value(m)
  <2>1. PICK m \in S : I.args[1] = Value(m)
    BY <1>5 DEF Clear
  <2>2. 1 \in 1 .. Len(I.args)
    <3>1. Len(I.args) = 1
      BY <1>5 DEF Shaped
    <3>2. QED
      BY <3>1
  <2>3. CASE m # x
    <3>1. m \in T /\ Value(m) # Value(x)
      BY <2>3, OperandSorts DEF Hands
    <3>2. QED
      BY <1>1, <2>1, <2>2, <3>1
  <2>4. CASE m = x
    <3>1. a = Value(x) /\ x \in T
      BY <2>1, <2>4 DEF Hands
    <3>2. QED
      BY <1>1, <2>1, <2>2, <2>4, <3>1
  <2>5. QED
    BY <2>3, <2>4
<1>6. Clear(J, D, T)
  BY <1>1, <1>3, <1>4, <1>5 DEF Clear
<1>7. QED
  BY <1>6 DEF J

Those(c, D) == {n \in D : Present(c, n)}

\* Values that are not there need not be named.
LEMMA ClearPresent ==
  ASSUME NEW b, NEW src, Good(b, src), NEW k \in 1 .. Len(b), NEW D, NEW T, Clear(b[k], D, T), Shaped(b[k])
  PROVE  Clear(b[k], Those(b, D), Those(b, T))
<1> DEFINE I == b[k]
           E == Those(b, D)
           F == Those(b, T)
<1>1. IsSeq(I.args) /\ IsSeq(b) /\ \A j \in 1 .. Len(I.args) : IsOperand(I.args[j])
  BY DEF Good, GoodInst
<1>2. ASSUME NEW j \in 1 .. Len(I.args), ~IsConst(I.args[j]) PROVE Present(b, I.args[j].n)
  <2>1. PICK i \in 1 .. k - 1 : b[i].id = I.args[j].n
    BY <1>2 DEF Good, UsesDefined, Defined
  <2>2. i \in 1 .. Len(b)
    BY <1>1 DEF IsSeq
  <2>3. QED
    BY <2>1, <2>2 DEF Present
<1>3. \A n : n \in E <=> n \in D /\ Present(b, n)
  BY DEF Those
<1>4. \A n : n \in F <=> n \in T /\ Present(b, n)
  BY DEF Those
<1>5. ASSUME NEW j \in 1 .. Len(I.args) PROVE /\ IsConst(I.args[j]) \/ I.args[j].n \in D => IsConst(I.args[j]) \/ I.args[j].n \in E
                                             /\ \A m \in T : I.args[j] = Value(m) => m \in F
  <2>1. \A m : I.args[j] = Value(m) => ~IsConst(I.args[j]) /\ I.args[j].n = m
    BY OperandSorts
  <2> HIDE DEF E, F
  <2>2. QED
    BY <1>2, <1>3, <1>4, <2>1
<1>6. Mine(I, E, F) => Mine(I, D, T)
  BY <1>3, <1>4 DEF Mine, Into
<1>7. Pure(I, D) => Pure(I, E)
  BY <1>5 DEF Pure
<1>8. Shaped(I) /\ Clear(I, D, T)
  OBVIOUS
<1> HIDE DEF I, E, F
<1>9. ASSUME I.op = "load", \E m \in T : I.args[1] = Value(m) PROVE \E m \in F : I.args[1] = Value(m)
  <2>1. 1 \in 1 .. Len(I.args)
    BY <1>8, <1>9 DEF Shaped
  <2>2. QED
    BY <1>5, <1>9, <2>1
<1>10. Clear(I, E, F)
  BY <1>3, <1>4, <1>6, <1>7, <1>8, <1>9 DEF Clear
<1>11. QED
  BY <1>10 DEF I, E, F

Slots(D, T) == T \subseteq D /\ T \subseteq Nat \ {0}
AllClear(code, D, T) == \A i \in 1 .. Len(code) : Clear(code[i], D, T)
OthersSame(b, k, C, D) == \A i \in 1 .. Len(b) : i # k => (b[i].id \in C <=> b[i].id \in D)

\* An edit that says of its own code what counts.
LEMMA EditClean ==
  ASSUME NEW b, NEW src, Good(b, src), WellTyped(b), NEW c, Good(c, src), WellTyped(c), NEW k \in 1 .. Len(b),
         NEW core, IsSeq(core), NEW a, Edited(b, c, k, core, b[k].id, a),
         NEW C, NEW S, NEW D, NEW T, Clean(b, C, S), Slots(D, T),
         OthersSame(b, k, C, D), OthersSame(b, k, S, T), Hands(b[k].id, a, C, S, D, T), AllClear(core, D, T)
  PROVE  Clean(c, Those(c, D), Those(c, T))
<1> DEFINE x == b[k].id
<1>1. /\ IsSeq(b) /\ IsSeq(c) /\ Len(b) \in Nat /\ Len(core) \in Nat
      /\ Len(c) = Len(b) - 1 + Len(core)
      /\ \A i \in 1 .. k - 1 : c[i] = b[i]
      /\ \A i \in 1 .. Len(core) : c[k - 1 + i] = core[i]
      /\ \A i \in k + 1 .. Len(b) : c[i - 1 + Len(core)] = Rewired(b[i], x, a)
  BY DEF Edited, Good, IsSeq
<1>2. ASSUME NEW i \in 1 .. Len(b), i # k PROVE Clear(Rewired(b[i], x, a), D, T)
  <2> DEFINE I == b[i]
  <2>1. IsSeq(I.args) /\ (\A j \in 1 .. Len(I.args) : IsOperand(I.args[j])) /\ Shaped(I) /\ Clear(I, C, S)
    BY DEF Good, GoodInst, WellTyped, Clean
  <2>2. (I.id \in C <=> I.id \in D) /\ (I.id \in S <=> I.id \in T)
    BY <1>2 DEF OthersSame
  <2>3. ASSUME NEW j \in 1 .. Len(I.args), NEW n \in T, n # x, I.args[j] = Value(n) PROVE n \in S
    <3>1. ~IsConst(I.args[j]) /\ I.args[j].n = n
      BY <2>3, OperandSorts
    <3>2. PICK l \in 1 .. i - 1 : b[l].id = n
      BY <3>1 DEF Good, UsesDefined, Defined
    <3>3. l \in 1 .. Len(b) /\ l # k
      BY <1>1, <2>3, <3>2
    <3>4. QED
      BY <2>3, <3>2, <3>3 DEF OthersSame
  <2>4. Hands(x, a, C, S, D, T)
    OBVIOUS
  <2> HIDE DEF I, x
  <2>5. Clear(Rewired(I, x, a), D, T)
    BY <2>1, <2>2, <2>3, <2>4, RewiredClear
  <2>6. QED
    BY <2>5 DEF I
<1>3. ASSUME NEW i \in 1 .. k - 1 PROVE b[i] = Rewired(b[i], x, a) /\ i \in 1 .. Len(b) /\ i # k
  <2>1. i \in 1 .. Len(b) /\ i \in 1 .. k /\ i # k
    BY <1>1
  <2>2. \A j \in 1 .. Len(b[i].args) : b[i].args[j] # Value(x)
    BY <2>1, UsedBehind
  <2>3. QED
    BY <2>1, <2>2, GoodRewired
<1> HIDE DEF x
<1>4. ASSUME NEW i \in 1 .. Len(c) PROVE Clear(c[i], D, T)
  <2>1. CASE i \in 1 .. k - 1
    BY <1>1, <1>2, <1>3, <2>1
  <2>2. CASE i \in k .. k - 1 + Len(core)
    <3>1. i - (k - 1) \in 1 .. Len(core) /\ k - 1 + (i - (k - 1)) = i
      BY <1>1, <2>2
    <3>2. c[i] = core[i - (k - 1)]
      BY <1>1, <3>1
    <3>3. QED
      BY <3>1, <3>2 DEF AllClear
  <2>3. CASE i > k - 1 + Len(core)
    <3> DEFINE q == i + 1 - Len(core)
    <3>1. q \in k + 1 .. Len(b) /\ q - 1 + Len(core) = i /\ q \in 1 .. Len(b) /\ q # k
      BY <1>1, <2>3
    <3> HIDE DEF q
    <3>2. c[i] = Rewired(b[q], x, a)
      BY <1>1, <3>1
    <3>3. QED
      BY <1>2, <3>1, <3>2
  <2>4. QED
    BY <1>1, <2>1, <2>2, <2>3
<1>5. \A i \in 1 .. Len(c) : Clear(c[i], Those(c, D), Those(c, T))
  <2>1. \A i \in 1 .. Len(c) : Shaped(c[i])
    BY DEF WellTyped
  <2>2. QED
    BY <1>4, <2>1, ClearPresent
<1>6. QED
  BY <1>5 DEF Clean, Those, Slots

(* The edits the actions make.                                             *)

\* The k-th instruction of the block gives way to core; an instruction at the end
\* stays what it is.
Gets(c, k, core, a) ==
  /\ k \in 1 .. Len(block) /\ IsSeq(core) /\ Edited(block, c, k, core, block[k].id, a)
  /\ k < Len(block) \/ (Len(core) >= 1 /\ core[Len(core)].op = block[k].op)

LEMMA GetsRet ==
  ASSUME Good(block, source), NEW c, Good(c, source), NEW k, NEW core, NEW a, Gets(c, k, core, a)
  PROVE  Ret(c) <=> Ret(block)
<1>1. /\ Len(block) \in Nat /\ Len(core) \in Nat /\ k \in 1 .. Len(block)
      /\ Len(c) = Len(block) - 1 + Len(core)
      /\ \A i \in 1 .. Len(core) : c[k - 1 + i] = core[i]
      /\ \A i \in k + 1 .. Len(block) : c[i - 1 + Len(core)] = Rewired(block[i], block[k].id, a)
  BY DEF Gets, Edited, Good, IsSeq
<1>2. CASE k < Len(block)
  <2> DEFINE q == Len(block)
  <2>1. q \in k + 1 .. Len(block) /\ q - 1 + Len(core) = Len(c)
    BY <1>1, <1>2
  <2>2. c[Len(c)] = Rewired(block[q], block[k].id, a)
    BY <1>1, <2>1
  <2>3. QED
    BY <2>2 DEF Ret, Rewired, Inst
<1>3. CASE k = Len(block)
  <2>1. Len(core) \in 1 .. Len(core) /\ core[Len(core)].op = block[k].op /\ k - 1 + Len(core) = Len(c)
    BY <1>1, <1>3 DEF Gets
  <2>2. c[Len(c)] = core[Len(core)]
    BY <1>1, <2>1
  <2>3. QED
    BY <1>3, <2>1, <2>2 DEF Ret
<1>4. QED
  BY <1>1, <1>2, <1>3

\* Code put in front of an instruction, which is J from then on.
LEMMA PlaceGets ==
  ASSUME Good(block, source), NEW c, NEW k \in 1 .. Len(block), NEW new, NEW J, Inserted(block, c, k, new, J)
  PROVE  Gets(c, k, Append(new, J), Value(block[k].id))
<1>1. IsSeq(new) /\ J.op = block[k].op /\ Edited(block, c, k, Append(new, J), block[k].id, Value(block[k].id))
  BY DEF Inserted
<1>2. LET core == Append(new, J)
      IN  IsSeq(core) /\ Len(core) = Len(new) + 1 /\ core[Len(new) + 1] = J
  BY <1>1, AppendIs
<1>3. Len(new) \in Nat
  BY <1>1 DEF IsSeq
<1> DEFINE core == Append(new, J)
<1>4. IsSeq(core) /\ Len(core) >= 1 /\ core[Len(core)] = J
  BY <1>2, <1>3
<1> HIDE DEF core
<1>5. Gets(c, k, core, Value(block[k].id))
  <2>1. Edited(block, c, k, core, block[k].id, Value(block[k].id))
    BY <1>1 DEF core
  <2>2. QED
    BY <1>1, <1>4, <2>1 DEF Gets
<1>6. QED
  BY <1>5 DEF core

LEMMA SubstituteGets ==
  ASSUME IInv, TInv, NEW dice \in {0, 1}, Substitute(dice)
  PROVE  \E k : /\ block[k].op \in {"add", "sub", "mul"} /\ Made(k, Substitution(block[k], dice))
                /\ Gets(block', k, Substitution(block[k], dice).code, Substitution(block[k], dice).a)
<1> DEFINE s == Substitution(This, dice)
<1>1. /\ pc = "visit" /\ Pass = "inst_sub" /\ todo # <<>>
      /\ block' = eraseFromParent(replaceAllUsesWith(Before(block, Position(block, This.id), s.code),
                                                     This.id, s.a), This.id)
  BY DEF Substitute, Visiting, Running
<1>2. Good(block, source)
  BY BlockIs
<1>3. PICK k \in 1 .. Len(block) :
        /\ This = block[k] /\ Visit[1] = block[k].id /\ Position(block, block[k].id) = k
        /\ block[k].op # "phi" /\ block[k].op \in {"add", "sub", "mul"}
  BY <1>1, ThisIs
<1>4. Made(k, s) /\ s.a # Value(block[k].id)
  BY <1>2, <1>3, SubstitutionMade
<1> DEFINE r == replaceAllUsesWith(Before(block, k, s.code), block[k].id, s.a)
           q == k + Len(s.code)
<1>5. block' = eraseFromParent(r, block[k].id)
  BY <1>1, <1>3
<1>6. s = Substitution(block[k], dice)
  BY <1>3
<1> HIDE DEF s
<1>7. /\ Good(r, source) /\ q \in 1 .. Len(r) /\ r[q].id = block[k].id
  BY <1>2, <1>3, <1>4, Superseded
<1>8. block' = RemoveAt(r, q)
  <2> HIDE DEF r, q
  <2>1. QED
    BY <1>5, <1>7, PositionIs DEF eraseFromParent
<1>9. IsSeq(r)
  BY <1>7 DEF Good
<1>10. NewCode(block, k, s.code) /\ IsSeq(s.code)
  BY <1>4 DEF Made, NewCode
<1>11. Edited(block, block', k, s.code, block[k].id, s.a)
  <2> DEFINE new == s.code
             a == s.a
             rr == replaceAllUsesWith(Before(block, k, new), block[k].id, a)
  <2>1. NewCode(block, k, new) /\ rr = r /\ block' = RemoveAt(rr, k + Len(new))
    BY <1>8, <1>10
  <2> HIDE DEF new, a, r, q
  <2>2. IsSeq(rr) => Edited(block, RemoveAt(rr, k + Len(new)), k, new, block[k].id, a)
    BY <1>2, <1>3, <2>1, SupersedeEdited
  <2>3. QED
    BY <1>9, <2>1, <2>2 DEF new, a
<1>12. k < Len(block)
  <2>1. block[k].op \notin Terminators /\ Len(block) \in Nat
    BY <1>2, <1>3 DEF Terminators, Good, IsSeq
  <2>2. QED
    BY <1>2, <2>1 DEF Good, OneTerminator
<1> HIDE DEF r, q
<1>13. Gets(block', k, s.code, s.a)
  BY <1>10, <1>11, <1>12 DEF Gets
<1>14. QED
  BY <1>3, <1>4, <1>6, <1>13

\* SupersedeEdited, of the block that is rewritten.
LEMMA SupersedeBlock ==
  ASSUME Good(block, source), NEW k \in 1 .. Len(block), block[k].op # "phi",
         NEW new, NewCode(block, k, new), NEW a
  PROVE  LET r == replaceAllUsesWith(Before(block, k, new), block[k].id, a)
             core == Append(new, block[k])
         IN  /\ IsSeq(new) /\ IsSeq(core) /\ Len(core) = Len(new) + 1 /\ core[Len(new) + 1] = block[k]
             /\ Edited(block, r, k, core, block[k].id, a)
BY SupersedeEdited

LEMMA ToShlGets ==
  ASSUME IInv, TInv, ToShl
  PROVE  \E k : LET I == block[k]
                    st == Create(Start, "shl", I.w, I.args[3 - ConstantSide(I)], Const(1))
                IN  /\ I.op = "mul" /\ IsMulBy2(I)
                    /\ Gets(block', k, Append(st.code, I), st.a)
<1>1. /\ pc = "visit" /\ Pass = "Mul2ToShl1" /\ todo # <<>> /\ IsMulBy2(This)
  BY DEF ToShl, Visiting, Running
<1>2. Good(block, source) /\ WellTyped(block)
  BY BlockIs DEF TInv
<1>3. PICK k \in 1 .. Len(block) :
        /\ This = block[k] /\ Position(block, block[k].id) = k /\ block[k].op = "mul"
  BY <1>1, ThisIs
<1> DEFINE I == block[k]
           st == Create(Start, "shl", I.w, I.args[3 - ConstantSide(I)], Const(1))
           c == replaceAllUsesWith(Before(block, k, st.code), I.id, st.a)
<1>4. block' = c
  BY <1>3 DEF ToShl
<1>5. Made(k, st)
  <2> DEFINE s == Ran(Outset, block, <<>>)[k - 1]
  <2>1. Built(k, I.w, s, <<>>, st, FALSE)
    BY <1>1, <1>2, <1>3, NoneOK, ToShlBuilt
  <2>2. QED
    BY <2>1 DEF Built
<1> HIDE DEF st
<1>6. NewCode(block, k, st.code)
  BY <1>5 DEF Made
<1>7. LET core == Append(st.code, block[k])
      IN  /\ IsSeq(core) /\ Len(core) = Len(st.code) + 1 /\ core[Len(st.code) + 1] = block[k]
          /\ Edited(block, c, k, core, block[k].id, st.a) /\ IsSeq(st.code)
  <2> DEFINE new == st.code
             a == st.a
  <2>1. NewCode(block, k, new) /\ block[k].op # "phi"
    BY <1>3, <1>6
  <2> HIDE DEF new, a
  <2>2. LET rr == replaceAllUsesWith(Before(block, k, new), block[k].id, a)
            core == Append(new, block[k])
        IN  /\ IsSeq(new) /\ IsSeq(core) /\ Len(core) = Len(new) + 1 /\ core[Len(new) + 1] = block[k]
            /\ Edited(block, rr, k, core, block[k].id, a)
    BY <1>2, <2>1, SupersedeBlock
  <2>3. QED
    BY <2>2 DEF new, a
<1> HIDE DEF c
<1>8. Gets(c, k, Append(st.code, block[k]), st.a)
  <2> DEFINE core == Append(st.code, block[k])
  <2>1. Len(core) >= 1 /\ core[Len(core)] = block[k] /\ IsSeq(core) /\ Edited(block, c, k, core, block[k].id, st.a)
    BY <1>7 DEF IsSeq
  <2> HIDE DEF core
  <2>2. Gets(c, k, core, st.a)
    BY <2>1 DEF Gets
  <2>3. QED
    BY <2>2 DEF core
<1>9. QED
  BY <1>1, <1>3, <1>4, <1>8 DEF st

LEMMA EraseOneGets ==
  ASSUME IInv, TInv, EraseOne
  PROVE  \E k : block[k].op = "mul" /\ Gets(block', k, <<>>, Value(block[k].id))
<1>1. /\ todo = <<>> /\ toErase # <<>> /\ block' = eraseFromParent(block, Head(toErase))
  BY DEF EraseOne
<1>2. Good(block, source) /\ WellTyped(block)
  BY BlockIs DEF TInv
<1>3. Len(toErase) >= 1 /\ Head(toErase) = toErase[1] /\ 1 \in 1 .. Len(toErase)
  <2>1. IsSeq(toErase) /\ Len(toErase) \in Nat
    BY DEF IInv, ErasedFit, IsSeq
  <2>2. QED
    BY <1>1, <2>1, HeadTail
<1>4. PICK k \in 1 .. Len(block) : block[k].id = toErase[1] /\ block[k].op = "mul"
  BY <1>3 DEF IInv, ErasedFit
<1>5. Unused(block, block[k].id)
  BY <1>3, <1>4 DEF IInv, ErasedFit
<1>6. block' = RemoveAt(block, k)
  BY <1>1, <1>2, <1>3, <1>4, PositionIs DEF eraseFromParent
<1> DEFINE a == Value(block[k].id)
<1>7. Edited(block, block', k, <<>>, block[k].id, a)
  <2> HIDE DEF a
  <2>1. QED
    BY <1>2, <1>5, <1>6, EraseEdited
<1>8. k < Len(block)
  <2>1. block[k].op \notin Terminators /\ Len(block) \in Nat
    BY <1>2, <1>4 DEF Terminators, Good, IsSeq
  <2>2. QED
    BY <1>2, <2>1 DEF Good, OneTerminator
<1>9. Gets(block', k, <<>>, a)
  BY <1>7, <1>8, EmptyIs DEF Gets
<1>10. QED
  BY <1>4, <1>9

\* Binary operations inserted.
LEMMA InsertGarbageGets ==
  ASSUME IInv, TInv, NEW pattern \in 0 .. 4, NEW n \in Nat, InsertGarbage(pattern, n)
  PROVE  \E k, new : /\ NewCode(block, k, new) /\ \A i \in 1 .. Len(new) : new[i].op \in Binary
                     /\ Gets(block', k, Append(new, block[k]), Value(block[k].id))
<1> DEFINE base == At(block, Visit[3])
           s == Garbage(Value(base.id), base.w, pattern, n)
<1>1. /\ pc = "visit" /\ Pass = "garbage_insert" /\ todo # <<>>
      /\ block' = Before(block, Position(block, This.id) + 1, s.code)
  BY DEF InsertGarbage, Visiting, Running
<1>2. Good(block, source) /\ WellTyped(block) /\ Aimed /\ Len(block) \in Nat
  BY BlockIs DEF TInv, IsSeq
<1>3. PICK k \in 1 .. Len(block) :
        /\ This = block[k] /\ Position(block, block[k].id) = k
        /\ block[k].op \notin Terminators /\ Defined(block, k, Visit[3])
  BY <1>1, ThisIs
<1>4. k + 1 \in 1 .. Len(block)
  BY <1>2, <1>3 DEF Good, OneTerminator
<1>5. PICK l \in 1 .. k - 1 : block[l].id = Visit[3]
  BY <1>3 DEF Defined
<1>6. l \in 1 .. Len(block) /\ l \in 1 .. (k + 1) - 1
  BY <1>2
<1>7. base = block[l]
  BY <1>2, <1>5, <1>6, PositionIs
<1>8. IsIntegerTy(block[l])
  <2>1. Aims(block, Pass, Visit)
    BY <1>1, <1>2, AimsNow
  <2>2. PICK i \in 1 .. Len(block) : block[i].id = Visit[3] /\ IsIntegerTy(block[i])
    BY <1>1, <2>1 DEF Aims
  <2>3. i = l
    BY <1>2, <1>5, <1>6, <2>2 DEF Good, Distinct
  <2>4. QED
    BY <2>2, <2>3
<1> DEFINE w == block[l].w
           m == k + 1
           x == Value(block[l].id)
           g == Garbage(x, w, pattern, n)
<1>9. block' = Before(block, m, g.code)
  BY <1>1, <1>3, <1>7
<1>10. w \in Nat \ {0} /\ ~IsConst(x) /\ m \in 1 .. Len(block) /\ l \in 1 .. m - 1
  BY <1>2, <1>4, <1>6, OperandSorts DEF WellTyped, Shaped
<1>11. Built(m, w, Ran(Outset, block, <<>>)[m - 1], <<>>, g, pattern = 1 /\ w = 1)
  <2> DEFINE t == Ran(Outset, block, <<>>)[m - 1]
             v == t.val[block[l].id]
  <2>1. Has(m, w, t, <<>>, Start, x, v)
    <3> HIDE DEF m
    <3>1. QED
      BY <1>2, <1>8, <1>10, NoneOK, ValueHas
  <2>2. Built(m, w, t, <<>>, Start, FALSE)
    <3> HIDE DEF m
    <3>1. QED
      BY <1>2, <1>10, NoneOK, StartBuilt
  <2> HIDE DEF t, v, w, x, m
  <2>3. QED
    BY <1>2, <1>10, <2>1, <2>2, GarbageBuilt DEF t
<1> HIDE DEF g, w
<1>12. NewCode(block, m, g.code) /\ IsSeq(g.code) /\ \A i \in 1 .. Len(g.code) : g.code[i].op \in Binary
  BY <1>11 DEF Built, Made, NewCode, Arithmetic
<1> HIDE DEF m
<1>13. Inserted(block, block', m, g.code, block[m])
  BY <1>2, <1>9, <1>10, <1>12, BeforeInserted
<1>14. Gets(block', m, Append(g.code, block[m]), Value(block[m].id))
  BY <1>2, <1>10, <1>13, PlaceGets
<1>15. QED
  BY <1>12, <1>14

(* What an edit leaves of the counters' values, the numbers N added to them. *)
Later(C, S, N, M) ==
  /\ N \subseteq Nat /\ M \subseteq N /\ \A n \in N : n >= Fresh

LEMMA LaterIs ==
  ASSUME Good(block, source), NEW C, NEW S, Clean(block, C, S), NEW N, NEW M, Later(C, S, N, M)
  PROVE  /\ S \cup M \subseteq C \cup N /\ S \cup M \subseteq Nat \ {0}
         /\ \A i \in 1 .. Len(block) : /\ block[i].id \notin N /\ block[i].id \notin M
                                       /\ block[i].id \in C <=> block[i].id \in C \cup N
                                       /\ block[i].id \in S <=> block[i].id \in S \cup M
         /\ \A n \in C : n \notin N /\ n < Fresh
<1>1. Fresh \in Nat \ {0}
  BY FreshQuiet DEF Good, IsSeq
<1>2. \A i \in 1 .. Len(block) : block[i].id < Fresh /\ block[i].id \in Nat
  BY FreshIs DEF Good, GoodInst
<1>3. \A i \in 1 .. Len(block) : block[i].id \notin N
  BY <1>1, <1>2 DEF Later
<1>4. \A n \in C : n < Fresh /\ n \notin N
  BY <1>2, <1>3 DEF Clean, Present
<1>5. \A n \in M : n \in N /\ n \in Nat \ {0}
  BY <1>1 DEF Later
<1>6. S \subseteq C /\ S \subseteq Nat \ {0}
  BY DEF Clean
<1>7. QED
  BY <1>3, <1>4, <1>5, <1>6

LEMMA StaysClear ==
  ASSUME Good(block, source), WellTyped(block), NEW C, NEW S, Clean(block, C, S), NEW N, NEW M, Later(C, S, N, M),
         NEW k \in 1 .. Len(block)
  PROVE  Clear(block[k], C \cup N, S \cup M)
<1> DEFINE I == block[k]
           D == C \cup N
           T == S \cup M
           x == block[k].id
           a == Value(x)
<1>1. IsSeq(I.args) /\ (\A j \in 1 .. Len(I.args) : IsOperand(I.args[j])) /\ Shaped(I) /\ Clear(I, C, S)
  BY DEF Good, GoodInst, WellTyped, Clean
<1>2. /\ I.id \in C <=> I.id \in D
      /\ I.id \in S <=> I.id \in T
      /\ \A i \in 1 .. Len(block) : block[i].id \notin M
  BY LaterIs
<1>3. Hands(x, a, C, S, D, T)
  BY <1>2 DEF Hands
<1>4. ASSUME NEW j \in 1 .. Len(I.args), NEW n \in T, n # x, I.args[j] = Value(n) PROVE n \in S
  <2>1. ~IsConst(I.args[j]) /\ I.args[j].n = n
    BY <1>4, OperandSorts
  <2>2. PICK l \in 1 .. k - 1 : block[l].id = n
    BY <2>1 DEF Good, UsesDefined, Defined
  <2>3. l \in 1 .. Len(block)
    BY DEF Good, IsSeq
  <2>4. QED
    BY <1>2, <2>2, <2>3
<1>5. Rewired(I, x, a) = I
  <2> HIDE DEF x
  <2>1. QED
    BY GoodRewired
<1> HIDE DEF I, D, T, x, a
<1>6. Clear(Rewired(I, x, a), D, T)
  BY <1>1, <1>2, <1>3, <1>4, RewiredClear
<1>7. QED
  BY <1>5, <1>6 DEF I, D, T

\* The slots T are the counters' in c, too, as far as they are there.
Handed(c, T) == \E E, F : Clean(c, E, F) /\ \A n \in T : Present(c, n) => n \in F

LEMMA GetsClean ==
  ASSUME Good(block, source), WellTyped(block), NEW c, Good(c, source), WellTyped(c),
         NEW k, NEW core, NEW a, Gets(c, k, core, a),
         NEW C, NEW S, Clean(block, C, S), NEW N, NEW M, Later(C, S, N, M),
         \/ a = Value(block[k].id)
         \/ /\ IsOperand(a) /\ block[k].id \notin S
            /\ IsConst(a) \/ (a.n \notin S \cup M /\ (block[k].id \in C => a.n \in C \cup N)),
         \A i \in 1 .. Len(core) : Clear(core[i], C \cup N, S \cup M)
  PROVE  Handed(c, S \cup M)
<1> DEFINE D == C \cup N
           T == S \cup M
<1>1. k \in 1 .. Len(block) /\ IsSeq(core) /\ Edited(block, c, k, core, block[k].id, a)
  BY DEF Gets
<1>2. /\ T \subseteq D /\ T \subseteq Nat \ {0}
      /\ \A i \in 1 .. Len(block) : /\ block[i].id \in C <=> block[i].id \in D
                                    /\ block[i].id \in S <=> block[i].id \in T
  BY LaterIs
<1>3. Hands(block[k].id, a, C, S, D, T)
  BY <1>1, <1>2 DEF Hands
<1>4. AllClear(core, D, T)
  BY DEF AllClear
<1> HIDE DEF D, T
<1>5. OthersSame(block, k, C, D) /\ OthersSame(block, k, S, T)
  BY <1>2 DEF OthersSame
<1>6. Slots(D, T)
  BY <1>2 DEF Slots
<1>7. Clean(c, Those(c, D), Those(c, T))
  BY <1>1, <1>3, <1>4, <1>5, <1>6, EditClean
<1>8. QED
  BY <1>7 DEF T, Handed, Those

Cleans(c) == \A C, S : Clean(block, C, S) => Handed(c, S)

\* Instructions nothing is counted with.
Foreign(I, C, S) == I.id \notin C /\ I.op # "report" /\ ~Into(I, S)

LEMMA ForeignClear ==
  ASSUME NEW I, NEW C, NEW S, Foreign(I, C, S), S \subseteq C
  PROVE  Clear(I, C, S)
BY DEF Foreign, Clear, Mine

LEMMA BinaryForeign ==
  ASSUME NEW I, I.op \in Binary, NEW C, NEW S, I.id \notin C
  PROVE  Foreign(I, C, S)
BY DEF Foreign, Into, Binary

\* Nothing of it counts.
LEMMA ForeignCleans ==
  ASSUME Good(block, source), WellTyped(block), NEW c, Good(c, source), WellTyped(c),
         NEW k, NEW core, NEW a, Gets(c, k, core, a),
         \A C, S : Clean(block, C, S) =>
           /\ \/ a = Value(block[k].id)
              \/ block[k].id \notin C /\ IsOperand(a) /\ (IsConst(a) \/ a.n \notin S)
           /\ \A i \in 1 .. Len(core) : core[i] = block[k] \/ Foreign(core[i], C, S)
  PROVE  Cleans(c)
<1> SUFFICES ASSUME NEW C, NEW S, Clean(block, C, S)
             PROVE  Handed(c, S)
  BY DEF Cleans
<1>1. Later(C, S, {}, {})
  BY DEF Later
<1>2. S \subseteq C
  BY DEF Clean
<1>3. k \in 1 .. Len(block)
  BY DEF Gets
<1>4. \A i \in 1 .. Len(core) : Clear(core[i], C, S)
  <2>1. Clear(block[k], C, S)
    BY <1>3 DEF Clean
  <2>2. QED
    BY <1>2, <2>1, ForeignClear
<1> DEFINE N == {}
<1>5. /\ Later(C, S, N, N) /\ C = C \cup N /\ S = S \cup N
      /\ \A i \in 1 .. Len(core) : Clear(core[i], C \cup N, S \cup N)
  <2>1. C = C \cup {} /\ S = S \cup {}
    OBVIOUS
  <2>2. QED
    BY <1>1, <1>4, <2>1
<1>6. \/ a = Value(block[k].id)
      \/ /\ IsOperand(a) /\ block[k].id \notin S
         /\ IsConst(a) \/ (a.n \notin S /\ (block[k].id \in C => a.n \in C))
  BY <1>2
<1> HIDE DEF N
<1>7. Handed(c, S \cup N)
  <2>1. \/ a = Value(block[k].id)
        \/ /\ IsOperand(a) /\ block[k].id \notin S
           /\ IsConst(a) \/ (a.n \notin S \cup N /\ (block[k].id \in C => a.n \in C \cup N))
    BY <1>5, <1>6
  <2>2. Later(C, S, N, N)
    BY <1>5
  <2>3. \A i \in 1 .. Len(core) : Clear(core[i], C \cup N, S \cup N)
    BY <1>5
  <2>4. Good(block, source) /\ WellTyped(block) /\ Good(c, source) /\ WellTyped(c) /\ Gets(c, k, core, a) /\ Clean(block, C, S)
    OBVIOUS
  <2>5. QED
    BY <2>1, <2>2, <2>3, <2>4, GetsClean
<1>8. QED
  BY <1>5, <1>7

\* What stands for a value is no slot.
LEMMA IntegralAside ==
  ASSUME Good(block, source), NEW C, NEW S, Clean(block, C, S), NEW k \in 1 .. Len(block), NEW code, NewCode(block, k, code),
         NEW a, NEW w, Integral(k, code, a, w)
  PROVE  IsConst(a) \/ a.n \notin S
<1>1. SUFFICES ASSUME ~IsConst(a), a.n \in S PROVE FALSE
  OBVIOUS
<1>2. PICK l \in 1 .. Len(block) : block[l].id = a.n
  BY <1>1 DEF Clean, Present
<1>3. block[l].op = "alloca"
  BY <1>1, <1>2 DEF Clean, Clear
<1>4. CASE \E i \in 1 .. k - 1 : block[i].id = a.n /\ IsIntegerTy(block[i])
  <2>1. PICK i \in 1 .. k - 1 : block[i].id = a.n /\ IsIntegerTy(block[i])
    BY <1>4
  <2>2. i \in 1 .. Len(block)
    BY DEF Good, IsSeq
  <2>3. i = l
    BY <1>2, <2>1, <2>2 DEF Good, Distinct
  <2>4. QED
    BY <1>3, <2>1, <2>3 DEF IsIntegerTy, Binary, Calls
<1>5. CASE \E i \in 1 .. Len(code) : code[i].id = a.n
  BY <1>2, <1>5 DEF NewCode
<1>6. QED
  BY <1>1, <1>4, <1>5 DEF Integral

\* Code of additions and subtractions, on values that count or are new.
Simple(st, D) ==
  /\ IsSeq(st.code)
  /\ \A i \in 1 .. Len(st.code) :
       LET I == st.code[i] IN I.op \in {"add", "sub"} /\ I.w = Word /\ I.id \in Nat /\ I.id >= Fresh /\ Pure(I, D)
  /\ IsConst(st.a) \/ st.a.n \in D

LEMMA CreateSimple ==
  ASSUME Fresh \in Nat, NEW D, \A n \in Nat : n >= Fresh => n \in D, NEW st, Simple(st, D), NEW op \in {"add", "sub"},
         NEW x, IsConst(x) \/ x.n \in D, NEW y, IsConst(y) \/ y.n \in D
  PROVE  Simple(Create(st, op, Word, x, y), D)
<1> DEFINE t == Create(st, op, Word, x, y)
           id == Fresh + Len(st.code)
           I == Inst(id, op, Word, <<x, y>>)
<1>1. CASE IsConst(x) /\ IsConst(y)
  <2>1. t = [st EXCEPT !.a = Const(Compute(op, x.n, y.n, Word))]
    BY <1>1 DEF Create
  <2>2. t.code = st.code /\ (t.a = Const(Compute(op, x.n, y.n, Word)) \/ t.a = st.a)
    BY <2>1
  <2>3. IsConst(t.a) \/ t.a.n \in D
    <3> HIDE DEF t
    <3>1. QED
      BY <2>2, OperandSorts DEF Simple
  <2> HIDE DEF t
  <2>4. Simple(t, D)
    BY <2>2, <2>3 DEF Simple
  <2>5. QED
    BY <2>4 DEF t
<1>2. CASE ~(IsConst(x) /\ IsConst(y))
  <2>1. t.code = Append(st.code, I) /\ t.a = Value(id)
    BY <1>2 DEF Create
  <2>2. Dyadic(I, id, op, Word, x, y)
    BY DyadicIs
  <2>3. id \in Nat /\ id >= Fresh /\ id \in D
    BY DEF Simple, IsSeq
  <2> HIDE DEF t, I, id
  <2>4. /\ IsSeq(t.code) /\ Len(t.code) = Len(st.code) + 1 /\ t.code[Len(st.code) + 1] = I
        /\ \A i \in 1 .. Len(st.code) : t.code[i] = st.code[i]
    BY <2>1, AppendIs DEF Simple
  <2>5. \A i \in 1 .. Len(st.code) + 1 : i \in 1 .. Len(st.code) \/ i = Len(st.code) + 1
    BY DEF Simple, IsSeq
  <2>6. Pure(I, D)
    <3>1. \A j \in 1 .. 2 : j = 1 \/ j = 2
      OBVIOUS
    <3>2. QED
      BY <2>2, <3>1 DEF Dyadic, Pure
  <2>7. I.op \in {"add", "sub"} /\ I.w = Word /\ I.id \in Nat /\ I.id >= Fresh
    BY <2>2, <2>3 DEF Dyadic
  <2>8. t.a.n \in D
    BY <2>1, <2>3, OperandSorts
  <2>9. Simple(t, D)
    BY <2>4, <2>5, <2>6, <2>7, <2>8 DEF Simple
  <2>10. QED
    BY <2>9 DEF t
<1>3. QED
  BY <1>1, <1>2

LEMMA SubstitutionSimple ==
  ASSUME Fresh \in Nat, NEW D, \A n \in Nat : n >= Fresh => n \in D, NEW I, I.op \in {"add", "sub"}, I.w = Word,
         IsConst(I.args[1]) \/ I.args[1].n \in D, IsConst(I.args[2]) \/ I.args[2].n \in D, NEW dice \in {0, 1}
  PROVE  Simple(Substitution(I, dice), D)
<1> DEFINE a == I.args[1]
           b == I.args[2]
           nega == Neg(Start, a, Word)
           negb == Neg(Start, b, Word)
           both == Neg(nega, b, Word)
           sum == Create(both, "add", Word, nega.a, both.a)
           t == Substitution(I, dice)
           In(z) == IsConst(z) \/ z.n \in D
<1>1. In(a) /\ In(b)
  OBVIOUS
<1>2. Simple(Start, D) /\ In(Const(0))
  BY StartMade, EmptyIs, OperandSorts DEF Simple
<1>3. \A st, x, y : Simple(st, D) /\ In(x) /\ In(y) =>
        Simple(Create(st, "add", Word, x, y), D) /\ Simple(Create(st, "sub", Word, x, y), D)
  BY CreateSimple
<1>4. \A st : Simple(st, D) => In(st.a)
  BY DEF Simple
<1>5. \/ t = Create(negb, "sub", Word, a, negb.a) \/ t = Neg(sum, sum.a, Word)
      \/ t = Create(negb, "add", Word, a, negb.a)
  BY DEF Substitution
<1> HIDE DEF a, b, t, In
<1>6. \A st, x : Simple(st, D) /\ In(x) => Simple(Neg(st, x, Word), D)
  BY <1>2, <1>3 DEF Neg
<1>7. Simple(nega, D) /\ Simple(negb, D)
  BY <1>1, <1>2, <1>6
<1> HIDE DEF nega, negb
<1>8. Simple(both, D)
  BY <1>1, <1>6, <1>7
<1> HIDE DEF both
<1>9. Simple(sum, D)
  BY <1>3, <1>4, <1>7, <1>8
<1> HIDE DEF sum
<1>10. Simple(t, D)
  BY <1>1, <1>3, <1>4, <1>5, <1>6, <1>7, <1>9
<1>11. QED
  BY <1>10 DEF t

\* New code of binary operations is none that counts.
LEMMA NewForeign ==
  ASSUME Good(block, source), NEW C, NEW S, Clean(block, C, S), NEW k, NEW new, NewCode(block, k, new),
         NEW i \in 1 .. Len(new), new[i].op \in Binary
  PROVE  Foreign(new[i], C, S)
<1>1. new[i].id \notin C
  BY DEF NewCode, Clean, Present
<1>2. QED
  BY <1>1, BinaryForeign
LEMMA SubstituteCleans ==
  ASSUME IInv, TInv, NEW dice \in {0, 1}, Substitute(dice), Good(block', source), WellTyped(block')
  PROVE  Cleans(block')
<1>1. Good(block, source) /\ WellTyped(block)
  BY BlockIs DEF TInv
<1>2. PICK k : /\ block[k].op \in {"add", "sub", "mul"} /\ Made(k, Substitution(block[k], dice))
               /\ Gets(block', k, Substitution(block[k], dice).code, Substitution(block[k], dice).a)
  BY SubstituteGets
<1> DEFINE I == block[k]
           st == Substitution(I, dice)
           input == <<>>
           s == Ran(Outset, block, input)[k - 1]
<1>3. k \in 1 .. Len(block)
  BY <1>2 DEF Gets
<1>4. Built(k, I.w, s, input, st, FALSE) /\ Integral(k, st.code, st.a, I.w)
  <2>1. InputOK(input)
    BY NoneOK
  <2>2. /\ Built(k, I.w, s, input, st, FALSE)
        /\ Has(k, I.w, s, input, st, st.a,
               Compute(I.op, ArgValue(s, I.args[1]), ArgValue(s, I.args[2]), I.w))
    BY <1>1, <1>2, <1>3, <2>1, SubstitutionBuilt
  <2> HIDE DEF st, s
  <2>3. QED
    BY <2>2 DEF Has
<1>5. SUFFICES ASSUME NEW C, NEW S, Clean(block, C, S) PROVE Handed(block', S)
  BY DEF Cleans
<1> DEFINE N == IF I.id \in C THEN {n \in Nat : n >= Fresh} ELSE {}
           M == {}
           code == st.code
           a == st.a
<1>6. Later(C, S, N, M)
  BY DEF Later
<1>7. Gets(block', k, code, a) /\ Made(k, st) /\ NewCode(block, k, code) /\ Integral(k, code, a, I.w) /\ Arithmetic(code, I.w)
  BY <1>2, <1>4 DEF Made, Built
<1>8. IsOperand(a)
  BY <1>7 DEF Made, Avail
<1>9. I.id \notin S /\ Clear(I, C, S)
  <2>1. Clear(I, C, S)
    BY <1>3, <1>5 DEF Clean
  <2>2. QED
    BY <1>2, <2>1 DEF Clear
<1>10. S \cup M = S
  OBVIOUS
<1>11. IsConst(a) \/ a.n \notin S
  <2> HIDE DEF code, a, I, st
  <2>1. QED
    BY <1>1, <1>3, <1>5, <1>7, IntegralAside
<1>12. ASSUME I.id \in C PROVE Simple(st, C \cup N)
  <2>1. Fresh \in Nat /\ \A n \in Nat : n >= Fresh => n \in C \cup N
    BY <1>1, <1>12, FreshIs
  <2>2. I.op \in {"add", "sub"} /\ I.w = Word /\ Pure(I, C)
    BY <1>2, <1>9, <1>12 DEF Clear, Plain, Mine
  <2>3. Len(I.args) = 2
    BY <1>1, <1>3, <2>2 DEF Good, GoodInst, Binary
  <2>4. \A j \in 1 .. 2 : IsConst(I.args[j]) \/ I.args[j].n \in C \cup N
    BY <2>2, <2>3 DEF Pure
  <2>5. (IsConst(I.args[1]) \/ I.args[1].n \in C \cup N) /\ (IsConst(I.args[2]) \/ I.args[2].n \in C \cup N)
    BY <2>4
  <2> DEFINE D == C \cup N
  <2> HIDE DEF D, I, N
  <2>6. Simple(Substitution(I, dice), D)
    BY <2>1, <2>2, <2>5, SubstitutionSimple DEF D
  <2>7. QED
    BY <2>6 DEF D
<1>13. ASSUME NEW i \in 1 .. Len(code) PROVE Clear(code[i], C \cup N, S \cup M)
  <2>1. CASE I.id \in C
    <3> DEFINE J == code[i]
    <3>1. J.op \in {"add", "sub"} /\ J.w = Word /\ Pure(J, C \cup N)
      BY <1>12, <2>1 DEF Simple
    <3>2. J.id \notin S
      <4>1. S \subseteq C /\ \A n \in C : Present(block, n)
        BY <1>5 DEF Clean
      <4>2. ~Present(block, J.id)
        BY <1>7 DEF NewCode, Present
      <4>3. QED
        BY <4>1, <4>2
    <3> HIDE DEF J, N, M
    <3>3. Clear(J, C \cup N, S)
      BY <3>1, <3>2 DEF Clear, Plain
    <3>4. QED
      BY <1>10, <3>3 DEF J
  <2>2. CASE I.id \notin C
    <3>1. C \cup N = C
      BY <2>2
    <3>2. code[i].op \in Binary
      BY <1>7 DEF Arithmetic
    <3> HIDE DEF code, N, M
    <3>3. Foreign(code[i], C, S) /\ S \subseteq C
      BY <1>1, <1>5, <1>7, <3>2, NewForeign DEF Clean
    <3>4. QED
      BY <1>10, <3>1, <3>3, ForeignClear
  <2>3. QED
    BY <2>1, <2>2
<1>14. I.id \in C => IsConst(a) \/ a.n \in C \cup N
  BY <1>12 DEF Simple
<1> HIDE DEF code, a, N, M, I, st
<1>15. Handed(block', S \cup M)
  <2>1. IsOperand(a) /\ block[k].id \notin S /\ (IsConst(a) \/ (a.n \notin S \cup M /\ (block[k].id \in C => a.n \in C \cup N)))
    BY <1>8, <1>9, <1>10, <1>11, <1>14 DEF I
  <2> DEFINE c == block'
  <2>2. Good(c, source) /\ WellTyped(c) /\ Gets(c, k, code, a)
    BY <1>7
  <2> HIDE DEF c
  <2>3. Handed(c, S \cup M)
    BY <1>1, <1>5, <1>6, <1>13, <2>1, <2>2, GetsClean
  <2>4. QED
    BY <2>3 DEF c
<1>16. QED
  BY <1>10, <1>15

LEMMA ToShlCleans ==
  ASSUME IInv, TInv, ToShl, Good(block', source), WellTyped(block')
  PROVE  Cleans(block')
<1>1. Good(block, source) /\ WellTyped(block)
  BY BlockIs DEF TInv
<1>2. PICK k : LET I == block[k]
                   st == Create(Start, "shl", I.w, I.args[3 - ConstantSide(I)], Const(1))
               IN  I.op = "mul" /\ IsMulBy2(I) /\ Gets(block', k, Append(st.code, I), st.a)
  BY ToShlGets
<1> DEFINE I == block[k]
           st == Create(Start, "shl", I.w, I.args[3 - ConstantSide(I)], Const(1))
           input == <<>>
           s == Ran(Outset, block, input)[k - 1]
           core == Append(st.code, I)
           a == st.a
           c == block'
<1>3. k \in 1 .. Len(block) /\ I.op = "mul" /\ IsMulBy2(I) /\ Gets(c, k, core, a)
  BY <1>2 DEF Gets
<1>4. Built(k, I.w, s, input, st, FALSE) /\ Integral(k, st.code, st.a, I.w)
  <2>1. InputOK(input)
    BY NoneOK
  <2>2. /\ Built(k, I.w, s, input, st, FALSE)
        /\ Has(k, I.w, s, input, st, st.a,
               Compute("mul", ArgValue(s, I.args[1]), ArgValue(s, I.args[2]), I.w))
    BY <1>1, <1>3, <2>1, ToShlBuilt
  <2> HIDE DEF st, s
  <2>3. QED
    BY <2>2 DEF Has
<1> HIDE DEF st
<1>5. NewCode(block, k, st.code) /\ IsOperand(a) /\ Arithmetic(st.code, I.w) /\ IsSeq(st.code)
  BY <1>4 DEF Built, Made, Avail, NewCode
<1>6. ASSUME NEW C, NEW S, Clean(block, C, S)
      PROVE  /\ I.id \notin C /\ (IsConst(a) \/ a.n \notin S)
             /\ \A i \in 1 .. Len(core) : core[i] = I \/ Foreign(core[i], C, S)
  <2>1. I.id \notin C
    BY <1>3, <1>6 DEF Clean, Clear, Plain
  <2>2. IsConst(a) \/ a.n \notin S
    <3> DEFINE code == st.code
               w == I.w
    <3>1. NewCode(block, k, code) /\ Integral(k, code, a, w)
      BY <1>4, <1>5
    <3> HIDE DEF code, w, a
    <3>2. QED
      BY <1>1, <1>3, <1>6, <3>1, IntegralAside
  <2>3. ASSUME NEW i \in 1 .. Len(core) PROVE core[i] = I \/ Foreign(core[i], C, S)
    <3> DEFINE code == st.code
    <3>1. /\ Len(core) = Len(code) + 1 /\ core[Len(code) + 1] = I
          /\ \A l \in 1 .. Len(code) : core[l] = code[l]
      BY <1>5, AppendIs
    <3>2. Len(code) \in Nat /\ NewCode(block, k, code) /\ \A l \in 1 .. Len(code) : code[l].op \in Binary
      BY <1>5 DEF Arithmetic, IsSeq
    <3> HIDE DEF code, core
    <3>3. \A l \in 1 .. Len(code) : Foreign(code[l], C, S)
      BY <1>1, <1>6, <3>2, NewForeign
    <3>4. i \in 1 .. Len(code) \/ i = Len(code) + 1
      BY <3>1, <3>2
    <3>5. QED
      BY <3>1, <3>3, <3>4
  <2>4. QED
    BY <2>1, <2>2, <2>3
<1>7. Cleans(c)
  <2>1. Good(c, source) /\ WellTyped(c)
    OBVIOUS
  <2>2. \A C, S : Clean(block, C, S) =>
          /\ \/ a = Value(block[k].id)
             \/ block[k].id \notin C /\ IsOperand(a) /\ (IsConst(a) \/ a.n \notin S)
          /\ \A i \in 1 .. Len(core) : core[i] = block[k] \/ Foreign(core[i], C, S)
    BY <1>5, <1>6
  <2> HIDE DEF c, core, a, I
  <2>3. QED
    BY <1>1, <1>3, <2>1, <2>2, ForeignCleans
<1>8. QED
  BY <1>7

LEMMA EraseOneCleans ==
  ASSUME IInv, TInv, EraseOne, Good(block', source), WellTyped(block')
  PROVE  Cleans(block')
<1>1. Good(block, source) /\ WellTyped(block)
  BY BlockIs DEF TInv
<1>2. PICK k : Gets(block', k, <<>>, Value(block[k].id))
  BY EraseOneGets
<1> DEFINE c == block'
           core == <<>>
           a == Value(block[k].id)
<1>3. Good(c, source) /\ WellTyped(c) /\ Gets(c, k, core, a)
  BY <1>2
<1>4. \A C, S : Clean(block, C, S) =>
        /\ \/ a = Value(block[k].id)
           \/ block[k].id \notin C /\ IsOperand(a) /\ (IsConst(a) \/ a.n \notin S)
        /\ \A i \in 1 .. Len(core) : core[i] = block[k] \/ Foreign(core[i], C, S)
  BY EmptyIs
<1> HIDE DEF c, core, a
<1>5. Cleans(c)
  BY <1>1, <1>3, <1>4, ForeignCleans
<1>6. QED
  BY <1>5 DEF c

LEMMA InsertGarbageCleans ==
  ASSUME IInv, TInv, NEW pattern \in 0 .. 4, NEW n \in Nat, InsertGarbage(pattern, n),
         Good(block', source), WellTyped(block')
  PROVE  Cleans(block')
<1>1. Good(block, source) /\ WellTyped(block)
  BY BlockIs DEF TInv
<1>2. PICK k, new : /\ NewCode(block, k, new) /\ \A i \in 1 .. Len(new) : new[i].op \in Binary
                    /\ Gets(block', k, Append(new, block[k]), Value(block[k].id))
  BY InsertGarbageGets
<1> DEFINE c == block'
           core == Append(new, block[k])
           a == Value(block[k].id)
<1>3. Good(c, source) /\ WellTyped(c) /\ Gets(c, k, core, a)
  BY <1>2
<1>4. ASSUME NEW C, NEW S, Clean(block, C, S)
      PROVE  \A i \in 1 .. Len(core) : core[i] = block[k] \/ Foreign(core[i], C, S)
  <2>1. SUFFICES ASSUME NEW i \in 1 .. Len(core) PROVE core[i] = block[k] \/ Foreign(core[i], C, S)
    OBVIOUS
  <2>2. IsSeq(new)
    BY <1>2 DEF NewCode
  <2>3. /\ Len(core) = Len(new) + 1 /\ core[Len(new) + 1] = block[k]
        /\ \A l \in 1 .. Len(new) : core[l] = new[l]
    BY <2>2, AppendIs
  <2>4. Len(new) \in Nat
    BY <2>2 DEF IsSeq
  <2> HIDE DEF core
  <2>5. \A l \in 1 .. Len(new) : Foreign(new[l], C, S)
    BY <1>1, <1>2, <1>4, NewForeign
  <2>6. i \in 1 .. Len(new) \/ i = Len(new) + 1
    BY <2>1, <2>3, <2>4
  <2>7. QED
    BY <2>3, <2>5, <2>6
<1>5. \A C, S : Clean(block, C, S) =>
        /\ \/ a = Value(block[k].id)
           \/ block[k].id \notin C /\ IsOperand(a) /\ (IsConst(a) \/ a.n \notin S)
        /\ \A i \in 1 .. Len(core) : core[i] = block[k] \/ Foreign(core[i], C, S)
  BY <1>4
<1> HIDE DEF c, core, a
<1>6. Cleans(c)
  BY <1>1, <1>3, <1>5, ForeignCleans
<1>7. QED
  BY <1>6 DEF c

\* Code put in front of an instruction.
LEMMA AheadCleans ==
  ASSUME Good(block, source), WellTyped(block), NEW c, Good(c, source), WellTyped(c),
         NEW k \in 1 .. Len(block), NEW new, NEW J, Inserted(block, c, k, new, J),
         NEW C, NEW S, Clean(block, C, S), NEW N, NEW M, Later(C, S, N, M),
         AllClear(new, C \cup N, S \cup M), Clear(J, C \cup N, S \cup M)
  PROVE  Handed(c, S \cup M)
<1> DEFINE core == Append(new, J)
           a == Value(block[k].id)
<1>1. Gets(c, k, core, a)
  BY PlaceGets
<1>2. IsSeq(new)
  BY DEF Inserted
<1>3. Len(core) = Len(new) + 1 /\ core[Len(new) + 1] = J /\ \A l \in 1 .. Len(new) : core[l] = new[l]
  BY <1>2, AppendIs
<1>4. Len(new) \in Nat
  BY <1>2 DEF IsSeq
<1>5. a = Value(block[k].id)
  OBVIOUS
<1> HIDE DEF core, a
<1>6. ASSUME NEW i \in 1 .. Len(core) PROVE Clear(core[i], C \cup N, S \cup M)
  <2>1. i \in 1 .. Len(new) \/ i = Len(new) + 1
    BY <1>3, <1>4
  <2>2. QED
    BY <1>3, <2>1 DEF AllClear
<1>7. QED
  BY <1>1, <1>5, <1>6, GetsClean

LEMMA MonadicPure ==
  ASSUME NEW I, NEW id, NEW op, NEW w, NEW x, Monadic(I, id, op, w, x), NEW D, IsConst(x) \/ x.n \in D
  PROVE  Pure(I, D)
BY DEF Monadic, Pure

LEMMA DyadicPure ==
  ASSUME NEW I, NEW id, NEW op, NEW w, NEW x, NEW y, Dyadic(I, id, op, w, x, y), NEW D,
         IsConst(x) \/ x.n \in D, IsConst(y) \/ y.n \in D
  PROVE  Pure(I, D)
<1>1. \A j \in 1 .. 2 : j = 1 \/ j = 2
  OBVIOUS
<1>2. QED
  BY <1>1 DEF Dyadic, Pure

LEMMA NumbersLater ==
  ASSUME Good(block, source), NEW C, NEW S, Clean(block, C, S), NEW i \in Nat
  PROVE  Fresh \in Nat \ {0} /\ Fresh + i \notin C /\ Fresh + i \notin S
<1>1. Fresh \in Nat \ {0}
  BY FreshQuiet DEF Good, IsSeq
<1>2. Later(C, S, {}, {})
  BY DEF Later
<1>3. \A n \in C : n < Fresh
  BY <1>2, LaterIs
<1>4. S \subseteq C
  BY DEF Clean
<1>5. Fresh + i \notin C
  BY <1>1, <1>3
<1>6. QED
  BY <1>1, <1>4, <1>5

\* A counter that is new is one of them from now on.
LEMMA CounterClean ==
  ASSUME Good(block, source), WellTyped(block), NEW k \in 1 .. Len(block), NEW c, c = Before(block, k, CounterCode),
         Good(c, source), WellTyped(c), NEW C, NEW S, Clean(block, C, S)
  PROVE  Handed(c, S \cup {Fresh})
<1> DEFINE N == {Fresh}
           D == C \cup N
           T == S \cup N
           new == CounterCode
<1>1. /\ IsSeq(new) /\ Len(new) = 2
      /\ Monadic(new[1], Fresh, "alloca", Word, Const(1))
      /\ Dyadic(new[2], Fresh + 1, "store", Word, Const(0), Value(Fresh))
  BY CounterCodeIs
<1>2. Inserted(block, c, k, new, block[k])
  BY <1>1, BeforeInserted
<1>3. /\ Fresh \in Nat \ {0} /\ Fresh + 0 \notin C /\ Fresh + 1 \notin C /\ Fresh + 1 \notin S
  BY NumbersLater
<1>4. Later(C, S, N, N)
  BY <1>3 DEF Later
<1>5. Clear(block[k], D, T)
  BY <1>4, StaysClear
<1>6. Fresh \in D /\ Fresh \in T /\ Fresh + 1 \notin D /\ Fresh + 1 \notin T
  BY <1>3
<1> HIDE DEF D, T, new
<1>7. Clear(new[1], D, T)
  <2>1. Pure(new[1], D)
    BY <1>1, MonadicPure, OperandSorts
  <2>2. QED
    BY <1>1, <2>1 DEF Monadic, Clear, Plain
<1>8. Clear(new[2], D, T)
  <2>1. Pure(new[2], D)
    <3>1. IsConst(Const(0)) /\ Value(Fresh).n \in D
      BY <1>6, OperandSorts
    <3>2. QED
      BY <1>1, <3>1, DyadicPure
  <2>2. QED
    BY <1>1, <1>6, <2>1 DEF Dyadic, Clear
<1>9. AllClear(new, D, T)
  <2>1. \A i \in 1 .. Len(new) : i = 1 \/ i = 2
    BY <1>1
  <2>2. QED
    BY <1>7, <1>8, <2>1 DEF AllClear
<1>10. QED
  BY <1>2, <1>4, <1>5, <1>9, AheadCleans DEF D, T

\* What goes up, and what is reported, is a counter.
LEMMA IncrementClean ==
  ASSUME Good(block, source), WellTyped(block), NEW k \in 1 .. Len(block), NEW m, NEW c,
         c = Before(block, k, IncrementCode(m)),
         Good(c, source), WellTyped(c), NEW C, NEW S, Clean(block, C, S), m \in S
  PROVE  Handed(c, S)
<1> DEFINE N == {Fresh, Fresh + 1}
           M == {}
           D == C \cup N
           T == S \cup M
           new == IncrementCode(m)
<1>1. /\ IsSeq(new) /\ Len(new) = 3
      /\ Monadic(new[1], Fresh, "load", Word, Value(m))
      /\ Dyadic(new[2], Fresh + 1, "add", Word, Value(Fresh), Const(1))
      /\ Dyadic(new[3], Fresh + 2, "store", Word, Value(Fresh + 1), Value(m))
  BY IncrementCodeIs
<1>2. Inserted(block, c, k, new, block[k])
  BY <1>1, BeforeInserted
<1>3. /\ Fresh \in Nat \ {0} /\ Fresh + 0 \notin S /\ Fresh + 1 \notin S
      /\ Fresh + 2 \notin C /\ Fresh + 2 \notin S /\ S \subseteq C
  BY NumbersLater DEF Clean
<1>4. Later(C, S, N, M)
  BY <1>3 DEF Later
<1>5. Clear(block[k], D, T)
  BY <1>4, StaysClear
<1>6. /\ Fresh \in D /\ Fresh + 1 \in D /\ Fresh \notin T /\ Fresh + 1 \notin T
      /\ Fresh + 2 \notin D /\ Fresh + 2 \notin T /\ m \in D /\ m \in T
  BY <1>3
<1> HIDE DEF D, T, new
<1>7. Clear(new[1], D, T)
  <2>1. Pure(new[1], D)
    BY <1>1, <1>6, MonadicPure, OperandSorts
  <2>2. QED
    BY <1>1, <1>6, <2>1 DEF Monadic, Clear, Plain
<1>8. Clear(new[2], D, T)
  <2>1. Pure(new[2], D)
    BY <1>1, <1>6, DyadicPure, OperandSorts
  <2>2. QED
    BY <1>1, <1>6, <2>1 DEF Dyadic, Clear, Plain
<1>9. Clear(new[3], D, T)
  <2>1. Pure(new[3], D)
    BY <1>1, <1>6, DyadicPure, OperandSorts
  <2>2. QED
    BY <1>1, <1>6, <2>1 DEF Dyadic, Clear
<1>10. AllClear(new, D, T)
  <2>1. \A i \in 1 .. Len(new) : i = 1 \/ i = 2 \/ i = 3
    BY <1>1
  <2>2. QED
    BY <1>7, <1>8, <1>9, <2>1 DEF AllClear
<1>11. Handed(c, S \cup M)
  BY <1>2, <1>4, <1>5, <1>10, AheadCleans DEF D, T
<1>12. S \cup M = S
  OBVIOUS
<1>13. QED
  BY <1>11, <1>12

LEMMA ReportClean ==
  ASSUME Good(block, source), WellTyped(block), NEW k \in 1 .. Len(block), NEW m, NEW c,
         c = Before(block, k, ReportCode(m)),
         Good(c, source), WellTyped(c), NEW C, NEW S, Clean(block, C, S), m \in S
  PROVE  Handed(c, S)
<1> DEFINE N == {Fresh}
           M == {}
           D == C \cup N
           T == S \cup M
           new == ReportCode(m)
<1>1. /\ IsSeq(new) /\ Len(new) = 2
      /\ Monadic(new[1], Fresh, "load", Word, Value(m))
      /\ Monadic(new[2], Fresh + 1, "report", Word, Value(Fresh))
  BY ReportCodeIs
<1>2. Inserted(block, c, k, new, block[k])
  BY <1>1, BeforeInserted
<1>3. /\ Fresh \in Nat \ {0} /\ Fresh + 0 \notin S
      /\ Fresh + 1 \notin C /\ Fresh + 1 \notin S /\ S \subseteq C
  BY NumbersLater DEF Clean
<1>4. Later(C, S, N, M)
  BY <1>3 DEF Later
<1>5. Clear(block[k], D, T)
  BY <1>4, StaysClear
<1>6. Fresh \in D /\ Fresh \notin T /\ Fresh + 1 \notin D /\ Fresh + 1 \notin T /\ m \in D /\ m \in T
  BY <1>3
<1> HIDE DEF D, T, new
<1>7. Clear(new[1], D, T)
  <2>1. Pure(new[1], D)
    BY <1>1, <1>6, MonadicPure, OperandSorts
  <2>2. QED
    BY <1>1, <1>6, <2>1 DEF Monadic, Clear, Plain
<1>8. Clear(new[2], D, T)
  <2>1. Pure(new[2], D)
    BY <1>1, <1>6, MonadicPure, OperandSorts
  <2>2. QED
    BY <1>1, <1>6, <2>1 DEF Monadic, Clear
<1>9. AllClear(new, D, T)
  <2>1. \A i \in 1 .. Len(new) : i = 1 \/ i = 2
    BY <1>1
  <2>2. QED
    BY <1>7, <1>8, <2>1 DEF AllClear
<1>10. Handed(c, S \cup M)
  BY <1>2, <1>4, <1>5, <1>9, AheadCleans DEF D, T
<1>11. S \cup M = S
  OBVIOUS
<1>12. QED
  BY <1>10, <1>11

\* The instruction altered, and what the black box puts in front of it.
Altered(k, z, random) ==
  Before([block EXCEPT ![k].args = Swapped(block[k].args, z, Value(Fresh + 3))], k,
         Blackboxed(z.n, block[k].w, random))
AlteredInst(I, z) == Inst(I.id, I.op, I.w, Swapped(I.args, z, Value(Fresh + 3)))

LEMMA AlteredIs ==
  ASSUME Good(block, source), NEW k \in 1 .. Len(block), NEW z, IsConst(z), NEW random
  PROVE  LET I == block[k]
             J == AlteredInst(I, z)
             new == Blackboxed(z.n, I.w, random)
         IN  /\ Inserted(block, Altered(k, z, random), k, new, J)
             /\ J.id = I.id /\ J.op = I.op /\ J.w = I.w /\ IsSeq(I.args) /\ IsSeq(J.args) /\ Len(J.args) = Len(I.args)
             /\ \A j \in 1 .. Len(I.args) : J.args[j] = I.args[j] \/ (IsConst(I.args[j]) /\ J.args[j] = Value(Fresh + 3))
<1> DEFINE I == block[k]
           args == Swapped(I.args, z, Value(Fresh + 3))
           J == AlteredInst(I, z)
           new == Blackboxed(z.n, I.w, random)
<1>1. IsSeq(new) /\ IsSeq(I.args)
  BY BlackboxCode DEF Good, GoodInst
<1>2. Inserted(block, Altered(k, z, random), k, new, J)
  <2> HIDE DEF new, args
  <2>1. Inserted(block, Before([block EXCEPT ![k].args = args], k, new), k, new, Inst(I.id, I.op, I.w, args))
    BY <1>1, SwappedInserted
  <2>2. QED
    BY <2>1 DEF Altered, AlteredInst, new, args
<1>3. J.args = args /\ J.id = I.id /\ J.op = I.op /\ J.w = I.w
  BY DEF AlteredInst, Inst
<1>4. /\ IsSeq(args) /\ Len(args) = Len(I.args)
      /\ \A j \in 1 .. Len(I.args) : args[j] = IF I.args[j] = z THEN Value(Fresh + 3) ELSE I.args[j]
  BY <1>1, SwappedIs
<1> HIDE DEF args, J, new
<1>5. QED
  BY <1>1, <1>2, <1>3, <1>4 DEF J, new, I

\* An instruction nothing is counted with remains one, and the black box is none.
LEMMA AlterForeign ==
  ASSUME Good(block, source), WellTyped(block), NEW k \in 1 .. Len(block), NEW z, IsConst(z), NEW random,
         NEW C, NEW S, Clean(block, C, S), ~Mine(block[k], C, S)
  PROVE  /\ Foreign(AlteredInst(block[k], z), C, S)
         /\ \A i \in 1 .. 4 : Foreign(Blackboxed(z.n, block[k].w, random)[i], C, S)
<1> DEFINE I == block[k]
           J == AlteredInst(I, z)
           new == Blackboxed(z.n, I.w, random)
           w == I.w
<1>1. /\ J.id = I.id /\ J.op = I.op /\ J.w = I.w /\ IsSeq(I.args) /\ IsSeq(J.args) /\ Len(J.args) = Len(I.args)
      /\ \A j \in 1 .. Len(I.args) : J.args[j] = I.args[j] \/ (IsConst(I.args[j]) /\ J.args[j] = Value(Fresh + 3))
  BY AlteredIs
<1>2. \E stored : /\ Monadic(new[1], Fresh, "alloca", w, Const(1))
                  /\ Dyadic(new[2], Fresh + 1, "store", w, stored, Value(Fresh))
                  /\ Monadic(new[3], Fresh + 2, "load", w, Value(Fresh))
                  /\ Dyadic(new[4], Fresh + 3, "xor", w, Value(Fresh + 2), ConstInt(random, w))
  BY BlackboxCode
<1>3. /\ Fresh \in Nat \ {0} /\ Fresh + 0 \notin C /\ Fresh + 0 \notin S /\ Fresh + 1 \notin C
      /\ Fresh + 2 \notin C /\ Fresh + 3 \notin C /\ Fresh + 3 \notin S
  BY NumbersLater
<1>4. I.id \notin C /\ I.op # "report" /\ ~Into(I, S) /\ Shaped(I)
  BY DEF Mine, WellTyped
<1> HIDE DEF I, J, new, w
<1>5. Foreign(J, C, S)
  <2>1. ~Into(J, S)
    <3>1. SUFFICES ASSUME J.op = "store", NEW m \in S, J.args[2] = Value(m) PROVE FALSE
      BY DEF Into
    <3>2. 2 \in 1 .. Len(I.args)
      BY <1>1, <1>4, <3>1 DEF Shaped
    <3>3. I.args[2] # Value(m)
      BY <1>1, <1>4, <3>1 DEF Into
    <3>4. J.args[2] = Value(Fresh + 3)
      BY <1>1, <3>1, <3>2, <3>3
    <3>5. QED
      BY <1>3, <3>1, <3>4, OperandSorts
  <2>2. QED
    BY <1>1, <1>4, <2>1 DEF Foreign
<1>6. \A i \in 1 .. 4 : Foreign(new[i], C, S)
  <2>1. \A i \in 1 .. 4 : i = 1 \/ i = 2 \/ i = 3 \/ i = 4
    OBVIOUS
  <2>2. \A m \in S : Value(Fresh) # Value(m)
    BY <1>3, OperandSorts
  <2>3. Foreign(new[1], C, S) /\ Foreign(new[3], C, S) /\ Foreign(new[4], C, S)
    BY <1>2, <1>3 DEF Monadic, Dyadic, Foreign, Into
  <2>4. Foreign(new[2], C, S)
    BY <1>2, <1>3, <2>2 DEF Dyadic, Foreign, Into
  <2>5. QED
    BY <2>1, <2>3, <2>4
<1>7. QED
  BY <1>5, <1>6 DEF I, J, new, w

\* The black box counts where it hides a constant of a counter's.
LEMMA AlterClean ==
  ASSUME Good(block, source), WellTyped(block), NEW k \in 1 .. Len(block), NEW z, IsConst(z), NEW random,
         NEW c, c = Altered(k, z, random), Good(c, source), WellTyped(c)
  PROVE  Cleans(c)
<1> SUFFICES ASSUME NEW C, NEW S, Clean(block, C, S)
             PROVE  Handed(c, S)
  BY DEF Cleans
<1> DEFINE I == block[k]
           J == AlteredInst(I, z)
           w == I.w
           new == Blackboxed(z.n, w, random)
<1>1. /\ Inserted(block, c, k, new, J)
      /\ J.id = I.id /\ J.op = I.op /\ J.w = I.w /\ IsSeq(I.args) /\ IsSeq(J.args) /\ Len(J.args) = Len(I.args)
      /\ \A j \in 1 .. Len(I.args) : J.args[j] = I.args[j] \/ (IsConst(I.args[j]) /\ J.args[j] = Value(Fresh + 3))
  BY AlteredIs
<1>2. Len(new) = 4 /\ IsSeq(new)
  BY BlackboxCode
<1>3. \E stored : /\ Monadic(new[1], Fresh, "alloca", w, Const(1))
                  /\ Dyadic(new[2], Fresh + 1, "store", w, stored, Value(Fresh)) /\ IsConst(stored)
                  /\ Monadic(new[3], Fresh + 2, "load", w, Value(Fresh))
                  /\ Dyadic(new[4], Fresh + 3, "xor", w, Value(Fresh + 2), ConstInt(random, w))
  BY BlackboxCode, OperandSorts DEF ConstInt
<1>4. /\ Fresh \in Nat \ {0} /\ Fresh + 0 \notin C /\ Fresh + 0 \notin S /\ Fresh + 1 \notin C /\ Fresh + 1 \notin S
      /\ Fresh + 2 \notin S /\ Fresh + 3 \notin S /\ S \subseteq C
  BY NumbersLater DEF Clean
<1>5. CASE ~Mine(I, C, S)
  <2> DEFINE N == {}
  <2>1. Foreign(J, C, S) /\ \A i \in 1 .. 4 : Foreign(new[i], C, S)
    BY <1>5, AlterForeign
  <2>2. Later(C, S, N, N) /\ C \cup N = C /\ S \cup N = S
    BY DEF Later
  <2> HIDE DEF N, I, J, new
  <2>3. AllClear(new, C, S) /\ Clear(J, C, S)
    BY <1>2, <1>4, <2>1, ForeignClear DEF AllClear
  <2>4. AllClear(new, C \cup N, S \cup N) /\ Clear(J, C \cup N, S \cup N)
    BY <2>2, <2>3
  <2>5. Handed(c, S \cup N)
    BY <1>1, <2>2, <2>4, AheadCleans DEF I
  <2>6. QED
    BY <2>2, <2>5
<1>6. CASE Mine(I, C, S)
  <2> DEFINE N == {Fresh, Fresh + 2, Fresh + 3}
             M == {Fresh}
             D == C \cup N
             T == S \cup M
  <2>1. Clear(I, C, S)
    BY DEF Clean
  <2>2. w = Word /\ Pure(I, C)
    BY <1>6, <2>1 DEF Clear
  <2>3. Later(C, S, N, M)
    BY <1>4 DEF Later
  <2>4. Clear(I, D, T)
    BY <2>3, StaysClear
  <2>5. /\ Fresh \in D /\ Fresh + 2 \in D /\ Fresh + 3 \in D /\ Fresh \in T
        /\ Fresh + 1 \notin D /\ Fresh + 1 \notin T /\ Fresh + 2 \notin T /\ Fresh + 3 \notin T
    BY <1>4
  <2>6. \A n \in C : n \in D
    OBVIOUS
  <2>7. Shaped(I)
    BY DEF WellTyped
  <2> HIDE DEF I, J, D, T, new, w
  <2>8. Clear(J, D, T)
    <3>1. Pure(J, D)
      <4>1. \A j \in 1 .. Len(I.args) : IsConst(I.args[j]) \/ I.args[j].n \in D
        BY <2>2, <2>6 DEF Pure
      <4>2. Value(Fresh + 3).n \in D
        BY <2>5, OperandSorts
      <4>3. QED
        BY <1>1, <4>1, <4>2 DEF Pure
    <3>2. \A m : I.op = "load" /\ I.args[1] = Value(m) => J.args[1] = Value(m)
      <4>1. \A m : ~IsConst(Value(m))
        BY OperandSorts
      <4>2. I.op = "load" => Len(I.args) = 1
        BY <2>7 DEF Shaped
      <4>3. 1 \in 1 .. 1
        OBVIOUS
      <4>4. QED
        BY <1>1, <4>1, <4>2, <4>3
    <3>3. J.w = Word
      BY <1>1, <2>2 DEF w
    <3>4. QED
      BY <1>1, <2>4, <3>1, <3>2, <3>3 DEF Clear
  <2>9. Clear(new[1], D, T) /\ Clear(new[2], D, T)
    <3>1. Pure(new[1], D) /\ Pure(new[2], D)
      BY <1>3, <2>5, MonadicPure, DyadicPure, OperandSorts
    <3>2. QED
      BY <1>3, <2>2, <2>5, <3>1 DEF Monadic, Dyadic, Clear, Plain
  <2>10. Clear(new[3], D, T) /\ Clear(new[4], D, T)
    <3>1. Pure(new[3], D) /\ Pure(new[4], D)
      <4>1. IsConst(ConstInt(random, w)) /\ Value(Fresh).n \in D /\ Value(Fresh + 2).n \in D
        BY <2>5, OperandSorts DEF ConstInt
      <4>2. QED
        BY <1>3, <4>1, MonadicPure, DyadicPure
    <3>2. QED
      BY <1>3, <2>2, <2>5, <3>1 DEF Monadic, Dyadic, Clear, Plain
  <2>11. AllClear(new, D, T)
    <3>1. \A i \in 1 .. Len(new) : i = 1 \/ i = 2 \/ i = 3 \/ i = 4
      BY <1>2
    <3>2. QED
      BY <2>9, <2>10, <3>1 DEF AllClear
  <2>12. Handed(c, S \cup M)
    BY <1>1, <2>3, <2>8, <2>11, AheadCleans DEF D, T, I
  <2>13. ASSUME NEW E, NEW F, Clean(c, E, F), \A n \in S \cup M : Present(c, n) => n \in F
         PROVE  Handed(c, S)
    BY <2>13 DEF Handed
  <2>14. QED
    BY <2>12, <2>13 DEF Handed
<1>7. QED
  BY <1>5, <1>6

(* Runs that agree on what is counted.                                     *)
AgreeVal(s, t, C) ==
  \A n \in C : (n \in DOMAIN t.val <=> n \in DOMAIN s.val) /\ (n \in DOMAIN s.val => t.val[n] = s.val[n])
AgreeMem(s, t, S) ==
  \A m \in S : (-m \in DOMAIN t.mem <=> -m \in DOMAIN s.mem) /\ (-m \in DOMAIN s.mem => t.mem[-m] = s.mem[-m])
Agree(s, t, C, S) == AgreeVal(s, t, C) /\ AgreeMem(s, t, S) /\ t.reports = s.reports

LEMMA AgreeSame ==
  ASSUME NEW C, NEW S
  PROVE  /\ \A s : Agree(s, s, C, S)
         /\ \A s, t : Agree(s, t, C, S) => Agree(t, s, C, S)
         /\ \A s, t, u : Agree(s, t, C, S) /\ Agree(t, u, C, S) => Agree(s, u, C, S)
BY DEF Agree, AgreeVal, AgreeMem

\* An instruction nothing is counted with leaves everything alone that is.
LEMMA ForeignStep ==
  ASSUME NEW b, NEW src, Good(b, src), WellTyped(b), NEW input, InputOK(input), NEW i \in 1 .. Len(b),
         NEW C, NEW S, S \subseteq Nat \ {0}, Foreign(b[i], C, S)
  PROVE  Agree(Ran(Outset, b, input)[i - 1], Ran(Outset, b, input)[i], C, S)
<1> DEFINE I == b[i]
           s == Ran(Outset, b, input)[i - 1]
           t == Ran(Outset, b, input)[i]
           x == Evaluated(s, I.args)
           r == Result(s.mem, I, x, Given(I, input))
<1>1. t = Exec(s, I, input)
  BY RunNext DEF Good
<1>2. Effect(s, I, x, r, t)
  BY <1>1, ExecIs
<1>3. I.id \notin C /\ I.op # "report" /\ ~Into(I, S)
  BY DEF Foreign
<1>4. I.op = "store" => \A m \in S : x[2] # -m
  <2>1. SUFFICES ASSUME I.op = "store", NEW m \in S PROVE x[2] # -m
    OBVIOUS
  <2>2. m \in Nat \ {0} /\ I.args[2] # Value(m)
    BY <1>3, <2>1 DEF Into
  <2>3. QED
    BY <2>1, <2>2, StoreAside
<1> HIDE DEF I, s, t, x, r
<1>5. AgreeVal(s, t, C)
  BY <1>2, <1>3 DEF Effect, Updated, AgreeVal
<1>6. AgreeMem(s, t, S)
  <2>1. CASE I.op = "store"
    <3>1. Updated(t.mem, s.mem, x[2], x[1])
      BY <1>2, <2>1 DEF Effect
    <3>2. QED
      BY <1>4, <2>1, <3>1 DEF Updated, AgreeMem
  <2>2. CASE I.op # "store"
    BY <1>2, <2>2 DEF Effect, AgreeMem
  <2>3. QED
    BY <2>1, <2>2
<1>7. t.reports = s.reports
  BY <1>2, <1>3 DEF Effect
<1>8. QED
  BY <1>5, <1>6, <1>7 DEF Agree, s, t

\* An operand that is a counter's slot is its address.
LEMMA SlotIs ==
  ASSUME NEW b, NEW src, Good(b, src), WellTyped(b), NEW input, InputOK(input), NEW i \in 1 .. Len(b),
         NEW C, NEW S, Clean(b, C, S), NEW m \in S, NEW j \in 1 .. Len(b[i].args), b[i].args[j] = Value(m)
  PROVE  ArgValue(Ran(Outset, b, input)[i - 1], Value(m)) = -m
<1> DEFINE s == Ran(Outset, b, input)[i - 1]
           z == i - 1
<1>1. i \in Nat /\ Len(b) \in Nat /\ z \in 0 .. Len(b)
  BY DEF Good, IsSeq
<1>2. m \in DOMAIN s.val
  <2>1. Readable(s, b[i], b[i].args[j])
    BY ArgsThere
  <2>2. ~IsConst(b[i].args[j]) /\ b[i].args[j].n = m
    BY OperandSorts
  <2>3. QED
    BY <2>1, <2>2 DEF Readable
<1>3. Sound(s, b, z)
  <2> HIDE DEF z
  <2>1. Sound(Ran(Outset, b, input)[z], b, z)
    BY <1>1, SoundRun
  <2>2. QED
    BY <2>1 DEF z
<1>4. PICK l \in 1 .. z : b[l].id = m /\ b[l].op # "store"
  BY <1>2, <1>3 DEF Sound
<1>5. Holder(b[l], s.val[m])
  BY <1>3, <1>4 DEF Sound
<1>6. b[l].op = "alloca"
  <2>1. l \in 1 .. Len(b)
    BY <1>1
  <2>2. QED
    BY <1>4, <2>1 DEF Clean, Clear
<1>7. s.val[m] = -m
  BY <1>4, <1>5, <1>6 DEF Holder
<1>8. QED
  BY <1>7, OperandSorts DEF ArgValue

\* An instruction that counts does so alike.
LEMMA MineStep ==
  ASSUME NEW b, NEW src, Good(b, src), WellTyped(b), NEW input, InputOK(input), NEW i \in 1 .. Len(b),
         NEW C, NEW S, Clean(b, C, S), Mine(b[i], C, S), NEW t, Agree(Ran(Outset, b, input)[i - 1], t, C, S)
  PROVE  Agree(Ran(Outset, b, input)[i], Exec(t, b[i], input), C, S)
<1> DEFINE I == b[i]
           s == Ran(Outset, b, input)[i - 1]
           u == Ran(Outset, b, input)[i]
           v == Exec(t, I, input)
           x == Evaluated(s, I.args)
           y == Evaluated(t, I.args)
           given == Given(I, input)
           r == Result(s.mem, I, x, given)
           q == Result(t.mem, I, y, given)
<1>1. u = Exec(s, I, input)
  BY RunNext DEF Good
<1>2. Effect(s, I, x, r, u) /\ Effect(t, I, y, q, v)
  BY <1>1, ExecIs
<1>3. Clear(I, C, S) /\ Mine(I, C, S) /\ IsSeq(I.args) /\ Shaped(I)
  BY DEF Clean, Good, GoodInst, WellTyped
<1>4. x = y
  <2>1. ASSUME NEW j \in 1 .. Len(I.args) PROVE ArgValue(s, I.args[j]) = ArgValue(t, I.args[j])
    <3>1. Readable(s, I, I.args[j])
      BY ArgsThere
    <3>2. IsConst(I.args[j]) \/ I.args[j].n \in C
      BY <1>3 DEF Clear, Pure
    <3>3. AgreeVal(s, t, C)
      BY DEF Agree
    <3> HIDE DEF I, s
    <3>4. QED
      BY <3>1, <3>2, <3>3 DEF Readable, AgreeVal, ArgValue
  <2> DEFINE args == I.args
  <2>2. IsSeq(args) /\ \A j \in 1 .. Len(args) : ArgValue(s, args[j]) = ArgValue(t, args[j])
    BY <1>3, <2>1
  <2> HIDE DEF args, s
  <2>3. Evaluated(s, args) = Evaluated(t, args)
    BY <2>2, EvaluatedSame
  <2>4. QED
    BY <2>3 DEF args, s
<1>5. I.op = "load" /\ I.id \in C => \E m \in S : x[1] = -m
  <2>1. SUFFICES ASSUME I.op = "load", I.id \in C PROVE \E m \in S : x[1] = -m
    OBVIOUS
  <2>2. PICK m \in S : I.args[1] = Value(m)
    BY <1>3, <2>1 DEF Clear
  <2>3. Len(I.args) = 1
    BY <1>3, <2>1 DEF Shaped
  <2>4. 1 \in 1 .. 1
    OBVIOUS
  <2>5. ArgValue(s, Value(m)) = -m
    BY <2>2, <2>3, <2>4, SlotIs
  <2>6. x[1] = ArgValue(s, I.args[1])
    BY <1>3, <2>3, <2>4, EvaluatedIs
  <2>7. QED
    BY <2>2, <2>5, <2>6
<1>6. Agree(s, t, C, S)
  OBVIOUS
<1> HIDE DEF I, s, u, v, x, y
<1>7. I.id \in C => q = r
  <2> SUFFICES ASSUME I.id \in C PROVE q = r
    OBVIOUS
  <2>1. I.op \in {"add", "sub", "xor", "load", "alloca"}
    BY <1>3 DEF Clear, Plain
  <2>2. CASE I.op = "alloca"
    BY <2>2, ResultIs
  <2>3. CASE I.op \in {"add", "sub", "xor"}
    <3>1. I.op \in Binary
      BY <2>3 DEF Binary
    <3>2. QED
      BY <1>4, <3>1, ResultIs
  <2>4. CASE I.op = "load"
    <3>1. PICK m \in S : x[1] = -m
      BY <1>5, <2>4
    <3>2. (x[1] \in DOMAIN t.mem <=> x[1] \in DOMAIN s.mem) /\ (x[1] \in DOMAIN s.mem => t.mem[x[1]] = s.mem[x[1]])
      BY <1>6, <3>1 DEF Agree, AgreeMem
    <3>3. CASE x[1] \in DOMAIN s.mem
      <4>1. r = Trunc(s.mem[x[1]], I.w)
        BY <2>4, <3>3, ResultIs
      <4>2. q = Trunc(t.mem[x[1]], I.w)
        BY <1>4, <2>4, <3>2, <3>3, ResultIs
      <4>3. QED
        BY <3>2, <3>3, <4>1, <4>2
    <3>4. CASE x[1] \notin DOMAIN s.mem
      <4>1. r = Trunc(given, I.w)
        BY <2>4, <3>4, ResultIs
      <4>2. q = Trunc(given, I.w)
        BY <1>4, <2>4, <3>2, <3>4, ResultIs
      <4>3. QED
        BY <4>1, <4>2
    <3>5. QED
      BY <3>3, <3>4
  <2>5. QED
    BY <2>1, <2>2, <2>3, <2>4
<1> HIDE DEF r, q
<1>8. AgreeVal(u, v, C)
  BY <1>2, <1>6, <1>7 DEF Agree, AgreeVal, Effect, Updated
<1>9. AgreeMem(u, v, S)
  <2>1. CASE I.op = "store"
    <3>1. Updated(u.mem, s.mem, x[2], x[1]) /\ Updated(v.mem, t.mem, x[2], x[1])
      BY <1>2, <1>4, <2>1 DEF Effect
    <3>2. QED
      BY <1>6, <3>1 DEF Updated, Agree, AgreeMem
  <2>2. CASE I.op # "store"
    BY <1>2, <1>6, <2>2 DEF Effect, Agree, AgreeMem
  <2>3. QED
    BY <2>1, <2>2
<1>10. v.reports = u.reports
  BY <1>2, <1>4, <1>6 DEF Effect, Agree
<1>11. QED
  BY <1>8, <1>9, <1>10 DEF Agree, u, v, I

\* Code nothing is counted with does not change what is counted and reported.
LEMMA ForeignRun ==
  ASSUME NEW b, NEW src, Good(b, src), WellTyped(b), NEW c, Good(c, src), WellTyped(c), NEW k \in 1 .. Len(b),
         NEW new, NEW J, Inserted(b, c, k, new, J), NEW C, NEW S, Clean(b, C, S),
         Foreign(b[k], C, S), Foreign(J, C, S), \A i \in 1 .. Len(new) : Foreign(new[i], C, S),
         NEW input, InputOK(input)
  PROVE  Run(c, input).reports = Run(b, input).reports
<1> DEFINE core == Append(new, J)
           a == Value(b[k].id)
           R(i) == Ran(Outset, b, input)[i]
           Q(i) == Ran(Outset, c, input)[i]
           z == k - 1
           n == Len(core)
           m == Len(b)
<1>1. IsSeq(new) /\ Edited(b, c, k, core, b[k].id, a)
  BY DEF Inserted
<1>2. /\ IsSeq(core) /\ n = Len(new) + 1 /\ core[Len(new) + 1] = J
      /\ \A i \in 1 .. Len(new) : core[i] = new[i]
  BY <1>1, AppendIs
<1>3. n \in Nat /\ m \in Nat /\ k \in 1 .. m /\ k \in Nat /\ z \in Nat /\ z + 1 = k /\ Len(new) \in Nat
  BY <1>1, <1>2 DEF Good, IsSeq
<1>4. /\ Len(c) = m - 1 + n
      /\ \A i \in 1 .. z : c[i] = b[i]
      /\ \A i \in 1 .. n : c[z + i] = core[i]
      /\ \A i \in k + 1 .. m : c[i - 1 + n] = Rewired(b[i], b[k].id, a)
  BY <1>1 DEF Edited
<1>5. S \subseteq Nat \ {0}
  BY DEF Clean
<1>6. \A i \in 1 .. n : Foreign(core[i], C, S)
  <2>1. \A i \in 1 .. n : i \in 1 .. Len(new) \/ i = Len(new) + 1
    BY <1>2, <1>3
  <2> HIDE DEF core, n
  <2>2. QED
    BY <1>2, <2>1
<1>7. \A i \in k + 1 .. m : c[i - 1 + n] = b[i]
  <2>1. SUFFICES ASSUME NEW i \in k + 1 .. m PROVE c[i - 1 + n] = b[i]
    OBVIOUS
  <2>2. i \in 1 .. Len(b)
    BY <1>3
  <2>3. Rewired(b[i], b[k].id, a) = b[i]
    BY <2>2, GoodRewired
  <2>4. QED
    BY <1>4, <2>3
<1> HIDE DEF core, n, m, z, a
<1>8. Q(z) = R(z)
  <2>1. IsSeq(b) /\ IsSeq(c) /\ z \in 0 .. Len(b) /\ z <= Len(c)
    BY <1>3, <1>4 DEF Good, m
  <2>2. QED
    BY <1>4, <2>1, RanPrefix
<1>9. \A i \in 1 .. Len(b) : Foreign(b[i], C, S) => Agree(R(i - 1), R(i), C, S)
  BY <1>5, ForeignStep
<1>10. \A i \in 1 .. Len(c) : Foreign(c[i], C, S) => Agree(Q(i - 1), Q(i), C, S)
  BY <1>5, ForeignStep
<1>11. Agree(R(z), R(k), C, S)
  <2>1. z = k - 1
    BY DEF z
  <2>2. QED
    BY <1>9, <2>1
<1>12. Agree(Q(z), Q(z + n), C, S)
  <2> DEFINE G == {i \in Nat : Agree(Q(z), Q(z + i), C, S)}
  <2>1. 0 \in G
    <3>1. z + 0 = z
      BY <1>3
    <3> HIDE DEF Q
    <3>2. QED
      BY <3>1, AgreeSame
  <2>2. ASSUME NEW i \in 0 + 1 .. n, i - 1 \in G PROVE i \in G
    <3>1. i \in 1 .. n /\ i \in Nat /\ z + i \in 1 .. Len(c) /\ z + i - 1 = z + (i - 1)
      BY <1>3, <1>4
    <3>2. Foreign(c[z + i], C, S)
      BY <1>4, <1>6, <3>1
    <3>3. Agree(Q(z + (i - 1)), Q(z + i), C, S)
      <4> DEFINE l == z + i
      <4>1. l \in 1 .. Len(c) /\ Foreign(c[l], C, S) /\ l - 1 = z + (i - 1)
        BY <1>3, <3>1, <3>2
      <4> HIDE DEF l, Q
      <4>2. Agree(Q(l - 1), Q(l), C, S)
        BY <1>10, <4>1
      <4>3. Q(l - 1) = Q(z + (i - 1))
        BY <4>1
      <4>4. QED
        BY <4>2, <4>3 DEF l
    <3>4. Agree(Q(z), Q(z + (i - 1)), C, S)
      BY <2>2
    <3> HIDE DEF Q
    <3>5. Agree(Q(z), Q(z + i), C, S)
      BY <3>3, <3>4, AgreeSame
    <3>6. QED
      BY <3>1, <3>5
  <2> HIDE DEF G
  <2>3. \A i \in 0 .. n : i \in G
    BY <1>3, <2>1, <2>2, Climbs
  <2>4. n \in 0 .. n
    BY <1>3
  <2>5. QED
    BY <2>3, <2>4 DEF G
<1> DEFINE H == {i \in Nat : Agree(R(i), Q(i - 1 + n), C, S)}
<1>13. k \in H
  <2>1. k - 1 + n = z + n
    BY <1>3
  <2> HIDE DEF R, Q
  <2>2. Agree(R(k), Q(z + n), C, S)
    BY <1>8, <1>11, <1>12, AgreeSame
  <2>3. QED
    BY <1>3, <2>1, <2>2
<1>14. ASSUME NEW i \in k + 1 .. m, i - 1 \in H PROVE i \in H
  <2> DEFINE l == i - 1 + n
  <2>1. i \in Nat /\ i \in 1 .. Len(b) /\ l \in 1 .. Len(c) /\ i - 1 - 1 + n = l - 1
    BY <1>3, <1>4 DEF m
  <2>2. Agree(R(i - 1), Q(l - 1), C, S)
    BY <1>14, <2>1
  <2>3. c[l] = b[i]
    BY <1>7
  <2> HIDE DEF l
  <2>4. CASE Mine(b[i], C, S)
    <3>1. Q(l) = Exec(Q(l - 1), b[i], input)
      BY <2>1, <2>3, RunNext DEF Good
    <3>2. Agree(R(i), Exec(Q(l - 1), b[i], input), C, S)
      BY <2>1, <2>2, <2>4, MineStep
    <3>3. QED
      BY <2>1, <3>1, <3>2 DEF l
  <2>5. CASE ~Mine(b[i], C, S)
    <3>1. Foreign(b[i], C, S)
      BY <2>5 DEF Mine, Foreign
    <3>2. Agree(R(i - 1), R(i), C, S) /\ Agree(Q(l - 1), Q(l), C, S)
      BY <1>9, <1>10, <2>1, <2>3, <3>1
    <3> HIDE DEF R, Q
    <3>3. Agree(R(i), Q(l), C, S)
      BY <2>2, <3>2, AgreeSame
    <3>4. QED
      BY <2>1, <3>3 DEF l
  <2>6. QED
    BY <2>4, <2>5
<1> HIDE DEF H
<1>15. \A i \in k .. m : i \in H
  BY <1>3, <1>13, <1>14, Climbs
<1>16. m \in k .. m
  BY <1>3
<1>17. Agree(R(m), Q(m - 1 + n), C, S)
  BY <1>15, <1>16 DEF H
<1>18. QED
  BY <1>4, <1>17 DEF Agree, Run, m

(* What an action that does not count does to what is reported: nothing.   *)
Silent(c) ==
  /\ Ret(c) <=> Ret(block)
  /\ \A input : InputOK(input) => Run(c, input).reports = Run(block, input).reports

LEMMA TracksSilent ==
  ASSUME NEW c, NEW U, Tracks(c, U), Ret(c) <=> Ret(block)
  PROVE  Silent(c)
BY DEF Tracks, Alike, Printed, Silent

Keeps(c) == Cleans(c) /\ Silent(c)

LEMMA SubstituteKeeps ==
  ASSUME IInv, TInv, NEW dice \in {0, 1}, Substitute(dice), Good(block', source), WellTyped(block')
  PROVE  Keeps(block')
<1>1. Good(block, source)
  BY BlockIs
<1>2. \E k, core, a : Gets(block', k, core, a)
  BY SubstituteGets
<1>3. Ret(block') <=> Ret(block)
  BY <1>1, <1>2, GetsRet
<1>4. QED
  BY <1>3, SubstituteTracks, TracksSilent, SubstituteCleans DEF Keeps

LEMMA ToShlKeeps ==
  ASSUME IInv, TInv, ToShl, Good(block', source), WellTyped(block')
  PROVE  Keeps(block')
<1>1. Good(block, source)
  BY BlockIs
<1>2. \E k, core, a : Gets(block', k, core, a)
  BY ToShlGets
<1>3. Ret(block') <=> Ret(block)
  BY <1>1, <1>2, GetsRet
<1>4. QED
  BY <1>3, ToShlTracks, TracksSilent, ToShlCleans DEF Keeps

LEMMA EraseOneKeeps ==
  ASSUME IInv, TInv, EraseOne, Good(block', source), WellTyped(block')
  PROVE  Keeps(block')
<1>1. Good(block, source)
  BY BlockIs
<1>2. \E k, core, a : Gets(block', k, core, a)
  BY EraseOneGets
<1>3. Ret(block') <=> Ret(block)
  BY <1>1, <1>2, GetsRet
<1>4. QED
  BY <1>3, EraseOneTracks, TracksSilent, EraseOneCleans DEF Keeps

LEMMA InsertGarbageKeeps ==
  ASSUME IInv, TInv, NEW pattern \in 0 .. 4, NEW n \in Nat, InsertGarbage(pattern, n),
         Good(block', source), WellTyped(block')
  PROVE  Keeps(block')
<1>1. Good(block, source)
  BY BlockIs
<1>2. \E k, core, a : Gets(block', k, core, a)
  BY InsertGarbageGets
<1>3. Ret(block') <=> Ret(block)
  BY <1>1, <1>2, GetsRet
<1>4. \E U : Tracks(block', U)
  <2>1. \E w : Tracks(block', pattern = 1 /\ w = 1)
    BY InsertGarbageTracks
  <2>2. QED
    BY <2>1
<1>5. QED
  BY <1>3, <1>4, TracksSilent, InsertGarbageCleans DEF Keeps

\* Even where the constant is lost: it is none a counter has.
LEMMA AlterConstantKeeps ==
  ASSUME IInv, TInv, NEW random \in Randoms, AlterConstant(random), Good(block', source), WellTyped(block'),
         NEW C, NEW S, Clean(block, C, S)
  PROVE  Keeps(block')
<1>1. Good(block, source) /\ WellTyped(block) /\ Aimed /\ Word \in Nat \ {0} /\ random \in 0 .. Pow2[Word] - 1
  BY BlockIs, RewritesAssumption DEF TInv
<1>2. PICK k, j : AltersAt(k, j, random)
  BY <1>1, AlterConstantIs
<1> DEFINE I == block[k]
           z == I.args[j]
           c == Altered(k, z, random)
           J == AlteredInst(I, z)
           new == Blackboxed(z.n, I.w, random)
<1>3. k \in 1 .. Len(block) /\ j \in 1 .. Len(I.args) /\ IsConst(z) /\ block' = c /\ Carried(z.n, I.w)
  BY <1>2 DEF AltersAt, Altered, AlterConstant
<1>4. Inserted(block, c, k, new, J)
  BY <1>1, <1>3, AlteredIs
<1>5. Ret(c) <=> Ret(block)
  <2> HIDE DEF c, new, J
  <2>1. Gets(c, k, Append(new, J), Value(block[k].id))
    BY <1>1, <1>3, <1>4, PlaceGets
  <2>2. Good(c, source)
    BY <1>3
  <2>3. QED
    BY <1>1, <2>1, <2>2, GetsRet
<1>6. Cleans(c)
  BY <1>1, <1>3, AlterClean
<1>7. Silent(c)
  <2>1. CASE ~Mine(I, C, S)
    <3>1. Foreign(I, C, S)
      BY <2>1 DEF Mine, Foreign
    <3>2. Foreign(J, C, S) /\ \A i \in 1 .. Len(new) : Foreign(new[i], C, S)
      BY <1>1, <1>3, <2>1, AlterForeign, BlackboxCode
    <3>3. Good(c, source) /\ WellTyped(c)
      BY <1>3
    <3> HIDE DEF c, new, J
    <3>4. ASSUME NEW input, InputOK(input) PROVE Run(c, input).reports = Run(block, input).reports
      BY <1>1, <1>3, <1>4, <3>1, <3>2, <3>3, <3>4, ForeignRun
    <3>5. QED
      BY <1>5, <3>4 DEF Silent
  <2>2. CASE Mine(I, C, S)
    <3>1. Clear(I, C, S)
      BY <1>3 DEF Clean
    <3>2. I.w = Word
      BY <2>2, <3>1 DEF Clear
    <3>3. I.w <= Word
      BY <1>1, <3>2
    <3>4. Tracks(c, FALSE)
      BY <1>1, <1>3, <3>3, AlteredTracks DEF Altered
    <3> HIDE DEF c
    <3>5. QED
      BY <1>5, <3>4, TracksSilent
  <2>3. QED
    BY <2>1, <2>2
<1>8. QED
  BY <1>3, <1>6, <1>7 DEF Keeps

(* How a counter counts.                                                   *)
LEMMA TruncNext ==
  ASSUME NEW c \in Nat, NEW w \in Nat
  PROVE  Trunc(Trunc(Trunc(c, w), w) + 1, w) = Trunc(c + 1, w)
<1> DEFINE t == Trunc(c, w)
           P == Pow2[w]
           u == Trunc(t + 1, w)
<1>1. InWord(t, w) /\ t \in Nat /\ P \in Nat /\ c \in Int
  <2>1. c \in Int
    OBVIOUS
  <2>2. InWord(t, w) /\ t \in Nat
    BY <2>1, TruncWord
  <2>3. P \in Nat
    BY Pow2Is
  <2>4. QED
    BY <2>1, <2>2, <2>3
<1>2. Trunc(t, w) = t
  BY <1>1, TruncOfWord
<1>3. PICK k \in Int : c = P * k + t
  BY <1>1, TruncTimes
<1>4. PICK j \in Int : t + 1 = P * j + u
  <2>1. t + 1 \in Int
    BY <1>1
  <2> HIDE DEF t
  <2>2. QED
    BY <2>1, TruncTimes
<1>5. InWord(u, w) /\ u \in Nat
  <2>1. t + 1 \in Int
    BY <1>1
  <2> HIDE DEF t
  <2>2. QED
    BY <2>1, TruncWord
<1> HIDE DEF t, u
<1>6. c + 1 = P * (k + j) + u
  <2>1. P * (k + j) = P * k + P * j
    BY <1>1
  <2>2. c + 1 = P * k + (t + 1)
    BY <1>1, <1>3
  <2> DEFINE x == P * k
             y == P * j
             z == P * (k + j)
  <2>3. x \in Int /\ y \in Int /\ z = x + y /\ c + 1 = x + (t + 1) /\ t + 1 = y + u /\ t \in Int /\ u \in Int
    BY <1>1, <1>4, <1>5, <2>1, <2>2
  <2> HIDE DEF x, y, z
  <2>4. c + 1 = z + u
    BY <2>3
  <2>5. QED
    BY <2>4 DEF z
<1>7. Trunc(c + 1, w) = u
  <2>1. k + j \in Int /\ c + 1 \in Int
    BY <1>3, <1>4
  <2>2. QED
    BY <1>5, <1>6, <2>1, TruncUnique DEF P
<1>8. QED
  BY <1>2, <1>7 DEF t, u

\* Nothing is stored to a slot that is not there yet.
LEMMA FreshUntouched ==
  ASSUME Good(block, source), WellTyped(block), NEW k \in Nat
  PROVE  Untouched(block, k, Fresh)
<1> SUFFICES ASSUME NEW i \in k + 1 .. Len(block), block[i].op = "store", block[i].args[2] = Value(Fresh) PROVE FALSE
  BY DEF Untouched
<1>1. i \in 1 .. Len(block)
  BY DEF Good, IsSeq
<1>2. Len(block[i].args) = 2
  BY <1>1 DEF WellTyped, Shaped
<1>3. 2 \in 1 .. 2
  OBVIOUS
<1>4. ~IsConst(block[i].args[2]) /\ block[i].args[2].n = Fresh
  BY OperandSorts
<1>5. PICK l \in 1 .. i - 1 : block[l].id = Fresh
  BY <1>1, <1>2, <1>3, <1>4 DEF Good, UsesDefined, Defined
<1>6. l \in 1 .. Len(block)
  BY <1>1 DEF Good, IsSeq
<1>7. block[l].id < Fresh /\ block[l].id \in Nat
  BY <1>6, FreshIs DEF Good, GoodInst
<1>8. QED
  BY <1>5, <1>7

\* Behind the code the address -m holds v.
Leaves(s, code, input, m, v) ==
  LET t == After(s, code, input) IN -m \in DOMAIN t.mem /\ t.mem[-m] = v

\* What code in front of the k-th instruction writes, the instructions behind it find.
LEMMA PlacedHolds ==
  ASSUME Good(block, source), WellTyped(block), NEW k \in 1 .. Len(block), NEW new, IsSeq(new),
         NEW c, c = Before(block, k, new), Good(c, source), WellTyped(c),
         NEW m \in Nat \ {0}, Untouched(block, k - 1, m), NEW q \in k .. Len(block)
  PROVE  /\ q + Len(new) \in 1 .. Len(c) /\ c[q + Len(new)] = block[q] /\ Untouched(c, q + Len(new) - 1, m)
         /\ \A input, v : InputOK(input) /\ Leaves(Ran(Outset, block, input)[k - 1], new, input, m, v)
                          => Holds(c, input, q + Len(new) - 1, m, v)
<1> DEFINE n == Len(new)
           p == k - 1 + n
<1>1. IsSeq(block) /\ Len(block) \in Nat /\ n \in Nat /\ q \in Nat /\ k \in Nat
  BY DEF Good, IsSeq
<1>2. /\ Len(c) = Len(block) + n
      /\ \A i \in k .. Len(block) : c[i + n] = block[i]
  BY <1>1, BeforeIs
<1> HIDE DEF n
<1>3. ASSUME NEW z \in k .. Len(block) PROVE Untouched(c, z + n - 1, m)
  <2>1. ASSUME NEW i \in z + n - 1 + 1 .. Len(c) PROVE c[i].op = "store" => c[i].args[2] # Value(m)
    <3> DEFINE l == i - n
    <3>1. l \in k .. Len(block) /\ l + n = i /\ l \in k - 1 + 1 .. Len(block)
      BY <1>1, <1>2
    <3> HIDE DEF l
    <3>2. c[i] = block[l]
      BY <1>2, <3>1
    <3>3. QED
      BY <3>1, <3>2 DEF Untouched
  <2>2. QED
    BY <2>1 DEF Untouched
<1>4. q + n \in 1 .. Len(c) /\ c[q + n] = block[q]
  BY <1>1, <1>2
<1>5. ASSUME NEW input, NEW v, InputOK(input), Leaves(Ran(Outset, block, input)[k - 1], new, input, m, v)
      PROVE  Holds(c, input, q + n - 1, m, v)
  <2>1. Ran(Outset, c, input)[p] = After(Ran(Outset, block, input)[k - 1], new, input)
    BY <1>1, CodeRun DEF n
  <2>2. Holds(c, input, p, m, v)
    BY <1>5, <2>1 DEF Holds, Leaves
  <2>3. p \in 0 .. Len(c) /\ q + n - 1 \in p .. Len(c) /\ p = k + n - 1 /\ k \in k .. Len(block)
    BY <1>1, <1>2
  <2> HIDE DEF p
  <2>4. Untouched(c, p, m)
    BY <1>3, <2>3
  <2>5. \A z \in p .. Len(c) : Holds(c, input, z, m, v)
    BY <1>5, <2>2, <2>3, <2>4, MemKept
  <2>6. QED
    BY <2>3, <2>5
<1>6. QED
  BY <1>3, <1>4, <1>5 DEF n

\* The counter m stands at c in front of the k-th instruction of b, where the first of
\* the visits v is; the last one is at the end.
Counts(b, v, k, m, c) ==
  /\ k \in 1 .. Len(b) /\ b[k].id = v[1][1] /\ m \in Nat \ {0} /\ Untouched(b, k - 1, m)
  /\ \A i \in 1 .. Len(v) : v[i][3] = m
  /\ v[Len(v)][1] = b[Len(b)].id
  /\ c \in Nat /\ \A input : InputOK(input) => Holds(b, input, k - 1, m, Trunc(c, Word))

\* An insertion keeps the last instruction.
LEMMA BeforeLast ==
  ASSUME NEW b, IsSeq(b), NEW new, IsSeq(new), NEW k \in 1 .. Len(b), NEW c, c = Before(b, k, new)
  PROVE  c[Len(c)] = b[Len(b)]
<1>1. Len(b) \in Nat /\ Len(b) \in k .. Len(b)
  BY DEF IsSeq
<1>2. Len(c) = Len(b) + Len(new) /\ \A i \in k .. Len(b) : c[i + Len(new)] = b[i]
  BY BeforeIs
<1>3. QED
  BY <1>1, <1>2

LEMMA PlacedCounts ==
  ASSUME Good(block, source), WellTyped(block), NEW k \in 1 .. Len(block), NEW new, IsSeq(new),
         NEW b, b = Before(block, k, new), Good(b, source), WellTyped(b),
         NEW m \in Nat \ {0}, Untouched(block, k - 1, m), NEW q \in k .. Len(block),
         NEW v, block[q].id = v[1][1], \A i \in 1 .. Len(v) : v[i][3] = m, v[Len(v)][1] = block[Len(block)].id,
         NEW c \in Nat,
         \A input : InputOK(input) => Leaves(Ran(Outset, block, input)[k - 1], new, input, m, Trunc(c, Word))
  PROVE  Counts(b, v, q + Len(new), m, c)
<1> DEFINE n == q + Len(new)
<1>1. /\ n \in 1 .. Len(b) /\ b[n] = block[q] /\ Untouched(b, n - 1, m)
  BY PlacedHolds
<1>2. \A input : InputOK(input) => Holds(b, input, n - 1, m, Trunc(c, Word))
  <2> DEFINE w == Trunc(c, Word)
  <2>1. \A input : InputOK(input) => Leaves(Ran(Outset, block, input)[k - 1], new, input, m, w)
    OBVIOUS
  <2>2. \A input, v1 : InputOK(input) /\ Leaves(Ran(Outset, block, input)[k - 1], new, input, m, v1)
                       => Holds(b, input, q + Len(new) - 1, m, v1)
    BY PlacedHolds
  <2> HIDE DEF w
  <2>3. \A input : InputOK(input) => Holds(b, input, q + Len(new) - 1, m, w)
    BY <2>1, <2>2
  <2>4. QED
    BY <2>3 DEF w
<1>3. b[Len(b)] = block[Len(block)]
  <2>1. IsSeq(block)
    BY DEF Good
  <2>2. QED
    BY <2>1, BeforeLast
<1> HIDE DEF n
<1>4. Counts(b, v, n, m, c)
  BY <1>1, <1>2, <1>3 DEF Counts
<1>5. QED
  BY <1>4 DEF n

(* The counters, action by action.                                         *)

\* A counter is put in front of the first visit, at 0.
LEMMA InsertCounts ==
  ASSUME IInv, TInv, InsertCounter, Ret(block), Good(block', source), WellTyped(block')
  PROVE  \E k : Counts(block', todo', k, Fresh, 0)
<1> DEFINE p == FirstInsertionPt(block)
           w == Visited(block, Fresh)
<1>1. /\ Pass \in Counting /\ todo' = w /\ block' = Before(block, p, CounterCode)
  BY DEF InsertCounter, CounterCode
<1>2. Good(block, source) /\ WellTyped(block) /\ IsSeq(block) /\ Word \in Nat
  BY BlockIs, RewritesAssumption DEF TInv
<1>3. /\ p \in 1 .. Len(block) /\ \A j \in 1 .. p - 1 : block[j].op = "phi"
  BY <1>2, FirstInsertionPtIs
<1>4. /\ IsSeq(w) /\ Executed \in Nat /\ Len(w) = Executed + 1
      /\ \A i \in 1 .. Len(w) : w[i][3] = Fresh
      /\ w[Len(w)][1] = block[Len(block)].id
  BY <1>1, CountedVisits
<1>5. PICK q \in 1 .. Len(block) : Visits(block[q]) /\ w[1][1] = block[q].id
  <2>1. 1 \in 1 .. Len(w)
    BY <1>4
  <2>2. \A i \in 1 .. Len(w) : \E q \in 1 .. Len(block) : Visits(block[q]) /\ w[i][1] = block[q].id
    BY <1>2, VisitedIs
  <2> HIDE DEF w
  <2>3. QED
    BY <2>1, <2>2
<1>6. block[q].op # "phi"
  <2>1. block[q].op \in Counted \cup {"ret"}
    BY <1>1, <1>5, CountedIs
  <2>2. QED
    BY <2>1 DEF Counted
<1>7. q \in p .. Len(block)
  <2>1. ~(q \in 1 .. p - 1)
    BY <1>3, <1>6
  <2>2. Len(block) \in Nat
    BY <1>2 DEF IsSeq
  <2> HIDE DEF p
  <2>3. QED
    BY <1>3, <2>1, <2>2
<1>8. Fresh \in Nat \ {0}
  BY <1>2, FreshQuiet
<1> HIDE DEF p, w
<1>9. Untouched(block, p - 1, Fresh)
  <2> DEFINE z == p - 1
  <2>1. z \in Nat
    BY <1>3
  <2> HIDE DEF z
  <2>2. Untouched(block, z, Fresh)
    BY <1>2, <2>1, FreshUntouched
  <2>3. QED
    BY <2>2 DEF z
<1>10. IsSeq(CounterCode) /\ Len(CounterCode) = 2
  BY CounterCodeIs
<1>11. Trunc(0, Word) = 0
  <2>1. InWord(0, Word)
    <3>1. Pow2[Word] \in Nat \ {0}
      BY <1>2, Pow2Is
    <3>2. QED
      BY <3>1 DEF InWord
  <2>2. QED
    BY <1>2, <2>1, TruncOfWord
<1>12. ASSUME NEW input, InputOK(input)
       PROVE  Leaves(Ran(Outset, block, input)[p - 1], CounterCode, input, Fresh, Trunc(0, Word))
  <2> DEFINE s == Ran(Outset, block, input)[p - 1]
             t == After(s, CounterCode, input)
  <2>1. \A n \in DOMAIN s.val : n \in Nat /\ n < Fresh
    BY <1>2, <1>3, <1>12, TakenNumbers
  <2> HIDE DEF s
  <2>2. -Fresh \in DOMAIN t.mem /\ t.mem[-Fresh] = 0
    BY <1>8, <2>1, CounterRun
  <2>3. QED
    BY <1>11, <2>2 DEF Leaves, s
<1>13. Counts(block', w, q + Len(CounterCode), Fresh, 0)
  <2> DEFINE code == CounterCode
             m == Fresh
             b == block'
  <2>1. /\ IsSeq(code) /\ b = Before(block, p, code) /\ Good(b, source) /\ WellTyped(b)
        /\ m \in Nat \ {0} /\ Untouched(block, p - 1, m)
        /\ block[q].id = w[1][1] /\ (\A i \in 1 .. Len(w) : w[i][3] = m) /\ w[Len(w)][1] = block[Len(block)].id
        /\ 0 \in Nat
        /\ \A input : InputOK(input) => Leaves(Ran(Outset, block, input)[p - 1], code, input, m, Trunc(0, Word))
    BY <1>1, <1>4, <1>5, <1>8, <1>9, <1>10, <1>12
  <2> HIDE DEF code, m, b
  <2>2. Counts(b, w, q + Len(code), m, 0)
    BY <1>2, <1>3, <1>7, <2>1, PlacedCounts
  <2>3. QED
    BY <2>2 DEF code, m, b
<1>14. QED
  BY <1>1, <1>13

\* The counter of the visits to come: the first is not the last, and the one behind it
\* is further down.
LEMMA NextVisit ==
  ASSUME IInv, Aimed, pc = "visit", Pass \in Counting, todo # <<>>, NEW k \in 1 .. Len(block), block[k].id = todo[1][1],
         todo[Len(todo)][1] = block[Len(block)].id
  PROVE  /\ IsSeq(todo) /\ Len(todo) \in Nat \ {0} /\ Visit = todo[1]
         /\ k = Len(block) => Len(todo) = 1
         /\ k # Len(block) =>
              /\ Len(todo) >= 2
              /\ \E q \in k .. Len(block) : block[q].id = todo[2][1]
<1> DEFINE n == Len(todo)
<1>1. IsSeq(todo) /\ n \in Nat \ {0} /\ Visit = todo[1]
  <2>1. IsSeq(todo)
    BY DEF IInv, VisitsFit
  <2>2. n >= 1 /\ Visit = todo[1] /\ n \in Nat
    BY <2>1, HeadTail DEF Visit, IsSeq
  <2>3. QED
    BY <2>1, <2>2
<1>2. Good(block, source) /\ Len(block) \in Nat /\ Len(block) \in 1 .. Len(block) /\ Distinct(block)
  BY BlockIs DEF Good, IsSeq
<1>3. InOrder(block, todo)
  BY DEF Aimed
<1>4. ASSUME NEW i \in 2 .. n
      PROVE  \E p, q \in 1 .. Len(block) : p < q /\ block[p].id = todo[1][1] /\ block[q].id = todo[i][1]
  <2>1. 1 \in 1 .. n /\ i \in 1 .. n /\ 1 < i
    BY <1>1
  <2>2. QED
    BY <1>3, <2>1 DEF InOrder
<1> HIDE DEF n
<1>5. \A i \in 2 .. n : \E q \in 1 .. Len(block) : k < q /\ block[q].id = todo[i][1]
  BY <1>2, <1>4 DEF Distinct
<1>6. ASSUME k = Len(block) PROVE n = 1
  <2>1. \A i \in 2 .. n : FALSE
    BY <1>2, <1>5, <1>6
  <2>2. ~(2 \in 2 .. n)
    BY <2>1
  <2>3. QED
    BY <1>1, <2>2
<1>7. ASSUME k # Len(block) PROVE n >= 2 /\ \E q \in k .. Len(block) : block[q].id = todo[2][1]
  <2>1. n # 1
    BY <1>2, <1>7 DEF Distinct, n
  <2>2. n >= 2 /\ 2 \in 2 .. n
    BY <1>1, <2>1
  <2>3. PICK q \in 1 .. Len(block) : k < q /\ block[q].id = todo[2][1]
    BY <1>5, <2>2
  <2>4. q \in k .. Len(block)
    BY <1>2, <2>3
  <2>5. QED
    BY <2>2, <2>3, <2>4
<1>8. QED
  BY <1>1, <1>6, <1>7 DEF n

\* The visit of the counter.
LEMMA CountedHere ==
  ASSUME IInv, TInv, CountOne, NEW k, CountsAt(k), NEW l, NEW m, NEW c, Counts(block, todo, l, m, c)
  PROVE  /\ l = k /\ m = Visit[3] /\ k \in 1 .. Len(block) /\ block[k].id = todo[1][1]
         /\ pc = "visit" /\ Pass \in Counting /\ todo # <<>> /\ IsSeq(todo) /\ todo' = Tail(todo)
<1>1. /\ pc = "visit" /\ Pass \in Counting /\ todo # <<>> /\ todo' = Tail(todo)
  BY DEF CountOne, EndVisit
<1>2. Good(block, source) /\ IsSeq(todo)
  BY BlockIs DEF IInv, VisitsFit
<1>3. Visit = todo[1] /\ 1 \in 1 .. Len(todo)
  BY <1>1, <1>2, HeadTail DEF Visit, IsSeq
<1>4. PICK i \in 1 .. Len(block) : This = block[i] /\ Visit[1] = block[i].id
  BY <1>1, ThisIs
<1>5. k \in 1 .. Len(block) /\ This = block[k]
  BY DEF CountsAt
<1>6. l \in 1 .. Len(block) /\ block[l].id = todo[1][1] /\ m = Visit[3]
  BY <1>3 DEF Counts
<1>7. l = k
  BY <1>2, <1>3, <1>4, <1>5, <1>6 DEF Good, Distinct
<1>8. QED
  BY <1>1, <1>2, <1>5, <1>6, <1>7

LEMMA IncrementCounts ==
  ASSUME IInv, TInv, CountOne, NEW k, CountsAt(k), Ret(block), block[k].op # "ret",
         NEW l, NEW m, NEW c, Counts(block, todo, l, m, c), Good(block', source), WellTyped(block')
  PROVE  /\ Len(todo) \in Nat /\ todo' # <<>> /\ IsSeq(todo') /\ Len(todo') = Len(todo) - 1
         /\ \E q : Counts(block', todo', q, m, c + 1)
<1>1. /\ l = k /\ m = Visit[3] /\ k \in 1 .. Len(block) /\ block[k].id = todo[1][1]
      /\ pc = "visit" /\ Pass \in Counting /\ todo # <<>> /\ IsSeq(todo) /\ todo' = Tail(todo)
  BY CountedHere
<1>2. Good(block, source) /\ WellTyped(block) /\ IsSeq(block) /\ Word \in Nat /\ Aimed
  BY BlockIs, RewritesAssumption DEF TInv
<1>3. SlotAhead(block, k, m) /\ block' = Before(block, k, IncrementCode(m))
  BY <1>1 DEF CountsAt
<1>4. /\ m \in Nat \ {0} /\ Untouched(block, k - 1, m)
      /\ \A i \in 1 .. Len(todo) : todo[i][3] = m
      /\ todo[Len(todo)][1] = block[Len(block)].id
      /\ c \in Nat /\ \A input : InputOK(input) => Holds(block, input, k - 1, m, Trunc(c, Word))
  BY <1>1 DEF Counts
<1>5. k # Len(block)
  BY DEF Ret
<1>6. Len(todo) \in Nat /\ Len(todo) >= 2 /\ \E q \in k .. Len(block) : block[q].id = todo[2][1]
  BY <1>1, <1>2, <1>4, <1>5, NextVisit
<1>7. PICK q \in k .. Len(block) : block[q].id = todo[2][1]
  BY <1>6
<1> DEFINE w == Tail(todo)
<1>8. IsSeq(w) /\ Len(w) = Len(todo) - 1 /\ \A i \in 1 .. Len(todo) - 1 : w[i] = todo[i + 1]
  BY <1>1, HeadTail
<1> HIDE DEF w
<1>9. w[1] = todo[2] /\ w[Len(w)] = todo[Len(todo)] /\ \A i \in 1 .. Len(w) : w[i][3] = m
  <2>1. 1 \in 1 .. Len(todo) - 1 /\ Len(w) \in 1 .. Len(todo) - 1 /\ Len(w) + 1 = Len(todo) /\ 1 + 1 = 2
    BY <1>6, <1>8
  <2>2. w[1] = todo[2] /\ w[Len(w)] = todo[Len(todo)]
    BY <1>8, <2>1
  <2>3. \A i \in 1 .. Len(w) : i \in 1 .. Len(todo) - 1 /\ i + 1 \in 1 .. Len(todo)
    BY <1>6, <1>8
  <2>4. QED
    BY <1>4, <1>8, <2>2, <2>3
<1>10. w # <<>>
  BY <1>6, <1>8, EmptyIs
<1>11. IsSeq(IncrementCode(m)) /\ Len(IncrementCode(m)) = 3
  BY IncrementCodeIs
<1>12. Fresh \in Nat
  BY <1>2, FreshIs
<1>13. ASSUME NEW input, InputOK(input)
       PROVE  Leaves(Ran(Outset, block, input)[k - 1], IncrementCode(m), input, m, Trunc(c + 1, Word))
  <2> DEFINE s == Ran(Outset, block, input)[k - 1]
             t == After(s, IncrementCode(m), input)
  <2>1. \A n \in DOMAIN s.val : n \in Nat /\ n < Fresh
    BY <1>1, <1>2, <1>13, TakenNumbers
  <2>2. m \in DOMAIN s.val /\ s.val[m] = -m
    BY <1>1, <1>2, <1>3, <1>13, SlotRead
  <2>3. -m \in DOMAIN s.mem /\ s.mem[-m] = Trunc(c, Word)
    BY <1>4, <1>13 DEF Holds
  <2> HIDE DEF s
  <2>4. -m \in DOMAIN t.mem /\ t.mem[-m] = Trunc(Trunc(s.mem[-m], Word) + 1, Word)
    BY <1>12, <2>1, <2>2, <2>3, IncrementRun
  <2>5. Trunc(Trunc(s.mem[-m], Word) + 1, Word) = Trunc(c + 1, Word)
    BY <1>2, <1>4, <2>3, TruncNext
  <2>6. QED
    BY <2>4, <2>5 DEF Leaves, s
<1>14. Counts(block', w, q + Len(IncrementCode(m)), m, c + 1)
  <2> DEFINE code == IncrementCode(m)
             b == block'
             d == c + 1
  <2>1. /\ IsSeq(code) /\ b = Before(block, k, code) /\ Good(b, source) /\ WellTyped(b)
        /\ m \in Nat \ {0} /\ Untouched(block, k - 1, m)
        /\ block[q].id = w[1][1] /\ (\A i \in 1 .. Len(w) : w[i][3] = m) /\ w[Len(w)][1] = block[Len(block)].id
        /\ d \in Nat
        /\ \A input : InputOK(input) => Leaves(Ran(Outset, block, input)[k - 1], code, input, m, Trunc(d, Word))
    BY <1>3, <1>4, <1>7, <1>9, <1>11, <1>13
  <2> HIDE DEF code, b, d
  <2>2. Counts(b, w, q + Len(code), m, d)
    BY <1>1, <1>2, <1>7, <2>1, PlacedCounts
  <2>3. QED
    BY <2>2 DEF code, b, d
<1>15. QED
  BY <1>1, <1>6, <1>8, <1>10, <1>14 DEF w

\* The counter is reported: it is what the visits have made of it.
LEMMA ReportCounts ==
  ASSUME IInv, TInv, CountOne, NEW k, CountsAt(k), block[k].op = "ret",
         NEW l, NEW m, NEW c, Counts(block, todo, l, m, c)
  PROVE  /\ IsSeq(todo) /\ Len(todo) = 1 /\ todo' = <<>>
         /\ \A input : InputOK(input) =>
              Run(block', input).reports = Append(Run(block, input).reports, Trunc(c, Word))
<1>1. /\ l = k /\ m = Visit[3] /\ k \in 1 .. Len(block) /\ block[k].id = todo[1][1]
      /\ pc = "visit" /\ Pass \in Counting /\ todo # <<>> /\ IsSeq(todo) /\ todo' = Tail(todo)
  BY CountedHere
<1>2. Good(block, source) /\ WellTyped(block) /\ IsSeq(block) /\ Word \in Nat \ {0} /\ Aimed
  BY BlockIs, RewritesAssumption DEF TInv
<1>3. /\ SlotAhead(block, k, m) /\ Quiet(block, k - 1, m) /\ k = Len(block)
      /\ block' = Before(block, k, ReportCode(m))
  BY <1>1 DEF CountsAt
<1>4. /\ todo[Len(todo)][1] = block[Len(block)].id
      /\ c \in Nat /\ \A input : InputOK(input) => Holds(block, input, k - 1, m, Trunc(c, Word))
  BY <1>1 DEF Counts
<1>5. Len(todo) = 1
  BY <1>1, <1>2, <1>3, <1>4, NextVisit
<1>6. todo' = <<>>
  BY <1>1, <1>5, HeadTail DEF IsSeq
<1>7. Trunc(Trunc(c, Word), Word) = Trunc(c, Word)
  <2> DEFINE t == Trunc(c, Word)
  <2>1. c \in Int /\ Word \in Nat
    BY <1>2, <1>4
  <2>2. InWord(t, Word)
    BY <2>1, TruncWord
  <2> HIDE DEF t
  <2>3. Trunc(t, Word) = t
    BY <2>1, <2>2, TruncOfWord
  <2>4. QED
    BY <2>3 DEF t
<1>8. ASSUME NEW input, InputOK(input)
      PROVE  Run(block', input).reports = Append(Run(block, input).reports, Trunc(c, Word))
  <2> DEFINE s == Ran(Outset, block, input)[k - 1]
             b == block'
  <2>1. PICK v : Alike(block, b, input, FALSE, <<v>>) /\ (-m \in DOMAIN s.mem => v = Trunc(s.mem[-m], Word))
    <3>1. b = Before(block, k, ReportCode(m)) /\ block[k].op # "report"
      BY <1>3
    <3> HIDE DEF b
    <3>2. QED
      BY <1>1, <1>2, <1>3, <1>8, <3>1, ReportAlike
  <2>2. -m \in DOMAIN s.mem /\ s.mem[-m] = Trunc(c, Word)
    BY <1>4, <1>8 DEF Holds
  <2>3. v = Trunc(c, Word)
    BY <1>7, <2>1, <2>2
  <2>4. Run(b, input).reports = Append(Run(block, input).reports, v)
    <3>1. <<v>> # <<>> /\ <<v>>[1] = v
      OBVIOUS
    <3>2. QED
      BY <2>1, <3>1 DEF Alike, Printed
  <2>5. QED
    BY <2>3, <2>4
<1>9. QED
  BY <1>1, <1>5, <1>6, <1>8

(***************************************************************************)
(* What is reported, and what is still to be.                              *)
(***************************************************************************)
Busy == pc = "visit" /\ Pass \in Counting /\ todo # <<>>
Waiting == Busy /\ Ret(block)

\* The first n counts, as words.
Due(e, n) == [k \in 1 .. n |-> Trunc(e[k][2], Word)]
Prints(b, r) == \A input : InputOK(input) => Run(b, input).reports = r

\* The text is that of every pass that counted.
Told(e, f) == \A k \in 1 .. Len(e) : e[k][1] = f /\ e[k][1] \in Counting

\* The counter has reached what is expected but for the visits to come, of which the
\* last one is that of the ret.
Reaching == \E k, m, c : Counts(block, todo, k, m, c) /\ expected[Len(expected)][2] = c + Len(todo) - 1

Paid ==
  /\ IsSeq(expected) /\ Told(expected, fmt) /\ (expected # <<>> => Ret(block))
  /\ ~Waiting => Prints(block, Due(expected, Len(expected)))
  /\ Waiting => Len(expected) >= 1 /\ Prints(block, Due(expected, Len(expected) - 1)) /\ Reaching

\* The visits to come count in slots that nothing but counting stores to.
Sliced == \E C, S : Clean(block, C, S) /\ (Busy => \A i \in 1 .. Len(todo) : todo[i][3] \in S)

CInv == Paid /\ Sliced

LEMMA KeepsSelf == Keeps(block)
BY DEF Keeps, Cleans, Handed, Silent

\* Steps of the passes that do not count.
LEMMA StillInv ==
  ASSUME CInv, ~Busy, ~Busy', expected' = expected, fmt' = fmt, Keeps(block')
  PROVE  CInv'
<1>1. (Ret(block') <=> Ret(block)) /\ \A r : Prints(block, r) => Prints(block', r)
  BY DEF Keeps, Silent, Prints
<1>2. Paid'
  BY <1>1 DEF CInv, Paid, Waiting
<1>3. Sliced'
  <2>1. PICK C, S : Clean(block, C, S)
    BY DEF CInv, Sliced
  <2>2. \E E, F : Clean(block', E, F)
    BY <2>1 DEF Keeps, Cleans, Handed
  <2>3. QED
    BY <2>2 DEF Sliced
<1>4. QED
  BY <1>2, <1>3 DEF CInv

LEMMA InsertCounterSliced ==
  ASSUME IInv, TInv, InsertCounter, Sliced, Good(block', source), WellTyped(block')
  PROVE  Sliced'
<1>1. PICK C, S : Clean(block, C, S)
  BY DEF Sliced
<1>2. Good(block, source) /\ WellTyped(block)
  BY BlockIs DEF TInv
<1>3. Aimed' /\ \E k \in 1 .. Len(block) : block' = Before(block, k, CounterCode)
  BY InsertCounterAims
<1>4. Handed(block', S \cup {Fresh})
  BY <1>1, <1>2, <1>3, CounterClean
<1>5. PICK E, F : Clean(block', E, F) /\ \A n \in S \cup {Fresh} : Present(block', n) => n \in F
  BY <1>4 DEF Handed
<1>6. Pass \in Counting /\ todo' = Visited(block, Fresh) /\ pc' = "visit" /\ Pass' = Pass
  BY DEF InsertCounter, Pass
<1>7. ASSUME NEW i \in 1 .. Len(todo') PROVE todo'[i][3] \in F
  <2>1. todo'[i][3] = Fresh
    BY <1>6, <1>7, CountedVisits
  <2>2. Aims(block', Pass, todo'[i])
    BY <1>3, <1>6 DEF Aimed
  <2>3. Present(block', Fresh)
    BY <1>6, <2>1, <2>2 DEF Aims, Slot, Present
  <2>4. QED
    BY <1>5, <2>1, <2>3
<1>8. QED
  BY <1>5, <1>7 DEF Sliced

LEMMA CountOneSliced ==
  ASSUME IInv, TInv, CountOne, Sliced, Good(block', source), WellTyped(block')
  PROVE  Sliced'
<1>1. /\ pc = "visit" /\ Pass \in Counting /\ todo # <<>> /\ todo' = Tail(todo) /\ pc' = pc /\ Pass' = Pass
  BY DEF CountOne, EndVisit, Pass
<1>2. Good(block, source) /\ WellTyped(block) /\ Aimed /\ IsSeq(todo)
  BY BlockIs DEF TInv, IInv, VisitsFit
<1>3. PICK C, S : Clean(block, C, S) /\ \A i \in 1 .. Len(todo) : todo[i][3] \in S
  BY <1>1 DEF Sliced, Busy
<1>4. PICK k : CountsAt(k)
  BY <1>2, CountOneIs
<1> DEFINE m == Visit[3]
<1>5. /\ Len(todo) \in Nat /\ Len(todo) >= 1 /\ Visit = todo[1] /\ IsSeq(todo') /\ Len(todo') = Len(todo) - 1
      /\ \A i \in 1 .. Len(todo) - 1 : todo'[i] = todo[i + 1]
  BY <1>1, <1>2, HeadTail DEF Visit, IsSeq
<1>6. m \in S
  <2>1. 1 \in 1 .. Len(todo)
    BY <1>5
  <2>2. QED
    BY <1>3, <1>5, <2>1
<1> HIDE DEF m
<1>7. Handed(block', S)
  <2>1. k \in 1 .. Len(block)
    BY <1>4 DEF CountsAt
  <2>2. CASE block[k].op = "ret"
    <3>1. block' = Before(block, k, ReportCode(m))
      BY <1>4, <2>2 DEF CountsAt, m
    <3>2. QED
      BY <1>2, <1>3, <1>6, <2>1, <3>1, ReportClean
  <2>3. CASE block[k].op # "ret"
    <3>1. block' = Before(block, k, IncrementCode(m))
      BY <1>4, <2>3 DEF CountsAt, m
    <3>2. QED
      BY <1>2, <1>3, <1>6, <2>1, <3>1, IncrementClean
  <2>4. QED
    BY <2>2, <2>3
<1>8. PICK E, F : Clean(block', E, F) /\ \A n \in S : Present(block', n) => n \in F
  BY <1>7 DEF Handed
<1>9. Aimed'
  BY <1>2, CountOneAims
<1>10. ASSUME NEW i \in 1 .. Len(todo') PROVE todo'[i][3] \in F
  <2>1. i + 1 \in 1 .. Len(todo) /\ todo'[i] = todo[i + 1]
    BY <1>5
  <2>2. Aims(block', Pass, todo'[i])
    BY <1>1, <1>9 DEF Aimed
  <2>3. Present(block', todo'[i][3])
    BY <1>1, <2>2 DEF Aims, Slot, Present
  <2>4. QED
    BY <1>3, <1>8, <2>1, <2>3
<1>11. QED
  BY <1>8, <1>10 DEF Sliced
LEMMA PlacedRet ==
  ASSUME Good(block, source), NEW k \in 1 .. Len(block), NEW new, IsSeq(new),
         NEW c, c = Before(block, k, new), Good(c, source)
  PROVE  Ret(c) <=> Ret(block)
<1>1. Inserted(block, c, k, new, block[k])
  BY BeforeInserted
<1>2. Gets(c, k, Append(new, block[k]), Value(block[k].id))
  BY <1>1, PlaceGets
<1>3. QED
  BY <1>2, GetsRet

\* A count more.
LEMMA DueMore ==
  ASSUME NEW e, IsSeq(e), NEW x
  PROVE  LET d == Append(e, x)
         IN  /\ IsSeq(d) /\ Len(d) = Len(e) + 1 /\ d[Len(d)] = x
             /\ Due(d, Len(d) - 1) = Due(e, Len(e))
<1> DEFINE d == Append(e, x)
           n == Len(e)
<1>1. IsSeq(d) /\ Len(d) = n + 1 /\ d[n + 1] = x /\ (\A i \in 1 .. n : d[i] = e[i]) /\ n \in Nat
  BY AppendIs DEF IsSeq
<1> HIDE DEF d, n
<1>2. Len(d) - 1 = n
  BY <1>1
<1>3. Due(d, n) = Due(e, n)
  BY <1>1 DEF Due
<1>4. QED
  BY <1>1, <1>2, <1>3 DEF d, n

LEMMA DuePaid ==
  ASSUME NEW e, NEW n \in Nat \ {0}, NEW v, v = Trunc(e[n][2], Word)
  PROVE  Append(Due(e, n - 1), v) = Due(e, n)
<1> DEFINE s == Due(e, n - 1)
           t == Due(e, n)
           r == Append(s, v)
           T(i) == Trunc(e[i][2], Word)
<1>1. IsSeq(s) /\ Len(s) = n - 1 /\ \A i \in 1 .. n - 1 : s[i] = T(i)
  <2>1. s = [i \in 1 .. n - 1 |-> T(i)]
    BY DEF Due
  <2> HIDE DEF s, T
  <2>2. \A i \in 1 .. n - 1 : s[i] = T(i)
    BY <2>1
  <2>3. s = [i \in 1 .. n - 1 |-> s[i]]
    BY <2>1
  <2>4. n - 1 \in Nat
    OBVIOUS
  <2> DEFINE z == n - 1
  <2>5. z \in Nat /\ s = [i \in 1 .. z |-> s[i]]
    BY <2>3, <2>4
  <2> HIDE DEF z
  <2>6. IsSeq(s) /\ Len(s) = z
    BY <2>5, SeqMade
  <2>7. QED
    BY <2>2, <2>6 DEF z
<1>2. t = [i \in 1 .. n |-> T(i)]
  BY DEF Due
<1>3. v = T(n)
  OBVIOUS
<1> HIDE DEF s, t, T
<1>4. IsSeq(r) /\ Len(r) = n /\ r[n] = v /\ \A i \in 1 .. n - 1 : r[i] = s[i]
  <2>1. IsSeq(r) /\ Len(r) = Len(s) + 1 /\ r[Len(s) + 1] = v /\ \A i \in 1 .. Len(s) : r[i] = s[i]
    BY <1>1, AppendIs
  <2>2. Len(s) + 1 = n
    BY <1>1
  <2> HIDE DEF r
  <2>3. QED
    BY <1>1, <2>1, <2>2
<1> HIDE DEF r
<1>5. \A i \in 1 .. n : r[i] = T(i)
  <2>1. ASSUME NEW i \in 1 .. n PROVE r[i] = T(i)
    <3>1. i = n \/ i \in 1 .. n - 1
      OBVIOUS
    <3>2. QED
      BY <1>1, <1>3, <1>4, <3>1
  <2>2. QED
    BY <2>1
<1>6. r = [i \in 1 .. n |-> r[i]]
  BY <1>4 DEF IsSeq
<1>7. r = t
  BY <1>2, <1>5, <1>6
<1>8. QED
  BY <1>7 DEF r, s, t

LEMMA InsertCounterPaid ==
  ASSUME IInv, TInv, InsertCounter, Paid, Good(block', source), WellTyped(block')
  PROVE  Paid'
<1>1. /\ Pass \in Counting /\ pc = "start" /\ pc' = "visit" /\ Pass' = Pass
      /\ fmt \in {"none", Pass} /\ fmt' = Pass
      /\ todo' = Visited(block, Fresh)
      /\ expected' = IF Ret(block) THEN Append(expected, <<Pass, Executed>>) ELSE expected
  BY DEF InsertCounter, Pass, Ret
<1>2. Good(block, source)
  BY BlockIs
<1>3. Ret(block') <=> Ret(block)
  <2>1. PICK k \in 1 .. Len(block) : block' = Before(block, k, CounterCode)
    BY InsertCounterAims
  <2>2. IsSeq(CounterCode)
    BY CounterCodeIs
  <2> DEFINE b == block'
             code == CounterCode
  <2>3. b = Before(block, k, code) /\ IsSeq(code) /\ Good(b, source)
    BY <2>1, <2>2
  <2> HIDE DEF b, code
  <2>4. Ret(b) <=> Ret(block)
    BY <1>2, <2>3, PlacedRet
  <2>5. QED
    BY <2>4 DEF b
<1>4. \A r : Prints(block, r) => Prints(block', r)
  BY <1>3, InsertCounterTracks, TracksSilent DEF Silent, Prints
<1> DEFINE n == Len(expected)
<1>5. IsSeq(expected) /\ n \in Nat /\ Told(expected, fmt) /\ Prints(block, Due(expected, n))
  BY <1>1 DEF Paid, Waiting, Busy, IsSeq
<1>6. CASE ~Ret(block)
  <2>1. expected = <<>> /\ expected' = expected
    BY <1>1, <1>6 DEF Paid
  <2>2. Told(expected', fmt')
    BY <2>1, EmptyIs DEF Told
  <2>3. ~Waiting'
    BY <1>3, <1>6 DEF Waiting
  <2>4. QED
    BY <1>4, <1>5, <2>1, <2>2, <2>3 DEF Paid
<1>7. CASE Ret(block)
  <2> DEFINE d == Append(expected, <<Pass, Executed>>)
             v == Visited(block, Fresh)
  <2>1. expected' = d
    BY <1>1, <1>7
  <2>2. IsSeq(d) /\ Len(d) = n + 1 /\ d[n + 1] = <<Pass, Executed>> /\ \A i \in 1 .. n : d[i] = expected[i]
    BY <1>5, AppendIs
  <2>3. Due(d, Len(d) - 1) = Due(expected, n)
    BY <1>5, DueMore
  <2>4. IsSeq(v) /\ Executed \in Nat /\ Len(v) = Executed + 1
    BY <1>1, <1>7, CountedVisits
  <2>5. \E k : Counts(block', todo', k, Fresh, 0)
    BY <1>7, InsertCounts
  <2> HIDE DEF d, v, n
  <2>6. Told(d, Pass)
    <3>1. ASSUME NEW k \in 1 .. Len(d) PROVE d[k][1] = Pass /\ d[k][1] \in Counting
      <4>1. CASE k = n + 1
        BY <1>1, <2>2, <4>1
      <4>2. CASE k # n + 1
        <5>1. k \in 1 .. n /\ d[k] = expected[k]
          BY <1>5, <2>2, <4>2
        <5>2. expected[k][1] = fmt /\ expected[k][1] \in Counting
          BY <1>5, <5>1 DEF Told, n
        <5>3. fmt = Pass
          BY <1>1, <5>2 DEF Counting
        <5>4. QED
          BY <1>1, <5>1, <5>2, <5>3
      <4>3. QED
        BY <4>1, <4>2
    <3>2. QED
      BY <3>1 DEF Told
  <2>7. v # <<>>
    BY <2>4, EmptyIs
  <2>8. Waiting'
    BY <1>1, <1>3, <1>7, <2>7 DEF Waiting, Busy, v
  <2>9. Len(d) >= 1 /\ d[Len(d)][2] = 0 + Len(v) - 1
    BY <1>5, <2>2, <2>4
  <2>10. Reaching'
    BY <1>1, <2>1, <2>5, <2>9 DEF Reaching, v
  <2>11. Prints(block', Due(d, Len(d) - 1))
    BY <1>4, <1>5, <2>3 DEF n
  <2>12. QED
    BY <1>1, <1>3, <1>7, <2>1, <2>2, <2>6, <2>8, <2>9, <2>10, <2>11 DEF Paid
<1>8. QED
  BY <1>6, <1>7

LEMMA CountOnePaid ==
  ASSUME IInv, TInv, CountOne, Paid, Good(block', source), WellTyped(block')
  PROVE  Paid'
<1>1. /\ Busy /\ pc' = pc /\ Pass' = Pass /\ fmt' = fmt /\ expected' = expected
  BY DEF CountOne, EndVisit, Busy, Pass
<1>2. Good(block, source) /\ WellTyped(block) /\ Aimed /\ Word \in Nat \ {0}
  BY BlockIs, RewritesAssumption DEF TInv
<1>3. PICK k : CountsAt(k)
  BY <1>2, CountOneIs
<1>4. k \in 1 .. Len(block)
  BY <1>3 DEF CountsAt
<1>5. /\ IsSeq(expected) /\ Len(expected) \in Nat /\ Told(expected, fmt) /\ (expected # <<>> => Ret(block))
  BY DEF Paid, IsSeq
<1>6. Ret(block') <=> Ret(block)
  <2>1. \E new : IsSeq(new) /\ block' = Before(block, k, new)
    BY <1>3, ReportCodeIs, IncrementCodeIs DEF CountsAt
  <2>2. PICK new : IsSeq(new) /\ block' = Before(block, k, new)
    BY <2>1
  <2>3. QED
    BY <1>2, <1>4, <2>2, PlacedRet
<1>7. ASSUME block[k].op # "ret" PROVE \A r : Prints(block, r) => Prints(block', r)
  <2> DEFINE m == Visit[3]
  <2>1. block' = Before(block, k, IncrementCode(m)) /\ SlotAhead(block, k, m) /\ Quiet(block, k - 1, m)
    BY <1>3, <1>7 DEF CountsAt
  <2> HIDE DEF m
  <2>2. Tracks(block', FALSE)
    BY <1>2, <1>4, <2>1, IncrementTracks
  <2>3. QED
    BY <1>6, <2>2, TracksSilent DEF Silent, Prints
<1>8. CASE ~Ret(block)
  <2>1. block[k].op # "ret"
    BY <1>3, <1>8 DEF CountsAt, Ret
  <2>2. ~Waiting /\ ~Waiting'
    BY <1>6, <1>8 DEF Waiting
  <2>3. Prints(block', Due(expected, Len(expected)))
    BY <1>7, <2>1, <2>2 DEF Paid
  <2>4. QED
    BY <1>1, <1>5, <1>8, <2>2, <2>3 DEF Paid
<1>9. CASE Ret(block)
  <2> DEFINE n == Len(expected)
  <2>1. n >= 1 /\ Prints(block, Due(expected, n - 1)) /\ Reaching
    BY <1>1, <1>9 DEF Paid, Waiting
  <2>2. PICK l, m, c : Counts(block, todo, l, m, c) /\ expected[n][2] = c + Len(todo) - 1
    BY <2>1 DEF Reaching
  <2>3. c \in Nat
    BY <2>2 DEF Counts
  <2> HIDE DEF n
  <2>4. CASE block[k].op # "ret"
    <3>1. /\ Len(todo) \in Nat /\ todo' # <<>> /\ IsSeq(todo') /\ Len(todo') = Len(todo) - 1
          /\ \E q : Counts(block', todo', q, m, c + 1)
      BY <1>3, <1>9, <2>2, <2>4, IncrementCounts
    <3>2. expected[n][2] = (c + 1) + Len(todo') - 1
      BY <2>2, <2>3, <3>1
    <3>3. Reaching'
      BY <1>1, <3>1, <3>2 DEF Reaching, n
    <3>4. Waiting'
      BY <1>1, <1>6, <1>9, <3>1 DEF Waiting, Busy
    <3>5. Prints(block', Due(expected, n - 1))
      BY <1>7, <2>1, <2>4
    <3>6. QED
      BY <1>1, <1>5, <1>6, <1>9, <2>1, <3>3, <3>4, <3>5 DEF Paid, n
  <2>5. CASE block[k].op = "ret"
    <3>1. /\ Len(todo) = 1 /\ todo' = <<>>
          /\ \A input : InputOK(input) =>
               Run(block', input).reports = Append(Run(block, input).reports, Trunc(c, Word))
      BY <1>3, <2>2, <2>5, ReportCounts
    <3>2. expected[n][2] = c /\ n \in Nat \ {0}
      BY <1>5, <2>1, <2>2, <2>3, <3>1 DEF n
    <3>3. Append(Due(expected, n - 1), Trunc(c, Word)) = Due(expected, n)
      BY <3>2, DuePaid
    <3>4. Prints(block', Due(expected, n))
      BY <2>1, <3>1, <3>3 DEF Prints
    <3>5. ~Waiting'
      BY <3>1 DEF Waiting, Busy
    <3>6. QED
      BY <1>1, <1>5, <1>6, <1>9, <3>4, <3>5 DEF Paid, n
  <2>6. QED
    BY <2>4, <2>5
<1>10. QED
  BY <1>8, <1>9

\* A block without reports reports nothing.
LEMMA NothingPrinted ==
  ASSUME NEW b, IsSeq(b), \A k \in 1 .. Len(b) : b[k].op # "report"
  PROVE  Prints(b, <<>>)
<1> SUFFICES ASSUME NEW input PROVE Run(b, input).reports = <<>>
  BY DEF Prints
<1> DEFINE r == Ran(Outset, b, input)
           S == {i \in Nat : r[i].reports = <<>>}
<1>1. Len(b) \in Nat /\ Steps(r, Outset, b, input)
  BY RanIs DEF IsSeq
<1>2. 0 \in S
  BY <1>1 DEF Steps, Outset
<1>3. ASSUME NEW i \in 0 + 1 .. Len(b), i - 1 \in S PROVE i \in S
  <2>1. i \in 1 .. Len(b) /\ i \in Nat
    BY <1>1
  <2>2. r[i] = Exec(r[i - 1], b[i], input)
    BY <1>1, <2>1 DEF Steps
  <2>3. r[i].reports = r[i - 1].reports
    <3> DEFINE s == r[i - 1]
               t == r[i]
               x == Evaluated(s, b[i].args)
    <3>1. Effect(s, b[i], x, Result(s.mem, b[i], x, Given(b[i], input)), t)
      BY <2>2, ExecIs
    <3>2. b[i].op # "report"
      BY <2>1
    <3> HIDE DEF s, t, x
    <3>3. t.reports = s.reports
      BY <3>1, <3>2 DEF Effect
    <3>4. QED
      BY <3>3 DEF s, t
  <2>4. QED
    BY <1>3, <2>1, <2>3
<1> HIDE DEF S, r
<1>4. \A i \in 0 .. Len(b) : i \in S
  BY <1>1, <1>2, <1>3, Climbs
<1>5. Len(b) \in 0 .. Len(b)
  BY <1>1
<1>6. QED
  BY <1>4, <1>5 DEF S, r, Run

LEMMA SourceCounts == Init => CInv
<1> SUFFICES ASSUME Init PROVE CInv
  OBVIOUS
<1>1. block = source /\ source \in Sources /\ pc = "start" /\ expected = <<>>
  BY DEF Init
<1>2. IsSeq(block) /\ DOMAIN source = 1 .. Len(source)
  BY <1>1, InitInv, SeqIn DEF IInv, Good
<1>3. \A k \in 1 .. Len(block) : block[k].op # "report"
  BY <1>1, <1>2, RewritesAssumption
<1>4. ~Busy /\ ~Waiting
  BY <1>1 DEF Busy, Waiting
<1>5. Due(expected, Len(expected)) = <<>>
  <2> DEFINE s == Due(expected, Len(expected))
  <2>1. Len(expected) = 0
    BY <1>1, EmptyIs
  <2>2. s = [k \in 1 .. 0 |-> s[k]]
    BY <2>1 DEF Due
  <2> HIDE DEF s
  <2>3. IsSeq(s) /\ Len(s) = 0
    BY <2>2, SeqMade
  <2>4. s = <<>>
    BY <2>3, HeadTail
  <2>5. QED
    BY <2>4 DEF s
<1>6. Prints(block, <<>>)
  BY <1>2, <1>3, NothingPrinted
<1>7. Paid
  BY <1>1, <1>4, <1>5, <1>6, EmptyIs DEF Paid, Told
<1>8. Clean(block, {}, {})
  BY <1>3 DEF Clean, Clear, Mine, Into
<1>9. QED
  BY <1>4, <1>7, <1>8 DEF CInv, Sliced

LEMMA CountsNext == IInv /\ TInv /\ CInv /\ [Next]_vars => CInv'
<1> SUFFICES ASSUME IInv, TInv, CInv, [Next]_vars PROVE CInv'
  OBVIOUS
<1>1. Good(block', source) /\ WellTyped(block')
  <2>1. IInv' /\ WellTyped(block') /\ source' = source
    BY NextInv, StepFaithful DEF Faithful
  <2>2. QED
    BY <2>1 DEF IInv
<1>2. CASE Collect
  <2>1. ~Busy /\ ~Busy' /\ expected' = expected /\ fmt' = fmt /\ block' = block
    BY <1>2 DEF Collect, Busy, Pass
  <2>2. QED
    BY <2>1, KeepsSelf, StillInv
<1>3. CASE PickPoints
  <2>1. ~Busy /\ ~Busy' /\ expected' = expected /\ fmt' = fmt /\ block' = block
    BY <1>3 DEF PickPoints, Busy, Pass, Running, Counting
  <2>2. QED
    BY <2>1, KeepsSelf, StillInv
<1>4. CASE InsertCounter
  BY <1>1, <1>4, InsertCounterPaid, InsertCounterSliced DEF CInv
<1>5. ASSUME NEW dice \in {0, 1}, Substitute(dice) PROVE CInv'
  <2>1. ~Busy /\ ~Busy' /\ expected' = expected /\ fmt' = fmt
    BY <1>5 DEF Substitute, Visiting, Running, EndVisit, Busy, Pass, Counting
  <2>2. Keeps(block')
    BY <1>1, <1>5, SubstituteKeeps
  <2>3. QED
    BY <2>1, <2>2, StillInv
<1>6. ASSUME NEW pattern \in 0 .. 4, NEW n \in RandomValues, InsertGarbage(pattern, n) PROVE CInv'
  <2>1. ~Busy /\ ~Busy' /\ expected' = expected /\ fmt' = fmt
    BY <1>6 DEF InsertGarbage, Visiting, Running, EndVisit, Busy, Pass, Counting
  <2>2. n \in Nat
    BY RewritesAssumption
  <2>3. Keeps(block')
    BY <1>1, <1>6, <2>2, InsertGarbageKeeps
  <2>4. QED
    BY <2>1, <2>3, StillInv
<1>7. ASSUME NEW random \in Randoms, AlterConstant(random) PROVE CInv'
  <2>1. ~Busy /\ ~Busy' /\ expected' = expected /\ fmt' = fmt
    BY <1>7 DEF AlterConstant, Visiting, Running, EndVisit, Busy, Pass, Counting
  <2>2. PICK C, S : Clean(block, C, S)
    BY DEF CInv, Sliced
  <2>3. Keeps(block')
    BY <1>1, <1>7, <2>2, AlterConstantKeeps
  <2>4. QED
    BY <2>1, <2>3, StillInv
<1>8. CASE ToShl
  <2>1. ~Busy /\ ~Busy' /\ expected' = expected /\ fmt' = fmt
    BY <1>8 DEF ToShl, Visiting, Running, EndVisit, Busy, Pass, Counting
  <2>2. Keeps(block')
    BY <1>1, <1>8, ToShlKeeps
  <2>3. QED
    BY <2>1, <2>2, StillInv
<1>9. CASE PassBy
  <2>1. ~Busy /\ ~Busy' /\ expected' = expected /\ fmt' = fmt /\ block' = block
    BY <1>9 DEF PassBy, Visiting, Running, EndVisit, Busy, Pass, Counting
  <2>2. QED
    BY <2>1, KeepsSelf, StillInv
<1>10. CASE CountOne
  BY <1>1, <1>10, CountOnePaid, CountOneSliced DEF CInv
<1>11. CASE EraseOne
  <2>1. ~Busy /\ ~Busy' /\ expected' = expected /\ fmt' = fmt
    BY <1>11 DEF EraseOne, Busy
  <2>2. Keeps(block')
    BY <1>1, <1>11, EraseOneKeeps
  <2>3. QED
    BY <2>1, <2>2, StillInv
<1>12. CASE EndPass
  <2>1. ~Busy /\ ~Busy' /\ expected' = expected /\ fmt' = fmt /\ block' = block
    BY <1>12 DEF EndPass, Busy
  <2>2. QED
    BY <2>1, KeepsSelf, StillInv
<1>13. CASE UNCHANGED vars
  BY <1>13 DEF vars, CInv, Paid, Sliced, Waiting, Busy, Pass, Reaching
<1>14. CASE TextClash
  <2>1. ~Busy /\ ~Busy' /\ expected' = expected /\ fmt' = fmt /\ block' = block
    BY <1>14 DEF TextClash, Busy
  <2>2. QED
    BY <2>1, KeepsSelf, StillInv
<1>15. QED
  BY <1>2, <1>3, <1>4, <1>5, <1>6, <1>7, <1>8, <1>9, <1>10, <1>11, <1>12, <1>13, <1>14 DEF Next, Finished

LEMMA InvIsReported == IInv /\ CInv => ReportsCount
<1> SUFFICES ASSUME IInv, CInv, pc = "start", NEW input \in Inputs
             PROVE  LET r == Run(block, input).reports
                    IN  /\ Len(r) = Len(expected)
                        /\ \A k \in DOMAIN r :
                             /\ r[k] = Trunc(expected[k][2], Word)
                             /\ fmt = expected[k][1]
  BY DEF ReportsCount
<1> DEFINE n == Len(expected)
           r == Run(block, input).reports
<1>1. Paid /\ ~Waiting /\ n \in Nat
  BY DEF CInv, Paid, Waiting, Busy, IsSeq
<1>2. InputOK(input)
  BY BlockIs, InputsOK
<1>3. r = Due(expected, n)
  BY <1>1, <1>2 DEF Paid, Prints
<1>4. r = [k \in 1 .. n |-> Trunc(expected[k][2], Word)]
  BY <1>3 DEF Due
<1>5. Len(r) = n /\ DOMAIN r = 1 .. n
  <2> HIDE DEF r, n
  <2>1. r = [k \in 1 .. n |-> r[k]]
    BY <1>4
  <2>2. QED
    BY <1>1, <2>1, SeqMade
<1>6. \A k \in 1 .. n : fmt = expected[k][1]
  BY <1>1 DEF Paid, Told
<1> HIDE DEF r
<1>7. QED
  BY <1>4, <1>5, <1>6 DEF r

\* In a program that does not call printf itself, whatever passes run before, between and
\* after the counting passes, and whatever they draw: when a pass has ended, the block
\* prints, in front of its ret, one number for every counting pass run on it, the number
\* of additions or calls that the block it found executes, as a word; and the one text
\* there is says of every number what it counts, for the other counting pass would not
\* have got beyond its text (count_additions.cc:33-39 and 63-70, count_calls.cc:25-31
\* and 50-62).
THEOREM CountsReported == Spec => []ReportsCount
<1>1. Init => IInv /\ TInv /\ CInv
  BY InitInv, SourceTyped, SourceCounts
<1>2. IInv /\ TInv /\ CInv /\ [Next]_vars => (IInv /\ TInv /\ CInv)'
  BY NextInv, TypedNext, CountsNext
<1>3. IInv /\ TInv /\ CInv => ReportsCount
  BY InvIsReported
<1>4. QED
  BY <1>1, <1>2, <1>3, PTL DEF Spec
=============================================================================
