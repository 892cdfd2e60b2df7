--------------------------- MODULE BehaviourProofs ---------------------------
(***************************************************************************)
(* The types of a block are right at every moment, and the block does what *)
(* the source does: each rewriting puts code in the place of an            *)
(* instruction that leaves behind what the instruction leaves behind, and  *)
(* the rest of the block cannot tell them apart.                           *)
(***************************************************************************)
EXTENDS RewritesProofs

(* Types.                                                                  *)

Shaped(I) ==
  /\ I.op \in Ops /\ I.w \in Nat \ {0}
  /\ I.op = "store" => Len(I.args) = 2
  /\ I.op = "load" => Len(I.args) = 1

\* The operand z of I, in front of which there are q instructions of c.
Fed(c, q, z, I) ==
  IF IsConst(z) THEN InWord(z.n, I.w)
  ELSE \E i \in 1 .. q : c[i].id = z.n /\ Gives(c[i], I)

WellTyped(b) ==
  \A k \in 1 .. Len(b) :
    Shaped(b[k]) /\ \A j \in 1 .. Len(b[k].args) : Fed(b, k - 1, b[k].args[j], b[k])

LEMMA GivesSame ==
  ASSUME NEW P, NEW Q, NEW I, NEW J, Q.op = P.op, Q.w = P.w, J.op = I.op, J.w = I.w, Gives(P, I)
  PROVE  Gives(Q, J)
BY DEF Gives, IsIntegerTy

LEMMA WellTypedIsTyped ==
  ASSUME NEW b, NEW src, Good(b, src), WellTyped(b)
  PROVE  Typed(b) /\ \A k \in DOMAIN b : b[k].op \in Ops
<1>1. DOMAIN b = 1 .. Len(b) /\ \A k \in 1 .. Len(b) : DOMAIN b[k].args = 1 .. Len(b[k].args)
  BY SeqIn DEF Good, GoodInst
<1>2. \A k \in 1 .. Len(b) : Shaped(b[k])
  BY DEF WellTyped
<1>3. ASSUME NEW k \in 1 .. Len(b), NEW j \in 1 .. Len(b[k].args)
      PROVE  /\ IsConst(b[k].args[j]) => b[k].args[j].n < Pow2[b[k].w]
             /\ ~IsConst(b[k].args[j]) =>
                  \A i \in 1 .. Len(b) : b[i].id = b[k].args[j].n => Gives(b[i], b[k])
  <2>1. Fed(b, k - 1, b[k].args[j], b[k])
    BY DEF WellTyped
  <2>2. Pow2[b[k].w] \in Nat
    BY <1>2, Pow2Is DEF Shaped
  <2>3. CASE IsConst(b[k].args[j])
    BY <2>1, <2>2, <2>3 DEF Fed, InWord
  <2>4. CASE ~IsConst(b[k].args[j])
    <3>1. PICK l \in 1 .. k - 1 : b[l].id = b[k].args[j].n /\ Gives(b[l], b[k])
      BY <2>1, <2>4 DEF Fed
    <3>2. l \in 1 .. Len(b)
      BY DEF Good, IsSeq
    <3>3. \A i \in 1 .. Len(b) : b[i].id = b[k].args[j].n => i = l
      BY <3>1, <3>2 DEF Good, Distinct
    <3>4. QED
      BY <2>4, <3>1, <3>3
  <2>5. QED
    BY <2>3, <2>4
<1>4. QED
  BY <1>1, <1>2, <1>3 DEF Typed, Shaped

\* The k-th instruction of b gives way to the code core; what used its value x uses a.
Rewired(I, x, a) == Inst(I.id, I.op, I.w, Replaced(I.args, x, a))

Edited(b, c, k, core, x, a) ==
  /\ Len(c) = Len(b) - 1 + Len(core)
  /\ \A i \in 1 .. k - 1 : c[i] = b[i]
  /\ \A i \in 1 .. Len(core) : c[k - 1 + i] = core[i]
  /\ \A i \in k + 1 .. Len(b) : c[i - 1 + Len(core)] = Rewired(b[i], x, a)

LEMMA RewiredIs ==
  ASSUME NEW I, IsSeq(I.args), NEW x, NEW a
  PROVE  LET J == Rewired(I, x, a)
         IN  /\ J.id = I.id /\ J.op = I.op /\ J.w = I.w
             /\ IsSeq(J.args) /\ Len(J.args) = Len(I.args)
             /\ \A j \in 1 .. Len(I.args) : J.args[j] = IF I.args[j] = Value(x) THEN a ELSE I.args[j]
<1> DEFINE J == Rewired(I, x, a)
<1>1. J.id = I.id /\ J.op = I.op /\ J.w = I.w /\ J.args = Replaced(I.args, x, a)
  BY DEF Rewired, Inst
<1> HIDE DEF J
<1>2. /\ IsSeq(J.args) /\ Len(J.args) = Len(I.args)
      /\ \A j \in 1 .. Len(I.args) : J.args[j] = IF I.args[j] = Value(x) THEN a ELSE I.args[j]
  BY <1>1, ReplacedIs
<1>3. QED
  BY <1>1, <1>2 DEF J

\* Nothing replaced.
LEMMA RewiredSame ==
  ASSUME NEW I, I = Inst(I.id, I.op, I.w, I.args), IsSeq(I.args), NEW x, NEW a,
         a = Value(x) \/ \A j \in 1 .. Len(I.args) : I.args[j] # Value(x)
  PROVE  Rewired(I, x, a) = I
<1>1. DOMAIN I.args = 1 .. Len(I.args) /\ I.args = [j \in 1 .. Len(I.args) |-> I.args[j]]
  BY SeqIn DEF IsSeq
<1>2. Replaced(I.args, x, a) = [j \in 1 .. Len(I.args) |-> IF I.args[j] = Value(x) THEN a ELSE I.args[j]]
  BY <1>1 DEF Replaced
<1>3. \A j \in 1 .. Len(I.args) : (IF I.args[j] = Value(x) THEN a ELSE I.args[j]) = I.args[j]
  OBVIOUS
<1>4. Replaced(I.args, x, a) = I.args
  BY <1>1, <1>2, <1>3
<1>5. QED
  BY <1>4 DEF Rewired

LEMMA GoodRewired ==
  ASSUME NEW b, NEW src, Good(b, src), NEW i \in 1 .. Len(b), NEW x, NEW a,
         a = Value(x) \/ \A j \in 1 .. Len(b[i].args) : b[i].args[j] # Value(x)
  PROVE  Rewired(b[i], x, a) = b[i]
<1> DEFINE I == b[i]
<1>1. I = Inst(I.id, I.op, I.w, I.args) /\ IsSeq(I.args)
  BY DEF Good, GoodInst
<1>2. a = Value(x) \/ \A j \in 1 .. Len(I.args) : I.args[j] # Value(x)
  OBVIOUS
<1> HIDE DEF I
<1>3. Rewired(I, x, a) = I
  BY <1>1, <1>2, RewiredSame
<1>4. QED
  BY <1>3 DEF I

\* Code in front of which there are k - 1 instructions of b.
CodeTyped(b, k, code) ==
  \A i \in 1 .. Len(code) :
    /\ Shaped(code[i])
    /\ \A j \in 1 .. Len(code[i].args) :
         Fed(b, k - 1, code[i].args[j], code[i]) \/ Fed(code, i - 1, code[i].args[j], code[i])

\* a may stand for the value of I: wherever there is code, and all of it if a is not
\* made by I's own instruction.
Stands(b, k, code, a, I) ==
  IF IsConst(a) THEN IsIntegerTy(I) /\ InWord(a.n, I.w)
  ELSE \/ \E i \in 1 .. k - 1 : b[i].id = a.n /\ IsIntegerTy(b[i]) /\ IsIntegerTy(I) /\ b[i].w = I.w
       \/ \E i \in 1 .. Len(code) :
            /\ code[i].id = a.n /\ code[i].w = I.w
            /\ code[i].op = I.op \/ (IsIntegerTy(code[i]) /\ IsIntegerTy(I))

LEMMA StandsGives ==
  ASSUME NEW P, NEW Q, NEW I, Gives(P, I), Q.w = P.w, Q.op = P.op \/ (IsIntegerTy(Q) /\ IsIntegerTy(P))
  PROVE  Gives(Q, I)
BY DEF Gives, IsIntegerTy, Binary, Calls, Terminators

LEMMA EditTyped ==
  ASSUME NEW b, NEW c, NEW src, Good(b, src), WellTyped(b), NEW k \in 1 .. Len(b), NEW core, IsSeq(core),
         NEW a, Edited(b, c, k, core, b[k].id, a), CodeTyped(b, k, core), Stands(b, k, core, a, b[k])
  PROVE  WellTyped(c)
<1> DEFINE x == b[k].id
           n == Len(core)
<1>1. Len(b) \in Nat /\ n \in Nat /\ \A i \in 1 .. Len(b) : IsSeq(b[i].args)
  BY DEF Good, GoodInst, IsSeq
<1>2. /\ Len(c) = Len(b) - 1 + n
      /\ \A i \in 1 .. k - 1 : c[i] = b[i]
      /\ \A i \in 1 .. n : c[k - 1 + i] = core[i]
      /\ \A i \in k + 1 .. Len(b) : c[i - 1 + n] = Rewired(b[i], x, a)
  BY DEF Edited
<1> HIDE DEF n
<1>3. ASSUME NEW q \in 1 .. Len(c), q < k
      PROVE  Shaped(c[q]) /\ \A j \in 1 .. Len(c[q].args) : Fed(c, q - 1, c[q].args[j], c[q])
  <2>1. q \in 1 .. k - 1 /\ q \in 1 .. Len(b) /\ \A i \in 1 .. q - 1 : i \in 1 .. k - 1
    BY <1>1, <1>3
  <2>2. c[q] = b[q] /\ \A i \in 1 .. q - 1 : c[i] = b[i]
    BY <1>2, <2>1
  <2>3. Shaped(b[q]) /\ \A j \in 1 .. Len(b[q].args) : Fed(b, q - 1, b[q].args[j], b[q])
    BY <2>1 DEF WellTyped
  <2>4. ASSUME NEW z, Fed(b, q - 1, z, b[q]) PROVE Fed(c, q - 1, z, b[q])
    BY <2>2, <2>4 DEF Fed
  <2>5. QED
    BY <2>2, <2>3, <2>4
<1>4. ASSUME NEW i \in 1 .. n
      PROVE  /\ Shaped(c[k - 1 + i])
             /\ \A j \in 1 .. Len(c[k - 1 + i].args) :
                  Fed(c, (k - 1 + i) - 1, c[k - 1 + i].args[j], c[k - 1 + i])
  <2>1. c[k - 1 + i] = core[i]
    BY <1>2
  <2>2. ASSUME NEW z, Fed(b, k - 1, z, core[i]) PROVE Fed(c, (k - 1 + i) - 1, z, core[i])
    <3>1. \A l \in 1 .. k - 1 : l \in 1 .. (k - 1 + i) - 1 /\ c[l] = b[l]
      BY <1>1, <1>2
    <3>2. QED
      BY <2>2, <3>1 DEF Fed
  <2>3. ASSUME NEW z, Fed(core, i - 1, z, core[i]) PROVE Fed(c, (k - 1 + i) - 1, z, core[i])
    <3>1. \A l \in 1 .. i - 1 : l \in 1 .. n /\ k - 1 + l \in 1 .. (k - 1 + i) - 1
      BY <1>1
    <3>2. \A l \in 1 .. i - 1 : k - 1 + l \in 1 .. (k - 1 + i) - 1 /\ c[k - 1 + l] = core[l]
      BY <1>2, <3>1
    <3>3. QED
      BY <2>3, <3>2 DEF Fed
  <2>4. Shaped(core[i]) /\ \A j \in 1 .. Len(core[i].args) :
          Fed(b, k - 1, core[i].args[j], core[i]) \/ Fed(core, i - 1, core[i].args[j], core[i])
    BY DEF CodeTyped, n
  <2>5. QED
    BY <2>1, <2>2, <2>3, <2>4
<1>5. ASSUME NEW i \in k + 1 .. Len(b)
      PROVE  /\ Shaped(c[i - 1 + n])
             /\ \A j \in 1 .. Len(c[i - 1 + n].args) :
                  Fed(c, (i - 1 + n) - 1, c[i - 1 + n].args[j], c[i - 1 + n])
  <2> DEFINE I == b[i]
             J == c[i - 1 + n]
  <2>1. i \in 1 .. Len(b) /\ J = Rewired(I, x, a)
    BY <1>1, <1>2
  <2>2. /\ J.id = I.id /\ J.op = I.op /\ J.w = I.w /\ Len(J.args) = Len(I.args)
        /\ \A j \in 1 .. Len(I.args) : J.args[j] = IF I.args[j] = Value(x) THEN a ELSE I.args[j]
    <3>1. IsSeq(I.args)
      BY <1>1, <2>1
    <3> HIDE DEF I, J, x
    <3>2. /\ J.id = I.id /\ J.op = I.op /\ J.w = I.w
          /\ IsSeq(J.args) /\ Len(J.args) = Len(I.args)
          /\ \A j \in 1 .. Len(I.args) : J.args[j] = IF I.args[j] = Value(x) THEN a ELSE I.args[j]
      BY <2>1, <3>1, RewiredIs
    <3>3. QED
      BY <3>2
  <2>3. Shaped(I) /\ \A j \in 1 .. Len(I.args) : Fed(b, i - 1, I.args[j], I)
    BY <2>1 DEF WellTyped
  <2>4. Shaped(J)
    BY <2>2, <2>3 DEF Shaped
  <2>5. ASSUME NEW l \in 1 .. i - 1, l # k
        PROVE  \E m \in 1 .. (i - 1 + n) - 1 : c[m].id = b[l].id /\ c[m].op = b[l].op /\ c[m].w = b[l].w
    <3>1. CASE l < k
      <4>1. l \in 1 .. k - 1 /\ l \in 1 .. (i - 1 + n) - 1
        BY <1>1, <3>1
      <4>2. QED
        BY <1>2, <4>1
    <3>2. CASE ~(l < k)
      <4>1. l \in k + 1 .. Len(b) /\ l \in 1 .. Len(b) /\ l - 1 + n \in 1 .. (i - 1 + n) - 1
        BY <1>1, <2>5, <3>2
      <4>2. c[l - 1 + n] = Rewired(b[l], x, a)
        BY <1>2, <4>1
      <4>3. c[l - 1 + n].id = b[l].id /\ c[l - 1 + n].op = b[l].op /\ c[l - 1 + n].w = b[l].w
        BY <4>2 DEF Rewired, Inst
      <4>4. QED
        BY <4>1, <4>3
    <3>3. QED
      BY <3>1, <3>2
  <2>6. ASSUME NEW j \in 1 .. Len(I.args), I.args[j] # Value(x) PROVE Fed(c, (i - 1 + n) - 1, I.args[j], J)
    <3>1. Fed(b, i - 1, I.args[j], I)
      BY <2>3
    <3>2. CASE IsConst(I.args[j])
      BY <2>2, <3>1, <3>2 DEF Fed
    <3>3. CASE ~IsConst(I.args[j])
      <4>1. PICK l \in 1 .. i - 1 : b[l].id = I.args[j].n /\ Gives(b[l], I)
        BY <3>1, <3>3 DEF Fed
      <4>2. l # k
        <5>1. IsOperand(I.args[j])
          BY <2>1 DEF Good, GoodInst
        <5>2. I.args[j] = Value(I.args[j].n)
          BY <3>3, <5>1, OperandIs
        <5>3. QED
          BY <2>6, <4>1, <5>2
      <4>3. PICK m \in 1 .. (i - 1 + n) - 1 : c[m].id = b[l].id /\ c[m].op = b[l].op /\ c[m].w = b[l].w
        BY <2>5, <4>2
      <4>4. Gives(c[m], J)
        BY <2>2, <4>1, <4>3, GivesSame
      <4>5. QED
        BY <3>3, <4>1, <4>3, <4>4 DEF Fed
    <3>4. QED
      BY <3>2, <3>3
  <2>7. ASSUME NEW j \in 1 .. Len(I.args), I.args[j] = Value(x) PROVE Fed(c, (i - 1 + n) - 1, a, J)
    <3>1. Gives(b[k], I)
      <4>1. ~IsConst(Value(x)) /\ Value(x).n = x
        BY OperandSorts
      <4>2. PICK l \in 1 .. i - 1 : b[l].id = x /\ Gives(b[l], I)
        BY <2>3, <2>7, <4>1 DEF Fed
      <4>3. l \in 1 .. Len(b)
        BY <1>1
      <4>4. l = k
        BY <4>2, <4>3 DEF Good, Distinct
      <4>5. QED
        BY <4>2, <4>4
    <3>2. CASE IsConst(a)
      <4>1. IsIntegerTy(b[k]) /\ InWord(a.n, b[k].w)
        BY <3>2 DEF Stands
      <4>2. b[k].w = I.w
        BY <3>1, <4>1 DEF Gives
      <4>3. QED
        BY <2>2, <3>2, <4>1, <4>2 DEF Fed
    <3>3. CASE ~IsConst(a)
      <4>1. \/ \E l \in 1 .. k - 1 : b[l].id = a.n /\ IsIntegerTy(b[l]) /\ IsIntegerTy(b[k]) /\ b[l].w = b[k].w
            \/ \E l \in 1 .. n :
                 /\ core[l].id = a.n /\ core[l].w = b[k].w
                 /\ core[l].op = b[k].op \/ (IsIntegerTy(core[l]) /\ IsIntegerTy(b[k]))
        BY <3>3 DEF Stands, n
      <4>2. \E Q : Q.w = b[k].w /\ (Q.op = b[k].op \/ (IsIntegerTy(Q) /\ IsIntegerTy(b[k])))
                   /\ \E m \in 1 .. (i - 1 + n) - 1 : c[m] = Q /\ Q.id = a.n
        <5>1. CASE \E l \in 1 .. k - 1 : b[l].id = a.n /\ IsIntegerTy(b[l]) /\ IsIntegerTy(b[k]) /\ b[l].w = b[k].w
          <6>1. PICK l \in 1 .. k - 1 : b[l].id = a.n /\ IsIntegerTy(b[l]) /\ IsIntegerTy(b[k]) /\ b[l].w = b[k].w
            BY <5>1
          <6>2. l \in 1 .. (i - 1 + n) - 1 /\ c[l] = b[l]
            BY <1>1, <1>2
          <6>3. QED
            BY <6>1, <6>2
        <5>2. CASE \E l \in 1 .. n : /\ core[l].id = a.n /\ core[l].w = b[k].w
                                     /\ core[l].op = b[k].op \/ (IsIntegerTy(core[l]) /\ IsIntegerTy(b[k]))
          <6>1. PICK l \in 1 .. n : /\ core[l].id = a.n /\ core[l].w = b[k].w
                                    /\ core[l].op = b[k].op \/ (IsIntegerTy(core[l]) /\ IsIntegerTy(b[k]))
            BY <5>2
          <6>2. k - 1 + l \in 1 .. (i - 1 + n) - 1 /\ c[k - 1 + l] = core[l]
            BY <1>1, <1>2
          <6>3. QED
            BY <6>1, <6>2
        <5>3. QED
          BY <4>1, <5>1, <5>2
      <4>3. PICK Q : /\ Q.w = b[k].w /\ (Q.op = b[k].op \/ (IsIntegerTy(Q) /\ IsIntegerTy(b[k])))
                     /\ \E m \in 1 .. (i - 1 + n) - 1 : c[m] = Q /\ Q.id = a.n
        BY <4>2
      <4>4. Gives(Q, I)
        BY <3>1, <4>3, StandsGives
      <4>5. Gives(Q, J)
        BY <2>2, <4>4, GivesSame
      <4>6. QED
        BY <3>3, <4>3, <4>5 DEF Fed
    <3>4. QED
      BY <3>2, <3>3
  <2> HIDE DEF I, J, x
  <2>8. \A j \in 1 .. Len(J.args) : Fed(c, (i - 1 + n) - 1, J.args[j], J)
    BY <2>2, <2>6, <2>7
  <2>9. QED
    BY <2>4, <2>8 DEF J
<1>6. ASSUME NEW q \in 1 .. Len(c)
      PROVE  Shaped(c[q]) /\ \A j \in 1 .. Len(c[q].args) : Fed(c, q - 1, c[q].args[j], c[q])
  <2>1. CASE q < k
    BY <1>3, <2>1
  <2>2. CASE ~(q < k) /\ q < k + n
    <3>1. q - k + 1 \in 1 .. n /\ k - 1 + (q - k + 1) = q
      BY <1>1, <1>2, <2>2
    <3>2. QED
      BY <1>4, <3>1
  <2>3. CASE ~(q < k) /\ ~(q < k + n)
    <3>1. q + 1 - n \in k + 1 .. Len(b) /\ (q + 1 - n) - 1 + n = q
      BY <1>1, <1>2, <2>3
    <3>2. QED
      BY <1>5, <3>1
  <2>4. QED
    BY <2>1, <2>2, <2>3
<1>7. QED
  BY <1>6 DEF WellTyped

(* The edits the passes make.                                              *)
LEMMA InsertEdited ==
  ASSUME NEW b, NEW src, Good(b, src), NEW k \in 1 .. Len(b), NEW new, IsSeq(new)
  PROVE  LET core == Append(new, b[k])
         IN  /\ IsSeq(core) /\ Len(core) = Len(new) + 1 /\ core[Len(new) + 1] = b[k]
             /\ \A i \in 1 .. Len(new) : core[i] = new[i]
             /\ Edited(b, Before(b, k, new), k, core, b[k].id, Value(b[k].id))
<1> DEFINE core == Append(new, b[k])
           c == Before(b, k, new)
           n == Len(new)
           x == b[k].id
<1>1. IsSeq(b) /\ Len(b) \in Nat /\ n \in Nat /\ \A i \in 1 .. Len(b) : GoodInst(b[i], src)
  BY DEF Good, IsSeq
<1>2. IsSeq(core) /\ Len(core) = n + 1 /\ core[n + 1] = b[k] /\ \A i \in 1 .. n : core[i] = new[i]
  BY AppendIs
<1>3. /\ IsSeq(c) /\ Len(c) = Len(b) + n
      /\ \A i \in 1 .. k - 1 : c[i] = b[i]
      /\ \A i \in 1 .. n : c[k - 1 + i] = new[i]
      /\ \A i \in k .. Len(b) : c[i + n] = b[i]
  BY <1>1, BeforeIs
<1> HIDE DEF core, c, n
<1>4. ASSUME NEW i \in 1 .. n + 1 PROVE c[k - 1 + i] = core[i]
  <2>1. CASE i \in 1 .. n
    BY <1>2, <1>3, <2>1
  <2>2. CASE i = n + 1
    <3>1. k \in k .. Len(b) /\ k - 1 + i = k + n
      BY <1>1, <2>2
    <3>2. QED
      BY <1>2, <1>3, <2>2, <3>1
  <2>3. QED
    BY <1>1, <2>1, <2>2
<1>5. ASSUME NEW i \in k + 1 .. Len(b) PROVE c[i - 1 + (n + 1)] = Rewired(b[i], x, Value(x))
  <2>1. i \in k .. Len(b) /\ i \in 1 .. Len(b) /\ i - 1 + (n + 1) = i + n
    BY <1>1
  <2>2. Rewired(b[i], x, Value(x)) = b[i]
    BY <2>1, GoodRewired
  <2>3. QED
    BY <1>3, <2>1, <2>2
<1>6. Len(c) = Len(b) - 1 + (n + 1)
  BY <1>1, <1>3
<1>7. Edited(b, c, k, core, x, Value(x))
  BY <1>2, <1>3, <1>4, <1>5, <1>6 DEF Edited
<1>8. QED
  BY <1>2, <1>7 DEF c, core, n

\* An instruction does not use its own value, nor does one in front of it.
LEMMA UsedBehind ==
  ASSUME NEW b, NEW src, Good(b, src), NEW k \in 1 .. Len(b), NEW i \in 1 .. k
  PROVE  \A j \in 1 .. Len(b[i].args) : b[i].args[j] # Value(b[k].id)
<1> SUFFICES ASSUME NEW j \in 1 .. Len(b[i].args), b[i].args[j] = Value(b[k].id) PROVE FALSE
  OBVIOUS
<1>1. i \in 1 .. Len(b) /\ Len(b) \in Nat
  BY DEF Good, IsSeq
<1>2. ~IsConst(b[i].args[j]) /\ b[i].args[j].n = b[k].id
  BY OperandSorts
<1>3. Defined(b, i, b[k].id)
  BY <1>1, <1>2 DEF Good, UsesDefined
<1>4. PICK l \in 1 .. i - 1 : b[l].id = b[k].id
  BY <1>3 DEF Defined
<1>5. l \in 1 .. Len(b) /\ l # k
  BY <1>1
<1>6. QED
  BY <1>4, <1>5 DEF Good, Distinct

LEMMA NewUnused ==
  ASSUME NEW b, NEW src, Good(b, src), NEW k \in 1 .. Len(b), NEW new, NewCode(b, k, new)
  PROVE  Unused(new, b[k].id)
<1> SUFFICES ASSUME NEW i \in 1 .. Len(new), NEW j \in 1 .. Len(new[i].args),
                    new[i].args[j] = Value(b[k].id)
             PROVE  FALSE
  BY DEF Unused
<1>1. Len(b) \in Nat /\ Len(new) \in Nat
  BY DEF Good, NewCode, IsSeq
<1>2. ~IsConst(new[i].args[j]) /\ new[i].args[j].n = b[k].id
  BY OperandSorts
<1>3. Defined(b, k, b[k].id) \/ Defined(new, i, b[k].id)
  BY <1>2 DEF NewCode
<1>4. ~Defined(b, k, b[k].id)
  BY <1>1 DEF Good, Distinct, Defined
<1>5. ~Defined(new, i, b[k].id)
  <2>1. \A l \in 1 .. i - 1 : l \in 1 .. Len(new)
    BY <1>1
  <2>2. QED
    BY <2>1 DEF NewCode, Defined
<1>6. QED
  BY <1>3, <1>4, <1>5

\* New code in front of the k-th instruction, and its value replaced by a.
LEMMA SupersedeEdited ==
  ASSUME NEW b, NEW src, Good(b, src), NEW k \in 1 .. Len(b), b[k].op # "phi", NEW new, NewCode(b, k, new),
         NEW a
  PROVE  LET r == replaceAllUsesWith(Before(b, k, new), b[k].id, a)
             core == Append(new, b[k])
         IN  /\ IsSeq(new) /\ IsSeq(core) /\ Len(core) = Len(new) + 1 /\ core[Len(new) + 1] = b[k]
             /\ \A i \in 1 .. Len(new) : core[i] = new[i]
             /\ Edited(b, r, k, core, b[k].id, a)
             /\ k + Len(new) \in 1 .. Len(r)
             /\ IsSeq(r) => Edited(b, RemoveAt(r, k + Len(new)), k, new, b[k].id, a)
<1> DEFINE core == Append(new, b[k])
           c == Before(b, k, new)
           x == b[k].id
           r == replaceAllUsesWith(c, x, a)
           n == Len(new)
           q == k + n
           e == RemoveAt(r, q)
<1>1. /\ IsSeq(b) /\ IsSeq(new) /\ Len(b) \in Nat /\ n \in Nat
      /\ \A i \in 1 .. Len(b) : GoodInst(b[i], src)
      /\ \A i \in 1 .. n : NewInst(new[i])
  BY DEF Good, NewCode, IsSeq
<1>2. IsSeq(core) /\ Len(core) = n + 1 /\ core[n + 1] = b[k] /\ \A i \in 1 .. n : core[i] = new[i]
  BY <1>1, AppendIs
<1>3. /\ IsSeq(c) /\ Len(c) = Len(b) + n
      /\ \A i \in 1 .. k - 1 : c[i] = b[i]
      /\ \A i \in 1 .. n : c[k - 1 + i] = new[i]
      /\ \A i \in k .. Len(b) : c[i + n] = b[i]
  BY <1>1, BeforeIs
<1>4. Good(c, src)
  BY <1>1, InsertGood
<1> HIDE DEF core, c, n
<1>5. IsSeq(r) /\ Len(r) = Len(c) /\ \A i \in 1 .. Len(c) : r[i] = Rewired(c[i], x, a)
  <2> HIDE DEF x
  <2>1. /\ IsSeq(r) /\ Len(r) = Len(c)
        /\ \A i \in 1 .. Len(c) : r[i] = Inst(c[i].id, c[i].op, c[i].w, Replaced(c[i].args, x, a))
    BY <1>4, ReplaceIs
  <2>2. QED
    BY <2>1 DEF Rewired
<1> HIDE DEF r
<1>6. ASSUME NEW i \in 1 .. k - 1 PROVE r[i] = b[i]
  <2>1. i \in 1 .. Len(c) /\ i \in 1 .. k /\ i \in 1 .. Len(b)
    BY <1>1, <1>3
  <2>2. \A j \in 1 .. Len(b[i].args) : b[i].args[j] # Value(x)
    BY <2>1, UsedBehind
  <2>3. Rewired(b[i], x, a) = b[i]
    BY <2>1, <2>2, GoodRewired
  <2>4. QED
    BY <1>3, <1>5, <2>1, <2>3
<1>7. ASSUME NEW i \in 1 .. n PROVE r[k - 1 + i] = core[i]
  <2>1. k - 1 + i \in 1 .. Len(c)
    <3>1. Len(c) = Len(b) + n /\ n \in Nat /\ Len(b) \in Nat
      BY <1>1, <1>3
    <3>2. QED
      BY <3>1
  <2>2. \A j \in 1 .. Len(new[i].args) : new[i].args[j] # Value(x)
    BY NewUnused DEF Unused, n
  <2>3. Rewired(new[i], x, a) = new[i]
    <3>1. NewInst(new[i])
      BY <1>1
    <3> HIDE DEF x
    <3>2. QED
      BY <2>2, <3>1, RewiredSame DEF NewInst
  <2>4. QED
    BY <1>2, <1>3, <1>5, <2>1, <2>3
<1>8. ASSUME NEW i \in k .. Len(b) PROVE r[i + n] = Rewired(b[i], x, a)
  <2>1. i + n \in 1 .. Len(c)
    BY <1>1, <1>3
  <2>2. QED
    BY <1>3, <1>5, <2>1
<1>9. r[k + n] = b[k]
  <2>1. k \in k .. Len(b) /\ k \in 1 .. k
    BY <1>1
  <2>2. \A j \in 1 .. Len(b[k].args) : b[k].args[j] # Value(x)
    BY <2>1, UsedBehind
  <2>3. Rewired(b[k], x, a) = b[k]
    BY <2>2, GoodRewired
  <2>4. QED
    BY <1>8, <2>1, <2>3
<1> HIDE DEF x
<1>10. Edited(b, r, k, core, x, a)
  <2>1. ASSUME NEW i \in 1 .. n + 1 PROVE r[k - 1 + i] = core[i]
    <3>1. CASE i \in 1 .. n
      BY <1>7, <3>1
    <3>2. CASE i = n + 1
      <4>1. k - 1 + i = k + n
        BY <1>1, <3>2
      <4>2. QED
        BY <1>2, <1>9, <3>2, <4>1
    <3>3. QED
      BY <1>1, <3>1, <3>2
  <2>2. ASSUME NEW i \in k + 1 .. Len(b) PROVE r[i - 1 + (n + 1)] = Rewired(b[i], x, a)
    <3>1. i \in k .. Len(b) /\ i - 1 + (n + 1) = i + n
      BY <1>1
    <3>2. QED
      BY <1>8, <3>1
  <2>3. Len(r) = Len(b) - 1 + (n + 1)
    BY <1>1, <1>3, <1>5
  <2>4. QED
    BY <1>2, <1>6, <2>1, <2>2, <2>3 DEF Edited
<1>11. q \in 1 .. Len(r)
  BY <1>1, <1>3, <1>5
<1>12. /\ IsSeq(e) /\ Len(e) = Len(r) - 1
       /\ \A i \in 1 .. q - 1 : e[i] = r[i]
       /\ \A i \in q .. Len(r) - 1 : e[i] = r[i + 1]
  <2> HIDE DEF q
  <2>1. QED
    BY <1>5, <1>11, RemoveAtIs
<1> HIDE DEF e
<1>13. Edited(b, e, k, new, x, a)
  <2>1. Len(e) = Len(b) - 1 + n
    BY <1>1, <1>3, <1>5, <1>12
  <2>2. \A i \in 1 .. k - 1 : i \in 1 .. q - 1 /\ e[i] = b[i]
    BY <1>1, <1>6, <1>12
  <2>3. ASSUME NEW i \in 1 .. n PROVE e[k - 1 + i] = new[i]
    <3>1. k - 1 + i \in 1 .. q - 1
      BY <1>1
    <3>2. QED
      BY <1>2, <1>7, <1>12, <3>1
  <2>4. ASSUME NEW i \in k + 1 .. Len(b) PROVE e[i - 1 + n] = Rewired(b[i], x, a)
    <3>1. i - 1 + n \in q .. Len(r) - 1 /\ (i - 1 + n) + 1 = i + n /\ i \in k .. Len(b)
      BY <1>1, <1>3, <1>5
    <3>2. e[i - 1 + n] = r[i + n]
      BY <1>12, <3>1
    <3>3. QED
      BY <1>8, <3>1, <3>2
  <2>5. QED
    BY <2>1, <2>2, <2>3, <2>4 DEF Edited, n
<1>14. QED
  BY <1>1, <1>2, <1>10, <1>11, <1>13 DEF r, c, core, x, n, q, e

\* An instruction erased that nothing uses.
LEMMA EraseEdited ==
  ASSUME NEW b, NEW src, Good(b, src), NEW k \in 1 .. Len(b), Unused(b, b[k].id), NEW a
  PROVE  Edited(b, RemoveAt(b, k), k, <<>>, b[k].id, a)
<1> DEFINE c == RemoveAt(b, k)
<1>1. IsSeq(b) /\ Len(b) \in Nat /\ \A i \in 1 .. Len(b) : GoodInst(b[i], src)
  BY DEF Good, IsSeq
<1>2. /\ IsSeq(c) /\ Len(c) = Len(b) - 1
      /\ \A i \in 1 .. k - 1 : c[i] = b[i]
      /\ \A i \in k .. Len(b) - 1 : c[i] = b[i + 1]
  BY <1>1, RemoveAtIs
<1>3. Len(<<>>) = 0
  BY EmptyIs
<1> HIDE DEF c
<1>4. ASSUME NEW i \in k + 1 .. Len(b) PROVE c[i - 1 + 0] = Rewired(b[i], b[k].id, a)
  <2>1. i \in 1 .. Len(b) /\ i - 1 \in k .. Len(b) - 1 /\ (i - 1) + 1 = i /\ i - 1 + 0 = i - 1
    BY <1>1
  <2>2. Rewired(b[i], b[k].id, a) = b[i]
    BY <2>1, GoodRewired DEF Unused
  <2>3. c[i - 1] = b[(i - 1) + 1]
    BY <1>2, <2>1
  <2>4. QED
    BY <2>1, <2>2, <2>3
<1>5. Len(c) = Len(b) - 1 + 0
  BY <1>1, <1>2
<1>6. Edited(b, c, k, <<>>, b[k].id, a)
  <2>1. \A i \in 1 .. 0 : FALSE
    OBVIOUS
  <2>2. QED
    BY <1>2, <1>3, <1>4, <1>5, <2>1 DEF Edited
<1>7. QED
  BY <1>6 DEF c

(* A block running: the states it goes through.                            *)
Going(r, s, b, input, n) ==
  r = [k \in 0 .. n |-> IF k = 0 THEN s ELSE Exec(r[k - 1], b[k], input)]

LEMMA GoingExists ==
  ASSUME NEW s, NEW b, NEW input, NEW n \in Nat
  PROVE  \E r : Going(r, s, b, input, n)
<1> DEFINE Bad == {m \in Nat : ~\E r : Going(r, s, b, input, m)}
<1>1. SUFFICES ASSUME Bad # {} PROVE FALSE
  OBVIOUS
<1>2. PICK m \in Bad : \A k \in Bad : ~(k < m)
  <2>1. Bad \subseteq Nat
    OBVIOUS
  <2> HIDE DEF Bad
  <2>2. QED
    BY <1>1, <2>1, Least
<1>3. m # 0
  <2> DEFINE r == [k \in 0 .. 0 |-> s]
  <2>1. Going(r, s, b, input, 0)
    BY DEF Going
  <2>2. QED
    BY <1>2, <2>1
<1>4. m - 1 \in Nat /\ m - 1 < m /\ m \in Nat
  BY <1>2, <1>3
<1>5. PICK r : Going(r, s, b, input, m - 1)
  BY <1>2, <1>4
<1> DEFINE g == [k \in 0 .. m |-> IF k < m THEN r[k] ELSE Exec(r[m - 1], b[m], input)]
<1>6. ASSUME NEW k \in 0 .. m PROVE g[k] = IF k = 0 THEN s ELSE Exec(g[k - 1], b[k], input)
  <2>1. CASE k < m
    <3>1. k \in 0 .. m - 1 /\ g[k] = r[k]
      BY <1>4, <2>1
    <3>2. r[k] = IF k = 0 THEN s ELSE Exec(r[k - 1], b[k], input)
      BY <1>5, <3>1 DEF Going
    <3>3. k # 0 => k - 1 \in 0 .. m /\ k - 1 < m
      BY <1>4, <2>1
    <3>4. k # 0 => g[k - 1] = r[k - 1]
      BY <3>3
    <3> HIDE DEF g
    <3>5. QED
      BY <3>1, <3>2, <3>4
  <2>2. CASE k = m
    <3>1. m - 1 \in 0 .. m /\ m - 1 < m /\ m \in 0 .. m /\ ~(m < m)
      BY <1>4
    <3>2. g[m] = Exec(r[m - 1], b[m], input) /\ g[m - 1] = r[m - 1]
      BY <3>1
    <3> HIDE DEF g
    <3>3. QED
      BY <1>3, <2>2, <3>2
  <2>3. QED
    BY <1>4, <2>1, <2>2
<1>7. g = [k \in 0 .. m |-> g[k]]
  OBVIOUS
<1>8. Going(g, s, b, input, m)
  <2> HIDE DEF g
  <2>1. QED
    BY <1>6, <1>7 DEF Going
<1>9. QED
  BY <1>2, <1>8

Steps(r, s, b, input) ==
  r[0] = s /\ \A k \in 1 .. Len(b) : r[k] = Exec(r[k - 1], b[k], input)

LEMMA RanIs ==
  ASSUME NEW s, NEW b, IsSeq(b), NEW input
  PROVE  Steps(Ran(s, b, input), s, b, input)
<1> DEFINE n == Len(b)
           r == CHOOSE r : Going(r, s, b, input, n)
<1>1. n \in Nat
  BY DEF IsSeq
<1>2. Going(r, s, b, input, n)
  BY <1>1, GoingExists
<1>3. Ran(s, b, input) = r
  BY DEF Ran, Going
<1> HIDE DEF r, n
<1>4. \A k \in 0 .. n : r[k] = IF k = 0 THEN s ELSE Exec(r[k - 1], b[k], input)
  BY <1>2 DEF Going
<1>5. 0 \in 0 .. n /\ \A k \in 1 .. n : k \in 0 .. n /\ k # 0
  BY <1>1
<1>6. QED
  BY <1>3, <1>4, <1>5 DEF Steps, n

\* The state behind the code.
After(s, code, input) == Ran(s, code, input)[Len(code)]

\* The code d in the midst of c.
Part(d, c, m) == m + Len(d) <= Len(c) /\ \A i \in 1 .. Len(d) : c[m + i] = d[i]
RanAlong(s, c, d, input, m) ==
  \A i \in 0 .. Len(d) : Ran(s, c, input)[m + i] = Ran(Ran(s, c, input)[m], d, input)[i]

LEMMA RanWithin ==
  ASSUME NEW s, NEW c, IsSeq(c), NEW d, IsSeq(d), NEW input, NEW m \in Nat, Part(d, c, m)
  PROVE  RanAlong(s, c, d, input, m)
<1> DEFINE f == Ran(s, c, input)
           g == Ran(f[m], d, input)
           Bad == {i \in 0 .. Len(d) : f[m + i] # g[i]}
<1>1. SUFFICES ASSUME Bad # {} PROVE FALSE
  BY DEF RanAlong
<1>2. PICK i \in Bad : \A k \in Bad : ~(k < i)
  <2>1. Bad \subseteq Nat
    OBVIOUS
  <2> HIDE DEF Bad
  <2>2. QED
    BY <1>1, <2>1, Least
<1>3. /\ Len(d) \in Nat /\ Len(c) \in Nat /\ i \in 0 .. Len(d) /\ f[m + i] # g[i]
      /\ m + Len(d) <= Len(c) /\ \A k \in 1 .. Len(d) : c[m + k] = d[k]
  BY <1>2 DEF IsSeq, Part
<1>4. f[0] = s /\ \A k \in 1 .. Len(c) : f[k] = Exec(f[k - 1], c[k], input)
  BY RanIs DEF Steps
<1>5. g[0] = f[m] /\ \A k \in 1 .. Len(d) : g[k] = Exec(g[k - 1], d[k], input)
  <2>1. Steps(g, f[m], d, input)
    BY RanIs
  <2> HIDE DEF f, g
  <2>2. QED
    BY <2>1 DEF Steps
<1>6. \A k \in 0 .. Len(d) : k < i => f[m + k] = g[k]
  BY <1>2
<1> HIDE DEF f, g, Bad
<1>7. i # 0
  BY <1>3, <1>5
<1>8. i \in 1 .. Len(d) /\ m + i \in 1 .. Len(c) /\ (m + i) - 1 = m + (i - 1) /\ i - 1 \in 0 .. Len(d) /\ i - 1 < i
  <2>1. i \in Nat /\ i # 0 /\ i <= Len(d)
    BY <1>3, <1>7
  <2>2. i \in 1 .. Len(d) /\ i - 1 \in 0 .. Len(d) /\ i - 1 < i
    BY <1>3, <2>1
  <2>3. m + i \in 1 .. Len(c) /\ (m + i) - 1 = m + (i - 1)
    BY <1>3, <2>1
  <2>4. QED
    BY <2>2, <2>3
<1>9. f[m + i] = Exec(f[m + (i - 1)], d[i], input) /\ f[m + (i - 1)] = g[i - 1]
  BY <1>3, <1>4, <1>6, <1>8
<1>10. g[i] = Exec(g[i - 1], d[i], input)
  BY <1>5, <1>8
<1>11. QED
  BY <1>3, <1>9, <1>10

LEMMA AfterNone ==
  ASSUME NEW s, NEW input
  PROVE  After(s, <<>>, input) = s
BY EmptyIs, RanIs DEF After, Steps

LEMMA AfterAppend ==
  ASSUME NEW s, NEW code, IsSeq(code), NEW I, NEW input
  PROVE  After(s, Append(code, I), input) = Exec(After(s, code, input), I, input)
<1> DEFINE c == Append(code, I)
           n == Len(code)
<1>1. IsSeq(c) /\ Len(c) = n + 1 /\ c[n + 1] = I /\ (\A i \in 1 .. n : c[i] = code[i]) /\ n \in Nat
  BY AppendIs DEF IsSeq
<1> HIDE DEF c
<1>2. Steps(Ran(s, c, input), s, c, input)
  BY <1>1, RanIs
<1>3. Ran(s, c, input)[n] = Ran(s, code, input)[n]
  <2> DEFINE z == 0
  <2>1. z \in Nat /\ IsSeq(c) /\ Part(code, c, z)
    BY <1>1 DEF Part
  <2>3. n \in 0 .. Len(code) /\ z + n = n /\ z = 0
    BY <1>1
  <2> HIDE DEF z
  <2>2. RanAlong(s, c, code, input, z)
    BY <2>1, RanWithin
  <2>4. QED
    BY <1>2, <2>2, <2>3 DEF Steps, RanAlong
<1>4. n + 1 \in 1 .. Len(c) /\ (n + 1) - 1 = n
  BY <1>1
<1>5. Ran(s, c, input)[n + 1] = Exec(Ran(s, code, input)[n], I, input)
  BY <1>1, <1>2, <1>3, <1>4 DEF Steps
<1>6. QED
  BY <1>1, <1>5 DEF After, c, n

(* One step of a run.                                                      *)
Updated(g, f, k, v) ==
  /\ DOMAIN g = DOMAIN f \cup {k} /\ g[k] = v
  /\ \A i \in DOMAIN f : i # k => g[i] = f[i]

LEMMA WithIs ==
  ASSUME NEW f, NEW k, NEW v
  PROVE  Updated(With(f, k, v), f, k, v)
<1>1. With(f, k, v) = [i \in DOMAIN f \cup {k} |-> IF i = k THEN v ELSE f[i]]
  BY DEF With
<1>2. QED
  BY <1>1 DEF Updated

ArgValue(s, z) == IF IsConst(z) THEN z.n ELSE s.val[z.n]

LEMMA EvaluatedIs ==
  ASSUME NEW s, NEW args, IsSeq(args)
  PROVE  \A j \in 1 .. Len(args) : Evaluated(s, args)[j] = ArgValue(s, args[j])
<1>1. DOMAIN args = 1 .. Len(args)
  BY SeqIn
<1>2. QED
  BY <1>1 DEF Evaluated, ArgValue

LEMMA EvaluatedSame ==
  ASSUME NEW s, NEW t, NEW args, NEW brgs, IsSeq(args), IsSeq(brgs), Len(brgs) = Len(args),
         \A j \in 1 .. Len(args) : ArgValue(t, brgs[j]) = ArgValue(s, args[j])
  PROVE  Evaluated(t, brgs) = Evaluated(s, args)
<1>1. DOMAIN args = 1 .. Len(args) /\ DOMAIN brgs = 1 .. Len(args)
  BY SeqIn
<1>2. /\ Evaluated(s, args) = [j \in 1 .. Len(args) |-> ArgValue(s, args[j])]
      /\ Evaluated(t, brgs) = [j \in 1 .. Len(args) |-> ArgValue(t, brgs[j])]
  BY <1>1 DEF Evaluated, ArgValue
<1>3. QED
  BY <1>2

Given(I, input) == IF I.id \in DOMAIN input THEN input[I.id] ELSE 0

\* What I does to s: x are its operands, r is its value.
Effect(s, I, x, r, t) ==
  /\ I.op = "store" => t.val = s.val /\ Updated(t.mem, s.mem, x[2], x[1])
  /\ I.op # "store" => Updated(t.val, s.val, I.id, r) /\ t.mem = s.mem
  /\ t.trace = IF I.op \in Seen THEN Append(s.trace, <<I.op, x>>) ELSE s.trace
  /\ t.reports = IF I.op = "report" THEN Append(s.reports, x[1]) ELSE s.reports
  /\ t.undef = (s.undef \/ (I.op \in Binary /\ Undefined(I.op, x[1], x[2], I.w)))

LEMMA ExecIs ==
  ASSUME NEW s, NEW I, NEW input
  PROVE  LET x == Evaluated(s, I.args)
         IN  Effect(s, I, x, Result(s.mem, I, x, Given(I, input)), Exec(s, I, input))
<1> DEFINE x == Evaluated(s, I.args)
           r == Result(s.mem, I, x, Given(I, input))
           t == Exec(s, I, input)
<1>1. /\ t.val = IF I.op = "store" THEN s.val ELSE With(s.val, I.id, r)
      /\ t.mem = IF I.op = "store" THEN With(s.mem, x[2], x[1]) ELSE s.mem
      /\ t.trace = IF I.op \in Seen THEN Append(s.trace, <<I.op, x>>) ELSE s.trace
      /\ t.reports = IF I.op = "report" THEN Append(s.reports, x[1]) ELSE s.reports
      /\ t.undef = (s.undef \/ (I.op \in Binary /\ Undefined(I.op, x[1], x[2], I.w)))
  BY DEF Exec, Given
<1> HIDE DEF x, r, t
<1>2. Updated(With(s.val, I.id, r), s.val, I.id, r) /\ Updated(With(s.mem, x[2], x[1]), s.mem, x[2], x[1])
  BY WithIs
<1>3. Effect(s, I, x, r, t)
  BY <1>1, <1>2 DEF Effect
<1>4. QED
  BY <1>3 DEF x, r, t

Outcome(op, x, y, w) == IF Undefined(op, x, y, w) THEN 0 ELSE Compute(op, x, y, w)

LEMMA ResultIs ==
  ASSUME NEW mem, NEW I, NEW x, NEW given
  PROVE  LET r == Result(mem, I, x, given)
         IN  /\ I.op \in Binary => r = Outcome(I.op, x[1], x[2], I.w)
             /\ I.op \in {"alloca", "gep"} => r = -I.id
             /\ I.op = "load" /\ x[1] \in DOMAIN mem => r = Trunc(mem[x[1]], I.w)
             /\ I.op = "load" /\ x[1] \notin DOMAIN mem => r = Trunc(given, I.w)
             /\ I.op \notin Binary \cup {"alloca", "gep", "load"} => r = Trunc(given, I.w)
<1>1. "alloca" \notin Binary /\ "gep" \notin Binary /\ "load" \notin Binary
  BY DEF Binary
<1>2. CASE I.op \in Binary
  BY <1>1, <1>2 DEF Result, Outcome
<1>3. CASE I.op \in {"alloca", "gep"}
  BY <1>1, <1>3 DEF Result
<1>4. CASE I.op = "load" /\ x[1] \in DOMAIN mem
  BY <1>1, <1>4 DEF Result
<1>5. CASE I.op = "load" /\ x[1] \notin DOMAIN mem
  BY <1>1, <1>5 DEF Result
<1>6. CASE I.op \notin Binary \cup {"alloca", "gep", "load"}
  BY <1>6 DEF Result
<1>7. QED
  BY <1>1, <1>2, <1>3, <1>4, <1>5, <1>6

\* What the value of an instruction looks like: that of a slot is its address.
Holder(I, v) == IF I.op \in {"alloca", "gep"} THEN v = -I.id ELSE InWord(v, I.w)

LEMMA OutcomeWord ==
  ASSUME NEW op \in Binary, NEW w \in Nat, NEW x, InWord(x, w), NEW y, InWord(y, w)
  PROVE  InWord(Outcome(op, x, y, w), w)
<1>1. InWord(0, w)
  BY Pow2Is DEF InWord
<1>2. QED
  BY <1>1, ComputeWord DEF Outcome

LEMMA ResultHolds ==
  ASSUME NEW mem, \A m \in DOMAIN mem : mem[m] \in Int, NEW I, Shaped(I), NEW x, NEW given \in Int,
         I.op \in Binary => InWord(x[1], I.w) /\ InWord(x[2], I.w)
  PROVE  Holder(I, Result(mem, I, x, given))
<1> DEFINE r == Result(mem, I, x, given)
<1>1. I.w \in Nat
  BY DEF Shaped
<1>2. "alloca" \notin Binary /\ "gep" \notin Binary /\ "load" \notin Binary
  BY DEF Binary
<1>3. InWord(Trunc(given, I.w), I.w) /\ \A m \in DOMAIN mem : InWord(Trunc(mem[m], I.w), I.w)
  BY <1>1, TruncWord
<1>4. /\ I.op \in Binary => r = Outcome(I.op, x[1], x[2], I.w)
      /\ I.op \in {"alloca", "gep"} => r = -I.id
      /\ I.op = "load" /\ x[1] \in DOMAIN mem => r = Trunc(mem[x[1]], I.w)
      /\ I.op = "load" /\ x[1] \notin DOMAIN mem => r = Trunc(given, I.w)
      /\ I.op \notin Binary \cup {"alloca", "gep", "load"} => r = Trunc(given, I.w)
  BY ResultIs
<1> HIDE DEF r
<1>5. I.op \in Binary => InWord(r, I.w)
  BY <1>1, <1>4, OutcomeWord
<1>6. QED
  BY <1>2, <1>3, <1>4, <1>5 DEF Holder, r

\* The state behind the first i instructions of b.
Sound(s, b, i) ==
  /\ \A l \in 1 .. i : b[l].op # "store" => b[l].id \in DOMAIN s.val /\ Holder(b[l], s.val[b[l].id])
  /\ \A n \in DOMAIN s.val : \E l \in 1 .. i : b[l].id = n /\ b[l].op # "store"
  /\ \A m \in DOMAIN s.mem : s.mem[m] \in Int

InputOK(input) == \A n \in DOMAIN input : input[n] \in Nat

\* An operand's value: that of an integer, or the address of the operand itself.
Readable(s, I, z) ==
  /\ IsConst(z) \/ z.n \in DOMAIN s.val
  /\ I.op \in Binary => InWord(ArgValue(s, z), I.w)
  /\ ArgValue(s, z) \in Nat \/ (z = Value(z.n) /\ z.n \in Nat /\ ArgValue(s, z) = -z.n)

LEMMA OperandSound ==
  ASSUME NEW b, NEW src, Good(b, src), WellTyped(b), NEW i \in 1 .. Len(b), NEW s, Sound(s, b, i - 1),
         NEW j \in 1 .. Len(b[i].args)
  PROVE  Readable(s, b[i], b[i].args[j])
<1> DEFINE I == b[i]
           z == I.args[j]
<1>1. Shaped(I) /\ Fed(b, i - 1, z, I) /\ IsOperand(z) /\ Len(b) \in Nat
  BY DEF WellTyped, Good, GoodInst, IsSeq
<1>2. I.w \in Nat
  BY <1>1 DEF Shaped
<1> HIDE DEF I, z
<1>3. CASE IsConst(z)
  <2>1. InWord(z.n, I.w) /\ ArgValue(s, z) = z.n
    BY <1>1, <1>3 DEF Fed, ArgValue
  <2>2. z.n \in Nat
    BY <1>2, <2>1, Pow2Is DEF InWord
  <2>3. QED
    BY <1>3, <2>1, <2>2 DEF Readable, I, z
<1>4. CASE ~IsConst(z)
  <2>1. PICK l \in 1 .. i - 1 : b[l].id = z.n /\ Gives(b[l], I)
    BY <1>1, <1>4 DEF Fed
  <2>2. l \in 1 .. Len(b)
    BY <1>1
  <2>3. b[l].op # "store" /\ Shaped(b[l]) /\ b[l].id \in Nat
    BY <2>1, <2>2 DEF Gives, WellTyped, Good, GoodInst
  <2>4. b[l].w \in Nat
    BY <2>3 DEF Shaped
  <2>5. z.n \in DOMAIN s.val /\ Holder(b[l], s.val[z.n]) /\ ArgValue(s, z) = s.val[z.n] /\ z = Value(z.n)
    BY <1>1, <1>4, <2>1, <2>3, OperandIs DEF Sound, ArgValue
  <2>6. ArgValue(s, z) \in Nat \/ ArgValue(s, z) = -z.n
    BY <2>1, <2>4, <2>5, Pow2Is DEF Holder, InWord
  <2>7. I.op \in Binary => InWord(ArgValue(s, z), I.w)
    <3>1. SUFFICES ASSUME I.op \in Binary PROVE InWord(ArgValue(s, z), I.w)
      OBVIOUS
    <3>2. IsIntegerTy(b[l]) /\ b[l].w = I.w
      BY <2>1, <3>1 DEF Gives
    <3>3. b[l].op \notin {"alloca", "gep"}
      BY <3>2 DEF IsIntegerTy, Binary, Calls
    <3>4. QED
      BY <2>5, <3>2, <3>3 DEF Holder
  <2>8. QED
    BY <2>1, <2>3, <2>5, <2>6, <2>7 DEF Readable, I, z
<1>5. QED
  BY <1>3, <1>4

LEMMA SoundStep ==
  ASSUME NEW b, NEW src, Good(b, src), WellTyped(b), NEW i \in 1 .. Len(b), NEW s, Sound(s, b, i - 1),
         NEW input, InputOK(input)
  PROVE  Sound(Exec(s, b[i], input), b, i)
<1> DEFINE I == b[i]
           x == Evaluated(s, I.args)
           t == Exec(s, I, input)
           r == Result(s.mem, I, x, Given(I, input))
<1>1. Effect(s, I, x, r, t)
  BY ExecIs
<1>2. IsSeq(I.args) /\ Shaped(I) /\ (I.op \in Binary => Len(I.args) = 2) /\ Len(b) \in Nat
  BY DEF WellTyped, Good, GoodInst, IsSeq
<1>3. \A j \in 1 .. Len(I.args) : Readable(s, I, I.args[j])
  BY OperandSound
<1> HIDE DEF I
<1>4. \A j \in 1 .. Len(I.args) : x[j] = ArgValue(s, I.args[j])
  BY <1>2, EvaluatedIs
<1> HIDE DEF x, t
<1>5. \A j \in 1 .. Len(I.args) : x[j] \in Int /\ (I.op \in Binary => InWord(x[j], I.w))
  BY <1>3, <1>4 DEF Readable
<1>6. ASSUME I.op # "store" PROVE Holder(I, r)
  <2>1. Given(I, input) \in Int
    BY DEF Given, InputOK
  <2>2. I.op \in Binary => InWord(x[1], I.w) /\ InWord(x[2], I.w)
    <3>1. \A n : n = 2 => 1 \in 1 .. n /\ 2 \in 1 .. n
      OBVIOUS
    <3>2. QED
      BY <1>2, <1>5, <3>1
  <2>3. \A m \in DOMAIN s.mem : s.mem[m] \in Int
    BY DEF Sound
  <2>4. QED
    BY <1>2, <2>1, <2>2, <2>3, ResultHolds
<1> HIDE DEF r
<1>7. /\ \A l \in 1 .. i - 1 : b[l].op # "store" => b[l].id \in DOMAIN s.val /\ Holder(b[l], s.val[b[l].id])
      /\ \A n \in DOMAIN s.val : \E l \in 1 .. i - 1 : b[l].id = n /\ b[l].op # "store"
      /\ \A m \in DOMAIN s.mem : s.mem[m] \in Int
  BY DEF Sound
<1>8. \A l \in 1 .. i : l \in 1 .. i - 1 \/ l = i
  OBVIOUS
<1>9. \A l \in 1 .. i - 1 : b[l].id # I.id /\ l \in 1 .. i
  <2>1. \A l \in 1 .. i - 1 : l \in 1 .. Len(b) /\ l # i /\ l \in 1 .. i
    BY <1>2
  <2>2. QED
    BY <2>1 DEF Good, Distinct, I
<1>10. CASE I.op = "store"
  <2>1. t.val = s.val /\ Updated(t.mem, s.mem, x[2], x[1])
    BY <1>1, <1>10 DEF Effect
  <2>2. x[1] \in Int
    <3>1. \A n : n = 2 => 1 \in 1 .. n
      OBVIOUS
    <3>2. Len(I.args) = 2
      BY <1>2, <1>10 DEF Shaped
    <3>3. QED
      BY <1>5, <3>1, <3>2
  <2>3. \A m \in DOMAIN t.mem : t.mem[m] \in Int
    BY <1>7, <2>1, <2>2 DEF Updated
  <2>4. \A l \in 1 .. i : b[l].op # "store" => b[l].id \in DOMAIN t.val /\ Holder(b[l], t.val[b[l].id])
    BY <1>7, <1>8, <1>10, <2>1 DEF I
  <2>5. \A n \in DOMAIN t.val : \E l \in 1 .. i : b[l].id = n /\ b[l].op # "store"
    BY <1>7, <1>9, <2>1
  <2>6. QED
    BY <2>3, <2>4, <2>5 DEF Sound, t, I
<1>11. CASE I.op # "store"
  <2>1. Updated(t.val, s.val, I.id, r) /\ t.mem = s.mem
    BY <1>1, <1>11 DEF Effect
  <2>2. /\ DOMAIN t.val = DOMAIN s.val \cup {I.id} /\ t.val[I.id] = r
        /\ \A n \in DOMAIN s.val : n # I.id => t.val[n] = s.val[n]
    BY <2>1 DEF Updated
  <2>3. \A l \in 1 .. i : b[l].op # "store" => b[l].id \in DOMAIN t.val /\ Holder(b[l], t.val[b[l].id])
    BY <1>6, <1>7, <1>8, <1>9, <1>11, <2>2 DEF I
  <2>4. \A n \in DOMAIN t.val : \E l \in 1 .. i : b[l].id = n /\ b[l].op # "store"
    <3>1. i \in 1 .. i /\ b[i].id = I.id /\ b[i].op # "store"
      BY <1>11 DEF I
    <3>2. QED
      BY <1>7, <1>9, <2>2, <3>1
  <2>5. QED
    BY <1>7, <2>1, <2>3, <2>4 DEF Sound, t, I
<1>12. QED
  BY <1>10, <1>11
LEMMA SoundRun ==
  ASSUME NEW b, NEW src, Good(b, src), WellTyped(b), NEW input, InputOK(input)
  PROVE  \A i \in 0 .. Len(b) : Sound(Ran(Outset, b, input)[i], b, i)
<1> DEFINE f == Ran(Outset, b, input)
           Bad == {i \in 0 .. Len(b) : ~Sound(f[i], b, i)}
<1>1. SUFFICES ASSUME Bad # {} PROVE FALSE
  OBVIOUS
<1>2. PICK i \in Bad : \A k \in Bad : ~(k < i)
  <2>1. Bad \subseteq Nat
    OBVIOUS
  <2> HIDE DEF Bad
  <2>2. QED
    BY <1>1, <2>1, Least
<1>3. IsSeq(b) /\ Len(b) \in Nat /\ i \in 0 .. Len(b) /\ ~Sound(f[i], b, i)
  BY <1>2 DEF Good, IsSeq
<1>4. \A k \in 0 .. Len(b) : k < i => Sound(f[k], b, k)
  BY <1>2
<1>5. Steps(f, Outset, b, input)
  BY <1>3, RanIs
<1> HIDE DEF f, Bad
<1>6. f[0] = Outset /\ \A k \in 1 .. Len(b) : f[k] = Exec(f[k - 1], b[k], input)
  BY <1>5 DEF Steps
<1>7. i # 0
  <2>1. Outset.val = <<>> /\ Outset.mem = <<>>
    BY DEF Outset
  <2>2. DOMAIN <<>> = {} /\ 1 .. 0 = {}
    OBVIOUS
  <2>3. Sound(Outset, b, 0)
    BY <2>1, <2>2 DEF Sound
  <2>4. QED
    BY <1>3, <1>6, <2>3
<1>8. i \in 1 .. Len(b) /\ i - 1 \in 0 .. Len(b) /\ i - 1 < i
  BY <1>3, <1>7
<1>9. Sound(f[i - 1], b, i - 1) /\ f[i] = Exec(f[i - 1], b[i], input)
  BY <1>4, <1>6, <1>8
<1>10. Sound(Exec(f[i - 1], b[i], input), b, i)
  BY <1>8, <1>9, SoundStep
<1>11. QED
  BY <1>3, <1>9, <1>10

(* Two runs side by side: what s has of the value x, t has of the operand a;   *)
(* the address -m is t's own.                                              *)
Reads(t, a, v) == IF IsConst(a) THEN a.n = v ELSE a.n \in DOMAIN t.val /\ t.val[a.n] = v

Stand(x, a, n) == IF n = x THEN a ELSE Value(n)

SameMemory(s, t, m) ==
  \A p : p # -m => /\ p \in DOMAIN t.mem <=> p \in DOMAIN s.mem
                   /\ p \in DOMAIN s.mem => t.mem[p] = s.mem[p]

Printed(q, rep) == IF rep = <<>> THEN q ELSE Append(q, rep[1])

Follows(s, t, x, a) == \A n \in DOMAIN s.val : Reads(t, Stand(x, a, n), s.val[n])

Rel(s, t, x, a, m, U, rep) ==
  /\ Follows(s, t, x, a)
  /\ SameMemory(s, t, m)
  /\ t.trace = s.trace /\ t.reports = Printed(s.reports, rep)
  /\ t.undef <=> s.undef \/ U

\* Where z may be an operand, what stands for it reads the same.
LEMMA ArgSame ==
  ASSUME NEW s, NEW t, NEW x, NEW a, Follows(s, t, x, a),
         NEW z, IsOperand(z), IsConst(z) \/ z.n \in DOMAIN s.val
  PROVE  ArgValue(t, IF z = Value(x) THEN a ELSE z) = ArgValue(s, z)
<1>1. CASE IsConst(z)
  <2>1. z # Value(x)
    BY <1>1, OperandSorts
  <2>2. QED
    BY <1>1, <2>1 DEF ArgValue
<1>2. CASE ~IsConst(z)
  <2>1. z = Value(z.n) /\ z.n \in DOMAIN s.val /\ (z = Value(x) <=> z.n = x)
    BY <1>2, OperandIs, OperandSorts
  <2>2. (IF z = Value(x) THEN a ELSE z) = Stand(x, a, z.n)
    BY <2>1 DEF Stand
  <2>3. Reads(t, Stand(x, a, z.n), s.val[z.n])
    BY <2>1 DEF Follows
  <2>4. ArgValue(t, Stand(x, a, z.n)) = s.val[z.n]
    BY <2>3 DEF Reads, ArgValue
  <2>5. QED
    BY <1>2, <2>2, <2>4 DEF ArgValue
<1>3. QED
  BY <1>1, <1>2

\* Both execute one instruction, t perhaps with other operands of the same values.
LEMMA RelStep ==
  ASSUME NEW s, NEW t, NEW x, NEW a, NEW m, NEW U, NEW rep, Rel(s, t, x, a, m, U, rep),
         NEW I, NEW J, J.id = I.id, J.op = I.op, J.w = I.w, IsOperand(a),
         NEW X, Evaluated(s, I.args) = X, Evaluated(t, J.args) = X,
         I.op = "load" => X[1] # -m,
         I.op # "store" => (I.id = x <=> a = Value(I.id)),
         I.op = "report" => rep = <<>>,
         NEW input
  PROVE  Rel(Exec(s, I, input), Exec(t, J, input), x, a, m, U, rep)
<1> DEFINE r == Result(s.mem, I, X, Given(I, input))
           rr == Result(t.mem, J, X, Given(J, input))
           s2 == Exec(s, I, input)
           t2 == Exec(t, J, input)
<1>1. Effect(s, I, X, r, s2) /\ Effect(t, J, X, rr, t2)
  BY ExecIs
<1>2. rr = r
  <2>1. Given(J, input) = Given(I, input)
    BY DEF Given
  <2>2. I.op = "load" => /\ X[1] \in DOMAIN t.mem <=> X[1] \in DOMAIN s.mem
                         /\ X[1] \in DOMAIN s.mem => t.mem[X[1]] = s.mem[X[1]]
    BY DEF Rel, SameMemory
  <2>3. CASE I.op # "load"
    BY <2>1, <2>3 DEF Result
  <2>4. CASE I.op = "load"
    BY <2>1, <2>2, <2>4 DEF Result, Binary
  <2>5. QED
    BY <2>3, <2>4
<1> HIDE DEF r, rr, s2, t2
<1>3. /\ \A n \in DOMAIN s.val : Reads(t, Stand(x, a, n), s.val[n])
      /\ SameMemory(s, t, m) /\ t.trace = s.trace /\ t.reports = Printed(s.reports, rep)
      /\ t.undef <=> s.undef \/ U
  BY DEF Rel, Follows
<1>4. t2.trace = s2.trace
  BY <1>1, <1>3 DEF Effect
<1>5. t2.reports = Printed(s2.reports, rep)
  BY <1>1, <1>3 DEF Effect, Printed
<1>6. t2.undef <=> s2.undef \/ U
  BY <1>1, <1>3 DEF Effect
<1>7. CASE I.op = "store"
  <2>1. s2.val = s.val /\ t2.val = t.val /\ Updated(s2.mem, s.mem, X[2], X[1]) /\ Updated(t2.mem, t.mem, X[2], X[1])
    BY <1>1, <1>7 DEF Effect
  <2>2. \A n \in DOMAIN s2.val : Reads(t2, Stand(x, a, n), s2.val[n])
    BY <1>3, <2>1 DEF Reads
  <2>3. SameMemory(s2, t2, m)
    BY <1>3, <2>1 DEF SameMemory, Updated
  <2>4. QED
    BY <1>4, <1>5, <1>6, <2>2, <2>3 DEF Rel, Follows, s2, t2
<1>8. CASE I.op # "store"
  <2>1. s2.mem = s.mem /\ t2.mem = t.mem /\ Updated(s2.val, s.val, I.id, r) /\ Updated(t2.val, t.val, I.id, r)
    BY <1>1, <1>2, <1>8 DEF Effect
  <2>2. SameMemory(s2, t2, m)
    BY <1>3, <2>1 DEF SameMemory
  <2>3. ASSUME NEW n \in DOMAIN s2.val PROVE Reads(t2, Stand(x, a, n), s2.val[n])
    <3>1. CASE n = I.id
      <4>1. Stand(x, a, n) = Value(I.id)
        BY <1>8, <3>1 DEF Stand
      <4>2. s2.val[n] = r /\ I.id \in DOMAIN t2.val /\ t2.val[I.id] = r
        BY <2>1, <3>1 DEF Updated
      <4>3. QED
        BY <4>1, <4>2, OperandSorts DEF Reads
    <3>2. CASE n # I.id
      <4>1. n \in DOMAIN s.val /\ s2.val[n] = s.val[n]
        BY <2>1, <3>2 DEF Updated
      <4>2. Reads(t, Stand(x, a, n), s.val[n])
        BY <1>3, <4>1
      <4>3. IsOperand(Stand(x, a, n)) /\ Stand(x, a, n) # Value(I.id)
        BY <1>8, <3>2, OperandSorts DEF Stand
      <4>4. CASE IsConst(Stand(x, a, n))
        BY <4>1, <4>2, <4>4 DEF Reads
      <4>5. CASE ~IsConst(Stand(x, a, n))
        <5>1. Stand(x, a, n).n # I.id
          BY <4>3, <4>5, OperandIs
        <5>2. QED
          BY <2>1, <4>1, <4>2, <4>5, <5>1 DEF Reads, Updated
      <4>6. QED
        BY <4>4, <4>5
    <3>3. QED
      BY <3>1, <3>2
  <2>4. QED
    BY <1>4, <1>5, <1>6, <2>2, <2>3 DEF Rel, Follows, s2, t2
<1>9. QED
  BY <1>7, <1>8

\* Blocks that begin alike.
LEMMA RanPrefix ==
  ASSUME NEW s, NEW b, NEW c, IsSeq(b), IsSeq(c), NEW input, NEW m \in 0 .. Len(b), m <= Len(c),
         \A i \in 1 .. m : c[i] = b[i]
  PROVE  Ran(s, c, input)[m] = Ran(s, b, input)[m]
<1> DEFINE f == Ran(s, b, input)
           g == Ran(s, c, input)
           Bad == {i \in 0 .. m : g[i] # f[i]}
<1>1. SUFFICES ASSUME Bad # {} PROVE FALSE
  BY m \in 0 .. m DEF IsSeq
<1>2. PICK i \in Bad : \A k \in Bad : ~(k < i)
  <2>1. Bad \subseteq Nat
    OBVIOUS
  <2> HIDE DEF Bad
  <2>2. QED
    BY <1>1, <2>1, Least
<1>3. Len(b) \in Nat /\ Len(c) \in Nat /\ i \in 0 .. m /\ g[i] # f[i]
  BY <1>2 DEF IsSeq
<1>4. \A k \in 0 .. m : k < i => g[k] = f[k]
  BY <1>2
<1>5. Steps(f, s, b, input) /\ Steps(g, s, c, input)
  BY RanIs
<1> HIDE DEF f, g, Bad
<1>6. i # 0
  BY <1>3, <1>5 DEF Steps
<1>7. i \in 1 .. m /\ i \in 1 .. Len(b) /\ i \in 1 .. Len(c) /\ i - 1 \in 0 .. m /\ i - 1 < i
  BY <1>3, <1>6
<1>8. f[i] = Exec(f[i - 1], b[i], input) /\ g[i] = Exec(g[i - 1], c[i], input)
  BY <1>5, <1>7 DEF Steps
<1>9. QED
  BY <1>3, <1>4, <1>7, <1>8

\* Behind the k-th instruction nothing is loaded from the slot of m.
Quiet(b, k, m) ==
  \A i \in k + 1 .. Len(b) : b[i].op = "load" => \A j \in 1 .. Len(b[i].args) : b[i].args[j] # Value(m)

LEMMA QuietLoad ==
  ASSUME NEW b, NEW src, Good(b, src), WellTyped(b), NEW input, InputOK(input), NEW i \in 1 .. Len(b),
         b[i].op = "load", NEW m \in Nat \ {0}, \A j \in 1 .. Len(b[i].args) : b[i].args[j] # Value(m)
  PROVE  Evaluated(Ran(Outset, b, input)[i - 1], b[i].args)[1] # -m
<1> DEFINE s == Ran(Outset, b, input)[i - 1]
           I == b[i]
<1>1. i - 1 \in 0 .. Len(b)
  BY DEF Good, IsSeq
<1>2. Sound(s, b, i - 1)
  BY <1>1, SoundRun
<1>3. Shaped(I) /\ IsSeq(I.args)
  BY DEF WellTyped, Good, GoodInst
<1> HIDE DEF s
<1>4. Len(I.args) = 1
  BY <1>3 DEF Shaped
<1>5. 1 \in 1 .. 1
  OBVIOUS
<1>6. Readable(s, I, I.args[1])
  BY <1>2, <1>4, <1>5, OperandSound
<1>7. I.args[1] # Value(m)
  BY <1>4, <1>5
<1>8. Evaluated(s, I.args)[1] = ArgValue(s, I.args[1])
  BY <1>3, <1>4, <1>5, EvaluatedIs
<1> HIDE DEF I
<1>9. ArgValue(s, I.args[1]) # -m
  <2>1. CASE ArgValue(s, I.args[1]) \in Nat
    BY <2>1
  <2>2. CASE ArgValue(s, I.args[1]) \notin Nat
    <3>1. I.args[1] = Value(I.args[1].n) /\ I.args[1].n \in Nat /\ ArgValue(s, I.args[1]) = -I.args[1].n
      BY <1>6, <2>2 DEF Readable
    <3>2. I.args[1].n # m
      BY <1>7, <3>1
    <3>3. QED
      BY <3>1, <3>2
  <2>3. QED
    BY <2>1, <2>2
<1>10. QED
  BY <1>8, <1>9 DEF s, I

\* The operands of the k-th instruction are there when it is executed.
LEMMA ArgsThere ==
  ASSUME NEW b, NEW src, Good(b, src), WellTyped(b), NEW input, InputOK(input), NEW i \in 1 .. Len(b),
         NEW j \in 1 .. Len(b[i].args)
  PROVE  Readable(Ran(Outset, b, input)[i - 1], b[i], b[i].args[j]) /\ IsOperand(b[i].args[j])
<1>1. i - 1 \in 0 .. Len(b)
  BY DEF Good, IsSeq
<1>2. Sound(Ran(Outset, b, input)[i - 1], b, i - 1)
  BY <1>1, SoundRun
<1>3. QED
  BY <1>2, OperandSound DEF Good, GoodInst

\* Which operands may stand for the value of the k-th instruction: none an
\* instruction behind it gives.
Settled(b, k, a) == IsOperand(a) /\ \A i \in k + 1 .. Len(b) : a # Value(b[i].id)

\* If the code leaves behind what the instruction leaves behind, the block edited
\* does what the block does.
LEMMA Simulates ==
  ASSUME NEW b, NEW src, Good(b, src), WellTyped(b), NEW c, IsSeq(c), NEW k \in 1 .. Len(b),
         NEW core, IsSeq(core), NEW a, Edited(b, c, k, core, b[k].id, a), Settled(b, k, a),
         NEW input, InputOK(input), NEW m \in Nat \ {0}, Quiet(b, k, m),
         NEW U, NEW rep, rep = <<>> \/ k = Len(b),
         Rel(Ran(Outset, b, input)[k], After(Ran(Outset, b, input)[k - 1], core, input), b[k].id, a, m, U, rep)
  PROVE  Rel(Run(b, input), Run(c, input), b[k].id, a, m, U, rep)
<1> DEFINE x == b[k].id
           n == Len(core)
           f == Ran(Outset, b, input)
           g == Ran(Outset, c, input)
           Bad == {i \in k .. Len(b) : ~Rel(f[i], g[i - 1 + n], x, a, m, U, rep)}
<1>1. IsSeq(b) /\ Len(b) \in Nat /\ n \in Nat /\ k \in Nat
  BY DEF Good, IsSeq
<1>2. /\ Len(c) = Len(b) - 1 + n
      /\ \A i \in 1 .. k - 1 : c[i] = b[i]
      /\ \A i \in 1 .. n : c[k - 1 + i] = core[i]
      /\ \A i \in k + 1 .. Len(b) : c[i - 1 + n] = Rewired(b[i], x, a)
  BY DEF Edited
<1>3. Steps(f, Outset, b, input) /\ Steps(g, Outset, c, input)
  BY <1>1, RanIs
<1>4. g[k - 1] = f[k - 1]
  <2> DEFINE z == k - 1
  <2>1. z \in 0 .. Len(b) /\ z <= Len(c) /\ \A i \in 1 .. z : c[i] = b[i]
    BY <1>1, <1>2
  <2> HIDE DEF z
  <2>2. Ran(Outset, c, input)[z] = Ran(Outset, b, input)[z]
    BY <1>1, <2>1, RanPrefix
  <2>3. QED
    BY <2>2 DEF z
<1>5. g[k - 1 + n] = After(f[k - 1], core, input)
  <2>1. k - 1 \in Nat /\ Part(core, c, k - 1)
    BY <1>1, <1>2 DEF Part
  <2>2. RanAlong(Outset, c, core, input, k - 1)
    BY <2>1, RanWithin
  <2>3. n \in 0 .. Len(core)
    BY <1>1
  <2>4. Ran(Outset, c, input)[k - 1 + n] = Ran(Ran(Outset, c, input)[k - 1], core, input)[n]
    BY <2>2, <2>3 DEF RanAlong
  <2>5. QED
    BY <1>4, <2>4 DEF After
<1>6. Rel(f[k], g[k - 1 + n], x, a, m, U, rep)
  BY <1>5
<1>7. Len(b) \in k .. Len(b) /\ Len(b) - 1 + n = Len(c)
  BY <1>1, <1>2
<1>8. SUFFICES ASSUME Bad # {} PROVE FALSE
  <2>1. Len(b) \notin Bad
    BY <1>8
  <2>2. Rel(f[Len(b)], g[Len(b) - 1 + n], x, a, m, U, rep)
    BY <1>7, <2>1
  <2>3. QED
    BY <1>7, <2>2 DEF Run
<1>9. PICK i \in Bad : \A l \in Bad : ~(l < i)
  <2>1. Bad \subseteq Nat
    BY <1>1
  <2> HIDE DEF Bad
  <2>2. QED
    BY <1>8, <2>1, Least
<1>10. i \in k .. Len(b) /\ ~Rel(f[i], g[i - 1 + n], x, a, m, U, rep)
  BY <1>9
<1>11. \A l \in k .. Len(b) : l < i => Rel(f[l], g[l - 1 + n], x, a, m, U, rep)
  BY <1>9
<1> HIDE DEF f, g, Bad, n, x
<1>12. i # k
  BY <1>6, <1>10
<1>13. /\ i \in k + 1 .. Len(b) /\ i \in 1 .. Len(b) /\ i - 1 \in k .. Len(b) /\ i - 1 < i /\ i # k
       /\ i - 1 + n \in 1 .. Len(c) /\ (i - 1 + n) - 1 = (i - 1) - 1 + n
  BY <1>1, <1>2, <1>10, <1>12
<1> DEFINE I == b[i]
           J == Rewired(I, x, a)
           s == f[i - 1]
           t == g[(i - 1) - 1 + n]
<1>14. Rel(s, t, x, a, m, U, rep)
  BY <1>11, <1>13
<1>15. f[i] = Exec(s, I, input)
  BY <1>3, <1>13 DEF Steps
<1>16. g[i - 1 + n] = Exec(t, J, input)
  <2>1. g[i - 1 + n] = Exec(g[(i - 1 + n) - 1], c[i - 1 + n], input)
    BY <1>3, <1>13 DEF Steps
  <2>2. QED
    BY <1>2, <1>13, <2>1
<1>17. IsSeq(I.args) /\ \A j \in 1 .. Len(I.args) : IsOperand(I.args[j]) /\ Readable(s, I, I.args[j])
  <2>1. IsSeq(I.args)
    BY <1>13 DEF Good, GoodInst
  <2>2. QED
    BY <1>13, <2>1, ArgsThere DEF f
<1>18. J.id = I.id /\ J.op = I.op /\ J.w = I.w /\ IsSeq(J.args) /\ Len(J.args) = Len(I.args)
       /\ \A j \in 1 .. Len(I.args) : J.args[j] = IF I.args[j] = Value(x) THEN a ELSE I.args[j]
  <2> HIDE DEF I
  <2>1. /\ J.id = I.id /\ J.op = I.op /\ J.w = I.w
        /\ IsSeq(J.args) /\ Len(J.args) = Len(I.args)
        /\ \A j \in 1 .. Len(I.args) : J.args[j] = IF I.args[j] = Value(x) THEN a ELSE I.args[j]
    BY <1>17, RewiredIs
  <2>2. QED
    BY <2>1
<1>19. I.op = "load" => Evaluated(s, I.args)[1] # -m
  <2>1. SUFFICES ASSUME I.op = "load" PROVE Evaluated(s, I.args)[1] # -m
    OBVIOUS
  <2>2. \A j \in 1 .. Len(b[i].args) : b[i].args[j] # Value(m)
    BY <1>13, <2>1 DEF Quiet
  <2>3. Evaluated(Ran(Outset, b, input)[i - 1], b[i].args)[1] # -m
    BY <1>13, <2>1, <2>2, QuietLoad
  <2>4. QED
    BY <2>3 DEF f
<1>20. I.id # x /\ a # Value(I.id) /\ IsOperand(a)
  BY <1>13 DEF Settled, Good, Distinct, x
<1>21. rep = <<>>
  BY <1>1, <1>13
<1> HIDE DEF I, J, s, t
<1>22. Evaluated(t, J.args) = Evaluated(s, I.args)
  <2>1. ASSUME NEW j \in 1 .. Len(I.args) PROVE ArgValue(t, J.args[j]) = ArgValue(s, I.args[j])
    <3>1. Follows(s, t, x, a)
      BY <1>14 DEF Rel
    <3>2. IsOperand(I.args[j]) /\ (IsConst(I.args[j]) \/ I.args[j].n \in DOMAIN s.val)
      BY <1>17 DEF Readable
    <3>3. \A z : IsOperand(z) /\ (IsConst(z) \/ z.n \in DOMAIN s.val) =>
                   ArgValue(t, IF z = Value(x) THEN a ELSE z) = ArgValue(s, z)
      BY <3>1, ArgSame
    <3>4. QED
      BY <1>18, <3>2, <3>3
  <2>2. QED
    BY <1>17, <1>18, <2>1, EvaluatedSame
<1>23. Rel(Exec(s, I, input), Exec(t, J, input), x, a, m, U, rep)
  BY <1>14, <1>18, <1>19, <1>20, <1>21, <1>22, RelStep
<1>24. QED
  BY <1>10, <1>15, <1>16, <1>23

(* What the IRBuilder makes in front of the k-th instruction, run on from s. *)
KeepsValues(s, t) == \A n \in DOMAIN s.val : n \in DOMAIN t.val /\ t.val[n] = s.val[n]

Kept(s, t, U) ==
  /\ KeepsValues(s, t)
  /\ t.mem = s.mem /\ t.trace = s.trace /\ t.reports = s.reports
  /\ t.undef <=> s.undef \/ U

Arithmetic(code, w) == \A i \in 1 .. Len(code) : code[i].op \in Binary /\ code[i].w = w

\* a is an integer of w bits.
Integral(k, code, a, w) ==
  IF IsConst(a) THEN InWord(a.n, w)
  ELSE \/ \E i \in 1 .. k - 1 : block[i].id = a.n /\ IsIntegerTy(block[i]) /\ block[i].w = w
       \/ \E i \in 1 .. Len(code) : code[i].id = a.n

Built(k, w, s, input, st, U) ==
  /\ Made(k, st) /\ CodeTyped(block, k, st.code) /\ Arithmetic(st.code, w)
  /\ Kept(s, After(s, st.code, input), U)
  /\ \A q \in DOMAIN After(s, st.code, input).val : q \in Nat /\ q < Fresh + Len(st.code)

Has(k, w, s, input, st, a, v) ==
  /\ Avail(k, st.code, a) /\ Integral(k, st.code, a, w)
  /\ InWord(v, w) /\ Reads(After(s, st.code, input), a, v)

Grown(k, w, s, input, st, t, U, v) ==
  /\ Built(k, w, s, input, t, U) /\ Has(k, w, s, input, t, t.a, v)
  /\ \A z, u : Has(k, w, s, input, st, z, u) => Has(k, w, s, input, t, z, u)

\* Operands that are there and integers feed an operation.
LEMMA IntegralFed ==
  ASSUME NEW k, NEW code, NEW w, Arithmetic(code, w), NEW z, Integral(k, code, z, w),
         NEW I, I.w = w
  PROVE  Fed(block, k - 1, z, I) \/ Fed(code, Len(code), z, I)
<1>1. CASE IsConst(z)
  BY <1>1 DEF Integral, Fed
<1>2. CASE ~IsConst(z)
  <2>1. CASE \E i \in 1 .. k - 1 : block[i].id = z.n /\ IsIntegerTy(block[i]) /\ block[i].w = w
    <3>1. PICK i \in 1 .. k - 1 : block[i].id = z.n /\ IsIntegerTy(block[i]) /\ block[i].w = w
      BY <2>1
    <3>2. Gives(block[i], I)
      BY <3>1 DEF Gives, IsIntegerTy, Binary, Calls, Terminators
    <3>3. QED
      BY <1>2, <3>1, <3>2 DEF Fed
  <2>2. CASE \E i \in 1 .. Len(code) : code[i].id = z.n
    <3>1. PICK i \in 1 .. Len(code) : code[i].id = z.n
      BY <2>2
    <3>2. code[i].op \in Binary /\ code[i].w = w
      BY DEF Arithmetic
    <3>3. Gives(code[i], I)
      BY <3>2 DEF Gives, IsIntegerTy, Binary, Terminators
    <3>4. QED
      BY <1>2, <3>1, <3>3 DEF Fed
  <2>3. QED
    BY <1>2, <2>1, <2>2 DEF Integral
<1>3. QED
  BY <1>1, <1>2

LEMMA TypedGrows ==
  ASSUME NEW b, NEW k, NEW code, IsSeq(code), CodeTyped(b, k, code), NEW I, Shaped(I),
         \A j \in 1 .. Len(I.args) : Fed(b, k - 1, I.args[j], I) \/ Fed(code, Len(code), I.args[j], I)
  PROVE  CodeTyped(b, k, Append(code, I))
<1> DEFINE c == Append(code, I)
           n == Len(code)
<1>1. IsSeq(c) /\ Len(c) = n + 1 /\ c[n + 1] = I /\ (\A i \in 1 .. n : c[i] = code[i]) /\ n \in Nat
  BY AppendIs DEF IsSeq
<1> HIDE DEF c
<1>2. ASSUME NEW i \in 0 .. n, NEW z, NEW J, Fed(code, i, z, J) PROVE Fed(c, i, z, J)
  <2>1. \A l \in 1 .. i : l \in 1 .. n /\ c[l] = code[l]
    BY <1>1
  <2>2. QED
    BY <1>2, <2>1 DEF Fed
<1>3. ASSUME NEW i \in 1 .. n
      PROVE  /\ Shaped(c[i])
             /\ \A j \in 1 .. Len(c[i].args) :
                  Fed(b, k - 1, c[i].args[j], c[i]) \/ Fed(c, i - 1, c[i].args[j], c[i])
  <2>1. c[i] = code[i] /\ i - 1 \in 0 .. n
    BY <1>1
  <2>2. Shaped(code[i]) /\ \A j \in 1 .. Len(code[i].args) :
          Fed(b, k - 1, code[i].args[j], code[i]) \/ Fed(code, i - 1, code[i].args[j], code[i])
    BY DEF CodeTyped
  <2>3. QED
    BY <1>2, <2>1, <2>2
<1>4. \A j \in 1 .. Len(I.args) : Fed(b, k - 1, I.args[j], I) \/ Fed(c, (n + 1) - 1, I.args[j], I)
  <2>1. n \in 0 .. n /\ (n + 1) - 1 = n
    BY <1>1
  <2>2. QED
    BY <1>2, <2>1
<1>5. \A i \in 1 .. n + 1 : i \in 1 .. n \/ i = n + 1
  BY <1>1
<1>6. CodeTyped(b, k, c)
  BY <1>1, <1>3, <1>4, <1>5 DEF CodeTyped
<1>7. QED
  BY <1>6 DEF c

LEMMA CreateBuilt ==
  ASSUME Good(block, source), NEW k \in 1 .. Len(block), NEW w \in Nat \ {0}, NEW s, NEW input, NEW st, NEW U,
         Built(k, w, s, input, st, U), NEW op \in Binary,
         NEW x, NEW vx, Has(k, w, s, input, st, x, vx), NEW y, NEW vy, Has(k, w, s, input, st, y, vy),
         IsConst(x) /\ IsConst(y) => ~Undefined(op, vx, vy, w)
  PROVE  Grown(k, w, s, input, st, Create(st, op, w, x, y),
               U \/ Undefined(op, vx, vy, w), Outcome(op, vx, vy, w))
<1> DEFINE t == Create(st, op, w, x, y)
           V == Undefined(op, vx, vy, w)
           v == Outcome(op, vx, vy, w)
           code == st.code
           s1 == After(s, code, input)
           s2 == After(s, t.code, input)
<1>1. /\ Made(k, st) /\ CodeTyped(block, k, code) /\ Arithmetic(code, w) /\ Kept(s, s1, U)
      /\ \A q \in DOMAIN s1.val : q \in Nat /\ q < Fresh + Len(code)
  BY DEF Built
<1>2. /\ Avail(k, code, x) /\ Integral(k, code, x, w) /\ InWord(vx, w) /\ Reads(s1, x, vx)
      /\ Avail(k, code, y) /\ Integral(k, code, y, w) /\ InWord(vy, w) /\ Reads(s1, y, vy)
  BY DEF Has
<1>3. /\ Made(k, t) /\ \A z : Avail(k, code, z) => Avail(k, t.code, z)
  BY <1>1, <1>2, CreateMade
<1>4. InWord(v, w)
  BY <1>2, OutcomeWord
<1>5. CASE IsConst(x) /\ IsConst(y)
  <2>1. t.code = code /\ t.a = Const(Compute(op, x.n, y.n, w))
    BY <1>5 DEF Create
  <2>2. x.n = vx /\ y.n = vy /\ ~V
    BY <1>2, <1>5 DEF Reads
  <2>3. t.a = Const(v)
    BY <2>1, <2>2 DEF Outcome
  <2> HIDE DEF v, V, t, s1, s2
  <2>4. s2 = s1
    BY <2>1 DEF s1, s2
  <2>5. Kept(s, s1, U \/ V)
    BY <1>1, <2>2 DEF Kept
  <2>6. Built(k, w, s, input, t, U \/ V)
    <3>1. CodeTyped(block, k, t.code) /\ Arithmetic(t.code, w) /\ Kept(s, s2, U \/ V)
          /\ \A q \in DOMAIN s2.val : q \in Nat /\ q < Fresh + Len(t.code)
      BY <1>1, <2>1, <2>4, <2>5
    <3>2. QED
      BY <1>3, <3>1 DEF Built, s2
  <2>7. Avail(k, t.code, t.a) /\ Integral(k, t.code, t.a, w) /\ Reads(s2, t.a, v)
    BY <1>3, <1>4, <2>3, OperandSorts DEF Made, Integral, Reads, Const
  <2>8. Has(k, w, s, input, t, t.a, v)
    BY <1>4, <2>7 DEF Has, s2
  <2>9. \A z, u : Has(k, w, s, input, st, z, u) => Has(k, w, s, input, t, z, u)
    BY <2>1 DEF Has
  <2>10. QED
    BY <2>6, <2>8, <2>9 DEF Grown, t, V, v
<1>6. CASE ~(IsConst(x) /\ IsConst(y))
  <2> DEFINE id == Fresh + Len(code)
             args == <<x, y>>
             I == Inst(id, op, w, args)
             X == Evaluated(s1, I.args)
             r == Result(s1.mem, I, X, Given(I, input))
  <2>1. t.code = Append(code, I) /\ t.a = Value(id)
    BY <1>6 DEF Create
  <2>2. I.id = id /\ I.op = op /\ I.w = w /\ I.args = args
    BY DEF Inst
  <2>3. IsSeq(args) /\ Len(args) = 2 /\ args[1] = x /\ args[2] = y
    BY PairIs
  <2>4. IsSeq(code) /\ Len(code) \in Nat
    BY <1>1 DEF Made, NewCode, IsSeq
  <2>5. After(s, Append(code, I), input) = Exec(s1, I, input)
    <3> HIDE DEF I
    <3>1. QED
      BY <2>4, AfterAppend
  <2>6. s2 = Exec(s1, I, input)
    BY <2>1, <2>5
  <2> HIDE DEF args
  <2>7. Effect(s1, I, X, r, Exec(s1, I, input))
    BY ExecIs
  <2> HIDE DEF I, t, s1, code, v, V
  <2>8. X[1] = vx /\ X[2] = vy
    <3>1. 1 \in 1 .. 2 /\ 2 \in 1 .. 2
      OBVIOUS
    <3>2. \A j \in 1 .. Len(args) : Evaluated(s1, args)[j] = ArgValue(s1, args[j])
      BY <2>3, EvaluatedIs
    <3>3. X[1] = ArgValue(s1, x) /\ X[2] = ArgValue(s1, y)
      BY <2>2, <2>3, <3>1, <3>2
    <3>4. ArgValue(s1, x) = vx /\ ArgValue(s1, y) = vy
      BY <1>2 DEF Reads, ArgValue
    <3>5. QED
      BY <3>3, <3>4
  <2> HIDE DEF X
  <2>9. r = v
    BY <2>2, <2>8, ResultIs DEF v
  <2> HIDE DEF r, s2
  <2>10. "store" \notin Binary /\ "report" \notin Binary /\ \A o \in Binary : o \notin Seen /\ o \in Ops
    BY DEF Binary, Seen, Terminators, Ops
  <2>11. /\ Updated(s2.val, s1.val, id, v) /\ s2.mem = s1.mem /\ s2.trace = s1.trace
         /\ s2.reports = s1.reports /\ (s2.undef <=> s1.undef \/ V)
    BY <2>2, <2>6, <2>7, <2>8, <2>9, <2>10 DEF Effect, V
  <2>12. Fresh \in Nat
    BY FreshIs
  <2>13. id \notin DOMAIN s1.val
    BY <1>1, <2>4, <2>12
  <2>14. KeepsValues(s1, s2)
    BY <2>11, <2>13 DEF KeepsValues, Updated
  <2>15. Kept(s, s2, U \/ V)
    BY <1>1, <2>11, <2>14 DEF Kept, KeepsValues
  <2>16. \A q \in DOMAIN s2.val : q \in Nat /\ q < Fresh + Len(t.code)
    <3>1. Len(t.code) = Len(code) + 1
      BY <2>1, <2>4, AppendIs
    <3>2. \A q \in DOMAIN s2.val : q \in DOMAIN s1.val \/ q = id
      BY <2>11 DEF Updated
    <3>3. \A q \in DOMAIN s1.val : q \in Nat /\ q < Fresh + Len(code)
      BY <1>1
    <3>4. ASSUME NEW q \in DOMAIN s1.val PROVE q \in Nat /\ q < Fresh + (Len(code) + 1)
      <4>1. q \in Nat /\ q < Fresh + Len(code)
        BY <3>3
      <4>2. QED
        BY <2>4, <2>12, <4>1
    <3>5. id \in Nat /\ id < Fresh + (Len(code) + 1)
      BY <2>4, <2>12
    <3>6. QED
      BY <3>1, <3>2, <3>4, <3>5
  <2>17. CodeTyped(block, k, t.code)
    <3>1. Shaped(I)
      BY <2>2, <2>10 DEF Shaped, Binary
    <3>2. \A z : Integral(k, code, z, w) => Fed(block, k - 1, z, I) \/ Fed(code, Len(code), z, I)
      BY <1>1, <2>2, IntegralFed
    <3>3. \A j \in 1 .. Len(I.args) : Fed(block, k - 1, I.args[j], I) \/ Fed(code, Len(code), I.args[j], I)
      <4>1. \A j \in 1 .. 2 : j = 1 \/ j = 2
        OBVIOUS
      <4>2. QED
        BY <1>2, <2>2, <2>3, <3>2, <4>1
    <3>4. QED
      BY <1>1, <2>1, <2>4, <3>1, <3>3, TypedGrows
  <2>18. IsSeq(t.code) /\ Len(t.code) = Len(code) + 1 /\ t.code[Len(code) + 1] = I
         /\ \A i \in 1 .. Len(code) : t.code[i] = code[i]
    BY <2>1, <2>4, AppendIs
  <2>19. Arithmetic(t.code, w)
    <3>1. \A i \in 1 .. Len(code) + 1 : i \in 1 .. Len(code) \/ i = Len(code) + 1
      BY <2>4
    <3>2. QED
      BY <1>1, <2>2, <2>18, <3>1 DEF Arithmetic
  <2>20. Built(k, w, s, input, t, U \/ V)
    <3>1. s2 = After(s, t.code, input)
      BY DEF s2
    <3>2. QED
      BY <1>3, <2>15, <2>16, <2>17, <2>19, <3>1 DEF Built
  <2>21. Has(k, w, s, input, t, t.a, v)
    <3>1. Avail(k, t.code, t.a)
      BY <1>3 DEF Made
    <3>2. ~IsConst(t.a) /\ t.a.n = id
      BY <2>1, OperandSorts
    <3>3. Integral(k, t.code, t.a, w)
      <4>1. Len(code) + 1 \in 1 .. Len(t.code)
        BY <2>4, <2>18
      <4>2. QED
        BY <2>2, <2>18, <3>2, <4>1 DEF Integral
    <3>4. Reads(s2, t.a, v)
      BY <2>11, <3>2 DEF Reads, Updated
    <3>5. QED
      BY <1>4, <3>1, <3>3, <3>4 DEF Has, s2
  <2>22. ASSUME NEW z, NEW u, Has(k, w, s, input, st, z, u) PROVE Has(k, w, s, input, t, z, u)
    <3>1. Avail(k, code, z) /\ Integral(k, code, z, w) /\ InWord(u, w) /\ Reads(s1, z, u)
      BY <2>22 DEF Has, code, s1
    <3>2. Avail(k, t.code, z)
      BY <1>3, <3>1
    <3>3. Integral(k, t.code, z, w)
      <4>1. \A i \in 1 .. Len(code) : i \in 1 .. Len(t.code)
        BY <2>4, <2>18
      <4>2. QED
        BY <2>18, <3>1, <4>1 DEF Integral
    <3>4. Reads(s2, z, u)
      BY <2>14, <3>1 DEF Reads, KeepsValues
    <3>5. QED
      BY <3>1, <3>2, <3>3, <3>4 DEF Has, s2
  <2>23. QED
    BY <2>20, <2>21, <2>22 DEF Grown, t, V, v
<1>7. QED
  BY <1>5, <1>6
Total == {"add", "sub", "mul", "xor", "or", "and"}

LEMMA TotalBuilt ==
  ASSUME Good(block, source), NEW k \in 1 .. Len(block), NEW w \in Nat \ {0}, NEW s, NEW input, NEW st, NEW U,
         Built(k, w, s, input, st, U), NEW op \in Total,
         NEW x, NEW vx, Has(k, w, s, input, st, x, vx), NEW y, NEW vy, Has(k, w, s, input, st, y, vy)
  PROVE  Grown(k, w, s, input, st, Create(st, op, w, x, y), U, Compute(op, vx, vy, w))
<1> DEFINE t == Create(st, op, w, x, y)
<1>1. op \in Binary /\ ~Undefined(op, vx, vy, w)
  BY DEF Total, Binary, Undefined
<1>2. Grown(k, w, s, input, st, t, U \/ Undefined(op, vx, vy, w), Outcome(op, vx, vy, w))
  BY <1>1, CreateBuilt
<1>3. Outcome(op, vx, vy, w) = Compute(op, vx, vy, w)
  BY <1>1 DEF Outcome
<1> HIDE DEF t
<1>4. Built(k, w, s, input, t, U \/ Undefined(op, vx, vy, w)) => Built(k, w, s, input, t, U)
  BY <1>1 DEF Built, Kept
<1>5. Grown(k, w, s, input, st, t, U, Compute(op, vx, vy, w))
  BY <1>2, <1>3, <1>4 DEF Grown
<1>6. QED
  BY <1>5 DEF t

LEMMA StartBuilt ==
  ASSUME Good(block, source), WellTyped(block), NEW k \in 1 .. Len(block), NEW input, InputOK(input), NEW w
  PROVE  Built(k, w, Ran(Outset, block, input)[k - 1], input, Start, FALSE)
<1> DEFINE s == Ran(Outset, block, input)[k - 1]
<1>1. k - 1 \in 0 .. Len(block) /\ Len(block) \in Nat
  BY DEF Good, IsSeq
<1>2. Sound(s, block, k - 1)
  BY <1>1, SoundRun
<1> HIDE DEF s
<1>3. Start.code = <<>> /\ Made(k, Start) /\ After(s, <<>>, input) = s /\ Len(<<>>) = 0
  BY StartMade, AfterNone, EmptyIs
<1>4. \A i \in 1 .. Len(<<>>) : FALSE
  BY <1>3
<1>5. CodeTyped(block, k, <<>>) /\ Arithmetic(<<>>, w)
  BY <1>4 DEF CodeTyped, Arithmetic
<1>6. Kept(s, s, FALSE)
  BY DEF Kept, KeepsValues
<1>7. ASSUME NEW q \in DOMAIN s.val PROVE q \in Nat /\ q < Fresh + 0
  <2>1. PICK l \in 1 .. k - 1 : block[l].id = q
    BY <1>2 DEF Sound
  <2>2. l \in 1 .. Len(block)
    BY <1>1
  <2>3. block[l].id \in Nat /\ block[l].id < Fresh /\ Fresh \in Nat
    BY <2>2, FreshIs DEF Good, GoodInst
  <2>4. QED
    BY <2>1, <2>3
<1>8. Built(k, w, s, input, Start, FALSE)
  BY <1>3, <1>5, <1>6, <1>7 DEF Built
<1>9. QED
  BY <1>8 DEF s

LEMMA ConstHas ==
  ASSUME NEW k, NEW w, NEW s, NEW input, NEW st, NEW v, InWord(v, w)
  PROVE  Has(k, w, s, input, st, Const(v), v)
<1>1. IsConst(Const(v)) /\ Const(v).n = v
  BY OperandSorts DEF Const
<1>2. QED
  BY <1>1, ConstAvail DEF Has, Integral, Reads

\* An integer's value is a word, behind the instruction that computes it.
LEMMA ValueHas ==
  ASSUME Good(block, source), WellTyped(block), NEW k \in 1 .. Len(block), NEW input, InputOK(input),
         NEW i \in 1 .. k - 1, IsIntegerTy(block[i])
  PROVE  LET s == Ran(Outset, block, input)[k - 1]
         IN  /\ block[i].id \in DOMAIN s.val
             /\ Has(k, block[i].w, s, input, Start, Value(block[i].id), s.val[block[i].id])
<1> DEFINE s == Ran(Outset, block, input)[k - 1]
           P == block[i]
<1>1. k - 1 \in 0 .. Len(block) /\ Len(block) \in Nat
  BY DEF Good, IsSeq
<1>2. Sound(s, block, k - 1)
  BY <1>1, SoundRun
<1> HIDE DEF s
<1>3. P.op \notin {"store", "alloca", "gep"}
  BY DEF IsIntegerTy, Binary, Calls
<1>4. P.id \in DOMAIN s.val /\ InWord(s.val[P.id], P.w)
  BY <1>2, <1>3 DEF Sound, Holder
<1>5. Start.code = <<>> /\ After(s, <<>>, input) = s
  BY StartMade, AfterNone
<1>6. ~IsConst(Value(P.id)) /\ Value(P.id).n = P.id /\ IsOperand(Value(P.id))
  BY OperandSorts
<1>7. Avail(k, <<>>, Value(P.id)) /\ Integral(k, <<>>, Value(P.id), P.w)
  BY <1>6 DEF Avail, Defined, Integral
<1>8. Has(k, P.w, s, input, Start, Value(P.id), s.val[P.id])
  BY <1>4, <1>5, <1>6, <1>7 DEF Has, Reads
<1>9. QED
  BY <1>4, <1>8 DEF s

\* The operands of an operation.
LEMMA ArgsHave ==
  ASSUME Good(block, source), WellTyped(block), NEW k \in 1 .. Len(block), NEW input, InputOK(input),
         block[k].op \in Binary, NEW j \in 1 .. 2
  PROVE  LET s == Ran(Outset, block, input)[k - 1]
         IN  Has(k, block[k].w, s, input, Start, block[k].args[j], ArgValue(s, block[k].args[j]))
<1> DEFINE s == Ran(Outset, block, input)[k - 1]
           I == block[k]
           z == I.args[j]
<1>1. Len(I.args) = 2 /\ Len(block) \in Nat
  BY DEF Good, GoodInst, IsSeq
<1>2. j \in 1 .. Len(block[k].args)
  BY <1>1
<1>3. Readable(s, I, z) /\ IsOperand(z)
  BY <1>2, ArgsThere
<1>4. Fed(block, k - 1, z, I)
  BY <1>2 DEF WellTyped
<1>5. \A code : Avail(k, code, z)
  BY <1>2, ArgsAvail
<1> HIDE DEF s, I, z
<1>6. InWord(ArgValue(s, z), I.w)
  BY <1>3 DEF Readable, I
<1>7. Start.code = <<>> /\ After(s, <<>>, input) = s
  BY StartMade, AfterNone
<1>8. Reads(s, z, ArgValue(s, z))
  BY <1>3 DEF Reads, ArgValue, Readable
<1>9. Integral(k, <<>>, z, I.w)
  <2>1. CASE IsConst(z)
    BY <1>4, <2>1 DEF Fed, Integral
  <2>2. CASE ~IsConst(z)
    <3>1. PICK i \in 1 .. k - 1 : block[i].id = z.n /\ Gives(block[i], I)
      BY <1>4, <2>2 DEF Fed
    <3>2. IsIntegerTy(block[i]) /\ block[i].w = I.w
      BY <3>1 DEF Gives, I
    <3>3. QED
      BY <2>2, <3>1, <3>2 DEF Integral
  <2>3. QED
    BY <2>1, <2>2
<1>10. Has(k, I.w, s, input, Start, z, ArgValue(s, z))
  BY <1>5, <1>6, <1>7, <1>8, <1>9 DEF Has
<1>11. QED
  BY <1>10 DEF s, I, z

LEMMA NegBuilt ==
  ASSUME Good(block, source), NEW k \in 1 .. Len(block), NEW w \in Nat \ {0}, NEW s, NEW input, NEW st, NEW U,
         Built(k, w, s, input, st, U), NEW x, NEW vx, Has(k, w, s, input, st, x, vx)
  PROVE  Grown(k, w, s, input, st, Neg(st, x, w), U, Compute("sub", 0, vx, w))
<1>1. "sub" \in Total
  BY DEF Total
<1>2. Has(k, w, s, input, st, Const(0), 0)
  BY TwoIs, ConstHas
<1>3. QED
  BY <1>1, <1>2, TotalBuilt DEF Neg

\* inst_sub.cc: the substitution gives what the instruction gives.
LEMMA SubstitutionBuilt ==
  ASSUME Good(block, source), WellTyped(block), NEW k \in 1 .. Len(block), NEW input, InputOK(input),
         block[k].op \in {"add", "sub", "mul"}, NEW dice \in {0, 1}
  PROVE  LET s == Ran(Outset, block, input)[k - 1]
             I == block[k]
             t == Substitution(I, dice)
         IN  /\ Built(k, I.w, s, input, t, FALSE)
             /\ Has(k, I.w, s, input, t, t.a,
                    Compute(I.op, ArgValue(s, I.args[1]), ArgValue(s, I.args[2]), I.w))
<1> DEFINE s == Ran(Outset, block, input)[k - 1]
           I == block[k]
           w == I.w
           a == I.args[1]
           b == I.args[2]
           va == ArgValue(s, a)
           vb == ArgValue(s, b)
           t == Substitution(I, dice)
           v == Compute(I.op, va, vb, w)
           nega == Neg(Start, a, w)
           negb == Neg(Start, b, w)
           both == Neg(nega, b, w)
           sum == Create(both, "add", w, nega.a, both.a)
           prod == Create(nega, "mul", w, nega.a, b)
           less == Create(Start, "sub", w, b, ConstInt(1, w))
           part == Create(less, "mul", w, a, less.a)
           neg(u) == Compute("sub", 0, u, w)
<1>1. I.op \in Binary /\ w \in Nat \ {0} /\ "add" \in Total /\ "sub" \in Total /\ "mul" \in Total
  BY DEF WellTyped, Shaped, Binary, Total
<1>2. Built(k, w, s, input, Start, FALSE)
  BY StartBuilt
<1>3. Has(k, w, s, input, Start, a, va) /\ Has(k, w, s, input, Start, b, vb)
  <2>1. 1 \in 1 .. 2 /\ 2 \in 1 .. 2
    OBVIOUS
  <2>2. QED
    BY <1>1, <2>1, ArgsHave
<1>4. /\ Compute("sub", va, neg(vb), w) = Compute("add", va, vb, w)
      /\ neg(Compute("add", neg(va), neg(vb), w)) = Compute("add", va, vb, w)
      /\ Compute("add", va, neg(vb), w) = Compute("sub", va, vb, w)
      /\ neg(Compute("mul", neg(va), vb, w)) = Compute("mul", va, vb, w)
      /\ Compute("add", Compute("mul", va, Compute("sub", vb, Trunc(1, w), w), w), va, w)
           = Compute("mul", va, vb, w)
  <2> HIDE DEF va, vb, w
  <2>1. va \in 0 .. Pow2[w] - 1 /\ vb \in 0 .. Pow2[w] - 1 /\ w \in Nat
    BY <1>1, <1>3 DEF Has, InWord
  <2>2. QED
    BY <2>1, SubstitutionsAgree
<1> HIDE DEF s, va, vb
<1>5. CASE I.op = "add" /\ dice = 0
  <2>1. t = Create(negb, "sub", w, a, negb.a)
    BY <1>5 DEF Substitution
  <2> HIDE DEF t, a, b, w
  <2>2. Grown(k, w, s, input, Start, negb, FALSE, neg(vb))
    BY <1>1, <1>2, <1>3, NegBuilt
  <2> HIDE DEF negb
  <2>3. Built(k, w, s, input, negb, FALSE) /\ Has(k, w, s, input, negb, negb.a, neg(vb))
        /\ Has(k, w, s, input, negb, a, va)
    BY <1>3, <2>2 DEF Grown
  <2>4. Grown(k, w, s, input, negb, t, FALSE, Compute("sub", va, neg(vb), w))
    BY <1>1, <2>1, <2>3, TotalBuilt
  <2>5. Built(k, w, s, input, t, FALSE) /\ Has(k, w, s, input, t, t.a, Compute("sub", va, neg(vb), w))
    BY <2>4 DEF Grown
  <2>6. v = Compute("sub", va, neg(vb), w)
    BY <1>4, <1>5
  <2>7. QED
    BY <2>5, <2>6 DEF s, va, vb, t, a, b, w
<1>6. CASE I.op = "add" /\ dice = 1
  <2>1. t = Neg(sum, sum.a, w)
    BY <1>6 DEF Substitution
  <2> HIDE DEF t, a, b, w
  <2>2. Grown(k, w, s, input, Start, nega, FALSE, neg(va))
    BY <1>1, <1>2, <1>3, NegBuilt
  <2> HIDE DEF nega
  <2>3. Built(k, w, s, input, nega, FALSE) /\ Has(k, w, s, input, nega, nega.a, neg(va))
        /\ Has(k, w, s, input, nega, b, vb)
    BY <1>3, <2>2 DEF Grown
  <2>4. Grown(k, w, s, input, nega, both, FALSE, neg(vb))
    BY <1>1, <2>3, NegBuilt
  <2> HIDE DEF both
  <2>5. Built(k, w, s, input, both, FALSE) /\ Has(k, w, s, input, both, both.a, neg(vb))
        /\ Has(k, w, s, input, both, nega.a, neg(va))
    BY <2>3, <2>4 DEF Grown
  <2>6. Grown(k, w, s, input, both, sum, FALSE, Compute("add", neg(va), neg(vb), w))
    BY <1>1, <2>5, TotalBuilt
  <2> HIDE DEF sum
  <2>7. Built(k, w, s, input, sum, FALSE) /\ Has(k, w, s, input, sum, sum.a, Compute("add", neg(va), neg(vb), w))
    BY <2>6 DEF Grown
  <2>8. Grown(k, w, s, input, sum, t, FALSE, neg(Compute("add", neg(va), neg(vb), w)))
    BY <1>1, <2>1, <2>7, NegBuilt
  <2>9. v = neg(Compute("add", neg(va), neg(vb), w))
    BY <1>4, <1>6
  <2>10. Built(k, w, s, input, t, FALSE) /\ Has(k, w, s, input, t, t.a, neg(Compute("add", neg(va), neg(vb), w)))
    BY <2>8 DEF Grown
  <2>11. QED
    BY <2>9, <2>10 DEF s, va, vb, t, a, b, w
<1>7. CASE I.op = "sub"
  <2>1. t = Create(negb, "add", w, a, negb.a)
    BY <1>7 DEF Substitution
  <2> HIDE DEF t, a, b, w
  <2>2. Grown(k, w, s, input, Start, negb, FALSE, neg(vb))
    BY <1>1, <1>2, <1>3, NegBuilt
  <2> HIDE DEF negb
  <2>3. Built(k, w, s, input, negb, FALSE) /\ Has(k, w, s, input, negb, negb.a, neg(vb))
        /\ Has(k, w, s, input, negb, a, va)
    BY <1>3, <2>2 DEF Grown
  <2>4. Grown(k, w, s, input, negb, t, FALSE, Compute("add", va, neg(vb), w))
    BY <1>1, <2>1, <2>3, TotalBuilt
  <2>5. Built(k, w, s, input, t, FALSE) /\ Has(k, w, s, input, t, t.a, Compute("add", va, neg(vb), w))
    BY <2>4 DEF Grown
  <2>6. v = Compute("add", va, neg(vb), w)
    BY <1>4, <1>7
  <2>7. QED
    BY <2>5, <2>6 DEF s, va, vb, t, a, b, w
<1>8. CASE I.op = "mul" /\ dice = 0
  <2>1. t = Neg(prod, prod.a, w)
    BY <1>8 DEF Substitution
  <2> HIDE DEF t, a, b, w
  <2>2. Grown(k, w, s, input, Start, nega, FALSE, neg(va))
    BY <1>1, <1>2, <1>3, NegBuilt
  <2> HIDE DEF nega
  <2>3. Built(k, w, s, input, nega, FALSE) /\ Has(k, w, s, input, nega, nega.a, neg(va))
        /\ Has(k, w, s, input, nega, b, vb)
    BY <1>3, <2>2 DEF Grown
  <2>4. Grown(k, w, s, input, nega, prod, FALSE, Compute("mul", neg(va), vb, w))
    BY <1>1, <2>3, TotalBuilt
  <2> HIDE DEF prod
  <2>5. Built(k, w, s, input, prod, FALSE) /\ Has(k, w, s, input, prod, prod.a, Compute("mul", neg(va), vb, w))
    BY <2>4 DEF Grown
  <2>6. Grown(k, w, s, input, prod, t, FALSE, neg(Compute("mul", neg(va), vb, w)))
    BY <1>1, <2>1, <2>5, NegBuilt
  <2>7. v = neg(Compute("mul", neg(va), vb, w))
    BY <1>4, <1>8
  <2>8. Built(k, w, s, input, t, FALSE) /\ Has(k, w, s, input, t, t.a, neg(Compute("mul", neg(va), vb, w)))
    BY <2>6 DEF Grown
  <2>9. QED
    BY <2>7, <2>8 DEF s, va, vb, t, a, b, w
<1>9. CASE I.op = "mul" /\ dice = 1
  <2>1. t = Create(part, "add", w, part.a, a)
    BY <1>9 DEF Substitution
  <2> HIDE DEF t, a, b, w
  <2>2. Has(k, w, s, input, Start, ConstInt(1, w), Trunc(1, w))
    <3>1. InWord(Trunc(1, w), w)
      BY <1>1, TruncWord
    <3>2. QED
      BY <3>1, ConstHas DEF ConstInt
  <2> DEFINE one == Trunc(1, w)
  <2>3. Grown(k, w, s, input, Start, less, FALSE, Compute("sub", vb, one, w))
    BY <1>1, <1>2, <1>3, <2>2, TotalBuilt
  <2> HIDE DEF less, one
  <2>4. Built(k, w, s, input, less, FALSE) /\ Has(k, w, s, input, less, less.a, Compute("sub", vb, one, w))
        /\ Has(k, w, s, input, less, a, va)
    BY <1>3, <2>3 DEF Grown
  <2>5. Grown(k, w, s, input, less, part, FALSE, Compute("mul", va, Compute("sub", vb, one, w), w))
    BY <1>1, <2>4, TotalBuilt
  <2> HIDE DEF part
  <2>6. Built(k, w, s, input, part, FALSE)
        /\ Has(k, w, s, input, part, part.a, Compute("mul", va, Compute("sub", vb, one, w), w))
        /\ Has(k, w, s, input, part, a, va)
    BY <2>4, <2>5 DEF Grown
  <2>7. Grown(k, w, s, input, part, t, FALSE,
              Compute("add", Compute("mul", va, Compute("sub", vb, one, w), w), va, w))
    BY <1>1, <2>1, <2>6, TotalBuilt
  <2>8. v = Compute("add", Compute("mul", va, Compute("sub", vb, one, w), w), va, w)
    BY <1>4, <1>9 DEF one
  <2>9. Built(k, w, s, input, t, FALSE)
        /\ Has(k, w, s, input, t, t.a, Compute("add", Compute("mul", va, Compute("sub", vb, one, w), w), va, w))
    BY <2>7 DEF Grown
  <2>10. QED
    BY <2>8, <2>9 DEF s, va, vb, t, a, b, w
<1>10. QED
  BY <1>5, <1>6, <1>7, <1>8, <1>9

\* garbage_insert.cc:70-101: the garbage is defined, but for a division by 2 where 2 is 0.
LEMMA GarbageBuilt ==
  ASSUME Good(block, source), NEW k \in 1 .. Len(block), NEW w \in Nat \ {0}, NEW s, NEW input,
         Built(k, w, s, input, Start, FALSE), NEW x, ~IsConst(x), NEW v, Has(k, w, s, input, Start, x, v),
         NEW pattern \in 0 .. 4, NEW n \in Nat
  PROVE  Built(k, w, s, input, Garbage(x, w, pattern, n), pattern = 1 /\ w = 1)
<1>1. ASSUME NEW m \in Int, NEW op1 \in Total, NEW op2 \in Binary,
             NEW V, V <=> Undefined(op2, Compute(op1, v, Trunc(m, w), w), Trunc(m, w), w)
      PROVE  Built(k, w, s, input, Twice(x, w, op1, op2, m), V)
  <2> DEFINE c == ConstInt(m, w)
             u == Trunc(m, w)
             st == Create(Start, op1, w, x, c)
             t == Create(st, op2, w, st.a, c)
             W == FALSE \/ Undefined(op2, Compute(op1, v, u, w), u, w)
  <2>1. Has(k, w, s, input, Start, c, u)
    <3>1. InWord(Trunc(m, w), w)
      BY TruncWord
    <3>2. QED
      BY <3>1, ConstHas DEF ConstInt
  <2>2. Twice(x, w, op1, op2, m) = t
    BY DEF Twice
  <2>3. ~IsConst(st.a)
    <3> HIDE DEF c
    <3>1. st.a = Value(Fresh + Len(Start.code))
      BY DEF Create
    <3>2. QED
      BY <3>1, OperandSorts
  <2> HIDE DEF c, u
  <2>4. Grown(k, w, s, input, Start, st, FALSE, Compute(op1, v, u, w))
    BY <2>1, TotalBuilt
  <2> HIDE DEF st
  <2>5. Built(k, w, s, input, st, FALSE) /\ Has(k, w, s, input, st, st.a, Compute(op1, v, u, w))
        /\ Has(k, w, s, input, st, c, u)
    BY <2>1, <2>4 DEF Grown
  <2>6. Grown(k, w, s, input, st, t, W, Outcome(op2, Compute(op1, v, u, w), u, w))
    BY <2>3, <2>5, CreateBuilt
  <2> HIDE DEF t
  <2>7. Built(k, w, s, input, t, W)
    BY <2>6 DEF Grown
  <2>8. W <=> V
    BY <1>1 DEF u
  <2> HIDE DEF W
  <2>9. Built(k, w, s, input, t, V)
    BY <2>7, <2>8 DEF Built, Kept
  <2>10. QED
    BY <2>2, <2>9
<1>2. ASSUME NEW op \in Total, NEW m, InWord(m, w) PROVE Built(k, w, s, input, Create(Start, op, w, x, Const(m)), FALSE)
  <2>1. Has(k, w, s, input, Start, Const(m), m)
    BY <1>2, ConstHas
  <2>2. Grown(k, w, s, input, Start, Create(Start, op, w, x, Const(m)), FALSE, Compute(op, v, m, w))
    BY <2>1, TotalBuilt
  <2>3. QED
    BY <2>2 DEF Grown
<1>3. /\ "add" \in Total /\ "mul" \in Total /\ "xor" \in Total /\ "or" \in Total /\ "and" \in Total
      /\ "sub" \in Binary /\ "xor" \in Binary /\ "sdiv" \in Binary
      /\ \A y, z : ~Undefined("sub", y, z, w) /\ ~Undefined("xor", y, z, w)
  BY DEF Total, Binary, Undefined
<1> DEFINE g == Garbage(x, w, pattern, n)
<1>4. CASE pattern = 0
  <2>1. g = Twice(x, w, "add", "sub", n)
    BY <1>4 DEF Garbage
  <2>2. FALSE <=> Undefined("sub", Compute("add", v, Trunc(n, w), w), Trunc(n, w), w)
    BY <1>3
  <2>3. n \in Int
    OBVIOUS
  <2>4. Built(k, w, s, input, Twice(x, w, "add", "sub", n), FALSE)
    BY <1>1, <1>3, <2>2, <2>3
  <2>5. Built(k, w, s, input, g, pattern = 1 /\ w = 1)
    BY <1>4, <2>1, <2>4 DEF Built, Kept
  <2>6. QED
    BY <2>5
<1>5. CASE pattern = 1
  <2> DEFINE y == Compute("mul", v, Trunc(2, w), w)
  <2>1. g = Twice(x, w, "mul", "sdiv", 2)
    BY <1>5 DEF Garbage
  <2>2. (w = 1) <=> Undefined("sdiv", y, Trunc(2, w), w)
    <3>1. CASE w = 1
      <4>1. Trunc(2, w) = 0
        <5>1. 2 % 2 = 0
          OBVIOUS
        <5>2. QED
          BY <3>1, <5>1, TwoIs DEF Trunc
      <4>2. QED
        BY <3>1, <4>1 DEF Undefined
    <3>2. CASE w # 1
      <4>1. Trunc(2, w) = 2
        BY <3>2, TwoIs, TruncOfWord
      <4>2. Pow2[w] - 1 # 2
        <5>1. w - 1 \in Nat /\ (w - 1) + 1 = w
          OBVIOUS
        <5>2. Pow2[w - 1] \in Nat /\ Pow2[w] = 2 * Pow2[w - 1]
          BY <5>1, Pow2Is
        <5>3. QED
          BY <5>2
      <4>3. ~Undefined("sdiv", y, 2, w)
        <5> HIDE DEF y
        <5>1. Pow2[w] \in Nat
          BY Pow2Is
        <5>2. QED
          BY <4>2, <5>1 DEF Undefined
      <4>4. QED
        BY <3>2, <4>1, <4>3
    <3>3. QED
      BY <3>1, <3>2
  <2>3. Built(k, w, s, input, Twice(x, w, "mul", "sdiv", 2), w = 1)
    <3>1. 2 \in Int /\ "mul" \in Total /\ "sdiv" \in Binary
      BY <1>3
    <3>2. QED
      BY <1>1, <2>2, <3>1
  <2>4. (w = 1) <=> (pattern = 1 /\ w = 1)
    BY <1>5
  <2>5. Built(k, w, s, input, Twice(x, w, "mul", "sdiv", 2), pattern = 1 /\ w = 1)
    BY <2>3, <2>4 DEF Built, Kept
  <2>6. QED
    BY <2>1, <2>5
<1>6. CASE pattern = 2
  <2>1. g = Twice(x, w, "xor", "xor", n)
    BY <1>6 DEF Garbage
  <2>2. FALSE <=> Undefined("xor", Compute("xor", v, Trunc(n, w), w), Trunc(n, w), w)
    BY <1>3
  <2>3. n \in Int
    OBVIOUS
  <2>4. Built(k, w, s, input, Twice(x, w, "xor", "xor", n), FALSE)
    BY <1>1, <1>3, <2>2, <2>3
  <2>5. Built(k, w, s, input, g, pattern = 1 /\ w = 1)
    BY <1>6, <2>1, <2>4 DEF Built, Kept
  <2>6. QED
    BY <2>5
<1>7. CASE pattern = 3
  <2>1. g = Create(Start, "or", w, x, Const(0))
    BY <1>7 DEF Garbage
  <2>2. Built(k, w, s, input, Create(Start, "or", w, x, Const(0)), FALSE)
    BY <1>2, <1>3, TwoIs
  <2>3. Built(k, w, s, input, g, pattern = 1 /\ w = 1)
    BY <1>7, <2>1, <2>2 DEF Built, Kept
  <2>4. QED
    BY <2>3
<1>8. CASE pattern = 4
  <2> DEFINE m == Trunc(Pow2[Word] - 1, w)
  <2>1. g = Create(Start, "and", w, x, Const(m))
    BY <1>8 DEF Garbage, ConstInt
  <2>2. InWord(m, w)
    <3>1. Word \in Nat
      BY RewritesAssumption
    <3>2. Pow2[Word] \in Nat
      BY <3>1, Pow2Is
    <3>3. Pow2[Word] - 1 \in Int
      BY <3>2
    <3>4. QED
      BY <3>3, TruncWord
  <2> HIDE DEF m
  <2>3. Built(k, w, s, input, Create(Start, "and", w, x, Const(m)), FALSE)
    BY <1>2, <1>3, <2>2
  <2>4. Built(k, w, s, input, g, pattern = 1 /\ w = 1)
    BY <1>8, <2>1, <2>3 DEF Built, Kept
  <2>5. QED
    BY <2>4
<1>9. QED
  BY <1>4, <1>5, <1>6, <1>7, <1>8

\* Mul2ToShl1.cpp:46-52: the shift gives what the multiplication gives.
LEMMA ToShlBuilt ==
  ASSUME Good(block, source), WellTyped(block), NEW k \in 1 .. Len(block), NEW input, InputOK(input),
         block[k].op = "mul", IsMulBy2(block[k])
  PROVE  LET s == Ran(Outset, block, input)[k - 1]
             I == block[k]
             t == Create(Start, "shl", I.w, I.args[3 - ConstantSide(I)], Const(1))
         IN  /\ Built(k, I.w, s, input, t, FALSE)
             /\ Has(k, I.w, s, input, t, t.a,
                    Compute("mul", ArgValue(s, I.args[1]), ArgValue(s, I.args[2]), I.w))
<1> DEFINE s == Ran(Outset, block, input)[k - 1]
           I == block[k]
           w == I.w
           p == ConstantSide(I)
           q == 3 - p
           x == I.args[q]
           v == ArgValue(s, x)
           t == Create(Start, "shl", w, x, Const(1))
<1>1. I.op \in Binary /\ w \in Nat \ {0} /\ "shl" \in Binary
  BY DEF WellTyped, Shaped, Binary
<1>2. Built(k, w, s, input, Start, FALSE)
  BY StartBuilt
<1>3. p \in 1 .. 2 /\ q \in 1 .. 2 /\ I.args[p] = Const(2) /\ (p = 1 => q = 2) /\ (p = 2 => q = 1)
  <2>1. p \in {0, 1, 2}
    BY DEF ConstantSide
  <2>2. p # 0 /\ I.args[p] = Const(2)
    BY DEF IsMulBy2
  <2> HIDE DEF p
  <2>3. QED
    BY <2>1, <2>2
<1> HIDE DEF p
<1>4. Has(k, w, s, input, Start, x, v) /\ Has(k, w, s, input, Start, Const(2), ArgValue(s, Const(2)))
  <2> HIDE DEF q
  <2>1. \A j \in 1 .. 2 : Has(k, block[k].w, s, input, Start, block[k].args[j], ArgValue(s, block[k].args[j]))
    BY <1>1, ArgsHave
  <2>2. QED
    BY <1>3, <2>1
<1>5. ArgValue(s, Const(2)) = 2
  BY DEF ArgValue, Const, IsConst
<1> HIDE DEF s, I, q
<1>6. InWord(2, w) /\ InWord(v, w) /\ v \in Nat
  <2>1. InWord(2, w) /\ InWord(v, w)
    BY <1>4, <1>5 DEF Has
  <2>2. QED
    BY <1>1, <2>1, TruncOfWord
<1>7. /\ ~Undefined("shl", v, 1, w)
      /\ Compute("shl", v, 1, w) = Compute("mul", v, 2, w)
      /\ Compute("shl", v, 1, w) = Compute("mul", 2, v, w)
  <2> HIDE DEF v, w
  <2>1. QED
    BY <1>1, <1>6, DoubleIsShift
<1>8. Has(k, w, s, input, Start, Const(1), 1)
  BY <1>1, TwoIs, ConstHas
<1>9. Grown(k, w, s, input, Start, t, FALSE \/ Undefined("shl", v, 1, w), Outcome("shl", v, 1, w))
  <2> HIDE DEF x, v, w
  <2>1. QED
    BY <1>1, <1>2, <1>4, <1>7, <1>8, CreateBuilt DEF I
<1> HIDE DEF t
<1>10. Built(k, w, s, input, t, FALSE) /\ Has(k, w, s, input, t, t.a, Outcome("shl", v, 1, w))
  <2>1. Built(k, w, s, input, t, FALSE \/ Undefined("shl", v, 1, w)) /\ Has(k, w, s, input, t, t.a, Outcome("shl", v, 1, w))
    BY <1>9 DEF Grown
  <2>2. QED
    BY <1>7, <2>1 DEF Built, Kept
<1>11. Outcome("shl", v, 1, w) = Compute("mul", ArgValue(s, I.args[1]), ArgValue(s, I.args[2]), w)
  <2>1. Outcome("shl", v, 1, w) = Compute("shl", v, 1, w)
    BY <1>7 DEF Outcome
  <2>2. CASE p = 1
    BY <1>3, <1>5, <1>7, <2>1, <2>2
  <2>3. CASE p = 2
    BY <1>3, <1>5, <1>7, <2>1, <2>3
  <2>4. QED
    BY <1>3, <2>2, <2>3
<1>12. QED
  BY <1>10, <1>11 DEF s, I, t, w, x, q, p

(* Whole blocks.                                                           *)
Alike(b, c, input, U, rep) ==
  /\ Run(c, input).trace = Run(b, input).trace
  /\ Run(c, input).reports = Printed(Run(b, input).reports, rep)
  /\ Run(c, input).undef <=> Run(b, input).undef \/ U

\* c is b with the code new in front of the k-th instruction, which is J now.
Inserted(b, c, k, new, J) ==
  /\ IsSeq(new) /\ IsSeq(c) /\ J.id = b[k].id /\ J.op = b[k].op /\ J.w = b[k].w
  /\ Edited(b, c, k, Append(new, J), b[k].id, Value(b[k].id))

LEMMA KeptRel ==
  ASSUME NEW s, NEW t, NEW U, Kept(s, t, U), NEW x, NEW m
  PROVE  Rel(s, t, x, Value(x), m, U, <<>>)
<1>1. ASSUME NEW n \in DOMAIN s.val PROVE Reads(t, Stand(x, Value(x), n), s.val[n])
  <2>1. Stand(x, Value(x), n) = Value(n)
    BY DEF Stand
  <2>2. n \in DOMAIN t.val /\ t.val[n] = s.val[n]
    BY DEF Kept, KeepsValues
  <2>3. QED
    BY <2>1, <2>2, OperandSorts DEF Reads
<1>2. QED
  BY <1>1 DEF Rel, Follows, SameMemory, Printed, Kept

\* What the k-th instruction reads where the values are those in front of it.
LEMMA ReadsSame ==
  ASSUME NEW b, NEW src, Good(b, src), WellTyped(b), NEW input, InputOK(input), NEW k \in 1 .. Len(b),
         NEW t, NEW x, Follows(Ran(Outset, b, input)[k - 1], t, x, Value(x))
  PROVE  Evaluated(t, b[k].args) = Evaluated(Ran(Outset, b, input)[k - 1], b[k].args)
<1> DEFINE s == Ran(Outset, b, input)[k - 1]
           args == b[k].args
<1>1. IsSeq(args)
  BY DEF Good, GoodInst
<1>2. \A j \in 1 .. Len(args) : Readable(s, b[k], args[j]) /\ IsOperand(args[j])
  BY ArgsThere
<1>3. Follows(s, t, x, Value(x))
  OBVIOUS
<1> HIDE DEF s, args
<1>4. \A z : IsOperand(z) /\ (IsConst(z) \/ z.n \in DOMAIN s.val) =>
               ArgValue(t, IF z = Value(x) THEN Value(x) ELSE z) = ArgValue(s, z)
  BY <1>3, ArgSame
<1>5. \A j \in 1 .. Len(args) : ArgValue(t, args[j]) = ArgValue(s, args[j])
  BY <1>2, <1>4 DEF Readable
<1>6. Evaluated(t, args) = Evaluated(s, args)
  BY <1>1, <1>5, EvaluatedSame
<1>7. QED
  BY <1>6 DEF s, args

LEMMA RunNext ==
  ASSUME NEW b, IsSeq(b), NEW input, NEW k \in 1 .. Len(b)
  PROVE  Ran(Outset, b, input)[k] = Exec(Ran(Outset, b, input)[k - 1], b[k], input)
BY RanIs DEF Steps

LEMMA InsertRel ==
  ASSUME NEW b, NEW src, Good(b, src), WellTyped(b), NEW input, InputOK(input), NEW k \in 1 .. Len(b),
         NEW new, IsSeq(new), NEW J, J.id = b[k].id, J.op = b[k].op, J.w = b[k].w,
         NEW m \in Nat \ {0}, Quiet(b, k - 1, m), NEW U, NEW rep, rep = <<>> \/ b[k].op # "report",
         LET s == Ran(Outset, b, input)[k - 1]
             t == After(s, new, input)
         IN  /\ Rel(s, t, b[k].id, Value(b[k].id), m, U, rep)
             /\ Evaluated(t, J.args) = Evaluated(s, b[k].args)
  PROVE  LET s == Ran(Outset, b, input)[k - 1]
         IN  Rel(Ran(Outset, b, input)[k], After(s, Append(new, J), input), b[k].id, Value(b[k].id), m, U, rep)
<1> DEFINE s == Ran(Outset, b, input)[k - 1]
           t == After(s, new, input)
           I == b[k]
           x == I.id
           X == Evaluated(s, I.args)
<1>1. After(s, Append(new, J), input) = Exec(t, J, input)
  BY AfterAppend
<1>2. Ran(Outset, b, input)[k] = Exec(s, I, input)
  BY RunNext DEF Good
<1>3. I.op = "load" => X[1] # -m
  <2>1. k \in (k - 1) + 1 .. Len(b)
    BY DEF Good, IsSeq
  <2>2. QED
    BY <2>1, QuietLoad DEF Quiet
<1>4. Rel(s, t, x, Value(x), m, U, rep) /\ Evaluated(t, J.args) = X
  OBVIOUS
<1>5. IsOperand(Value(x))
  BY OperandSorts
<1>6. J.id = I.id /\ J.op = I.op /\ J.w = I.w /\ I.id = x /\ (I.op = "report" => rep = <<>>)
  OBVIOUS
<1> DEFINE a == Value(x)
<1>7. I.op # "store" => (I.id = x <=> a = Value(I.id))
  OBVIOUS
<1> HIDE DEF s, t, I, x, X, a
<1>8. Rel(Exec(s, I, input), Exec(t, J, input), x, a, m, U, rep)
  BY <1>3, <1>4, <1>5, <1>6, <1>7, RelStep DEF X, a
<1>9. QED
  BY <1>1, <1>2, <1>8 DEF s, t, I, x, a

LEMMA InsertAlike ==
  ASSUME NEW b, NEW src, Good(b, src), WellTyped(b), NEW input, InputOK(input), NEW k \in 1 .. Len(b),
         NEW c, NEW new, NEW J, Inserted(b, c, k, new, J),
         NEW m \in Nat \ {0}, Quiet(b, k - 1, m), NEW U, NEW rep,
         rep = <<>> \/ (k = Len(b) /\ b[k].op # "report"),
         LET s == Ran(Outset, b, input)[k - 1]
             t == After(s, new, input)
         IN  /\ Rel(s, t, b[k].id, Value(b[k].id), m, U, rep)
             /\ Evaluated(t, J.args) = Evaluated(s, b[k].args)
  PROVE  Alike(b, c, input, U, rep)
<1> DEFINE s == Ran(Outset, b, input)[k - 1]
           core == Append(new, J)
           x == b[k].id
           a == Value(x)
<1>1. IsSeq(new) /\ IsSeq(c) /\ J.id = b[k].id /\ J.op = b[k].op /\ J.w = b[k].w /\ Edited(b, c, k, core, x, a)
  BY DEF Inserted
<1>2. Rel(Ran(Outset, b, input)[k], After(s, core, input), x, a, m, U, rep)
  <2>1. rep = <<>> \/ b[k].op # "report"
    OBVIOUS
  <2>2. QED
    BY <1>1, <2>1, InsertRel
<1>3. IsSeq(core)
  BY <1>1, AppendIs
<1>4. Settled(b, k, a)
  <2>1. \A i \in k + 1 .. Len(b) : i \in 1 .. Len(b) /\ i # k
    BY DEF Good, IsSeq
  <2>2. QED
    BY <2>1, OperandSorts DEF Settled, Good, Distinct
<1>5. Quiet(b, k, m)
  <2>1. \A i \in k + 1 .. Len(b) : i \in (k - 1) + 1 .. Len(b)
    BY DEF Good, IsSeq
  <2>2. QED
    BY <2>1 DEF Quiet
<1> HIDE DEF core, a
<1>6. Rel(Run(b, input), Run(c, input), b[k].id, a, m, U, rep)
  BY <1>1, <1>2, <1>3, <1>4, <1>5, Simulates
<1>7. QED
  BY <1>6 DEF Rel, Alike

LEMMA InsertTyped ==
  ASSUME NEW b, NEW src, Good(b, src), WellTyped(b), NEW k \in 1 .. Len(b),
         NEW c, NEW new, NEW J, Inserted(b, c, k, new, J), CodeTyped(b, k, new), Len(J.args) = Len(b[k].args),
         \A j \in 1 .. Len(J.args) : Fed(b, k - 1, J.args[j], J) \/ Fed(new, Len(new), J.args[j], J)
  PROVE  WellTyped(c)
<1> DEFINE core == Append(new, J)
           x == b[k].id
           a == Value(x)
           n == Len(new)
<1>1. IsSeq(new) /\ J.id = b[k].id /\ J.op = b[k].op /\ J.w = b[k].w /\ Edited(b, c, k, core, x, a)
  BY DEF Inserted
<1>2. Shaped(J)
  BY <1>1 DEF WellTyped, Shaped
<1>3. CodeTyped(b, k, core)
  BY <1>1, <1>2, TypedGrows
<1>4. IsSeq(core) /\ Len(core) = n + 1 /\ core[n + 1] = J /\ n \in Nat
  BY <1>1, AppendIs DEF IsSeq
<1>5. ~IsConst(a) /\ a.n = x
  BY OperandSorts
<1>6. n + 1 \in 1 .. Len(core)
  BY <1>4
<1> HIDE DEF core, a
<1>7. Stands(b, k, core, a, b[k])
  BY <1>1, <1>4, <1>5, <1>6 DEF Stands
<1>8. QED
  BY <1>1, <1>3, <1>4, <1>7, EditTyped

\* An instruction inserted, the one behind it as it was.
LEMMA BeforeInserted ==
  ASSUME NEW b, NEW src, Good(b, src), NEW k \in 1 .. Len(b), NEW new, IsSeq(new)
  PROVE  /\ Inserted(b, Before(b, k, new), k, new, b[k])
         /\ WellTyped(b) => \A j \in 1 .. Len(b[k].args) : Fed(b, k - 1, b[k].args[j], b[k])
<1>1. Edited(b, Before(b, k, new), k, Append(new, b[k]), b[k].id, Value(b[k].id))
  BY InsertEdited
<1>2. IsSeq(Before(b, k, new))
  BY BeforeIs DEF Good
<1>3. QED
  BY <1>1, <1>2 DEF Inserted, WellTyped

\* No slot is that of an instruction yet to come.
LEMMA FreshQuiet ==
  ASSUME Good(block, source), NEW k \in Nat
  PROVE  Fresh \in Nat \ {0} /\ Quiet(block, k, Fresh)
<1>1. Len(block) \in Nat /\ Len(block) >= 1
  BY DEF Good, IsSeq
<1>2. Fresh \in Nat /\ \A i \in 1 .. Len(block) : block[i].id \in Nat /\ block[i].id < Fresh
  BY FreshIs DEF Good, GoodInst
<1>3. Fresh # 0
  <2>1. 1 \in 1 .. Len(block)
    BY <1>1
  <2>2. block[1].id \in Nat /\ block[1].id < Fresh
    BY <1>2, <2>1
  <2>3. QED
    BY <1>2, <2>2
<1>4. ASSUME NEW i \in 1 .. Len(block), NEW j \in 1 .. Len(block[i].args), block[i].args[j] = Value(Fresh)
      PROVE  FALSE
  <2>1. ~IsConst(block[i].args[j]) /\ block[i].args[j].n = Fresh
    BY <1>4, OperandSorts
  <2>2. Defined(block, i, Fresh)
    BY <2>1 DEF Good, UsesDefined
  <2>3. PICK l \in 1 .. i - 1 : block[l].id = Fresh
    BY <2>2 DEF Defined
  <2>4. l \in 1 .. Len(block)
    BY <1>1
  <2>5. block[l].id < Fresh
    BY <1>2, <2>4
  <2>6. QED
    BY <1>2, <2>3, <2>5
<1>5. \A i \in k + 1 .. Len(block) : i \in 1 .. Len(block)
  BY <1>1
<1>6. QED
  BY <1>2, <1>3, <1>4, <1>5 DEF Quiet

\* Operations inserted.
LEMMA BuiltAlike ==
  ASSUME Good(block, source), WellTyped(block), NEW k \in 1 .. Len(block), NEW input, InputOK(input),
         NEW w, NEW st, NEW U, Built(k, w, Ran(Outset, block, input)[k - 1], input, st, U)
  PROVE  Alike(block, Before(block, k, st.code), input, U, <<>>) /\ WellTyped(Before(block, k, st.code))
<1> DEFINE s == Ran(Outset, block, input)[k - 1]
           new == st.code
           t == After(s, new, input)
           c == Before(block, k, new)
           x == block[k].id
<1>1. IsSeq(new) /\ CodeTyped(block, k, new) /\ Kept(s, t, U)
  BY DEF Built, Made, NewCode
<1>2. Inserted(block, c, k, new, block[k]) /\ \A j \in 1 .. Len(block[k].args) : Fed(block, k - 1, block[k].args[j], block[k])
  BY <1>1, BeforeInserted
<1>3. Fresh \in Nat \ {0} /\ Quiet(block, k - 1, Fresh)
  BY FreshQuiet
<1>4. Rel(s, t, x, Value(x), Fresh, U, <<>>)
  BY <1>1, KeptRel
<1>5. Evaluated(t, block[k].args) = Evaluated(s, block[k].args)
  BY <1>4, ReadsSame DEF Rel
<1>6. Alike(block, c, input, U, <<>>)
  BY <1>2, <1>3, <1>4, <1>5, InsertAlike
<1>7. WellTyped(c)
  BY <1>1, <1>2, InsertTyped
<1>8. QED
  BY <1>6, <1>7

\* An operation executed, and code that gives its value.
LEMMA OperationRun ==
  ASSUME NEW b, NEW src, Good(b, src), WellTyped(b), NEW k \in 1 .. Len(b), NEW input, InputOK(input),
         b[k].op \in Total
  PROVE  LET s == Ran(Outset, b, input)[k - 1]
             t == Ran(Outset, b, input)[k]
             I == b[k]
         IN  /\ I.id \notin DOMAIN s.val
             /\ Updated(t.val, s.val, I.id, Compute(I.op, ArgValue(s, I.args[1]), ArgValue(s, I.args[2]), I.w))
             /\ t.mem = s.mem /\ t.trace = s.trace /\ t.reports = s.reports /\ (t.undef <=> s.undef)
<1> DEFINE s == Ran(Outset, b, input)[k - 1]
           t == Ran(Outset, b, input)[k]
           I == b[k]
           X == Evaluated(s, I.args)
           r == Result(s.mem, I, X, Given(I, input))
<1>1. Len(b) \in Nat /\ IsSeq(b) /\ k - 1 \in 0 .. Len(b)
  BY DEF Good, IsSeq
<1>2. t = Exec(s, I, input)
  BY <1>1, RunNext
<1>3. Sound(s, b, k - 1)
  BY <1>1, SoundRun
<1>4. I.id \notin DOMAIN s.val
  <2>1. \A l \in 1 .. k - 1 : l \in 1 .. Len(b) /\ l # k
    BY <1>1
  <2>2. \A l \in 1 .. k - 1 : b[l].id # b[k].id
    BY <2>1 DEF Good, Distinct
  <2>3. QED
    BY <1>3, <2>2 DEF Sound
<1>5. I.op \in Binary /\ I.op # "store" /\ I.op \notin Seen /\ I.op # "report" /\ \A x, y : ~Undefined(I.op, x, y, I.w)
  BY DEF Total, Binary, Seen, Terminators, Undefined
<1>6. IsSeq(I.args) /\ Len(I.args) = 2
  BY <1>5 DEF Good, GoodInst
<1>7. Effect(s, I, X, r, Exec(s, I, input))
  BY ExecIs
<1> HIDE DEF s, t, I
<1>8. X[1] = ArgValue(s, I.args[1]) /\ X[2] = ArgValue(s, I.args[2])
  <2>1. \A j \in 1 .. Len(I.args) : X[j] = ArgValue(s, I.args[j])
    BY <1>6, EvaluatedIs
  <2>2. 1 \in 1 .. 2 /\ 2 \in 1 .. 2
    OBVIOUS
  <2>3. QED
    BY <1>6, <2>1, <2>2
<1> HIDE DEF X
<1>9. r = Compute(I.op, X[1], X[2], I.w)
  BY <1>5, ResultIs DEF Outcome
<1> HIDE DEF r
<1>10. Updated(t.val, s.val, I.id, r) /\ t.mem = s.mem /\ t.trace = s.trace /\ t.reports = s.reports /\ (t.undef <=> s.undef)
  BY <1>2, <1>5, <1>7 DEF Effect
<1>11. QED
  BY <1>4, <1>8, <1>9, <1>10 DEF s, t, I

\* What the operation at k leaves behind, code that has its value leaves behind.
LEMMA BuiltRel ==
  ASSUME Good(block, source), WellTyped(block), NEW k \in 1 .. Len(block), NEW input, InputOK(input),
         block[k].op \in Total, NEW st, NEW w, NEW m,
         LET s == Ran(Outset, block, input)[k - 1]
             I == block[k]
         IN  /\ Built(k, w, s, input, st, FALSE)
             /\ Has(k, w, s, input, st, st.a, Compute(I.op, ArgValue(s, I.args[1]), ArgValue(s, I.args[2]), I.w))
  PROVE  Rel(Ran(Outset, block, input)[k], After(Ran(Outset, block, input)[k - 1], st.code, input),
             block[k].id, st.a, m, FALSE, <<>>)
<1> DEFINE s == Ran(Outset, block, input)[k - 1]
           s2 == Ran(Outset, block, input)[k]
           I == block[k]
           x == I.id
           a == st.a
           t == After(s, st.code, input)
           v == Compute(I.op, ArgValue(s, I.args[1]), ArgValue(s, I.args[2]), I.w)
<1>1. /\ x \notin DOMAIN s.val /\ Updated(s2.val, s.val, x, v)
      /\ s2.mem = s.mem /\ s2.trace = s.trace /\ s2.reports = s.reports /\ (s2.undef <=> s.undef)
  BY OperationRun
<1>2. Kept(s, t, FALSE) /\ Reads(t, a, v)
  BY DEF Built, Has
<1> HIDE DEF s, s2, t, v, x, a
<1>3. ASSUME NEW n \in DOMAIN s2.val PROVE Reads(t, Stand(x, a, n), s2.val[n])
  <2>1. CASE n = x
    <3>1. Stand(x, a, n) = a /\ s2.val[n] = v
      BY <1>1, <2>1 DEF Stand, Updated
    <3>2. QED
      BY <1>2, <3>1
  <2>2. CASE n # x
    <3>1. Stand(x, a, n) = Value(n) /\ n \in DOMAIN s.val /\ s2.val[n] = s.val[n]
      BY <1>1, <2>2 DEF Stand, Updated
    <3>2. n \in DOMAIN t.val /\ t.val[n] = s.val[n]
      BY <1>2, <3>1 DEF Kept, KeepsValues
    <3>3. QED
      BY <3>1, <3>2, OperandSorts DEF Reads
  <2>3. QED
    BY <2>1, <2>2
<1>4. SameMemory(s2, t, m) /\ t.trace = s2.trace /\ t.reports = Printed(s2.reports, <<>>) /\ (t.undef <=> s2.undef \/ FALSE)
  BY <1>1, <1>2 DEF Kept, SameMemory, Printed
<1>5. Rel(s2, t, x, a, m, FALSE, <<>>)
  BY <1>3, <1>4 DEF Rel, Follows
<1>6. QED
  BY <1>5 DEF s, s2, t, x, a

\* An operand that was made or is there in front of k settles.
LEMMA AvailSettled ==
  ASSUME Good(block, source), NEW k \in 1 .. Len(block), NEW st, Made(k, st)
  PROVE  Settled(block, k, st.a) /\ st.a # Value(block[k].id)
<1>1. Avail(k, st.code, st.a) /\ IsOperand(st.a) /\ Len(block) \in Nat
  BY DEF Made, Avail, Good, IsSeq
<1>2. ASSUME NEW i \in k .. Len(block), st.a = Value(block[i].id) PROVE FALSE
  <2>1. ~IsConst(st.a) /\ st.a.n = block[i].id /\ i \in 1 .. Len(block)
    BY <1>1, <1>2, OperandSorts
  <2>2. ~Defined(block, k, block[i].id)
    <3>1. \A l \in 1 .. k - 1 : l \in 1 .. Len(block) /\ l # i
      BY <1>1, <1>2
    <3>2. QED
      BY <2>1, <3>1 DEF Good, Distinct, Defined
  <2>3. Defined(st.code, Len(st.code) + 1, block[i].id)
    BY <1>1, <2>1, <2>2 DEF Avail
  <2>4. PICK l \in 1 .. (Len(st.code) + 1) - 1 : st.code[l].id = block[i].id
    BY <2>3 DEF Defined
  <2>5. l \in 1 .. Len(st.code)
    BY DEF Made, NewCode, IsSeq
  <2>6. QED
    BY <2>1, <2>4, <2>5 DEF Made, NewCode
<1>3. k \in k .. Len(block) /\ \A i \in k + 1 .. Len(block) : i \in k .. Len(block)
  BY <1>1
<1>4. QED
  BY <1>1, <1>2, <1>3 DEF Settled

LEMMA HasStands ==
  ASSUME NEW k, NEW s, NEW input, NEW st, NEW v, NEW I, I.op \in Binary, Has(k, I.w, s, input, st, st.a, v),
         Arithmetic(st.code, I.w)
  PROVE  Stands(block, k, st.code, st.a, I)
<1>1. IsIntegerTy(I) /\ \A i \in 1 .. Len(st.code) : IsIntegerTy(st.code[i]) /\ st.code[i].w = I.w
  BY DEF IsIntegerTy, Arithmetic
<1>2. QED
  BY <1>1 DEF Stands, Has, Integral

\* inst_sub.cc: the operation gives way to the code.
LEMMA SubstitutedAlike ==
  ASSUME Good(block, source), WellTyped(block), NEW k \in 1 .. Len(block), NEW input, InputOK(input),
         block[k].op \in {"add", "sub", "mul"}, NEW dice \in {0, 1}
  PROVE  LET st == Substitution(block[k], dice)
             r == replaceAllUsesWith(Before(block, k, st.code), block[k].id, st.a)
             c == RemoveAt(r, k + Len(st.code))
         IN  IsSeq(r) => Alike(block, c, input, FALSE, <<>>) /\ WellTyped(c)
<1> DEFINE I == block[k]
           x == I.id
           st == Substitution(I, dice)
           new == st.code
           a == st.a
           r == replaceAllUsesWith(Before(block, k, new), x, a)
           c == RemoveAt(r, k + Len(new))
           s == Ran(Outset, block, input)[k - 1]
           v == Compute(I.op, ArgValue(s, I.args[1]), ArgValue(s, I.args[2]), I.w)
<1>1. SUFFICES ASSUME IsSeq(r) PROVE Alike(block, c, input, FALSE, <<>>) /\ WellTyped(c)
  OBVIOUS
<1>2. Built(k, I.w, s, input, st, FALSE) /\ Has(k, I.w, s, input, st, a, v)
  BY SubstitutionBuilt
<1>3. I.op \in Total /\ I.op \in Binary /\ I.op # "phi"
  BY DEF Total, Binary
<1> HIDE DEF st
<1>4. Made(k, st) /\ CodeTyped(block, k, new) /\ Arithmetic(new, I.w) /\ NewCode(block, k, new)
  BY <1>2 DEF Built, Made
<1>5. Edited(block, c, k, new, x, a) /\ IsSeq(new) /\ k + Len(new) \in 1 .. Len(r)
  BY <1>1, <1>3, <1>4, SupersedeEdited
<1>6. IsSeq(c)
  <2> DEFINE q == k + Len(new)
  <2> HIDE DEF r
  <2>1. q \in 1 .. Len(r)
    BY <1>5
  <2> HIDE DEF q
  <2>2. IsSeq(RemoveAt(r, q))
    BY <1>1, <2>1, RemoveAtIs
  <2>3. QED
    BY <2>2 DEF q
<1> HIDE DEF c, r
<1>7. WellTyped(c)
  <2>1. Stands(block, k, new, a, I)
    BY <1>2, <1>3, <1>4, HasStands
  <2>2. QED
    BY <1>4, <1>5, <2>1, EditTyped
<1>8. Alike(block, c, input, FALSE, <<>>)
  <2>1. Settled(block, k, a)
    BY <1>4, AvailSettled
  <2>2. Fresh \in Nat \ {0} /\ Quiet(block, k, Fresh)
    BY FreshQuiet
  <2>3. Rel(Ran(Outset, block, input)[k], After(s, new, input), x, a, Fresh, FALSE, <<>>)
    BY <1>2, <1>3, BuiltRel
  <2> HIDE DEF new, a
  <2> DEFINE U == FALSE
             rep == <<>>
  <2>4. rep = <<>> \/ k = Len(block)
    OBVIOUS
  <2>5. Rel(Ran(Outset, block, input)[k], After(Ran(Outset, block, input)[k - 1], new, input), block[k].id, a, Fresh, U, rep)
    BY <2>3
  <2> HIDE DEF U, rep, I
  <2>6. Edited(block, c, k, new, block[k].id, a)
    BY <1>5 DEF I
  <2>7. IsSeq(new)
    BY <1>5
  <2>8. Rel(Run(block, input), Run(c, input), block[k].id, a, Fresh, U, rep)
    BY <1>6, <2>1, <2>2, <2>4, <2>5, <2>6, <2>7, Simulates
  <2>9. QED
    BY <2>8 DEF Rel, Alike, U, rep
<1>9. QED
  BY <1>7, <1>8 DEF c, r

\* Mul2ToShl1.cpp: the shift in front of the multiplication, and used in its place.
LEMMA ShiftedAlike ==
  ASSUME Good(block, source), WellTyped(block), NEW k \in 1 .. Len(block), NEW input, InputOK(input),
         block[k].op = "mul", IsMulBy2(block[k])
  PROVE  LET I == block[k]
             st == Create(Start, "shl", I.w, I.args[3 - ConstantSide(I)], Const(1))
             c == replaceAllUsesWith(Before(block, k, st.code), I.id, st.a)
         IN  IsSeq(c) => Alike(block, c, input, FALSE, <<>>) /\ WellTyped(c)
<1> DEFINE I == block[k]
           x == I.id
           st == Create(Start, "shl", I.w, I.args[3 - ConstantSide(I)], Const(1))
           new == st.code
           a == st.a
           core == Append(new, I)
           c == replaceAllUsesWith(Before(block, k, new), x, a)
           s == Ran(Outset, block, input)[k - 1]
           v == Compute("mul", ArgValue(s, I.args[1]), ArgValue(s, I.args[2]), I.w)
<1>1. SUFFICES ASSUME IsSeq(c) PROVE Alike(block, c, input, FALSE, <<>>) /\ WellTyped(c)
  OBVIOUS
<1>2. Built(k, I.w, s, input, st, FALSE) /\ Has(k, I.w, s, input, st, a, v)
  BY ToShlBuilt
<1>3. I.op \in Total /\ I.op \in Binary /\ I.op # "phi" /\ I.op = "mul"
  BY DEF Total, Binary
<1> HIDE DEF st
<1>4. /\ Made(k, st) /\ CodeTyped(block, k, new) /\ Arithmetic(new, I.w) /\ NewCode(block, k, new)
      /\ Kept(s, After(s, new, input), FALSE)
  BY <1>2 DEF Built, Made
<1>5. /\ Edited(block, c, k, core, x, a) /\ IsSeq(new) /\ IsSeq(core)
      /\ Len(core) = Len(new) + 1 /\ core[Len(new) + 1] = I /\ \A i \in 1 .. Len(new) : core[i] = new[i]
  <2> DEFINE y == block[k].id
             cc == Append(new, block[k])
             d == replaceAllUsesWith(Before(block, k, new), y, a)
  <2>1. /\ IsSeq(new) /\ IsSeq(cc) /\ Len(cc) = Len(new) + 1 /\ cc[Len(new) + 1] = block[k]
        /\ \A i \in 1 .. Len(new) : cc[i] = new[i]
        /\ Edited(block, d, k, cc, y, a)
        /\ k + Len(new) \in 1 .. Len(d)
        /\ IsSeq(d) => Edited(block, RemoveAt(d, k + Len(new)), k, new, y, a)
    <3> HIDE DEF new, a
    <3>1. block[k].op # "phi" /\ NewCode(block, k, new)
      BY <1>3, <1>4
    <3> HIDE DEF I
    <3>2. QED
      BY <3>1, SupersedeEdited
  <2>2. cc = core /\ d = c /\ y = x
    OBVIOUS
  <2> HIDE DEF cc, d, y, core, c, x
  <2>3. QED
    BY <2>1, <2>2
<1> HIDE DEF c
<1>6. WellTyped(c)
  <2>1. Stands(block, k, new, a, I)
    BY <1>2, <1>3, <1>4, HasStands
  <2>2. Stands(block, k, core, a, I)
    <3>1. \A i \in 1 .. Len(new) : i \in 1 .. Len(core)
      BY <1>5 DEF IsSeq
    <3> HIDE DEF core, new, a, I
    <3>2. QED
      BY <1>5, <2>1, <3>1 DEF Stands
  <2>3. Shaped(I) /\ \A j \in 1 .. Len(I.args) : Fed(block, k - 1, I.args[j], I)
    BY DEF WellTyped
  <2>4. CodeTyped(block, k, core)
    BY <1>4, <1>5, <2>3, TypedGrows
  <2>5. QED
    BY <1>5, <2>2, <2>4, EditTyped
<1>7. Alike(block, c, input, FALSE, <<>>)
  <2> DEFINE U == FALSE
             rep == <<>>
             t == After(s, new, input)
             t2 == After(s, core, input)
             s2 == Ran(Outset, block, input)[k]
  <2>1. Settled(block, k, a) /\ a # Value(x)
    BY <1>4, AvailSettled
  <2>2. Fresh \in Nat \ {0} /\ Quiet(block, k, Fresh) /\ Quiet(block, k - 1, Fresh)
    BY FreshQuiet
  <2>3. Rel(s, t, x, Value(x), Fresh, U, rep)
    BY <1>4, KeptRel
  <2>4. Evaluated(t, I.args) = Evaluated(s, I.args)
    BY <2>3, ReadsSame DEF Rel
  <2>5. Rel(s2, t2, x, Value(x), Fresh, U, rep)
    <3>1. rep = <<>> \/ block[k].op # "report"
      OBVIOUS
    <3> HIDE DEF U, rep
    <3>2. QED
      BY <1>5, <2>2, <2>3, <2>4, <3>1, InsertRel
  <2>6. /\ x \notin DOMAIN s.val /\ Updated(s2.val, s.val, x, v)
    BY <1>3, OperationRun
  <2>7. Reads(t, a, v)
    BY <1>2 DEF Has
  <2>8. t2 = Exec(t, I, input)
    BY <1>5, AfterAppend
  <2> HIDE DEF U, rep, t, t2, s2, s, core, a, v, I
  <2>9. PICK r : Updated(t2.val, t.val, I.id, r)
    <3>1. Effect(t, I, Evaluated(t, I.args), Result(t.mem, I, Evaluated(t, I.args), Given(I, input)), t2)
      BY <2>8, ExecIs
    <3>2. QED
      BY <1>3, <3>1 DEF Effect
  <2>10. Reads(t2, a, v)
    <3>1. CASE IsConst(a)
      BY <2>7, <3>1 DEF Reads
    <3>2. CASE ~IsConst(a)
      <4>1. a.n # I.id
        BY <2>1, <3>2, OperandIs DEF Settled
      <4>2. QED
        BY <2>7, <2>9, <3>2, <4>1 DEF Reads, Updated
    <3>3. QED
      BY <3>1, <3>2
  <2>11. Follows(s2, t2, x, a)
    <3>1. ASSUME NEW n \in DOMAIN s2.val PROVE Reads(t2, Stand(x, a, n), s2.val[n])
      <4>1. Reads(t2, Stand(x, Value(x), n), s2.val[n])
        BY <2>5 DEF Rel, Follows
      <4>2. CASE n = x
        BY <2>6, <2>10, <4>2 DEF Stand, Updated
      <4>3. CASE n # x
        BY <4>1, <4>3 DEF Stand
      <4>4. QED
        BY <4>2, <4>3
    <3>2. QED
      BY <3>1 DEF Follows
  <2>12. Rel(s2, t2, x, a, Fresh, U, rep)
    BY <2>5, <2>11 DEF Rel
  <2>13. rep = <<>> \/ k = Len(block)
    BY DEF rep
  <2>14. Rel(Run(block, input), Run(c, input), x, a, Fresh, U, rep)
    <3>1. Rel(Ran(Outset, block, input)[k], After(Ran(Outset, block, input)[k - 1], core, input), block[k].id, a, Fresh, U, rep)
      BY <2>12 DEF s2, t2, s, I
    <3>2. Edited(block, c, k, core, block[k].id, a)
      BY <1>5 DEF I
    <3>3. Rel(Run(block, input), Run(c, input), block[k].id, a, Fresh, U, rep)
      BY <1>1, <1>5, <2>1, <2>2, <2>13, <3>1, <3>2, Simulates
    <3>4. QED
      BY <3>3 DEF I
  <2>15. QED
    BY <2>14 DEF Rel, Alike, U, rep
<1>8. QED
  BY <1>6, <1>7 DEF c

\* Mul2ToShl1.cpp:64-66: a multiplication erased that nothing uses any more.
LEMMA ErasedAlike ==
  ASSUME Good(block, source), WellTyped(block), NEW k \in 1 .. Len(block), NEW input, InputOK(input),
         block[k].op = "mul", Unused(block, block[k].id)
  PROVE  Alike(block, RemoveAt(block, k), input, FALSE, <<>>) /\ WellTyped(RemoveAt(block, k))
<1> DEFINE I == block[k]
           x == I.id
           c == RemoveAt(block, k)
           s == Ran(Outset, block, input)[k - 1]
           v == Compute(I.op, ArgValue(s, I.args[1]), ArgValue(s, I.args[2]), I.w)
           st == [code |-> <<>>, a |-> Const(v)]
<1>1. I.op \in Total /\ I.op \in Binary /\ IsIntegerTy(I) /\ I.w \in Nat \ {0}
  BY DEF Total, Binary, IsIntegerTy, WellTyped, Shaped
<1>2. IsSeq(c) /\ IsSeq(<<>>) /\ Len(<<>>) = 0
  BY RemoveAtIs, EmptyIs DEF Good
<1>3. \A a : Edited(block, c, k, <<>>, x, a)
  BY EraseEdited
<1> HIDE DEF c
<1>4. WellTyped(c)
  <2>1. Stands(block, k, <<>>, Const(0), I)
    <3>1. IsConst(Const(0)) /\ Const(0).n = 0 /\ InWord(0, I.w)
      BY <1>1, TwoIs, OperandSorts DEF Const
    <3>2. QED
      BY <1>1, <3>1 DEF Stands
  <2>2. CodeTyped(block, k, <<>>)
    BY <1>2 DEF CodeTyped
  <2>3. QED
    BY <1>2, <1>3, <2>1, <2>2, EditTyped
<1>5. Built(k, I.w, s, input, Start, FALSE) /\ Start.code = <<>>
  BY StartBuilt, StartMade
<1>6. InWord(v, I.w)
  <2>1. 1 \in 1 .. 2 /\ 2 \in 1 .. 2
    OBVIOUS
  <2>2. \A j \in 1 .. 2 : Has(k, I.w, s, input, Start, I.args[j], ArgValue(s, I.args[j]))
    BY <1>1, ArgsHave
  <2> DEFINE y == ArgValue(s, I.args[1])
             z == ArgValue(s, I.args[2])
             w == I.w
             op == I.op
  <2>3. InWord(y, w) /\ InWord(z, w)
    BY <2>1, <2>2 DEF Has
  <2>4. w \in Nat /\ op \in Binary /\ ~Undefined(op, y, z, w)
    BY <1>1 DEF Total, Undefined
  <2> HIDE DEF y, z, w, op
  <2>5. InWord(Compute(op, y, z, w), w)
    BY <2>3, <2>4, ComputeWord
  <2>6. QED
    BY <2>5 DEF y, z, w, op
<1> HIDE DEF v
<1>7. st.code = <<>> /\ st.a = Const(v) /\ st = [code |-> st.code, a |-> st.a]
  OBVIOUS
<1> HIDE DEF st
<1>8. Made(k, st)
  BY <1>5, <1>7, ConstAvail DEF Built, Made
<1>9. Built(k, I.w, s, input, st, FALSE)
  BY <1>5, <1>7, <1>8 DEF Built
<1>10. Has(k, I.w, s, input, st, st.a, v)
  BY <1>6, <1>7, ConstHas
<1>11. Rel(Ran(Outset, block, input)[k], After(s, st.code, input), x, st.a, Fresh, FALSE, <<>>)
  BY <1>1, <1>9, <1>10, BuiltRel DEF v
<1>12. Settled(block, k, st.a)
  BY <1>8, AvailSettled
<1>13. Fresh \in Nat \ {0} /\ Quiet(block, k, Fresh)
  BY FreshQuiet
<1>14. Alike(block, c, input, FALSE, <<>>)
  <2> DEFINE U == FALSE
             rep == <<>>
             core == <<>>
             a == st.a
  <2>1. /\ rep = <<>> \/ k = Len(block)
        /\ IsSeq(core) /\ Edited(block, c, k, core, block[k].id, a) /\ Settled(block, k, a)
        /\ Rel(Ran(Outset, block, input)[k], After(Ran(Outset, block, input)[k - 1], core, input), block[k].id, a, Fresh, U, rep)
    BY <1>2, <1>3, <1>7, <1>11, <1>12
  <2> HIDE DEF U, rep, core, a, I
  <2>2. Rel(Run(block, input), Run(c, input), block[k].id, a, Fresh, U, rep)
    BY <1>2, <1>13, <2>1, Simulates
  <2>3. QED
    BY <2>2 DEF Rel, Alike, U, rep
<1>15. QED
  BY <1>4, <1>14 DEF c

(* Code that keeps a slot of its own.                                      *)

\* t has all that s has, and may have a value at the address -m.
Hidden(s, t, m) ==
  /\ KeepsValues(s, t) /\ SameMemory(s, t, m)
  /\ t.trace = s.trace /\ t.reports = s.reports /\ (t.undef <=> s.undef)

LEMMA HiddenRel ==
  ASSUME NEW s, NEW t, NEW m, Hidden(s, t, m), NEW x
  PROVE  Rel(s, t, x, Value(x), m, FALSE, <<>>)
<1>1. ASSUME NEW n \in DOMAIN s.val PROVE Reads(t, Stand(x, Value(x), n), s.val[n])
  <2>1. Stand(x, Value(x), n) = Value(n)
    BY DEF Stand
  <2>2. n \in DOMAIN t.val /\ t.val[n] = s.val[n]
    BY DEF Hidden, KeepsValues
  <2>3. QED
    BY <2>1, <2>2, OperandSorts DEF Reads
<1>2. t.reports = Printed(s.reports, <<>>)
  BY DEF Hidden, Printed
<1>3. QED
  BY <1>1, <1>2 DEF Rel, Follows, Hidden

LEMMA HiddenSelf ==
  ASSUME NEW s, NEW m
  PROVE  Hidden(s, s, m)
BY DEF Hidden, KeepsValues, SameMemory

LEMMA KeepsMore ==
  ASSUME NEW s, NEW t, NEW u, KeepsValues(s, t), NEW n, n \notin DOMAIN s.val, NEW v, Updated(u.val, t.val, n, v)
  PROVE  KeepsValues(s, u)
BY DEF KeepsValues, Updated

\* An instruction with one operand or two.
Monadic(I, id, op, w, x) ==
  I.id = id /\ I.op = op /\ I.w = w /\ IsSeq(I.args) /\ Len(I.args) = 1 /\ I.args[1] = x
Dyadic(I, id, op, w, x, y) ==
  /\ I.id = id /\ I.op = op /\ I.w = w
  /\ IsSeq(I.args) /\ Len(I.args) = 2 /\ I.args[1] = x /\ I.args[2] = y

LEMMA MonadicIs ==
  ASSUME NEW id, NEW op, NEW w, NEW x
  PROVE  Monadic(Inst(id, op, w, <<x>>), id, op, w, x)
<1> DEFINE args == <<x>>
<1>1. IsSeq(args) /\ Len(args) = 1 /\ args[1] = x
  BY SingleIs
<1> HIDE DEF args
<1>2. Monadic(Inst(id, op, w, args), id, op, w, x)
  BY <1>1 DEF Inst, Monadic
<1>3. QED
  BY <1>2 DEF args

LEMMA DyadicIs ==
  ASSUME NEW id, NEW op, NEW w, NEW x, NEW y
  PROVE  Dyadic(Inst(id, op, w, <<x, y>>), id, op, w, x, y)
<1> DEFINE args == <<x, y>>
<1>1. IsSeq(args) /\ Len(args) = 2 /\ args[1] = x /\ args[2] = y
  BY PairIs
<1> HIDE DEF args
<1>2. Dyadic(Inst(id, op, w, args), id, op, w, x, y)
  BY <1>1 DEF Inst, Dyadic
<1>3. QED
  BY <1>2 DEF args

LEMMA MonadicReads ==
  ASSUME NEW t, NEW I, NEW id, NEW op, NEW w, NEW x, Monadic(I, id, op, w, x)
  PROVE  Evaluated(t, I.args)[1] = ArgValue(t, x)
<1>1. IsSeq(I.args) /\ I.args[1] = x /\ 1 \in 1 .. Len(I.args)
  BY DEF Monadic
<1>2. QED
  BY <1>1, EvaluatedIs

LEMMA DyadicReads ==
  ASSUME NEW t, NEW I, NEW id, NEW op, NEW w, NEW x, NEW y, Dyadic(I, id, op, w, x, y)
  PROVE  Evaluated(t, I.args)[1] = ArgValue(t, x) /\ Evaluated(t, I.args)[2] = ArgValue(t, y)
<1>1. IsSeq(I.args) /\ I.args[1] = x /\ I.args[2] = y /\ Len(I.args) = 2
  BY DEF Dyadic
<1>2. 1 \in 1 .. 2 /\ 2 \in 1 .. 2
  OBVIOUS
<1>3. 1 \in 1 .. Len(I.args) /\ 2 \in 1 .. Len(I.args)
  BY <1>1, <1>2
<1>4. QED
  BY <1>1, <1>3, EvaluatedIs

LEMMA AllocaRun ==
  ASSUME NEW s, NEW t, NEW m, Hidden(s, t, m), NEW I, NEW id, id \notin DOMAIN s.val, NEW w, NEW x,
         Monadic(I, id, "alloca", w, x), NEW input
  PROVE  LET u == Exec(t, I, input)
         IN  Hidden(s, u, m) /\ Updated(u.val, t.val, id, -id) /\ u.mem = t.mem
<1> DEFINE u == Exec(t, I, input)
           X == Evaluated(t, I.args)
           r == Result(t.mem, I, X, Given(I, input))
<1>1. I.op = "alloca" /\ I.id = id
  BY DEF Monadic
<1>2. r = -id
  BY <1>1, ResultIs
<1>3. Effect(t, I, X, r, u)
  BY ExecIs
<1> HIDE DEF u, X, r
<1>4. "alloca" \notin Seen /\ "alloca" \notin Binary
  BY DEF Seen, Terminators, Binary
<1>5. /\ Updated(u.val, t.val, id, -id) /\ u.mem = t.mem
      /\ u.trace = t.trace /\ u.reports = t.reports /\ (u.undef <=> t.undef)
  BY <1>1, <1>2, <1>3, <1>4 DEF Effect
<1>6. KeepsValues(s, u)
  BY <1>5, KeepsMore DEF Hidden
<1>7. Hidden(s, u, m)
  BY <1>5, <1>6 DEF Hidden, SameMemory
<1>8. QED
  BY <1>5, <1>7 DEF u

LEMMA LoadRun ==
  ASSUME NEW s, NEW t, NEW m, Hidden(s, t, m), NEW I, NEW id, id \notin DOMAIN s.val, NEW w, NEW x,
         Monadic(I, id, "load", w, x), NEW input
  PROVE  LET u == Exec(t, I, input)
             p == ArgValue(t, x)
         IN  /\ Hidden(s, u, m) /\ u.mem = t.mem
             /\ \E r : Updated(u.val, t.val, id, r) /\ (p \in DOMAIN t.mem => r = Trunc(t.mem[p], w))
<1> DEFINE u == Exec(t, I, input)
           X == Evaluated(t, I.args)
           p == ArgValue(t, x)
           r == Result(t.mem, I, X, Given(I, input))
<1>1. I.op = "load" /\ I.id = id /\ I.w = w
  BY DEF Monadic
<1>2. X[1] = p
  BY MonadicReads
<1> HIDE DEF p
<1>3. Effect(t, I, X, r, u)
  BY ExecIs
<1>4. X[1] \in DOMAIN t.mem => r = Trunc(t.mem[X[1]], I.w)
  BY <1>1, ResultIs
<1> HIDE DEF u, X, r
<1>5. "load" \notin Seen /\ "load" \notin Binary
  BY DEF Seen, Terminators, Binary
<1>6. /\ Updated(u.val, t.val, id, r) /\ u.mem = t.mem
      /\ u.trace = t.trace /\ u.reports = t.reports /\ (u.undef <=> t.undef)
  BY <1>1, <1>3, <1>5 DEF Effect
<1>7. KeepsValues(s, u)
  BY <1>6, KeepsMore DEF Hidden
<1>8. Hidden(s, u, m)
  BY <1>6, <1>7 DEF Hidden, SameMemory
<1>9. p \in DOMAIN t.mem => r = Trunc(t.mem[p], w)
  BY <1>1, <1>2, <1>4
<1>10. QED
  BY <1>6, <1>8, <1>9 DEF u, p

LEMMA StoreRun ==
  ASSUME NEW s, NEW t, NEW m, Hidden(s, t, m), NEW I, NEW id, NEW w, NEW x, NEW y,
         Dyadic(I, id, "store", w, x, y), ArgValue(t, y) = -m, NEW input
  PROVE  LET u == Exec(t, I, input)
         IN  Hidden(s, u, m) /\ u.val = t.val /\ Updated(u.mem, t.mem, -m, ArgValue(t, x))
<1> DEFINE u == Exec(t, I, input)
           X == Evaluated(t, I.args)
           r == Result(t.mem, I, X, Given(I, input))
           v == ArgValue(t, x)
<1>1. I.op = "store" /\ I.id = id /\ I.w = w
  BY DEF Dyadic
<1>2. X[1] = v /\ X[2] = -m
  BY DyadicReads
<1>3. Effect(t, I, X, r, u)
  BY ExecIs
<1> HIDE DEF u, X, r, v
<1>4. "store" \notin Seen /\ "store" \notin Binary
  BY DEF Seen, Terminators, Binary
<1>5. /\ u.val = t.val /\ Updated(u.mem, t.mem, -m, v)
      /\ u.trace = t.trace /\ u.reports = t.reports /\ (u.undef <=> t.undef)
  BY <1>1, <1>2, <1>3, <1>4 DEF Effect
<1>6. SameMemory(s, u, m)
  BY <1>5 DEF Hidden, SameMemory, Updated
<1>7. Hidden(s, u, m)
  BY <1>5, <1>6 DEF Hidden, KeepsValues
<1>8. QED
  BY <1>5, <1>7 DEF u, v

LEMMA TotalRun ==
  ASSUME NEW s, NEW t, NEW m, Hidden(s, t, m), NEW I, NEW id, id \notin DOMAIN s.val, NEW op \in Total, NEW w,
         NEW x, NEW y, Dyadic(I, id, op, w, x, y), NEW input
  PROVE  LET u == Exec(t, I, input)
         IN  /\ Hidden(s, u, m) /\ u.mem = t.mem
             /\ Updated(u.val, t.val, id, Compute(op, ArgValue(t, x), ArgValue(t, y), w))
<1> DEFINE u == Exec(t, I, input)
           X == Evaluated(t, I.args)
           r == Result(t.mem, I, X, Given(I, input))
           v == ArgValue(t, x)
           z == ArgValue(t, y)
<1>1. I.op = op /\ I.id = id /\ I.w = w
  BY DEF Dyadic
<1>2. X[1] = v /\ X[2] = z
  BY DyadicReads
<1>3. Effect(t, I, X, r, u)
  BY ExecIs
<1>4. op \in Binary /\ op # "store" /\ op \notin Seen /\ op # "report" /\ \A a, b : ~Undefined(op, a, b, w)
  BY DEF Total, Binary, Seen, Terminators, Undefined
<1>5. r = Outcome(I.op, X[1], X[2], I.w)
  BY <1>1, <1>4, ResultIs
<1> HIDE DEF u, X, r, v, z
<1>6. r = Compute(op, v, z, w)
  BY <1>1, <1>2, <1>4, <1>5 DEF Outcome
<1>7. /\ Updated(u.val, t.val, id, r) /\ u.mem = t.mem
      /\ u.trace = t.trace /\ u.reports = t.reports /\ (u.undef <=> t.undef)
  BY <1>1, <1>3, <1>4 DEF Effect
<1>8. KeepsValues(s, u)
  BY <1>7, KeepsMore DEF Hidden
<1>9. Hidden(s, u, m)
  BY <1>7, <1>8 DEF Hidden, SameMemory
<1>10. QED
  BY <1>6, <1>7, <1>9 DEF u, v, z

(* constant_altering.cc.                                                   *)

LEMMA BlackboxCode ==
  ASSUME NEW n, NEW w, NEW random
  PROVE  LET code == Blackboxed(n, w, random)
             stored == ConstInt(Xor(Trunc(Signed(n, w), Word), random, Word), w)
         IN  /\ IsSeq(code) /\ Len(code) = 4
             /\ Monadic(code[1], Fresh, "alloca", w, Const(1))
             /\ Dyadic(code[2], Fresh + 1, "store", w, stored, Value(Fresh))
             /\ Monadic(code[3], Fresh + 2, "load", w, Value(Fresh))
             /\ Dyadic(code[4], Fresh + 3, "xor", w, Value(Fresh + 2), ConstInt(random, w))
<1> DEFINE stored == ConstInt(Xor(Trunc(Signed(n, w), Word), random, Word), w)
           I1 == Inst(Fresh, "alloca", w, <<Const(1)>>)
           I2 == Inst(Fresh + 1, "store", w, <<stored, Value(Fresh)>>)
           I3 == Inst(Fresh + 2, "load", w, <<Value(Fresh)>>)
           I4 == Inst(Fresh + 3, "xor", w, <<Value(Fresh + 2), ConstInt(random, w)>>)
           code == Blackboxed(n, w, random)
<1>1. code = <<I1, I2, I3, I4>>
  BY DEF Blackboxed
<1>2. Monadic(I1, Fresh, "alloca", w, Const(1)) /\ Monadic(I3, Fresh + 2, "load", w, Value(Fresh))
  BY MonadicIs
<1>3. /\ Dyadic(I2, Fresh + 1, "store", w, stored, Value(Fresh))
      /\ Dyadic(I4, Fresh + 3, "xor", w, Value(Fresh + 2), ConstInt(random, w))
  BY DyadicIs
<1> HIDE DEF I1, I2, I3, I4, code, stored
<1>4. IsSeq(code) /\ Len(code) = 4 /\ code[1] = I1 /\ code[2] = I2 /\ code[3] = I3 /\ code[4] = I4
  BY <1>1, QuadIs
<1>5. QED
  BY <1>2, <1>3, <1>4 DEF code, stored

\* What the black box computes, in a state that has none of the next numbers yet.
LEMMA BlackboxRun ==
  ASSUME Fresh \in Nat, Word \in Nat \ {0}, NEW w \in Nat \ {0}, NEW n, InWord(n, w),
         NEW random \in 0 .. Pow2[Word] - 1, NEW s, \A q \in DOMAIN s.val : q \in Nat /\ q < Fresh, NEW input
  PROVE  LET t == After(s, Blackboxed(n, w, random), input)
         IN  /\ Hidden(s, t, Fresh)
             /\ Carried(n, w) /\ (w <= Word \/ Signed(n, w) >= 0) =>
                  Fresh + 3 \in DOMAIN t.val /\ t.val[Fresh + 3] = n
<1> DEFINE code == Blackboxed(n, w, random)
           val == Xor(Trunc(Signed(n, w), Word), random, Word)
           stored == ConstInt(val, w)
           mask == ConstInt(random, w)
           r == Ran(s, code, input)
           i2 == Fresh + 1
           i3 == Fresh + 2
           i4 == Fresh + 3
           m == Fresh
<1>1. /\ IsSeq(code) /\ Len(code) = 4
      /\ Monadic(code[1], m, "alloca", w, Const(1))
      /\ Dyadic(code[2], i2, "store", w, stored, Value(m))
      /\ Monadic(code[3], i3, "load", w, Value(m))
      /\ Dyadic(code[4], i4, "xor", w, Value(i3), mask)
  BY BlackboxCode
<1>2. Signed(n, w) \in Int
  BY Pow2Is DEF Signed, InWord
<1>3. val \in Nat
  <2>1. InWord(Trunc(Signed(n, w), Word), Word) /\ Trunc(Signed(n, w), Word) \in Nat
    BY <1>2, TruncWord
  <2>2. random \in Nat
    BY Pow2Is
  <2>3. QED
    BY <2>1, <2>2, XorNat
<1>4. /\ IsConst(stored) /\ stored.n = Trunc(val, w) /\ IsConst(mask) /\ mask.n = Trunc(random, w)
      /\ ~IsConst(Value(m)) /\ Value(m).n = m /\ ~IsConst(Value(i3)) /\ Value(i3).n = i3
  BY OperandSorts DEF ConstInt, Const
<1>5. /\ m \notin DOMAIN s.val /\ i2 \notin DOMAIN s.val /\ i3 \notin DOMAIN s.val /\ i4 \notin DOMAIN s.val
      /\ m # i2 /\ m # i3 /\ m # i4 /\ i3 # i4
  OBVIOUS
<1>6. Steps(r, s, code, input)
  BY <1>1, RanIs
<1> HIDE DEF val, stored, mask, i2, i3, i4, m, r, code
<1>7. 1 \in 1 .. 4 /\ 2 \in 1 .. 4 /\ 3 \in 1 .. 4 /\ 4 \in 1 .. 4 /\ 1 - 1 = 0 /\ 2 - 1 = 1 /\ 3 - 1 = 2 /\ 4 - 1 = 3
  OBVIOUS
<1>8. /\ r[0] = s /\ r[1] = Exec(r[0], code[1], input) /\ r[2] = Exec(r[1], code[2], input)
      /\ r[3] = Exec(r[2], code[3], input) /\ r[4] = Exec(r[3], code[4], input)
  BY <1>1, <1>6, <1>7 DEF Steps
<1> DEFINE t1 == r[1]
           t2 == r[2]
           t3 == r[3]
           t4 == r[4]
<1> DEFINE I1 == code[1]
           I2 == code[2]
           I3 == code[3]
           I4 == code[4]
<1>21. /\ t1 = Exec(s, I1, input) /\ t2 = Exec(t1, I2, input)
       /\ t3 = Exec(t2, I3, input) /\ t4 = Exec(t3, I4, input)
  BY <1>8
<1>22. /\ Monadic(I1, m, "alloca", w, Const(1))
       /\ Dyadic(I2, i2, "store", w, stored, Value(m))
       /\ Monadic(I3, i3, "load", w, Value(m))
       /\ Dyadic(I4, i4, "xor", w, Value(i3), mask)
  BY <1>1
<1> HIDE DEF t1, t2, t3, t4, I1, I2, I3, I4
<1>9. Hidden(s, t1, m) /\ Updated(t1.val, s.val, m, -m)
  <2>1. Hidden(s, s, m)
    BY HiddenSelf
  <2> DEFINE u == Exec(s, I1, input)
  <2>2. Hidden(s, u, m) /\ Updated(u.val, s.val, m, -m) /\ u.mem = s.mem
    BY <1>5, <1>22, <2>1, AllocaRun
  <2>3. QED
    BY <1>21, <2>2
<1>10. ArgValue(t1, Value(m)) = -m /\ ArgValue(t1, stored) = Trunc(val, w)
  BY <1>4, <1>9 DEF ArgValue, Updated
<1>11. Hidden(s, t2, m) /\ t2.val = t1.val /\ Updated(t2.mem, t1.mem, -m, Trunc(val, w))
  <2> DEFINE u == Exec(t1, I2, input)
  <2>1. Hidden(s, u, m) /\ u.val = t1.val /\ Updated(u.mem, t1.mem, -m, ArgValue(t1, stored))
    BY <1>22, <1>9, <1>10, StoreRun
  <2>2. QED
    BY <1>10, <1>21, <2>1
<1>12. ArgValue(t2, Value(m)) = -m /\ -m \in DOMAIN t2.mem /\ t2.mem[-m] = Trunc(val, w)
  BY <1>4, <1>9, <1>11 DEF ArgValue, Updated
<1>13. Hidden(s, t3, m) /\ Updated(t3.val, t2.val, i3, Trunc(Trunc(val, w), w))
  <2> DEFINE p == ArgValue(t2, Value(m))
             u == Exec(t2, I3, input)
  <2>1. /\ Hidden(s, u, m) /\ u.mem = t2.mem
        /\ \E v : Updated(u.val, t2.val, i3, v) /\ (p \in DOMAIN t2.mem => v = Trunc(t2.mem[p], w))
    BY <1>5, <1>22, <1>11, LoadRun
  <2>2. QED
    BY <1>12, <1>21, <2>1
<1>14. Trunc(Trunc(val, w), w) = Trunc(val, w)
  BY <1>3, TruncWord, TruncOfWord
<1>15. ArgValue(t3, Value(i3)) = Trunc(val, w) /\ ArgValue(t3, mask) = Trunc(random, w)
  BY <1>4, <1>13, <1>14 DEF ArgValue, Updated
<1>16. Hidden(s, t4, m) /\ Updated(t4.val, t3.val, i4, Compute("xor", Trunc(val, w), Trunc(random, w), w))
  <2>1. "xor" \in Total
    BY DEF Total
  <2> DEFINE v == Compute("xor", ArgValue(t3, Value(i3)), ArgValue(t3, mask), w)
  <2> DEFINE u == Exec(t3, I4, input)
  <2>2. Hidden(s, u, m) /\ u.mem = t3.mem /\ Updated(u.val, t3.val, i4, v)
    BY <1>5, <1>22, <1>13, <2>1, TotalRun
  <2>3. QED
    BY <1>15, <1>21, <2>2
<1>17. i4 \in DOMAIN t4.val /\ t4.val[i4] = Xor(Trunc(val, w), Trunc(random, w), w)
  BY <1>16 DEF Updated, Compute
<1>18. ASSUME Carried(n, w), w <= Word \/ Signed(n, w) >= 0
       PROVE  Xor(Trunc(val, w), Trunc(random, w), w) = n
  <2>1. InWord(random, Word)
    BY DEF InWord
  <2>2. Signed(n, w) \in -Pow2[Word - 1] .. Pow2[Word - 1] - 1
    BY <1>18 DEF Carried
  <2>3. QED
    BY <1>18, <2>1, <2>2, MaskCancels DEF val
<1>19. After(s, code, input) = t4
  BY <1>1 DEF After, r, t4
<1>20. QED
  BY <1>16, <1>17, <1>18, <1>19 DEF code, i4, m

\* Operands of the code a pass inserts.
LEMMA FedConst ==
  ASSUME NEW c, NEW q, NEW I, NEW n, InWord(n, I.w)
  PROVE  Fed(c, q, Const(n), I)
<1>1. IsConst(Const(n)) /\ Const(n).n = n
  BY OperandSorts DEF Const
<1>2. QED
  BY <1>1 DEF Fed

LEMMA FedValue ==
  ASSUME NEW c, NEW q, NEW I, NEW i \in 1 .. q, Gives(c[i], I)
  PROVE  Fed(c, q, Value(c[i].id), I)
<1>1. ~IsConst(Value(c[i].id)) /\ Value(c[i].id).n = c[i].id
  BY OperandSorts
<1>2. QED
  BY <1>1 DEF Fed

\* A slot may be the operand of everything but arithmetic, a word that of everything
\* of its width.
LEMMA SlotGives ==
  ASSUME NEW P, P.op = "alloca", NEW I, I.op \notin Binary
  PROVE  Gives(P, I)
BY DEF Gives, Terminators, IsIntegerTy, Calls, Binary

LEMMA WordGives ==
  ASSUME NEW P, P.op \in Binary \cup {"load"}, NEW I, I.w = P.w
  PROVE  Gives(P, I)
BY DEF Gives, Terminators, IsIntegerTy, Calls, Binary

LEMMA MonadicTyped ==
  ASSUME NEW b, NEW k, NEW code, NEW i, NEW id, NEW op, NEW w, NEW x, Monadic(code[i], id, op, w, x),
         w \in Nat \ {0}, op \in Ops, op # "store", Fed(b, k - 1, x, code[i]) \/ Fed(code, i - 1, x, code[i])
  PROVE  /\ Shaped(code[i])
         /\ \A j \in 1 .. Len(code[i].args) :
              Fed(b, k - 1, code[i].args[j], code[i]) \/ Fed(code, i - 1, code[i].args[j], code[i])
<1>1. Shaped(code[i])
  BY DEF Monadic, Shaped
<1>2. \A j \in 1 .. Len(code[i].args) : code[i].args[j] = x
  BY DEF Monadic
<1>3. QED
  BY <1>1, <1>2

LEMMA DyadicTyped ==
  ASSUME NEW b, NEW k, NEW code, NEW i, NEW id, NEW op, NEW w, NEW x, NEW y, Dyadic(code[i], id, op, w, x, y),
         w \in Nat \ {0}, op \in Ops, op # "load",
         Fed(b, k - 1, x, code[i]) \/ Fed(code, i - 1, x, code[i]),
         Fed(b, k - 1, y, code[i]) \/ Fed(code, i - 1, y, code[i])
  PROVE  /\ Shaped(code[i])
         /\ \A j \in 1 .. Len(code[i].args) :
              Fed(b, k - 1, code[i].args[j], code[i]) \/ Fed(code, i - 1, code[i].args[j], code[i])
<1>1. Shaped(code[i])
  BY DEF Dyadic, Shaped
<1>2. \A j \in 1 .. Len(code[i].args) : code[i].args[j] = x \/ code[i].args[j] = y
  BY DEF Dyadic
<1>3. QED
  BY <1>1, <1>2

LEMMA BlackboxTyped ==
  ASSUME Good(block, source), Word \in Nat \ {0}, NEW k, NEW w \in Nat \ {0}, NEW n, InWord(n, w), NEW random \in Nat
  PROVE  CodeTyped(block, k, Blackboxed(n, w, random))
<1> DEFINE code == Blackboxed(n, w, random)
           val == Xor(Trunc(Signed(n, w), Word), random, Word)
           stored == ConstInt(val, w)
           mask == ConstInt(random, w)
           i2 == Fresh + 1
           i3 == Fresh + 2
           i4 == Fresh + 3
           m == Fresh
<1>1. /\ IsSeq(code) /\ Len(code) = 4
      /\ Monadic(code[1], m, "alloca", w, Const(1))
      /\ Dyadic(code[2], i2, "store", w, stored, Value(m))
      /\ Monadic(code[3], i3, "load", w, Value(m))
      /\ Dyadic(code[4], i4, "xor", w, Value(i3), mask)
  BY BlackboxCode
<1>2. InWord(Trunc(val, w), w) /\ InWord(Trunc(random, w), w) /\ InWord(1, w)
  <2>1. Signed(n, w) \in Int
    BY Pow2Is DEF Signed, InWord
  <2>2. InWord(Trunc(Signed(n, w), Word), Word) /\ Trunc(Signed(n, w), Word) \in Nat
    BY <2>1, TruncWord
  <2>3. val \in Nat
    BY <2>2, XorNat
  <2>4. QED
    BY <2>3, TruncWord, TwoIs
<1>3. stored = Const(Trunc(val, w)) /\ mask = Const(Trunc(random, w))
  BY DEF ConstInt
<1>4. {"alloca", "store", "load", "xor"} \subseteq Ops /\ "store" \notin Binary /\ "load" \notin Binary /\ "xor" \in Binary
  BY DEF Ops, Binary
<1> HIDE DEF code, val, stored, mask, i2, i3, i4, m
<1>5. /\ code[1].id = m /\ code[1].op = "alloca" /\ code[1].w = w
      /\ code[2].op = "store" /\ code[2].w = w
      /\ code[3].id = i3 /\ code[3].op = "load" /\ code[3].w = w
      /\ code[4].op = "xor" /\ code[4].w = w
  BY <1>1 DEF Monadic, Dyadic
<1>6. Fed(block, k - 1, Const(1), code[1])
  BY <1>2, <1>5, FedConst
<1>7. Fed(block, k - 1, stored, code[2]) /\ Fed(block, k - 1, mask, code[4])
  BY <1>2, <1>3, <1>5, FedConst
<1>8. Fed(code, 2 - 1, Value(m), code[2])
  <2>1. 1 \in 1 .. 2 - 1 /\ Gives(code[1], code[2])
    BY <1>4, <1>5, SlotGives
  <2>2. QED
    BY <1>5, <2>1, FedValue
<1>9. Fed(code, 3 - 1, Value(m), code[3])
  <2>1. 1 \in 1 .. 3 - 1 /\ Gives(code[1], code[3])
    BY <1>4, <1>5, SlotGives
  <2>2. QED
    BY <1>5, <2>1, FedValue
<1>10. Fed(code, 4 - 1, Value(i3), code[4])
  <2>1. 3 \in 1 .. 4 - 1 /\ Gives(code[3], code[4])
    BY <1>4, <1>5, WordGives
  <2>2. QED
    BY <1>5, <2>1, FedValue
<1> DEFINE OK(i) == /\ Shaped(code[i])
                    /\ \A j \in 1 .. Len(code[i].args) :
                         Fed(block, k - 1, code[i].args[j], code[i]) \/ Fed(code, i - 1, code[i].args[j], code[i])
<1>11. OK(1) /\ OK(3)
  BY <1>1, <1>4, <1>6, <1>9, MonadicTyped
<1>12. OK(2) /\ OK(4)
  BY <1>1, <1>4, <1>7, <1>8, <1>10, DyadicTyped
<1>13. \A i \in 1 .. 4 : i = 1 \/ i = 2 \/ i = 3 \/ i = 4
  OBVIOUS
<1> HIDE DEF OK
<1>14. \A i \in 1 .. Len(code) : OK(i)
  BY <1>1, <1>11, <1>12, <1>13
<1>15. QED
  BY <1>14 DEF CodeTyped, OK, code

\* The k-th instruction with the value y for its operands z, and code in front of it.
Swapped(args, z, y) == [j \in DOMAIN args |-> IF args[j] = z THEN y ELSE args[j]]

LEMMA SwappedIs ==
  ASSUME NEW args, IsSeq(args), NEW z, NEW y
  PROVE  LET c == Swapped(args, z, y)
         IN  /\ IsSeq(c) /\ Len(c) = Len(args)
             /\ \A j \in 1 .. Len(args) : c[j] = IF args[j] = z THEN y ELSE args[j]
<1> DEFINE c == Swapped(args, z, y)
           n == Len(args)
<1>1. DOMAIN args = 1 .. n /\ n \in Nat
  BY SeqIn DEF IsSeq
<1>2. c = [j \in 1 .. n |-> IF args[j] = z THEN y ELSE args[j]]
  BY <1>1 DEF Swapped
<1> HIDE DEF c, n
<1>3. c = [j \in 1 .. n |-> c[j]] /\ \A j \in 1 .. n : c[j] = IF args[j] = z THEN y ELSE args[j]
  BY <1>2
<1>4. IsSeq(c) /\ Len(c) = n
  BY <1>1, <1>3, SeqMade
<1>5. QED
  BY <1>3, <1>4 DEF c, n

LEMMA SwappedInserted ==
  ASSUME NEW b, NEW src, Good(b, src), NEW k \in 1 .. Len(b), NEW args, NEW new, IsSeq(new)
  PROVE  LET J == Inst(b[k].id, b[k].op, b[k].w, args)
         IN  Inserted(b, Before([b EXCEPT ![k].args = args], k, new), k, new, J)
<1> DEFINE J == Inst(b[k].id, b[k].op, b[k].w, args)
           e == [b EXCEPT ![k].args = args]
           c == Before(e, k, new)
           core == Append(new, J)
           n == Len(new)
           x == b[k].id
<1>1. IsSeq(b) /\ Len(b) \in Nat /\ n \in Nat
  BY DEF Good, IsSeq
<1>2. /\ IsSeq(e) /\ Len(e) = Len(b) /\ e[k] = J
      /\ \A i \in 1 .. Len(b) : i # k => e[i] = b[i]
  <2>1. b = [i \in 1 .. Len(b) |-> b[i]]
    BY <1>1 DEF IsSeq
  <2>2. b[k] = Inst(b[k].id, b[k].op, b[k].w, b[k].args)
    BY DEF Good, GoodInst
  <2>3. e = [i \in 1 .. Len(b) |-> IF i = k THEN [b[k] EXCEPT !.args = args] ELSE b[i]]
    BY <2>1
  <2>4. /\ e = [i \in 1 .. Len(b) |-> e[i]] /\ e[k] = [b[k] EXCEPT !.args = args]
        /\ \A i \in 1 .. Len(b) : i # k => e[i] = b[i]
    BY <2>3
  <2> HIDE DEF e
  <2>5. IsSeq(e) /\ Len(e) = Len(b)
    BY <1>1, <2>4, SeqMade
  <2>6. e[k] = J
    BY <2>2, <2>4 DEF Inst
  <2>7. QED
    BY <2>4, <2>5, <2>6
<1>3. IsSeq(core) /\ Len(core) = n + 1 /\ core[n + 1] = J /\ \A i \in 1 .. n : core[i] = new[i]
  <2> HIDE DEF J
  <2>1. QED
    BY AppendIs
<1>4. J.id = b[k].id /\ J.op = b[k].op /\ J.w = b[k].w
  BY DEF Inst
<1> HIDE DEF e, J, core
<1>5. /\ IsSeq(c) /\ Len(c) = Len(b) + n
      /\ \A i \in 1 .. k - 1 : c[i] = e[i]
      /\ \A i \in 1 .. n : c[k - 1 + i] = new[i]
      /\ \A i \in k .. Len(b) : c[i + n] = e[i]
  <2>1. k \in 1 .. Len(e)
    BY <1>2
  <2>2. /\ IsSeq(c) /\ Len(c) = Len(e) + Len(new)
        /\ \A i \in 1 .. k - 1 : c[i] = e[i]
        /\ \A i \in 1 .. Len(new) : c[k - 1 + i] = new[i]
        /\ \A i \in k .. Len(e) : c[i + Len(new)] = e[i]
    BY <1>2, <2>1, BeforeIs
  <2>3. QED
    BY <1>2, <2>2
<1> HIDE DEF c
<1>6. Len(c) = Len(b) - 1 + Len(core)
  BY <1>1, <1>3, <1>5
<1>7. \A i \in 1 .. k - 1 : c[i] = b[i]
  <2>1. \A i \in 1 .. k - 1 : i \in 1 .. Len(b) /\ i # k
    BY <1>1
  <2>2. QED
    BY <1>2, <1>5, <2>1
<1>8. ASSUME NEW i \in 1 .. Len(core) PROVE c[k - 1 + i] = core[i]
  <2>1. CASE i \in 1 .. n
    BY <1>3, <1>5, <2>1
  <2>2. CASE i \notin 1 .. n
    <3>1. i = n + 1 /\ k - 1 + i = k + n /\ k \in k .. Len(b)
      BY <1>1, <1>3, <2>2
    <3>2. c[k + n] = e[k]
      BY <1>5, <3>1
    <3>3. QED
      BY <1>2, <1>3, <3>1, <3>2
  <2>3. QED
    BY <2>1, <2>2
<1>9. ASSUME NEW i \in k + 1 .. Len(b) PROVE c[i - 1 + Len(core)] = Rewired(b[i], x, Value(x))
  <2>1. i - 1 + Len(core) = i + n /\ i \in k .. Len(b) /\ i \in 1 .. Len(b) /\ i # k
    BY <1>1, <1>3
  <2>2. c[i + n] = b[i]
    BY <1>2, <1>5, <2>1
  <2>3. Rewired(b[i], x, Value(x)) = b[i]
    BY <2>1, GoodRewired
  <2>4. QED
    BY <2>1, <2>2, <2>3
<1>10. Edited(b, c, k, core, x, Value(x))
  BY <1>6, <1>7, <1>8, <1>9 DEF Edited
<1>11. QED
  BY <1>4, <1>5, <1>10 DEF Inserted, core, c, J, e

\* The values there are in front of the k-th instruction are of instructions, whose
\* numbers are taken.
LEMMA TakenNumbers ==
  ASSUME Good(block, source), WellTyped(block), NEW k \in 1 .. Len(block), NEW input, InputOK(input)
  PROVE  \A q \in DOMAIN Ran(Outset, block, input)[k - 1].val : q \in Nat /\ q < Fresh
<1> DEFINE s == Ran(Outset, block, input)[k - 1]
<1>1. k - 1 \in 0 .. Len(block) /\ \A l \in 1 .. k - 1 : l \in 1 .. Len(block)
  BY DEF Good, IsSeq
<1>2. Sound(s, block, k - 1)
  BY <1>1, SoundRun
<1>3. \A l \in 1 .. Len(block) : block[l].id \in Nat /\ block[l].id < Fresh
  BY FreshIs DEF Good, GoodInst
<1> HIDE DEF s
<1>4. \A q \in DOMAIN s.val : q \in Nat /\ q < Fresh
  BY <1>1, <1>2, <1>3 DEF Sound
<1>5. QED
  BY <1>4 DEF s

\* The operands z of the k-th instruction go through a black box.
LEMMA AlteredAlike ==
  ASSUME Good(block, source), WellTyped(block), Word \in Nat \ {0}, NEW k \in 1 .. Len(block),
         NEW j0 \in 1 .. Len(block[k].args), IsConst(block[k].args[j0]), NEW random \in 0 .. Pow2[Word] - 1
  PROVE  LET z == block[k].args[j0]
             w == block[k].w
             args == Swapped(block[k].args, z, Value(Fresh + 3))
             c == Before([block EXCEPT ![k].args = args], k, Blackboxed(z.n, w, random))
         IN  /\ WellTyped(c)
             /\ Carried(z.n, w) /\ (w <= Word \/ Signed(z.n, w) >= 0) =>
                  \A input : InputOK(input) => Alike(block, c, input, FALSE, <<>>)
<1> DEFINE z == block[k].args[j0]
           n == z.n
           I == block[k]
           w == I.w
           y == Value(Fresh + 3)
           args == Swapped(I.args, z, y)
           new == Blackboxed(n, w, random)
           c == Before([block EXCEPT ![k].args = args], k, new)
           J == Inst(I.id, I.op, w, args)
           x == I.id
           core == Append(new, J)
<1>1. w \in Nat \ {0} /\ InWord(n, w) /\ IsSeq(I.args) /\ random \in Nat /\ Len(block) \in Nat
  <2>1. Shaped(block[k]) /\ Fed(block, k - 1, z, block[k])
    BY DEF WellTyped
  <2>2. w \in Nat \ {0}
    BY <2>1 DEF Shaped
  <2>3. InWord(n, w)
    BY <2>1 DEF Fed
  <2>4. GoodInst(block[k], source) /\ IsSeq(block)
    BY DEF Good
  <2>5. IsSeq(I.args) /\ Len(block) \in Nat
    BY <2>4 DEF GoodInst, IsSeq
  <2>6. random \in Nat
    <3>1. Pow2[Word] \in Nat
      BY Pow2Is
    <3>2. QED
      BY <3>1
  <2>7. QED
    BY <2>2, <2>3, <2>5, <2>6
<1>2. Fresh \in Nat \ {0} /\ Quiet(block, k - 1, Fresh)
  BY FreshQuiet
<1>3. CodeTyped(block, k, new)
  <2> HIDE DEF w, n
  <2>1. QED
    BY <1>1, BlackboxTyped
<1>4. IsSeq(new) /\ Len(new) = 4 /\ new[4].id = Fresh + 3 /\ new[4].op = "xor" /\ new[4].w = w
  <2> HIDE DEF w, n
  <2>1. /\ IsSeq(new) /\ Len(new) = 4
        /\ Dyadic(new[4], Fresh + 3, "xor", w, Value(Fresh + 2), ConstInt(random, w))
    BY BlackboxCode
  <2>2. QED
    BY <2>1 DEF Dyadic
<1>5. J.id = I.id /\ J.op = I.op /\ J.w = w /\ J.args = args
  BY DEF Inst
<1>6. Inserted(block, c, k, new, J)
  <2> HIDE DEF new, args
  <2>1. QED
    BY <1>4, SwappedInserted
<1>7. /\ IsSeq(args) /\ Len(args) = Len(I.args)
      /\ \A j \in 1 .. Len(I.args) : args[j] = IF I.args[j] = z THEN y ELSE I.args[j]
  BY <1>1, SwappedIs
<1> HIDE DEF c, J, args, new
<1>8. WellTyped(c)
  <2>1. ASSUME NEW j \in 1 .. Len(J.args)
        PROVE  Fed(block, k - 1, J.args[j], J) \/ Fed(new, Len(new), J.args[j], J)
    <3>1. CASE I.args[j] = z
      <4>1. Gives(new[4], J)
        BY <1>4, <1>5, WordGives DEF Binary
      <4>2. 4 \in 1 .. Len(new)
        BY <1>4
      <4>3. Fed(new, Len(new), Value(new[4].id), J)
        BY <4>1, <4>2, FedValue
      <4>4. QED
        BY <1>4, <1>5, <1>7, <3>1, <4>3
    <3>2. CASE I.args[j] # z
      <4>1. J.args[j] = I.args[j] /\ Fed(block, k - 1, I.args[j], I)
        BY <1>5, <1>7, <3>2 DEF WellTyped
      <4>2. \A i \in 1 .. k - 1 : Gives(block[i], I) => Gives(block[i], J)
        BY <1>5, GivesSame
      <4>3. QED
        BY <1>5, <4>1, <4>2 DEF Fed
    <3>3. QED
      BY <3>1, <3>2
  <2>2. Len(J.args) = Len(block[k].args)
    BY <1>5, <1>7
  <2>3. QED
    BY <1>3, <1>6, <2>1, <2>2, InsertTyped
<1>9. ASSUME Carried(n, w), w <= Word \/ Signed(n, w) >= 0, NEW input, InputOK(input)
      PROVE  Alike(block, c, input, FALSE, <<>>)
  <2> DEFINE s == Ran(Outset, block, input)[k - 1]
             t == After(s, new, input)
  <2>1. \A q \in DOMAIN s.val : q \in Nat /\ q < Fresh
    BY <1>9, TakenNumbers
  <2>2. Hidden(s, t, Fresh) /\ Fresh + 3 \in DOMAIN t.val /\ t.val[Fresh + 3] = n
    <3> HIDE DEF s, n, w
    <3>1. Fresh \in Nat
      BY <1>2
    <3>2. QED
      BY <1>1, <1>9, <2>1, <3>1, BlackboxRun DEF new
  <2>3. Rel(s, t, x, Value(x), Fresh, FALSE, <<>>)
    BY <2>2, HiddenRel
  <2> HIDE DEF s, t
  <2>4. ArgValue(t, y) = n
    BY <2>2, OperandSorts DEF ArgValue
  <2>5. Evaluated(t, I.args) = Evaluated(s, I.args)
    BY <1>9, <2>3, ReadsSame DEF Rel, s
  <2>6. ASSUME NEW j \in 1 .. Len(I.args) PROVE ArgValue(t, args[j]) = ArgValue(t, I.args[j])
    <3>1. CASE I.args[j] = z
      <4>1. args[j] = y /\ ArgValue(t, I.args[j]) = n
        BY <1>7, <3>1 DEF ArgValue
      <4>2. QED
        BY <2>4, <4>1
    <3>2. CASE I.args[j] # z
      BY <1>7, <3>2
    <3>3. QED
      BY <3>1, <3>2
  <2>7. Evaluated(t, args) = Evaluated(t, I.args)
    BY <1>1, <1>7, <2>6, EvaluatedSame
  <2> DEFINE U == FALSE
             rep == <<>>
  <2>8. Rel(s, t, x, Value(x), Fresh, U, rep) /\ (rep = <<>> \/ (k = Len(block) /\ block[k].op # "report"))
    BY <2>3
  <2> HIDE DEF U, rep
  <2>9. Evaluated(t, J.args) = Evaluated(s, block[k].args)
    BY <1>5, <2>5, <2>7
  <2>10. Alike(block, c, input, U, rep)
    BY <1>2, <1>6, <1>9, <2>8, <2>9, InsertAlike DEF s, t
  <2>11. QED
    BY <2>10 DEF U, rep
<1>10. QED
  BY <1>8, <1>9 DEF c, args, new

(* count_additions.cc, count_calls.cc.                                     *)

CounterCode == <<Inst(Fresh, "alloca", Word, <<Const(1)>>),
                 Inst(Fresh + 1, "store", Word, <<Const(0), Value(Fresh)>>)>>

LEMMA CounterCodeIs ==
  /\ IsSeq(CounterCode) /\ Len(CounterCode) = 2
  /\ Monadic(CounterCode[1], Fresh, "alloca", Word, Const(1))
  /\ Dyadic(CounterCode[2], Fresh + 1, "store", Word, Const(0), Value(Fresh))
<1> DEFINE I1 == Inst(Fresh, "alloca", Word, <<Const(1)>>)
           I2 == Inst(Fresh + 1, "store", Word, <<Const(0), Value(Fresh)>>)
           code == CounterCode
<1>1. code = <<I1, I2>>
  BY DEF CounterCode
<1>2. Monadic(I1, Fresh, "alloca", Word, Const(1)) /\ Dyadic(I2, Fresh + 1, "store", Word, Const(0), Value(Fresh))
  BY MonadicIs, DyadicIs
<1> HIDE DEF I1, I2, code
<1>3. IsSeq(code) /\ Len(code) = 2 /\ code[1] = I1 /\ code[2] = I2
  BY <1>1, PairIs
<1>4. QED
  BY <1>2, <1>3 DEF code

LEMMA CounterTyped ==
  ASSUME Word \in Nat \ {0}, NEW k
  PROVE  CodeTyped(block, k, CounterCode)
<1> DEFINE code == CounterCode
           m == Fresh
           i2 == Fresh + 1
           w == Word
<1>1. /\ IsSeq(code) /\ Len(code) = 2
      /\ Monadic(code[1], m, "alloca", w, Const(1)) /\ Dyadic(code[2], i2, "store", w, Const(0), Value(m))
  BY CounterCodeIs
<1>2. {"alloca", "store"} \subseteq Ops /\ "store" \notin Binary
  BY DEF Ops, Binary
<1>3. InWord(1, w) /\ InWord(0, w)
  BY TwoIs
<1> HIDE DEF code, m, i2, w
<1>4. code[1].id = m /\ code[1].op = "alloca" /\ code[1].w = w /\ code[2].op = "store" /\ code[2].w = w
  BY <1>1 DEF Monadic, Dyadic
<1>5. Fed(block, k - 1, Const(1), code[1]) /\ Fed(block, k - 1, Const(0), code[2])
  BY <1>3, <1>4, FedConst
<1>6. Fed(code, 2 - 1, Value(m), code[2])
  <2>1. 1 \in 1 .. 2 - 1 /\ Gives(code[1], code[2])
    BY <1>2, <1>4, SlotGives
  <2>2. QED
    BY <1>4, <2>1, FedValue
<1> DEFINE OK(i) == /\ Shaped(code[i])
                    /\ \A j \in 1 .. Len(code[i].args) :
                         Fed(block, k - 1, code[i].args[j], code[i]) \/ Fed(code, i - 1, code[i].args[j], code[i])
<1>7. w \in Nat \ {0}
  BY DEF w
<1>8. OK(1)
  BY <1>1, <1>2, <1>5, <1>7, MonadicTyped
<1>9. OK(2)
  BY <1>1, <1>2, <1>5, <1>6, <1>7, DyadicTyped
<1>10. \A i \in 1 .. 2 : i = 1 \/ i = 2
  OBVIOUS
<1> HIDE DEF OK
<1>11. \A i \in 1 .. Len(code) : OK(i)
  BY <1>1, <1>8, <1>9, <1>10
<1>12. QED
  BY <1>11 DEF CodeTyped, OK, code

\* The counter is there, and 0.
LEMMA CounterRun ==
  ASSUME Fresh \in Nat, NEW s, \A q \in DOMAIN s.val : q \in Nat /\ q < Fresh, NEW input
  PROVE  LET t == After(s, CounterCode, input)
         IN  Hidden(s, t, Fresh) /\ -Fresh \in DOMAIN t.mem /\ t.mem[-Fresh] = 0
<1> DEFINE code == CounterCode
           r == Ran(s, code, input)
           m == Fresh
           i2 == Fresh + 1
           w == Word
           I1 == code[1]
           I2 == code[2]
           t1 == r[1]
           t2 == r[2]
<1>1. /\ IsSeq(code) /\ Len(code) = 2
      /\ Monadic(I1, m, "alloca", w, Const(1)) /\ Dyadic(I2, i2, "store", w, Const(0), Value(m))
  BY CounterCodeIs
<1>2. m \notin DOMAIN s.val
  OBVIOUS
<1>3. Steps(r, s, code, input)
  BY <1>1, RanIs
<1> HIDE DEF m, i2, w, code, r
<1>4. t1 = Exec(s, I1, input) /\ t2 = Exec(t1, I2, input)
  <2>1. 1 \in 1 .. 2 /\ 2 \in 1 .. 2 /\ 1 - 1 = 0 /\ 2 - 1 = 1
    OBVIOUS
  <2>2. QED
    BY <1>1, <1>3, <2>1 DEF Steps
<1> HIDE DEF t1, t2, I1, I2
<1>5. Hidden(s, t1, m) /\ Updated(t1.val, s.val, m, -m)
  <2> DEFINE u == Exec(s, I1, input)
  <2>1. Hidden(s, s, m)
    BY HiddenSelf
  <2>2. Hidden(s, u, m) /\ Updated(u.val, s.val, m, -m) /\ u.mem = s.mem
    BY <1>1, <1>2, <2>1, AllocaRun
  <2>3. QED
    BY <1>4, <2>2
<1>6. ArgValue(t1, Value(m)) = -m /\ ArgValue(t1, Const(0)) = 0
  BY <1>5, OperandSorts DEF ArgValue, Updated, Const
<1>7. Hidden(s, t2, m) /\ Updated(t2.mem, t1.mem, -m, 0)
  <2> DEFINE u == Exec(t1, I2, input)
  <2>1. Hidden(s, u, m) /\ u.val = t1.val /\ Updated(u.mem, t1.mem, -m, ArgValue(t1, Const(0)))
    BY <1>1, <1>5, <1>6, StoreRun
  <2>2. QED
    BY <1>4, <1>6, <2>1
<1>8. After(s, code, input) = t2
  BY <1>1 DEF After, r, t2
<1>9. QED
  BY <1>7, <1>8 DEF Updated, code, m

LEMMA CounterAlike ==
  ASSUME Good(block, source), WellTyped(block), Word \in Nat \ {0}, NEW k \in 1 .. Len(block)
  PROVE  LET c == Before(block, k, CounterCode)
         IN  WellTyped(c) /\ \A input : InputOK(input) => Alike(block, c, input, FALSE, <<>>)
<1> DEFINE new == CounterCode
           c == Before(block, k, new)
           x == block[k].id
<1>1. IsSeq(new) /\ CodeTyped(block, k, new)
  BY CounterCodeIs, CounterTyped
<1>2. Len(block) \in Nat /\ Fresh \in Nat \ {0} /\ Fresh \in Nat /\ Quiet(block, k - 1, Fresh)
  BY FreshQuiet DEF Good, IsSeq
<1>3. /\ Inserted(block, c, k, new, block[k])
      /\ \A j \in 1 .. Len(block[k].args) : Fed(block, k - 1, block[k].args[j], block[k])
  BY <1>1, BeforeInserted
<1> HIDE DEF c
<1>4. WellTyped(c)
  BY <1>1, <1>3, InsertTyped
<1>5. ASSUME NEW input, InputOK(input) PROVE Alike(block, c, input, FALSE, <<>>)
  <2> DEFINE s == Ran(Outset, block, input)[k - 1]
             t == After(s, new, input)
  <2>1. Hidden(s, t, Fresh)
    <3>1. \A q \in DOMAIN s.val : q \in Nat /\ q < Fresh
      BY <1>5, TakenNumbers
    <3> HIDE DEF s
    <3>2. QED
      BY <1>2, <3>1, CounterRun
  <2>2. Rel(s, t, x, Value(x), Fresh, FALSE, <<>>)
    BY <2>1, HiddenRel
  <2>3. Evaluated(t, block[k].args) = Evaluated(s, block[k].args)
    BY <1>5, <2>2, ReadsSame DEF Rel
  <2> DEFINE U == FALSE
             rep == <<>>
  <2>4. Rel(s, t, x, Value(x), Fresh, U, rep) /\ (rep = <<>> \/ (k = Len(block) /\ block[k].op # "report"))
    BY <2>2
  <2> HIDE DEF U, rep, new
  <2>5. Alike(block, c, input, U, rep)
    BY <1>2, <1>3, <1>5, <2>3, <2>4, InsertAlike
  <2>6. QED
    BY <2>5 DEF U, rep
<1>6. QED
  BY <1>4, <1>5 DEF c

\* The counter m goes up, or is reported.
IncrementCode(m) ==
  <<Inst(Fresh, "load", Word, <<Value(m)>>)>> \o
    <<Inst(Fresh + 1, "add", Word, <<Value(Fresh), Const(1)>>),
      Inst(Fresh + 2, "store", Word, <<Value(Fresh + 1), Value(m)>>)>>

ReportCode(m) ==
  <<Inst(Fresh, "load", Word, <<Value(m)>>)>> \o <<Inst(Fresh + 1, "report", Word, <<Value(Fresh)>>)>>

LEMMA IncrementCodeIs ==
  ASSUME NEW m
  PROVE  LET code == IncrementCode(m)
         IN  /\ IsSeq(code) /\ Len(code) = 3
             /\ Monadic(code[1], Fresh, "load", Word, Value(m))
             /\ Dyadic(code[2], Fresh + 1, "add", Word, Value(Fresh), Const(1))
             /\ Dyadic(code[3], Fresh + 2, "store", Word, Value(Fresh + 1), Value(m))
<1> DEFINE I1 == Inst(Fresh, "load", Word, <<Value(m)>>)
           I2 == Inst(Fresh + 1, "add", Word, <<Value(Fresh), Const(1)>>)
           I3 == Inst(Fresh + 2, "store", Word, <<Value(Fresh + 1), Value(m)>>)
           u == <<I1>>
           v == <<I2, I3>>
           code == IncrementCode(m)
<1>1. code = u \o v
  BY DEF IncrementCode
<1>2. /\ Monadic(I1, Fresh, "load", Word, Value(m))
      /\ Dyadic(I2, Fresh + 1, "add", Word, Value(Fresh), Const(1))
      /\ Dyadic(I3, Fresh + 2, "store", Word, Value(Fresh + 1), Value(m))
  BY MonadicIs, DyadicIs
<1> HIDE DEF I1, I2, I3, code
<1>3. IsSeq(u) /\ Len(u) = 1 /\ u[1] = I1 /\ IsSeq(v) /\ Len(v) = 2 /\ v[1] = I2 /\ v[2] = I3
  BY SingleIs, PairIs
<1> HIDE DEF u, v
<1>4. /\ IsSeq(u \o v) /\ Len(u \o v) = Len(u) + Len(v)
      /\ \A i \in 1 .. Len(u) : (u \o v)[i] = u[i]
      /\ \A i \in 1 .. Len(v) : (u \o v)[Len(u) + i] = v[i]
  <2>1. IsSeq(u) /\ IsSeq(v)
    BY <1>3
  <2>2. QED
    BY <2>1, ConcatIs
<1>5. 1 \in 1 .. 1 /\ 1 \in 1 .. 2 /\ 2 \in 1 .. 2 /\ 1 + 1 = 2 /\ 1 + 2 = 3
  OBVIOUS
<1>6. IsSeq(code) /\ Len(code) = 3 /\ code[1] = I1 /\ code[2] = I2 /\ code[3] = I3
  BY <1>1, <1>3, <1>4, <1>5
<1>7. QED
  BY <1>2, <1>6 DEF code

LEMMA ReportCodeIs ==
  ASSUME NEW m
  PROVE  LET code == ReportCode(m)
         IN  /\ IsSeq(code) /\ Len(code) = 2
             /\ Monadic(code[1], Fresh, "load", Word, Value(m))
             /\ Monadic(code[2], Fresh + 1, "report", Word, Value(Fresh))
<1> DEFINE I1 == Inst(Fresh, "load", Word, <<Value(m)>>)
           I2 == Inst(Fresh + 1, "report", Word, <<Value(Fresh)>>)
           u == <<I1>>
           v == <<I2>>
           code == ReportCode(m)
<1>1. code = u \o v
  BY DEF ReportCode
<1>2. Monadic(I1, Fresh, "load", Word, Value(m)) /\ Monadic(I2, Fresh + 1, "report", Word, Value(Fresh))
  BY MonadicIs
<1> HIDE DEF I1, I2, code
<1>3. IsSeq(u) /\ Len(u) = 1 /\ u[1] = I1 /\ IsSeq(v) /\ Len(v) = 1 /\ v[1] = I2
  BY SingleIs
<1> HIDE DEF u, v
<1>4. /\ IsSeq(u \o v) /\ Len(u \o v) = Len(u) + Len(v)
      /\ \A i \in 1 .. Len(u) : (u \o v)[i] = u[i]
      /\ \A i \in 1 .. Len(v) : (u \o v)[Len(u) + i] = v[i]
  <2>1. IsSeq(u) /\ IsSeq(v)
    BY <1>3
  <2>2. QED
    BY <2>1, ConcatIs
<1>5. 1 \in 1 .. 1 /\ 1 + 1 = 2
  OBVIOUS
<1>6. IsSeq(code) /\ Len(code) = 2 /\ code[1] = I1 /\ code[2] = I2
  BY <1>1, <1>3, <1>4, <1>5
<1>7. QED
  BY <1>2, <1>6 DEF code

\* A slot in front of the k-th instruction.
SlotAhead(b, k, m) == m \in Nat \ {0} /\ \E l \in 1 .. k - 1 : b[l].id = m /\ b[l].op = "alloca"

LEMMA IncrementTyped ==
  ASSUME Word \in Nat \ {0}, NEW k, NEW m, SlotAhead(block, k, m)
  PROVE  CodeTyped(block, k, IncrementCode(m))
<1> DEFINE code == IncrementCode(m)
           i1 == Fresh
           i2 == Fresh + 1
           i3 == Fresh + 2
           w == Word
<1>1. /\ IsSeq(code) /\ Len(code) = 3
      /\ Monadic(code[1], i1, "load", w, Value(m))
      /\ Dyadic(code[2], i2, "add", w, Value(i1), Const(1))
      /\ Dyadic(code[3], i3, "store", w, Value(i2), Value(m))
  BY IncrementCodeIs
<1>2. {"load", "add", "store"} \subseteq Ops /\ "load" \notin Binary /\ "store" \notin Binary /\ "add" \in Binary
  BY DEF Ops, Binary
<1>3. InWord(1, w) /\ w \in Nat \ {0}
  BY TwoIs
<1>4. PICK l \in 1 .. k - 1 : block[l].id = m /\ block[l].op = "alloca"
  BY DEF SlotAhead
<1> HIDE DEF code, i1, i2, i3, w
<1>5. /\ code[1].id = i1 /\ code[1].op = "load" /\ code[1].w = w
      /\ code[2].id = i2 /\ code[2].op = "add" /\ code[2].w = w
      /\ code[3].op = "store" /\ code[3].w = w
  BY <1>1 DEF Monadic, Dyadic
<1>6. Fed(block, k - 1, Const(1), code[2])
  BY <1>3, <1>5, FedConst
<1>7. Fed(block, k - 1, Value(m), code[1]) /\ Fed(block, k - 1, Value(m), code[3])
  <2>1. Gives(block[l], code[1]) /\ Gives(block[l], code[3])
    BY <1>2, <1>4, <1>5, SlotGives
  <2>2. QED
    BY <1>4, <2>1, FedValue
<1>8. Fed(code, 2 - 1, Value(i1), code[2])
  <2>1. 1 \in 1 .. 2 - 1 /\ Gives(code[1], code[2])
    BY <1>2, <1>5, WordGives
  <2>2. QED
    BY <1>5, <2>1, FedValue
<1>9. Fed(code, 3 - 1, Value(i2), code[3])
  <2>1. 2 \in 1 .. 3 - 1 /\ Gives(code[2], code[3])
    BY <1>2, <1>5, WordGives
  <2>2. QED
    BY <1>5, <2>1, FedValue
<1> DEFINE OK(i) == /\ Shaped(code[i])
                    /\ \A j \in 1 .. Len(code[i].args) :
                         Fed(block, k - 1, code[i].args[j], code[i]) \/ Fed(code, i - 1, code[i].args[j], code[i])
<1>10. OK(1)
  BY <1>1, <1>2, <1>3, <1>7, MonadicTyped
<1>11. OK(2) /\ OK(3)
  BY <1>1, <1>2, <1>3, <1>6, <1>7, <1>8, <1>9, DyadicTyped
<1>12. \A i \in 1 .. 3 : i = 1 \/ i = 2 \/ i = 3
  OBVIOUS
<1> HIDE DEF OK
<1>13. \A i \in 1 .. Len(code) : OK(i)
  BY <1>1, <1>10, <1>11, <1>12
<1>14. QED
  BY <1>13 DEF CodeTyped, OK, code

LEMMA ReportTyped ==
  ASSUME Word \in Nat \ {0}, NEW k, NEW m, SlotAhead(block, k, m)
  PROVE  CodeTyped(block, k, ReportCode(m))
<1> DEFINE code == ReportCode(m)
           i1 == Fresh
           i2 == Fresh + 1
           w == Word
<1>1. /\ IsSeq(code) /\ Len(code) = 2
      /\ Monadic(code[1], i1, "load", w, Value(m)) /\ Monadic(code[2], i2, "report", w, Value(i1))
  BY ReportCodeIs
<1>2. {"load", "report"} \subseteq Ops /\ "load" \notin Binary
  BY DEF Ops, Binary, Calls
<1>3. w \in Nat \ {0}
  BY DEF w
<1>4. PICK l \in 1 .. k - 1 : block[l].id = m /\ block[l].op = "alloca"
  BY DEF SlotAhead
<1> HIDE DEF code, i1, i2, w
<1>5. /\ code[1].id = i1 /\ code[1].op = "load" /\ code[1].w = w /\ code[2].op = "report" /\ code[2].w = w
  BY <1>1 DEF Monadic
<1>6. Fed(block, k - 1, Value(m), code[1])
  <2>1. Gives(block[l], code[1])
    BY <1>2, <1>4, <1>5, SlotGives
  <2>2. QED
    BY <1>4, <2>1, FedValue
<1>7. Fed(code, 2 - 1, Value(i1), code[2])
  <2>1. 1 \in 1 .. 2 - 1 /\ Gives(code[1], code[2])
    BY <1>2, <1>5, WordGives
  <2>2. QED
    BY <1>5, <2>1, FedValue
<1> DEFINE OK(i) == /\ Shaped(code[i])
                    /\ \A j \in 1 .. Len(code[i].args) :
                         Fed(block, k - 1, code[i].args[j], code[i]) \/ Fed(code, i - 1, code[i].args[j], code[i])
<1>8. OK(1)
  BY <1>1, <1>2, <1>3, <1>6, MonadicTyped
<1>9. OK(2)
  BY <1>1, <1>2, <1>3, <1>7, MonadicTyped
<1>10. \A i \in 1 .. 2 : i = 1 \/ i = 2
  OBVIOUS
<1> HIDE DEF OK
<1>11. \A i \in 1 .. Len(code) : OK(i)
  BY <1>1, <1>8, <1>9, <1>10
<1>12. QED
  BY <1>11 DEF CodeTyped, OK, code
LEMMA SlotRead ==
  ASSUME Good(block, source), WellTyped(block), NEW k \in 1 .. Len(block), NEW input, InputOK(input),
         NEW m, SlotAhead(block, k, m)
  PROVE  LET s == Ran(Outset, block, input)[k - 1] IN m \in DOMAIN s.val /\ s.val[m] = -m
<1> DEFINE s == Ran(Outset, block, input)[k - 1]
<1>1. k - 1 \in 0 .. Len(block)
  BY DEF Good, IsSeq
<1>2. Sound(s, block, k - 1)
  BY <1>1, SoundRun
<1>3. PICK l \in 1 .. k - 1 : block[l].id = m /\ block[l].op = "alloca"
  BY DEF SlotAhead
<1> HIDE DEF s
<1>4. m \in DOMAIN s.val /\ Holder(block[l], s.val[m])
  BY <1>2, <1>3 DEF Sound
<1>5. s.val[m] = -m
  BY <1>3, <1>4 DEF Holder
<1>6. QED
  BY <1>4, <1>5 DEF s

\* The counter m goes up by one, if it is there at all.
LEMMA IncrementRun ==
  ASSUME Fresh \in Nat, NEW s, \A q \in DOMAIN s.val : q \in Nat /\ q < Fresh, NEW input,
         NEW m, m \in DOMAIN s.val, s.val[m] = -m
  PROVE  LET t == After(s, IncrementCode(m), input)
         IN  /\ Hidden(s, t, m)
             /\ -m \in DOMAIN s.mem =>
                  -m \in DOMAIN t.mem /\ t.mem[-m] = Trunc(Trunc(s.mem[-m], Word) + 1, Word)
<1> DEFINE code == IncrementCode(m)
           r == Ran(s, code, input)
           i1 == Fresh
           i2 == Fresh + 1
           i3 == Fresh + 2
           w == Word
           I1 == code[1]
           I2 == code[2]
           I3 == code[3]
           t1 == r[1]
           t2 == r[2]
           t3 == r[3]
<1>1. /\ IsSeq(code) /\ Len(code) = 3
      /\ Monadic(I1, i1, "load", w, Value(m))
      /\ Dyadic(I2, i2, "add", w, Value(i1), Const(1))
      /\ Dyadic(I3, i3, "store", w, Value(i2), Value(m))
  BY IncrementCodeIs
<1>2. i1 \notin DOMAIN s.val /\ i2 \notin DOMAIN s.val /\ m # i1 /\ m # i2
  OBVIOUS
<1>3. Steps(r, s, code, input)
  BY <1>1, RanIs
<1> HIDE DEF i1, i2, i3, w, code, r
<1>4. t1 = Exec(s, I1, input) /\ t2 = Exec(t1, I2, input) /\ t3 = Exec(t2, I3, input)
  <2>1. 1 \in 1 .. 3 /\ 2 \in 1 .. 3 /\ 3 \in 1 .. 3 /\ 1 - 1 = 0 /\ 2 - 1 = 1 /\ 3 - 1 = 2
    OBVIOUS
  <2>2. QED
    BY <1>1, <1>3, <2>1 DEF Steps
<1> HIDE DEF t1, t2, t3, I1, I2, I3
<1>5. ArgValue(s, Value(m)) = -m
  BY OperandSorts DEF ArgValue
<1>6. PICK v : /\ Hidden(s, t1, m) /\ t1.mem = s.mem /\ Updated(t1.val, s.val, i1, v)
               /\ -m \in DOMAIN s.mem => v = Trunc(s.mem[-m], w)
  <2> DEFINE u == Exec(s, I1, input)
             p == ArgValue(s, Value(m))
  <2>1. Hidden(s, s, m)
    BY HiddenSelf
  <2>2. /\ Hidden(s, u, m) /\ u.mem = s.mem
        /\ \E z : Updated(u.val, s.val, i1, z) /\ (p \in DOMAIN s.mem => z = Trunc(s.mem[p], w))
    BY <1>1, <1>2, <2>1, LoadRun
  <2>3. QED
    BY <1>4, <1>5, <2>2
<1>7. ArgValue(t1, Value(i1)) = v /\ ArgValue(t1, Const(1)) = 1
  BY <1>6, OperandSorts DEF ArgValue, Updated, Const
<1>8. Hidden(s, t2, m) /\ t2.mem = t1.mem /\ Updated(t2.val, t1.val, i2, Trunc(v + 1, w))
  <2> DEFINE u == Exec(t1, I2, input)
             z == Compute("add", ArgValue(t1, Value(i1)), ArgValue(t1, Const(1)), w)
  <2>1. "add" \in Total
    BY DEF Total
  <2>2. Hidden(s, u, m) /\ u.mem = t1.mem /\ Updated(u.val, t1.val, i2, z)
    BY <1>1, <1>2, <1>6, <2>1, TotalRun
  <2>3. z = Trunc(v + 1, w)
    BY <1>7 DEF Compute
  <2>4. QED
    BY <1>4, <2>2, <2>3
<1>9. ArgValue(t2, Value(i2)) = Trunc(v + 1, w) /\ ArgValue(t2, Value(m)) = -m
  <2>1. m \in DOMAIN t2.val /\ t2.val[m] = -m
    BY <1>2, <1>6, <1>8 DEF Updated
  <2>2. QED
    BY <1>8, <2>1, OperandSorts DEF ArgValue, Updated
<1>10. Hidden(s, t3, m) /\ Updated(t3.mem, t2.mem, -m, Trunc(v + 1, w))
  <2> DEFINE u == Exec(t2, I3, input)
  <2>1. Hidden(s, u, m) /\ u.val = t2.val /\ Updated(u.mem, t2.mem, -m, ArgValue(t2, Value(i2)))
    BY <1>1, <1>8, <1>9, StoreRun
  <2>2. QED
    BY <1>4, <1>9, <2>1
<1>11. After(s, code, input) = t3
  BY <1>1 DEF After, r, t3
<1>12. -m \in DOMAIN s.mem => -m \in DOMAIN t3.mem /\ t3.mem[-m] = Trunc(Trunc(s.mem[-m], w) + 1, w)
  BY <1>6, <1>10 DEF Updated
<1>13. QED
  BY <1>10, <1>11, <1>12 DEF code, w

\* What is reported is the counter.
Reported(s, t, m, v) ==
  /\ KeepsValues(s, t) /\ t.mem = s.mem /\ t.trace = s.trace /\ (t.undef <=> s.undef)
  /\ t.reports = Append(s.reports, v)
  /\ -m \in DOMAIN s.mem => v = Trunc(s.mem[-m], Word)

LEMMA ReportRun ==
  ASSUME Fresh \in Nat, NEW s, \A q \in DOMAIN s.val : q \in Nat /\ q < Fresh, NEW input,
         NEW m, m \in DOMAIN s.val, s.val[m] = -m
  PROVE  \E v : Reported(s, After(s, ReportCode(m), input), m, v)
<1> DEFINE code == ReportCode(m)
           r == Ran(s, code, input)
           i1 == Fresh
           i2 == Fresh + 1
           w == Word
           I1 == code[1]
           I2 == code[2]
           t1 == r[1]
           t2 == r[2]
<1>1. /\ IsSeq(code) /\ Len(code) = 2
      /\ Monadic(I1, i1, "load", w, Value(m)) /\ Monadic(I2, i2, "report", w, Value(i1))
  BY ReportCodeIs
<1>2. i1 \notin DOMAIN s.val /\ i2 \notin DOMAIN s.val
  OBVIOUS
<1>3. Steps(r, s, code, input)
  BY <1>1, RanIs
<1> HIDE DEF i1, i2, w, code, r
<1>4. t1 = Exec(s, I1, input) /\ t2 = Exec(t1, I2, input)
  <2>1. 1 \in 1 .. 2 /\ 2 \in 1 .. 2 /\ 1 - 1 = 0 /\ 2 - 1 = 1
    OBVIOUS
  <2>2. QED
    BY <1>1, <1>3, <2>1 DEF Steps
<1> HIDE DEF t1, t2, I1, I2
<1>5. ArgValue(s, Value(m)) = -m
  BY OperandSorts DEF ArgValue
<1>6. PICK v : /\ Hidden(s, t1, m) /\ t1.mem = s.mem /\ Updated(t1.val, s.val, i1, v)
               /\ -m \in DOMAIN s.mem => v = Trunc(s.mem[-m], w)
  <2> DEFINE u == Exec(s, I1, input)
             p == ArgValue(s, Value(m))
  <2>1. Hidden(s, s, m)
    BY HiddenSelf
  <2>2. /\ Hidden(s, u, m) /\ u.mem = s.mem
        /\ \E z : Updated(u.val, s.val, i1, z) /\ (p \in DOMAIN s.mem => z = Trunc(s.mem[p], w))
    BY <1>1, <1>2, <2>1, LoadRun
  <2>3. QED
    BY <1>4, <1>5, <2>2
<1>7. ArgValue(t1, Value(i1)) = v
  BY <1>6, OperandSorts DEF ArgValue, Updated
<1> DEFINE X == Evaluated(t1, I2.args)
           z == Result(t1.mem, I2, X, Given(I2, input))
<1>8. X[1] = v
  BY <1>1, <1>7, MonadicReads
<1>9. Effect(t1, I2, X, z, t2)
  BY <1>4, ExecIs
<1> HIDE DEF X, z
<1>10. I2.op = "report" /\ I2.id = i2
  BY <1>1 DEF Monadic
<1>11. "report" \notin Seen /\ "report" \notin Binary
  BY DEF Seen, Terminators, Binary
<1>12. /\ Updated(t2.val, t1.val, i2, z) /\ t2.mem = t1.mem
       /\ t2.trace = t1.trace /\ t2.reports = Append(t1.reports, v) /\ (t2.undef <=> t1.undef)
  BY <1>8, <1>9, <1>10, <1>11 DEF Effect
<1>13. KeepsValues(s, t2)
  BY <1>2, <1>6, <1>12, KeepsMore DEF Hidden
<1>14. Reported(s, t2, m, v)
  BY <1>6, <1>12, <1>13 DEF Hidden, Reported, w
<1>15. After(s, code, input) = t2
  BY <1>1 DEF After, r, t2
<1>16. QED
  BY <1>14, <1>15 DEF code

LEMMA IncrementAlike ==
  ASSUME Good(block, source), WellTyped(block), Word \in Nat \ {0}, NEW k \in 1 .. Len(block),
         NEW m, SlotAhead(block, k, m), Quiet(block, k - 1, m)
  PROVE  LET c == Before(block, k, IncrementCode(m))
         IN  WellTyped(c) /\ \A input : InputOK(input) => Alike(block, c, input, FALSE, <<>>)
<1> DEFINE new == IncrementCode(m)
           c == Before(block, k, new)
           x == block[k].id
<1>1. IsSeq(new) /\ CodeTyped(block, k, new)
  BY IncrementCodeIs, IncrementTyped
<1>2. Fresh \in Nat /\ m \in Nat \ {0}
  BY FreshIs DEF SlotAhead
<1>3. /\ Inserted(block, c, k, new, block[k])
      /\ \A j \in 1 .. Len(block[k].args) : Fed(block, k - 1, block[k].args[j], block[k])
  BY <1>1, BeforeInserted
<1> HIDE DEF c
<1>4. WellTyped(c)
  BY <1>1, <1>3, InsertTyped
<1>5. ASSUME NEW input, InputOK(input) PROVE Alike(block, c, input, FALSE, <<>>)
  <2> DEFINE s == Ran(Outset, block, input)[k - 1]
             t == After(s, new, input)
  <2>1. Hidden(s, t, m)
    <3>1. \A q \in DOMAIN s.val : q \in Nat /\ q < Fresh
      BY <1>5, TakenNumbers
    <3>2. m \in DOMAIN s.val /\ s.val[m] = -m
      BY <1>5, SlotRead
    <3> HIDE DEF s
    <3>3. QED
      BY <1>2, <3>1, <3>2, IncrementRun
  <2>2. Rel(s, t, x, Value(x), m, FALSE, <<>>)
    BY <2>1, HiddenRel
  <2>3. Evaluated(t, block[k].args) = Evaluated(s, block[k].args)
    BY <1>5, <2>2, ReadsSame DEF Rel
  <2> DEFINE U == FALSE
             rep == <<>>
  <2>4. Rel(s, t, x, Value(x), m, U, rep) /\ (rep = <<>> \/ (k = Len(block) /\ block[k].op # "report"))
    BY <2>2
  <2> HIDE DEF U, rep, new
  <2>5. Alike(block, c, input, U, rep)
    BY <1>2, <1>3, <1>5, <2>3, <2>4, InsertAlike
  <2>6. QED
    BY <2>5 DEF U, rep
<1>6. QED
  BY <1>4, <1>5 DEF c

\* In front of the ret the counter is reported, and nothing else is changed.
LEMMA ReportAlike ==
  ASSUME Good(block, source), WellTyped(block), Word \in Nat \ {0}, NEW k \in 1 .. Len(block),
         k = Len(block), block[k].op # "report",
         NEW m, SlotAhead(block, k, m), Quiet(block, k - 1, m)
  PROVE  LET c == Before(block, k, ReportCode(m))
         IN  /\ WellTyped(c)
             /\ \A input : InputOK(input) =>
                  LET s == Ran(Outset, block, input)[k - 1]
                  IN  \E v : /\ Alike(block, c, input, FALSE, <<v>>)
                             /\ -m \in DOMAIN s.mem => v = Trunc(s.mem[-m], Word)
<1> DEFINE new == ReportCode(m)
           c == Before(block, k, new)
           x == block[k].id
<1>1. IsSeq(new) /\ CodeTyped(block, k, new)
  BY ReportCodeIs, ReportTyped
<1>2. Fresh \in Nat /\ m \in Nat \ {0}
  BY FreshIs DEF SlotAhead
<1>3. /\ Inserted(block, c, k, new, block[k])
      /\ \A j \in 1 .. Len(block[k].args) : Fed(block, k - 1, block[k].args[j], block[k])
  BY <1>1, BeforeInserted
<1> HIDE DEF c
<1>4. WellTyped(c)
  BY <1>1, <1>3, InsertTyped
<1>5. ASSUME NEW input, InputOK(input)
      PROVE  \E v : /\ Alike(block, c, input, FALSE, <<v>>)
                    /\ -m \in DOMAIN Ran(Outset, block, input)[k - 1].mem =>
                         v = Trunc(Ran(Outset, block, input)[k - 1].mem[-m], Word)
  <2> DEFINE s == Ran(Outset, block, input)[k - 1]
             t == After(s, new, input)
  <2>1. PICK v : Reported(s, t, m, v)
    <3>1. \A q \in DOMAIN s.val : q \in Nat /\ q < Fresh
      BY <1>5, TakenNumbers
    <3>2. m \in DOMAIN s.val /\ s.val[m] = -m
      BY <1>5, SlotRead
    <3> HIDE DEF s
    <3>3. QED
      BY <1>2, <3>1, <3>2, ReportRun
  <2> DEFINE U == FALSE
             rep == <<v>>
  <2> HIDE DEF s, t, new, U
  <2>2. rep # <<>> /\ rep[1] = v
    OBVIOUS
  <2> HIDE DEF rep
  <2>3. Rel(s, t, x, Value(x), m, U, rep)
    <3>1. Follows(s, t, x, Value(x))
      <4>1. ASSUME NEW n \in DOMAIN s.val PROVE Reads(t, Stand(x, Value(x), n), s.val[n])
        <5>1. Stand(x, Value(x), n) = Value(n)
          BY DEF Stand
        <5>2. n \in DOMAIN t.val /\ t.val[n] = s.val[n]
          BY <2>1 DEF Reported, KeepsValues
        <5>3. QED
          BY <5>1, <5>2, OperandSorts DEF Reads
      <4>2. QED
        BY <4>1 DEF Follows
    <3>2. SameMemory(s, t, m) /\ t.reports = Printed(s.reports, rep) /\ (t.undef <=> s.undef \/ U) /\ t.trace = s.trace
      BY <2>1, <2>2 DEF Reported, SameMemory, Printed, U
    <3>3. QED
      BY <3>1, <3>2 DEF Rel
  <2>4. Evaluated(t, block[k].args) = Evaluated(s, block[k].args)
    BY <1>5, <2>3, ReadsSame DEF Rel, s
  <2>5. Alike(block, c, input, U, rep)
    <3>1. Rel(Ran(Outset, block, input)[k - 1], After(Ran(Outset, block, input)[k - 1], new, input), x, Value(x), m, U, rep)
      BY <2>3 DEF s, t
    <3>2. Evaluated(After(Ran(Outset, block, input)[k - 1], new, input), block[k].args)
            = Evaluated(Ran(Outset, block, input)[k - 1], block[k].args)
      BY <2>4 DEF s, t
    <3>3. QED
      BY <1>2, <1>3, <1>5, <3>1, <3>2, InsertAlike
  <2>6. -m \in DOMAIN s.mem => v = Trunc(s.mem[-m], Word)
    BY <2>1 DEF Reported
  <2>7. QED
    BY <2>5, <2>6 DEF U, rep, s
<1>6. QED
  BY <1>4, <1>5 DEF c

(* Divisions the passes insert.                                            *)

Divides(I) == I.op = "sdiv" /\ I.w = 1 /\ I.id \notin Ids(source)
Dividing(b) == \E i \in 1 .. Len(b) : Divides(b[i])

LEMMA DividingIs ==
  ASSUME NEW b, IsSeq(b)
  PROVE  DividesBit(b) <=> Dividing(b)
<1>1. DOMAIN b = 1 .. Len(b)
  BY SeqIn
<1>2. QED
  BY <1>1 DEF DividesBit, Dividing, Divides

LEMMA EditedDivides ==
  ASSUME NEW b, IsSeq(b), NEW c, NEW k \in 1 .. Len(b), NEW core, IsSeq(core), NEW x, NEW a, Edited(b, c, k, core, x, a)
  PROVE  Dividing(c) <=> Dividing(core) \/ \E i \in 1 .. Len(b) : i # k /\ Divides(b[i])
<1> DEFINE n == Len(core)
<1>1. Len(b) \in Nat /\ n \in Nat /\ Len(c) = Len(b) - 1 + n
  BY DEF IsSeq, Edited
<1>2. \A I : Divides(Rewired(I, x, a)) <=> Divides(I)
  BY DEF Divides, Rewired, Inst
<1>3. ASSUME NEW i \in 1 .. Len(c)
      PROVE  \/ \E l \in 1 .. n : c[i] = core[l]
             \/ \E l \in 1 .. Len(b) : l # k /\ (Divides(c[i]) <=> Divides(b[l]))
  <2>1. CASE i < k
    <3>1. i \in 1 .. k - 1 /\ i \in 1 .. Len(b) /\ i # k
      BY <1>1, <2>1
    <3>2. QED
      BY <3>1 DEF Edited
  <2>2. CASE ~(i < k) /\ i < k + n
    <3>1. i - k + 1 \in 1 .. n /\ k - 1 + (i - k + 1) = i
      BY <1>1, <2>2
    <3>2. c[k - 1 + (i - k + 1)] = core[i - k + 1]
      BY <3>1 DEF Edited
    <3>3. QED
      BY <3>1, <3>2
  <2>3. CASE ~(i < k + n)
    <3>1. i - n + 1 \in k + 1 .. Len(b) /\ (i - n + 1) - 1 + n = i /\ i - n + 1 \in 1 .. Len(b) /\ i - n + 1 # k
      BY <1>1, <2>3
    <3>2. c[(i - n + 1) - 1 + n] = Rewired(b[i - n + 1], x, a)
      BY <3>1 DEF Edited
    <3>3. QED
      BY <1>2, <3>1, <3>2
  <2>4. QED
    BY <2>1, <2>2, <2>3
<1>4. Dividing(c) => Dividing(core) \/ \E i \in 1 .. Len(b) : i # k /\ Divides(b[i])
  BY <1>3 DEF Dividing
<1>5. ASSUME NEW l \in 1 .. n, Divides(core[l]) PROVE Dividing(c)
  <2>1. k - 1 + l \in 1 .. Len(c)
    BY <1>1
  <2>2. c[k - 1 + l] = core[l]
    BY DEF Edited
  <2>3. QED
    BY <1>5, <2>1, <2>2 DEF Dividing
<1>6. ASSUME NEW l \in 1 .. Len(b), l # k, Divides(b[l]) PROVE Dividing(c)
  <2>1. CASE l < k
    <3>1. l \in 1 .. k - 1 /\ l \in 1 .. Len(c)
      BY <1>1, <2>1
    <3>2. c[l] = b[l]
      BY <3>1 DEF Edited
    <3>3. QED
      BY <1>6, <3>1, <3>2 DEF Dividing
  <2>2. CASE ~(l < k)
    <3>1. l \in k + 1 .. Len(b) /\ l - 1 + n \in 1 .. Len(c)
      BY <1>1, <1>6, <2>2
    <3>2. c[l - 1 + n] = Rewired(b[l], x, a)
      BY <3>1 DEF Edited
    <3>3. QED
      BY <1>2, <1>6, <3>1, <3>2 DEF Dividing
  <2>3. QED
    BY <2>1, <2>2
<1>7. QED
  BY <1>4, <1>5, <1>6 DEF Dividing

\* The k-th instruction stays, with other operands perhaps.
LEMMA AheadDivides ==
  ASSUME NEW b, IsSeq(b), NEW c, NEW k \in 1 .. Len(b), NEW new, IsSeq(new), NEW x, NEW a,
         NEW J, Edited(b, c, k, Append(new, J), x, a), J.id = b[k].id, J.op = b[k].op, J.w = b[k].w
  PROVE  Dividing(c) <=> Dividing(b) \/ Dividing(new)
<1> DEFINE core == Append(new, J)
           n == Len(new)
<1>1. Dividing(b) <=> Divides(b[k]) \/ \E i \in 1 .. Len(b) : i # k /\ Divides(b[i])
  BY DEF Dividing
<1>2. n \in Nat
  BY DEF IsSeq
<1>3. IsSeq(core) /\ Len(core) = n + 1 /\ core[n + 1] = J /\ \A i \in 1 .. n : core[i] = new[i]
  BY AppendIs
<1> HIDE DEF core, n
<1>4. \A i \in 1 .. n + 1 : i \in 1 .. n \/ i = n + 1
  BY <1>2
<1>5. n + 1 \in 1 .. n + 1 /\ \A i \in 1 .. n : i \in 1 .. n + 1
  BY <1>2
<1>6. Dividing(core) <=> Divides(J) \/ \E i \in 1 .. n : Divides(new[i])
  BY <1>3, <1>4, <1>5 DEF Dividing
<1>7. Divides(J) <=> Divides(b[k])
  BY DEF Divides
<1>8. Dividing(c) <=> Dividing(core) \/ \E i \in 1 .. Len(b) : i # k /\ Divides(b[i])
  BY <1>3, EditedDivides DEF core
<1>9. QED
  BY <1>1, <1>6, <1>7, <1>8 DEF Dividing, n

\* It stays, or it was no division that counts.
LEMMA EditDivides ==
  ASSUME NEW b, IsSeq(b), NEW c, NEW k \in 1 .. Len(b), NEW new, IsSeq(new), NEW x, NEW a,
         \/ Edited(b, c, k, new, x, a) /\ ~Divides(b[k])
         \/ \E J : Edited(b, c, k, Append(new, J), x, a) /\ J.id = b[k].id /\ J.op = b[k].op /\ J.w = b[k].w
  PROVE  Dividing(c) <=> Dividing(b) \/ Dividing(new)
<1>1. Dividing(b) <=> Divides(b[k]) \/ \E i \in 1 .. Len(b) : i # k /\ Divides(b[i])
  BY DEF Dividing
<1>2. CASE Edited(b, c, k, new, x, a) /\ ~Divides(b[k])
  BY <1>1, <1>2, EditedDivides
<1>3. ASSUME NEW J, Edited(b, c, k, Append(new, J), x, a), J.id = b[k].id, J.op = b[k].op, J.w = b[k].w
      PROVE  Dividing(c) <=> Dividing(b) \/ Dividing(new)
  BY <1>3, AheadDivides
<1>4. QED
  BY <1>2, <1>3

NoDivision(st) == IsSeq(st.code) /\ \A i \in 1 .. Len(st.code) : st.code[i].op # "sdiv"

LEMMA CreateNoDivision ==
  ASSUME NEW st, NoDivision(st), NEW op, op # "sdiv", NEW w, NEW x, NEW y
  PROVE  NoDivision(Create(st, op, w, x, y))
<1> DEFINE t == Create(st, op, w, x, y)
           I == Inst(Fresh + Len(st.code), op, w, <<x, y>>)
<1>1. CASE IsConst(x) /\ IsConst(y)
  <2>1. t = [st EXCEPT !.a = Const(Compute(op, x.n, y.n, w))]
    BY <1>1 DEF Create
  <2>2. t.code = st.code
    BY <2>1
  <2> HIDE DEF t
  <2>3. NoDivision(t)
    BY <2>2 DEF NoDivision
  <2>4. QED
    BY <2>3 DEF t
<1>2. CASE ~(IsConst(x) /\ IsConst(y))
  <2>1. t.code = Append(st.code, I) /\ I.op = op
    BY <1>2 DEF Create, Inst
  <2> HIDE DEF t, I
  <2>2. /\ IsSeq(t.code) /\ Len(t.code) = Len(st.code) + 1 /\ t.code[Len(st.code) + 1] = I
        /\ \A i \in 1 .. Len(st.code) : t.code[i] = st.code[i]
    BY <2>1, AppendIs DEF NoDivision
  <2>3. \A i \in 1 .. Len(st.code) + 1 : i \in 1 .. Len(st.code) \/ i = Len(st.code) + 1
    BY DEF NoDivision, IsSeq
  <2>4. NoDivision(t)
    BY <2>1, <2>2, <2>3 DEF NoDivision
  <2>5. QED
    BY <2>4 DEF t
<1>3. QED
  BY <1>1, <1>2

LEMMA StartNoDivision == NoDivision(Start)
BY StartMade, EmptyIs DEF NoDivision

LEMMA NoDivisionDivides ==
  ASSUME NEW st, NoDivision(st)
  PROVE  ~Dividing(st.code) /\ IsSeq(st.code)
BY DEF NoDivision, Dividing, Divides

LEMMA SubstitutionNoDivision ==
  ASSUME NEW I, I.op \in {"add", "sub", "mul"}, NEW dice \in {0, 1}
  PROVE  NoDivision(Substitution(I, dice))
<1> DEFINE a == I.args[1]
           b == I.args[2]
           w == I.w
           nega == Neg(Start, a, w)
           negb == Neg(Start, b, w)
           both == Neg(nega, b, w)
           sum == Create(both, "add", w, nega.a, both.a)
           prod == Create(nega, "mul", w, nega.a, b)
           less == Create(Start, "sub", w, b, ConstInt(1, w))
           part == Create(less, "mul", w, a, less.a)
           t == Substitution(I, dice)
<1>1. \A st, x : NoDivision(st) => NoDivision(Neg(st, x, w))
  BY CreateNoDivision DEF Neg
<1>2. \A st, x, y : NoDivision(st) =>
        /\ NoDivision(Create(st, "add", w, x, y)) /\ NoDivision(Create(st, "sub", w, x, y))
        /\ NoDivision(Create(st, "mul", w, x, y))
  BY CreateNoDivision
<1>3. \/ t = Create(negb, "sub", w, a, negb.a) \/ t = Neg(sum, sum.a, w)
      \/ t = Create(negb, "add", w, a, negb.a) \/ t = Neg(prod, prod.a, w)
      \/ t = Create(part, "add", w, part.a, a)
  BY DEF Substitution
<1>4. NoDivision(nega) /\ NoDivision(negb) /\ NoDivision(less)
  BY <1>1, <1>2, StartNoDivision
<1> HIDE DEF nega, negb, less, t
<1>5. NoDivision(both) /\ NoDivision(prod) /\ NoDivision(part)
  BY <1>1, <1>2, <1>4
<1> HIDE DEF both, prod, part
<1>6. NoDivision(sum)
  BY <1>2, <1>5
<1> HIDE DEF sum
<1>7. NoDivision(t)
  BY <1>1, <1>2, <1>3, <1>4, <1>5, <1>6
<1>8. QED
  BY <1>7 DEF t
LEMMA GarbageDivides ==
  ASSUME Good(block, source), NEW x, ~IsConst(x), NEW w, NEW pattern \in 0 .. 4, NEW n
  PROVE  Dividing(Garbage(x, w, pattern, n).code) <=> pattern = 1 /\ w = 1
<1> DEFINE g == Garbage(x, w, pattern, n)
<1>1. ASSUME NEW op1, op1 # "sdiv", NEW op2, op2 # "sdiv", NEW m PROVE NoDivision(Twice(x, w, op1, op2, m))
  <2> DEFINE c == ConstInt(m, w)
             st == Create(Start, op1, w, x, c)
  <2>1. NoDivision(st)
    BY <1>1, StartNoDivision, CreateNoDivision
  <2> HIDE DEF st, c
  <2>2. NoDivision(Create(st, op2, w, st.a, c))
    BY <1>1, <2>1, CreateNoDivision
  <2>3. QED
    BY <2>2 DEF Twice, st, c
<1>2. ASSUME NEW op, op # "sdiv", NEW c PROVE NoDivision(Create(Start, op, w, x, c))
  BY <1>2, StartNoDivision, CreateNoDivision
<1>3. CASE pattern # 1
  <2>1. \/ g = Twice(x, w, "add", "sub", n) \/ g = Twice(x, w, "xor", "xor", n)
        \/ g = Create(Start, "or", w, x, Const(0))
        \/ g = Create(Start, "and", w, x, ConstInt(Pow2[Word] - 1, w))
    BY <1>3 DEF Garbage
  <2> HIDE DEF g
  <2>2. NoDivision(g)
    BY <1>1, <1>2, <2>1
  <2>3. ~Dividing(g.code)
    BY <2>2, NoDivisionDivides
  <2>4. QED
    BY <1>3, <2>3 DEF g
<1>4. CASE pattern = 1
  <2> DEFINE c == ConstInt(2, w)
             st == Create(Start, "mul", w, x, c)
             t == Create(st, "sdiv", w, st.a, c)
             M == Inst(Fresh + Len(Start.code), "mul", w, <<x, c>>)
             I == Inst(Fresh + Len(st.code), "sdiv", w, <<st.a, c>>)
  <2>1. g = t
    BY <1>4 DEF Garbage, Twice
  <2>2. NoDivision(st)
    BY <1>2
  <2>3. Len(st.code) \in Nat /\ IsSeq(st.code)
    BY <2>2 DEF NoDivision, IsSeq
  <2>4. ~IsConst(st.a)
    <3> HIDE DEF c
    <3>1. st.a = Value(Fresh + Len(Start.code))
      BY DEF Create
    <3>2. QED
      BY <3>1, OperandSorts
  <2>5. t.code = Append(st.code, I)
    <3> HIDE DEF st, c
    <3>1. QED
      BY <2>4 DEF Create
  <2>6. I.op = "sdiv" /\ I.w = w /\ I.id = Fresh + Len(st.code)
    BY DEF Inst
  <2> HIDE DEF I, st, t, g
  <2>7. /\ Len(t.code) = Len(st.code) + 1 /\ t.code[Len(st.code) + 1] = I
        /\ \A i \in 1 .. Len(st.code) : t.code[i] = st.code[i]
    BY <2>3, <2>5, AppendIs
  <2>8. I.id \notin Ids(source)
    <3>1. Fresh \in Nat /\ \A l \in 1 .. Len(source) : source[l].id \in Nat /\ source[l].id < Fresh
      BY FreshIs DEF Good, Numbered
    <3>2. DOMAIN source = 1 .. Len(source)
      BY SeqIn DEF Good, Numbered
    <3>3. QED
      BY <2>3, <2>6, <3>1, <3>2 DEF Ids
  <2>9. Len(st.code) + 1 \in 1 .. Len(t.code) /\ \A i \in 1 .. Len(t.code) : i \in 1 .. Len(st.code) \/ i = Len(st.code) + 1
    BY <2>3, <2>7
  <2>10. Dividing(t.code) <=> w = 1
    BY <2>2, <2>6, <2>7, <2>8, <2>9 DEF Dividing, Divides, NoDivision
  <2>11. QED
    BY <1>4, <2>1, <2>10 DEF g
<1>5. QED
  BY <1>3, <1>4

(* What a single rewriting does.                                           *)

\* c is typed, does what the block does and is undefined where the block is, but for
\* what U says; a division of a bit is new in it just then.
Tracks(c, U) ==
  /\ WellTyped(c)
  /\ \A input : InputOK(input) => Alike(block, c, input, U, <<>>)
  /\ Dividing(c) <=> Dividing(block) \/ U

LEMMA NoneOK == InputOK(<<>>)
BY DEF InputOK

LEMMA SubstitutedTracks ==
  ASSUME Good(block, source), WellTyped(block), NEW k \in 1 .. Len(block),
         block[k].op \in {"add", "sub", "mul"}, NEW dice \in {0, 1}
  PROVE  LET st == Substitution(block[k], dice)
             r == replaceAllUsesWith(Before(block, k, st.code), block[k].id, st.a)
             c == RemoveAt(r, k + Len(st.code))
         IN  IsSeq(r) => Tracks(c, FALSE)
<1> DEFINE I == block[k]
           x == I.id
           st == Substitution(I, dice)
           new == st.code
           a == st.a
           r == replaceAllUsesWith(Before(block, k, new), x, a)
           c == RemoveAt(r, k + Len(new))
<1>1. SUFFICES ASSUME IsSeq(r) PROVE Tracks(c, FALSE)
  OBVIOUS
<1>2. \A input : InputOK(input) => Alike(block, c, input, FALSE, <<>>) /\ WellTyped(c)
  BY <1>1, SubstitutedAlike
<1>3. NoDivision(st)
  BY SubstitutionNoDivision
<1>4. Made(k, st)
  BY SubstitutionMade
<1>5. IsSeq(block) /\ I.op # "phi" /\ ~Divides(I)
  BY DEF Good, Divides
<1> HIDE DEF st
<1>6. NewCode(block, k, new) /\ IsSeq(new) /\ ~Dividing(new)
  BY <1>3, <1>4, NoDivisionDivides DEF Made
<1>7. Edited(block, c, k, new, x, a)
  BY <1>1, <1>5, <1>6, SupersedeEdited
<1> HIDE DEF c, r
<1>8. Dividing(c) <=> Dividing(block)
  BY <1>5, <1>6, <1>7, EditDivides
<1>9. WellTyped(c)
  BY <1>2, NoneOK
<1>10. Tracks(c, FALSE)
  BY <1>2, <1>8, <1>9 DEF Tracks
<1>11. QED
  BY <1>10 DEF c, r

LEMMA ShiftedTracks ==
  ASSUME Good(block, source), WellTyped(block), NEW k \in 1 .. Len(block),
         block[k].op = "mul", IsMulBy2(block[k])
  PROVE  LET I == block[k]
             st == Create(Start, "shl", I.w, I.args[3 - ConstantSide(I)], Const(1))
             c == replaceAllUsesWith(Before(block, k, st.code), I.id, st.a)
         IN  IsSeq(c) => Tracks(c, FALSE)
<1> DEFINE I == block[k]
           x == I.id
           st == Create(Start, "shl", I.w, I.args[3 - ConstantSide(I)], Const(1))
           new == st.code
           a == st.a
           c == replaceAllUsesWith(Before(block, k, new), x, a)
<1>1. SUFFICES ASSUME IsSeq(c) PROVE Tracks(c, FALSE)
  OBVIOUS
<1>2. \A input : InputOK(input) => Alike(block, c, input, FALSE, <<>>) /\ WellTyped(c)
  BY <1>1, ShiftedAlike
<1>3. NoDivision(st)
  BY StartNoDivision, CreateNoDivision
<1>4. Made(k, st)
  <2>1. Built(k, I.w, Ran(Outset, block, <<>>)[k - 1], <<>>, st, FALSE)
    BY NoneOK, ToShlBuilt
  <2>2. QED
    BY <2>1 DEF Built
<1>5. IsSeq(block) /\ block[k].op # "phi"
  BY DEF Good
<1> HIDE DEF st
<1>6. NewCode(block, k, new) /\ IsSeq(new) /\ ~Dividing(new)
  BY <1>3, <1>4, NoDivisionDivides DEF Made
<1>7. Edited(block, c, k, Append(new, block[k]), x, a)
  <2> DEFINE cc == Append(new, block[k])
             d == replaceAllUsesWith(Before(block, k, new), block[k].id, a)
  <2>1. /\ IsSeq(new) /\ IsSeq(cc) /\ Len(cc) = Len(new) + 1 /\ cc[Len(new) + 1] = block[k]
        /\ \A i \in 1 .. Len(new) : cc[i] = new[i]
        /\ Edited(block, d, k, cc, block[k].id, a)
        /\ k + Len(new) \in 1 .. Len(d)
        /\ IsSeq(d) => Edited(block, RemoveAt(d, k + Len(new)), k, new, block[k].id, a)
    <3> HIDE DEF new, a, I
    <3>1. QED
      BY <1>5, <1>6, SupersedeEdited
  <2>2. QED
    BY <2>1
<1> HIDE DEF c
<1>8. Dividing(c) <=> Dividing(block)
  <2>1. \E J : Edited(block, c, k, Append(new, J), x, a) /\ J.id = block[k].id /\ J.op = block[k].op /\ J.w = block[k].w
    BY <1>7
  <2>2. QED
    BY <1>5, <1>6, <2>1, EditDivides
<1>9. WellTyped(c)
  BY <1>2, NoneOK
<1>10. Tracks(c, FALSE)
  BY <1>2, <1>8, <1>9 DEF Tracks
<1>11. QED
  BY <1>10 DEF c

LEMMA ErasedTracks ==
  ASSUME Good(block, source), WellTyped(block), NEW k \in 1 .. Len(block),
         block[k].op = "mul", Unused(block, block[k].id)
  PROVE  Tracks(RemoveAt(block, k), FALSE)
<1> DEFINE c == RemoveAt(block, k)
           x == block[k].id
           none == <<>>
<1>1. \A input : InputOK(input) => Alike(block, c, input, FALSE, <<>>) /\ WellTyped(c)
  BY ErasedAlike
<1>2. Edited(block, c, k, none, x, Const(0))
  BY EraseEdited
<1>3. IsSeq(none) /\ Len(none) = 0 /\ ~Dividing(none)
  BY EmptyIs DEF Dividing
<1>4. IsSeq(block) /\ ~Divides(block[k])
  BY DEF Good, Divides
<1> HIDE DEF c, none
<1>5. Dividing(c) <=> Dividing(block)
  BY <1>2, <1>3, <1>4, EditDivides
<1>6. WellTyped(c)
  BY <1>1, NoneOK
<1>7. Tracks(c, FALSE)
  BY <1>1, <1>5, <1>6 DEF Tracks
<1>8. QED
  BY <1>7 DEF c
LEMMA InsertedDivides ==
  ASSUME NEW c, NEW k \in 1 .. Len(block), IsSeq(block), NEW new, NEW J, Inserted(block, c, k, new, J)
  PROVE  Dividing(c) <=> Dividing(block) \/ Dividing(new)
<1> DEFINE x == block[k].id
           a == Value(x)
<1>1. IsSeq(new) /\ Edited(block, c, k, Append(new, J), x, a) /\ J.id = block[k].id /\ J.op = block[k].op /\ J.w = block[k].w
  BY DEF Inserted
<1> HIDE DEF a, x
<1>2. QED
  BY <1>1, AheadDivides

\* Garbage behind the instruction at k - 1, computed from an integer in front of it.
LEMMA GarbageTracks ==
  ASSUME Good(block, source), WellTyped(block), NEW k \in 1 .. Len(block), NEW l \in 1 .. k - 1, IsIntegerTy(block[l]),
         NEW pattern \in 0 .. 4, NEW n \in Nat
  PROVE  LET w == block[l].w
         IN  Tracks(Before(block, k, Garbage(Value(block[l].id), w, pattern, n).code), pattern = 1 /\ w = 1)
<1> DEFINE w == block[l].w
           x == Value(block[l].id)
           g == Garbage(x, w, pattern, n)
           U == pattern = 1 /\ w = 1
           c == Before(block, k, g.code)
<1>1. l \in 1 .. Len(block) /\ IsSeq(block)
  BY DEF Good, IsSeq
<1>2. w \in Nat \ {0} /\ ~IsConst(x)
  BY <1>1, OperandSorts DEF WellTyped, Shaped
<1>3. ASSUME NEW input, InputOK(input)
      PROVE  Built(k, w, Ran(Outset, block, input)[k - 1], input, g, U)
  <2> DEFINE s == Ran(Outset, block, input)[k - 1]
             v == s.val[block[l].id]
  <2>1. Has(k, w, s, input, Start, x, v)
    BY <1>3, ValueHas
  <2>2. Built(k, w, s, input, Start, FALSE)
    BY <1>3, StartBuilt
  <2> HIDE DEF s, v, w, x
  <2>3. QED
    BY <1>2, <2>1, <2>2, GarbageBuilt DEF s
<1> HIDE DEF U
<1>4. \A input : InputOK(input) => Alike(block, c, input, U, <<>>) /\ WellTyped(c)
  <2> HIDE DEF g, w, x
  <2>1. QED
    BY <1>3, BuiltAlike
<1>5. IsSeq(g.code)
  BY <1>3, NoneOK DEF Built, Made, NewCode
<1>6. Dividing(g.code) <=> U
  <2> HIDE DEF w, x
  <2>1. ~IsConst(x)
    BY <1>2
  <2>2. Dividing(Garbage(x, w, pattern, n).code) <=> pattern = 1 /\ w = 1
    BY <2>1, GarbageDivides
  <2>3. QED
    BY <2>2 DEF U
<1> HIDE DEF g, w, x
<1>7. Inserted(block, c, k, g.code, block[k])
  BY <1>5, BeforeInserted
<1> HIDE DEF c
<1>8. Dividing(c) <=> Dividing(block) \/ U
  BY <1>1, <1>6, <1>7, InsertedDivides
<1>9. WellTyped(c)
  BY <1>4, NoneOK
<1>10. Tracks(c, U)
  BY <1>4, <1>8, <1>9 DEF Tracks
<1>11. QED
  BY <1>10 DEF c, g, w, x, U

LEMMA AlteredTracks ==
  ASSUME Good(block, source), WellTyped(block), Word \in Nat \ {0}, NEW k \in 1 .. Len(block),
         NEW j0 \in 1 .. Len(block[k].args), IsConst(block[k].args[j0]), NEW random \in 0 .. Pow2[Word] - 1
  PROVE  LET z == block[k].args[j0]
             w == block[k].w
             args == Swapped(block[k].args, z, Value(Fresh + 3))
             c == Before([block EXCEPT ![k].args = args], k, Blackboxed(z.n, w, random))
         IN  /\ WellTyped(c)
             /\ Carried(z.n, w) /\ (w <= Word \/ Signed(z.n, w) >= 0) => Tracks(c, FALSE)
<1> DEFINE z == block[k].args[j0]
           n == z.n
           w == block[k].w
           args == Swapped(block[k].args, z, Value(Fresh + 3))
           new == Blackboxed(n, w, random)
           c == Before([block EXCEPT ![k].args = args], k, new)
           J == Inst(block[k].id, block[k].op, w, args)
<1>1. /\ WellTyped(c)
      /\ Carried(n, w) /\ (w <= Word \/ Signed(n, w) >= 0) =>
           \A input : InputOK(input) => Alike(block, c, input, FALSE, <<>>)
  BY AlteredAlike
<1>2. IsSeq(block)
  BY DEF Good
<1>3. IsSeq(new) /\ ~Dividing(new)
  <2> HIDE DEF n, w
  <2>1. /\ IsSeq(new) /\ Len(new) = 4
        /\ Monadic(new[1], Fresh, "alloca", w, Const(1))
        /\ Dyadic(new[2], Fresh + 1, "store", w, ConstInt(Xor(Trunc(Signed(n, w), Word), random, Word), w), Value(Fresh))
        /\ Monadic(new[3], Fresh + 2, "load", w, Value(Fresh))
        /\ Dyadic(new[4], Fresh + 3, "xor", w, Value(Fresh + 2), ConstInt(random, w))
    BY BlackboxCode
  <2> HIDE DEF new
  <2>2. new[1].op # "sdiv" /\ new[2].op # "sdiv" /\ new[3].op # "sdiv" /\ new[4].op # "sdiv"
    BY <2>1 DEF Monadic, Dyadic
  <2>3. \A i \in 1 .. 4 : i = 1 \/ i = 2 \/ i = 3 \/ i = 4
    OBVIOUS
  <2>4. QED
    BY <2>1, <2>2, <2>3 DEF Dividing, Divides
<1>4. Inserted(block, c, k, new, J)
  <2> HIDE DEF new, args
  <2>1. QED
    BY <1>3, SwappedInserted
<1> HIDE DEF c, new, J
<1>5. Dividing(c) <=> Dividing(block)
  BY <1>2, <1>3, <1>4, InsertedDivides
<1>6. Carried(n, w) /\ (w <= Word \/ Signed(n, w) >= 0) => Tracks(c, FALSE)
  BY <1>1, <1>5 DEF Tracks
<1>7. QED
  BY <1>1, <1>6 DEF c, new

LEMMA CounterTracks ==
  ASSUME Good(block, source), WellTyped(block), Word \in Nat \ {0}, NEW k \in 1 .. Len(block)
  PROVE  Tracks(Before(block, k, CounterCode), FALSE)
<1> DEFINE new == CounterCode
           c == Before(block, k, new)
<1>1. WellTyped(c) /\ \A input : InputOK(input) => Alike(block, c, input, FALSE, <<>>)
  BY CounterAlike
<1>2. IsSeq(new) /\ ~Dividing(new)
  <2>1. IsSeq(new) /\ Len(new) = 2 /\ new[1].op # "sdiv" /\ new[2].op # "sdiv"
    BY CounterCodeIs DEF Monadic, Dyadic
  <2> HIDE DEF new
  <2>2. \A i \in 1 .. 2 : i = 1 \/ i = 2
    OBVIOUS
  <2>3. QED
    BY <2>1, <2>2 DEF Dividing, Divides
<1>3. Inserted(block, c, k, new, block[k]) /\ IsSeq(block)
  BY <1>2, BeforeInserted DEF Good
<1> HIDE DEF c, new
<1>4. Dividing(c) <=> Dividing(block)
  BY <1>2, <1>3, InsertedDivides
<1>5. QED
  BY <1>1, <1>4 DEF Tracks, c, new

LEMMA IncrementTracks ==
  ASSUME Good(block, source), WellTyped(block), Word \in Nat \ {0}, NEW k \in 1 .. Len(block),
         NEW m, SlotAhead(block, k, m), Quiet(block, k - 1, m)
  PROVE  Tracks(Before(block, k, IncrementCode(m)), FALSE)
<1> DEFINE new == IncrementCode(m)
           c == Before(block, k, new)
<1>1. WellTyped(c) /\ \A input : InputOK(input) => Alike(block, c, input, FALSE, <<>>)
  BY IncrementAlike
<1>2. IsSeq(new) /\ ~Dividing(new)
  <2>1. IsSeq(new) /\ Len(new) = 3 /\ new[1].op # "sdiv" /\ new[2].op # "sdiv" /\ new[3].op # "sdiv"
    BY IncrementCodeIs DEF Monadic, Dyadic
  <2> HIDE DEF new
  <2>2. \A i \in 1 .. 3 : i = 1 \/ i = 2 \/ i = 3
    OBVIOUS
  <2>3. QED
    BY <2>1, <2>2 DEF Dividing, Divides
<1>3. Inserted(block, c, k, new, block[k]) /\ IsSeq(block)
  BY <1>2, BeforeInserted DEF Good
<1> HIDE DEF c, new
<1>4. Dividing(c) <=> Dividing(block)
  BY <1>2, <1>3, InsertedDivides
<1>5. QED
  BY <1>1, <1>4 DEF Tracks, c, new

LEMMA ReportDivides ==
  ASSUME Good(block, source), NEW k \in 1 .. Len(block), NEW m
  PROVE  Dividing(Before(block, k, ReportCode(m))) <=> Dividing(block)
<1> DEFINE new == ReportCode(m)
           c == Before(block, k, new)
<1>1. IsSeq(new) /\ ~Dividing(new)
  <2>1. IsSeq(new) /\ Len(new) = 2 /\ new[1].op # "sdiv" /\ new[2].op # "sdiv"
    BY ReportCodeIs DEF Monadic
  <2> HIDE DEF new
  <2>2. \A i \in 1 .. 2 : i = 1 \/ i = 2
    OBVIOUS
  <2>3. QED
    BY <2>1, <2>2 DEF Dividing, Divides
<1>2. Inserted(block, c, k, new, block[k]) /\ IsSeq(block)
  BY <1>1, BeforeInserted DEF Good
<1> HIDE DEF c, new
<1>3. Dividing(c) <=> Dividing(block)
  BY <1>1, <1>2, InsertedDivides
<1>4. QED
  BY <1>3 DEF c, new

(***************************************************************************)
(* What the visits to come aim at.                                         *)
(***************************************************************************)
Slot(b, m) == m # 0 /\ \E l \in 1 .. Len(b) : b[l].id = m /\ b[l].op = "alloca"

\* The operand, the base value or the counter of a visit; of a counter nothing is read
\* from the instruction visited on.
Aims(b, p, t) ==
  /\ p \in {"inst_sub", "Mul2ToShl1", "constant_altering"} => t[3] = 0
  /\ p = "constant_altering" => \E i \in 1 .. Len(b) : b[i].id = t[1] /\ t[2] \in 1 .. Len(b[i].args)
  /\ p = "garbage_insert" => \E l \in 1 .. Len(b) : b[l].id = t[3] /\ IsIntegerTy(b[l])
  /\ p \in Counting =>
       Slot(b, t[3]) /\ \E i \in 1 .. Len(b) : b[i].id = t[1] /\ Quiet(b, i - 1, t[3])

InOrder(b, v) ==
  \A i, l \in 1 .. Len(v) : i < l =>
    \E p, q \in 1 .. Len(b) : p < q /\ b[p].id = v[i][1] /\ b[q].id = v[l][1]

Aimed ==
  pc = "visit" => /\ \A k \in 1 .. Len(todo) : Aims(block, Pass, todo[k])
                  /\ Pass \in Counting => InOrder(block, todo)

\* Where the instructions are behind an insertion.
Moved(b, r, k, n, at) ==
  /\ at \in [1 .. Len(b) -> 1 .. Len(r)]
  /\ \A i \in 1 .. Len(b) : r[at[i]] = b[i]
  /\ \A i, j \in 1 .. Len(b) : i < j => at[i] < at[j]
  /\ \A i \in k .. Len(b) : at[i] = i + n

LEMMA BeforeMoves ==
  ASSUME NEW b, NEW new, IsSeq(b), IsSeq(new), NEW k \in 1 .. Len(b)
  PROVE  \E at : Moved(b, Before(b, k, new), k, Len(new), at)
<1> DEFINE r == Before(b, k, new)
           n == Len(new)
           at == [i \in 1 .. Len(b) |-> IF i < k THEN i ELSE i + n]
<1>1. /\ Len(r) = Len(b) + n
      /\ \A i \in 1 .. k - 1 : r[i] = b[i]
      /\ \A i \in k .. Len(b) : r[i + n] = b[i]
      /\ Len(b) \in Nat /\ n \in Nat
  BY BeforeIs DEF IsSeq
<1> HIDE DEF r, n
<1>2. \A i \in 1 .. Len(b) : IF i < k THEN i \in 1 .. k - 1 /\ i \in 1 .. Len(r)
                             ELSE i \in k .. Len(b) /\ i + n \in 1 .. Len(r)
  BY <1>1
<1>3. \A i \in 1 .. Len(b) : at[i] = IF i < k THEN i ELSE i + n
  OBVIOUS
<1>4. at \in [1 .. Len(b) -> 1 .. Len(r)]
  BY <1>2
<1> HIDE DEF at
<1>5. \A i \in 1 .. Len(b) : r[at[i]] = b[i]
  BY <1>1, <1>2, <1>3
<1>6. \A i, j \in 1 .. Len(b) : i < j => at[i] < at[j]
  BY <1>1, <1>3
<1>7. \A i \in k .. Len(b) : at[i] = i + n
  <2>1. \A i \in k .. Len(b) : i \in 1 .. Len(b) /\ ~(i < k)
    BY <1>1
  <2>2. QED
    BY <1>3, <2>1
<1>8. Moved(b, r, k, n, at)
  BY <1>4, <1>5, <1>6, <1>7 DEF Moved
<1>9. QED
  BY <1>8 DEF r, n

LEMMA InsertAims ==
  ASSUME NEW b, NEW new, IsSeq(b), IsSeq(new), NEW k \in 1 .. Len(b), NEW p, NEW t, Aims(b, p, t),
         p \in Counting => \A i \in 1 .. Len(b) : b[i].id = t[1] => k <= i
  PROVE  Aims(Before(b, k, new), p, t)
<1> DEFINE r == Before(b, k, new)
           n == Len(new)
<1>1. \E at : Moved(b, r, k, n, at)
  BY BeforeMoves
<1>2. IsSeq(r) /\ Len(r) = Len(b) + n /\ (\A i \in k .. Len(b) : r[i + n] = b[i]) /\ Len(b) \in Nat /\ n \in Nat
  BY BeforeIs DEF IsSeq
<1> HIDE DEF r, n
<1>3. PICK at : Moved(b, r, k, n, at)
  BY <1>1
<1>4. \A i \in 1 .. Len(b) : at[i] \in 1 .. Len(r) /\ r[at[i]] = b[i]
  BY <1>3 DEF Moved
<1>5. ASSUME p = "constant_altering" PROVE \E i \in 1 .. Len(r) : r[i].id = t[1] /\ t[2] \in 1 .. Len(r[i].args)
  BY <1>4, <1>5 DEF Aims
<1>6. ASSUME p = "garbage_insert" PROVE \E l \in 1 .. Len(r) : r[l].id = t[3] /\ IsIntegerTy(r[l])
  BY <1>4, <1>6 DEF Aims
<1>7. ASSUME p \in Counting PROVE Slot(r, t[3]) /\ \E i \in 1 .. Len(r) : r[i].id = t[1] /\ Quiet(r, i - 1, t[3])
  <2>1. Slot(r, t[3])
    BY <1>4, <1>7 DEF Aims, Slot
  <2>2. PICK i \in 1 .. Len(b) : b[i].id = t[1] /\ Quiet(b, i - 1, t[3])
    BY <1>7 DEF Aims
  <2>3. i \in k .. Len(b) /\ at[i] = i + n /\ r[at[i]] = b[i] /\ at[i] \in 1 .. Len(r)
    BY <1>3, <1>4, <1>7, <2>2 DEF Moved
  <2>4. ASSUME NEW j \in (i + n - 1) + 1 .. Len(r), r[j].op = "load"
        PROVE  \A l \in 1 .. Len(r[j].args) : r[j].args[l] # Value(t[3])
    <3>1. j - n \in (i - 1) + 1 .. Len(b) /\ j - n \in k .. Len(b) /\ (j - n) + n = j
      <4>1. /\ n \in Nat /\ Len(b) \in Nat /\ Len(r) = Len(b) + n /\ k \in 1 .. Len(b)
            /\ i \in Int /\ k <= i
        BY <1>2, <2>3
      <4>2. j \in Int /\ i + n <= j /\ j <= Len(r)
        BY <4>1
      <4>3. QED
        BY <4>1, <4>2
    <3>2. r[j] = b[j - n]
      BY <1>2, <3>1
    <3>3. QED
      BY <2>2, <2>4, <3>1, <3>2 DEF Quiet
  <2>5. Quiet(r, i + n - 1, t[3])
    BY <2>4 DEF Quiet
  <2>6. at[i] - 1 = i + n - 1
    <3>1. i \in Int /\ n \in Int /\ at[i] = i + n
      BY <1>2, <2>3
    <3>2. QED
      BY <3>1
  <2>7. QED
    BY <2>1, <2>2, <2>3, <2>5, <2>6
<1>8. Aims(r, p, t)
  BY <1>5, <1>6, <1>7 DEF Aims
<1>9. QED
  BY <1>8 DEF r

LEMMA InsertInOrder ==
  ASSUME NEW b, NEW new, IsSeq(b), IsSeq(new), NEW k \in 1 .. Len(b), NEW v, InOrder(b, v)
  PROVE  InOrder(Before(b, k, new), v)
<1> DEFINE r == Before(b, k, new)
<1>1. \E at : Moved(b, r, k, Len(new), at)
  BY BeforeMoves
<1> HIDE DEF r
<1>2. PICK at : Moved(b, r, k, Len(new), at)
  BY <1>1
<1>3. ASSUME NEW i \in 1 .. Len(v), NEW l \in 1 .. Len(v), i < l
      PROVE  \E p, q \in 1 .. Len(r) : p < q /\ r[p].id = v[i][1] /\ r[q].id = v[l][1]
  <2>1. PICK p \in 1 .. Len(b), q \in 1 .. Len(b) : p < q /\ b[p].id = v[i][1] /\ b[q].id = v[l][1]
    BY <1>3 DEF InOrder
  <2>2. at[p] \in 1 .. Len(r) /\ at[q] \in 1 .. Len(r) /\ at[p] < at[q] /\ r[at[p]] = b[p] /\ r[at[q]] = b[q]
    BY <1>2, <2>1 DEF Moved
  <2>3. QED
    BY <2>1, <2>2
<1>4. InOrder(r, v)
  BY <1>3 DEF InOrder
<1>5. QED
  BY <1>4 DEF r

\* The visits that are left when the first is done.
LEMMA AimsLeft ==
  ASSUME IInv, Aimed, pc = "visit", todo # <<>>, todo' = Tail(todo), passes' = passes, pc' = pc,
         \A i \in 2 .. Len(todo) : Aims(block', Pass, todo[i]),
         Pass \in Counting => InOrder(block', todo)
  PROVE  Aimed'
<1>1. /\ Len(Tail(todo)) = Len(todo) - 1 /\ Len(todo) \in Nat
      /\ \A i \in 1 .. Len(todo) - 1 : Tail(todo)[i] = todo[i + 1]
  BY HeadTail DEF IInv, VisitsFit, IsSeq
<1>2. \A i \in 1 .. Len(todo') : i + 1 \in 2 .. Len(todo) /\ i + 1 \in 1 .. Len(todo) /\ todo'[i] = todo[i + 1]
  BY <1>1
<1>3. Pass' = Pass
  BY DEF Pass
<1>4. \A i \in 1 .. Len(todo') : Aims(block', Pass, todo'[i])
  BY <1>2
<1>5. ASSUME Pass \in Counting, NEW i \in 1 .. Len(todo'), NEW l \in 1 .. Len(todo'), i < l
      PROVE  \E p, q \in 1 .. Len(block') : p < q /\ block'[p].id = todo'[i][1] /\ block'[q].id = todo'[l][1]
  <2>1. i + 1 \in 1 .. Len(todo) /\ l + 1 \in 1 .. Len(todo) /\ i + 1 < l + 1
    BY <1>1, <1>2, <1>5
  <2>2. InOrder(block', todo)
    BY <1>5
  <2>3. \E p, q \in 1 .. Len(block') : p < q /\ block'[p].id = todo[i + 1][1] /\ block'[q].id = todo[l + 1][1]
    BY <2>1, <2>2 DEF InOrder
  <2>4. QED
    BY <1>2, <2>3
<1>6. Pass \in Counting => InOrder(block', todo')
  BY <1>5 DEF InOrder
<1>7. QED
  BY <1>3, <1>4, <1>6 DEF Aimed

LEMMA AimsNow ==
  ASSUME IInv, Aimed, pc = "visit", todo # <<>>
  PROVE  Aims(block, Pass, Visit) /\ \A i \in 2 .. Len(todo) : i \in 1 .. Len(todo) /\ Aims(block, Pass, todo[i])
<1>1. Len(todo) >= 1 /\ Visit = todo[1] /\ Len(todo) \in Nat
  BY HeadTail DEF IInv, VisitsFit, Visit, IsSeq
<1>2. QED
  BY <1>1 DEF Aimed

\* Visits that name nothing but their instruction.
LEMMA AimsPlain ==
  ASSUME IInv, Aimed, pc = "visit", todo # <<>>, Pass \in {"inst_sub", "Mul2ToShl1"},
         todo' = Tail(todo), passes' = passes, pc' = pc
  PROVE  Aimed'
<1>1. Pass \notin Counting /\ Pass # "constant_altering" /\ Pass # "garbage_insert"
  BY DEF Counting
<1>2. \A i \in 2 .. Len(todo) : Aims(block', Pass, todo[i])
  BY <1>1, AimsNow DEF Aims
<1>3. QED
  BY <1>1, <1>2, AimsLeft

\* Code inserted for another purpose than counting.
LEMMA AimsInsert ==
  ASSUME IInv, Aimed, pc = "visit", todo # <<>>, Pass \notin Counting,
         todo' = Tail(todo), passes' = passes, pc' = pc,
         NEW k \in 1 .. Len(block), NEW new, IsSeq(new), block' = Before(block, k, new)
  PROVE  Aimed'
<1>1. IsSeq(block)
  BY DEF IInv, Good
<1>2. \A i \in 2 .. Len(todo) : Aims(block', Pass, todo[i])
  BY <1>1, AimsNow, InsertAims
<1>3. QED
  BY <1>2, AimsLeft
LEMMA CollectAims ==
  ASSUME IInv, Collect
  PROVE  Aimed' /\ block' = block
<1>1. /\ passes # <<>> /\ Pass \notin Counting \cup {"garbage_insert"} /\ todo' = Visited(block, 0)
      /\ block' = block /\ passes' = passes
  BY DEF Collect
<1>2. IsSeq(todo') /\ \E o : VisitsOf(todo', o, 0)
  BY <1>1, VisitedFrom DEF IInv
<1>3. PICK o : VisitsOf(todo', o, 0)
  BY <1>2
<1>4. Pass' = Pass
  BY <1>1 DEF Pass
<1>5. ASSUME NEW i \in 1 .. Len(todo') PROVE Aims(block, Pass, todo'[i])
  <2>1. /\ o[i] \in 1 .. Len(block) /\ todo'[i][1] = block[o[i]].id
        /\ Pass # "constant_altering" => todo'[i][3] = 0
        /\ Pass = "constant_altering" => todo'[i][3] = 0 /\ todo'[i][2] \in 1 .. Len(block[o[i]].args)
    BY <1>3 DEF VisitsOf
  <2>2. Pass \notin Counting /\ Pass # "garbage_insert"
    BY <1>1
  <2>3. QED
    BY <2>1, <2>2 DEF Aims
<1>6. QED
  BY <1>1, <1>4, <1>5 DEF Aimed

LEMMA PickPointsAims ==
  ASSUME IInv, PickPoints
  PROVE  Aimed' /\ block' = block
<1>1. Pass = "garbage_insert" /\ block' = block /\ passes' = passes
  BY DEF PickPoints, Running
<1>2. PICK o : PointsOf(todo', o)
  BY PickedIs DEF IInv
<1>3. Pass' = Pass
  BY <1>1 DEF Pass
<1>4. ASSUME NEW i \in 1 .. Len(todo') PROVE Aims(block, Pass, todo'[i])
  <2>1. o[i] \in 1 .. Len(block) /\ todo'[i][3] \in availableValues(o[i])
    BY <1>2 DEF PointsOf
  <2>2. PICK l \in 1 .. o[i] - 1 : IsIntegerTy(block[l]) /\ todo'[i][3] = block[l].id
    BY <2>1 DEF availableValues
  <2>3. l \in 1 .. Len(block)
    BY <2>1 DEF IInv, Good, IsSeq
  <2>4. QED
    BY <1>1, <2>2, <2>3 DEF Aims, Counting
<1>5. QED
  BY <1>1, <1>3, <1>4 DEF Aimed, Counting

LEMMA InsertCounterAims ==
  ASSUME IInv, InsertCounter
  PROVE  /\ Aimed'
         /\ \E p \in 1 .. Len(block) : block' = Before(block, p, CounterCode)
<1> DEFINE p == FirstInsertionPt(block)
           r == Before(block, p, CounterCode)
<1>1. /\ Pass \in Counting /\ todo' = Visited(block, Fresh) /\ block' = r /\ passes' = passes
  BY DEF InsertCounter, CounterCode
<1>2. Good(block, source) /\ IsSeq(block) /\ Len(block) \in Nat /\ Len(block) >= 1
  BY DEF IInv, Good, IsSeq
<1>3. PICK o : VisitsOf(todo', o, Fresh)
  BY <1>1, <1>2, VisitedFrom
<1>4. Pass # "constant_altering" /\ Pass # "garbage_insert" /\ Pass # "inst_sub" /\ Pass # "Mul2ToShl1" /\ Pass' = Pass
  BY <1>1 DEF Counting, Pass
<1>5. p \in 1 .. Len(block)
  BY <1>2, FirstInsertionPtIs
<1>6. /\ IsSeq(CounterCode) /\ Len(CounterCode) = 2
      /\ CounterCode[1].id = Fresh /\ CounterCode[1].op = "alloca" /\ CounterCode[2].op = "store"
  BY CounterCodeIs DEF Monadic, Dyadic
<1> HIDE DEF p
<1>7. \E at : Moved(block, r, p, 2, at)
  BY <1>2, <1>5, <1>6, BeforeMoves
<1>8. /\ Len(r) = Len(block) + 2
      /\ \A i \in 1 .. p - 1 : r[i] = block[i]
      /\ \A i \in 1 .. 2 : r[p - 1 + i] = CounterCode[i]
      /\ \A i \in p .. Len(block) : r[i + 2] = block[i]
  <2> DEFINE new == CounterCode
  <2>1. IsSeq(block) /\ IsSeq(new)
    BY <1>2, <1>6
  <2> HIDE DEF new
  <2>2. /\ IsSeq(Before(block, p, new)) /\ Len(Before(block, p, new)) = Len(block) + Len(new)
        /\ \A i \in 1 .. p - 1 : Before(block, p, new)[i] = block[i]
        /\ \A i \in 1 .. Len(new) : Before(block, p, new)[p - 1 + i] = new[i]
        /\ \A i \in p .. Len(block) : Before(block, p, new)[i + Len(new)] = block[i]
    BY <1>5, <2>1, BeforeIs
  <2>3. Len(new) = 2
    BY <1>6 DEF new
  <2>4. QED
    BY <2>2, <2>3 DEF new
<1> HIDE DEF r
<1>9. PICK at : Moved(block, r, p, 2, at)
  BY <1>7
<1>10. Slot(r, Fresh)
  <2>1. p \in 1 .. Len(r) /\ p = p - 1 + 1 /\ 1 \in 1 .. 2
    BY <1>2, <1>5, <1>8
  <2>2. r[p].id = Fresh /\ r[p].op = "alloca"
    BY <1>6, <1>8, <2>1
  <2>3. Fresh # 0
    BY <1>2, FreshIs DEF Good, GoodInst
  <2>4. QED
    BY <2>1, <2>2, <2>3 DEF Slot
<1>11. ASSUME NEW i \in 1 .. Len(block), NEW j \in 1 .. Len(block[i].args) PROVE block[i].args[j] # Value(Fresh)
  <2>1. ~IsConst(block[i].args[j]) => Defined(block, i, block[i].args[j].n)
    BY <1>2 DEF Good, UsesDefined
  <2>2. ~Defined(block, i, Fresh)
    BY <1>2, FreshIs DEF Defined, Good, GoodInst
  <2>3. QED
    BY <2>1, <2>2, OperandSorts
<1>12. ASSUME NEW i \in 1 .. Len(r), r[i].op = "load"
       PROVE  \A j \in 1 .. Len(r[i].args) : r[i].args[j] # Value(Fresh)
  <2>1. CASE i < p
    <3>1. i \in 1 .. p - 1 /\ i \in 1 .. Len(block)
      BY <1>2, <1>5, <2>1
    <3>2. QED
      BY <1>8, <1>11, <3>1
  <2>2. CASE i = p \/ i = p + 1
    <3>1. \E l \in 1 .. 2 : i = p - 1 + l /\ (l = 1 \/ l = 2)
      BY <1>2, <1>5, <2>2
    <3>2. PICK l \in 1 .. 2 : i = p - 1 + l /\ (l = 1 \/ l = 2)
      BY <3>1
    <3>3. r[i] = CounterCode[l] /\ CounterCode[l].op # "load"
      BY <1>6, <1>8, <3>2
    <3>4. QED
      BY <1>12, <3>3
  <2>3. CASE i > p + 1
    <3>1. i - 2 \in p .. Len(block) /\ i - 2 \in 1 .. Len(block) /\ (i - 2) + 2 = i
      BY <1>2, <1>5, <1>8, <2>3
    <3>2. r[i] = block[i - 2]
      BY <1>8, <3>1
    <3>3. QED
      BY <1>11, <3>1, <3>2
  <2>4. QED
    BY <1>5, <2>1, <2>2, <2>3
<1>13. ASSUME NEW i \in 1 .. Len(r) PROVE Quiet(r, i - 1, Fresh)
  <2>1. \A l \in (i - 1) + 1 .. Len(r) : l \in 1 .. Len(r)
    OBVIOUS
  <2>2. QED
    BY <1>12, <2>1 DEF Quiet
<1>14. ASSUME NEW i \in 1 .. Len(todo')
       PROVE  o[i] \in 1 .. Len(block) /\ at[o[i]] \in 1 .. Len(r) /\ r[at[o[i]]].id = todo'[i][1] /\ todo'[i][3] = Fresh
  <2>1. o[i] \in 1 .. Len(block) /\ todo'[i][1] = block[o[i]].id /\ todo'[i][3] = Fresh
    BY <1>3, <1>4 DEF VisitsOf
  <2>2. QED
    BY <1>9, <2>1 DEF Moved
<1>15. ASSUME NEW i \in 1 .. Len(todo') PROVE Aims(r, Pass, todo'[i])
  BY <1>4, <1>10, <1>13, <1>14 DEF Aims
<1>16. InOrder(r, todo')
  <2>1. ASSUME NEW i \in 1 .. Len(todo'), NEW l \in 1 .. Len(todo'), i < l
        PROVE  at[o[i]] < at[o[l]]
    <3>1. o[i] < o[l]
      BY <1>3, <1>4, <2>1 DEF VisitsOf
    <3>2. QED
      BY <1>9, <1>14, <3>1 DEF Moved
  <2>2. QED
    BY <1>14, <2>1 DEF InOrder
<1>17. block' = Before(block, p, CounterCode)
  BY <1>1 DEF r
<1>18. Aimed'
  BY <1>1, <1>4, <1>15, <1>16 DEF Aimed
<1>19. QED
  BY <1>5, <1>17, <1>18

\* Where a counting pass inserts what.
CountsAt(k) ==
  /\ k \in 1 .. Len(block) /\ This = block[k]
  /\ SlotAhead(block, k, Visit[3]) /\ Quiet(block, k - 1, Visit[3])
  /\ IF block[k].op = "ret" THEN k = Len(block) /\ block' = Before(block, k, ReportCode(Visit[3]))
     ELSE block' = Before(block, k, IncrementCode(Visit[3]))

LEMMA CountOneIs ==
  ASSUME IInv, Aimed, CountOne
  PROVE  \E k : CountsAt(k)
<1> DEFINE m == Visit[3]
<1>1. pc = "visit" /\ Pass \in Counting /\ todo # <<>>
  BY DEF CountOne
<1>2. Good(block, source)
  BY DEF IInv
<1>3. PICK k \in 1 .. Len(block) :
        /\ This = block[k] /\ Visit[1] = block[k].id /\ Position(block, block[k].id) = k
        /\ Defined(block, k, Visit[3])
  BY <1>1, ThisIs
<1>4. Aims(block, Pass, Visit)
  BY <1>1, AimsNow
<1>5. SlotAhead(block, k, m)
  <2>1. PICK l \in 1 .. k - 1 : block[l].id = m
    BY <1>3 DEF Defined
  <2>2. l \in 1 .. Len(block)
    BY <1>2 DEF Good, IsSeq
  <2>3. m \in Nat /\ m # 0
    BY <1>1, <1>2, <1>4, <2>1, <2>2 DEF Aims, Slot, Good, GoodInst
  <2>4. PICK q \in 1 .. Len(block) : block[q].id = m /\ block[q].op = "alloca"
    BY <1>1, <1>4 DEF Aims, Slot
  <2>5. q = l
    BY <1>2, <2>1, <2>2, <2>4 DEF Good, Distinct
  <2>6. QED
    BY <2>1, <2>3, <2>4, <2>5 DEF SlotAhead
<1>6. Quiet(block, k - 1, m)
  <2>1. PICK i \in 1 .. Len(block) : block[i].id = Visit[1] /\ Quiet(block, i - 1, m)
    BY <1>1, <1>4 DEF Aims
  <2>2. i = k
    BY <1>2, <1>3, <2>1 DEF Good, Distinct
  <2>3. QED
    BY <2>1, <2>2
<1>7. IF block[k].op = "ret" THEN k = Len(block) /\ block' = Before(block, k, ReportCode(m))
      ELSE block' = Before(block, k, IncrementCode(m))
  <2>1. Position(block, This.id) = k /\ This.op = block[k].op
    BY <1>3
  <2>2. CASE block[k].op = "ret"
    <3>1. k = Len(block)
      BY <1>2, <2>2 DEF Good, OneTerminator, Terminators
    <3>2. block' = Before(block, k, ReportCode(m))
      BY <2>1, <2>2 DEF CountOne, ReportCode
    <3>3. QED
      BY <2>2, <3>1, <3>2
  <2>3. CASE block[k].op # "ret"
    BY <2>1, <2>3 DEF CountOne, IncrementCode
  <2>4. QED
    BY <2>2, <2>3
<1>8. CountsAt(k)
  BY <1>3, <1>5, <1>6, <1>7 DEF CountsAt
<1>9. QED
  BY <1>8

LEMMA CountOneAims ==
  ASSUME IInv, Aimed, CountOne
  PROVE  Aimed'
<1>1. /\ pc = "visit" /\ Pass \in Counting /\ todo # <<>>
      /\ todo' = Tail(todo) /\ passes' = passes /\ pc' = pc
  BY DEF CountOne, EndVisit
<1>2. Good(block, source) /\ IsSeq(block)
  BY DEF IInv, Good
<1>3. PICK k : CountsAt(k)
  BY CountOneIs
<1>4. k \in 1 .. Len(block) /\ \E new : IsSeq(new) /\ block' = Before(block, k, new)
  BY <1>3, ReportCodeIs, IncrementCodeIs DEF CountsAt
<1>5. PICK new : IsSeq(new) /\ block' = Before(block, k, new)
  BY <1>4
<1>6. Visit[1] = block[k].id /\ Visit = todo[1] /\ 1 \in 1 .. Len(todo) /\ InOrder(block, todo)
  <2>1. PICK i \in 1 .. Len(block) : This = block[i] /\ Visit[1] = block[i].id
    BY <1>1, ThisIs
  <2>2. Len(todo) >= 1 /\ Visit = todo[1] /\ Len(todo) \in Nat
    BY <1>1, HeadTail DEF IInv, VisitsFit, Visit, IsSeq
  <2>3. QED
    BY <1>1, <1>3, <2>1, <2>2 DEF CountsAt, Aimed
<1>7. ASSUME NEW i \in 2 .. Len(todo) PROVE Aims(block', Pass, todo[i])
  <2>1. i \in 1 .. Len(todo) /\ Aims(block, Pass, todo[i]) /\ 1 < i
    BY <1>1, AimsNow
  <2>2. PICK p \in 1 .. Len(block), q \in 1 .. Len(block) : p < q /\ block[p].id = todo[1][1] /\ block[q].id = todo[i][1]
    BY <1>6, <2>1 DEF InOrder
  <2>3. p = k
    BY <1>2, <1>4, <1>6, <2>2 DEF Good, Distinct
  <2>4. \A j \in 1 .. Len(block) : block[j].id = todo[i][1] => k <= j
    BY <1>2, <2>2, <2>3 DEF Good, Distinct
  <2>5. QED
    BY <1>2, <1>4, <1>5, <2>1, <2>4, InsertAims
<1>8. InOrder(block', todo)
  BY <1>2, <1>4, <1>5, <1>6, InsertInOrder
<1>9. QED
  BY <1>1, <1>7, <1>8, AimsLeft

\* The constant operand that goes through the black box.
AltersAt(k, j, random) ==
  /\ k \in 1 .. Len(block) /\ j \in 1 .. Len(block[k].args) /\ IsConst(block[k].args[j])
  /\ This = block[k] /\ Operand = block[k].args[j]
  /\ block' = Before([block EXCEPT ![k].args = Swapped(block[k].args, block[k].args[j], Value(Fresh + 3))], k,
                     Blackboxed(block[k].args[j].n, block[k].w, random))

LEMMA AlterConstantIs ==
  ASSUME IInv, Aimed, NEW random, AlterConstant(random)
  PROVE  \E k, j : AltersAt(k, j, random)
<1>1. /\ pc = "visit" /\ Pass = "constant_altering" /\ todo # <<>> /\ IsConst(Operand)
  BY DEF AlterConstant, Visiting, Running
<1>2. Good(block, source)
  BY DEF IInv
<1>3. PICK k \in 1 .. Len(block) :
        /\ This = block[k] /\ Visit[1] = block[k].id /\ Position(block, block[k].id) = k
  BY <1>1, ThisIs
<1>4. Visit[2] \in 1 .. Len(block[k].args)
  <2>1. Aims(block, Pass, Visit)
    BY <1>1, AimsNow
  <2>2. PICK i \in 1 .. Len(block) : block[i].id = Visit[1] /\ Visit[2] \in 1 .. Len(block[i].args)
    BY <1>1, <2>1 DEF Aims
  <2>3. i = k
    BY <1>2, <1>3, <2>2 DEF Good, Distinct
  <2>4. QED
    BY <2>2, <2>3
<1>5. Operand = block[k].args[Visit[2]]
  BY <1>3 DEF Operand
<1> DEFINE a == Operand
           args == Swapped(block[k].args, a, Value(Fresh + 3))
<1>6. block' = Before([block EXCEPT ![k].args = args], k, Blackboxed(a.n, block[k].w, random))
  BY <1>3 DEF AlterConstant, Swapped
<1>7. AltersAt(k, Visit[2], random)
  BY <1>1, <1>3, <1>4, <1>5, <1>6 DEF AltersAt
<1>8. QED
  BY <1>7

LEMMA AlterConstantAims ==
  ASSUME IInv, Aimed, NEW random, AlterConstant(random)
  PROVE  Aimed'
<1>1. /\ pc = "visit" /\ Pass = "constant_altering" /\ todo # <<>>
      /\ todo' = Tail(todo) /\ passes' = passes /\ pc' = pc
  BY DEF AlterConstant, Visiting, Running, EndVisit
<1>2. Good(block, source) /\ IsSeq(block) /\ Len(block) \in Nat
  BY DEF IInv, Good, IsSeq
<1>3. PICK k, j : AltersAt(k, j, random)
  BY AlterConstantIs
<1> DEFINE args == Swapped(block[k].args, block[k].args[j], Value(Fresh + 3))
           b == [block EXCEPT ![k].args = args]
           new == Blackboxed(block[k].args[j].n, block[k].w, random)
<1>4. k \in 1 .. Len(block) /\ block' = Before(b, k, new)
  BY <1>3 DEF AltersAt
<1>5. IsSeq(new)
  BY <1>2, <1>4, BlackboxedIs DEF NewCode
<1>6. IsSeq(block[k].args) /\ Len(args) = Len(block[k].args)
  <2>1. IsSeq(block[k].args)
    BY <1>2, <1>4 DEF Good, GoodInst
  <2>2. QED
    BY <2>1, SwappedIs
<1> HIDE DEF args, new
<1>7. DOMAIN block = 1 .. Len(block)
  BY <1>2, SeqIn
<1>8. /\ b = [i \in 1 .. Len(block) |-> b[i]]
      /\ \A i \in 1 .. Len(block) : b[i].id = block[i].id /\ Len(b[i].args) = Len(block[i].args)
  <2>1. b = [i \in 1 .. Len(block) |-> IF i = k THEN [block[k] EXCEPT !.args = args] ELSE block[i]]
    BY <1>7
  <2>2. block[k] = Inst(block[k].id, block[k].op, block[k].w, block[k].args)
    BY <1>2, <1>4 DEF Good, GoodInst
  <2>3. [block[k] EXCEPT !.args = args].id = block[k].id /\ [block[k] EXCEPT !.args = args].args = args
    BY <2>2 DEF Inst
  <2> HIDE DEF b
  <2>4. QED
    BY <1>6, <2>1, <2>3
<1> HIDE DEF b
<1>9. IsSeq(b) /\ Len(b) = Len(block)
  BY <1>2, <1>8, SeqMade
<1>10. Pass # "garbage_insert" /\ Pass \notin Counting
  BY <1>1 DEF Counting
<1>11. ASSUME NEW i \in 2 .. Len(todo) PROVE Aims(block', Pass, todo[i])
  <2>1. Aims(block, Pass, todo[i])
    BY <1>1, AimsNow
  <2>2. Aims(b, Pass, todo[i])
    BY <1>8, <1>9, <1>10, <2>1 DEF Aims
  <2>3. k \in 1 .. Len(b)
    BY <1>4, <1>9
  <2>4. Aims(Before(b, k, new), Pass, todo[i])
    BY <1>5, <1>9, <1>10, <2>2, <2>3, InsertAims
  <2>5. QED
    BY <1>4, <2>4
<1>12. QED
  BY <1>1, <1>10, <1>11, AimsLeft

(***************************************************************************)
(* What every action does to the block.                                    *)
(***************************************************************************)

\* c is typed, shows what the block shows and is undefined where the block is, but for
\* what U says.
Mirrors(c, U) ==
  /\ WellTyped(c)
  /\ \A input : InputOK(input) => /\ Run(c, input).trace = Run(block, input).trace
                                  /\ Run(c, input).undef <=> Run(block, input).undef \/ U
  /\ Dividing(c) <=> Dividing(block) \/ U

LEMMA TracksMirrors ==
  ASSUME NEW c, NEW U, Tracks(c, U)
  PROVE  Mirrors(c, U)
BY DEF Tracks, Alike, Mirrors

TInv == WellTyped(block) /\ Aimed

LEMMA BlockIs == IInv => Good(block, source) /\ IsSeq(block)
BY DEF IInv, Good

LEMMA SubstituteTracks ==
  ASSUME IInv, TInv, NEW dice \in {0, 1}, Substitute(dice)
  PROVE  Aimed' /\ Tracks(block', FALSE)
<1> DEFINE s == Substitution(This, dice)
<1>1. /\ pc = "visit" /\ Pass = "inst_sub" /\ todo # <<>>
      /\ block' = eraseFromParent(replaceAllUsesWith(Before(block, Position(block, This.id), s.code),
                                                     This.id, s.a), This.id)
      /\ todo' = Tail(todo) /\ passes' = passes /\ pc' = pc /\ source' = source
  BY DEF Substitute, Visiting, Running, EndVisit
<1>2. Good(block, source) /\ WellTyped(block) /\ Aimed
  BY BlockIs DEF TInv
<1>3. PICK k \in 1 .. Len(block) :
        /\ This = block[k] /\ Visit[1] = block[k].id /\ Position(block, block[k].id) = k
        /\ block[k].op # "phi" /\ block[k].op \in {"add", "sub", "mul"}
  BY <1>1, ThisIs
<1>4. Made(k, s) /\ s.a # Value(block[k].id)
  BY <1>2, <1>3, SubstitutionMade
<1> DEFINE r == replaceAllUsesWith(Before(block, k, s.code), block[k].id, s.a)
           q == k + Len(s.code)
<1>5. block' = eraseFromParent(r, block[k].id)
  BY <1>1, <1>3
<1>6. s = Substitution(block[k], dice)
  BY <1>3
<1> HIDE DEF s
<1>7. /\ Good(r, source) /\ q \in 1 .. Len(r) /\ r[q].id = block[k].id
  BY <1>2, <1>3, <1>4, Superseded
<1> HIDE DEF r, q
<1>8. block' = RemoveAt(r, q)
  BY <1>5, <1>7, PositionIs DEF eraseFromParent
<1>9. IsSeq(r)
  BY <1>7 DEF Good
<1>10. Tracks(RemoveAt(r, q), FALSE)
  <2> DEFINE st == Substitution(block[k], dice)
             rr == replaceAllUsesWith(Before(block, k, st.code), block[k].id, st.a)
  <2>1. IsSeq(rr) => Tracks(RemoveAt(rr, k + Len(st.code)), FALSE)
    BY <1>2, <1>3, SubstitutedTracks
  <2>2. rr = r /\ k + Len(st.code) = q
    BY <1>6 DEF r, q
  <2>3. QED
    BY <1>9, <2>1, <2>2
<1>11. Aimed'
  BY <1>1, <1>2, AimsPlain
<1>12. QED
  BY <1>8, <1>10, <1>11

LEMMA ToShlTracks ==
  ASSUME IInv, TInv, ToShl
  PROVE  Aimed' /\ Tracks(block', FALSE)
<1>1. /\ pc = "visit" /\ Pass = "Mul2ToShl1" /\ todo # <<>> /\ IsMulBy2(This)
      /\ todo' = Tail(todo) /\ passes' = passes /\ pc' = pc
  BY DEF ToShl, Visiting, Running, EndVisit
<1>2. Good(block, source) /\ WellTyped(block) /\ Aimed
  BY BlockIs DEF TInv
<1>3. PICK k \in 1 .. Len(block) :
        /\ This = block[k] /\ Position(block, block[k].id) = k /\ block[k].op = "mul"
  BY <1>1, ThisIs
<1> DEFINE I == block[k]
           st == Create(Start, "shl", I.w, I.args[3 - ConstantSide(I)], Const(1))
           c == replaceAllUsesWith(Before(block, k, st.code), I.id, st.a)
<1>4. block' = c
  BY <1>3 DEF ToShl
<1>5. IsSeq(c) => Tracks(c, FALSE)
  BY <1>1, <1>2, <1>3, ShiftedTracks
<1> HIDE DEF c
<1>6. IsSeq(c)
  BY <1>4, ToShlInv DEF IInv, Good
<1>7. Aimed'
  BY <1>1, <1>2, AimsPlain
<1>8. QED
  BY <1>4, <1>5, <1>6, <1>7

LEMMA EraseOneTracks ==
  ASSUME IInv, TInv, EraseOne
  PROVE  Aimed' /\ Tracks(block', FALSE)
<1>1. /\ todo = <<>> /\ toErase # <<>> /\ block' = eraseFromParent(block, Head(toErase))
      /\ todo' = todo /\ passes' = passes
  BY DEF EraseOne
<1>2. Good(block, source) /\ WellTyped(block)
  BY BlockIs DEF TInv
<1>3. Len(toErase) >= 1 /\ Head(toErase) = toErase[1] /\ 1 \in 1 .. Len(toErase)
  <2>1. IsSeq(toErase) /\ Len(toErase) \in Nat
    BY DEF IInv, ErasedFit, IsSeq
  <2>2. QED
    BY <1>1, <2>1, HeadTail
<1>4. PICK k \in 1 .. Len(block) : block[k].id = toErase[1] /\ block[k].op = "mul"
  BY <1>3 DEF IInv, ErasedFit
<1>5. Unused(block, block[k].id)
  BY <1>3, <1>4 DEF IInv, ErasedFit
<1>6. block' = RemoveAt(block, k)
  BY <1>1, <1>2, <1>3, <1>4, PositionIs DEF eraseFromParent
<1>7. Tracks(RemoveAt(block, k), FALSE)
  BY <1>2, <1>4, <1>5, ErasedTracks
<1>8. Aimed'
  BY <1>1, EmptyIs DEF Aimed, InOrder
<1>9. QED
  BY <1>6, <1>7, <1>8

LEMMA InsertGarbageTracks ==
  ASSUME IInv, TInv, NEW pattern \in 0 .. 4, NEW n \in Nat, InsertGarbage(pattern, n)
  PROVE  Aimed' /\ \E w : Tracks(block', pattern = 1 /\ w = 1)
<1> DEFINE base == At(block, Visit[3])
           s == Garbage(Value(base.id), base.w, pattern, n)
<1>1. /\ pc = "visit" /\ Pass = "garbage_insert" /\ todo # <<>>
      /\ block' = Before(block, Position(block, This.id) + 1, s.code)
      /\ todo' = Tail(todo) /\ passes' = passes /\ pc' = pc
  BY DEF InsertGarbage, Visiting, Running, EndVisit
<1>2. Good(block, source) /\ WellTyped(block) /\ Aimed /\ Len(block) \in Nat
  BY BlockIs DEF TInv, IsSeq
<1>3. PICK k \in 1 .. Len(block) :
        /\ This = block[k] /\ Position(block, block[k].id) = k
        /\ block[k].op \notin Terminators /\ Defined(block, k, Visit[3])
  BY <1>1, ThisIs
<1>4. k + 1 \in 1 .. Len(block)
  BY <1>2, <1>3 DEF Good, OneTerminator
<1>5. PICK l \in 1 .. k - 1 : block[l].id = Visit[3]
  BY <1>3 DEF Defined
<1>6. l \in 1 .. Len(block) /\ l \in 1 .. (k + 1) - 1
  BY <1>2
<1>7. base = block[l]
  BY <1>2, <1>5, <1>6, PositionIs
<1>8. IsIntegerTy(block[l])
  <2>1. Aims(block, Pass, Visit)
    BY <1>1, <1>2, AimsNow
  <2>2. PICK i \in 1 .. Len(block) : block[i].id = Visit[3] /\ IsIntegerTy(block[i])
    BY <1>1, <2>1 DEF Aims
  <2>3. i = l
    BY <1>2, <1>5, <1>6, <2>2 DEF Good, Distinct
  <2>4. QED
    BY <2>2, <2>3
<1> DEFINE w == block[l].w
           m == k + 1
           code == Garbage(Value(block[l].id), w, pattern, n).code
<1>9. Tracks(Before(block, m, code), pattern = 1 /\ w = 1)
  <2>1. m \in 1 .. Len(block) /\ l \in 1 .. m - 1
    BY <1>4, <1>6
  <2> HIDE DEF m
  <2>2. QED
    BY <1>2, <1>8, <2>1, GarbageTracks
<1>10. block' = Before(block, m, code)
  BY <1>1, <1>3, <1>7
<1>11. IsSeq(code)
  <2>1. \A z : Avail(m, z, Value(block[l].id))
    <3>1. Defined(block, m, block[l].id)
      BY <1>6 DEF Defined
    <3>2. QED
      BY <3>1, OperandSorts DEF Avail
  <2> DEFINE x == Value(block[l].id)
  <2>2. m \in 1 .. Len(block) /\ \A z : Avail(m, z, x)
    BY <1>4, <2>1
  <2> HIDE DEF x, w, m
  <2>3. Made(m, Garbage(x, w, pattern, n))
    BY <1>2, <2>2, GarbageMade
  <2>4. QED
    BY <2>3 DEF Made, NewCode, x
<1> HIDE DEF code, w
<1>12. Aimed'
  <2>1. m \in 1 .. Len(block) /\ Pass \notin Counting
    BY <1>1, <1>4 DEF Counting
  <2> HIDE DEF m
  <2>2. QED
    BY <1>1, <1>2, <1>10, <1>11, <2>1, AimsInsert
<1>13. QED
  BY <1>9, <1>10, <1>12

LEMMA AlterConstantTracks ==
  ASSUME IInv, TInv, NEW random \in Randoms, AlterConstant(random)
  PROVE  Aimed' /\ WellTyped(block') /\ (lost' \/ (~lost /\ Tracks(block', FALSE)))
<1>1. Good(block, source) /\ WellTyped(block) /\ Aimed
  BY BlockIs DEF TInv
<1>2. PICK k, j : AltersAt(k, j, random)
  BY <1>1, AlterConstantIs
<1>3. Word \in Nat \ {0} /\ random \in 0 .. Pow2[Word] - 1
  BY RewritesAssumption
<1> DEFINE z == block[k].args[j]
           w == block[k].w
           args == Swapped(block[k].args, z, Value(Fresh + 3))
           c == Before([block EXCEPT ![k].args = args], k, Blackboxed(z.n, w, random))
<1>4. k \in 1 .. Len(block) /\ j \in 1 .. Len(block[k].args) /\ IsConst(z) /\ block' = c
  BY <1>2 DEF AltersAt
<1>5. /\ WellTyped(c)
      /\ Carried(z.n, w) /\ (w <= Word \/ Signed(z.n, w) >= 0) => Tracks(c, FALSE)
  BY <1>1, <1>3, <1>4, AlteredTracks
<1>6. Carried(z.n, w) /\ lost' = (lost \/ (w > Word /\ Signed(z.n, w) < 0))
  BY <1>2 DEF AltersAt, AlterConstant
<1>7. w \in Nat /\ Signed(z.n, w) \in Int
  <2>1. Signed(z.n, w) \in -Pow2[Word - 1] .. Pow2[Word - 1] - 1
    BY <1>6 DEF Carried
  <2>2. w \in Nat
    BY <1>1, <1>4 DEF WellTyped, Shaped
  <2>3. QED
    BY <2>1, <2>2
<1>8. Aimed'
  BY <1>1, AlterConstantAims
<1>9. ~lost' => ~lost /\ (w <= Word \/ Signed(z.n, w) >= 0)
  <2> DEFINE v == Signed(z.n, w)
  <2>1. w \in Int /\ v \in Int /\ Word \in Int
    BY <1>3, <1>7
  <2>2. lost' = (lost \/ (w > Word /\ v < 0))
    BY <1>6
  <2> HIDE DEF v, w
  <2> DEFINE U == w > Word /\ v < 0
  <2>3. ~U => w <= Word \/ v >= 0
    BY <2>1
  <2>4. lost' = (lost \/ U)
    BY <2>2
  <2> HIDE DEF U
  <2>5. ~lost' => ~lost /\ ~U
    BY <2>4
  <2>6. QED
    BY <2>3, <2>5 DEF v
<1> HIDE DEF c, z, w
<1>10. QED
  BY <1>4, <1>5, <1>6, <1>8, <1>9

LEMMA InsertCounterTracks ==
  ASSUME IInv, TInv, InsertCounter
  PROVE  Aimed' /\ Tracks(block', FALSE)
<1>1. Good(block, source) /\ WellTyped(block) /\ Word \in Nat \ {0}
  BY BlockIs, RewritesAssumption DEF TInv
<1>2. Aimed' /\ \E p \in 1 .. Len(block) : block' = Before(block, p, CounterCode)
  BY InsertCounterAims
<1>3. QED
  BY <1>1, <1>2, CounterTracks

LEMMA CountOneMirrors ==
  ASSUME IInv, TInv, CountOne
  PROVE  Aimed' /\ Mirrors(block', FALSE)
<1>1. Good(block, source) /\ WellTyped(block) /\ Aimed /\ Word \in Nat \ {0}
  BY BlockIs, RewritesAssumption DEF TInv
<1>2. PICK k : CountsAt(k)
  BY <1>1, CountOneIs
<1> DEFINE m == Visit[3]
<1>3. k \in 1 .. Len(block) /\ SlotAhead(block, k, m) /\ Quiet(block, k - 1, m)
  BY <1>2 DEF CountsAt
<1>4. CASE block[k].op # "ret"
  <2>1. block' = Before(block, k, IncrementCode(m))
    BY <1>2, <1>4 DEF CountsAt
  <2> HIDE DEF m
  <2>2. QED
    BY <1>1, <1>3, <2>1, IncrementTracks, TracksMirrors, CountOneAims
<1>5. CASE block[k].op = "ret"
  <2>1. block' = Before(block, k, ReportCode(m)) /\ k = Len(block)
    BY <1>2, <1>5 DEF CountsAt
  <2> HIDE DEF m
  <2>2. WellTyped(block') /\ \A input : InputOK(input) => \E v : Alike(block, block', input, FALSE, <<v>>)
    BY <1>1, <1>3, <1>5, <2>1, ReportAlike
  <2>3. Dividing(block') <=> Dividing(block)
    BY <1>1, <1>3, <2>1, ReportDivides
  <2>4. Mirrors(block', FALSE)
    BY <2>2, <2>3 DEF Mirrors, Alike
  <2>5. QED
    BY <1>1, <2>4, CountOneAims
<1>6. QED
  BY <1>4, <1>5
LEMMA MirrorsSelf ==
  ASSUME TInv
  PROVE  Mirrors(block, FALSE)
BY DEF TInv, Mirrors

\* The block shows what it showed, unless a constant is lost, and the visits to come
\* aim right.
Faithful ==
  /\ Aimed' /\ WellTyped(block') /\ source' = source
  /\ ~lost' => ~lost /\ \E U : Mirrors(block', U)

LEMMA MirrorsFaithful ==
  ASSUME Aimed', source' = source, lost' = lost, NEW U, Mirrors(block', U)
  PROVE  Faithful
BY DEF Faithful, Mirrors

LEMMA StepFaithful ==
  ASSUME IInv, TInv, [Next]_vars
  PROVE  Faithful
<1>1. CASE Collect
  <2>1. Aimed' /\ block' = block /\ source' = source /\ lost' = lost
    BY <1>1, CollectAims DEF Collect
  <2>2. Mirrors(block', FALSE)
    BY <2>1, MirrorsSelf
  <2>3. QED
    BY <2>1, <2>2, MirrorsFaithful
<1>2. CASE PickPoints
  <2>1. Aimed' /\ block' = block /\ source' = source /\ lost' = lost
    BY <1>2, PickPointsAims DEF PickPoints
  <2>2. Mirrors(block', FALSE)
    BY <2>1, MirrorsSelf
  <2>3. QED
    BY <2>1, <2>2, MirrorsFaithful
<1>3. CASE InsertCounter
  <2>1. source' = source /\ lost' = lost
    BY <1>3 DEF InsertCounter
  <2>2. Aimed' /\ Mirrors(block', FALSE)
    BY <1>3, InsertCounterTracks, TracksMirrors
  <2>3. QED
    BY <2>1, <2>2, MirrorsFaithful
<1>4. ASSUME NEW dice \in {0, 1}, Substitute(dice) PROVE Faithful
  <2>1. source' = source /\ lost' = lost
    BY <1>4 DEF Substitute, EndVisit
  <2>2. Aimed' /\ Mirrors(block', FALSE)
    BY <1>4, SubstituteTracks, TracksMirrors
  <2>3. QED
    BY <2>1, <2>2, MirrorsFaithful
<1>5. ASSUME NEW pattern \in 0 .. 4, NEW n \in RandomValues, InsertGarbage(pattern, n) PROVE Faithful
  <2>1. source' = source /\ lost' = lost
    BY <1>5 DEF InsertGarbage, EndVisit
  <2>2. n \in Nat
    BY RewritesAssumption
  <2>3. Aimed' /\ \E w : Tracks(block', pattern = 1 /\ w = 1)
    BY <1>5, <2>2, InsertGarbageTracks
  <2>4. PICK w : Tracks(block', pattern = 1 /\ w = 1)
    BY <2>3
  <2> DEFINE U == pattern = 1 /\ w = 1
  <2>5. Tracks(block', U)
    BY <2>4
  <2> HIDE DEF U
  <2>6. Mirrors(block', U)
    BY <2>5, TracksMirrors
  <2>7. QED
    BY <2>1, <2>3, <2>6, MirrorsFaithful
<1>6. ASSUME NEW random \in Randoms, AlterConstant(random) PROVE Faithful
  <2>1. source' = source
    BY <1>6 DEF AlterConstant, EndVisit
  <2>2. Aimed' /\ WellTyped(block') /\ (lost' \/ (~lost /\ Tracks(block', FALSE)))
    BY <1>6, AlterConstantTracks
  <2>3. Tracks(block', FALSE) => Mirrors(block', FALSE)
    BY TracksMirrors
  <2>4. QED
    BY <2>1, <2>2, <2>3 DEF Faithful
<1>7. CASE ToShl
  <2>1. source' = source /\ lost' = lost
    BY <1>7 DEF ToShl, EndVisit
  <2>2. Aimed' /\ Mirrors(block', FALSE)
    BY <1>7, ToShlTracks, TracksMirrors
  <2>3. QED
    BY <2>1, <2>2, MirrorsFaithful
<1>8. CASE PassBy
  <2>1. /\ pc = "visit" /\ todo # <<>> /\ todo' = Tail(todo) /\ passes' = passes /\ pc' = pc
        /\ source' = source /\ block' = block /\ lost' = lost /\ Pass \in {"constant_altering", "Mul2ToShl1"}
    BY <1>8 DEF PassBy, Visiting, Running, EndVisit
  <2>2. \A i \in 2 .. Len(todo) : Aims(block', Pass, todo[i])
    BY <2>1, AimsNow DEF TInv
  <2>3. Pass \notin Counting
    BY <2>1 DEF Counting
  <2>4. Aimed'
    BY <2>1, <2>2, <2>3, AimsLeft DEF TInv
  <2>5. Mirrors(block', FALSE)
    BY <2>1, MirrorsSelf
  <2>6. QED
    BY <2>1, <2>4, <2>5, MirrorsFaithful
<1>9. CASE CountOne
  <2>1. source' = source /\ lost' = lost
    BY <1>9 DEF CountOne, EndVisit
  <2>2. Aimed' /\ Mirrors(block', FALSE)
    BY <1>9, CountOneMirrors
  <2>3. QED
    BY <2>1, <2>2, MirrorsFaithful
<1>10. CASE EraseOne
  <2>1. source' = source /\ lost' = lost
    BY <1>10 DEF EraseOne
  <2>2. Aimed' /\ Mirrors(block', FALSE)
    BY <1>10, EraseOneTracks, TracksMirrors
  <2>3. QED
    BY <2>1, <2>2, MirrorsFaithful
<1>11. CASE EndPass
  <2>1. pc' = "start" /\ source' = source /\ block' = block /\ lost' = lost
    BY <1>11 DEF EndPass
  <2>2. Aimed'
    BY <2>1 DEF Aimed
  <2>3. Mirrors(block', FALSE)
    BY <2>1, MirrorsSelf
  <2>4. QED
    BY <2>1, <2>2, <2>3, MirrorsFaithful
<1>12. CASE UNCHANGED vars
  <2>1. /\ source' = source /\ block' = block /\ passes' = passes /\ pc' = pc /\ todo' = todo /\ lost' = lost
    BY <1>12 DEF vars
  <2>2. Pass' = Pass
    BY <2>1 DEF Pass
  <2>3. Aimed'
    BY <2>1, <2>2 DEF TInv, Aimed
  <2>4. Mirrors(block', FALSE)
    BY <2>1, MirrorsSelf
  <2>5. QED
    BY <2>1, <2>3, <2>4, MirrorsFaithful
<1>13. CASE TextClash
  <2>1. pc' = "broken" /\ source' = source /\ block' = block /\ lost' = lost
    BY <1>13 DEF TextClash
  <2>2. Aimed'
    BY <2>1 DEF Aimed
  <2>3. Mirrors(block', FALSE)
    BY <2>1, MirrorsSelf
  <2>4. QED
    BY <2>1, <2>2, <2>3, MirrorsFaithful
<1>14. QED
  BY <1>1, <1>2, <1>3, <1>4, <1>5, <1>6, <1>7, <1>8, <1>9, <1>10, <1>11, <1>12, <1>13 DEF Next, Finished

LEMMA SourceTyped == Init => TInv
<1> SUFFICES ASSUME Init PROVE TInv
  OBVIOUS
<1>1. source \in Seq(Instructions) /\ Verified(source) /\ Typed(source) /\ block = source /\ pc = "start"
  BY RewritesAssumption DEF Init
<1>2. Len(source) \in Nat /\ DOMAIN source = 1 .. Len(source)
  BY <1>1
<1>3. ASSUME NEW k \in 1 .. Len(source)
      PROVE  /\ source[k].op \in Ops /\ source[k].w \in Nat \ {0}
             /\ source[k].args \in Seq(Operands) /\ DOMAIN source[k].args = 1 .. Len(source[k].args)
  <2>1. source[k] \in Instructions
    BY <1>1
  <2>2. QED
    BY <2>1 DEF Instructions
<1>4. ASSUME NEW k \in 1 .. Len(source) PROVE Shaped(source[k])
  BY <1>1, <1>2, <1>3 DEF Shaped, Typed
<1>5. ASSUME NEW k \in 1 .. Len(source), NEW j \in 1 .. Len(source[k].args)
      PROVE  Fed(source, k - 1, source[k].args[j], source[k])
  <2> DEFINE I == source[k]
             z == I.args[j]
  <2>1. z \in Operands /\ j \in DOMAIN I.args
    BY <1>3
  <2>2. CASE IsConst(z)
    <3>1. z.n < Pow2[I.w] /\ z.n \in Nat /\ Pow2[I.w] \in Nat
      BY <1>1, <1>2, <1>3, <2>1, <2>2, Pow2Is DEF Typed, Operands
    <3>2. InWord(z.n, I.w)
      BY <3>1 DEF InWord
    <3>3. QED
      BY <2>2, <3>2 DEF Fed
  <2>3. CASE ~IsConst(z)
    <3>1. PICK i \in 1 .. k - 1 : source[i].id = z.n
      BY <1>1, <1>2, <2>1, <2>3 DEF Verified
    <3>2. i \in DOMAIN source
      BY <1>2
    <3>3. Gives(source[i], I)
      BY <1>1, <1>2, <2>1, <2>3, <3>1, <3>2 DEF Typed
    <3>4. QED
      BY <2>3, <3>1, <3>3 DEF Fed
  <2>4. QED
    BY <2>2, <2>3
<1>6. QED
  BY <1>1, <1>4, <1>5 DEF TInv, WellTyped, Aimed

LEMMA TypedNext == IInv /\ TInv /\ [Next]_vars => TInv'
BY StepFaithful DEF Faithful, TInv

\* What the other variables hold.
Rest ==
  /\ source \in Sources /\ modified \in BOOLEAN /\ lost \in BOOLEAN
  /\ fmt \in Counting \cup {"none"}

LEMMA RestNext == Rest /\ [Next]_vars => Rest'
<1> SUFFICES ASSUME Rest, [Next]_vars PROVE Rest'
  OBVIOUS
<1>1. CASE Collect
  BY <1>1 DEF Collect, Rest
<1>2. CASE PickPoints
  BY <1>2 DEF PickPoints, Rest
<1>3. CASE InsertCounter
  BY <1>3 DEF InsertCounter, Rest
<1>4. ASSUME NEW dice \in {0, 1}, Substitute(dice) PROVE Rest'
  BY <1>4 DEF Substitute, EndVisit, Rest
<1>5. ASSUME NEW pattern \in 0 .. 4, NEW n \in RandomValues, InsertGarbage(pattern, n) PROVE Rest'
  BY <1>5 DEF InsertGarbage, EndVisit, Rest
<1>6. ASSUME NEW random \in Randoms, AlterConstant(random) PROVE Rest'
  BY <1>6 DEF AlterConstant, EndVisit, Rest
<1>7. CASE ToShl
  BY <1>7 DEF ToShl, EndVisit, Rest
<1>8. CASE PassBy
  BY <1>8 DEF PassBy, EndVisit, Rest
<1>9. CASE CountOne
  BY <1>9 DEF CountOne, EndVisit, Rest
<1>10. CASE EraseOne
  BY <1>10 DEF EraseOne, Rest
<1>11. CASE EndPass
  BY <1>11 DEF EndPass, Rest
<1>12. CASE UNCHANGED vars
  BY <1>12 DEF vars, Rest
<1>13. CASE TextClash
  BY <1>13 DEF TextClash, Rest
<1>14. QED
  BY <1>1, <1>2, <1>3, <1>4, <1>5, <1>6, <1>7, <1>8, <1>9, <1>10, <1>11, <1>12, <1>13 DEF Next, Finished

LEMMA InvIsTypeOK == IInv /\ TInv /\ Rest => TypeOK
<1> SUFFICES ASSUME IInv, TInv, Rest PROVE TypeOK
  OBVIOUS
<1>1. Good(block, source) /\ IsSeq(block) /\ DOMAIN block = 1 .. Len(block)
  BY BlockIs, SeqIn
<1>2. Typed(block) /\ \A k \in DOMAIN block : block[k].op \in Ops
  BY <1>1, WellTypedIsTyped DEF TInv
<1>3. \A i \in 1 .. Len(block) : block[i].id \in Ids(block)
  BY <1>1 DEF Ids
<1>4. DOMAIN todo = 1 .. Len(todo) /\ DOMAIN toErase = 1 .. Len(toErase)
  BY SeqIn DEF IInv, VisitsFit, ErasedFit
<1>5. pc # "visit" => todo = <<>> /\ toErase = <<>>
  BY DEF IInv, VisitsFit, ErasedFit
<1>6. \A k \in DOMAIN passes : passes[k] \in Passes
  BY DEF IInv, VisitsFit
<1>7. \A k \in DOMAIN toErase : toErase[k] \in Ids(block)
  BY <1>3, <1>4 DEF IInv, ErasedFit
<1>8. ASSUME NEW k \in DOMAIN todo PROVE todo[k][1] \in Ids(block) /\ todo[k][3] \in Ids(block) \cup {0}
  <2>1. pc = "visit" /\ k \in 1 .. Len(todo)
    BY <1>4, <1>5, <1>8, EmptyIs DEF IInv, VisitsFit
  <2>2. Fits(block, Pass, todo[k]) /\ Aims(block, Pass, todo[k]) /\ Pass \in Passes
    BY <2>1, PassIs DEF IInv, VisitsFit, TInv, Aimed
  <2>3. todo[k][1] \in Ids(block)
    BY <1>3, <2>2 DEF Fits
  <2>4. ASSUME Pass \in Counting PROVE todo[k][3] \in Ids(block)
    BY <1>3, <2>2, <2>4 DEF Aims, Slot
  <2>5. ASSUME Pass = "garbage_insert" PROVE todo[k][3] \in Ids(block)
    BY <1>3, <2>2, <2>5 DEF Aims
  <2>6. ASSUME Pass \in {"inst_sub", "constant_altering", "Mul2ToShl1"} PROVE todo[k][3] = 0
    BY <2>2, <2>6 DEF Aims
  <2>7. QED
    BY <2>2, <2>3, <2>4, <2>5, <2>6 DEF Passes, Counting
<1>9. pc \in {"start", "visit", "broken"}
  BY DEF IInv, VisitsFit
<1>10. QED
  BY <1>2, <1>5, <1>6, <1>7, <1>8, <1>9 DEF TypeOK, Rest

\* However the passes follow one another, the block is typed as LLVM asks: arithmetic
\* has integers of one width, a constant fits its word; and every visit to come, of an
\* instruction, a base value or a counter, is one of an instruction that is there.
THEOREM AlwaysTyped == Spec => []TypeOK
<1>1. Init => IInv /\ TInv
  BY InitInv, SourceTyped
<1>2. Init => Rest
  BY DEF Init, Rest
<1>3. IInv /\ TInv /\ Rest /\ [Next]_vars => (IInv /\ TInv /\ Rest)'
  BY NextInv, TypedNext, RestNext
<1>4. QED
  BY <1>1, <1>2, <1>3, InvIsTypeOK, PTL DEF Spec

(***************************************************************************)
(* What the program does.                                                  *)
(***************************************************************************)
SInv ==
  lost \/ \A input : InputOK(input) =>
            /\ Run(block, input).trace = Run(source, input).trace
            /\ Run(block, input).undef <=> Run(source, input).undef \/ Dividing(block)

LEMMA SourceSame == Init => SInv
<1> SUFFICES ASSUME Init PROVE SInv
  OBVIOUS
<1>1. block = source
  BY DEF Init
<1>2. IsSeq(source) /\ DOMAIN source = 1 .. Len(source)
  BY InitInv, SeqIn DEF IInv, Good, Numbered
<1>3. ~Dividing(block)
  BY <1>1, <1>2 DEF Dividing, Divides, Ids
<1>4. QED
  BY <1>1, <1>3 DEF SInv

LEMMA SameNext == IInv /\ TInv /\ SInv /\ [Next]_vars => SInv'
<1> SUFFICES ASSUME IInv, TInv, SInv, [Next]_vars, ~lost' PROVE SInv'
  BY DEF SInv
<1>1. source' = source /\ ~lost /\ \E U : Mirrors(block', U)
  BY StepFaithful DEF Faithful
<1>2. PICK U : Mirrors(block', U)
  BY <1>1
<1>3. Dividing(block)' <=> Dividing(block')
  BY <1>1 DEF Dividing, Divides
<1>4. ASSUME NEW input, InputOK(input)
      PROVE  /\ Run(block', input).trace = Run(source, input).trace
             /\ Run(block', input).undef <=> Run(source, input).undef \/ Dividing(block')
  <2>1. /\ Run(block, input).trace = Run(source, input).trace
        /\ Run(block, input).undef <=> Run(source, input).undef \/ Dividing(block)
    BY <1>1, <1>4 DEF SInv
  <2>2. /\ Run(block', input).trace = Run(block, input).trace
        /\ Run(block', input).undef <=> Run(block, input).undef \/ U
        /\ Dividing(block') <=> Dividing(block) \/ U
    BY <1>2, <1>4 DEF Mirrors
  <2>3. QED
    BY <2>1, <2>2
<1>5. QED
  BY <1>1, <1>3, <1>4 DEF SInv

LEMMA InputsOK == Good(block, source) => \A input \in Inputs : InputOK(input)
<1> SUFFICES ASSUME NEW input \in Inputs PROVE InputOK(input)
  OBVIOUS
<1>1. PICK S, T : input \in [S -> UNION {0 .. Pow2[source[k].w] - 1 : k \in T}]
  BY DEF Inputs
<1>2. \A v \in UNION {0 .. Pow2[source[k].w] - 1 : k \in T} : v \in Nat
  OBVIOUS
<1>3. QED
  BY <1>1, <1>2 DEF InputOK

LEMMA InvIsSame == IInv /\ SInv => SameBehaviour /\ StaysDefined
<1> SUFFICES ASSUME IInv, SInv PROVE SameBehaviour /\ StaysDefined
  OBVIOUS
<1>1. Good(block, source) /\ (DividesBit(block) <=> Dividing(block))
  BY BlockIs, DividingIs
<1>2. \A input \in Inputs : InputOK(input)
  BY <1>1, InputsOK
<1>3. QED
  BY <1>1, <1>2 DEF SInv, SameBehaviour, StaysDefined

LEMMA AlwaysSame == Spec => [](IInv /\ SInv)
<1>1. Init => IInv /\ TInv /\ SInv
  BY InitInv, SourceTyped, SourceSame
<1>2. IInv /\ TInv /\ SInv /\ [Next]_vars => (IInv /\ TInv /\ SInv)'
  BY NextInv, TypedNext, SameNext
<1>3. QED
  BY <1>1, <1>2, PTL DEF Spec

\* Whatever passes are run on whatever block, in whatever order and with whatever random
\* choices, and whatever the calls and the memory of the program give: before and after
\* every single rewriting, the block calls, prints, branches and returns as the source
\* does, with the same operands; but where constant_altering has met a negative constant
\* wider than a word (inst_sub.cc:11-14, garbage_insert.cc:10, constant_altering.cc:57).
THEOREM BehaviourKept == Spec => []SameBehaviour
BY AlwaysSame, InvIsSame, PTL

\* Nor does any rewriting make an input undefined that was not, or hide that it was: the
\* multiplications and divisions inserted divide by what is neither zero nor minus one,
\* and the operands of the program's own divisions keep their values.  Again but for a
\* constant lost, and for the division by 2 behind a value of one bit, where 2 is 0
\* (garbage_insert.cc:81-86).
THEOREM DefinednessKept == Spec => []StaysDefined
BY AlwaysSame, InvIsSame, PTL
=============================================================================
