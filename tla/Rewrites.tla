------------------------------ MODULE Rewrites -------------------------------
(***************************************************************************)
(* The passes that write instructions into a basic block: inst_sub,        *)
(* garbage_insert and constant_altering of the pipeline, Mul2ToShl1,       *)
(* count-additions and count-calls of the exercise, in any order, one on   *)
(* what the other left.  Each goes through a list of instructions of the   *)
(* block it found; what it inserts is never visited, for it goes in front  *)
(* of the instruction under the iterator (or is inserted once all visits   *)
(* are known).                                                             *)
(***************************************************************************)
EXTENDS Words, SequencesExt

CONSTANTS
  Sources,      \* the blocks considered
  PassLists,    \* the passes run on them, in order
  Word,         \* bits of uint64_t and of the counters
  Randoms,      \* what gen() gives
  RandomValues, \* what randomValue of garbage_insert gives
  MaxGarbage    \* bound on the insertions of one run of garbage_insert

Counting == {"count_additions", "count_calls"}
Passes == {"inst_sub", "garbage_insert", "constant_altering", "Mul2ToShl1"} \cup Counting

\* An operand is a constant or the value of the instruction n.
Const(n) == [sort |-> "const", n |-> n]
Value(n) == [sort |-> "value", n |-> n]
IsConst(a) == a.sort = "const"

\* w: the width of its integers, operands and result.
Inst(id, op, w, args) == [id |-> id, op |-> op, w |-> w, args |-> args]

\* "report" is the call of printf that the counting passes insert.
Calls == {"call", "intrinsic", "printf", "report"}
Terminators == {"ret", "switch"}
Ops == Binary \cup Calls \cup Terminators \cup {"phi", "alloca", "load", "store", "gep"}

\* (Slip: the test for intrinsics forgotten.)
ImmediateNoIntrinsic == {"switch", "alloca", "phi", "gep"}

\* Their constant operands are part of the instruction.
Immediate == {"switch", "alloca", "phi", "gep", "intrinsic"}

IsIntegerTy(I) == I.op \in Binary \cup Calls \cup {"phi", "load"}

Operands == [sort : {"const", "value"}, n : Nat]
Instructions == [id : Nat, op : Ops, w : Nat \ {0}, args : Seq(Operands)]

\* What LLVM's verifier asks of a block: a value is used behind its definition only,
\* PHIs lead, the terminator ends the block.
Verified(b) ==
  /\ \A i, j \in DOMAIN b : b[i].id = b[j].id => i = j
  /\ \A k \in DOMAIN b :
       /\ \A j \in DOMAIN b[k].args :
            ~IsConst(b[k].args[j]) => \E i \in 1 .. k - 1 : b[i].id = b[k].args[j].n
       /\ b[k].op = "phi" /\ k > 1 => b[k - 1].op = "phi"
       /\ b[k].op \in Terminators <=> k = Len(b)
       /\ b[k].op \in Binary => Len(b[k].args) = 2

\* P may be an operand of I: a value, and an integer of the width of I if it is an
\* integer, as it must be for arithmetic.
Gives(P, I) ==
  /\ P.op \notin {"store"} \cup Terminators
  /\ IsIntegerTy(P) => P.w = I.w
  /\ I.op \in Binary => IsIntegerTy(P)

\* The types, which the verifier looks at as well.
Typed(b) ==
  \A k \in DOMAIN b :
    /\ b[k].op = "store" => Len(b[k].args) = 2
    /\ b[k].op = "load" => Len(b[k].args) = 1
    /\ \A j \in DOMAIN b[k].args :
         LET a == b[k].args[j]
         IN  /\ IsConst(a) => a.n < Pow2[b[k].w]
             /\ ~IsConst(a) => \A i \in DOMAIN b : b[i].id = a.n => Gives(b[i], b[k])

ASSUME RewritesAssumption ==
  /\ Word \in Nat \ {0} /\ Randoms \subseteq 0 .. Pow2[Word] - 1
  /\ RandomValues \subseteq Nat /\ MaxGarbage \in Nat
  /\ \A b \in Sources : b \in Seq(Instructions) /\ b # <<>> /\ Verified(b) /\ Typed(b)
  /\ \A b \in Sources : \A k \in DOMAIN b : b[k].op # "report"
  /\ PassLists \subseteq Seq(Passes)

VARIABLES
  source,    \* the block before all passes
  block,     \* the block now
  passes,    \* the passes still to run, the current one first
  pc,        \* "start" of the current pass, "visit", or "broken"
  todo,      \* its visits to come: <<instruction, operand, base value or counter>>
  toErase,   \* ToErase of Mul2ToShl1
  modified,  \* what the current pass will return
  found,     \* the block as the current pass found it
  fmt,       \* the initializer of @printfFmtStr, named by the pass that set it
  expected,  \* history: what each counting pass should have reported
  lost       \* history: a constant was altered whose value a uint64_t cannot carry

vars == <<source, block, passes, pc, todo, toErase, modified, found, fmt, expected, lost>>

Pass == Head(passes)
Running(p) == passes # <<>> /\ Pass = p

-----------------------------------------------------------------------------
(* Blocks, and the IRBuilder.                                              *)

Ids(b) == {b[k].id : k \in DOMAIN b}
At(b, id) == b[CHOOSE k \in DOMAIN b : b[k].id = id]
Position(b, id) == CHOOSE k \in DOMAIN b : b[k].id = id

\* No instruction has it, nor had one of the source that is erased.
Fresh == 1 + CHOOSE n \in Ids(block) \cup Ids(source) : \A m \in Ids(block) \cup Ids(source) : m <= n

Before(b, k, new) == SubSeq(b, 1, k - 1) \o new \o SubSeq(b, k, Len(b))

replaceAllUsesWith(b, id, a) ==
  [k \in DOMAIN b |->
     [b[k] EXCEPT !.args = [j \in DOMAIN @ |-> IF @[j] = Value(id) THEN a ELSE @[j]]]]

eraseFromParent(b, id) == RemoveAt(b, Position(b, id))

\* ConstantInt::get of an unsigned number.
ConstInt(n, w) == Const(Trunc(n, w))

\* code: what the builder has inserted; a: the value it returned last.  An
\* operation on constants is folded, nothing is inserted.
Start == [code |-> <<>>, a |-> Const(0)]

Create(s, op, w, x, y) ==
  IF IsConst(x) /\ IsConst(y)
    THEN [s EXCEPT !.a = Const(Compute(op, x.n, y.n, w))]
    ELSE LET id == Fresh + Len(s.code)
         IN  [code |-> Append(s.code, Inst(id, op, w, <<x, y>>)), a |-> Value(id)]

-----------------------------------------------------------------------------

Init ==
  /\ source \in Sources
  /\ block = source
  /\ passes \in PassLists
  /\ pc = "start"
  /\ todo = <<>>
  /\ toErase = <<>>
  /\ modified = FALSE
  /\ found = block
  /\ fmt = "none"
  /\ expected = <<>>
  /\ lost = FALSE

\* (Slip: the test for printf forgotten.)
CountedAll == IF Pass = "count_additions" THEN {"add"} ELSE Calls

\* count_calls passes by every printf, those of a counting pass among them.
Counted == IF Pass = "count_additions" THEN {"add"} ELSE {"call", "intrinsic"}

Visits(I) ==
  CASE Pass = "inst_sub" -> I.op \in {"add", "sub", "mul"}
    [] Pass = "constant_altering" -> I.op \notin Immediate
    [] Pass = "Mul2ToShl1" -> I.op = "mul"
    [] Pass \in Counting -> I.op \in Counted \cup {"ret"}

\* Visits of whole instructions; constant_altering visits each operand.
Visited(b, a) ==
  FlattenSeq([k \in DOMAIN b |->
    IF ~Visits(b[k]) THEN <<>>
    ELSE IF Pass = "constant_altering" THEN [j \in DOMAIN b[k].args |-> <<b[k].id, j, 0>>]
    ELSE <<<<b[k].id, 0, a>>>>])

\* (Slip: false returned by the pass that always changes something.)
CollectUnreported ==
  /\ pc = "start" /\ passes # <<>> /\ Pass \notin Counting \cup {"garbage_insert"}
  /\ todo' = Visited(block, 0)
  /\ modified' = FALSE
  /\ pc' = "visit"
  /\ UNCHANGED <<source, block, passes, toErase, found, fmt, expected, lost>>

Collect ==
  /\ pc = "start" /\ passes # <<>> /\ Pass \notin Counting \cup {"garbage_insert"}
  /\ todo' = Visited(block, 0)
  /\ modified' = (Pass = "constant_altering")
  /\ pc' = "visit"
  /\ UNCHANGED <<source, block, passes, toErase, found, fmt, expected, lost>>

\* The integers computed in front of the instruction at k.
Skipped == Terminators \cup {"phi", "alloca"}

availableValues(k) ==
  {block[j].id : j \in {i \in 1 .. k - 1 : IsIntegerTy(block[i]) /\ block[i].op \notin Skipped}}

PickPoints ==
  /\ pc = "start" /\ Running("garbage_insert")
  /\ LET points == {k \in DOMAIN block : block[k].op \notin Skipped /\ availableValues(k) # {}}
     IN  \E picked \in {s \in SUBSET points : Cardinality(s) <= MaxGarbage} :
           \E base \in [picked -> Ids(block)] :
             /\ \A k \in picked : base[k] \in availableValues(k)
             /\ todo' = FlattenSeq([k \in DOMAIN block |->
                          IF k \in picked THEN <<<<block[k].id, 0, base[k]>>>> ELSE <<>>])
  /\ modified' = FALSE
  /\ pc' = "visit"
  /\ UNCHANGED <<source, block, passes, toErase, found, fmt, expected, lost>>

FirstInsertionPt(b) ==
  CHOOSE k \in DOMAIN b : b[k].op # "phi" /\ \A j \in 1 .. k - 1 : b[j].op = "phi"

\* What the current pass finds to count: calls of the program's own printf are not
\* told from those the pass inserts.
Executed ==
  LET ops == IF Pass = "count_additions" THEN {"add"} ELSE {"call", "intrinsic"}
  IN  Cardinality({k \in DOMAIN block : block[k].op \in ops})

\* The other counting pass has made @printfFmtStr before: getOrInsertGlobal returns
\* that global, and its type is not the new text's, which is longer or shorter.  An
\* initializer of another type ends in LLVM's assertion or before its verifier.
TextClash ==
  /\ pc = "start" /\ passes # <<>> /\ Pass \in Counting
  /\ fmt \notin {"none", Pass}
  /\ pc' = "broken"
  /\ UNCHANGED <<source, block, passes, todo, toErase, modified, found, fmt, expected, lost>>

\* The counter's alloca and the store of zero; the format string.
InsertCounter ==
  /\ pc = "start" /\ passes # <<>> /\ Pass \in Counting
  /\ fmt \in {"none", Pass}
  /\ block' = Before(block, FirstInsertionPt(block),
                     <<Inst(Fresh, "alloca", Word, <<Const(1)>>),
                       Inst(Fresh + 1, "store", Word, <<Const(0), Value(Fresh)>>)>>)
  /\ todo' = Visited(block, Fresh)
  /\ fmt' = Pass
  /\ expected' = IF block[Len(block)].op # "ret" THEN expected
                 ELSE Append(expected, <<Pass, Executed>>)
  /\ modified' = TRUE
  /\ pc' = "visit"
  /\ UNCHANGED <<source, passes, toErase, found, lost>>

-----------------------------------------------------------------------------
(* One visit.                                                              *)

Visit == Head(todo)
Visiting(p) == pc = "visit" /\ Running(p) /\ todo # <<>>
This == At(block, Visit[1])

EndVisit ==
  /\ todo' = Tail(todo)
  /\ UNCHANGED <<source, passes, pc, found, fmt, expected>>

\* (Slip: the complement for the negative.)
Complement(s, x, w) == Create(s, "xor", w, x, Const(Pow2[w] - 1))

Neg(s, x, w) == Create(s, "sub", w, Const(0), x)

Substitution(I, dice) ==
  LET a == I.args[1]
      b == I.args[2]
      nega == Neg(Start, a, I.w)
      negb == Neg(Start, b, I.w)
      both == Neg(nega, b, I.w)
      sum == Create(both, "add", I.w, nega.a, both.a)
      prod == Create(nega, "mul", I.w, nega.a, b)
      less == Create(Start, "sub", I.w, b, ConstInt(1, I.w))
      part == Create(less, "mul", I.w, a, less.a)
  IN  CASE I.op = "add" /\ dice = 0 -> Create(negb, "sub", I.w, a, negb.a)
        [] I.op = "add" /\ dice = 1 -> Neg(sum, sum.a, I.w)
        [] I.op = "sub" -> Create(negb, "add", I.w, a, negb.a)
        [] I.op = "mul" /\ dice = 0 -> Neg(prod, prod.a, I.w)
        [] I.op = "mul" /\ dice = 1 -> Create(part, "add", I.w, part.a, a)

Substitute(dice) ==
  /\ Visiting("inst_sub")
  /\ LET s == Substitution(This, dice)
         b == Before(block, Position(block, This.id), s.code)
     IN  block' = eraseFromParent(replaceAllUsesWith(b, This.id, s.a), This.id)
  /\ modified' = TRUE
  /\ UNCHANGED <<toErase, lost>>
  /\ EndVisit

\* op1 by m, then op2 by m, which was meant to give x again.
Twice(x, w, op1, op2, m) ==
  LET s == Create(Start, op1, w, x, ConstInt(m, w))
  IN  Create(s, op2, w, s.a, ConstInt(m, w))

\* (Slip: multiplied and divided by the random value.)
GarbageFactor(x, w, pattern, n) == Twice(x, w, "mul", "sdiv", n)

Garbage(x, w, pattern, n) ==
  CASE pattern = 0 -> Twice(x, w, "add", "sub", n)
    [] pattern = 1 -> Twice(x, w, "mul", "sdiv", 2)
    [] pattern = 2 -> Twice(x, w, "xor", "xor", n)
    [] pattern = 3 -> Create(Start, "or", w, x, Const(0))
    [] pattern = 4 -> Create(Start, "and", w, x, ConstInt(Pow2[Word] - 1, w))

\* Behind the instruction visited, in front of its successor.
InsertGarbage(pattern, n) ==
  /\ Visiting("garbage_insert")
  /\ LET base == At(block, Visit[3])
     IN  block' = Before(block, Position(block, This.id) + 1,
                         Garbage(Value(base.id), base.w, pattern, n).code)
  /\ modified' = TRUE
  /\ UNCHANGED <<toErase, lost>>
  /\ EndVisit

Operand == This.args[Visit[2]]

\* getSignificantBits() <= 64
Carried(c, w) == Signed(c, w) \in -Pow2[Word - 1] .. Pow2[Word - 1] - 1

\* blackbox and the xor: a slot, the masked constant through it, and the mask.
\* ConstantInt::get extends the two 64-bit words by zeros if the type is wider.
Blackboxed(c, w, random) ==
  LET val == Trunc(Signed(c, w), Word)
      id == Fresh
  IN  <<Inst(id, "alloca", w, <<Const(1)>>),
        Inst(id + 1, "store", w, <<ConstInt(Xor(val, random, Word), w), Value(id)>>),
        Inst(id + 2, "load", w, <<Value(id)>>),
        Inst(id + 3, "xor", w, <<Value(id + 2), ConstInt(random, w)>>)>>

\* replaceUsesOfWith: all operands of the instruction that are this constant.
AlterConstant(random) ==
  /\ Visiting("constant_altering")
  /\ IsConst(Operand) /\ Carried(Operand.n, This.w)
  /\ LET k == Position(block, This.id)
         args == [j \in DOMAIN This.args |->
                    IF This.args[j] = Operand THEN Value(Fresh + 3) ELSE This.args[j]]
     IN  block' = Before([block EXCEPT ![k].args = args], k,
                         Blackboxed(Operand.n, This.w, random))
  /\ lost' = (lost \/ (This.w > Word /\ Signed(Operand.n, This.w) < 0))
  /\ UNCHANGED <<modified, toErase>>
  /\ EndVisit

\* The constant operand m_ConstantInt binds, the second one first; 0: none.
ConstantSide(I) ==
  CASE IsConst(I.args[2]) -> 2
    [] ~IsConst(I.args[2]) /\ IsConst(I.args[1]) -> 1
    [] OTHER -> 0

IsMulBy2(I) == ConstantSide(I) # 0 /\ I.args[ConstantSide(I)] = Const(2)

ToShl ==
  /\ Visiting("Mul2ToShl1")
  /\ IsMulBy2(This)
  /\ LET s == Create(Start, "shl", This.w, This.args[3 - ConstantSide(This)], Const(1))
     IN  block' = replaceAllUsesWith(Before(block, Position(block, This.id), s.code), This.id, s.a)
  /\ toErase' = Append(toErase, This.id)
  /\ modified' = TRUE
  /\ UNCHANGED lost
  /\ EndVisit

\* Nothing to be done with the instruction or operand.
PassBy ==
  /\ \/ Visiting("constant_altering") /\ ~(IsConst(Operand) /\ Carried(Operand.n, This.w))
     \/ Visiting("Mul2ToShl1") /\ ~IsMulBy2(This)
  /\ UNCHANGED <<block, modified, toErase, lost>>
  /\ EndVisit

\* In front of an addition or a call the counter goes up, in front of a ret it
\* is reported.
CountOne ==
  /\ pc = "visit" /\ passes # <<>> /\ Pass \in Counting /\ todo # <<>>
  /\ LET load == Inst(Fresh, "load", Word, <<Value(Visit[3])>>)
         new == IF This.op = "ret"
                  THEN <<Inst(Fresh + 1, "report", Word, <<Value(Fresh)>>)>>
                  ELSE <<Inst(Fresh + 1, "add", Word, <<Value(Fresh), Const(1)>>),
                         Inst(Fresh + 2, "store", Word, <<Value(Fresh + 1), Value(Visit[3])>>)>>
     IN  block' = Before(block, Position(block, This.id), <<load>> \o new)
  /\ UNCHANGED <<modified, toErase, lost>>
  /\ EndVisit

\* One of the instructions put off; the vector is gone when it has been gone through.
EraseOne ==
  /\ pc = "visit" /\ todo = <<>> /\ toErase # <<>>
  /\ block' = eraseFromParent(block, Head(toErase))
  /\ toErase' = Tail(toErase)
  /\ UNCHANGED <<source, passes, pc, todo, modified, found, fmt, expected, lost>>

\* (Slip: the vector of instructions to erase is forgotten.)
EndPassKeeps ==
  /\ pc = "visit" /\ todo = <<>>
  /\ passes' = Tail(passes)
  /\ pc' = "start"
  /\ found' = block
  /\ modified' = FALSE
  /\ UNCHANGED <<source, block, todo, toErase, fmt, expected, lost>>

EndPass ==
  /\ pc = "visit" /\ todo = <<>> /\ toErase = <<>>
  /\ passes' = Tail(passes)
  /\ pc' = "start"
  /\ found' = block
  /\ modified' = FALSE
  /\ UNCHANGED <<source, block, todo, toErase, fmt, expected, lost>>

Finished == (passes = <<>> \/ pc = "broken") /\ UNCHANGED vars

Next ==
  \/ Collect \/ PickPoints \/ TextClash \/ InsertCounter
  \/ \E dice \in {0, 1} : Substitute(dice)
  \/ \E pattern \in 0 .. 4, n \in RandomValues : InsertGarbage(pattern, n)
  \/ \E random \in Randoms : AlterConstant(random)
  \/ ToShl \/ PassBy \/ CountOne
  \/ EraseOne \/ EndPass \/ Finished

Spec == Init /\ [][Next]_vars

-----------------------------------------------------------------------------
(* A block running.  What a call, a PHI, a printf or a load from memory that *)
(* is not the block's own gives is the input.                              *)

Seen == {"call", "intrinsic", "printf"} \cup Terminators

\* val: the values computed; mem: the memory written; trace: what the program does
\* that can be seen; reports: what the counting passes print.
Outset == [val |-> <<>>, mem |-> <<>>, trace |-> <<>>, reports |-> <<>>, undef |-> FALSE]

With(f, k, v) == [i \in DOMAIN f \cup {k} |-> IF i = k THEN v ELSE f[i]]

Evaluated(s, args) ==
  [j \in DOMAIN args |-> IF IsConst(args[j]) THEN args[j].n ELSE s.val[args[j].n]]

\* The slot of an instruction is at an address no integer is: nothing from outside
\* points to it.
Result(mem, I, x, given) ==
  CASE I.op \in Binary /\ Undefined(I.op, x[1], x[2], I.w) -> 0
    [] I.op \in Binary /\ ~Undefined(I.op, x[1], x[2], I.w) -> Compute(I.op, x[1], x[2], I.w)
    [] I.op \in {"alloca", "gep"} -> -I.id
    [] I.op = "load" /\ x[1] \in DOMAIN mem -> Trunc(mem[x[1]], I.w)
    [] OTHER -> Trunc(given, I.w)

Exec(s, I, input) ==
  LET x == Evaluated(s, I.args)
      given == IF I.id \in DOMAIN input THEN input[I.id] ELSE 0
  IN  [val |-> IF I.op = "store" THEN s.val ELSE With(s.val, I.id, Result(s.mem, I, x, given)),
       mem |-> IF I.op = "store" THEN With(s.mem, x[2], x[1]) ELSE s.mem,
       trace |-> IF I.op \in Seen THEN Append(s.trace, <<I.op, x>>) ELSE s.trace,
       reports |-> IF I.op = "report" THEN Append(s.reports, x[1]) ELSE s.reports,
       undef |-> s.undef \/ (I.op \in Binary /\ Undefined(I.op, x[1], x[2], I.w))]

\* The states the code b goes through from s on.
Ran(s, b, input) ==
  LET r[k \in 0 .. Len(b)] == IF k = 0 THEN s ELSE Exec(r[k - 1], b[k], input) IN r

Run(b, input) == Ran(Outset, b, input)[Len(b)]

Inputs ==
  LET given == {k \in DOMAIN source : source[k].op \in {"call", "intrinsic", "phi", "printf", "load"}}
  IN  {f \in [{source[k].id : k \in given} -> UNION {0 .. Pow2[source[k].w] - 1 : k \in given}] :
         \A k \in given : f[source[k].id] < Pow2[source[k].w]}

-----------------------------------------------------------------------------
(* Properties.                                                             *)

TypeOK ==
  /\ source \in Sources /\ pc \in {"start", "visit", "broken"} /\ modified \in BOOLEAN /\ lost \in BOOLEAN
  /\ \A k \in DOMAIN passes : passes[k] \in Passes
  /\ fmt \in Counting \cup {"none"}
  /\ \A k \in DOMAIN toErase : toErase[k] \in Ids(block)
  /\ pc # "visit" => todo = <<>> /\ toErase = <<>>
  /\ \A k \in DOMAIN todo : todo[k][1] \in Ids(block) /\ todo[k][3] \in Ids(block) \cup {0}
  /\ \A k \in DOMAIN block : block[k].op \in Ops
  /\ Typed(block)

\* In the midst of every pass, on whatever the passes before it left, the block is
\* one LLVM's verifier takes, and an immediate stays a constant
\* (constant_altering.cc:36-45, garbage_insert.cc:37-39).
ValidBlock ==
  /\ Verified(block)
  /\ \A k \in DOMAIN block :
       LET I == block[k]
       IN  I.id \in Ids(source) /\ I.op \in {"switch", "alloca", "phi", "gep", "intrinsic"} =>
             \A j \in DOMAIN I.args : IsConst(At(source, I.id).args[j]) => IsConst(I.args[j])

\* A division inserted.
DividesBit(b) == \E k \in DOMAIN b : b[k].op = "sdiv" /\ b[k].w = 1 /\ b[k].id \notin Ids(source)

\* inst_sub.cc:11-14, garbage_insert.cc:10: whatever the calls give, the block does
\* what the source does, before and after every single rewriting.  Not so where
\* constant_altering has met a negative constant wider than a word (lines 57-58), as
\* inst_sub makes them, nor behind an undefined division.
SameBehaviour ==
  lost \/ DividesBit(block) \/
    \A input \in Inputs : Run(block, input).trace = Run(source, input).trace

\* garbage_insert.cc:10-12, inst_sub.cc:11-14: no rewriting takes an input's
\* behaviour away or makes an undefined one look defined: the divisions inserted are
\* defined, and those of the program keep their operands through every rewriting of
\* them.  The divisions by 2 on one bit are SameProgram's.
StaysDefined ==
  lost \/ DividesBit(block) \/
    \A input \in Inputs : Run(block, input).undef <=> Run(source, input).undef

PrintsItself == \E k \in DOMAIN source : source[k].op = "printf"

\* count_additions.cc:63-70, count_calls.cc:50-62, for programs that do not call printf
\* themselves (of their calls of it count_calls knows nothing): what is printed in front
\* of the ret is what the block the pass found executes, and remains so when later
\* passes rewrite the counter's own instructions; and it is printed under the text of
\* the pass that counted.
ReportsCount ==
  pc = "start" /\ ~DividesBit(block) /\ ~PrintsItself =>
    \A input \in Inputs :
      LET r == Run(block, input).reports
      IN  /\ Len(r) = Len(expected)
          /\ \A k \in DOMAIN r :
               /\ r[k] = Trunc(expected[k][2], Word)
               /\ fmt = expected[k][1]

\* gen.zig:43-62: a pass that returns false, for which all analyses are said to be
\* preserved, has not touched the block.
ReportedChanges == pc = "visit" /\ todo = <<>> /\ ~modified => block = found

-----------------------------------------------------------------------------
(* What comments and READMEs say of all programs, and the passes do not keep. *)

\* garbage_insert.cc:10, "Inserts useless instructions that dont change program", and
\* README.md:170, "our passes do not break the functionality of programs": the block
\* does what the source does for every input, and is undefined for no other.
SameProgram ==
  \A input \in Inputs :
    LET now == Run(block, input)
        then == Run(source, input)
    IN  now.trace = then.trace /\ (now.undef <=> then.undef)
=============================================================================
