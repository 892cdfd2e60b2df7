----------------------------- MODULE LoopPasses ------------------------------
(***************************************************************************)
(* passes/loop_split.cc and passes/loop_flatten.cc on one loop or one nest *)
(* of two, and the loops they leave in its place running.  Both put counted*)
(* loops with a step of one there: several one after the other, or one     *)
(* whose counter stands for two.  What refers to deleted blocks does not   *)
(* run.                                                                    *)
(***************************************************************************)
EXTENDS LoopShape, Integers, Sequences, FiniteSets

CONSTANTS
  Nests,  \* the loops considered
  Half    \* the induction variables are words of -Half .. Half - 1

\* Counters have eight bits at least: no bound the passes take is truncated by itself.
ASSUME LoopAssumption ==
  /\ Half \in Nat /\ Half > 100
  /\ \A loop \in Nests :
       /\ loop.pass \in {"loop_split", "loop_flatten"}
       /\ loop.n \in 0 .. Half - 1   \* the source runs the body for 0 .. n - 1
       /\ loop.cmps \subseteq 0 .. Half - 1  \* the bounds i is compared with
       /\ loop.step \in Nat \ {0}               \* what the latch adds to i
       /\ loop.halfJ \in Nat \ {0}    \* j is a word of -halfJ .. halfJ - 1
       /\ loop.m \in 0 .. loop.halfJ - 1   \* the inner loop goes on while j < m
       /\ loop.cmpsJ \subseteq 0 .. loop.halfJ - 1
       /\ loop.stepJ \in Nat \ {0}
       /\ loop.exit \in {"header", "body", "latch"}  \* where the source leaves the loop
       /\ IsShape(loop.shape)
       /\ loop.exit = "body" => loop.n > 0 /\ Bodies(loop.shape) # {}
       /\ loop.pass = "loop_flatten" => loop.exit = "header" /\ loop.shape.inner # "none"

VARIABLES
  nest,   \* the source loop
  found,  \* the bounds the pass has found for i and j
  code,   \* the new loops, [start, end) each; <<>> while there are none
  at,     \* which of them runs
  i,      \* its counter
  pc,     \* "pass", "header", "body", "latch", "exit", "returned", "broken"
  out,    \* the values of i the source's body blocks have been run with
  heads,  \* those the source header's code has been run with, after loop_split
  pairs   \* those of i and j the inner header's code has, after loop_flatten

vars == <<nest, found, code, at, i, pc, out, heads, pairs>>

\* ConstantInt::get and the arithmetic of the loops, in two's complement.
Wrap(x) == ((x + Half) % (2 * Half)) - Half

Init ==
  /\ nest \in Nests
  /\ found = <<0, 0>>
  /\ code = <<>>
  /\ at = 1
  /\ i = 0
  /\ pc = "pass"
  /\ out = <<>>
  /\ heads = <<>>
  /\ pairs = <<>>

Enter(bounds, loops, sound) ==
  /\ found' = bounds
  /\ code' = loops
  /\ i' = loops[1].start
  /\ pc' = IF sound THEN "header" ELSE "broken"
  /\ UNCHANGED <<nest, at, out, heads, pairs>>

\* (Slip: bounds kept in 64 bits.)
BetweenWide(points) ==
  [k \in 1 .. Len(points) - 1 |-> [start |-> points[k], end |-> points[k + 1]]]

Between(points) ==
  [k \in 1 .. Len(points) - 1 |-> [start |-> Wrap(points[k]), end |-> Wrap(points[k + 1])]]

splitPoints(n, splits) ==
  IF splits = 2 THEN <<0, n \div 2, n>> ELSE <<0, n \div 3, (2 * n) \div 3, n>>

\* The first compare among the users of i gives the bound: the order of the users
\* decides which one that is.  Only trip counts the pass finds worth it and
\* tractable; the step of the loop plays no role.  getExitBlock is null unless a
\* single edge leaves the loop: there is no break besides the test.
LoopSplit(N, splits) ==
  /\ pc = "pass" /\ nest.pass = "loop_split"
  /\ nest.shape.exits = 1
  /\ N \in nest.cmps
  /\ N > 3 /\ N <= 100
  /\ Enter(<<N, 0>>, Between(splitPoints(N, splits)), SplitSound(nest.shape))

\* flat.i and flat.j have the type of the outer counter, whatever that of j is.
FlatTyped == nest.halfJ = Half \/ "j" \notin nest.shape.uses[nest.shape.inner]

\* Both bounds are those of the first compares found; the steps play no role.
LoopFlatten(N, M) ==
  /\ pc = "pass" /\ nest.pass = "loop_flatten"
  /\ N \in nest.cmps /\ M \in nest.cmpsJ
  /\ N > 0 /\ M > 0 /\ N <= 100 /\ M <= 100
  /\ Enter(<<N, M>>, Between(<<0, N * M>>), FlatSound(nest.shape) /\ FlatTyped)

\* The dice, or a condition of the pass: the source loop stays.
LeaveAlone == pc = "pass" /\ UNCHANGED vars

\* (Slip: the clones are inserted behind the test.)
HeadBehindTest == heads' = IF nest.pass = "loop_split" /\ i < code[at].end THEN Append(heads, i) ELSE heads

\* The clone of the source header's instructions runs in front of every test of
\* loop_split; loop_flatten's header has none.
RunHead == heads' = IF nest.pass = "loop_split" THEN Append(heads, i) ELSE heads

\* Without body blocks the branch goes to the latch.
Header ==
  /\ pc = "header"
  /\ i < code[at].end
  /\ RunHead
  /\ pc' = IF nest.pass = "loop_split" /\ Bodies(nest.shape) = {} THEN "latch" ELSE "body"
  /\ UNCHANGED <<nest, found, code, at, i, out, pairs>>

\* (Slip: split.next branches back to the header it comes from.)
NextLoopAgain ==
  /\ pc = "header"
  /\ i >= code[at].end
  /\ at < Len(code)
  /\ UNCHANGED vars

\* split.next: on to the next of the new loops.
NextLoop ==
  /\ pc = "header"
  /\ i >= code[at].end
  /\ at < Len(code)
  /\ RunHead
  /\ at' = at + 1
  /\ i' = code[at + 1].start
  /\ UNCHANGED <<nest, found, code, pc, out, pairs>>

\* flat.exit returns from the function when several edges leave the nest.
Exit ==
  /\ pc = "header"
  /\ i >= code[at].end
  /\ at = Len(code)
  /\ RunHead
  /\ pc' = IF nest.shape.exits = 1 THEN "exit" ELSE "returned"
  /\ UNCHANGED <<nest, found, code, at, i, out, pairs>>

\* (Slip: the clone's exit is connected to split.next, like the test of its header.)
ExitToNext ==
  /\ pc = "body" /\ nest.pass = "loop_split"
  /\ out' = Append(out, i)
  /\ IF nest.exit = "body" /\ i = nest.n - 1 /\ at < Len(code)
       THEN at' = at + 1 /\ i' = code[at + 1].start /\ pc' = "header"
       ELSE at' = at /\ i' = i /\ pc' = "latch"
  /\ UNCHANGED <<nest, found, code, heads, pairs>>

\* The clone of a body of loop_split: all blocks but header and latch.  When the
\* source leaves the loop here, all the clones go to the exit block.
SplitBody ==
  /\ pc = "body" /\ nest.pass = "loop_split"
  /\ out' = Append(out, i)
  /\ pc' = IF nest.exit = "body" /\ i = nest.n - 1 THEN "exit" ELSE "latch"
  /\ UNCHANGED <<nest, found, code, at, i, heads, pairs>>

\* (Slip: quotient and remainder exchanged.)
SwappedFlatBody ==
  /\ pc = "body" /\ nest.pass = "loop_flatten"
  /\ pairs' = Append(pairs, <<i % found[2], i \div found[2]>>)
  /\ pc' = "latch"
  /\ UNCHANGED <<nest, found, code, at, i, out, heads>>

\* flat.body: the inner header's instructions, and nothing of the other blocks
\* of either loop.
FlatBody ==
  /\ pc = "body" /\ nest.pass = "loop_flatten"
  /\ pairs' = Append(pairs, <<i \div found[2], i % found[2]>>)
  /\ pc' = "latch"
  /\ UNCHANGED <<nest, found, code, at, i, out, heads>>

\* A loop without body blocks has its instructions in the clone of the latch.
Latch ==
  /\ pc = "latch"
  /\ i' = Wrap(i + 1)
  /\ out' = IF nest.pass = "loop_split" /\ Bodies(nest.shape) = {} THEN Append(out, i) ELSE out
  /\ pc' = "header"
  /\ UNCHANGED <<nest, found, code, at, heads, pairs>>

Exited == pc \in {"exit", "returned", "broken"} /\ UNCHANGED vars

Loops == Header \/ NextLoop \/ Exit \/ SplitBody \/ FlatBody \/ Latch

Next ==
  \/ \E N \in nest.cmps :
       \/ \E splits \in {2, 3} : LoopSplit(N, splits)
       \/ \E M \in nest.cmpsJ : LoopFlatten(N, M)
  \/ LeaveAlone
  \/ Loops
  \/ Exited

\* A loop that runs goes on running.
Spec == Init /\ [][Next]_vars /\ WF_vars(Loops)

-----------------------------------------------------------------------------
(* Properties.                                                             *)

TypeOK ==
  /\ nest \in Nests
  /\ found \in Nat \X Nat
  /\ \A k \in DOMAIN code : {code[k].start, code[k].end} \subseteq -Half .. Half - 1
  /\ pc # "pass" => at \in DOMAIN code
  /\ i \in -Half .. Half - 1
  /\ pc \in {"pass", "header", "body", "latch", "exit", "returned", "broken"}
  /\ \A k \in DOMAIN out : out[k] \in Int
  /\ \A k \in DOMAIN pairs : pairs[k] \in Nat \X Nat

\* The bound found is that of the loop's own test, or, when the body has the exit,
\* one that lets it get there.
OwnBound ==
  /\ nest.exit # "body" => nest.cmps = {nest.n}
  /\ nest.exit = "body" => \A N \in nest.cmps : N >= nest.n

\* loop_split.cc:15-19, for loops that count by one: the new loops run the body
\* for the source's values of i, each once and in order, across every split
\* point, and stop where the source does, in whichever loop that is.
SplitKeepsUnitSteps ==
  nest.pass = "loop_split" /\ nest.step = 1 /\ OwnBound =>
    /\ \A k \in DOMAIN out : out[k] = k - 1
    /\ Len(out) <= nest.n
    /\ pc = "exit" => Len(out) = nest.n

\* loop_split.cc:156-181: the header's instructions are run once for every value of
\* the counter, as in the source, and once more at every point the loop was split
\* at, where one of the new loops ends and the next begins.
HeadsRepeatAtSplits ==
  /\ \A k \in 1 .. Len(heads) - 1 :
       \/ heads[k + 1] = heads[k] + 1
       \/ heads[k + 1] = heads[k] /\ \E r \in 2 .. Len(code) : code[r].start = heads[k]
  /\ pc = "exit" /\ nest.pass = "loop_split" /\ i = code[Len(code)].end =>
       Len(heads) = i + Len(code)

Earlier(p, q) == p[1] < q[1] \/ (p[1] = q[1] /\ p[2] < q[2])

\* loop_flatten.cc:143-168, "i = k/M and j = k%M" (line 18): whatever bounds the pass
\* has found, the flattened loop goes through pairs of them in the order of a nest,
\* none twice and none outside; and it gets to the last one, and so through all, exactly
\* when their product is a value of the counter's type.
FlatPairsInOrder ==
  LET N == found[1]
      M == found[2]
  IN  nest.pass = "loop_flatten" =>
        /\ \A k \in 1 .. Len(pairs) - 1 : Earlier(pairs[k], pairs[k + 1])
        /\ \A k \in DOMAIN pairs : pairs[k] \in (0 .. N - 1) \X (0 .. M - 1)
        /\ pc \in {"exit", "returned"} => (Len(pairs) = N * M <=> N * M < Half)

\* Whatever was transformed and is valid ends, products that wrap included.
Terminates == pc \in {"header", "body", "latch"} ~> pc \in {"exit", "returned"}

-----------------------------------------------------------------------------
(* What the comments of the two passes say, and they do not keep.          *)

\* What the source's body is run for.
SourceSteps == {x \in 0 .. nest.n - 1 : x % nest.step = 0}

SameBodies == {out[k] : k \in DOMAIN out} = SourceSteps

\* The source runs the header's code for every iteration and, when the loop is left
\* there, for the test that fails; a header that is the body, too, is in out.
SameHeads ==
  Len(heads) + (IF OneBlock(nest.shape) THEN Len(out) ELSE 0)
    = Cardinality(SourceSteps) + (IF nest.exit = "header" THEN 1 ELSE 0)

\* loop_split.cc:15-18, "multiple sequential loops that together perform the same
\* iterations", "Only transforms simple constant-bounded loops to ensure
\* correctness": the result is a valid function, and where it goes on behind the
\* loops, body and header have been run as in the source.
SameIterations ==
  nest.pass = "loop_split" =>
    /\ pc # "broken"
    /\ pc = "exit" => SameBodies /\ SameHeads

\* The pairs of counters for which both loops of the source go on.
SourcePairs ==
  {p \in (0 .. nest.n - 1) \X (0 .. nest.m - 1) : p[1] % nest.step = 0 /\ p[2] % nest.stepJ = 0}

\* loop_flatten.cc:15-19, "For outer loop i from 0 to N and inner loop j from 0 to M,
\* creates a single loop k from 0 to N*M where i = k/M and j = k%M", "to ensure
\* correctness": the result is a valid function whose one loop goes through the pairs
\* of the two and runs the blocks of the inner loop's body for each.
SameNest ==
  nest.pass = "loop_flatten" =>
    /\ pc # "broken"
    /\ pc \in {"exit", "returned"} =>
         /\ {pairs[k] : k \in DOMAIN pairs} = SourcePairs
         /\ nest.shape.innerBlocks # {} => Len(out) = Cardinality(SourcePairs)
=============================================================================
