----------------------------- MODULE InstReorder -----------------------------
(***************************************************************************)
(* passes/inst_reorder.cc on one basic block.  The pass first collects the *)
(* adjacent pairs of the block that may trade places, then decides pair by *)
(* pair, in block order, whether to swap.  The pairs are not looked at     *)
(* again while the block changes under them.  Blocks do not influence one  *)
(* another.                                                                *)
(***************************************************************************)
EXTENDS IRList, FiniteSets

CONSTANTS
  Allocas, Globals,  \* pointer values whose object is known
  Others,            \* pointer values that may point anywhere
  NoPtr,             \* getPointer's nullptr
  Blocks             \* the basic blocks considered, sequences of Instruction

Pointers == Allocas \cup Globals \cup Others

\* The operand classes of the LLVM instructions the pass tells apart; "fence"
\* is every other access to memory, "op" everything that touches no memory.
Kinds == {"alloca", "phi", "call", "terminator", "load", "store", "fence", "op"}

\* uses: the positions, in the same block, of the instructions it has as operands.
Instruction == [kind : Kinds, uses : SUBSET (Nat \ {0}), ptr : Pointers \cup {NoPtr},
                volatile : BOOLEAN]

ASSUME InstReorderAssumption ==
  /\ Blocks \subseteq Seq(Instruction)
  /\ NoPtr \notin Pointers
  /\ Allocas \cap Globals = {} /\ Allocas \cap Others = {} /\ Globals \cap Others = {}

VARIABLES
  block,     \* the block as the pass found it
  order,     \* order[k]: the instruction (by its first position) now at position k
  pc,        \* "collect", "decide" or "done"
  pending,   \* reorderablePairs still to decide on: i stands for the pair <<i, i + 1>>
  chosen,    \* the pairs swapped so far
  modified   \* what the pass returns

vars == <<block, order, pc, pending, chosen, modified>>

-----------------------------------------------------------------------------
(* canReorder and the functions it calls.                                  *)

dependsOn(b, i, j) == i \in b[j].uses

getPointer(I) == IF I.kind \in {"load", "store"} THEN I.ptr ELSE NoPtr

\* (Slip: the check for one and the same pointer forgotten.)
bothKnownMemory(p, q) ==
  /\ p # NoPtr /\ q # NoPtr
  /\ {p, q} \subseteq Allocas \cup Globals

definitelyDifferentMemory(p, q) ==
  /\ p # NoPtr /\ q # NoPtr
  /\ p # q
  /\ {p, q} \subseteq Allocas \cup Globals

\* LLVM counts a volatile load as writing, too.
mayWriteToMemory(I) == I.kind \in {"store", "fence", "call"} \/ (I.kind = "load" /\ I.volatile)

Walls == {"alloca", "terminator", "call", "phi"}

\* (Slip: only the first instruction of the pair is looked at.)
canReorderFirst(b, i, j) ==
  /\ b[i].kind \notin Walls
  /\ ~dependsOn(b, i, j) /\ ~dependsOn(b, j, i)
  /\ \/ ~mayWriteToMemory(b[i]) /\ ~mayWriteToMemory(b[j])
     \/ definitelyDifferentMemory(getPointer(b[i]), getPointer(b[j]))

\* Whether either reads decides nothing: lines 95 and 100 both need no writes.
canReorder(b, i, j) ==
  /\ b[i].kind \notin Walls /\ b[j].kind \notin Walls
  /\ ~dependsOn(b, i, j) /\ ~dependsOn(b, j, i)
  /\ \/ ~mayWriteToMemory(b[i]) /\ ~mayWriteToMemory(b[j])
     \/ definitelyDifferentMemory(getPointer(b[i]), getPointer(b[j]))

\* The adjacent pairs of a block that pass.
reorderablePairs(b) == {i \in 1 .. Len(b) - 1 : canReorder(b, i, i + 1)}

-----------------------------------------------------------------------------

Init ==
  /\ block \in Blocks
  /\ order = [k \in 1 .. Len(block) |-> k]
  /\ pc = "collect"
  /\ pending = {}
  /\ chosen = {}
  /\ modified = FALSE

Collect ==
  /\ pc = "collect"
  /\ pending' = reorderablePairs(block)
  /\ pc' = "decide"
  /\ UNCHANGED <<block, order, chosen, modified>>

First(i) == i \in pending /\ \A j \in pending : i <= j

\* (Slips: the first moved after the second, a copy instead of a move, and a
\* modified that is never set.)
SwapAfter(i) ==
  /\ pc = "decide"
  /\ First(i)
  /\ order' = MoveAfter(order, i, i + 1)
  /\ chosen' = chosen \cup {i}
  /\ modified' = TRUE
  /\ pending' = pending \ {i}
  /\ UNCHANGED <<block, pc>>

SwapCopies(i) ==
  /\ pc = "decide"
  /\ First(i)
  /\ order' = [order EXCEPT ![IndexOf(order, i)] = i + 1]
  /\ chosen' = chosen \cup {i}
  /\ modified' = TRUE
  /\ pending' = pending \ {i}
  /\ UNCHANGED <<block, pc>>

SwapUnreported(i) ==
  /\ pc = "decide"
  /\ First(i)
  /\ order' = MoveBefore(order, i + 1, i)
  /\ chosen' = chosen \cup {i}
  /\ pending' = pending \ {i}
  /\ UNCHANGED <<block, pc, modified>>

\* dis(gen) == 0
Swap(i) ==
  /\ pc = "decide"
  /\ First(i)
  /\ order' = MoveBefore(order, i + 1, i)
  /\ chosen' = chosen \cup {i}
  /\ modified' = TRUE
  /\ pending' = pending \ {i}
  /\ UNCHANGED <<block, pc>>

\* dis(gen) == 1
Keep(i) ==
  /\ pc = "decide"
  /\ First(i)
  /\ pending' = pending \ {i}
  /\ UNCHANGED <<block, order, pc, chosen, modified>>

Finish ==
  /\ pc = "decide"
  /\ pending = {}
  /\ pc' = "done"
  /\ UNCHANGED <<block, order, pending, chosen, modified>>

Done == pc = "done" /\ UNCHANGED vars

Next ==
  \/ Collect
  \/ \E i \in pending : Swap(i) \/ Keep(i)
  \/ Finish
  \/ Done

Spec == Init /\ [][Next]_vars

-----------------------------------------------------------------------------
(* What the order of a block means, independently of canReorder.           *)

\* The objects an access may touch: those of its pointer, or any at all.
Touches(I) ==
  IF I.kind \in {"load", "store", "fence", "call"}
    THEN IF getPointer(I) \in Allocas \cup Globals THEN {I.ptr} ELSE Pointers
    ELSE {}

Writes(I) == I.kind \in {"store", "fence", "call"}

\* j, the later one, reads what i computed, or they may meet in memory.
Depends(b, i, j) ==
  \/ i \in b[j].uses
  \/ (Writes(b[i]) \/ Writes(b[j])) /\ Touches(b[i]) \cap Touches(b[j]) # {}

-----------------------------------------------------------------------------
(* Properties.                                                             *)

N == Len(block)

\* A permutation at every moment: no instruction is lost or doubled.
TypeOK ==
  /\ block \in Blocks
  /\ order \in [1 .. N -> 1 .. N]
  /\ \A k, m \in 1 .. N : order[k] = order[m] => k = m
  /\ pc \in {"collect", "decide", "done"}
  /\ pending \subseteq reorderablePairs(block)
  /\ chosen \subseteq reorderablePairs(block) \ pending
  /\ modified \in BOOLEAN

\* l .. h is a maximal run of positions whose neighbours were all swapped.
Chain(l, h) ==
  /\ l \in 1 .. N /\ h \in l .. N
  /\ l .. h - 1 \subseteq chosen
  /\ l - 1 \notin chosen /\ h \notin chosen

\* What the swaps of line 139-145 add up to, overlapping or not: every maximal
\* run of swapped neighbours comes out reversed, the rest stays in place.
ChainsReversed ==
  \A l, h \in 1 .. N : Chain(l, h) => \A k \in l .. h : order[k] = l + h - k

\* Allocas, PHIs, calls and the terminator keep their places, and nothing
\* passes them in either direction (lines 63-81).
WallsNeverCrossed ==
  \A w \in 1 .. N : block[w].kind \in Walls =>
    /\ order[w] = w
    /\ \A k \in 1 .. N : k < w => order[k] < w

\* canReorder is right about one swap: while no instruction takes part in two,
\* what depends on an earlier instruction still comes after it.
KeepsOrder ==
  \A k, m \in 1 .. N :
    k < m /\ order[m] < order[k] => ~Depends(block, order[m], order[k])

SafeWithoutOverlap ==
  (\A i \in chosen : i + 1 \notin chosen) => KeepsOrder

\* The flag gen.zig turns into PreservedAnalyses (gen.zig:51-53) is exact.
ModifiedExact == modified <=> \E k \in 1 .. N : order[k] # k

\* The order of volatile accesses is part of the program's behaviour.
KeepsVolatileOrder ==
  \A k, m \in 1 .. N :
    k < m /\ block[order[k]].volatile /\ block[order[m]].volatile => order[k] < order[m]

\* inst_reorder.cc:10-12, "Instructions that dont depend on each other swapped
\* changing the code layout without affecting program".
OrderPreserved == pc = "done" => KeepsOrder /\ KeepsVolatileOrder
=============================================================================
