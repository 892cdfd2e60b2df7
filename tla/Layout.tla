------------------------------- MODULE Layout --------------------------------
(***************************************************************************)
(* The passes that only move things: passes/func_rand.cc on a module's     *)
(* list of functions, passes/bbrand.cc on a function's list of blocks,     *)
(* passes/stack_reorder.cc on the instructions of an entry block, where    *)
(* passes/stackpad_rand.cc and the prologue of passes/shadow_stack.cc are  *)
(* inserted, too.  Lists of different functions do not influence one       *)
(* another, so one list is followed through the passes opt runs on it, in  *)
(* the order of -passes.                                                   *)
(***************************************************************************)
EXTENDS IRList, FiniteSets, Functions

CONSTANTS
  Jobs,   \* the [list, passes, rets] considered: a list, the passes run on it, in order,
          \* and whether some function of the module has a ret
  None    \* no element

Passes == {"func_rand", "bbrand", "stack_reorder", "stackpad_rand", "shadow_stack"}

\* The elements of the list a pass works on.
Sort(p) ==
  CASE p = "func_rand" -> {"defined", "declared"}
    [] p = "bbrand" -> {"entry", "block"}
    [] OTHER -> {"alloca", "inst"}

ElementKinds == UNION {Sort(p) : p \in Passes}

Element == [id : Int, kind : ElementKinds]

\* The elements of the source have ids from 0 on; it has one entry block.
ASSUME LayoutAssumption ==
  /\ None \notin Element
  /\ \A job \in Jobs :
       /\ job.list \in Seq(Element) /\ job.list # <<>> /\ IsInjective(job.list)
       /\ \A i \in DOMAIN job.list : job.list[i].id >= 0 /\ (job.list[i].kind = "entry" => i = 1)
       /\ job.passes \in Seq(Passes)
       /\ \A k \in DOMAIN job.passes, i \in DOMAIN job.list :
            job.list[i].kind \in Sort(job.passes[k])
       /\ job.rets \in BOOLEAN

VARIABLES
  list,      \* the list, an ilist of LLVM
  passes,    \* the passes still to run, the current one first
  rets,      \* some function has a ret
  pc,        \* "start" of the current pass, or "place" in the loop of its moves
  todo,      \* what is left of the shuffled vector
  prev,      \* Prev of func_rand and bbrand, insertPoint of stack_reorder
  found,     \* the list as the current pass found it
  moved,     \* the shuffled vector, as far as it has been moved
  changed    \* what the last pass returned

vars == <<list, passes, rets, pc, todo, prev, found, moved, changed>>

Pass == Head(passes)
Running(p) == passes # <<>> /\ Pass = p

\* The length of the run of allocas an entry block starts with.
LeadingAllocas(s) ==
  CHOOSE n \in 0 .. Len(s) :
    /\ \A i \in 1 .. n : s[i].kind = "alloca"
    /\ n < Len(s) => s[n + 1].kind # "alloca"

\* (Slips: bbrand without the test for the entry block, stack_reorder without
\* the break.)
CollectedWithEntry(s) ==
  CASE Pass = "func_rand" -> {s[i] : i \in {j \in DOMAIN s : s[j].kind = "defined"}}
    [] Pass = "bbrand" -> {s[i] : i \in 1 .. Len(s)}
    [] Pass = "stack_reorder" -> {s[i] : i \in 1 .. LeadingAllocas(s)}

CollectedAnywhere(s) ==
  CASE Pass = "func_rand" -> {s[i] : i \in {j \in DOMAIN s : s[j].kind = "defined"}}
    [] Pass = "bbrand" -> {s[i] : i \in 2 .. Len(s)}
    [] Pass = "stack_reorder" -> {s[i] : i \in {j \in DOMAIN s : s[j].kind = "alloca"}}

\* What the current pass collects from s into the vector it shuffles.
Collected(s) ==
  CASE Pass = "func_rand" -> {s[i] : i \in {j \in DOMAIN s : s[j].kind = "defined"}}
    [] Pass = "bbrand" -> {s[i] : i \in 2 .. Len(s)}
    [] Pass = "stack_reorder" -> {s[i] : i \in 1 .. LeadingAllocas(s)}

Shuffling == {"func_rand", "bbrand", "stack_reorder"}

\* The place of a new instruction in the entry block: the first alloca, or the
\* first insertion point (an entry block has no PHIs).
FirstAlloca(s) ==
  IF \E i \in DOMAIN s : s[i].kind = "alloca"
    THEN CHOOSE i \in DOMAIN s : s[i].kind = "alloca" /\ \A j \in 1 .. i - 1 : s[j].kind # "alloca"
    ELSE 1

Inserted(s, i, new) == SubSeq(s, 1, i - 1) \o new \o SubSeq(s, i, Len(s))

\* An instruction that is not in s: those inserted have negative ids.
New(s, k, kind) == [id |-> -(Len(s) + k), kind |-> kind]

\* %rand_pad and the volatile store to it; the six instructions of the prologue.
Padding(s) == <<New(s, 1, "alloca"), New(s, 2, "inst")>>
Prologue(s) == <<New(s, 1, "inst")>>

-----------------------------------------------------------------------------

Init ==
  /\ \E job \in Jobs : list = job.list /\ passes = job.passes /\ rets = job.rets
  /\ pc = "start"
  /\ todo = <<>>
  /\ prev = None
  /\ found = list
  /\ moved = <<>>
  /\ changed = FALSE

EndPass ==
  /\ UNCHANGED rets
  /\ passes' = Tail(passes)
  /\ pc' = "start"
  /\ found' = list'
  /\ moved' = <<>>
  /\ todo' = <<>>
  /\ prev' = None

\* Fewer than two to shuffle: nothing to do.
Skip ==
  /\ pc = "start" /\ passes # <<>> /\ Pass \in Shuffling
  /\ Cardinality(Collected(list)) <= 1
  /\ UNCHANGED list
  /\ changed' = FALSE
  /\ EndPass

\* std::shuffle; any order can come out of it.
Shuffle ==
  /\ pc = "start" /\ passes # <<>> /\ Pass \in Shuffling
  /\ Cardinality(Collected(list)) > 1
  /\ todo' \in Bijection(1 .. Cardinality(Collected(list)), Collected(list))
  /\ prev' = IF Pass = "func_rand" THEN None ELSE list[1]
  /\ pc' = "place"
  /\ UNCHANGED <<list, passes, rets, found, moved, changed>>

Next1 == Head(todo)

Advance ==
  /\ todo' = Tail(todo)
  /\ moved' = Append(moved, Next1)
  /\ UNCHANGED <<passes, rets, pc, found, changed>>

\* (Slip: Prev is never set.)
PlaceInFront ==
  /\ Running("func_rand") /\ pc = "place" /\ todo # <<>>
  /\ list' = MoveBefore(list, Next1, list[1])
  /\ prev' = prev
  /\ Advance

PlaceFunction ==
  /\ Running("func_rand") /\ pc = "place" /\ todo # <<>>
  /\ list' = IF prev = None THEN MoveBefore(list, Next1, list[1]) ELSE MoveAfter(list, Next1, prev)
  /\ prev' = Next1
  /\ Advance

\* (Slip: the block is linked in without being taken out.)
PlaceBlockTwice ==
  /\ Running("bbrand") /\ pc = "place" /\ todo # <<>>
  /\ list' = [list EXCEPT ![IndexOf(list, prev) + 1] = Next1]
  /\ prev' = Next1
  /\ Advance

PlaceBlock ==
  /\ Running("bbrand") /\ pc = "place" /\ todo # <<>>
  /\ list' = MoveAfter(list, Next1, prev)
  /\ prev' = Next1
  /\ Advance

\* insertPoint moves on to the instruction after the alloca just placed.
PlaceAlloca ==
  /\ Running("stack_reorder") /\ pc = "place" /\ todo # <<>>
  /\ list' = MoveBefore(list, Next1, prev)
  /\ LET i == IndexOf(list', Next1) IN prev' = IF i < Len(list) THEN list'[i + 1] ELSE None
  /\ Advance

\* (Slip: the flag is never set.)
EndShuffleUnreported ==
  /\ pc = "place" /\ todo = <<>>
  /\ UNCHANGED list
  /\ changed' = FALSE
  /\ EndPass

EndShuffle ==
  /\ pc = "place" /\ todo = <<>>
  /\ UNCHANGED list
  /\ changed' = TRUE
  /\ EndPass

Pad ==
  /\ Running("stackpad_rand")
  /\ list' = Inserted(list, FirstAlloca(list), Padding(list))
  /\ changed' = TRUE
  /\ EndPass

\* The flag is set behind the early exit for functions without a ret (line 131).
InsertPrologue ==
  /\ Running("shadow_stack")
  /\ list' = Inserted(list, 1, Prologue(list))
  /\ changed' = rets
  /\ EndPass

Finished == passes = <<>> /\ UNCHANGED vars

Next ==
  \/ Skip \/ Shuffle
  \/ PlaceFunction \/ PlaceBlock \/ PlaceAlloca
  \/ EndShuffle
  \/ Pad \/ InsertPrologue
  \/ Finished

Spec == Init /\ [][Next]_vars

-----------------------------------------------------------------------------
(* Properties.                                                             *)

Elements(s) == {s[i] : i \in DOMAIN s}
Before(s, x, y) == IndexOf(s, x) < IndexOf(s, y)

TypeOK ==
  /\ list \in Seq(Element) /\ list # <<>> /\ IsInjective(list)
  /\ Elements(list) = Elements(found)
  /\ pc \in {"start", "place"}
  /\ IsInjective(todo) /\ IsInjective(moved) /\ Elements(todo) \cap Elements(moved) = {}
  /\ Elements(todo) \cup Elements(moved) \subseteq Elements(list)
  /\ prev \in Elements(list) \cup {None}
  /\ changed \in BOOLEAN /\ rets \in BOOLEAN

\* Where the shuffled elements start: after the entry block, or in front.
Anchor == IF Running("bbrand") THEN 1 ELSE 0

\* In the midst of its moves as at their end, a pass has the elements moved so
\* far in their shuffled order, without a gap, in front of everything else it
\* may move; all the rest is in the order the pass found it in.
PlacedInFront ==
  pc = "place" =>
    /\ \A k \in DOMAIN moved : list[Anchor + k] = moved[k]
    /\ \A x, y \in Elements(list) \ Elements(moved) : Before(found, x, y) => Before(list, x, y)

\* LLVM takes the first block as the entry, whatever is in it (bbrand.cc:42-47).
EntryStaysFirst ==
  \A i \in DOMAIN list : list[i].kind = "entry" => i = 1

\* stack_reorder moves no instruction to another side of an alloca that is not
\* in the leading run, nor an alloca out of it (stack_reorder.cc:38-44).
AllocasStayLeading ==
  Running("stack_reorder") =>
    /\ LeadingAllocas(list) = LeadingAllocas(found)
    /\ \A i \in LeadingAllocas(found) + 1 .. Len(list) : list[i] = found[i]

\* The inductive invariant of the first four.  What holds of any list, the one
\* found as well as the one at hand, ...
ListInv(s) ==
  /\ s \in Seq(Element) /\ s # <<>> /\ IsInjective(s)
  /\ \A i \in DOMAIN s : s[i].id >= -Len(s) /\ (s[i].kind = "entry" => i = 1)
  /\ \A k \in DOMAIN passes, i \in DOMAIN s : s[i].kind \in Sort(passes[k])

\* ... what holds of the vector, and of the place the next element goes to: behind
\* those moved, which is where prev points.
VectorInv ==
  /\ todo \in Seq(Element) /\ moved \in Seq(Element)
  /\ IsInjective(todo) /\ IsInjective(moved) /\ Elements(todo) \cap Elements(moved) = {}
  /\ Elements(todo) \cup Elements(moved) = Collected(found)

PrevInv ==
  LET n == Len(moved) IN
  prev = CASE Pass = "func_rand" -> IF n = 0 THEN None ELSE list[n]
           [] Pass = "bbrand" -> list[n + 1]
           [] OTHER -> IF n < Len(list) THEN list[n + 1] ELSE None

LayoutInv ==
  /\ passes \in Seq(Passes) /\ changed \in BOOLEAN /\ rets \in BOOLEAN
  /\ ListInv(list) /\ ListInv(found)
  /\ Len(list) = Len(found) /\ Elements(list) = Elements(found)
  /\ \/ pc = "start" /\ list = found /\ todo = <<>> /\ moved = <<>> /\ prev = None
     \/ /\ pc = "place" /\ passes # <<>> /\ Pass \in Shuffling
        /\ VectorInv /\ PrevInv /\ PlacedInFront /\ AllocasStayLeading
        /\ Pass = "bbrand" => list[1] = found[1]

\* gen.zig:43-62: a pass that returns false, for which all analyses are said to be
\* preserved, has left the list as it found it, whatever came before; all but
\* shadow_stack, which says so of its prologues in a module without a ret.
ReportedChanges ==
  [][passes' # passes /\ ~changed' =>
       list' = found \/ (Running("shadow_stack") /\ ~rets)]_vars
=============================================================================
