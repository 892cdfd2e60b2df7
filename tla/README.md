# A verification development of the diversification passes

The repository is a set of LLVM passes that make every build of a program
different (register, block, function, stack and instruction order; split
functions and loops; altered constants) and one that protects return addresses
with a shadow stack. The passes are small and sequential, but two things about
them are hard to test: what several edits of one list or several passes in a row
add up to for *every* random choice, and what the code they emit does at run
time, in every order of calls, returns, threads and unwinding. That is what is
modelled here.

## 1. Inventory

All passes are functions `bool <name>_pass(Module &M, std::mt19937_64 &gen)` in
`src/passes/<name>.cc`. `src/gen.zig` wraps each in a plugin that seeds a
`std::mt19937_64` from `std::random_device` at every run and turns the returned flag into `PreservedAnalyses::none()` or
`::all()`; `src/build.zig` compiles the C file to IR, runs the plugins with
`opt` (in the order of `-passes`, which defaults to the order of the directory
listing), and links. Passes interact only through the module they rewrite and,
for the shadow stack, through what a later pass does to the code it inserted.

| component | state | operations | what is hard | what makes it correct |
|---|---|---|---|---|
| shadow stack (`shadow_stack.cc`) | two process-wide globals, `@shadow_stack[1024]` and `@shadow_sp`; one SSA register per running prologue or epilogue | push in the prologue, pop and compare in the epilogue, `abort` | nested calls of instrumented and other functions, changed addresses, threads on the same globals, frames left without a return, more frames than entries | the array mirrors the process stack; only changed addresses abort; a checked function returns to its caller; every epilogue ends |
| instruction reordering (`inst_reorder.cc`) | a block, the vector of pairs to decide on | collect pairs, swap a pair or not | the pairs are tested before, and applied while, the block changes; overlapping pairs | the block stays a permutation, uses stay behind definitions, accesses that may meet keep their order |
| function order (`func_rand.cc`) | the module's function list | splice one function behind another | splicing inside the list the vector came from | nothing lost; declarations keep their order |
| block order (`bbrand.cc`) | a function's block list | `moveAfter` | the entry block is whatever is first | the entry stays first |
| stack-slot order (`stack_reorder.cc`) | the allocas an entry block starts with | `moveBefore` | the insertion point is itself moved; other passes insert between allocas | only allocas of the leading run move, within it |
| stack padding (`stackpad_rand.cc`) | entry block | insert one alloca and a volatile store | where it lands relative to what other passes expect | allocas of the program are unchanged |
| function splitting (`func_splitter.cc`) | the blocks of a function in layout order, a `std::set` of extracted ones | split a block, move the rest to a new function, call it | layout order is not dominance; the set is ordered by address; the shadow-stack epilogue is moved, too | control flow of the two halves is that of the one |
| loop splitting, flattening (`loop_split.cc`, `loop_flatten.cc`) | a loop or nest of two: blocks, PHIs, values and where they are used | clone with new bounds; one counter for two loops; delete the old blocks | the bound is that of the first compare of the counter; steps other than one; products that wrap; PHIs and values that clones or code behind the loop still refer to; the header's code, which runs at every split point again | the same iterations in the same order; nothing refers to a deleted block |
| instruction substitution (`inst_sub.cc`) | a block, the list of instructions to visit | replace `+`, `-`, `*` by an equal expression | the list is collected first: operands may be replacements, or constants that the builder folds, by the time of the visit; wrap-around | the block is valid and does what it did |
| garbage instructions (`garbage_insert.cc`) | a block, insertion points with base values | insert two instructions that compute the base value again | points and values are collected first; division by a truncated 2 on `i1` | no visible effect |
| constant altering (`constant_altering.cc`) | a block, the operands to visit | a constant becomes a mask and a masked constant in a slot | immediates must stay; one replacement takes all equal operands; constants wider than 64 bits | the same value in the same place |
| plugin generator, build (`gen.zig`, `build.zig`) | list of passes | generate, compile, run | order of the passes | the order asked for is the order run |
| exercise passes (`Mul2ToShl1.cpp`, `count_additions.cc`, `count_calls.cc`) | a block, instructions to erase; a counter's slot and one global format string | `x * 2` to `x << 1`; count and print additions or calls | the passes rewrite and count each other's instrumentation; both counters share the global | the block does what it did; what is printed is what was executed |
| tests, demo, ROP example | - | - | - | inputs of the pipeline |

`PROJECT.json` lists the same components with the modules that model them, and
every hazard of the code at its line.

## 2. Modules

    CallStack ------+--> CallGuard            the promise of the shadow stack
    (the program)   |        ^ refinement
                    +--> ShadowStack          the emitted code
                             ^ MCShadowStack, ShadowStackProofs

    IRList -----+--> InstReorder              inst_reorder.cc
    (LLVM lists)|        ^ MCInstReorder, InstReorderProofs
                +--> Layout                   func_rand, bbrand, stack_reorder,
                         |                    stackpad_rand, shadow_stack prologue
                         ^ MCLayout, LayoutProofs

    CFGWalk                                   a function's control flow
       ^ refinement
    FuncSplitter                              func_splitter.cc
       ^ MCFuncSplitter, FuncSplitterProofs
    ShadowStack --> SplitShadow               func_splitter after shadow_stack
                         ^ MCSplitShadow

    LoopShape                                 what refers to a loop's blocks
       ^
    LoopPasses                                loop_split.cc, loop_flatten.cc
       ^ MCLoopPasses, LoopPassesProofs

    Words --------> Rewrites                  inst_sub, garbage_insert,
    (integers)          ^ MCRewrites,         constant_altering, exercise
                          RewritesProofs <-- BehaviourProofs <-- CountProofs

**CallStack** is the instrumented program as far as the pass can tell: functions
by name, `isDeclaration()` and whether they have a `ret`; per thread a stack of
frames with the return address the call pushed (`orig`) and the one the frame
holds now (`ra`). `Prologued` and `Epilogued` are the early returns of
`shadow_stack_pass`: declarations and `abort` are skipped, a function without
a `ret` gets a prologue only.

**ShadowStack** gives every load and store the pass emits a step of its own, so
that threads interleave as the emitted code lets them: `LoadSp`,
`StoreRetaddr`, `StoreSpNext` are the prologue (lines 101-119), `LoadSpCur`,
`StoreSpDec`, `CompareRa` the epilogue with its trap block (134-185),
`CheckedReturn` the `shadow.ret` block; `BranchToEpilogue` is the branch each
`ret` was replaced by (187-200). A GEP outside the array is undefined behaviour,
after which nothing is promised (`status = "undefined"`); `abort()` stops the
process (`status = "aborted"`). Program steps are `Call`, `Overwrite` (the
program changes the return address of any live checked frame), `PlainReturn` of
an uninstrumented function, and `Unwind` (longjmp, exception: control returns to
a deeper frame, `shadow_sp` is untouched).

**CallGuard** is the abstract specification: no shadow stack at all, a checked
function returns only if its address is the original one, and the process aborts
only at a return whose address was changed. It is taken from README.md line 52,
"If they do not agree, the process is aborted, otherwise, the program continues as
normal". That line says nothing of frames that are left without a return (`Abandon`):
from then on (`left`) a check may go either way, and the process may come to `Harm`. In
the refinement `left` is `unwinds > 0`.

**InstReorder** is one block through the pass: `Collect` builds
`reorderablePairs` with the code's `canReorder`, then `Swap(i)` or `Keep(i)` for
each pair in order (`dis(gen)` is the choice), `Finish`. `order` is the block as a
permutation of its original positions. `Depends` says, independently of
`canReorder`, when two instructions may not change places: the later uses the
earlier, or they may meet in memory and one writes.

**Layout** is one list through a sequence of passes. `Skip`, `Shuffle`, then one
`Place...` per element moved, as the loops of the three passes do it, `EndShuffle`;
`Pad` and `InsertPrologue` insert. A job is a list and the passes run on it; `changed`
is the flag the current pass will return, `rets` whether the module has a `ret` at all
(without one `shadow_stack` inserts prologues and reports nothing). An element is an
id and a kind; which kinds a pass works on is `Sort`, and what a pass inserts has ids
no element of the source has (negative ones).
`IRList` has what `moveBefore`, `moveAfter` and `splice` do to an ilist.

**FuncSplitter** is a module of functions, each a sequence of blocks with
successors, operands and PHIs, named by their place in the layout. The pass:
`NoSplitBlock` (a function without a block to split at) or `Split(f, s, entry)`,
which rewrites `body` as lines 66-182 do: `extractBlocks` is the end of the layout,
`liveIns` the operands from outside, `Remainder` the function with the call in
`PredBB`, `Extracted` the new function. The set of extracted blocks is ordered by
address, so which becomes the entry is a choice of `Split`. Then the module runs:
`CallSplit`, `Branch`, `Return` on up to two frames, provided that `Accepted`, the
verifier's checks of the control flow, holds. What the verifier has let *into* the
pass is `SourceFunction`: in particular a value is used only where its definition
dominates the use. Dominance is stated without paths: `Dominates` asks for a set of
blocks that is closed under branching (`Closed`) around the definition and does not
have the use in it. **CFGWalk** is the abstract
specification: control flow in the source function. The refinement maps the frame
on top to the place in the source its code comes from.

**SplitShadow** composes the two: `shadow_stack` appends its epilogue at the end of
the layout, `func_splitter` extracts the end of the layout, so `CallSplit` enters a
function without prologue whose frame has another return address, and
`BranchToOwnEpilogue` pops and compares there.

**LoopPasses** is a counted loop, or a nest of two, through one of the two passes:
`LoopSplit` and `LoopFlatten` put counted loops with unit steps in its place
(`code`), whose blocks are `Header`, `NextLoop`, `SplitBody` or `FlatBody`, `Latch`
and `Exit`; `out` records the counters the body blocks are run with, `heads` those the
header's own instructions are run with, `pairs` those of both loops the inner header's
are run with in a flattened nest. A source loop has its trip counts `n` and `m`,
the bounds its counters are compared with (`cmps` and `cmpsJ`, any of which the pass may
take for the loop's own; `found` has those it took), the steps of both, the width of the
inner counter, the block the loop is left in and a shape. Constants are
truncated to the counter's width (`Wrap`, words are `-Half .. Half - 1`). A nest with
several exit edges ends in `"returned"` (`flat.exit` returns from the function then), a
result that refers to deleted blocks is `"broken"` and does not run. **LoopShape** decides that: a shape names
the blocks, per block the values its PHIs and instructions define and its code uses,
and what is used behind the loop; `SplitSound` and `FlatSound` follow the `VMap` of
the passes to see which uses are left hanging.

**Words** has LLVM's integer operations on `w`-bit words, undefined cases apart. `Pow2` and
the bitwise operations (`Bitwise`, bit by bit from the lowest) are recursive functions.
**Rewrites** is one block through any sequence of six passes. `Collect`, `PickPoints`
and `InsertCounter` are the scans that come before the first change: they leave
the list of visits `todo`. Then comes one action per visit: `Substitute` (inst_sub),
`InsertGarbage`, `AlterConstant`, `ToShl`, `CountOne`, or `PassBy`. `EraseOne` erases one
of the instructions that Mul2ToShl1 has put off erasing (`toErase`), and `EndPass`
returns. The two counting passes make a global of the same name for texts of different
lengths: the second one to come ends in `TextClash`, and nothing runs behind it. The sources are blocks that have passed LLVM's verifier: `Verified` is its rules
on uses, PHIs and terminators, `Typed` those on types (`Gives`: which value may be an
operand of which instruction; a constant fits its word). `Create` is the `IRBuilder`,
which folds operations on constants. `Run` executes a block, given what calls, PHIs and
loads from memory outside of the block yield (`Inputs`): a state has the values, the
memory, the trace of calls, prints, branches and returns with their operands, what the
counters report, and whether anything undefined has been executed. The slot of an
`alloca` is at an address that no integer of the program is, so nothing from
outside points to it. The properties compare what source and block do on all inputs.

Definitions marked "(Slip: ...)" are plausible mistakes in the same code. No
specification uses them: each is put in place of the definition after it, and the
property that PROJECT.json names must then fail.

### What is abstracted

* The value a function returns (the PHI of the shadow-return block) is not
  tracked, nor are arguments and locals.
* A changed return address is one of the other sites or one further value `Junk`.
  Only frames the pass checks are changed (`Overwritable`): an unchecked return
  through a changed address leaves what the pass promises.
* The program's loads and stores do not reach `@shadow_stack` itself.
* `Mem2Reg`-like effects of later optimisation on the emitted code are not
  modelled; the two globals are accessed in program order (the IR's).
* Instructions are a kind, operands within the block, a pointer and a volatile
  flag. Landing pads are left out.
* `FuncSplitter`: a block defines one value and its operands are values of blocks or
  the arguments; types and attributes are left out. In its runs every block can be
  reached. (A block of dead code with the lowest address passes the verifier as the
  new function's entry, and the function then does something else.) Which way a
  branch goes is any of its successors; `KeepsEveryBranch` says that none is lost.
* `LoopPasses`: iterations are recorded by the counters the code runs with. At
  `-O0`, which `build.zig` compiles with, counters live in memory and the loop passes
  find no PHI; they apply to IR from elsewhere, as README.md's example of a Zig
  program. Uses by PHIs of header and latch, which are never cloned, are not part of
  a shape; headers that branch between two blocks of the body are left out, for the
  order of `LoopInfo`'s blocks decides what becomes of them (`loop_split.cc` 175). After
  `loop_flatten` the bodies' blocks are gone (only the inner header is cloned,
  184-198): `FlatPairsInOrder` is about the counters the inner header runs with. The two
  counters of a nest may differ in width (`halfJ`), and then every use of the inner one
  in the inner header counts as invalid (`FlatTyped`). Counters have eight bits at least,
  so that a bound the passes take is a value of their type.
* `Rewrites`: one straight-line block (the passes look at one at a time). A pointer is
  the slot of an `alloca` or any other value, memory holds a word per address, and a load
  from where the block has stored nothing yields the input's word. A `gep` yields an address
  of its own, its arithmetic left out. A machine word (`uint64_t`, the counters) has
  `Word` bits, so that narrower and wider types are both small. The random
  64-bit numbers are from a small set. The declaration of `printf` and inline
  assembly are left out, and so is the stack that the slots take which
  `constant_altering` puts into loops.
* The number of bytes `stackpad_rand` chooses.

## 3. Runs

| run | configuration | shows |
|---|---|---|
| `shadow_stack` | 1 thread, functions of all four sorts (returning, never returning, declared, `abort`), 2 call sites, depth 3, 3 entries, 2 unwindings | until the first unwinding `MirrorsStack`, `NoFalseAbort`, `ReturnsToCaller`; throughout, the code implements `CallGuard`, `StaleOnlyGrows` (slots are lost by unwinding only and never come back), `AbortsExplained` (every stop is a changed address or a lost slot); `EpilogueDecides` under `FairSpec` |
| `shadow_threads` | 2 threads, one function each, no overwrites needed | **violation** of `NoFalseAbort` |
| `inst_reorder` | all blocks of four over an alphabet with every kind, aliasing and non-aliasing pointers, operand uses | permutation, `ChainsReversed`, `WallsNeverCrossed`, `SafeWithoutOverlap`, `ModifiedExact` |
| `inst_reorder_swaps` | blocks of three accesses, two of them volatile | **violation** of `OrderPreserved` |
| `layout` | lists of up to five elements; entry blocks under the three stack passes in all six orders, in modules with and without a `ret` | `PlacedInFront`, `EntryStaysFirst`, `AllocasStayLeading`, `ReportedChanges` |
| `rewrites` | blocks of up to eight instructions in words of 1, 2 and 4 bits, all pairs of six passes | `ValidBlock`, `SameBehaviour` and `StaysDefined` after every single rewriting, `ReportsCount`, `ReportedChanges` |
| `rewrites_widths` | arithmetic on one bit under `garbage_insert`, with a negative constant wider than a word under `inst_sub` and `constant_altering` | **violation** of `SameProgram` |
| `func_splitter` | all functions of up to 3 reachable blocks with one use of a value and one PHI, all splittable ones of 4 without PHI, modules of two functions with every reason not to split | `RunsLikeOriginal` (implements `CFGWalk`), `KeepsEveryBranch`, `OperandsAvailable`; `AcceptedExactly`: when the result is a valid module |
| `split_shadow` | 1 thread, one function, depth 3 | **violation** of `NoFalseAbort` |
| `loops` | 8-bit counters; loops of 0-14, 100 and 101 iterations, left in header, body or latch, with compares of their own and others; nests of up to 6 by 6 and at the limits, with other bounds, steps and widths; one shape for each sort of reference | `SplitKeepsUnitSteps`, `HeadsRepeatAtSplits`, `FlatPairsInOrder`, `Terminates` |
| `loop_split` | loops that count by two, that compare their counter twice, of one block | **violation** of `SameIterations` |
| `loop_flatten` | nests whose inner loop counts by two or compares its counter twice, products that wrap | **violation** of `SameNest` |

### Bounds

* `MaxDepth` (call nesting) 3 is the least at which a pushed entry lies under
  another that lies under a third, with an unpushed frame (library, `abort`)
  anywhere in between; `SS_SIZE` equals it, so that the array is used to its last
  entry and, with slots lost by unwinding, beyond it. The properties are proved for
  all values (section 5) but for `EpilogueDecides`.
* `MaxUnwinds` 2: the second unwinding happens on a stack that already has lost
  slots.
* Two threads at depth 1 suffice for the violation.
* Blocks of four hold two pairs that overlap, two that do not, and chains of
  three swaps. All properties of that run are proved for every length.
* `rewrites`: with `Word` 3, two-bit constants fit a machine word, four-bit ones are
  wider and one-bit ones have no 2. All operands of each width are run, so the
  identities are tried on every wrap-around; the program's own divisions are undefined
  for some of them, and one block loads and stores through a pointer from outside. Two passes in a row are the least in
  which one pass meets what another has left; the list of visits and the folding
  of constants are what one pass does to itself, on blocks with two operations. One
  random mask (5, with bits set and clear at either end) and one garbage constant
  (7, all bits) stand for all, and a run of `garbage_insert` inserts at most once
  (`MaxGarbage`), at each point and from each value: insertions do not see each
  other, except that the second goes behind the first.
* Lists of five elements have an entry (or a terminator) and up to four elements to
  shuffle, so that the element moved is at the insertion point, next to it and
  beyond it. Negative identifiers are the instructions inserted by passes.

* Functions of four blocks are the least with a split function that branches or
  loops behind a prologue that branches; three blocks suffice for every reason to
  reject.
* Loops: 14 covers every remainder of N by 2 and 3 several times, 100 and 101 are the
  two sides of the passes' limit. 11 by 12 is the first product behind 127, the
  largest signed 8-bit value; 100 by 100 wraps to 16, 127 by 1 is refused by the
  limit. The shapes are one block each for header, body and latch, or one block for
  all, with one reference of every sort that the passes do not ask about. The properties
  of this run are proved for all sizes but `Terminates`.
* The violating runs have instances that differ from what the passes expect in one
  thing each, and whose results are valid functions, so that what TLC finds is code
  that runs and does something else than the source. It stops at the first, which is
  the one of the finding; the others of the run's instances violate the property, too
  (with only one of them in the configuration TLC finds that one).

### Fairness and deadlock

`EpilogueDecides` assumes weak fairness of the emitted code of each thread
(`FairSpec`). The code is straight-line with no waiting, so a thread that the
operating system schedules gets through it; nothing is assumed of the program,
which may stop calling or never return. `Terminates` assumes that a loop which runs
goes on running (`WF_vars(Loops)`), nothing of the pass. Deadlock is checked in every run:
`Stopped`, `Done`, `Finished`, `Rejected` and `Exited` are the states in which a process or pass has
ended, `LeaveAlone` is the loop that the dice leave as it is (or every thread is in a function that has no `ret`).

## 4. Findings

* **Threads** (`shadow_threads`): both globals are shared and not thread-local.
  One thread's push lands between another's load and store of `@shadow_sp`, and
  a function whose return address was never touched aborts.
* **Chains** (`inst_reorder_swaps`): pairs are tested on the original block.
  Swapping (1,2) and then (2,3) carries instruction 3 before instruction 1, which
  it may use and with which it was never compared. In the run the load gets in front of
  the store it reads from.
* **Volatile** (`inst_reorder_swaps`): `canReorder` accepts two volatile
  accesses as soon as their addresses are known to differ. In the same trace two
  volatile stores have changed places.
* **Split after shadow stack** (`split_shadow`): the epilogue moves to the new
  function, whose return address is never the one the prologue pushed. Every call
  of a function so split aborts.
* **Split loops** (`loop_split`), against "together perform the same iterations"
  (`loop_split.cc` 15-16): the new loops advance by one whatever the source's step is, and
  the header's code runs once more per split point.
* **Flattened nests** (`loop_flatten`), against "a single loop k from 0 to N*M where
  i = k/M and j = k%M", "to ensure correctness" (`loop_flatten.cc` 17-19): the blocks of
  the bodies are collected, never cloned and deleted, and the steps of the two loops play
  no role.
* **Garbage in one bit** (`rewrites_widths`): 2 is 0 on `i1`, so the second pattern inserts
  an undefined division, where the comment at line 10 has instructions "that dont change
  program".

The model has more deviations of the code from what it says, which have no run of
their own, for they come behind another violation of the same property or end the run of
the model:

* the bound of a loop is that of the first compare among its counter's users, which may be
  another than the loop's test (`loop_split.cc` 83, `loop_flatten.cc` 112), and the code of
  a loop of one block is run twice per iteration; `SameIterations` and `SameNest` fail for
  such loops of `MCSplits` and `MCFlattened`. So does `SameNest` where the product of the
  bounds wraps in the counter's type (`loop_flatten.cc` 143, 162);
* the loop passes leave references to deleted blocks, against "only transforms simple
  constant-bounded loops to ensure correctness" (`loop_split.cc` 17-18, `loop_flatten.cc`
  18-19), where the loop has an accumulator, a value used behind it, a PHI or a switch in
  its body, and in a nest where the inner header uses more than the counters or the
  inner counter has another width. Such a result ends in `pc = "broken"`, which
  `SameIterations` and `SameNest` rule out; no passing property says that it is right;
* a negative constant wider than 64 bits comes back from `constant_altering` without its
  upper ones (`lost`; `SameProgram` fails for those of `MCOddWidths`);
* the index of the shadow stack is never compared with `SS_SIZE`; the 1025th nested call
  stores beyond the array (`status = "undefined"`), with nobody having touched anything;
* the comment at `stackpad_rand.cc` 29-30 wants the padding behind the existing allocas;
  it goes in front of them (35), and its store ends the run of allocas that
  `stack_reorder` collects, which then does nothing;
* `src/exercise/count_calls/readme.md` line 2 has the count incremented "each time a
  function call is made"; the code passes calls of `printf` by, the program's own, too
  (`count_calls.cc` 52).

Some properties hold under a condition that a finding above shows to be needed:
`SplitKeepsUnitSteps` speaks of loops that count by one and whose own bound is taken
(`OwnBound`), `SameBehaviour` and `StaysDefined` not of the constants that are
`lost` nor, like `ReportsCount`, of blocks with a division of one bit inserted, the
properties of the shadow stack of one thread with no more nesting than entries, those that
are about its content up to the first unwinding only. Three more lines:

* `ReportedChanges` holds but for `shadow_stack` in a module without a `ret`, which
  inserts prologues and returns false.
* A block under both counting passes does not get through: `getOrInsertGlobal` gives the
  second pass the first one's global, whose type does not fit its text. `ReportsCount`
  therefore speaks of one text.
* `ReportsCount` is about programs that do not call `printf` themselves (`PrintsItself`).

## 5. Proofs

TLAPS checks these for every value of the constants that satisfies the named
assumptions (`CallStackAssumption`, `ShadowStackAssumption`,
`InstReorderAssumption`, `LayoutAssumption`, `SplitterAssumption`, `LoopAssumption`,
`RewritesAssumption`; TLC evaluates them in the runs). `LayoutAssumption` says that a list has no element
twice, one entry block, and only the kinds of element its passes work on;
`SplitterAssumption` and `RewritesAssumption` that the source passed LLVM's verifier.

| theorem | statement |
|---|---|
| `TypeCorrect` (ShadowStackProofs) | `Spec => []TypeOK`, any threads, any unwinding |
| `SerialMirrors`, `SerialNoFalseAbort`, `SerialReturnsToCaller` | `Serial`: `Spec => []MirrorsStack`, `[]NoFalseAbort`, `[]ReturnsToCaller` |
| `SerialImplementsCallGuard` | `Serial`: `Spec => ImplementsCallGuard`, any number of unwindings |
| `UnwoundAbortsExplained` | `Serial`: `Spec => []AbortsExplained`, any number of unwindings |
| `LostForGood` | `OneThread`: `Spec => StaleOnlyGrows`, an action property |
| `BlockIsPermuted`, `SwapsReverseChains`, `WallsHold`, `LoneSwapsAreSafe`, `ModifiedIsExact` | `Spec => []...` for blocks of every length |
| `TypeCorrect` (LayoutProofs), `MovedInOrder`, `EntryKept`, `AllocasKept`, `ChangesReported` | `Spec => []TypeOK`, `[]PlacedInFront`, `[]EntryStaysFirst`, `[]AllocasStayLeading`, and the action property `ReportedChanges`, for lists of every length and all sequences of passes |
| `TypeCorrect` (FuncSplitterProofs) | `Spec => []TypeOK` for every module |
| `AcceptanceExact`, `BranchesKept`, `OperandsThere` | `AllReached`: `Spec => []AcceptedExactly`, `[]KeepsEveryBranch`, `[]OperandsAvailable`, for functions of every size |
| `SplitImplementsWalk` | `AllReached`: `Spec => RunsLikeOriginal`, the refinement |
| `TypeCorrect` (LoopPassesProofs), `UnitStepsKept`, `HeadsRepeatedExactly` | `Spec => []...` for loops of every length and counters of eight bits and more |
| `PairsVisitedInOrder` | `Spec => []FlatPairsInOrder` for all bounds found, wrapping products included |
| `BlocksStayValid`, `ReportedTruly` | `Spec => []ValidBlock`, `[]ReportedChanges` for blocks of every length and words of every width, all sequences of the six passes and all random choices |
| `AlwaysTyped`, `BehaviourKept`, `DefinednessKept` (BehaviourProofs) | `Spec => []TypeOK`, `[]SameBehaviour`, `[]StaysDefined`, under the same conditions and for all results of calls and all memory |
| `CountsReported` (CountProofs) | `Spec => []ReportsCount`, under the same conditions (programs that do not call `printf` themselves, by the property) |
| `SubstitutionsAgree`, `MaskCancels`, `DoubleIsShift` | for every width and all operands: what `inst_sub` writes equals what it replaces, what `constant_altering` masks comes back, `x * 2` is `x << 1` |

**Shadow stack.** `Serial` is one thread and no more nesting than entries: by
`shadow_threads` and by the overflow both are needed. Up to the first unwinding
the inductive invariant is `IInv`. `NoFalseAbort` alone is not inductive: that the
compare finds the right entry depends on what the prologue stored, possibly many
calls ago. `MirrorsStack` carries it: entry number `SlotOf(s, i)` (the count of
pushed frames under frame `i`) holds that frame's original address. A push
disturbs no live entry because the count is strictly monotone in the frame
(`SlotsOrdered`), a call or pop leaves the counts of the frames below alone
(`CallFacts`, `PopFacts`, `PrefixFacts`), and an overwrite changes `ra`, never
`orig` (`OverwriteFacts`). `PushesOriginal` says that no store of the program can
come between the call and the prologue's store; with `Coherent` it makes the
pushed value the caller's. `InBounds` follows from `MaxDepth <= SS_SIZE` with
`PushesBounded`. The refinement maps `frames` and `status` to themselves and `left` to
`unwinds > 0`; each step of the instrumentation but the last is a stutter, and the
compare's abort is a rightful one because of `MirrorsStack`, as long as nothing was left behind.

**Unwinding.** `IInv` breaks at the first `Unwind`, for the index no longer counts the
frames. What is left is `UnwindInv`: types, `Coherent`, the register of the running
sequence is the index it loaded (`RegisterFollows`), the number of lost slots
`Stale(t)` (index minus `LogicalSp`) is never negative, it is 0 until something is unwound,
and while it is 0 all of `IInv` still holds (`Undisturbed`: before the first unwinding it
does). So a stop without a changed address needs a lost slot. The array's end
needs one, too: `MaxDepth <= SS_SIZE` leaves room for every live frame.

**Layout.** All moves of the three passes come to the same: the element placed
next is somewhere behind its place, and what lies between moves up by one (`MovedIs`,
`MovedTo`, `MovedKeepsOrder`). The inductive invariant `LayoutInv` says where that place
is: behind the elements moved so far, and `prev` points at it (`PrevInv`; in
`func_rand` and `bbrand` it is the element in front, in `stack_reorder` the one behind,
which is read off the list after each move). `PlacedInFront` and `AllocasStayLeading`
are parts of it; neither is inductive without `PrevInv` and the vector's link to the
list found (`VectorInv`). That a block has a longest run of leading allocas
(`RunExists`) is the well-foundedness of the naturals.

**Splitting.** `SplitInv` has three parts. `ModuleInv` says what the module is, in terms
of the source's blocks: unchanged, or cut in two at `cut`. `FramesInv` says that the
new function runs only on top of a frame that waits at `PredBB`. With these alone
(`BaseInv`) the acceptance theorem is a statement about one state: if the verifier
takes the module, no branch leads across the cut but that of `PredBB`, for a branch
across it would leave its function (`AcceptedFits`; `Fit` is the condition); and every
entry block but the function's own has a predecessor (`HasPred`), which for the new
entry can only be `PredBB`, so it is `SplitBB`. The
converse is `FitAccepted`. `BranchesKept` and `SplitImplementsWalk` follow step by step:
the call leads where the branch went. For the operands, `ComeRound` says of a frame:
what it has neither computed nor been handed, control can have come round, that is, a
closed set around it has the current block in it. A use in a place that
control reaches without the definition would contradict `Dominates`. The arguments of
the call (`ArgumentsKnown`) need one more step: what dominates a use behind the cut, and
is not behind it, dominates `PredBB`, since every way there leads through it.

`AllReached` (no dead block) is needed: the clones are ordered by address, and a
dead block that comes first makes a function that LLVM's verifier takes and that does
something else. `TypeCorrect` does without it.

**Reordering.** The inductive invariant is `ChainInv`: types, the pairs decided so
far lie to the left of all pending ones (`LeftToRight`), and `ChainsReversed`.
Pairs are swapped in block order, so swapping `i` extends the chain that ends at `i`
by `i + 1`: moving that instruction to where instruction `i` now is (the front of the
reversed chain) is what reverses the longer chain. The other four properties are
consequences of `ChainsReversed` and of what `canReorder` tests: a wall is in no
pair, hence a chain of its own; chains of two are single tested swaps.

**Loops.** The inductive invariant is `LoopInv`: the new loops adjoin (`Adjoin`: each
ends where the next begins, the first at 0), `i` is inside the current one
(`Inside`), `heads`, `out` and `pairs` are as long as `i` and `at` say (`HeadsRun`,
`BodiesRun`, `PairsRun`), and a loop left in its body has not got past that iteration (`LeftInTime`). The
properties speak of the end only, or of neighbours in `out`; none is inductive
without the link between `i` and the lengths. That quotient and remainder run
through the pairs in order is `PairsInOrder` and `PairsInRange`, for whichever bounds the
pass has found; and `WrappedProduct` that a product which is no word of the counter
becomes a smaller bound, so that the loop ends before the last pair. Which references
are left to deleted blocks (`LoopShape`) is a matter of one state and no theorem.

**Rewriting.** What makes `BlocksStayValid` hard is that every pass decides first and
changes later: by the time of a visit, earlier visits have inserted, replaced and
erased. `IInv` says what can be relied on then. `Good` is the block (distinct names,
uses behind definitions, PHIs in front, one terminator, immediates kept). `VisitsFit` says of
each visit to come that its instruction is still there, is one the pass may visit,
and that the base value or counter is computed in front of it; outside of
`constant_altering` no instruction is visited twice, or inst_sub would look for one it has
erased. `ErasedFit` says of ToErase that its multiplications are in the block, unused, listed
once and not to be visited again. `ValidBlock` alone is not inductive without these. The
edits of all passes are four, each with a lemma that it keeps `Good` and every `Fits`:
code inserted in front of an instruction that is no PHI (`InsertGood`), operands changed
(`RewireGood`), a value replaced by an earlier one (`ReplaceGood`), an unused instruction
erased (`RemoveGood`). `CreateMade` follows the `IRBuilder`: what it inserts uses what is
available and what it returns is available, a folded constant included. That the scan's
list (`FlattenSeq`) names every instruction once is the well-foundedness of the naturals.
`ReportedTruly` rests on `HonestInv`: the passes that change the block with every visit have
said so before the first.

**Words.** `a - (0 - b)`, `0 - ((0 - a) + (0 - b))` and their like are truncated
at every step. Each expression differs from the operation by a multiple of the
modulus, and `TruncUnique` says that there is one word that does. For the bitwise
operations, a word is its lowest bit and twice the rest: what holds of the bits, holds of
words of every width by induction on the width. That a word masked twice is
the word again and that truncation goes through a mask (`MaskCancels`) are of this kind.

**Induction.** The provers cannot instantiate the library's induction rules, but the
naturals are well-founded (`Least`: a non-empty set of them has a least element),
and with that an induction is a proof about the least counterexample. So `Pow2`, `Bitwise`, the
runs of a block (`Ran`, a recursive function over its instructions) and lists put
together from lists can be reasoned about, for they are functions on `Nat`.

**Types.** `TInv` is what `IInv` leaves open: `WellTyped` (an operand is a constant of
the word, or an earlier instruction that gives what is asked for) and `Aimed` (the visits to
come name an operand, a base value or a counter that is there and of its type; the
counters' visits are in block order and no load of a counter comes behind the place
where it is next counted, which `CountOne` relies on). `IInv /\ TInv` is
inductive, `AlwaysTyped` follows.

**Behaviour.** Every rewriting of an instruction is of one form, `Edited`: it gives way to
some code, which may end in the instruction itself or be empty, and what used its value
uses another. `Simulates` says that if the code
leaves behind what the instruction leaves behind (`Rel`: the values later instructions use,
memory but for one slot that is not read again, the trace, the reports) the rest of the block
cannot tell the difference. So one step per action remains, about the emitted code alone, and the
word lemmas settle it: `SubstituteTracks`, `InsertGarbageTracks`,
`AlterConstantTracks` and so on, each
`Tracks(block', U)`, where `U` says whether the step adds the one undefined division. The
invariant is `SInv`: source and block have the same trace, and the block is undefined just where
the source is or a division by the truncated 2 of one bit is in it. It ranges over all
natural numbers as inputs, which include `Inputs`. That it excepts `lost` only, and
`SameBehaviour` the division, too, shows that the division by 0 changes nothing
but that it is undefined: its result is not used.

**Counting.** That a counter reports what was executed is not settled when it is
reported: later passes rewrite the additions it consists of, alter its constants, and
count the counter's own additions. Nor does `Simulates` settle it, for `SameBehaviour`
excepts `lost`, and `ReportsCount` does not: a constant that comes back wrong must not
reach a counter. The invariant `CInv` has two parts. `Paid`: what the block reports is
what is due so far; and while a counting pass is visiting, its counter stands at some
`c` in front of the next visit (`Counts`), where `expected` is `c` and the visits left,
without that of the `ret`. That the text is that of every pass that has counted (`Told`,
in `Paid`) rests on the clash of the two texts: the other pass does not get as far as
counting. `Sliced`: there are values `C`, the slots `S` of the counters among them, that
are computed from constants and one another only, and nothing else is stored to the
slots (`Clean`). With it, two runs that agree on `C` and `S` (`Agree`) report the same,
whatever code outside of the slice computes (`ForeignRun`); and the constants inside of
the slice are of `Word` bits, which `constant_altering` never loses. That the list of
visits is as long as the additions or calls are many is `InOrderCount`.

The inductive invariants that TLC can evaluate (both `IInv`, `HonestInv`, `TInv`, `UnwindInv`,
`ChainInv`, `LayoutInv`, `SplitInv`, `LoopInv`) were checked with it on the instances of the runs
before or beside the proof; `SInv` and `CInv` range over all inputs.

Only model-checked: `EpilogueDecides` and `Terminates`. Liveness under fairness is out
of the prover's reach. All other properties of the passing runs are theorems; the
violations are TLC's.

## 6. Not modelled, and the plan

Done: ShadowStack with CallGuard, InstReorder, Layout, FuncSplitter with CFGWalk,
SplitShadow, LoopPasses with LoopShape, Rewrites, the theorems above. Nothing of the plan
is left but what the list below says.

Not modelled:

* landing pads (`inst_reorder.cc` 63-81 has no case for them; the pipeline compiles C,
  which makes none);
* dead blocks in `FuncSplitter`, headers with a branch of their own in `LoopPasses`: there
  the order of addresses or of `LoopInfo`'s blocks decides;
* inline assembly and stack use in loops under `constant_altering`;
* file generation and tool invocation of `gen.zig` and `build.zig` (I/O; the order of
  passes and the meaning of their flag are used), the number of pad bytes;
* the test, demo and ROP programs, which are inputs.
