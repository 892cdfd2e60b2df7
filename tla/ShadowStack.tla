----------------------------- MODULE ShadowStack -----------------------------
(***************************************************************************)
(* The code passes/shadow_stack.cc puts into every function, running.      *)
(*                                                                         *)
(* The shadow stack is one array and one index for the whole process       *)
(* (two internal globals, neither thread_local nor atomic).  Every load    *)
(* and store of them is a step of its own, so the steps of two threads     *)
(* interleave as the emitted code lets them.  The program itself (CallStack)*)
(* calls, overwrites return addresses, reaches its return, or leaves       *)
(* frames without returning from them (longjmp, an exception).             *)
(***************************************************************************)
EXTENDS CallStack

CONSTANTS
  SS_SIZE,      \* entries of @shadow_stack (1024 in the source)
  MaxUnwinds,   \* bound: how often the program unwinds past frames
  Zero          \* the contents zeroinitializer gives a slot

ASSUME ShadowStackAssumption ==
  /\ SS_SIZE \in Nat \ {0}
  /\ MaxUnwinds \in Nat
  /\ Zero \notin RetAddrs

VARIABLES
  shadow_stack,  \* the global array
  shadow_sp,     \* the global index of the next free entry
  frames,        \* frames[t]: the process stack of thread t
  pc,            \* pc[t]: where thread t is in the function on top of its stack
  sp,            \* sp[t]: %shadow.sp or %shadow.sp.dec, a register of thread t
  status,        \* "running", "aborted", or "undefined" after an out-of-bounds GEP
  unwinds        \* how often the program has unwound

vars == <<shadow_stack, shadow_sp, frames, pc, sp, status, unwinds>>

Slots == 0 .. SS_SIZE - 1

ProloguePCs == {"loadSp", "storeRetaddr", "storeSpNext"}
EpiloguePCs == {"loadSpCur", "storeSpDec", "compare", "ret"}
PCs == {"idle", "body"} \cup ProloguePCs \cup EpiloguePCs

TypeOK ==
  /\ shadow_stack \in [Slots -> RetAddrs \cup {Zero}]
  /\ shadow_sp \in Int
  /\ frames \in [Threads -> Seq(Frame)]
  /\ pc \in [Threads -> PCs]
  /\ sp \in [Threads -> Int]
  /\ status \in {"running", "aborted", "undefined"}
  /\ unwinds \in 0 .. MaxUnwinds

Init ==
  /\ shadow_stack = [i \in Slots |-> Zero]
  /\ shadow_sp = 0
  /\ frames = [t \in Threads |-> <<>>]
  /\ pc = [t \in Threads |-> "idle"]
  /\ sp = [t \in Threads |-> 0]
  /\ status = "running"
  /\ unwinds = 0

Goto(t, to) == pc' = [pc EXCEPT ![t] = to]

Undefined ==
  /\ status' = "undefined"
  /\ UNCHANGED <<shadow_stack, shadow_sp, frames, pc, sp, unwinds>>

-----------------------------------------------------------------------------
(* Steps of the program.                                                   *)

Call(t, f, a) ==
  /\ pc[t] \in {"idle", "body"}
  /\ Len(frames[t]) < MaxDepth
  /\ frames' = [frames EXCEPT ![t] = CallOf(@, f, a)]
  /\ Goto(t, IF Prologued(f) THEN "loadSp" ELSE "body")
  /\ UNCHANGED <<shadow_stack, shadow_sp, sp, status, unwinds>>

Overwrite(t, i, a) ==
  /\ pc[t] = "body"
  /\ i \in Overwritable(frames[t])
  /\ frames' = [frames EXCEPT ![t] = OverwriteOf(@, i, a)]
  /\ UNCHANGED <<shadow_stack, shadow_sp, pc, sp, status, unwinds>>

\* longjmp or an exception: control returns to frame k, no epilogue in
\* between runs, and shadow_sp is nobody's concern.
Unwind(t, k) ==
  /\ pc[t] = "body"
  /\ unwinds < MaxUnwinds
  /\ k \in 1 .. Len(frames[t]) - 1
  /\ frames' = [frames EXCEPT ![t] = SubSeq(@, 1, k)]
  /\ unwinds' = unwinds + 1
  /\ UNCHANGED <<shadow_stack, shadow_sp, pc, sp, status>>

\* Back in the caller, which was in its body; below the last frame is the
\* runtime that started the thread.
Return(t) ==
  /\ frames' = [frames EXCEPT ![t] = Pop(@)]
  /\ Goto(t, IF Len(frames[t]) = 1 THEN "idle" ELSE "body")
  /\ UNCHANGED <<shadow_stack, shadow_sp, sp, status, unwinds>>

\* (Slip: only some of the rets are collected, the others return unchecked.)
MissedRet(t) ==
  /\ pc[t] = "body"
  /\ Top(frames[t]).fn.rets
  /\ Return(t)

PlainReturn(t) ==
  /\ pc[t] = "body"
  /\ ~Prologued(Top(frames[t]).fn)
  /\ Top(frames[t]).fn.rets
  /\ Return(t)

-----------------------------------------------------------------------------
(* Steps of the instrumentation.  Prologue: push the return address.       *)

LoadSp(t) ==
  /\ pc[t] = "loadSp"
  /\ sp' = [sp EXCEPT ![t] = shadow_sp]
  /\ Goto(t, "storeRetaddr")
  /\ UNCHANGED <<shadow_stack, shadow_sp, frames, status, unwinds>>

\* (Slip: the store's operands mixed up, the index is what gets pushed.)
StoreIndex(t) ==
  /\ pc[t] = "storeRetaddr"
  /\ shadow_stack' = [shadow_stack EXCEPT ![sp[t]] = sp[t]]
  /\ Goto(t, "storeSpNext")
  /\ UNCHANGED <<shadow_sp, frames, sp, status, unwinds>>

StoreRetaddr(t) ==
  /\ pc[t] = "storeRetaddr"
  /\ IF sp[t] \in Slots
       THEN /\ shadow_stack' = [shadow_stack EXCEPT ![sp[t]] = Top(frames[t]).ra]
            /\ Goto(t, "storeSpNext")
            /\ UNCHANGED <<shadow_sp, frames, sp, status, unwinds>>
       ELSE Undefined

\* (Slip: the prologue stores the index back without the increment.)
StoreSpUnchanged(t) ==
  /\ pc[t] = "storeSpNext"
  /\ shadow_sp' = sp[t]
  /\ Goto(t, "body")
  /\ UNCHANGED <<shadow_stack, frames, sp, status, unwinds>>

StoreSpNext(t) ==
  /\ pc[t] = "storeSpNext"
  /\ shadow_sp' = sp[t] + 1
  /\ Goto(t, "body")
  /\ UNCHANGED <<shadow_stack, frames, sp, status, unwinds>>

(* Every ret of the function became a branch to the epilogue: pop, compare.*)

BranchToEpilogue(t) ==
  /\ pc[t] = "body"
  /\ Epilogued(Top(frames[t]).fn)
  /\ Goto(t, "loadSpCur")
  /\ UNCHANGED <<shadow_stack, shadow_sp, frames, sp, status, unwinds>>

\* (Slip: the epilogue reads the next free entry instead of the last one.)
LoadSpUndecremented(t) ==
  /\ pc[t] = "loadSpCur"
  /\ sp' = [sp EXCEPT ![t] = shadow_sp]
  /\ Goto(t, "storeSpDec")
  /\ UNCHANGED <<shadow_stack, shadow_sp, frames, status, unwinds>>

LoadSpCur(t) ==
  /\ pc[t] = "loadSpCur"
  /\ sp' = [sp EXCEPT ![t] = shadow_sp - 1]
  /\ Goto(t, "storeSpDec")
  /\ UNCHANGED <<shadow_stack, shadow_sp, frames, status, unwinds>>

StoreSpDec(t) ==
  /\ pc[t] = "storeSpDec"
  /\ shadow_sp' = sp[t]
  /\ Goto(t, "compare")
  /\ UNCHANGED <<shadow_stack, frames, sp, status, unwinds>>

\* (Slip: an unconditional branch to shadow.ret.)
NoCompare(t) ==
  /\ pc[t] = "compare"
  /\ Goto(t, "ret")
  /\ UNCHANGED <<shadow_stack, shadow_sp, frames, sp, status, unwinds>>

\* (Slip: the trap block branches back to the compare instead of aborting.)
CompareAgain(t) ==
  /\ pc[t] = "compare"
  /\ sp[t] \in Slots
  /\ Goto(t, IF shadow_stack[sp[t]] = Top(frames[t]).ra THEN "ret" ELSE "compare")
  /\ UNCHANGED <<shadow_stack, shadow_sp, frames, sp, status, unwinds>>

\* The trap block calls abort(), which ends the process.
CompareRa(t) ==
  /\ pc[t] = "compare"
  /\ IF sp[t] \in Slots
       THEN IF shadow_stack[sp[t]] = Top(frames[t]).ra
              THEN /\ Goto(t, "ret")
                   /\ UNCHANGED <<shadow_stack, shadow_sp, frames, sp, status, unwinds>>
              ELSE /\ status' = "aborted"
                   /\ UNCHANGED <<shadow_stack, shadow_sp, frames, pc, sp, unwinds>>
       ELSE Undefined

CheckedReturn(t) ==
  /\ pc[t] = "ret"
  /\ Return(t)

-----------------------------------------------------------------------------

Instrumentation(t) ==
  \/ LoadSp(t)
  \/ StoreRetaddr(t)
  \/ StoreSpNext(t)
  \/ LoadSpCur(t)
  \/ StoreSpDec(t)
  \/ CompareRa(t)
  \/ CheckedReturn(t)

Program(t) ==
  \/ \E f \in Functions, a \in Sites : Call(t, f, a)
  \/ \E i \in 1 .. MaxDepth, a \in RetAddrs : Overwrite(t, i, a)
  \/ \E k \in 1 .. MaxDepth : Unwind(t, k)
  \/ PlainReturn(t)
  \/ BranchToEpilogue(t)

Step(t) == status = "running" /\ (Program(t) \/ Instrumentation(t))

\* Nothing is left to step after abort() or undefined behaviour, and nothing
\* steps while every thread is inside a function that does not return.
Stopped ==
  /\ \/ status # "running"
     \/ \A t \in Threads : pc[t] = "body" /\ ~Top(frames[t]).fn.rets
  /\ UNCHANGED vars

Next == (\E t \in Threads : Step(t)) \/ Stopped

Spec == Init /\ [][Next]_vars

\* The instrumentation is straight-line code: a scheduled thread gets through it.
FairSpec == Spec /\ \A t \in Threads : WF_vars(status = "running" /\ Instrumentation(t))

-----------------------------------------------------------------------------
(* Properties.                                                             *)

OneThread == \E t \in Threads : Threads = {t}

\* The executions the pass is right for: one thread, no more nested calls than
\* there are slots; and right until the program unwinds.
Serial == OneThread /\ MaxDepth <= SS_SIZE

\* The slot the frame i of s pushes to when nothing was ever left behind.
SlotOf(s, i) == Cardinality(PushedBelow(s, i))

\* What the index counts for thread t: its pushed frames, without the top one
\* while its prologue has not stored the index or once its epilogue has.
LogicalSp(t) ==
  Pushes(frames[t]) - (IF pc[t] \in ProloguePCs \cup {"compare", "ret"} THEN 1 ELSE 0)

\* The index counts exactly the frames that have pushed and not yet popped, the
\* register in flight is theirs, and the slot of each of them still holds the
\* address its caller pushed.
Mirror ==
  \A t \in Threads :
    /\ shadow_sp = LogicalSp(t)
    /\ pc[t] \in {"storeRetaddr", "storeSpNext", "storeSpDec", "compare"}
         => sp[t] = Pushes(frames[t]) - 1
    /\ \A i \in Pushed(frames[t]) :
         \/ i = Len(frames[t]) /\ pc[t] \in {"loadSp", "storeRetaddr"}
         \/ shadow_stack[SlotOf(frames[t], i)] = frames[t][i].orig

RightfulAbort ==
  status = "aborted" =>
    \E t \in Threads : pc[t] = "compare" /\ Altered(Top(frames[t]))

RightfulReturn ==
  \A t \in Threads : pc[t] = "ret" => ~Altered(Top(frames[t]))

\* The shadow stack mirrors the process stack (shadow_stack_pass lines 99-172),
\* however deep the calls went, as long as every frame was left by its return.
MirrorsStack == unwinds = 0 => Mirror

\* README.md:52, "If they do not agree, the process is aborted, otherwise, the
\* program continues as normal": an abort of a program that has not unwound means
\* some thread is at the compare of a function whose return address was changed.
NoFalseAbort == unwinds = 0 => RightfulAbort

\* A function that got past the compare returns to the address its caller pushed,
\* unless the program has unwound before.
ReturnsToCaller == unwinds = 0 => RightfulReturn

\* The emitted code implements the promise: with the shadow stack hidden, every
\* step is a call, a return, an overwrite or a rightful abort, or is invisible; and
\* after the first unwinding, when the promise about addresses is off, still no
\* step but these.
Guard == INSTANCE CallGuard WITH left <- unwinds > 0
ImplementsCallGuard == Guard!GuardSpec

\* An epilogue that was entered ends: the function returns or the process stops,
\* and outside the array it stops only for slots that unwinding has left behind.
EpilogueDecides ==
  \A t \in Threads :
    pc[t] \in EpiloguePCs ~>
      \/ pc[t] \in {"idle", "body"}
      \/ status = "aborted"
      \/ status = "undefined" /\ unwinds > 0

\* The strengthening that makes the three invariants inductive while no slot is
\* lost.  No entry beyond the array's is used ...
InBounds == status # "undefined"

\* ... a thread runs the code of the function on top of its stack ...
CoherentAt(s, at) ==
  /\ at = "idle" <=> s = <<>>
  /\ at \in ProloguePCs => Prologued(Top(s).fn)
  /\ at \in EpiloguePCs => Epilogued(Top(s).fn)

Coherent == \A t \in Threads : CoherentAt(frames[t], pc[t])

\* ... nothing can have changed a return address the prologue has yet to push.
PushesOriginal ==
  \A t \in Threads :
    /\ Len(frames[t]) <= MaxDepth
    /\ pc[t] \in {"loadSp", "storeRetaddr"} => ~Altered(Top(frames[t]))

IInv == /\ TypeOK /\ Coherent /\ PushesOriginal /\ InBounds
        /\ Mirror /\ RightfulAbort /\ RightfulReturn

\* Slots no live frame will pop: what unwinding left behind.
Stale(t) == shadow_sp - LogicalSp(t)

\* The register a prologue or an epilogue works with comes from the index, or is
\* about to become it.
RegisterFollows ==
  \A t \in Threads :
    /\ pc[t] \in {"storeRetaddr", "storeSpNext", "compare"} => sp[t] = shadow_sp
    /\ pc[t] = "storeSpDec" => sp[t] = shadow_sp - 1

\* What is left of IInv when the program unwinds: slots are never owed, none is lost
\* before, and until the first is lost nothing has happened at all.
UnwindInv ==
  /\ TypeOK /\ Coherent /\ RegisterFollows
  /\ \A t \in Threads :
       /\ Stale(t) \in Nat
       /\ unwinds = 0 => Stale(t) = 0
       /\ Stale(t) = 0 => IInv

\* Slots are lost by unwinding alone, and nothing ever gives them back: neither
\* the epilogues that still run nor later calls.
StaleOnlyGrows ==
  [][\A t \in Threads : Stale(t)' = Stale(t) \/ (Stale(t)' > Stale(t) /\ unwinds' > unwinds)]_vars

\* After unwinding, an abort is a changed address or a stale slot, nothing else,
\* and undefined behaviour needs stale slots as well.
AbortsExplained ==
  status # "running" =>
    \E t \in Threads : Stale(t) > 0 \/ (status = "aborted" /\ Altered(Top(frames[t])))
=============================================================================
