----------------------------- MODULE SplitShadow -----------------------------
(***************************************************************************)
(* passes/func_splitter.cc after passes/shadow_stack.cc.  The shadow-stack *)
(* pass appends its epilogue, return and trap blocks to the function, and  *)
(* func_splitter extracts the end of the layout: a function split          *)
(* afterwards keeps its prologue and hands its epilogue to the new         *)
(* function, which runs in a frame of its own with a return address of its *)
(* own.                                                                    *)
(***************************************************************************)
EXTENDS ShadowStack

CONSTANTS
  SplitOf,   \* SplitOf[f]: the function func_splitter made of the end of f, for
             \* some of the Functions with an epilogue
  SplitSite  \* the return address, in f, of the one call of it

SplitFunctions == DOMAIN SplitOf

NewFunctions == {SplitOf[f] : f \in SplitFunctions}

\* The program calls what it called before; a new function has one call.  (The bound
\* MaxDepth leaves room for the other half of what is called.)
CallSource(t) ==
  \E f \in Functions \ NewFunctions, a \in Sites \ {SplitSite} :
    /\ f \in SplitFunctions => Len(frames[t]) + 1 < MaxDepth
    /\ Call(t, f, a)

\* PredBB calls the new function, whose first block is the source's next one:
\* no prologue runs there.
CallSplit(t) ==
  /\ pc[t] = "body"
  /\ Top(frames[t]).fn \in SplitFunctions
  /\ Len(frames[t]) < MaxDepth
  /\ frames' = [frames EXCEPT ![t] = CallOf(@, SplitOf[Top(@).fn], SplitSite)]
  /\ UNCHANGED <<shadow_stack, shadow_sp, pc, sp, status, unwinds>>

\* Only what still has its epilogue, or got one, branches to it.
BranchToOwnEpilogue(t) ==
  /\ pc[t] = "body"
  /\ Top(frames[t]).fn \notin SplitFunctions
  /\ BranchToEpilogue(t)

\* The call of the new function comes back, and PredBB returns unchecked.
ReturnBoth(t) ==
  /\ pc[t] = "ret"
  /\ Top(frames[t]).fn \in NewFunctions
  /\ frames' = [frames EXCEPT ![t] = Pop(Pop(@))]
  /\ Goto(t, IF Len(frames[t]) = 2 THEN "idle" ELSE "body")
  /\ UNCHANGED <<shadow_stack, shadow_sp, sp, status, unwinds>>

ReturnOne(t) ==
  /\ pc[t] = "ret"
  /\ Top(frames[t]).fn \notin NewFunctions
  /\ CheckedReturn(t)

SplitStep(t) ==
  /\ status = "running"
  /\ \/ CallSource(t) \/ CallSplit(t) \/ BranchToOwnEpilogue(t) \/ PlainReturn(t)
     \/ LoadSp(t) \/ StoreRetaddr(t) \/ StoreSpNext(t)
     \/ LoadSpCur(t) \/ StoreSpDec(t) \/ CompareRa(t)
     \/ ReturnBoth(t) \/ ReturnOne(t)

SplitNext == (\E t \in Threads : SplitStep(t)) \/ Stopped

SplitSpec == Init /\ [][SplitNext]_vars
=============================================================================
