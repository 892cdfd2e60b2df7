------------------------------ MODULE CallStack ------------------------------
(***************************************************************************)
(* The program the shadow-stack pass instruments, as far as the pass can   *)
(* tell: threads that call functions, and the process stack of each        *)
(* thread.  CallGuard (what the pass promises) and ShadowStack (the code   *)
(* it emits) both extend this module.                                      *)
(***************************************************************************)
EXTENDS Integers, Sequences, FiniteSets

CONSTANTS
  Threads,    \* the threads of the instrumented process
  Functions,  \* the functions of the module, see FunctionType
  Sites,      \* return addresses: one per call site
  Junk,       \* any other value a stored return address can be changed to
  MaxDepth    \* bound: the deepest call nesting the program reaches

\* What shadow_stack_pass looks at in a Function: its name, isDeclaration(),
\* and whether some block of it ends in a ReturnInst.
FunctionType == [name : STRING, decl : BOOLEAN, rets : BOOLEAN]

ASSUME CallStackAssumption ==
  /\ Functions \subseteq FunctionType
  /\ Junk \notin Sites
  /\ MaxDepth \in Nat \ {0}

RetAddrs == Sites \cup {Junk}

\* The pass skips declarations and a function called "abort" ...
Prologued(f) == ~f.decl /\ f.name # "abort"

\* ... and leaves a function without a ReturnInst with a prologue only.
Epilogued(f) == Prologued(f) /\ f.rets

\* A process-stack frame: the function, the return address the call pushed
\* (orig) and the one the frame holds now (ra).
Frame == [fn : Functions, orig : Sites, ra : RetAddrs]

Altered(fr) == fr.ra # fr.orig

Top(s) == s[Len(s)]
Pop(s) == SubSeq(s, 1, Len(s) - 1)

\* Frames of s whose function pushed an entry to the shadow stack.
Pushed(s) == {i \in DOMAIN s : Prologued(s[i].fn)}
Pushes(s) == Cardinality(Pushed(s))

PushedBelow(s, i) == {j \in Pushed(s) : j < i}

\* The effect of the program's own steps on one thread's process stack.
CallOf(s, f, a) == Append(s, [fn |-> f, orig |-> a, ra |-> a])

OverwriteOf(s, i, a) == [s EXCEPT ![i].ra = a]

\* Stores of the program reach the frames it has; only frames the pass checks
\* on return are changed here: what an unchecked return does with a changed
\* address is outside what the pass promises.
Overwritable(s) == {i \in DOMAIN s : Epilogued(s[i].fn)}
=============================================================================
