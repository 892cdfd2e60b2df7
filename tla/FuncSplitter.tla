---------------------------- MODULE FuncSplitter -----------------------------
(***************************************************************************)
(* passes/func_splitter.cc on a module, and the module it leaves running.  *)
(* The pass takes one function at random, one of its blocks, moves that    *)
(* block and all that follow it in layout order to a new function, and     *)
(* replaces the branch to the block by a call of the new function.         *)
(*                                                                         *)
(* A block is named by its place in the original layout and defines one    *)
(* value, of the same name; 0 stands for the function's arguments.         *)
(***************************************************************************)
EXTENDS Integers, Sequences, FiniteSets

CONSTANTS Modules  \* the modules considered, sequences of functions

\* "br" an unconditional branch, "cond" any other branch, "eh" an invoke or a
\* resume.  incoming: the predecessors its PHIs name, {} for a block without.
Block == [term : {"br", "cond", "ret", "eh"}, succs : SUBSET Nat, uses : SUBSET Nat,
          incoming : SUBSET Nat]

FunctionType == [decl : BOOLEAN, main : BOOLEAN, vararg : BOOLEAN, blocks : Seq(Block)]

\* S holds what control can get to from its members without going through v.
Closed(B, S, v) == \A c \in S : B[c].succs \ {v} \subseteq S

\* Value v is there whenever control gets to b, for what can be reached without
\* computing it does not have b in it.
Dominates(B, v, b) ==
  \/ v \in {0, b}
  \/ \E S \in SUBSET (DOMAIN B \ {v}) : (v = 1 \/ 1 \in S) /\ Closed(B, S, v) /\ b \notin S

\* No dead blocks: control may get to each one.
Reached(B) ==
  \A S \in SUBSET DOMAIN B : 1 \in S /\ (\A c \in S : B[c].succs \subseteq S) => S = DOMAIN B

\* What LLVM's verifier lets into the pass.
SourceFunction(f) ==
  /\ f \in FunctionType
  /\ f.decl <=> f.blocks = <<>>
  /\ \A b \in DOMAIN f.blocks :
       /\ f.blocks[b].succs \subseteq 2 .. Len(f.blocks)
       /\ f.blocks[b].uses \subseteq 0 .. Len(f.blocks)
       /\ \A v \in f.blocks[b].uses : Dominates(f.blocks, v, b)
       /\ f.blocks[b].term = "br" => Cardinality(f.blocks[b].succs) = 1
       /\ f.blocks[b].term = "ret" => f.blocks[b].succs = {}
       /\ f.blocks[b].incoming \in {{}, {p \in DOMAIN f.blocks : b \in f.blocks[p].succs}}

ASSUME SplitterAssumption ==
  \A M \in Modules : M \in Seq(FunctionType) /\ \A f \in DOMAIN M : SourceFunction(M[f])

VARIABLES
  source,  \* the module as the pass found it
  pc,      \* "choose" in the pass's loop over functions, "run" after it
  todo,    \* the candidate functions not looked at yet
  body,    \* the module now: body[f] for every function, the new one last
  cut,     \* <<function, SplitBB, PredBB>>, or <<>> while modified is false
  frames   \* the running functions

vars == <<source, pc, todo, body, cut, frames>>

-----------------------------------------------------------------------------
(* The pass.                                                               *)

canSplitFunction(f) ==
  /\ ~f.decl /\ ~f.main /\ ~f.vararg
  /\ Len(f.blocks) >= 2
  /\ \A b \in DOMAIN f.blocks : f.blocks[b].term # "eh"

Preds(f, b) == {p \in DOMAIN f.blocks : b \in f.blocks[p].succs}

\* (Slips: the predecessor may branch conditionally, and the block may have
\* several predecessors.)
findAfterAnyBranch(f) ==
  {s \in 2 .. Len(f.blocks) : \E p \in DOMAIN f.blocks : Preds(f, s) = {p}}

findSharedBlock(f) ==
  {s \in 2 .. Len(f.blocks) : \E p \in Preds(f, s) : f.blocks[p].term = "br"}

\* The blocks findSplitBlock chooses from.
findSplitBlock(f) ==
  {s \in 2 .. Len(f.blocks) :
     \E p \in DOMAIN f.blocks : Preds(f, s) = {p} /\ f.blocks[p].term = "br"}

extractBlocks(f, s) == s .. Len(f.blocks)

\* (Slip: only instructions are looked for, not arguments.)
liveInstructions(f, ext) == (UNION {f.blocks[b].uses : b \in ext}) \ (ext \cup {0})

liveIns(f, ext) == (UNION {f.blocks[b].uses : b \in ext}) \ ext

\* call: there is a call of the new function in front of the terminator.
Copied(f, b) ==
  [call |-> FALSE, term |-> f.blocks[b].term, succs |-> f.blocks[b].succs,
   uses |-> f.blocks[b].uses, incoming |-> f.blocks[b].incoming]

CodeOf(f) == [blocks |-> [b \in DOMAIN f.blocks |-> Copied(f, b)], entry |-> 1, params |-> {0}]

\* (Slip: the call goes in, the branch and the old blocks stay.)
KeepsOldBlocks(c, ext, p) ==
  [c EXCEPT !.blocks = [b \in DOMAIN @ |-> IF b = p THEN [@[b] EXCEPT !.call = TRUE] ELSE @[b]]]

\* F without the extracted blocks: PredBB calls the new function and returns.
Remainder(c, ext, p) ==
  [c EXCEPT !.blocks =
     [b \in DOMAIN @ \ ext |->
        IF b = p THEN [@[b] EXCEPT !.call = TRUE, !.term = "ret", !.succs = {}] ELSE @[b]]]

\* F.split: blocks are cloned in the order of a std::set of pointers, the first
\* of them is the entry.
Extracted(c, ext, entry, live) ==
  [blocks |-> [b \in ext |-> c.blocks[b]], entry |-> entry, params |-> live]

Init ==
  /\ source \in Modules
  /\ pc = "choose"
  /\ todo = {f \in DOMAIN source : canSplitFunction(source[f])}
  /\ body = [f \in DOMAIN source |-> CodeOf(source[f])]
  /\ cut = <<>>
  /\ frames = <<>>

NoSplitBlock(f) ==
  /\ pc = "choose" /\ f \in todo
  /\ findSplitBlock(source[f]) = {}
  /\ todo' = todo \ {f}
  /\ UNCHANGED <<source, pc, body, cut, frames>>

Rewritten(f, s, entry) ==
  LET ext == extractBlocks(source[f], s)
      p == CHOOSE q \in Preds(source[f], s) : TRUE
  IN  /\ entry \in ext
      /\ body' = Append([body EXCEPT ![f] = Remainder(@, ext, p)],
                        Extracted(body[f], ext, entry, liveIns(source[f], ext)))
      /\ cut' = <<f, s, p>>

\* (Slip: the loop over the functions goes on.)
SplitOn(f, s, entry) ==
  /\ pc = "choose" /\ f \in todo
  /\ s \in findSplitBlock(source[f])
  /\ Rewritten(f, s, entry)
  /\ todo' = todo \ {f}
  /\ UNCHANGED <<source, pc, frames>>

Split(f, s, entry) ==
  /\ pc = "choose" /\ f \in todo
  /\ s \in findSplitBlock(source[f])
  /\ Rewritten(f, s, entry)
  /\ todo' = {}
  /\ pc' = "run"
  /\ UNCHANGED <<source, frames>>

NothingToSplit ==
  /\ pc = "choose" /\ todo = {}
  /\ pc' = "run"
  /\ UNCHANGED <<source, todo, body, cut, frames>>

-----------------------------------------------------------------------------
(* The module running: LLVM's verifier first, then any function, many times*)

\* What the verifier asks of the control flow: branches stay in their function,
\* nothing branches to an entry block, a PHI names the predecessors its block has.
\* That operands are there is not asked but shown: OperandsAvailable.
Verified(c) ==
  /\ \A b \in DOMAIN c.blocks :
       LET preds == {p \in DOMAIN c.blocks : b \in c.blocks[p].succs}
       IN  /\ c.blocks[b].succs \subseteq DOMAIN c.blocks
           /\ b = c.entry => preds = {}
           /\ c.blocks[b].incoming \in {{}, preds}

Accepted == \A f \in DOMAIN body : Verified(body[f])

Running == pc = "run" /\ Accepted

TopFrame == frames[Len(frames)]
Here == body[TopFrame.fn].blocks[TopFrame.at]

\* have: what the function has computed since it was entered.
\* returned: the call at the end of this block has come back.
Frame(f) == [fn |-> f, at |-> body[f].entry, have |-> body[f].params, returned |-> FALSE]

SetTop(fr) == [frames EXCEPT ![Len(frames)] = fr]

Enter(f) ==
  /\ Running /\ frames = <<>>
  /\ ~source[f].decl
  /\ frames' = <<Frame(f)>>
  /\ UNCHANGED <<source, pc, todo, body, cut>>

CallSplit ==
  /\ Running /\ frames # <<>>
  /\ Here.call /\ ~TopFrame.returned
  /\ frames' = Append(frames, Frame(Len(body)))
  /\ UNCHANGED <<source, pc, todo, body, cut>>

AtTerminator == Running /\ frames # <<>> /\ (Here.call => TopFrame.returned)

Branch(n) ==
  /\ AtTerminator
  /\ n \in Here.succs
  /\ frames' = SetTop([TopFrame EXCEPT !.at = n, !.have = @ \cup {TopFrame.at}, !.returned = FALSE])
  /\ UNCHANGED <<source, pc, todo, body, cut>>

Return ==
  /\ AtTerminator
  /\ Here.term = "ret"
  /\ frames' = IF Len(frames) = 1
                 THEN <<>>
                 ELSE [SubSeq(frames, 1, Len(frames) - 1) EXCEPT ![Len(frames) - 1].returned = TRUE]
  /\ UNCHANGED <<source, pc, todo, body, cut>>

\* opt stops at a module its verifier rejects.
Rejected == pc = "run" /\ ~Accepted /\ UNCHANGED vars

Next ==
  \/ \E f \in todo : NoSplitBlock(f) \/ (\E s \in DOMAIN source[f].blocks :
       \E entry \in s .. Len(source[f].blocks) : Split(f, s, entry))
  \/ NothingToSplit
  \/ (\E f \in DOMAIN source : Enter(f)) \/ CallSplit
  \/ (\E n \in (IF frames = <<>> THEN {} ELSE Here.succs) : Branch(n)) \/ Return
  \/ Rejected

Spec == Init /\ [][Next]_vars

-----------------------------------------------------------------------------
(* Properties.                                                             *)

TypeOK ==
  /\ pc \in {"choose", "run"}
  /\ todo \subseteq DOMAIN source
  /\ Len(body) = Len(source) + (IF cut = <<>> THEN 0 ELSE 1)
  /\ Len(frames) <= 2
  /\ \A i \in DOMAIN frames :
       /\ frames[i].fn \in DOMAIN body
       /\ frames[i].at \in DOMAIN body[frames[i].fn].blocks
       /\ frames[i].have \subseteq Nat
       /\ frames[i].returned \in BOOLEAN

\* The function of the source that the code of a frame comes from, and the
\* place in it.
Origin(fr) == IF fr.fn \in DOMAIN source THEN fr.fn ELSE cut[1]
Place == <<Origin(TopFrame), TopFrame.at>>

\* Seen from outside, the two functions do what the one did: whatever module
\* passes the verifier walks the source's control flow, enters the new function
\* where the branch went, and leaves both functions at the source's return
\* (func_splitter.cc:128-178).
Walk == INSTANCE CFGWalk WITH
          at <- IF frames = <<>> \/ TopFrame.returned THEN <<>> ELSE Place
RunsLikeOriginal == Walk!WalkSpec

\* ... and loses no branch on the way: at every block, the ways to go on are the
\* source's, a call of the new function standing for the branch to SplitBB.
KeepsEveryBranch ==
  frames # <<>> /\ ~TopFrame.returned =>
    LET original == source[Place[1]].blocks[Place[2]]
    IN  IF Here.call
          THEN original.succs = {body[Len(body)].entry}
          ELSE Here.succs = original.succs /\ Here.term = original.term

\* The collected liveIns are enough, and PredBB has them to pass: a value is
\* computed in the running function, or was handed to it, before it is used
\* (func_splitter.cc:81-104, 156-161).
OperandsAvailable ==
  frames # <<>> =>
    LET known == TopFrame.have \cup {TopFrame.at}
    IN  Here.uses \subseteq known /\ (Here.call => body[Len(body)].params \subseteq known)

\* The inductive invariant behind these (FuncSplitterProofs).  The module, in terms
\* of the source's blocks: ...
CutAt(g) == cut # <<>> /\ cut[1] = g
Kept(g) == IF CutAt(g) THEN 1 .. cut[2] - 1 ELSE DOMAIN source[g].blocks

CutInv ==
  LET F == source[cut[1]]
      new == body[Len(body)]
      ext == extractBlocks(F, cut[2])
  IN  /\ pc = "run" /\ cut[1] \in DOMAIN source
      /\ cut[2] \in 2 .. Len(F.blocks) /\ cut[3] \in DOMAIN F.blocks
      /\ Preds(F, cut[2]) = {cut[3]} /\ F.blocks[cut[3]].term = "br"
      /\ new.entry \in ext /\ new.params = liveIns(F, ext) /\ DOMAIN new.blocks = ext
      /\ \A b \in ext : new.blocks[b] = Copied(F, b)

ModuleInv ==
  /\ source \in Modules /\ todo \subseteq DOMAIN source
  /\ pc \in {"choose", "run"} /\ (pc = "choose" => cut = <<>> /\ frames = <<>>)
  /\ DOMAIN body = 1 .. Len(body) /\ Len(body) = Len(source) + (IF cut = <<>> THEN 0 ELSE 1)
  /\ cut = <<>> => body = [g \in DOMAIN source |-> CodeOf(source[g])]
  /\ cut # <<>> => CutInv
  /\ \A g \in DOMAIN source :
       /\ body[g].entry = 1 /\ body[g].params = {0} /\ DOMAIN body[g].blocks = Kept(g)
       /\ \A b \in Kept(g) :
            body[g].blocks[b] =
              IF CutAt(g) /\ b = cut[3]
                THEN [Copied(source[g], b) EXCEPT !.call = TRUE, !.term = "ret", !.succs = {}]
                ELSE Copied(source[g], b)

\* ... and the frames: the new function is entered from PredBB alone, and what a
\* frame lacks, control can have come round.
FrameType == [fn : Nat, at : Nat, have : SUBSET Nat, returned : BOOLEAN]

FrameInv(fr) ==
  /\ fr.fn \in DOMAIN body /\ fr.at \in DOMAIN body[fr.fn].blocks
  /\ fr.returned => body[fr.fn].blocks[fr.at].call
  /\ body[fr.fn].params \subseteq fr.have
  /\ fr.have \subseteq body[fr.fn].params \cup DOMAIN body[fr.fn].blocks

FramesInv ==
  /\ frames \in Seq(FrameType)
  /\ frames # <<>> => Running
  /\ \A i \in DOMAIN frames : FrameInv(frames[i])
  /\ \/ Len(frames) <= 1 /\ \A i \in DOMAIN frames : frames[i].fn \in DOMAIN source
     \/ /\ Len(frames) = 2 /\ cut # <<>>
        /\ frames[1].fn = cut[1] /\ frames[1].at = cut[3] /\ ~frames[1].returned
        /\ frames[2].fn = Len(body)

\* v: a value the function has not been handed.
ComeRound(fr) ==
  LET B == source[Origin(fr)].blocks
  IN  \A v \in DOMAIN B \ (fr.have \cup {fr.at}) :
        (fr.fn \in DOMAIN source \/ v >= cut[2]) =>
          \A S \in SUBSET (DOMAIN B \ {v}) :
            (v = 1 \/ 1 \in S) /\ Closed(B, S, v) => fr.at \in S

SplitInv == ModuleInv /\ FramesInv /\ \A i \in DOMAIN frames : ComeRound(frames[i])

\* When layout order happens to be good enough (func_splitter.cc:73-79,
\* 130-134): the verifier takes the module exactly if the extracted blocks are
\* entered from PredBB alone and never left, SplitBB has no PHI, and the lowest
\* address is SplitBB's.
AcceptedExactly ==
  cut # <<>> =>
    LET f == source[cut[1]]
        s == cut[2]
        ext == extractBlocks(f, s)
    IN  Accepted <=>
          /\ cut[3] \notin ext
          /\ \A b \in DOMAIN f.blocks : \A n \in f.blocks[b].succs :
               <<b, n>> # <<cut[3], s>> => (b \in ext <=> n \in ext)
          /\ f.blocks[s].incoming = {}
          /\ body[Len(body)].entry = s
=============================================================================
