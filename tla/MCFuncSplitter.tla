--------------------------- MODULE MCFuncSplitter ----------------------------
(* Functions whose blocks can all be reached: of up to three blocks with any   *)
(* branches, one use of a value in another block and one PHI; of four blocks,  *)
(* if the pass can split them, without PHIs.                                   *)
EXTENDS FuncSplitter

Plain(term, succs) == [term |-> term, succs |-> succs, uses |-> {}, incoming |-> {}]

PlainBlocks(n) ==
  {Plain("ret", {})} \cup {Plain("br", {m}) : m \in 2 .. n}
  \cup {Plain("cond", {m, k}) : m, k \in 2 .. n}

Graphs(n) == {B \in [1 .. n -> PlainBlocks(n)] : Reached(B)}

\* cond with both branches to one block counts that edge twice: no single
\* predecessor either way, for PredBB must not end in cond.
WithUse(B) ==
  {B} \cup {[B EXCEPT ![b].uses = {v}] : <<b, v>> \in
              {<<c, w>> \in (DOMAIN B) \X (0 .. Len(B)) : c # w /\ Dominates(B, w, c)}}

WithPhi(B) ==
  {B} \cup {[B EXCEPT ![b].incoming = {p \in DOMAIN B : b \in B[p].succs}] : b \in 2 .. Len(B)}

Bodies(n) == UNION {WithPhi(B) : B \in UNION {WithUse(G) : G \in Graphs(n)}}

Function(B) == [decl |-> FALSE, main |-> FALSE, vararg |-> FALSE, blocks |-> B]

FourBlocks ==
  UNION {WithUse(B) : B \in {G \in Graphs(4) :
    /\ findSplitBlock(Function(G)) # {}
    /\ \A b \in DOMAIN G : G[b].term = "cond" => Cardinality(G[b].succs) = 2}}

\* Functions the pass leaves alone, and one it can always split.
Two == <<Plain("br", {2}), Plain("ret", {})>>
LeftAlone == {[Function(Two) EXCEPT !.main = TRUE], [Function(Two) EXCEPT !.vararg = TRUE],
              [Function(<<>>) EXCEPT !.decl = TRUE], Function(<<Plain("ret", {})>>),
              Function(<<Plain("eh", {2, 3}), Plain("ret", {}), Plain("ret", {})>>),
              Function(<<Plain("cond", {2, 3}), Plain("ret", {}), Plain("ret", {})>>)}

MCModules ==
  {<<Function(B)>> : B \in FourBlocks \cup UNION {Bodies(n) : n \in 1 .. 3}}
  \cup {<<Function(Two), g>> : g \in LeftAlone \cup {Function(Two)}}
  \cup {<<g, Function(Two)>> : g \in LeftAlone}
=============================================================================
