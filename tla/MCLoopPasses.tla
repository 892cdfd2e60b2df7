---------------------------- MODULE MCLoopPasses -----------------------------
(* Loops and nests with small bounds and with those at the passes' limit, of   *)
(* the simple shapes and of some that the passes do not ask about; and those   *)
(* for which the passes do not do what their comments say.                     *)
EXTENDS LoopPasses

\* header, one body block b and latch: the body lives on i and on the header's h.
Plain ==
  LET per(h, b, l) == [x \in {"header", "b", "latch"} |-> CASE x = "header" -> h [] x = "b" -> b [] OTHER -> l]
  IN  [blocks |-> {"header", "b", "latch"}, latch |-> "latch", inner |-> "none", innerBlocks |-> {},
       phis |-> per({"i"}, {}, {}), insts |-> per({"h"}, {"v"}, {"l"}),
       uses |-> per({"i"}, {"i", "h"}, {"i", "v", "l"}), switch |-> per({}, {}, {}),
       after |-> {}, exitPhis |-> {}, exits |-> 1]

OneBlockLoop ==
  LET only(x) == [b \in {"header"} |-> x]
  IN  [Plain EXCEPT !.blocks = {"header"}, !.latch = "header", !.phis = only({"i"}),
       !.insts = only({"h"}), !.uses = only({"i", "h"}), !.switch = only({})]

\* The inner loop: b is its header, which tests j, c its body and latch.
Nested ==
  LET withC(f, x) == [b \in Plain.blocks \cup {"c"} |-> IF b = "c" THEN x ELSE f[b]]
  IN  [Plain EXCEPT !.blocks = @ \cup {"c"}, !.inner = "b", !.innerBlocks = {"c"},
       !.phis = [withC(@, {}) EXCEPT !["b"] = {"j"}], !.insts = withC(@, {"w"}),
       !.uses = [withC(@, {"i", "j"}) EXCEPT !["b"] = {"i", "j", "v"}], !.switch = withC(@, {})]

\* The inner loop is one block, body and all.
InnerBlock == [Plain EXCEPT !.inner = "b", !.phis["b"] = {"j"}, !.uses["b"] = {"i", "j", "v"}]

\* A sum that the header's second PHI carries from iteration to iteration.
Accumulator == [Plain EXCEPT !.phis["header"] = {"i", "s"}, !.uses["b"] = @ \cup {"s"}]

\* The result of the last iteration, used behind the loop: by a PHI or directly.
LiveOuts == {[Plain EXCEPT !.exitPhis = {"v"}], [Plain EXCEPT !.after = {"v"}]}

\* A conditional in the body, joined by a PHI; a switch whose cases go on in the latch.
Branching == {[Plain EXCEPT !.phis["b"] = {"p"}], [Plain EXCEPT !.switch["b"] = {"b", "latch"}]}

\* The inner header uses what the outer loop computes, or a sum of the inner loop.
OuterReferences ==
  {[Nested EXCEPT !.uses["b"] = @ \cup {"h"}],
   [Nested EXCEPT !.phis["b"] = {"j", "t"}, !.uses["b"] = @ \cup {"t"}]}

Loop(n, cmps, step, exit, shape) ==
  [pass |-> "loop_split", n |-> n, m |-> 0, cmps |-> cmps, cmpsJ |-> {}, step |-> step, stepJ |-> 1,
   halfJ |-> Half, exit |-> exit, shape |-> shape]

Nest(n, m, shape) ==
  [pass |-> "loop_flatten", n |-> n, m |-> m, cmps |-> {n}, cmpsJ |-> {m}, step |-> 1, stepJ |-> 1,
   halfJ |-> Half, exit |-> "header", shape |-> shape]

\* (A loop of one block is left at its end: it has one iteration more than the
\* bound of its test, for the counter has not gone up then.)
MCNests ==
  {Loop(n, {n}, 1, "header", Plain) : n \in (0 .. 14) \cup {100, 101}}
  \cup {Loop(n, {n, c}, 1, "header", Plain) : n \in {5, 9}, c \in {2, 4, 7, 100}}
  \cup {Loop(n, {c}, 1, "body", Plain) : n \in 1 .. 8, c \in {5, 8, 9}}
  \cup {Loop(n, {c}, 1, "latch", s) : n \in 4 .. 6, c \in {4, 5}, s \in {Plain, OneBlockLoop}}
  \cup {Loop(n, {n}, 2, "header", Plain) : n \in {6, 9}}
  \cup {Loop(6, {6}, 1, "header", s) :
          s \in LiveOuts \cup Branching \cup {Accumulator, [Plain EXCEPT !.exits = 2]}}
  \cup {Nest(n, m, s) : n \in 0 .. 6, m \in 0 .. 6, s \in {Nested, InnerBlock}}
  \cup {[Nest(n, m, Nested) EXCEPT !.cmps = @ \cup {c}, !.cmpsJ = @ \cup {d}] :
          n \in {2, 5}, m \in {2, 5}, c \in {3, 100}, d \in {3, 100}}
  \cup {[Nest(5, 5, Nested) EXCEPT !.step = x, !.stepJ = y] : x \in 1 .. 2, y \in 2 .. 3}
  \cup {[Nest(3, 5, [Nested EXCEPT !.uses["b"] = u]) EXCEPT !.halfJ = 512] : u \in {{"i"}, {"i", "j"}}}
  \cup {Nest(p[1], p[2], InnerBlock) :
          p \in {<<1, 100>>, <<2, 101>>, <<11, 11>>, <<11, 12>>, <<12, 11>>, <<16, 16>>, <<20, 15>>, <<100, 100>>, <<127, 1>>}}
  \cup {Nest(2, 3, s) : s \in OuterReferences \cup {[Nested EXCEPT !.exits = 2]}}

\* Steps of two, the bound of a test in the body, and headers that are bodies.
MCSplits ==
  {Loop(n, {n}, 2, "header", Plain) : n \in {4, 6, 8}}
  \cup {Loop(n, {c}, 1, "header", Plain) : n \in {5, 6}, c \in {7, 9}}
  \cup {Loop(n + 1, {n}, 1, "latch", OneBlockLoop) : n \in 8 .. 9}

\* Steps of two, the bound of a test in the inner body, and products that wrap.
MCFlattened ==
  {[Nest(n, 4, Nested) EXCEPT !.stepJ = 2] : n \in {2, 3}}
  \cup {[Nest(3, 5, InnerBlock) EXCEPT !.cmpsJ = {c}] : c \in {4, 7}}
  \cup {Nest(n, 12, InnerBlock) : n \in {23, 24}}
=============================================================================
