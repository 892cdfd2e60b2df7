------------------------------ MODULE LoopShape ------------------------------
(***************************************************************************)
(* What loop_split.cc and loop_flatten.cc make of the references in a      *)
(* loop: the blocks of the loop are deleted, so whatever is left, clones   *)
(* and the code behind the loop, must refer to none of them.               *)
(***************************************************************************)

\* A loop: its blocks; per block the values its PHIs and its other instructions
\* define and the values its code uses; per block that ends in a switch or an invoke
\* the successors; the values used behind the loop, in PHIs of the exit block or
\* elsewhere; the edges that leave the loop; the header of an inner loop and its other
\* blocks.  Uses by the PHIs of header and latch, which no pass clones, are left out.
\* i is the counter, j that of an inner loop.
IsShape(s) ==
  /\ {"header", s.latch} \subseteq s.blocks
  /\ \A f \in {s.phis, s.insts, s.uses, s.switch} : DOMAIN f = s.blocks
  /\ \A b, c \in s.blocks :
       /\ s.phis[b] \cap s.insts[c] = {}
       /\ b # c => s.phis[b] \cap s.phis[c] = {} /\ s.insts[b] \cap s.insts[c] = {}
  /\ "i" \in s.phis["header"]
  /\ s.inner # "none" => s.inner \in s.blocks \ {"header"} /\ "j" \in s.phis[s.inner]
  /\ s.innerBlocks \subseteq s.blocks \ {"header", s.inner}
  /\ s.latch # "header" =>
       \A b \in s.blocks \ {s.latch} : s.uses[b] \cap (s.phis[s.latch] \cup s.insts[s.latch]) = {}
  /\ s.exits \in {1, 2}

Values(s) == UNION {s.phis[b] \cup s.insts[b] : b \in s.blocks}

\* loop_split's clonedBodyBlocks
Bodies(s) == s.blocks \ {"header", s.latch}

OneBlock(s) == s.latch = "header"

\* VMap when header and bodies are remapped; the latch has its own instructions, too.
mappedInBodies(s) ==
  (UNION {s.phis[b] \cup s.insts[b] : b \in Bodies(s)}) \cup {"i"} \cup s.insts["header"]

\* The deleted values still used by a clone or behind the loop.
danglingValues(s) ==
  Values(s) \cap
    ( (UNION {s.uses[b] \ mappedInBodies(s) : b \in Bodies(s) \cup {"header"}})
      \cup (s.uses[s.latch] \ (mappedInBodies(s) \cup s.insts[s.latch]))
      \cup s.after \cup s.exitPhis )

\* The PHIs of a body, cloned, whose blocks are not operands to remap; and the latch
\* is looked for in branches only.
staleBlocks(s) ==
  \E b \in Bodies(s) : s.phis[b] # {} \/ s.latch \in s.switch[b]

\* Only a branch is left out of the clones of header and latch: any other
\* terminator ends up in front of the new test.
terminatorInside(s) == \E b \in {"header", s.latch} : s.switch[b] # {}

\* lastExit is the exit block itself by then: its PHIs name no predecessor.
exitPhisStale(s) == s.exitPhis # {}

SplitSound(s) ==
  danglingValues(s) = {} /\ ~staleBlocks(s) /\ ~terminatorInside(s) /\ ~exitPhisStale(s)

flatMapped(s) == {"i", "j"} \cup s.insts[s.inner]

\* loop_flatten clones the inner header's instructions and nothing else, innerBlocks,
\* which it collects, least of all.  PHIs of
\* the exit block come to name flat.exit, when there is one exit edge, but keep
\* their values.
FlatSound(s) ==
  /\ Values(s) \cap ((s.uses[s.inner] \ flatMapped(s)) \cup s.after \cup s.exitPhis) = {}
  /\ s.switch[s.inner] = {}
  /\ s.exits = 2 => s.exitPhis = {}
=============================================================================
