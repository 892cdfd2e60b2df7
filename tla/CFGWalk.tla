------------------------------- MODULE CFGWalk -------------------------------
(***************************************************************************)
(* A function body at work: control enters at the first block, follows the *)
(* branches, and leaves at a block that returns.  What func_splitter does  *)
(* to a module must look like this from outside.                           *)
(***************************************************************************)
EXTENDS Integers, Sequences

VARIABLES
  source,  \* the functions, source[f].blocks in layout order
  at       \* <<function, block>>, or <<>> while no function runs

walkVars == <<source, at>>

WalkBlock == source[at[1]].blocks[at[2]]

WalkInit == at = <<>>

Start(f) ==
  /\ at = <<>>
  /\ ~source[f].decl
  /\ at' = <<f, 1>>
  /\ UNCHANGED source

Follow ==
  /\ at # <<>>
  /\ \E n \in WalkBlock.succs : at' = <<at[1], n>>
  /\ UNCHANGED source

Leave ==
  /\ at # <<>>
  /\ WalkBlock.term = "ret"
  /\ at' = <<>>
  /\ UNCHANGED source

WalkNext == (\E f \in DOMAIN source : Start(f)) \/ Follow \/ Leave

WalkSpec == WalkInit /\ [][WalkNext]_walkVars
=============================================================================
