------------------------------- MODULE IRList --------------------------------
(***************************************************************************)
(* LLVM's intrusive lists (a block's instructions, a function's blocks, a  *)
(* module's functions) as sequences without repetition, with the one thing *)
(* the passes do to them: take an element out and link it back in next to  *)
(* another one.  Linking an element next to itself changes nothing.        *)
(***************************************************************************)
EXTENDS Integers, Sequences

IndexOf(s, x) == CHOOSE i \in DOMAIN s : s[i] = x

\* The element at index i ends up at index j.
Moved(s, i, j) ==
  [k \in 1 .. Len(s) |->
     CASE k = j -> s[i]
       [] j < k /\ k <= i -> s[k - 1]
       [] i <= k /\ k < j -> s[k + 1]
       [] OTHER -> s[k]]

MoveBefore(s, x, y) ==
  LET i == IndexOf(s, x)
      j == IndexOf(s, y)
  IN  Moved(s, i, IF i < j THEN j - 1 ELSE j)

MoveAfter(s, x, y) ==
  LET i == IndexOf(s, x)
      j == IndexOf(s, y)
  IN  Moved(s, i, IF i > j THEN j + 1 ELSE j)
=============================================================================
