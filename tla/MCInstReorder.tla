---------------------------- MODULE MCInstReorder ----------------------------
(* Every block of four instructions out of these shapes: a leading alloca,    *)
(* PHI or ordinary instruction, two ordinary ones, one more or a terminator.  *)
EXTENDS InstReorder

CONSTANTS slot, global, other, none

MCAllocas == {slot}
MCGlobals == {global}
MCOthers == {other}

Inst(kind, uses, ptr, volatile) == [kind |-> kind, uses |-> uses, ptr |-> ptr, volatile |-> volatile]

\* Operands are values of earlier instructions; a block's first has none.
Uses(k) == {{}} \cup {{i} : i \in 1 .. k - 1}

Ordinary(k) ==
  {Inst("op", u, none, FALSE) : u \in Uses(k)}
  \cup {Inst("load", u, other, FALSE) : u \in Uses(k)}
  \cup {Inst("load", {}, slot, FALSE), Inst("store", {}, slot, FALSE),
        Inst("store", {}, global, FALSE), Inst("call", {}, none, FALSE)}

First4 == Ordinary(1) \cup {Inst(kind, {}, none, FALSE) : kind \in {"alloca", "phi", "fence"}}

Last4 == {Inst("terminator", {}, none, FALSE), Inst("fence", {}, none, FALSE),
          Inst("op", {2}, none, FALSE), Inst("store", {3}, slot, FALSE),
          Inst("load", {}, global, TRUE)}

MCBlocks == {<<a, b, c, d>> : a \in First4, b \in Ordinary(2), c \in Ordinary(3), d \in Last4}

\* Volatile stores to two objects, and an access to the first of them.
MCVolatileBlocks ==
  {<<Inst("store", {}, slot, TRUE), Inst("store", {}, global, TRUE), Inst(kind, {}, slot, FALSE)>> :
     kind \in {"load", "store"}}
=============================================================================
