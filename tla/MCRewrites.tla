----------------------------- MODULE MCRewrites ------------------------------
(* Short blocks over words of one, two and four bits, where a machine word    *)
(* has three, and the passes on them in every order.                          *)
EXTENDS Rewrites

\* call; call; an operation; ret of its result.
Operation(w, op, x, y) ==
  <<Inst(1, "call", w, <<>>), Inst(2, "call", w, <<Value(1)>>),
    Inst(3, op, w, <<x, y>>), Inst(4, "ret", w, <<Value(3)>>)>>

Pair(w, op1, x, y, op2, z) ==
  <<Inst(1, "call", w, <<>>), Inst(2, op1, w, <<x, y>>),
    Inst(3, op2, w, <<Value(2), z>>), Inst(4, "ret", w, <<Value(3)>>)>>

Singles ==
  {Operation(2, op, a[1], a[2]) :
     op \in {"add", "sub", "mul"},
     a \in {<<Value(1), Value(2)>>, <<Value(1), Const(2)>>, <<Const(3), Const(3)>>}}
  \cup {Operation(2, "mul", a, Value(2)) : a \in {Value(2), Const(2)}}

Bits == {Operation(1, op, Value(1), a) : op \in {"add", "mul"}, a \in {Value(2), Const(1)}}

Wide == {Pair(4, op, Value(1), Const(c), "mul", Value(1)) : op \in {"add", "mul"}, c \in {2, 9}}

Chains ==
  {Pair(2, a[1], Value(1), a[2], a[3], a[4]) :
     a \in {<<"mul", Const(2), "mul", Const(2)>>, <<"add", Value(1), "mul", Const(2)>>,
            <<"mul", Const(3), "sub", Value(2)>>}}

\* Divisions of the program's own, undefined for some operands.
Divisions == {Operation(w, "sdiv", Value(1), Value(2)) : w \in {1, 2}}

\* Memory from outside the block, and an address that is a constant.
Outside ==
  <<Inst(1, "call", 2, <<>>), Inst(2, "load", 2, <<Value(1)>>),
    Inst(3, "store", 2, <<Value(2), Const(3)>>), Inst(4, "load", 2, <<Value(1)>>),
    Inst(5, "ret", 2, <<Value(4)>>)>>

\* The instructions whose constants are immediates, and a printf of the program's own.
Frame ==
  <<Inst(1, "phi", 2, <<Const(1)>>), Inst(2, "phi", 2, <<Const(2)>>),
    Inst(3, "alloca", 2, <<Const(1)>>), Inst(4, "store", 2, <<Const(2), Value(3)>>),
    Inst(5, "gep", 2, <<Value(3), Const(1)>>)>>

Rich ==
  {Frame \o <<Inst(6, "load", 2, <<Value(3)>>), Inst(7, "mul", 2, <<Value(6), Const(2)>>),
              Inst(8, "switch", 2, <<Value(7), Const(1)>>)>>,
   <<Inst(1, "phi", 2, <<Const(1)>>), Inst(2, "intrinsic", 2, <<Value(1), Const(1)>>),
     Inst(3, "printf", 2, <<Const(3), Value(2)>>), Inst(4, "ret", 2, <<Const(2)>>)>>}

MCSources == Singles \cup Bits \cup Wide \cup Chains \cup Divisions \cup {Outside} \cup Rich

\* For garbage_insert bits, for constant_altering -3 in four bits, behind inst_sub.
MCOddWidths == Bits \cup {Operation(4, op, Value(1), Const(13)) : op \in {"add", "mul"}}

MCWidthPasses == {<<"garbage_insert">>, <<"inst_sub", "constant_altering">>}

\* Garbage on garbage has nothing new.
MCPassLists == {ps \in {<<p, q>> : p \in Passes, q \in Passes} : ps # <<"garbage_insert", "garbage_insert">>}
=============================================================================
