-------------------------------- MODULE Words --------------------------------
(***************************************************************************)
(* LLVM's integer operations on words of w bits, each an element of        *)
(* 0 .. Pow2[w] - 1.                                                       *)
(***************************************************************************)
EXTENDS Integers

Pow2[n \in Nat] == IF n = 0 THEN 1 ELSE 2 * Pow2[n - 1]

Trunc(x, w) == x % Pow2[w]

\* getSExtValue: the word read in two's complement.
Signed(x, w) == IF 2 * x >= Pow2[w] THEN x - Pow2[w] ELSE x

\* The word whose bits f makes of the bits of x and y, the lowest one first.
Bitwise(f, x, y, w) ==
  LET word[n \in Nat] ==
        [a \in Nat |-> [b \in Nat |->
           IF n = 0 THEN 0 ELSE f[a % 2][b % 2] + 2 * word[n - 1][a \div 2][b \div 2]]]
  IN  word[w][x][y]

XorBit == [a \in 0 .. 1 |-> [b \in 0 .. 1 |-> IF a = b THEN 0 ELSE 1]]
OrBit == [a \in 0 .. 1 |-> [b \in 0 .. 1 |-> IF a = 1 THEN 1 ELSE b]]
AndBit == [a \in 0 .. 1 |-> [b \in 0 .. 1 |-> IF a = 1 THEN b ELSE 0]]

Xor(x, y, w) == Bitwise(XorBit, x, y, w)

\* Rounds towards zero; y is not 0.
SDiv(x, y, w) ==
  LET a == Signed(x, w)
      b == Signed(y, w)
      abs(z) == IF z < 0 THEN -z ELSE z
  IN  Trunc(IF (a < 0) = (b < 0) THEN abs(a) \div abs(b) ELSE -(abs(a) \div abs(b)), w)

Binary == {"add", "sub", "mul", "sdiv", "xor", "or", "and", "shl"}

\* The operations that are undefined (or poison) for some operands.
Undefined(op, x, y, w) ==
  \/ op = "sdiv" /\ (y = 0 \/ (2 * x = Pow2[w] /\ y = Pow2[w] - 1))
  \/ op = "shl" /\ y >= w

Compute(op, x, y, w) ==
  CASE op = "add" -> Trunc(x + y, w)
    [] op = "sub" -> Trunc(x - y, w)
    [] op = "mul" -> Trunc(x * y, w)
    [] op = "sdiv" -> SDiv(x, y, w)
    [] op = "xor" -> Xor(x, y, w)
    [] op = "or" -> Bitwise(OrBit, x, y, w)
    [] op = "and" -> Bitwise(AndBit, x, y, w)
    [] op = "shl" -> Trunc(x * Pow2[y], w)
=============================================================================
