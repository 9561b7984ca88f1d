----------------------------- MODULE MulDivIsa ------------------------------
(***************************************************************************)
(* The M extension's eight operations on words of Width bits, by their     *)
(* ISA definition over the integers: the reference for the unit.           *)
(***************************************************************************)
EXTENDS Integers

CONSTANT Width       \* 32 in the hardware

\* The six-bit cycle counter has to reach Width + 1.
ASSUME WidthAssumption == Width \in 1 .. 62

Pow2[n \in Nat] == IF n = 0 THEN 1 ELSE 2 * Pow2[n - 1]

Word == 0 .. Pow2[Width] - 1
Ops  == 0 .. 7        \* funct3: MUL MULH MULHSU MULHU DIV DIVU REM REMU
Jobs == [op : Ops, a : Word, b : Word]

OpIsDiv(op) == op >= 4
Signed(x)   == IF x >= Pow2[Width - 1] THEN x - Pow2[Width] ELSE x
Wrap(x)     == x % Pow2[Width]

\* Division as the ISA defines it: the quotient rounds toward zero.
Abs(x) == IF x < 0 THEN -x ELSE x
Quotient(a, b)  == IF b = 0 THEN -1
                   ELSE IF (a < 0) # (b < 0) THEN -(Abs(a) \div Abs(b))
                                             ELSE Abs(a) \div Abs(b)
Remainder(a, b) == IF b = 0 THEN a ELSE a - b * Quotient(a, b)

Reference(j) ==
  LET sa == Signed(j.a)
      sb == Signed(j.b)
  IN  CASE j.op = 0 -> Wrap(sa * sb)
        [] j.op = 1 -> Wrap((sa * sb) \div Pow2[Width])
        [] j.op = 2 -> Wrap((sa * j.b) \div Pow2[Width])
        [] j.op = 3 -> Wrap((j.a * j.b) \div Pow2[Width])
        [] j.op = 4 -> Wrap(Quotient(sa, sb))
        [] j.op = 5 -> Wrap(Quotient(j.a, j.b))
        [] j.op = 6 -> Wrap(Remainder(sa, sb))
        [] j.op = 7 -> Wrap(Remainder(j.a, j.b))
=============================================================================
