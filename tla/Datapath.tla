------------------------------ MODULE Datapath ------------------------------
(***************************************************************************)
(* The combinational units on bit vectors: rvntt_alu, rvntt_branch,        *)
(* rvntt_bitmanip and rvntt_immgen.  A vector maps bit positions to 0 or   *)
(* 1.  XLen is 32 and ByteLen 8 in the hardware; immediates are always cut *)
(* from 32 bits.                                                           *)
(***************************************************************************)
EXTENDS Integers, FiniteSetsExt

CONSTANTS XLen, ByteLen

ASSUME WidthAssumption ==
  /\ XLen \in {8, 16, 32} /\ ByteLen \in {2, 4, 8} /\ XLen = 4 * ByteLen

Bits == 0 .. XLen - 1

Vec(n) == [k \in Bits |-> (n \div 2 ^ k) % 2]
Unsigned(v) == LET Term(k) == v[k] * 2 ^ k IN MapThenSumSet(Term, DOMAIN v)
Signed(v) == LET top == Max(DOMAIN v)
                 Term(k) == v[k] * 2 ^ k
             IN  MapThenSumSet(Term, DOMAIN v \ {top}) + v[top] * (0 - 2 ^ (top - 1)) * 2

ZeroVec == [k \in Bits |-> 0]
Flag(p) == [k \in Bits |-> IF k = 0 /\ p THEN 1 ELSE 0]
Not(v) == [k \in Bits |-> 1 - v[k]]
Plus(v, w) == Vec((Unsigned(v) + Unsigned(w)) % 2 ^ XLen)

ShamtAll(b) == Unsigned(b)                                \* fault
Shamt(b) == Unsigned(b) % XLen               \* b[4:0]
Left(v, s)        == [k \in Bits |-> IF k >= s THEN v[k - s] ELSE 0]
Right(v, s, fill) == [k \in Bits |-> IF k + s < XLen THEN v[k + s] ELSE fill]

Alu(op, a, b) ==
  CASE op = "ADD"  -> Plus(a, b)
    [] op = "SUB"  -> Vec((Unsigned(a) - Unsigned(b)) % 2 ^ XLen)
    [] op = "SLL"  -> Left(a, Shamt(b))
    [] op = "SLT"  -> Flag(Signed(a) < Signed(b))
    [] op = "SLTU" -> Flag(Unsigned(a) < Unsigned(b))
    [] op = "XOR"  -> [k \in Bits |-> (a[k] + b[k]) % 2]
    [] op = "SRL"  -> Right(a, Shamt(b), 0)
    [] op = "SRA"  -> Right(a, Shamt(b), a[XLen - 1])
    [] op = "OR"   -> [k \in Bits |-> IF a[k] + b[k] > 0 THEN 1 ELSE 0]
    [] op = "AND"  -> [k \in Bits |-> a[k] * b[k]]
    [] op = "PASS_B" -> b
    [] OTHER       -> ZeroVec

\* rvntt_branch: taken, by funct3; 2 and 3 are reserved.
Taken(f3, a, b) ==
  CASE f3 = 0 -> a = b                        [] f3 = 1 -> a # b
    [] f3 = 4 -> Signed(a) < Signed(b)        [] f3 = 5 -> ~(Signed(a) < Signed(b))
    [] f3 = 6 -> Unsigned(a) < Unsigned(b)    [] f3 = 7 -> ~(Unsigned(a) < Unsigned(b))
    [] OTHER  -> FALSE

-----------------------------------------------------------------------------
(* rvntt_bitmanip.                                                         *)

And(v, w) == Alu("AND", v, w)
Or(v, w)  == Alu("OR", v, w)
Xor(v, w) == Alu("XOR", v, w)
Set(v)    == {k \in Bits : v[k] = 1}
Mask(b)   == [k \in Bits |-> IF k = Shamt(b) THEN 1 ELSE 0]
Bytes     == 0 .. (XLen \div ByteLen) - 1
ByteOf(k) == k \div ByteLen
Neg(s)    == (XLen - s) % XLen               \* 5'd0 - shamt

SignFrom(v, n) == [k \in Bits |-> IF k < n THEN v[k] ELSE v[n - 1]]
LowHalf(v, w) == [k \in Bits |-> IF k < XLen \div 2 THEN v[k]
                                 ELSE w[k - XLen \div 2]]

\* The zero test of Zicond on the shift amount in place of the operand.
IsZeroShamt(b) == Shamt(b) = 0                            \* fault
IsZero(b) == b = ZeroVec

Bitmanip(op, a, b) ==
  LET half == XLen \div 2
      s == Shamt(b)
  IN
  CASE op = "SH1ADD" -> Plus(Left(a, 1), b)
    [] op = "SH2ADD" -> Plus(Left(a, 2), b)
    [] op = "SH3ADD" -> Plus(Left(a, 3), b)
    [] op = "ANDN"   -> And(a, Not(b))
    [] op = "ORN"    -> Or(a, Not(b))
    [] op = "XNOR"   -> Not(Xor(a, b))
    [] op = "CLZ"    -> Vec(IF Set(a) = {} THEN XLen ELSE XLen - 1 - Max(Set(a)))
    [] op = "CTZ"    -> Vec(IF Set(a) = {} THEN XLen ELSE Min(Set(a)))
    [] op = "CPOP"   -> Vec(Cardinality(Set(a)))
    [] op = "MIN"    -> IF Signed(a) < Signed(b) THEN a ELSE b
    [] op = "MAX"    -> IF Signed(a) < Signed(b) THEN b ELSE a
    [] op = "MINU"   -> IF Unsigned(a) < Unsigned(b) THEN a ELSE b
    [] op = "MAXU"   -> IF Unsigned(a) < Unsigned(b) THEN b ELSE a
    [] op = "SEXTB"  -> SignFrom(a, ByteLen)
    [] op = "SEXTH"  -> SignFrom(a, half)
    [] op = "ZEXTH"  -> LowHalf(a, ZeroVec)
    [] op = "ORCB"   -> [k \in Bits |-> IF \E j \in Set(a) : ByteOf(j) = ByteOf(k)
                                        THEN 1 ELSE 0]
    [] op = "REV8"   -> [k \in Bits |-> a[ByteLen * (3 - ByteOf(k)) + (k % ByteLen)]]
    [] op = "BREV8"  -> [k \in Bits |-> a[ByteLen * ByteOf(k) + ByteLen - 1 - (k % ByteLen)]]
    [] op = "ROL"    -> Or(Left(a, s), Right(a, Neg(s), 0))
    [] op = "ROR"    -> Or(Right(a, s, 0), Left(a, Neg(s)))
    [] op = "BSET"   -> Or(a, Mask(b))
    [] op = "BCLR"   -> And(a, Not(Mask(b)))
    [] op = "BINV"   -> Xor(a, Mask(b))
    [] op = "BEXT"   -> Flag(a[s] = 1)
    [] op = "PACK"   -> LowHalf(a, b)
    [] op = "PACKH"  -> [k \in Bits |-> CASE k < ByteLen -> a[k]
                                          [] ByteOf(k) = 1 -> b[k - ByteLen]
                                          [] OTHER -> 0]
    [] op = "ZIP"    -> [k \in Bits |-> a[IF k % 2 = 0 THEN k \div 2 ELSE k \div 2 + half]]
    [] op = "UNZIP"  -> [k \in Bits |-> a[IF k < half THEN 2 * k ELSE 2 * (k - half) + 1]]
    [] op = "CZEQZ"  -> IF IsZero(b) THEN ZeroVec ELSE a
    [] op = "CZNEZ"  -> IF IsZero(b) THEN a ELSE ZeroVec
    [] OTHER         -> ZeroVec

-----------------------------------------------------------------------------
(* rvntt_immgen: which bit of the word each bit of the immediate is, with  *)
(* 32 standing for a constant zero.                                        *)

JWires20(k) == IF k = 0 THEN 32 ELSE IF k < 11 THEN k + 20     \* fault
               ELSE IF k < 20 THEN k ELSE 31
JWires(k) == CASE k = 0 -> 32  [] k \in 1 .. 10 -> k + 20  [] k = 11 -> 20
               [] k \in 12 .. 19 -> k  [] OTHER -> 31
Wires(fmt, k) ==
  CASE fmt = "I" -> IF k < 12 THEN k + 20 ELSE 31
    [] fmt = "S" -> CASE k < 5 -> k + 7 [] k \in 5 .. 11 -> k + 20 [] OTHER -> 31
    [] fmt = "B" -> CASE k = 0 -> 32 [] k \in 1 .. 4 -> k + 7 [] k \in 5 .. 10 -> k + 20
                      [] k = 11 -> 7 [] OTHER -> 31
    [] fmt = "U" -> IF k < 12 THEN 32 ELSE k
    [] fmt = "J" -> JWires(k)
    [] fmt = "Z" -> IF k < 5 THEN k + 15 ELSE 32
    [] OTHER     -> 32

Imm(fmt, insn) ==
  [k \in 0 .. 31 |-> IF Wires(fmt, k) = 32 THEN 0 ELSE insn[Wires(fmt, k)]]
=============================================================================
