---------------------------- MODULE DatapathModel ----------------------------
(***************************************************************************)
(* The same units as arithmetic: alu() and imm() of model/rv32i_ref.py on  *)
(* Python's unbounded integers, and what the B, Zbkb and Zicond extensions *)
(* say of the bit-manipulation results.  An unsigned word is a number      *)
(* below 2 ^ XLen.                                                         *)
(***************************************************************************)
EXTENDS Integers, FiniteSetsExt, Bitwise

CONSTANTS XLen, ByteLen

Size == 2 ^ XLen

u32(x) == x % Size
s32(x) == IF u32(x) >= Size \div 2 THEN u32(x) - Size ELSE u32(x)

\* sext(value, width), and Verilog's word[hi:lo] of a 32-bit word of bits
sext(value, width) ==
  LET sign == 2 ^ (width - 1)
  IN  (value % sign) - (IF (value \div sign) % 2 = 1 THEN sign ELSE 0)
bits(insn, hi, lo) ==
  LET Term(k) == insn[k] * 2 ^ (k - lo) IN MapThenSumSet(Term, lo .. hi)

N(b) == IF b THEN 1 ELSE 0

alu(op, x, y) ==
  LET a == u32(x)
      b == u32(y)
      shamt == b % XLen
  IN  CASE op = "ADD"  -> u32(a + b)
        [] op = "SUB"  -> u32(a - b)
        [] op = "SLL"  -> u32(a * 2 ^ shamt)
        [] op = "SLT"  -> N(s32(a) < s32(b))
        [] op = "SLTU" -> N(a < b)
        [] op = "XOR"  -> a ^^ b
        [] op = "SRL"  -> a \div 2 ^ shamt
        [] op = "SRA"  -> u32(s32(a) \div 2 ^ shamt)
        [] op = "OR"   -> a | b
        [] op = "AND"  -> a & b
        [] op = "PASS_B" -> b
        [] OTHER       -> 0

\* The conditions of the base ISA, on sign-inverted words where they are signed.
Biased(x) == (x + Size \div 2) % Size
taken(f3, a, b) ==
  CASE f3 = 0 -> a = b                  [] f3 = 1 -> a # b
    [] f3 = 4 -> Biased(a) < Biased(b)  [] f3 = 5 -> Biased(a) >= Biased(b)
    [] f3 = 6 -> a < b                  [] f3 = 7 -> a >= b
    [] OTHER  -> FALSE

\* imm(), read as a signed number: the caller's u32() only renames it.
imm(insn, fmt) ==
  CASE fmt = "I" -> sext(bits(insn, 31, 20), 12)
    [] fmt = "S" -> sext(bits(insn, 31, 25) * 32 + bits(insn, 11, 7), 12)
    [] fmt = "B" -> sext(bits(insn, 31, 31) * 4096 + bits(insn, 7, 7) * 2048
                         + bits(insn, 30, 25) * 32 + bits(insn, 11, 8) * 2, 13)
    [] fmt = "U" -> sext(bits(insn, 31, 12), 20) * 4096
    [] fmt = "J" -> sext(bits(insn, 31, 31) * 1048576 + bits(insn, 19, 12) * 4096
                         + bits(insn, 20, 20) * 2048 + bits(insn, 30, 21) * 2, 21)
    [] fmt = "Z" -> bits(insn, 19, 15)
    [] OTHER     -> 0

-----------------------------------------------------------------------------
(* The extensions' definitions.                                            *)

Byte == 2 ^ ByteLen
HalfWord == 2 ^ (XLen \div 2)
Digit(a, base, i) == (a \div base ^ i) % base
FromDigits(D(_), base, n) == LET Term(i) == D(i) * base ^ i
                             IN  MapThenSumSet(Term, 0 .. n - 1)
Pow(b) == 2 ^ (b % XLen)
Rotl(a, s) == ((a * 2 ^ s) % Size) + a \div 2 ^ (XLen - s)

bitmanip(op, a, b) ==
  LET n == XLen \div 2
      OrcByte(i)  == IF Digit(a, Byte, i) = 0 THEN 0 ELSE Byte - 1
      Swapped(i)  == Digit(a, Byte, 3 - i)
      Mirrored(i) == Digit(a, 2, ByteLen * (i \div ByteLen) + ByteLen - 1 - (i % ByteLen))
      Low(i) == Digit(a, 2, i) + 2 * Digit(a, 2, i + n)
      Even(i) == Digit(a, 2, 2 * i)
      Odd(i)  == Digit(a, 2, 2 * i + 1)
      inv(x) == Size - 1 - x
  IN
  CASE op = "SH1ADD" -> u32(2 * a + b)
    [] op = "SH2ADD" -> u32(4 * a + b)
    [] op = "SH3ADD" -> u32(8 * a + b)
    [] op = "ANDN"   -> a & inv(b)
    [] op = "ORN"    -> a | inv(b)
    [] op = "XNOR"   -> inv(a ^^ b)
    [] op = "CLZ"    -> Max({i \in 0 .. XLen : a < 2 ^ (XLen - i)})
    [] op = "CTZ"    -> Max({i \in 0 .. XLen : a % 2 ^ i = 0})
    [] op = "CPOP"   -> Cardinality({i \in 0 .. XLen - 1 : Digit(a, 2, i) = 1})
    [] op = "MIN"    -> u32(Min({s32(a), s32(b)}))
    [] op = "MAX"    -> u32(Max({s32(a), s32(b)}))
    [] op = "MINU"   -> Min({a, b})
    [] op = "MAXU"   -> Max({a, b})
    [] op = "SEXTB"  -> u32(sext(a % Byte, ByteLen))
    [] op = "SEXTH"  -> u32(sext(a % HalfWord, n))
    [] op = "ZEXTH"  -> a % HalfWord
    [] op = "ORCB"   -> FromDigits(OrcByte, Byte, 4)
    [] op = "REV8"   -> FromDigits(Swapped, Byte, 4)
    [] op = "BREV8"  -> FromDigits(Mirrored, 2, XLen)
    [] op = "ROL"    -> Rotl(a, b % XLen)
    [] op = "ROR"    -> Rotl(a, (0 - b) % XLen)
    [] op = "BSET"   -> IF (a \div Pow(b)) % 2 = 1 THEN a ELSE a + Pow(b)
    [] op = "BCLR"   -> IF (a \div Pow(b)) % 2 = 1 THEN a - Pow(b) ELSE a
    [] op = "BINV"   -> IF (a \div Pow(b)) % 2 = 1 THEN a - Pow(b) ELSE a + Pow(b)
    [] op = "BEXT"   -> (a \div Pow(b)) % 2
    [] op = "PACK"   -> (a % HalfWord) + (b % HalfWord) * HalfWord
    [] op = "PACKH"  -> (a % Byte) + (b % Byte) * Byte
    [] op = "ZIP"    -> FromDigits(Low, 4, n)
    [] op = "UNZIP"  -> FromDigits(Even, 2, n) + HalfWord * FromDigits(Odd, 2, n)
    [] op = "CZEQZ"  -> IF b = 0 THEN 0 ELSE a
    [] op = "CZNEZ"  -> IF b # 0 THEN 0 ELSE a
    [] OTHER         -> 0
=============================================================================
