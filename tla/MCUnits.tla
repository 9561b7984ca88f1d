------------------------------ MODULE MCUnits ------------------------------
(* The units below the pipeline, one of them in each behaviour; the         *)
(* variables of the others hold "unused".                                   *)
(*  - decode: every funct7 the tables name and two they do not, and every   *)
(*    rs2 that selects an operation with a neighbour on each side;          *)
(*  - datapath: words of 8 bits with bytes of 2, every first operand        *)
(*    against second operands around 0, the width, the sign and the top;    *)
(*    and 32-bit instruction words with at most two bits set, or clear;     *)
(*  - counters: mcycle, minstret and an event counter, of two halves of     *)
(*    two values, two events and a selector that names none;                *)
(*  - seed: three bits a read, a start-up test of five samples, a cutoff of *)
(*    four repetitions and windows of six with five alike; fourteen samples.*)
EXTENDS CsrUnits, Datapath

VARIABLES
  word,                                               \* decode: its fields
  a, b,                                               \* datapath: the operands
  insn                                                \* and an instruction word

dataVars == <<a, b, insn>>

Dec == INSTANCE DecodeCheck WITH
  Opcodes <- {"LUI", "AUIPC", "JAL", "JALR", "BRANCH", "LOAD", "STORE",
              "OP_IMM", "OP", "MISC_MEM", "SYSTEM", "other"},
  Funct3s <- 0 .. 7, Funct7s <- {0, 1, 2, 4, 5, 7, 8, 16, 20, 24, 32, 33, 36, 48, 52},
  Rs2s <- 0 .. 8 \cup {14, 15, 16, 24, 25, 31}, Regs <- {0, 1}
P == INSTANCE DatapathModel

AluOps == {"ADD", "SUB", "SLL", "SLT", "SLTU", "XOR", "SRL", "SRA", "OR", "AND",
           "PASS_B", "unused"}
BmOps == {"SH1ADD", "SH2ADD", "SH3ADD", "ANDN", "ORN", "XNOR", "CLZ", "CTZ",
          "CPOP", "MIN", "MINU", "MAX", "MAXU", "SEXTB", "SEXTH", "ZEXTH",
          "ORCB", "REV8", "ROL", "ROR", "BSET", "BCLR", "BINV", "BEXT", "PACK",
          "PACKH", "BREV8", "ZIP", "UNZIP", "CZEQZ", "CZNEZ", "NONE"}
ImmFmts == {"I", "S", "B", "U", "J", "Z", "NONE"}

Seconds == {0, 1, 2, 3, 7, 8, 9, 16, 85, 127, 128, 129, 170, 248, 255}
OnesAt(s) == [k \in 0 .. 31 |-> IF k \in s THEN 1 ELSE 0]

NoDecode == word = U
NoData == a = U /\ b = U /\ insn = U
UnitsInit ==
  \/ CsrInit /\ NoDecode /\ NoData
  \/ unit = "decode" /\ Dec!Init /\ NoData /\ NoCount /\ NoSeed
  \/ /\ unit = "datapath" /\ a = 0 /\ b \in Seconds /\ insn = OnesAt({})
     /\ NoDecode /\ NoCount /\ NoSeed

NextField == unit = "decode" /\ Dec!Next /\ UNCHANGED <<unit, dataVars, countVars, seedVars>>
NextOperand ==
  /\ unit = "datapath" /\ insn = OnesAt({}) /\ a < 2 ^ XLen - 1
  /\ a' = a + 1 /\ UNCHANGED <<unit, word, b, insn, countVars, seedVars>>
NextWord ==
  /\ unit = "datapath" /\ insn = OnesAt({}) /\ a = 0 /\ b = 0
  /\ \E i, j \in 0 .. 31, ones \in BOOLEAN :
       insn' = IF ones THEN OnesAt({i, j}) ELSE OnesAt((0 .. 31) \ {i, j})
  /\ UNCHANGED <<unit, word, a, b, countVars, seedVars>>
NextCsr == CsrNext /\ UNCHANGED <<word, dataVars>>
UnitsNext == NextField \/ NextOperand \/ NextWord \/ NextCsr
UnitsSpec == UnitsInit /\ [][UnitsNext]_<<csrVars, word, dataVars>>

-----------------------------------------------------------------------------
(* DecodersAgree, AbstractionSound, RegistersInert: the decoder against    *)
(* the reference model and against the classes of the pipeline model, as   *)
(* DecodeCheck states them (rvntt_decode, decode()); an illegal word       *)
(* enables nothing.                                                        *)
DecodersAgree == unit = "decode" => Dec!DecodersAgree
AbstractionSound == unit = "decode" => Dec!AbstractionSound /\ Dec!IllegalHasNoEffect
RegistersInert == [][unit = "decode" => Dec!Inert]_word

\* The ALU computes what the reference model does on unbounded integers,
\* shift amounts at and beyond the width included, and the branch comparator
\* decides every condition as the ISA states it.
AluAgrees ==
  /\ \A op \in AluOps : Unsigned(Alu(op, Vec(a), Vec(b))) = P!alu(op, a, b)
  /\ \A f3 \in 0 .. 7 : Taken(f3, Vec(a), Vec(b)) <=> P!taken(f3, a, b)
\* Every bit-manipulation result is the extension's, zero counts of zero,
\* rotations by zero and the width, and signed extremes included.
BitmanipAgrees ==
  \A op \in BmOps : Unsigned(Bitmanip(op, Vec(a), Vec(b))) = P!bitmanip(op, a, b)
\* The scrambled wiring of every immediate format is the field arithmetic of
\* the reference model.
ImmAgrees == \A fmt \in ImmFmts : Signed(Imm(fmt, insn)) = P!imm(insn, fmt)

(* DatapathAgrees: the units compute what the reference model and the      *)
(* extensions define (rvntt_alu, rvntt_branch, rvntt_bitmanip,             *)
(* rvntt_immgen against alu() and imm()).                                  *)
DatapathAgrees == unit = "datapath" => AluAgrees /\ BitmanipAgrees /\ ImmAgrees
=============================================================================
