-------------------------------- MODULE Insn --------------------------------
(***************************************************************************)
(* What one instruction of rvntt does, as functions of its operands: the   *)
(* decoded control signals (rvntt_decode), the operand-level results of    *)
(* the execute stage (rvntt_core's EX) and the effect on the CSR file      *)
(* (rvntt_csr).  The pipeline (Core) and the one-instruction-per-step      *)
(* machine (Isa) both use these functions; they differ in WHICH operands   *)
(* they apply them to and WHEN, which is where a pipeline goes wrong.      *)
(*                                                                         *)
(* A word is a number modulo WordSize; a byte address is a word.  The      *)
(* arithmetic of the ALU, the bit-manipulation unit, the multiplier and    *)
(* the divider is a parameter: nothing in the pipeline depends on it.      *)
(***************************************************************************)
EXTENDS Integers

CONSTANTS
  WordSize,               \* 2^32 in the hardware
  NRegs,                  \* 32 in the hardware
  InstretMod,             \* 2^32 in the hardware: where the word of the retired-
                          \* instruction counter that minstret names wraps
  Fns,                    \* operation selectors (funct3/funct7)
  Alu(_, _, _),           \* rvntt_alu and rvntt_bitmanip: fn, a, b
  MulDivValue(_, _, _, _),\* rvntt_muldiv's result: op, fn, a, b
  BranchTaken(_, _, _),   \* rvntt_branch: fn, a, b
  BitOr(_, _),            \* a | b
  BitClear(_, _)          \* a & ~b

Word == 0 .. WordSize - 1
Reg  == 0 .. NRegs - 1

\* The opcode classes the pipeline tells apart.  "nop" is FENCE and WFI;
\* "csri" is the immediate form of a CSR access; "none" is the all-zero control
\* bundle of a cleared ID/EX register, which no instruction word decodes to.
\* "word" is the encoded instruction, which only an illegal one's mtval shows.
MulDivOps == {"mul", "div"}
Ops == {"alu", "alui", "lui", "auipc", "load", "store", "branch", "jal",
        "jalr", "csr", "csri", "ecall", "ebreak", "mret", "nop",
        "illegal"} \cup MulDivOps

CsrWritable == {"mtvec", "mscratch", "mepc", "mcause", "mtval", "minstret"}
CsrReadOnly == {"instret", "mhartid"}
CsrNames    == CsrWritable \cup CsrReadOnly \cup {"unknown"}

InsnOf(ops) == [op : ops, fn : Fns, rd : Reg, rs1 : Reg, rs2 : Reg,
                imm : Word, csr : CsrNames, word : Word]
Insn == InsnOf(Ops)

ASSUME WordAssumption ==
  /\ WordSize \in Nat /\ WordSize >= 16 /\ WordSize % 4 = 0
  /\ NRegs \in Nat \ {0}
  /\ InstretMod \in 1 .. WordSize

ASSUME FnsAssumption == {"rw", "rs", "rc"} \subseteq Fns

ASSUME DatapathAssumption ==
  \A fn \in Fns, a \in Word, b \in Word :
    /\ Alu(fn, a, b) \in Word
    /\ \A op \in MulDivOps : MulDivValue(op, fn, a, b) \in Word
    /\ BranchTaken(fn, a, b) \in BOOLEAN
    /\ BitOr(a, b) \in Word
    /\ BitClear(a, b) \in Word

-----------------------------------------------------------------------------
(* Word arithmetic.                                                        *)

Add(a, b) == (a + b) % WordSize
AlignTo(n, a) == a - (a % n)       \* {a[31:k], 0...} with n = 2^k
Bit0(a) == a % 2 = 1               \* fault
Bit1(a) == (a \div 2) % 2 = 1      \* a[1]
Slot(a) == a \div 4                \* the RAM's word index: the low bits drop

Slots == 0 .. ((WordSize - 1) \div 4)

-----------------------------------------------------------------------------
(* Decoded control signals.                                                *)

UsesRs1(i)  == i.op \in {"alu", "alui", "mul", "div", "load", "store",
                         "branch", "jalr", "csr"}
UsesRs2(i)  == i.op \in {"alu", "mul", "div", "store", "branch"}
RegWrite(i) == i.op \in {"alu", "alui", "lui", "auipc", "mul", "div", "load",
                         "jal", "jalr", "csr", "csri"}
MemRead(i)  == i.op = "load"
MemWrite(i) == i.op = "store"
IsMulDiv(i) == i.op \in MulDivOps
IsCsr(i)    == i.op \in {"csr", "csri"}
IsJump(i)   == i.op \in {"jal", "jalr"}

ResultSel(i) == CASE MemRead(i) -> "mem"
                  [] IsJump(i)  -> "pc4"
                  [] IsCsr(i)   -> "csr"
                  [] OTHER      -> "alu"

-----------------------------------------------------------------------------
(* The execute stage, as functions of the instruction, its pc and its      *)
(* operands a (rs1) and b (rs2).                                           *)

MemAddr(i, a) == Add(a, i.imm)

CtrlXfer(i, a, b) == IsJump(i) \/ (i.op = "branch" /\ BranchTaken(i.fn, a, b))

JumpTarget(i, pc, a) ==
  IF i.op = "jalr" THEN AlignTo(2, MemAddr(i, a)) ELSE Add(pc, i.imm)

CsrSource(i, a)  == IF i.op = "csri" THEN i.imm ELSE a
CsrSourceNz(i)   == IF i.op = "csri" THEN i.imm # 0 ELSE i.rs1 # 0
CsrWen(i)        == IsCsr(i) /\ (i.fn = "rw" \/ CsrSourceNz(i))
CsrIllegal(i)    == \/ i.csr = "unknown"
                    \/ CsrWen(i) /\ i.csr \in CsrReadOnly

CsrRead(csr, name) ==
  CASE name \in {"mtvec", "mscratch", "mepc", "mcause", "mtval"} -> csr[name]
    [] name \in {"minstret", "instret"} -> csr.minstret
    [] OTHER -> 0

CsrWdata(csr, i, a) ==
  LET old == CsrRead(csr, i.csr)
      src == CsrSource(i, a)
  IN  CASE i.fn = "rs" -> BitOr(old, src)
        [] i.fn = "rc" -> BitClear(old, src)
        [] OTHER       -> src

(* The trap an instruction raises, in the priority order of the core;      *)
(* "cause" is -1 when it raises none.                                      *)
NoTrap == [cause |-> -1, val |-> 0]

TrapOf(i, pc, a, b) ==
  LET target == JumpTarget(i, pc, a)
      addr   == MemAddr(i, a)
  IN  CASE i.op = "illegal" \/ (IsCsr(i) /\ CsrIllegal(i))
                                      -> [cause |-> 2,  val |-> i.word]
        [] i.op = "ecall"             -> [cause |-> 11, val |-> 0]
        [] i.op = "ebreak"            -> [cause |-> 3,  val |-> pc]
        [] CtrlXfer(i, a, b) /\ Bit1(target)
                                      -> [cause |-> 0,  val |-> target]
        [] MemRead(i) /\ addr % 4 # 0 -> [cause |-> 4,  val |-> addr]
        [] MemWrite(i) /\ addr % 4 # 0
                                      -> [cause |-> 6,  val |-> addr]
        [] OTHER                      -> NoTrap

Traps(i, pc, a, b) == TrapOf(i, pc, a, b).cause # -1

\* The value an instruction that is neither a load nor a multiply nor a divide
\* sends down the pipe (ex_result without the multi-cycle unit's arm).
SimpleResult(i, pc, a, b, csr) ==
  CASE IsCsr(i)       -> CsrRead(csr, i.csr)
    [] i.op = "lui"   -> i.imm
    [] i.op = "alu"   -> Alu(i.fn, a, b)
    [] i.op = "alui"  -> Alu(i.fn, a, i.imm)
    [] i.op \in {"auipc", "jal", "branch"} -> Add(pc, i.imm)
    [] OTHER          -> MemAddr(i, a)

-----------------------------------------------------------------------------
(* The CSR file: its fields, its reset value, and what one instruction     *)
(* leaving EX does to it.                                                  *)

CsrFile == [mtvec : Word, mscratch : Word, mepc : Word, mcause : Word,
            mtval : Word, minstret : 0 .. InstretMod - 1,
            mie : BOOLEAN, mpie : BOOLEAN]

CsrReset == [mtvec |-> 0, mscratch |-> 0, mepc |-> 0, mcause |-> 0,
             mtval |-> 0, minstret |-> 0, mie |-> FALSE, mpie |-> FALSE]

CsrDoWrite(i) == CsrWen(i) /\ i.csr \in CsrWritable

MinstretWide(csr, i, a) ==                                 \* fault
  IF CsrDoWrite(i) /\ i.csr = "minstret" THEN CsrWdata(csr, i, a)
  ELSE csr.minstret + 1
Minstret(csr, i, a) ==
  IF CsrDoWrite(i) /\ i.csr = "minstret"
  THEN CsrWdata(csr, i, a) % InstretMod
  ELSE (csr.minstret + 1) % InstretMod

\* The file after instruction i left EX at pc, with trap t (maybe NoTrap).
CsrAfter(csr, i, pc, a, t) ==
  IF t.cause # -1 THEN
    [csr EXCEPT !.mepc = AlignTo(4, pc), !.mcause = t.cause, !.mtval = t.val,
                !.mpie = csr.mie, !.mie = FALSE]
  ELSE IF i.op = "mret" THEN
    [csr EXCEPT !.mie = csr.mpie, !.mpie = TRUE,
                !.minstret = Minstret(csr, i, a)]
  ELSE
    LET w == CsrWdata(csr, i, a)
        Written(name) == CsrDoWrite(i) /\ i.csr = name
    IN  [csr EXCEPT
           !.mtvec    = IF Written("mtvec") THEN AlignTo(4, w) ELSE @,
           !.mepc     = IF Written("mepc") THEN AlignTo(4, w) ELSE @,
           !.mscratch = IF Written("mscratch") THEN w ELSE @,
           !.mcause   = IF Written("mcause") THEN w ELSE @,
           !.mtval    = IF Written("mtval") THEN w ELSE @,
           !.minstret = Minstret(csr, i, a)]

\* The next pc in every case, redirect or not.
NextPc(i, pc, a, b, csr) ==
  CASE Traps(i, pc, a, b)  -> csr.mtvec
    [] i.op = "mret"       -> csr.mepc
    [] OTHER -> IF CtrlXfer(i, a, b) THEN JumpTarget(i, pc, a) ELSE Add(pc, 4)
=============================================================================
