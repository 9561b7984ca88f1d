----------------------------- MODULE DecodeCheck -----------------------------
(***************************************************************************)
(* The decoder (Decode), its reference model (DecodeModel) and the         *)
(* abstract instructions of the pipeline model (Insn) on the same words.   *)
(* A step rewrites one of the fields that may hold a register number.      *)
(***************************************************************************)
EXTENDS Decode

CONSTANTS
  Opcodes, Funct3s, Funct7s,   \* the field values tried
  Rs2s, Regs

VARIABLE word

R == INSTANCE DecodeModel

\* The abstract instructions; what the datapath computes does not matter here.
Zero2(a, b) == 0
Zero3(f, a, b) == 0
Zero4(o, f, a, b) == 0
Never3(f, a, b) == FALSE
A == INSTANCE Insn WITH
       WordSize <- 16, NRegs <- 2, InstretMod <- 1, Fns <- {"rw", "rs", "rc"},
       Alu <- Zero3, MulDivValue <- Zero4, BranchTaken <- Never3,
       BitOr <- Zero2, BitClear <- Zero2

Words == [opcode : Opcodes, rd : Regs, funct3 : Funct3s, rs1 : Regs,
          rs2 : Rs2s, funct7 : Funct7s]

Init == word \in {w \in Words : w.rd = 0 /\ w.rs1 = 0 /\ w.rs2 = 0}

SetRd  == \E r \in Regs : word' = [word EXCEPT !.rd = r]
SetRs1 == \E r \in Regs : word' = [word EXCEPT !.rs1 = r]
SetRs2 == \E r \in Rs2s : word' = [word EXCEPT !.rs2 = r]

Next == SetRd \/ SetRs1 \/ SetRs2
Spec == Init /\ [][Next]_word

\* The class of abstract instruction a bundle stands for.
ClassOf(c) ==
  CASE c.is_illegal -> "illegal"  [] c.is_ecall -> "ecall"
    [] c.is_ebreak  -> "ebreak"   [] c.is_mret  -> "mret"
    [] c.is_csr     -> IF c.imm_fmt = "Z" THEN "csri" ELSE "csr"
    [] c.jump       -> IF c.jalr THEN "jalr" ELSE "jal"
    [] c.branch     -> "branch"   [] c.mem_read -> "load"
    [] c.mem_write  -> "store"
    [] c.is_muldiv  -> IF c.muldiv_op < 4 THEN "mul" ELSE "div"
    [] c.reg_write /\ c.uses_rs1 -> IF c.uses_rs2 THEN "alu" ELSE "alui"
    [] c.reg_write /\ ~c.uses_rs1 -> IF c.alu_src_a = "PC" THEN "auipc" ELSE "lui"
    [] OTHER        -> "nop"
Abstract(c) == [op |-> ClassOf(c)]

-----------------------------------------------------------------------------
(* DecodersAgree: the decoder and the reference model written from the ISA *)
(* give every word the same bundle, the reserved encodings between the     *)
(* bit-manipulation groups included (test_core_verilator compares them on  *)
(* random words).                                                          *)
DecodersAgree == Decoded(word) = R!decode(word)

(* AbstractionSound: for every word the control signals the hazard unit,   *)
(* the forwarding network and the execute stage read are those the         *)
(* pipeline model derives from the class of the instruction alone, so no   *)
(* encoding claims a source it does not have or hides one it does.         *)
AbstractionSound ==
  LET c == Decoded(word)
      i == Abstract(c)
  IN  /\ A!UsesRs1(i) = c.uses_rs1 /\ A!UsesRs2(i) = c.uses_rs2
      /\ A!RegWrite(i) = c.reg_write
      /\ A!MemRead(i) = c.mem_read /\ A!MemWrite(i) = c.mem_write
      /\ A!IsMulDiv(i) = c.is_muldiv /\ A!IsCsr(i) = c.is_csr
      /\ A!IsJump(i) = c.jump
      /\ A!ResultSel(i) = CASE c.result_sel = "MEM" -> "mem"
                            [] c.result_sel = "PC4" -> "pc4"
                            [] c.result_sel = "CSR" -> "csr"
                            [] OTHER -> "alu"

(* RegistersInert: a field that is only a register number never changes    *)
(* what an instruction is: rd and rs1 matter to the bundle in SYSTEM       *)
(* alone, rs2 only where it is not read as a register.                     *)
Inert ==
  LET c == Decoded(word)
  IN  /\ ~c.is_illegal /\ word.opcode # "SYSTEM"
      /\ word'.rs2 # word.rs2 => c.uses_rs2
      => Decoded(word') = c
RegistersInert == [][Inert]_word

(* IllegalHasNoEffect: a word outside the ISA enables nothing, whatever    *)
(* its opcode set before legality was known.                               *)
IllegalHasNoEffect == Decoded(word).is_illegal => Decoded(word) = Ctrl
=============================================================================
