------------------------------- MODULE Decode -------------------------------
(***************************************************************************)
(* rvntt_decode: the control bundle of an instruction word.  A word is its *)
(* fields [opcode, rd, funct3, rs1, rs2, funct7]; the opcodes have names   *)
(* and "other" is every value the core has no arm for, compressed words    *)
(* included.  funct12 is funct7 and rs2.                                   *)
(***************************************************************************)
EXTENDS Integers, TLC

Ctrl == [reg_write |-> FALSE, mem_read |-> FALSE, mem_write |-> FALSE,
         mem_op |-> 0, branch |-> FALSE, jump |-> FALSE, jalr |-> FALSE,
         alu_op |-> "ADD", alu_src_a |-> "RS1", alu_src_b |-> "RS2",
         result_sel |-> "ALU", imm_fmt |-> "NONE", uses_rs1 |-> FALSE,
         uses_rs2 |-> FALSE, is_ecall |-> FALSE, is_ebreak |-> FALSE,
         is_mret |-> FALSE, is_csr |-> FALSE, is_muldiv |-> FALSE,
         muldiv_op |-> 0, is_bitmanip |-> FALSE, bm_op |-> "NONE",
         is_illegal |-> TRUE]
Legal == [is_illegal |-> FALSE]

F7Base(w) == w.funct7 = 0
F7Alt(w)  == w.funct7 = 32
BaseOnly(w)  == [is_illegal |-> ~F7Base(w)]
BaseOrAlt(w) == [is_illegal |-> ~(F7Base(w) \/ F7Alt(w))]

\* bm_op_r, by funct7
BmOpR(w) ==
  CASE w.funct7 = 16 /\ w.funct3 = 2 -> "SH1ADD"  [] w.funct7 = 16 /\ w.funct3 = 4 -> "SH2ADD"
    [] w.funct7 = 16 /\ w.funct3 = 6 -> "SH3ADD"  [] w.funct7 = 32 /\ w.funct3 = 4 -> "XNOR"
    [] w.funct7 = 32 /\ w.funct3 = 6 -> "ORN"     [] w.funct7 = 32 /\ w.funct3 = 7 -> "ANDN"
    [] w.funct7 = 5 /\ w.funct3 = 4 -> "MIN"      [] w.funct7 = 5 /\ w.funct3 = 5 -> "MINU"
    [] w.funct7 = 5 /\ w.funct3 = 6 -> "MAX"      [] w.funct7 = 5 /\ w.funct3 = 7 -> "MAXU"
    [] w.funct7 = 48 /\ w.funct3 = 1 -> "ROL"     [] w.funct7 = 48 /\ w.funct3 = 5 -> "ROR"
    [] w.funct7 = 20 /\ w.funct3 = 1 -> "BSET"    [] w.funct7 = 36 /\ w.funct3 = 1 -> "BCLR"
    [] w.funct7 = 36 /\ w.funct3 = 5 -> "BEXT"    [] w.funct7 = 52 /\ w.funct3 = 1 -> "BINV"
    [] w.funct7 = 4 /\ w.funct3 = 4 -> "PACK"     [] w.funct7 = 4 /\ w.funct3 = 7 -> "PACKH"
    [] w.funct7 = 7 /\ w.funct3 = 5 -> "CZEQZ"    [] w.funct7 = 7 /\ w.funct3 = 7 -> "CZNEZ"
    [] OTHER -> "NONE"

\* The unary group differs in the rs2 field only; 3, 6 and 7 are reserved.
UnaryAny(rs2) == CASE rs2 = 0 -> "CLZ" [] rs2 = 1 -> "CTZ"     \* fault
                   [] rs2 = 4 -> "SEXTB" [] rs2 = 5 -> "SEXTH"
                   [] OTHER -> "CPOP"
Unary(rs2) == CASE rs2 = 0 -> "CLZ" [] rs2 = 1 -> "CTZ" [] rs2 = 2 -> "CPOP"
                [] rs2 = 4 -> "SEXTB" [] rs2 = 5 -> "SEXTH"
                [] OTHER -> "NONE"
Only(rs2, value, op) == IF rs2 = value THEN op ELSE "NONE"

\* bm_op_i
BmOpI(w) ==
  CASE w.funct7 = 48 /\ w.funct3 = 1 -> Unary(w.rs2)
    [] w.funct7 = 48 /\ w.funct3 = 5 -> "ROR"
    [] w.funct7 = 20 /\ w.funct3 = 1 -> "BSET"
    [] w.funct7 = 20 /\ w.funct3 = 5 -> Only(w.rs2, 7, "ORCB")
    [] w.funct7 = 36 /\ w.funct3 = 1 -> "BCLR"
    [] w.funct7 = 36 /\ w.funct3 = 5 -> "BEXT"
    [] w.funct7 = 52 /\ w.funct3 = 1 -> "BINV"
    [] w.funct7 = 52 /\ w.funct3 = 5 /\ w.rs2 = 24 -> "REV8"
    [] w.funct7 = 52 /\ w.funct3 = 5 /\ w.rs2 # 24 -> Only(w.rs2, 7, "BREV8")
    [] w.funct7 = 4 /\ w.funct3 = 1 -> Only(w.rs2, 15, "ZIP")
    [] w.funct7 = 4 /\ w.funct3 = 5 -> Only(w.rs2, 15, "UNZIP")
    [] OTHER -> "NONE"

OpTableImm(w) == BmOpI(w)                                 \* fault
OpTable(w) == BmOpR(w)

AluOfF3(f3) == CASE f3 = 0 -> "ADD" [] f3 = 2 -> "SLT" [] f3 = 3 -> "SLTU"
                 [] f3 = 4 -> "XOR" [] f3 = 6 -> "OR" [] f3 = 7 -> "AND"
                 [] f3 = 1 -> "SLL" [] OTHER -> "SRL"

ToImm == [alu_src_b |-> "IMM"]
PcPlusImm == [alu_src_a |-> "PC", alu_src_b |-> "IMM"]

Bitmanip(op) == [is_bitmanip |-> TRUE, bm_op |-> op] @@ Legal

OpImm(w) ==
  [reg_write |-> TRUE, uses_rs1 |-> TRUE, imm_fmt |-> "I"] @@ ToImm @@
  CASE BmOpI(w) # "NONE" -> Bitmanip(BmOpI(w))
    [] BmOpI(w) = "NONE" /\ w.funct3 = 1 -> [alu_op |-> "SLL"] @@ BaseOnly(w)
    [] BmOpI(w) = "NONE" /\ w.funct3 = 5 ->
         [alu_op |-> IF F7Alt(w) THEN "SRA" ELSE "SRL"] @@ BaseOrAlt(w)
    [] OTHER -> [alu_op |-> AluOfF3(w.funct3)] @@ Legal

Op(w) ==
  [reg_write |-> TRUE, uses_rs1 |-> TRUE, uses_rs2 |-> TRUE] @@
  CASE w.funct7 = 1 -> [is_muldiv |-> TRUE, muldiv_op |-> w.funct3] @@ Legal
    [] w.funct7 # 1 /\ OpTable(w) # "NONE" -> Bitmanip(OpTable(w))
    [] w.funct7 # 1 /\ OpTable(w) = "NONE" /\ w.funct3 = 0 ->
         [alu_op |-> IF F7Alt(w) THEN "SUB" ELSE "ADD"] @@ BaseOrAlt(w)
    [] w.funct7 # 1 /\ OpTable(w) = "NONE" /\ w.funct3 = 5 ->
         [alu_op |-> IF F7Alt(w) THEN "SRA" ELSE "SRL"] @@ BaseOrAlt(w)
    [] OTHER -> [alu_op |-> AluOfF3(w.funct3)] @@ BaseOnly(w)

Priv(w) ==
  CASE w.rd # 0 \/ w.rs1 # 0         -> Ctrl
    [] w.funct7 = 0 /\ w.rs2 = 0     -> [is_ecall |-> TRUE] @@ Legal
    [] w.funct7 = 0 /\ w.rs2 = 1     -> [is_ebreak |-> TRUE] @@ Legal
    [] w.funct7 = 24 /\ w.rs2 = 2    -> [is_mret |-> TRUE] @@ Legal
    [] w.funct7 = 8 /\ w.rs2 = 5     -> Legal                   \* WFI
    [] OTHER                         -> Ctrl

Csr(w) == [is_csr |-> TRUE, reg_write |-> TRUE, result_sel |-> "CSR"] @@ Legal
CsrImmReads(w) ==                                         \* fault
  Csr(w) @@ [imm_fmt |-> "Z", uses_rs1 |-> TRUE]
CsrImm(w) == Csr(w) @@ [imm_fmt |-> "Z"]
System(w) ==
  CASE w.funct3 = 0         -> Priv(w)
    [] w.funct3 \in 1 .. 3  -> Csr(w) @@ [imm_fmt |-> "I", uses_rs1 |-> TRUE]
    [] w.funct3 \in 5 .. 7  -> CsrImm(w)
    [] OTHER                -> Ctrl

\* What the arm of the opcode assigns.
Arm(w) ==
  CASE w.opcode = "LUI"   -> [reg_write |-> TRUE, imm_fmt |-> "U",
                              alu_op |-> "PASS_B"] @@ ToImm @@ Legal
    [] w.opcode = "AUIPC" -> [reg_write |-> TRUE, imm_fmt |-> "U"] @@ PcPlusImm @@ Legal
    [] w.opcode = "JAL"   -> [reg_write |-> TRUE, jump |-> TRUE, imm_fmt |-> "J",
                              result_sel |-> "PC4"] @@ PcPlusImm @@ Legal
    [] w.opcode = "JALR" /\ w.funct3 = 0 ->
         [reg_write |-> TRUE, jump |-> TRUE, jalr |-> TRUE, uses_rs1 |-> TRUE,
          imm_fmt |-> "I", result_sel |-> "PC4"] @@ ToImm @@ Legal
    [] w.opcode = "BRANCH" /\ w.funct3 \notin {2, 3} ->
         [branch |-> TRUE, uses_rs1 |-> TRUE, uses_rs2 |-> TRUE,
          imm_fmt |-> "B"] @@ PcPlusImm @@ Legal
    [] w.opcode = "LOAD" /\ w.funct3 \in {0, 1, 2, 4, 5} ->
         [reg_write |-> TRUE, mem_read |-> TRUE, mem_op |-> w.funct3,
          uses_rs1 |-> TRUE, imm_fmt |-> "I", result_sel |-> "MEM"] @@ ToImm @@ Legal
    [] w.opcode = "STORE" /\ w.funct3 \in {0, 1, 2} ->
         [mem_write |-> TRUE, mem_op |-> w.funct3, uses_rs1 |-> TRUE,
          uses_rs2 |-> TRUE, imm_fmt |-> "S"] @@ ToImm @@ Legal
    [] w.opcode = "OP_IMM" -> OpImm(w)
    [] w.opcode = "OP"     -> Op(w)
    [] w.opcode = "MISC_MEM" /\ w.funct3 = 0 -> Legal
    [] w.opcode = "SYSTEM" -> System(w)
    [] OTHER -> Ctrl

\* The closing rule: an illegal word has the reset bundle.
Unsquashed(w) == Arm(w) @@ Ctrl                           \* fault
Decoded(w) == LET c == Arm(w) @@ Ctrl IN IF c.is_illegal THEN Ctrl ELSE c
=============================================================================
