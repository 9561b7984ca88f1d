----------------------------- MODULE DecodeModel -----------------------------
(***************************************************************************)
(* model/rv32i_ref.py's decode(): the bundle as a dict that starts blank   *)
(* and is updated, with the bit-manipulation encodings in two tables.      *)
(***************************************************************************)
EXTENDS Integers, TLC

CTRL_FIELDS ==
  {"reg_write", "mem_read", "mem_write", "mem_op", "branch", "jump", "jalr",
   "alu_op", "alu_src_a", "alu_src_b", "result_sel", "imm_fmt", "uses_rs1",
   "uses_rs2", "is_ecall", "is_ebreak", "is_mret", "is_csr", "is_muldiv",
   "muldiv_op", "is_bitmanip", "bm_op", "is_illegal"}

\* The member of each enumeration with encoding 0.
Zero(f) == CASE f = "alu_op" -> "ADD" [] f = "alu_src_a" -> "RS1"
             [] f = "alu_src_b" -> "RS2" [] f = "result_sel" -> "ALU"
             [] f = "imm_fmt" -> "NONE" [] f = "bm_op" -> "NONE"
             [] f \in {"mem_op", "muldiv_op"} -> 0
             [] OTHER -> FALSE
BlankCtrl == [f \in CTRL_FIELDS |-> IF f = "is_illegal" THEN TRUE ELSE Zero(f)]

BM_OP_R ==
  {<<16, 2, "SH1ADD">>, <<16, 4, "SH2ADD">>, <<16, 6, "SH3ADD">>, <<32, 4, "XNOR">>,
   <<32, 6, "ORN">>, <<32, 7, "ANDN">>, <<5, 4, "MIN">>, <<5, 5, "MINU">>,
   <<5, 6, "MAX">>, <<5, 7, "MAXU">>, <<48, 1, "ROL">>, <<48, 5, "ROR">>,
   <<20, 1, "BSET">>, <<36, 1, "BCLR">>, <<36, 5, "BEXT">>, <<52, 1, "BINV">>,
   <<4, 4, "PACK">>, <<4, 7, "PACKH">>, <<7, 5, "CZEQZ">>, <<7, 7, "CZNEZ">>}

AnyRs2 == 0 .. 31
BM_OP_I ==
  {<<48, 1, {0}, "CLZ">>, <<48, 1, {1}, "CTZ">>, <<48, 1, {2}, "CPOP">>,
   <<48, 1, {4}, "SEXTB">>, <<48, 1, {5}, "SEXTH">>, <<48, 5, AnyRs2, "ROR">>,
   <<20, 1, AnyRs2, "BSET">>, <<20, 5, {7}, "ORCB">>, <<36, 1, AnyRs2, "BCLR">>,
   <<36, 5, AnyRs2, "BEXT">>, <<52, 1, AnyRs2, "BINV">>, <<52, 5, {24}, "REV8">>,
   <<52, 5, {7}, "BREV8">>, <<4, 1, {15}, "ZIP">>, <<4, 5, {15}, "UNZIP">>}

BmR(w) == {r[3] : r \in {x \in BM_OP_R : x[1] = w.funct7 /\ x[2] = w.funct3}}
BmI(w) == {r[4] : r \in {x \in BM_OP_I : /\ x[1] = w.funct7 /\ x[2] = w.funct3
                                         /\ w.rs2 \in x[3]}}

ALU_BY_F3 == 0 :> "ADD" @@ 2 :> "SLT" @@ 3 :> "SLTU" @@ 4 :> "XOR" @@ 6 :> "OR"
             @@ 7 :> "AND"

\* A shift or an operation, legal under the funct7 values given.
Alu(w, op, f7s) == [alu_op |-> op, is_illegal |-> w.funct7 \notin f7s]
Right(w) == Alu(w, IF w.funct7 = 32 THEN "SRA" ELSE "SRL", {0, 32})

UpdateOpImm(w) ==
  CASE BmI(w) # {} -> [is_bitmanip |-> TRUE, bm_op |-> CHOOSE o \in BmI(w) : TRUE,
                       is_illegal |-> FALSE]
    [] BmI(w) = {} /\ w.funct3 \in DOMAIN ALU_BY_F3 ->
         [alu_op |-> ALU_BY_F3[w.funct3], is_illegal |-> FALSE]
    [] BmI(w) = {} /\ w.funct3 = 1 -> Alu(w, "SLL", {0})
    [] OTHER -> Right(w)

UpdateOp(w) ==
  CASE w.funct7 = 1 -> [is_muldiv |-> TRUE, muldiv_op |-> w.funct3, is_illegal |-> FALSE]
    [] w.funct7 # 1 /\ BmR(w) # {} ->
         [is_bitmanip |-> TRUE, bm_op |-> CHOOSE o \in BmR(w) : TRUE, is_illegal |-> FALSE]
    [] w.funct7 # 1 /\ BmR(w) = {} /\ w.funct3 = 0 ->
         Alu(w, IF w.funct7 = 32 THEN "SUB" ELSE "ADD", {0, 32})
    [] w.funct7 # 1 /\ BmR(w) = {} /\ w.funct3 = 5 -> Right(w)
    [] w.funct7 # 1 /\ BmR(w) = {} /\ w.funct3 = 1 -> Alu(w, "SLL", {0})
    [] OTHER -> Alu(w, ALU_BY_F3[w.funct3], {0})

\* funct12 of the words without operands
PRIV == {<<0, 0, "is_ecall">>, <<0, 1, "is_ebreak">>, <<24, 2, "is_mret">>, <<8, 5, "wfi">>}

UpdateSystem(w) ==
  LET named == {p[3] : p \in {q \in PRIV : q[1] = w.funct7 /\ q[2] = w.rs2}}
      csr == [is_csr |-> TRUE, reg_write |-> TRUE, result_sel |-> "CSR",
              is_illegal |-> FALSE]
  IN  CASE w.funct3 = 0 /\ w.rd = 0 /\ w.rs1 = 0 /\ named # {} ->
             [f \in (named \cap CTRL_FIELDS) \cup {"is_illegal"} |-> f # "is_illegal"]
        [] w.funct3 \in {1, 2, 3} -> csr @@ [uses_rs1 |-> TRUE, imm_fmt |-> "I"]
        [] w.funct3 \in {5, 6, 7} -> csr @@ [imm_fmt |-> "Z"]
        [] OTHER -> BlankCtrl

\* The updates of one opcode, given as one function of the fields they set.
Update(w) ==
  LET legal == [is_illegal |-> FALSE]
      f3In(s) == [is_illegal |-> w.funct3 \notin s]
  IN CASE w.opcode = "LUI" ->
            legal @@ [reg_write |-> TRUE, imm_fmt |-> "U", alu_op |-> "PASS_B", alu_src_b |-> "IMM"]
       [] w.opcode = "AUIPC" ->
            legal @@ [reg_write |-> TRUE, imm_fmt |-> "U", alu_src_a |-> "PC", alu_src_b |-> "IMM"]
       [] w.opcode = "JAL" ->
            legal @@ [reg_write |-> TRUE, jump |-> TRUE, imm_fmt |-> "J", alu_src_a |-> "PC",
                      alu_src_b |-> "IMM", result_sel |-> "PC4"]
       [] w.opcode = "JALR" ->
            f3In({0}) @@ [reg_write |-> TRUE, jump |-> TRUE, jalr |-> TRUE, uses_rs1 |-> TRUE,
                          imm_fmt |-> "I", alu_src_b |-> "IMM", result_sel |-> "PC4"]
       [] w.opcode = "BRANCH" ->
            f3In({0, 1, 4, 5, 6, 7}) @@ [branch |-> TRUE, uses_rs1 |-> TRUE, uses_rs2 |-> TRUE,
                                         imm_fmt |-> "B", alu_src_a |-> "PC", alu_src_b |-> "IMM"]
       [] w.opcode = "LOAD" ->
            f3In({0, 1, 2, 4, 5}) @@ [reg_write |-> TRUE, mem_read |-> TRUE, mem_op |-> w.funct3,
                                      uses_rs1 |-> TRUE, imm_fmt |-> "I", alu_src_b |-> "IMM",
                                      result_sel |-> "MEM"]
       [] w.opcode = "STORE" ->
            f3In({0, 1, 2}) @@ [mem_write |-> TRUE, mem_op |-> w.funct3, uses_rs1 |-> TRUE,
                                uses_rs2 |-> TRUE, imm_fmt |-> "S", alu_src_b |-> "IMM"]
       [] w.opcode = "OP_IMM" ->
            UpdateOpImm(w) @@ [reg_write |-> TRUE, uses_rs1 |-> TRUE, imm_fmt |-> "I",
                               alu_src_b |-> "IMM"]
       [] w.opcode = "OP" ->
            UpdateOp(w) @@ [reg_write |-> TRUE, uses_rs1 |-> TRUE, uses_rs2 |-> TRUE]
       [] w.opcode = "MISC_MEM" -> f3In({0})
       [] w.opcode = "SYSTEM"   -> UpdateSystem(w)
       [] OTHER -> BlankCtrl

decode(w) == LET c == Update(w) @@ BlankCtrl
             IN  IF c.is_illegal THEN BlankCtrl ELSE c
=============================================================================
