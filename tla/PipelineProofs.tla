--------------------------- MODULE PipelineProofs ---------------------------
(***************************************************************************)
(* PipelineInv is an invariant of the pipeline, for every word size,       *)
(* register count, program, latency and predictor, and with it the         *)
(* properties that follow from it: the forwarding selects, the operands,   *)
(* the fetched word and what retires.  Type correctness comes first.       *)
(***************************************************************************)
EXTENDS CoreProps, TLAPS

-----------------------------------------------------------------------------
(* What the operators of Insn return: words, register numbers and CSR      *)
(* files, whatever the instruction and its operands.                       *)

(* Every instruction, and the all-zero control bundle of a bubble. *)
AnyInsn == InsnOf(Ops \cup {"none"})

(* AddWord: word addition stays a word. *)
LEMMA AddWord ==
  ASSUME NEW a \in Word, NEW b \in Word
  PROVE  Add(a, b) \in Word
  BY WordAssumption DEF Add, Word

(* SmallWords: small constants are words: the increment of the pc, the     *)
(* causes of traps.                                                        *)
LEMMA SmallWords ==
  /\ 0 \in Word /\ 2 \in Word /\ 3 \in Word /\ 4 \in Word /\ 6 \in Word
  /\ 11 \in Word
  BY WordAssumption DEF Word

(* AlignWord: clearing low address bits stays a word. *)
LEMMA AlignWord ==
  ASSUME NEW a \in Word
  PROVE  AlignTo(2, a) \in Word /\ AlignTo(4, a) \in Word
  BY WordAssumption DEF AlignTo, Word

(* SlotSlots: a word address selects a slot of the RAM. *)
LEMMA SlotSlots ==
  ASSUME NEW a \in Word
  PROVE  Slot(a) \in Slots
  BY WordAssumption DEF Slot, Slots, Word

(* ZeroReg: x0 is a register. *)
LEMMA ZeroReg == 0 \in Reg
  BY WordAssumption DEF Reg

(* DatapathWord: the datapath returns words (DatapathAssumption, one       *)
(* operator at a time).                                                    *)
LEMMA DatapathWord ==
  ASSUME NEW fn \in Fns, NEW a \in Word, NEW b \in Word
  PROVE  /\ Alu(fn, a, b) \in Word
         /\ \A op \in MulDivOps : MulDivValue(op, fn, a, b) \in Word
         /\ BranchTaken(fn, a, b) \in BOOLEAN
         /\ BitOr(a, b) \in Word /\ BitClear(a, b) \in Word
  BY DatapathAssumption

(* CsrReadWord: a CSR reads as a word. *)
LEMMA CsrReadWord ==
  ASSUME NEW file \in CsrFile, NEW name \in CsrNames
  PROVE  CsrRead(file, name) \in Word
<1>1. CASE name = "mtvec"    BY <1>1 DEF CsrRead, CsrFile
<1>2. CASE name = "mscratch" BY <1>2 DEF CsrRead, CsrFile
<1>3. CASE name = "mepc"     BY <1>3 DEF CsrRead, CsrFile
<1>4. CASE name = "mcause"   BY <1>4 DEF CsrRead, CsrFile
<1>5. CASE name = "mtval"    BY <1>5 DEF CsrRead, CsrFile
<1>6. CASE name \in {"minstret", "instret"}
  <2>1. CsrRead(file, name) = file.minstret  BY <1>6 DEF CsrRead
  <2> QED  BY <2>1, WordAssumption DEF CsrFile, Word
<1>7. CASE name \in {"mhartid", "unknown"}
  BY <1>7, SmallWords DEF CsrRead
<1> QED  BY <1>1, <1>2, <1>3, <1>4, <1>5, <1>6, <1>7
         DEF CsrNames, CsrWritable, CsrReadOnly

(* CsrWdataWord: so is what an access writes. *)
LEMMA CsrWdataWord ==
  ASSUME NEW file \in CsrFile, NEW i \in AnyInsn, NEW a \in Word
  PROVE  CsrWdata(file, i, a) \in Word
<1> DEFINE old == CsrRead(file, i.csr)
           src == CsrSource(i, a)
<1>1. old \in Word  BY CsrReadWord DEF AnyInsn, InsnOf
<1>2. src \in Word  BY DEF CsrSource, AnyInsn, InsnOf
<1>3. "rw" \in Fns  BY FnsAssumption
<1>4. BitOr(old, src) \in Word /\ BitClear(old, src) \in Word
  BY <1>1, <1>2, <1>3, DatapathWord
<1> QED  BY <1>2, <1>4 DEF CsrWdata

(* TargetsWord: data addresses and jump targets are words. *)
LEMMA TargetsWord ==
  ASSUME NEW i \in AnyInsn, NEW at \in Word, NEW a \in Word
  PROVE  MemAddr(i, a) \in Word /\ JumpTarget(i, at, a) \in Word
<1>1. i.imm \in Word  BY DEF AnyInsn, InsnOf
<1>2. MemAddr(i, a) \in Word /\ Add(at, i.imm) \in Word
  BY <1>1, AddWord DEF MemAddr
<1> QED  BY <1>2, AlignWord DEF JumpTarget

(* TrapType: a trap's cause and value are words, and NoTrap's cause is not *)
(* a cause.                                                                *)
LEMMA TrapType ==
  ASSUME NEW i \in AnyInsn, NEW at \in Word, NEW a \in Word, NEW b \in Word,
         TrapOf(i, at, a, b).cause # -1
  PROVE  /\ TrapOf(i, at, a, b).cause \in Word
         /\ TrapOf(i, at, a, b).val \in Word
<1> DEFINE t == TrapOf(i, at, a, b)
           target == JumpTarget(i, at, a)
           addr == MemAddr(i, a)
<1>1. i.word \in Word /\ target \in Word /\ addr \in Word
  BY TargetsWord DEF AnyInsn, InsnOf
<1>2. t \in { [cause |-> 2, val |-> i.word], [cause |-> 11, val |-> 0],
              [cause |-> 3, val |-> at], [cause |-> 0, val |-> target],
              [cause |-> 4, val |-> addr], [cause |-> 6, val |-> addr],
              NoTrap }
  BY DEF TrapOf
<1>3. t # NoTrap  BY DEF NoTrap
<1> HIDE DEF t, target, addr
<1>4. t.cause \in Word /\ t.val \in Word
  BY <1>1, <1>2, <1>3, SmallWords
<1> QED  BY <1>4 DEF t

(* SimpleResultWord: the single-cycle result is a word. *)
LEMMA SimpleResultWord ==
  ASSUME NEW i \in AnyInsn, NEW at \in Word, NEW a \in Word, NEW b \in Word,
         NEW file \in CsrFile
  PROVE  SimpleResult(i, at, a, b, file) \in Word
<1>1. i.fn \in Fns /\ i.imm \in Word /\ i.csr \in CsrNames
  BY DEF AnyInsn, InsnOf
<1>2. CsrRead(file, i.csr) \in Word  BY <1>1, CsrReadWord
<1>3. Alu(i.fn, a, b) \in Word /\ Alu(i.fn, a, i.imm) \in Word
  BY <1>1, DatapathWord
<1>4. Add(at, i.imm) \in Word /\ MemAddr(i, a) \in Word
  BY <1>1, AddWord DEF MemAddr
<1> QED  BY <1>1, <1>2, <1>3, <1>4 DEF SimpleResult

(* CsrAfterType: an instruction leaves a CSR file a CSR file. *)
LEMMA CsrAfterType ==
  ASSUME NEW file \in CsrFile, NEW i \in AnyInsn, NEW at \in Word,
         NEW a \in Word, NEW t,
         t.cause # -1 => t.cause \in Word /\ t.val \in Word
  PROVE  CsrAfter(file, i, at, a, t) \in CsrFile
<1> DEFINE w == CsrWdata(file, i, a)
<1>1. w \in Word  BY CsrWdataWord
<1>2. AlignTo(4, at) \in Word /\ AlignTo(4, w) \in Word
  BY <1>1, AlignWord
<1>3. Minstret(file, i, a) \in 0 .. InstretMod - 1
  <2>1. CsrWdata(file, i, a) % InstretMod \in 0 .. InstretMod - 1
    BY <1>1, WordAssumption DEF Word
  <2>2. (file.minstret + 1) % InstretMod \in 0 .. InstretMod - 1
    BY WordAssumption DEF CsrFile
  <2> QED  BY <2>1, <2>2 DEF Minstret
<1>4. CASE t.cause # -1
  BY <1>2, <1>4 DEF CsrAfter, CsrFile
<1>5. CASE t.cause = -1 /\ i.op = "mret"
  BY <1>3, <1>5 DEF CsrAfter, CsrFile
<1>6. CASE t.cause = -1 /\ i.op # "mret"
  <2> HIDE DEF w
  <2>1. CsrAfter(file, i, at, a, t) =
          [file EXCEPT
             !.mtvec    = IF CsrDoWrite(i) /\ i.csr = "mtvec" THEN AlignTo(4, w) ELSE @,
             !.mepc     = IF CsrDoWrite(i) /\ i.csr = "mepc" THEN AlignTo(4, w) ELSE @,
             !.mscratch = IF CsrDoWrite(i) /\ i.csr = "mscratch" THEN w ELSE @,
             !.mcause   = IF CsrDoWrite(i) /\ i.csr = "mcause" THEN w ELSE @,
             !.mtval    = IF CsrDoWrite(i) /\ i.csr = "mtval" THEN w ELSE @,
             !.minstret = Minstret(file, i, a)]
    BY <1>6 DEF CsrAfter, w
  <2> QED  BY <1>1, <1>2, <1>3, <2>1 DEF CsrFile
<1> QED  BY <1>4, <1>5, <1>6

(* NextPcWord: the redirect target is a word in every case. *)
LEMMA NextPcWord ==
  ASSUME NEW i \in AnyInsn, NEW at \in Word, NEW a \in Word, NEW b \in Word,
         NEW file \in CsrFile
  PROVE  NextPc(i, at, a, b, file) \in Word
<1>1. JumpTarget(i, at, a) \in Word /\ Add(at, 4) \in Word
  BY TargetsWord, AddWord, SmallWords
<1>2. file.mtvec \in Word /\ file.mepc \in Word  BY DEF CsrFile
<1> QED  BY <1>1, <1>2 DEF NextPc

(* OnlySourcesMatter: outside the multi-cycle unit, whose operands are     *)
(* captured, what an instruction does depends on a source register's value *)
(* only if the decoder says it reads that register.                        *)
LEMMA OnlySourcesMatter ==
  ASSUME NEW i \in AnyInsn, NEW at \in Word, NEW file \in CsrFile, NEW t,
         NEW a \in Word, NEW b \in Word, NEW c \in Word, NEW d \in Word,
         UsesRs1(i) /\ ~IsMulDiv(i) => a = c,
         UsesRs2(i) /\ ~IsMulDiv(i) => b = d
  PROVE  /\ TrapOf(i, at, a, b) = TrapOf(i, at, c, d)
         /\ NextPc(i, at, a, b, file) = NextPc(i, at, c, d, file)
         /\ CsrAfter(file, i, at, a, t) = CsrAfter(file, i, at, c, t)
         /\ MemRead(i) \/ MemWrite(i) => MemAddr(i, a) = MemAddr(i, c)
         /\ MemWrite(i) => b = d
         /\ RegWrite(i) /\ ~IsMulDiv(i) =>
              SimpleResult(i, at, a, b, file) = SimpleResult(i, at, c, d, file)
<1>1. MemRead(i) \/ MemWrite(i) \/ i.op = "jalr" =>
        MemAddr(i, a) = MemAddr(i, c)
  BY DEF MemRead, MemWrite, UsesRs1, IsMulDiv, MulDivOps
<1>2. JumpTarget(i, at, a) = JumpTarget(i, at, c)
  BY <1>1 DEF JumpTarget
<1>3. CtrlXfer(i, a, b) = CtrlXfer(i, c, d)
  <2>1. CASE i.op = "branch"
    <3>1. a = c /\ b = d  BY <2>1 DEF UsesRs1, UsesRs2, IsMulDiv, MulDivOps
    <3> QED  BY <3>1
  <2>2. CASE i.op # "branch"  BY <2>2 DEF CtrlXfer
  <2> QED  BY <2>1, <2>2
<1>4. TrapOf(i, at, a, b) = TrapOf(i, at, c, d)
  BY <1>1, <1>2, <1>3 DEF TrapOf
<1>5. NextPc(i, at, a, b, file) = NextPc(i, at, c, d, file)
  BY <1>2, <1>3, <1>4 DEF NextPc, Traps
<1>6. CsrAfter(file, i, at, a, t) = CsrAfter(file, i, at, c, t)
  <2>1. CASE IsCsr(i)
    <3>1. CsrSource(i, a) = CsrSource(i, c)
      BY <2>1 DEF CsrSource, IsCsr, UsesRs1, IsMulDiv, MulDivOps
    <3>2. CsrWdata(file, i, a) = CsrWdata(file, i, c)  BY <3>1 DEF CsrWdata
    <3>3. Minstret(file, i, a) = Minstret(file, i, c)  BY <3>2 DEF Minstret
    <3> QED  BY <3>2, <3>3 DEF CsrAfter
  <2>2. CASE ~IsCsr(i)
    <3>1. ~CsrDoWrite(i)  BY <2>2 DEF CsrDoWrite, CsrWen
    <3>2. Minstret(file, i, a) = Minstret(file, i, c)  BY <3>1 DEF Minstret
    <3> QED  BY <3>1, <3>2 DEF CsrAfter
  <2> QED  BY <2>1, <2>2
<1>7. MemWrite(i) => b = d  BY DEF MemWrite, UsesRs2, IsMulDiv, MulDivOps
<1>8. ASSUME RegWrite(i), ~IsMulDiv(i)
      PROVE  SimpleResult(i, at, a, b, file) = SimpleResult(i, at, c, d, file)
  <2>1. CASE i.op \in {"alu", "alui", "load", "jalr"}
    <3>1. a = c  BY <1>8, <2>1 DEF UsesRs1
    <3>2. i.op = "alu" => b = d  BY <1>8 DEF UsesRs2
    <3> QED  BY <2>1, <3>1, <3>2 DEF SimpleResult
  <2>2. CASE i.op \in {"lui", "auipc", "jal", "csr", "csri"}
    BY <2>2 DEF SimpleResult, IsCsr
  <2> QED  BY <1>8, <2>1, <2>2 DEF RegWrite, IsMulDiv, MulDivOps
<1> QED  BY <1>1, <1>4, <1>5, <1>6, <1>7, <1>8

-----------------------------------------------------------------------------
(* The values the stages hand on.                                          *)

(* InsnIsAnyInsn: a fetched instruction is one of AnyInsn, and so is the   *)
(* cleared control bundle.                                                 *)
LEMMA InsnIsAnyInsn ==
  /\ Insn \subseteq AnyInsn
  /\ NoInsn \in AnyInsn
  /\ ZeroInsn \in Insn
<1>1. Insn \subseteq AnyInsn  BY DEF Insn, InsnOf, AnyInsn
<1>2. "rw" \in Fns  BY FnsAssumption
<1>3. NoInsn \in AnyInsn
  BY <1>2, ZeroReg, SmallWords DEF NoInsn, AnyInsn, InsnOf, CsrNames
<1>4. ZeroInsn \in Insn
  BY <1>2, ZeroReg, SmallWords DEF ZeroInsn, NoInsn, Insn, InsnOf, CsrNames, Ops
<1> QED  BY <1>1, <1>3, <1>4

(* StageWords: the values of the forwarding network, the register file's   *)
(* read ports and the instruction in ID are what their names say.          *)
LEMMA StageWords ==
  ASSUME TypeOK
  PROVE  /\ MemResult \in Word /\ ExMemFwdData \in Word
         /\ Rs1Fwd \in Word /\ Rs2Fwd \in Word
         /\ \A r \in Reg : RegRead(r) \in Word
         /\ IfIdInsn \in Insn
<1>1. exmem.result \in Word /\ exmem.pc4 \in Word /\ dmemOut \in Word
      /\ memwb.data \in Word /\ idex.rs1Data \in Word /\ idex.rs2Data \in Word
  BY DEF TypeOK
<1>2. MemResult \in Word  BY <1>1 DEF MemResult
<1>3. ExMemFwdData \in Word  BY <1>1, SmallWords DEF ExMemFwdData
<1>4. Rs1Fwd \in Word /\ Rs2Fwd \in Word
  BY <1>1, <1>3 DEF Rs1Fwd, Rs2Fwd, Operand
<1>5. \A r \in Reg : RegRead(r) \in Word  BY <1>1 DEF RegRead, TypeOK
<1>6. IfIdInsn \in Insn  BY DEF IfIdInsn, TypeOK
<1> QED  BY <1>2, <1>3, <1>4, <1>5, <1>6

(* ExOutputs: EX produces words and a well-formed CSR file; a trap it      *)
(* raises has a cause and a value.                                         *)
LEMMA ExOutputs ==
  ASSUME TypeOK
  PROVE  /\ ExResult \in Word /\ RedirectTarget \in Word /\ DmemAddr \in Word
         /\ CsrAfter(csr, idex.insn, idex.pc, Rs1Fwd, ExTrapInfo) \in CsrFile
<1>1. /\ idex.insn \in AnyInsn /\ idex.pc \in Word /\ csr \in CsrFile
      /\ Rs1Fwd \in Word /\ Rs2Fwd \in Word
  BY StageWords DEF TypeOK, AnyInsn
<1>2. MulDivValue(md.op, md.fn, md.a, md.b) \in Word
  <2>1. md.op \in MulDivOps /\ md.fn \in Fns /\ md.a \in Word /\ md.b \in Word
    BY DEF TypeOK
  <2> QED  BY <2>1, DatapathWord
<1>3. SimpleResult(idex.insn, idex.pc, Rs1Fwd, Rs2Fwd, csr) \in Word
  BY <1>1, SimpleResultWord
<1>4. RedirectTarget \in Word  BY <1>1, NextPcWord DEF RedirectTarget
<1>5. DmemAddr \in Word  BY <1>1, TargetsWord DEF DmemAddr
<1>6. ExTrapInfo.cause # -1 => ExTrapInfo.cause \in Word /\ ExTrapInfo.val \in Word
  <2>1. CASE idex.valid  BY <2>1, <1>1, TrapType DEF ExTrapInfo
  <2>2. CASE ~idex.valid  BY <2>2 DEF ExTrapInfo, NoTrap
  <2> QED  BY <2>1, <2>2
<1>7. CsrAfter(csr, idex.insn, idex.pc, Rs1Fwd, ExTrapInfo) \in CsrFile
  BY <1>1, <1>6, CsrAfterType
<1> QED  BY <1>2, <1>3, <1>4, <1>5, <1>7 DEF ExResult

-----------------------------------------------------------------------------
(* Type correctness.                                                       *)

(* NextStageTypes: what the pipeline registers are loaded with is well     *)
(* formed.                                                                 *)
LEMMA NextStageTypes ==
  ASSUME TypeOK
  PROVE  /\ IdExNext \in
              [valid : BOOLEAN, insn : InsnOf(Ops \cup {"none"}), pc : Word,
               rs1Data : Word, rs2Data : Word, fwdA : FwdSel, fwdB : FwdSel,
               pred : [taken : BOOLEAN, target : Word]]
         /\ ExMemNext \in
              [valid : BOOLEAN, pc : Word, regWrite : BOOLEAN,
               memRead : BOOLEAN, sel : {"alu", "mem", "pc4", "csr"},
               rd : Reg, result : Word, pc4 : Word]
         /\ MdNext \in [active : BOOLEAN, cnt : 0 .. CntMod - 1,
                        op : MulDivOps, fn : Fns, a : Word, b : Word]
<1>1. /\ IfIdInsn \in AnyInsn /\ IfIdInsn.rs1 \in Reg /\ IfIdInsn.rs2 \in Reg
  <2>1. IfIdInsn \in AnyInsn  BY StageWords, InsnIsAnyInsn
  <2> QED  BY <2>1 DEF AnyInsn, InsnOf
<1>2. RegRead(IfIdInsn.rs1) \in Word /\ RegRead(IfIdInsn.rs2) \in Word
  BY <1>1, StageWords
<1>3. IdForward(UsesRs1(IfIdInsn), IfIdInsn.rs1) \in FwdSel
      /\ IdForward(UsesRs2(IfIdInsn), IfIdInsn.rs2) \in FwdSel
  BY DEF IdForward, Forward, FwdSel
<1>4. ifid.valid \in BOOLEAN /\ ifid.pc \in Word
      /\ ifid.pred \in [taken : BOOLEAN, target : Word]
  BY DEF TypeOK
<1>5. IdExNext \in
        [valid : BOOLEAN, insn : InsnOf(Ops \cup {"none"}), pc : Word,
         rs1Data : Word, rs2Data : Word, fwdA : FwdSel, fwdB : FwdSel,
         pred : [taken : BOOLEAN, target : Word]]
  BY <1>1, <1>2, <1>3, <1>4 DEF IdExNext, AnyInsn
<1>6. idex.insn \in AnyInsn /\ idex.valid \in BOOLEAN /\ idex.pc \in Word
      /\ idex.insn.rd \in Reg /\ idex.insn.fn \in Fns
  BY DEF TypeOK, AnyInsn, InsnOf
<1>7. Add(idex.pc, 4) \in Word  BY <1>6, AddWord, SmallWords
<1>8. RegWrite(idex.insn) \in BOOLEAN /\ MemRead(idex.insn) \in BOOLEAN
  BY DEF RegWrite, MemRead
<1>9. ResultSel(idex.insn) \in {"alu", "mem", "pc4", "csr"}
  BY DEF ResultSel
<1>10. ExMemNext \in
         [valid : BOOLEAN, pc : Word, regWrite : BOOLEAN,
          memRead : BOOLEAN, sel : {"alu", "mem", "pc4", "csr"},
          rd : Reg, result : Word, pc4 : Word]
  BY <1>6, <1>7, <1>8, <1>9, ExOutputs DEF ExMemNext
<1>11. MdNext \in [active : BOOLEAN, cnt : 0 .. CntMod - 1,
                   op : MulDivOps, fn : Fns, a : Word, b : Word]
  <2> DEFINE MdType == [active : BOOLEAN, cnt : 0 .. CntMod - 1,
                        op : MulDivOps, fn : Fns, a : Word, b : Word]
  <2>1. md \in MdType  BY DEF TypeOK
  <2>2. [md EXCEPT !.active = FALSE] \in MdType  BY <2>1
  <2>3. [md EXCEPT !.cnt = (@ + 1) % CntMod] \in MdType
    BY <2>1 DEF CntMod
  <2>4. ASSUME MdReq
        PROVE  [active |-> TRUE, cnt |-> 1, op |-> idex.insn.op,
                fn |-> idex.insn.fn, a |-> Rs1Fwd, b |-> Rs2Fwd] \in MdType
    BY <2>4, <1>6, StageWords DEF MdReq, IsMulDiv, CntMod
  <2> HIDE DEF MdType
  <2>5. MdNext \in MdType  BY <2>2, <2>3, <2>4 DEF MdNext
  <2> QED  BY <2>5 DEF MdType
<1> QED  BY <1>5, <1>10, <1>11

(* SharedEdgeTypes: the part of an edge every stage shares keeps the RAM   *)
(* outputs, the hold register, MEM/WB, the register file, the memory, the  *)
(* multi-cycle unit and the CSR file well formed.                          *)
LEMMA SharedEdgeTypes ==
  ASSUME TypeOK, EveryEdge, CsrEdge
  PROVE  /\ prog' \in [Slots -> Insn]
         /\ imemOut' \in Insn /\ insnHold' \in Insn /\ insnHeld' \in BOOLEAN
         /\ md' \in [active : BOOLEAN, cnt : 0 .. CntMod - 1, op : MulDivOps,
                     fn : Fns, a : Word, b : Word]
         /\ dmemOut' \in Word
         /\ memwb' \in [valid : BOOLEAN, pc : Word, regWrite : BOOLEAN,
                        rd : Reg, data : Word]
         /\ regs' \in [Reg -> Word]
         /\ mem' \in [Slots -> Word]
         /\ csr' \in CsrFile
<1>1. prog' \in [Slots -> Insn]  BY DEF EveryEdge, TypeOK
<1>2. imemOut' \in Insn
  <2>1. Slot(pc) \in Slots /\ prog \in [Slots -> Insn]
    BY SlotSlots DEF TypeOK
  <2> QED  BY <2>1 DEF EveryEdge
<1>3. insnHold' \in Insn  BY StageWords DEF EveryEdge, InsnHoldNext
<1>4. insnHeld' \in BOOLEAN  BY DEF EveryEdge
<1>5. md' \in [active : BOOLEAN, cnt : 0 .. CntMod - 1, op : MulDivOps,
               fn : Fns, a : Word, b : Word]
  BY NextStageTypes DEF EveryEdge
<1>6. Slot(DmemAddr) \in Slots /\ mem \in [Slots -> Word]
  BY ExOutputs, SlotSlots DEF TypeOK
<1>7. dmemOut' \in Word  BY <1>6 DEF EveryEdge
<1>8. mem' \in [Slots -> Word]  BY <1>6, StageWords DEF EveryEdge
<1>9. memwb' \in [valid : BOOLEAN, pc : Word, regWrite : BOOLEAN,
                  rd : Reg, data : Word]
  BY StageWords DEF EveryEdge, TypeOK
<1>10. regs' \in [Reg -> Word]
  <2>1. regs \in [Reg -> Word] /\ memwb.rd \in Reg /\ memwb.data \in Word
    BY DEF TypeOK
  <2> QED  BY <2>1 DEF EveryEdge
<1>11. csr' \in CsrFile
  <2>1. csr \in CsrFile  BY DEF TypeOK
  <2> QED  BY <2>1, ExOutputs DEF CsrEdge
<1> QED  BY <1>1, <1>2, <1>3, <1>4, <1>5, <1>7, <1>8, <1>9, <1>10, <1>11

(* EmptyStages: the cleared pipeline registers are well formed.            *)
LEMMA EmptyStages ==
  /\ IdExBubble \in
       [valid : BOOLEAN, insn : InsnOf(Ops \cup {"none"}), pc : Word,
        rs1Data : Word, rs2Data : Word, fwdA : FwdSel, fwdB : FwdSel,
        pred : [taken : BOOLEAN, target : Word]]
  /\ ExMemBubble \in
       [valid : BOOLEAN, pc : Word, regWrite : BOOLEAN, memRead : BOOLEAN,
        sel : {"alu", "mem", "pc4", "csr"}, rd : Reg, result : Word,
        pc4 : Word]
  /\ MemWbBubble \in [valid : BOOLEAN, pc : Word, regWrite : BOOLEAN,
                      rd : Reg, data : Word]
  /\ \A a \in Word : IfIdEmpty(a) \in
       [valid : BOOLEAN, pc : Word, pred : [taken : BOOLEAN, target : Word]]
  /\ CsrReset \in CsrFile
<1>1. NoInsn \in InsnOf(Ops \cup {"none"})  BY InsnIsAnyInsn DEF AnyInsn
<1>2. 0 \in Word /\ 0 \in Reg  BY SmallWords, ZeroReg
<1>3. CsrReset \in CsrFile
  <2>1. 0 \in 0 .. InstretMod - 1  BY WordAssumption
  <2> QED  BY <2>1, <1>2 DEF CsrReset, CsrFile
<1> QED  BY <1>1, <1>2, <1>3
         DEF IdExBubble, ExMemBubble, MemWbBubble, IfIdEmpty, FwdSel

(* InitTypes: the power-up state is well typed.                            *)
LEMMA InitTypes == Init => TypeOK
<1> SUFFICES ASSUME Init PROVE TypeOK  OBVIOUS
<1>1. prog \in [Slots -> Insn] /\ regs \in [Reg -> Word]
      /\ mem \in [Slots -> Word]
  BY ProgramsAssumption DEF Init
<1>2. 0 \in Slots  BY WordAssumption DEF Slots
<1>3. imemOut \in Insn /\ dmemOut \in Word  BY <1>1, <1>2 DEF Init
<1>4. md \in [active : BOOLEAN, cnt : 0 .. CntMod - 1, op : MulDivOps,
              fn : Fns, a : Word, b : Word]
  BY SmallWords, FnsAssumption DEF Init, CntMod, MulDivOps
<1> QED  BY <1>1, <1>3, <1>4, EmptyStages, InsnIsAnyInsn, SmallWords
         DEF Init, TypeOK

(* StepTypes: every edge, and a reset, keeps the state well typed.         *)
LEMMA StepTypes == TypeOK /\ [Next]_vars => TypeOK'
<1> SUFFICES ASSUME TypeOK, [Next]_vars PROVE TypeOK'  OBVIOUS
<1>1. pc \in Word /\ idex \in
        [valid : BOOLEAN, insn : InsnOf(Ops \cup {"none"}), pc : Word,
         rs1Data : Word, rs2Data : Word, fwdA : FwdSel, fwdB : FwdSel,
         pred : [taken : BOOLEAN, target : Word]]
  BY DEF TypeOK
<1>2. Add(pc, 4) \in Word  BY <1>1, AddWord, SmallWords
<1>3. CASE ExHold
  <2>1. pc' \in Word /\ ifid' \in
          [valid : BOOLEAN, pc : Word, pred : [taken : BOOLEAN, target : Word]]
    BY <1>3 DEF ExHold, TypeOK
  <2>2. FwdDecay(idex.fwdA) \in FwdSel /\ FwdDecay(idex.fwdB) \in FwdSel
    BY DEF FwdDecay, FwdSel
  <2>3. idex' \in
          [valid : BOOLEAN, insn : InsnOf(Ops \cup {"none"}), pc : Word,
           rs1Data : Word, rs2Data : Word, fwdA : FwdSel, fwdB : FwdSel,
           pred : [taken : BOOLEAN, target : Word]]
    BY <1>1, <1>3, <2>2 DEF ExHold
  <2> QED  BY <1>3, <2>1, <2>3, EmptyStages, SharedEdgeTypes DEF ExHold, TypeOK
<1>4. CASE LoadUse
  <2>1. pc' \in Word /\ ifid' \in
          [valid : BOOLEAN, pc : Word, pred : [taken : BOOLEAN, target : Word]]
    BY <1>4 DEF LoadUse, TypeOK
  <2> QED  BY <1>4, <2>1, EmptyStages, SharedEdgeTypes, NextStageTypes
           DEF LoadUse, TypeOK
<1>5. CASE TrapRedirect \/ MretRedirect \/ MispredictRedirect
  <2>1. Flush /\ exmem' \in {ExMemBubble, ExMemNext}
    BY <1>5 DEF TrapRedirect, MretRedirect, MispredictRedirect
  <2>2. pc' \in Word /\ idex' = IdExBubble /\ EveryEdge /\ CsrEdge
    BY <2>1, ExOutputs DEF Flush
  <2>3. ifid' \in
          [valid : BOOLEAN, pc : Word, pred : [taken : BOOLEAN, target : Word]]
    BY <1>1, <2>1, EmptyStages DEF Flush
  <2>4. exmem' \in
          [valid : BOOLEAN, pc : Word, regWrite : BOOLEAN,
           memRead : BOOLEAN, sel : {"alu", "mem", "pc4", "csr"},
           rd : Reg, result : Word, pc4 : Word]
    BY <2>1, EmptyStages, NextStageTypes
  <2> QED  BY <2>2, <2>3, <2>4, EmptyStages, SharedEdgeTypes DEF TypeOK
<1>6. ASSUME NEW pred \in Predictions, Advance(pred)
      PROVE  TypeOK'
  <2>1. pred \in [taken : BOOLEAN, target : Word]
    <3>1. 0 \in Word /\ PredTargets \subseteq Word
      BY ProgramsAssumption, SmallWords
    <3>2. CASE pred = [taken |-> FALSE, target |-> 0]  BY <3>1, <3>2
    <3>3. CASE pred \in [taken : {TRUE}, target : PredTargets]  BY <3>1, <3>3
    <3> QED  BY <3>2, <3>3 DEF Predictions
  <2>2. pc' \in Word  BY <1>2, <1>6, <2>1 DEF Advance
  <2>3. ifid' \in
          [valid : BOOLEAN, pc : Word, pred : [taken : BOOLEAN, target : Word]]
    BY <1>1, <1>6, <2>1 DEF Advance
  <2>4. idex' = IdExNext /\ exmem' = ExMemNext /\ EveryEdge /\ CsrEdge
    BY <1>6 DEF Advance
  <2>5. /\ idex' \in
             [valid : BOOLEAN, insn : InsnOf(Ops \cup {"none"}), pc : Word,
              rs1Data : Word, rs2Data : Word, fwdA : FwdSel, fwdB : FwdSel,
              pred : [taken : BOOLEAN, target : Word]]
        /\ exmem' \in
             [valid : BOOLEAN, pc : Word, regWrite : BOOLEAN,
              memRead : BOOLEAN, sel : {"alu", "mem", "pc4", "csr"},
              rd : Reg, result : Word, pc4 : Word]
    BY <2>4, NextStageTypes
  <2> QED  BY <2>2, <2>3, <2>4, <2>5, SharedEdgeTypes DEF TypeOK
<1>7. CASE Reset
  <2>1. 0 \in Slots /\ 0 \in Word  BY WordAssumption, SmallWords DEF Slots
  <2>2. imemOut' \in Insn /\ dmemOut' \in Word
    BY <1>7, <2>1 DEF Reset, TypeOK
  <2>3. md' \in [active : BOOLEAN, cnt : 0 .. CntMod - 1, op : MulDivOps,
                 fn : Fns, a : Word, b : Word]
    <3>1. md \in [active : BOOLEAN, cnt : 0 .. CntMod - 1, op : MulDivOps,
                  fn : Fns, a : Word, b : Word]
      BY DEF TypeOK
    <3>2. md' = [active |-> FALSE, cnt |-> 0, op |-> "mul", fn |-> md.fn,
                 a |-> md.a, b |-> md.b]
      BY <1>7, <3>1 DEF Reset
    <3> QED  BY <3>1, <3>2 DEF CntMod, MulDivOps
  <2>4. prog' \in [Slots -> Insn] /\ regs' \in [Reg -> Word]
        /\ mem' \in [Slots -> Word]
    BY <1>7 DEF Reset, TypeOK
  <2> QED  BY <1>7, <2>1, <2>2, <2>3, <2>4, EmptyStages, InsnIsAnyInsn
           DEF Reset, ClearStages, TypeOK
<1>8. CASE UNCHANGED vars  BY <1>8 DEF vars, TypeOK
<1> QED  BY <1>3, <1>4, <1>5, <1>6, <1>7, <1>8 DEF Next, Clock

(* TypeCorrect: every register of the pipeline holds what its declaration  *)
(* says, in every reachable state (the packed structs of rv32i_pkg, the    *)
(* state of rvntt_muldiv and rvntt_csr).                                   *)
THEOREM TypeCorrect == Spec => []TypeOK
<1> QED  BY InitTypes, StepTypes, PTL DEF Spec


-----------------------------------------------------------------------------
(* Operands.                                                               *)

(* MulDivSources: the multi-cycle unit's instructions read both sources.   *)
LEMMA MulDivSources ==
  \A i \in AnyInsn : IsMulDiv(i) => UsesRs1(i) /\ UsesRs2(i)
  BY DEF IsMulDiv, MulDivOps, UsesRs1, UsesRs2

(* SelectedOperand: the forwarding muxes, steered by the decision made     *)
(* from where EX, MEM and WB are now, deliver the register's architectural *)
(* value, unless that is the data of a load still in MEM.                  *)
LEMMA SelectedOperand ==
  ASSUME TypeOK, exmem.memRead = (exmem.sel = "mem"), NEW r \in Reg,
         ~ (exmem.valid /\ exmem.memRead /\ exmem.rd # 0 /\ r = exmem.rd)
  PROVE  Operand(ExForward(TRUE, r), regs[r]) = ArchReg(r)
<1> DEFINE m == MemSupplier(exmem.valid, exmem.regWrite, exmem.memRead, exmem.rd)
           w == WbSupplier(memwb.valid, memwb.regWrite, memwb.rd)
<1>0. /\ m.supplies = (exmem.valid /\ exmem.regWrite /\ ~exmem.memRead /\ exmem.rd # 0)
      /\ m.rd = exmem.rd
      /\ w.supplies = (memwb.valid /\ memwb.regWrite /\ memwb.rd # 0)
      /\ w.rd = memwb.rd
  BY DEF MemSupplier, WbSupplier
<1>1. ExForward(TRUE, r) = Forward(TRUE, r, m, w)  BY DEF ExForward
<1>2. ExMemWrites(r) <=> m.supplies /\ m.rd = r
  BY <1>0 DEF ExMemWrites, TypeOK
<1>3. WbWrites(r) <=> w.supplies /\ w.rd = r
  BY <1>0 DEF WbWrites, TypeOK
<1> HIDE DEF m, w
<1>4. CASE m.supplies /\ m.rd = r
  <2>1. ExForward(TRUE, r) = "MEM"  BY <1>1, <1>4 DEF Forward
  <2>2. exmem.sel # "mem"  BY <1>0, <1>4
  <2>3. ExMemFwdData = MemResult  BY <2>2 DEF ExMemFwdData, MemResult
  <2>4. ArchReg(r) = MemResult  BY <1>2, <1>4 DEF ArchReg
  <2> QED  BY <2>1, <2>3, <2>4 DEF Operand
<1>5. CASE w.supplies /\ w.rd = r /\ ~ (m.supplies /\ m.rd = r)
  <2>1. ExForward(TRUE, r) = "WB"  BY <1>1, <1>5 DEF Forward
  <2> QED  BY <1>2, <1>3, <1>5, <2>1 DEF Operand, ArchReg, RegRead
<1>6. CASE ~ (w.supplies /\ w.rd = r) /\ ~ (m.supplies /\ m.rd = r)
  <2>1. ExForward(TRUE, r) = "REG"  BY <1>1, <1>6 DEF Forward
  <2> QED  BY <1>2, <1>3, <1>6, <2>1 DEF Operand, ArchReg, RegRead
<1> QED  BY <1>4, <1>5, <1>6

(* FreshOperands: in its first cycle in EX an instruction reads, through   *)
(* the muxes, the architectural values of its sources.                     *)
LEMMA FreshOperands ==
  ASSUME PipelineInv, idex.valid, ~md.active
  PROVE  /\ UsesRs1(idex.insn) => Rs1Fwd = ArchReg(idex.insn.rs1)
         /\ UsesRs2(idex.insn) => Rs2Fwd = ArchReg(idex.insn.rs2)
<1>1. TypeOK /\ exmem.memRead = (exmem.sel = "mem") /\ LoadUseSeparated
      /\ FwdPrecomputeMatches /\ SourcesHeld
  BY DEF PipelineInv
<1>2. idex.insn.rs1 \in Reg /\ idex.insn.rs2 \in Reg
  <2>1. idex.insn \in AnyInsn  BY <1>1 DEF TypeOK, AnyInsn
  <2> QED  BY <2>1 DEF AnyInsn, InsnOf
<1>3. UsesRs1(idex.insn) \in BOOLEAN /\ UsesRs2(idex.insn) \in BOOLEAN
  BY DEF UsesRs1, UsesRs2
<1>4. ASSUME UsesRs1(idex.insn)
      PROVE  Rs1Fwd = ArchReg(idex.insn.rs1)
  <2>1. idex.fwdA = ExForward(TRUE, idex.insn.rs1)
    <3>1. UsesRs1(idex.insn) = TRUE  BY <1>3, <1>4
    <3> QED  BY <1>1, <3>1 DEF FwdPrecomputeMatches
  <2>2. idex.rs1Data = regs[idex.insn.rs1]  BY <1>1 DEF SourcesHeld
  <2>3. ~ (exmem.valid /\ exmem.memRead /\ exmem.rd # 0
             /\ idex.insn.rs1 = exmem.rd)
    BY <1>1, <1>4 DEF LoadUseSeparated
  <2>4. Operand(ExForward(TRUE, idex.insn.rs1), regs[idex.insn.rs1])
          = ArchReg(idex.insn.rs1)
    BY <1>1, <1>2, <2>3, SelectedOperand
  <2> QED  BY <2>1, <2>2, <2>4 DEF Rs1Fwd
<1>5. ASSUME UsesRs2(idex.insn)
      PROVE  Rs2Fwd = ArchReg(idex.insn.rs2)
  <2>1. idex.fwdB = ExForward(TRUE, idex.insn.rs2)
    <3>1. UsesRs2(idex.insn) = TRUE  BY <1>3, <1>5
    <3> QED  BY <1>1, <3>1 DEF FwdPrecomputeMatches
  <2>2. idex.rs2Data = regs[idex.insn.rs2]  BY <1>1 DEF SourcesHeld
  <2>3. ~ (exmem.valid /\ exmem.memRead /\ exmem.rd # 0
             /\ idex.insn.rs2 = exmem.rd)
    BY <1>1, <1>5 DEF LoadUseSeparated
  <2>4. Operand(ExForward(TRUE, idex.insn.rs2), regs[idex.insn.rs2])
          = ArchReg(idex.insn.rs2)
    BY <1>1, <1>2, <2>3, SelectedOperand
  <2> QED  BY <2>1, <2>2, <2>4 DEF Rs2Fwd
<1> QED  BY <1>4, <1>5

-----------------------------------------------------------------------------
(* The registers across an edge.                                           *)

(* RegFileNext: the write-through read port returns what the register file *)
(* holds after the edge.                                                   *)
LEMMA RegFileNext ==
  ASSUME TypeOK, EveryEdge
  PROVE  \A r \in Reg : regs'[r] = RegRead(r)
<1>1. regs \in [Reg -> Word] /\ memwb.rd \in Reg  BY DEF TypeOK
<1> SUFFICES ASSUME NEW r \in Reg PROVE regs'[r] = RegRead(r)  OBVIOUS
<1>2. CASE WbWrites(memwb.rd)
  <2>1. regs' = [regs EXCEPT ![memwb.rd] = memwb.data]
    BY <1>2 DEF EveryEdge
  <2>2. RegRead(r) = IF memwb.rd = r THEN memwb.data ELSE regs[r]
    BY <1>2 DEF RegRead, WbWrites
  <2> QED  BY <1>1, <2>1, <2>2
<1>3. CASE ~WbWrites(memwb.rd)
  <2>1. regs' = regs  BY <1>3 DEF EveryEdge
  <2>2. RegRead(r) = regs[r]  BY <1>3 DEF RegRead, WbWrites
  <2> QED  BY <2>1, <2>2
<1> QED  BY <1>2, <1>3

(* DrainKeepsRegs: what MEM hands to WB is what an architectural register  *)
(* already was, once nothing follows it into MEM.                          *)
LEMMA DrainKeepsRegs ==
  ASSUME TypeOK, EveryEdge
  PROVE  \A r \in Reg : RegRead(r)' = ArchReg(r)
<1> SUFFICES ASSUME NEW r \in Reg PROVE RegRead(r)' = ArchReg(r)  OBVIOUS
<1>1. memwb' = [valid |-> exmem.valid, pc |-> exmem.pc,
                regWrite |-> exmem.regWrite, rd |-> exmem.rd,
                data |-> MemResult]
  BY DEF EveryEdge
<1>2. WbWrites(r)' <=> ExMemWrites(r)  BY <1>1 DEF WbWrites, ExMemWrites
<1>3. regs'[r] = RegRead(r)  BY RegFileNext
<1> QED  BY <1>1, <1>2, <1>3 DEF RegRead, ArchReg

(* ArchKept: an edge that puts a bubble in MEM leaves every architectural  *)
(* register as it was.                                                     *)
LEMMA ArchKept ==
  ASSUME TypeOK, EveryEdge, exmem'.valid = FALSE
  PROVE  \A r \in Reg : ArchReg(r)' = ArchReg(r)
<1> SUFFICES ASSUME NEW r \in Reg PROVE ArchReg(r)' = ArchReg(r)  OBVIOUS
<1>1. ~ExMemWrites(r)'  BY DEF ExMemWrites
<1> QED  BY <1>1, DrainKeepsRegs DEF ArchReg

-----------------------------------------------------------------------------
(* Each part of PipelineInv across each edge.                              *)

(* EdgeShapes: an edge holds EX, empties it, or advances it.               *)
LEMMA EdgeShapes ==
  ASSUME Next
  PROVE  \/ ExHold
         \/ LoadUse
         \/ Flush /\ ExRedirect /\ exmem' = ExMemBubble /\ ExTrap
         \/ Flush /\ ExRedirect /\ exmem' = ExMemNext /\ ~ExTrap
         \/ \E pred \in Predictions : Advance(pred)
         \/ Reset
  BY DEF Next, Clock, TrapRedirect, MretRedirect, MispredictRedirect

(* ControlBits: the control signals are Booleans and both instructions in  *)
(* front are instructions.                                                 *)
LEMMA ControlBits ==
  ASSUME TypeOK
  PROVE  /\ idex.valid \in BOOLEAN /\ ifid.valid \in BOOLEAN
         /\ exmem.valid \in BOOLEAN /\ memwb.valid \in BOOLEAN
         /\ md.active \in BOOLEAN
         /\ idex.insn \in AnyInsn /\ IfIdInsn \in AnyInsn
  BY StageWords, InsnIsAnyInsn DEF TypeOK, AnyInsn

(* ForwardingStep: every edge leaves the forwarding selects those EX would *)
(* compute, the load in MEM without a consumer in EX, and a load's data    *)
(* marked as coming from the RAM.                                          *)
LEMMA ForwardingStep ==
  ASSUME PipelineInv, Next
  PROVE  /\ (exmem.memRead = (exmem.sel = "mem"))'
         /\ LoadUseSeparated'
         /\ FwdPrecomputeMatches'
<1>1. /\ TypeOK /\ exmem.memRead = (exmem.sel = "mem") /\ LoadUseSeparated
      /\ FwdPrecomputeMatches
  BY DEF PipelineInv
<1>2. ASSUME exmem' = ExMemBubble
      PROVE  (exmem.memRead = (exmem.sel = "mem"))'
  BY <1>2 DEF ExMemBubble
<1>3. ASSUME exmem' = ExMemNext
      PROVE  (exmem.memRead = (exmem.sel = "mem"))'
  <2>1. MemRead(idex.insn) = (ResultSel(idex.insn) = "mem")
    BY DEF MemRead, ResultSel, IsJump, IsCsr
  <2> QED  BY <1>3, <2>1 DEF ExMemNext
<1>4. ASSUME idex' = IdExBubble
      PROVE  LoadUseSeparated' /\ FwdPrecomputeMatches'
  BY <1>4 DEF LoadUseSeparated, FwdPrecomputeMatches, IdExBubble
<1>5. CASE ExHold
  <2>1. /\ exmem' = ExMemBubble
        /\ idex' = [idex EXCEPT !.fwdA = FwdDecay(@), !.fwdB = FwdDecay(@)]
        /\ memwb' = [valid |-> exmem.valid, pc |-> exmem.pc,
                     regWrite |-> exmem.regWrite, rd |-> exmem.rd,
                     data |-> MemResult]
    BY <1>5 DEF ExHold, EveryEdge
  <2>2. /\ idex'.valid = idex.valid /\ idex'.insn = idex.insn
        /\ idex'.fwdA = FwdDecay(idex.fwdA) /\ idex'.fwdB = FwdDecay(idex.fwdB)
    BY <1>1, <2>1 DEF TypeOK
  <2>3. LoadUseSeparated'  BY <2>1 DEF LoadUseSeparated, ExMemBubble
  <2>4. FwdPrecomputeMatches'
    <3> SUFFICES ASSUME idex.valid
                 PROVE  FwdPrecomputeMatches'
      BY <2>2 DEF FwdPrecomputeMatches
    <3>1. /\ UsesRs1(idex.insn) \in BOOLEAN /\ UsesRs2(idex.insn) \in BOOLEAN
          /\ idex.insn.rs1 \in Reg /\ idex.insn.rs2 \in Reg
      <4>1. idex.insn \in AnyInsn  BY <1>1, ControlBits
      <4> QED  BY <4>1 DEF AnyInsn, InsnOf, UsesRs1, UsesRs2
    <3>2. ExForward(UsesRs1(idex.insn), idex.insn.rs1)' = FwdDecay(idex.fwdA)
      <4>1. ExForward(UsesRs1(idex.insn), idex.insn.rs1)'
              = FwdDecay(ExForward(UsesRs1(idex.insn), idex.insn.rs1))
        <5>1. ExForward(UsesRs1(idex.insn), idex.insn.rs1)' =
                Forward(UsesRs1(idex.insn), idex.insn.rs1,
                        MemSupplier(FALSE, FALSE, FALSE, 0),
                        WbSupplier(exmem.valid, exmem.regWrite, exmem.rd))
          BY <2>1, <2>2 DEF ExForward, ExMemBubble
        <5> QED  BY <1>1, <3>1, <5>1
                 DEF LoadUseSeparated, ExForward, Forward, MemSupplier,
                     WbSupplier, FwdDecay
      <4> QED  BY <1>1, <4>1 DEF FwdPrecomputeMatches
    <3>3. ExForward(UsesRs2(idex.insn), idex.insn.rs2)' = FwdDecay(idex.fwdB)
      <4>1. ExForward(UsesRs2(idex.insn), idex.insn.rs2)'
              = FwdDecay(ExForward(UsesRs2(idex.insn), idex.insn.rs2))
        <5>1. ExForward(UsesRs2(idex.insn), idex.insn.rs2)' =
                Forward(UsesRs2(idex.insn), idex.insn.rs2,
                        MemSupplier(FALSE, FALSE, FALSE, 0),
                        WbSupplier(exmem.valid, exmem.regWrite, exmem.rd))
          BY <2>1, <2>2 DEF ExForward, ExMemBubble
        <5> QED  BY <1>1, <3>1, <5>1
                 DEF LoadUseSeparated, ExForward, Forward, MemSupplier,
                     WbSupplier, FwdDecay
      <4> QED  BY <1>1, <4>1 DEF FwdPrecomputeMatches
    <3> QED  BY <2>2, <3>2, <3>3 DEF FwdPrecomputeMatches
  <2> QED  BY <1>2, <2>1, <2>3, <2>4
<1>6. ASSUME NEW pred \in Predictions, Advance(pred)
      PROVE  /\ (exmem.memRead = (exmem.sel = "mem"))'
             /\ LoadUseSeparated' /\ FwdPrecomputeMatches'
  <2>1. /\ exmem' = ExMemNext /\ idex' = IdExNext /\ ~IdStall
        /\ memwb' = [valid |-> exmem.valid, pc |-> exmem.pc,
                     regWrite |-> exmem.regWrite, rd |-> exmem.rd,
                     data |-> MemResult]
    BY <1>6 DEF Advance, EveryEdge, FrontStall
  <2>2. /\ idex'.valid = ifid.valid /\ idex'.insn = IfIdInsn
        /\ idex'.fwdA = IdForward(UsesRs1(IfIdInsn), IfIdInsn.rs1)
        /\ idex'.fwdB = IdForward(UsesRs2(IfIdInsn), IfIdInsn.rs2)
        /\ exmem'.valid = idex.valid /\ exmem'.regWrite = RegWrite(idex.insn)
        /\ exmem'.memRead = MemRead(idex.insn) /\ exmem'.rd = idex.insn.rd
    BY <2>1 DEF IdExNext, ExMemNext
  <2>3. LoadUseSeparated'  BY <2>1, <2>2 DEF LoadUseSeparated, IdStall
  <2>4. FwdPrecomputeMatches'
    <3>1. ExForward(UsesRs1(idex.insn), idex.insn.rs1)'
            = IdForward(UsesRs1(IfIdInsn), IfIdInsn.rs1)
      BY <2>1, <2>2 DEF ExForward, IdForward
    <3>2. ExForward(UsesRs2(idex.insn), idex.insn.rs2)'
            = IdForward(UsesRs2(IfIdInsn), IfIdInsn.rs2)
      BY <2>1, <2>2 DEF ExForward, IdForward
    <3> QED  BY <2>2, <3>1, <3>2 DEF FwdPrecomputeMatches
  <2> QED  BY <1>3, <2>1, <2>3, <2>4
<1> QED
  BY <1>2, <1>3, <1>4, <1>5, <1>6, EdgeShapes
  DEF LoadUse, Flush, Reset, ClearStages

(* SourcesStep: every edge keeps the operands of the instruction in EX     *)
(* those of the register file, or of the multi-cycle unit's capture.       *)
LEMMA SourcesStep ==
  ASSUME PipelineInv, Next
  PROVE  SourcesHeld'
<1>1. TypeOK /\ SourcesHeld  BY DEF PipelineInv
<1>2. CASE ExHold
  <2>1. /\ EveryEdge /\ ExStall /\ exmem' = ExMemBubble
        /\ idex' = [idex EXCEPT !.fwdA = FwdDecay(@), !.fwdB = FwdDecay(@)]
        /\ md' = MdNext
    BY <1>2 DEF ExHold, EveryEdge
  <2>2. /\ idex'.valid = idex.valid /\ idex'.insn = idex.insn
    BY <1>1, <2>1 DEF TypeOK
  <2>3. MdReq /\ ~MdDone /\ idex.valid /\ IsMulDiv(idex.insn)
    BY <2>1 DEF ExStall, MdReq
  <2>4. /\ idex.insn.rs1 \in Reg /\ idex.insn.rs2 \in Reg
        /\ UsesRs1(idex.insn) /\ UsesRs2(idex.insn)
    <3>1. idex.insn \in AnyInsn  BY <1>1, ControlBits
    <3> QED  BY <2>3, <3>1, MulDivSources DEF AnyInsn, InsnOf
  <2>5. /\ ArchReg(idex.insn.rs1)' = ArchReg(idex.insn.rs1)
        /\ ArchReg(idex.insn.rs2)' = ArchReg(idex.insn.rs2)
    <3>1. \A r \in Reg : ArchReg(r)' = ArchReg(r)
      BY <1>1, <2>1, ArchKept DEF ExMemBubble
    <3> QED  BY <2>2, <2>4, <3>1 DEF ArchReg, ExMemWrites, RegRead, WbWrites
  <2>6. CASE md.active
    <3>1. md' = [md EXCEPT !.cnt = (@ + 1) % CntMod]
      BY <2>1, <2>3, <2>6 DEF MdNext
    <3>2. /\ md'.active = md.active /\ md'.op = md.op /\ md'.fn = md.fn
          /\ md'.a = md.a /\ md'.b = md.b
      BY <1>1, <3>1 DEF TypeOK
    <3> QED  BY <1>1, <2>2, <2>3, <2>5, <2>6, <3>2 DEF SourcesHeld
  <2>7. CASE ~md.active
    <3>1. md' = [active |-> TRUE, cnt |-> 1, op |-> idex.insn.op,
                 fn |-> idex.insn.fn, a |-> Rs1Fwd, b |-> Rs2Fwd]
      BY <2>1, <2>3, <2>7 DEF MdNext
    <3>2. Rs1Fwd = ArchReg(idex.insn.rs1) /\ Rs2Fwd = ArchReg(idex.insn.rs2)
      BY <2>3, <2>4, <2>7, FreshOperands
    <3> QED  BY <2>2, <2>3, <2>5, <3>1, <3>2 DEF SourcesHeld
  <2> QED  BY <2>6, <2>7
<1>3. ASSUME idex' = IdExBubble, md'.active = FALSE
      PROVE  SourcesHeld'
  BY <1>3 DEF SourcesHeld, IdExBubble
<1>4. ASSUME EveryEdge, ~ExStall
      PROVE  md'.active = FALSE
  <2>1. md' = MdNext /\ (~MdReq \/ MdDone)  BY <1>4 DEF EveryEdge, ExStall
  <2>2. MdDone => MdReq /\ md.active  BY DEF MdDone
  <2>3. [md EXCEPT !.active = FALSE].active = FALSE  BY <1>1 DEF TypeOK
  <2> QED  BY <2>1, <2>2, <2>3 DEF MdNext
<1>5. ASSUME NEW pred \in Predictions, Advance(pred)
      PROVE  SourcesHeld'
  <2>1. EveryEdge /\ ~ExStall /\ idex' = IdExNext
    BY <1>5 DEF Advance, FrontStall
  <2>2. md'.active = FALSE  BY <1>4, <2>1
  <2>3. /\ idex'.insn = IfIdInsn
        /\ idex'.rs1Data = RegRead(IfIdInsn.rs1)
        /\ idex'.rs2Data = RegRead(IfIdInsn.rs2)
    BY <2>1 DEF IdExNext
  <2>4. IfIdInsn.rs1 \in Reg /\ IfIdInsn.rs2 \in Reg
    <3>1. IfIdInsn \in AnyInsn  BY <1>1, ControlBits
    <3> QED  BY <3>1 DEF AnyInsn, InsnOf
  <2>5. /\ idex'.rs1Data = regs'[IfIdInsn.rs1]
        /\ idex'.rs2Data = regs'[IfIdInsn.rs2]
    BY <1>1, <2>1, <2>3, <2>4, RegFileNext
  <2> QED  BY <2>2, <2>3, <2>5 DEF SourcesHeld
<1>6. CASE LoadUse  BY <1>3, <1>4, <1>6 DEF LoadUse
<1>7. CASE Flush /\ ExRedirect
  BY <1>3, <1>4, <1>7 DEF Flush, ExRedirect
<1>8. CASE Reset
  <2>1. md'.active = FALSE  BY <1>1, <1>8 DEF Reset, TypeOK
  <2> QED  BY <1>3, <1>8, <2>1 DEF Reset, ClearStages
<1> QED  BY <1>2, <1>5, <1>6, <1>7, <1>8, EdgeShapes

(* PathStep: every edge keeps each slot on the predicted path of the slot  *)
(* ahead of it.                                                            *)
LEMMA PathStep ==
  ASSUME PipelineInv, Next
  PROVE  PredictedPath'
<1>1. TypeOK /\ PredictedPath  BY DEF PipelineInv
<1>2. CASE ExHold
  <2>1. /\ pc' = pc /\ ifid' = ifid
        /\ idex' = [idex EXCEPT !.fwdA = FwdDecay(@), !.fwdB = FwdDecay(@)]
    BY <1>2 DEF ExHold
  <2>2. /\ idex'.valid = idex.valid /\ idex'.pc = idex.pc
        /\ idex'.pred = idex.pred
    BY <1>1, <2>1 DEF TypeOK
  <2> QED  BY <1>1, <2>1, <2>2 DEF PredictedPath, Predicted
<1>3. CASE LoadUse
  BY <1>1, <1>3 DEF LoadUse, PredictedPath, Predicted, IdExBubble
<1>4. CASE Flush
  BY <1>4 DEF Flush, PredictedPath, IdExBubble, IfIdEmpty
<1>5. ASSUME NEW pred \in Predictions, Advance(pred)
      PROVE  PredictedPath'
  <2>1. /\ pc' = IF pred.taken THEN pred.target ELSE Add(pc, 4)
        /\ ifid' = [valid |-> TRUE, pc |-> pc, pred |-> pred]
        /\ idex'.valid = ifid.valid /\ idex'.pc = ifid.pc
        /\ idex'.pred = ifid.pred
    BY <1>5 DEF Advance, IdExNext
  <2> QED  BY <1>1, <2>1 DEF PredictedPath, Predicted
<1>6. CASE Reset
  BY <1>6 DEF Reset, ClearStages, PredictedPath, IdExBubble, IfIdEmpty
<1> QED  BY <1>2, <1>3, <1>4, <1>5, <1>6, EdgeShapes

(* ProgramStep: every edge keeps each occupied slot carrying the           *)
(* instruction at its pc, and lets only instructions that retire past EX.  *)
LEMMA ProgramStep ==
  ASSUME PipelineInv, Next
  PROVE  SlotsMatchProgram'
<1>1. TypeOK /\ SlotsMatchProgram  BY DEF PipelineInv
<1>2. prog' = prog  BY DEF Next, Clock, ExHold, LoadUse, TrapRedirect,
        MretRedirect, MispredictRedirect, Flush, Advance, Reset, EveryEdge
<1>3. ASSUME EveryEdge
      PROVE  RetiredMatchesProgram'
  <2>1. /\ memwb'.valid = exmem.valid /\ memwb'.pc = exmem.pc
        /\ memwb'.regWrite = exmem.regWrite /\ memwb'.rd = exmem.rd
    BY <1>3 DEF EveryEdge
  <2> QED  BY <1>1, <1>2, <2>1
           DEF SlotsMatchProgram, RetiredMatchesProgram, CarriesRd
<1>4. ASSUME exmem' = ExMemBubble
      PROVE  (exmem.valid => CarriesRd(exmem))'
  BY <1>4 DEF ExMemBubble
<1>5. ASSUME exmem' = ExMemNext, ~ExTrap
      PROVE  (exmem.valid => CarriesRd(exmem))'
  <2> SUFFICES ASSUME idex.valid PROVE CarriesRd(exmem)'
    BY <1>5 DEF ExMemNext
  <2>1. idex.insn.op \notin {"illegal", "ecall", "ebreak"}
    BY <1>5 DEF ExTrap, ExTrapInfo, TrapOf, NoTrap
  <2>2. idex.insn = prog[Slot(idex.pc)]  BY <1>1 DEF SlotsMatchProgram
  <2>3. /\ exmem'.pc = idex.pc /\ exmem'.rd = idex.insn.rd
        /\ exmem'.regWrite = RegWrite(idex.insn)
    BY <1>5 DEF ExMemNext
  <2> QED  BY <1>2, <2>1, <2>2, <2>3 DEF CarriesRd
<1>6. ASSUME EveryEdge, ifid' = ifid, FrontStall, ~ExRedirect
      PROVE  FetchedWordMatchesPc'
  <2>1. insnHeld' = TRUE /\ insnHold' = IfIdInsn
    BY <1>6 DEF EveryEdge, InsnHoldNext
  <2>2. IfIdInsn' = IfIdInsn  BY <2>1 DEF IfIdInsn
  <2> QED  BY <1>1, <1>2, <1>6, <2>2
           DEF SlotsMatchProgram, FetchedWordMatchesPc
<1>7. CASE ExHold
  <2>1. /\ EveryEdge /\ ifid' = ifid /\ FrontStall /\ ~ExRedirect
        /\ exmem' = ExMemBubble
        /\ idex' = [idex EXCEPT !.fwdA = FwdDecay(@), !.fwdB = FwdDecay(@)]
    BY <1>7 DEF ExHold, FrontStall, ExRedirect
  <2>2. /\ idex'.valid = idex.valid /\ idex'.insn = idex.insn
        /\ idex'.pc = idex.pc
    BY <1>1, <2>1 DEF TypeOK
  <2>3. (idex.valid => idex.insn = prog[Slot(idex.pc)])'
    BY <1>1, <1>2, <2>2 DEF SlotsMatchProgram
  <2> QED  BY <1>3, <1>4, <1>6, <2>1, <2>3 DEF SlotsMatchProgram
<1>8. CASE LoadUse
  <2>1. /\ EveryEdge /\ ifid' = ifid /\ FrontStall /\ ~ExRedirect /\ ~ExTrap
        /\ exmem' = ExMemNext /\ idex' = IdExBubble
    BY <1>8 DEF LoadUse, FrontStall, ExRedirect
  <2>2. idex'.valid = FALSE  BY <2>1 DEF IdExBubble
  <2> QED  BY <1>3, <1>5, <1>6, <2>1, <2>2 DEF SlotsMatchProgram
<1>9. ASSUME Flush
      PROVE  /\ FetchedWordMatchesPc' /\ RetiredMatchesProgram'
             /\ idex'.valid = FALSE
  BY <1>3, <1>9 DEF Flush, FetchedWordMatchesPc, IfIdEmpty, IdExBubble
<1>10. CASE Flush /\ exmem' = ExMemBubble
  BY <1>4, <1>9, <1>10 DEF SlotsMatchProgram
<1>11. CASE Flush /\ exmem' = ExMemNext /\ ~ExTrap
  BY <1>5, <1>9, <1>11 DEF SlotsMatchProgram
<1>12. ASSUME NEW pred \in Predictions, Advance(pred)
       PROVE  SlotsMatchProgram'
  <2>1. /\ EveryEdge /\ ~FrontStall /\ ~ExTrap /\ exmem' = ExMemNext
        /\ ifid' = [valid |-> TRUE, pc |-> pc, pred |-> pred]
        /\ idex'.valid = ifid.valid /\ idex'.insn = IfIdInsn
        /\ idex'.pc = ifid.pc
    BY <1>12 DEF Advance, FrontStall, ExRedirect, IdExNext
  <2>2. IfIdInsn' = prog[Slot(pc)]
    BY <2>1 DEF EveryEdge, IfIdInsn
  <2>3. FetchedWordMatchesPc'
    BY <1>2, <2>1, <2>2 DEF FetchedWordMatchesPc
  <2>4. (idex.valid => idex.insn = prog[Slot(idex.pc)])'
    BY <1>1, <1>2, <2>1 DEF SlotsMatchProgram, FetchedWordMatchesPc
  <2> QED  BY <1>3, <1>5, <2>1, <2>3, <2>4 DEF SlotsMatchProgram
<1>13. CASE Reset
  BY <1>13 DEF Reset, ClearStages, SlotsMatchProgram, FetchedWordMatchesPc,
     RetiredMatchesProgram, IfIdEmpty, IdExBubble, ExMemBubble, MemWbBubble
<1> QED  BY <1>7, <1>8, <1>10, <1>11, <1>12, <1>13, EdgeShapes

(* ZeroRegisterStep: x0 stays zero.                                        *)
LEMMA ZeroRegisterStep ==
  ASSUME PipelineInv, Next
  PROVE  regs'[0] = 0
<1>1. TypeOK /\ regs[0] = 0  BY DEF PipelineInv
<1>2. CASE EveryEdge
  <2>1. RegRead(0) = 0  BY <1>1 DEF RegRead, WbWrites
  <2> QED  BY <1>1, <1>2, <2>1, RegFileNext, ZeroReg
<1>3. CASE Reset  BY <1>1, <1>3 DEF Reset
<1> QED  BY <1>2, <1>3 DEF Next, Clock, ExHold, LoadUse, TrapRedirect,
         MretRedirect, MispredictRedirect, Flush, Advance

-----------------------------------------------------------------------------
(* The invariant.                                                          *)

(* InvInit: the power-up state satisfies PipelineInv.                      *)
LEMMA InvInit == Init => PipelineInv
<1> SUFFICES ASSUME Init PROVE PipelineInv  OBVIOUS
<1>1. TypeOK  BY InitTypes
<1>2. regs[0] = 0  BY ProgramsAssumption DEF Init
<1>3. /\ idex.valid = FALSE /\ ifid.valid = FALSE /\ exmem.valid = FALSE
      /\ memwb.valid = FALSE /\ md.active = FALSE
      /\ exmem.memRead = FALSE /\ exmem.sel = "alu"
  BY DEF Init, IdExBubble, IfIdEmpty, ExMemBubble, MemWbBubble
<1> QED
  BY <1>1, <1>2, <1>3
  DEF PipelineInv, LoadUseSeparated, FwdPrecomputeMatches, SourcesHeld,
      PredictedPath, SlotsMatchProgram, FetchedWordMatchesPc,
      RetiredMatchesProgram

(* InvStep: every edge, and a reset, preserves PipelineInv.                *)
LEMMA InvStep == PipelineInv /\ [Next]_vars => PipelineInv'
<1> SUFFICES ASSUME PipelineInv, [Next]_vars PROVE PipelineInv'  OBVIOUS
<1>1. CASE Next
  <2>1. TypeOK'  BY <1>1, StepTypes DEF PipelineInv
  <2> QED
    BY <1>1, <2>1, ZeroRegisterStep, ForwardingStep, SourcesStep, PathStep,
       ProgramStep
    DEF PipelineInv
<1>2. CASE UNCHANGED vars
  BY <1>2 DEF vars, PipelineInv, TypeOK, LoadUseSeparated,
     FwdPrecomputeMatches, ExForward, SourcesHeld, ArchReg, ExMemWrites,
     MemResult, RegRead, WbWrites, PredictedPath, Predicted,
     SlotsMatchProgram, FetchedWordMatchesPc, IfIdInsn,
     RetiredMatchesProgram, CarriesRd
<1> QED  BY <1>1, <1>2

(* Pipeline: PipelineInv holds in every reachable state.                   *)
THEOREM Pipeline == Spec => []PipelineInv
<1> QED  BY InvInit, InvStep, PTL DEF Spec

(* ForwardingCorrect: the registered forwarding selects always agree with  *)
(* the decision EX would make (a_fwd_precompute_matches_a and _b).         *)
THEOREM ForwardingCorrect == Spec => []FwdPrecomputeMatches
<1>1. PipelineInv => FwdPrecomputeMatches  BY DEF PipelineInv
<1> QED  BY <1>1, Pipeline, PTL

(* OperandsCorrect: every instruction computes with the values its         *)
(* predecessors leave (the operand muxes of EX).                           *)
THEOREM OperandsCorrect == Spec => []OperandsCurrent
<1>1. PipelineInv => OperandsCurrent
  <2> SUFFICES ASSUME PipelineInv, idex.valid
               PROVE  OperandsCurrent
    BY DEF OperandsCurrent
  <2>1. CASE md.active
    BY <2>1 DEF OperandsCurrent, PipelineInv, SourcesHeld
  <2>2. CASE ~md.active
    BY <2>2, FreshOperands DEF OperandsCurrent
  <2> QED  BY <2>1, <2>2
<1> QED  BY <1>1, Pipeline, PTL

(* FetchCorrect: the word ID decodes is always the one at its pc (the hold *)
(* register of IF).                                                        *)
THEOREM FetchCorrect == Spec => []FetchedWordMatchesPc
<1>1. PipelineInv => FetchedWordMatchesPc
  BY DEF PipelineInv, SlotsMatchProgram
<1> QED  BY <1>1, Pipeline, PTL

(* RetirementCorrect: what WB writes and reports is always the             *)
(* destination of a retiring instruction of the program (the commit port). *)
THEOREM RetirementCorrect == Spec => []RetiredMatchesProgram
<1>1. PipelineInv => RetiredMatchesProgram
  BY DEF PipelineInv, SlotsMatchProgram
<1> QED  BY <1>1, Pipeline, PTL
=============================================================================
