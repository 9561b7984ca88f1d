-------------------------- MODULE RefinementProofs --------------------------
(***************************************************************************)
(* The pipeline implements the one-instruction-per-step machine of Isa,    *)
(* for every word size, register count, program, latency and predictor:    *)
(* the edge on which an instruction leaves EX is that machine's step, and  *)
(* every other edge changes nothing a program can see.                     *)
(*                                                                         *)
(* With its own predictor, for every table and stack size and whatever     *)
(* their memories hold at power-up, it takes only steps it can take with a *)
(* free one, so it implements that machine too; and a prediction is only   *)
(* ever used for the address it was looked up for.                         *)
(***************************************************************************)
EXTENDS CoreBpred, PipelineProofs

-----------------------------------------------------------------------------
(* The abstract machine's instructions are the pipeline's.                 *)

(* SameSets: the words, registers, memory slots and instructions of Isa    *)
(* are those of Core.                                                      *)
LEMMA SameSets ==
  /\ Arch!Word = Word /\ Arch!Reg = Reg /\ Arch!Slots = Slots
  /\ Arch!Insn = Insn /\ Arch!CsrReset = CsrReset
<1>1. Arch!Word = Word /\ Arch!Reg = Reg /\ Arch!Slots = Slots
      /\ Arch!Ops = Ops /\ Arch!CsrNames = CsrNames
  BY DEF Arch!Word, Word, Arch!Reg, Reg, Arch!Slots, Slots, Arch!Ops, Ops,
         Arch!MulDivOps, MulDivOps, Arch!CsrNames, CsrNames,
         Arch!CsrWritable, CsrWritable, Arch!CsrReadOnly, CsrReadOnly
<1> QED  BY <1>1 DEF Arch!Insn, Insn, Arch!InsnOf, InsnOf, Arch!CsrReset, CsrReset

(* SameControl: so are the decoded control signals and the addresses.      *)
LEMMA SameControl ==
  ASSUME NEW i, NEW x, NEW y, NEW z
  PROVE  /\ Arch!MemRead(i) = MemRead(i) /\ Arch!MemWrite(i) = MemWrite(i)
         /\ Arch!RegWrite(i) = RegWrite(i) /\ Arch!IsJump(i) = IsJump(i)
         /\ Arch!IsMulDiv(i) = IsMulDiv(i) /\ Arch!IsCsr(i) = IsCsr(i)
         /\ Arch!Add(x, y) = Add(x, y) /\ Arch!Slot(x) = Slot(x)
         /\ Arch!AlignTo(x, y) = AlignTo(x, y) /\ Arch!Bit1(x) = Bit1(x)
         /\ Arch!MemAddr(i, x) = MemAddr(i, x)
         /\ Arch!CtrlXfer(i, x, y) = CtrlXfer(i, x, y)
         /\ Arch!JumpTarget(i, x, y) = JumpTarget(i, x, y)
  BY DEF Arch!MemRead, MemRead, Arch!MemWrite, MemWrite, Arch!RegWrite,
         RegWrite, Arch!IsJump, IsJump, Arch!IsMulDiv, IsMulDiv,
         Arch!MulDivOps, MulDivOps, Arch!IsCsr, IsCsr, Arch!Add, Add,
         Arch!Slot, Slot, Arch!AlignTo, AlignTo, Arch!Bit1, Bit1,
         Arch!MemAddr, MemAddr, Arch!CtrlXfer, CtrlXfer, Arch!JumpTarget,
         JumpTarget

(* SameEffect: and so are traps, results, CSR updates and next pcs.        *)
LEMMA SameEffect ==
  ASSUME NEW i, NEW p, NEW x, NEW y, NEW c, NEW t
  PROVE  /\ Arch!TrapOf(i, p, x, y) = TrapOf(i, p, x, y)
         /\ Arch!SimpleResult(i, p, x, y, c) = SimpleResult(i, p, x, y, c)
         /\ Arch!CsrAfter(c, i, p, x, t) = CsrAfter(c, i, p, x, t)
         /\ Arch!NextPc(i, p, x, y, c) = NextPc(i, p, x, y, c)
<1>1. Arch!CsrIllegal(i) = CsrIllegal(i)
  BY SameControl
  DEF Arch!CsrIllegal, CsrIllegal, Arch!CsrWen, CsrWen, Arch!CsrSourceNz,
      CsrSourceNz, Arch!CsrReadOnly, CsrReadOnly
<1>2. \A n : Arch!CsrRead(c, n) = CsrRead(c, n)
  BY DEF Arch!CsrRead, CsrRead
<1>3. Arch!TrapOf(i, p, x, y) = TrapOf(i, p, x, y)
  BY <1>1, SameControl DEF Arch!TrapOf, TrapOf, Arch!NoTrap, NoTrap
<1>4. Arch!SimpleResult(i, p, x, y, c) = SimpleResult(i, p, x, y, c)
  BY <1>2, SameControl DEF Arch!SimpleResult, SimpleResult
<1>5. Arch!CsrAfter(c, i, p, x, t) = CsrAfter(c, i, p, x, t)
  BY DEF Arch!CsrAfter, CsrAfter, Arch!AlignTo, AlignTo, Arch!CsrDoWrite,
         CsrDoWrite, Arch!CsrWen, CsrWen, Arch!CsrSourceNz, CsrSourceNz,
         Arch!IsCsr, IsCsr, Arch!CsrWritable, CsrWritable, Arch!CsrWdata,
         CsrWdata, Arch!CsrSource, CsrSource, Arch!CsrRead, CsrRead,
         Arch!Minstret, Minstret
<1>6. Arch!NextPc(i, p, x, y, c) = NextPc(i, p, x, y, c)
  BY <1>3, SameControl DEF Arch!NextPc, NextPc, Arch!Traps, Traps
<1> QED  BY <1>3, <1>4, <1>5, <1>6

-----------------------------------------------------------------------------
(* The instruction in EX and the architectural state it sees.              *)

(* ExSees: an instruction in EX that is about to leave it sees the         *)
(* architectural values of the sources it reads; a multiply or divide has  *)
(* captured them.                                                          *)
LEMMA ExSees ==
  ASSUME PipelineInv, idex.valid, ~ExStall
  PROVE  /\ idex.insn \in AnyInsn
         /\ idex.insn.rs1 \in Reg /\ idex.insn.rs2 \in Reg
         /\ idex.insn.rd \in Reg
         /\ Rs1Fwd \in Word /\ Rs2Fwd \in Word
         /\ \A r \in Reg : ArchReg(r) \in Word
         /\ idex.insn = prog[Slot(idex.pc)]
         /\ ~IsMulDiv(idex.insn) =>
              /\ UsesRs1(idex.insn) => Rs1Fwd = ArchReg(idex.insn.rs1)
              /\ UsesRs2(idex.insn) => Rs2Fwd = ArchReg(idex.insn.rs2)
         /\ IsMulDiv(idex.insn) =>
              /\ md.op = idex.insn.op /\ md.fn = idex.insn.fn
              /\ md.a = ArchReg(idex.insn.rs1)
              /\ md.b = ArchReg(idex.insn.rs2)
<1>1. TypeOK /\ SourcesHeld /\ SlotsMatchProgram  BY DEF PipelineInv
<1>2. idex.insn \in AnyInsn  BY <1>1, ControlBits
<1>3. idex.insn.rs1 \in Reg /\ idex.insn.rs2 \in Reg /\ idex.insn.rd \in Reg
  BY <1>2 DEF AnyInsn, InsnOf
<1>4. \A r \in Reg : ArchReg(r) \in Word
  BY <1>1, StageWords DEF ArchReg
<1>5. idex.insn = prog[Slot(idex.pc)]  BY <1>1 DEF SlotsMatchProgram
<1>6. ASSUME ~IsMulDiv(idex.insn)
      PROVE  ~md.active
  BY <1>1, <1>6 DEF SourcesHeld, IsMulDiv, TypeOK
<1>7. ASSUME IsMulDiv(idex.insn)
      PROVE  md.active
  BY <1>7 DEF ExStall, MdReq, MdDone
<1> QED  BY <1>1, <1>2, <1>3, <1>4, <1>5, <1>6, <1>7, StageWords,
            FreshOperands
         DEF SourcesHeld

(* SameAsArch: what EX computes from its forwarded operands is what the    *)
(* instruction does to the architectural ones.                             *)
LEMMA SameAsArch ==
  ASSUME PipelineInv, idex.valid, ~ExStall
  PROVE  LET i == idex.insn
             a == ArchReg(i.rs1)
             b == ArchReg(i.rs2)
         IN  /\ ExTrapInfo = TrapOf(i, idex.pc, a, b)
             /\ RedirectTarget = NextPc(i, idex.pc, a, b, csr)
             /\ CsrAfter(csr, i, idex.pc, Rs1Fwd, ExTrapInfo)
                  = CsrAfter(csr, i, idex.pc, a, ExTrapInfo)
             /\ MemRead(i) \/ MemWrite(i) => DmemAddr = MemAddr(i, a)
             /\ MemWrite(i) => Rs2Fwd = b
             /\ RegWrite(i) => ExResult =
                  IF IsMulDiv(i) THEN MulDivValue(i.op, i.fn, a, b)
                  ELSE SimpleResult(i, idex.pc, a, b, csr)
<1> DEFINE i == idex.insn
           a == ArchReg(i.rs1)
           b == ArchReg(i.rs2)
<1>1. /\ i \in AnyInsn /\ idex.pc \in Word /\ csr \in CsrFile
      /\ a \in Word /\ b \in Word /\ Rs1Fwd \in Word /\ Rs2Fwd \in Word
  BY ExSees DEF PipelineInv, TypeOK
<1>2. /\ UsesRs1(i) /\ ~IsMulDiv(i) => Rs1Fwd = a
      /\ UsesRs2(i) /\ ~IsMulDiv(i) => Rs2Fwd = b
      /\ IsMulDiv(i) => md.op = i.op /\ md.fn = i.fn /\ md.a = a /\ md.b = b
  BY ExSees
<1>3. ExTrapInfo = TrapOf(i, idex.pc, Rs1Fwd, Rs2Fwd)  BY DEF ExTrapInfo
<1> HIDE DEF i, a, b
<1>4. /\ TrapOf(i, idex.pc, Rs1Fwd, Rs2Fwd) = TrapOf(i, idex.pc, a, b)
      /\ NextPc(i, idex.pc, Rs1Fwd, Rs2Fwd, csr) = NextPc(i, idex.pc, a, b, csr)
      /\ CsrAfter(csr, i, idex.pc, Rs1Fwd, ExTrapInfo)
           = CsrAfter(csr, i, idex.pc, a, ExTrapInfo)
      /\ MemRead(i) \/ MemWrite(i) => MemAddr(i, Rs1Fwd) = MemAddr(i, a)
      /\ MemWrite(i) => Rs2Fwd = b
      /\ RegWrite(i) /\ ~IsMulDiv(i) =>
           SimpleResult(i, idex.pc, Rs1Fwd, Rs2Fwd, csr)
             = SimpleResult(i, idex.pc, a, b, csr)
  BY <1>1, <1>2, OnlySourcesMatter
<1>5. /\ RedirectTarget = NextPc(i, idex.pc, Rs1Fwd, Rs2Fwd, csr)
      /\ DmemAddr = MemAddr(i, Rs1Fwd)
      /\ ExResult = IF IsMulDiv(i) THEN MulDivValue(md.op, md.fn, md.a, md.b)
                    ELSE SimpleResult(i, idex.pc, Rs1Fwd, Rs2Fwd, csr)
  BY DEF RedirectTarget, DmemAddr, ExResult, i
<1>6. RegWrite(i) => ExResult =
        IF IsMulDiv(i) THEN MulDivValue(i.op, i.fn, a, b)
        ELSE SimpleResult(i, idex.pc, a, b, csr)
  BY <1>2, <1>4, <1>5
<1>7. /\ ExTrapInfo = TrapOf(i, idex.pc, a, b)
      /\ RedirectTarget = NextPc(i, idex.pc, a, b, csr)
      /\ CsrAfter(csr, i, idex.pc, Rs1Fwd, ExTrapInfo)
           = CsrAfter(csr, i, idex.pc, a, ExTrapInfo)
      /\ MemRead(i) \/ MemWrite(i) => DmemAddr = MemAddr(i, a)
      /\ MemWrite(i) => Rs2Fwd = b
  BY <1>3, <1>4, <1>5
<1> QED  BY <1>6, <1>7 DEF i, a, b

-----------------------------------------------------------------------------
(* The edge on which an instruction leaves EX.                             *)

(* NextPcFollows: if nothing redirects, the slot behind the instruction    *)
(* leaving EX holds the instruction that follows it in program order.      *)
LEMMA NextPcFollows ==
  ASSUME PipelineInv, idex.valid, ~ExStall, ~ExRedirect
  PROVE  ifid.valid /\ ifid.pc = RedirectTarget
<1>1. PredictedPath /\ TypeOK  BY DEF PipelineInv
<1>2. ~ExTrap /\ ~ExMret /\ ~ExMispredict  BY DEF ExRedirect
<1>3. RedirectTarget =
        IF ExCtrlXfer THEN JumpTarget(idex.insn, idex.pc, Rs1Fwd)
        ELSE Add(idex.pc, 4)
  <2>1. ~Traps(idex.insn, idex.pc, Rs1Fwd, Rs2Fwd)
    BY <1>2 DEF ExTrap, ExTrapInfo, Traps
  <2>2. idex.insn.op # "mret"  BY <1>2 DEF ExMret
  <2>3. ExCtrlXfer <=> CtrlXfer(idex.insn, Rs1Fwd, Rs2Fwd)
    BY DEF ExCtrlXfer
  <2> QED  BY <2>1, <2>2, <2>3 DEF RedirectTarget, NextPc
<1>4. /\ idex.pred.taken <=> ExCtrlXfer
      /\ ExCtrlXfer =>
           idex.pred.target = JumpTarget(idex.insn, idex.pc, Rs1Fwd)
  <2>1. idex.pred.taken \in BOOLEAN  BY <1>1 DEF TypeOK
  <2> QED  BY <1>2, <2>1 DEF ExMispredict
<1> QED  BY <1>1, <1>3, <1>4 DEF PredictedPath, Predicted

(* RegsAfter: an instruction that leaves EX without a trap changes its     *)
(* destination and no other architectural register.                        *)
LEMMA RegsAfter ==
  ASSUME PipelineInv, idex.valid, EveryEdge, exmem' = ExMemNext
  PROVE  LET i == idex.insn
             value == CASE MemRead(i) -> mem[Slot(DmemAddr)]
                        [] IsJump(i)  -> Add(idex.pc, 4)
                        [] OTHER      -> ExResult
         IN  \A r \in Reg : ArchReg(r)' =
               IF RegWrite(i) /\ i.rd # 0 /\ i.rd = r THEN value ELSE ArchReg(r)
<1> DEFINE i == idex.insn
           value == CASE MemRead(i) -> mem[Slot(DmemAddr)]
                      [] IsJump(i)  -> Add(idex.pc, 4)
                      [] OTHER      -> ExResult
<1> SUFFICES ASSUME NEW r \in Reg
             PROVE  ArchReg(r)' =
                      IF RegWrite(i) /\ i.rd # 0 /\ i.rd = r
                      THEN value ELSE ArchReg(r)
  OBVIOUS
<1>1. exmem' = [valid |-> idex.valid, pc |-> idex.pc,
                regWrite |-> RegWrite(i), memRead |-> MemRead(i),
                sel |-> ResultSel(i), rd |-> i.rd, result |-> ExResult,
                pc4 |-> Add(idex.pc, 4)]
  BY DEF ExMemNext
<1>2. ExMemWrites(r)' <=> RegWrite(i) /\ i.rd # 0 /\ i.rd = r
  BY <1>1 DEF ExMemWrites
<1>3. dmemOut' = mem[Slot(DmemAddr)]  BY DEF EveryEdge
<1>4. MemResult' = value
  <2>1. CASE MemRead(i)
    <3>1. exmem'.sel = "mem"
      BY <1>1, <2>1 DEF ResultSel, MemRead, IsJump, IsCsr
    <3>2. MemResult' = dmemOut'  BY <3>1 DEF MemResult
    <3>3. value = mem[Slot(DmemAddr)]  BY <2>1 DEF MemRead, IsJump
    <3> QED  BY <1>3, <3>2, <3>3
  <2>2. CASE ~MemRead(i) /\ IsJump(i)
    <3>1. exmem'.sel = "pc4"
      BY <1>1, <2>2 DEF ResultSel, MemRead, IsJump, IsCsr
    <3>2. MemResult' = exmem'.pc4  BY <3>1 DEF MemResult
    <3>3. value = Add(idex.pc, 4)  BY <2>2
    <3> QED  BY <1>1, <3>2, <3>3
  <2>3. CASE ~MemRead(i) /\ ~IsJump(i)
    <3>1. exmem'.sel \in {"csr", "alu"}  BY <1>1, <2>3 DEF ResultSel
    <3>2. MemResult' = exmem'.result  BY <3>1 DEF MemResult
    <3>3. value = ExResult  BY <2>3
    <3> QED  BY <1>1, <3>2, <3>3
  <2> QED  BY <2>1, <2>2, <2>3
<1>5. RegRead(r)' = ArchReg(r)  BY DrainKeepsRegs DEF PipelineInv
<1> QED  BY <1>2, <1>4, <1>5 DEF ArchReg

(* Completes: the edge on which an instruction leaves EX, whichever way    *)
(* the front of the pipeline moves, is one step of the abstract machine.   *)
LEMMA Completes ==
  ASSUME PipelineInv, idex.valid, ~ExStall, EveryEdge, CsrEdge,
         exmem' = (IF ExTrap THEN ExMemBubble ELSE ExMemNext),
         ArchPc' = RedirectTarget
  PROVE  Arch!Execute
<1> DEFINE i == idex.insn
           a == ArchReg(i.rs1)
           b == ArchReg(i.rs2)
           t == TrapOf(i, idex.pc, a, b)
<1>1. TypeOK  BY DEF PipelineInv
<1>2. ArchPc = idex.pc /\ i = prog[Slot(ArchPc)]  BY ExSees DEF ArchPc
<1>3. a = ArchRegs[i.rs1] /\ b = ArchRegs[i.rs2] /\ i.rd \in Reg
  BY ExSees DEF ArchRegs
<1>4. /\ ExTrapInfo = t
      /\ RedirectTarget = NextPc(i, idex.pc, a, b, csr)
      /\ CsrAfter(csr, i, idex.pc, Rs1Fwd, ExTrapInfo)
           = CsrAfter(csr, i, idex.pc, a, t)
      /\ MemRead(i) \/ MemWrite(i) => DmemAddr = MemAddr(i, a)
      /\ MemWrite(i) => Rs2Fwd = b
      /\ RegWrite(i) => ExResult =
           IF IsMulDiv(i) THEN MulDivValue(i.op, i.fn, a, b)
           ELSE SimpleResult(i, idex.pc, a, b, csr)
  BY SameAsArch
<1>5. ExTrap <=> t.cause # -1  BY <1>4 DEF ExTrap
<1>6. ArchPc' = NextPc(i, ArchPc, a, b, csr)  BY <1>2, <1>4
<1>7. csr' = CsrAfter(csr, i, ArchPc, a, t)  BY <1>2, <1>4 DEF CsrEdge
<1>8. mem' = IF t.cause = -1 /\ MemWrite(i)
             THEN [mem EXCEPT ![Slot(MemAddr(i, a))] = b] ELSE mem
  BY <1>4, <1>5 DEF EveryEdge, DmemWrites
<1>9. ArchRegs' = IF t.cause = -1 /\ RegWrite(i) /\ i.rd # 0
                  THEN [ArchRegs EXCEPT ![i.rd] = Arch!Value(i, a, b)]
                  ELSE ArchRegs
  <2>1. CASE ExTrap
    <3>1. exmem'.valid = FALSE  BY <2>1 DEF ExMemBubble
    <3>2. \A r \in Reg : ArchReg(r)' = ArchReg(r)  BY <1>1, <3>1, ArchKept
    <3>3. ArchRegs' = ArchRegs  BY <3>2 DEF ArchRegs
    <3> QED  BY <1>5, <2>1, <3>3
  <2>2. CASE ~ExTrap
    <3> DEFINE value == CASE MemRead(i) -> mem[Slot(DmemAddr)]
                          [] IsJump(i)  -> Add(idex.pc, 4)
                          [] OTHER      -> ExResult
    <3>1. \A r \in Reg : ArchReg(r)' =
            IF RegWrite(i) /\ i.rd # 0 /\ i.rd = r THEN value ELSE ArchReg(r)
      BY <2>2, RegsAfter
    <3>2. RegWrite(i) => value = Arch!Value(i, a, b)
      <4>1. /\ MemRead(i) => ~IsJump(i) /\ ~IsMulDiv(i)
            /\ IsJump(i) => ~IsMulDiv(i)
        BY DEF MemRead, IsJump, IsMulDiv, MulDivOps
      <4> HIDE DEF i, a, b
      <4>2. CASE MemRead(i)
        <5>1. Arch!Value(i, a, b) = mem[Slot(MemAddr(i, a))]
          BY <4>1, <4>2, SameControl DEF Arch!Value
        <5>2. value = mem[Slot(DmemAddr)]  BY <4>1, <4>2
        <5> QED  BY <1>4, <4>2, <5>1, <5>2
      <4>3. CASE IsJump(i)
        <5>1. Arch!Value(i, a, b) = Add(ArchPc, 4)
          BY <4>1, <4>3, SameControl DEF Arch!Value
        <5>2. value = Add(idex.pc, 4)  BY <4>1, <4>3
        <5> QED  BY <1>2, <5>1, <5>2
      <4>4. CASE RegWrite(i) /\ ~MemRead(i) /\ ~IsJump(i)
        <5>1. Arch!Value(i, a, b) =
                IF IsMulDiv(i) THEN MulDivValue(i.op, i.fn, a, b)
                ELSE SimpleResult(i, ArchPc, a, b, csr)
          BY <4>4, SameControl, SameEffect DEF Arch!Value
        <5>2. value = ExResult  BY <4>4
        <5> QED  BY <1>2, <1>4, <4>4, <5>1, <5>2
      <4> QED  BY <4>2, <4>3, <4>4
    <3> HIDE DEF value, i, a, b, t
    <3>3. CASE RegWrite(i) /\ i.rd # 0
      <4>1. ArchRegs' = [ArchRegs EXCEPT ![i.rd] = value]
        BY <1>3, <3>1, <3>3 DEF ArchRegs
      <4> QED  BY <1>5, <2>2, <3>2, <3>3, <4>1
    <3>4. CASE ~ (RegWrite(i) /\ i.rd # 0)
      <4>1. ArchRegs' = ArchRegs  BY <3>1, <3>4 DEF ArchRegs
      <4> QED  BY <3>4, <4>1
    <3> QED  BY <3>3, <3>4
  <2> QED  BY <2>1, <2>2
<1>10. prog' = prog  BY DEF EveryEdge
<1> HIDE DEF i, a, b, t
<1>11. /\ i = prog[Arch!Slot(ArchPc)] /\ a = ArchRegs[i.rs1]
       /\ b = ArchRegs[i.rs2] /\ t = Arch!TrapOf(i, ArchPc, a, b)
  BY <1>2, <1>3, SameControl, SameEffect DEF t
<1>12. /\ ArchPc' = Arch!NextPc(i, ArchPc, a, b, csr)
       /\ ArchRegs' = IF t.cause = -1 /\ Arch!RegWrite(i) /\ i.rd # 0
                      THEN [ArchRegs EXCEPT ![i.rd] = Arch!Value(i, a, b)]
                      ELSE ArchRegs
       /\ mem' = IF t.cause = -1 /\ Arch!MemWrite(i)
                 THEN [mem EXCEPT ![Arch!Slot(Arch!MemAddr(i, a))] = b]
                 ELSE mem
       /\ csr' = Arch!CsrAfter(csr, i, ArchPc, a, t)
  BY <1>6, <1>7, <1>8, <1>9, SameControl, SameEffect
<1> QED  BY <1>10, <1>11, <1>12 DEF Arch!Execute

-----------------------------------------------------------------------------
(* Every edge.                                                             *)

(* Stutters: an edge on which no instruction leaves EX changes nothing the *)
(* program can see.                                                        *)
LEMMA Stutters ==
  ASSUME PipelineInv, EveryEdge, CsrEdge, exmem'.valid = FALSE,
         ~idex.valid \/ ExStall, ArchPc' = ArchPc
  PROVE  UNCHANGED Arch!vars
<1>1. TypeOK  BY DEF PipelineInv
<1>2. \A r \in Reg : ArchReg(r)' = ArchReg(r)  BY <1>1, ArchKept
<1>3. ArchRegs' = ArchRegs  BY <1>2 DEF ArchRegs
<1>4. csr' = csr  BY DEF CsrEdge
<1>5. ~DmemWrites
  <2>1. CASE ~idex.valid  BY <2>1 DEF DmemWrites
  <2>2. CASE ExStall
    BY <2>2 DEF DmemWrites, ExStall, MdReq, IsMulDiv, MulDivOps, MemWrite
  <2> QED  BY <2>1, <2>2
<1>6. mem' = mem /\ prog' = prog  BY <1>5 DEF EveryEdge
<1> QED  BY <1>3, <1>4, <1>6 DEF Arch!vars

(* ResetRefines: a reset of the pipeline is a reset of the abstract        *)
(* machine: the writes in flight are lost, x0 stays zero.                  *)
LEMMA ResetRefines ==
  ASSUME PipelineInv, Reset
  PROVE  Arch!Reset
<1>1. TypeOK /\ regs[0] = 0  BY DEF PipelineInv
<1>2. /\ idex' = IdExBubble /\ exmem' = ExMemBubble /\ memwb' = MemWbBubble
      /\ ifid' = IfIdEmpty(0) /\ pc' = 0 /\ csr' = CsrReset
      /\ prog' = prog /\ regs' = regs /\ mem' = mem /\ ResetAllowed(prog)
  BY DEF Reset, ClearStages
<1>3. ArchPc' = 0
  BY <1>2 DEF ArchPc, IdExBubble, IfIdEmpty
<1>4. \A r \in Reg : ArchReg(r)' = regs[r]
  BY <1>2 DEF ArchReg, ExMemWrites, RegRead, WbWrites, ExMemBubble, MemWbBubble
<1>5. ArchRegs' = [r \in Reg |-> regs[r]]  BY <1>4 DEF ArchRegs
<1>6. ArchRegs' \in [Reg -> Word] /\ ArchRegs'[0] = 0
  BY <1>1, <1>5, ZeroReg DEF TypeOK
<1> QED  BY <1>2, <1>3, <1>6, SameSets DEF Arch!Reset

(* InitRefines: the pipeline powers up as the abstract machine does.       *)
LEMMA InitRefines == Init => Arch!Init
<1> SUFFICES ASSUME Init PROVE Arch!Init  OBVIOUS
<1>1. /\ idex = IdExBubble /\ exmem = ExMemBubble /\ memwb = MemWbBubble
      /\ ifid = IfIdEmpty(0) /\ pc = 0 /\ csr = CsrReset
      /\ prog \in [Slots -> Insn] /\ mem \in [Slots -> Word]
      /\ regs \in [Reg -> Word] /\ regs[0] = 0
  BY ProgramsAssumption DEF Init
<1>2. ArchPc = 0  BY <1>1 DEF ArchPc, IdExBubble, IfIdEmpty
<1>3. \A r \in Reg : ArchReg(r) = regs[r]
  BY <1>1 DEF ArchReg, ExMemWrites, RegRead, WbWrites, ExMemBubble, MemWbBubble
<1>4. ArchRegs = [r \in Reg |-> regs[r]]  BY <1>3 DEF ArchRegs
<1>5. ArchRegs \in [Reg -> Word] /\ ArchRegs[0] = 0
  BY <1>1, <1>4, ZeroReg
<1> QED  BY <1>1, <1>2, <1>5, SameSets DEF Arch!Init

(* StepRefines: every edge is a step of the abstract machine, or changes   *)
(* nothing it can see.                                                     *)
LEMMA StepRefines == PipelineInv /\ [Next]_vars => [Arch!Next]_(Arch!vars)
<1> SUFFICES ASSUME PipelineInv, [Next]_vars
             PROVE  Arch!Execute \/ Arch!Reset \/ UNCHANGED Arch!vars
  BY DEF Arch!Next
<1>1. TypeOK /\ PredictedPath  BY DEF PipelineInv
<1>2. CASE ExHold
  <2>1. /\ ExStall /\ EveryEdge /\ CsrEdge /\ pc' = pc /\ ifid' = ifid
        /\ exmem' = ExMemBubble
        /\ idex' = [idex EXCEPT !.fwdA = FwdDecay(@), !.fwdB = FwdDecay(@)]
    BY <1>2 DEF ExHold
  <2>2. idex'.valid = idex.valid /\ idex'.pc = idex.pc
    BY <1>1, <2>1 DEF TypeOK
  <2>3. ArchPc' = ArchPc  BY <2>1, <2>2 DEF ArchPc
  <2>4. exmem'.valid = FALSE  BY <2>1 DEF ExMemBubble
  <2> QED  BY <2>1, <2>3, <2>4, Stutters
<1>3. CASE LoadUse
  <2>1. /\ idex.valid /\ ~ExStall /\ ~ExRedirect /\ ~ExTrap
        /\ EveryEdge /\ CsrEdge /\ exmem' = ExMemNext
        /\ ifid' = ifid /\ idex' = IdExBubble
    BY <1>3 DEF LoadUse, IdStall, ExRedirect
  <2>2. ifid.valid /\ ifid.pc = RedirectTarget  BY <2>1, NextPcFollows
  <2>3. ArchPc' = RedirectTarget  BY <2>1, <2>2 DEF ArchPc, IdExBubble
  <2> QED  BY <2>1, <2>3, Completes
<1>4. ASSUME Flush, ExRedirect,
             exmem' = (IF ExTrap THEN ExMemBubble ELSE ExMemNext)
      PROVE  Arch!Execute
  <2>1. idex.valid /\ ~ExStall
    BY <1>4 DEF ExRedirect, ExTrap, ExTrapInfo, NoTrap, ExMret, ExMispredict
  <2>2. /\ EveryEdge /\ CsrEdge /\ pc' = RedirectTarget
        /\ ifid' = IfIdEmpty(pc) /\ idex' = IdExBubble
    BY <1>4 DEF Flush
  <2>3. ArchPc' = RedirectTarget
    BY <2>2 DEF ArchPc, IdExBubble, IfIdEmpty
  <2> QED  BY <1>4, <2>1, <2>2, <2>3, Completes
<1>5. ASSUME NEW guess \in Predictions, Advance(guess)
      PROVE  Arch!Execute \/ UNCHANGED Arch!vars
  <2>1. /\ ~ExStall /\ ~ExRedirect /\ ~ExTrap /\ EveryEdge /\ CsrEdge
        /\ exmem' = ExMemNext
        /\ ifid' = [valid |-> TRUE, pc |-> pc, pred |-> guess]
        /\ idex'.valid = ifid.valid /\ idex'.pc = ifid.pc
    BY <1>5 DEF Advance, FrontStall, ExRedirect, IdExNext
  <2>2. CASE idex.valid
    <3>1. ifid.valid /\ ifid.pc = RedirectTarget
      BY <2>1, <2>2, NextPcFollows
    <3>2. ArchPc' = RedirectTarget  BY <2>1, <3>1 DEF ArchPc
    <3> QED  BY <2>1, <2>2, <3>2, Completes
  <2>3. CASE ~idex.valid
    <3>1. idex.valid = FALSE  BY <1>1, <2>3 DEF TypeOK
    <3>2. exmem'.valid = FALSE  BY <2>1, <3>1 DEF ExMemNext
    <3>3. ArchPc' = ArchPc
      <4>1. CASE ifid.valid  BY <2>1, <2>3, <4>1 DEF ArchPc
      <4>2. CASE ~ifid.valid  BY <2>1, <2>3, <4>2 DEF ArchPc
      <4> QED  BY <4>1, <4>2
    <3> QED  BY <2>1, <2>3, <3>2, <3>3, Stutters
  <2> QED  BY <2>2, <2>3
<1>6. CASE Reset  BY <1>6, ResetRefines
<1>7. CASE UNCHANGED vars
  BY <1>7 DEF vars, Arch!vars, ArchPc, ArchRegs, ArchReg, ExMemWrites,
     MemResult, RegRead, WbWrites
<1>8. CASE Next
  <2>1. CASE Flush /\ ExRedirect /\ exmem' = ExMemBubble /\ ExTrap
    BY <1>4, <2>1
  <2>2. CASE Flush /\ ExRedirect /\ exmem' = ExMemNext /\ ~ExTrap
    BY <1>4, <2>2
  <2> QED  BY <1>2, <1>3, <1>5, <1>6, <1>8, <2>1, <2>2, EdgeShapes
<1> QED  BY <1>7, <1>8

(* PipelineRefinesIsa: the pipeline implements the one-instruction-per-    *)
(* step machine (Implements: what tb/cosim compares on chosen programs).   *)
THEOREM PipelineRefinesIsa == Spec => Implements
<1>1. Spec => Arch!Init /\ [][Arch!Next]_(Arch!vars)
  BY InitRefines, StepRefines, Pipeline, PTL DEF Spec
<1> QED  BY <1>1 DEF Implements, Arch!Spec

-----------------------------------------------------------------------------
(* Alignment: instructions leave EX at aligned addresses only, for every   *)
(* program and every predictor: a misaligned target traps before it is     *)
(* taken, so the predictor is never taught one.                            *)

(* AddCases: a sum of words wraps at most once.                            *)
LEMMA AddCases ==
  ASSUME NEW a \in Word, NEW b \in Word
  PROVE  Add(a, b) = IF a + b < WordSize THEN a + b ELSE a + b - WordSize
<1>1. /\ a + b \in 0 .. 2 * WordSize - 2 /\ WordSize \in Nat \ {0}
      /\ a \in Nat /\ b \in Nat
  BY WordAssumption DEF Word
<1>2. CASE a + b < WordSize
  BY <1>1, <1>2 DEF Add
<1>3. CASE a + b >= WordSize
  <2> DEFINE n == a + b - WordSize
  <2>1. n \in 0 .. WordSize - 1 /\ a + b = n + WordSize  BY <1>1, <1>3
  <2> HIDE DEF n
  <2>2. (n + WordSize) % WordSize = n  BY <1>1, <2>1
  <2>3. Add(a, b) = n  BY <2>1, <2>2 DEF Add
  <2> QED  BY <1>1, <1>3, <2>3 DEF n
<1> QED  BY <1>1, <1>2, <1>3

(* AddAligned: sums of words keep even and aligned addresses.              *)
LEMMA AddAligned ==
  ASSUME NEW a \in Word, NEW b \in Word
  PROVE  /\ a % 4 = 0 /\ b % 4 = 0 => Add(a, b) % 4 = 0
         /\ a % 2 = 0 /\ b % 2 = 0 => Add(a, b) % 2 = 0
<1>1. a \in Nat /\ b \in Nat /\ WordSize \in Nat /\ WordSize % 4 = 0
  BY WordAssumption DEF Word
<1>2. CASE Add(a, b) = a + b
  BY <1>1, <1>2
<1>3. CASE Add(a, b) = a + b - WordSize
  BY <1>1, <1>3
<1> QED  BY <1>2, <1>3, AddCases

(* AlignToAligned: clearing the low bits aligns an address.                *)
LEMMA AlignToAligned ==
  ASSUME NEW a \in Word
  PROVE  AlignTo(4, a) % 4 = 0 /\ AlignTo(2, a) % 2 = 0
  BY WordAssumption DEF AlignTo, Word

(* EvenAndBit1: an even address whose bit 1 is clear is aligned.           *)
LEMMA EvenAndBit1 ==
  ASSUME NEW a \in Word, a % 2 = 0, ~Bit1(a)
  PROVE  a % 4 = 0
  BY WordAssumption DEF Word, Bit1

(* JumpTargetEven: from an aligned pc a transfer goes to an even address.  *)
LEMMA JumpTargetEven ==
  ASSUME NEW i \in AnyInsn, NEW pcX \in Word, NEW a \in Word, pcX % 4 = 0,
         i.op = "jalr" \/ i.imm % 2 = 0
  PROVE  JumpTarget(i, pcX, a) % 2 = 0
<1>1. i.imm \in Word  BY DEF AnyInsn, InsnOf
<1>2. CASE i.op = "jalr"
  BY <1>2, TargetsWord, AlignToAligned DEF JumpTarget
<1>3. CASE i.op # "jalr"
  <2>1. pcX % 2 = 0  BY WordAssumption DEF Word
  <2> QED  BY <1>1, <1>3, <2>1, AddAligned DEF JumpTarget
<1> QED  BY <1>2, <1>3

-----------------------------------------------------------------------------
(* What EX decides.                                                        *)

(* TransferAligned: a transfer that does not trap goes to an aligned       *)
(* address, and so does whatever follows in order.                         *)
LEMMA TransferAligned ==
  ASSUME PipelineInv, AlignedInv, idex.valid, ~ExTrap
  PROVE  ExCtrlXfer => JumpTarget(idex.insn, idex.pc, Rs1Fwd) % 4 = 0
<1>1. /\ TypeOK /\ prog \in Programs /\ idex.pc % 4 = 0
      /\ idex.insn = prog[Slot(idex.pc)]
  BY DEF PipelineInv, SlotsMatchProgram, AlignedInv, ArchPc
<1>2. /\ idex.insn \in AnyInsn /\ idex.pc \in Word /\ Rs1Fwd \in Word
  BY <1>1, ControlBits, StageWords DEF TypeOK
<1> SUFFICES ASSUME ExCtrlXfer
             PROVE  JumpTarget(idex.insn, idex.pc, Rs1Fwd) % 4 = 0
  OBVIOUS
<1> DEFINE t == JumpTarget(idex.insn, idex.pc, Rs1Fwd)
<1>3. idex.insn.op \in {"branch", "jal", "jalr"}
  BY DEF ExCtrlXfer, CtrlXfer, IsJump
<1>4. idex.insn.op = "jalr" \/ idex.insn.imm % 2 = 0
  <2>1. Slot(idex.pc) \in Slots  BY <1>2, SlotSlots
  <2> QED  BY <1>1, <1>3, <2>1, OffsetAssumption
<1>5. t % 2 = 0 /\ t \in Word
  BY <1>1, <1>2, <1>4, JumpTargetEven, TargetsWord
<1>6. ~Bit1(t)
  BY <1>3 DEF ExTrap, ExTrapInfo, TrapOf, ExCtrlXfer, IsCsr
<1> QED  BY <1>5, <1>6, EvenAndBit1

(* RedirectAligned: the instruction after the one in EX is at an aligned   *)
(* address.                                                                *)
LEMMA RedirectAligned ==
  ASSUME PipelineInv, AlignedInv, idex.valid
  PROVE  RedirectTarget % 4 = 0
<1>1. /\ TypeOK /\ csr.mtvec % 4 = 0 /\ csr.mepc % 4 = 0 /\ idex.pc % 4 = 0
  BY DEF PipelineInv, AlignedInv, ArchPc
<1>2. Traps(idex.insn, idex.pc, Rs1Fwd, Rs2Fwd) = ExTrap
  BY DEF Traps, ExTrap, ExTrapInfo
<1>3. ExCtrlXfer = CtrlXfer(idex.insn, Rs1Fwd, Rs2Fwd)
  BY DEF ExCtrlXfer, CtrlXfer, IsJump
<1>4. Add(idex.pc, 4) % 4 = 0
  BY <1>1, AddAligned, SmallWords DEF TypeOK
<1> QED
  BY <1>1, <1>2, <1>3, <1>4, TransferAligned DEF RedirectTarget, NextPc

(* CsrAligned: mtvec and mepc are only ever set to aligned addresses.      *)
LEMMA CsrAligned ==
  ASSUME PipelineInv, AlignedInv, CsrEdge
  PROVE  csr'.mtvec % 4 = 0 /\ csr'.mepc % 4 = 0
<1>1. /\ TypeOK /\ csr \in CsrFile /\ csr.mtvec % 4 = 0 /\ csr.mepc % 4 = 0
      /\ idex.insn \in AnyInsn /\ idex.pc \in Word /\ Rs1Fwd \in Word
  BY ControlBits, StageWords DEF PipelineInv, AlignedInv, TypeOK
<1> DEFINE w == CsrWdata(csr, idex.insn, Rs1Fwd)
<1>2. w \in Word  BY <1>1, CsrWdataWord
<1>3. AlignTo(4, w) % 4 = 0 /\ AlignTo(4, idex.pc) % 4 = 0
  BY <1>1, <1>2, AlignToAligned
<1> DEFINE after == CsrAfter(csr, idex.insn, idex.pc, Rs1Fwd, ExTrapInfo)
<1>4. after.mtvec \in {csr.mtvec, AlignTo(4, w)}
  BY <1>1 DEF CsrAfter, CsrFile
<1>5. after.mepc \in {csr.mepc, AlignTo(4, w), AlignTo(4, idex.pc)}
  BY <1>1 DEF CsrAfter, CsrFile
<1> HIDE DEF w, after
<1>6. csr' = after \/ csr' = csr  BY DEF CsrEdge, after
<1> QED  BY <1>1, <1>3, <1>4, <1>5, <1>6

(* ArchPcStep: an edge keeps the architectural pc or moves it to where the *)
(* instruction in EX goes next.                                            *)
LEMMA ArchPcStep ==
  ASSUME PipelineInv, Clock
  PROVE  ArchPc' = ArchPc \/ (idex.valid /\ ArchPc' = RedirectTarget)
<1>1. TypeOK /\ PredictedPath  BY DEF PipelineInv
<1>2. CASE ExHold
  <2>1. pc' = pc /\ ifid' = ifid /\ idex'.valid = idex.valid /\ idex'.pc = idex.pc
    BY <1>1, <1>2 DEF ExHold, TypeOK
  <2> QED  BY <2>1 DEF ArchPc
<1>3. CASE LoadUse
  <2>1. idex.valid /\ ~ExStall /\ ~ExRedirect  BY <1>3 DEF LoadUse, IdStall
  <2>2. ifid' = ifid /\ idex'.valid = FALSE
    BY <1>3 DEF LoadUse, IdExBubble
  <2> QED  BY <2>1, <2>2, NextPcFollows DEF ArchPc
<1>4. CASE ExRedirect /\ Flush
  <2>1. idex.valid
    BY <1>4 DEF ExRedirect, ExTrap, ExTrapInfo, NoTrap, ExMret, ExMispredict
  <2>2. pc' = RedirectTarget /\ ifid'.valid = FALSE /\ idex'.valid = FALSE
    BY <1>4 DEF Flush, IdExBubble, IfIdEmpty
  <2> QED  BY <2>1, <2>2 DEF ArchPc
<1>5. ASSUME NEW guess \in Predictions, Advance(guess)
      PROVE  ArchPc' = ArchPc \/ (idex.valid /\ ArchPc' = RedirectTarget)
  <2>1. /\ ~ExStall /\ ~ExRedirect /\ ifid'.valid = TRUE /\ ifid'.pc = pc
        /\ idex'.valid = ifid.valid /\ idex'.pc = ifid.pc
    BY <1>5 DEF Advance, FrontStall, IdExNext
  <2>2. CASE idex.valid
    BY <2>1, <2>2, NextPcFollows DEF ArchPc
  <2>3. CASE ~idex.valid
    BY <2>1, <2>3 DEF ArchPc
  <2> QED  BY <2>2, <2>3
<1> QED
  BY <1>2, <1>3, <1>4, <1>5
  DEF Clock, TrapRedirect, MretRedirect, MispredictRedirect

(* AlignedStep: every edge, and a reset, preserves AlignedInv.             *)
LEMMA AlignedStep ==
  ASSUME PipelineInv, AlignedInv, Next
  PROVE  AlignedInv'
<1>1. CASE Clock
  <2>1. EveryEdge /\ CsrEdge
    BY <1>1 DEF Clock, ExHold, LoadUse, TrapRedirect, MretRedirect,
       MispredictRedirect, Flush, Advance
  <2>2. prog' = prog  BY <2>1 DEF EveryEdge
  <2>3. ArchPc' % 4 = 0
    BY <1>1, ArchPcStep, RedirectAligned DEF AlignedInv
  <2> QED  BY <2>1, <2>2, <2>3, CsrAligned DEF AlignedInv
<1>2. CASE Reset
  <2>1. /\ prog' = prog /\ csr' = CsrReset /\ pc' = 0 /\ ifid'.valid = FALSE
        /\ idex'.valid = FALSE
    BY <1>2 DEF Reset, ClearStages, IdExBubble, IfIdEmpty
  <2> QED  BY <2>1 DEF AlignedInv, ArchPc, CsrReset
<1> QED  BY <1>1, <1>2 DEF Next

(* TaughtAligned: the predictor is only ever told of transfers between     *)
(* aligned addresses, although it may itself predict a misaligned one      *)
(* (a_bp_upd_pc_aligned and a_bp_upd_target_aligned).                      *)
THEOREM TaughtAligned == Spec => []PredictorTaughtAligned
<1>1. Init => AlignedInv
  BY DEF Init, AlignedInv, ArchPc, IdExBubble, IfIdEmpty, CsrReset
<1>2. PipelineInv /\ AlignedInv /\ [Next]_vars => AlignedInv'
  <2>1. AlignedInv /\ UNCHANGED vars => AlignedInv'
    BY DEF vars, AlignedInv, ArchPc
  <2> QED  BY <2>1, AlignedStep
<1>3. PipelineInv /\ AlignedInv => PredictorTaughtAligned
  <2> SUFFICES ASSUME PipelineInv, AlignedInv, ExBpUpd
               PROVE  /\ idex.pc % 4 = 0
                      /\ ExCtrlXfer =>
                           JumpTarget(idex.insn, idex.pc, Rs1Fwd) % 4 = 0
    BY DEF PredictorTaughtAligned
  <2>1. idex.valid /\ ~ExTrap  BY DEF ExBpUpd
  <2> QED  BY <2>1, TransferAligned DEF AlignedInv, ArchPc
<1> QED  BY <1>1, <1>2, <1>3, Pipeline, PTL DEF Spec
-----------------------------------------------------------------------------
(* The predictor keeps its types.                                          *)

(* IndexRange: an address selects an entry of the table and a tag.         *)
LEMMA IndexRange ==
  ASSUME NEW a \in Word
  PROVE  BP!IndexOf(a) \in BP!Idx /\ BP!TagOf(a) \in Nat
<1>1. a \in Nat /\ BtbEntries \in Nat \ {0}
  BY BpAssumption, WordAssumption DEF Word
<1>2. a \div 4 \in Nat  BY <1>1
<1>3. (a \div 4) % BtbEntries \in 0 .. BtbEntries - 1  BY <1>1, <1>2
<1>4. 4 * BtbEntries \in Nat \ {0}  BY <1>1
<1>5. a \div (4 * BtbEntries) \in Nat
  <2> DEFINE n == 4 * BtbEntries
  <2>1. n \in Nat \ {0}  BY <1>4
  <2> HIDE DEF n
  <2>2. a \div n \in Nat  BY <1>1, <2>1
  <2> QED  BY <2>2 DEF n
<1> QED  BY <1>3, <1>5 DEF BP!IndexOf, BP!TagOf, BP!Idx

(* SameWord: the predictor's words are the core's.                         *)
LEMMA SameWord == BP!Word = Word
  BY DEF BP!Word, Word

(* ExUpdType: what EX teaches the predictor is a transfer between words.   *)
LEMMA ExUpdType ==
  ASSUME TypeOK
  PROVE  ExUpd \in BP!Upd
<1>1. idex.insn \in AnyInsn /\ idex.pc \in Word /\ Rs1Fwd \in Word
      /\ Rs2Fwd \in Word
  BY ControlBits, StageWords DEF TypeOK
<1>2. JumpTarget(idex.insn, idex.pc, Rs1Fwd) \in Word
  BY <1>1, TargetsWord
<1>3. ExBpKind \in BP!Kinds  BY DEF ExBpKind, BP!Kinds
<1>4. ExBpUpd \in BOOLEAN /\ ExCtrlXfer \in BOOLEAN
  BY <1>1 DEF ExBpUpd, ExCtrlXfer
<1> QED  BY <1>1, <1>2, <1>3, <1>4, SameWord DEF ExUpd, BP!Upd

(* LookupType: a lookup answers with a word.                               *)
LEMMA LookupType ==
  ASSUME BP!TypeOK, NEW a \in Word
  PROVE  /\ BP!Lookup(a).target \in Word
         /\ BP!Lookup(a).taken \in BOOLEAN /\ BP!Lookup(a).hit \in BOOLEAN
<1>1. BP!IndexOf(a) \in BP!Idx  BY IndexRange
<1>2. btb[BP!IndexOf(a)] \in BP!Entry  BY <1>1 DEF BP!TypeOK
<1>3. BP!SpDec \in BP!RasIdx
  BY BpAssumption DEF BP!TypeOK, BP!SpDec, BP!RasIdx
<1>4. ras[BP!SpDec] \in Word  BY <1>3, SameWord DEF BP!TypeOK
<1>5. BP!Hit(a) \in BOOLEAN  BY <1>1 DEF BP!TypeOK, BP!Hit
<1> QED
  BY <1>2, <1>4, <1>5, SameWord DEF BP!Lookup, BP!Entry

(* TableStep: a resolved transfer keeps the table's types.                 *)
LEMMA TableStep ==
  ASSUME BP!TypeOK, NEW upd \in BP!Upd, BP!TableEdge(upd)
  PROVE  btb' \in [BP!Idx -> BP!Entry] /\ btbValid' \in [BP!Idx -> BOOLEAN]
<1>1. upd.pc \in Word /\ upd.target \in Word /\ upd.kind \in BP!Kinds
  BY SameWord DEF BP!Upd
<1>2. BP!IndexOf(upd.pc) \in BP!Idx /\ BP!TagOf(upd.pc) \in Nat
  BY <1>1, IndexRange
<1> DEFINE e == btb[BP!IndexOf(upd.pc)]
<1>3. e.cnt \in 0 .. 3 /\ e.target \in Word
  BY <1>2, SameWord DEF BP!TypeOK, BP!Entry
<1>4. BP!CntTaken(upd) \in 0 .. 3  BY <1>3 DEF BP!CntTaken
<1>5. BP!CntNtaken(upd) \in 0 .. 3  BY <1>3 DEF BP!CntNtaken
<1>6. BP!BtbWdata(upd) \in BP!Entry
  BY <1>1, <1>2, <1>3, <1>4, <1>5, SameWord DEF BP!BtbWdata, BP!Entry
<1> QED  BY <1>2, <1>6 DEF BP!TableEdge, BP!TypeOK

(* StackStep: a resolved transfer keeps the stack's types.                 *)
LEMMA StackStep ==
  ASSUME BP!TypeOK, NEW upd \in BP!Upd, BP!StackEdge(upd)
  PROVE  /\ ras' \in [BP!RasIdx -> Word] /\ rasSp' \in BP!RasIdx
         /\ rasCnt' \in 0 .. RasEntries
<1>1. upd.pc \in Word /\ 4 \in Word  BY SameWord, SmallWords DEF BP!Upd
<1>2. BP!Next4(upd.pc) \in Word
  BY <1>1, AddWord DEF BP!Next4, Add
<1>3. BP!SpInc \in BP!RasIdx /\ BP!SpDec \in BP!RasIdx
  BY BpAssumption DEF BP!TypeOK, BP!SpInc, BP!SpDec, BP!RasIdx
<1>4. BP!Pushed \in 0 .. RasEntries /\ BP!Popped \in 0 .. RasEntries
  BY BpAssumption DEF BP!TypeOK, BP!Pushed, BP!Popped
<1> QED  BY <1>2, <1>3, <1>4, SameWord DEF BP!StackEdge, BP!TypeOK

(* PredStep: the prediction register keeps its type.                       *)
LEMMA PredStep ==
  ASSUME BP!TypeOK, NEW a \in Word, NEW flush \in BOOLEAN,
         NEW hold \in BOOLEAN, BP!PredEdge(a, flush, hold)
  PROVE  pred' \in [taken : BOOLEAN, target : Word, hit : BOOLEAN]
<1>1. CASE hold /\ ~flush
  BY <1>1, SameWord DEF BP!PredEdge, BP!TypeOK
<1>2. CASE ~(hold /\ ~flush)
  <2> DEFINE l == BP!Lookup(a)
  <2>1. l.target \in Word /\ l.taken \in BOOLEAN /\ l.hit \in BOOLEAN
    BY LookupType
  <2>2. pred' = [l EXCEPT !.taken = @ /\ ~flush, !.hit = @ /\ ~flush]
    BY <1>2 DEF BP!PredEdge
  <2>3. l = [hit |-> l.hit, taken |-> l.taken, target |-> l.target]
    BY DEF BP!Lookup
  <2> HIDE DEF l
  <2>4. pred' = [hit |-> l.hit /\ ~flush, taken |-> l.taken /\ ~flush,
                 target |-> l.target]
    BY <2>2, <2>3
  <2> QED  BY <2>1, <2>4
<1> QED  BY <1>1, <1>2

-----------------------------------------------------------------------------
(* The pipeline with the predictor.                                        *)

(* LookupPcWord: the address looked up is a word.                          *)
LEMMA LookupPcWord ==
  ASSUME TypeOK, BP!TypeOK
  PROVE  LookupPc \in Word
  BY AddWord, SmallWords, SameWord DEF LookupPc, TypeOK, BP!TypeOK

(* PredictionAllowed: the predictor's answer is one a free predictor could *)
(* give.                                                                   *)
LEMMA PredictionAllowed ==
  ASSUME PredTargets = Word, BP!TypeOK
  PROVE  Prediction \in Predictions
  BY SameWord DEF BP!TypeOK, Prediction, Predictions

(* BpStepIsStep: a step of the two together is a step of the pipeline.     *)
LEMMA BpStepIsStep ==
  ASSUME PredTargets = Word, BP!TypeOK, [BpNext]_bpCoreVars
  PROVE  [Next]_vars
<1>1. CASE BpEdge
  BY <1>1, PredictionAllowed DEF BpEdge, CoreEdge, Next, Clock
<1>2. CASE BpReset  BY <1>2 DEF BpReset, Next
<1>3. CASE UNCHANGED bpCoreVars  BY <1>3 DEF bpCoreVars
<1> QED  BY <1>1, <1>2, <1>3 DEF BpNext

(* BpTypeStep: and it keeps the predictor's types.                         *)
LEMMA BpTypeStep ==
  ASSUME TypeOK, BP!TypeOK, [BpNext]_bpCoreVars
  PROVE  BP!TypeOK'
<1>1. CASE BpEdge
  <2>1. /\ BP!TableEdge(ExUpd) /\ BP!StackEdge(ExUpd)
        /\ BP!PredEdge(LookupPc, ExRedirect, FrontStall)
    BY <1>1 DEF BpEdge, PredictorEdge, BP!Edge
  <2>2. ExRedirect \in BOOLEAN /\ FrontStall \in BOOLEAN
    BY ControlBits DEF ExRedirect, FrontStall, IdStall, ExStall
  <2>3. pred' \in [taken : BOOLEAN, target : Word, hit : BOOLEAN]
    BY <2>1, <2>2, PredStep, LookupPcWord
  <2> QED
    BY <2>1, <2>3, ExUpdType, TableStep, StackStep, SameWord DEF BP!TypeOK
<1>2. CASE BpReset
  BY <1>2, SameWord, SmallWords, BpAssumption
  DEF BpReset, BP!Reset, BP!NoPred, BP!TypeOK, BP!RasIdx, BP!Idx
<1>3. CASE UNCHANGED bpCoreVars
  BY <1>3 DEF bpCoreVars, bpVars, BP!TypeOK
<1> QED  BY <1>1, <1>2, <1>3 DEF BpNext

(* BpInitTypes: the power-up state has the predictor's types.              *)
LEMMA BpInitTypes == BpInit => Init /\ BP!TypeOK
  BY SameWord, SmallWords, BpAssumption
  DEF BpInit, BP!Init, BP!NoPred, BP!TypeOK, BP!RasIdx, BP!Idx

(* PredictedImplementsCore: with the predictor in the loop the pipeline    *)
(* takes only steps of the pipeline with a free one, whatever the sizes of *)
(* the tables and whatever they hold at power-up (rvntt_bpred in           *)
(* rvntt_core; the RVNTT_ABSTRACT_BPRED build of the formal checks).       *)
THEOREM PredictedImplementsCore ==
  ASSUME PredTargets = Word
  PROVE  BpSpec => ImplementsCore
<1>1. TypeOK /\ BP!TypeOK /\ [BpNext]_bpCoreVars
        => TypeOK' /\ BP!TypeOK' /\ [Next]_vars
  BY BpStepIsStep, BpTypeStep, StepTypes
<1>2. BpInit => TypeOK /\ BP!TypeOK  BY BpInitTypes, InitTypes
<1> QED  BY <1>1, <1>2, PTL DEF BpSpec, ImplementsCore

(* PredictedImplementsIsa: the machine that is built, predictor included,  *)
(* executes the program as the one-instruction-per-step machine does       *)
(* (rvntt_core with rvntt_bpred; what tb/cosim compares with Spike).       *)
THEOREM PredictedImplementsIsa ==
  ASSUME PredTargets = Word
  PROVE  BpSpec => Implements
<1>1. BpInit => Init  BY DEF BpInit
<1>2. BpSpec => Init /\ [][Next]_vars
  BY <1>1, PredictedImplementsCore, PTL DEF BpSpec, ImplementsCore
<1>3. Init /\ [][Next]_vars => Arch!Init /\ [][Arch!Next]_(Arch!vars)
  BY InitRefines, StepRefines, InvInit, InvStep, PTL
<1> QED  BY <1>2, <1>3, PTL DEF Implements, Arch!Spec

(* PredictionFresh: the registered prediction is the tables' answer for    *)
(* the address in pc, through stalls of any length, and there is none      *)
(* after a redirect (bp_lookup_pc, hold and flush in rvntt_core).          *)
THEOREM PredictionFresh == BpSpec => []PredictionIsForFetch
<1>1. BpInit => PredictionIsForFetch
  BY DEF BpInit, BP!Init, BP!NoPred, PredictionIsForFetch
<1>2. PredictionIsForFetch /\ [BpNext]_bpCoreVars => PredictionIsForFetch'
  <2> SUFFICES ASSUME PredictionIsForFetch, [BpNext]_bpCoreVars
               PROVE  PredictionIsForFetch'
    OBVIOUS
  <2>1. ASSUME BpEdge, ExRedirect
        PROVE  PredictionIsForFetch'
    <3>1. looked' = Unlooked  BY <2>1 DEF BpEdge, LookedNext
    <3>2. pred'.taken = FALSE
      BY <2>1 DEF BpEdge, PredictorEdge, BP!Edge, BP!PredEdge, BP!Lookup
    <3> QED  BY <3>1, <3>2 DEF PredictionIsForFetch, Unlooked
  <2>2. ASSUME BpEdge, ~ExRedirect, FrontStall
        PROVE  PredictionIsForFetch'
    <3>1. looked' = looked  BY <2>2 DEF BpEdge, LookedNext
    <3>2. pred' = pred
      BY <2>2 DEF BpEdge, PredictorEdge, BP!Edge, BP!PredEdge
    <3>3. pc' = pc
      BY <2>2 DEF BpEdge, CoreEdge, ExHold, LoadUse, TrapRedirect,
         MretRedirect, MispredictRedirect, Advance
    <3> QED  BY <3>1, <3>2, <3>3 DEF PredictionIsForFetch, Unlooked
  <2>3. ASSUME BpEdge, ~ExRedirect, ~FrontStall
        PROVE  PredictionIsForFetch'
    <3> DEFINE l == BP!Lookup(LookupPc)
    <3>1. looked' = [for |-> LookupPc, taken |-> l.taken, target |-> l.target]
      BY <2>3 DEF BpEdge, LookedNext
    <3>2. pred'.taken = l.taken /\ pred'.target = l.target
      BY <2>3 DEF BpEdge, PredictorEdge, BP!Edge, BP!PredEdge, BP!Lookup
    <3>3. pc' = LookupPc
      <4>1. Advance(Prediction)
        BY <2>3 DEF BpEdge, CoreEdge, ExHold, LoadUse, TrapRedirect,
           MretRedirect, MispredictRedirect, FrontStall
      <4> QED  BY <4>1 DEF Advance, Prediction, LookupPc
    <3> QED  BY <3>1, <3>2, <3>3 DEF PredictionIsForFetch, Unlooked
  <2>4. CASE BpReset
    BY <2>4 DEF BpReset, BP!Reset, BP!NoPred, PredictionIsForFetch
  <2>5. CASE UNCHANGED bpCoreVars
    BY <2>5 DEF bpCoreVars, bpVars, vars, PredictionIsForFetch, Unlooked
  <2> QED  BY <2>1, <2>2, <2>3, <2>4, <2>5 DEF BpNext
<1> QED  BY <1>1, <1>2, PTL DEF BpSpec
=============================================================================
