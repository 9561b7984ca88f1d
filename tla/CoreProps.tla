------------------------------ MODULE CoreProps ------------------------------
(***************************************************************************)
(* What the pipeline must get right.  The programmer's view of a pipeline  *)
(* state is read off its registers: an instruction takes effect on the     *)
(* edge that takes it out of EX, so the architectural pc is that of the    *)
(* oldest instruction that has not left EX, and the architectural register *)
(* file is the register file with the writes waiting in WB and MEM applied *)
(* in that order.  Memory and CSRs are written from EX itself.             *)
(***************************************************************************)
EXTENDS Core

ArchPc == CASE idex.valid               -> idex.pc
            [] ~idex.valid /\ ifid.valid -> ifid.pc
            [] OTHER                    -> pc

ExMemWrites(r) == exmem.valid /\ exmem.regWrite /\ exmem.rd # 0 /\ exmem.rd = r

ArchReg(r) == IF ExMemWrites(r) THEN MemResult ELSE RegRead(r)
ArchRegs == [r \in Reg |-> ArchReg(r)]

Arch == INSTANCE Isa WITH pc <- ArchPc, regs <- ArchRegs

(* Implements: whatever the predictor predicts and however long a multiply *)
(* or divide takes, the pipeline executes the program as the               *)
(* one-instruction-per-step machine does: same order, same values, same    *)
(* traps (rvntt_core; what tb/cosim compares with Spike line by line).     *)
Implements == Arch!Spec

\* The forwarding decision made again from where EX, MEM and WB are now.
ExForward(uses, r) ==
  Forward(uses, r,
          MemSupplier(exmem.valid, exmem.regWrite, exmem.memRead, exmem.rd),
          WbSupplier(memwb.valid, memwb.regWrite, memwb.rd))

(* FwdPrecomputeMatches: the forwarding selects registered in ID/EX are    *)
(* those EX would compute now, on every cycle of a multi-cycle stall too   *)
(* (a_fwd_precompute_matches_a and _b in rvntt_core).                      *)
FwdPrecomputeMatches ==
  idex.valid =>
    /\ idex.fwdA = ExForward(UsesRs1(idex.insn), idex.insn.rs1)
    /\ idex.fwdB = ExForward(UsesRs2(idex.insn), idex.insn.rs2)

(* OperandsCurrent: on its first cycle in EX an instruction reads, through *)
(* the forwarding muxes, the values its predecessors leave; the            *)
(* multi-cycle unit keeps working on those values however far the          *)
(* producers drain behind it (rvntt_core's operand muxes, rvntt_muldiv's   *)
(* capture on start).                                                      *)
OperandsCurrent ==
  idex.valid =>
    LET a == IF md.active THEN md.a ELSE Rs1Fwd
        b == IF md.active THEN md.b ELSE Rs2Fwd
    IN  /\ UsesRs1(idex.insn) => a = ArchReg(idex.insn.rs1)
        /\ UsesRs2(idex.insn) => b = ArchReg(idex.insn.rs2)

(* FetchedWordMatchesPc: the word ID decodes is the one at the pc it       *)
(* carries, across stalls of any length and redirects during a stall (the  *)
(* hold register and its valid bit in rvntt_core).                         *)
FetchedWordMatchesPc == ifid.valid => IfIdInsn = prog[Slot(ifid.pc)]

(* PredictorTaughtAligned: the predictor is only ever told of transfers    *)
(* between word-aligned addresses, even though it may itself predict a     *)
(* misaligned one (a_bp_upd_pc_aligned, a_bp_upd_target_aligned).          *)
PredictorTaughtAligned ==
  ExBpUpd =>
    /\ idex.pc % 4 = 0
    /\ ExCtrlXfer => JumpTarget(idex.insn, idex.pc, Rs1Fwd) % 4 = 0

\* A slot past EX carries the destination of the instruction at its pc, and
\* that instruction is one that can retire.
CarriesRd(slot) ==
  LET i == prog[Slot(slot.pc)]
  IN  /\ slot.rd = i.rd /\ slot.regWrite = RegWrite(i)
      /\ i.op \notin {"illegal", "ecall", "ebreak"}

(* RetiredMatchesProgram: what WB reports and writes is the destination of *)
(* the instruction at the pc it reports, and never that of an instruction  *)
(* that cannot retire (the commit port and dbg_unsupported).               *)
RetiredMatchesProgram == memwb.valid => CarriesRd(memwb)

-----------------------------------------------------------------------------
(* How the stages fit together: the state predicates from which the        *)
(* properties above follow, inductive together with TypeOK.                *)

\* The load in MEM has no consumer in EX: there its data is still in the RAM.
LoadUseSeparated ==
  idex.valid /\ exmem.valid /\ exmem.memRead /\ exmem.rd # 0 =>
    /\ ~ (UsesRs1(idex.insn) /\ idex.insn.rs1 = exmem.rd)
    /\ ~ (UsesRs2(idex.insn) /\ idex.insn.rs2 = exmem.rd)

\* The values read in ID are those of the register file until the instruction
\* leaves EX or the multi-cycle unit has captured its operands.
SourcesHeld ==
  /\ idex.valid /\ ~md.active =>
       /\ idex.rs1Data = regs[idex.insn.rs1]
       /\ idex.rs2Data = regs[idex.insn.rs2]
  /\ md.active =>
       /\ idex.valid /\ md.op = idex.insn.op /\ md.fn = idex.insn.fn
       /\ md.a = ArchReg(idex.insn.rs1) /\ md.b = ArchReg(idex.insn.rs2)

\* Each slot follows the one ahead of it on the predicted path.
Predicted(slot) == IF slot.pred.taken THEN slot.pred.target ELSE Add(slot.pc, 4)
PredictedPath ==
  /\ idex.valid => ifid.valid /\ ifid.pc = Predicted(idex)
  /\ ifid.valid => pc = Predicted(ifid)

\* Each occupied slot carries the instruction at its pc.
SlotsMatchProgram ==
  /\ FetchedWordMatchesPc
  /\ idex.valid  => idex.insn = prog[Slot(idex.pc)]
  /\ exmem.valid => CarriesRd(exmem)
  /\ RetiredMatchesProgram

(* PipelineInv: the registers of the five stages describe one and the same *)
(* stretch of the program at every edge: no producer, operand, predicted   *)
(* address or instruction word is out of step with its neighbours'         *)
(* (the pipeline registers of rvntt_core).                                 *)
PipelineInv ==
  /\ TypeOK
  /\ regs[0] = 0
  /\ exmem.memRead = (exmem.sel = "mem")
  /\ LoadUseSeparated
  /\ FwdPrecomputeMatches
  /\ SourcesHeld
  /\ PredictedPath
  /\ SlotsMatchProgram

\* The next instruction to leave EX is at an aligned address: the pipeline may
\* fetch a misaligned one, but the instruction that transfers there traps.
\* Inductive together with PipelineInv.
AlignedInv ==
  /\ prog \in Programs
  /\ csr.mtvec % 4 = 0 /\ csr.mepc % 4 = 0
  /\ ArchPc % 4 = 0

-----------------------------------------------------------------------------
(* Progress: unless it is reset for ever, instructions keep leaving EX, by *)
(* retiring or by trapping: no combination of interlock, multi-cycle       *)
(* stall, redirect and prediction stops the pipeline.                      *)
Progress == []<>(idex.valid /\ ~ExStall) \/ []<><<Reset>>_vars
=============================================================================
