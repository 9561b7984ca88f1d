-------------------------------- MODULE Core --------------------------------
(***************************************************************************)
(* The five-stage in-order pipeline of rtl/core/rvntt_core.sv.  A step is  *)
(* one rising clock edge.  The variables are the core's registers and the  *)
(* output registers of the two RAM ports:                                  *)
(*                                                                         *)
(*   IF   pc                          fetch address                        *)
(*   ID   ifid, imemOut, insnHold     the instruction word comes from the  *)
(*                                    RAM or, after a stall, from the hold *)
(*   EX   idex, md                    operands, forwarding selects, the    *)
(*                                    multi-cycle unit                     *)
(*   MEM  exmem, dmemOut              load data arrives from the RAM       *)
(*   WB   memwb                                                            *)
(*                                                                         *)
(* The branch predictor is unconstrained: each edge may predict anything   *)
(* in Predictions for the address being fetched, as in the                 *)
(* RVNTT_ABSTRACT_BPRED build used for the formal checks.  Program text is *)
(* not written by the program: prog is the fetch port's memory.            *)
(***************************************************************************)
EXTENDS Insn

CONSTANTS
  Programs,       \* the programs considered: a subset of [Slots -> Insn]
  InitRegs,       \* register contents at start; reset does not clear them
  InitMem,        \* data memory contents at start
  PredTargets,    \* predicted targets considered (any word, for a free one)
  MulCycles,      \* EX occupancy of a multiply (2) ...
  DivCycles,      \* ... and of a divide (34)
  ResetAllowed(_) \* may rst_n be asserted again while this program runs?

ASSUME ProgramsAssumption ==
  /\ Programs \subseteq [Slots -> Insn]
  /\ InitRegs \subseteq [Reg -> Word]
  /\ \A r \in InitRegs : r[0] = 0
  /\ InitMem \subseteq [Slots -> Word]
  /\ PredTargets \subseteq Word
  /\ \A p \in Programs : ResetAllowed(p) \in BOOLEAN

\* The encodings of branches and of JAL have no bit for an odd offset.
ASSUME OffsetAssumption ==
  \A p \in Programs, s \in Slots :
    p[s].op \in {"branch", "jal"} => p[s].imm % 2 = 0

CntMod == 64      \* cnt_q of the multi-cycle unit is six bits wide

ASSUME LatencyAssumption == /\ MulCycles \in 2 .. CntMod
                            /\ DivCycles \in 2 .. CntMod

VARIABLES prog, pc, ifid, imemOut, insnHold, insnHeld, idex, md,
          exmem, dmemOut, memwb, regs, mem, csr

fetchVars == <<pc, ifid, imemOut, insnHold, insnHeld>>
vars == <<prog, pc, ifid, imemOut, insnHold, insnHeld, idex, md,
          exmem, dmemOut, memwb, regs, mem, csr>>

Predictions == {[taken |-> FALSE, target |-> 0]}
                 \cup [taken : {TRUE}, target : PredTargets]

FwdSel == {"REG", "MEM", "WB"}

\* The all-zero ID/EX contents: no control signal of it is live.
NoInsn == [op |-> "none", fn |-> "rw", rd |-> 0, rs1 |-> 0, rs2 |-> 0,
           imm |-> 0, csr |-> "unknown", word |-> 0]
\* The all-zero word the hold register resets to: not a legal instruction.
ZeroInsn == [NoInsn EXCEPT !.op = "illegal"]
IdExBubble == [valid |-> FALSE, insn |-> NoInsn, pc |-> 0,
               rs1Data |-> 0, rs2Data |-> 0, fwdA |-> "REG", fwdB |-> "REG",
               pred |-> [taken |-> FALSE, target |-> 0]]
ExMemBubble == [valid |-> FALSE, pc |-> 0, regWrite |-> FALSE,
                memRead |-> FALSE, sel |-> "alu", rd |-> 0, result |-> 0,
                pc4 |-> 0]
MemWbBubble == [valid |-> FALSE, pc |-> 0, regWrite |-> FALSE, rd |-> 0,
                data |-> 0]
IfIdKept(a) == [valid |-> TRUE, pc |-> a,                 \* fault
                pred |-> [taken |-> FALSE, target |-> 0]]
IfIdEmpty(a) == [valid |-> FALSE, pc |-> a,
                 pred |-> [taken |-> FALSE, target |-> 0]]

TypeOK ==
  /\ prog \in [Slots -> Insn]
  /\ pc \in Word
  /\ ifid \in [valid : BOOLEAN, pc : Word, pred : [taken : BOOLEAN, target : Word]]
  /\ imemOut \in Insn
  /\ insnHold \in Insn
  /\ insnHeld \in BOOLEAN
  /\ idex \in [valid : BOOLEAN, insn : InsnOf(Ops \cup {"none"}), pc : Word,
               rs1Data : Word, rs2Data : Word, fwdA : FwdSel, fwdB : FwdSel,
               pred : [taken : BOOLEAN, target : Word]]
  /\ md \in [active : BOOLEAN, cnt : 0 .. CntMod - 1, op : MulDivOps, fn : Fns,
             a : Word, b : Word]
  /\ exmem \in [valid : BOOLEAN, pc : Word, regWrite : BOOLEAN,
                memRead : BOOLEAN, sel : {"alu", "mem", "pc4", "csr"},
                rd : Reg, result : Word, pc4 : Word]
  /\ dmemOut \in Word
  /\ memwb \in [valid : BOOLEAN, pc : Word, regWrite : BOOLEAN, rd : Reg,
                data : Word]
  /\ regs \in [Reg -> Word]
  /\ mem \in [Slots -> Word]
  /\ csr \in CsrFile

-----------------------------------------------------------------------------
(* WB: the register write, and the file's write-through read ports.        *)

WbWrites(r) == memwb.valid /\ memwb.regWrite /\ memwb.rd # 0 /\ memwb.rd = r

RegReadNoBypass(r) == regs[r]                             \* fault
RegRead(r) == IF WbWrites(r) THEN memwb.data ELSE regs[r]

(* MEM: the value an instruction will write back, and the part of it that  *)
(* may be forwarded: only what is already registered, so never a load's.   *)

MemResult == CASE exmem.sel = "mem" -> dmemOut
               [] exmem.sel = "pc4" -> exmem.pc4
               [] OTHER             -> exmem.result

ExMemFwdData == CASE exmem.sel = "pc4" -> exmem.pc4
                  [] exmem.sel = "mem" -> 0
                  [] OTHER             -> exmem.result

-----------------------------------------------------------------------------
(* ID: the instruction word, the forwarding decision and the interlock.    *)

IfIdInsnNoHold == imemOut                                 \* fault
IfIdInsn == IF insnHeld THEN insnHold ELSE imemOut

\* rvntt_forward: where a source register's value will be, given the producers
\* one (m) and two (w) instructions ahead.  Each is [supplies, rd].
Forward(uses, r, m, w) ==
  CASE uses /\ m.supplies /\ m.rd = r -> "MEM"
    [] uses /\ w.supplies /\ w.rd = r
         /\ ~(m.supplies /\ m.rd = r) -> "WB"
    [] OTHER                          -> "REG"

MemSupplier(valid, regWrite, memRead, rd) ==
  [supplies |-> valid /\ regWrite /\ ~memRead /\ rd # 0, rd |-> rd]
WbSupplier(valid, regWrite, rd) ==
  [supplies |-> valid /\ regWrite /\ rd # 0, rd |-> rd]

\* Decided in ID against EX and MEM, for use in EX against MEM and WB.
IdForward(uses, r) ==
  Forward(uses, r,
          MemSupplier(idex.valid, RegWrite(idex.insn), MemRead(idex.insn),
                      idex.insn.rd),
          WbSupplier(exmem.valid, exmem.regWrite, exmem.rd))

\* rvntt_hazard: the instruction in ID reads what the load in EX will write.
IdStallRs1Only ==                                         \* fault
  /\ ifid.valid /\ idex.valid /\ MemRead(idex.insn) /\ idex.insn.rd # 0
  /\ UsesRs1(IfIdInsn) /\ IfIdInsn.rs1 = idex.insn.rd
IdStall ==
  /\ ifid.valid
  /\ idex.valid /\ MemRead(idex.insn) /\ idex.insn.rd # 0
  /\ \/ UsesRs1(IfIdInsn) /\ IfIdInsn.rs1 = idex.insn.rd
     \/ UsesRs2(IfIdInsn) /\ IfIdInsn.rs2 = idex.insn.rd

-----------------------------------------------------------------------------
(* EX.                                                                     *)

FwdNoDecay(s) == s                                        \* fault
FwdDecay(s) == IF s = "MEM" THEN "WB" ELSE "REG"

Operand(sel, data) == CASE sel = "MEM" -> ExMemFwdData
                        [] sel = "WB"  -> memwb.data
                        [] OTHER       -> data

Rs1Fwd == Operand(idex.fwdA, idex.rs1Data)
Rs2Fwd == Operand(idex.fwdB, idex.rs2Data)

\* rvntt_muldiv's handshake: req for every cycle in EX, done on the last.
MdReq    == idex.valid /\ IsMulDiv(idex.insn)
MdTarget == IF md.op = "div" THEN DivCycles - 1 ELSE MulCycles - 1
MdDoneLate == MdReq /\ md.active /\ md.cnt = MdTarget + 1  \* fault
MdDone   == MdReq /\ md.active /\ md.cnt = MdTarget
ExStallForever == MdReq                                   \* fault
ExStall  == MdReq /\ ~MdDone

FrontStall == IdStall \/ ExStall

MdNext ==
  CASE ~MdReq     -> [md EXCEPT !.active = FALSE]
    [] MdReq /\ ~md.active ->
         [active |-> TRUE, cnt |-> 1, op |-> idex.insn.op,
          fn |-> idex.insn.fn, a |-> Rs1Fwd, b |-> Rs2Fwd]
    [] MdDone     -> [md EXCEPT !.active = FALSE]
    [] OTHER      -> [md EXCEPT !.cnt = (@ + 1) % CntMod]

ExTrapInfo == IF idex.valid THEN TrapOf(idex.insn, idex.pc, Rs1Fwd, Rs2Fwd)
                            ELSE NoTrap
ExTrap     == ExTrapInfo.cause # -1
ExMret     == idex.valid /\ idex.insn.op = "mret"
ExCtrlXfer == idex.valid /\ CtrlXfer(idex.insn, Rs1Fwd, Rs2Fwd)

ExMispredict ==
  /\ idex.valid
  /\ \/ idex.pred.taken # ExCtrlXfer
     \/ /\ ExCtrlXfer
        /\ idex.pred.target # JumpTarget(idex.insn, idex.pc, Rs1Fwd)

ExRedirect == ~ExStall /\ (ExTrap \/ ExMret \/ ExMispredict)

RedirectTarget == NextPc(idex.insn, idex.pc, Rs1Fwd, Rs2Fwd, csr)

\* The predictor learns from a transfer that resolves, and only then.
ExBpUpd == /\ idex.valid /\ ~ExStall /\ ~ExTrap
           /\ idex.insn.op = "branch" \/ IsJump(idex.insn)

ExResult == IF IsMulDiv(idex.insn) THEN MulDivValue(md.op, md.fn, md.a, md.b)
            ELSE SimpleResult(idex.insn, idex.pc, Rs1Fwd, Rs2Fwd, csr)

ExMemNext ==
  [valid |-> idex.valid, pc |-> idex.pc, regWrite |-> RegWrite(idex.insn),
   memRead |-> MemRead(idex.insn), sel |-> ResultSel(idex.insn),
   rd |-> idex.insn.rd, result |-> ExResult, pc4 |-> Add(idex.pc, 4)]

IdExNext ==
  LET i == IfIdInsn
  IN  [valid |-> ifid.valid, insn |-> i, pc |-> ifid.pc,
       rs1Data |-> RegRead(i.rs1), rs2Data |-> RegRead(i.rs2),
       fwdA |-> IdForward(UsesRs1(i), i.rs1),
       fwdB |-> IdForward(UsesRs2(i), i.rs2),
       pred |-> ifid.pred]

-----------------------------------------------------------------------------
(* What every clock edge does whatever EX decides: both RAM ports, the     *)
(* hold register, MEM/WB, the register file and the multi-cycle unit.      *)

DmemAddr == MemAddr(idex.insn, Rs1Fwd)
DmemWrites == idex.valid /\ MemWrite(idex.insn) /\ ~ExTrap

\* The hold register captures the word ID is using, held or not, so that a
\* stall of several cycles replays it and not what the RAM delivered since.
InsnHoldFromRam == imemOut                                \* fault
InsnHoldNext == IfIdInsn

EveryEdge ==
  /\ UNCHANGED prog
  /\ imemOut' = prog[Slot(pc)]
  /\ insnHold' = InsnHoldNext
  /\ insnHeld' = (FrontStall /\ ~ExRedirect)
  /\ dmemOut' = mem[Slot(DmemAddr)]
  /\ mem' = IF DmemWrites THEN [mem EXCEPT ![Slot(DmemAddr)] = Rs2Fwd]
                          ELSE mem
  /\ memwb' = [valid |-> exmem.valid, pc |-> exmem.pc,
               regWrite |-> exmem.regWrite, rd |-> exmem.rd,
               data |-> MemResult]
  /\ regs' = IF WbWrites(memwb.rd) THEN [regs EXCEPT ![memwb.rd] = memwb.data]
                                   ELSE regs
  /\ md' = MdNext

\* The CSR file commits in EX: nothing for a bubble or a stalled instruction.
CsrEdge ==
  csr' = IF idex.valid /\ ~ExStall
         THEN CsrAfter(csr, idex.insn, idex.pc, Rs1Fwd, ExTrapInfo)
         ELSE csr

-----------------------------------------------------------------------------
(* The edges, one action per way the front of the pipeline can move.       *)

\* The multi-cycle unit holds EX; forwarding selects follow the producers.
ExHold ==
  /\ ExStall
  /\ pc' = pc /\ ifid' = ifid
  /\ idex' = [idex EXCEPT !.fwdA = FwdDecay(@), !.fwdB = FwdDecay(@)]
  /\ exmem' = ExMemBubble
  /\ EveryEdge /\ CsrEdge

\* The load-use interlock: ID waits one cycle, EX gets a bubble.
LoadUse ==
  /\ IdStall /\ ~ExStall /\ ~ExRedirect
  /\ pc' = pc /\ ifid' = ifid
  /\ idex' = IdExBubble
  /\ exmem' = ExMemNext
  /\ EveryEdge /\ CsrEdge

\* A redirect kills both younger slots, stalled or not.
Flush ==
  /\ pc' = RedirectTarget
  /\ ifid' = IfIdEmpty(pc)
  /\ idex' = IdExBubble
  /\ EveryEdge /\ CsrEdge

TrapRetires == ExRedirect /\ ExTrap /\ exmem' = ExMemNext /\ Flush  \* fault
TrapRedirect == ExRedirect /\ ExTrap /\ exmem' = ExMemBubble /\ Flush
MretRedirect == ExRedirect /\ ~ExTrap /\ ExMret /\ exmem' = ExMemNext /\ Flush
MispredictRedirect ==
  ExRedirect /\ ~ExTrap /\ ~ExMret /\ exmem' = ExMemNext /\ Flush

\* Every stage takes the instruction behind it; pred describes the fetched pc.
Advance(pred) ==
  /\ ~FrontStall /\ ~ExRedirect
  /\ pc' = IF pred.taken THEN pred.target ELSE Add(pc, 4)
  /\ ifid' = [valid |-> TRUE, pc |-> pc, pred |-> pred]
  /\ idex' = IdExNext
  /\ exmem' = ExMemNext
  /\ EveryEdge /\ CsrEdge

\* rst_n low across at least one edge: the pipeline and the CSRs clear, the
\* register file, the memory and the multi-cycle unit's operands do not.
ClearStages == idex' = IdExBubble /\ exmem' = ExMemBubble
                 /\ memwb' = MemWbBubble
Reset ==
  /\ ResetAllowed(prog)
  /\ pc' = 0
  /\ ifid' = IfIdEmpty(0)
  /\ imemOut' = prog[0] /\ insnHold' = ZeroInsn /\ insnHeld' = FALSE
  /\ ClearStages
  /\ md' = [md EXCEPT !.active = FALSE, !.cnt = 0, !.op = "mul"]
  /\ dmemOut' = mem[0]
  /\ csr' = CsrReset
  /\ UNCHANGED <<prog, regs, mem>>

Init ==
  /\ prog \in Programs
  /\ pc = 0
  /\ ifid = IfIdEmpty(0)
  /\ imemOut = prog[0] /\ insnHold = ZeroInsn /\ insnHeld = FALSE
  /\ idex = IdExBubble /\ exmem = ExMemBubble /\ memwb = MemWbBubble
  /\ md = [active |-> FALSE, cnt |-> 0, op |-> "mul", fn |-> "rw",
           a |-> 0, b |-> 0]
  /\ regs \in InitRegs
  /\ mem \in InitMem
  /\ dmemOut = mem[0]
  /\ csr = CsrReset

Clock == \/ ExHold
         \/ LoadUse
         \/ TrapRedirect
         \/ MretRedirect
         \/ MispredictRedirect
         \/ \E pred \in Predictions : Advance(pred)

Next == Clock \/ Reset

\* The clock runs: every state is followed by an edge.
Spec == Init /\ [][Next]_vars /\ WF_vars(Clock)
=============================================================================
