--------------------------------- MODULE Isa ---------------------------------
(***************************************************************************)
(* What the core promises: a machine that executes one whole instruction   *)
(* per step, in program order.  This is the view of the commit-log         *)
(* comparison in tb/cosim, where Spike plays this machine.  A reset        *)
(* restarts at pc 0 with the CSRs at their reset values, keeps memory and  *)
(* leaves the registers unspecified: rvntt_regfile has no reset, and the   *)
(* register writes still in flight are lost.                               *)
(***************************************************************************)
EXTENDS Insn

CONSTANT ResetAllowed(_)   \* may the machine be reset while it runs this?

VARIABLES prog, pc, regs, mem, csr

vars == <<prog, pc, regs, mem, csr>>

Init ==
  /\ prog \in [Slots -> Insn]
  /\ pc = 0
  /\ regs \in [Reg -> Word] /\ regs[0] = 0
  /\ mem \in [Slots -> Word]
  /\ csr = CsrReset

\* The value instruction i writes to its rd.
Value(i, a, b) ==
  CASE MemRead(i)  -> mem[Slot(MemAddr(i, a))]
    [] IsJump(i)   -> Add(pc, 4)
    [] IsMulDiv(i) -> MulDivValue(i.op, i.fn, a, b)
    [] OTHER       -> SimpleResult(i, pc, a, b, csr)

Execute ==
  LET i == prog[Slot(pc)]
      a == regs[i.rs1]
      b == regs[i.rs2]
      t == TrapOf(i, pc, a, b)
  IN  /\ pc' = NextPc(i, pc, a, b, csr)
      /\ regs' = IF t.cause = -1 /\ RegWrite(i) /\ i.rd # 0
                 THEN [regs EXCEPT ![i.rd] = Value(i, a, b)] ELSE regs
      /\ mem' = IF t.cause = -1 /\ MemWrite(i)
                THEN [mem EXCEPT ![Slot(MemAddr(i, a))] = b] ELSE mem
      /\ csr' = CsrAfter(csr, i, pc, a, t)
      /\ UNCHANGED prog

Reset ==
  /\ ResetAllowed(prog)
  /\ pc' = 0
  /\ csr' = CsrReset
  /\ regs' \in [Reg -> Word] /\ regs'[0] = 0
  /\ UNCHANGED <<prog, mem>>

Next == Execute \/ Reset

Spec == Init /\ [][Next]_vars
=============================================================================
