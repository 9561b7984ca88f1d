----------------------------- MODULE MCPrograms -----------------------------
(***************************************************************************)
(* Small instances for TLC: 8 words of text and 8 of data, three           *)
(* registers, every program of three or four instructions from a chosen    *)
(* set, ended by a jump to itself.  Four free slots reach every forwarding *)
(* distance.                                                               *)
(***************************************************************************)
EXTENDS CoreProps, Bitwise

MCFns == {"add", "sub", "eq", "ne", "rw", "rs", "rc"}

MCAlu(fn, a, b) == IF fn = "sub" THEN (a - b) % WordSize ELSE (a + b) % WordSize
MCMulDivValue(op, fn, a, b) ==
  CASE op = "mul" -> (a * b + 3) % WordSize
    [] op = "div" /\ b = 0 -> WordSize - 1
    [] OTHER -> a \div b
MCBranchTaken(fn, a, b) == IF fn = "ne" THEN a # b ELSE a = b
MCBitOr(a, b) == a | b
MCBitClear(a, b) == a & ((WordSize - 1) - b)

I(op, fn, rd, rs1, rs2, imm) ==
  [op |-> op, fn |-> fn, rd |-> rd, rs1 |-> rs1, rs2 |-> rs2, imm |-> imm,
   csr |-> "mscratch", word |-> 16]
C(op, fn, rd, rs1, imm, csrName) ==
  [op |-> op, fn |-> fn, rd |-> rd, rs1 |-> rs1, rs2 |-> 0, imm |-> imm,
   csr |-> csrName, word |-> 16]

\* Producers and consumers at every distance, loads, stores and both latencies.
HazardInsns ==
  { I("alu", "sub", 1, 1, 2, 0),   I("load", "add", 2, 1, 0, 0),
    I("store", "add", 0, 2, 1, 0), I("div", "add", 2, 2, 1, 0) }

\* Transfers, traps and the instructions that stall next to them.
ControlInsns ==
  { I("branch", "eq", 0, 1, 2, 8),  I("branch", "ne", 0, 1, 2, 6),
    I("jal", "add", 1, 0, 0, 8),    I("jalr", "add", 2, 1, 0, 5),
    I("div", "add", 2, 1, 1, 0),
    I("load", "add", 1, 2, 0, 2),   I("load", "add", 1, 0, 0, 8),
    I("ecall", "rw", 0, 0, 0, 0),
    I("store", "add", 0, 2, 1, 1) }

\* CSR accesses, traps and returns.
CsrInsns ==
  { C("csri", "rw", 1, 0, 16, "mtvec"),  C("csr", "rw", 2, 1, 0, "mepc"),
    C("csr", "rs", 1, 0, 0, "minstret"), C("csri", "rs", 1, 0, 5, "minstret"),
    C("csr", "rc", 2, 1, 0, "mtval"),    C("csri", "rw", 1, 0, 1, "instret"),
    C("csr", "rs", 2, 0, 0, "unknown"),
    I("mret", "rw", 0, 0, 0, 0),         I("illegal", "rw", 1, 1, 1, 0) }

\* What a reset can cut short: a store, register writes, a multiply, CSR state.
ResetInsns ==
  { I("store", "add", 0, 1, 2, 0),  I("load", "add", 2, 1, 0, 0),
    I("lui", "add", 1, 0, 0, 12),   I("mul", "add", 2, 1, 1, 0),
    I("ebreak", "rw", 0, 0, 0, 0),  C("csri", "rw", 1, 0, 8, "mtvec") }

\* Everything that delays an instruction, next to everything that redirects.
ProgressInsns ==
  { I("branch", "eq", 0, 1, 2, 8),  I("jal", "add", 1, 0, 0, 2),
    I("load", "add", 1, 0, 0, 8),   I("mul", "add", 2, 1, 1, 0),
    I("div", "add", 1, 2, 1, 0),    I("mret", "rw", 0, 0, 0, 0) }

SelfLoop == I("jal", "add", 0, 0, 0, 0)
ProgramsOf(n, insns) ==
  { [s \in Slots |-> IF s < n THEN p[s] ELSE SelfLoop] :
      p \in [0 .. n - 1 -> insns] }


LastSlot == (WordSize - 1) \div 4
Resettable(programs) ==
  { [p EXCEPT ![LastSlot] = I("nop", "add", 0, 0, 0, 0)] : p \in programs }

AllPrograms ==
  ProgramsOf(4, HazardInsns) \cup ProgramsOf(3, ControlInsns)
    \cup ProgramsOf(3, CsrInsns)
    \cup Resettable(ProgramsOf(3, ResetInsns))
ProgressPrograms ==
  ProgramsOf(3, ProgressInsns) \cup Resettable(ProgramsOf(2, ProgressInsns))

\* The programs that may be reset while they run end in a nop.
MCResetAllowed(p) == p[LastSlot].op = "nop"
NoReset(p) == FALSE

OneRegFile == { [r \in Reg |-> r * 4] }
CountedMem == { [s \in Slots |-> (4 * s + 8) % WordSize] }

SomeTargets == {8, 6}
NoTargets   == {}
=============================================================================
