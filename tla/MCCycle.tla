------------------------------- MODULE MCCycle -------------------------------
(* Every program of three instructions from two sets, each repeated by a   *)
(* jump back to the start: loops through branches, calls and returns next  *)
(* to loads and multiplies, and marks the profiler measures between.       *)
EXTENDS CycleCheck, MCPrograms

\* From the last slot the next instruction is the first one anyway.
Back(s) == IF 4 * s = WordSize - 4 THEN I("nop", "add", 0, 0, 0, 0)
           ELSE I("jal", "add", 0, 0, 0, (WordSize - 4 * s) % WordSize)
LoopsOf(n, insns) ==
  { [s \in Slots |-> IF s < n THEN p[s] ELSE Back(s)] : p \in [0 .. n - 1 -> insns] }

TimingInsns ==
  { I("alui", "add", 2, 2, 0, 4),   I("load", "add", 2, 0, 0, 8),
    I("mul", "add", 2, 2, 2, 0),    I("branch", "eq", 0, 2, 0, 8),
    I("branch", "ne", 0, 2, 0, 24), I("jal", "add", 1, 0, 0, 8),
    I("jalr", "add", 0, 1, 0, 0),   I("jal", "add", 0, 0, 0, 24),
    C("csr", "rs", 2, 0, 0, "instret") }
LeavingInsns == TimingInsns \cup { I("ecall", "rw", 0, 0, 0, 0),
                                   I("mret", "rw", 0, 0, 0, 0) }

\* A loop around a call of a function of two instructions and its return.
CallsOf(insns) ==
  { [s \in Slots |-> CASE s = 0 -> p[0]
                       [] s = 1 -> I("jal", "add", 1, 0, 0, 12)
                       [] s = 2 -> I("nop", "add", 0, 0, 0, 0)
                       [] s = 4 -> p[1]
                       [] s = 5 -> p[2]
                       [] s = 6 -> I("jalr", "add", 0, 1, 0, 0)
                       [] OTHER -> Back(s)] : p \in [0 .. 2 -> insns] }

TimingPrograms == LoopsOf(4, TimingInsns) \cup CallsOf(TimingInsns)
                    \cup LoopsOf(2, LeavingInsns)
MCLinkRegs == {1}
\* A return before any call goes to 0, never to the instruction behind it.
NoReturnAddress == { [r EXCEPT ![1] = 0] : r \in OneRegFile }
WordTargets == {4 * s : s \in Slots}

Junk == [tag |-> 0, kind |-> "jump", cnt |-> 3, target |-> 4]
MCInitBtb == { [i \in 0 .. BtbEntries - 1 |-> Junk] }
MCInitRas == { [j \in 0 .. RasEntries - 1 |-> 5] }
=============================================================================
