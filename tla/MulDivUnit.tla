----------------------------- MODULE MulDivUnit -----------------------------
(***************************************************************************)
(* What rvntt_muldiv promises the execute stage: an operation started      *)
(* takes a number of cycles that depends on its class alone, and on the    *)
(* last of them presents the value the ISA defines for the operands of the *)
(* first, whatever they have become since.  An operation may be abandoned  *)
(* at any time.  This is the unit as Core's md sees it.                    *)
(***************************************************************************)
EXTENDS MulDivIsa

CONSTANTS MulCycles,   \* EX occupancy of a multiply
          DivCycles    \* ... and of a divide

Latency(op) == IF OpIsDiv(op) THEN DivCycles ELSE MulCycles

VARIABLES left,    \* cycles to the one that presents the value; 0 when idle
          job,     \* the operation last started
          value    \* what is presented: a word on the last cycle only

vars == <<left, job, value>>

NoValue == -1
Presented(l, j) == IF l = 1 THEN Reference(j) ELSE NoValue

Init == left = 0 /\ job \in Jobs /\ value = NoValue

Start == /\ left = 0
         /\ \E j \in Jobs : job' = j /\ left' = Latency(j.op) - 1
         /\ value' = Presented(left', job')
Wait    == left > 1 /\ left' = left - 1 /\ job' = job /\ value' = Presented(left', job)
Deliver == left = 1 /\ left' = 0 /\ job' = job /\ value' = NoValue
Abandon == left > 0 /\ left' = 0 /\ job' = job /\ value' = NoValue

Next == Start \/ Wait \/ Deliver \/ Abandon

Spec == Init /\ [][Next]_vars
=============================================================================
