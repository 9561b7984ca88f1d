------------------------------ MODULE MCBpred -------------------------------
(* Four words of text over two table entries, a stack of two, and memories *)
(* that start full of plausible entries.                                   *)
EXTENDS BpredAgree

T(pc, kind, taken, target) ==
  [pc |-> pc, kind |-> kind, taken |-> taken, target |-> target]

MCResolvable ==
  { T(0, "branch", TRUE, 8), T(0, "branch", FALSE, 0), T(4, "call", TRUE, 12),
    T(8, "ret", TRUE, 8), T(8, "ret", TRUE, 0), T(12, "call", TRUE, 0) }

Stale(kind, cnt) == [tag |-> 0, kind |-> kind, cnt |-> cnt, target |-> 4]
MCInitBtb == { [i \in Idx |-> Stale("branch", 3)], [i \in Idx |-> Stale("ret", 0)] }
MCInitRas == { [j \in RasIdx |-> 4] }
=============================================================================
