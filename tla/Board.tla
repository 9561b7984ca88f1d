------------------------------- MODULE Board -------------------------------
(* The board and the host, one part in each behaviour; the variables of the *)
(* others hold "unused".  The constants of each are those of its own module.*)
(*  - uart: the register block under hello.c;                               *)
(*  - bringup: one run of hw_bringup.py against a board that may be wrong;  *)
(*  - bench: what parse_bench_uart.py accepts of a capture.                 *)
EXTENDS Integers, Sequences

CONSTANTS
  Bytes, MaxBytes, TxCycles, FrameCycles,                          \* uart
  MinBlocks, Modulus, Advances, FirstLines, FirstCounts, MaxLines,
  MaxSpoiled,                                                      \* bringup
  Blocks, MaxLost, Losable, Windows, Hits, Options, MinCycles,
  MaxSkew                                                          \* bench

\* A bring-up asks for blocks, its board advances its counters by less than
\* a turn, and was left anywhere in its program.
ASSUME BringupAssumption ==
  /\ MinBlocks \in Nat \ {0} /\ Modulus \in Nat \ {0}
  /\ Advances \subseteq 1 .. Modulus - 1
  /\ FirstLines \subseteq 1 .. 8 /\ FirstCounts \subseteq 0 .. Modulus - 1

VARIABLES
  part,                                               \* the one that runs
  tx, rx, prog, sent, quiet, owed, accepted, echoed, dropped,      \* uart
  board, held, open, printed, captured, programmed, pc, exit,      \* bringup
  fault, hit, window, lost, opt, at, inside, cur, blocks, parsed,
  verdict                                                          \* bench

uartVars == <<tx, rx, prog, sent, quiet, owed, accepted, echoed, dropped>>
bringupVars == <<board, held, open, printed, captured, programmed, pc, exit>>
benchVars == <<fault, hit, window, lost, opt, at, inside, cur, blocks, parsed, verdict>>

W == INSTANCE Uart
H == INSTANCE HwBringup
B == INSTANCE BenchCapture

\* A capture spans lines of the program, and loses at most two.  The tolerance,
\* and a drift one past it, are less than half of what a cold predictor costs;
\* the instructions of the least run, a quarter of its cycles, are some.
ASSUME BenchAssumption ==
  /\ Blocks \in Nat /\ MaxLost \in 0 .. 2 /\ Hits \subseteq SUBSET (1 .. Blocks)
  /\ \A w \in Windows : w \in B!Lines \X B!Lines /\ w[1] <= w[2]
  /\ Options \subseteq [mode : {"score", "functional"}, minBlocks : Nat, warmup : Nat,
                        tolerance : 0 .. 4, allowShort : BOOLEAN]
  /\ MinCycles \in Nat /\ MinCycles >= 4 /\ MaxSkew \in Nat

U == "unused"
NoBringup == board = U /\ held = U /\ open = U /\ printed = U /\ captured = U
             /\ programmed = U /\ pc = U /\ exit = U
NoUart == tx = U /\ rx = U /\ prog = U /\ sent = U /\ quiet = U /\ owed = U
          /\ accepted = U /\ echoed = U /\ dropped = U
NoBench == fault = U /\ hit = U /\ window = U /\ lost = U /\ opt = U /\ at = U
           /\ inside = U /\ cur = U /\ blocks = U /\ parsed = U /\ verdict = U

BoardInit ==
  \/ part = "bringup" /\ H!Init /\ NoUart /\ NoBench
  \/ part = "uart" /\ W!Init /\ NoBringup /\ NoBench
  \/ part = "bench" /\ B!Init /\ NoBringup /\ NoUart

OnlyBringup == part = "bringup" /\ UNCHANGED <<part, uartVars, benchVars>>
OnlyUart == part = "uart" /\ UNCHANGED <<part, bringupVars, benchVars>>
OnlyBench == part = "bench" /\ UNCHANGED <<part, bringupVars, uartVars>>
BoardNext ==
  \/ OnlyBringup /\ H!Next
  \/ OnlyUart /\ W!Next
  \/ OnlyBench /\ B!Next

boardVars == <<part, bringupVars, uartVars, benchVars>>
BoardSpec ==
  /\ BoardInit /\ [][BoardNext]_boardVars
  /\ WF_boardVars(OnlyBringup /\ H!Tool) /\ WF_boardVars(OnlyUart /\ W!Works)

-----------------------------------------------------------------------------
(* The properties of each part, stated in its own module.                   *)

(* PrintedIsSent, BytesAccounted: rvntt_mmio, the UART and hello.c lose no *)
(* character that is printed, and neither lose a received byte unseen nor  *)
(* answer it twice.                                                        *)
PrintedIsSent == part = "uart" => W!PrintedIsSent
BytesAccounted == part = "uart" => W!BytesAccounted

(* BringupAcceptedIsAlive, BringupRejectedForCause: what the verdict of    *)
(* hw_bringup.py and parse_soc_uart.py on a board means, and whose byte    *)
(* the echo is.                                                            *)
BringupAcceptedIsAlive == part = "bringup" => H!AcceptedIsAlive /\ H!EchoIsOurs
BringupRejectedForCause == part = "bringup" => H!RejectedForCause

(* ScoredIsSound, HealthyIsScored: what a score of parse_bench_uart.py     *)
(* rests on, that its figures are of one measurement, and that a healthy   *)
(* board gets one.                                                         *)
ScoredIsSound == part = "bench" => B!ScoredIsSound /\ B!FiguresUnmixed
HealthyIsScored == part = "bench" => B!HealthyIsScored

(* BoardGoesOn: a byte received and a loss noted are dealt with (hello.c's *)
(* loop), and a bring-up run ends, whatever the board does (hw_bringup.py).*)
BoardGoesOn ==
  /\ (part = "uart" /\ rx.valid) ~> (part = "uart" /\ ~rx.valid)
  /\ (part = "uart" /\ dropped) ~> (part = "uart" /\ ~dropped)
  /\ part = "bringup" => H!RunEnds
=============================================================================
