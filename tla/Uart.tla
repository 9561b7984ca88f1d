-------------------------------- MODULE Uart --------------------------------
(***************************************************************************)
(* The memory-mapped UART (rvntt_mmio, rvntt_uart_tx, rvntt_uart_rx) and   *)
(* the bring-up program that polls it (sw/soc/hello.c), one clock cycle    *)
(* per step: an access of the program, the transmitter and a byte that     *)
(* completes on the receive line may fall into the same cycle.  A piece of *)
(* a line is written as one character.  Bits on the line are left out: the *)
(* transmitter takes TxCycles, the host sends at most a byte per           *)
(* FrameCycles, and a byte with a framing error changes nothing.           *)
(***************************************************************************)
EXTENDS Integers, Sequences

CONSTANTS
  Bytes,           \* what the host may send
  MaxBytes,        \* bound: how many bytes it sends
  TxCycles, FrameCycles

VARIABLES
  tx,              \* rvntt_uart_tx: cycles left of the character, and it
  rx,              \* rvntt_uart_rx: data, valid, overrun
  prog,            \* hello.c: where it is, and what it read of STAT and RX
  sent, quiet,     \* bytes of the host, and cycles until the next may complete
  owed,            \* what the program has written and the line not carried
  accepted, echoed, \* the bytes taken into the holding register, and printed
  dropped          \* a byte was dropped and no later report says so

vars == <<tx, rx, prog, sent, quiet, owed, accepted, echoed, dropped>>

None == "none"

\* A block: print the head; read STAT; print the echo, and consume the byte;
\* report an overrun, and clear it; print the rest.
Prints == {"head", "echo=", "value", "overrun", "tail"}
Writes == {"consume", "clear"}

Init ==
  /\ tx = [busy |-> 0, data |-> None]
  /\ rx = [data |-> None, valid |-> FALSE, overrun |-> FALSE]
  /\ prog = [at |-> "head", polled |-> FALSE, valid |-> FALSE, overrun |-> FALSE, got |-> None]
  /\ sent = 0 /\ quiet = 0 /\ owed = <<>> /\ accepted = <<>> /\ echoed = <<>> /\ dropped = FALSE

-----------------------------------------------------------------------------
(* The register block: a store in the cycle the core makes it.             *)

Ready == tx.busy = 0

AckOf(access) == access = "consume"
ClrOf(access) == access = "clear"
TxValid(access) == access \in Prints

\* rvntt_uart_tx
TxEdge(access) ==
  tx' = IF tx.busy # 0 THEN [tx EXCEPT !.busy = @ - 1]
        ELSE IF TxValid(access) THEN [busy |-> TxCycles, data |-> access]
        ELSE tx

\* The R_STOP arm of rvntt_uart_rx when a byte completes: what is kept.
KeepAlways(access) == TRUE                                     \* fault
Keep(access) == ~(rx.valid /\ ~AckOf(access))
AckWins(access, byte) ==                                       \* fault
  ~AckOf(access) /\ (rx.valid \/ byte # None)
ValidNext(access, byte) ==
  (rx.valid /\ ~AckOf(access)) \/ (byte # None /\ Keep(access))
\* overrun <= 0 comes first, so that setting it wins.
ClearWins(access, byte) ==                                     \* fault
  ~ClrOf(access) /\ (rx.overrun \/ (byte # None /\ ~Keep(access)))
OverrunNext(access, byte) ==
  (rx.overrun /\ ~ClrOf(access)) \/ (byte # None /\ ~Keep(access))
RxEdge(access, byte) ==
  rx' = [data    |-> IF byte # None /\ Keep(access) THEN byte ELSE rx.data,
         valid   |-> ValidNext(access, byte),
         overrun |-> OverrunNext(access, byte)]

-----------------------------------------------------------------------------
(* hello.c: an access of the program in a cycle.                           *)

\* After STAT was read, the arms of the two tests.
AfterEcho == IF prog.valid THEN "rx" ELSE "value"
SkipsOverrun == "tail"                                         \* fault
AfterByte == IF prog.overrun THEN "overrun" ELSE "tail"

Following ==
  CASE prog.at = "head"    -> "stat"
    [] prog.at = "stat"    -> "echo="
    [] prog.at = "echo="   -> AfterEcho
    [] prog.at = "rx"      -> "value"
    [] prog.at = "value"   -> IF prog.valid THEN "consume" ELSE AfterByte
    [] prog.at = "consume" -> AfterByte
    [] prog.at = "overrun" -> "clear"
    [] prog.at = "clear"   -> "tail"
    [] prog.at = "tail"    -> "head"

\* The first access of putc_ polls STAT until the transmitter is ready.
PollIgnored == TRUE                                            \* fault
TxReady == Ready

Goto(at) == [prog EXCEPT !.at = at, !.polled = FALSE]
\* The program between two accesses does something else, for as long as it likes.
Idle == UNCHANGED prog
ProgStep(access) ==
  \/ /\ access = "poll" /\ prog.at \in Prints /\ ~prog.polled
     /\ prog' = [prog EXCEPT !.polled = TxReady]
  \/ access = "none" /\ Idle
  \/ /\ access = "stat" /\ prog.at = "stat"
     /\ prog' = [Goto(Following) EXCEPT !.valid = rx.valid, !.overrun = rx.overrun]
  \/ /\ access = "rx" /\ prog.at = "rx"
     /\ prog' = [Goto(Following) EXCEPT !.got = rx.data]
  \/ /\ access = prog.at
     /\ prog.at \in Writes \/ (prog.at \in Prints /\ prog.polled)
     /\ prog' = [Goto(Following) EXCEPT !.got = IF access = "tail" THEN None ELSE @]

Accesses == Prints \cup Writes \cup {"poll", "none", "stat", "rx"}

\* What happened, for the properties.
Record(access, byte) ==
  /\ owed' = LET left == IF tx.busy = 1 THEN Tail(owed) ELSE owed
             IN  IF TxValid(access) THEN Append(left, access) ELSE left
  /\ accepted' = IF byte # None /\ Keep(access) THEN Append(accepted, byte) ELSE accepted
  /\ echoed' = IF access = "value" /\ prog.valid THEN Append(echoed, prog.got) ELSE echoed
  /\ dropped' = ((byte # None /\ ~Keep(access)) \/ (dropped /\ access # "clear"))

Cycle(access, byte) ==
  /\ byte # None => quiet = 0 /\ sent < MaxBytes
  /\ sent' = IF byte # None THEN sent + 1 ELSE sent
  /\ ProgStep(access)
  /\ TxEdge(access) /\ RxEdge(access, byte) /\ Record(access, byte)
  /\ quiet' = IF byte # None THEN FrameCycles - 1 ELSE IF quiet > 0 THEN quiet - 1 ELSE 0

Next == \E access \in Accesses, byte \in Bytes \cup {None} : Cycle(access, byte)

\* The program and the transmitter go on; nothing is asked of the host.
Works == \E access \in Accesses \ {"none"}, byte \in Bytes \cup {None} : Cycle(access, byte)
Spec == Init /\ [][Next]_vars /\ WF_vars(Works)

-----------------------------------------------------------------------------
(* PrintedIsSent: a character the program writes is never dropped by the   *)
(* transmitter, and leaves in order (putc_'s poll and its store are two    *)
(* accesses, and a write while the transmitter is busy is lost).           *)
PrintedIsSent == owed = IF Ready THEN <<>> ELSE <<tx.data>>

(* EchoedOnce: whatever the receiver does between the program's accesses,  *)
(* the bytes it took are printed in order, none twice and none missing:    *)
(* the only one not printed is in the holding register (hello.c reads STAT,*)
(* then RX, then consumes).                                                *)
EchoedOnce ==
  LET waits == rx.valid /\ ~(prog.at = "consume")
  IN  accepted = IF waits THEN Append(echoed, rx.data) ELSE echoed

(* LossIsFlagged: a byte that was dropped is in no block's past: either the*)
(* flag still stands, so that a later block reports it, or the block at    *)
(* hand has reported it and not cleared it yet (rvntt_uart_rx, "set beats  *)
(* clear").                                                                *)
LossIsFlagged == dropped => rx.overrun

(* BytesAccounted: no received byte is lost unseen or answered twice       *)
(* (hello.c against rvntt_uart_rx).                                        *)
BytesAccounted == EchoedOnce /\ LossIsFlagged

(* ByteAnswered: a byte the receiver took is printed, and one it dropped   *)
(* is reported, however the program's accesses fall.                       *)
ByteAnswered ==
  /\ rx.valid ~> ~rx.valid
  /\ dropped ~> ~dropped
=============================================================================
