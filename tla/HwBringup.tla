------------------------------ MODULE HwBringup ------------------------------
(***************************************************************************)
(* fpga/scripts/hw_bringup.py and tb/fpga/parse_soc_uart.py with the board *)
(* they judge: a run may skip, programs the board or takes it as it is,    *)
(* captures what it prints while it injects a byte, and parses the         *)
(* capture.  The unit is a line; a capture may begin and end inside one,   *)
(* and a line may be spoiled on its way.  A board may have a fault.        *)
(***************************************************************************)
EXTENDS Integers, SequencesExt

CONSTANTS
  MinBlocks,       \* --min-blocks
  Modulus,         \* the counters wrap at it
  Advances,        \* how far they move in a block
  FirstLines,      \* bound: where in a block an old program may be
  FirstCounts,     \* bound: where its counters may be
  MaxLines,        \* bound: lines the board prints under the capture
  MaxSpoiled       \* bound: lines spoiled on the way, from a board without a fault

VARIABLES
  board,           \* the program on the board, and its fault
  held,            \* the received byte that waits for its block
  open,            \* the port is open
  printed,         \* the lines printed since it was opened
  captured,        \* the lines in the capture file
  programmed,      \* this run programmed the board
  pc, exit         \* hw_bringup.py

vars == <<board, held, open, printed, captured, programmed, pc, exit>>

Body == <<"hello", "gpio", "cnt", "echo", "img", "iter">>
BlockLines == <<"start">> \o Body \o <<"end">>
Faults == {"none", "image", "counters", "hangs"}

Line(kind, val) == [kind |-> kind, val |-> val]
Junk == Line("junk", 0)
Byte == "0x5A"                                                 \* --send-byte
Older == "older"               \* the same value, received before this run

\* Between runs of this script the board is anywhere in its program.
Init ==
  /\ board \in [at : FirstLines, iter : {0}, count : FirstCounts,
                fault : Faults, hung : {FALSE}]
  /\ held \in {"none", Older}
  /\ open = FALSE /\ printed = <<>> /\ captured = <<>> /\ programmed = FALSE
  /\ pc = "port" /\ exit = "none"

-----------------------------------------------------------------------------
(* The board.                                                              *)

Text ==
  LET kind == BlockLines[board.at]
  IN  Line(kind, CASE kind = "cnt"  -> board.count
                   [] kind = "echo" -> held
                   [] kind = "img"  -> IF board.fault = "image" THEN "BAD" ELSE "OK"
                   [] kind = "iter" -> board.iter
                   [] OTHER         -> 0)
Spoiled == Cardinality({k \in DOMAIN printed : printed[k] # captured[k]})

MaySpoil == board.fault = "none" /\ Spoiled < MaxSpoiled

\* After the last line comes the delay, and the counters are read again.
\* Before the port is open, only the first block is of interest.
BoardPrints ==
  /\ ~board.hung /\ Len(printed) < MaxLines /\ pc \notin {"parse", "ended"}
  /\ pc = "capture" => Len(printed) <= Len(BlockLines)
  /\ (open \/ board.iter = 0)
  /\ \E d \in IF board.fault = "counters" THEN {0} ELSE Advances :
       LET ends == board.at = Len(BlockLines)
       IN  board' = [board EXCEPT !.at = IF ends THEN 1 ELSE @ + 1,
                                  !.iter = IF ends THEN @ + 1 ELSE @,
                                  !.count = IF ends THEN (@ + d) % Modulus ELSE @]
  /\ held' = IF BlockLines[board.at] = "echo" THEN "none" ELSE held
  /\ IF open
     THEN /\ printed' = Append(printed, Text)
          /\ \E l \in {Text} \cup (IF MaySpoil THEN {Junk} ELSE {}) :
               captured' = Append(captured, l)
     ELSE UNCHANGED <<printed, captured>>
  /\ UNCHANGED <<open, programmed, pc, exit>>
BoardHangs ==
  /\ board.fault = "hangs" /\ pc \notin {"parse", "ended"} /\ board' = [board EXCEPT !.hung = TRUE]
  /\ UNCHANGED <<held, open, printed, captured, programmed, pc, exit>>

-----------------------------------------------------------------------------
(* hw_bringup.py.                                                          *)

Ends(code) == pc' = "ended" /\ exit' = code
Idle == UNCHANGED <<board, held, open, printed, captured, programmed>>

\* Not opted in, no board, or no bitstream.
Skip == pc = "port" /\ Ends("skip") /\ Idle
Found == pc = "port" /\ pc' \in {"program", "capture"} /\ Idle /\ UNCHANGED exit

\* Configuring the FPGA starts the program from reset.
StillHeld == held                                              \* fault
HeldAtReset == "none"
Program ==
  /\ pc = "program" /\ pc' = "capture" /\ programmed' = TRUE
  /\ board' = [board EXCEPT !.at = 1, !.iter = 0, !.count = 0, !.hung = FALSE]
  /\ held' = HeldAtReset /\ UNCHANGED <<open, printed, captured, exit>>
ProgramFails == pc = "program" /\ Ends("1") /\ Idle

\* The port is opened and its buffer discarded: the first line may be a tail.
OpenPort ==
  /\ pc = "capture" /\ ~open /\ open' = TRUE
  /\ \/ UNCHANGED <<printed, captured>>
     \/ printed' = <<Junk>> /\ captured' = <<Junk>>
  /\ UNCHANGED <<board, held, programmed, pc, exit>>
CaptureFails == pc = "capture" /\ Ends("1") /\ Idle
\* The byte arrives half a second after the port was opened, so within a block:
\* it is held, or dropped when another one is waiting.
SendByte ==
  /\ pc = "capture" /\ open /\ Len(printed) <= Len(BlockLines) /\ pc' = "reading"
  /\ held' = IF held = "none" THEN Byte ELSE held
  /\ UNCHANGED <<board, open, printed, captured, programmed, exit>>
\* The capture lasts for a fixed time.
WaitsForBlocks == Len(captured) >= 8 * MinBlocks               \* fault
TimeIsUp == TRUE
ClosePort ==
  /\ pc = "reading" /\ TimeIsUp /\ pc' = "parse" /\ open' = FALSE
  /\ UNCHANGED <<board, held, printed, captured, programmed, exit>>

-----------------------------------------------------------------------------
(* parse_soc_uart.py.                                                      *)

Starts(lines) == {i \in DOMAIN lines : lines[i].kind = "start"}
\* A block is a start and the next marker, if that is an end.
Closed(lines, i) ==
  \E j \in i + 1 .. Len(lines) :
    /\ lines[j].kind = "end"
    /\ \A k \in i + 1 .. j - 1 : lines[k].kind \notin {"start", "end"}
WellFormed(lines, i) ==
  /\ i + Len(BlockLines) - 1 <= Len(lines)
  /\ \A k \in DOMAIN BlockLines : lines[i + k - 1].kind = BlockLines[k]
CutIsMalformed(lines) == {i \in Starts(lines) : ~WellFormed(lines, i)}   \* fault
Malformed(lines) == {i \in Starts(lines) : Closed(lines, i) /\ ~WellFormed(lines, i)}
\* The Block objects, by the line each begins at; the echo of the byte is the
\* same whenever it was received.
ParseBlocks(lines) == {i \in Starts(lines) : WellFormed(lines, i)}
Block(lines, i) == [mcycle |-> lines[i + 3].val, echo |-> lines[i + 4].val,
                    img |-> lines[i + 5].val, iter |-> lines[i + 6].val]

IterUnchecked(a, b) == b.mcycle > a.mcycle                     \* fault
Moves(a, b) == b.iter = a.iter + 1 /\ b.mcycle > a.mcycle
Consecutive(blocks, i, j) == i < j /\ \A k \in blocks : k <= i \/ j <= k
Check(lines) ==
  LET blocks == ParseBlocks(lines)
  IN  /\ Cardinality(blocks) >= MinBlocks
      /\ Malformed(lines) = {}
      /\ \A i, j \in blocks :
           Consecutive(blocks, i, j) => Moves(Block(lines, i), Block(lines, j))
      /\ \A i \in blocks : Block(lines, i).img = "OK"
      /\ \E i \in blocks : Block(lines, i).echo \in {Byte, Older}

Parse ==
  /\ pc = "parse" /\ Ends(IF Check(captured) THEN "0" ELSE "1") /\ Idle

Tool == Skip \/ Found \/ Program \/ ProgramFails \/ OpenPort \/ CaptureFails
        \/ SendByte \/ ClosePort \/ Parse
Next == BoardPrints \/ BoardHangs \/ Tool

\* The capture has a deadline, and what the script starts ends.
Spec == Init /\ [][Next]_vars /\ WF_vars(Tool)

-----------------------------------------------------------------------------
Judged == pc = "ended" /\ open = FALSE /\ Len(captured) > 0

\* Whole blocks among what was really printed, and those captured as printed.
WholeAt == {i \in 1 .. Len(printed) - 7 :
              \A k \in 1 .. 8 : printed[i + k - 1].kind = BlockLines[k]}
Seen == {i \in WholeAt : \A k \in i .. i + 7 : captured[k] = printed[k]}
Value(i, kind) == printed[i + (CHOOSE k \in 1 .. 8 : BlockLines[k] = kind) - 1].val

(* AcceptedIsAlive: SOC_UART_OK means that the board printed MinBlocks     *)
(* whole blocks one after the other with its counters moving, found its    *)
(* image intact, and echoed a byte, wherever the capture began; and that   *)
(* no line was lost between the first of the blocks judged and the last    *)
(* (check(): "a board that emitted one block and hung passes every         *)
(* per-block check").                                                      *)
AcceptedIsAlive ==
  Judged /\ exit = "0" =>
    /\ \E i \in WholeAt : \A k \in 0 .. MinBlocks - 1 :
         /\ i + 8 * k \in WholeAt /\ Value(i + 8 * k, "img") = "OK"
         /\ k > 0 => Value(i + 8 * k, "cnt") > Value(i + 8 * (k - 1), "cnt")
    /\ \E i \in WholeAt : Value(i, "echo") \in {Byte, Older}
    /\ \A i, j \in Seen : \A k \in i .. j : captured[k] = printed[k]

(* EchoIsOurs: if this run programmed the board, the byte that was echoed  *)
(* is the one it sent; a byte still held from before the run cannot stand  *)
(* in for it.                                                              *)
EchoIsOurs ==
  Judged /\ exit = "0" /\ programmed => \E i \in WholeAt : Value(i, "echo") = Byte

(* RejectedForCause: a healthy board with a clean line is refused only     *)
(* when the capture is too short for the blocks or for the echo, or when a *)
(* counter wrapped in it.                                                  *)
RejectedForCause ==
  Judged /\ exit = "1" /\ captured = printed /\ board.fault = "none" =>
    \/ Cardinality(WholeAt) < MinBlocks
    \/ \A i \in WholeAt : Value(i, "echo") = "none"
    \/ \E i, j \in WholeAt : i < j /\ Value(j, "cnt") < Value(i, "cnt")

(* RunEnds: the run ends, whatever the board does or does not print.       *)
RunEnds == <>(pc = "ended")
=============================================================================
