---------------------------- MODULE BenchCapture ----------------------------
(***************************************************************************)
(* tb/fpga/parse_bench_uart.py and the program it reads, bench_main.c: a   *)
(* capture of a few report blocks, from which lines may have been lost, is *)
(* split into blocks, parsed block by block and compared.  One benchmark   *)
(* stands for the two, and one timer for each kind.  Cycles are counted in *)
(* a unit in which a legal run takes at least MinCycles.                   *)
(***************************************************************************)
EXTENDS Integers, SequencesExt

CONSTANTS
  Blocks,          \* bound: blocks printed while the board was watched
  MaxLost, Losable,  \* bound: how many lines are lost, and of which kinds
  Windows,         \* bound: first and last line captured
  Hits,            \* bound: the blocks a fault is in
  Options,         \* command lines: [mode, minBlocks, warmup, tolerance, allowShort]
  MinCycles, MaxSkew

VARIABLES
  fault, hit,      \* what is wrong with the program, and in which blocks
  window, lost,    \* the lines the capture spans, and those it lost
  opt,             \* the command line
  at,              \* the next line of the program
  inside, cur,     \* split_blocks(): in a block, and its lines so far
  blocks, parsed,  \* the blocks split off, and those accepted so far
  verdict

vars == <<fault, hit, window, lost, opt, at, inside, cur, blocks, parsed, verdict>>

\* In the harmless ones a figure, or every one of them, is at its limit; in those
\* of the counters one is just past it.
Harmless == {"none", "jitter", "brim"}
Faults == Harmless \cup {"drift", "host", "flags", "check", "crc", "seed", "stuck", "ipc",
                         "skew", "short", "varies"}

\* The lines of a block, one of which only the build host prints, and one
\* only reports a wrong checksum.
Kinds == <<"begin", "host", "flags", "cycles", "window", "instret", "check", "error",
           "seed", "crc", "hpm1", "hpm2", "end">>
Lines == 1 .. Blocks * Len(Kinds)
From(i) == (i - 1) \div Len(Kinds) + 1
KindAt(i) == Kinds[((i - 1) % Len(Kinds)) + 1]
Prints(i) ==
  /\ KindAt(i) = "host" => fault = "host"
  /\ KindAt(i) = "error" => fault = "crc" /\ From(i) \in hit

Base(k) == MinCycles + IF k = 1 THEN 10 ELSE 0     \* the predictor is cold in block 1
Cycles(k) ==
  Base(k) + CASE fault = "short"  -> -1
              [] fault = "jitter" -> opt.tolerance
              [] fault = "drift"  -> opt.tolerance + 1
              [] OTHER            -> 0
\* The second timer spans the first, and a few cycles more.
Spans(k) == Cycles(k) + CASE fault = "skew" -> MaxSkew + 1
                          [] fault = "brim" -> MaxSkew
                          [] OTHER          -> 0
Instret(k) == CASE fault = "stuck"  -> 0
                [] fault = "brim"   -> MinCycles + MaxSkew
                [] fault = "ipc"    -> Spans(k) + 1
                [] fault = "varies" -> MinCycles \div 4 + k
                [] OTHER            -> MinCycles \div 4
Value(k, kind) ==
  LET bad == k \in hit
  IN  CASE kind = "cycles"  -> IF bad THEN Cycles(k) ELSE Base(k)
        [] kind = "window"  -> IF bad THEN Spans(k) ELSE Base(k)
        [] kind = "instret" -> IF bad THEN Instret(k) ELSE MinCycles \div 4
        [] kind \in {"flags", "check", "crc", "seed"} ->
             IF bad /\ fault = kind THEN "wrong" ELSE "right"
        [] OTHER            -> 0
Line(i) == [from |-> From(i), kind |-> KindAt(i), val |-> Value(From(i), KindAt(i))]

Init ==
  /\ fault \in Faults /\ hit \in Hits /\ window \in Windows /\ opt \in Options
  /\ fault \in {"none", "host", "brim"} => hit = 1 .. Blocks
  /\ lost = {} /\ at = window[1] /\ inside = FALSE /\ cur = <<>>
  /\ blocks = <<>> /\ parsed = <<>> /\ verdict = "none"

Given == UNCHANGED <<fault, hit, window, opt>>

\* The capture begins and ends anywhere, and loses lines in between, but none
\* when it is made on the build host.
Capturing == verdict = "none" /\ at <= window[2]
Lose ==
  /\ Capturing /\ fault # "host" /\ Cardinality(lost) < MaxLost
  /\ Prints(at) /\ KindAt(at) \in Losable /\ lost' = lost \cup {at} /\ at' = at + 1
  /\ Given /\ UNCHANGED <<inside, cur, blocks, parsed, verdict>>

-----------------------------------------------------------------------------
\* split_blocks() takes the lines in their order.
KeepsLines(line) == IF line.kind = "end" THEN <<>>              \* fault
                    ELSE IF inside /\ line.kind # "begin" THEN Append(cur, line) ELSE cur
Collected(line) == IF line.kind \in {"begin", "end"} THEN <<>>
                   ELSE IF inside THEN Append(cur, line) ELSE cur
Feed(line) ==
  /\ inside' = (line.kind = "begin" \/ (inside /\ line.kind # "end"))
  /\ cur' = Collected(line)
  /\ blocks' = IF inside /\ line.kind = "end" THEN Append(blocks, cur) ELSE blocks
Read ==
  /\ Capturing /\ at' = at + 1
  /\ IF Prints(at) THEN Feed(Line(at)) ELSE UNCHANGED <<inside, cur, blocks>>
  /\ Given /\ UNCHANGED <<lost, parsed, verdict>>

Has(block, kind) == \E i \in DOMAIN block : block[i].kind = kind
First(block, kind) == block[Min({i \in DOMAIN block : block[i].kind = kind})]   \* setdefault, search

Fail == verdict' = "fail"
Go == UNCHANGED verdict
Split == UNCHANGED <<lost, at, inside, cur, blocks>>
Checking == verdict = "none" /\ at > window[2]

TooFew == Len(blocks) = 0 \/ Len(blocks) < opt.minBlocks
Refuse == Checking /\ TooFew /\ Fail /\ Given /\ Split /\ UNCHANGED parsed

Needed == {"flags", "cycles", "window", "instret", "check", "seed", "crc"}
Whole(block) ==
  /\ \A kind \in Needed : Has(block, kind)
  /\ Has(block, "hpm1") <=> Has(block, "hpm2")
Valid(block) ==
  /\ First(block, "flags").val = "right" /\ First(block, "check").val = "right"
  /\ ~Has(block, "error") /\ First(block, "seed").val = "right"
RightSource(block) == Has(block, "host") <=> opt.mode = "functional"

\* derive(): the counters against each other.
LateFloor(cycles, win, instret) ==                             \* fault
  /\ cycles > 0 /\ instret > 0 /\ win >= cycles /\ win - cycles <= MaxSkew
  /\ instret <= win /\ (opt.allowShort \/ cycles >= MinCycles - 1)
StrictIpc(cycles, win, instret) ==                             \* fault
  /\ cycles > 0 /\ instret > 0 /\ win >= cycles /\ win - cycles <= MaxSkew
  /\ instret < win /\ (opt.allowShort \/ cycles >= MinCycles)
Derives(cycles, win, instret) ==
  /\ cycles > 0 /\ instret > 0 /\ win >= cycles /\ win - cycles <= MaxSkew
  /\ instret <= win /\ (opt.allowShort \/ cycles >= MinCycles)

ParseBlock ==
  /\ Checking /\ ~TooFew /\ Len(parsed) < Len(blocks)
  /\ LET block == blocks[Len(parsed) + 1]
     IN  IF /\ Whole(block) /\ Valid(block) /\ RightSource(block)
            /\ \/ opt.mode = "functional"
               \/ Derives(First(block, "cycles").val, First(block, "window").val,
                          First(block, "instret").val)
         THEN parsed' = Append(parsed, [kind \in Needed |-> First(block, kind)]) /\ Go
         ELSE UNCHANGED parsed /\ Fail
  /\ Given /\ Split

\* check_reproducible(): a lone block is not compared.
AllBlocks == parsed                                            \* fault
Warm == SubSeq(parsed, opt.warmup + 1, Len(parsed))
Same(kind) == \A i, j \in DOMAIN parsed : parsed[i][kind].val = parsed[j][kind].val
NearLate(kind) ==                                              \* fault
  \A i, j \in DOMAIN Warm : Warm[i][kind].val - Warm[j][kind].val <= opt.tolerance + 1
Near(kind) == \A i, j \in DOMAIN Warm : Warm[i][kind].val - Warm[j][kind].val <= opt.tolerance
Reproducible ==
  Len(parsed) >= 2 =>
    /\ Same("instret") /\ Same("crc") /\ Len(Warm) >= 2
    /\ Near("cycles") /\ Near("window")
Compare ==
  /\ Checking /\ ~TooFew /\ Len(parsed) = Len(blocks)
  /\ verdict' = IF opt.mode = "functional" \/ Reproducible THEN "ok" ELSE "fail"
  /\ Given /\ Split /\ UNCHANGED parsed

Tool == Read \/ Refuse \/ ParseBlock \/ Compare
Next == Lose \/ Tool
Spec == Init /\ [][Next]_vars /\ WF_vars(Tool)

-----------------------------------------------------------------------------
Accepted == verdict = "ok"
\* The printed blocks the accepted figures come from.
Sources == {parsed[n][kind].from : n \in DOMAIN parsed, kind \in Needed}
ErrorLost == \E i \in lost : KindAt(i) = "error"

(* FiguresUnmixed: the figures of one score come from one printed block;   *)
(* a lost marker never joins two of them into one measurement              *)
(* (split_blocks(), "partial leading/trailing blocks dropped").            *)
FiguresUnmixed ==
  Accepted => \A n \in DOMAIN parsed, i, j \in Needed : parsed[n][i].from = parsed[n][j].from

(* ScoredIsSound: a score rests on blocks in which nothing is wrong: the   *)
(* results are right, the run is long enough and from hardware, the        *)
(* counters moved and agree, and no two blocks that are compared differ,   *)
(* with figures that are one past what each check allows (derive(),        *)
(* check_reproducible()).  The cold run of a short program is long enough. *)
(* One lost line can hide a wrong checksum: the one that reports it.       *)
ScoredIsSound ==
  LET bad == hit \cap Sources
      compared == {parsed[n]["cycles"].from : n \in opt.warmup + 1 .. Len(parsed)}
  IN  Accepted /\ ~ErrorLost =>
        /\ fault \in {"flags", "check", "crc", "seed"} => bad = {}
        /\ opt.mode = "score" =>
             /\ fault \in {"host", "stuck", "ipc", "skew"} => bad = {}
             /\ opt.allowShort \/ \A k \in Sources : Value(k, "cycles") >= MinCycles
             /\ fault = "varies" => bad = {} \/ Len(parsed) = 1
             /\ fault = "drift" => compared \subseteq hit \/ compared \cap hit = {}
             /\ 1 \in compared => Cardinality(compared) = 1

(* HealthyIsScored: a clean capture of a healthy board with enough blocks  *)
(* is scored, the cold first block included when it is to be discarded,    *)
(* and with every figure at its limit: the shortest run, the widest window *)
(* of setStats, an IPC of one, a spread that is the tolerance.             *)
InWindow(k) ==
  window[1] <= (k - 1) * Len(Kinds) + 1 /\ k * Len(Kinds) <= window[2]
HealthyIsScored ==
  LET n == Cardinality({k \in 1 .. Blocks : InWindow(k)})
  IN  /\ fault \in Harmless /\ lost = {} /\ opt.mode = "score" /\ verdict # "none"
      /\ n >= opt.minBlocks /\ n >= 1
      /\ n >= 2 => n - opt.warmup >= 2 /\ (opt.warmup = 1 \/ ~InWindow(1))
      => Accepted
=============================================================================
