----------------------------- MODULE CycleCheck -----------------------------
(***************************************************************************)
(* The timing instruments pointed at the core: the cycle model of          *)
(* tb/cosim, fed with the commit stream, and the stall profiler of tb/perf *)
(* (tb_profile.cpp watching the signals, run_stall_profile.py judging what *)
(* it wrote).  Both predict the core's timing from model/bpred.py.         *)
(*                                                                         *)
(*   clock   edges since the first retirement, -1 before it; retiredAt is  *)
(*           its value at the last one                                     *)
(*   walk    analyse() over the records so far                             *)
(*   prof    the profiler's counters, its mirror of the front end's        *)
(*           registers, and its state at the marks: retired reads of       *)
(*           mcycle (here instret, the counter read this CSR file has)     *)
(*   left    did the program take a trap or an MRET?  The instruments are  *)
(*           used on what runs before the first of them only.              *)
(*                                                                         *)
(* MaxRetired bounds the records of a behaviour.                           *)
(***************************************************************************)
EXTENDS CoreBpred, Sequences

CONSTANT MaxRetired

CM == INSTANCE CycleModel

VARIABLES clock, retiredAt, walk, retired, prof, left

monVars == <<clock, retiredAt, walk, retired, prof, left>>
checkVars == <<bpCoreVars, monVars>>

N(b) == IF b THEN 1 ELSE 0

Committed == [pc |-> memwb.pc, insn |-> prog[Slot(memwb.pc)]]
IsMark(i) == i.op = "csr" /\ i.csr = "instret"

-----------------------------------------------------------------------------
(* tb_profile.cpp, one call per edge.                                      *)

RedirDelay == 3

NoMark == [set |-> FALSE, ledger |-> 0, early |-> 0, redirects |-> 0,
           misses |-> 0]
NoProf ==
  [now |-> 0, ledger |-> 0, redirects |-> 0, pipe |-> [k \in 1 .. RedirDelay |-> 0],
   ifidFc |-> -1, idexFc |-> -1, fifo |-> <<>>, stalled |-> 0,
   prev |-> [valid |-> FALSE, pc |-> 0, insn |-> NoInsn, fetch |-> -1],
   d |-> CM!NewDelayed, target |-> -1, misses |-> 0,
   first |-> NoMark, last |-> NoMark]

\* The fetch-date FIFO: an instruction enters as it leaves EX.
PushedTrapping(p) == IF p.idexFc >= 0 /\ ~ExStall          \* fault
                     THEN Append(p.fifo, p.idexFc) ELSE p.fifo
FifoPushed(p) == IF p.idexFc >= 0 /\ ~ExStall /\ ~ExTrap
                 THEN Append(p.fifo, p.idexFc) ELSE p.fifo

\* The mirrored load conditions of ID/EX and IF/ID.
IdExFc(p) == CASE ExStall                              -> p.idexFc
               [] ~ExStall /\ (IdStall \/ ExRedirect)  -> -1
               [] OTHER                                -> p.ifidFc
IfIdFc(p) == CASE ExRedirect                   -> -1
               [] ~ExRedirect /\ ~FrontStall   -> p.now + 1
               [] OTHER                        -> p.ifidFc

\* What the cycle adds to cycles - (retired + load-use + multi-cycle
\* + 2 x redirects), the redirect counted RedirDelay cycles late.
LedgerUndelayed(p) == 1 - N(memwb.valid) - N(ExStall)      \* fault
                        - N(IdStall /\ ~ExStall) - 2 * N(ExRedirect)
LedgerStep(p) == 1 - N(memwb.valid) - N(ExStall)
                   - N(IdStall /\ ~ExStall) - 2 * p.pipe[1]

\* A transfer is scored when its successor retires: score_trace over the rows
\* the profiler wrote, a jump to pc + 4 counting as not taken.
Scored(p, next) ==
  LET i == p.prev.insn
      taken == next # Add(p.prev.pc, 4)
      t == [pc |-> p.prev.pc, kind |-> CM!KindOf(i), taken |-> taken,
            target |-> IF taken THEN next ELSE 0]
      s == CM!Score(p.d, p.prev.fetch, t, p.prev.pc = p.target)
  IN  IF p.prev.valid /\ CM!IsTransfer(i)
      THEN [p EXCEPT !.d = s.d, !.misses = @ + N(s.miss),
                     !.target = IF s.miss THEN next ELSE -1]
      ELSE p

\* early: stall cycles counted between the mark's leaving EX and its retiring.
Stalled == N(IdStall \/ ExStall)
Marked(p, i) ==
  LET m == [set |-> TRUE, ledger |-> p.ledger, early |-> p.stalled + Stalled,
            redirects |-> p.redirects, misses |-> p.misses]
  IN  IF ~IsMark(i) THEN p
      ELSE IF p.first.set THEN [p EXCEPT !.last = m]
      ELSE [p EXCEPT !.first = m, !.last = m]

ProfCommit(p) ==
  LET s == Scored(p, Committed.pc)
      q == [s EXCEPT !.fifo = Tail(@),
                     !.prev = [valid |-> TRUE, pc |-> Committed.pc,
                               insn |-> Committed.insn, fetch |-> Head(p.fifo)]]
  IN  Marked(q, Committed.insn)

ProfEdge ==
  LET counted == [prof EXCEPT !.now = @ + 1, !.ledger = @ + LedgerStep(prof),
                              !.redirects = @ + prof.pipe[1],
                              !.pipe = [k \in 1 .. RedirDelay |->
                                          IF k < RedirDelay THEN prof.pipe[k + 1]
                                          ELSE N(ExRedirect)],
                              !.fifo = FifoPushed(prof)]
      p == IF memwb.valid THEN ProfCommit(counted) ELSE counted
  IN  prof' = [p EXCEPT !.idexFc = IdExFc(prof), !.ifidFc = IfIdFc(prof),
                       !.stalled = Stalled]

-----------------------------------------------------------------------------
WalkEdge ==
  /\ walk' = IF memwb.valid THEN CM!Walk(walk, Committed) ELSE walk
  /\ retired' = retired + N(memwb.valid)
  /\ clock' = IF memwb.valid \/ clock >= 0 THEN clock + 1 ELSE clock
  /\ retiredAt' = IF memwb.valid THEN clock' ELSE retiredAt

CheckEdge ==
  /\ retired < MaxRetired /\ ~left
  /\ BpEdge
  /\ WalkEdge /\ ProfEdge
  /\ left' = (ExTrap \/ ExMret)

CheckInit == /\ BpInit
             /\ clock = -1 /\ retiredAt = 0 /\ walk = CM!NoWalk /\ retired = 0
             /\ prof = NoProf /\ left = FALSE

CheckSpec == CheckInit /\ [][CheckEdge]_checkVars

-----------------------------------------------------------------------------
\* Programs in which a return can be looked up.
HasReturn == \E s \in Slots : prog[s].op = "jalr" /\ CM!KindOf(prog[s]) = "ret"
\* Programs in which an instruction can wait in the front end.
MayStall == \E s \in Slots : MemRead(prog[s]) \/ IsMulDiv(prog[s])
\* Programs with a jump to the instruction behind it.
JumpsToNext == \E s \in Slots : IsJump(prog[s]) /\ prog[s].imm = 4

(* SpanExact: where returns do not meet stalls, every instruction retires  *)
(* in the very cycle the cycle model gives it, from the predictor's        *)
(* mispredicts and the stalls of the commit stream alone (analyse).        *)
SpanExact == ~(HasReturn /\ MayStall) => walk.cyc = retiredAt

(* ClosureExact: between any two marks the core redirected exactly as      *)
(* often as the trace, scored after the fact, says it mispredicted         *)
(* (check_predictor and score_trace).                                      *)
ClosureExact ==
  ~(HasReturn /\ MayStall) /\ ~JumpsToNext =>
    prof.last.misses - prof.first.misses = prof.last.redirects - prof.first.redirects

\* The profiler's mirror of the front end holds a date exactly where the core
\* holds an instruction, so its queue never runs dry at a retirement
\* (fifo_underflows in tb_profile.cpp).
FetchDatesInStep ==
  /\ (prof.ifidFc >= 0 <=> ifid.valid)
  /\ (prof.idexFc >= 0 <=> idex.valid)
  /\ Len(prof.fifo) = N(exmem.valid) + N(memwb.valid)

(* ResidualIsSkew: between any two marks every cycle is a retirement, a    *)
(* stall or part of a flush, but for the stalls of the two cycles a mark   *)
(* takes from EX to its retirement: they are counted before the mark and   *)
(* delay what comes after it (attribute; the profiler delays its redirect  *)
(* count for the same reason, and not its stall counts).  The fetch dates  *)
(* it charges by are in step with the core throughout.                     *)
ResidualIsSkew ==
  /\ prof.last.ledger + prof.last.early = prof.first.ledger + prof.first.early
  /\ FetchDatesInStep
=============================================================================
