----------------------------- MODULE CycleModel -----------------------------
(***************************************************************************)
(* tb/cosim/cycle_model.py and the two delayed forms of the predictor in   *)
(* model/bpred.py.  The walk of analyse() over the commit stream is one    *)
(* pass in which a record only needs its successor, so it is taken one     *)
(* retirement at a time: when a record arrives, the one before it is       *)
(* judged (its successor is now known), then the new one is dated.         *)
(*                                                                         *)
(* A record is [pc, insn], a dated transfer [at, t].  -1 stands for None.  *)
(***************************************************************************)
EXTENDS Insn, Sequences, SequencesExt

CONSTANTS
  BtbEntries, RasEntries,
  LinkRegs,               \* x1 and x5
  MulCycles, DivCycles    \* rv32i_ref.MULDIV_CYCLES

BM == INSTANCE BpredModel

VisibilityGap == 4

IsTransfer(i) == i.op = "branch" \/ IsJump(i)
KindOf(i) == BM!Classify(i.op = "branch", i.op = "jalr",
                         i.rd \in LinkRegs, i.rs1 \in LinkRegs)

-----------------------------------------------------------------------------
(* DelayedBPred: updates queue and are applied in order once VisibilityGap *)
(* cycles old.                                                             *)

NewDelayed == [bp |-> BM!NewBPred, pending |-> <<>>]

\* How many of the queued updates _drain(now) applies.
Due(pending, now) ==
  LET old(k) == now - pending[k].at >= VisibilityGap
      stops == {k \in DOMAIN pending : ~old(k)}
  IN  IF stops = {} THEN Len(pending)
      ELSE (CHOOSE k \in stops : \A l \in stops : k <= l) - 1

DrainNothing(d, now) == d                                 \* fault
Drain(d, now) ==
  LET n == Due(d.pending, now)
      Apply(bp, p) == BM!Update(bp, p.t)
  IN  [bp |-> FoldLeft(Apply, d.bp, SubSeq(d.pending, 1, n)),
       pending |-> SubSeq(d.pending, n + 1, Len(d.pending))]

Queue(d, at, t) == [d EXCEPT !.pending = Append(@, [at |-> at, t |-> t])]

\* One transfer, looked up at cycle f: what the scorers of both files do, with
\* the redirect's target unpredicted.
ScoreNoSuppress(d, f, t, suppressed) ==                   \* fault
  LET seen == Drain(d, f)
  IN  [d |-> Queue(seen, f, t), miss |-> BM!Mispredicts(BM!Predict(seen.bp, t.pc), t)]
Score(d, f, t, suppressed) ==
  LET seen == Drain(d, f)
      p == IF suppressed THEN BM!NotTaken ELSE BM!Predict(seen.bp, t.pc)
  IN  [d |-> Queue(seen, f, t), miss |-> BM!Mispredicts(p, t)]

-----------------------------------------------------------------------------
(* analyse(records, predictor=True).                                       *)

Extra(i) == CASE i.op = "mul" -> MulCycles - 1
              [] i.op = "div" -> DivCycles - 1
              [] OTHER        -> 0

\* Decided from the retired pair, not with the core's predicate.
LoadUsePair(i, next) ==
  /\ MemRead(i) /\ i.rd # 0
  /\ \/ UsesRs1(next) /\ next.rs1 = i.rd
     \/ UsesRs2(next) /\ next.rs2 = i.rd

TransferTo(r, next) ==
  LET taken == IsJump(r.insn) \/ next # Add(r.pc, 4)
  IN  [pc |-> r.pc, kind |-> KindOf(r.insn), taken |-> taken,
       target |-> IF taken THEN next ELSE 0]

NoWalk == [n |-> 0, last |-> [pc |-> 0, insn |-> <<>>], cyc |-> 0, hold |-> 0,
           target |-> -1, d |-> NewDelayed, misses |-> 0]

\* The record before the new one, now that its successor is known.
Judge(w, next) ==
  LET r == w.last
      t == TransferTo(r, next)
      s == Score(w.d, w.cyc - w.hold, t, r.pc = w.target)
  IN  IF IsTransfer(r.insn)
      THEN [d |-> s.d, miss |-> s.miss,
            target |-> CASE s.miss /\ t.taken  -> t.target
                         [] s.miss /\ ~t.taken -> Add(r.pc, 4)
                         [] OTHER              -> -1]
      ELSE [d |-> w.d, miss |-> FALSE,
            target |-> IF r.pc = w.target THEN -1 ELSE w.target]

Walk(w, r) ==
  IF w.n = 0 THEN [w EXCEPT !.n = 1, !.last = r]
  ELSE LET j == Judge(w, r.pc)
           stall == IF LoadUsePair(w.last.insn, r.insn) THEN 1 ELSE 0
       IN  [n |-> w.n + 1, last |-> r,
            cyc |-> w.cyc + 1 + stall + (IF j.miss THEN 2 ELSE 0) + Extra(r.insn),
            hold |-> stall + Extra(w.last.insn),
            target |-> j.target, d |-> j.d,
            misses |-> w.misses + (IF j.miss THEN 1 ELSE 0)]
=============================================================================
