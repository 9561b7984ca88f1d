----------------------------- MODULE BpredModel -----------------------------
(***************************************************************************)
(* model/bpred.py: the branch predictor written from its specification, as *)
(* functions of the control transfers that resolve.  A BPred is a record   *)
(* of a direct-mapped table (NoEntry where nothing was allocated), a       *)
(* return-address stack and the stack's pointer and occupancy.             *)
(*                                                                         *)
(* A transfer is [pc, kind, taken, target]; the kind is what classify()    *)
(* reads off the encoding.                                                 *)
(***************************************************************************)
EXTENDS Integers, Sequences

CONSTANTS WordSize, BtbEntries, RasEntries

Word == 0 .. WordSize - 1
Kinds == {"branch", "jump", "call", "ret"}
Idx == 0 .. BtbEntries - 1
RasIdx == 0 .. RasEntries - 1
Transfer == [pc : Word, kind : Kinds, taken : BOOLEAN, target : Word]

Link(pc) == (pc + 4) % WordSize

\* Index and tag together are the whole word address.
Index(pc) == (pc \div 4) % BtbEntries
Tag(pc)   == pc \div (4 * BtbEntries)

\* classify(): rd and rs1 are links when they name x1 or x5.
Classify(isBranch, isJalr, rdLink, rs1Link) ==
  CASE isBranch                        -> "branch"
    [] ~isBranch /\ isJalr /\ rs1Link /\ ~rdLink -> "ret"
    [] ~isBranch /\ rdLink             -> "call"
    [] OTHER                           -> "jump"

AllocCnt == 2
NoEntry == [tag |-> -1, kind |-> "jump", cnt |-> 0, target |-> 0]
NewBPred == [btb |-> [i \in Idx |-> NoEntry], ras |-> [i \in RasIdx |-> 0],
             sp |-> 0, count |-> 0]

NotTaken == [taken |-> FALSE, target |-> 0]

SpUp(s)   == IF s = RasEntries - 1 THEN 0 ELSE s + 1
SpDown(s) == IF s = 0 THEN RasEntries - 1 ELSE s - 1

\* The answer an entry gives once it is taken to hit.
Answer(bp, e) ==
  CASE e.kind = "branch" -> IF e.cnt >= 2
                            THEN [taken |-> TRUE, target |-> e.target]
                            ELSE NotTaken
    [] e.kind = "ret"    -> IF bp.count > 0
                            THEN [taken |-> TRUE, target |-> bp.ras[SpDown(bp.sp)]]
                            ELSE NotTaken
    [] OTHER             -> [taken |-> TRUE, target |-> e.target]

\* fault 1 of step(): any index match hits
PredictAnyTag(bp, pc) ==                                  \* fault
  LET e == bp.btb[Index(pc)]
  IN  IF e # NoEntry THEN Answer(bp, e) ELSE NotTaken
Predict(bp, pc) ==
  LET e == bp.btb[Index(pc)]
  IN  IF e.tag = Tag(pc) THEN Answer(bp, e) ELSE NotTaken

UpWraps(cnt) == (cnt + 1) % 4                             \* fault
Up(cnt)   == IF cnt = 3 THEN 3 ELSE cnt + 1
Down(cnt) == IF cnt = 0 THEN 0 ELSE cnt - 1

\* The table after transfer t: a taken one writes its entry, a branch not taken
\* only moves the counter of an entry it already has.
TableAfter(bp, t) ==
  LET i   == Index(t.pc)
      e   == bp.btb[i]
      counts == e.tag = Tag(t.pc) /\ t.kind = "branch"
  IN  CASE t.taken ->
             [bp.btb EXCEPT ![i] =
                [tag |-> Tag(t.pc), kind |-> t.kind,
                 cnt |-> IF counts THEN Up(e.cnt) ELSE AllocCnt,
                 target |-> t.target]]
        [] ~t.taken /\ counts ->
             [bp.btb EXCEPT ![i] =
                [tag |-> e.tag, kind |-> t.kind, cnt |-> Down(e.cnt),
                 target |-> e.target]]
        [] OTHER -> bp.btb

\* fault 3 of step(): the push is dropped
UpdateNoPush(bp, t) ==                                    \* fault
  IF t.kind = "call" THEN [bp EXCEPT !.btb = TableAfter(bp, t)]
  ELSE [bp EXCEPT !.btb = TableAfter(bp, t),
                  !.sp = IF t.kind = "ret" THEN SpDown(@) ELSE @,
                  !.count = IF t.kind = "ret" /\ @ > 0 THEN @ - 1 ELSE @]
Update(bp, t) ==
  CASE t.kind = "call" ->
         [btb |-> TableAfter(bp, t),
          ras |-> [bp.ras EXCEPT ![bp.sp] = Link(t.pc)],
          sp |-> SpUp(bp.sp),
          count |-> IF bp.count = RasEntries THEN RasEntries ELSE bp.count + 1]
    [] t.kind = "ret" ->
         [bp EXCEPT !.btb = TableAfter(bp, t), !.sp = SpDown(@),
                    !.count = IF @ = 0 THEN 0 ELSE @ - 1]
    [] OTHER -> [bp EXCEPT !.btb = TableAfter(bp, t)]

Mispredicts(p, t) == IF t.taken THEN ~(p.taken /\ p.target = t.target)
                                ELSE p.taken
=============================================================================
