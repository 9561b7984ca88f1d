----------------------------- MODULE BpredAgree -----------------------------
(***************************************************************************)
(* The predictor (Bpred) and its model (BpredModel) driven by the same     *)
(* resolving transfers.  The environment looks up any address, flushes and *)
(* holds as it likes, and resolves transfers of Resolvable; as in the core *)
(* none resolves while the front end is stalled.                           *)
(*                                                                         *)
(*   gold     the model's BPred                                            *)
(*   answer   what the model answered for the lookup the register holds    *)
(*   calls    the return addresses of the calls not yet returned from, the *)
(*            youngest last, at most RasEntries of them                    *)
(*   last     the last two outcomes of each branch                         *)
(***************************************************************************)
EXTENDS Bpred, Sequences

CONSTANT Resolvable       \* the transfers that may resolve

M == INSTANCE BpredModel

ASSUME ResolvableAssumption == Resolvable \subseteq M!Transfer

\* Instructions lie on word addresses (a fetch anywhere else traps), and what
\* is a branch stays one: the text is not written over.
ASSUME TextAssumption ==
  /\ \A t \in Resolvable : t.pc % 4 = 0
  /\ \A t, u \in Resolvable :
       t.pc = u.pc /\ t.kind = "branch" => u.kind = "branch"

VARIABLES gold, answer, calls, last

watch == <<gold, answer, calls, last>>
allVars == <<bpVars, watch>>

Resolved(t) == [valid |-> TRUE, pc |-> t.pc, kind |-> t.kind,
                taken |-> t.taken, target |-> t.target]
Outcomes(pc) == IF pc \in DOMAIN last THEN last[pc] ELSE <<>>

AgreeInit == /\ Init
             /\ gold = M!NewBPred /\ answer = M!NotTaken
             /\ calls = <<>> /\ last = <<>>

Answered(lookupPc, flush, hold) ==
  answer' = CASE flush          -> M!NotTaken
              [] hold /\ ~flush -> answer
              [] OTHER          -> M!Predict(gold, lookupPc)

CallsAfter(t) ==
  CASE t.kind = "call" /\ Len(calls) = RasEntries -> Append(Tail(calls), Next4(t.pc))
    [] t.kind = "call" /\ Len(calls) < RasEntries -> Append(calls, Next4(t.pc))
    [] t.kind = "ret" /\ calls # <<>> -> SubSeq(calls, 1, Len(calls) - 1)
    [] OTHER -> calls

Branched(t) ==
  LET seen == Append(Outcomes(t.pc), t.taken)
      two  == IF Len(seen) > 2 THEN Tail(seen) ELSE seen
  IN  IF t.kind # "branch" THEN last
      ELSE [pc \in DOMAIN last \cup {t.pc} |-> IF pc = t.pc THEN two ELSE last[pc]]

Resolve(t, lookupPc, flush) ==
  /\ Edge(lookupPc, flush, FALSE, Resolved(t))
  /\ Answered(lookupPc, flush, FALSE)
  /\ gold' = M!Update(gold, t)
  /\ calls' = CallsAfter(t)
  /\ last' = Branched(t)

Idle(lookupPc, flush, hold) ==
  /\ Edge(lookupPc, flush, hold, NoUpd)
  /\ Answered(lookupPc, flush, hold)
  /\ UNCHANGED <<gold, calls, last>>

AgreeReset == /\ Reset
              /\ gold' = M!NewBPred /\ answer' = M!NotTaken
              /\ calls' = <<>> /\ last' = <<>>

AgreeNext ==
  \/ \E lookupPc \in {a \in Word : a % 4 = 0}, flush \in BOOLEAN :
       \/ \E t \in Resolvable : Resolve(t, lookupPc, flush)
       \/ \E hold \in BOOLEAN : Idle(lookupPc, flush, hold)
  \/ AgreeReset

AgreeSpec == AgreeInit /\ [][AgreeNext]_allVars

-----------------------------------------------------------------------------
\* How far slot j of the array lies below the top of the stack.
Below(j) == IF j < rasSp THEN rasSp - 1 - j ELSE rasSp - 1 - j + RasEntries

(* HoldsTheModel: the memories, read through the valid bits and the        *)
(* occupancy, hold what the model holds, whatever they contained at power- *)
(* up or kept across a reset, and however often the stack overflowed or    *)
(* was popped when empty (rvntt_bpred's header: entries and the stack are  *)
(* read only when valid or non-empty).                                     *)
HoldsTheModel ==
  /\ \A i \in Idx : gold.btb[i] = IF btbValid[i] THEN btb[i] ELSE M!NoEntry
  /\ gold.sp = rasSp /\ gold.count = rasCnt
  /\ \A j \in RasIdx : Below(j) < rasCnt => gold.ras[j] = ras[j]

(* PredictsAsModel: the registered prediction is the model's answer for    *)
(* the address looked up, given by the state before the transfer that      *)
(* resolved in the same cycle; held through a stall, dropped by a flush.   *)
PredictsAsModel ==
  /\ pred.taken = answer.taken
  /\ answer.taken => pred.target = answer.target

(* RasIsStack: the array, pointer and occupancy are a stack of the last    *)
(* RasEntries calls not returned from; a return when it is empty and a     *)
(* call when it is full leave the others in order.                         *)
RasIsStack ==
  /\ rasCnt = Len(calls)
  /\ \A j \in RasIdx : Below(j) < rasCnt => ras[j] = calls[Len(calls) - Below(j)]

(* TwoInARowDecide: two outcomes of a branch in a row, alike, decide its   *)
(* next prediction whatever came before, as long as it has an entry (the   *)
(* two-bit counter, allocation included).                                  *)
TwoInARowDecide ==
  \A pc \in DOMAIN last :
    LET o == last[pc]
    IN  Len(o) = 2 /\ o[1] = o[2] /\ Hit(pc) => Lookup(pc).taken = o[2]

(* AgreesWithModel: the predictor holds and answers what the Python model  *)
(* does, in its types (rvntt_bpred against BPred).                         *)
AgreesWithModel == TypeOK /\ HoldsTheModel /\ PredictsAsModel

(* PredictorRemembers: what it holds is what the program did, with no      *)
(* model between (rvntt_bpred's stack and counters).                       *)
PredictorRemembers == RasIsStack /\ TwoInARowDecide
=============================================================================
