------------------------------ MODULE CoreBpred ------------------------------
(***************************************************************************)
(* The pipeline (Core) with its branch predictor (Bpred) in the fetch      *)
(* loop, as rvntt_core instantiates it.  The lookup runs one address ahead *)
(* of the fetch, from registered sources only; the answer is held while    *)
(* the front end stalls and dropped by a redirect; the predictor learns    *)
(* from the transfer that resolves in EX.                                  *)
(*                                                                         *)
(* looked is a history variable: what the tables answered, when it was     *)
(* looked up, for the address now in pc (Unlooked after a redirect).         *)
(***************************************************************************)
EXTENDS Core

CONSTANTS BtbEntries, RasEntries, InitBtb, InitRas,
          LinkRegs        \* x1 and x5

VARIABLES btb, btbValid, ras, rasSp, rasCnt, pred, looked

BP == INSTANCE Bpred

\* The table and the stack are of powers of two in the hardware; their memories
\* hold anything of their width at power-up.
ASSUME BpAssumption ==
  /\ BtbEntries \in Nat \ {0}
  /\ RasEntries \in Nat /\ RasEntries > 1
  /\ InitBtb \subseteq [BP!Idx -> BP!Entry]
  /\ InitRas \subseteq [BP!RasIdx -> Word]

bpVars == <<btb, btbValid, ras, rasSp, rasCnt, pred>>
bpCoreVars == <<vars, bpVars, looked>>

Prediction == IF pred.taken THEN [taken |-> TRUE, target |-> pred.target]
              ELSE [taken |-> FALSE, target |-> 0]

LookupPcNext == Add(pc, 4)                                \* fault
LookupPc == IF pred.taken THEN pred.target ELSE Add(pc, 4)

ExBpKind ==
  LET rdLink  == idex.insn.rd \in LinkRegs
      rs1Link == idex.insn.rs1 \in LinkRegs
  IN  CASE idex.insn.op = "branch"                         -> "branch"
        [] idex.insn.op = "jalr" /\ rs1Link /\ ~rdLink     -> "ret"
        [] idex.insn.op \in {"jal", "jalr"} /\ rdLink      -> "call"
        [] OTHER                                           -> "jump"

ExUpd == [valid |-> ExBpUpd, pc |-> idex.pc, kind |-> ExBpKind,
          taken |-> ExCtrlXfer,
          target |-> JumpTarget(idex.insn, idex.pc, Rs1Fwd)]

PredictorEdgeNoHold ==                                    \* fault
  BP!Edge(LookupPc, ExRedirect, FALSE, ExUpd)
PredictorEdge == BP!Edge(LookupPc, ExRedirect, FrontStall, ExUpd)

\* The core's edges with the predictor's answer in place of a free one.
CoreEdge == \/ ExHold
            \/ LoadUse
            \/ TrapRedirect
            \/ MretRedirect
            \/ MispredictRedirect
            \/ Advance(Prediction)

Unlooked == [for |-> -1, taken |-> FALSE, target |-> 0]
LookedNext ==
  looked' = CASE ExRedirect                -> Unlooked
              [] FrontStall /\ ~ExRedirect -> looked
              [] OTHER -> LET l == BP!Lookup(LookupPc)
                          IN  [for |-> LookupPc, taken |-> l.taken,
                               target |-> l.target]

BpEdge == CoreEdge /\ PredictorEdge /\ LookedNext

BpReset == Reset /\ BP!Reset /\ looked' = Unlooked

BpInit == Init /\ BP!Init /\ looked = Unlooked

BpNext == BpEdge \/ BpReset

BpSpec == BpInit /\ [][BpNext]_bpCoreVars /\ WF_bpCoreVars(BpEdge)

-----------------------------------------------------------------------------
(* PredictionIsForFetch: the registered prediction is the answer the       *)
(* tables gave for the address being fetched, through stalls of any        *)
(* length, and a redirect's target is never predicted (bp_lookup_pc, hold  *)
(* and flush in rvntt_core).                                               *)
PredictionIsForFetch ==
  IF looked = Unlooked THEN ~pred.taken
  ELSE /\ looked.for = pc
       /\ pred.taken = looked.taken
       /\ pred.taken => pred.target = looked.target

(* ImplementsCore: with the predictor in the loop the pipeline takes only  *)
(* steps it could take with a free one, so what is proved of Core under    *)
(* every prediction holds of the machine that is built; in particular the  *)
(* predictor never answers with an address outside PredTargets, whatever   *)
(* its memories held at power-up (the RVNTT_ABSTRACT_BPRED argument).      *)
ImplementsCore == [][Next]_vars
=============================================================================
