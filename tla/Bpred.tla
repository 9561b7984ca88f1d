-------------------------------- MODULE Bpred --------------------------------
(***************************************************************************)
(* The branch predictor of rtl/core/rvntt_bpred.sv: the table's memory and *)
(* its valid bits, the return-address stack, and the prediction register.  *)
(* Only the valid bits, the stack's pointer and occupancy and the register *)
(* are reset; the two memories start, and come out of a reset, with        *)
(* whatever they held.                                                     *)
(*                                                                         *)
(* An edge takes the address being looked up, the two controls of the      *)
(* register (flush outranks hold) and the transfer resolving in EX, if     *)
(* any, as upd = [valid, pc, kind, taken, target].                         *)
(***************************************************************************)
EXTENDS Integers

CONSTANTS
  WordSize,     \* 2^32 in the hardware
  BtbEntries,   \* 256, a power of two
  RasEntries,   \* 8, a power of two
  InitBtb,      \* what the two memories may hold at power-up
  InitRas

VARIABLES btb, btbValid, ras, rasSp, rasCnt, pred

bpVars == <<btb, btbValid, ras, rasSp, rasCnt, pred>>

Word == 0 .. WordSize - 1
Kinds == {"branch", "jump", "call", "ret"}
Idx == 0 .. BtbEntries - 1
RasIdx == 0 .. RasEntries - 1
Entry == [tag : Nat, kind : Kinds, cnt : 0 .. 3, target : Word]
Upd == [valid : BOOLEAN, pc : Word, kind : Kinds, taken : BOOLEAN, target : Word]

ASSUME SizeAssumption ==
  /\ WordSize \in Nat /\ WordSize >= 8 /\ WordSize % 4 = 0
  /\ BtbEntries \in Nat \ {0}
  /\ RasEntries \in Nat /\ RasEntries > 1
  /\ InitBtb \subseteq [Idx -> Entry]
  /\ InitRas \subseteq [RasIdx -> Word]

TypeOK ==
  /\ btb \in [Idx -> Entry]
  /\ btbValid \in [Idx -> BOOLEAN]
  /\ ras \in [RasIdx -> Word]
  /\ rasSp \in RasIdx
  /\ rasCnt \in 0 .. RasEntries
  /\ pred \in [taken : BOOLEAN, target : Word, hit : BOOLEAN]

NoUpd == [valid |-> FALSE, pc |-> 0, kind |-> "jump", taken |-> FALSE,
          target |-> 0]
NoPred == [taken |-> FALSE, target |-> 0, hit |-> FALSE]

IndexOf(a) == (a \div 4) % BtbEntries
TagOf(a)   == a \div (4 * BtbEntries)
Next4(a)   == (a + 4) % WordSize

\* The pointer is log2(RasEntries) bits wide and wraps.
SpInc == IF rasSp = RasEntries - 1 THEN 0 ELSE rasSp + 1
SpDec == IF rasSp = 0 THEN RasEntries - 1 ELSE rasSp - 1

-----------------------------------------------------------------------------
(* Update.                                                                 *)

Hit(a) == btbValid[IndexOf(a)] /\ btb[IndexOf(a)].tag = TagOf(a)

CountsUp(upd) == Hit(upd.pc) /\ upd.kind = "branch"
CntWraps(upd) ==                                          \* fault
  IF CountsUp(upd) THEN (btb[IndexOf(upd.pc)].cnt + 1) % 4 ELSE 2
CntTaken(upd) ==
  LET c == btb[IndexOf(upd.pc)].cnt
  IN  CASE ~CountsUp(upd)         -> 2
        [] CountsUp(upd) /\ c = 3 -> 3
        [] OTHER                  -> c + 1
CntNtaken(upd) == LET c == btb[IndexOf(upd.pc)].cnt
                  IN  IF c = 0 THEN 0 ELSE c - 1

BtbWe(upd) == upd.valid /\ (upd.taken \/ CountsUp(upd))
BtbWdata(upd) ==
  [tag |-> TagOf(upd.pc), kind |-> upd.kind,
   cnt |-> IF upd.taken THEN CntTaken(upd) ELSE CntNtaken(upd),
   target |-> IF upd.taken THEN upd.target ELSE btb[IndexOf(upd.pc)].target]

TableEdge(upd) ==
  /\ btb' = IF BtbWe(upd) THEN [btb EXCEPT ![IndexOf(upd.pc)] = BtbWdata(upd)]
                          ELSE btb
  /\ btbValid' = IF upd.valid /\ upd.taken
                 THEN [btbValid EXCEPT ![IndexOf(upd.pc)] = TRUE] ELSE btbValid

\* Occupancy that forgets to saturate at the array's size.
PushedOver == rasCnt + 1                                  \* fault
Pushed == IF rasCnt = RasEntries THEN rasCnt ELSE rasCnt + 1
Popped == IF rasCnt = 0 THEN 0 ELSE rasCnt - 1

StackKept(upd) ==                                         \* fault
  /\ ras' = IF upd.valid /\ upd.kind = "call"
            THEN [ras EXCEPT ![rasSp] = Next4(upd.pc)] ELSE ras
  /\ rasSp' = IF upd.valid /\ upd.kind = "call" THEN SpInc ELSE rasSp
  /\ rasCnt' = CASE upd.valid /\ upd.kind = "call" -> Pushed
                 [] upd.valid /\ upd.kind = "ret"  -> Popped
                 [] OTHER                          -> rasCnt
StackEdge(upd) ==
  \/ /\ upd.valid /\ upd.kind = "call"
     /\ ras' = [ras EXCEPT ![rasSp] = Next4(upd.pc)]
     /\ rasSp' = SpInc /\ rasCnt' = Pushed
  \/ /\ upd.valid /\ upd.kind = "ret"
     /\ rasSp' = SpDec /\ rasCnt' = Popped
     /\ UNCHANGED ras
  \/ /\ ~(upd.valid /\ upd.kind \in {"call", "ret"})
     /\ UNCHANGED <<ras, rasSp, rasCnt>>

-----------------------------------------------------------------------------
(* Lookup.                                                                 *)

LookupEmptyStack(a) ==                                    \* fault
  LET e == btb[IndexOf(a)]
  IN  [hit    |-> Hit(a),
       taken  |-> Hit(a) /\ (e.kind = "branch" => e.cnt >= 2),
       target |-> IF e.kind = "ret" THEN ras[SpDec] ELSE e.target]
Lookup(a) ==
  LET e == btb[IndexOf(a)]
  IN  [hit    |-> Hit(a),
       taken  |-> Hit(a) /\ CASE e.kind = "branch" -> e.cnt >= 2
                              [] e.kind = "ret"    -> rasCnt # 0
                              [] OTHER             -> TRUE,
       target |-> IF e.kind = "ret" THEN ras[SpDec] ELSE e.target]

HoldFirst(lookupPc, flush, hold) ==                       \* fault
  pred' = IF hold THEN pred
          ELSE [Lookup(lookupPc) EXCEPT !.taken = @ /\ ~flush,
                                        !.hit = @ /\ ~flush]
PredEdge(lookupPc, flush, hold) ==
  pred' = IF hold /\ ~flush THEN pred
          ELSE [Lookup(lookupPc) EXCEPT !.taken = @ /\ ~flush,
                                        !.hit = @ /\ ~flush]

Edge(lookupPc, flush, hold, upd) ==
  TableEdge(upd) /\ StackEdge(upd) /\ PredEdge(lookupPc, flush, hold)

Reset ==
  /\ btbValid' = [i \in Idx |-> FALSE]
  /\ rasSp' = 0 /\ rasCnt' = 0
  /\ pred' = NoPred
  /\ UNCHANGED <<btb, ras>>

Init ==
  /\ btb \in InitBtb
  /\ ras \in InitRas
  /\ btbValid = [i \in Idx |-> FALSE]
  /\ rasSp = 0 /\ rasCnt = 0
  /\ pred = NoPred
=============================================================================
