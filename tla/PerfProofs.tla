----------------------------- MODULE PerfProofs -----------------------------
(***************************************************************************)
(* The accounting of the core's cycles, for every latency, program and     *)
(* predictor: by its own counters every cycle is accounted for, and        *)
(* instructions never leave EX further apart than a flush and one          *)
(* multi-cycle instruction; and the stall profiler, which counts from      *)
(* outside, leaves no cycle between two marks unexplained.                 *)
(***************************************************************************)
EXTENDS CorePerf, CycleCheck, RefinementProofs

(* PerfTracks: the accounting only watches: the pipeline under it takes    *)
(* the steps of Next, so what holds of Spec holds of PerfSpec.             *)
LEMMA PerfTracks ==
  /\ PerfInit => Init
  /\ [PerfNext]_<<vars, perfVars>> => [Next]_vars
  BY DEF PerfInit, PerfNext, PerfClock, PerfReset, Next

(* PerfPipeline: PipelineInv holds in every state of PerfSpec.             *)
LEMMA PerfPipeline == PerfSpec => []PipelineInv
  BY PerfTracks, InvInit, InvStep, PTL DEF PerfSpec

(* StallRaisesNoTrap: an instruction that the multi-cycle unit holds in EX *)
(* raises no trap.                                                         *)
LEMMA StallRaisesNoTrap ==
  ASSUME ExStall
  PROVE  ~ExTrap /\ ~ExRedirect
<1>1. idex.valid /\ idex.insn.op \in MulDivOps
  BY DEF ExStall, MdReq, IsMulDiv
<1>2. ExTrapInfo = NoTrap
  BY <1>1 DEF ExTrapInfo, TrapOf, NoTrap, MulDivOps, IsCsr, CtrlXfer, IsJump,
     MemRead, MemWrite
<1> QED  BY <1>2 DEF ExTrap, NoTrap, ExRedirect

(* RedirectOccupied: only an instruction in EX redirects or traps, and     *)
(* then both slots of the front end are occupied.                          *)
LEMMA RedirectOccupied ==
  ASSUME PipelineInv
  PROVE  /\ ExTrap => idex.valid
         /\ ExRedirect => idex.valid /\ ifid.valid /\ ~ExStall
  BY DEF ExTrap, ExTrapInfo, NoTrap, ExRedirect, ExMret, ExMispredict,
     PipelineInv, PredictedPath

-----------------------------------------------------------------------------
(* What each edge adds to the ledger.                                      *)

(* LedgerMoves: an edge moves the ledger by the bubbles it creates or      *)
(* drains.                                                                 *)
LEMMA LedgerMoves ==
  ASSUME PipelineInv, PerfClock, ledger \in Int
  PROVE  ledger' = ledger + Bubbles - Bubbles'
<1>1. /\ Clock /\ TypeOK
      /\ ledger' = ledger + 1 - Documented - Count(ExTrap)
                     + Count(EvLoadUse /\ EvRedirect)
  BY DEF PerfClock, PipelineInv
<1>2. /\ idex.valid \in BOOLEAN /\ ifid.valid \in BOOLEAN
  BY <1>1 DEF TypeOK
<1>3. CASE ExHold
  <2>1. ExStall /\ ~ExTrap /\ ~ExRedirect
    BY <1>3, StallRaisesNoTrap DEF ExHold
  <2>2. Documented = 1 /\ Count(ExTrap) = 0 /\ Count(EvLoadUse /\ EvRedirect) = 0
    BY <2>1 DEF Documented, Count, InstretBump, EvLoadUse, EvExStall,
       EvRedirect
  <2>3. ifid' = ifid /\ idex'.valid = idex.valid
    BY <1>1, <1>3 DEF ExHold, TypeOK
  <2>4. Bubbles' = Bubbles  BY <2>3 DEF Bubbles
  <2>5. Bubbles \in Int  BY DEF Bubbles, Count
  <2> QED  BY <1>1, <2>2, <2>4, <2>5
<1>4. CASE LoadUse
  <2>1. /\ IdStall /\ ~ExStall /\ ~ExRedirect /\ ~ExTrap
        /\ idex.valid /\ ifid.valid
    BY <1>4 DEF LoadUse, ExRedirect, IdStall
  <2>2. Documented = 2 /\ Count(ExTrap) = 0 /\ Count(EvLoadUse /\ EvRedirect) = 0
    BY <2>1 DEF Documented, Count, InstretBump, EvLoadUse, EvExStall,
       EvRedirect
  <2>3. ifid'.valid = TRUE /\ idex'.valid = FALSE
    BY <1>4, <2>1 DEF LoadUse, IdExBubble
  <2>4. Bubbles = 0 /\ Bubbles' = 1
    BY <2>1, <2>3 DEF Bubbles, Count
  <2> QED  BY <1>1, <2>2, <2>4
<1>5. CASE ExRedirect /\ Flush
  <2>1. idex.valid /\ ifid.valid /\ ~ExStall
    BY <1>5, RedirectOccupied
  <2>2. Documented = 3 - Count(ExTrap) + Count(EvLoadUse)
    BY <1>5, <2>1 DEF Documented, Count, InstretBump, EvLoadUse, EvExStall,
       EvRedirect
  <2>3. Count(EvLoadUse /\ EvRedirect) = Count(EvLoadUse)
    BY <1>5 DEF EvRedirect, Count
  <2>4. ifid'.valid = FALSE /\ idex'.valid = FALSE
    BY <1>5 DEF Flush, IdExBubble, IfIdEmpty
  <2>5. Bubbles = 0 /\ Bubbles' = 2
    BY <2>1, <2>4 DEF Bubbles, Count
  <2>6. Count(ExTrap) \in Int /\ Count(EvLoadUse) \in Int  BY DEF Count
  <2> QED  BY <1>1, <2>2, <2>3, <2>5, <2>6
<1>6. ASSUME NEW guess \in Predictions, Advance(guess)
      PROVE  ledger' = ledger + Bubbles - Bubbles'
  <2>1. ~IdStall /\ ~ExStall /\ ~ExRedirect /\ ~ExTrap
    BY <1>6 DEF Advance, FrontStall, ExRedirect
  <2>2. /\ Documented = Count(idex.valid) /\ Count(ExTrap) = 0
        /\ Count(EvLoadUse /\ EvRedirect) = 0
    BY <2>1 DEF Documented, Count, InstretBump, EvLoadUse, EvExStall,
       EvRedirect
  <2>3. ifid'.valid = TRUE /\ idex'.valid = ifid.valid
    BY <1>6 DEF Advance, IdExNext
  <2>4. Bubbles - Bubbles' = 1 - Count(idex.valid)
    BY <1>2, <2>3 DEF Bubbles, Count
  <2>5. Bubbles \in Int /\ Bubbles' \in Int /\ Count(idex.valid) \in Int
    BY DEF Bubbles, Count
  <2> QED  BY <1>1, <2>2, <2>4, <2>5
<1> QED
  BY <1>1, <1>3, <1>4, <1>5, <1>6
  DEF Clock, TrapRedirect, MretRedirect, MispredictRedirect

(* CyclesAccounted: every cycle is an instruction retired or trapped, a    *)
(* stall, half of a redirect's cost or part of the two-cycle fill          *)
(* (hpm_event_c and minstret in rvntt_core), whatever the latencies, the   *)
(* program and the predictions.                                            *)
THEOREM CyclesAccounted == PerfSpec => []CycleIdentity
<1>1. PerfInit => CycleIdentity
  <2> SUFFICES ASSUME PerfInit PROVE CycleIdentity  OBVIOUS
  <2>1. idex.valid = FALSE /\ ifid.valid = FALSE /\ ledger = 0
    BY DEF PerfInit, Init, IdExBubble, IfIdEmpty
  <2> QED  BY <2>1 DEF CycleIdentity, Bubbles, Count
<1>2. PipelineInv /\ CycleIdentity /\ [PerfNext]_<<vars, perfVars>>
        => CycleIdentity'
  <2> SUFFICES ASSUME PipelineInv, CycleIdentity,
                      [PerfNext]_<<vars, perfVars>>
               PROVE  CycleIdentity'
    OBVIOUS
  <2>1. Bubbles \in Int /\ Bubbles' \in Int  BY DEF Bubbles, Count
  <2>2. CASE PerfClock
    <3>1. ledger' = ledger + Bubbles - Bubbles'
      BY <2>1, <2>2, LedgerMoves DEF CycleIdentity
    <3> QED  BY <2>1, <3>1 DEF CycleIdentity
  <2>3. CASE PerfReset
    <3>1. idex'.valid = FALSE /\ ifid'.valid = FALSE /\ ledger' = 0
      BY <2>3 DEF PerfReset, Reset, ClearStages, IdExBubble, IfIdEmpty
    <3> QED  BY <3>1 DEF CycleIdentity, Bubbles, Count
  <2>4. CASE UNCHANGED <<vars, perfVars>>
    BY <2>4 DEF vars, perfVars, CycleIdentity, Bubbles
  <2> QED  BY <2>2, <2>3, <2>4 DEF PerfNext
<1> QED  BY <1>1, <1>2, PerfPipeline, PTL DEF PerfSpec

-----------------------------------------------------------------------------
(* The distance between two instructions leaving EX.                       *)

(* TargetRange: the multi-cycle unit's last count is in range and at most  *)
(* the longest occupancy less one.                                         *)
LEMMA TargetRange ==
  /\ MdTarget \in 1 .. CntMod - 1
  /\ MdTarget <= LongestOccupancy - 1
  BY LatencyAssumption DEF MdTarget, LongestOccupancy, CntMod

(* GapStep: every edge, and a reset, preserves GapInv.                     *)
LEMMA GapStep ==
  ASSUME PipelineInv, GapInv, PerfNext
  PROVE  GapInv'
<1>1. TypeOK /\ gap \in Nat  BY DEF PipelineInv, GapInv
<1>2. CASE PerfReset
  <2>1. gap' = 0 /\ md' = [md EXCEPT !.active = FALSE, !.cnt = 0, !.op = "mul"]
    BY <1>2 DEF PerfReset, Reset
  <2>2. md'.active = FALSE  BY <1>1, <2>1 DEF TypeOK
  <2> QED  BY <2>1, <2>2 DEF GapInv
<1>3. CASE PerfClock /\ ~ExStall
  <2>1. /\ Clock /\ EveryEdge
        /\ gap' = IF idex.valid THEN 0 ELSE gap + 1
    BY <1>3 DEF PerfClock, Clock, ExHold, LoadUse, TrapRedirect,
       MretRedirect, MispredictRedirect, Flush, Advance
  <2>2. md'.active = FALSE
    <3>1. md' = MdNext /\ (~MdReq \/ MdDone)
      BY <1>3, <2>1 DEF EveryEdge, ExStall
    <3> QED  BY <1>1, <3>1 DEF MdNext, MdDone, TypeOK
  <2>3. CASE idex.valid
    BY <2>1, <2>2, <2>3 DEF GapInv
  <2>4. CASE ~idex.valid
    <3>1. /\ ~ExRedirect /\ ~IdStall
      BY <2>4, RedirectOccupied DEF IdStall
    <3>2. PICK guess \in Predictions : Advance(guess)
      BY <1>3, <2>1, <3>1 DEF Clock, ExHold, LoadUse, TrapRedirect,
         MretRedirect, MispredictRedirect
    <3>3. ifid'.valid = TRUE /\ idex'.valid = ifid.valid
      BY <3>2 DEF Advance, IdExNext
    <3>4. gap' = gap + 1 /\ gap <= 1 /\ (~ifid.valid => gap = 0)
      BY <2>1, <2>4 DEF GapInv
    <3> QED  BY <1>1, <2>2, <3>3, <3>4 DEF GapInv
  <2> QED  BY <2>3, <2>4
<1>4. CASE PerfClock /\ ExStall
  <2>1. ExHold /\ gap' = gap + 1
    BY <1>4, StallRaisesNoTrap
    DEF PerfClock, Clock, LoadUse, TrapRedirect, MretRedirect,
        MispredictRedirect, Advance, FrontStall
  <2>2. idex.valid /\ MdReq /\ ~MdDone /\ md' = MdNext
    BY <1>4, <2>1 DEF ExStall, MdReq, ExHold, EveryEdge
  <2>3. idex'.valid = idex.valid
    BY <1>1, <2>1 DEF ExHold, TypeOK
  <2>4. CASE ~md.active
    <3>1. md'.active = TRUE /\ md'.cnt = 1
      BY <2>2, <2>4 DEF MdNext
    <3>2. (MdTarget \in 1 .. CntMod - 1)'
      BY LatencyAssumption DEF MdTarget, CntMod
    <3>3. gap <= 2  BY <2>4 DEF GapInv
    <3> QED  BY <1>1, <2>1, <2>2, <2>3, <3>1, <3>2, <3>3 DEF GapInv, CntMod
  <2>5. CASE md.active
    <3>1. md.cnt \in 1 .. MdTarget /\ gap <= 2 + md.cnt /\ md.cnt # MdTarget
      BY <2>2, <2>5 DEF GapInv, MdDone
    <3>2. md' = [md EXCEPT !.cnt = (@ + 1) % CntMod]
      BY <2>2, <2>5 DEF MdNext
    <3>3. md.cnt + 1 \in 2 .. MdTarget /\ md.cnt + 1 < CntMod
      BY <3>1, TargetRange DEF CntMod
    <3>4. (md.cnt + 1) % CntMod = md.cnt + 1
      BY <3>1, <3>3 DEF CntMod
    <3>5. md'.active = TRUE /\ md'.cnt = md.cnt + 1 /\ md'.op = md.op
      BY <1>1, <2>5, <3>2, <3>4 DEF TypeOK
    <3>6. MdTarget' = MdTarget  BY <3>5 DEF MdTarget
    <3>7. gap' <= 2 + md'.cnt /\ gap' \in Nat /\ md'.cnt \in 1 .. MdTarget'
      BY <1>1, <2>1, <3>1, <3>3, <3>5, <3>6
    <3> QED  BY <2>2, <2>3, <3>5, <3>7 DEF GapInv
  <2> QED  BY <2>4, <2>5
<1> QED  BY <1>2, <1>3, <1>4 DEF PerfNext

(* GapBounded: between two instructions leaving EX there are never more    *)
(* edges than a flush and the longest occupancy of EX account for          *)
(* (ex_stall, id_stall and ex_redirect in rvntt_core).                     *)
THEOREM GapBounded == PerfSpec => []BoundedGap
<1>1. PerfInit => GapInv
  BY DEF PerfInit, Init, IdExBubble, IfIdEmpty, GapInv
<1>2. PipelineInv /\ GapInv /\ [PerfNext]_<<vars, perfVars>> => GapInv'
  <2>1. GapInv /\ UNCHANGED <<vars, perfVars>> => GapInv'
    BY DEF vars, perfVars, GapInv, MdTarget
  <2> QED  BY <2>1, GapStep
<1>3. PipelineInv /\ GapInv => BoundedGap
  <2> SUFFICES ASSUME PipelineInv, GapInv PROVE BoundedGap  OBVIOUS
  <2>1. md.active \in BOOLEAN /\ gap \in Nat  BY DEF PipelineInv, TypeOK, GapInv
  <2>2. LongestOccupancy \in Nat  BY LatencyAssumption DEF LongestOccupancy, CntMod
  <2>3. CASE md.active
    <3>1. md.cnt \in 1 .. MdTarget /\ gap <= 2 + md.cnt
      BY <2>3 DEF GapInv
    <3> QED  BY <2>1, <2>2, <3>1, TargetRange DEF BoundedGap, CntMod
  <2>4. CASE ~md.active
    <3>1. gap <= 2  BY <2>4 DEF GapInv
    <3> QED  BY <2>1, <2>2, <3>1, TargetRange DEF BoundedGap, CntMod
  <2> QED  BY <2>3, <2>4
<1> QED  BY <1>1, <1>2, <1>3, PerfPipeline, PTL DEF PerfSpec

-----------------------------------------------------------------------------
(* The stall profiler (CycleCheck).                                        *)

\* A prediction of taken was looked up for a control transfer.
TransferAt(a) == CM!IsTransfer(prog[Slot(a)])
TakenAtTransfer(slot) == slot.valid /\ slot.pred.taken => TransferAt(slot.pc)

\* Only control transfers have an entry in the table, so only they are ever
\* predicted taken.  Inductive together with PipelineInv.
PredictsTransfers ==
  /\ TakenAtTransfer(ifid) /\ TakenAtTransfer(idex)
  /\ pred.taken => TransferAt(pc)
  /\ \A a \in Word : BP!Hit(a) => TransferAt(a)

\* The profiler's state is a record with its numbers where they belong.
ProfFields(p) ==
  p = [now |-> p.now, ledger |-> p.ledger, redirects |-> p.redirects,
       pipe |-> p.pipe, ifidFc |-> p.ifidFc, idexFc |-> p.idexFc,
       fifo |-> p.fifo, stalled |-> p.stalled, prev |-> p.prev, d |-> p.d,
       target |-> p.target, misses |-> p.misses, first |-> p.first,
       last |-> p.last]
ProfType ==
  /\ ProfFields(prof)
  /\ prof.now \in Nat /\ prof.ledger \in Int /\ prof.stalled \in 0 .. 1
  /\ prof.pipe[1] \in 0 .. 1 /\ prof.pipe[2] \in 0 .. 1 /\ prof.pipe[3] \in 0 .. 1
  /\ prof.ifidFc \in Int /\ prof.idexFc \in Int /\ prof.fifo \in Seq(Int)

MarkIn(slot) == slot.valid /\ IsMark(prog[Slot(slot.pc)])

\* The ledger, with the redirects not yet charged, is what the occupied slots
\* leave of it; when a mark leaves EX the slots behind it are empty exactly if
\* it redirected; and a cycle later the stalls charged early and the charges
\* still due cancel against them.
LedgerBalanced ==
  /\ prof.ledger - 2 * (prof.pipe[1] + prof.pipe[2] + prof.pipe[3])
       - N(exmem.valid) - N(memwb.valid) = 2 - Bubbles
  /\ MarkIn(exmem) => Bubbles = 2 * prof.pipe[3]
  /\ MarkIn(memwb) =>
       N(exmem.valid) + 2 * prof.pipe[3] + prof.stalled - Bubbles
         + 2 * prof.pipe[2] = 1

\* So a mark retires with the same sum wherever it is.
AtMark(m) == m.ledger + m.early = 4
MarksAgree ==
  \/ prof.first.set = FALSE /\ prof.first = prof.last
  \/ prof.first.set = TRUE /\ AtMark(prof.first) /\ AtMark(prof.last)

\* Inductive together with PipelineInv and BP!TypeOK.
ProfInv ==
  /\ PredictsTransfers /\ ProfType /\ FetchDatesInStep /\ MarksAgree
  /\ ~left => LedgerBalanced

-----------------------------------------------------------------------------
\* q and r are what x leaves when divided by n.
Splits(n, x, q, r) == q \in Nat /\ r \in 0 .. n - 1 /\ x = (n * q) + r

(* SplitUnique: one quotient.                                              *)
LEMMA SplitUnique ==
  ASSUME NEW n \in Nat \ {0}, NEW x \in Nat, NEW q, NEW r, NEW k, NEW s,
         Splits(n, x, q, r), Splits(n, x, k, s)
  PROVE  q = k
<1> USE DEF Splits
<1>1. ASSUME NEW u \in Nat, NEW v \in Nat, NEW y \in 0 .. n - 1,
             NEW z \in 0 .. n - 1, (n * u) + y = (n * v) + z
      PROVE  ~(u < v)
  <2> SUFFICES ASSUME u < v PROVE FALSE  OBVIOUS
  <2>1. PICK e \in Nat : v = u + 1 + e  OBVIOUS
  <2>2. n * v = (n * u) + n + (n * e)  BY <2>1
  <2>3. n * e \in Nat /\ n * u \in Nat /\ n * v \in Nat  BY <2>1
  <2> QED  BY <1>1, <2>2, <2>3
<1>2. ~(q < k) /\ ~(k < q)  BY <1>1
<1> QED  BY <1>2

(* SameSlot: an entry and a tag belong to one word of the program.         *)
LEMMA SameSlot ==
  ASSUME NEW a \in Word, NEW b \in Word,
         BP!IndexOf(a) = BP!IndexOf(b), BP!TagOf(a) = BP!TagOf(b)
  PROVE  Slot(a) = Slot(b)
<1>1. BtbEntries \in Nat \ {0} /\ a \in Nat /\ b \in Nat
  BY BpAssumption, WordAssumption DEF Word
<1>2. ASSUME NEW x \in Nat
      PROVE  BP!TagOf(x) = Slot(x) \div BtbEntries /\ Slot(x) \in Nat
  <2> DEFINE n == 4 * BtbEntries
             w == Slot(x)
             k == w \div BtbEntries
             r == w % BtbEntries
             s == x % 4
  <2>1. w \in Nat /\ s \in 0 .. 3 /\ x = (4 * w) + s  BY DEF Slot
  <2> HIDE DEF w, s
  <2>2. k \in Nat /\ r \in 0 .. BtbEntries - 1 /\ w = (BtbEntries * k) + r
    BY <1>1, <2>1
  <2> HIDE DEF k, r
  <2>3. n \in Nat \ {0} /\ 4 * (BtbEntries * k) = n * k /\ BtbEntries * k \in Nat
    BY <1>1, <2>2
  <2>4. x = (n * k) + ((4 * r) + s) /\ (4 * r) + s \in 0 .. n - 1
    BY <1>1, <2>1, <2>2, <2>3
  <2> HIDE DEF n
  <2>5. Splits(n, x, k, (4 * r) + s)  BY <2>2, <2>4 DEF Splits
  <2>6. Splits(n, x, x \div n, x % n)  BY <2>3 DEF Splits
  <2>7. x \div n = k  BY <2>3, <2>5, <2>6, SplitUnique
  <2> QED  BY <2>1, <2>7 DEF BP!TagOf, n, k, w
<1>3. Slot(a) % BtbEntries = Slot(b) % BtbEntries  BY DEF BP!IndexOf, Slot
<1>4. Slot(a) \div BtbEntries = Slot(b) \div BtbEntries  BY <1>1, <1>2
<1>5. ASSUME NEW w \in Nat
      PROVE  w = (BtbEntries * (w \div BtbEntries)) + (w % BtbEntries)
  BY <1>1
<1> QED  BY <1>1, <1>2, <1>3, <1>4, <1>5

(* TableLearnsTransfers: only what resolved as a transfer gets an entry.   *)
LEMMA TableLearnsTransfers ==
  ASSUME PipelineInv, BP!TypeOK, PredictsTransfers, BP!TableEdge(ExUpd),
         NEW a \in Word, BP!Hit(a)'
  PROVE  TransferAt(a)
<1> DEFINE u == ExUpd
           k == BP!IndexOf(a)
           l == BP!IndexOf(idex.pc)
<1>1. TypeOK /\ idex.pc \in Word  BY DEF PipelineInv, TypeOK
<1>2. u.pc = idex.pc /\ u.valid = ExBpUpd  BY DEF ExUpd
<1>3. k \in BP!Idx /\ l \in BP!Idx  BY <1>1, IndexRange
<1>4. btb \in [BP!Idx -> BP!Entry] /\ btbValid \in [BP!Idx -> BOOLEAN]
  BY DEF BP!TypeOK
<1>5. btbValid'[k] /\ btb'[k].tag = BP!TagOf(a)
  BY DEF BP!Hit, BP!IndexOf, BP!TagOf
<1>6. /\ btb' = IF BP!BtbWe(u) THEN [btb EXCEPT ![l] = BP!BtbWdata(u)] ELSE btb
      /\ btbValid' = IF u.valid /\ u.taken THEN [btbValid EXCEPT ![l] = TRUE]
                     ELSE btbValid
  BY <1>2 DEF BP!TableEdge
<1>7. BP!BtbWdata(u).tag = BP!TagOf(idex.pc)  BY <1>2 DEF BP!BtbWdata
<1>8. BP!BtbWe(u) => u.valid  BY DEF BP!BtbWe
<1>9. u.valid /\ u.taken => BP!BtbWe(u)  BY DEF BP!BtbWe
<1> HIDE DEF u, k, l
<1>10. CASE k = l /\ BP!BtbWe(u)
  <2>1. BP!TagOf(a) = BP!TagOf(idex.pc)
    BY <1>3, <1>4, <1>5, <1>6, <1>7, <1>10
  <2>2. Slot(a) = Slot(idex.pc)
    BY <1>1, <1>10, <2>1, SameSlot DEF k, l
  <2>3. ExBpUpd  BY <1>2, <1>8, <1>10
  <2>4. idex.insn = prog[Slot(idex.pc)] /\ CM!IsTransfer(idex.insn)
    BY <2>3 DEF PipelineInv, SlotsMatchProgram, ExBpUpd, CM!IsTransfer,
       CM!IsJump, IsJump
  <2> QED  BY <2>2, <2>4 DEF TransferAt
<1>11. CASE ~(k = l /\ BP!BtbWe(u))
  <2>1. btb'[k] = btb[k] /\ btbValid'[k] = btbValid[k]
    BY <1>3, <1>4, <1>6, <1>9, <1>11
  <2>2. BP!Hit(a)  BY <1>5, <2>1 DEF BP!Hit, k
  <2> QED  BY <2>2 DEF PredictsTransfers
<1> QED  BY <1>10, <1>11

(* EdgeKinds: how an edge can move the pipeline, the predictor in it.      *)
LEMMA EdgeKinds ==
  ASSUME BpEdge
  PROVE  /\ EveryEdge /\ BP!TableEdge(ExUpd)
         /\ BP!PredEdge(LookupPc, ExRedirect, FrontStall)
         /\ \/ ExHold \/ LoadUse \/ Advance(Prediction)
            \/ Flush /\ ExRedirect /\ exmem' = ExMemBubble /\ ExTrap
            \/ Flush /\ ExRedirect /\ exmem' = ExMemNext /\ ~ExTrap
  BY DEF BpEdge, CoreEdge, PredictorEdge, BP!Edge, ExHold, LoadUse, Advance,
     TrapRedirect, MretRedirect, MispredictRedirect, Flush

(* PredictsStep: every edge leaves only transfers predicted taken.         *)
LEMMA PredictsStep ==
  ASSUME PipelineInv, BP!TypeOK, PredictsTransfers, BpEdge
  PROVE  PredictsTransfers'
<1>1. /\ TypeOK /\ prog' = prog /\ BP!TableEdge(ExUpd)
      /\ BP!PredEdge(LookupPc, ExRedirect, FrontStall)
  BY EdgeKinds DEF PipelineInv, EveryEdge
<1>2. \A a : TransferAt(a)' = TransferAt(a)
  BY <1>1 DEF TransferAt, CM!IsTransfer, CM!IsJump
<1>3. \A a \in Word : BP!Hit(a)' => TransferAt(a)
  BY <1>1, TableLearnsTransfers
<1>4. ~ExRedirect /\ FrontStall => pred' = pred
  BY <1>1 DEF BP!PredEdge
<1>5. ~ExRedirect /\ ~FrontStall /\ pred'.taken => TransferAt(LookupPc)
  <2> SUFFICES ASSUME ~ExRedirect, ~FrontStall, pred'.taken
               PROVE  TransferAt(LookupPc)
    OBVIOUS
  <2>1. BP!Lookup(LookupPc).taken  BY <1>1 DEF BP!PredEdge, BP!Lookup
  <2>2. BP!Hit(LookupPc)  BY <2>1 DEF BP!Lookup
  <2> QED  BY <1>1, <2>2, LookupPcWord DEF PredictsTransfers
<1>6. ExRedirect => pred'.taken = FALSE
  BY <1>1 DEF BP!PredEdge, BP!Lookup
<1>7. ASSUME TakenAtTransfer(ifid)', TakenAtTransfer(idex)',
             pred'.taken => TransferAt(pc')
      PROVE  PredictsTransfers'
  BY <1>2, <1>3, <1>7 DEF PredictsTransfers
<1>8. CASE ExHold
  <2>1. /\ ExStall /\ pc' = pc /\ ifid' = ifid /\ idex'.valid = idex.valid
        /\ idex'.pc = idex.pc /\ idex'.pred = idex.pred
    BY <1>1, <1>8 DEF ExHold, TypeOK
  <2>2. pred' = pred  BY <1>4, <2>1 DEF FrontStall, ExRedirect
  <2> QED  BY <1>2, <1>7, <2>1, <2>2 DEF PredictsTransfers, TakenAtTransfer
<1>9. CASE LoadUse
  <2>1. pc' = pc /\ ifid' = ifid /\ idex'.valid = FALSE /\ pred' = pred
    BY <1>4, <1>9 DEF LoadUse, IdExBubble, FrontStall
  <2> QED  BY <1>2, <1>7, <2>1 DEF PredictsTransfers, TakenAtTransfer
<1>10. CASE Flush /\ ExRedirect
  <2>1. ifid'.valid = FALSE /\ idex'.valid = FALSE
    BY <1>10 DEF Flush, IdExBubble, IfIdEmpty
  <2> QED  BY <1>6, <1>7, <1>10, <2>1 DEF TakenAtTransfer
<1>11. CASE Advance(Prediction)
  <2>1. /\ ~ExRedirect /\ ~FrontStall /\ pc' = LookupPc
        /\ ifid' = [valid |-> TRUE, pc |-> pc, pred |-> Prediction]
        /\ idex'.valid = ifid.valid /\ idex'.pc = ifid.pc
        /\ idex'.pred = ifid.pred
    BY <1>11 DEF Advance, IdExNext, LookupPc, Prediction
  <2>2. Prediction.taken = pred.taken
    BY DEF Prediction, BP!TypeOK
  <2> QED
    BY <1>2, <1>5, <1>7, <2>1, <2>2 DEF PredictsTransfers, TakenAtTransfer
<1> QED  BY <1>8, <1>9, <1>10, <1>11, EdgeKinds

\* Records that differ in the profiler's scoring only.
SameCounts(p, q) ==
  /\ q.now = p.now /\ q.ledger = p.ledger /\ q.pipe = p.pipe
  /\ q.ifidFc = p.ifidFc /\ q.idexFc = p.idexFc /\ q.fifo = p.fifo
  /\ q.stalled = p.stalled /\ q.first = p.first /\ q.last = p.last

Rescored(p, x, y, z) == [p EXCEPT !.d = x, !.misses = y, !.target = z]

(* ScoredKeeps: scoring a transfer changes nothing the ledger is kept in.  *)
LEMMA ScoredKeeps ==
  ASSUME NEW p, ProfFields(p), NEW next
  PROVE  ProfFields(Scored(p, next)) /\ SameCounts(p, Scored(p, next))
<1>1. ASSUME NEW x, NEW y, NEW z, NEW q, q = Rescored(p, x, y, z)
      PROVE  ProfFields(q) /\ SameCounts(p, q)
  BY <1>1 DEF Rescored, ProfFields, SameCounts
<1>2. CASE p.prev.valid /\ CM!IsTransfer(p.prev.insn)
  <2>1. PICK x, y, z : Scored(p, next) = Rescored(p, x, y, z)
    BY <1>2 DEF Scored, Rescored
  <2> QED  BY <1>1, <2>1
<1>3. CASE ~(p.prev.valid /\ CM!IsTransfer(p.prev.insn))
  BY <1>3 DEF Scored, SameCounts
<1> QED  BY <1>2, <1>3

\* What the profiler remembers at a mark when its counters are p.
MarkOf(p) == [set |-> TRUE, ledger |-> p.ledger, early |-> p.stalled + Stalled,
              redirects |-> p.redirects, misses |-> p.misses]

\* The marks of q are those of p, with one at this edge if a mark retires.
MarksFollow(p, q) ==
  IF memwb.valid /\ MarkIn(memwb)
  THEN \E m : /\ m.set = TRUE /\ m.ledger = p.ledger
              /\ m.early = p.stalled + Stalled /\ q.last = m
              /\ q.first = IF p.first.set THEN p.first ELSE m
  ELSE q.first = p.first /\ q.last = p.last

(* CommitKeeps: a retirement takes one date off the queue and may be a     *)
(* mark; the counts stay.                                                  *)
LEMMA CommitKeeps ==
  ASSUME NEW p, ProfFields(p), memwb.valid, NEW c, c = ProfCommit(p)
  PROVE  /\ ProfFields(c)
         /\ c.now = p.now /\ c.ledger = p.ledger /\ c.pipe = p.pipe
         /\ c.ifidFc = p.ifidFc /\ c.idexFc = p.idexFc
         /\ c.fifo = Tail(p.fifo)
         /\ MarksFollow(p, c)
<1> DEFINE s == Scored(p, Committed.pc)
           v == [valid |-> TRUE, pc |-> Committed.pc, insn |-> Committed.insn,
                 fetch |-> Head(p.fifo)]
           q == [s EXCEPT !.fifo = Tail(@), !.prev = v]
           i == Committed.insn
<1>1. ProfFields(s) /\ SameCounts(p, s)  BY ScoredKeeps
<1>2. c = Marked(q, i)  BY DEF ProfCommit
<1>3. i = prog[Slot(memwb.pc)]  BY DEF Committed
<1> HIDE DEF s, v, i, q
<1>4. ASSUME NEW k, k = q
      PROVE  /\ ProfFields(k) /\ k.fifo = Tail(s.fifo)
             /\ k.now = s.now /\ k.ledger = s.ledger /\ k.pipe = s.pipe
             /\ k.ifidFc = s.ifidFc /\ k.idexFc = s.idexFc
             /\ k.stalled = s.stalled /\ k.first = s.first /\ k.last = s.last
  BY <1>1, <1>4 DEF ProfFields, q
<1>5. CASE ~IsMark(i)
  <2>1. c = q  BY <1>2, <1>5 DEF Marked, q, v
  <2> QED  BY <1>1, <1>3, <1>4, <1>5, <2>1 DEF SameCounts, MarksFollow, MarkIn
<1>6. CASE IsMark(i)
  <2>1. PICK k : k = q  OBVIOUS
  <2> DEFINE m == MarkOf(k)
  <2>2. m.set = TRUE /\ m.ledger = k.ledger /\ m.early = k.stalled + Stalled
    BY DEF MarkOf
  <2>3. c = IF k.first.set THEN [k EXCEPT !.last = m]
            ELSE [k EXCEPT !.first = m, !.last = m]
    BY <1>2, <1>6, <2>1 DEF Marked, MarkOf, q, v
  <2> HIDE DEF m
  <2>4. ProfFields(k)  BY <1>4, <2>1
  <2>5. /\ ProfFields(c)
        /\ c.now = k.now /\ c.ledger = k.ledger /\ c.pipe = k.pipe
        /\ c.ifidFc = k.ifidFc /\ c.idexFc = k.idexFc /\ c.fifo = k.fifo
        /\ c.last = m /\ c.first = IF k.first.set THEN k.first ELSE m
    <3>1. CASE k.first.set  BY <2>3, <2>4, <3>1 DEF ProfFields
    <3>2. CASE ~k.first.set  BY <2>3, <2>4, <3>2 DEF ProfFields
    <3> QED  BY <3>1, <3>2
  <2> QED
    BY <1>1, <1>3, <1>4, <1>6, <2>1, <2>2, <2>5
    DEF SameCounts, MarksFollow, MarkIn
<1> QED  BY <1>5, <1>6

(* ProfNext: what one edge makes of the profiler's state.                  *)
LEMMA ProfNext ==
  ASSUME ProfType, ProfEdge
  PROVE  /\ ProfFields(prof')
         /\ prof'.now = prof.now + 1
         /\ prof'.ledger = prof.ledger + LedgerStep(prof)
         /\ prof'.pipe[1] = prof.pipe[2] /\ prof'.pipe[2] = prof.pipe[3]
         /\ prof'.pipe[3] = N(ExRedirect)
         /\ prof'.stalled = Stalled
         /\ prof'.ifidFc = IfIdFc(prof) /\ prof'.idexFc = IdExFc(prof)
         /\ prof'.fifo = IF memwb.valid THEN Tail(FifoPushed(prof))
                         ELSE FifoPushed(prof)
         /\ \E p : /\ p.ledger = prof.ledger + LedgerStep(prof)
                   /\ p.stalled = prof.stalled
                   /\ p.first = prof.first /\ p.last = prof.last
                   /\ MarksFollow(p, prof')
<1> DEFINE shifted == [k \in 1 .. RedirDelay |->
                         IF k < RedirDelay THEN prof.pipe[k + 1]
                         ELSE N(ExRedirect)]
           step == LedgerStep(prof)
           pushed == FifoPushed(prof)
           charged == prof.redirects + prof.pipe[1]
           p == [prof EXCEPT !.now = @ + 1, !.ledger = @ + step,
                             !.redirects = charged,
                             !.pipe = shifted, !.fifo = pushed]
           c == IF memwb.valid THEN ProfCommit(p) ELSE p
           x == IdExFc(prof)
           y == IfIdFc(prof)
           z == Stalled
<1>1. prof' = [c EXCEPT !.idexFc = x, !.ifidFc = y, !.stalled = z]
  BY DEF ProfEdge
<1>2. /\ shifted[1] = prof.pipe[2] /\ shifted[2] = prof.pipe[3]
      /\ shifted[3] = N(ExRedirect)
  BY DEF RedirDelay
<1> HIDE DEF shifted, step, pushed, charged, x, y, z, p
<1>3. ASSUME NEW k, k = p
      PROVE  /\ ProfFields(k) /\ k.now = prof.now + 1
             /\ k.ledger = prof.ledger + step /\ k.pipe = shifted
             /\ k.fifo = pushed /\ k.stalled = prof.stalled
             /\ k.first = prof.first /\ k.last = prof.last
  BY <1>3 DEF ProfType, ProfFields, p
<1>4. /\ ProfFields(c) /\ c.now = p.now /\ c.ledger = p.ledger
      /\ c.pipe = p.pipe /\ c.fifo = IF memwb.valid THEN Tail(p.fifo) ELSE p.fifo
      /\ MarksFollow(p, c)
  <2>1. CASE memwb.valid
    BY <1>3, <2>1, CommitKeeps
  <2>2. CASE ~memwb.valid
    BY <1>3, <2>2 DEF MarksFollow
  <2> QED  BY <2>1, <2>2
<1> HIDE DEF c
<1>5. /\ ProfFields(prof') /\ prof'.now = c.now /\ prof'.ledger = c.ledger
      /\ prof'.pipe = c.pipe /\ prof'.fifo = c.fifo /\ prof'.stalled = z
      /\ prof'.ifidFc = y /\ prof'.idexFc = x
      /\ prof'.first = c.first /\ prof'.last = c.last
  BY <1>1, <1>4 DEF ProfFields
<1>6. MarksFollow(p, prof')  BY <1>4, <1>5 DEF MarksFollow
<1> QED
  BY <1>2, <1>3, <1>4, <1>5, <1>6 DEF shifted, step, pushed, x, y, z

-----------------------------------------------------------------------------
(* What an edge does to the occupied slots.                                *)

(* StallCounts: a stall cycle is an interlock or a multi-cycle one.        *)
LEMMA StallCounts ==
  /\ Stalled = N(ExStall) + N(IdStall /\ ~ExStall)
  /\ Stalled \in 0 .. 1
  BY DEF Stalled, N

(* OccupancyStep: the bubbles an edge makes or drains, and what leaves EX. *)
LEMMA OccupancyStep ==
  ASSUME PipelineInv, PredictsTransfers, BpEdge
  PROVE  /\ memwb'.valid = exmem.valid /\ memwb'.pc = exmem.pc
         /\ exmem'.valid = (idex.valid /\ ~ExStall /\ ~ExTrap)
         /\ exmem'.valid => exmem'.pc = idex.pc
         /\ ~ExTrap /\ ~ExMret =>
              /\ Bubbles' = Bubbles - 1 + Stalled + 2 * N(ExRedirect)
                              + N(exmem'.valid)
              /\ MarkIn(exmem)' => Bubbles' = 2 * N(ExRedirect)
<1>1. /\ TypeOK /\ prog' = prog /\ PredictedPath
      /\ idex.valid \in BOOLEAN /\ ifid.valid \in BOOLEAN
      /\ memwb'.valid = exmem.valid /\ memwb'.pc = exmem.pc
  BY EdgeKinds, ControlBits DEF PipelineInv, EveryEdge
<1>2. MarkIn(exmem)' => exmem'.valid /\ IsMark(prog[Slot(exmem'.pc)])
  BY <1>1 DEF MarkIn
<1>3. idex.valid => idex.insn = prog[Slot(idex.pc)]
  BY DEF PipelineInv, SlotsMatchProgram
<1>4. CASE ExHold
  <2>1. /\ ExStall /\ ~ExTrap /\ ~ExRedirect /\ ifid' = ifid
        /\ idex'.valid = idex.valid /\ exmem'.valid = FALSE
    BY <1>1, <1>4, StallRaisesNoTrap DEF ExHold, ExMemBubble, TypeOK
  <2>2. Bubbles' = Bubbles /\ Bubbles \in Int  BY <2>1 DEF Bubbles, Count
  <2>3. Stalled = 1 /\ N(ExRedirect) = 0 /\ N(exmem'.valid) = 0
    BY <2>1 DEF Stalled, N
  <2>4. Bubbles' = Bubbles - 1 + Stalled + 2 * N(ExRedirect) + N(exmem'.valid)
    BY <2>2, <2>3
  <2>5. ~MarkIn(exmem)'  BY <1>2, <2>1
  <2> QED  BY <1>1, <2>1, <2>4, <2>5
<1>5. CASE LoadUse
  <2>1. /\ IdStall /\ ~ExStall /\ ~ExRedirect /\ ~ExTrap /\ idex.valid
        /\ ifid.valid /\ MemRead(idex.insn) /\ exmem'.valid = TRUE
        /\ exmem'.pc = idex.pc /\ ifid' = ifid /\ idex'.valid = FALSE
    BY <1>1, <1>5 DEF LoadUse, IdStall, ExRedirect, ExMemNext, IdExBubble
  <2>2. Bubbles = 0 /\ Bubbles' = 1  BY <2>1 DEF Bubbles, Count
  <2>3. Stalled = 1 /\ N(ExRedirect) = 0 /\ N(exmem'.valid) = 1
    BY <2>1 DEF Stalled, N
  <2>4. ~IsMark(prog[Slot(exmem'.pc)])
    BY <1>3, <2>1 DEF IsMark, MemRead
  <2>5. Bubbles' = Bubbles - 1 + Stalled + 2 * N(ExRedirect) + N(exmem'.valid)
    BY <2>2, <2>3
  <2>6. ~MarkIn(exmem)'  BY <1>2, <2>4
  <2> QED  BY <1>1, <2>1, <2>5, <2>6
<1>6. CASE Flush /\ ExRedirect
  <2>1. /\ idex.valid /\ ifid.valid /\ ~ExStall
        /\ ifid'.valid = FALSE /\ idex'.valid = FALSE
    BY <1>6, RedirectOccupied DEF Flush, IdExBubble, IfIdEmpty
  <2>2. exmem' = IF ExTrap THEN ExMemBubble ELSE ExMemNext
    BY <1>6, <2>1, EdgeKinds DEF ExHold, LoadUse, Advance
  <2>3. exmem'.valid = ~ExTrap /\ (~ExTrap => exmem'.pc = idex.pc)
    BY <1>1, <2>1, <2>2 DEF ExMemBubble, ExMemNext
  <2>4. Bubbles = 0 /\ Bubbles' = 2  BY <2>1 DEF Bubbles, Count
  <2>5. N(ExRedirect) = 1  BY <1>6 DEF N
  <2>6. ASSUME ~ExTrap, ~ExMret
        PROVE  Stalled = 0
    <3>1. ExMispredict  BY <1>6, <2>6 DEF ExRedirect
    <3>2. CASE ExCtrlXfer
      <4>1. ~MemRead(idex.insn)
        BY <3>2 DEF ExCtrlXfer, CtrlXfer, IsJump, MemRead
      <4> QED  BY <2>1, <4>1 DEF Stalled, N, IdStall
    <3>3. CASE ~ExCtrlXfer
      <4>1. idex.pred.taken
        <5>1. ExCtrlXfer = FALSE  BY <3>3 DEF ExCtrlXfer
        <5>2. idex.pred.taken # FALSE
          BY <3>1, <3>3, <5>1 DEF ExMispredict
        <5> QED  BY <1>1, <5>2 DEF TypeOK
      <4>2. CM!IsTransfer(idex.insn)
        BY <1>3, <2>1, <4>1
        DEF PredictsTransfers, TakenAtTransfer, TransferAt
      <4>3. ~MemRead(idex.insn)
        BY <4>2 DEF CM!IsTransfer, CM!IsJump, MemRead
      <4> QED  BY <2>1, <4>3 DEF Stalled, N, IdStall
    <3> QED  BY <3>2, <3>3
  <2>7. ~ExTrap => N(exmem'.valid) = 1  BY <2>3 DEF N
  <2>8. ASSUME ~ExTrap, ~ExMret
        PROVE  /\ Bubbles' = Bubbles - 1 + Stalled + 2 * N(ExRedirect)
                               + N(exmem'.valid)
               /\ Bubbles' = 2 * N(ExRedirect)
    BY <2>4, <2>5, <2>6, <2>7, <2>8
  <2> QED  BY <1>1, <2>1, <2>3, <2>8
<1>7. CASE Advance(Prediction)
  <2>1. /\ ~IdStall /\ ~ExStall /\ ~ExRedirect /\ ~ExTrap
        /\ exmem'.valid = idex.valid /\ exmem'.pc = idex.pc
        /\ ifid'.valid = TRUE /\ idex'.valid = ifid.valid
    BY <1>7 DEF Advance, FrontStall, ExRedirect, ExMemNext, IdExNext
  <2>2. Bubbles' = Count(~ifid.valid)  BY <2>1 DEF Bubbles, Count
  <2>3. Bubbles = Count(~ifid.valid) + 1 - N(exmem'.valid)
    BY <1>1, <2>1 DEF Bubbles, Count, N
  <2>4. Stalled = 0 /\ N(ExRedirect) = 0  BY <2>1 DEF Stalled, N
  <2>5. idex.valid => Count(~ifid.valid) = 0
    BY <1>1 DEF PredictedPath, Count
  <2>6. Count(~ifid.valid) \in Int /\ N(exmem'.valid) \in Int
    BY DEF Count, N
  <2>7. Bubbles' = Bubbles - 1 + Stalled + 2 * N(ExRedirect) + N(exmem'.valid)
    BY <2>2, <2>3, <2>4, <2>6
  <2>8. MarkIn(exmem)' => Bubbles' = 2 * N(ExRedirect)
    BY <1>2, <2>1, <2>2, <2>4, <2>5
  <2> QED  BY <1>1, <2>1, <2>7, <2>8
<1> QED  BY <1>4, <1>5, <1>6, <1>7, EdgeKinds

(* DatesStep: every edge keeps the profiler's fetch dates in step.         *)
LEMMA DatesStep ==
  ASSUME PipelineInv, PredictsTransfers, BpEdge, ProfType, FetchDatesInStep,
         ProfEdge
  PROVE  /\ FetchDatesInStep'
         /\ prof'.ifidFc \in Int /\ prof'.idexFc \in Int
         /\ prof'.fifo \in Seq(Int)
<1>1. /\ TypeOK
      /\ idex.valid \in BOOLEAN /\ ifid.valid \in BOOLEAN
      /\ exmem.valid \in BOOLEAN /\ memwb.valid \in BOOLEAN
  BY ControlBits DEF PipelineInv
<1>2. /\ prof.now \in Nat /\ prof.ifidFc \in Int /\ prof.idexFc \in Int
      /\ prof.fifo \in Seq(Int)
      /\ (prof.ifidFc >= 0 <=> ifid.valid) /\ (prof.idexFc >= 0 <=> idex.valid)
      /\ Len(prof.fifo) = N(exmem.valid) + N(memwb.valid)
  BY DEF ProfType, FetchDatesInStep
<1>3. /\ prof'.ifidFc = IfIdFc(prof) /\ prof'.idexFc = IdExFc(prof)
      /\ prof'.fifo = IF memwb.valid THEN Tail(FifoPushed(prof))
                      ELSE FifoPushed(prof)
  BY ProfNext
<1>4. /\ memwb'.valid = exmem.valid
      /\ exmem'.valid = (idex.valid /\ ~ExStall /\ ~ExTrap)
  BY OccupancyStep
<1>5. /\ FifoPushed(prof) \in Seq(Int)
      /\ Len(FifoPushed(prof)) = Len(prof.fifo) + N(exmem'.valid)
  <2>1. prof.idexFc >= 0 <=> idex.valid  BY <1>1, <1>2
  <2>2. CASE exmem'.valid
    <3>1. FifoPushed(prof) = Append(prof.fifo, prof.idexFc)
      BY <1>4, <2>1, <2>2 DEF FifoPushed
    <3>2. N(exmem'.valid) = 1  BY <2>2 DEF N
    <3> QED  BY <1>2, <3>1, <3>2
  <2>3. CASE ~exmem'.valid
    <3>1. FifoPushed(prof) = prof.fifo
      BY <1>4, <2>1, <2>3 DEF FifoPushed
    <3>2. N(exmem'.valid) = 0  BY <2>3 DEF N
    <3> QED  BY <1>2, <3>1, <3>2
  <2> QED  BY <2>2, <2>3
<1>6. /\ prof'.fifo \in Seq(Int)
      /\ Len(prof'.fifo) = N(exmem'.valid) + N(memwb'.valid)
  <2> DEFINE f == FifoPushed(prof)
  <2>1. f \in Seq(Int) /\ Len(f) = N(exmem'.valid) + N(exmem.valid) + N(memwb.valid)
    <3>1. N(exmem'.valid) \in Nat /\ N(exmem.valid) \in Nat
          /\ N(memwb.valid) \in Nat
      BY DEF N
    <3> QED  BY <1>2, <1>5, <3>1
  <2> HIDE DEF f
  <2>2. N(exmem'.valid) \in Nat /\ N(exmem.valid) \in Nat  BY DEF N
  <2>3. CASE memwb.valid
    <3>1. N(memwb.valid) = 1  BY <2>3 DEF N
    <3>2. f # <<>>  BY <2>1, <2>2, <3>1
    <3>3. prof'.fifo = Tail(f)  BY <1>3, <2>3 DEF f
    <3>4. Tail(f) \in Seq(Int) /\ Len(Tail(f)) = Len(f) - 1
      BY <2>1, <3>2
    <3> QED  BY <1>4, <2>1, <2>2, <3>1, <3>3, <3>4
  <2>4. CASE ~memwb.valid
    <3>1. N(memwb.valid) = 0  BY <2>4 DEF N
    <3>2. prof'.fifo = f  BY <1>3, <2>4 DEF f
    <3> QED  BY <1>4, <2>1, <2>2, <3>1, <3>2
  <2> QED  BY <2>3, <2>4
<1>7. /\ prof'.ifidFc \in Int /\ (prof'.ifidFc >= 0 <=> ifid'.valid)
      /\ prof'.idexFc \in Int /\ (prof'.idexFc >= 0 <=> idex'.valid)
  <2>1. CASE ExHold
    <3>1. /\ ExStall /\ ~ExRedirect /\ ifid' = ifid /\ idex'.valid = idex.valid
      BY <1>1, <2>1, StallRaisesNoTrap DEF ExHold, TypeOK
    <3>2. prof'.ifidFc = prof.ifidFc /\ prof'.idexFc = prof.idexFc
      BY <1>3, <3>1 DEF IfIdFc, IdExFc, FrontStall
    <3> QED  BY <1>2, <3>1, <3>2
  <2>2. CASE LoadUse
    <3>1. /\ IdStall /\ ~ExStall /\ ~ExRedirect /\ ifid' = ifid
          /\ idex'.valid = FALSE
      BY <2>2 DEF LoadUse, IdExBubble
    <3>2. prof'.ifidFc = prof.ifidFc /\ prof'.idexFc = -1
      BY <1>3, <3>1 DEF IfIdFc, IdExFc, FrontStall
    <3> QED  BY <1>2, <3>1, <3>2
  <2>3. CASE Flush /\ ExRedirect
    <3>1. ~ExStall /\ ifid'.valid = FALSE /\ idex'.valid = FALSE
      BY <2>3, RedirectOccupied DEF Flush, IdExBubble, IfIdEmpty
    <3>2. prof'.ifidFc = -1 /\ prof'.idexFc = -1
      BY <1>3, <2>3, <3>1 DEF IfIdFc, IdExFc
    <3> QED  BY <3>1, <3>2
  <2>4. CASE Advance(Prediction)
    <3>1. /\ ~IdStall /\ ~ExStall /\ ~ExRedirect
          /\ ifid'.valid = TRUE /\ idex'.valid = ifid.valid
      BY <2>4 DEF Advance, FrontStall, IdExNext
    <3>2. prof'.ifidFc = prof.now + 1 /\ prof'.idexFc = prof.ifidFc
      BY <1>3, <3>1 DEF IfIdFc, IdExFc, FrontStall
    <3> QED  BY <1>2, <3>1, <3>2
  <2> QED  BY <2>1, <2>2, <2>3, <2>4, EdgeKinds
<1> QED  BY <1>6, <1>7 DEF FetchDatesInStep

(* BalanceStep: every edge before the program is left keeps the balance.   *)
LEMMA BalanceStep ==
  ASSUME PipelineInv, PredictsTransfers, BpEdge, ProfType, LedgerBalanced,
         ProfEdge, ~ExTrap, ~ExMret
  PROVE  LedgerBalanced'
<1> DEFINE p1 == prof.pipe[1]
           p2 == prof.pipe[2]
           p3 == prof.pipe[3]
           l == prof.ledger
           b == Bubbles
           s == Stalled
           r == N(ExRedirect)
           e == N(exmem.valid)
           f == N(exmem'.valid)
           w == N(memwb.valid)
<1>1. /\ p1 \in Int /\ p2 \in Int /\ p3 \in Int /\ l \in Int
      /\ prof.stalled \in Int
  BY DEF ProfType
<1>2. /\ s \in Int /\ r \in Int /\ e \in Int /\ f \in Int /\ w \in Int
      /\ b \in Int
  BY DEF Stalled, N, Bubbles, Count
<1>3. /\ prof'.ledger = l + LedgerStep(prof)
      /\ prof'.pipe[1] = p2 /\ prof'.pipe[2] = p3 /\ prof'.pipe[3] = r
      /\ prof'.stalled = s
  BY ProfNext
<1>4. LedgerStep(prof) = 1 - w - s - 2 * p1
  <2>1. N(ExStall) \in Int /\ N(IdStall /\ ~ExStall) \in Int  BY DEF N
  <2>2. s = N(ExStall) + N(IdStall /\ ~ExStall)  BY StallCounts
  <2> HIDE DEF s, w, p1
  <2>3. LedgerStep(prof)
          = 1 - w - N(ExStall) - N(IdStall /\ ~ExStall) - 2 * p1
    BY DEF LedgerStep, w, p1
  <2> QED  BY <1>1, <1>2, <2>1, <2>2, <2>3
<1>5. /\ Bubbles' = b - 1 + s + 2 * r + f
      /\ MarkIn(exmem)' => Bubbles' = 2 * r
      /\ memwb'.valid = exmem.valid /\ memwb'.pc = exmem.pc
  BY OccupancyStep
<1>6. N(memwb'.valid) = e  BY <1>5
<1>7. MarkIn(memwb)' <=> MarkIn(exmem)
  <2>1. prog' = prog  BY EdgeKinds DEF EveryEdge
  <2> QED  BY <1>5, <2>1 DEF MarkIn
<1>8. /\ l - 2 * (p1 + p2 + p3) - e - w = 2 - b
      /\ MarkIn(exmem) => b = 2 * p3
  BY DEF LedgerBalanced
<1> HIDE DEF p1, p2, p3, l, b, s, r, e, f, w
<1>9. (l + (1 - w - s - 2 * p1)) - 2 * (p2 + p3 + r) - f - e
        = 2 - (b - 1 + s + 2 * r + f)
  BY <1>1, <1>2, <1>8
<1>10. MarkIn(exmem) => f + 2 * r + s - (b - 1 + s + 2 * r + f) + 2 * p3 = 1
  BY <1>1, <1>2, <1>8
<1>11. /\ N(exmem.valid)' = f /\ N(memwb.valid)' = e
  BY <1>6 DEF f
<1> QED
  BY <1>3, <1>4, <1>5, <1>7, <1>9, <1>10, <1>11 DEF LedgerBalanced

(* MarksStep: a mark that retires does so with the same sum as the first.  *)
LEMMA MarksStep ==
  ASSUME ProfType, LedgerBalanced, MarksAgree, ProfEdge
  PROVE  MarksAgree'
<1>1. PICK p : /\ p.ledger = prof.ledger + LedgerStep(prof)
               /\ p.stalled = prof.stalled
               /\ p.first = prof.first /\ p.last = prof.last
               /\ MarksFollow(p, prof')
  BY ProfNext
<1>2. CASE MarkIn(memwb)
  <2>1. PICK m : /\ m.set = TRUE /\ m.ledger = p.ledger
                 /\ m.early = p.stalled + Stalled /\ prof'.last = m
                 /\ prof'.first = IF p.first.set THEN p.first ELSE m
    BY <1>1, <1>2 DEF MarksFollow, MarkIn
  <2>2. LedgerStep(prof) = 0 - Stalled - 2 * prof.pipe[1]
    <3>1. N(ExStall) \in Int /\ N(IdStall /\ ~ExStall) \in Int
          /\ prof.pipe[1] \in Int
      BY DEF N, ProfType
    <3>2. N(memwb.valid) = 1  BY <1>2 DEF MarkIn, N
    <3>3. LedgerStep(prof) = 1 - N(memwb.valid) - N(ExStall)
                               - N(IdStall /\ ~ExStall) - 2 * prof.pipe[1]
      BY DEF LedgerStep
    <3> QED  BY <3>1, <3>2, <3>3, StallCounts
  <2>3. /\ prof.ledger - 2 * (prof.pipe[1] + prof.pipe[2] + prof.pipe[3])
             - N(exmem.valid) - 1 = 2 - Bubbles
        /\ N(exmem.valid) + 2 * prof.pipe[3] + prof.stalled - Bubbles
             + 2 * prof.pipe[2] = 1
    <3>1. N(memwb.valid) = 1  BY <1>2 DEF MarkIn, N
    <3> QED  BY <1>2, <3>1 DEF LedgerBalanced
  <2>4. /\ prof.ledger \in Int /\ prof.stalled \in Int /\ Stalled \in Int
        /\ prof.pipe[1] \in Int /\ prof.pipe[2] \in Int /\ prof.pipe[3] \in Int
        /\ N(exmem.valid) \in Int /\ Bubbles \in Int
    BY DEF ProfType, Stalled, N, Bubbles, Count
  <2>5. AtMark(m)
    <3>1. m.ledger + m.early
            = (prof.ledger + (0 - Stalled - 2 * prof.pipe[1]))
                + (prof.stalled + Stalled)
      BY <1>1, <2>1, <2>2
    <3>2. (prof.ledger + (0 - Stalled - 2 * prof.pipe[1]))
            + (prof.stalled + Stalled) = 4
      BY <2>3, <2>4
    <3> QED  BY <3>1, <3>2 DEF AtMark
  <2>6. CASE prof.first.set = FALSE /\ prof.first = prof.last
    BY <1>1, <2>1, <2>5, <2>6 DEF MarksAgree
  <2>7. CASE prof.first.set = TRUE /\ AtMark(prof.first)
    BY <1>1, <2>1, <2>5, <2>7 DEF MarksAgree
  <2> QED  BY <2>6, <2>7 DEF MarksAgree
<1>3. CASE ~MarkIn(memwb)
  <2>1. prof'.first = prof.first /\ prof'.last = prof.last
    BY <1>1, <1>3 DEF MarksFollow, MarkIn
  <2> QED  BY <2>1 DEF MarksAgree, AtMark
<1> QED  BY <1>2, <1>3

(* ProfStart: the profiler starts balanced on the reset pipeline.          *)
LEMMA ProfStart == CheckInit => ProfInv
<1> SUFFICES ASSUME CheckInit PROVE ProfInv  OBVIOUS
<1>1. /\ idex.valid = FALSE /\ ifid.valid = FALSE /\ exmem.valid = FALSE
      /\ memwb.valid = FALSE /\ pred.taken = FALSE /\ prof = NoProf
      /\ left = FALSE /\ btbValid = [i \in BP!Idx |-> FALSE]
  BY DEF CheckInit, BpInit, Init, BP!Init, BP!NoPred, IdExBubble, IfIdEmpty,
     ExMemBubble, MemWbBubble
<1>2. PredictsTransfers
  <2>1. \A a \in Word : ~BP!Hit(a)  BY <1>1, IndexRange DEF BP!Hit
  <2> QED  BY <1>1, <2>1 DEF PredictsTransfers, TakenAtTransfer
<1>3. /\ prof.now = 0 /\ prof.ledger = 0 /\ prof.stalled = 0
      /\ prof.pipe[1] = 0 /\ prof.pipe[2] = 0 /\ prof.pipe[3] = 0
      /\ prof.ifidFc = -1 /\ prof.idexFc = -1 /\ prof.fifo = <<>>
      /\ prof.first = NoMark /\ prof.last = NoMark /\ ProfFields(prof)
  BY <1>1 DEF NoProf, RedirDelay, ProfFields
<1>4. ProfType  BY <1>3 DEF ProfType
<1>5. FetchDatesInStep  BY <1>1, <1>3 DEF FetchDatesInStep, N
<1>6. MarksAgree  BY <1>3 DEF MarksAgree, NoMark
<1>7. LedgerBalanced
  <2>1. Bubbles = 2 /\ N(exmem.valid) = 0 /\ N(memwb.valid) = 0
    BY <1>1 DEF Bubbles, Count, N
  <2> QED  BY <1>1, <1>3, <2>1 DEF LedgerBalanced, MarkIn
<1> QED  BY <1>2, <1>4, <1>5, <1>6, <1>7 DEF ProfInv

(* ProfStep: every edge preserves ProfInv.                                 *)
LEMMA ProfStep ==
  ASSUME PipelineInv, BP!TypeOK, ProfInv, CheckEdge
  PROVE  ProfInv'
<1>1. /\ PredictsTransfers /\ ProfType /\ FetchDatesInStep /\ MarksAgree
      /\ LedgerBalanced /\ BpEdge /\ ProfEdge /\ left' = (ExTrap \/ ExMret)
  BY DEF ProfInv, CheckEdge
<1>2. PredictsTransfers'  BY <1>1, PredictsStep
<1>3. /\ FetchDatesInStep' /\ prof'.ifidFc \in Int /\ prof'.idexFc \in Int
      /\ prof'.fifo \in Seq(Int)
  BY <1>1, DatesStep
<1>4. MarksAgree'  BY <1>1, MarksStep
<1>5. ~left' => LedgerBalanced'  BY <1>1, BalanceStep
<1>6. ProfType'
  <2>1. /\ ProfFields(prof') /\ prof'.now = prof.now + 1
        /\ prof'.ledger = prof.ledger + LedgerStep(prof)
        /\ prof'.pipe[1] = prof.pipe[2] /\ prof'.pipe[2] = prof.pipe[3]
        /\ prof'.pipe[3] = N(ExRedirect) /\ prof'.stalled = Stalled
    BY <1>1, ProfNext
  <2>2. LedgerStep(prof) \in Int
    <3>1. prof.pipe[1] \in Int /\ N(memwb.valid) \in Int /\ N(ExStall) \in Int
          /\ N(IdStall /\ ~ExStall) \in Int
      BY <1>1 DEF ProfType, N
    <3> QED  BY <3>1 DEF LedgerStep
  <2>3. N(ExRedirect) \in 0 .. 1 /\ Stalled \in 0 .. 1
    BY StallCounts DEF N
  <2> QED  BY <1>1, <1>3, <2>1, <2>2, <2>3 DEF ProfType
<1> QED  BY <1>2, <1>3, <1>4, <1>5, <1>6 DEF ProfInv

(* CyclesExplained: between any two marks every cycle is a retirement, a   *)
(* stall or part of a flush, but for the stalls a mark meets on its way    *)
(* out, and the fetch dates are in step with the core throughout, whatever *)
(* the latencies, the program and the sizes of the predictor's tables      *)
(* (attribute in run_stall_profile.py, tb_profile.cpp).                    *)
THEOREM CyclesExplained ==
  ASSUME PredTargets = Word
  PROVE  CheckSpec => []ResidualIsSkew
<1> DEFINE Inv == PipelineInv /\ BP!TypeOK /\ ProfInv
<1>1. CheckInit => Inv
  BY BpInitTypes, InvInit, ProfStart DEF CheckInit
<1>2. Inv /\ [CheckEdge]_checkVars => Inv'
  <2> SUFFICES ASSUME Inv, [CheckEdge]_checkVars PROVE Inv'  OBVIOUS
  <2>1. CASE CheckEdge
    <3>1. TypeOK /\ [BpNext]_bpCoreVars
      BY <2>1 DEF CheckEdge, BpNext, PipelineInv
    <3>2. [Next]_vars /\ BP!TypeOK'  BY <3>1, BpStepIsStep, BpTypeStep
    <3> QED  BY <2>1, <3>2, InvStep, ProfStep
  <2>2. CASE UNCHANGED checkVars
    <3>1. UNCHANGED bpCoreVars /\ UNCHANGED prof /\ UNCHANGED left
      BY <2>2 DEF checkVars, monVars
    <3>2. UNCHANGED vars /\ UNCHANGED bpVars
      BY <3>1 DEF bpCoreVars
    <3>3. PipelineInv'  BY <3>2, InvStep
    <3>4. BP!TypeOK'  BY <3>2 DEF bpVars, BP!TypeOK
    <3>5. ProfInv'
      BY <3>1, <3>2
      DEF vars, bpVars, ProfInv, PredictsTransfers, TakenAtTransfer,
          TransferAt, ProfType, ProfFields, FetchDatesInStep, MarksAgree,
          AtMark, LedgerBalanced, MarkIn, IsMark, Bubbles, BP!Hit,
          BP!IndexOf, BP!TagOf, CM!IsTransfer, CM!IsJump
    <3> QED  BY <3>3, <3>4, <3>5
  <2> QED  BY <2>1, <2>2
<1>3. Inv => ResidualIsSkew
  BY DEF ProfInv, MarksAgree, AtMark, ResidualIsSkew
<1> QED  BY <1>1, <1>2, <1>3, PTL DEF CheckSpec
=============================================================================
