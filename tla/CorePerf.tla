------------------------------ MODULE CorePerf ------------------------------
(***************************************************************************)
(* The performance events of the core and the accounting built on them.    *)
(* Each edge raises the events of hpm_event_c; mcycle advances on every    *)
(* edge and minstret when an instruction leaves EX without trapping.  Only *)
(* differences between the counts matter to the identities the counters    *)
(* are documented to satisfy, so the model keeps one difference:           *)
(*                                                                         *)
(*   ledger     mcycle less every cycle the core can account for          *)
(*   gap        edges since an instruction last left EX                    *)
(***************************************************************************)
EXTENDS CoreProps

VARIABLES ledger, gap

perfVars == <<ledger, gap>>

\* hpm_event_c, and the two counters the identity is stated over.
EvLoadUse    == IdStall /\ ~ExStall
EvExStall    == ExStall
EvRedirect   == ExRedirect
EvMispredict == ~ExStall /\ ExMispredict
InstretBump  == idex.valid /\ ~ExTrap /\ ~ExStall

Count(event) == IF event THEN 1 ELSE 0

PerfInit == Init /\ ledger = 0 /\ gap = 0

\* What the documented identity adds up on one edge.
Documented == Count(InstretBump) + Count(EvLoadUse) + Count(EvExStall)
                + 2 * Count(EvRedirect)

PerfClock ==
  /\ Clock
  /\ ledger' = ledger + 1 - Documented - Count(ExTrap)
                + Count(EvLoadUse /\ EvRedirect)
  /\ gap' = IF idex.valid /\ ~ExStall THEN 0 ELSE gap + 1

PerfReset == Reset /\ ledger' = 0 /\ gap' = 0

PerfNext == PerfClock \/ PerfReset

PerfSpec == PerfInit /\ [][PerfNext]_<<vars, perfVars>>
                     /\ WF_<<vars, perfVars>>(PerfClock)

\* Slots of the front end that hold no instruction.
Bubbles == Count(~idex.valid) + Count(~ifid.valid)

(* CycleIdentity: every cycle is accounted for.  Cycles are instructions   *)
(* retired or trapped, plus interlock and multi-cycle stall cycles, plus   *)
(* two per redirect -- an interlock cycle that a redirect overrides is     *)
(* counted by its event but costs nothing -- plus the two-cycle fill, less *)
(* the bubbles that have been charged for and not yet drained (hpm_event_c *)
(* and minstret in rvntt_core).                                            *)
CycleIdentity == ledger = 2 - Bubbles

(* BoundedGap: between two instructions leaving EX there are never more    *)
(* edges than a flush and the longest occupancy of EX account for: no      *)
(* sequence of stalls and redirects adds up to more (ex_stall, id_stall    *)
(* and ex_redirect in rvntt_core).                                         *)
LongestOccupancy == IF MulCycles > DivCycles THEN MulCycles ELSE DivCycles
BoundedGap == gap <= 2 + (LongestOccupancy - 1)

\* How far the gap can have grown, by what the front of the pipeline holds: a
\* flush empties both slots, an edge fills each, and a multi-cycle instruction
\* then adds its count.  Inductive together with PipelineInv.
GapInv ==
  /\ gap \in Nat
  /\ ~idex.valid => gap <= 1
  /\ ~idex.valid /\ ~ifid.valid => gap = 0
  /\ ~md.active => gap <= 2
  /\ md.active => /\ md.cnt \in 1 .. MdTarget
                  /\ gap <= 2 + md.cnt

(* DocCycleIdentity: as the package states it, the events close the        *)
(* identity mcycle = minstret + load-use + multi-cycle EX + 2 x redirects. *)
(* An edge is one cycle; it may differ from what the edge counts only by   *)
(* the bubbles it creates or drains.                                       *)
DocCycleIdentity == [][1 = Documented - (Bubbles' - Bubbles)]_<<vars, perfVars>>

(* DocTrapTerm: as a comment in rvntt_core states it, REDIRECT minus       *)
(* MISPREDICT is the trap-and-MRET term.                                   *)
DocTrapTerm == Count(EvRedirect) - Count(EvMispredict) = Count(ExTrap \/ ExMret)

(* DocNoRedirectWithStall: as a comment at the pc mux states it, a         *)
(* redirect and a stall cannot coincide.                                   *)
DocNoRedirectWithStall == ~(ExRedirect /\ FrontStall)
=============================================================================
