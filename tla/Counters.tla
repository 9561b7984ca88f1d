------------------------------ MODULE Counters ------------------------------
(***************************************************************************)
(* The counters of rvntt_csr, a clock cycle per step: mcycle, minstret and *)
(* the event counters with their selectors, the inhibit register and the   *)
(* registered masks, behind the registered event bus of rvntt_core.  A     *)
(* counter is two halves of Half values each; an event is named by the     *)
(* selector value that chooses it.                                         *)
(***************************************************************************)
EXTENDS Integers

CONSTANTS
  Counters, Hpms,      \* those looked at, the event counters among them
  Half,                \* 2^32
  Events, Selectors    \* the events there are, and what software may write

VARIABLES
  count,       \* mcycle_q, minstret_q, mhpmcounter_q
  sel,         \* mhpmevent_q; 0 is HPM_EV_NONE
  inhibit,     \* the counters mcountinhibit stops
  watch,       \* hpm_watch_q
  bus,         \* hpm_event_q
  words        \* history: the two halves as software should find them

NoOp == [csr |-> "none"]

\* What the CSR instruction in EX writes, if it commits.
Ops == {NoOp}
       \cup [csr : Counters, half : {"lo", "hi"}, data : 0 .. Half - 1]
       \cup [csr : {"mhpmevent"}, hpm : Hpms, data : Selectors]
       \cup [csr : {"mcountinhibit"}, data : SUBSET Counters]

\* What else a cycle brings: event 1 is a multi-cycle stall, in which nothing
\* retires; event 2 a redirect, in the cycle of a CSR write too if that was
\* fetched under a prediction.
Cycles(op) ==
  IF op = NoOp THEN {c \in [event : SUBSET Events, retires : BOOLEAN] :
                       c.event \in {{}, {1}, {2}} /\ (c.retires => 1 \notin c.event)}
  ELSE [event : {{}, {2}}, retires : {TRUE}]

Init ==
  /\ count = [c \in Counters |-> 0] /\ sel = [h \in Hpms |-> 0] /\ inhibit = {}
  /\ watch = [h \in Hpms |-> {}] /\ bus = {}
  /\ words = [c \in Counters |-> [lo |-> 0, hi |-> 0]]

-----------------------------------------------------------------------------
\* The selector is WARL.
Selects(op, h) == op.csr = "mhpmevent" /\ op.hpm = h /\ op.data \in Events \cup {0}
SelNext(op) == [h \in Hpms |-> IF Selects(op, h) THEN op.data ELSE sel[h]]
InhibitNext(op) == IF op.csr = "mcountinhibit" THEN op.data ELSE inhibit

HpmMask(event, inhibited) == IF inhibited THEN {} ELSE {event} \cap Events
MaskForgetsInhibit(op, h) ==                                   \* fault
  CASE Selects(op, h)             -> HpmMask(op.data, FALSE)
    [] op.csr = "mcountinhibit" -> HpmMask(sel[h], h \in op.data)
    [] OTHER                      -> watch[h]
MaskNext(op, h) ==
  CASE Selects(op, h)             -> HpmMask(op.data, h \in inhibit)
    [] op.csr = "mcountinhibit" -> HpmMask(sel[h], h \in op.data)
    [] OTHER                      -> watch[h]

LowWritten(op, c) == op.csr = c /\ op.half = "lo"              \* fault
Written(op, c) == op.csr = c

Bumped(c, op, retires) ==
  CASE c = "mcycle"   -> c \notin inhibit
    [] c = "minstret" -> retires /\ ~Written(op, c) /\ c \notin inhibit
    [] c \in Hpms     -> watch[c] \cap bus # {} /\ ~Written(op, c)

\* The partial assignment of a write follows the increment.
CountNext(c, op, retires) ==
  LET n == (count[c] + (IF Bumped(c, op, retires) THEN 1 ELSE 0)) % (Half * Half)
  IN  CASE op.csr # c                    -> n
        [] op.csr = c /\ op.half = "lo" -> (Half * (n \div Half)) + op.data
        [] op.csr = c /\ op.half = "hi" -> (Half * op.data) + (n % Half)

-----------------------------------------------------------------------------
\* Is the clock, the retiring instruction or the event of the last cycle
\* counted?  Looked up in the selectors, with no mask.
Due(c, retires) ==
  /\ c \notin inhibit
  /\ c = "minstret" => retires
  /\ c \in Hpms => sel[c] \in bus

Add(w) == IF w.lo < Half - 1 THEN [w EXCEPT !.lo = @ + 1]
          ELSE [lo |-> 0, hi |-> (w.hi + 1) % Half]

WordsNext(c, op, retires) ==
  LET up == IF Due(c, retires) THEN Add(words[c]) ELSE words[c]
  IN  CASE op.csr # c                   -> up
        [] op.csr = c /\ c = "mcycle" -> [up EXCEPT ![op.half] = op.data]
        [] OTHER                        -> [words[c] EXCEPT ![op.half] = op.data]

Clock(op, cycle) ==
  /\ count' = [c \in Counters |-> CountNext(c, op, cycle.retires)]
  /\ words' = [c \in Counters |-> WordsNext(c, op, cycle.retires)]
  /\ sel' = SelNext(op) /\ inhibit' = InhibitNext(op)
  /\ watch' = [h \in Hpms |-> MaskNext(op, h)]
  /\ bus' = cycle.event

Next == \E op \in Ops : \E cycle \in Cycles(op) : Clock(op, cycle)

-----------------------------------------------------------------------------
(* CountsInOrder: an event is counted once, a cycle late, under the        *)
(* selection and the inhibition in force in the cycle after it; a write of *)
(* one half replaces the count due in its cycle and leaves the other half  *)
(* alone, but for mcycle, whose carry goes on (rvntt_csr's masks,          *)
(* "identical to the mux" they replace, and its partial assignments).      *)
CountsInOrder ==
  \A c \in Counters : count[c] = words[c].hi * Half + words[c].lo
=============================================================================
