----------------------------- MODULE UnitProofs -----------------------------
(***************************************************************************)
(* The units behind the CSRs, as CsrUnits runs them, each for every value  *)
(* of its constants.                                                       *)
(*   C   the counters of rvntt_csr                                         *)
(*   S   the seed CSR with its health tests                                *)
(***************************************************************************)
EXTENDS CsrUnits, FiniteSets, FiniteSetTheorems, SequenceTheorems, TLAPS

(* OneUnit: a step is a step of the unit chosen at the start.              *)
LEMMA OneUnit ==
  ASSUME [CsrNext]_csrVars
  PROVE  /\ unit' = unit
         /\ unit = "counters" => [C!Next]_countVars
         /\ unit = "seed" => [S!Next]_seedVars
BY DEF CsrNext, NextCount, NextSeed, csrVars

-----------------------------------------------------------------------------
(* The counters.                                                           *)

\* As in the hardware: mcycle, minstret and event counters, of two halves; 0
\* selects no event.
CountersAssumption ==
  /\ Half \in Nat \ {0} /\ 0 \notin Events /\ {1, 2} \subseteq Events
  /\ Hpms \subseteq Counters /\ Counters \subseteq {"mcycle", "minstret"} \cup Hpms
  /\ "mcycle" \notin Hpms /\ "minstret" \notin Hpms
  /\ \A name \in {"none", "mhpmevent", "mcountinhibit"} : name \notin Counters

HalfWord == 0 .. Half - 1

\* Inductive: the registered masks are the multiplexers they replace.
CountInv ==
  /\ \A c \in Counters :
       /\ words[c] = [lo |-> words[c].lo, hi |-> words[c].hi]
       /\ words[c].lo \in HalfWord /\ words[c].hi \in HalfWord
       /\ count[c] = words[c].hi * Half + words[c].lo
  /\ bus \subseteq Events
  /\ \A h \in Hpms : watch[h] = C!HpmMask(sel[h], h \in inhibit)

(* Halves: a count of two halves is taken apart by division.               *)
LEMMA Halves ==
  ASSUME NEW n \in Nat \ {0}, NEW hi \in Nat, NEW lo \in 0 .. n - 1,
         NEW x, x = (hi * n) + lo
  PROVE  x \div n = hi /\ x % n = lo
<1>1. x \in Nat
  <2>1. hi * n \in Nat  OBVIOUS
  <2> QED  BY <2>1
<1>2. x \div n \in Nat /\ x % n \in 0 .. n - 1  BY <1>1
<1>3. x = (n * (x \div n)) + (x % n)  BY <1>1
<1> DEFINE q == x \div n
           r == x % n
<1>4. q \in Nat /\ r \in 0 .. n - 1 /\ (n * q) + r = (n * hi) + lo
  BY <1>2, <1>3
<1> HIDE DEF q, r
<1>5. q = hi
  <2>1. CASE q < hi
    <3>1. PICK d \in Nat : hi = q + 1 + d  BY <1>4, <2>1
    <3>2. n * hi = (n * q) + n + (n * d)  BY <1>4, <3>1
    <3>3. n * d >= 0  BY <3>1
    <3>4. n * q \in Int /\ n * hi \in Int /\ n * d \in Int  BY <1>4, <3>1
    <3> QED  BY <1>4, <3>2, <3>3, <3>4
  <2>2. CASE hi < q
    <3>1. PICK d \in Nat : q = hi + 1 + d  BY <1>4, <2>2
    <3>2. n * q = (n * hi) + n + (n * d)  BY <1>4, <3>1
    <3>3. n * d >= 0  BY <3>1
    <3>4. n * q \in Int /\ n * hi \in Int /\ n * d \in Int  BY <1>4, <3>1
    <3> QED  BY <1>4, <3>2, <3>3, <3>4
  <2> QED  BY <1>4, <2>1, <2>2
<1>6. r = lo
  <2>1. n * q = n * hi  BY <1>5
  <2>2. n * q \in Int /\ n * hi \in Int  BY <1>4
  <2> QED  BY <1>4, <2>1, <2>2
<1> QED  BY <1>5, <1>6 DEF q, r

(* OneMore: counting the pair of halves is counting the number.            *)
LEMMA OneMore ==
  ASSUME NEW n \in Nat \ {0}, NEW hi \in 0 .. n - 1, NEW lo \in 0 .. n - 1,
         NEW x, x = (hi * n) + lo
  PROVE  /\ x % (n * n) = x
         /\ lo < n - 1 => (x + 1) % (n * n) = (hi * n) + (lo + 1)
         /\ lo = n - 1 => (x + 1) % (n * n) = ((hi + 1) % n) * n
<1>1. n * n \in Nat \ {0} /\ hi * n \in Nat  OBVIOUS
<1>2. hi * n <= (n * n) - n
  <2>1. PICK d \in Nat : n = hi + 1 + d  OBVIOUS
  <2>2. n * n = (hi * n) + n + (d * n)  BY <2>1
  <2>3. d * n \in Nat  BY <2>1
  <2> QED  BY <1>1, <2>2, <2>3
<1>3. x \in 0 .. (n * n) - 1  BY <1>1, <1>2
<1> DEFINE m == n * n
<1>4. m \in Nat \ {0} /\ x \in 0 .. m - 1  BY <1>1, <1>3
<1>5. x % m = x
  <2> HIDE DEF m
  <2> QED  BY <1>4
<1>6. ASSUME lo < n - 1  PROVE (x + 1) % m = (hi * n) + (lo + 1)
  <2>1. x + 1 \in 0 .. m - 1  BY <1>1, <1>2, <1>6
  <2> HIDE DEF m
  <2>2. (x + 1) % m = x + 1  BY <1>4, <2>1
  <2> QED  BY <1>1, <2>2
<1>7. ASSUME lo = n - 1  PROVE (x + 1) % m = ((hi + 1) % n) * n
  <2>1. x + 1 = (hi + 1) * n  BY <1>7
  <2>2. CASE hi = n - 1
    <3>1. x + 1 = m  BY <2>1, <2>2
    <3>2. (hi + 1) % n = 0  BY <2>2
    <3> HIDE DEF m
    <3>3. (x + 1) % m = 0  BY <1>4, <3>1
    <3> QED  BY <3>2, <3>3
  <2>3. CASE hi < n - 1
    <3>1. (hi + 1) % n = hi + 1  BY <2>3
    <3>2. (hi + 1) * n = (hi * n) + n  OBVIOUS
    <3>3. x + 1 \in 0 .. m - 1
      <4>1. PICK d \in Nat : n = hi + 2 + d  BY <2>3
      <4>2. n * n = (hi * n) + (2 * n) + (d * n)  BY <4>1
      <4>3. d * n \in Nat  BY <4>1
      <4> QED  BY <1>1, <2>1, <3>2, <4>2, <4>3
    <3> HIDE DEF m
    <3>4. (x + 1) % m = x + 1  BY <1>4, <3>3
    <3> QED  BY <2>1, <3>1, <3>4
  <2> QED  BY <2>2, <2>3
<1> QED  BY <1>5, <1>6, <1>7 DEF m

(* WrittenOp: a write of a counter names a half and its value.             *)
LEMMA WrittenOp ==
  ASSUME CountersAssumption, NEW op \in C!Ops, NEW c \in Counters, op.csr = c
  PROVE  op.half \in {"lo", "hi"} /\ op.data \in HalfWord
<1>1. c \notin {"none", "mhpmevent", "mcountinhibit"}
  BY DEF CountersAssumption
<1>2. CASE op \in [csr : Counters, half : {"lo", "hi"}, data : 0 .. Half - 1]
  BY <1>2 DEF HalfWord
<1>3. CASE op = C!NoOp  BY <1>1, <1>3 DEF C!NoOp
<1>4. CASE op \in [csr : {"mhpmevent"}, hpm : Hpms, data : Selectors]
  BY <1>1, <1>4
<1>5. CASE op \in [csr : {"mcountinhibit"}, data : SUBSET Counters]
  BY <1>1, <1>5
<1> QED  BY <1>2, <1>3, <1>4, <1>5 DEF C!Ops

(* MaskIsMux: a counter is bumped when the event, the clock or the         *)
(* retirement is due, unless it is being written; mcycle is bumped anyway. *)
LEMMA MaskIsMux ==
  ASSUME CountersAssumption, CountInv, NEW c \in Counters, NEW op,
         NEW retires \in BOOLEAN
  PROVE  C!Bumped(c, op, retires) <=>
           C!Due(c, retires) /\ (c # "mcycle" => op.csr # c)
<1>1. c \in {"mcycle", "minstret"} \cup Hpms
      /\ "mcycle" \notin Hpms /\ "minstret" \notin Hpms
  BY DEF CountersAssumption
<1>2. CASE c = "mcycle"
  <2>1. C!Bumped(c, op, retires) <=> c \notin inhibit
    BY <1>1, <1>2, Zenon DEF C!Bumped
  <2> QED  BY <1>1, <1>2, <2>1 DEF C!Due
<1>3. CASE c = "minstret"
  <2>1. C!Bumped(c, op, retires) <=>
          retires /\ ~C!Written(op, c) /\ c \notin inhibit
    <3>1. c # "mcycle" /\ c \notin Hpms  BY <1>1, <1>3
    <3> QED  BY <1>3, <3>1, Zenon DEF C!Bumped
  <2> QED  BY <1>1, <1>3, <2>1 DEF C!Due, C!Written
<1>4. CASE c \in Hpms
  <2>1. c # "mcycle" /\ c # "minstret"  BY <1>1, <1>4
  <2>2. C!Bumped(c, op, retires) <=>
          watch[c] \cap bus # {} /\ ~C!Written(op, c)
    BY <1>4, <2>1 DEF C!Bumped
  <2>3. watch[c] = C!HpmMask(sel[c], c \in inhibit) /\ bus \subseteq Events
    BY <1>4 DEF CountInv
  <2>4. watch[c] \cap bus # {} <=> c \notin inhibit /\ sel[c] \in bus
    <3>1. CASE c \in inhibit
      <4>1. watch[c] = {}  BY <2>3, <3>1 DEF C!HpmMask
      <4> QED  BY <3>1, <4>1
    <3>2. CASE c \notin inhibit
      <4>1. watch[c] = {sel[c]} \cap Events  BY <2>3, <3>2 DEF C!HpmMask
      <4> QED  BY <2>3, <3>2, <4>1
    <3> QED  BY <3>1, <3>2
  <2> QED  BY <1>4, <2>1, <2>2, <2>4 DEF C!Due, C!Written
<1> QED  BY <1>1, <1>2, <1>3, <1>4

(* Added: the pair of halves, and the number they stand for, counted on.   *)
LEMMA Added ==
  ASSUME CountersAssumption, CountInv, NEW c \in Counters, NEW due \in BOOLEAN
  PROVE  LET up == IF due THEN C!Add(words[c]) ELSE words[c]
             n  == (count[c] + (IF due THEN 1 ELSE 0)) % (Half * Half)
         IN  /\ up = [lo |-> up.lo, hi |-> up.hi]
             /\ up.lo \in HalfWord /\ up.hi \in HalfWord
             /\ n = (up.hi * Half) + up.lo
<1> DEFINE w == words[c]
           lo == words[c].lo
           hi == words[c].hi
<1>1. /\ Half \in Nat \ {0} /\ w = [lo |-> lo, hi |-> hi]
      /\ lo \in 0 .. Half - 1 /\ hi \in 0 .. Half - 1
      /\ count[c] = (hi * Half) + lo
  BY DEF CountersAssumption, CountInv, HalfWord
<1> DEFINE x == count[c]
<1>2. x \in Nat
  <2> HIDE DEF hi, lo
  <2>1. hi * Half \in Nat  BY <1>1
  <2> QED  BY <1>1, <2>1
<1>3. /\ x % (Half * Half) = x
      /\ lo < Half - 1 => (x + 1) % (Half * Half) = (hi * Half) + (lo + 1)
      /\ lo = Half - 1 => (x + 1) % (Half * Half) = ((hi + 1) % Half) * Half
  <2> HIDE DEF x, hi, lo
  <2>1. x = (hi * Half) + lo  BY <1>1 DEF x
  <2>2. hi \in 0 .. Half - 1 /\ lo \in 0 .. Half - 1 /\ Half \in Nat \ {0}  BY <1>1
  <2> QED  BY <2>1, <2>2, OneMore, SMTT(60)
<1>4. C!Add(w) = IF lo < Half - 1 THEN [w EXCEPT !.lo = @ + 1]
                 ELSE [lo |-> 0, hi |-> (hi + 1) % Half]
  BY DEF C!Add
<1> HIDE DEF w, lo, hi, x
<1>5. CASE ~due
  <2>1. x + 0 = x  BY <1>2
  <2> QED  BY <1>1, <1>3, <1>5, <2>1 DEF w, lo, hi, x, HalfWord
<1>6. CASE due /\ lo < Half - 1
  <2>1. C!Add(w) = [lo |-> lo + 1, hi |-> hi]
    <3>1. C!Add(w) = [w EXCEPT !.lo = @ + 1]  BY <1>4, <1>6
    <3> QED  BY <1>1, <3>1
  <2>2. lo + 1 \in 0 .. Half - 1  BY <1>1, <1>6
  <2> QED  BY <1>1, <1>3, <1>6, <2>1, <2>2 DEF w, x, HalfWord
<1>7. CASE due /\ lo = Half - 1
  <2>1. C!Add(w) = [lo |-> 0, hi |-> (hi + 1) % Half]  BY <1>1, <1>4, <1>7
  <2>2. (hi + 1) % Half \in 0 .. Half - 1 /\ 0 \in 0 .. Half - 1  BY <1>1
  <2>3. ((hi + 1) % Half) * Half \in Nat  BY <1>1, <2>2
  <2>4. ((hi + 1) % Half) * Half = (((hi + 1) % Half) * Half) + 0  BY <2>3
  <2> DEFINE h == (hi + 1) % Half
  <2>5. h \in 0 .. Half - 1 /\ (x + 1) % (Half * Half) = (h * Half) + 0
    BY <1>3, <1>7, <2>2, <2>4
  <2>6. C!Add(w) = [lo |-> 0, hi |-> h]  BY <2>1
  <2> HIDE DEF h
  <2> QED  BY <1>7, <2>2, <2>5, <2>6 DEF w, x, HalfWord
<1> QED  BY <1>1, <1>5, <1>6, <1>7

(* CountedOn: a cycle keeps a counter and its two halves one number.       *)
LEMMA CountedOn ==
  ASSUME CountersAssumption, CountInv, NEW op \in C!Ops,
         NEW retires \in BOOLEAN, NEW c \in Counters
  PROVE  LET w == C!WordsNext(c, op, retires)
         IN  /\ w = [lo |-> w.lo, hi |-> w.hi]
             /\ w.lo \in HalfWord /\ w.hi \in HalfWord
             /\ C!CountNext(c, op, retires) = (w.hi * Half) + w.lo
<1> DEFINE due == C!Due(c, retires)
           bumped == due /\ (c # "mcycle" => op.csr # c)
           up == IF due THEN C!Add(words[c]) ELSE words[c]
           n == (count[c] + (IF bumped THEN 1 ELSE 0)) % (Half * Half)
           base == IF bumped THEN C!Add(words[c]) ELSE words[c]
           w == C!WordsNext(c, op, retires)
           v == C!CountNext(c, op, retires)
<1>1. (IF C!Bumped(c, op, retires) THEN 1 ELSE 0) = IF bumped THEN 1 ELSE 0
  BY MaskIsMux
<1>2. bumped \in BOOLEAN  OBVIOUS
<1>3. /\ base = [lo |-> base.lo, hi |-> base.hi]
      /\ base.lo \in HalfWord /\ base.hi \in HalfWord
      /\ n = (base.hi * Half) + base.lo
  <2> HIDE DEF bumped
  <2> QED  BY <1>2, Added
<1>4. /\ op.csr # c => v = n
      /\ op.csr = c /\ op.half = "lo" => v = (Half * (n \div Half)) + op.data
      /\ op.csr = c /\ op.half = "hi" => v = (Half * op.data) + (n % Half)
  <2>1. v = CASE op.csr # c                   -> n
              [] op.csr = c /\ op.half = "lo" -> (Half * (n \div Half)) + op.data
              [] op.csr = c /\ op.half = "hi" -> (Half * op.data) + (n % Half)
    BY <1>1 DEF C!CountNext
  <2> HIDE DEF v, n
  <2>2. op.csr # c => v = n  BY <2>1
  <2>3. op.csr = c /\ op.half = "lo" => v = (Half * (n \div Half)) + op.data
    BY <2>1
  <2>4. op.csr = c /\ op.half = "hi" => v = (Half * op.data) + (n % Half)
    BY <2>1
  <2> QED  BY <2>2, <2>3, <2>4
<1>5. /\ op.csr # c => w = up
      /\ op.csr = c /\ c = "mcycle" => w = [up EXCEPT ![op.half] = op.data]
      /\ op.csr = c /\ c # "mcycle" => w = [words[c] EXCEPT ![op.half] = op.data]
  <2>1. w = CASE op.csr # c                  -> up
              [] op.csr = c /\ c = "mcycle" -> [up EXCEPT ![op.half] = op.data]
              [] OTHER -> [words[c] EXCEPT ![op.half] = op.data]
    BY DEF C!WordsNext
  <2> HIDE DEF w, up
  <2>2. op.csr # c => w = up  BY <2>1
  <2>3. op.csr = c /\ c = "mcycle" => w = [up EXCEPT ![op.half] = op.data]
    BY <2>1
  <2>4. op.csr = c /\ c # "mcycle" => w = [words[c] EXCEPT ![op.half] = op.data]
    BY <2>1
  <2> QED  BY <2>2, <2>3, <2>4
<1>6. Half \in Nat \ {0}  BY DEF CountersAssumption
<1>7. CASE op.csr # c
  <2>1. base = up  BY <1>7
  <2> HIDE DEF base, up, n, v, w
  <2> QED  BY <1>3, <1>4, <1>5, <1>7, <2>1 DEF v, w
<1>8. CASE op.csr = c
  <2>1. op.half \in {"lo", "hi"} /\ op.data \in HalfWord  BY <1>8, WrittenOp
  <2>2. w = [base EXCEPT ![op.half] = op.data]
    <3>1. CASE c = "mcycle"
      <4>1. base = up  BY <3>1
      <4> QED  BY <1>5, <1>8, <3>1, <4>1
    <3>2. CASE c # "mcycle"
      <4>1. base = words[c]  BY <1>8, <3>2
      <4> QED  BY <1>5, <1>8, <3>2, <4>1
    <3> QED  BY <3>1, <3>2
  <2> DEFINE hi == base.hi
             lo == base.lo
             data == op.data
  <2> HIDE DEF base, n, v, w
  <2>3. /\ base = [lo |-> lo, hi |-> hi] /\ lo \in HalfWord /\ hi \in HalfWord
        /\ n = (hi * Half) + lo /\ data \in HalfWord
    BY <1>3, <2>1
  <2> HIDE DEF hi, lo
  <2>4. lo \in 0 .. Half - 1 /\ hi \in Nat /\ hi \in Int /\ data \in Nat
    BY <1>6, <2>3 DEF HalfWord
  <2>5. n \div Half = hi /\ n % Half = lo
    BY <1>6, <2>3, <2>4, Halves
  <2>6. CASE op.half = "lo"
    <3>1. w = [base EXCEPT !.lo = data]  BY <2>2, <2>6
    <3>2. w = [lo |-> data, hi |-> hi]  BY <2>3, <3>1
    <3>3. v = (Half * hi) + data  BY <1>4, <1>8, <2>5, <2>6
    <3>4. Half * hi = hi * Half  BY <1>6, <2>4
    <3> QED  BY <2>3, <3>2, <3>3, <3>4 DEF v, w
  <2>7. CASE op.half = "hi"
    <3>1. w = [base EXCEPT !.hi = data]  BY <2>2, <2>7
    <3>2. w = [lo |-> lo, hi |-> data]  BY <2>3, <3>1
    <3>3. v = (Half * data) + lo  BY <1>4, <1>8, <2>5, <2>7
    <3>4. Half * data = data * Half  BY <1>6, <2>4
    <3> QED  BY <2>3, <3>2, <3>3, <3>4 DEF v, w
  <2> QED  BY <2>1, <2>6, <2>7
<1> QED  BY <1>7, <1>8

(* CountStep: every cycle keeps the counters, and the masks those of the   *)
(* selectors and the inhibit register.                                     *)
LEMMA CountStep ==
  ASSUME CountersAssumption, CountInv, NEW op \in C!Ops,
         NEW cycle \in C!Cycles(op), C!Clock(op, cycle)
  PROVE  CountInv'
<1>1. cycle.retires \in BOOLEAN /\ cycle.event \subseteq Events
  <2>1. CASE op = C!NoOp
    BY <2>1 DEF C!Cycles, CountersAssumption
  <2>2. CASE op # C!NoOp
    BY <2>2 DEF C!Cycles, CountersAssumption
  <2> QED  BY <2>1, <2>2
<1>2. ASSUME NEW c \in Counters
      PROVE  /\ words'[c] = [lo |-> words'[c].lo, hi |-> words'[c].hi]
             /\ words'[c].lo \in HalfWord /\ words'[c].hi \in HalfWord
             /\ count'[c] = words'[c].hi * Half + words'[c].lo
  <2>1. /\ count'[c] = C!CountNext(c, op, cycle.retires)
        /\ words'[c] = C!WordsNext(c, op, cycle.retires)
    BY DEF C!Clock
  <2> QED  BY <1>1, <2>1, CountedOn
<1>3. bus' \subseteq Events  BY <1>1 DEF C!Clock
<1>4. ASSUME NEW h \in Hpms
      PROVE  watch'[h] = C!HpmMask(sel'[h], h \in inhibit')
  <2>1. /\ watch'[h] = C!MaskNext(op, h)
        /\ sel'[h] = IF C!Selects(op, h) THEN op.data ELSE sel[h]
        /\ inhibit' = IF op.csr = "mcountinhibit" THEN op.data ELSE inhibit
    BY DEF C!Clock, C!SelNext, C!InhibitNext
  <2>2. watch[h] = C!HpmMask(sel[h], h \in inhibit)  BY DEF CountInv
  <2>3. C!Selects(op, h) => op.csr = "mhpmevent"  BY DEF C!Selects
  <2>4. CASE C!Selects(op, h)
    <3>1. op.csr # "mcountinhibit"  BY <2>3, <2>4
    <3>2. C!MaskNext(op, h) = C!HpmMask(op.data, h \in inhibit)
      BY <2>4, <3>1, Zenon DEF C!MaskNext
    <3> QED  BY <2>1, <2>4, <3>1, <3>2
  <2>5. CASE op.csr = "mcountinhibit"
    <3>1. ~C!Selects(op, h)  BY <2>3, <2>5
    <3>2. C!MaskNext(op, h) = C!HpmMask(sel[h], h \in op.data)
      BY <2>5, <3>1, Zenon DEF C!MaskNext
    <3> QED  BY <2>1, <2>5, <3>1, <3>2
  <2>6. CASE ~C!Selects(op, h) /\ op.csr # "mcountinhibit"
    <3>1. C!MaskNext(op, h) = watch[h]
      BY <2>6, Zenon DEF C!MaskNext
    <3> QED  BY <2>1, <2>2, <2>6, <3>1
  <2> QED  BY <2>4, <2>5, <2>6
<1> QED  BY <1>2, <1>3, <1>4 DEF CountInv

\* The variables of the counters.
(* CountKept: CountInv is inductive.                                       *)
LEMMA CountKept ==
  ASSUME CountersAssumption
  PROVE  /\ C!Init => CountInv
         /\ CountInv /\ [C!Next]_countVars => CountInv'
<1>1. C!Init => CountInv
  <2> SUFFICES ASSUME C!Init  PROVE CountInv  OBVIOUS
  <2>1. Half \in Nat \ {0} /\ 0 \notin Events  BY DEF CountersAssumption
  <2>2. \A c \in Counters : count[c] = 0 /\ words[c] = [lo |-> 0, hi |-> 0]
    BY DEF C!Init
  <2>3. 0 \in HalfWord /\ 0 * Half + 0 = 0  BY <2>1 DEF HalfWord
  <2>4. \A h \in Hpms : sel[h] = 0 /\ watch[h] = {}  BY DEF C!Init
  <2>5. \A b : C!HpmMask(0, b) = {}  BY <2>1 DEF C!HpmMask
  <2>6. bus \subseteq Events  BY DEF C!Init
  <2>7. \A c \in Counters :
          /\ words[c] = [lo |-> words[c].lo, hi |-> words[c].hi]
          /\ words[c].lo \in HalfWord /\ words[c].hi \in HalfWord
          /\ count[c] = words[c].hi * Half + words[c].lo
    <3> SUFFICES ASSUME NEW c \in Counters
                 PROVE  /\ words[c] = [lo |-> words[c].lo, hi |-> words[c].hi]
                        /\ words[c].lo \in HalfWord /\ words[c].hi \in HalfWord
                        /\ count[c] = words[c].hi * Half + words[c].lo
      OBVIOUS
    <3>1. /\ words[c] = [lo |-> 0, hi |-> 0] /\ count[c] = 0
          /\ words[c].lo = 0 /\ words[c].hi = 0
      BY <2>2
    <3> QED  BY <2>3, <3>1
  <2>8. \A h \in Hpms : watch[h] = C!HpmMask(sel[h], h \in inhibit)
    BY <2>4, <2>5
  <2> QED  BY <2>6, <2>7, <2>8 DEF CountInv
<1>2. CountInv /\ [C!Next]_countVars => CountInv'
  <2> SUFFICES ASSUME CountInv, [C!Next]_countVars  PROVE CountInv'
    OBVIOUS
  <2>1. CASE C!Next  BY <2>1, CountStep DEF C!Next
  <2>2. CASE UNCHANGED countVars
    BY <2>2 DEF countVars, CountInv
  <2> QED  BY <2>1, <2>2
<1> QED  BY <1>1, <1>2

(* EachCountedOnce: whatever software writes and whichever events come,    *)
(* each counter is the number its two halves make, every event counted     *)
(* once under the selection and inhibition in force, for halves of any     *)
(* width and any set of counters (rvntt_csr).                              *)
THEOREM EachCountedOnce ==
  ASSUME CountersAssumption
  PROVE  CsrSpec => []CountsInOrder
<1> DEFINE Inv == unit = "counters" => CountInv
<1>1. CsrInit => Inv  BY CountKept DEF CsrInit
<1>2. Inv /\ [CsrNext]_csrVars => Inv'  BY CountKept, OneUnit
<1>3. Inv => CountsInOrder  BY DEF CountInv, CountsInOrder, C!CountsInOrder
<1> QED  BY <1>1, <1>2, <1>3, PTL DEF CsrSpec
-----------------------------------------------------------------------------
(* The seed CSR and its health tests.                                      *)

SeedAssumption ==
  /\ BistSamples \in Nat \ {0} /\ RepCutoff \in Nat \ {0} /\ Width \in Nat \ {0}
  /\ ApWindow \in Nat \ {0} /\ ApCutoff \in Nat \ {0}

Bit == {0, 1}

\* run is how many samples up to the last are alike.
IsRun(samples, last, n) ==
  /\ n \in 1 .. Len(samples)
  /\ \A j \in Len(samples) - n + 1 .. Len(samples) : samples[j] = last
  /\ n = Len(samples) \/ samples[Len(samples) - n] # last

\* The ones among the first n samples of window w.
Ones(samples, w, n) == {j \in 1 .. n : samples[(w * ApWindow) + j] = 1}
Alike(samples, w, v) == {j \in 1 .. ApWindow : samples[(w * ApWindow) + j] = v}

RunTracked ==
  /\ health.have <=> log # <<>>
  /\ log # <<>> => IsRun(log, health.prev, health.run)
  /\ health.rep <=> S!RepetitionIn(log)

WindowTracked ==
  /\ health.pos = Len(log) % ApWindow
  /\ health.pos # 0 =>
       health.ones = Cardinality(Ones(log, Len(log) \div ApWindow, health.pos))
  /\ health.ap <=> S!ProportionIn(log)

(* RunGrows: a sample more makes the run longer or starts one.             *)
LEMMA RunGrows ==
  ASSUME NEW samples \in Seq(Bit), NEW s \in Bit, NEW last, NEW n, NEW m,
         samples # <<>> => IsRun(samples, last, n),
         m = IF samples # <<>> /\ s = last THEN n + 1 ELSE 1
  PROVE  IsRun(Append(samples, s), s, m)
<1> DEFINE more == Append(samples, s)
           L == Len(samples)
<1>1. /\ L \in Nat /\ Len(more) = L + 1 /\ more[L + 1] = s
      /\ \A i \in 1 .. L : more[i] = samples[i]
  BY AppendProperties, LenProperties
<1>2. samples # <<>> <=> L # 0  BY <1>1, EmptySeq
<1> HIDE DEF more, L
<1>3. CASE samples # <<>> /\ s = last
  <2>1. /\ m = n + 1 /\ n \in 1 .. L
        /\ \A j \in L - n + 1 .. L : samples[j] = s
        /\ n = L \/ samples[L - n] # s
    BY <1>3 DEF IsRun, L
  <2>2. m \in 1 .. L + 1  BY <1>1, <2>1
  <2>3. (L + 1) - m = L - n /\ (L + 1) - m + 1 = L - n + 1  BY <1>1, <2>1
  <2>4. \A j \in L - n + 1 .. L : j \in 1 .. L  BY <1>1, <2>1
  <2>5. \A j \in L - n + 1 .. L : more[j] = s  BY <1>1, <2>1, <2>4
  <2>6. \A j \in L - n + 1 .. L + 1 : j \in L - n + 1 .. L \/ j = L + 1
    BY <1>1, <2>1
  <2>7. \A j \in L - n + 1 .. L + 1 : more[j] = s
    BY <1>1, <2>5, <2>6
  <2>8. m = L + 1 \/ more[L - n] # s
    <3>1. CASE n = L  BY <2>1, <3>1
    <3>2. CASE n # L
      <4>1. L - n \in 1 .. L  BY <1>1, <2>1, <3>2
      <4> QED  BY <1>1, <2>1, <3>2, <4>1
    <3> QED  BY <3>1, <3>2
  <2> QED  BY <1>1, <2>2, <2>3, <2>7, <2>8 DEF IsRun, more
<1>4. CASE samples # <<>> /\ s # last
  <2>1. m = 1  BY <1>4
  <2>2. n \in 1 .. L /\ \A j \in L - n + 1 .. L : samples[j] = last
    BY <1>4 DEF IsRun, L
  <2>3. samples[L] = last  BY <1>1, <2>2
  <2>4. more[L] # s  BY <1>1, <1>2, <1>4, <2>3
  <2>5. (L + 1) - m = L /\ m \in 1 .. L + 1 /\ (L + 1) - m + 1 = L + 1  BY <1>1, <2>1
  <2>6. \A j \in L + 1 .. L + 1 : more[j] = s  BY <1>1
  <2> QED  BY <1>1, <2>4, <2>5, <2>6 DEF IsRun, more
<1>5. CASE samples = <<>>
  <2>1. m = 1 /\ L = 0  BY <1>2, <1>5
  <2>2. \A j \in 1 .. 1 : more[j] = s  BY <1>1, <2>1
  <2> QED  BY <1>1, <2>1, <2>2 DEF IsRun, more
<1> QED  BY <1>3, <1>4, <1>5

(* RepetitionGrows: a run of RepCutoff is new only at the last sample.     *)
LEMMA RepetitionGrows ==
  ASSUME SeedAssumption, NEW samples \in Seq(Bit), NEW s \in Bit, NEW m,
         IsRun(Append(samples, s), s, m)
  PROVE  S!RepetitionIn(Append(samples, s))
           <=> S!RepetitionIn(samples) \/ m >= RepCutoff
<1> DEFINE more == Append(samples, s)
           L == Len(samples)
<1>1. /\ L \in Nat /\ Len(more) = L + 1 /\ more[L + 1] = s
      /\ \A i \in 1 .. L : more[i] = samples[i]
  BY AppendProperties, LenProperties
<1>2. /\ m \in 1 .. L + 1
      /\ \A j \in (L + 1) - m + 1 .. L + 1 : more[j] = s
      /\ m = L + 1 \/ more[(L + 1) - m] # s
  BY <1>1 DEF IsRun
<1>3. RepCutoff \in Nat \ {0}  BY DEF SeedAssumption
<1> HIDE DEF more, L
<1> DEFINE Starts(x, i) == \A j \in i .. i + RepCutoff - 1 : x[j] = x[i]
<1>4. /\ S!RepetitionIn(more) <=> \E i \in 1 .. (L + 1) - RepCutoff + 1 : Starts(more, i)
      /\ S!RepetitionIn(samples) <=> \E i \in 1 .. L - RepCutoff + 1 : Starts(samples, i)
  BY <1>1 DEF S!RepetitionIn, L
<1>5. \A i \in 1 .. L - RepCutoff + 1 : Starts(more, i) <=> Starts(samples, i)
  BY <1>1, <1>3
<1>6. ASSUME NEW i \in 1 .. (L + 1) - RepCutoff + 1, Starts(more, i),
             i \notin 1 .. L - RepCutoff + 1
      PROVE  m >= RepCutoff
  <2>1. i = L - RepCutoff + 2 /\ i + RepCutoff - 1 = L + 1  BY <1>1, <1>3, <1>6
  <2>2. \A j \in i .. L + 1 : more[j] = more[i]  BY <1>6, <2>1
  <2>3. \A j \in i .. L + 1 : more[j] = s  BY <1>1, <1>3, <2>1, <2>2
  <2>4. SUFFICES ASSUME m < RepCutoff  PROVE FALSE  BY <1>1, <1>2, <1>3
  <2>5. (L + 1) - m \in i .. L + 1 /\ m # L + 1  BY <1>1, <1>2, <1>3, <2>1, <2>4
  <2> QED  BY <1>2, <2>3, <2>5
<1>7. ASSUME m >= RepCutoff  PROVE S!RepetitionIn(more)
  <2> DEFINE i == L - RepCutoff + 2
  <2>1. i \in 1 .. (L + 1) - RepCutoff + 1  BY <1>1, <1>2, <1>3, <1>7
  <2>2. \A j \in i .. i + RepCutoff - 1 : more[j] = s  BY <1>1, <1>2, <1>3, <1>7
  <2>3. i \in i .. i + RepCutoff - 1  BY <1>1, <1>3
  <2>4. Starts(more, i)  BY <2>2, <2>3
  <2> QED  BY <1>4, <2>1, <2>4
<1>8. ASSUME S!RepetitionIn(samples)  PROVE S!RepetitionIn(more)
  <2>1. PICK i \in 1 .. L - RepCutoff + 1 : Starts(samples, i)  BY <1>4, <1>8
  <2>2. i \in 1 .. (L + 1) - RepCutoff + 1  BY <1>1, <1>3
  <2> QED  BY <1>4, <1>5, <2>1, <2>2
<1>9. ASSUME S!RepetitionIn(more)
      PROVE  S!RepetitionIn(samples) \/ m >= RepCutoff
  <2>1. PICK i \in 1 .. (L + 1) - RepCutoff + 1 : Starts(more, i)  BY <1>4, <1>9
  <2>2. CASE i \in 1 .. L - RepCutoff + 1  BY <1>4, <1>5, <2>1, <2>2
  <2>3. CASE i \notin 1 .. L - RepCutoff + 1  BY <1>6, <2>1, <2>3
  <2> QED  BY <2>2, <2>3
<1> QED  BY <1>7, <1>8, <1>9 DEF more

(* Divided: the quotient and the remainder of the successor.               *)
LEMMA Divided ==
  ASSUME NEW n \in Nat \ {0}, NEW x \in Nat
  PROVE  /\ x \div n \in Nat /\ x % n \in 0 .. n - 1
         /\ x = ((x \div n) * n) + (x % n)
         /\ x % n # n - 1 => /\ (x + 1) \div n = x \div n
                             /\ (x + 1) % n = (x % n) + 1
         /\ x % n = n - 1 => (x + 1) \div n = (x \div n) + 1 /\ (x + 1) % n = 0
<1> DEFINE q == x \div n
           r == x % n
<1>1. q \in Nat /\ r \in 0 .. n - 1 /\ x = (n * q) + r  OBVIOUS
<1> HIDE DEF q, r
<1>2. n * q = q * n /\ q * n \in Nat  BY <1>1
<1>3. x = (q * n) + r  BY <1>1, <1>2
<1>4. r # n - 1 => (x + 1) \div n = q /\ (x + 1) % n = r + 1
  <2> SUFFICES ASSUME r # n - 1  PROVE (x + 1) \div n = q /\ (x + 1) % n = r + 1
    OBVIOUS
  <2> DEFINE y == x + 1
             t == r + 1
  <2>1. t \in 0 .. n - 1 /\ y = (q * n) + t  BY <1>1, <1>2, <1>3
  <2> HIDE DEF y, t
  <2>2. y \div n = q /\ y % n = t  BY <1>1, <2>1, Halves
  <2> QED  BY <2>2 DEF y, t
<1>5. r = n - 1 => (x + 1) \div n = q + 1 /\ (x + 1) % n = 0
  <2> SUFFICES ASSUME r = n - 1  PROVE (x + 1) \div n = q + 1 /\ (x + 1) % n = 0
    OBVIOUS
  <2>1. (q + 1) * n = (q * n) + n /\ q + 1 \in Nat  BY <1>1
  <2> DEFINE y == x + 1
             t == q + 1
  <2>2. 0 \in 0 .. n - 1 /\ t \in Nat /\ y = (t * n) + 0  BY <1>1, <1>2, <1>3, <2>1
  <2> HIDE DEF y, t
  <2>3. y \div n = t /\ y % n = 0  BY <2>2, Halves
  <2> QED  BY <2>3 DEF y, t
<1> QED  BY <1>1, <1>3, <1>4, <1>5 DEF q, r

(* Remains: what is below the modulus is its own remainder.                *)
LEMMA Remains ==
  ASSUME NEW n \in Nat \ {0}, NEW t \in 0 .. n - 1
  PROVE  t % n = t
  OBVIOUS

(* OneSampleMore: the ones of a window with a sample more.                 *)
LEMMA OneSampleMore ==
  ASSUME SeedAssumption, NEW samples \in Seq(Bit), NEW s \in Bit,
         NEW w \in Nat, NEW n \in Nat,
         Len(samples) = (w * ApWindow) + n
  PROVE  /\ Ones(Append(samples, s), w, n + 1)
              = Ones(samples, w, n) \cup (IF s = 1 THEN {n + 1} ELSE {})
         /\ IsFiniteSet(Ones(samples, w, n))
         /\ Cardinality(Ones(samples, w, n)) \in Nat
         /\ Cardinality(Ones(Append(samples, s), w, n + 1))
              = Cardinality(Ones(samples, w, n)) + s
<1> DEFINE more == Append(samples, s)
           L == Len(samples)
           base == w * ApWindow
           old == Ones(samples, w, n)
           new == Ones(more, w, n + 1)
<1>1. /\ L \in Nat /\ more[L + 1] = s
      /\ \A i \in 1 .. L : more[i] = samples[i]
  BY AppendProperties, LenProperties
<1>2. base \in Nat  BY DEF SeedAssumption
<1>3. old = {j \in 1 .. n : samples[base + j] = 1}  BY DEF Ones
<1>4. new = {j \in 1 .. n + 1 : more[base + j] = 1}  BY DEF Ones
<1>5. L = base + n  OBVIOUS
<1> HIDE DEF more, L, base, old, new
<1>6. \A j \in 1 .. n : more[base + j] = samples[base + j]
  BY <1>1, <1>2, <1>5
<1>7. more[base + (n + 1)] = s  BY <1>1, <1>2, <1>5
<1>8. new = old \cup (IF s = 1 THEN {n + 1} ELSE {})
  <2>1. \A j : j \in 1 .. n + 1 <=> j \in 1 .. n \/ j = n + 1  OBVIOUS
  <2>2. CASE s = 1  BY <1>3, <1>4, <1>6, <1>7, <2>1, <2>2
  <2>3. CASE s # 1  BY <1>3, <1>4, <1>6, <1>7, <2>1, <2>3
  <2> QED  BY <2>2, <2>3
<1>9. IsFiniteSet(old) /\ Cardinality(old) \in Nat
  <2>1. IsFiniteSet(1 .. n)  BY FS_Interval
  <2>2. old \in SUBSET (1 .. n)  BY <1>3
  <2>3. IsFiniteSet(old)  BY <2>1, <2>2, FS_Subset
  <2> QED  BY <2>3, FS_CardinalityType
<1>10. n + 1 \notin old  BY <1>3
<1>11. Cardinality(new) = Cardinality(old) + s
  <2>1. CASE s = 1
    <3>1. new = old \cup {n + 1}  BY <1>8, <2>1
    <3>2. Cardinality(old \cup {n + 1}) = Cardinality(old) + 1
      BY <1>9, <1>10, FS_AddElement
    <3> QED  BY <2>1, <3>1, <3>2
  <2>2. CASE s = 0
    <3>1. new = old  BY <1>8, <2>2
    <3> QED  BY <1>9, <2>2, <3>1
  <2> QED  BY <2>1, <2>2 DEF Bit
<1> QED  BY <1>8, <1>9, <1>11 DEF new, old, more

(* ZerosAndOnes: a window's zeros are what its ones leave.                 *)
LEMMA ZerosAndOnes ==
  ASSUME SeedAssumption, NEW samples \in Seq(Bit), NEW w \in Nat,
         (w + 1) * ApWindow <= Len(samples)
  PROVE  /\ Alike(samples, w, 1) = Ones(samples, w, ApWindow)
         /\ Cardinality(Alike(samples, w, 0))
              = ApWindow - Cardinality(Alike(samples, w, 1))
<1> DEFINE base == w * ApWindow
<1>1. base \in Nat /\ (w + 1) * ApWindow = base + ApWindow /\ ApWindow \in Nat \ {0}
  BY DEF SeedAssumption
<1>2. Len(samples) \in Nat /\ \A i \in 1 .. Len(samples) : samples[i] \in Bit
  BY LenProperties, ElementOfSeq
<1>3. /\ Alike(samples, w, 1) = {j \in 1 .. ApWindow : samples[base + j] = 1}
      /\ Alike(samples, w, 0) = {j \in 1 .. ApWindow : samples[base + j] = 0}
  BY DEF Alike
<1>4. Alike(samples, w, 1) = Ones(samples, w, ApWindow)  BY DEF Alike, Ones
<1>5. base + ApWindow <= Len(samples)  BY <1>1
<1> HIDE DEF base
<1>6. \A j \in 1 .. ApWindow : samples[base + j] \in {0, 1}
  BY <1>1, <1>2, <1>5 DEF Bit
<1>7. Alike(samples, w, 0) = (1 .. ApWindow) \ Alike(samples, w, 1)
  BY <1>3, <1>6
<1>8. (1 .. ApWindow) \cap Alike(samples, w, 1) = Alike(samples, w, 1)  BY <1>3
<1>9. IsFiniteSet(1 .. ApWindow) /\ Cardinality(1 .. ApWindow) = ApWindow
  BY <1>1, FS_Interval
<1>10. Cardinality((1 .. ApWindow) \ Alike(samples, w, 1))
         = Cardinality(1 .. ApWindow) - Cardinality((1 .. ApWindow) \cap Alike(samples, w, 1))
  BY <1>9, FS_Difference
<1> QED  BY <1>4, <1>7, <1>8, <1>9, <1>10

(* SameCardinality: the unit's Cardinality is the library's.               *)
LEMMA SameCardinality ==
  ASSUME NEW T  PROVE S!Cardinality(T) = Cardinality(T)
BY DEF S!Cardinality, Cardinality

(* WindowFails: the standard's second test, a window at a time.            *)
LEMMA WindowFails ==
  ASSUME NEW samples
  PROVE  S!ProportionIn(samples)
           <=> \E w \in 0 .. (Len(samples) \div ApWindow) - 1 :
                 \E v \in Bit : Cardinality(Alike(samples, w, v)) >= ApCutoff
<1>1. S!ProportionIn(samples)
        <=> \E w \in 0 .. (Len(samples) \div ApWindow) - 1, v \in Bit :
              S!Cardinality(Alike(samples, w, v)) >= ApCutoff
  BY DEF S!ProportionIn, Alike, Bit
<1> QED  BY <1>1, SameCardinality

(* ProportionGrows: a sample more is judged when it ends its window.       *)
LEMMA ProportionGrows ==
  ASSUME SeedAssumption, NEW samples \in Seq(Bit), NEW s \in Bit, NEW q, NEW r,
         q = Len(samples) \div ApWindow, r = Len(samples) % ApWindow
  PROVE  S!ProportionIn(Append(samples, s))
           <=> \/ S!ProportionIn(samples)
               \/ /\ r = ApWindow - 1
                  /\ \E v \in Bit : Cardinality(Alike(Append(samples, s), q, v)) >= ApCutoff
<1> DEFINE more == Append(samples, s)
           L == Len(samples)
           Over(x, w) == \E v \in Bit : Cardinality(Alike(x, w, v)) >= ApCutoff
<1>1. /\ L \in Nat /\ Len(more) = L + 1
      /\ \A i \in 1 .. L : more[i] = samples[i]
  BY AppendProperties, LenProperties
<1>2. ApWindow \in Nat \ {0}  BY DEF SeedAssumption
<1>3. /\ q \in Nat /\ r \in 0 .. ApWindow - 1 /\ L = (q * ApWindow) + r
      /\ r # ApWindow - 1 => (L + 1) \div ApWindow = q
      /\ r = ApWindow - 1 => (L + 1) \div ApWindow = q + 1
  BY <1>1, <1>2, Divided
<1>4. /\ S!ProportionIn(more) <=> \E w \in 0 .. (Len(more) \div ApWindow) - 1 : Over(more, w)
      /\ S!ProportionIn(samples) <=> \E w \in 0 .. q - 1 : Over(samples, w)
  BY WindowFails
<1> HIDE DEF more, L
<1>5. ASSUME NEW w \in 0 .. q - 1  PROVE Over(more, w) <=> Over(samples, w)
  <2>1. w * ApWindow \in Nat /\ (w * ApWindow) + ApWindow <= q * ApWindow /\ q * ApWindow <= L
    <3>1. w + 1 <= q /\ w \in Nat /\ q - (w + 1) \in Nat  BY <1>3
    <3> DEFINE d == q - (w + 1)
    <3>2. q = (w + 1) + d /\ d \in Nat  BY <1>3, <3>1
    <3> HIDE DEF d
    <3>3. q * ApWindow = (w * ApWindow) + ApWindow + (d * ApWindow)  BY <1>2, <3>1, <3>2
    <3>4. d * ApWindow \in Nat /\ w * ApWindow \in Nat  BY <1>2, <3>1, <3>2
    <3>5. q * ApWindow \in Nat  BY <1>2, <1>3
    <3> QED  BY <1>1, <1>2, <1>3, <3>3, <3>4, <3>5
  <2> DEFINE base == w * ApWindow
  <2>2. base \in Nat /\ base + ApWindow <= L  BY <1>1, <1>2, <1>3, <2>1
  <2>3. \A v : Alike(more, w, v) = {j \in 1 .. ApWindow : more[base + j] = v}
    BY DEF Alike
  <2>4. \A v : Alike(samples, w, v) = {j \in 1 .. ApWindow : samples[base + j] = v}
    BY DEF Alike
  <2> HIDE DEF base
  <2>5. \A j \in 1 .. ApWindow : more[base + j] = samples[base + j]
    BY <1>1, <1>2, <2>2
  <2>6. ASSUME NEW v  PROVE Alike(more, w, v) = Alike(samples, w, v)
    <3>1. \A j \in 1 .. ApWindow : more[base + j] = v <=> samples[base + j] = v
      BY <2>5
    <3> QED  BY <2>3, <2>4, <3>1
  <2> QED  BY <2>6
<1> HIDE DEF Over
<1>6. CASE r # ApWindow - 1
  <2>1. Len(more) \div ApWindow = q  BY <1>1, <1>3, <1>6
  <2>2. S!ProportionIn(more) <=> \E w \in 0 .. q - 1 : Over(more, w)  BY <1>4, <2>1
  <2>3. S!ProportionIn(more) <=> S!ProportionIn(samples)  BY <1>4, <1>5, <2>2
  <2> QED  BY <1>6, <2>3 DEF more
<1>7. CASE r = ApWindow - 1
  <2>1. Len(more) \div ApWindow = q + 1  BY <1>1, <1>3, <1>7
  <2>2. (q + 1) - 1 = q  BY <1>3
  <2>3. S!ProportionIn(more) <=> \E w \in 0 .. q : Over(more, w)  BY <1>4, <2>1, <2>2
  <2>4. \A w : w \in 0 .. q <=> w \in 0 .. q - 1 \/ w = q  BY <1>3
  <2>5. S!ProportionIn(more) <=> S!ProportionIn(samples) \/ Over(more, q)
    BY <1>4, <1>5, <2>3, <2>4
  <2> QED  BY <1>7, <2>5 DEF more, Over
<1> QED  BY <1>6, <1>7

(* Sampled: a sample keeps both tests' registers in step with the log.     *)
LEMMA Sampled ==
  ASSUME SeedAssumption, log \in Seq(Bit), RunTracked, WindowTracked,
         NEW s \in Bit, S!HealthEdge(s), log' = Append(log, s)
  PROVE  RunTracked' /\ WindowTracked'
<1> DEFINE L == Len(log)
           q == L \div ApWindow
           r == L % ApWindow
<1>1. L \in Nat /\ Len(log') = L + 1 /\ log' # <<>> /\ log' \in Seq(Bit)
  BY AppendProperties, LenProperties
<1>2. ApWindow \in Nat \ {0} /\ RepCutoff \in Nat \ {0} /\ ApCutoff \in Nat \ {0}
  BY DEF SeedAssumption
<1>3. /\ health'.prev = s /\ health'.run = S!RunNext(s) /\ health'.have
      /\ health'.pos = (health.pos + 1) % ApWindow /\ health'.ones = S!OnesNow(s)
      /\ health'.rep <=> health.rep \/ S!RunNext(s) >= RepCutoff
      /\ health'.ap <=> health.ap \/ (S!AtWindowEnd /\ S!ApOver(s))
  BY DEF S!HealthEdge
<1>4. RunTracked'
  <2>1. S!RunNext(s) = IF log # <<>> /\ s = health.prev THEN health.run + 1 ELSE 1
    BY DEF S!RunNext, RunTracked
  <2>2. IsRun(log', s, S!RunNext(s))  BY <2>1, RunGrows DEF RunTracked
  <2>3. S!RepetitionIn(log') <=> S!RepetitionIn(log) \/ S!RunNext(s) >= RepCutoff
    BY <2>2, RepetitionGrows
  <2>4. health'.rep <=> S!RepetitionIn(log')  BY <1>3, <2>3 DEF RunTracked
  <2>5. IsRun(log', health'.prev, health'.run)  BY <1>3, <2>2
  <2>6. (health.rep <=> S!RepetitionIn(log))' <=> (health'.rep <=> S!RepetitionIn(log)')
    OBVIOUS
  <2> QED  BY <1>1, <1>3, <2>4, <2>5 DEF RunTracked, S!RepetitionIn, IsRun
<1>5. WindowTracked'
  <2>1. /\ q \in Nat /\ r \in 0 .. ApWindow - 1 /\ L = (q * ApWindow) + r
        /\ r # ApWindow - 1 => /\ (L + 1) \div ApWindow = q
                               /\ (L + 1) % ApWindow = r + 1
        /\ r = ApWindow - 1 => (L + 1) \div ApWindow = q + 1 /\ (L + 1) % ApWindow = 0
    BY <1>1, <1>2, Divided
  <2>2. health.pos = r  BY DEF WindowTracked
  <2> HIDE DEF L, q, r
  <2>3. health'.pos = (L + 1) % ApWindow
    <3>1. CASE r # ApWindow - 1
      <4>1. r + 1 \in 0 .. ApWindow - 1  BY <1>2, <2>1, <3>1
      <4>2. (r + 1) % ApWindow = r + 1
        <5> DEFINE t == r + 1
        <5> HIDE DEF t
        <5>1. t \in 0 .. ApWindow - 1  BY <4>1 DEF t
        <5>2. t % ApWindow = t  BY <1>2, <5>1, Remains
        <5> QED  BY <5>2 DEF t
      <4> QED  BY <1>3, <2>1, <2>2, <3>1, <4>2
    <3>2. CASE r = ApWindow - 1
      <4>1. (r + 1) % ApWindow = 0  BY <1>2, <2>1, <3>2
      <4> QED  BY <1>3, <2>1, <2>2, <3>2, <4>1
    <3> QED  BY <3>1, <3>2
  <2>4. /\ IsFiniteSet(Ones(log, q, r)) /\ Cardinality(Ones(log, q, r)) \in Nat
        /\ Cardinality(Ones(log', q, r + 1)) = Cardinality(Ones(log, q, r)) + s
    BY <2>1, OneSampleMore DEF L
  <2>5. (IF health.pos = 0 THEN 0 ELSE health.ones) = Cardinality(Ones(log, q, r))
    <3>1. CASE r = 0
      <4>1. Ones(log, q, r) = {}  BY <3>1 DEF Ones
      <4> QED  BY <2>2, <3>1, <4>1, FS_EmptySet
    <3>2. CASE r # 0  BY <2>2, <3>2 DEF WindowTracked, q, r, L
    <3> QED  BY <3>1, <3>2
  <2>6. S!OnesNow(s) = Cardinality(Ones(log', q, r + 1))
    BY <2>4, <2>5 DEF S!OnesNow
  <2>7. health'.pos # 0 =>
          health'.ones = Cardinality(Ones(log', (L + 1) \div ApWindow, health'.pos))
    BY <1>3, <2>1, <2>3, <2>6
  <2>8. health'.ap <=> S!ProportionIn(log')
    <3>1. S!AtWindowEnd <=> r = ApWindow - 1  BY <2>2 DEF S!AtWindowEnd
    <3>2. S!ProportionIn(log')
            <=> \/ S!ProportionIn(log)
                \/ /\ r = ApWindow - 1
                   /\ \E v \in Bit : Cardinality(Alike(log', q, v)) >= ApCutoff
      BY ProportionGrows DEF q, r, L
    <3>3. ASSUME r = ApWindow - 1
          PROVE  S!ApOver(s) <=> \E v \in Bit : Cardinality(Alike(log', q, v)) >= ApCutoff
      <4>1. (q + 1) * ApWindow = (q * ApWindow) + ApWindow /\ r + 1 = ApWindow
            /\ q * ApWindow \in Nat
        BY <1>2, <2>1, <3>3
      <4>2. (q + 1) * ApWindow <= Len(log')  BY <1>1, <1>2, <2>1, <4>1 DEF L
      <4>3. /\ Alike(log', q, 1) = Ones(log', q, ApWindow)
            /\ Cardinality(Alike(log', q, 0)) = ApWindow - Cardinality(Alike(log', q, 1))
        BY <1>1, <2>1, <4>2, ZerosAndOnes
      <4>4. S!OnesNow(s) = Cardinality(Alike(log', q, 1))  BY <2>6, <4>1, <4>3
      <4> QED  BY <4>3, <4>4 DEF S!ApOver, Bit
    <3> QED  BY <1>3, <3>1, <3>2, <3>3 DEF WindowTracked
  <2> QED  BY <1>1, <2>3, <2>7, <2>8 DEF WindowTracked, S!ProportionIn, L
<1> QED  BY <1>4, <1>5

\* The buffer's newest fill bits are the samples since it was emptied.
BufferTracked ==
  /\ seed.bist \in Nat /\ seed.buf \in Seq(Bit) /\ Len(seed.buf) = Width
  /\ emptied \in 0 .. Len(log)
  /\ seed.fill = IF Len(log) - emptied < Width THEN Len(log) - emptied ELSE Width
  /\ \A k \in 1 .. seed.fill : seed.buf[(Width - seed.fill) + k] = log[emptied + k]
  /\ emptied > 0 => S!BistDone /\ Len(log) <= emptied + Width

SeedInv ==
  /\ noise.meta \in Bit /\ noise.raw \in Bit /\ log \in Seq(Bit)
  /\ RunTracked /\ WindowTracked /\ BufferTracked
  /\ ~seed.dead /\ S!HealthFail => grew

(* Cleared: reset establishes the invariant.                               *)
LEMMA Cleared ==
  ASSUME SeedAssumption, S!Init
  PROVE  SeedInv
<1>1. /\ noise = S!NoiseReset /\ health = S!HealthReset /\ seed = S!SeedReset
      /\ log = <<>> /\ grew = FALSE /\ emptied = 0
  BY DEF S!Init
<1>2. /\ Width \in Nat \ {0} /\ ApWindow \in Nat \ {0} /\ RepCutoff \in Nat \ {0}
  BY DEF SeedAssumption
<1>3. noise.meta \in Bit /\ noise.raw \in Bit  BY <1>1 DEF S!NoiseReset, Bit
<1>4. log \in Seq(Bit) /\ Len(log) = 0 /\ log = <<>>  BY <1>1
<1>5. RunTracked
  <2>1. ~health.have /\ ~health.rep  BY <1>1 DEF S!HealthReset
  <2>2. ~S!RepetitionIn(log)  BY <1>2, <1>4 DEF S!RepetitionIn
  <2> QED  BY <1>4, <2>1, <2>2 DEF RunTracked
<1>6. WindowTracked
  <2>1. health.pos = 0 /\ ~health.ap  BY <1>1 DEF S!HealthReset
  <2>2. 0 \div ApWindow = 0 /\ 0 % ApWindow = 0  BY <1>2
  <2>3. ~S!ProportionIn(log)  BY <1>4, <2>2, WindowFails
  <2> QED  BY <1>4, <2>1, <2>2, <2>3 DEF WindowTracked
<1>7. BufferTracked
  <2>1. seed.bist = 0 /\ seed.fill = 0 /\ seed.buf = [k \in 1 .. Width |-> 0]
    BY <1>1 DEF S!SeedReset
  <2>2. seed.buf \in Seq(Bit) /\ Len(seed.buf) = Width  BY <1>2, <2>1 DEF Bit
  <2> QED  BY <1>1, <1>2, <1>4, <2>1, <2>2 DEF BufferTracked
<1>8. ~S!HealthFail  BY <1>1 DEF S!HealthReset, S!HealthFail
<1> QED  BY <1>3, <1>4, <1>5, <1>6, <1>7, <1>8 DEF SeedInv

(* Buffered: a clock edge keeps the buffer in step with the log.           *)
LEMMA Buffered ==
  ASSUME SeedAssumption, log \in Seq(Bit), BufferTracked,
         NEW s \in Bit, NEW takes \in BOOLEAN, NEW read \in BOOLEAN,
         takes <=> S!WantSample, S!SeedEdge(s, takes, read),
         log' = IF takes THEN Append(log, s) ELSE log,
         emptied' = IF S!Consume(read) THEN Len(log') ELSE emptied
  PROVE  BufferTracked'
<1> DEFINE L == Len(log)
           f == seed.fill
           buf == seed.buf
<1>1. Width \in Nat \ {0} /\ BistSamples \in Nat  BY DEF SeedAssumption
<1>2. /\ L \in Nat /\ log' \in Seq(Bit) /\ Len(log') = L + (IF takes THEN 1 ELSE 0)
      /\ \A i \in 1 .. L : log'[i] = log[i]
      /\ takes => log'[L + 1] = s
  BY AppendProperties, LenProperties
<1>3. /\ buf \in Seq(Bit) /\ Len(buf) = Width /\ emptied \in 0 .. L /\ seed.bist \in Nat
      /\ f = IF L - emptied < Width THEN L - emptied ELSE Width
      /\ \A k \in 1 .. f : buf[(Width - f) + k] = log[emptied + k]
      /\ emptied > 0 => seed.bist >= BistSamples /\ L <= emptied + Width
  BY DEF BufferTracked, S!BistDone
<1>4. /\ seed'.bist = IF takes /\ ~S!BistDone THEN seed.bist + 1 ELSE seed.bist
      /\ seed'.fill = IF S!Consume(read) THEN (IF takes THEN 1 ELSE 0)
                      ELSE IF takes /\ ~S!Full THEN f + 1 ELSE f
      /\ seed'.buf = IF S!Consume(read) THEN S!Blank(s)
                     ELSE IF takes /\ ~S!Full THEN S!Shifted(s) ELSE buf
  BY DEF S!SeedEdge
<1>5. S!BistDone <=> seed.bist >= BistSamples  BY DEF S!BistDone
<1>6. S!Full <=> f = Width  BY DEF S!Full
<1>7. takes => ~S!BistDone \/ ~S!Full  BY DEF S!WantSample
<1>8. S!Consume(read) => S!BistDone /\ S!Full /\ ~takes
  BY <1>7 DEF S!Consume
<1> HIDE DEF L, f, buf
<1>9. seed'.bist \in Nat /\ (S!BistDone => seed'.bist >= BistSamples)
  BY <1>1, <1>3, <1>4, <1>5
<1>10. CASE S!Consume(read)
  <2>1. emptied' = L /\ Len(log') = L /\ seed'.fill = 0
    BY <1>2, <1>4, <1>8, <1>10
  <2>2. seed'.buf \in Seq(Bit) /\ Len(seed'.buf) = Width
    <3> DEFINE z == [k \in 1 .. Width - 1 |-> 0]
    <3>1. z \in Seq(Bit) /\ Len(z) = Width - 1  BY <1>1 DEF Bit
    <3>2. seed'.buf = Append(z, s)  BY <1>4, <1>10 DEF S!Blank
    <3> HIDE DEF z
    <3> QED  BY <1>1, <3>1, <3>2, AppendProperties
  <2>3. seed'.bist >= BistSamples  BY <1>8, <1>9, <1>10
  <2>4. emptied' \in 0 .. Len(log') /\ Len(log') - emptied' = 0 /\ Len(log') <= emptied' + Width
    BY <1>1, <1>2, <2>1
  <2>5. seed'.fill = IF Len(log') - emptied' < Width THEN Len(log') - emptied' ELSE Width
    BY <1>1, <2>1, <2>4
  <2>6. \A k \in 1 .. seed'.fill :
          seed'.buf[(Width - seed'.fill) + k] = log'[emptied' + k]
    BY <2>1
  <2> QED
    BY <1>9, <2>2, <2>3, <2>4, <2>5, <2>6 DEF BufferTracked, S!BistDone
<1>11. CASE ~S!Consume(read) /\ takes /\ ~S!Full
  <2>1. /\ f < Width /\ f = L - emptied /\ f \in Nat
        /\ emptied' = emptied /\ Len(log') = L + 1 /\ seed'.fill = f + 1
    BY <1>1, <1>2, <1>3, <1>4, <1>6, <1>11
  <2>2. /\ seed'.buf \in Seq(Bit) /\ Len(seed'.buf) = Width /\ seed'.buf[Width] = s
        /\ \A k \in 1 .. Width - 1 : seed'.buf[k] = buf[k + 1]
    <3> DEFINE t == Tail(buf)
    <3>1. buf # <<>>  BY <1>1, <1>3
    <3>2. t \in Seq(Bit) /\ Len(t) = Width - 1 /\ \A k \in 1 .. Width - 1 : t[k] = buf[k + 1]
      BY <1>1, <1>3, <3>1, HeadTailProperties
    <3>3. seed'.buf = Append(t, s)  BY <1>4, <1>11 DEF S!Shifted, buf
    <3> HIDE DEF t
    <3> QED  BY <1>1, <3>2, <3>3, AppendProperties
  <2>3. ASSUME NEW k \in 1 .. f + 1
        PROVE  seed'.buf[(Width - (f + 1)) + k] = log'[emptied + k]
    <3>1. CASE k = f + 1
      <4>1. (Width - (f + 1)) + k = Width /\ emptied + k = L + 1
        BY <1>1, <1>2, <1>3, <2>1, <3>1
      <4> QED  BY <1>2, <1>11, <2>2, <4>1
    <3>2. CASE k \in 1 .. f
      <4> DEFINE i == (Width - (f + 1)) + k
      <4>1. i \in 1 .. Width - 1 /\ i + 1 = (Width - f) + k /\ emptied + k \in 1 .. L
        BY <1>1, <1>2, <1>3, <2>1, <3>2
      <4>2. seed'.buf[i] = buf[i + 1]  BY <2>2, <4>1
      <4> QED  BY <1>2, <1>3, <3>2, <4>1, <4>2
    <3>3. k = f + 1 \/ k \in 1 .. f  BY <2>1
    <3> QED  BY <3>1, <3>2, <3>3
  <2>4. emptied' > 0 => seed'.bist >= BistSamples /\ L + 1 <= emptied' + Width
    BY <1>1, <1>2, <1>3, <1>5, <1>9, <2>1
  <2>5. seed'.fill = IF Len(log') - emptied' < Width THEN Len(log') - emptied' ELSE Width
    <3> L \in Nat /\ emptied \in Nat  BY <1>2, <1>3
    <3>1. (L + 1) - emptied = f + 1  BY <2>1
    <3>2. Len(log') - emptied' = f + 1  BY <2>1, <3>1, Zenon
    <3>3. f + 1 < Width \/ f + 1 = Width  BY <1>1, <2>1
    <3> QED  BY <1>1, <2>1, <3>2, <3>3
  <2>6. emptied' \in 0 .. Len(log')  BY <1>2, <1>3, <2>1
  <2> QED
    BY <1>9, <2>1, <2>2, <2>3, <2>4, <2>5, <2>6 DEF BufferTracked, S!BistDone
<1>12. CASE ~S!Consume(read) /\ ~(takes /\ ~S!Full)
  <2>1. emptied' = emptied /\ seed'.fill = f /\ seed'.buf = buf
    BY <1>4, <1>12
  <2>2. f \in Nat /\ \A k \in 1 .. f : emptied + k \in 1 .. L
    BY <1>1, <1>2, <1>3
  <2>3. \A k \in 1 .. f : buf[(Width - f) + k] = log'[emptied + k]
    BY <1>2, <1>3, <2>2
  <2>4. takes => f = Width /\ emptied = 0
    BY <1>1, <1>2, <1>3, <1>5, <1>6, <1>7, <1>12
  <2>5. f = IF Len(log') - emptied < Width THEN Len(log') - emptied ELSE Width
    BY <1>1, <1>2, <1>3, <2>4
  <2>6. emptied > 0 => seed'.bist >= BistSamples /\ Len(log') <= emptied + Width
    BY <1>1, <1>2, <1>3, <1>5, <1>9, <2>4
  <2>7. emptied' \in 0 .. Len(log')  BY <1>2, <1>3, <2>1
  <2> QED
    BY <1>3, <1>9, <2>1, <2>3, <2>5, <2>6, <2>7 DEF BufferTracked, S!BistDone
<1> QED  BY <1>10, <1>11, <1>12

(* Clocked: a clock cycle keeps the invariant.                             *)
LEMMA Clocked ==
  ASSUME SeedAssumption, SeedInv, NEW bit \in Bit, NEW read \in BOOLEAN,
         S!Clock(bit, read)
  PROVE  SeedInv'
<1> DEFINE s == noise.raw
           takes == S!WantSample
<1>1. takes \in BOOLEAN  BY DEF S!WantSample
<1>2. /\ noise' = [meta |-> bit, raw |-> noise.meta]
      /\ IF takes THEN S!HealthEdge(s) ELSE health' = health
      /\ S!SeedEdge(s, takes, read)
      /\ log' = IF takes THEN Append(log, s) ELSE log
      /\ grew' = takes
      /\ emptied' = IF S!Consume(read) THEN Len(log') ELSE emptied
  BY DEF S!Clock
<1>3. s \in Bit /\ log \in Seq(Bit) /\ RunTracked /\ WindowTracked /\ BufferTracked
  BY DEF SeedInv
<1>4. noise'.meta \in Bit /\ noise'.raw \in Bit  BY <1>2 DEF SeedInv
<1>5. log' \in Seq(Bit)  BY <1>2, <1>3, AppendProperties
<1>6. seed'.dead <=> seed.dead \/ S!HealthFail
  BY <1>2 DEF S!SeedEdge, S!DeadNext
<1> HIDE DEF s, takes
<1>7. RunTracked' /\ WindowTracked'
  <2>1. CASE takes  BY <1>2, <1>3, <2>1, Sampled
  <2>2. CASE ~takes
    <3>1. log' = log /\ health' = health  BY <1>2, <2>2
    <3> QED
      BY <1>3, <3>1 DEF RunTracked, WindowTracked, S!RepetitionIn, S!ProportionIn, IsRun
  <2> QED  BY <2>1, <2>2
<1>8. BufferTracked'
  <2>1. takes <=> S!WantSample  BY DEF takes
  <2> QED  BY <1>1, <1>2, <1>3, <2>1, Buffered
<1>9. (~seed.dead /\ S!HealthFail => grew)'
  <2>1. CASE takes  BY <1>2, <2>1
  <2>2. CASE ~takes
    <3>1. health' = health  BY <1>2, <2>2
    <3> QED  BY <1>6, <3>1 DEF S!HealthFail
  <2> QED  BY <2>1, <2>2
<1> QED  BY <1>4, <1>5, <1>7, <1>8, <1>9 DEF SeedInv

(* Answered: what the status says of the registers.                        *)
LEMMA Answered ==
  /\ seed.dead => S!Status = "DEAD"
  /\ S!Status = "ES16" => S!Full
<1>1. seed.dead => S!Status = "DEAD"
  <2> SUFFICES ASSUME seed.dead  PROVE S!Status = "DEAD"  OBVIOUS
  <2> QED  BY Zenon DEF S!Status
<1>2. S!Status = "ES16" => S!Full
  <2> SUFFICES ASSUME ~S!Full  PROVE S!Status # "ES16"  OBVIOUS
  <2>1. CASE seed.dead
    <3>1. S!Status = "DEAD"  BY <1>1, <2>1
    <3> QED  BY <3>1
  <2>2. CASE ~seed.dead /\ ~S!BistDone
    <3>1. S!Status = "BIST"  BY <2>2, Zenon DEF S!Status
    <3> QED  BY <3>1
  <2>3. CASE ~seed.dead /\ S!BistDone
    <3>1. S!Status = "WAIT"  BY <2>3, Zenon DEF S!Status
    <3> QED  BY <3>1
  <2> QED  BY <2>1, <2>2, <2>3
<1> QED  BY <1>1, <1>2

(* FreshAndJudged: the invariant gives both properties.                    *)
LEMMA FreshAndJudged ==
  ASSUME SeedAssumption, SeedInv
  PROVE  S!HealthAsStandard /\ S!SeedFresh
<1>1. S!HealthFail <=> S!Fails(log)
  BY DEF SeedInv, RunTracked, WindowTracked, S!HealthFail, S!Fails
<1>2. S!Status = "ES16" => seed.buf = SubSeq(log, emptied + 1, emptied + Width)
  <2> SUFFICES ASSUME S!Status = "ES16"
               PROVE  seed.buf = SubSeq(log, emptied + 1, emptied + Width)
    OBVIOUS
  <2>1. Width \in Nat \ {0} /\ Len(log) \in Nat /\ log \in Seq(Bit)
    BY LenProperties DEF SeedAssumption, SeedInv
  <2>2. seed.fill = Width  BY Answered DEF S!Full
  <2>3. /\ seed.buf \in Seq(Bit) /\ Len(seed.buf) = Width /\ emptied \in 0 .. Len(log)
        /\ seed.fill = IF Len(log) - emptied < Width THEN Len(log) - emptied ELSE Width
        /\ \A k \in 1 .. seed.fill : seed.buf[(Width - seed.fill) + k] = log[emptied + k]
    BY DEF SeedInv, BufferTracked
  <2>4. emptied + Width <= Len(log)  BY <2>1, <2>2, <2>3
  <2>5. \A k \in 1 .. Width : seed.buf[k] = log[emptied + k]  BY <2>1, <2>2, <2>3
  <2> DEFINE t == SubSeq(log, emptied + 1, emptied + Width)
  <2>6. \A i \in emptied + 1 .. emptied + Width : i \in 1 .. Len(log)  BY <2>1, <2>3, <2>4
  <2>7. \A i \in emptied + 1 .. emptied + Width : log[i] \in Bit  BY <2>1, <2>6, ElementOfSeq
  <2>8. /\ t \in Seq(Bit)
        /\ Len(t) = IF emptied + 1 <= emptied + Width
                    THEN (emptied + Width) - (emptied + 1) + 1 ELSE 0
        /\ \A i \in 1 .. (emptied + Width) - (emptied + 1) + 1 : t[i] = log[(emptied + 1) + i - 1]
    BY <2>1, <2>3, <2>7, SubSeqProperties
  <2> HIDE DEF t
  <2>9. Len(t) = Width /\ \A k \in 1 .. Width : t[k] = log[emptied + k]
    <3> emptied \in Nat  BY <2>1, <2>3
    <3>1. (emptied + Width) - (emptied + 1) + 1 = Width  BY <2>1
    <3>2. emptied + 1 <= emptied + Width  BY <2>1
    <3>3. \A k \in 1 .. Width : (emptied + 1) + k - 1 = emptied + k  BY <2>1
    <3> QED  BY <2>8, <3>1, <3>2, <3>3
  <2>10. seed.buf = t
    <3>1. t \in Seq(Bit) /\ seed.buf \in Seq(Bit) /\ Len(seed.buf) = Len(t)
      BY <2>3, <2>8, <2>9
    <3>2. \A k \in 1 .. Len(seed.buf) : seed.buf[k] = t[k]  BY <2>3, <2>5, <2>9
    <3> QED  BY <3>1, <3>2, SeqEqual
  <2> QED  BY <2>10 DEF t
<1>3. S!Status # "DEAD" /\ S!Fails(log) => grew
  BY <1>1, Answered DEF SeedInv
<1>4. emptied > 0 => Len(log) <= emptied + Width  BY DEF SeedInv, BufferTracked
<1> QED  BY <1>1, <1>2, <1>3, <1>4 DEF S!HealthAsStandard, S!SeedFresh

(* SeedKept: the invariant holds in every run of the unit.                 *)
LEMMA SeedKept ==
  ASSUME SeedAssumption
  PROVE  CsrSpec => [](unit = "seed" => SeedInv)
<1>1. S!Init => SeedInv  BY Cleared
<1>2. S!Init' => SeedInv'  BY <1>1, PTL
<1>3. SeedInv /\ [S!Next]_seedVars => SeedInv'
  <2> SUFFICES ASSUME SeedInv, [S!Next]_seedVars  PROVE SeedInv'  OBVIOUS
  <2>1. CASE S!Reset
    <3>1. S!Init'  BY <2>1 DEF S!Reset, S!Init
    <3> QED  BY <1>2, <3>1
  <2>2. CASE \E bit \in {0, 1}, read \in BOOLEAN : S!Clock(bit, read)
    <3>1. PICK bit \in Bit, read \in BOOLEAN : S!Clock(bit, read)  BY <2>2 DEF Bit
    <3> QED  BY <3>1, Clocked
  <2>3. CASE UNCHANGED seedVars
    BY <2>3 DEF seedVars, SeedInv, RunTracked, WindowTracked, BufferTracked, IsRun,
       S!RepetitionIn, S!ProportionIn, S!HealthFail, S!BistDone
  <2> QED  BY <2>1, <2>2, <2>3 DEF S!Next
<1> DEFINE Inv == unit = "seed" => SeedInv
<1>4. CsrInit => Inv  BY <1>1 DEF CsrInit
<1>5. Inv /\ [CsrNext]_csrVars => Inv'  BY <1>3, OneUnit
<1> QED  BY <1>4, <1>5, PTL DEF CsrSpec

(* HealthJudgedRight: in every run, with every cutoff, window and width,   *)
(* the health tests have failed exactly when the samples taken since reset *)
(* fail the standard's repetition count or adaptive proportion test.       *)
THEOREM HealthJudgedRight ==
  ASSUME SeedAssumption
  PROVE  CsrSpec => []HealthAsStandard
<1>1. (unit = "seed" => SeedInv) => HealthAsStandard  BY FreshAndJudged DEF HealthAsStandard
<1> QED  BY <1>1, SeedKept, PTL

(* SeedNeverReused: in every run a read of seed takes Width samples that   *)
(* no read has had, a failed test is answered DEAD from the second cycle   *)
(* on, and a refill samples no further than it needs.                      *)
THEOREM SeedNeverReused ==
  ASSUME SeedAssumption
  PROVE  CsrSpec => []SeedFresh
<1>1. (unit = "seed" => SeedInv) => SeedFresh  BY FreshAndJudged DEF SeedFresh
<1> QED  BY <1>1, SeedKept, PTL
====
