------------------------------- MODULE MulDiv -------------------------------
(***************************************************************************)
(* rtl/core/rvntt_muldiv.sv: the sequencer, the signed multiplier behind   *)
(* its operand register and the radix-2 restoring divider on magnitudes.   *)
(* A step is a clock edge; the inputs of the edge (req, op, a, b) are the  *)
(* parameters of the actions.  The multiplier is modelled as built, with   *)
(* an occupancy of two cycles.  job is a history variable.                 *)
(***************************************************************************)
EXTENDS MulDivIsa

CONSTANTS MulCycles,   \* EX occupancy of a multiply: MULDIV_MUL_CYCLES = 2
          DivCycles    \* ... and of a divide: MULDIV_DIV_CYCLES = 34

\* One cycle to capture and one to read, around no product register and Width
\* iterations.
ASSUME OccupancyAssumption == MulCycles = 2 /\ DivCycles = Width + 2

VARIABLES active, cnt, isDiv,   \* active_q, cnt_q, is_div_q
          mul,                  \* m_a_q, m_b_q, m_hi_q
          div,                  \* the divider's registers
          job                   \* the operation last started

vars == <<active, cnt, isDiv, mul, div, job>>

\* The registers of rvntt_muldiv keep their widths, and the counter never runs
\* past the longest latency (a_cnt_bounded).
TypeOK ==
  /\ active \in BOOLEAN /\ isDiv \in BOOLEAN
  /\ cnt \in 0 .. DivCycles - 1
  /\ mul \in [a : -Pow2[Width] .. Pow2[Width] - 1, b : -Pow2[Width] .. Pow2[Width] - 1, hi : BOOLEAN]
  /\ div \in [divisor : Word, rem : Word, quo : Word, dividend : Word,
              negQuo : BOOLEAN, negRem : BOOLEAN, byZero : BOOLEAN,
              wantRem : BOOLEAN]
  /\ job \in Jobs

-----------------------------------------------------------------------------
(* What the datapath captures when an operation starts.                    *)

Bit(op, n) == (op \div Pow2[n]) % 2 = 1
Extend(isSigned, x) == IF isSigned THEN Signed(x) ELSE x
Negate(x) == (Pow2[Width] - x) % Pow2[Width]      \* ~x + 1
MulCapture(j) ==
  [a  |-> Extend(j.op % 4 # 3, j.a),
   b  |-> Extend(~Bit(j.op, 1), j.b),
   hi |-> j.op % 4 # 0]

Negative(j, x) == ~Bit(j.op, 0) /\ x >= Pow2[Width - 1]
Magnitude(j, x) == IF Negative(j, x) THEN Negate(x) ELSE x

RemSignFromQuotient(j) == Negative(j, j.a) # Negative(j, j.b)  \* fault
RemSign(j) == Negative(j, j.a)
DivCapture(j) ==
  [divisor |-> Magnitude(j, j.b), rem |-> 0, quo |-> Magnitude(j, j.a),
   dividend |-> j.a, negQuo |-> Negative(j, j.a) # Negative(j, j.b),
   negRem |-> RemSign(j), byZero |-> j.b = 0, wantRem |-> Bit(j.op, 1)]

-----------------------------------------------------------------------------
(* One restoring step: shift the next dividend bit into the remainder and  *)
(* subtract the divisor if it fits.                                        *)

TopBit(x)  == x \div Pow2[Width - 1]
Shifted == 2 * div.rem + TopBit(div.quo)
FitsStrictly == Shifted > div.divisor     \* fault
Fits    == Shifted >= div.divisor
Iterate == active /\ isDiv /\ cnt <= Width

Restored ==
  [div EXCEPT !.rem = (IF Fits THEN Shifted - div.divisor ELSE Shifted) % Pow2[Width],
              !.quo = (2 * @ + (IF Fits THEN 1 ELSE 0)) % Pow2[Width]]

DatapathKeeps == mul' = mul /\ div' = (IF Iterate THEN Restored ELSE div)

-----------------------------------------------------------------------------
(* The result, read on the done cycle.                                     *)

Fix(negated, x) == IF negated THEN Negate(x) ELSE x
DivResult ==
  CASE div.byZero /\ div.wantRem   -> div.dividend
    [] div.byZero /\ ~div.wantRem  -> Pow2[Width] - 1
    [] ~div.byZero /\ div.wantRem  -> Fix(div.negRem, div.rem)
    [] ~div.byZero /\ ~div.wantRem -> Fix(div.negQuo, div.quo)

Product   == mul.a * mul.b
MulResult == (IF mul.hi THEN Product \div Pow2[Width] ELSE Product) % Pow2[Width]
Result    == IF isDiv THEN DivResult ELSE MulResult

TargetLate == IF isDiv THEN DivCycles ELSE MulCycles       \* fault
Target == (IF isDiv THEN DivCycles ELSE MulCycles) - 1
Ready  == active /\ cnt = Target     \* done, if the request still stands

-----------------------------------------------------------------------------
(* The edges.                                                              *)

\* The request of an operation not under way.
Start(j) ==
  /\ ~active
  /\ active' = TRUE /\ cnt' = 1 /\ isDiv' = OpIsDiv(j.op)
  /\ mul' = MulCapture(j) /\ div' = DivCapture(j) /\ job' = j

\* The request stands on the done cycle: the instruction leaves EX.
Done == /\ Ready
        /\ active' = FALSE /\ DatapathKeeps /\ UNCHANGED <<cnt, isDiv, job>>

Count == /\ active /\ ~Ready
         /\ cnt' = (cnt + 1) % 64
         /\ DatapathKeeps /\ UNCHANGED <<active, isDiv, job>>

\* No request: nothing in EX for the unit, or its instruction was flushed.
NoReq == /\ active' = FALSE /\ DatapathKeeps /\ UNCHANGED <<cnt, isDiv, job>>

\* The sequencer resets; the datapath registers have no reset and, with the
\* clock running under reset, keep their contents once active is low.
Reset == /\ active' = FALSE /\ cnt' = 0 /\ isDiv' = FALSE
         /\ UNCHANGED <<mul, div, job>>

ZeroJob == [op |-> 0, a |-> 0, b |-> 0]
Init == /\ active = FALSE /\ cnt = 0 /\ isDiv = FALSE
        /\ mul = [a |-> 0, b |-> 0, hi |-> FALSE]
        /\ div = [divisor |-> 0, rem |-> 0, quo |-> 0, dividend |-> 0,
                  negQuo |-> FALSE, negRem |-> FALSE, byZero |-> FALSE,
                  wantRem |-> FALSE]
        /\ job = ZeroJob

Next == (\E j \in Jobs : Start(j)) \/ Done \/ Count \/ NoReq \/ Reset

Spec == Init /\ [][Next]_vars

-----------------------------------------------------------------------------
(* LoopInvariant: after k steps the quotient register holds the dividend's *)
(* remaining bits above the k quotient bits found, and the partial         *)
(* remainder is what those quotient bits leave of its top k bits, below    *)
(* the divisor (a_div_inv_rem, a_div_inv_quo, a_div_bounded); no step      *)
(* needs the 33rd bit of `shifted`; and the count stays within the time.   *)
LoopInvariant ==
  /\ TypeOK
  /\ active /\ isDiv /\ ~div.byZero =>
    LET k == cnt - 1
        dividend == Magnitude(job, job.a)
        found == div.quo % Pow2[k]
    IN  /\ div.quo \div Pow2[k] = dividend % Pow2[Width - k]
        /\ div.rem + found * div.divisor = dividend \div Pow2[Width - k]
        /\ div.rem < div.divisor
        /\ Iterate => Shifted < Pow2[Width]

(* ImplementsUnit: for every operation and operands, the unit presents the *)
(* ISA's value after a number of cycles that depends on the operation's    *)
(* class alone, through aborts on any cycle, back-to-back starts and       *)
(* resets (rvntt_muldiv's handshake; a_lat_mul, a_lat_div).                *)
Promise == INSTANCE MulDivUnit
             WITH left  <- IF active THEN Target - cnt + 1 ELSE 0,
                  value <- IF Ready THEN Result ELSE -1
ImplementsUnit == Promise!Spec
=============================================================================
