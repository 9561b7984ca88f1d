---------------------------- MODULE RandomProgram ----------------------------
(***************************************************************************)
(* tb/cosim/gen_random_prog.py: the generator of the random programs the   *)
(* core and Spike run in lockstep, and a run of what it generated.  A      *)
(* random draw is a nondeterministic choice.  Opcodes and immediates are   *)
(* left out: an item of the program is a label or an instruction with the  *)
(* register it writes, those it reads, and what it does to control or to   *)
(* scratch memory.                                                         *)
(***************************************************************************)
EXTENDS Integers, SequencesExt

CONSTANTS
  Pool,            \* the registers written, in order
  BodySize,        \* n: instructions drawn after the prologue
  ScratchBytes,    \* size of the scratch area
  Aligns,          \* access sizes drawn
  Dests,           \* destinations drawn for results
  SourceSets,      \* sets of one or two operands drawn
  TargetGaps,      \* how far ahead a branch target is drawn
  Knobs            \* raw and load-use densities tried: "none" pads every
                   \* hazard of the kind, "some" may leave it

BASE_REG == 8
RAW_DISTANCE == 3
LOAD_USE_DISTANCE == 3

VARIABLES
  gen,             \* the Gen object
  phase,           \* "seed", "fill", "body", "flush", "check", "run"
  step,            \* registers seeded, instructions drawn
  pc, val          \* the run: next item, what is known of each register

vars == <<gen, phase, step, pc, val>>

PoolRegs == ToSet(Pool)
Regs == PoolRegs \cup {0, BASE_REG}

Item == [kind |-> "alu", rd |-> 0, srcs |-> {}, base |-> 0, off |-> 0,
         align |-> 1, label |-> 0, pad |-> FALSE]
Nop == [Item EXCEPT !.kind = "nop"]
PadNop == [Nop EXCEPT !.pad = TRUE]
Label(l) == [Item EXCEPT !.kind = "label", !.label = l]
Compute(rd, srcs) == [Item EXCEPT !.rd = rd, !.srcs = srcs \ {0}]
Alias(rd, k) == [Item EXCEPT !.kind = "alias", !.rd = rd, !.srcs = {BASE_REG}, !.off = k]

-----------------------------------------------------------------------------
(* The Gen object and its helpers.                                         *)

NewGen(raw, lu) ==
  [out |-> <<>>, idx |-> 0, last_write |-> <<>>, last_was_load |-> <<>>,
   label_n |-> 0, pending |-> {}, label_hold |-> FALSE, raw_d |-> raw, lu_d |-> lu]

\* _emit(): the labels that are due, which name one place, so in any order,
\* then the instruction.
Due(g) == IF g.label_hold THEN {} ELSE {p \in g.pending : p.at <= g.idx}
Emit(g, item) ==
  LET labels == SetToSeq({p.label : p \in Due(g)})
  IN  [g EXCEPT !.out = @ \o [k \in DOMAIN labels |-> Label(labels[k])] \o <<item>>,
                !.pending = @ \ Due(g), !.idx = @ + 1]
\* Nops come in runs of at most three.
EmitTimes(g, item, n) ==
  LET once == Emit(g, item)
      twice == Emit(once, item)
  IN  CASE n = 0 -> g [] n = 1 -> once [] n = 2 -> twice [] OTHER -> Emit(twice, item)

\* d[r] = v
Set(d, r, v) == [x \in DOMAIN d \cup {r} |-> IF x = r THEN v ELSE d[x]]
WroteEarly(g, rd, load) ==                                     \* fault
  IF rd = 0 THEN g
  ELSE [g EXCEPT !.last_write = Set(@, rd, g.idx - 2), !.last_was_load = Set(@, rd, load)]
\* _wrote()
Wrote(g, rd, load) ==
  IF rd = 0 THEN g
  ELSE [g EXCEPT !.last_write = Set(@, rd, g.idx - 1), !.last_was_load = Set(@, rd, load)]

\* _pad_for(): the runs of nops its loop of draws can end with.  A register
\* that is not to be allowed close is always padded, another one may be.
Missing(g, r) ==
  (IF g.last_was_load[r] THEN LOAD_USE_DISTANCE ELSE RAW_DISTANCE)
    - (g.idx - g.last_write[r])
MustPad(g, r) == (IF g.last_was_load[r] THEN g.lu_d ELSE g.raw_d) = "none"
Pads(g, regs) ==
  LET close == {r \in regs \cap DOMAIN g.last_write : Missing(g, r) > 0}
  IN  {n \in {0} \cup {Missing(g, r) : r \in close} :
         \A r \in close : MustPad(g, r) => Missing(g, r) <= n}
PadFor(g, n) == EmitTimes(g, PadNop, n)

\* An instruction that reads srcs behind n nops and writes rd.
Padded(g, n, item) == Wrote(Emit(PadFor(g, n), item), item.rd, FALSE)
Fresh(g, rd) == Wrote(Emit(g, Compute(rd, {})), rd, FALSE)

-----------------------------------------------------------------------------
(* The instructions drawn; each is one call of instruction().              *)

\* reg_reg, reg_imm, bitmanip, muldiv without an edge case
Arith ==
  \E rd \in Dests, srcs \in SourceSets : \E n \in Pads(gen, srcs) :
    gen' = Padded(gen, n, Compute(rd, srcs))

Upper == \E rd \in Dests : gen' = Fresh(gen, rd)

\* muldiv's edge cases build a divisor, or a dividend and another divisor.
MulDivEdge ==
  \E rd \in Dests, rs2 \in PoolRegs, rs1 \in UNION SourceSets, dividend \in BOOLEAN :
    LET g == Fresh(IF dividend THEN Fresh(gen, rs1) ELSE gen, rs2)
    IN  /\ dividend => rs1 \notin {0, rs2}
        /\ \E n \in Pads(g, {rs1, rs2}) :
             gen' = Padded(g, n, Compute(rd, {rs1, rs2}))

\* mem: an access of scratch through s0, or through a register that an addi
\* in front of it points k bytes into scratch.
Totals(align) == {align * (t \div align) : t \in 0 .. ScratchBytes - 5}
OffsetKept(total, k) == total                                  \* fault
Offset(total, k) == total - k
HoldNever(g) == g                                              \* fault
Hold(g) == [g EXCEPT !.label_hold = TRUE]
Access(base, off, align, rd, srcs) ==
  [Item EXCEPT !.kind = "access", !.base = base, !.off = off, !.align = align,
               !.rd = rd, !.srcs = (srcs \cup {base}) \ {0}]
Accessed(g, n, item, load) ==
  [Wrote(Emit(PadFor(g, n), item), item.rd, load) EXCEPT !.label_hold = FALSE]

Mem ==
  \E align \in Aligns, load \in BOOLEAN, data \in Dests \cup {0} :
    \E total \in Totals(align), base \in PoolRegs \cup {BASE_REG} :
      \E k \in IF base = BASE_REG THEN {0} ELSE 0 .. total :
        LET g == IF base = BASE_REG THEN gen
                 ELSE Hold(Wrote(Emit(gen, Alias(base, k)), base, FALSE))
            item == Access(base, Offset(total, k), align, IF load THEN data ELSE 0,
                           IF load THEN {} ELSE {data})
        IN  /\ load => data # 0
            /\ \E n \in Pads(g, item.srcs) : gen' = Accessed(g, n, item, load)

\* branch: the target is drawn before the padding, and pending before the
\* branch itself is emitted.
GapsFrom2 == TargetGaps \cup {2}                               \* fault
Gaps == TargetGaps
NewLabel(g, at, l) == [g EXCEPT !.pending = @ \cup {[at |-> at, label |-> l]},
                                !.label_n = l]
Transfer(kind, rd, srcs, l) ==
  [Item EXCEPT !.kind = kind, !.rd = rd, !.srcs = srcs \ {0}, !.label = l]

Branch ==
  \E srcs \in SourceSets, gap \in Gaps : \E n \in Pads(gen, srcs) :
    LET l == gen.label_n + 1
    IN  gen' = Emit(NewLabel(PadFor(gen, n), gen.idx + gap, l),
                    Transfer("branch", 0, srcs, l))
Jump ==
  \E rd \in Dests \cup {0}, gap \in Gaps :
    LET l == gen.label_n + 1
    IN  gen' = Wrote(Emit(NewLabel(gen, gen.idx + gap, l),
                          Transfer("jal", rd, {}, l)), rd, FALSE)

-----------------------------------------------------------------------------
(* generate(): the base register, the pool, the body, the labels left.     *)

SetBase(g) ==
  LET high == EmitTimes(Emit(g, Compute(BASE_REG, {})), Nop, RAW_DISTANCE)
      low  == Emit(high, [Item EXCEPT !.kind = "la", !.rd = BASE_REG, !.srcs = {BASE_REG}])
  IN  EmitTimes(Wrote(low, BASE_REG, FALSE), Nop, RAW_DISTANCE)

Unknown == 0 - 1
Init ==
  /\ \E k \in Knobs : gen = SetBase(NewGen(k[1], k[2]))
  /\ phase = "seed" /\ step = 0
  /\ pc = 0 /\ val = [r \in Regs |-> Unknown]

\* One register, or one drawn instruction, of a phase with `last` of them.
Steps(this, next, last) ==
  /\ phase = this /\ step < last
  /\ step' = IF step + 1 = last THEN 0 ELSE step + 1
  /\ phase' = IF step + 1 = last THEN next ELSE this
  /\ UNCHANGED <<pc, val>>

Seed == Steps("seed", "fill", Len(Pool)) /\ gen' = Fresh(gen, Pool[step + 1])
Fill ==
  /\ Steps("fill", "body", Len(Pool))
  /\ LET r == Pool[step + 1]
     IN  \E n \in Pads(gen, {r}) : gen' = Padded(gen, n, Compute(r, {r}))

Draw == Steps("body", "flush", BodySize)
DrawArith == Draw /\ Arith
DrawUpper == Draw /\ Upper
DrawMulDivEdge == Draw /\ MulDivEdge
DrawMem == Draw /\ Mem
DrawBranch == Draw /\ Branch
DrawJump == Draw /\ Jump

Flush ==
  /\ phase = "flush" /\ gen.pending # {}
  /\ gen' = Emit(gen, Nop) /\ UNCHANGED <<phase, step, pc, val>>

\* check_alias_bases(): the item before an aliased access, nops aside, is
\* the addi that made the alias.
CheckAliasBases(out) ==
  \A i \in DOMAIN out :
    out[i].kind = "access" /\ out[i].base # BASE_REG =>
      \E j \in 1 .. i - 1 :
        /\ out[j].kind = "alias" /\ out[j].rd = out[i].base
        /\ \A k \in j + 1 .. i - 1 : out[k].kind = "nop"

Check ==
  /\ phase = "flush" /\ gen.pending = {}
  /\ phase' = IF CheckAliasBases(gen.out) THEN "run" ELSE "rejected"
  /\ pc' = 1 /\ UNCHANGED <<gen, step, val>>

-----------------------------------------------------------------------------
(* A machine that runs the program.  Of a register it knows at most that   *)
(* it points into scratch, and where.                                      *)

out == gen.out
Running == phase = "run" /\ pc <= Len(out)
\* The next item at or after item i that is not a nop.
Effective(i) == Min({j \in i .. Len(out) + 1 : j <= Len(out) => out[j].kind # "nop"})
TargetOf(l) == CHOOSE i \in DOMAIN out : out[i].kind = "label" /\ out[i].label = l

Execute ==
  /\ Running
  /\ LET i == out[pc]
         v == CASE i.kind = "la"    -> 0
                [] i.kind = "alias" -> IF val[BASE_REG] = Unknown THEN Unknown
                                       ELSE val[BASE_REG] + i.off
                [] OTHER            -> Unknown
     IN  /\ val' = IF i.rd = 0 THEN val ELSE [val EXCEPT ![i.rd] = v]
         /\ \E next \in CASE i.kind = "jal"    -> {TargetOf(i.label)}
                          [] i.kind = "branch" -> {TargetOf(i.label), pc + 1}
                          [] OTHER             -> {pc + 1} :
              pc' = Effective(next)
  /\ UNCHANGED <<gen, phase, step>>

Next == \/ Seed \/ Fill
        \/ DrawArith \/ DrawUpper \/ DrawMulDivEdge \/ DrawMem
        \/ DrawBranch \/ DrawJump
        \/ Flush \/ Check \/ Execute

Spec == Init /\ [][Next]_vars /\ WF_vars(Next)

-----------------------------------------------------------------------------
(* AccessInScratch: on every path the program can take, an access reaches  *)
(* it with a base that points into scratch, is aligned, and stays inside   *)
(* (the promise that nothing traps before the final ECALL).                *)
AccessInScratch ==
  (Running /\ out[pc].kind = "access") =>
    LET a == val[out[pc].base] + out[pc].off
    IN  /\ val[out[pc].base] # Unknown
        /\ a % out[pc].align = 0 /\ a >= 0 /\ a + out[pc].align <= ScratchBytes

(* NothingRejected: the generator's own check never rejects what it        *)
(* generated (the assertion in check_alias_bases).                         *)
NothingRejected == phase # "rejected"

(* ReachesEnd: whatever its branches do, the program arrives at the final  *)
(* ECALL: every target exists once and lies ahead (branch()).              *)
ReachesEnd == <>(phase = "run" /\ pc > Len(out))

(* PaddedApart: with a knob at zero every register is read at least three  *)
(* instructions behind the one that wrote it, in program order: no path    *)
(* but a taken branch can bring them closer (_pad_for).                    *)
Between(i, j) == Cardinality({k \in i + 1 .. j : out[k].kind # "label"})
LastWriter(j, r) ==
  LET w == {k \in 1 .. j - 1 : out[k].rd = r} IN IF w = {} THEN 0 ELSE Max(w)
PaddedApart ==
  phase = "run" /\ pc = 1 =>
    \A j \in DOMAIN out : \A r \in out[j].srcs :
      LET i == LastWriter(j, r)
          load == i > 0 /\ out[i].kind = "access"
      IN  i > 0 /\ (IF load THEN gen.lu_d ELSE gen.raw_d) = "none"
            => Between(i, j) >= IF load THEN LOAD_USE_DISTANCE ELSE RAW_DISTANCE
=============================================================================
