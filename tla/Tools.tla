------------------------------- MODULE Tools -------------------------------
(* The four programs of the verification harness, one of them in each       *)
(* behaviour; the variables of the others hold "unused".  The constants of  *)
(* each are those of its own module.                                        *)
EXTENDS Integers, Sequences

CONSTANTS
  Manifest, Catchers, Exe, Formal, Cocotb, Rvfi, Soc, Jobs,         \* mutation
  Runs, CoreName, Insns, Others, Only,                              \* formal
  Tests, KindOf, Items, Excluded,                                   \* regress
  Pool, BodySize, ScratchBytes, Aligns, Dests, SourceSets, TargetGaps, Knobs

VARIABLES
  program,                                            \* the one that runs
  phase, defect, truth, task, held, exit,             \* run_mutation.py
  bundle, tmp, checks, status, run,                   \* run_riscv_formal.py
  lacking, wrong, results, proc, rc,                  \* run_regress.py
  gen, stage, step, pc, val                           \* gen_random_prog.py

mutationVars == <<phase, defect, truth, task, held, exit>>
formalVars == <<bundle, tmp, checks, status, run>>
regressVars == <<lacking, wrong, results, proc, rc>>
randomVars == <<gen, stage, step, pc, val>>

M == INSTANCE MutationHarness
F == INSTANCE RiscvFormal
R == INSTANCE Regression WITH exit <- rc
G == INSTANCE RandomProgram WITH phase <- stage

\* The base register is none of the pool (generate() asserts it), nor is x0;
\* operands and results are drawn from the pool, sizes are those of a load.
ASSUME RandomAssumption ==
  /\ Pool \in Seq(Nat \ {0, G!BASE_REG}) /\ Dests \subseteq G!PoolRegs
  /\ SourceSets \subseteq SUBSET (G!PoolRegs \cup {0})
  /\ BodySize \in Nat /\ ScratchBytes \in Nat
  /\ Aligns \subseteq {1, 2, 4} /\ TargetGaps \subseteq Nat
  /\ Knobs \subseteq {"none", "some"} \X {"none", "some"}

U == "unused"
NoMutation ==
  phase = U /\ defect = U /\ truth = U /\ task = U /\ held = U /\ exit = U
NoFormal == bundle = U /\ tmp = U /\ checks = U /\ status = U /\ run = U
NoRegress ==
  lacking = U /\ wrong = U /\ results = U /\ proc = U /\ rc = U
NoRandom == gen = U /\ stage = U /\ step = U /\ pc = U /\ val = U

ToolsInit ==
  \/ /\ program = "mutation" /\ M!Init
     /\ NoFormal /\ NoRegress /\ NoRandom
  \/ /\ program = "formal" /\ F!Init
     /\ NoMutation /\ NoRegress /\ NoRandom
  \/ /\ program = "regress" /\ R!Init
     /\ NoMutation /\ NoFormal /\ NoRandom
  \/ /\ program = "random" /\ G!Init
     /\ NoMutation /\ NoFormal /\ NoRegress

MutationNext == program = "mutation" /\ M!Next
                /\ UNCHANGED <<program, formalVars, regressVars, randomVars>>
FormalNext == program = "formal" /\ F!Next
              /\ UNCHANGED <<program, mutationVars, regressVars, randomVars>>
RegressNext == program = "regress" /\ R!Next
               /\ UNCHANGED <<program, mutationVars, formalVars, randomVars>>
RandomNext == program = "random" /\ G!Next
              /\ UNCHANGED <<program, mutationVars, formalVars, regressVars>>
ToolsNext == MutationNext \/ FormalNext \/ RegressNext \/ RandomNext

\* The fairness of the four programs, as their own modules state it.
toolsVars == <<program, mutationVars, formalVars, regressVars, randomVars>>
Fairness ==
  /\ WF_toolsVars(MutationNext) /\ WF_toolsVars(RandomNext)
  /\ \A p \in Runs :
       WF_toolsVars(program = "formal" /\ F!Step(p)
               /\ UNCHANGED <<program, mutationVars, regressVars, randomVars>>)
  /\ WF_toolsVars(program = "regress" /\ R!Own
             /\ UNCHANGED <<program, mutationVars, formalVars, randomVars>>)
ToolsSpec == ToolsInit /\ [][ToolsNext]_toolsVars /\ Fairness

-----------------------------------------------------------------------------
(* The properties of each program, stated in its own module.                *)

(* VerdictsOwn, EndsHonest: in tb/mutate/run_mutation.py,                  *)
(* each verdict is on its own mutation; no mutation runs before the        *)
(* baseline is clean, the exit status says what happened, and nothing is   *)
(* left on disk; what a build directory that two mutations share answers   *)
(* is excepted (DocOwnsDirectory).                                         *)
VerdictsOwn == program = "mutation" => M!VerdictsOwn
EndsHonest == program = "mutation" => M!EndsHonest
DocOwnsDirectory == program = "mutation" => M!DocOwnsDirectory

(* FormalVerdictsEarned: in tb/formal/run_riscv_formal.py, zero means that *)
(* what was asked was proved, the bundle checks are generated from is      *)
(* whole, and a failure is a check's.                                      *)
FormalVerdictsEarned == program = "formal" => F!FormalVerdictsEarned

(* RegressVerdictsEarned: in tb/run_regress.py, PASS is earned by every    *)
(* item of a test, SKIP hides nothing, and a missing tool is not a failure.*)
RegressVerdictsEarned == program = "regress" => R!RegressVerdictsEarned

(* RandomProgramsSound: a program of tb/cosim/gen_random_prog.py accesses  *)
(* its scratch only, along every path, is never rejected by its own        *)
(* checks, and keeps the dependencies apart that a knob forbids.           *)
RandomProgramsSound ==
  program = "random" =>
    G!AccessInScratch /\ G!NothingRejected /\ G!PaddedApart

(* ToolsEnd: each program ends, and so does each program the generator      *)
(* writes.                                                                  *)
ToolsEnd ==
  <>(/\ program = "mutation" => phase = "ended"
     /\ program = "formal" => \A p \in Runs : run[p].pc = "ended"
     /\ program = "regress" => rc # "none"
     /\ program = "random" => stage = "run" /\ pc > Len(gen.out))
=============================================================================
