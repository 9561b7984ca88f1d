--------------------------- MODULE MutationHarness ---------------------------
(***************************************************************************)
(* tb/mutate/run_mutation.py: the baseline and the mutations of a          *)
(* manifest, run by a pool of processes.  A test of a design is two steps: *)
(* it prepares a place on disk (an image, a build, a proof), then runs     *)
(* what it finds there.  What a tool answers about a design is a free      *)
(* choice, made once: "pass", "fail", or "broken" when the tool itself     *)
(* could not run.  Mirroring, building and every tool end.                 *)
(***************************************************************************)
EXTENDS Integers, SequencesExt

CONSTANTS
  Manifest,                          \* the mutations, in order
  Catchers,                          \* the kinds of test each one declares
  Exe, Formal, Cocotb, Rvfi, Soc,    \* the kinds, by what runs them
  Jobs                               \* processes in the pool

Base == "base"
Muts == ToSet(Manifest)
Kinds == Exe \cup Formal \cup Cocotb \cup Rvfi \cup Soc
Wanted == UNION {ToSet(Catchers[m]) : m \in Muts}

VARIABLES
  phase,     \* where main() is
  defect,    \* what is wrong with an edit, or with a design's build
  truth,     \* what each tool says of each design, once it was asked
  task,      \* the baseline tasks and the mutation jobs
  held,      \* what the places on disk hold
  exit       \* the exit status

vars == <<phase, defect, truth, task, held, exit>>

Put(f, x, y) == [z \in DOMAIN f \cup {x} |-> IF z = x THEN y ELSE f[z]]

-----------------------------------------------------------------------------
(* Tests.                                                                  *)

\* Where a kind works on a design: inside the job's directory, in a core
\* directory of the riscv-formal checkout, or in the temporary directory.
PlaceNoCheck(rtl, k) ==                                        \* fault
  CASE k \in Rvfi   -> <<"core", rtl>>
    [] k \in Cocotb -> <<"tmp", k>>
    [] OTHER        -> <<"job", rtl, k>>
Place(rtl, k) ==
  CASE k \in Exe    -> <<"job", rtl>>
    [] k \in Rvfi   -> <<"core", rtl, k>>
    [] k \in Cocotb -> <<"tmp", k>>
    [] OTHER        -> <<"job", rtl, k>>

Outcomes(k) == IF k \in Exe THEN {"pass", "fail"} ELSE {"pass", "fail", "broken"}
Answers(rtl, k) == IF <<rtl, k>> \in DOMAIN truth THEN {truth[<<rtl, k>>]} ELSE Outcomes(k)

\* The runners that tell a tool that could not run from a test that failed.
Raises(k, answer) == answer = "broken" /\ k \in Rvfi \cup Soc

\* The tasks of the baseline: the kinds that share the one memory image run
\* one after the other, every other kind alone.
ExeGroup == "exe-group"
BaseTasks == (Wanted \ Exe) \cup (IF Wanted \cap Exe = {} THEN {} ELSE {ExeGroup})
KindsOf(t) == CASE t \in Muts    -> Catchers[t]
                [] t = ExeGroup  -> SetToSeq(Wanted \cap Exe)
                [] OTHER         -> <<t>>
DesignOf(t) == IF t \in Muts THEN t ELSE Base

NewTask(t) == [pc |-> "queued", left |-> KindsOf(t), passed |-> {}, failed |-> {},
               verdict |-> "none"]

Prepare(t) ==
  /\ task[t].pc = "test" /\ task[t].left # <<>>
  /\ LET k == Head(task[t].left)
     IN  held' = Put(held, Place(DesignOf(t), k), <<DesignOf(t), k>>)
  /\ task' = [task EXCEPT ![t].pc = "prepared"]
  /\ UNCHANGED <<phase, defect, truth, exit>>

Answered(j, k, a) ==
  IF Raises(k, a) THEN [j EXCEPT !.pc = "raising"]
  ELSE [j EXCEPT !.pc = "test", !.left = Tail(@),
          !.passed = IF a = "pass" THEN @ \cup {k} ELSE @,
          !.failed = IF a # "pass" THEN @ \cup {k} ELSE @]

\* run_test on what the place holds by now
Run(t) ==
  /\ task[t].pc = "prepared"
  /\ LET k == Head(task[t].left)
         found == held[Place(DesignOf(t), k)]
     IN  \E a \in Answers(found[1], found[2]) :
           /\ truth' = Put(truth, found, a)
           /\ task' = [task EXCEPT ![t] = Answered(@, k, a)]
  /\ UNCHANGED <<phase, defect, held, exit>>

-----------------------------------------------------------------------------
(* A mutation job.                                                         *)

InJob(p, m) == p[1] = "job" /\ p[2] = m
CoreNamed(p, m) == p = <<"core", m>>           \* cores/mut_<m>
\* The job's finally clause.
Reclaim(m) == [p \in {q \in DOMAIN held : ~InJob(q, m) /\ ~CoreNamed(q, m)} |-> held[p]]

Return(m, verdict) ==
  /\ task' = [task EXCEPT ![m].pc = "done", ![m].verdict = verdict]
  /\ held' = Reclaim(m)
  /\ UNCHANGED <<phase, defect, truth, exit>>

Verdict(m) ==
  CASE Catchers[m] = <<>>     -> "UNCHECKED"
    [] Catchers[m] # <<>> /\ task[m].failed = {} -> "ESCAPED"
    [] task[m].failed # {} /\ task[m].passed # {} -> "PARTIAL"
    [] OTHER                  -> "CAUGHT"

Mirror(m) ==
  /\ task[m].pc = "mirror" /\ defect[m] # "ambiguous"
  /\ task' = [task EXCEPT ![m].pc = "build"]
  /\ held' = Put(held, <<"job", m>>, <<m, "rtl">>)
  /\ UNCHANGED <<phase, defect, truth, exit>>
MirrorFails(m) == task[m].pc = "mirror" /\ defect[m] = "ambiguous" /\ Return(m, "NO-OP")
Build(m) ==
  /\ task[m].pc = "build" /\ defect[m] # "noBuild"
  /\ task' = [task EXCEPT ![m].pc = "test"]
  /\ UNCHANGED <<phase, defect, truth, held, exit>>
BuildFails(m) == task[m].pc = "build" /\ defect[m] = "noBuild" /\ Return(m, "BUILD-ERR")
Judge(m) == task[m].pc = "test" /\ task[m].left = <<>> /\ Return(m, Verdict(m))
Raise(m) ==
  /\ task[m].pc = "raising"
  /\ task' = [task EXCEPT ![m].pc = "raised"]
  /\ held' = Reclaim(m)
  /\ UNCHANGED <<phase, defect, truth, exit>>

\* baseline_job returns its results, with the error when there was one.
BaselineDone(t) ==
  /\ \/ task[t].pc = "test" /\ task[t].left = <<>>
     \/ task[t].pc = "raising"
  /\ task' = [task EXCEPT ![t].pc = IF @ = "raising" THEN "raised" ELSE "done"]
  /\ UNCHANGED <<phase, defect, truth, held, exit>>

-----------------------------------------------------------------------------
(* main().                                                                 *)

FinishedWell(t) == task[t].pc = "done"                         \* fault
Finished(t) == task[t].pc \in {"done", "raised"}
Active == {t \in DOMAIN task : task[t].pc # "queued" /\ ~Finished(t)}

\* A defect of an edit that the pre-flight sees is "stale"; an edit that
\* spoils the anchor of the next one is not seen until the mirror is made.
Init ==
  /\ phase \in {"anchors", "anchorsOnly"}
  /\ defect \in {d \in [Muts \cup {Base} -> {"none", "stale", "ambiguous", "noBuild"}] :
                   d[Base] \in {"none", "noBuild"}}
  /\ truth = <<>> /\ held = <<>> /\ exit = "none"
  /\ task = [t \in BaseTasks \cup Muts |-> NewTask(t)]

ToPhase(p, status) ==
  /\ phase' = p /\ exit' = status /\ UNCHANGED <<defect, truth, task, held>>
Stale == {m \in Muts : defect[m] = "stale"}

Preflight ==
  \/ phase \in {"anchors", "anchorsOnly"} /\ Stale # {} /\ ToPhase("ended", "1")
  \/ phase = "anchorsOnly" /\ Stale = {} /\ ToPhase("ended", "0")
  \/ phase = "anchors" /\ Stale = {} /\ ToPhase("setup", "none")

\* The baseline's mirror and build, then every program the manifest needs.
SetUp ==
  \/ phase = "setup" /\ defect[Base] = "noBuild" /\ ToPhase("finally", "1")
  \/ phase = "setup" /\ defect[Base] = "none" /\ ToPhase("fixtures", "none")
Fixtures ==
  \/ phase = "fixtures" /\ ToPhase("baseline", "none")
  \/ phase = "fixtures" /\ ToPhase("finally", "traceback")     \* does not compile

Rank(m) == CHOOSE i \in DOMAIN Manifest : Manifest[i] = m
Start(t) ==
  /\ task[t].pc = "queued" /\ Cardinality(Active) < Jobs
  /\ \/ phase = "baseline" /\ t \in BaseTasks
     \/ /\ phase = "mutations" /\ t \in Muts
        /\ Jobs = 1 => \A u \in Muts : task[u].pc # "raised"
        /\ \A u \in Muts : task[u].pc = "queued" => Rank(t) <= Rank(u)
  /\ task' = [task EXCEPT ![t].pc = IF t \in Muts THEN "mirror" ELSE "test"]
  /\ UNCHANGED <<phase, defect, truth, held, exit>>

\* A kind without a result was not run: its task died before it.
BaselineNoFail ==                                              \* fault
  \A t \in BaseTasks : task[t].failed = {}
BaselineClean ==
  \A t \in BaseTasks : /\ task[t].pc = "done" /\ task[t].failed = {}
                       /\ task[t].passed = ToSet(KindsOf(t))
BaselineReport ==
  /\ phase = "baseline" /\ \A t \in BaseTasks : Finished(t)
  /\ IF BaselineClean THEN ToPhase("mutations", "none") ELSE ToPhase("finally", "1")

ProblemsLax == {"NO-OP", "BUILD-ERR", "ESCAPED"}               \* fault
Problems == {"NO-OP", "BUILD-ERR", "ESCAPED", "PARTIAL"}

\* A job that raised is met when its future is asked for; leaving the pool
\* still waits for every other one.  In one process it stops the run.
Report ==
  /\ phase = "mutations" /\ \A m \in Muts : task[m].pc = "done"
  /\ ToPhase("finally", IF \E m \in Muts : task[m].verdict \in Problems THEN "1" ELSE "0")
Unwind ==
  /\ phase = "mutations" /\ \E m \in Muts : task[m].pc = "raised"
  /\ Jobs > 1 => \A m \in Muts : Finished(m)
  /\ ToPhase("finally", "traceback")

UnderWork(p) == p[1] = "job"
KeptOnError(p) == exit # "traceback" /\ p[1] = "job"           \* fault
Removed(p) == UnderWork(p)
Finally ==
  /\ phase = "finally"
  /\ phase' = "ended"
  /\ held' = [p \in {q \in DOMAIN held : ~Removed(q) /\ ~CoreNamed(q, Base)} |-> held[p]]
  /\ UNCHANGED <<defect, truth, task, exit>>

Next ==
  \/ Preflight \/ SetUp \/ Fixtures \/ BaselineReport \/ Report \/ Unwind \/ Finally
  \/ \E t \in BaseTasks \cup Muts : Start(t) \/ Prepare(t) \/ Run(t)
  \/ \E t \in BaseTasks : BaselineDone(t)
  \/ \E m \in Muts : \/ Mirror(m) \/ MirrorFails(m) \/ Build(m) \/ BuildFails(m)
                     \/ Judge(m) \/ Raise(m)

Spec == Init /\ [][Next]_vars /\ WF_vars(Next)

-----------------------------------------------------------------------------
Says(rtl, k, answers) == <<rtl, k>> \in DOMAIN truth /\ truth[<<rtl, k>>] \in answers

\* Two jobs of the pool may build the same cocotb design at once, in one
\* place; then a job may be told of the other's design.
SharedBuild(t, k) ==
  /\ Jobs > 1 /\ k \in Cocotb /\ t \in Muts
  /\ \E m \in Muts \ {t} : k \in ToSet(Catchers[m])

(* VerdictsOwn: whatever runs at the same time, what a task reports of a   *)
(* test is what the tool says of the task's own design, but for a cocotb   *)
(* design that another job may build too (run_test; the directories of     *)
(* mutation_job, run_rvfi and run_soc).                                    *)
VerdictsOwn ==
  \A t \in DOMAIN task :
    /\ \A k \in task[t].passed :
         SharedBuild(t, k) \/ Says(DesignOf(t), k, {"pass"})
    /\ \A k \in task[t].failed :
         SharedBuild(t, k) \/ Says(DesignOf(t), k, {"fail", "broken"})

(* CleanBaseFirst: no mutation is judged unless every test that could      *)
(* catch it was run on the unmutated design and passed (main, "baseline is *)
(* not clean; mutation results would be meaningless").                     *)
CleanBaseFirst ==
  \A m \in Muts : task[m].pc # "queued" => \A k \in Wanted : Says(Base, k, {"pass"})

(* ExitHonest: exit status 0 of a full run says that every mutation was    *)
(* applied and built, and that each test it declares failed on it.         *)
ExitHonest ==
  phase = "ended" /\ exit = "0" =>
    \/ \A t \in BaseTasks \cup Muts : task[t] = NewTask(t)      \* --check-anchors
    \/ \A m \in Muts : /\ defect[m] = "none"
                       /\ \A k \in ToSet(Catchers[m]) :
                            SharedBuild(m, k) \/ Says(m, k, {"fail", "broken"})

(* WorkReclaimed: job directories exist only for the jobs that run ("89    *)
(* mirrored trees and object directories is tens of gigabytes"), and none  *)
(* survives the run, however it ends.                                      *)
WorkReclaimed ==
  /\ Cardinality({m \in Muts : \E p \in DOMAIN held : InJob(p, m)}) <= Jobs
  /\ phase = "ended" => \A p \in DOMAIN held : ~UnderWork(p)

(* EndsHonest: no mutation runs before the baseline is clean, the exit     *)
(* status says what happened, but for a cocotb catcher whose build another *)
(* mutation shares, and nothing is left on disk.                           *)
EndsHonest == CleanBaseFirst /\ ExitHonest /\ WorkReclaimed

(* Ends: the run ends whatever the tools answer and whichever job raises.  *)
Ends == <>(phase = "ended")

(* DocOwnsDirectory: "Each mutation owns a directory: its RTL mirror, its  *)
(* object dir, its memory image and its traces all live inside it"         *)
(* (mutation_job), so what a job runs is what it prepared.                 *)
DocOwnsDirectory ==
  \A m \in Muts : task[m].pc = "prepared" =>
    held[Place(m, Head(task[m].left))] = <<m, Head(task[m].left)>>
=============================================================================
