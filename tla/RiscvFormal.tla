----------------------------- MODULE RiscvFormal -----------------------------
(***************************************************************************)
(* tb/formal/run_riscv_formal.py: invocations of the riscv-formal runner   *)
(* that share one checkout.  Each generates the instruction bundle, writes *)
(* its configuration, generates the checks in its core directory, and runs *)
(* the ones selected in a pool of threads.                                 *)
(***************************************************************************)
EXTENDS Integers, FiniteSets

CONSTANTS
  Runs,                  \* the invocations
  CoreName,              \* [Runs -> the core directory each is given]
  Insns, Others,         \* the checks of instructions, and the rest
  Only,                  \* [Runs -> the selections tried: what --only names, or {}]
  Jobs                   \* threads of an invocation

VARIABLES
  bundle,    \* the union bundle: "absent", "part" or "whole"
  tmp,       \* [Runs -> what each has written under its own name]
  checks,    \* [core directory -> the checks generated there, and for whom]
  status,    \* status files: [<<core directory, check>> -> verdict]
  run        \* [Runs -> where the invocation is]

vars == <<bundle, tmp, checks, status, run>>

Verdicts == {"PASS", "FAIL", "ERROR", "NO-STATUS"}
Put(f, x, y) == [z \in DOMAIN f \cup {x} |-> IF z = x THEN y ELSE f[z]]
Dir(p) == CoreName[p]

NewRun(only) ==
  [pc |-> "start", only |-> only, names |-> {}, active |-> {}, results |-> <<>>, exit |-> "none"]

\* A bundle may be left by an earlier run of the harness.
Init ==
  /\ bundle \in {"absent", "whole"}
  /\ tmp = [p \in Runs |-> "absent"]
  /\ checks = <<>> /\ status = <<>>
  /\ \E sel \in [Runs -> UNION {Only[p] : p \in Runs}] :
       /\ \A p \in Runs : sel[p] \in Only[p]
       /\ run = [p \in Runs |-> NewRun(sel[p])]

Goto(p, pc) == run' = [run EXCEPT ![p].pc = pc]
Exit(p, code) == run' = [run EXCEPT ![p].pc = "ended", ![p].exit = code]

\* No checkout is a skip, which exits 0; a part that is missing from the
\* checkout stops the run.
Skip(p) ==
  /\ run[p].pc = "start" /\ Exit(p, "skip") /\ UNCHANGED <<bundle, tmp, checks, status>>
PartMissing(p) ==
  /\ run[p].pc = "start" /\ Exit(p, "stopped") /\ UNCHANGED <<bundle, tmp, checks, status>>

\* write_isa_bundle(): the file is filled under a name of its own, then renamed.
BeginInPlace(p) == bundle' = "part" /\ UNCHANGED tmp           \* fault
Begin(p) == tmp' = [tmp EXCEPT ![p] = "part"] /\ UNCHANGED bundle
OpenBundle(p) ==
  /\ run[p].pc = "start" /\ Goto(p, "writing")
  /\ Begin(p) /\ UNCHANGED <<checks, status>>
WriteBundle(p) ==
  /\ run[p].pc = "writing" /\ Goto(p, "written")
  /\ tmp' = [tmp EXCEPT ![p] = "whole"] /\ UNCHANGED <<bundle, checks, status>>
RenameBundle(p) ==
  /\ run[p].pc = "written" /\ Goto(p, "generate")
  /\ bundle' = tmp[p] /\ tmp' = [tmp EXCEPT ![p] = "absent"]
  /\ UNCHANGED <<checks, status>>

\* genchecks.py: skips the instruction checks when it cannot find the bundle,
\* reads as much of it as there is, and starts from an empty directory.
Generated(p) ==
  CASE bundle = "whole" -> {Insns \cup Others}
    [] bundle = "part"  -> {Others \cup s : s \in SUBSET Insns}
    [] OTHER            -> {Others}
Generate(p) ==
  /\ run[p].pc = "generate" /\ Goto(p, "select")
  /\ \E names \in Generated(p) : checks' = Put(checks, Dir(p), [owner |-> p, names |-> names])
  /\ status' = [x \in {y \in DOMAIN status : y[1] # Dir(p)} |-> status[x]]
  /\ UNCHANGED <<bundle, tmp>>
GenerateFails(p) ==
  /\ run[p].pc = "generate" /\ Exit(p, "stopped")
  /\ UNCHANGED <<bundle, tmp, checks, status>>

\* discover() and --only.
SelectAny(p, names) ==                                         \* fault
  run' = [run EXCEPT ![p].names = names, ![p].pc = "running"]
Select(p, names) ==
  IF names = {} THEN Exit(p, "1")
  ELSE run' = [run EXCEPT ![p].names = names, ![p].pc = "running"]
Discover(p) ==
  /\ run[p].pc = "select"
  /\ Select(p, IF run[p].only = {} THEN checks[Dir(p)].names
               ELSE checks[Dir(p)].names \cap run[p].only)
  /\ UNCHANGED <<bundle, tmp, checks, status>>

\* run_check(): sby -f removes the old run of the check and writes a status
\* unless it dies; the verdict is the status file's.
StartCheck(p) ==
  /\ run[p].pc = "running" /\ Cardinality(run[p].active) < Jobs
  /\ \E c \in run[p].names \ (run[p].active \cup DOMAIN run[p].results) :
       /\ run' = [run EXCEPT ![p].active = @ \cup {c}]
       /\ status' = [x \in DOMAIN status \ {<<Dir(p), c>>} |-> status[x]]
  /\ UNCHANGED <<bundle, tmp, checks>>
SbyEnds(p) ==
  /\ \E c \in run[p].active, v \in Verdicts \ {"NO-STATUS"} :
       /\ <<Dir(p), c>> \notin DOMAIN status
       /\ status' = Put(status, <<Dir(p), c>>, [by |-> checks[Dir(p)].owner, is |-> v])
  /\ UNCHANGED <<bundle, tmp, checks, run>>
ReadStatus(p) ==
  /\ \E c \in run[p].active :
       LET v == IF <<Dir(p), c>> \in DOMAIN status THEN status[<<Dir(p), c>>]
                ELSE [by |-> p, is |-> "NO-STATUS"]
       IN  run' = [run EXCEPT ![p].active = @ \ {c}, ![p].results = Put(@, c, v)]
  /\ UNCHANGED <<bundle, tmp, checks, status>>

\* The exit status: a verdict that is neither is a broken experiment.
Is(p, v) == {c \in DOMAIN run[p].results : run[p].results[c].is = v}
BrokenErrors(p) == Is(p, "ERROR")                              \* fault
Broken(p) == DOMAIN run[p].results \ (Is(p, "PASS") \cup Is(p, "FAIL"))
FinishedJudged(p) == Is(p, "PASS") \cup Is(p, "FAIL") = run[p].names   \* fault
Finished(p) == DOMAIN run[p].results = run[p].names
Finish(p) ==
  /\ run[p].pc = "running" /\ Finished(p)
  /\ Exit(p, CASE Broken(p) # {} -> "2"
               [] Broken(p) = {} /\ Is(p, "PASS") # DOMAIN run[p].results -> "1"
               [] OTHER -> "0")
  /\ UNCHANGED <<bundle, tmp, checks, status>>

Step(p) ==
  \/ Skip(p) \/ PartMissing(p) \/ OpenBundle(p) \/ WriteBundle(p) \/ RenameBundle(p)
  \/ Generate(p) \/ GenerateFails(p) \/ Discover(p)
  \/ StartCheck(p) \/ SbyEnds(p) \/ ReadStatus(p) \/ Finish(p)
Next == \E p \in Runs : Step(p)

Spec == Init /\ [][Next]_vars /\ \A p \in Runs : WF_vars(Step(p))

-----------------------------------------------------------------------------
(* OkMeansProved: exit status 0 without a skip means that at least one     *)
(* check ran, that none of those selected was missing, and that each one   *)
(* passed on this invocation's own design ("an empty check set is not a    *)
(* pass"; "a missing one is a failure").                                   *)
OkMeansProved ==
  \A p \in Runs : run[p].exit = "0" =>
    /\ run[p].names # {}
    /\ \A c \in run[p].names : run[p].results[c] = [by |-> p, is |-> "PASS"]

(* BundleWhole: an invocation that runs the whole set never misses an      *)
(* instruction because another one was writing the bundle meanwhile        *)
(* ("written atomically, since parallel invocations share the path").      *)
BundleWhole ==
  \A p \in Runs : run[p].pc = "running" /\ run[p].only = {} => Insns \subseteq run[p].names

(* FailIsVerdict: exit status 1 after checks ran is a failed proof and     *)
(* nothing else, which the mutation harness counts as a catch; a tool that *)
(* died or left no status is 2 (run_mutation.py, run_rvfi).                *)
FailIsVerdict ==
  \A p \in Runs : run[p].exit = "1" /\ run[p].names # {} =>
    /\ Is(p, "FAIL") # {}
    /\ \A c \in run[p].names : run[p].results[c].is \in {"PASS", "FAIL"}

(* FormalVerdictsEarned: zero means that what was asked was proved, the    *)
(* bundle the checks are generated from is whole, and a failure is a       *)
(* check's.                                                                *)
FormalVerdictsEarned == OkMeansProved /\ BundleWhole /\ FailIsVerdict

(* Ends: every invocation ends, whatever the tools do.                     *)
Ends == \A p \in Runs : <>(run[p].pc = "ended")
=============================================================================
