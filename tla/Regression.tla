----------------------------- MODULE Regression -----------------------------
(***************************************************************************)
(* tb/run_regress.py and the runners it starts, one at a time, each under  *)
(* a timeout: the linter (lint_all.py), a cocotb bench (run_cocotb.py),    *)
(* the compliance suite (run_riscof.py) and a property proof               *)
(* (run_formal.py).  What a runner's tool has to look at is a set of       *)
(* items: files and designs, test cases, compliance tests, properties.     *)
(* The tool may also end without having looked, die, or hang.              *)
(***************************************************************************)
EXTENDS Integers, SequencesExt

CONSTANTS
  Tests,            \* the registry, in order
  KindOf,           \* [test -> "lint", "cocotb", "riscof", "formal" or "self"]
  Items,            \* [test -> what its tool finds to look at]
  Excluded          \* the items of the compliance suite excluded by name

VARIABLES
  lacking,          \* tests whose tools or checkouts are not installed
  wrong,            \* items that are wrong in this tree
  results,          \* the results so far
  proc,             \* the runner of the test at hand
  exit              \* the exit status

vars == <<lacking, wrong, results, proc, exit>>

At == Tests[Len(results) + 1]
NoProc == [pc |-> "none", good |-> {}, bad |-> {}, tool |-> "none", rc |-> 0, skip |-> FALSE]

Init ==
  /\ lacking \in SUBSET ToSet(Tests) /\ wrong \in SUBSET UNION {Items[t] : t \in ToSet(Tests)}
  /\ results = <<>> /\ proc = NoProc /\ exit = "none"

\* filter_testlist(): what the compliance suite drops by name.
Selected(t) == IF KindOf[t] = "riscof" THEN Items[t] \ Excluded ELSE Items[t]

-----------------------------------------------------------------------------
(* The runners.                                                            *)

Stay == UNCHANGED <<lacking, wrong, results, exit>>
Going(pc) == proc.pc = pc /\ Len(results) < Len(Tests)
Exits(code, skip) == proc' = [proc EXCEPT !.pc = "exited", !.rc = code, !.skip = skip]

\* A checkout or the suite's own tool is missing: a SKIP line, and exit 0.
\* Afterwards the ISA claims are compared, and the design is built.
SetUp ==
  /\ Going("started") /\ Stay
  /\ CASE KindOf[At] = "self"                        -> Exits(3, FALSE)
       [] KindOf[At] = "riscof" /\ At \in lacking -> Exits(0, TRUE)
       [] OTHER -> proc' = [proc EXCEPT !.pc = "tool"]
\* The two places that state the ISA disagree, or the simulator does not build.
RiscofStops ==
  /\ Going("started") /\ KindOf[At] = "riscof" /\ At \notin lacking
  /\ Exits(1, FALSE) /\ Stay
\* A source is not in the mirrored tree, or the design does not build.
CocotbStops ==
  /\ Going("started") /\ KindOf[At] = "cocotb" /\ At \notin lacking
  /\ Exits(1, FALSE) /\ Stay
\* An executable that is not there is an exception in the runner.
ToolNotFound ==
  /\ Going("tool") /\ At \in lacking /\ Exits(1, FALSE) /\ Stay

Look ==
  /\ Going("tool") /\ At \notin lacking
  /\ \E i \in Selected(At) \ (proc.good \cup proc.bad) :
       proc' = IF i \in wrong THEN [proc EXCEPT !.bad = @ \cup {i}]
               ELSE [proc EXCEPT !.good = @ \cup {i}]
  /\ Stay
\* The tool ends: having looked at everything, at nothing, or part of the way.
ToolEnds ==
  /\ Going("tool") /\ At \notin lacking
  /\ \E how \in {"complete", "nothing", "died"} :
       /\ how = "complete" => proc.good \cup proc.bad = Selected(At)
       /\ how = "nothing" => KindOf[At] \in {"cocotb", "riscof"} /\ proc.good \cup proc.bad = {}
       /\ proc' = [proc EXCEPT !.pc = "judging", !.tool = how]
  /\ Stay

\* The linter: every invocation's exit status.
LintRc == IF proc.bad # {} \/ proc.tool = "died" THEN 1 ELSE 0
\* cocotb: the results file, which a simulation that died did not write.
CocotbSkips == proc.tool = "died"                              \* fault
CocotbSkip == FALSE
CocotbRc == IF proc.tool # "complete" \/ proc.bad # {} THEN 1 ELSE 0
\* riscof: the report, written or not by a run that died, and its exit status.
RiscofNoCount == IF proc.bad # {} \/ proc.tool = "died" THEN 1 ELSE 0   \* fault
RiscofRc ==
  IF proc.bad # {} \/ proc.good = {} \/ proc.tool = "died" THEN 1 ELSE 0
\* sby's own exit status.
FormalRc == IF proc.bad # {} \/ proc.tool = "died" THEN 2 ELSE 0

Judge ==
  /\ Going("judging") /\ Stay
  /\ CASE KindOf[At] = "lint"   -> Exits(LintRc, FALSE)
       [] KindOf[At] = "cocotb" -> Exits(IF CocotbSkip THEN 0 ELSE CocotbRc, CocotbSkip)
       [] KindOf[At] = "riscof" -> Exits(RiscofRc, FALSE)
       [] KindOf[At] = "formal" -> Exits(FormalRc, FALSE)

-----------------------------------------------------------------------------
(* run_one() and main().                                                   *)

Result(status) ==
  /\ results' = Append(results, [test |-> At, status |-> status,
                                 good |-> proc.good, bad |-> proc.bad])
  /\ proc' = NoProc /\ UNCHANGED <<lacking, wrong, exit>>

\* The executables a test requires.  riscof looks for its own.
RequiresNothing(t) == FALSE                                    \* fault
Missing(t) == t \in lacking /\ KindOf[t] \in {"lint", "cocotb", "formal"}
Begin ==
  /\ Going("none")
  /\ \/ Missing(At) /\ Result("SKIP")
     \/ ~Missing(At) /\ proc' = [NoProc EXCEPT !.pc = "started"] /\ Stay

NoTimeout == FALSE                                             \* fault
HasTimeout == TRUE
Timeout ==
  /\ HasTimeout /\ proc.pc \notin {"none", "exited"} /\ Len(results) < Len(Tests)
  /\ Result("FAIL")

Status ==
  CASE KindOf[At] = "self"              -> IF proc.rc # 0 THEN "XFAIL" ELSE "FAIL"
    [] KindOf[At] # "self" /\ proc.skip -> "SKIP"
    [] OTHER                            -> IF proc.rc = 0 THEN "PASS" ELSE "FAIL"
Reap == Going("exited") /\ Result(Status)

Summary ==
  /\ Len(results) = Len(Tests) /\ exit = "none"
  /\ exit' = IF \E k \in DOMAIN results : results[k].status = "FAIL" THEN "1" ELSE "0"
  /\ UNCHANGED <<lacking, wrong, results, proc>>

\* What the runner and run_regress do, and what the tools do.
Own == Begin \/ Timeout \/ Reap \/ Summary
Tool == SetUp \/ RiscofStops \/ CocotbStops \/ ToolNotFound \/ Look \/ ToolEnds \/ Judge
Next == Own \/ Tool

\* Nothing is asked of the tools: they may hang.
Spec == Init /\ [][Next]_vars /\ WF_vars(Own)

-----------------------------------------------------------------------------
ResultsWith(status) == {k \in DOMAIN results : results[k].status = status}

(* GreenIsEarned: a test that passed looked at everything it selects and   *)
(* found nothing wrong; no verdict rests on a file that is not there, a    *)
(* report without tests or a tool's exit status alone (run_cocotb.py,      *)
(* "which is NOT the same as their having passed"; run_riscof.py, "riscof's*)
(* exit code is not the verdict").                                         *)
GreenIsEarned ==
  \A k \in ResultsWith("PASS") :
    /\ results[k].good = Selected(results[k].test) /\ results[k].good # {}
    /\ wrong \cap Selected(results[k].test) = {}

(* SkipHidesNothing: a test reported as skipped could not run; a failure   *)
(* is never reported as one (run_one's reading of the SKIP line).          *)
SkipHidesNothing ==
  \A k \in ResultsWith("SKIP") :
    results[k].test \in lacking /\ results[k].good \cup results[k].bad = {}

(* MissingNotBlamed: "a test whose tools are missing is reported SKIP,     *)
(* never FAIL" (run_regress.py's docstring), though it may yet time out.   *)
MissingNotBlamed ==
  \A k \in DOMAIN results :
    results[k].test \in lacking /\ KindOf[results[k].test] \in {"lint", "cocotb", "formal"}
      => results[k].status = "SKIP"

(* RegressVerdictsEarned: PASS is earned by every item of a test, SKIP     *)
(* hides nothing, and a missing tool is not a failure.                     *)
RegressVerdictsEarned == GreenIsEarned /\ SkipHidesNothing /\ MissingNotBlamed

(* Ends: the regression ends though any tool may hang ("every test is a    *)
(* subprocess with a timeout").                                            *)
Ends == <>(exit # "none")
=============================================================================
