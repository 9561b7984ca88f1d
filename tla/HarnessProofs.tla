--------------------------- MODULE HarnessProofs ---------------------------
(***************************************************************************)
(* Theorems about the programs of the verification harness, as Tools runs  *)
(* them: the regression runner, the riscv-formal runner and the mutation   *)
(* runner, for every registry of tests, every selection of checks and      *)
(* every manifest, whatever the tools they start answer; and the generator *)
(* of random programs, whatever it draws.                                  *)
(***************************************************************************)
EXTENDS Tools, FiniteSets, FiniteSetTheorems, SequenceTheorems, TLAPS

-----------------------------------------------------------------------------
(* OneProgram: the program that runs is the one chosen at the start, and a *)
(* step is a step of that program.                                         *)
LEMMA OneProgram ==
  ASSUME [ToolsNext]_toolsVars
  PROVE  /\ program' = program
         /\ program = "mutation" => [M!Next]_(M!vars)
         /\ program = "formal" => [F!Next]_(F!vars)
         /\ program = "regress" => [R!Next]_(R!vars)
<1>1. CASE MutationNext
  BY <1>1 DEF MutationNext
<1>2. CASE FormalNext
  BY <1>2 DEF FormalNext
<1>3. CASE RegressNext
  BY <1>3 DEF RegressNext
<1>4. CASE RandomNext
  BY <1>4 DEF RandomNext
<1>5. CASE UNCHANGED toolsVars
  BY <1>5 DEF toolsVars, mutationVars, formalVars, regressVars, M!vars, F!vars, R!vars
<1> QED  BY <1>1, <1>2, <1>3, <1>4, <1>5 DEF ToolsNext
-----------------------------------------------------------------------------
(* The regression.                                                         *)

Names == {Tests[i] : i \in DOMAIN Tests}

\* Every registered test is of a known kind, and has something to look at.
RegistryAssumption ==
  /\ Tests \in Seq(Names)
  /\ \A t \in Names :
       /\ KindOf[t] \in {"lint", "cocotb", "riscof", "formal", "self"}
       /\ KindOf[t] \in {"lint", "cocotb", "formal"} => Items[t] # {}

AnyItem == UNION {Items[t] : t \in Names}
Codes == {0, 1, 2, 3}
ProcType ==
  /\ proc \in [pc : {"none", "started", "tool", "judging", "exited"},
               good : SUBSET AnyItem, bad : SUBSET AnyItem,
               tool : {"none", "complete", "nothing", "died"}, rc : Codes, skip : BOOLEAN]
  /\ proc.pc = "none" => proc.good = {} /\ proc.bad = {}
Entry == [test : Names, status : {"PASS", "FAIL", "SKIP", "XFAIL"},
          good : SUBSET AnyItem, bad : SUBSET AnyItem]

LookedAt(good, bad) ==
  /\ good \subseteq R!Selected(R!At) \ wrong
  /\ bad \subseteq R!Selected(R!At) \cap wrong
Clean(good, t) == good = R!Selected(t) /\ good # {} /\ wrong \cap R!Selected(t) = {}

\* The runner of the test at hand, from its start to its exit.
ProcInv ==
  proc.pc # "none" =>
    /\ ~R!Missing(R!At) /\ LookedAt(proc.good, proc.bad)
    /\ proc.pc = "started" => proc.good = {} /\ proc.bad = {}
    /\ proc.pc \in {"tool", "judging"} => KindOf[R!At] # "self"
    /\ R!At \in lacking => proc.good = {} /\ proc.bad = {} /\ proc.pc # "judging"
    /\ proc.pc = "judging" =>
         /\ proc.tool = "complete" => proc.good \cup proc.bad = R!Selected(R!At)
         /\ proc.tool = "nothing" => /\ KindOf[R!At] \in {"cocotb", "riscof"}
                                     /\ proc.good = {} /\ proc.bad = {}
         /\ proc.tool # "none"
    /\ proc.pc = "exited" =>
         /\ proc.skip => R!At \in lacking
         /\ proc.rc = 0 /\ ~proc.skip => Clean(proc.good, R!At)

EntryEarned(r) ==
  /\ r.status = "PASS" => Clean(r.good, r.test)
  /\ r.status = "SKIP" => r.test \in lacking /\ r.good = {} /\ r.bad = {}
  /\ r.test \in lacking /\ KindOf[r.test] \in {"lint", "cocotb", "formal"} => r.status = "SKIP"

RegressInv ==
  /\ ProcType /\ results \in Seq(Entry)
  /\ Len(results) < Len(Tests) => ProcInv
  /\ \A k \in 1 .. Len(results) : EntryEarned(results[k])

(* ExitFields: an exit changes where the runner is, its status and its     *)
(* skip line.                                                              *)
LEMMA ExitFields ==
  ASSUME ProcType, NEW code \in Codes, NEW skip \in BOOLEAN, R!Exits(code, skip)
  PROVE  /\ ProcType'
         /\ proc'.pc = "exited" /\ proc'.rc = code /\ (proc'.skip <=> skip)
         /\ proc'.good = proc.good /\ proc'.bad = proc.bad /\ proc'.tool = proc.tool
<1> DEFINE p1 == [proc EXCEPT !.pc = "exited"]
           p2 == [p1 EXCEPT !.rc = code]
<1>1. proc' = [p2 EXCEPT !.skip = skip]  BY DEF R!Exits
<1>2. p1 \in [pc : {"exited"}, good : SUBSET AnyItem, bad : SUBSET AnyItem,
              tool : {"none", "complete", "nothing", "died"}, rc : Codes, skip : BOOLEAN]
      /\ p1.good = proc.good /\ p1.bad = proc.bad /\ p1.tool = proc.tool
  BY DEF ProcType
<1>3. p2 = [p1 EXCEPT !.rc = code]  OBVIOUS
<1> HIDE DEF p1, p2
<1>4. p2 \in [pc : {"exited"}, good : SUBSET AnyItem, bad : SUBSET AnyItem,
              tool : {"none", "complete", "nothing", "died"}, rc : {code}, skip : BOOLEAN]
      /\ p2.good = proc.good /\ p2.bad = proc.bad /\ p2.tool = proc.tool
  BY <1>2, <1>3
<1>5. proc' \in [pc : {"exited"}, good : SUBSET AnyItem, bad : SUBSET AnyItem,
              tool : {"none", "complete", "nothing", "died"}, rc : {code}, skip : BOOLEAN]
      /\ proc'.good = proc.good /\ proc'.bad = proc.bad /\ proc'.tool = proc.tool
  BY <1>1, <1>4
<1>6. proc'.skip <=> skip
  <2>1. CASE skip
    <3>1. proc' = [p2 EXCEPT !.skip = TRUE]  BY <1>1, <2>1
    <3> QED  BY <1>4, <2>1, <3>1
  <2>2. CASE ~skip
    <3>1. proc' = [p2 EXCEPT !.skip = FALSE]  BY <1>1, <2>2
    <3> QED  BY <1>4, <2>2, <3>1
  <2> QED  BY <2>1, <2>2
<1> QED  BY <1>5, <1>6 DEF ProcType

(* TestAtHand: while results are missing, the test at hand is registered.  *)
LEMMA TestAtHand ==
  ASSUME RegistryAssumption, results \in Seq(Entry), Len(results) < Len(Tests)
  PROVE  R!At \in Names
BY DEF R!At, RegistryAssumption

(* SameTest: while no result is added, the test at hand is the same.       *)
LEMMA SameTest ==
  ASSUME R!Stay
  PROVE  /\ R!At' = R!At /\ results' = results /\ lacking' = lacking /\ wrong' = wrong
         /\ rc' = rc
BY DEF R!Stay, R!At

(* ResultKept: a result that is earned keeps the invariant.                  *)
LEMMA ResultKept ==
  ASSUME RegistryAssumption, RegressInv, Len(results) < Len(Tests),
         NEW s \in {"PASS", "FAIL", "SKIP", "XFAIL"}, R!Result(s),
         s = "PASS" => Clean(proc.good, R!At),
         s = "SKIP" => R!At \in lacking /\ proc.good = {} /\ proc.bad = {},
         R!Missing(R!At) => s = "SKIP"
  PROVE  RegressInv'
<1> DEFINE r == [test |-> R!At, status |-> s, good |-> proc.good, bad |-> proc.bad]
<1>1. /\ results' = Append(results, r) /\ proc' = R!NoProc
      /\ lacking' = lacking /\ wrong' = wrong
  BY DEF R!Result
<1>2. R!At \in Names  BY TestAtHand DEF RegressInv
<1>3. r \in Entry  BY <1>2 DEF Entry, RegressInv, ProcType
<1>4. EntryEarned(r)
  BY DEF EntryEarned, R!Missing
<1> HIDE DEF r
<1>5. ProcType' /\ proc'.pc = "none"
  BY <1>1 DEF R!NoProc, ProcType, Codes
<1>6. /\ results' \in Seq(Entry) /\ Len(results') = Len(results) + 1
      /\ \A k \in 1 .. Len(results) : results'[k] = results[k]
      /\ results'[Len(results) + 1] = r
  BY <1>1, <1>3, AppendProperties DEF RegressInv
<1>7. Len(results) \in Nat  BY DEF RegressInv
<1>8. \A k \in 1 .. Len(results') : EntryEarned(results'[k])
  <2>1. \A k \in 1 .. Len(results') : k \in 1 .. Len(results) \/ k = Len(results) + 1
    BY <1>6, <1>7
  <2> QED  BY <1>4, <1>6, <2>1 DEF RegressInv
<1>9. (\A k \in 1 .. Len(results) : EntryEarned(results[k]))'
  BY <1>1, <1>8 DEF EntryEarned, Clean, R!Selected
<1> QED  BY <1>5, <1>6, <1>9 DEF RegressInv, ProcInv

(* Running: while the test at hand runs, its results are left alone.       *)
LEMMA Running ==
  ASSUME RegressInv, R!Stay, ProcType', ProcInv'
  PROVE  RegressInv'
<1>1. results' = results /\ lacking' = lacking /\ wrong' = wrong  BY SameTest
<1>2. (\A k \in 1 .. Len(results) : EntryEarned(results[k]))'
  BY <1>1 DEF RegressInv, EntryEarned, Clean, R!Selected
<1> QED  BY <1>1, <1>2 DEF RegressInv

(* Exited: an exit that is earned keeps the invariant.                     *)
LEMMA Exited ==
  ASSUME RegressInv, Len(results) < Len(Tests), R!Stay, proc.pc # "none",
         NEW code \in Codes, NEW skip \in BOOLEAN, R!Exits(code, skip),
         skip => R!At \in lacking,
         code = 0 /\ ~skip => Clean(proc.good, R!At)
  PROVE  RegressInv'
<1>1. /\ proc'.pc = "exited" /\ proc'.rc = code /\ (proc'.skip <=> skip)
      /\ proc'.good = proc.good /\ proc'.bad = proc.bad /\ ProcType'
  BY ExitFields DEF RegressInv
<1>2. R!At' = R!At /\ lacking' = lacking /\ wrong' = wrong  BY SameTest
<1>3. ProcInv  BY DEF RegressInv
<1>4. ~R!Missing(R!At)'  BY <1>2, <1>3 DEF ProcInv, R!Missing
<1>5. LookedAt(proc.good, proc.bad)'
  BY <1>1, <1>2, <1>3 DEF ProcInv, LookedAt, R!Selected
<1>6. R!At \in lacking => proc.good = {} /\ proc.bad = {}  BY <1>3 DEF ProcInv
<1>7. code = 0 /\ ~skip => Clean(proc.good, R!At)'
  BY <1>1, <1>2 DEF Clean, R!Selected
<1>8. ProcInv'
  BY <1>1, <1>2, <1>4, <1>5, <1>6, <1>7 DEF ProcInv
<1> QED  BY <1>1, <1>8, Running

(* ToolMoved: a tool that goes on keeps the invariant.                     *)
LEMMA ToolMoved ==
  ASSUME RegistryAssumption, RegressInv, Len(results) < Len(Tests), R!Tool
  PROVE  RegressInv'
<1>1. ProcInv /\ ProcType  BY DEF RegressInv
<1>2. R!At \in Names  BY TestAtHand DEF RegressInv
<1>3. /\ KindOf[R!At] \in {"lint", "cocotb", "riscof", "formal", "self"}
      /\ KindOf[R!At] \in {"lint", "cocotb", "formal"} => Items[R!At] # {}
  BY <1>2 DEF RegistryAssumption
<1>4. /\ \A x : R!Going(x) => proc.pc = x
      /\ {0, 1, 2, 3} \subseteq Codes
  BY DEF R!Going, Codes
<1>5. R!Selected(R!At) \subseteq AnyItem
  BY <1>2 DEF R!Selected, AnyItem
<1>6. CASE R!SetUp
  <2>1. R!Stay /\ proc.pc = "started"  BY <1>4, <1>6 DEF R!SetUp
  <2>2. CASE KindOf[R!At] = "self"
    <3> DEFINE code == 3
    <3>1. R!Exits(code, FALSE)  BY <1>6, <2>2 DEF R!SetUp
    <3>2. code \in Codes /\ code # 0  BY DEF Codes
    <3> HIDE DEF code
    <3> QED  BY <2>1, <3>1, <3>2, Exited
  <2>3. CASE KindOf[R!At] = "riscof" /\ R!At \in lacking
    <3>1. R!Exits(0, TRUE)  BY <1>6, <2>3 DEF R!SetUp
    <3> QED  BY <1>4, <2>1, <2>3, <3>1, Exited
  <2>4. CASE KindOf[R!At] # "self" /\ ~(KindOf[R!At] = "riscof" /\ R!At \in lacking)
    <3>1. proc' = [proc EXCEPT !.pc = "tool"]  BY <1>6, <2>4 DEF R!SetUp
    <3>2. /\ proc'.pc = "tool" /\ proc'.good = proc.good /\ proc'.bad = proc.bad
          /\ ProcType'
      BY <1>1, <3>1 DEF ProcType
    <3>3. ProcInv'
      BY <1>1, <2>1, <2>4, <3>2, SameTest
      DEF ProcInv, LookedAt, R!Missing, R!Selected
    <3> QED  BY <2>1, <3>2, <3>3, Running
  <2> QED  BY <2>2, <2>3, <2>4
<1>7. CASE R!RiscofStops
  <2> DEFINE code == 1
  <2>1. R!Exits(code, FALSE) /\ R!Stay /\ proc.pc # "none"
    BY <1>4, <1>7 DEF R!RiscofStops
  <2>2. code \in Codes /\ code # 0  BY DEF Codes
  <2> HIDE DEF code
  <2> QED  BY <2>1, <2>2, Exited
<1>8. CASE R!CocotbStops
  <2> DEFINE code == 1
  <2>1. R!Exits(code, FALSE) /\ R!Stay /\ proc.pc # "none"
    BY <1>4, <1>8 DEF R!CocotbStops
  <2>2. code \in Codes /\ code # 0  BY DEF Codes
  <2> HIDE DEF code
  <2> QED  BY <2>1, <2>2, Exited
<1>9. CASE R!ToolNotFound
  <2> DEFINE code == 1
  <2>1. R!Exits(code, FALSE) /\ R!Stay /\ proc.pc # "none"
    BY <1>4, <1>9 DEF R!ToolNotFound
  <2>2. code \in Codes /\ code # 0  BY DEF Codes
  <2> HIDE DEF code
  <2> QED  BY <2>1, <2>2, Exited
<1>10. CASE R!Look
  <2>1. R!Stay /\ proc.pc = "tool" /\ R!At \notin lacking  BY <1>4, <1>10 DEF R!Look
  <2>2. PICK i \in R!Selected(R!At) \ (proc.good \cup proc.bad) :
          proc' = IF i \in wrong THEN [proc EXCEPT !.bad = @ \cup {i}]
                  ELSE [proc EXCEPT !.good = @ \cup {i}]
    BY <1>10 DEF R!Look
  <2>3. i \in AnyItem  BY <1>5, <2>2
  <2>4. CASE i \in wrong
    <3>1. /\ proc'.pc = "tool" /\ proc'.good = proc.good /\ proc'.bad = proc.bad \cup {i}
          /\ ProcType'
      BY <1>1, <2>1, <2>2, <2>3, <2>4 DEF ProcType
    <3>2. ProcInv'
      BY <1>1, <2>1, <2>2, <2>4, <3>1, SameTest
      DEF ProcInv, LookedAt, R!Missing, R!Selected
    <3> QED  BY <2>1, <3>1, <3>2, Running
  <2>5. CASE i \notin wrong
    <3>1. /\ proc'.pc = "tool" /\ proc'.good = proc.good \cup {i} /\ proc'.bad = proc.bad
          /\ ProcType'
      BY <1>1, <2>1, <2>2, <2>3, <2>5 DEF ProcType
    <3>2. ProcInv'
      BY <1>1, <2>1, <2>2, <2>5, <3>1, SameTest
      DEF ProcInv, LookedAt, R!Missing, R!Selected
    <3> QED  BY <2>1, <3>1, <3>2, Running
  <2> QED  BY <2>4, <2>5
<1>11. CASE R!ToolEnds
  <2>1. R!Stay /\ proc.pc = "tool" /\ R!At \notin lacking  BY <1>4, <1>11 DEF R!ToolEnds
  <2>2. PICK how \in {"complete", "nothing", "died"} :
          /\ how = "complete" => proc.good \cup proc.bad = R!Selected(R!At)
          /\ how = "nothing" => /\ KindOf[R!At] \in {"cocotb", "riscof"}
                                /\ proc.good \cup proc.bad = {}
          /\ proc' = [proc EXCEPT !.pc = "judging", !.tool = how]
    BY <1>11 DEF R!ToolEnds
  <2> DEFINE p1 == [proc EXCEPT !.pc = "judging"]
  <2>3. proc' = [p1 EXCEPT !.tool = how]  BY <2>2
  <2>4. p1 \in [pc : {"judging"}, good : SUBSET AnyItem, bad : SUBSET AnyItem,
                tool : {"none", "complete", "nothing", "died"}, rc : Codes, skip : BOOLEAN]
        /\ p1.good = proc.good /\ p1.bad = proc.bad
    BY <1>1 DEF ProcType
  <2> HIDE DEF p1
  <2>5. /\ proc'.pc = "judging" /\ proc'.good = proc.good /\ proc'.bad = proc.bad
        /\ proc'.tool = how /\ ProcType'
    BY <2>3, <2>4 DEF ProcType
  <2>6. LookedAt(proc.good, proc.bad)'
    BY <1>1, <2>1, <2>5, SameTest DEF ProcInv, LookedAt, R!Selected
  <2>7. /\ KindOf[R!At] # "self" /\ ~R!Missing(R!At)
        /\ how = "nothing" => proc.good = {} /\ proc.bad = {}
    BY <1>1, <2>1, <2>2 DEF ProcInv
  <2>8. /\ R!At' = R!At /\ R!Selected(R!At)' = R!Selected(R!At)
        /\ R!Missing(R!At)' <=> R!Missing(R!At)
        /\ lacking' = lacking
    BY <2>1, SameTest DEF R!Selected, R!Missing
  <2>9. ProcInv'
    BY <2>1, <2>2, <2>5, <2>6, <2>7, <2>8 DEF ProcInv
  <2> QED  BY <2>1, <2>5, <2>9, Running
<1>12. CASE R!Judge
  <2>1. R!Stay /\ proc.pc = "judging"  BY <1>4, <1>12 DEF R!Judge
  <2>2. /\ R!At \notin lacking /\ KindOf[R!At] # "self"
        /\ LookedAt(proc.good, proc.bad)
        /\ proc.tool = "complete" => proc.good \cup proc.bad = R!Selected(R!At)
        /\ proc.tool = "nothing" => /\ KindOf[R!At] \in {"cocotb", "riscof"}
                                    /\ proc.good = {} /\ proc.bad = {}
        /\ proc.tool \in {"complete", "nothing", "died"}
    BY <1>1, <2>1 DEF ProcInv, ProcType
  <2>3. ASSUME proc.tool = "complete", proc.bad = {}, R!Selected(R!At) # {}
        PROVE  Clean(proc.good, R!At)
    BY <2>2, <2>3 DEF Clean, LookedAt
  <2>4. CASE KindOf[R!At] = "lint"
    <3>1. R!Exits(R!LintRc, FALSE)  BY <1>12, <2>4 DEF R!Judge
    <3>2. R!LintRc \in Codes /\ (R!LintRc = 0 => proc.bad = {} /\ proc.tool # "died")
      BY <1>4 DEF R!LintRc
    <3>3. R!Selected(R!At) # {}  BY <1>3, <2>4 DEF R!Selected
    <3>4. R!LintRc = 0 => Clean(proc.good, R!At)  BY <2>2, <2>3, <2>4, <3>2, <3>3
    <3> QED  BY <2>1, <3>1, <3>2, <3>4, Exited
  <2>5. CASE KindOf[R!At] = "cocotb"
    <3>1. R!Exits(R!CocotbRc, FALSE)  BY <1>12, <2>5 DEF R!Judge, R!CocotbSkip
    <3>2. R!CocotbRc \in Codes /\ (R!CocotbRc = 0 => proc.bad = {} /\ proc.tool = "complete")
      BY <1>4 DEF R!CocotbRc
    <3>3. R!Selected(R!At) # {}  BY <1>3, <2>5 DEF R!Selected
    <3>4. R!CocotbRc = 0 => Clean(proc.good, R!At)  BY <2>3, <3>2, <3>3
    <3> QED  BY <2>1, <3>1, <3>2, <3>4, Exited
  <2>6. CASE KindOf[R!At] = "riscof"
    <3>1. R!Exits(R!RiscofRc, FALSE)  BY <1>12, <2>6 DEF R!Judge
    <3>2. /\ R!RiscofRc \in Codes
          /\ R!RiscofRc = 0 => proc.bad = {} /\ proc.good # {} /\ proc.tool # "died"
      BY <1>4 DEF R!RiscofRc
    <3>3. R!RiscofRc = 0 => proc.tool = "complete" /\ R!Selected(R!At) # {}
      BY <2>2, <3>2 DEF LookedAt
    <3>4. R!RiscofRc = 0 => Clean(proc.good, R!At)  BY <2>3, <3>2, <3>3
    <3> QED  BY <2>1, <3>1, <3>2, <3>4, Exited
  <2>7. CASE KindOf[R!At] = "formal"
    <3>1. R!Exits(R!FormalRc, FALSE)  BY <1>12, <2>7 DEF R!Judge
    <3>2. R!FormalRc \in Codes /\ (R!FormalRc = 0 => proc.bad = {} /\ proc.tool # "died")
      BY <1>4 DEF R!FormalRc
    <3>3. R!Selected(R!At) # {}  BY <1>3, <2>7 DEF R!Selected
    <3>4. R!FormalRc = 0 => Clean(proc.good, R!At)  BY <2>2, <2>3, <2>7, <3>2, <3>3
    <3> QED  BY <2>1, <3>1, <3>2, <3>4, Exited
  <2> QED  BY <1>3, <2>2, <2>4, <2>5, <2>6, <2>7
<1> QED  BY <1>6, <1>7, <1>8, <1>9, <1>10, <1>11, <1>12 DEF R!Tool

(* OwnMoved: what run_regress does itself keeps the invariant.             *)
LEMMA OwnMoved ==
  ASSUME RegistryAssumption, RegressInv, R!Own
  PROVE  RegressInv'
<1>1. CASE R!Begin
  <2>1. Len(results) < Len(Tests) /\ proc.pc = "none"  BY <1>1 DEF R!Begin, R!Going
  <2>2. CASE R!Missing(R!At) /\ R!Result("SKIP")
    <3>1. proc.good = {} /\ proc.bad = {} /\ R!At \in lacking
      BY <2>1, <2>2 DEF RegressInv, ProcType, R!Missing
    <3> QED  BY <2>1, <2>2, <3>1, ResultKept
  <2>3. CASE ~R!Missing(R!At) /\ proc' = [R!NoProc EXCEPT !.pc = "started"] /\ R!Stay
    <3>1. /\ ProcType' /\ proc'.pc = "started" /\ proc'.good = {} /\ proc'.bad = {}
      BY <2>3 DEF R!NoProc, ProcType, Codes
    <3>2. ProcInv'
      BY <2>3, <3>1, SameTest DEF ProcInv, LookedAt, R!Missing
    <3> QED  BY <2>3, <3>1, <3>2, Running
  <2> QED  BY <1>1, <2>2, <2>3 DEF R!Begin
<1>2. CASE R!Timeout
  <2>1. Len(results) < Len(Tests) /\ proc.pc # "none" /\ R!Result("FAIL")
    BY <1>2 DEF R!Timeout
  <2>2. ~R!Missing(R!At)  BY <2>1 DEF RegressInv, ProcInv
  <2> QED  BY <2>1, <2>2, ResultKept
<1>3. CASE R!Reap
  <2>1. Len(results) < Len(Tests) /\ proc.pc = "exited" /\ R!Result(R!Status)
    BY <1>3 DEF R!Reap, R!Going
  <2>2. /\ ~R!Missing(R!At)
        /\ proc.skip => R!At \in lacking
        /\ R!At \in lacking => proc.good = {} /\ proc.bad = {}
        /\ proc.rc = 0 /\ ~proc.skip => Clean(proc.good, R!At)
    BY <2>1 DEF RegressInv, ProcInv
  <2>3. CASE KindOf[R!At] = "self"
    <3>1. R!Status = IF proc.rc # 0 THEN "XFAIL" ELSE "FAIL"
      BY <2>3, Zenon DEF R!Status
    <3>2. R!Status \in {"XFAIL", "FAIL"}  BY <3>1
    <3> QED  BY <2>1, <2>2, <3>2, ResultKept
  <2>4. CASE KindOf[R!At] # "self" /\ proc.skip
    <3>1. R!Status = "SKIP"  BY <2>4, Zenon DEF R!Status
    <3> QED  BY <2>1, <2>2, <2>4, <3>1, ResultKept
  <2>5. CASE KindOf[R!At] # "self" /\ ~proc.skip
    <3>1. R!Status = IF proc.rc = 0 THEN "PASS" ELSE "FAIL"
      BY <2>5, Zenon DEF R!Status
    <3>2. R!Status \in {"PASS", "FAIL"} /\ (R!Status = "PASS" => proc.rc = 0)
      BY <3>1
    <3> QED  BY <2>1, <2>2, <2>5, <3>2, ResultKept
  <2> QED  BY <2>3, <2>4, <2>5
<1>4. CASE R!Summary
  <2>1. UNCHANGED <<lacking, wrong, results, proc>>  BY <1>4 DEF R!Summary
  <2> QED
    BY <2>1 DEF RegressInv, ProcType, ProcInv, EntryEarned, Clean, LookedAt,
       R!At, R!Selected, R!Missing
<1> QED  BY <1>1, <1>2, <1>3, <1>4 DEF R!Own

(* VerdictsRest: the invariant is about every entry of the report.         *)
LEMMA VerdictsRest ==
  ASSUME RegressInv
  PROVE  R!RegressVerdictsEarned
<1>1. \A k \in DOMAIN results : EntryEarned(results[k])
  BY DEF RegressInv
<1>2. R!GreenIsEarned
  BY <1>1 DEF R!GreenIsEarned, R!ResultsWith, EntryEarned, Clean
<1>3. R!SkipHidesNothing
  BY <1>1 DEF R!SkipHidesNothing, R!ResultsWith, EntryEarned
<1>4. R!MissingNotBlamed
  BY <1>1 DEF R!MissingNotBlamed, EntryEarned
<1> QED  BY <1>2, <1>3, <1>4 DEF R!RegressVerdictsEarned

(* RegressKept: RegressInv is inductive.                                   *)
LEMMA RegressKept ==
  ASSUME RegistryAssumption
  PROVE  /\ R!Init => RegressInv
         /\ RegressInv /\ [R!Next]_(R!vars) => RegressInv'
<1>1. R!Init => RegressInv
  BY DEF R!Init, RegressInv, R!NoProc, ProcType, ProcInv, Codes
<1>2. RegressInv /\ [R!Next]_(R!vars) => RegressInv'
  <2> SUFFICES ASSUME RegressInv, [R!Next]_(R!vars)  PROVE RegressInv'
    OBVIOUS
  <2>1. CASE R!Own  BY <2>1, OwnMoved
  <2>2. CASE R!Tool
    <3>1. Len(results) < Len(Tests)
      BY <2>2 DEF R!Tool, R!SetUp, R!RiscofStops, R!CocotbStops, R!ToolNotFound,
         R!Look, R!ToolEnds, R!Judge, R!Going
    <3> QED  BY <2>2, <3>1, ToolMoved
  <2>3. CASE UNCHANGED R!vars
    BY <2>3 DEF R!vars, RegressInv, ProcType, ProcInv, EntryEarned, Clean, LookedAt,
       R!At, R!Selected, R!Missing
  <2> QED  BY <2>1, <2>2, <2>3 DEF R!Next
<1> QED  BY <1>1, <1>2

(* GreenEarned: in every run over every registry, with any tools missing   *)
(* and any items wrong, PASS is earned by every item, SKIP hides nothing,  *)
(* and a missing tool is not a failure.                                    *)
THEOREM GreenEarned ==
  ASSUME RegistryAssumption
  PROVE  ToolsSpec => []RegressVerdictsEarned
<1> DEFINE Inv == program = "regress" => RegressInv
<1>1. ToolsInit => Inv  BY RegressKept DEF ToolsInit
<1>2. Inv /\ [ToolsNext]_toolsVars => Inv'  BY RegressKept, OneProgram
<1>3. Inv => RegressVerdictsEarned  BY VerdictsRest DEF RegressVerdictsEarned
<1> QED  BY <1>1, <1>2, <1>3, PTL DEF ToolsSpec

-----------------------------------------------------------------------------
(* The riscv-formal runner.                                                *)

\* Each invocation is given a core directory of its own.
OwnDirectories == \A p, q \in Runs : CoreName[p] = CoreName[q] => p = q

Checks == Insns \cup Others
Steps == {"start", "writing", "written", "generate", "select", "running", "ended"}
Status == [by : Runs, is : F!Verdicts]
Results == UNION {[D -> Status] : D \in SUBSET Checks}
Invocation ==
  [pc : Steps, only : UNION {Only[p] : p \in Runs}, names : SUBSET Checks,
   active : SUBSET Checks, results : Results,
   exit : {"none", "skip", "stopped", "0", "1", "2"}]

FormalType ==
  /\ bundle \in {"absent", "whole"} /\ tmp \in [Runs -> {"absent", "part", "whole"}]
  /\ run \in [Runs -> Invocation]

\* What an invocation reads is whole, and its own.
Sourced(p) ==
  /\ run[p].pc = "written" => tmp[p] = "whole"
  /\ run[p].pc = "generate" => bundle = "whole"
  /\ run[p].pc \in {"select", "running"} =>
       /\ F!Dir(p) \in DOMAIN checks
       /\ checks[F!Dir(p)].owner = p /\ checks[F!Dir(p)].names = Checks
  /\ \A c : <<F!Dir(p), c>> \in DOMAIN status =>
       status[<<F!Dir(p), c>>] \in [by : {p}, is : F!Verdicts]

\* The selection, what of it runs, and what of it has a verdict.
Selected(p) ==
  /\ run[p].active \subseteq run[p].names \ DOMAIN run[p].results
  /\ DOMAIN run[p].results \subseteq run[p].names
  /\ \A c \in DOMAIN run[p].results : run[p].results[c].by = p
  /\ run[p].active # {} => run[p].pc = "running"
  /\ run[p].pc \notin {"running", "ended"} => run[p].names = {}
  /\ run[p].pc = "running" =>
       run[p].names # {} /\ (run[p].only = {} => Insns \subseteq run[p].names)

\* The exit status, against the verdicts.
Justified(p) ==
  /\ run[p].exit # "none" => run[p].pc = "ended"
  /\ run[p].exit = "0" =>
       /\ run[p].names # {} /\ DOMAIN run[p].results = run[p].names
       /\ \A c \in run[p].names : run[p].results[c].is = "PASS"
  /\ run[p].exit = "1" /\ run[p].names # {} =>
       /\ DOMAIN run[p].results = run[p].names
       /\ \A c \in run[p].names : run[p].results[c].is \in {"PASS", "FAIL"}
       /\ \E c \in run[p].names : run[p].results[c].is = "FAIL"

FormalInv ==
  FormalType /\ \A p \in Runs : Sourced(p) /\ Selected(p) /\ Justified(p)

OthersStay(p) == \A q \in Runs \ {p} : run'[q] = run[q]

(* FieldSet: an invocation with a field set is an invocation.              *)
LEMMA FieldSet ==
  ASSUME NEW r \in Invocation
  PROVE  /\ \A at \in Steps : [r EXCEPT !.pc = at] \in Invocation
         /\ \A names \in SUBSET Checks : [r EXCEPT !.names = names] \in Invocation
         /\ \A active \in SUBSET Checks : [r EXCEPT !.active = active] \in Invocation
         /\ \A more \in Results : [r EXCEPT !.results = more] \in Invocation
BY DEF Invocation

(* GotoRun, ExitRun, SelectRun, StartRun, ReadRun: what each way of going  *)
(* on changes of an invocation.                                            *)
LEMMA GotoRun ==
  ASSUME FormalType, NEW p \in Runs, NEW at \in Steps, F!Goto(p, at)
  PROVE  /\ run' \in [Runs -> Invocation] /\ OthersStay(p)
         /\ run'[p].pc = at /\ run'[p].only = run[p].only /\ run'[p].names = run[p].names
         /\ run'[p].active = run[p].active /\ run'[p].results = run[p].results
         /\ run'[p].exit = run[p].exit
<1>1. run' = [run EXCEPT ![p].pc = at]  BY DEF F!Goto
<1>2. run[p] \in Invocation  BY DEF FormalType
<1>3. run'[p] = [run[p] EXCEPT !.pc = at]  BY <1>1 DEF FormalType
<1>4. run'[p] \in Invocation  BY <1>2, <1>3 DEF Invocation
<1>5. run' \in [Runs -> Invocation]
  BY <1>1, <1>3, <1>4 DEF FormalType
<1> QED  BY <1>1, <1>2, <1>3, <1>5 DEF FormalType, OthersStay, Invocation

LEMMA ExitRun ==
  ASSUME FormalType, NEW p \in Runs, NEW code \in {"skip", "stopped", "0", "1", "2"},
         F!Exit(p, code)
  PROVE  /\ run' \in [Runs -> Invocation] /\ OthersStay(p)
         /\ run'[p].pc = "ended" /\ run'[p].only = run[p].only
         /\ run'[p].names = run[p].names /\ run'[p].active = run[p].active
         /\ run'[p].results = run[p].results /\ run'[p].exit = code
<1> DEFINE r1 == [run EXCEPT ![p].pc = "ended"]
<1>1. run' = [r1 EXCEPT ![p].exit = code]  BY DEF F!Exit
<1>2. run[p] \in Invocation  BY DEF FormalType
<1>3. r1[p] = [run[p] EXCEPT !.pc = "ended"] /\ \A q \in Runs \ {p} : r1[q] = run[q]
  BY DEF FormalType
<1>4. r1[p] \in Invocation  BY <1>2, <1>3 DEF Invocation, Steps
<1>5. r1 \in [Runs -> Invocation]  BY <1>3, <1>4 DEF FormalType
<1> HIDE DEF r1
<1>6. run'[p] = [r1[p] EXCEPT !.exit = code] /\ \A q \in Runs \ {p} : run'[q] = r1[q]
  BY <1>1, <1>5
<1>7. run'[p] \in Invocation  BY <1>4, <1>6 DEF Invocation
<1>8. run' \in [Runs -> Invocation]  BY <1>1, <1>5, <1>6, <1>7
<1>9. /\ r1[p].pc = "ended" /\ r1[p].only = run[p].only /\ r1[p].names = run[p].names
      /\ r1[p].active = run[p].active /\ r1[p].results = run[p].results
  BY <1>2, <1>3 DEF Invocation
<1> QED  BY <1>3, <1>4, <1>6, <1>8, <1>9 DEF OthersStay, Invocation

LEMMA SelectRun ==
  ASSUME FormalType, NEW p \in Runs, NEW names \in SUBSET Checks,
         run' = [run EXCEPT ![p].names = names, ![p].pc = "running"]
  PROVE  /\ run' \in [Runs -> Invocation] /\ OthersStay(p)
         /\ run'[p].pc = "running" /\ run'[p].only = run[p].only
         /\ run'[p].names = names /\ run'[p].active = run[p].active
         /\ run'[p].results = run[p].results /\ run'[p].exit = run[p].exit
<1> DEFINE r1 == [run EXCEPT ![p].names = names]
<1>1. run' = [r1 EXCEPT ![p].pc = "running"]  OBVIOUS
<1>2. run[p] \in Invocation  BY DEF FormalType
<1>3. r1[p] = [run[p] EXCEPT !.names = names] /\ \A q \in Runs \ {p} : r1[q] = run[q]
  BY DEF FormalType
<1>4. r1[p] \in Invocation  BY <1>2, <1>3 DEF Invocation
<1>5. r1 \in [Runs -> Invocation]  BY <1>3, <1>4 DEF FormalType
<1> HIDE DEF r1
<1>6. run'[p] = [r1[p] EXCEPT !.pc = "running"] /\ \A q \in Runs \ {p} : run'[q] = r1[q]
  BY <1>1, <1>5
<1>7. run'[p] \in Invocation  BY <1>4, <1>6, FieldSet DEF Steps
<1>8. run' \in [Runs -> Invocation]  BY <1>1, <1>5, <1>6, <1>7
<1>9. /\ r1[p].names = names /\ r1[p].only = run[p].only /\ r1[p].exit = run[p].exit
      /\ r1[p].active = run[p].active /\ r1[p].results = run[p].results
  BY <1>2, <1>3 DEF Invocation
<1> QED  BY <1>3, <1>4, <1>6, <1>8, <1>9 DEF OthersStay, Invocation

LEMMA StartRun ==
  ASSUME FormalType, NEW p \in Runs, NEW c \in Checks,
         run' = [run EXCEPT ![p].active = @ \cup {c}]
  PROVE  /\ run' \in [Runs -> Invocation] /\ OthersStay(p)
         /\ run'[p].pc = run[p].pc /\ run'[p].only = run[p].only
         /\ run'[p].names = run[p].names /\ run'[p].active = run[p].active \cup {c}
         /\ run'[p].results = run[p].results /\ run'[p].exit = run[p].exit
<1>2. run[p] \in Invocation  BY DEF FormalType
<1>3. run'[p] = [run[p] EXCEPT !.active = run[p].active \cup {c}]
      /\ \A q \in Runs \ {p} : run'[q] = run[q]
  BY DEF FormalType
<1>4. run[p].active \cup {c} \in SUBSET Checks  BY <1>2 DEF Invocation
<1>5. run'[p] \in Invocation  BY <1>2, <1>3, <1>4 DEF Invocation
<1>6. run' \in [Runs -> Invocation]  BY <1>3, <1>5 DEF FormalType
<1> QED  BY <1>2, <1>3, <1>6 DEF OthersStay, Invocation

LEMMA ReadRun ==
  ASSUME FormalType, NEW p \in Runs, NEW c \in Checks, NEW v \in Status,
         run' = [run EXCEPT ![p].active = @ \ {c}, ![p].results = F!Put(@, c, v)]
  PROVE  /\ run' \in [Runs -> Invocation] /\ OthersStay(p)
         /\ run'[p].pc = run[p].pc /\ run'[p].only = run[p].only
         /\ run'[p].names = run[p].names /\ run'[p].active = run[p].active \ {c}
         /\ run'[p].results = F!Put(run[p].results, c, v) /\ run'[p].exit = run[p].exit
<1> DEFINE r1 == [run EXCEPT ![p].active = @ \ {c}]
           more == F!Put(run[p].results, c, v)
<1>1. run' = [r1 EXCEPT ![p].results = F!Put(@, c, v)]  OBVIOUS
<1>2. run[p] \in Invocation  BY DEF FormalType
<1>3. r1[p] = [run[p] EXCEPT !.active = run[p].active \ {c}]
      /\ \A q \in Runs \ {p} : r1[q] = run[q]
  BY DEF FormalType
<1>4. run[p].active \ {c} \in SUBSET Checks  BY <1>2 DEF Invocation
<1>5. r1[p] \in Invocation  BY <1>2, <1>3, <1>4 DEF Invocation
<1>6. r1 \in [Runs -> Invocation]  BY <1>3, <1>5 DEF FormalType
<1>7. /\ r1[p].active = run[p].active \ {c} /\ r1[p].only = run[p].only
      /\ r1[p].exit = run[p].exit /\ r1[p].names = run[p].names
      /\ r1[p].pc = run[p].pc /\ r1[p].results = run[p].results
  BY <1>2, <1>3 DEF Invocation
<1>8. more \in Results
  <2>1. PICK D \in SUBSET Checks : run[p].results \in [D -> Status]
    BY <1>2 DEF Invocation, Results
  <2>2. more \in [D \cup {c} -> Status]  BY <2>1 DEF F!Put
  <2>3. D \cup {c} \in SUBSET Checks  BY <2>1
  <2> QED  BY <2>2, <2>3 DEF Results
<1> HIDE DEF r1, more
<1>9. run'[p] = [r1[p] EXCEPT !.results = more] /\ \A q \in Runs \ {p} : run'[q] = r1[q]
  BY <1>1, <1>6, <1>7 DEF more
<1>10. run'[p] \in Invocation  BY <1>5, <1>8, <1>9, FieldSet
<1>11. run' \in [Runs -> Invocation]  BY <1>1, <1>6, <1>9, <1>10
<1> QED  BY <1>3, <1>5, <1>7, <1>9, <1>11 DEF OthersStay, Invocation, more

\* What a step of p leaves to the other invocations.
ActsAlone(p) ==
  /\ OthersStay(p) /\ \A q \in Runs \ {p} : tmp'[q] = tmp[q]
  /\ bundle = "whole" => bundle' = "whole"
  /\ \A q \in Runs \ {p} : F!Dir(q) \in DOMAIN checks =>
       F!Dir(q) \in DOMAIN checks' /\ checks'[F!Dir(q)] = checks[F!Dir(q)]
  /\ \A q \in Runs \ {p} : \A c : <<F!Dir(q), c>> \in DOMAIN status' =>
       /\ <<F!Dir(q), c>> \in DOMAIN status
       /\ status'[<<F!Dir(q), c>>] = status[<<F!Dir(q), c>>]

LEMMA OthersKeep ==
  ASSUME FormalInv, NEW p \in Runs, ActsAlone(p), FormalType',
         Sourced(p)', Selected(p)', Justified(p)'
  PROVE  FormalInv'
<1>1. ASSUME NEW q \in Runs \ {p}  PROVE Sourced(q)' /\ Selected(q)' /\ Justified(q)'
  <2>1. run'[q] = run[q] /\ tmp'[q] = tmp[q]  BY DEF ActsAlone, OthersStay
  <2>2. Sourced(q) /\ Selected(q) /\ Justified(q)  BY DEF FormalInv
  <2>3. Selected(q)'  BY <2>1, <2>2 DEF Selected
  <2>4. Justified(q)'  BY <2>1, <2>2 DEF Justified
  <2>5. Sourced(q)'
    <3>1. /\ run'[q].pc = "written" => tmp'[q] = "whole"
          /\ run'[q].pc = "generate" => bundle' = "whole"
      BY <2>1, <2>2 DEF Sourced, ActsAlone
    <3>2. run'[q].pc \in {"select", "running"} =>
            /\ F!Dir(q) \in DOMAIN checks'
            /\ checks'[F!Dir(q)].owner = q /\ checks'[F!Dir(q)].names = Checks
      BY <2>1, <2>2 DEF Sourced, ActsAlone
    <3>3. \A c : <<F!Dir(q), c>> \in DOMAIN status' =>
            status'[<<F!Dir(q), c>>] \in [by : {q}, is : F!Verdicts]
      BY <2>2 DEF Sourced, ActsAlone
    <3>4. F!Dir(q)' = F!Dir(q)  BY DEF F!Dir
    <3> QED  BY <3>1, <3>2, <3>3, <3>4 DEF Sourced, F!Dir
  <2> QED  BY <2>3, <2>4, <2>5
<1>2. \A q \in Runs : q = p \/ q \in Runs \ {p}  OBVIOUS
<1> QED  BY <1>1, <1>2 DEF FormalInv

(* Skipping: a step that leaves the files alone.                           *)
LEMMA FilesKept ==
  ASSUME FormalInv, NEW p \in Runs, OthersStay(p), UNCHANGED <<bundle, tmp, checks, status>>
  PROVE  ActsAlone(p)
BY DEF ActsAlone

(* Stopped: an exit before any check ran is of no verdict.                 *)
LEMMA Stopped ==
  ASSUME FormalInv, NEW p \in Runs, NEW code \in {"skip", "stopped", "1"},
         run[p].pc \in {"start", "generate", "select"},
         F!Exit(p, code), UNCHANGED <<bundle, tmp, checks, status>>
  PROVE  FormalInv'
<1>1. /\ run' \in [Runs -> Invocation] /\ OthersStay(p)
      /\ run'[p].pc = "ended" /\ run'[p].names = run[p].names
      /\ run'[p].active = run[p].active
      /\ run'[p].results = run[p].results /\ run'[p].exit = code
  BY ExitRun DEF FormalInv
<1>2. Sourced(p) /\ Selected(p)  BY DEF FormalInv
<1>3. run[p].names = {} /\ run[p].active = {}  BY <1>2 DEF Selected
<1>4. FormalType'  BY <1>1 DEF FormalInv, FormalType
<1>5. Sourced(p)'
  BY <1>1, <1>2 DEF Sourced, F!Dir
<1>6. Selected(p)'
  BY <1>1, <1>2, <1>3 DEF Selected
<1>7. Justified(p)'  BY <1>1, <1>3 DEF Justified
<1> QED  BY <1>1, <1>4, <1>5, <1>6, <1>7, FilesKept, OthersKeep

(* Moved: a change of place that leaves the selection alone.               *)
LEMMA Moved ==
  ASSUME FormalInv, NEW p \in Runs, NEW at \in Steps \ {"running", "ended"},
         F!Goto(p, at), run[p].pc \notin {"running", "ended"}
  PROVE  /\ run' \in [Runs -> Invocation] /\ OthersStay(p) /\ run'[p].pc = at
         /\ Selected(p)' /\ Justified(p)'
<1>1. /\ run' \in [Runs -> Invocation] /\ OthersStay(p)
      /\ run'[p].pc = at /\ run'[p].names = run[p].names
      /\ run'[p].active = run[p].active
      /\ run'[p].results = run[p].results /\ run'[p].exit = run[p].exit
  BY GotoRun DEF FormalInv
<1>2. Selected(p) /\ Justified(p)  BY DEF FormalInv
<1>3. run[p].names = {} /\ run[p].active = {} /\ run[p].exit = "none"
  <2>1. run[p] \in Invocation  BY DEF FormalInv, FormalType
  <2> QED  BY <1>2, <2>1 DEF Selected, Justified, Invocation
<1> QED  BY <1>1, <1>2, <1>3 DEF Selected, Justified

(* Bundled: writing the bundle ends with a whole one under its name.       *)
LEMMA Bundled ==
  ASSUME FormalInv, NEW p \in Runs,
         F!OpenBundle(p) \/ F!WriteBundle(p) \/ F!RenameBundle(p)
  PROVE  FormalInv'
<1>1. FormalType /\ Sourced(p)  BY DEF FormalInv
<1>2. CASE F!OpenBundle(p)
  <2>1. /\ run[p].pc = "start" /\ F!Goto(p, "writing")
        /\ tmp' = [tmp EXCEPT ![p] = "part"] /\ UNCHANGED <<bundle, checks, status>>
    BY <1>2 DEF F!OpenBundle, F!Begin
  <2>2. /\ run' \in [Runs -> Invocation] /\ OthersStay(p) /\ run'[p].pc = "writing"
        /\ Selected(p)' /\ Justified(p)'
    BY <2>1, Moved DEF Steps
  <2>3. FormalType' /\ \A q \in Runs \ {p} : tmp'[q] = tmp[q]
    BY <1>1, <2>1, <2>2 DEF FormalType
  <2>4. ActsAlone(p)  BY <2>1, <2>2, <2>3 DEF ActsAlone
  <2>5. Sourced(p)'  BY <1>1, <2>1, <2>2 DEF Sourced, F!Dir
  <2> QED  BY <2>2, <2>3, <2>4, <2>5, OthersKeep
<1>3. CASE F!WriteBundle(p)
  <2>1. /\ run[p].pc = "writing" /\ F!Goto(p, "written")
        /\ tmp' = [tmp EXCEPT ![p] = "whole"] /\ UNCHANGED <<bundle, checks, status>>
    BY <1>3 DEF F!WriteBundle
  <2>2. /\ run' \in [Runs -> Invocation] /\ OthersStay(p) /\ run'[p].pc = "written"
        /\ Selected(p)' /\ Justified(p)'
    BY <2>1, Moved DEF Steps
  <2>3. FormalType' /\ tmp'[p] = "whole" /\ \A q \in Runs \ {p} : tmp'[q] = tmp[q]
    BY <1>1, <2>1, <2>2 DEF FormalType
  <2>4. ActsAlone(p)  BY <2>1, <2>2, <2>3 DEF ActsAlone
  <2>5. Sourced(p)'  BY <1>1, <2>1, <2>2, <2>3 DEF Sourced, F!Dir
  <2> QED  BY <2>2, <2>3, <2>4, <2>5, OthersKeep
<1>4. CASE F!RenameBundle(p)
  <2>1. /\ run[p].pc = "written" /\ F!Goto(p, "generate")
        /\ bundle' = tmp[p] /\ tmp' = [tmp EXCEPT ![p] = "absent"]
        /\ UNCHANGED <<checks, status>>
    BY <1>4 DEF F!RenameBundle
  <2>2. /\ run' \in [Runs -> Invocation] /\ OthersStay(p) /\ run'[p].pc = "generate"
        /\ Selected(p)' /\ Justified(p)'
    BY <2>1, Moved DEF Steps
  <2>3. bundle' = "whole"  BY <1>1, <2>1 DEF Sourced
  <2>4. FormalType' /\ \A q \in Runs \ {p} : tmp'[q] = tmp[q]
    BY <1>1, <2>1, <2>2, <2>3 DEF FormalType
  <2>5. ActsAlone(p)  BY <2>1, <2>2, <2>3, <2>4 DEF ActsAlone
  <2>6. Sourced(p)'  BY <1>1, <2>1, <2>2, <2>3 DEF Sourced, F!Dir
  <2> QED  BY <2>2, <2>4, <2>5, <2>6, OthersKeep
<1> QED  BY <1>2, <1>3, <1>4

(* GeneratedAll: the checks of a whole bundle are all of them, in the      *)
(* invocation's own directory.                                             *)
LEMMA GeneratedAll ==
  ASSUME OwnDirectories, FormalInv, NEW p \in Runs, F!Generate(p)
  PROVE  FormalInv'
<1>1. FormalType /\ Sourced(p)  BY DEF FormalInv
<1>2. /\ run[p].pc = "generate" /\ F!Goto(p, "select") /\ UNCHANGED <<bundle, tmp>>
      /\ \E names \in F!Generated(p) :
           checks' = F!Put(checks, F!Dir(p), [owner |-> p, names |-> names])
      /\ status' = [x \in {y \in DOMAIN status : y[1] # F!Dir(p)} |-> status[x]]
  BY DEF F!Generate
<1>3. bundle = "whole"  BY <1>1, <1>2 DEF Sourced
<1>4. F!Generated(p) = {Checks}  BY <1>3, Zenon DEF F!Generated, Checks
<1>5. checks' = F!Put(checks, F!Dir(p), [owner |-> p, names |-> Checks])  BY <1>2, <1>4
<1>6. /\ run' \in [Runs -> Invocation] /\ OthersStay(p) /\ run'[p].pc = "select"
      /\ Selected(p)' /\ Justified(p)'
  BY <1>2, Moved DEF Steps
<1>7. FormalType'  BY <1>1, <1>2, <1>6 DEF FormalType
<1>8. /\ F!Dir(p) \in DOMAIN checks'
      /\ checks'[F!Dir(p)].owner = p /\ checks'[F!Dir(p)].names = Checks
  BY <1>5 DEF F!Put
<1>9. \A c : <<F!Dir(p), c>> \notin DOMAIN status'
  BY <1>2
<1>10. Sourced(p)'  BY <1>6, <1>8, <1>9 DEF Sourced, F!Dir
<1>11. \A q \in Runs \ {p} : F!Dir(q) # F!Dir(p)  BY DEF OwnDirectories, F!Dir
<1>12. \A q \in Runs \ {p} : F!Dir(q) \in DOMAIN checks =>
         F!Dir(q) \in DOMAIN checks' /\ checks'[F!Dir(q)] = checks[F!Dir(q)]
  BY <1>5, <1>11 DEF F!Put
<1>13. \A q \in Runs \ {p} : \A c : <<F!Dir(q), c>> \in DOMAIN status' =>
         /\ <<F!Dir(q), c>> \in DOMAIN status
         /\ status'[<<F!Dir(q), c>>] = status[<<F!Dir(q), c>>]
  BY <1>2
<1>14. ActsAlone(p)  BY <1>2, <1>6, <1>12, <1>13 DEF ActsAlone
<1> QED  BY <1>6, <1>7, <1>10, <1>14, OthersKeep

(* Discovered: nothing is run unless something is selected.                *)
LEMMA Discovered ==
  ASSUME FormalInv, NEW p \in Runs, F!Discover(p)
  PROVE  FormalInv'
<1> DEFINE names == IF run[p].only = {} THEN checks[F!Dir(p)].names
                    ELSE checks[F!Dir(p)].names \cap run[p].only
<1>1. FormalType /\ Sourced(p) /\ Selected(p) /\ Justified(p)  BY DEF FormalInv
<1>2. run[p].pc = "select" /\ F!Select(p, names) /\ UNCHANGED <<bundle, tmp, checks, status>>
  BY DEF F!Discover
<1>3. checks[F!Dir(p)].names = Checks  BY <1>1, <1>2 DEF Sourced
<1>4. names \in SUBSET Checks /\ (run[p].only = {} => Insns \subseteq names)
  BY <1>3 DEF Checks
<1> HIDE DEF names
<1>5. CASE names = {}
  <2>1. F!Exit(p, "1")  BY <1>2, <1>5 DEF F!Select
  <2> QED  BY <1>2, <2>1, Stopped
<1>6. CASE names # {}
  <2>1. run' = [run EXCEPT ![p].names = names, ![p].pc = "running"]
    BY <1>2, <1>6 DEF F!Select
  <2>2. /\ run' \in [Runs -> Invocation] /\ OthersStay(p)
        /\ run'[p].pc = "running" /\ run'[p].only = run[p].only
        /\ run'[p].names = names /\ run'[p].active = run[p].active
        /\ run'[p].results = run[p].results /\ run'[p].exit = run[p].exit
    BY <1>1, <1>4, <2>1, SelectRun
  <2>3. run[p].active = {} /\ DOMAIN run[p].results = {} /\ run[p].exit = "none"
    <3>1. run[p] \in Invocation  BY <1>1 DEF FormalType
    <3> QED  BY <1>1, <1>2, <3>1 DEF Selected, Justified, Invocation
  <2>4. Selected(p)'  BY <1>1, <1>4, <1>6, <2>2, <2>3 DEF Selected
  <2>5. Justified(p)'  BY <2>2, <2>3 DEF Justified
  <2>6. Sourced(p)'  BY <1>1, <1>2, <2>2 DEF Sourced, F!Dir
  <2>7. FormalType'  BY <1>1, <1>2, <2>2 DEF FormalType
  <2> QED  BY <1>2, <2>2, <2>4, <2>5, <2>6, <2>7, FilesKept, OthersKeep
<1> QED  BY <1>5, <1>6

(* CheckStarted: a check starts without a status from before.              *)
LEMMA CheckStarted ==
  ASSUME FormalInv, NEW p \in Runs, F!StartCheck(p)
  PROVE  FormalInv'
<1>1. FormalType /\ Sourced(p) /\ Selected(p) /\ Justified(p)  BY DEF FormalInv
<1>2. PICK c \in run[p].names \ (run[p].active \cup DOMAIN run[p].results) :
        /\ run' = [run EXCEPT ![p].active = @ \cup {c}]
        /\ status' = [x \in DOMAIN status \ {<<F!Dir(p), c>>} |-> status[x]]
  BY DEF F!StartCheck
<1>3. run[p].pc = "running" /\ UNCHANGED <<bundle, tmp, checks>>  BY DEF F!StartCheck
<1>4. c \in Checks  BY <1>1, <1>2 DEF FormalType, Invocation
<1>5. /\ run' \in [Runs -> Invocation] /\ OthersStay(p)
      /\ run'[p].pc = run[p].pc /\ run'[p].only = run[p].only
      /\ run'[p].names = run[p].names /\ run'[p].active = run[p].active \cup {c}
      /\ run'[p].results = run[p].results /\ run'[p].exit = run[p].exit
  BY <1>1, <1>2, <1>4, StartRun
<1>6. \A x \in DOMAIN status' : x \in DOMAIN status /\ status'[x] = status[x]  BY <1>2
<1>7. Selected(p)'  BY <1>1, <1>2, <1>3, <1>5 DEF Selected
<1>8. Justified(p)'  BY <1>1, <1>5 DEF Justified
<1>9. Sourced(p)'  BY <1>1, <1>3, <1>5, <1>6 DEF Sourced, F!Dir
<1>10. FormalType'  BY <1>1, <1>3, <1>5 DEF FormalType
<1>11. ActsAlone(p)  BY <1>3, <1>5, <1>6 DEF ActsAlone
<1> QED  BY <1>7, <1>8, <1>9, <1>10, <1>11, OthersKeep

(* SbyJudged: a tool's status is about the invocation's own design.        *)
LEMMA SbyJudged ==
  ASSUME OwnDirectories, FormalInv, NEW p \in Runs, F!SbyEnds(p)
  PROVE  FormalInv'
<1>1. FormalType /\ Sourced(p) /\ Selected(p) /\ Justified(p)  BY DEF FormalInv
<1>2. PICK c \in run[p].active, v \in F!Verdicts \ {"NO-STATUS"} :
        status' = F!Put(status, <<F!Dir(p), c>>, [by |-> checks[F!Dir(p)].owner, is |-> v])
  BY DEF F!SbyEnds
<1>3. UNCHANGED <<bundle, tmp, checks, run>>  BY DEF F!SbyEnds
<1>4. run[p].pc = "running"  BY <1>1, <1>2 DEF Selected
<1>5. checks[F!Dir(p)].owner = p  BY <1>1, <1>4 DEF Sourced
<1> DEFINE at == <<F!Dir(p), c>>
           verdict == [by |-> p, is |-> v]
<1>6. /\ \A x \in DOMAIN status' : x = at \/ (x \in DOMAIN status /\ status'[x] = status[x])
      /\ status'[at] = verdict
  <2>1. status' = F!Put(status, at, verdict)  BY <1>2, <1>5
  <2> HIDE DEF at, verdict
  <2>2. /\ DOMAIN status' = DOMAIN status \cup {at}
        /\ \A x \in DOMAIN status \cup {at} : status'[x] = IF x = at THEN verdict ELSE status[x]
    BY <2>1 DEF F!Put
  <2> QED  BY <2>2
<1>7. \A d : <<F!Dir(p), d>> \in DOMAIN status' =>
        status'[<<F!Dir(p), d>>] \in [by : {p}, is : F!Verdicts]
  <2> SUFFICES ASSUME NEW d, <<F!Dir(p), d>> \in DOMAIN status'
               PROVE  status'[<<F!Dir(p), d>>] \in [by : {p}, is : F!Verdicts]
    OBVIOUS
  <2>1. CASE <<F!Dir(p), d>> = at  BY <1>6, <2>1
  <2>2. CASE <<F!Dir(p), d>> # at
    <3>1. <<F!Dir(p), d>> \in DOMAIN status
          /\ status'[<<F!Dir(p), d>>] = status[<<F!Dir(p), d>>]
      BY <1>6, <2>2
    <3> QED  BY <1>1, <3>1 DEF Sourced
  <2> QED  BY <2>1, <2>2
<1>8. Sourced(p)'  BY <1>1, <1>3, <1>7 DEF Sourced, F!Dir
<1>9. Selected(p)' /\ Justified(p)'  BY <1>1, <1>3 DEF Selected, Justified
<1>10. FormalType' /\ OthersStay(p)  BY <1>1, <1>3 DEF FormalType, OthersStay
<1>11. \A q \in Runs \ {p} : F!Dir(q) # F!Dir(p)  BY DEF OwnDirectories, F!Dir
<1>12. \A q \in Runs \ {p} : \A d : <<F!Dir(q), d>> # at  BY <1>11
<1>13. ActsAlone(p)  BY <1>3, <1>6, <1>10, <1>12 DEF ActsAlone
<1> QED  BY <1>8, <1>9, <1>10, <1>13, OthersKeep

(* StatusRead: a verdict is the status's, or that there is none.           *)
LEMMA StatusRead ==
  ASSUME FormalInv, NEW p \in Runs, F!ReadStatus(p)
  PROVE  FormalInv'
<1>1. FormalType /\ Sourced(p) /\ Selected(p) /\ Justified(p)  BY DEF FormalInv
<1>2. PICK c \in run[p].active :
        run' = [run EXCEPT ![p].active = @ \ {c},
                           ![p].results = F!Put(@, c,
                             IF <<F!Dir(p), c>> \in DOMAIN status
                             THEN status[<<F!Dir(p), c>>] ELSE [by |-> p, is |-> "NO-STATUS"])]
  BY DEF F!ReadStatus
<1>3. UNCHANGED <<bundle, tmp, checks, status>>  BY DEF F!ReadStatus
<1> DEFINE v == IF <<F!Dir(p), c>> \in DOMAIN status
                THEN status[<<F!Dir(p), c>>] ELSE [by |-> p, is |-> "NO-STATUS"]
<1>4. run[p].pc = "running" /\ c \in run[p].names /\ c \in Checks
  BY <1>1, <1>2 DEF Selected, FormalType, Invocation
<1>5. v.by = p /\ v \in Status
  BY <1>1 DEF Sourced, Status, F!Verdicts
<1> HIDE DEF v
<1>6. run' = [run EXCEPT ![p].active = @ \ {c}, ![p].results = F!Put(@, c, v)]
  BY <1>2 DEF v
<1>7. /\ run' \in [Runs -> Invocation] /\ OthersStay(p)
      /\ run'[p].pc = run[p].pc /\ run'[p].only = run[p].only
      /\ run'[p].names = run[p].names /\ run'[p].active = run[p].active \ {c}
      /\ run'[p].results = F!Put(run[p].results, c, v) /\ run'[p].exit = run[p].exit
  BY <1>1, <1>4, <1>5, <1>6, ReadRun
<1>8. Selected(p)'
  <2>1. DOMAIN run'[p].results = DOMAIN run[p].results \cup {c}  BY <1>7 DEF F!Put
  <2>2. \A d \in DOMAIN run'[p].results : run'[p].results[d].by = p
    BY <1>1, <1>5, <1>7, <2>1 DEF F!Put, Selected
  <2> QED  BY <1>1, <1>4, <1>7, <2>1, <2>2 DEF Selected
<1>9. Justified(p)'
  <2>1. run[p].exit = "none"
    <3>1. run[p] \in Invocation  BY <1>1 DEF FormalType
    <3> QED  BY <1>1, <1>4, <3>1 DEF Justified, Invocation
  <2> QED  BY <1>7, <2>1 DEF Justified
<1>10. Sourced(p)'  BY <1>1, <1>3, <1>7 DEF Sourced, F!Dir
<1>11. FormalType'  BY <1>1, <1>3, <1>7 DEF FormalType
<1> QED  BY <1>3, <1>7, <1>8, <1>9, <1>10, <1>11, FilesKept, OthersKeep

(* Summed: the exit status is the verdicts'.                               *)
LEMMA Summed ==
  ASSUME FormalInv, NEW p \in Runs, F!Finish(p)
  PROVE  FormalInv'
<1>1. FormalType /\ Sourced(p) /\ Selected(p) /\ Justified(p)  BY DEF FormalInv
<1> DEFINE code == CASE F!Broken(p) # {} -> "2"
                     [] F!Broken(p) = {} /\ F!Is(p, "PASS") # DOMAIN run[p].results -> "1"
                     [] OTHER -> "0"
<1>2. /\ run[p].pc = "running" /\ DOMAIN run[p].results = run[p].names
      /\ F!Exit(p, code) /\ UNCHANGED <<bundle, tmp, checks, status>>
  BY DEF F!Finish, F!Finished
<1>3. /\ F!Broken(p) # {} => code = "2"
      /\ F!Broken(p) = {} /\ F!Is(p, "PASS") # DOMAIN run[p].results => code = "1"
      /\ F!Broken(p) = {} /\ F!Is(p, "PASS") = DOMAIN run[p].results => code = "0"
  BY Zenon
<1> HIDE DEF code
<1>4. code \in {"skip", "stopped", "0", "1", "2"}  BY <1>3
<1>5. /\ run' \in [Runs -> Invocation] /\ OthersStay(p)
      /\ run'[p].pc = "ended" /\ run'[p].names = run[p].names
      /\ run'[p].active = run[p].active
      /\ run'[p].results = run[p].results /\ run'[p].exit = code
  BY <1>1, <1>2, <1>4, ExitRun
<1>6. run[p].names # {} /\ run[p].active = {}  BY <1>1, <1>2 DEF Selected
<1>7. code \in {"0", "1"} => F!Broken(p) = {}  BY <1>3
<1>8. code = "0" => \A c \in run[p].names : run[p].results[c].is = "PASS"
  BY <1>2, <1>3 DEF F!Is
<1>9. code \in {"0", "1"} =>
        \A c \in run[p].names : run[p].results[c].is \in {"PASS", "FAIL"}
  BY <1>2, <1>7 DEF F!Broken, F!Is
<1>10. code = "1" => \E c \in run[p].names : run[p].results[c].is = "FAIL"
  BY <1>2, <1>3, <1>9 DEF F!Is
<1>11. Justified(p)'  BY <1>2, <1>5, <1>6, <1>8, <1>9, <1>10 DEF Justified
<1>12. Selected(p)'  BY <1>1, <1>2, <1>5, <1>6 DEF Selected
<1>13. Sourced(p)'  BY <1>1, <1>2, <1>5 DEF Sourced, F!Dir
<1>14. FormalType'  BY <1>1, <1>2, <1>5 DEF FormalType
<1> QED  BY <1>2, <1>5, <1>11, <1>12, <1>13, <1>14, FilesKept, OthersKeep

(* FormalKept: FormalInv is inductive, and says what is earned.            *)
LEMMA FormalKept ==
  ASSUME OwnDirectories
  PROVE  /\ F!Init => FormalInv
         /\ FormalInv /\ [F!Next]_(F!vars) => FormalInv'
         /\ FormalInv => F!FormalVerdictsEarned
<1>1. F!Init => FormalInv
  <2> SUFFICES ASSUME F!Init  PROVE FormalInv  OBVIOUS
  <2>1. /\ bundle \in {"absent", "whole"} /\ tmp = [p \in Runs |-> "absent"]
        /\ checks = <<>> /\ status = <<>>
    BY DEF F!Init
  <2>2. PICK sel \in [Runs -> UNION {Only[p] : p \in Runs}] :
          run = [p \in Runs |-> F!NewRun(sel[p])]
    BY DEF F!Init
  <2>3. \A p \in Runs : /\ run[p].pc = "start" /\ run[p].names = {} /\ run[p].active = {}
                        /\ run[p].results = <<>> /\ run[p].exit = "none"
    BY <2>2 DEF F!NewRun
  <2>4. <<>> \in Results
    <3>1. <<>> \in [{} -> Status] /\ {} \in SUBSET Checks  OBVIOUS
    <3> QED  BY <3>1 DEF Results
  <2>5. \A p \in Runs : F!NewRun(sel[p]) \in Invocation
    BY <2>2, <2>4 DEF F!NewRun, Invocation, Steps
  <2>6. FormalType  BY <2>1, <2>2, <2>5 DEF FormalType
  <2>7. ASSUME NEW p \in Runs  PROVE Sourced(p) /\ Selected(p) /\ Justified(p)
    <3>1. DOMAIN run[p].results = {} /\ DOMAIN status = {}  BY <2>1, <2>3
    <3> QED  BY <2>3, <3>1 DEF Sourced, Selected, Justified
  <2> QED  BY <2>6, <2>7 DEF FormalInv
<1>2. FormalInv /\ [F!Next]_(F!vars) => FormalInv'
  <2> SUFFICES ASSUME FormalInv, [F!Next]_(F!vars)  PROVE FormalInv'
    OBVIOUS
  <2>1. CASE F!Next
    <3>1. PICK p \in Runs : F!Step(p)  BY <2>1 DEF F!Next
    <3>2. CASE F!Skip(p)  BY <3>2, Stopped DEF F!Skip
    <3>3. CASE F!PartMissing(p)  BY <3>3, Stopped DEF F!PartMissing
    <3>4. CASE F!OpenBundle(p) \/ F!WriteBundle(p) \/ F!RenameBundle(p)
      BY <3>4, Bundled
    <3>5. CASE F!Generate(p)  BY <3>5, GeneratedAll
    <3>6. CASE F!GenerateFails(p)  BY <3>6, Stopped DEF F!GenerateFails
    <3>7. CASE F!Discover(p)  BY <3>7, Discovered
    <3>8. CASE F!StartCheck(p)  BY <3>8, CheckStarted
    <3>9. CASE F!SbyEnds(p)  BY <3>9, SbyJudged
    <3>10. CASE F!ReadStatus(p)  BY <3>10, StatusRead
    <3>11. CASE F!Finish(p)  BY <3>11, Summed
    <3> QED
      BY <3>1, <3>2, <3>3, <3>4, <3>5, <3>6, <3>7, <3>8, <3>9, <3>10, <3>11 DEF F!Step
  <2>2. CASE UNCHANGED F!vars
    BY <2>2 DEF F!vars, FormalInv, FormalType, Sourced, Selected, Justified, F!Dir
  <2> QED  BY <2>1, <2>2
<1>3. FormalInv => F!FormalVerdictsEarned
  <2> SUFFICES ASSUME FormalInv  PROVE F!FormalVerdictsEarned  OBVIOUS
  <2>1. \A p \in Runs : Selected(p) /\ Justified(p) /\ run[p] \in Invocation
    BY DEF FormalInv, FormalType
  <2>2. ASSUME NEW p \in Runs, NEW c \in DOMAIN run[p].results
        PROVE  run[p].results[c] = [by |-> p, is |-> run[p].results[c].is]
    <3>1. run[p].results[c] \in Status  BY <2>1 DEF Invocation, Results
    <3>2. run[p].results[c].by = p  BY <2>1 DEF Selected
    <3> QED  BY <3>1, <3>2 DEF Status
  <2>3. F!OkMeansProved  BY <2>1, <2>2 DEF F!OkMeansProved, Justified
  <2>4. F!BundleWhole  BY <2>1 DEF F!BundleWhole, Selected
  <2>5. F!FailIsVerdict  BY <2>1 DEF F!FailIsVerdict, F!Is, Justified
  <2> QED  BY <2>3, <2>4, <2>5 DEF F!FormalVerdictsEarned
<1> QED  BY <1>1, <1>2, <1>3

(* ProofsEarned: in every run of any number of invocations that have     *)
(* core directories of their own, with any checks, selections and pool,    *)
(* exit status 0 is a proof of everything selected on the invocation's own *)
(* design, the whole set is whole, and 1 is a failed proof.                *)
THEOREM ProofsEarned ==
  ASSUME OwnDirectories
  PROVE  ToolsSpec => []FormalVerdictsEarned
<1> DEFINE Inv == program = "formal" => FormalInv
<1>1. ToolsInit => Inv  BY FormalKept DEF ToolsInit
<1>2. Inv /\ [ToolsNext]_toolsVars => Inv'  BY FormalKept, OneProgram
<1>3. Inv => FormalVerdictsEarned  BY FormalKept DEF FormalVerdictsEarned
<1> QED  BY <1>1, <1>2, <1>3, PTL DEF ToolsSpec

-----------------------------------------------------------------------------
(* The mutation harness.                                                   *)

\* A manifest of named mutations, each with catchers of the known kinds.
ManifestAssumption ==
  /\ Manifest \in Seq(M!Muts) /\ Catchers \in [M!Muts -> Seq(M!Kinds)]
  /\ IsFiniteSet(M!Kinds) /\ Jobs \in Nat \ {0}
  /\ Exe \cap Rvfi = {} /\ Exe \cap Cocotb = {} /\ Rvfi \cap Cocotb = {}
  /\ M!Muts \cap M!Kinds = {} /\ M!Base \notin M!Muts
  /\ M!ExeGroup \notin M!Muts \cup M!Kinds

Tasks == M!BaseTasks \cup M!Muts
Working == {"mirror", "build", "test", "prepared", "raising"}
Job ==
  [pc : Working \cup {"queued", "raised", "done"}, left : Seq(M!Kinds),
   passed : SUBSET M!Kinds, failed : SUBSET M!Kinds,
   verdict : {"none", "NO-OP", "BUILD-ERR", "UNCHECKED", "ESCAPED", "PARTIAL", "CAUGHT"}]

(* MutInv, the inductive invariant, in named parts.                        *)

Says(t, k, answers) == M!Says(M!DesignOf(t), k, answers)
Known == {"pass", "fail", "broken"}
TruthKnown == \A x \in DOMAIN truth : truth[x] \in Known

\* A job past its mirror, and past its build, has an edit that applies.
Applied(m) ==
  /\ task[m].pc = "build" => defect[m] # "ambiguous"
  /\ \/ task[m].pc \in {"test", "prepared", "raising", "raised"}
     \/ task[m].pc = "done" /\ task[m].verdict \notin M!Problems
     => defect[m] \notin {"ambiguous", "noBuild"}
  /\ task[m].pc = "done" /\ task[m].verdict \notin M!Problems =>
       task[m].passed = {} /\ task[m].failed = M!ToSet(Catchers[m])

\* What a task prepared is still there when it runs it, unless another
\* job may have built the same design since.
Here(t) == M!Place(M!DesignOf(t), Head(task[t].left))
Pair(x) == x = <<x[1], x[2]>>
Shares(t) == M!SharedBuild(t, Head(task[t].left))
Prepared(t) ==
  task[t].pc = "prepared" =>
    /\ task[t].left # <<>> /\ Here(t) \in DOMAIN held /\ Pair(held[Here(t)])
    /\ Shares(t) \/ held[Here(t)] = <<M!DesignOf(t), Head(task[t].left)>>

\* A task has reported what its design's tools say, and has the rest to do.
Reported(t) ==
  /\ task[t].passed \cup task[t].failed \cup M!ToSet(task[t].left) = M!ToSet(M!KindsOf(t))
  /\ \A k \in task[t].passed : M!SharedBuild(t, k) \/ Says(t, k, {"pass"})
  /\ \A k \in task[t].failed : M!SharedBuild(t, k) \/ Says(t, k, {"fail", "broken"})

JobInv(t) ==
  /\ task[t] \in Job
  /\ task[t].pc = "queued" => task[t] = M!NewTask(t)
  /\ Reported(t) /\ Prepared(t)
  /\ t \in M!Muts => Applied(t)

\* How far main() is bounds what the tasks can be doing.
Before == {"anchors", "anchorsOnly", "setup", "fixtures"}
Edits == {"none", "stale", "ambiguous", "noBuild"}
PhaseInv ==
  /\ defect \in [M!Muts \cup {M!Base} -> Edits]
  /\ phase \in Before => \A t \in Tasks : task[t].pc = "queued"
  /\ phase = "baseline" => \A m \in M!Muts : task[m].pc = "queued"
  /\ phase = "mutations" \/ (\E m \in M!Muts : task[m].pc # "queued") =>
       M!BaselineClean /\ M!Stale = {}
  /\ phase \in {"setup", "fixtures", "baseline"} => M!Stale = {}
  /\ phase \in {"finally", "ended"} => M!Active = {}

\* The pool; with one process, a job that raised ends the run.
PoolInv ==
  /\ Cardinality(M!Active) <= Jobs
  /\ Jobs = 1 /\ (\E m \in M!Muts : task[m].pc = "raised") => M!Active = {}

DiskInv ==
  /\ \A p \in DOMAIN held, m \in M!Muts : M!InJob(p, m) => m \in M!Active
  /\ phase \in Before => held = <<>>
  /\ phase = "ended" => \A p \in DOMAIN held : ~M!UnderWork(p)

Untouched == \A t \in Tasks : task[t] = M!NewTask(t)
ExitInv ==
  exit = "0" =>
    /\ phase \in {"finally", "ended"}
    /\ \/ Untouched
       \/ \A m \in M!Muts : task[m].pc = "done" /\ task[m].verdict \notin M!Problems

MutInv ==
  /\ DOMAIN task = Tasks /\ TruthKnown /\ \A t \in Tasks : JobInv(t)
  /\ PhaseInv /\ PoolInv /\ DiskInv /\ ExitInv

-----------------------------------------------------------------------------
(* ListSet: the elements of a list are those of its head and its tail.     *)
LEMMA ListSet ==
  ASSUME NEW T, NEW s \in Seq(T)
  PROVE  /\ M!ToSet(s) \subseteq T /\ M!ToSet(<<>>) = {}
         /\ s # <<>> => /\ Head(s) \in M!ToSet(s) /\ Tail(s) \in Seq(T)
                        /\ M!ToSet(s) = {Head(s)} \cup M!ToSet(Tail(s))
<1>1. M!ToSet(s) \subseteq T /\ M!ToSet(<<>>) = {}  BY ElementOfSeq DEF M!ToSet
<1>2. ASSUME s # <<>>
      PROVE  /\ Head(s) \in M!ToSet(s) /\ Tail(s) \in Seq(T)
             /\ M!ToSet(s) = {Head(s)} \cup M!ToSet(Tail(s))
  <2>1. Len(s) \in Nat \ {0} /\ DOMAIN s = 1 .. Len(s)  BY <1>2, EmptySeq, LenProperties
  <2>2. /\ Head(s) = s[1] /\ Tail(s) \in Seq(T) /\ Len(Tail(s)) = Len(s) - 1
        /\ \A i \in 1 .. Len(s) - 1 : Tail(s)[i] = s[i + 1]
    BY <1>2, HeadTailProperties
  <2>3. DOMAIN Tail(s) = 1 .. Len(s) - 1  BY <2>2, LenProperties
  <2>4. ASSUME NEW x \in M!ToSet(s)  PROVE x \in {Head(s)} \cup M!ToSet(Tail(s))
    <3>1. PICK i \in 1 .. Len(s) : x = s[i]  BY <2>1 DEF M!ToSet
    <3>2. CASE i = 1  BY <2>2, <3>1, <3>2
    <3>3. CASE i # 1
      <4> DEFINE j == i - 1
      <4>1. j \in 1 .. Len(s) - 1 /\ j + 1 = i  BY <2>1, <3>1, <3>3
      <4>2. Tail(s)[j] = x  BY <2>2, <3>1, <4>1
      <4> QED  BY <2>3, <4>1, <4>2 DEF M!ToSet
    <3> QED  BY <3>2, <3>3
  <2>5. ASSUME NEW x \in M!ToSet(Tail(s))  PROVE x \in M!ToSet(s)
    <3>1. PICK i \in 1 .. Len(s) - 1 : x = Tail(s)[i]  BY <2>3 DEF M!ToSet
    <3>2. i + 1 \in 1 .. Len(s) /\ s[i + 1] = x  BY <2>1, <2>2, <3>1
    <3> QED  BY <2>1, <3>2 DEF M!ToSet
  <2>6. Head(s) \in M!ToSet(s)  BY <2>1, <2>2 DEF M!ToSet
  <2> QED  BY <2>2, <2>4, <2>5, <2>6
<1> QED  BY <1>1, <1>2

(* SeqOfSet: the listing of a finite set has all of its elements.          *)
LEMMA SeqOfSet ==
  ASSUME NEW T, IsFiniteSet(T)
  PROVE  M!SetToSeq(T) \in Seq(T) /\ M!ToSet(M!SetToSeq(T)) = T
<1> DEFINE n == Cardinality(T)
           Lists(f) == f \in [1 .. n -> T] /\ M!IsInjective(f)
           s == M!SetToSeq(T)
<1>1. n \in Nat /\ ExistsBijection(1 .. n, T)  BY FS_CardinalityType
<1>2. M!Cardinality(T) = n  BY DEF M!Cardinality, Cardinality
<1>3. PICK b : b \in Bijection(1 .. n, T)  BY <1>1 DEF ExistsBijection
<1>4. \E f \in [1 .. n -> T] : M!IsInjective(f)
  BY <1>3 DEF Bijection, Injection, Surjection, IsInjective, M!IsInjective
<1>5. s = CHOOSE f \in [1 .. n -> T] : M!IsInjective(f)  BY <1>2 DEF M!SetToSeq
<1> HIDE DEF n, s
<1>6. s \in [1 .. n -> T] /\ M!IsInjective(s)  BY <1>4, <1>5
<1>7. s \in Injection(1 .. n, T)
  BY <1>6 DEF Injection, IsInjective, M!IsInjective
<1>8. IsFiniteSet(1 .. n) /\ Cardinality(1 .. n) = n  BY <1>1, FS_Interval
<1>9. s \in Surjection(1 .. n, T)  BY <1>7, <1>8, FS_Injection DEF n
<1>10. M!ToSet(s) = T  BY <1>6, <1>9 DEF M!ToSet, Surjection
<1>11. s \in Seq(T)  BY <1>1, <1>6
<1> QED  BY <1>10, <1>11 DEF s

(* KindsListed: the kinds of a task are a list of known kinds.  A baseline *)
(* task runs the programs on the shared image, or is named after its kind. *)
LEMMA KindsListed ==
  ASSUME ManifestAssumption, NEW t \in Tasks
  PROVE  /\ M!KindsOf(t) \in Seq(M!Kinds) /\ IsFiniteSet(Tasks)
         /\ t \in M!Muts => M!DesignOf(t) = t
         /\ t \in M!BaseTasks => /\ t \notin M!Muts /\ M!DesignOf(t) = M!Base
         /\ t \in M!BaseTasks => \A k \in M!ToSet(M!KindsOf(t)) :
              (k \in Exe /\ t = M!ExeGroup) \/ (k \notin Exe /\ t = k)
         /\ \A k \in M!Wanted : \E u \in M!BaseTasks : k \in M!ToSet(M!KindsOf(u))
<1> DEFINE Shared == M!Wanted \cap Exe
<1>1. M!Wanted \subseteq M!Kinds
  <2> SUFFICES ASSUME NEW m \in M!Muts  PROVE M!ToSet(Catchers[m]) \subseteq M!Kinds
    BY DEF M!Wanted
  <2>1. Catchers[m] \in Seq(M!Kinds)  BY DEF ManifestAssumption
  <2> QED  BY <2>1, ListSet
<1>2. IsFiniteSet(M!Wanted) /\ IsFiniteSet(Shared)
  BY <1>1, FS_Subset DEF ManifestAssumption
<1>3. M!SetToSeq(Shared) \in Seq(Shared) /\ M!ToSet(M!SetToSeq(Shared)) = Shared
  BY <1>2, SeqOfSet
<1> DEFINE shared == M!SetToSeq(Shared)
<1>4. shared \in Seq(M!Kinds)
  <2>1. Shared \subseteq M!Kinds  BY <1>1
  <2> HIDE DEF shared, Shared
  <2> QED  BY <1>3, <2>1, SeqMonotonic DEF shared
<1>5. M!BaseTasks \subseteq M!Kinds \cup {M!ExeGroup}  BY <1>1 DEF M!BaseTasks
<1>6. M!BaseTasks \cap M!Muts = {} /\ M!ExeGroup \notin M!Muts
  BY <1>5 DEF ManifestAssumption
<1>7. \A u \in M!BaseTasks :
        M!KindsOf(u) = IF u = M!ExeGroup THEN shared ELSE <<u>>
  BY <1>6 DEF M!KindsOf
<1>8. \A u : M!ToSet(<<u>>) = {u}  BY DEF M!ToSet
<1>9. \A m \in M!Muts : M!KindsOf(m) = Catchers[m] /\ Catchers[m] \in Seq(M!Kinds)
  BY <1>6 DEF M!KindsOf, ManifestAssumption
<1>10. ASSUME NEW u \in M!BaseTasks  PROVE M!KindsOf(u) \in Seq(M!Kinds)
  <2>1. CASE u = M!ExeGroup  BY <1>4, <1>7, <2>1
  <2>2. CASE u # M!ExeGroup
    <3>1. u \in M!Kinds /\ M!KindsOf(u) = <<u>>  BY <1>5, <1>7, <2>2
    <3>2. <<u>> \in Seq(M!Kinds)  BY <3>1
    <3> QED  BY <3>1, <3>2
  <2> QED  BY <2>1, <2>2
<1>11. IsFiniteSet(Tasks)
  <2>1. IsFiniteSet(M!Muts)
    <3>1. Len(Manifest) \in Nat /\ DOMAIN Manifest = 1 .. Len(Manifest)
      BY LenProperties DEF ManifestAssumption
    <3>2. IsFiniteSet(1 .. Len(Manifest))  BY <3>1, FS_Interval
    <3>3. M!Muts = {Manifest[i] : i \in 1 .. Len(Manifest)}  BY <3>1 DEF M!Muts, M!ToSet
    <3>4. Manifest \in [1 .. Len(Manifest) -> M!Muts]
      BY <3>1, LenProperties DEF ManifestAssumption
    <3>5. Manifest \in Surjection(1 .. Len(Manifest), M!Muts)
      BY <3>3, <3>4 DEF Surjection
    <3> QED  BY <3>2, <3>5, FS_Surjection
  <2>2. M!BaseTasks \subseteq M!Wanted \cup {M!ExeGroup}  BY DEF M!BaseTasks
  <2>3. IsFiniteSet(M!Wanted \cup {M!ExeGroup})  BY <1>2, FS_AddElement
  <2>4. IsFiniteSet(M!BaseTasks)  BY <2>2, <2>3, FS_Subset
  <2> QED  BY <2>1, <2>4, FS_Union DEF Tasks
<1>12. ASSUME NEW u \in M!BaseTasks, NEW k \in M!ToSet(M!KindsOf(u))
       PROVE  (k \in Exe /\ u = M!ExeGroup) \/ (k \notin Exe /\ u = k)
  <2>1. CASE u = M!ExeGroup  BY <1>3, <1>7, <2>1
  <2>2. CASE u # M!ExeGroup
    <3>1. u \notin Exe  BY <2>2 DEF M!BaseTasks
    <3> QED  BY <1>7, <1>8, <2>2, <3>1
  <2> QED  BY <2>1, <2>2
<1>13. ASSUME NEW k \in M!Wanted  PROVE \E u \in M!BaseTasks : k \in M!ToSet(M!KindsOf(u))
  <2>1. CASE k \in Exe
    <3>1. M!ExeGroup \in M!BaseTasks  BY <2>1 DEF M!BaseTasks
    <3> QED  BY <1>3, <1>7, <2>1, <3>1
  <2>2. CASE k \notin Exe
    <3>1. k \in M!BaseTasks /\ k # M!ExeGroup
      BY <1>1, <2>2 DEF M!BaseTasks, ManifestAssumption
    <3> QED  BY <1>7, <1>8, <3>1
  <2> QED  BY <2>1, <2>2
<1>14. /\ t \in M!Muts => M!DesignOf(t) = t
       /\ t \in M!BaseTasks => M!DesignOf(t) = M!Base
  BY <1>6 DEF M!DesignOf
<1> HIDE DEF Shared, shared
<1>15. M!KindsOf(t) \in Seq(M!Kinds)  BY <1>9, <1>10 DEF Tasks
<1> QED  BY <1>6, <1>11, <1>12, <1>13, <1>14, <1>15

(* PlaceOwn: two tests work in one place only if they are of one design    *)
(* and share its image or are the same, or both build one cocotb design.   *)
LEMMA PlaceForm ==
  ASSUME ManifestAssumption, NEW d, NEW k \in M!Kinds
  PROVE  \/ k \in Exe /\ M!Place(d, k) = <<"job", d>>
         \/ k \in Rvfi /\ M!Place(d, k) = <<"core", d, k>>
         \/ k \in Cocotb /\ M!Place(d, k) = <<"tmp", k>>
         \/ M!Place(d, k) = <<"job", d, k>>
<1>1. /\ k \in Exe => k \notin Rvfi /\ k \notin Cocotb
      /\ k \in Rvfi => k \notin Cocotb
  BY DEF ManifestAssumption
<1>2. CASE k \in Exe  BY <1>1, <1>2 DEF M!Place
<1>3. CASE k \in Rvfi  BY <1>1, <1>3 DEF M!Place
<1>4. CASE k \in Cocotb  BY <1>1, <1>4 DEF M!Place
<1>5. CASE k \notin Exe \cup Rvfi \cup Cocotb
  <2>1. k \notin Exe /\ k \notin Rvfi /\ k \notin Cocotb  BY <1>5
  <2>2. M!Place(d, k) = <<"job", d, k>>  BY <2>1, Zenon DEF M!Place
  <2> QED  BY <2>2
<1> QED  BY <1>2, <1>3, <1>4, <1>5

LEMMA PlaceOwn ==
  ASSUME ManifestAssumption, NEW d, NEW e, NEW k \in M!Kinds, NEW l \in M!Kinds,
         M!Place(d, k) = M!Place(e, l)
  PROVE  \/ d = e /\ (k = l \/ (k \in Exe /\ l \in Exe))
         \/ k = l /\ k \in Cocotb
<1>1. \/ k \in Exe /\ M!Place(d, k) = <<"job", d>>
      \/ k \in Rvfi /\ M!Place(d, k) = <<"core", d, k>>
      \/ k \in Cocotb /\ M!Place(d, k) = <<"tmp", k>>
      \/ M!Place(d, k) = <<"job", d, k>>
  BY PlaceForm
<1>2. \/ l \in Exe /\ M!Place(e, l) = <<"job", e>>
      \/ l \in Rvfi /\ M!Place(e, l) = <<"core", e, l>>
      \/ l \in Cocotb /\ M!Place(e, l) = <<"tmp", l>>
      \/ M!Place(e, l) = <<"job", e, l>>
  BY PlaceForm
<1> QED  BY <1>1, <1>2

LEMMA PlaceIn ==
  ASSUME ManifestAssumption, NEW d, NEW k \in M!Kinds, NEW m
  PROVE  /\ M!InJob(M!Place(d, k), m) => d = m
         /\ ~M!CoreNamed(M!Place(d, k), m)
<1>1. \/ k \in Exe /\ M!Place(d, k) = <<"job", d>>
      \/ k \in Rvfi /\ M!Place(d, k) = <<"core", d, k>>
      \/ k \in Cocotb /\ M!Place(d, k) = <<"tmp", k>>
      \/ M!Place(d, k) = <<"job", d, k>>
  BY PlaceForm
<1> QED  BY <1>1 DEF M!InJob, M!CoreNamed

(* OneAtATime: a pool of one process has one task at work.                 *)
LEMMA OneAtATime ==
  ASSUME ManifestAssumption, MutInv, Jobs = 1, NEW t \in M!Active, NEW u \in M!Active
  PROVE  t = u
<1>1. M!Active \subseteq Tasks  BY DEF M!Active, MutInv
<1>2. IsFiniteSet(M!Active)
  <2>1. IsFiniteSet(Tasks)  BY <1>1, KindsListed
  <2> QED  BY <1>1, <2>1, FS_Subset
<1>3. Cardinality(M!Active) <= 1  BY DEF MutInv, PoolInv
<1>4. SUFFICES ASSUME t # u  PROVE FALSE
  OBVIOUS
<1>5. Cardinality({t, u}) = 2 /\ {t, u} \subseteq M!Active
  <2>1. IsFiniteSet({t}) /\ Cardinality({t}) = 1  BY FS_Singleton
  <2>2. Cardinality({t} \cup {u}) = 2  BY <1>4, <2>1, FS_AddElement
  <2>3. {t} \cup {u} = {t, u}  OBVIOUS
  <2> QED  BY <2>2, <2>3
<1>6. Cardinality({t, u}) <= Cardinality(M!Active)  BY <1>2, <1>5, FS_Subset
<1> QED  BY <1>3, <1>5, <1>6, FS_CardinalityType, <1>2

(* Apart: no two tasks at work have tests that work in one place, but for  *)
(* a cocotb design that both build.                                        *)
LEMMA Apart ==
  ASSUME ManifestAssumption, MutInv, NEW t \in M!Active, NEW u \in M!Active,
         t # u,
         NEW k \in M!ToSet(M!KindsOf(t)), NEW l \in M!ToSet(M!KindsOf(u)),
         ~M!SharedBuild(u, l)
  PROVE  M!Place(M!DesignOf(t), k) # M!Place(M!DesignOf(u), l)
<1> SUFFICES ASSUME M!Place(M!DesignOf(t), k) = M!Place(M!DesignOf(u), l)  PROVE FALSE
  OBVIOUS
<1>1. t \in Tasks /\ u \in Tasks  BY DEF M!Active, MutInv
<1>2. k \in M!Kinds /\ l \in M!Kinds  BY <1>1, KindsListed, ListSet
<1>3. \/ M!DesignOf(t) = M!DesignOf(u) /\ (k = l \/ (k \in Exe /\ l \in Exe))
      \/ k = l /\ k \in Cocotb
  BY <1>2, PlaceOwn
<1>4. CASE t \in M!Muts /\ u \in M!Muts
  <2>1. M!DesignOf(t) = t /\ M!DesignOf(u) = u  BY <1>1, <1>4, KindsListed
  <2>2. k = l /\ k \in Cocotb  BY <1>3, <2>1
  <2>3. M!KindsOf(t) = Catchers[t] /\ M!KindsOf(u) = Catchers[u]
    BY <1>4 DEF M!KindsOf, ManifestAssumption
  <2>4. Jobs # 1  BY OneAtATime
  <2> QED  BY <1>4, <2>2, <2>3, <2>4 DEF M!SharedBuild, ManifestAssumption
<1>5. ASSUME NEW m \in M!Muts, NEW b \in M!BaseTasks, m \in M!Active, b \in M!Active
      PROVE  FALSE
  <2>1. task[m].pc # "queued"  BY <1>5 DEF M!Active
  <2>2. M!BaselineClean  BY <2>1 DEF MutInv, PhaseInv
  <2> QED  BY <1>5, <2>2 DEF M!BaselineClean, M!Active, M!Finished
<1>6. CASE t \in M!BaseTasks /\ u \in M!BaseTasks
  <2>1. (k \in Exe /\ t = M!ExeGroup) \/ (k \notin Exe /\ t = k)  BY <1>1, <1>6, KindsListed
  <2>2. (l \in Exe /\ u = M!ExeGroup) \/ (l \notin Exe /\ u = l)  BY <1>1, <1>6, KindsListed
  <2> QED  BY <1>3, <2>1, <2>2
<1> QED  BY <1>1, <1>4, <1>5, <1>6 DEF Tasks

-----------------------------------------------------------------------------
(* What a step of one task leaves alone.                                   *)

TasksStay(t) == DOMAIN task' = Tasks /\ \A u \in Tasks \ {t} : task'[u] = task[u]
TruthGrows == \A x \in DOMAIN truth : x \in DOMAIN truth' /\ truth'[x] = truth[x]
PlacesKept(t) ==
  \A u \in Tasks \ {t} : task[u].pc = "prepared" =>
    /\ Here(u) \in DOMAIN held' /\ Pair(held'[Here(u)])
    /\ Shares(u) \/ held'[Here(u)] = held[Here(u)]

(* SaysKept: what was once said of a design is said ever after.            *)
LEMMA SaysKept ==
  ASSUME NEW t, NEW k, NEW answers, TruthGrows, Says(t, k, answers)
  PROVE  Says(t, k, answers)'
  BY DEF Says, M!Says, TruthGrows

(* TasksKeep: the other tasks keep what holds of them.                    *)
LEMMA TasksKeep ==
  ASSUME MutInv, NEW t, TasksStay(t), TruthGrows, PlacesKept(t), UNCHANGED defect
  PROVE  \A u \in Tasks \ {t} : JobInv(u)'
<1> SUFFICES ASSUME NEW u \in Tasks \ {t}  PROVE JobInv(u)'
  OBVIOUS
<1>1. task'[u] = task[u] /\ JobInv(u)  BY DEF TasksStay, MutInv
<1>2. Reported(u)'
  <2>1. Reported(u)  BY <1>1 DEF JobInv
  <2>2. \A k \in task[u].passed : M!SharedBuild(u, k) \/ Says(u, k, {"pass"})'  BY <2>1, SaysKept DEF Reported
  <2>3. \A k \in task[u].failed : M!SharedBuild(u, k) \/ Says(u, k, {"fail", "broken"})'  BY <2>1, SaysKept DEF Reported
  <2> QED  BY <1>1, <2>1, <2>2, <2>3 DEF Reported
<1>3. Prepared(u)'
  BY <1>1 DEF JobInv, Prepared, PlacesKept, Here, Shares
<1>4. u \in M!Muts => Applied(u)'  BY <1>1 DEF JobInv, Applied
<1>5. task'[u] \in Job /\ (task'[u].pc = "queued" => task'[u] = M!NewTask(u))
  BY <1>1 DEF JobInv
<1> QED  BY <1>2, <1>3, <1>4, <1>5 DEF JobInv, M!NewTask

(* PoolMoved: a task at work moves on or ends; main() and the pool are     *)
(* where they were.                                                        *)
LEMMA PoolMoved ==
  ASSUME ManifestAssumption, MutInv, NEW t \in M!Active, TasksStay(t),
         task'[t].pc # "queued", UNCHANGED <<phase, exit, defect>>
  PROVE  /\ PhaseInv' /\ PoolInv' /\ ExitInv'
         /\ M!Active' = IF M!Finished(t)' THEN M!Active \ {t} ELSE M!Active
         /\ phase \notin Before /\ phase # "ended"
<1>1. t \in Tasks /\ task[t].pc # "queued" /\ ~M!Finished(t)  BY DEF M!Active, MutInv
<1>2. M!Active' = IF M!Finished(t)' THEN M!Active \ {t} ELSE M!Active
  BY <1>1 DEF M!Active, TasksStay, MutInv, M!Finished
<1>3. phase \notin Before /\ phase \notin {"finally", "ended"}
  BY <1>1 DEF MutInv, PhaseInv
<1>4. M!BaselineClean => t \in M!Muts
  BY <1>1 DEF M!BaselineClean, M!Finished, Tasks
<1>5. M!BaselineClean /\ M!Stale = {} => M!BaselineClean' /\ M!Stale' = {}
  <2>1. M!Stale' = M!Stale  BY DEF M!Stale
  <2> SUFFICES ASSUME M!BaselineClean  PROVE M!BaselineClean'
    BY <2>1
  <2>2. t \notin M!BaseTasks  BY <1>4, KindsListed, <1>1
  <2>3. \A b \in M!BaseTasks : task'[b] = task[b]  BY <2>2 DEF TasksStay, Tasks
  <2> QED  BY <2>3 DEF M!BaselineClean, M!KindsOf
<1>6. PhaseInv'
  <2>1. phase = "baseline" => \A m \in M!Muts : task'[m].pc = "queued"
    BY <1>1 DEF MutInv, PhaseInv, TasksStay, Tasks
  <2>2. phase = "mutations" \/ (\E m \in M!Muts : task'[m].pc # "queued") =>
          M!BaselineClean /\ M!Stale = {}
    BY <1>1 DEF MutInv, PhaseInv, TasksStay, Tasks
  <2>3. defect' \in [M!Muts \cup {M!Base} -> Edits]  BY DEF MutInv, PhaseInv
  <2>4. phase \in {"setup", "fixtures", "baseline"} => M!Stale' = {}
    BY DEF MutInv, PhaseInv, M!Stale
  <2> HIDE DEF MutInv
  <2> QED  BY <1>3, <1>5, <2>1, <2>2, <2>3, <2>4 DEF PhaseInv
<1>7. IsFiniteSet(M!Active) /\ Cardinality(M!Active) \in Nat
  <2>1. IsFiniteSet(Tasks)  BY <1>1, KindsListed
  <2>2. M!Active \subseteq Tasks  BY DEF M!Active, MutInv
  <2> QED  BY <2>1, <2>2, FS_Subset, FS_CardinalityType
<1>8. PoolInv'
  <2>1. M!Active' \subseteq M!Active  BY <1>2
  <2>2. Cardinality(M!Active') <= Cardinality(M!Active) /\ Cardinality(M!Active') \in Nat
    BY <1>7, <2>1, FS_Subset, FS_CardinalityType
  <2>3. Cardinality(M!Active') <= Jobs
    BY <1>7, <2>2 DEF MutInv, PoolInv, ManifestAssumption
  <2>4. ASSUME Jobs = 1, NEW m \in M!Muts, task'[m].pc = "raised"  PROVE M!Active' = {}
    <3>1. CASE m = t
      <4>1. M!Finished(t)'  BY <2>4, <3>1 DEF M!Finished
      <4>2. M!Active \subseteq {t}  BY <2>4, OneAtATime
      <4> QED  BY <1>2, <4>1, <4>2
    <3>2. CASE m # t
      <4>1. task[m].pc = "raised"  BY <2>4, <3>2 DEF TasksStay, Tasks
      <4>2. M!Active = {}  BY <2>4, <4>1 DEF MutInv, PoolInv
      <4> QED  BY <4>2
    <3> QED  BY <3>1, <3>2
  <2> QED  BY <2>3, <2>4 DEF PoolInv
<1>9. ExitInv'
  <2>1. exit # "0"  BY <1>3 DEF MutInv, ExitInv
  <2> QED  BY <2>1 DEF ExitInv
<1> QED  BY <1>2, <1>3, <1>6, <1>8, <1>9

(* Rebuilt: the invariant from its parts.                                  *)
LEMMA Rebuilt ==
  ASSUME ManifestAssumption, MutInv, NEW t \in M!Active, TasksStay(t),
         task'[t].pc # "queued", UNCHANGED <<phase, exit, defect>>,
         TruthGrows, TruthKnown', PlacesKept(t), JobInv(t)',
         \A p \in DOMAIN held', m \in M!Muts : M!InJob(p, m) => m \in M!Active'
  PROVE  MutInv'
<1>1. /\ PhaseInv' /\ PoolInv' /\ ExitInv' /\ phase \notin Before /\ phase # "ended"
  BY PoolMoved
<1>2. \A u \in Tasks \ {t} : JobInv(u)'  BY TasksKeep
<1>3. DiskInv'  BY <1>1 DEF DiskInv
<1> QED  BY <1>1, <1>2, <1>3 DEF MutInv, TasksStay, Tasks, M!BaseTasks

-----------------------------------------------------------------------------
(* The steps of a task.                                                    *)

(* NowAt: a task at another point of its work, with its record otherwise.  *)
LEMMA NowAt ==
  ASSUME MutInv, NEW t \in Tasks, NEW p \in Working \cup {"queued", "raised", "done"},
         task' = [task EXCEPT ![t].pc = p]
  PROVE  /\ TasksStay(t) /\ task'[t] \in Job /\ task'[t].pc = p
         /\ task'[t].left = task[t].left /\ task'[t].verdict = task[t].verdict
         /\ task'[t].passed = task[t].passed /\ task'[t].failed = task[t].failed
<1> DEFINE j == task[t]
<1>1. task'[t] = [j EXCEPT !.pc = p] /\ TasksStay(t)  BY DEF MutInv, TasksStay
<1>2. j \in Job  BY DEF MutInv, JobInv
<1> HIDE DEF j
<1> QED  BY <1>1, <1>2 DEF Job, j

(* AtWork: what a task that has something to do is known to be.            *)
LEMMA AtWork ==
  ASSUME ManifestAssumption, MutInv, NEW t \in Tasks, task[t].pc \in Working
  PROVE  /\ t \in M!Active /\ task[t] \in Job /\ Reported(t)
         /\ M!KindsOf(t) \in Seq(M!Kinds)
         /\ task[t].left \in Seq(M!Kinds)
         /\ task[t].left # <<>> =>
              /\ Head(task[t].left) \in M!ToSet(M!KindsOf(t))
              /\ Head(task[t].left) \in M!Kinds
<1>1. t \in M!Active  BY DEF M!Active, M!Finished, Working, MutInv
<1>2. task[t] \in Job /\ Reported(t)  BY DEF MutInv, JobInv
<1>3. M!KindsOf(t) \in Seq(M!Kinds)  BY KindsListed
<1>4. task[t].left \in Seq(M!Kinds)  BY <1>2 DEF Job
<1>5. task[t].left # <<>> => Head(task[t].left) \in M!ToSet(task[t].left)
  BY <1>4, ListSet
<1>6. M!ToSet(task[t].left) \subseteq M!Kinds  BY <1>4, ListSet
<1>7. M!ToSet(task[t].left) \subseteq M!ToSet(M!KindsOf(t))  BY <1>2 DEF Reported
<1> QED  BY <1>1, <1>2, <1>3, <1>4, <1>5, <1>6, <1>7

(* SaysMore: a task that has reported nothing new has nothing to show.     *)
LEMMA SaysMore ==
  ASSUME NEW t, Reported(t), TruthGrows, M!ToSet(task'[t].left) = M!ToSet(task[t].left),
         task'[t].passed = task[t].passed, task'[t].failed = task[t].failed
  PROVE  Reported(t)'
<1>1. \A k \in task[t].passed : M!SharedBuild(t, k) \/ Says(t, k, {"pass"})'  BY SaysKept DEF Reported
<1>2. \A k \in task[t].failed : M!SharedBuild(t, k) \/ Says(t, k, {"fail", "broken"})'  BY SaysKept DEF Reported
<1>3. M!KindsOf(t)' = M!KindsOf(t)  BY DEF M!KindsOf
<1> QED  BY <1>1, <1>2, <1>3 DEF Reported

(* PlacesUntouched: nothing is lost where nothing is written.              *)
LEMMA PlacesUntouched ==
  ASSUME MutInv, NEW t, held' = held
  PROVE  PlacesKept(t)
  BY DEF MutInv, JobInv, Prepared, PlacesKept

(* OthersAtWork: a task that has prepared its test is at work, and the     *)
(* test is one of its own.                                                 *)
LEMMA OthersAtWork ==
  ASSUME ManifestAssumption, MutInv, NEW u \in Tasks, task[u].pc = "prepared"
  PROVE  /\ u \in M!Active /\ Head(task[u].left) \in M!ToSet(M!KindsOf(u))
         /\ Head(task[u].left) \in M!Kinds
         /\ Here(u) \in DOMAIN held /\ Pair(held[Here(u)])
         /\ Shares(u) \/ held[Here(u)] = <<M!DesignOf(u), Head(task[u].left)>>
<1>1. Prepared(u)  BY DEF MutInv, JobInv
<1>2. /\ task[u].left # <<>> /\ Here(u) \in DOMAIN held /\ Pair(held[Here(u)])
      /\ Shares(u) \/ held[Here(u)] = <<M!DesignOf(u), Head(task[u].left)>>
  BY <1>1 DEF Prepared
<1>3. task[u].pc \in Working  BY DEF Working
<1> QED  BY <1>2, <1>3, AtWork

LEMMA PrepareInv ==
  ASSUME ManifestAssumption, MutInv, NEW t \in Tasks, M!Prepare(t)
  PROVE  MutInv'
<1> DEFINE k == Head(task[t].left)
           place == M!Place(M!DesignOf(t), k)
<1>1. /\ task[t].pc = "test" /\ task[t].left # <<>>
      /\ task' = [task EXCEPT ![t].pc = "prepared"]
      /\ held' = M!Put(held, place, <<M!DesignOf(t), k>>)
      /\ UNCHANGED <<phase, defect, truth, exit>>
  BY DEF M!Prepare
<1>2. t \in M!Active /\ Reported(t) /\ k \in M!ToSet(M!KindsOf(t)) /\ k \in M!Kinds
  BY <1>1, AtWork DEF Working
<1>3. TasksStay(t) /\ task'[t] \in Job /\ task'[t].pc = "prepared"
      /\ task'[t].left = task[t].left /\ task'[t].verdict = task[t].verdict
      /\ task'[t].passed = task[t].passed /\ task'[t].failed = task[t].failed
  BY <1>1, NowAt DEF Working
<1>4. TruthGrows /\ TruthKnown'  BY <1>1 DEF TruthGrows, TruthKnown, MutInv
<1>5. PlacesKept(t)
  <2> DEFINE pair == <<M!DesignOf(t), k>>
  <2>1. Pair(pair)  BY DEF Pair
  <2> SUFFICES ASSUME NEW u \in Tasks \ {t}, task[u].pc = "prepared"
               PROVE  /\ Here(u) \in DOMAIN held' /\ Pair(held'[Here(u)])
                      /\ Shares(u) \/ held'[Here(u)] = held[Here(u)]
    BY DEF PlacesKept
  <2>2. /\ u \in M!Active /\ Head(task[u].left) \in M!ToSet(M!KindsOf(u))
        /\ Here(u) \in DOMAIN held /\ Pair(held[Here(u)])
    BY OthersAtWork
  <2>3. Shares(u) \/ Here(u) # place  BY <1>2, <2>2, Apart DEF Here, Shares
  <2>4. /\ Here(u) \in DOMAIN held'
        /\ held'[Here(u)] = IF Here(u) = place THEN pair ELSE held[Here(u)]
    BY <1>1, <2>2 DEF M!Put
  <2> HIDE DEF pair
  <2> QED  BY <2>1, <2>2, <2>3, <2>4
<1>6. Reported(t)'  BY <1>2, <1>3, <1>4, SaysMore
<1>7. Prepared(t)'
  <2>1. place \in DOMAIN held' /\ held'[place] = <<M!DesignOf(t), k>>
    BY <1>1 DEF M!Put
  <2>2. Here(t)' = place  BY <1>3 DEF Here, M!Place, M!DesignOf
  <2>3. M!DesignOf(t)' = M!DesignOf(t)  BY DEF M!DesignOf
  <2>4. Pair(<<M!DesignOf(t), k>>)  BY DEF Pair
  <2> QED  BY <1>1, <1>3, <2>1, <2>2, <2>3, <2>4 DEF Prepared
<1>8. t \in M!Muts => Applied(t)'
  BY <1>1, <1>3 DEF MutInv, JobInv, Applied
<1>9. JobInv(t)'  BY <1>3, <1>6, <1>7, <1>8 DEF JobInv
<1>10. \A p \in DOMAIN held', m \in M!Muts : M!InJob(p, m) => m \in M!Active'
  <2>1. M!Active' = M!Active  BY <1>1, <1>2, <1>3, PoolMoved DEF M!Finished
  <2> SUFFICES ASSUME NEW p \in DOMAIN held', NEW m \in M!Muts, M!InJob(p, m)
               PROVE  m \in M!Active
    BY <2>1
  <2>2. CASE p \in DOMAIN held  BY <2>2 DEF MutInv, DiskInv
  <2>3. CASE p = place
    <3>1. M!DesignOf(t) = m  BY <1>2, <2>3, PlaceIn
    <3>2. t = m  BY <3>1, KindsListed DEF Tasks, ManifestAssumption
    <3> QED  BY <1>2, <3>2
  <2> QED  BY <1>1, <2>2, <2>3 DEF M!Put
<1> QED  BY <1>1, <1>2, <1>3, <1>4, <1>5, <1>9, <1>10, Rebuilt

(* AnswerSaid: what a run answers becomes what the tool says, for good.    *)
LEMMA AnswerSaid ==
  ASSUME TruthKnown, NEW found, Pair(found), NEW a \in M!Answers(found[1], found[2]),
         truth' = M!Put(truth, found, a)
  PROVE  /\ TruthGrows /\ TruthKnown' /\ a \in Known
         /\ found \in DOMAIN truth' /\ truth'[found] = a
<1>1. a \in Known /\ (found \in DOMAIN truth => a = truth[found])
  BY DEF M!Answers, M!Outcomes, TruthKnown, Known, Pair
<1>2. /\ DOMAIN truth' = DOMAIN truth \cup {found}
      /\ \A x \in DOMAIN truth' : truth'[x] = IF x = found THEN a ELSE truth[x]
  BY DEF M!Put
<1>3. TruthGrows  BY <1>1, <1>2 DEF TruthGrows
<1>4. TruthKnown'  BY <1>1, <1>2 DEF TruthKnown
<1> QED  BY <1>1, <1>2, <1>3, <1>4

LEMMA RunInv ==
  ASSUME ManifestAssumption, MutInv, NEW t \in Tasks, M!Run(t)
  PROVE  MutInv'
<1>0. PICK k : k = Head(task[t].left)
  OBVIOUS
<1> DEFINE d == M!DesignOf(t)
           found == held[M!Place(d, k)]
<1>1. task[t].pc = "prepared" /\ UNCHANGED <<phase, defect, held, exit>>
  BY DEF M!Run
<1>2. /\ t \in M!Active /\ Reported(t) /\ k \in M!Kinds /\ task[t] \in Job
      /\ task[t].left \in Seq(M!Kinds) /\ task[t].left # <<>>
  <2>1. Prepared(t)  BY DEF MutInv, JobInv
  <2> QED  BY <1>1, <2>1, AtWork, OthersAtWork, <1>0 DEF Working, Prepared
<1>3. Pair(found) /\ (M!SharedBuild(t, k) \/ found = <<d, k>>)
  BY <1>0, <1>1, OthersAtWork DEF Here, Shares
<1>4. PICK a \in M!Answers(found[1], found[2]) :
        /\ truth' = M!Put(truth, found, a)
        /\ task' = [task EXCEPT ![t] = M!Answered(@, k, a)]
  BY <1>0 DEF M!Run
<1>5. /\ TruthGrows /\ TruthKnown' /\ a \in Known
      /\ M!SharedBuild(t, k) \/ (<<d, k>> \in DOMAIN truth' /\ truth'[<<d, k>>] = a)
  <2>1. found \in DOMAIN truth' /\ truth'[found] = a
        /\ TruthGrows /\ TruthKnown' /\ a \in Known
    BY <1>3, <1>4, AnswerSaid DEF MutInv
  <2> HIDE DEF found
  <2> QED  BY <1>3, <2>1
<1>6. /\ TasksStay(t)
      /\ M!Raises(k, a) => task'[t] = [task[t] EXCEPT !.pc = "raising"]
      /\ ~M!Raises(k, a) =>
           task'[t] = [task[t] EXCEPT !.pc = "test", !.left = Tail(@),
                     !.passed = IF a = "pass" THEN @ \cup {k} ELSE @,
                     !.failed = IF a # "pass" THEN @ \cup {k} ELSE @]
  <2>1. TasksStay(t) /\ task'[t] = M!Answered(task[t], k, a)
    BY <1>4 DEF TasksStay, MutInv
  <2> QED  BY <2>1 DEF M!Answered
<1> DEFINE j == task[t]
           n == task'[t]
<1>7. M!DesignOf(t)' = d /\ M!KindsOf(t)' = M!KindsOf(t)  BY DEF M!DesignOf, M!KindsOf
<1>8. /\ n \in Job /\ n.pc \in {"raising", "test"} /\ n.verdict = j.verdict
      /\ Reported(t)'
  <2>1. CASE M!Raises(k, a)
    <3>1. /\ n \in Job /\ n.pc = "raising" /\ n.verdict = j.verdict /\ n.left = j.left
          /\ n.passed = j.passed /\ n.failed = j.failed
      <4>1. n = [j EXCEPT !.pc = "raising"] /\ j \in Job  BY <1>2, <1>6, <2>1
      <4> HIDE DEF n, j
      <4> QED  BY <4>1 DEF Job, Working
    <3> QED  BY <1>2, <1>5, <3>1, SaysMore
  <2>2. CASE ~M!Raises(k, a)
    <3>1. /\ Tail(j.left) \in Seq(M!Kinds)
          /\ M!ToSet(j.left) = {k} \cup M!ToSet(Tail(j.left))
      BY <1>0, <1>2, ListSet
    <3>2. /\ n \in Job /\ n.pc = "test" /\ n.verdict = j.verdict /\ n.left = Tail(j.left)
          /\ n.passed = (IF a = "pass" THEN j.passed \cup {k} ELSE j.passed)
          /\ n.failed = (IF a # "pass" THEN j.failed \cup {k} ELSE j.failed)
      <4>1. n = [j EXCEPT !.pc = "test", !.left = Tail(@),
                     !.passed = IF a = "pass" THEN @ \cup {k} ELSE @,
                     !.failed = IF a # "pass" THEN @ \cup {k} ELSE @]
        BY <1>6, <2>2
      <4>2. j \in Job /\ k \in M!Kinds  BY <1>2
      <4> HIDE DEF n, j
      <4> QED  BY <3>1, <4>1, <4>2 DEF Job, Working
    <3>3. \A x \in j.passed : M!SharedBuild(t, x) \/ Says(t, x, {"pass"})'
      BY <1>2, <1>5, SaysKept DEF Reported
    <3>4. \A x \in j.failed :
            M!SharedBuild(t, x) \/ Says(t, x, {"fail", "broken"})'
      BY <1>2, <1>5, SaysKept DEF Reported
    <3>5. a = "pass" => M!SharedBuild(t, k) \/ Says(t, k, {"pass"})'
      BY <1>5, <1>7 DEF Says, M!Says
    <3>6. a # "pass" => M!SharedBuild(t, k) \/ Says(t, k, {"fail", "broken"})'
      BY <1>5, <1>7 DEF Says, M!Says, Known
    <3>7. n.passed \cup n.failed \cup M!ToSet(n.left) = M!ToSet(M!KindsOf(t))
      BY <1>2, <3>1, <3>2 DEF Reported
    <3> QED  BY <1>7, <3>2, <3>3, <3>4, <3>5, <3>6, <3>7 DEF Reported
  <2> QED  BY <2>1, <2>2
<1>9. JobInv(t)'
  <2>1. Prepared(t)'  BY <1>8 DEF Prepared
  <2>2. t \in M!Muts => Applied(t)'
    BY <1>1, <1>8 DEF MutInv, JobInv, Applied
  <2> QED  BY <1>8, <2>1, <2>2 DEF JobInv
<1>10. \A p \in DOMAIN held', m \in M!Muts : M!InJob(p, m) => m \in M!Active'
  <2>1. M!Active' = M!Active  BY <1>1, <1>2, <1>6, <1>8, PoolMoved DEF M!Finished
  <2> QED  BY <1>1, <2>1 DEF MutInv, DiskInv, M!InJob
<1>11. PlacesKept(t)  BY <1>1, PlacesUntouched
<1> QED  BY <1>1, <1>2, <1>5, <1>6, <1>8, <1>9, <1>10, <1>11, Rebuilt

(* AJob: the job of a mutation, and what is on disk once it is reclaimed.  *)
LEMMA AJob ==
  ASSUME ManifestAssumption, NEW m \in M!Muts
  PROVE  m \in Tasks /\ M!DesignOf(m) = m /\ M!KindsOf(m) = Catchers[m]
  BY KindsListed DEF Tasks, M!KindsOf, ManifestAssumption

LEMMA Reclaimed ==
  ASSUME ManifestAssumption, MutInv, NEW m \in M!Muts, held' = M!Reclaim(m)
  PROVE  /\ PlacesKept(m)
         /\ \A p \in DOMAIN held', n \in M!Muts : M!InJob(p, n) => n \in M!Active \ {m}
<1>1. PlacesKept(m)
  <2> SUFFICES ASSUME NEW u \in Tasks \ {m}, task[u].pc = "prepared"
               PROVE  Here(u) \in DOMAIN held' /\ held'[Here(u)] = held[Here(u)]
    BY OthersAtWork DEF PlacesKept
  <2>1. Here(u) \in DOMAIN held /\ Head(task[u].left) \in M!Kinds
    BY OthersAtWork
  <2>2. M!DesignOf(u) # m  BY KindsListed DEF Tasks, ManifestAssumption
  <2>3. ~M!InJob(Here(u), m) /\ ~M!CoreNamed(Here(u), m)  BY <2>1, <2>2, PlaceIn DEF Here
  <2> QED  BY <2>1, <2>3 DEF M!Reclaim
<1>2. ASSUME NEW p \in DOMAIN held', NEW n \in M!Muts, M!InJob(p, n)
      PROVE  n \in M!Active \ {m}
  <2>1. p \in DOMAIN held /\ ~M!InJob(p, m)  BY <1>2 DEF M!Reclaim
  <2>2. n \in M!Active  BY <1>2, <2>1 DEF MutInv, DiskInv
  <2> QED  BY <1>2, <2>1, <2>2 DEF M!InJob
<1> QED  BY <1>1, <1>2

LEMMA MirrorInv ==
  ASSUME ManifestAssumption, MutInv, NEW m \in M!Muts, M!Mirror(m)
  PROVE  MutInv'
<1>1. /\ task[m].pc = "mirror" /\ defect[m] # "ambiguous"
      /\ task' = [task EXCEPT ![m].pc = "build"]
      /\ held' = M!Put(held, <<"job", m>>, <<m, "rtl">>)
      /\ UNCHANGED <<phase, defect, truth, exit>>
  BY DEF M!Mirror
<1>2. m \in Tasks /\ m \in M!Active /\ Reported(m)
  BY <1>1, AJob, AtWork DEF Working
<1>3. TasksStay(m) /\ task'[m] \in Job /\ task'[m].pc = "build"
      /\ task'[m].left = task[m].left
      /\ task'[m].passed = task[m].passed /\ task'[m].failed = task[m].failed
  BY <1>1, <1>2, NowAt DEF Working
<1>4. TruthGrows /\ TruthKnown'  BY <1>1 DEF TruthGrows, TruthKnown, MutInv
<1>5. PlacesKept(m)
  <2> SUFFICES ASSUME NEW u \in Tasks \ {m}, task[u].pc = "prepared"
               PROVE  Here(u) \in DOMAIN held' /\ held'[Here(u)] = held[Here(u)]
    BY OthersAtWork DEF PlacesKept
  <2>1. Here(u) \in DOMAIN held /\ Head(task[u].left) \in M!Kinds
    BY OthersAtWork
  <2>2. M!DesignOf(u) # m  BY KindsListed DEF Tasks, ManifestAssumption
  <2>3. ~M!InJob(Here(u), m)  BY <2>1, <2>2, PlaceIn DEF Here
  <2>4. Here(u) # <<"job", m>>  BY <2>3 DEF M!InJob
  <2> QED  BY <1>1, <2>1, <2>4 DEF M!Put
<1>6. JobInv(m)'
  <2>1. Reported(m)'  BY <1>2, <1>3, <1>4, SaysMore
  <2> QED  BY <1>1, <1>3, <2>1 DEF JobInv, Prepared, Applied
<1>7. \A p \in DOMAIN held', n \in M!Muts : M!InJob(p, n) => n \in M!Active'
  <2>1. M!Active' = M!Active  BY <1>1, <1>2, <1>3, PoolMoved DEF M!Finished
  <2>2. \A n : M!InJob(<<"job", m>>, n) => n = m  BY DEF M!InJob
  <2>3. DOMAIN held' = DOMAIN held \cup {<<"job", m>>}  BY <1>1 DEF M!Put
  <2> QED  BY <1>2, <2>1, <2>2, <2>3 DEF MutInv, DiskInv, M!InJob
<1> QED  BY <1>1, <1>2, <1>3, <1>4, <1>5, <1>6, <1>7, Rebuilt

LEMMA BuildInv ==
  ASSUME ManifestAssumption, MutInv, NEW m \in M!Muts, M!Build(m)
  PROVE  MutInv'
<1>1. /\ task[m].pc = "build" /\ defect[m] # "noBuild"
      /\ task' = [task EXCEPT ![m].pc = "test"]
      /\ UNCHANGED <<phase, defect, truth, held, exit>>
  BY DEF M!Build
<1>2. m \in Tasks /\ m \in M!Active /\ Reported(m) /\ JobInv(m)
  BY <1>1, AJob, AtWork DEF Working, MutInv
<1>3. TasksStay(m) /\ task'[m] \in Job /\ task'[m].pc = "test"
      /\ task'[m].left = task[m].left
      /\ task'[m].passed = task[m].passed /\ task'[m].failed = task[m].failed
  BY <1>1, <1>2, NowAt DEF Working
<1>4. TruthGrows /\ TruthKnown'  BY <1>1 DEF TruthGrows, TruthKnown, MutInv
<1>5. JobInv(m)'
  <2>1. Reported(m)'  BY <1>2, <1>3, <1>4, SaysMore
  <2> QED  BY <1>1, <1>2, <1>3, <2>1 DEF JobInv, Prepared, Applied
<1>6. \A p \in DOMAIN held', n \in M!Muts : M!InJob(p, n) => n \in M!Active'
  <2>1. M!Active' = M!Active  BY <1>1, <1>2, <1>3, PoolMoved DEF M!Finished
  <2> QED  BY <1>1, <2>1 DEF MutInv, DiskInv, M!InJob
<1>7. PlacesKept(m)  BY <1>1, PlacesUntouched
<1> QED  BY <1>1, <1>2, <1>3, <1>4, <1>5, <1>6, <1>7, Rebuilt

(* ReturnInv: a job that returns a verdict, when the verdict is of what it *)
(* was asked.                                                              *)
LEMMA ReturnInv ==
  ASSUME ManifestAssumption, MutInv, NEW m \in M!Muts, task[m].pc \in Working,
         task[m].pc # "prepared",
         NEW v \in {"NO-OP", "BUILD-ERR", "UNCHECKED", "ESCAPED", "PARTIAL", "CAUGHT"},
         M!Return(m, v),
         v \notin M!Problems => /\ defect[m] \notin {"ambiguous", "noBuild"}
                                /\ task[m].passed = {}
                                /\ task[m].failed = M!ToSet(Catchers[m])
  PROVE  MutInv'
<1>1. /\ task' = [task EXCEPT ![m].pc = "done", ![m].verdict = v]
      /\ held' = M!Reclaim(m)
      /\ UNCHANGED <<phase, defect, truth, exit>>
  BY DEF M!Return
<1>2. m \in Tasks /\ m \in M!Active /\ Reported(m) /\ task[m] \in Job
  BY AJob, AtWork
<1>3. TasksStay(m) /\ task'[m] \in Job /\ task'[m].pc = "done" /\ task'[m].verdict = v
      /\ task'[m].left = task[m].left
      /\ task'[m].passed = task[m].passed /\ task'[m].failed = task[m].failed
  <2> DEFINE j == task[m]
  <2>1. task'[m] = [[j EXCEPT !.pc = "done"] EXCEPT !.verdict = v] /\ TasksStay(m)
    BY <1>1, <1>2 DEF MutInv, TasksStay
  <2>2. j \in Job  BY <1>2
  <2> HIDE DEF j
  <2> QED  BY <2>1, <2>2 DEF Job, j
<1>4. TruthGrows /\ TruthKnown'  BY <1>1 DEF TruthGrows, TruthKnown, MutInv
<1>5. JobInv(m)'
  <2>1. Reported(m)'  BY <1>2, <1>3, <1>4, SaysMore
  <2>2. Applied(m)'  BY <1>1, <1>3 DEF Applied, M!Problems
  <2> QED  BY <1>3, <2>1, <2>2 DEF JobInv, Prepared
<1>6. M!Active' = M!Active \ {m}  BY <1>1, <1>2, <1>3, PoolMoved DEF M!Finished
<1> QED  BY <1>1, <1>2, <1>3, <1>4, <1>5, <1>6, Reclaimed, Rebuilt

LEMMA Returned ==
  ASSUME ManifestAssumption, MutInv, NEW m \in M!Muts,
         M!MirrorFails(m) \/ M!BuildFails(m) \/ M!Judge(m)
  PROVE  MutInv'
<1>1. CASE M!MirrorFails(m)
  BY <1>1, ReturnInv DEF M!MirrorFails, Working, M!Problems
<1>2. CASE M!BuildFails(m)
  BY <1>2, ReturnInv DEF M!BuildFails, Working, M!Problems
<1>3. CASE M!Judge(m)
  <2> DEFINE v == M!Verdict(m)
             caught == M!ToSet(Catchers[m])
  <2>1. /\ task[m].pc = "test" /\ task[m].left = <<>> /\ M!Return(m, v)
    BY <1>3 DEF M!Judge
  <2>2. m \in Tasks /\ Reported(m) /\ JobInv(m) /\ task[m] \in Job
    BY <2>1, AJob, AtWork DEF Working, MutInv
  <2>3. task[m].passed \cup task[m].failed = caught
    BY <2>1, <2>2, AJob DEF Reported, M!ToSet
  <2>4. defect[m] \notin {"ambiguous", "noBuild"}  BY <2>1, <2>2 DEF JobInv, Applied
  <2>5. Catchers[m] = <<>> => caught = {}  BY DEF M!ToSet
  <2>6. /\ v \in {"UNCHECKED", "ESCAPED", "PARTIAL", "CAUGHT"}
        /\ v \notin M!Problems => task[m].passed = {} /\ task[m].failed = caught
    <3>1. CASE Catchers[m] = <<>>
      <4>1. v = "UNCHECKED"  BY <2>3, <2>5, <3>1 DEF M!Verdict
      <4> QED  BY <2>3, <2>5, <3>1, <4>1
    <3>2. CASE Catchers[m] # <<>> /\ task[m].failed = {}
      <4>1. v = "ESCAPED"  BY <3>2 DEF M!Verdict
      <4> QED  BY <4>1 DEF M!Problems
    <3>3. CASE Catchers[m] # <<>> /\ task[m].failed # {} /\ task[m].passed # {}
      <4>1. v = "PARTIAL"  BY <3>3 DEF M!Verdict
      <4> QED  BY <4>1 DEF M!Problems
    <3>4. CASE Catchers[m] # <<>> /\ task[m].failed # {} /\ task[m].passed = {}
      <4>1. v = "CAUGHT"  BY <3>4 DEF M!Verdict
      <4> QED  BY <2>3, <3>4, <4>1
    <3> QED  BY <3>1, <3>2, <3>3, <3>4
  <2> HIDE DEF v
  <2> QED  BY <2>1, <2>4, <2>6, ReturnInv DEF Working
<1> QED  BY <1>1, <1>2, <1>3

LEMMA RaiseInv ==
  ASSUME ManifestAssumption, MutInv, NEW m \in M!Muts, M!Raise(m)
  PROVE  MutInv'
<1>1. /\ task[m].pc = "raising"
      /\ task' = [task EXCEPT ![m].pc = "raised"]
      /\ held' = M!Reclaim(m)
      /\ UNCHANGED <<phase, defect, truth, exit>>
  BY DEF M!Raise
<1>2. m \in Tasks /\ m \in M!Active /\ Reported(m) /\ JobInv(m)
  BY <1>1, AJob, AtWork DEF Working, MutInv
<1>3. TasksStay(m) /\ task'[m] \in Job /\ task'[m].pc = "raised"
      /\ task'[m].left = task[m].left
      /\ task'[m].passed = task[m].passed /\ task'[m].failed = task[m].failed
  BY <1>1, <1>2, NowAt DEF Working
<1>4. TruthGrows /\ TruthKnown'  BY <1>1 DEF TruthGrows, TruthKnown, MutInv
<1>5. JobInv(m)'
  <2>1. Reported(m)'  BY <1>2, <1>3, <1>4, SaysMore
  <2> QED  BY <1>1, <1>2, <1>3, <2>1 DEF JobInv, Prepared, Applied
<1>6. M!Active' = M!Active \ {m}  BY <1>1, <1>2, <1>3, PoolMoved DEF M!Finished
<1> QED  BY <1>1, <1>2, <1>3, <1>4, <1>5, <1>6, Reclaimed, Rebuilt

LEMMA BaselineDoneInv ==
  ASSUME ManifestAssumption, MutInv, NEW t \in M!BaseTasks, M!BaselineDone(t)
  PROVE  MutInv'
<1> DEFINE p == IF task[t].pc = "raising" THEN "raised" ELSE "done"
<1>1. /\ task[t].pc \in {"test", "raising"}
      /\ task' = [task EXCEPT ![t].pc = p]
      /\ UNCHANGED <<phase, defect, truth, held, exit>>
  BY DEF M!BaselineDone
<1>2. t \in Tasks /\ t \notin M!Muts /\ t \in M!Active /\ Reported(t) /\ JobInv(t)
  <2>1. t \in Tasks  BY DEF Tasks
  <2> QED  BY <1>1, <2>1, KindsListed, AtWork DEF Working, MutInv
<1>3. p \in {"raised", "done"}  OBVIOUS
<1> HIDE DEF p
<1>4. TasksStay(t) /\ task'[t] \in Job /\ task'[t].pc = p
      /\ task'[t].left = task[t].left
      /\ task'[t].passed = task[t].passed /\ task'[t].failed = task[t].failed
  BY <1>1, <1>2, <1>3, NowAt
<1>5. TruthGrows /\ TruthKnown'  BY <1>1 DEF TruthGrows, TruthKnown, MutInv
<1>6. JobInv(t)'
  <2>1. Reported(t)'  BY <1>2, <1>4, <1>5, SaysMore
  <2> QED  BY <1>2, <1>3, <1>4, <2>1 DEF JobInv, Prepared
<1>7. \A q \in DOMAIN held', n \in M!Muts : M!InJob(q, n) => n \in M!Active'
  <2>1. M!Active' = M!Active \ {t}  BY <1>1, <1>2, <1>3, <1>4, PoolMoved DEF M!Finished
  <2> QED  BY <1>1, <1>2, <2>1 DEF MutInv, DiskInv, M!InJob
<1>8. PlacesKept(t)  BY <1>1, PlacesUntouched
<1> QED  BY <1>1, <1>2, <1>3, <1>4, <1>5, <1>6, <1>7, <1>8, Rebuilt

LEMMA StartInv ==
  ASSUME ManifestAssumption, MutInv, NEW t \in Tasks, M!Start(t)
  PROVE  MutInv'
<1> DEFINE p == IF t \in M!Muts THEN "mirror" ELSE "test"
<1>1. /\ task[t].pc = "queued" /\ Cardinality(M!Active) < Jobs
      /\ task' = [task EXCEPT ![t].pc = p]
      /\ UNCHANGED <<phase, defect, truth, held, exit>>
  <2>1. M!Cardinality(M!Active) = Cardinality(M!Active)  BY DEF M!Cardinality, Cardinality
  <2> QED  BY <2>1 DEF M!Start
<1>2. \/ phase = "baseline" /\ t \in M!BaseTasks
      \/ /\ phase = "mutations" /\ t \in M!Muts
         /\ Jobs = 1 => \A u \in M!Muts : task[u].pc # "raised"
  BY DEF M!Start
<1>3. p \in {"mirror", "test"} /\ (t \in M!Muts => p = "mirror")  OBVIOUS
<1> HIDE DEF p
<1>4. TasksStay(t) /\ task'[t] \in Job /\ task'[t].pc = p
      /\ task'[t].left = task[t].left
      /\ task'[t].passed = task[t].passed /\ task'[t].failed = task[t].failed
  BY <1>1, <1>3, NowAt DEF Working
<1>5. JobInv(t) /\ Reported(t)  BY DEF MutInv, JobInv
<1>6. TruthGrows /\ TruthKnown'  BY <1>1 DEF TruthGrows, TruthKnown, MutInv
<1>7. JobInv(t)'
  <2>1. Reported(t)'  BY <1>4, <1>5, <1>6, SaysMore
  <2> QED  BY <1>3, <1>4, <2>1 DEF JobInv, Prepared, Applied
<1>8. \A u \in Tasks \ {t} : JobInv(u)'
  <2>1. PlacesKept(t)  BY <1>1, PlacesUntouched
  <2> QED  BY <1>1, <1>4, <1>6, <2>1, TasksKeep
<1>9. M!Active' = M!Active \cup {t} /\ t \notin M!Active
  BY <1>1, <1>3, <1>4 DEF M!Active, M!Finished, TasksStay, MutInv
<1>10. PhaseInv'
  <2>1. CASE phase = "baseline" /\ t \in M!BaseTasks
    <3>1. t \notin M!Muts  BY <2>1, KindsListed
    <3>2. \A m \in M!Muts : task'[m].pc = "queued"
      BY <2>1, <3>1, <1>4 DEF MutInv, PhaseInv, TasksStay, Tasks
    <3>3. M!Stale' = {}  BY <1>1, <2>1 DEF MutInv, PhaseInv, M!Stale
    <3> QED  BY <1>1, <2>1, <3>2, <3>3 DEF MutInv, PhaseInv, Before
  <2>2. CASE phase = "mutations" /\ t \in M!Muts
    <3>1. M!BaselineClean /\ M!Stale = {}  BY <2>2 DEF MutInv, PhaseInv
    <3>2. \A b \in M!BaseTasks : task'[b] = task[b]
      BY <2>2, <1>4, KindsListed DEF TasksStay, Tasks
    <3>3. M!BaselineClean' /\ M!Stale' = {}
      BY <1>1, <3>1, <3>2 DEF M!BaselineClean, M!Stale, M!KindsOf
    <3> QED  BY <1>1, <2>2, <3>3 DEF MutInv, PhaseInv, Before
  <2> QED  BY <1>2, <2>1, <2>2
<1>11. PoolInv'
  <2>1. IsFiniteSet(M!Active) /\ Cardinality(M!Active) \in Nat
    <3>1. IsFiniteSet(Tasks)  BY KindsListed
    <3>2. M!Active \subseteq Tasks  BY DEF M!Active, MutInv
    <3> QED  BY <3>1, <3>2, FS_Subset, FS_CardinalityType
  <2>2. Cardinality(M!Active') = Cardinality(M!Active) + 1
    BY <1>9, <2>1, FS_AddElement
  <2>3. Cardinality(M!Active') <= Jobs  BY <1>1, <2>1, <2>2 DEF ManifestAssumption
  <2>4. ASSUME Jobs = 1  PROVE \A m \in M!Muts : task'[m].pc # "raised"
    <3>1. \A m \in M!Muts : task[m].pc # "raised"
      BY <1>2, <2>4 DEF MutInv, PhaseInv
    <3> QED  BY <1>3, <1>4, <3>1 DEF TasksStay, Tasks
  <2> QED  BY <2>3, <2>4 DEF PoolInv
<1>12. DiskInv'
  BY <1>1, <1>2, <1>9 DEF MutInv, DiskInv, Before, M!InJob
<1>13. ExitInv'
  <2>1. exit # "0"  BY <1>2 DEF MutInv, ExitInv
  <2> QED  BY <1>1, <2>1 DEF ExitInv
<1>14. DOMAIN task' = Tasks  BY <1>4 DEF TasksStay
<1> QED
  BY <1>6, <1>7, <1>8, <1>10, <1>11, <1>12, <1>13, <1>14 DEF MutInv, Tasks, M!BaseTasks

-----------------------------------------------------------------------------
(* The steps of main().                                                    *)

(* AtRest: no task moves while main() does, so only what is said of the    *)
(* phase and of the exit status is to be seen again.                       *)
LEMMA AtRest ==
  ASSUME MutInv, NEW p, NEW code, M!ToPhase(p, code),
         phase \in Before \/ p \notin Before, p # "ended" \/ phase \in Before,
         PhaseInv', ExitInv'
  PROVE  MutInv'
<1>1. phase' = p /\ exit' = code /\ UNCHANGED <<defect, truth, task, held>>
  BY DEF M!ToPhase
<1>2. \A t \in Tasks : JobInv(t)'
  <2> SUFFICES ASSUME NEW t \in Tasks  PROVE JobInv(t)'
    OBVIOUS
  <2>1. JobInv(t)  BY DEF MutInv
  <2>2. task'[t] = task[t] /\ M!DesignOf(t)' = M!DesignOf(t) /\ Here(t)' = Here(t)
    BY <1>1 DEF Here
  <2>3. Reported(t)'  BY <1>1, <2>1 DEF JobInv, Reported, Says, M!Says
  <2>4. Prepared(t)'  BY <1>1, <2>1, <2>2 DEF JobInv, Prepared, Shares
  <2>5. t \in M!Muts => Applied(t)'  BY <1>1, <2>1 DEF JobInv, Applied
  <2> QED  BY <1>1, <2>1, <2>3, <2>4, <2>5 DEF JobInv, M!NewTask
<1>3. TruthKnown'  BY <1>1 DEF MutInv, TruthKnown
<1>4. M!Active' = M!Active  BY <1>1 DEF M!Active, M!Finished
<1>5. PoolInv'  BY <1>1, <1>4 DEF MutInv, PoolInv
<1>6. DiskInv'  BY <1>1, <1>4 DEF MutInv, DiskInv, M!InJob
<1> QED  BY <1>1, <1>2, <1>3, <1>5, <1>6 DEF MutInv, Tasks, M!BaseTasks

(* AllQueued: before the baseline, every task is as it was made.           *)
LEMMA AllQueued ==
  ASSUME MutInv, \A t \in Tasks : task[t].pc = "queued"
  PROVE  M!Active = {} /\ Untouched
<1>1. M!Active = {}  BY DEF M!Active, MutInv
<1>2. Untouched  BY DEF MutInv, JobInv, Untouched
<1> QED  BY <1>1, <1>2

(* MainMoved: main() goes on only when the tasks it started are over, and  *)
(* to the mutations only from a clean baseline.                            *)
LEMMA MainMoved ==
  ASSUME ManifestAssumption, MutInv,
         \/ M!Preflight \/ M!SetUp \/ M!Fixtures \/ M!BaselineReport \/ M!Report \/ M!Unwind
  PROVE  MutInv'
<1>1. PICK p, code : M!ToPhase(p, code)
  BY DEF M!Preflight, M!SetUp, M!Fixtures, M!BaselineReport, M!Report, M!Unwind
<1>2. UNCHANGED <<defect, truth, task, held>>  BY <1>1 DEF M!ToPhase
<1>3. /\ (M!BaselineClean <=> M!BaselineClean') /\ M!Stale' = M!Stale
      /\ M!Active' = M!Active /\ (Untouched <=> Untouched')
  BY <1>2 DEF M!BaselineClean, M!Stale, M!Active, M!Finished, Untouched, M!NewTask,
              M!KindsOf, Tasks, M!BaseTasks
<1> DEFINE Kept == UNCHANGED <<defect, truth, task, held>>
<1>4. CASE phase \in Before
  <2>1. \A t \in Tasks : task[t].pc = "queued"  BY <1>4 DEF MutInv, PhaseInv
  <2>2. M!Active = {} /\ Untouched  BY <2>1, AllQueued
  <2>3. /\ phase' \in Before \cup {"baseline", "finally", "ended"}
        /\ exit' = "0" => phase' = "ended"
        /\ phase' \in {"setup", "fixtures", "baseline"} => M!Stale = {}
    BY <1>4
       DEF M!Preflight, M!SetUp, M!Fixtures, M!BaselineReport, M!Report, M!Unwind,
           M!ToPhase, Before, MutInv, PhaseInv
  <2>4. PhaseInv'
    BY <1>2, <1>3, <2>1, <2>2, <2>3 DEF MutInv, PhaseInv, Tasks, Before
  <2>5. ExitInv'  BY <1>3, <2>2, <2>3 DEF ExitInv
  <2> QED  BY <1>1, <1>4, <2>4, <2>5, AtRest DEF M!ToPhase
<1>5. CASE phase \notin Before
  <2>1. M!BaselineReport \/ M!Report \/ M!Unwind
    BY <1>5 DEF M!Preflight, M!SetUp, M!Fixtures, Before
  <2>2. phase' \in {"mutations", "finally"}
    BY <2>1 DEF M!BaselineReport, M!Report, M!Unwind, M!ToPhase
  <2>3. PhaseInv' /\ ExitInv'
    <3>1. CASE M!BaselineReport
      <4>1. /\ phase = "baseline" /\ \A t \in M!BaseTasks : M!Finished(t)
            /\ (phase' = "mutations" => M!BaselineClean) /\ exit' # "0"
        BY <3>1 DEF M!BaselineReport, M!ToPhase
      <4>2. \A m \in M!Muts : task[m].pc = "queued"  BY <4>1 DEF MutInv, PhaseInv
      <4>3. M!Active = {}  BY <4>1, <4>2 DEF M!Active, MutInv, Tasks
      <4>4. M!Stale = {}  BY <4>1 DEF MutInv, PhaseInv
      <4>5. PhaseInv'
        BY <1>2, <1>3, <2>2, <4>1, <4>2, <4>3, <4>4 DEF MutInv, PhaseInv, Before
      <4> QED  BY <4>1, <4>5 DEF ExitInv
    <3>2. CASE M!Report
      <4>1. /\ phase = "mutations" /\ \A m \in M!Muts : task[m].pc = "done"
            /\ phase' = "finally"
            /\ exit' = "0" => \A m \in M!Muts : task[m].verdict \notin M!Problems
        BY <3>2 DEF M!Report, M!ToPhase
      <4>2. M!BaselineClean /\ M!Stale = {}  BY <4>1 DEF MutInv, PhaseInv
      <4>3. M!Active = {}
        BY <4>1, <4>2 DEF M!Active, M!Finished, M!BaselineClean, MutInv, Tasks
      <4>4. PhaseInv'
        BY <1>2, <1>3, <4>1, <4>2, <4>3 DEF MutInv, PhaseInv, Before
      <4>5. ExitInv'  BY <1>2, <4>1 DEF ExitInv, M!Problems
      <4> QED  BY <4>4, <4>5
    <3>3. CASE M!Unwind
      <4>1. /\ phase = "mutations" /\ \E m \in M!Muts : task[m].pc = "raised"
            /\ Jobs > 1 => \A m \in M!Muts : M!Finished(m)
            /\ phase' = "finally" /\ exit' = "traceback"
        BY <3>3 DEF M!Unwind, M!ToPhase
      <4>2. M!BaselineClean /\ M!Stale = {}  BY <4>1 DEF MutInv, PhaseInv
      <4>3. M!Active = {}
        <5>1. CASE Jobs = 1  BY <4>1, <5>1 DEF MutInv, PoolInv
        <5>2. CASE Jobs > 1
          BY <4>1, <4>2, <5>2 DEF M!Active, M!Finished, M!BaselineClean, MutInv, Tasks
        <5> QED  BY <5>1, <5>2 DEF ManifestAssumption
      <4>4. PhaseInv'
        BY <1>2, <1>3, <4>1, <4>2, <4>3 DEF MutInv, PhaseInv, Before
      <4>5. ExitInv'  BY <4>1 DEF ExitInv
      <4> QED  BY <4>4, <4>5
    <3> QED  BY <2>1, <3>1, <3>2, <3>3
  <2> QED  BY <1>1, <2>2, <2>3, AtRest DEF M!ToPhase, Before
<1> QED  BY <1>4, <1>5

LEMMA FinallyInv ==
  ASSUME ManifestAssumption, MutInv, M!Finally
  PROVE  MutInv'
<1>1. /\ phase = "finally" /\ phase' = "ended" /\ UNCHANGED <<defect, truth, task, exit>>
      /\ held' = [p \in {q \in DOMAIN held : ~M!Removed(q) /\ ~M!CoreNamed(q, M!Base)}
                    |-> held[p]]
  BY DEF M!Finally
<1>2. M!Active = {} /\ M!Active' = M!Active
  BY <1>1 DEF MutInv, PhaseInv, M!Active, M!Finished
<1>3. ASSUME NEW t \in Tasks  PROVE JobInv(t)'
  <2>1. JobInv(t) /\ task[t].pc # "prepared"
    BY <1>2 DEF MutInv, M!Active, M!Finished
  <2>2. Reported(t)'  BY <1>1, <2>1 DEF JobInv, Reported, Says, M!Says
  <2>3. Prepared(t)'  BY <1>1, <2>1 DEF Prepared
  <2>4. t \in M!Muts => Applied(t)'  BY <1>1, <2>1 DEF JobInv, Applied
  <2> QED  BY <1>1, <2>1, <2>2, <2>3, <2>4 DEF JobInv, M!NewTask
<1>4. PhaseInv'
  <2>1. (\E m \in M!Muts : task[m].pc # "queued") => M!BaselineClean' /\ M!Stale' = {}
    BY <1>1 DEF MutInv, PhaseInv, M!BaselineClean, M!Stale, M!KindsOf
  <2> QED  BY <1>1, <1>2, <2>1 DEF MutInv, PhaseInv, Before
<1>5. PoolInv'  BY <1>1, <1>2 DEF MutInv, PoolInv
<1>6. DiskInv'
  <2>1. \A p \in DOMAIN held' : ~M!UnderWork(p)  BY <1>1 DEF M!Removed
  <2> QED  BY <1>1, <2>1 DEF DiskInv, M!UnderWork, M!InJob, Before
<1>7. ExitInv'
  BY <1>1 DEF MutInv, ExitInv, Untouched, M!NewTask, M!KindsOf, M!Problems
<1>8. TruthKnown'  BY <1>1 DEF MutInv, TruthKnown
<1> QED  BY <1>1, <1>3, <1>4, <1>5, <1>6, <1>7, <1>8 DEF MutInv, Tasks, M!BaseTasks

-----------------------------------------------------------------------------
LEMMA MutInit ==
  ASSUME ManifestAssumption, M!Init
  PROVE  MutInv
<1>1. /\ phase \in {"anchors", "anchorsOnly"} /\ truth = <<>> /\ held = <<>> /\ exit = "none"
      /\ task = [t \in Tasks |-> M!NewTask(t)]
      /\ defect \in [M!Muts \cup {M!Base} -> Edits]
  BY DEF M!Init, Tasks, Edits
<1>2. DOMAIN truth = {} /\ DOMAIN held = {}  BY <1>1
<1>3. ASSUME NEW t \in Tasks
      PROVE  JobInv(t) /\ task[t].pc = "queued"
  <2>1. M!KindsOf(t) \in Seq(M!Kinds)  BY KindsListed
  <2>2. /\ task[t] = M!NewTask(t) /\ task[t].pc = "queued" /\ task[t] \in Job
        /\ task[t].left = M!KindsOf(t) /\ task[t].passed = {} /\ task[t].failed = {}
    BY <1>1, <2>1 DEF M!NewTask, Job
  <2>3. Reported(t)  BY <2>2 DEF Reported
  <2> QED  BY <2>2, <2>3 DEF JobInv, Prepared, Applied
<1>4. DOMAIN task = Tasks /\ TruthKnown  BY <1>1, <1>2 DEF TruthKnown
<1>5. M!Active = {}  BY <1>3, <1>4 DEF M!Active
<1>6. PhaseInv  BY <1>1, <1>3 DEF PhaseInv, Before, Tasks
<1>7. PoolInv
  BY <1>5, FS_EmptySet DEF PoolInv, ManifestAssumption
<1>8. DiskInv  BY <1>1, <1>2 DEF DiskInv, Before
<1>9. ExitInv  BY <1>1 DEF ExitInv
<1> QED  BY <1>3, <1>4, <1>6, <1>7, <1>8, <1>9 DEF MutInv

LEMMA MutNext ==
  ASSUME ManifestAssumption, MutInv, [M!Next]_(M!vars)
  PROVE  MutInv'
<1>1. CASE UNCHANGED M!vars
  <2>1. UNCHANGED <<phase, defect, truth, task, held, exit>>  BY <1>1 DEF M!vars
  <2>2. \A t \in Tasks : JobInv(t)'
    <3> SUFFICES ASSUME NEW t \in Tasks  PROVE JobInv(t)'
      OBVIOUS
    <3>1. JobInv(t)  BY DEF MutInv
    <3>2. Reported(t)'  BY <2>1, <3>1 DEF JobInv, Reported, Says, M!Says
    <3> QED  BY <2>1, <3>1, <3>2 DEF JobInv, Prepared, Shares, Here, Applied, M!NewTask
  <2>3. M!Active' = M!Active  BY <2>1 DEF M!Active, M!Finished
  <2>4. PhaseInv' /\ PoolInv' /\ DiskInv'
    BY <2>1, <2>3 DEF MutInv, PhaseInv, PoolInv, DiskInv, M!BaselineClean, M!Stale,
                      M!KindsOf, M!InJob
  <2>5. ExitInv' /\ TruthKnown'
    BY <2>1 DEF MutInv, ExitInv, TruthKnown, Untouched, M!NewTask, M!KindsOf
  <2> QED  BY <2>1, <2>2, <2>4, <2>5 DEF MutInv, Tasks, M!BaseTasks
<1>2. CASE M!Preflight \/ M!SetUp \/ M!Fixtures \/ M!BaselineReport \/ M!Report \/ M!Unwind
  BY <1>2, MainMoved
<1>3. CASE M!Finally  BY <1>3, FinallyInv
<1>4. ASSUME NEW t \in Tasks, M!Start(t) \/ M!Prepare(t) \/ M!Run(t)  PROVE MutInv'
  BY <1>4, StartInv, PrepareInv, RunInv
<1>5. ASSUME NEW t \in M!BaseTasks, M!BaselineDone(t)  PROVE MutInv'
  BY <1>5, BaselineDoneInv
<1>6. ASSUME NEW m \in M!Muts,
             \/ M!Mirror(m) \/ M!MirrorFails(m) \/ M!Build(m) \/ M!BuildFails(m)
             \/ M!Judge(m) \/ M!Raise(m)
      PROVE  MutInv'
  BY <1>6, MirrorInv, BuildInv, Returned, RaiseInv
<1> QED  BY <1>1, <1>2, <1>3, <1>4, <1>5, <1>6 DEF M!Next, Tasks

(* Follows: what the invariant says of the verdicts and of the end.        *)
LEMMA Follows ==
  ASSUME ManifestAssumption, MutInv
  PROVE  M!VerdictsOwn /\ M!EndsHonest
<1>1. M!VerdictsOwn
  BY DEF MutInv, JobInv, Reported, Says, M!VerdictsOwn
<1>2. M!CleanBaseFirst
  <2> SUFFICES ASSUME NEW m \in M!Muts, task[m].pc # "queued", NEW k \in M!Wanted
               PROVE  M!Says(M!Base, k, {"pass"})
    BY DEF M!CleanBaseFirst
  <2>1. M!BaselineClean  BY DEF MutInv, PhaseInv
  <2>2. m \in Tasks  BY DEF Tasks
  <2>3. PICK b \in M!BaseTasks : k \in M!ToSet(M!KindsOf(b))  BY <2>2, KindsListed
  <2>4. b \in Tasks /\ k \in task[b].passed  BY <2>1, <2>3 DEF M!BaselineClean, Tasks
  <2>5. M!DesignOf(b) = M!Base  BY <2>4, KindsListed
  <2>6. Says(b, k, {"pass"})
    <3>1. b \notin M!Muts  BY <2>4, KindsListed
    <3> QED  BY <2>4, <3>1 DEF MutInv, JobInv, Reported, M!SharedBuild
  <2> QED  BY <2>5, <2>6 DEF Says
<1>3. M!ExitHonest
  <2> SUFFICES ASSUME phase = "ended", exit = "0", ~Untouched, NEW m \in M!Muts
               PROVE  /\ defect[m] = "none"
                      /\ \A k \in M!ToSet(Catchers[m]) :
                           M!SharedBuild(m, k) \/ M!Says(m, k, {"fail", "broken"})
    BY DEF M!ExitHonest, Untouched, Tasks
  <2>1. task[m].pc = "done" /\ task[m].verdict \notin M!Problems
    BY DEF MutInv, ExitInv
  <2>2. m \in Tasks /\ JobInv(m) /\ M!DesignOf(m) = m  BY AJob DEF MutInv
  <2>3. /\ defect[m] \notin {"ambiguous", "noBuild"}
        /\ task[m].failed = M!ToSet(Catchers[m])
    BY <2>1, <2>2 DEF JobInv, Applied
  <2>4. defect[m] \in Edits /\ defect[m] # "stale"
    BY <2>1 DEF MutInv, PhaseInv, M!Stale
  <2>5. \A k \in task[m].failed :
          M!SharedBuild(m, k) \/ M!Says(m, k, {"fail", "broken"})
    BY <2>2 DEF JobInv, Reported, Says
  <2> QED  BY <2>3, <2>4, <2>5 DEF Edits
<1>4. M!WorkReclaimed
  <2> DEFINE there == {m \in M!Muts : \E p \in DOMAIN held : M!InJob(p, m)}
  <2>1. there \subseteq M!Active  BY DEF MutInv, DiskInv
  <2>2. M!Active \subseteq Tasks  BY DEF M!Active, MutInv
  <2>3. Cardinality(there) <= Jobs
    <3>1. CASE Tasks = {}
      <4>1. there = {}  BY <2>1, <2>2, <3>1
      <4>2. Cardinality(there) = 0
        <5> HIDE DEF there
        <5> QED  BY <4>1, FS_EmptySet
      <4> QED  BY <4>2 DEF ManifestAssumption
    <3>2. CASE Tasks # {}
      <4>1. IsFiniteSet(Tasks)  BY <3>2, KindsListed
      <4>2. IsFiniteSet(M!Active)  BY <2>2, <4>1, FS_Subset
      <4>3. IsFiniteSet(there) /\ Cardinality(there) <= Cardinality(M!Active)
        BY <2>1, <4>2, FS_Subset
      <4>4. Cardinality(there) \in Nat /\ Cardinality(M!Active) \in Nat
        BY <4>2, <4>3, FS_CardinalityType
      <4> HIDE DEF there
      <4> QED  BY <4>3, <4>4 DEF MutInv, PoolInv, ManifestAssumption
    <3> QED  BY <3>1, <3>2
  <2>4. M!Cardinality(there) = Cardinality(there)  BY DEF M!Cardinality, Cardinality
  <2> QED  BY <2>3, <2>4 DEF M!WorkReclaimed, MutInv, DiskInv
<1> QED  BY <1>1, <1>2, <1>3, <1>4 DEF M!EndsHonest

(* JudgedOnOwn: VerdictsOwn always holds: for any manifest, any pool and   *)
(* any answers of the tools, what a task of tb/mutate/run_mutation.py      *)
(* reports of a test is what the tool says of the task's own design, but   *)
(* for a cocotb design that two jobs may build at once.                    *)
THEOREM JudgedOnOwn ==
  ASSUME ManifestAssumption
  PROVE  ToolsSpec => []VerdictsOwn
<1> DEFINE Inv == program = "mutation" => MutInv
<1>1. ToolsInit => Inv  BY MutInit DEF ToolsInit
<1>2. Inv /\ [ToolsNext]_toolsVars => Inv'  BY MutNext, OneProgram
<1>3. Inv => VerdictsOwn  BY Follows DEF VerdictsOwn
<1> QED  BY <1>1, <1>2, <1>3, PTL DEF ToolsSpec

(* MutationHonest: EndsHonest always holds: no mutation is judged before   *)
(* every test passed on the unmutated design, exit status 0 says that each *)
(* mutation was applied and caught by every test it declares, and no job's *)
(* directory outlives it (main and mutation_job of run_mutation.py).       *)
THEOREM MutationHonest ==
  ASSUME ManifestAssumption
  PROVE  ToolsSpec => []EndsHonest
<1> DEFINE Inv == program = "mutation" => MutInv
<1>1. ToolsInit => Inv  BY MutInit DEF ToolsInit
<1>2. Inv /\ [ToolsNext]_toolsVars => Inv'  BY MutNext, OneProgram
<1>3. Inv => EndsHonest  BY Follows DEF EndsHonest
<1> QED  BY <1>1, <1>2, <1>3, PTL DEF ToolsSpec
-----------------------------------------------------------------------------
(* The generator of random programs.                                       *)

Density == {"none", "some"}
ItemKinds == {"alu", "nop", "la", "label", "alias", "access", "branch", "jal"}
ItemSet == [kind : ItemKinds, rd : G!Regs, srcs : SUBSET (G!Regs \ {0}), base : G!Regs,
            off : Int, align : {1, 2, 4}, label : Nat, pad : BOOLEAN]
GenFields == {"out", "idx", "last_write", "last_was_load", "label_n", "pending",
              "label_hold", "raw_d", "lu_d"}
GenType(g) ==
  /\ DOMAIN g = GenFields
  /\ g.out \in Seq(ItemSet) /\ g.idx \in Nat /\ g.label_n \in Nat
  /\ g.pending \in SUBSET [at : Int, label : Nat] /\ IsFiniteSet(g.pending)
  /\ g.raw_d \in Density /\ g.lu_d \in Density
  /\ DOMAIN g.last_was_load = DOMAIN g.last_write
  /\ \A r \in DOMAIN g.last_write : g.last_write[r] \in Nat /\ g.last_write[r] < g.idx

\* The base register is set up in front of everything else, and nothing else
\* writes it.
Prologue(o) ==
  /\ Len(o) >= 8 /\ o[1].kind = "alu" /\ o[1].rd = 8 /\ o[5].kind = "la" /\ o[5].rd = 8
  /\ \A k \in {2, 3, 4, 6, 7, 8} : o[k].kind = "nop"
  /\ \A k \in 9 .. Len(o) : o[k].rd # 8 /\ o[k].kind # "la"

\* Every transfer has its label, in the program or yet to come.
Labelled(o, l) == \E j \in DOMAIN o : o[j].kind = "label" /\ o[j].label = l
Linked(g) ==
  \A i \in DOMAIN g.out :
    g.out[i].kind \in {"branch", "jal"} =>
      Labelled(g.out, g.out[i].label) \/ \E p \in g.pending : p.label = g.out[i].label

\* An access fits in scratch, from the base register or from the alias made
\* right in front of it.
Fits(a, size) == a >= 0 /\ a % size = 0 /\ a + size <= ScratchBytes
AliasAt(o, j, i, base) ==
  /\ o[j].kind = "alias" /\ o[j].rd = base /\ base # 0
  /\ \A k \in j + 1 .. i - 1 : o[k].kind = "nop"
Placed(o) ==
  \A i \in DOMAIN o : o[i].kind = "access" =>
    IF o[i].base = 8 THEN Fits(o[i].off, o[i].align)
    ELSE \E j \in 1 .. i - 1 : /\ AliasAt(o, j, i, o[i].base)
                               /\ o[j].off \in Nat /\ Fits(o[j].off + o[i].off, o[i].align)

\* The instructions from one item to another.
Passed(o, i, j) == Cardinality({k \in i + 1 .. j : o[k].kind # "label"})
Latest(o, i, j, r) == o[i].rd = r /\ \A k \in i + 1 .. j - 1 : o[k].rd # r
Dense(g, load) == IF load THEN g.lu_d ELSE g.raw_d
Spaced(g) ==
  \A j \in DOMAIN g.out : \A r \in g.out[j].srcs : \A i \in 1 .. j - 1 :
    Latest(g.out, i, j, r) /\ Dense(g, g.out[i].kind = "access") = "none" =>
      Passed(g.out, i, j) >= 3
\* _wrote() knows the last writer of each register.
Recorded(g) ==
  \A i \in DOMAIN g.out : \A r \in G!Regs \ {0} :
    Latest(g.out, i, Len(g.out) + 1, r) =>
      /\ r \in DOMAIN g.last_write
      /\ g.last_was_load[r] <=> g.out[i].kind = "access"
      /\ Passed(g.out, i, Len(g.out)) = g.idx - 1 - g.last_write[r]
BaseSettled(g) == 8 \in DOMAIN g.last_write /\ g.idx - g.last_write[8] >= 4

GenInv(g) ==
  /\ GenType(g) /\ Prologue(g.out) /\ Linked(g) /\ Placed(g.out)
  /\ Spaced(g) /\ Recorded(g) /\ BaseSettled(g)

\* The run: past the prologue the base register is known, and so is an alias
\* on arrival at its access.
PathInv ==
  LET o == gen.out
  IN  /\ pc \in 1 .. Len(o) + 1
      /\ pc \in 2 .. 8 => pc = 5
      /\ pc <= Len(o) => o[pc].kind # "nop"
      /\ pc > 8 => val[8] = 0
      /\ pc <= Len(o) /\ o[pc].kind = "access" /\ o[pc].base # 8 =>
           \A j \in 1 .. pc - 1 : AliasAt(o, j, pc, o[pc].base) => val[o[pc].base] = o[j].off

RandomInv ==
  /\ GenInv(gen) /\ stage \in {"seed", "fill", "body", "flush", "run"} /\ step \in Nat
  /\ val \in [G!Regs -> Int]
  /\ stage = "run" => gen.pending = {} /\ PathInv

(* WroteFields: what _wrote() changes.                                     *)
LEMMA WroteFields ==
  ASSUME NEW g, DOMAIN g = GenFields, NEW rd, NEW load, rd # 0
  PROVE  LET h == G!Wrote(g, rd, load)
         IN  /\ DOMAIN h = GenFields
             /\ \A f \in GenFields \ {"last_write", "last_was_load"} : h[f] = g[f]
             /\ DOMAIN h.last_write = DOMAIN g.last_write \cup {rd}
             /\ \A r \in DOMAIN h.last_write :
                  h.last_write[r] = IF r = rd THEN g.idx - 1 ELSE g.last_write[r]
             /\ DOMAIN h.last_was_load = DOMAIN g.last_was_load \cup {rd}
             /\ \A r \in DOMAIN h.last_was_load :
                  h.last_was_load[r] = IF r = rd THEN load ELSE g.last_was_load[r]
BY DEF G!Wrote, G!Set, GenFields

(* LeastNat: a set of numbers that is not empty has a least one.          *)
LEMMA LeastNat ==
  ASSUME NEW T, T \subseteq Nat, T # {}
  PROVE  \E m \in T : \A n \in T : m <= n
<1> DEFINE Segments == {0 .. n : n \in T}
           Order == StrictSubsetOrdering(Nat)
<1>1. \A n \in Nat : IsFiniteSet(0 .. n)  BY FS_Interval
<1>2. Segments \subseteq FiniteSubsetsOf(Nat) /\ Segments # {}
  <2>1. Segments # {}  OBVIOUS
  <2>2. ASSUME NEW y \in Segments PROVE y \in FiniteSubsetsOf(Nat)
    <3>1. PICK n \in T : y = 0 .. n  BY <2>2
    <3>2. n \in Nat  OBVIOUS
    <3>3. y \in SUBSET Nat  BY <3>1, <3>2
    <3> QED BY <1>1, <3>1, <3>2, <3>3 DEF FiniteSubsetsOf
  <2> QED BY <2>1, <2>2
<1>3. IsWellFoundedOn(Order, FiniteSubsetsOf(Nat))  BY FS_StrictSubsetOrderingWellFounded
<1>4. PICK x \in Segments : \A y \in Segments : ~ (<<y, x>> \in Order)
  <2> HIDE DEF Segments, Order
  <2> QED BY <1>2, <1>3, WFMin
<1>5. PICK m \in T : x = 0 .. m  OBVIOUS
<1>6. ASSUME NEW n \in T PROVE m <= n
  <2>1. (0 .. n) \in Segments  OBVIOUS
  <2>2. ~ (<<0 .. n, 0 .. m>> \in Order)  BY <1>4, <1>5, <2>1
  <2>3. m \in Nat /\ n \in Nat  OBVIOUS
  <2>4. ~(n < m)
    <3> SUFFICES ASSUME n < m PROVE FALSE  OBVIOUS
    <3>1. (0 .. n) \subseteq 0 .. m /\ m \in 0 .. m /\ m \notin 0 .. n
      BY <2>3
    <3>2. (0 .. n) \in SUBSET Nat /\ (0 .. m) \in SUBSET Nat  BY <2>3
    <3> QED BY <3>1, <3>2, <2>2 DEF StrictSubsetOrdering
  <2> QED BY <2>3, <2>4
<1> QED BY <1>6

(* GenCount: the count of the generator's module is that of the library.   *)
LEMMA GenCount == \A S : G!Cardinality(S) = Cardinality(S)
BY DEF G!Cardinality, Cardinality

(* SeqOf: SetToSeq() of a finite set lists its elements.                   *)
LEMMA SeqOf ==
  ASSUME NEW S, IsFiniteSet(S)
  PROVE  \E n \in Nat : /\ n = Cardinality(S) /\ G!SetToSeq(S) \in [1 .. n -> S]
                        /\ \A s \in S : \E k \in 1 .. n : G!SetToSeq(S)[k] = s
<1> DEFINE n == Cardinality(S)
<1>1. n \in Nat /\ G!Cardinality(S) = n  BY FS_CardinalityType, GenCount
<1>2. PICK f : f \in Bijection(1 .. n, S)  BY FS_CardinalityType DEF ExistsBijection
<1>3. f \in [1 .. n -> S] /\ G!IsInjective(f)
  BY <1>2 DEF Bijection, Injection, IsInjective, G!IsInjective
<1> DEFINE h == G!SetToSeq(S)
<1>4. h \in [1 .. n -> S] /\ G!IsInjective(h)
  BY <1>1, <1>3 DEF G!SetToSeq
<1>5. h \in Injection(1 .. n, S)  BY <1>4 DEF Injection, IsInjective, G!IsInjective
<1>6. IsFiniteSet(1 .. n) /\ Cardinality(1 .. n) = n
  BY <1>1, FS_Interval
<1>7. h \in Surjection(1 .. n, S)
  <2> HIDE DEF h
  <2> QED BY <1>5, <1>6, FS_Injection
<1>8. \A s \in S : \E k \in 1 .. n : h[k] = s
  BY <1>7 DEF Surjection
<1> QED BY <1>1, <1>4, <1>8

(* ItemFields: the items, field by field.                                  *)
LEMMA ItemFields ==
  /\ \A l \in Nat : /\ G!Label(l) \in ItemSet
                    /\ G!Label(l).kind = "label" /\ G!Label(l).label = l
                    /\ G!Label(l).rd = 0 /\ G!Label(l).srcs = {}
  /\ G!PadNop \in ItemSet /\ G!PadNop.kind = "nop" /\ G!PadNop.rd = 0 /\ G!PadNop.srcs = {}
  /\ G!Nop \in ItemSet /\ G!Nop.kind = "nop" /\ G!Nop.rd = 0 /\ G!Nop.srcs = {}
  /\ \A rd \in G!Regs, srcs \in SUBSET G!Regs :
       LET c == G!Compute(rd, srcs)
       IN  c \in ItemSet /\ c.kind = "alu" /\ c.rd = rd /\ c.srcs = srcs \ {0}
  /\ \A rd \in G!Regs, k \in Int :
       LET a == G!Alias(rd, k)
       IN  a \in ItemSet /\ a.kind = "alias" /\ a.rd = rd /\ a.srcs = {8} /\ a.off = k
  /\ \A base, rd \in G!Regs, off \in Int, align \in {1, 2, 4}, srcs \in SUBSET G!Regs :
       LET a == G!Access(base, off, align, rd, srcs)
       IN  /\ a \in ItemSet /\ a.kind = "access" /\ a.rd = rd /\ a.base = base
           /\ a.off = off /\ a.align = align /\ a.srcs = (srcs \cup {base}) \ {0}
<1>0. 0 \in G!Regs /\ 8 \in G!Regs /\ G!BASE_REG = 8 /\ {8} \in SUBSET (G!Regs \ {0})
  BY DEF G!Regs, G!BASE_REG
<1>1. G!Item \in ItemSet /\ G!Item.rd = 0 /\ G!Item.srcs = {} /\ G!Item.kind = "alu"
      /\ DOMAIN G!Item = {"kind", "rd", "srcs", "base", "off", "align", "label", "pad"}
  BY <1>0 DEF G!Item, ItemSet, ItemKinds
<1> HIDE DEF G!Item
<1>2. \A l \in Nat : /\ G!Label(l) \in ItemSet
                    /\ G!Label(l).kind = "label" /\ G!Label(l).label = l
                    /\ G!Label(l).rd = 0 /\ G!Label(l).srcs = {}
  BY <1>1 DEF G!Label, ItemSet, ItemKinds
<1>3. G!Nop \in ItemSet /\ G!Nop.kind = "nop" /\ G!Nop.rd = 0 /\ G!Nop.srcs = {}
  BY <1>1 DEF G!Nop, ItemSet, ItemKinds
<1>4. G!PadNop \in ItemSet /\ G!PadNop.kind = "nop" /\ G!PadNop.rd = 0 /\ G!PadNop.srcs = {}
  BY <1>3 DEF G!PadNop, ItemSet, ItemKinds
<1>5. ASSUME NEW rd \in G!Regs, NEW srcs \in SUBSET G!Regs
      PROVE  LET c == G!Compute(rd, srcs)
             IN  c \in ItemSet /\ c.kind = "alu" /\ c.rd = rd /\ c.srcs = srcs \ {0}
  BY <1>1, <1>5 DEF G!Compute, ItemSet, ItemKinds
<1>6. ASSUME NEW rd \in G!Regs, NEW k \in Int
      PROVE  LET a == G!Alias(rd, k)
             IN  a \in ItemSet /\ a.kind = "alias" /\ a.rd = rd /\ a.srcs = {8} /\ a.off = k
  BY <1>0, <1>1, <1>6 DEF G!Alias, ItemSet, ItemKinds
<1>7. ASSUME NEW base \in G!Regs, NEW rd \in G!Regs, NEW off \in Int,
             NEW align \in {1, 2, 4}, NEW srcs \in SUBSET G!Regs
      PROVE  LET a == G!Access(base, off, align, rd, srcs)
             IN  /\ a \in ItemSet /\ a.kind = "access" /\ a.rd = rd /\ a.base = base
                 /\ a.off = off /\ a.align = align /\ a.srcs = (srcs \cup {base}) \ {0}
  BY <1>1, <1>7 DEF G!Access, ItemSet, ItemKinds
<1> QED BY <1>2, <1>3, <1>4, <1>5, <1>6, <1>7

(* DueFinite: finitely many labels are due.                                *)
LEMMA DueFinite ==
  ASSUME NEW g, GenType(g)
  PROVE  /\ IsFiniteSet({p.label : p \in G!Due(g)})
         /\ {p.label : p \in G!Due(g)} \subseteq Nat /\ G!Due(g) \subseteq g.pending
<1>1. G!Due(g) \subseteq g.pending  BY DEF G!Due
<1>2. IsFiniteSet(G!Due(g))  BY <1>1, FS_Subset DEF GenType
<1> DEFINE f == [p \in G!Due(g) |-> p.label]
           S == {p.label : p \in G!Due(g)}
<1>3. f \in Surjection(G!Due(g), S)  BY DEF Surjection
<1>4. IsFiniteSet(S)
  <2> HIDE DEF f, S
  <2> QED BY <1>2, <1>3, FS_Surjection
<1>5. S \subseteq Nat  BY <1>1 DEF GenType
<1> QED BY <1>1, <1>4, <1>5

(* EmitFields: what _emit() changes, but for the text.                     *)
LEMMA EmitFields ==
  ASSUME NEW g, GenType(g), NEW item
  PROVE  LET h == G!Emit(g, item)
         IN  /\ DOMAIN h = GenFields /\ h.idx = g.idx + 1
             /\ h.pending = g.pending \ G!Due(g)
             /\ \A f \in GenFields \ {"idx", "pending", "out"} : h[f] = g[f]
BY DEF G!Emit, GenType, GenFields

(* EmitLays: the labels that are due, then the instruction.                *)
LEMMA EmitLays ==
  ASSUME NEW g, GenType(g), NEW item \in ItemSet
  PROVE  LET o == g.out
             p == G!Emit(g, item).out
         IN  \E n \in Nat :
               /\ p \in Seq(ItemSet) /\ Len(p) = Len(o) + n + 1 /\ p[Len(p)] = item
               /\ \A k \in 1 .. Len(o) : p[k] = o[k]
               /\ \A k \in Len(o) + 1 .. Len(o) + n :
                    p[k].kind = "label" /\ p[k].rd = 0 /\ p[k].srcs = {}
               /\ \A d \in G!Due(g) : Labelled(p, d.label)
               /\ G!Due(g) = {} => n = 0
<1> DEFINE S == {d.label : d \in G!Due(g)}
           labels == G!SetToSeq(S)
<1>1. IsFiniteSet(S) /\ S \subseteq Nat  BY DueFinite
<1> HIDE DEF S, labels
<1>2. PICK n \in Nat : /\ n = Cardinality(S) /\ labels \in [1 .. n -> S]
                       /\ \A s \in S : \E k \in 1 .. n : labels[k] = s
  BY <1>1, SeqOf DEF labels
<1> DEFINE ls == [k \in DOMAIN labels |-> G!Label(labels[k])]
           o == g.out
           p == G!Emit(g, item).out
<1>3. p = o \o ls \o <<item>>
  BY DEF G!Emit, GenType, GenFields, S, labels
<1>4. ls \in Seq(ItemSet) /\ Len(ls) = n /\ \A k \in 1 .. n : ls[k] = G!Label(labels[k])
  <2>1. DOMAIN labels = 1 .. n /\ \A k \in 1 .. n : labels[k] \in Nat  BY <1>1, <1>2
  <2>2. \A k \in 1 .. n : G!Label(labels[k]) \in ItemSet  BY <2>1, ItemFields
  <2> QED BY <2>1, <2>2
<1>5. o \in Seq(ItemSet)  BY DEF GenType
<1> HIDE DEF ls, o, p
<1>6. /\ p \in Seq(ItemSet) /\ Len(p) = Len(o) + n + 1 /\ p[Len(p)] = item
      /\ \A k \in 1 .. Len(o) : p[k] = o[k]
      /\ \A k \in 1 .. n : p[Len(o) + k] = ls[k]
  <2> DEFINE q == o \o ls
  <2>1. /\ q \in Seq(ItemSet) /\ Len(q) = Len(o) + n
        /\ \A k \in 1 .. Len(o) : q[k] = o[k]
        /\ \A k \in 1 .. n : q[Len(o) + k] = ls[k]
    BY <1>4, <1>5
  <2>2. p = q \o <<item>>  BY <1>3
  <2>3. Len(o) \in Nat  BY <1>5
  <2> HIDE DEF q
  <2>4. /\ p \in Seq(ItemSet) /\ Len(p) = Len(q) + 1 /\ p[Len(p)] = item
        /\ \A k \in 1 .. Len(q) : p[k] = q[k]
    BY <2>1, <2>2
  <2>5. \A k \in 1 .. Len(o) : p[k] = o[k]  BY <2>1, <2>3, <2>4
  <2>6. \A k \in 1 .. n : p[Len(o) + k] = ls[k]
    <3> SUFFICES ASSUME NEW k \in 1 .. n PROVE p[Len(o) + k] = ls[k]  OBVIOUS
    <3>1. Len(o) + k \in 1 .. Len(q)  BY <2>1, <2>3
    <3> QED BY <3>1, <2>1, <2>4
  <2> QED BY <2>1, <2>3, <2>4, <2>5, <2>6
<1>7. \A k \in 1 .. n : /\ p[Len(o) + k].kind = "label" /\ p[Len(o) + k].label = labels[k]
                        /\ p[Len(o) + k].rd = 0 /\ p[Len(o) + k].srcs = {}
  <2> SUFFICES ASSUME NEW k \in 1 .. n
               PROVE  /\ p[Len(o) + k].kind = "label" /\ p[Len(o) + k].label = labels[k]
                      /\ p[Len(o) + k].rd = 0 /\ p[Len(o) + k].srcs = {}
    OBVIOUS
  <2>1. labels[k] \in Nat  BY <1>1, <1>2
  <2>2. p[Len(o) + k] = G!Label(labels[k])  BY <1>4, <1>6
  <2> QED BY <2>1, <2>2, ItemFields
<1>8. ASSUME NEW k \in Len(o) + 1 .. Len(o) + n
      PROVE  p[k].kind = "label" /\ p[k].rd = 0 /\ p[k].srcs = {}
  <2>1. Len(o) \in Nat  BY <1>5
  <2>2. PICK m \in 1 .. n : k = Len(o) + m  BY <2>1
  <2> QED BY <2>2, <1>7
<1>9. ASSUME NEW d \in G!Due(g) PROVE Labelled(p, d.label)
  <2>1. d.label \in S  BY DEF S
  <2>2. PICK k \in 1 .. n : labels[k] = d.label  BY <2>1, <1>2
  <2>3. Len(o) + k \in DOMAIN p  BY <1>5, <1>6
  <2> QED BY <2>2, <2>3, <1>7 DEF Labelled
<1>10. ASSUME G!Due(g) = {} PROVE n = 0
  <2>1. S = {}  BY <1>10 DEF S
  <2> QED BY <1>2, <2>1, FS_EmptySet
<1> QED BY <1>6, <1>8, <1>9, <1>10 DEF o, p

\* Text p is o, n labels and an item.
Lays(o, p, n, item) ==
  /\ o \in Seq(ItemSet) /\ p \in Seq(ItemSet) /\ Len(p) = Len(o) + n + 1
  /\ item \in ItemSet /\ p[Len(p)] = item
  /\ \A k \in 1 .. Len(o) : p[k] = o[k]
  /\ \A k \in Len(o) + 1 .. Len(o) + n :
       p[k].kind = "label" /\ p[k].rd = 0 /\ p[k].srcs = {}

(* PassedGrows: the labels in front of an instruction do not count.        *)
LEMMA PassedGrows ==
  ASSUME NEW o, NEW p, NEW n \in Nat, NEW item, Lays(o, p, n, item), item.kind # "label"
  PROVE  /\ \A i \in Nat, j \in 0 .. Len(o) : Passed(p, i, j) = Passed(o, i, j)
         /\ \A i \in 0 .. Len(o) : Passed(p, i, Len(p)) = Passed(o, i, Len(o)) + 1
         /\ \A i \in Nat, j \in Nat : Passed(o, i, j) \in Nat
<1>0. Len(o) \in Nat /\ Len(p) = Len(o) + n + 1  BY DEF Lays
<1> DEFINE Counted(q, i, j) == {k \in i + 1 .. j : q[k].kind # "label"}
<1>1. ASSUME NEW q, NEW i \in Nat, NEW j \in Nat
      PROVE  IsFiniteSet(Counted(q, i, j)) /\ Passed(q, i, j) \in Nat
  <2>1. IsFiniteSet(i + 1 .. j)  BY FS_Interval
  <2>2. Counted(q, i, j) \subseteq i + 1 .. j  OBVIOUS
  <2>3. IsFiniteSet(Counted(q, i, j))  BY <2>1, <2>2, FS_Subset
  <2> QED BY <2>3, FS_CardinalityType DEF Passed
<1>2. ASSUME NEW i \in Nat, NEW j \in 0 .. Len(o)
      PROVE  Passed(p, i, j) = Passed(o, i, j)
  <2>1. Counted(p, i, j) = Counted(o, i, j)
    <3>1. \A k \in i + 1 .. j : p[k] = o[k]  BY <1>0 DEF Lays
    <3> QED BY <3>1
  <2> QED BY <2>1 DEF Passed
<1>3. ASSUME NEW i \in 0 .. Len(o)
      PROVE  Passed(p, i, Len(p)) = Passed(o, i, Len(o)) + 1
  <2>1. Counted(p, i, Len(p)) = Counted(o, i, Len(o)) \cup {Len(p)}
    <3>1. \A k \in i + 1 .. Len(o) : p[k] = o[k]  BY <1>0 DEF Lays
    <3>2. \A k \in Len(o) + 1 .. Len(o) + n : p[k].kind = "label"  BY DEF Lays
    <3>3. p[Len(p)].kind # "label"  BY DEF Lays
    <3>4. ASSUME NEW k \in Int
          PROVE  k \in i + 1 .. Len(p) <=> \/ k \in i + 1 .. Len(o)
                                           \/ k \in Len(o) + 1 .. Len(o) + n
                                           \/ k = Len(p)
      BY <1>0
    <3> QED BY <1>0, <3>1, <3>2, <3>3, <3>4
  <2>2. Len(p) \notin Counted(o, i, Len(o))  BY <1>0
  <2>3. IsFiniteSet(Counted(o, i, Len(o)))  BY <1>0, <1>1
  <2> HIDE DEF Counted
  <2>4. Cardinality(Counted(p, i, Len(p))) = Cardinality(Counted(o, i, Len(o))) + 1
    BY <2>1, <2>2, <2>3, FS_AddElement
  <2> QED BY <2>4 DEF Passed, Counted
<1>4. \A i \in Nat, j \in Nat : Passed(o, i, j) \in Nat  BY <1>1
<1> QED BY <1>2, <1>3, <1>4

(* LatestGrows: who wrote a register last, seen from the new item.         *)
LEMMA LatestGrows ==
  ASSUME NEW o, NEW p, NEW n \in Nat, NEW item, Lays(o, p, n, item), NEW r, r # 0
  PROVE  /\ \A j \in 1 .. Len(o) : \A i \in 1 .. j - 1 :
              Latest(p, i, j, r) <=> Latest(o, i, j, r)
         /\ \A i \in 1 .. Len(p) - 1 : Latest(p, i, Len(p), r) =>
              i \in 1 .. Len(o) /\ Latest(o, i, Len(o) + 1, r)
         /\ \A i \in 1 .. Len(p) : Latest(p, i, Len(p) + 1, r) =>
              \/ i = Len(p) /\ item.rd = r
              \/ /\ i \in 1 .. Len(o) /\ item.rd # r /\ Latest(o, i, Len(o) + 1, r)
<1>0. Len(o) \in Nat /\ Len(p) = Len(o) + n + 1  BY DEF Lays
<1>1. \A k \in 1 .. Len(o) : p[k] = o[k]  BY DEF Lays
<1>2. \A k \in Len(o) + 1 .. Len(o) + n : p[k].rd = 0  BY DEF Lays
<1>3. p[Len(p)] = item  BY DEF Lays
<1>4. ASSUME NEW j \in 1 .. Len(o), NEW i \in 1 .. j - 1
      PROVE  Latest(p, i, j, r) <=> Latest(o, i, j, r)
  <2>1. \A k \in i .. j - 1 : p[k] = o[k]  BY <1>0, <1>1
  <2> QED BY <2>1 DEF Latest
<1>5. ASSUME NEW i \in 1 .. Len(p), NEW m \in {Len(p), Len(p) + 1}, i < m, Latest(p, i, m, r),
             i # Len(p)
      PROVE  i \in 1 .. Len(o) /\ Latest(o, i, Len(o) + 1, r)
  <2>1. p[i].rd = r  BY <1>5 DEF Latest
  <2>2. i \in 1 .. Len(o)  BY <1>0, <1>2, <1>5, <2>1
  <2>3. \A k \in i + 1 .. Len(o) : k \in i + 1 .. m - 1  BY <1>0, <2>2
  <2>4. \A k \in i + 1 .. Len(o) : p[k].rd # r  BY <1>5, <2>3 DEF Latest
  <2> QED BY <1>0, <1>1, <2>1, <2>2, <2>4 DEF Latest
<1>6. ASSUME NEW i \in 1 .. Len(p) - 1, Latest(p, i, Len(p), r)
      PROVE  i \in 1 .. Len(o) /\ Latest(o, i, Len(o) + 1, r)
  BY <1>0, <1>5, <1>6
<1>7. ASSUME NEW i \in 1 .. Len(p), Latest(p, i, Len(p) + 1, r)
      PROVE  \/ i = Len(p) /\ item.rd = r
             \/ /\ i \in 1 .. Len(o) /\ item.rd # r /\ Latest(o, i, Len(o) + 1, r)
  <2>1. CASE i = Len(p)  BY <1>3, <1>7, <2>1 DEF Latest
  <2>2. CASE i # Len(p)
    <3>1. i \in 1 .. Len(o) /\ Latest(o, i, Len(o) + 1, r)  BY <1>0, <1>5, <1>7, <2>2
    <3>2. Len(p) \in i + 1 .. (Len(p) + 1) - 1  BY <1>0, <3>1
    <3>3. item.rd # r  BY <1>3, <1>7, <3>2 DEF Latest
    <3> QED BY <3>1, <3>3
  <2> QED BY <2>1, <2>2
<1> QED BY <1>4, <1>6, <1>7

\* What an instruction must be to be emitted.
Ready(g, srcs) ==
  \A r \in srcs \cap DOMAIN g.last_write :
    Dense(g, g.last_was_load[r]) = "none" => g.idx - g.last_write[r] >= 3
Behind(g, base, k) ==
  /\ g.label_hold = TRUE /\ k \in Nat
  /\ \E j \in 1 .. Len(g.out) : AliasAt(g.out, j, Len(g.out) + 1, base) /\ g.out[j].off = k
Fitting(g, item) ==
  item.kind = "access" =>
    IF item.base = 8 THEN Fits(item.off, item.align)
    ELSE \E k \in Nat : Behind(g, item.base, k) /\ Fits(k + item.off, item.align)
Allowed(g, item) ==
  /\ item \in ItemSet /\ item.kind \notin {"la", "label"} /\ item.rd # 8
  /\ item.kind \in {"branch", "jal"} => \E p \in g.pending : p.label = item.label
  /\ Fitting(g, item) /\ Ready(g, item.srcs)

Put(g, item) == G!Wrote(G!Emit(g, item), item.rd, item.kind = "access")

(* PutFields: what emitting an instruction and recording it changes.       *)
LEMMA PutFields ==
  ASSUME NEW g, GenType(g), NEW item
  PROVE  LET h == Put(g, item)
         IN  /\ DOMAIN h = GenFields /\ h.idx = g.idx + 1
             /\ h.out = G!Emit(g, item).out /\ h.pending = g.pending \ G!Due(g)
             /\ h.label_n = g.label_n /\ h.label_hold = g.label_hold
             /\ h.raw_d = g.raw_d /\ h.lu_d = g.lu_d
             /\ item.rd = 0 => /\ h.last_write = g.last_write
                               /\ h.last_was_load = g.last_was_load
             /\ item.rd # 0 =>
                  /\ DOMAIN h.last_write = DOMAIN g.last_write \cup {item.rd}
                  /\ DOMAIN h.last_was_load = DOMAIN g.last_was_load \cup {item.rd}
                  /\ h.last_write[item.rd] = g.idx
                  /\ h.last_was_load[item.rd] = (item.kind = "access")
                  /\ \A r \in DOMAIN g.last_write \ {item.rd} :
                       h.last_write[r] = g.last_write[r]
                  /\ \A r \in DOMAIN g.last_was_load \ {item.rd} :
                       h.last_was_load[r] = g.last_was_load[r]
<1> DEFINE e == G!Emit(g, item)
           h == Put(g, item)
<1>1. /\ DOMAIN e = GenFields /\ e.idx = g.idx + 1
      /\ e.pending = g.pending \ G!Due(g)
      /\ \A f \in GenFields \ {"idx", "pending", "out"} : e[f] = g[f]
  BY EmitFields
<1>2. h = G!Wrote(e, item.rd, item.kind = "access")  BY DEF Put
<1>3. g.idx \in Nat  BY DEF GenType
<1> HIDE DEF e, h
<1>4. CASE item.rd = 0
  <2>1. h = e  BY <1>2, <1>4 DEF G!Wrote
  <2> QED BY <2>1, <1>1, <1>4 DEF GenFields, e, h
<1>5. CASE item.rd # 0
  <2>1. /\ DOMAIN h = GenFields
        /\ \A f \in GenFields \ {"last_write", "last_was_load"} : h[f] = e[f]
        /\ DOMAIN h.last_write = DOMAIN e.last_write \cup {item.rd}
        /\ \A r \in DOMAIN h.last_write :
             h.last_write[r] = IF r = item.rd THEN e.idx - 1 ELSE e.last_write[r]
        /\ DOMAIN h.last_was_load = DOMAIN e.last_was_load \cup {item.rd}
        /\ \A r \in DOMAIN h.last_was_load :
             h.last_was_load[r] = IF r = item.rd THEN item.kind = "access"
                                  ELSE e.last_was_load[r]
    BY <1>1, <1>2, <1>5, WroteFields
  <2>2. e.last_write = g.last_write /\ e.last_was_load = g.last_was_load
        /\ e.label_n = g.label_n /\ e.label_hold = g.label_hold
        /\ e.raw_d = g.raw_d /\ e.lu_d = g.lu_d
    BY <1>1 DEF GenFields
  <2>3. h.idx = e.idx /\ h.out = e.out /\ h.pending = e.pending
        /\ h.label_n = e.label_n /\ h.label_hold = e.label_hold
        /\ h.raw_d = e.raw_d /\ h.lu_d = e.lu_d
    BY <2>1 DEF GenFields
  <2>4. e.idx - 1 = g.idx  BY <1>1, <1>3
  <2>5. h.last_write[item.rd] = g.idx  BY <2>1, <2>4
  <2>6. h.last_was_load[item.rd] = (item.kind = "access")  BY <2>1
  <2>7. \A r \in DOMAIN g.last_write \ {item.rd} : h.last_write[r] = g.last_write[r]
    BY <2>1, <2>2
  <2>8. \A r \in DOMAIN g.last_was_load \ {item.rd} :
          h.last_was_load[r] = g.last_was_load[r]
    BY <2>1, <2>2
  <2> QED BY <1>1, <1>5, <2>1, <2>2, <2>3, <2>5, <2>6, <2>7, <2>8 DEF e, h
<1> QED BY <1>4, <1>5

(* PutLays: the text grows by labels and the instruction.                  *)
LEMMA PutLays ==
  ASSUME NEW g, GenType(g), NEW item \in ItemSet
  PROVE  \E n \in Nat : /\ Lays(g.out, Put(g, item).out, n, item)
                        /\ \A d \in G!Due(g) : Labelled(Put(g, item).out, d.label)
                        /\ g.label_hold = TRUE => n = 0
<1>1. Put(g, item).out = G!Emit(g, item).out  BY PutFields
<1>2. g.out \in Seq(ItemSet)  BY DEF GenType
<1>3. g.label_hold = TRUE => G!Due(g) = {}  BY DEF G!Due
<1> DEFINE o == g.out
           p == G!Emit(g, item).out
<1>4. PICK n \in Nat :
        /\ p \in Seq(ItemSet) /\ Len(p) = Len(o) + n + 1 /\ p[Len(p)] = item
        /\ \A k \in 1 .. Len(o) : p[k] = o[k]
        /\ \A k \in Len(o) + 1 .. Len(o) + n :
             p[k].kind = "label" /\ p[k].rd = 0 /\ p[k].srcs = {}
        /\ \A d \in G!Due(g) : Labelled(p, d.label)
        /\ G!Due(g) = {} => n = 0
  BY EmitLays
<1> HIDE DEF o, p
<1>5. Lays(o, p, n, item)  BY <1>2, <1>4 DEF Lays, o
<1> QED BY <1>1, <1>3, <1>4, <1>5 DEF o, p

(* PutTyped: an instruction emitted is of the program's type.              *)
LEMMA PutTyped ==
  ASSUME NEW g, GenType(g), NEW item \in ItemSet
  PROVE  GenType(Put(g, item))
<1> DEFINE h == Put(g, item)
<1>1. PICK n \in Nat : Lays(g.out, h.out, n, item)  BY PutLays
<1>2. h.out \in Seq(ItemSet)  BY <1>1 DEF Lays
<1>3. /\ DOMAIN h = GenFields /\ h.idx = g.idx + 1
      /\ h.pending = g.pending \ G!Due(g)
      /\ h.label_n = g.label_n /\ h.raw_d = g.raw_d /\ h.lu_d = g.lu_d
  BY PutFields
<1>4. IsFiniteSet(h.pending) /\ h.pending \in SUBSET [at : Int, label : Nat]
  BY <1>3, FS_Subset DEF GenType
<1>5. g.idx \in Nat /\ DOMAIN g.last_was_load = DOMAIN g.last_write
      /\ \A r \in DOMAIN g.last_write : g.last_write[r] \in Nat /\ g.last_write[r] < g.idx
  BY DEF GenType
<1>6. CASE item.rd = 0
  <2>1. h.last_write = g.last_write /\ h.last_was_load = g.last_was_load
    BY <1>6, PutFields
  <2> HIDE DEF h
  <2>2. \A r \in DOMAIN h.last_write : h.last_write[r] \in Nat /\ h.last_write[r] < h.idx
    BY <2>1, <1>3, <1>5
  <2>3. h.label_n \in Nat /\ h.idx \in Nat /\ h.raw_d \in Density /\ h.lu_d \in Density
    BY <1>3 DEF GenType
  <2>4. GenType(h)  BY <2>1, <2>2, <2>3, <1>2, <1>3, <1>4, <1>5 DEF GenType
  <2> QED BY <2>4 DEF h
<1>7. CASE item.rd # 0
  <2>1. /\ DOMAIN h.last_write = DOMAIN g.last_write \cup {item.rd}
        /\ DOMAIN h.last_was_load = DOMAIN g.last_was_load \cup {item.rd}
        /\ h.last_write[item.rd] = g.idx
        /\ \A r \in DOMAIN g.last_write \ {item.rd} : h.last_write[r] = g.last_write[r]
    BY ZenonT(60), <1>7, PutFields
  <2> HIDE DEF h
  <2>2. \A r \in DOMAIN h.last_write : h.last_write[r] \in Nat /\ h.last_write[r] < h.idx
    BY <2>1, <1>3, <1>5
  <2>3. DOMAIN h.last_was_load = DOMAIN h.last_write  BY <2>1, <1>5
  <2>4. h.label_n \in Nat /\ h.idx \in Nat /\ h.raw_d \in Density /\ h.lu_d \in Density
    BY <1>3 DEF GenType
  <2>5. GenType(h)  BY <2>2, <2>3, <2>4, <1>2, <1>3, <1>4 DEF GenType
  <2> QED BY <2>5 DEF h
<1> QED BY <1>6, <1>7

(* PutLinked: the labels that were due are in the program now.             *)
LEMMA PutLinked ==
  ASSUME NEW g, GenInv(g), NEW item, Allowed(g, item)
  PROVE  Linked(Put(g, item))
<1> DEFINE h == Put(g, item)
<1>0. GenType(g) /\ item \in ItemSet  BY DEF GenInv, Allowed
<1>1. PICK n \in Nat : /\ Lays(g.out, h.out, n, item)
                       /\ \A d \in G!Due(g) : Labelled(h.out, d.label)
  BY <1>0, PutLays
<1>2. h.pending = g.pending \ G!Due(g)  BY <1>0, PutFields
<1> HIDE DEF h
<1>3. ASSUME NEW p \in g.pending
      PROVE  Labelled(h.out, p.label) \/ \E q \in h.pending : q.label = p.label
  BY <1>1, <1>2
<1>4. \A l : Labelled(g.out, l) => Labelled(h.out, l)
  BY <1>1 DEF Labelled, Lays
<1>5. ASSUME NEW i \in DOMAIN h.out, h.out[i].kind \in {"branch", "jal"}
      PROVE  Labelled(h.out, h.out[i].label) \/ \E q \in h.pending : q.label = h.out[i].label
  <2>1. i \in 1 .. Len(g.out) \/ i = Len(h.out)
    <3>1. /\ Len(g.out) \in Nat /\ Len(h.out) = Len(g.out) + n + 1
          /\ DOMAIN h.out = 1 .. Len(h.out)
      BY <1>1 DEF Lays
    <3>2. \A k \in Len(g.out) + 1 .. Len(g.out) + n : h.out[k].kind = "label"
      BY <1>1 DEF Lays
    <3>3. i \notin Len(g.out) + 1 .. Len(g.out) + n  BY <3>2, <1>5
    <3> QED BY <3>1, <3>3
  <2>2. CASE i \in 1 .. Len(g.out)
    <3>1. h.out[i] = g.out[i] /\ i \in DOMAIN g.out  BY <1>1, <2>2 DEF Lays
    <3> QED BY <3>1, <1>3, <1>4, <1>5 DEF GenInv, Linked
  <2>3. CASE i = Len(h.out)
    <3>1. h.out[i] = item  BY <1>1, <2>3 DEF Lays
    <3> QED BY <3>1, <1>3, <1>5 DEF Allowed
  <2> QED BY <2>1, <2>2, <2>3
<1>6. Linked(h)  BY <1>5 DEF Linked
<1> QED BY <1>6 DEF h

(* AliasStays: an alias in front of an access stays there.                 *)
LEMMA AliasStays ==
  ASSUME NEW o, NEW p, NEW n \in Nat, NEW item, Lays(o, p, n, item),
         NEW i \in 1 .. Len(o) + 1, NEW j \in 1 .. i - 1, NEW base
  PROVE  AliasAt(p, j, i, base) <=> AliasAt(o, j, i, base)
<1>0. Len(o) \in Nat  BY DEF Lays
<1>1. \A k \in j .. i - 1 : p[k] = o[k]  BY <1>0 DEF Lays
<1> QED BY <1>0, <1>1 DEF AliasAt

(* PutPlaced: accesses fit in scratch.                                     *)
LEMMA PutPlaced ==
  ASSUME NEW g, GenInv(g), NEW item, Allowed(g, item)
  PROVE  Placed(Put(g, item).out)
<1> DEFINE p == Put(g, item).out
           o == g.out
<1>0. GenType(g) /\ item \in ItemSet  BY DEF GenInv, Allowed
<1>1. PICK n \in Nat : Lays(o, p, n, item) /\ (g.label_hold = TRUE => n = 0)
  BY <1>0, PutLays
<1>2. Placed(o) /\ Fitting(g, item)  BY DEF GenInv, Allowed
<1> HIDE DEF p
<1>3. Len(o) \in Nat /\ Len(p) = Len(o) + n + 1 /\ DOMAIN p = 1 .. Len(p)
      /\ DOMAIN o = 1 .. Len(o)
  BY <1>1 DEF Lays
<1>4. ASSUME NEW i \in DOMAIN p, p[i].kind = "access"
      PROVE  IF p[i].base = 8 THEN Fits(p[i].off, p[i].align)
             ELSE \E j \in 1 .. i - 1 : /\ AliasAt(p, j, i, p[i].base) /\ p[j].off \in Nat
                                        /\ Fits(p[j].off + p[i].off, p[i].align)
  <2>1. i \in 1 .. Len(o) \/ i = Len(p)
    BY <1>1, <1>4 DEF Lays
  <2>2. CASE i \in 1 .. Len(o)
    <3>1. p[i] = o[i] /\ i \in DOMAIN o  BY <1>1, <1>3, <2>2 DEF Lays
    <3>2. CASE p[i].base = 8  BY <3>1, <3>2, <1>2, <1>4 DEF Placed
    <3>3. CASE p[i].base # 8
      <4>1. PICK j \in 1 .. i - 1 : /\ AliasAt(o, j, i, o[i].base) /\ o[j].off \in Nat
                                    /\ Fits(o[j].off + o[i].off, o[i].align)
        BY <3>1, <3>3, <1>2, <1>4 DEF Placed
      <4>2. p[j] = o[j] /\ i \in 1 .. Len(o) + 1 /\ j \in 1 .. i - 1
        BY <1>1, <1>3, <2>2 DEF Lays
      <4>3. AliasAt(p, j, i, o[i].base)  BY <4>1, <4>2, <1>1, AliasStays
      <4> QED BY <4>1, <4>2, <4>3, <3>1, <3>3
    <3> QED BY <3>2, <3>3
  <2>3. CASE i = Len(p)
    <3>1. p[i] = item  BY <1>1, <2>3 DEF Lays
    <3>2. CASE item.base = 8  BY <3>1, <3>2, <1>2, <1>4 DEF Fitting
    <3>3. CASE item.base # 8
      <4>1. PICK k \in Nat : Behind(g, item.base, k) /\ Fits(k + item.off, item.align)
        BY <3>1, <3>3, <1>2, <1>4 DEF Fitting
      <4>2. PICK j \in 1 .. Len(o) : AliasAt(o, j, Len(o) + 1, item.base) /\ o[j].off = k
        BY <4>1 DEF Behind
      <4>3. i = Len(o) + 1  BY <4>1, <1>1, <1>3, <2>3 DEF Behind
      <4>4. p[j] = o[j] /\ j \in 1 .. i - 1 /\ i \in 1 .. Len(o) + 1
        BY <1>1, <1>3, <4>3 DEF Lays
      <4>5. AliasAt(p, j, i, item.base)  BY <4>2, <4>3, <4>4, <1>1, AliasStays
      <4> QED BY <4>1, <4>2, <4>4, <4>5, <3>1, <3>3
    <3> QED BY <3>1, <3>2, <3>3
  <2> QED BY <2>1, <2>2, <2>3
<1>5. Placed(p)  BY <1>4 DEF Placed
<1> QED BY <1>5 DEF p

(* PutPrologue: the prologue stays, and nothing writes the base register.  *)
LEMMA PutPrologue ==
  ASSUME NEW g, GenInv(g), NEW item, Allowed(g, item)
  PROVE  Prologue(Put(g, item).out)
<1> DEFINE p == Put(g, item).out
           o == g.out
<1>0. GenType(g) /\ item \in ItemSet  BY DEF GenInv, Allowed
<1>1. PICK n \in Nat : Lays(o, p, n, item)  BY <1>0, PutLays
<1> HIDE DEF p
<1>2. Prologue(o) /\ item.rd # 8 /\ item.kind # "la"  BY DEF GenInv, Allowed
<1>3. Len(o) \in Nat /\ Len(p) = Len(o) + n + 1  BY <1>1 DEF Lays
<1>4. \A k \in 1 .. 8 : p[k] = o[k]  BY <1>1, <1>2, <1>3 DEF Lays, Prologue
<1>5. ASSUME NEW k \in 9 .. Len(p) PROVE p[k].rd # 8 /\ p[k].kind # "la"
  <2>1. k \in 9 .. Len(o) \/ k \in Len(o) + 1 .. Len(o) + n \/ k = Len(p)  BY <1>3
  <2>2. CASE k \in 9 .. Len(o)
    <3>1. p[k] = o[k]  BY <2>2, <1>1, <1>3 DEF Lays
    <3> QED BY <2>2, <3>1, <1>2 DEF Prologue
  <2>3. CASE k \in Len(o) + 1 .. Len(o) + n  BY <2>3, <1>1 DEF Lays
  <2>4. CASE k = Len(p)  BY <2>4, <1>1, <1>2 DEF Lays
  <2> QED BY <2>1, <2>2, <2>3, <2>4
<1>6. Len(p) >= 8 /\ Len(o) >= 8  BY <1>2, <1>3 DEF Prologue
<1>7. /\ p[1] = o[1] /\ p[5] = o[5]
      /\ \A k \in {2, 3, 4, 6, 7, 8} : p[k] = o[k]
  BY <1>4
<1>8. Prologue(p)
  <2> HIDE DEF o
  <2> QED BY <1>2, <1>5, <1>6, <1>7 DEF Prologue
<1> QED BY <1>8 DEF p

(* PutSpaced: an instruction emitted when it is ready is far enough behind *)
(* those that write what it reads.                                         *)
LEMMA PutSpaced ==
  ASSUME NEW g, GenInv(g), NEW item, Allowed(g, item)
  PROVE  Spaced(Put(g, item))
<1> DEFINE h == Put(g, item)
           p == Put(g, item).out
           o == g.out
<1>0. GenType(g) /\ item \in ItemSet  BY DEF GenInv, Allowed
<1>1. PICK n \in Nat : Lays(o, p, n, item)  BY <1>0, PutLays
<1>2. /\ item.kind # "label" /\ Ready(g, item.srcs)
      /\ item.srcs \subseteq G!Regs \ {0}
  BY DEF Allowed, ItemSet
<1>3. h.raw_d = g.raw_d /\ h.lu_d = g.lu_d  BY <1>0, PutFields
<1>4. \A load : Dense(h, load) = Dense(g, load)  BY <1>3 DEF Dense
<1>5. Spaced(g) /\ Recorded(g)  BY DEF GenInv
<1>6. p = h.out  OBVIOUS
<1>7. g.idx \in Nat /\ \A r \in DOMAIN g.last_write : g.last_write[r] \in Nat
  BY <1>0 DEF GenType
<1> HIDE DEF h, p, o
<1>8. Len(o) \in Nat /\ Len(p) = Len(o) + n + 1 /\ DOMAIN p = 1 .. Len(p)
      /\ DOMAIN o = 1 .. Len(o)
  BY <1>1 DEF Lays
<1>9. \A k \in 1 .. Len(o) : p[k] = o[k]  BY <1>1 DEF Lays
<1>10. ASSUME NEW j \in DOMAIN p, NEW r \in p[j].srcs, NEW i \in 1 .. j - 1,
              Latest(p, i, j, r), Dense(h, p[i].kind = "access") = "none"
       PROVE  Passed(p, i, j) >= 3
  <2>1. \/ j \in 1 .. Len(o) \/ j \in Len(o) + 1 .. Len(o) + n \/ j = Len(p)  BY <1>8
  <2>2. CASE j \in 1 .. Len(o)
    <3>1. p[j] = o[j] /\ p[i] = o[i] /\ i \in 1 .. j - 1 /\ j \in DOMAIN o
      BY <1>8, <1>9, <2>2
    <3>2. r # 0
      <4>1. o[j] \in ItemSet  BY <1>1, <3>1 DEF Lays
      <4> QED BY <3>1, <4>1 DEF ItemSet
    <3>3. Latest(o, i, j, r)  BY <1>1, <1>10, <2>2, <3>1, <3>2, LatestGrows
    <3>4. Passed(o, i, j) >= 3
      BY <1>4, <1>5, <1>10, <3>1, <3>3 DEF Spaced, o
    <3>5. Passed(p, i, j) = Passed(o, i, j)
      BY <1>1, <1>2, <1>8, <2>2, PassedGrows
    <3> QED BY <3>4, <3>5
  <2>3. CASE j \in Len(o) + 1 .. Len(o) + n  BY <2>3, <1>1, <1>10 DEF Lays
  <2>4. CASE j = Len(p)
    <3>1. p[j] = item  BY <2>4, <1>1 DEF Lays
    <3>2. r # 0 /\ r \in item.srcs /\ r \in G!Regs  BY <3>1, <1>2, <1>10
    <3>3. i \in 1 .. Len(o) /\ Latest(o, i, Len(o) + 1, r)
      BY <2>4, <3>2, <1>1, <1>10, LatestGrows
    <3>4. p[i] = o[i] /\ i \in DOMAIN o  BY <3>3, <1>8, <1>9
    <3>5. /\ r \in DOMAIN g.last_write
          /\ g.last_was_load[r] <=> o[i].kind = "access"
          /\ Passed(o, i, Len(o)) = g.idx - 1 - g.last_write[r]
      BY <1>5, <3>2, <3>3, <3>4 DEF Recorded, o
    <3>6. Dense(g, g.last_was_load[r]) = "none"
      BY <1>4, <1>10, <3>4, <3>5 DEF Dense
    <3>7. g.idx - g.last_write[r] >= 3  BY <1>2, <3>2, <3>5, <3>6 DEF Ready
    <3>8. Passed(p, i, Len(p)) = Passed(o, i, Len(o)) + 1
      <4>1. i \in 0 .. Len(o)  BY <1>8, <3>3
      <4> QED BY <4>1, <1>1, <1>2, PassedGrows
    <3>9. g.last_write[r] \in Nat  BY <1>7, <3>5
    <3> QED BY <2>4, <3>5, <3>7, <3>8, <3>9, <1>7
  <2> QED BY <2>1, <2>2, <2>3, <2>4
<1>11. Spaced(h)  BY <1>10 DEF Spaced, h, p
<1> QED BY <1>11 DEF h

(* PutRecorded: the generator knows who wrote each register last, and how  *)
(* long ago.                                                               *)
LEMMA PutRecorded ==
  ASSUME NEW g, GenInv(g), NEW item, Allowed(g, item)
  PROVE  Recorded(Put(g, item)) /\ BaseSettled(Put(g, item))
<1> DEFINE h == Put(g, item)
           p == Put(g, item).out
           o == g.out
<1>0. GenType(g) /\ item \in ItemSet  BY DEF GenInv, Allowed
<1>1. PICK n \in Nat : Lays(o, p, n, item)  BY <1>0, PutLays
<1>2. item.kind # "label" /\ item.rd # 8  BY DEF Allowed
<1>3. Recorded(g) /\ BaseSettled(g)  BY DEF GenInv
<1>4. p = h.out /\ h.idx = g.idx + 1  BY <1>0, PutFields
<1>5. g.idx \in Nat /\ (\A r \in DOMAIN g.last_write : g.last_write[r] \in Nat)
      /\ DOMAIN g.last_was_load = DOMAIN g.last_write
  BY <1>0 DEF GenType
<1>6. ASSUME item.rd # 0
      PROVE  /\ item.rd \in DOMAIN h.last_write /\ h.last_write[item.rd] = g.idx
             /\ h.last_was_load[item.rd] = (item.kind = "access")
  <2>1. /\ DOMAIN h.last_write = DOMAIN g.last_write \cup {item.rd}
        /\ h.last_write[item.rd] = g.idx
    BY <1>0, <1>6, PutFields
  <2>2. h.last_was_load[item.rd] = (item.kind = "access")
    <3>1. \A load : G!Wrote(G!Emit(g, item), item.rd, load).last_was_load[item.rd] = load
      <4> DEFINE e == G!Emit(g, item)
      <4>1. DOMAIN e = GenFields  BY <1>0, EmitFields
      <4> HIDE DEF e
      <4>2. \A load : G!Wrote(e, item.rd, load).last_was_load[item.rd] = load
        BY <1>6, <4>1 DEF G!Wrote, G!Set, GenFields
      <4> QED BY <4>2 DEF e
    <3>2. Put(g, item).last_was_load[item.rd] = (item.kind = "access")
      BY <3>1, Zenon DEF Put
    <3> QED BY <3>2
  <2> HIDE DEF h
  <2> QED BY <2>1, <2>2
<1>7. ASSUME NEW r \in DOMAIN g.last_write, r # item.rd
      PROVE  /\ r \in DOMAIN h.last_write /\ h.last_write[r] = g.last_write[r]
             /\ h.last_was_load[r] = g.last_was_load[r]
  <2>1. CASE item.rd = 0
    <3>1. h.last_write = g.last_write /\ h.last_was_load = g.last_was_load
      BY <1>0, <2>1, PutFields
    <3> HIDE DEF h
    <3> QED BY <3>1
  <2>2. CASE item.rd # 0
    <3>1. /\ DOMAIN h.last_write = DOMAIN g.last_write \cup {item.rd}
          /\ \A s \in DOMAIN g.last_write \ {item.rd} : h.last_write[s] = g.last_write[s]
          /\ \A s \in DOMAIN g.last_was_load \ {item.rd} :
               h.last_was_load[s] = g.last_was_load[s]
      BY <1>0, <2>2, PutFields
    <3> HIDE DEF h
    <3> QED BY <3>1, <1>5, <1>7
  <2> QED BY <2>1, <2>2
<1> HIDE DEF h, p, o
<1>8. Len(o) \in Nat /\ Len(p) = Len(o) + n + 1 /\ DOMAIN p = 1 .. Len(p)
      /\ DOMAIN o = 1 .. Len(o)
  BY <1>1 DEF Lays
<1>9. \A k \in 1 .. Len(o) : p[k] = o[k]  BY <1>1 DEF Lays
<1>10. ASSUME NEW i \in DOMAIN p, NEW r \in G!Regs \ {0}, Latest(p, i, Len(p) + 1, r)
       PROVE  /\ r \in DOMAIN h.last_write
              /\ h.last_was_load[r] <=> p[i].kind = "access"
              /\ Passed(p, i, Len(p)) = h.idx - 1 - h.last_write[r]
  <2>1. \/ i = Len(p) /\ item.rd = r
        \/ i \in 1 .. Len(o) /\ item.rd # r /\ Latest(o, i, Len(o) + 1, r)
    BY <1>1, <1>8, <1>10, LatestGrows
  <2>2. CASE i = Len(p) /\ item.rd = r
    <3>1. p[i] = item /\ r # 0  BY <2>2, <1>1 DEF Lays
    <3>2. Passed(p, i, Len(p)) = 0
      <4>1. {k \in Len(p) + 1 .. Len(p) : p[k].kind # "label"} = {}  BY <1>8
      <4> QED BY <2>2, <4>1, FS_EmptySet DEF Passed
    <3>3. h.last_write[r] = g.idx /\ r \in DOMAIN h.last_write
          /\ h.last_was_load[r] = (item.kind = "access")
      BY <2>2, <3>1, <1>6
    <3>4. h.idx - 1 - h.last_write[r] = 0  BY <3>3, <1>4, <1>5
    <3> QED BY <3>1, <3>2, <3>3, <3>4
  <2>3. CASE i \in 1 .. Len(o) /\ item.rd # r /\ Latest(o, i, Len(o) + 1, r)
    <3>1. p[i] = o[i] /\ i \in DOMAIN o /\ i \in 0 .. Len(o)  BY <2>3, <1>8, <1>9
    <3>2. /\ r \in DOMAIN g.last_write
          /\ g.last_was_load[r] <=> o[i].kind = "access"
          /\ Passed(o, i, Len(o)) = g.idx - 1 - g.last_write[r]
      BY <1>3, <2>3, <3>1 DEF Recorded, o
    <3>3. /\ r \in DOMAIN h.last_write /\ h.last_write[r] = g.last_write[r]
          /\ h.last_was_load[r] = g.last_was_load[r]
      BY <1>7, <2>3, <3>2
    <3>4. Passed(p, i, Len(p)) = Passed(o, i, Len(o)) + 1
      BY <1>1, <1>2, <3>1, PassedGrows
    <3>5. h.idx - 1 - h.last_write[r] = (g.idx - 1 - g.last_write[r]) + 1
      BY <1>4, <1>5, <3>2, <3>3
    <3>6. h.last_was_load[r] <=> p[i].kind = "access"  BY <3>1, <3>2, <3>3
    <3> QED BY <3>2, <3>3, <3>4, <3>5, <3>6
  <2> QED BY <2>1, <2>2, <2>3
<1>11. Recorded(h)  BY <1>4, <1>10 DEF Recorded
<1>12. BaseSettled(h)
  <2>1. 8 \in DOMAIN g.last_write /\ g.idx - g.last_write[8] >= 4
    BY <1>3 DEF BaseSettled
  <2>2. 8 \in DOMAIN h.last_write /\ h.last_write[8] = g.last_write[8]
    BY <2>1, <1>2, <1>7
  <2>3. h.idx - h.last_write[8] >= 4  BY <2>1, <2>2, <1>4, <1>5
  <2> QED BY <2>2, <2>3 DEF BaseSettled
<1> QED BY <1>11, <1>12 DEF h

(* PutKeeps: an instruction that is allowed keeps the invariant.           *)
LEMMA PutKeeps ==
  ASSUME NEW g, GenInv(g), NEW item, Allowed(g, item)
  PROVE  GenInv(Put(g, item))
<1>1. GenType(g) /\ item \in ItemSet  BY DEF GenInv, Allowed
<1> QED BY <1>1, PutTyped, PutPrologue, PutLinked, PutPlaced, PutSpaced, PutRecorded
        DEF GenInv

\* Object h is g with n nops more.
Behinds(g, h) == \A base, k : Behind(g, base, k) => Behind(h, base, k)
Waited(g, h, n) ==
  /\ GenInv(h) /\ h.idx = g.idx + n
  /\ h.last_write = g.last_write /\ h.last_was_load = g.last_was_load
  /\ h.raw_d = g.raw_d /\ h.lu_d = g.lu_d /\ h.label_n = g.label_n
  /\ Behinds(g, h)

(* BehindStays: a nop between an alias and its access does no harm.        *)
LEMMA BehindStays ==
  ASSUME NEW g, GenType(g)
  PROVE  Behinds(g, Put(g, G!PadNop))
<1> DEFINE h == Put(g, G!PadNop)
           p == Put(g, G!PadNop).out
           o == g.out
<1>0. G!PadNop \in ItemSet /\ G!PadNop.kind = "nop"  BY ItemFields
<1>1. PICK n \in Nat : Lays(o, p, n, G!PadNop) /\ (g.label_hold = TRUE => n = 0)
  BY <1>0, PutLays
<1>2. h.label_hold = g.label_hold /\ h.out = p  BY PutFields
<1> HIDE DEF h, p
<1>3. ASSUME NEW base, NEW k, Behind(g, base, k)
      PROVE  Behind(h, base, k)
  <2>1. g.label_hold = TRUE /\ k \in Nat  BY <1>3 DEF Behind
  <2>2. PICK j \in 1 .. Len(o) : AliasAt(o, j, Len(o) + 1, base) /\ o[j].off = k
    BY <1>3 DEF Behind
  <2>3. /\ Len(o) \in Nat /\ Len(p) = Len(o) + 1 /\ p[Len(p)] = G!PadNop
        /\ \A i \in 1 .. Len(o) : p[i] = o[i]
    BY <1>1, <2>1 DEF Lays
  <2>4. p[j] = o[j] /\ j \in 1 .. Len(p)  BY <2>3
  <2>5. ASSUME NEW i \in j + 1 .. (Len(p) + 1) - 1 PROVE p[i].kind = "nop"
    <3>1. CASE i = Len(p)  BY <3>1, <2>3, <1>0
    <3>2. CASE i # Len(p)
      <4>1. i \in 1 .. Len(o) /\ i \in j + 1 .. (Len(o) + 1) - 1  BY <2>3, <3>2
      <4>2. o[i].kind = "nop"  BY <4>1, <2>2 DEF AliasAt
      <4> QED BY <4>1, <4>2, <2>3
    <3> QED BY <3>1, <3>2
  <2>6. AliasAt(p, j, Len(p) + 1, base)  BY <2>2, <2>4, <2>5 DEF AliasAt
  <2> QED BY <2>1, <2>2, <2>4, <2>6, <1>2 DEF Behind
<1>4. Behinds(g, h)  BY <1>3 DEF Behinds
<1> QED BY <1>4 DEF h

(* PadOnce: a nop changes nothing but the distance.                        *)
LEMMA PadOnce ==
  ASSUME NEW g, GenInv(g)
  PROVE  Waited(g, G!Emit(g, G!PadNop), 1)
<1>1. GenType(g)  BY DEF GenInv
<1>2. G!PadNop \in ItemSet /\ G!PadNop.kind = "nop" /\ G!PadNop.rd = 0 /\ G!PadNop.srcs = {}
  BY ItemFields
<1>3. Put(g, G!PadNop) = G!Emit(g, G!PadNop)  BY <1>2 DEF Put, G!Wrote
<1>4. Allowed(g, G!PadNop)  BY <1>2 DEF Allowed, Fitting, Ready
<1>5. GenInv(Put(g, G!PadNop))  BY <1>4, PutKeeps
<1>6. Behinds(g, Put(g, G!PadNop))  BY <1>1, BehindStays
<1>7. LET h == Put(g, G!PadNop)
      IN  /\ h.idx = g.idx + 1
          /\ h.label_n = g.label_n
          /\ h.raw_d = g.raw_d /\ h.lu_d = g.lu_d
          /\ h.last_write = g.last_write
          /\ h.last_was_load = g.last_was_load
  BY <1>1, <1>2, PutFields
<1> QED BY <1>3, <1>5, <1>6, <1>7 DEF Waited

(* WaitedTwice: nops add up.                                               *)
LEMMA WaitedTwice ==
  ASSUME NEW f, NEW g, NEW h, NEW m \in Nat, NEW n \in Nat, GenInv(f),
         Waited(f, g, m), Waited(g, h, n)
  PROVE  Waited(f, h, m + n)
<1>1. f.idx \in Nat /\ g.idx = f.idx + m /\ h.idx = g.idx + n
  BY DEF Waited, GenInv, GenType
<1>2. h.idx = f.idx + (m + n)  BY <1>1
<1>3. Behinds(f, h)  BY DEF Waited, Behinds
<1> QED BY <1>2, <1>3 DEF Waited

(* PadWaits: what _pad_for() leaves alone.                                 *)
LEMMA PadWaits ==
  ASSUME NEW g, GenInv(g), NEW n \in 0 .. 2
  PROVE  Waited(g, G!PadFor(g, n), n)
<1> DEFINE a == G!Emit(g, G!PadNop)
           b == G!Emit(a, G!PadNop)
<1>1. Waited(g, a, 1)  BY PadOnce
<1>2. Waited(a, b, 1)
  <2>1. GenInv(a)  BY <1>1 DEF Waited
  <2> HIDE DEF a
  <2> QED BY <2>1, PadOnce
<1>3. Waited(g, b, 1 + 1)
  <2> HIDE DEF a, b
  <2> QED BY <1>1, <1>2, WaitedTwice
<1>4. Waited(g, g, 0)
  <2>1. g.idx + 0 = g.idx  BY DEF GenInv, GenType
  <2> QED BY <2>1 DEF Waited, Behinds
<1>5. G!PadFor(g, n) = IF n = 0 THEN g ELSE IF n = 1 THEN a ELSE b
  BY DEF G!PadFor, G!EmitTimes
<1> HIDE DEF a, b
<1>6. CASE n = 0  BY <1>4, <1>5, <1>6
<1>7. CASE n = 1  BY <1>1, <1>5, <1>7
<1>8. CASE n = 2
  <2>1. 1 + 1 = 2  OBVIOUS
  <2> QED BY <2>1, <1>3, <1>5, <1>8
<1> QED BY <1>6, <1>7, <1>8

(* PadsReach: the nops are enough for what may not be close.               *)
LEMMA PadsReach ==
  ASSUME NEW g, GenType(g), NEW regs, NEW n \in G!Pads(g, regs)
  PROVE  /\ n \in 0 .. 2
         /\ \A r \in regs \cap DOMAIN g.last_write :
              Dense(g, g.last_was_load[r]) = "none" => g.idx + n - g.last_write[r] >= 3
<1>1. g.idx \in Nat
      /\ \A r \in DOMAIN g.last_write : g.last_write[r] \in Nat /\ g.last_write[r] < g.idx
  BY DEF GenType
<1>2. \A r : G!Missing(g, r) = 3 - (g.idx - g.last_write[r])
  BY DEF G!Missing, G!LOAD_USE_DISTANCE, G!RAW_DISTANCE
<1> DEFINE close == {r \in regs \cap DOMAIN g.last_write : G!Missing(g, r) > 0}
<1>3. /\ n \in {0} \cup {G!Missing(g, r) : r \in close}
      /\ \A r \in close : G!MustPad(g, r) => G!Missing(g, r) <= n
  BY DEF G!Pads
<1>4. n \in 0 .. 2
  <2>1. CASE n = 0  BY <2>1
  <2>2. CASE n # 0
    <3>1. PICK r \in close : n = G!Missing(g, r)  BY <1>3, <2>2
    <3>2. g.last_write[r] \in Nat /\ g.last_write[r] < g.idx  BY <1>1
    <3>3. G!Missing(g, r) > 0  OBVIOUS
    <3> QED BY <3>1, <3>2, <3>3, <1>1, <1>2
  <2> QED BY <2>1, <2>2
<1>5. ASSUME NEW r \in regs \cap DOMAIN g.last_write, Dense(g, g.last_was_load[r]) = "none"
      PROVE  g.idx + n - g.last_write[r] >= 3
  <2>1. G!MustPad(g, r)  BY <1>5 DEF G!MustPad, Dense
  <2>2. g.last_write[r] \in Nat /\ g.last_write[r] < g.idx  BY <1>1
  <2>3. CASE G!Missing(g, r) > 0
    <3>1. G!Missing(g, r) <= n  BY <1>3, <2>1, <2>3
    <3>2. 3 - (g.idx - g.last_write[r]) <= n  BY <3>1, <1>2
    <3> HIDE DEF close
    <3> QED BY <3>2, <2>2, <1>1, <1>4
  <2>4. CASE ~(G!Missing(g, r) > 0)
    <3>1. ~(3 - (g.idx - g.last_write[r]) > 0)  BY <2>4, <1>2
    <3> HIDE DEF close
    <3> QED BY <3>1, <2>2, <1>1, <1>4
  <2> QED BY <2>3, <2>4
<1> QED BY <1>4, <1>5

(* PadsReady: behind its nops an instruction is ready.                     *)
LEMMA PadsReady ==
  ASSUME NEW g, GenInv(g), NEW regs, NEW n \in G!Pads(g, regs)
  PROVE  /\ GenInv(G!PadFor(g, n)) /\ Ready(G!PadFor(g, n), regs)
         /\ G!PadFor(g, n).label_n = g.label_n
         /\ Behinds(g, G!PadFor(g, n))
<1>1. GenType(g)  BY DEF GenInv
<1>2. n \in 0 .. 2
  BY <1>1, PadsReach
<1>3. \A r \in regs \cap DOMAIN g.last_write :
              Dense(g, g.last_was_load[r]) = "none" => g.idx + n - g.last_write[r] >= 3
  BY <1>1, PadsReach
<1> DEFINE h == G!PadFor(g, n)
<1>4. Waited(g, h, n)  BY <1>2, PadWaits
<1> HIDE DEF h
<1>5. \A load : Dense(h, load) = Dense(g, load)  BY <1>4 DEF Waited, Dense
<1>6. h.idx = g.idx + n /\ h.last_write = g.last_write /\ h.last_was_load = g.last_was_load
  BY <1>4 DEF Waited
<1>7. Ready(h, regs)
  <2> SUFFICES ASSUME NEW r \in regs \cap DOMAIN h.last_write,
                      Dense(h, h.last_was_load[r]) = "none"
               PROVE  h.idx - h.last_write[r] >= 3
    BY DEF Ready
  <2>1. /\ r \in regs \cap DOMAIN g.last_write /\ h.last_write[r] = g.last_write[r]
        /\ h.last_was_load[r] = g.last_was_load[r]
    BY <1>6, Zenon
  <2>2. Dense(g, g.last_was_load[r]) = "none"  BY <1>5, <2>1, Zenon
  <2>3. g.idx + n - g.last_write[r] >= 3  BY <1>3, <2>1, <2>2
  <2>4. h.idx = g.idx + n /\ h.last_write[r] = g.last_write[r]  BY <1>6, <2>1
  <2>5. g.idx \in Nat /\ g.last_write[r] \in Nat  BY <1>1, <2>1 DEF GenType
  <2> QED BY <1>2, <2>3, <2>4, <2>5
<1> QED BY <1>4, <1>7 DEF Waited, h

(* FewerReady: an instruction that reads less is ready too.                *)
LEMMA FewerReady ==
  ASSUME NEW g, NEW more, NEW less, less \subseteq more, Ready(g, more)
  PROVE  Ready(g, less)
BY DEF Ready

(* HoldKeeps: holding labels back, or not, changes nothing else.           *)
LEMMA HoldKeeps ==
  ASSUME NEW g, GenInv(g), NEW b
  PROVE  LET h == [g EXCEPT !.label_hold = b]
         IN  GenInv(h) /\ h.label_hold = b /\ h.out = g.out
<1> DEFINE h == [g EXCEPT !.label_hold = b]
<1>1. /\ DOMAIN h = GenFields /\ h.label_hold = b
      /\ \A f \in GenFields \ {"label_hold"} : h[f] = g[f]
  BY DEF GenInv, GenType, GenFields
<1> HIDE DEF h
<1>2. /\ h.out = g.out /\ h.idx = g.idx /\ h.last_write = g.last_write
      /\ h.last_was_load = g.last_was_load /\ h.label_n = g.label_n
      /\ h.pending = g.pending /\ h.raw_d = g.raw_d /\ h.lu_d = g.lu_d
  BY <1>1 DEF GenFields
<1>3. GenType(h)  BY <1>1, <1>2 DEF GenInv, GenType
<1>4. Linked(h)  BY <1>2 DEF GenInv, Linked
<1>5. Spaced(h)  BY <1>2 DEF GenInv, Spaced, Dense
<1>6. Recorded(h)  BY <1>2 DEF GenInv, Recorded
<1>7. BaseSettled(h)  BY <1>2 DEF GenInv, BaseSettled
<1>8. GenInv(h)  BY <1>2, <1>3, <1>4, <1>5, <1>6, <1>7 DEF GenInv
<1> QED BY <1>1, <1>2, <1>8 DEF h

(* LabelKeeps: a label yet to come is one a transfer may name.             *)
LEMMA LabelKeeps ==
  ASSUME NEW g, GenInv(g), NEW at \in Int, NEW l \in Nat
  PROVE  LET h == G!NewLabel(g, at, l)
         IN  /\ GenInv(h) /\ \E p \in h.pending : p.label = l
             /\ \A regs : Ready(g, regs) => Ready(h, regs)
<1> DEFINE h == G!NewLabel(g, at, l)
           e == [at |-> at, label |-> l]
<1>1. /\ DOMAIN h = GenFields /\ h.pending = g.pending \cup {e} /\ h.label_n = l
      /\ \A f \in GenFields \ {"pending", "label_n"} : h[f] = g[f]
  BY DEF GenInv, GenType, GenFields, G!NewLabel
<1>2. e \in [at : Int, label : Nat] /\ e.label = l  OBVIOUS
<1> HIDE DEF h, e
<1>3. /\ h.out = g.out /\ h.idx = g.idx /\ h.last_write = g.last_write
      /\ h.last_was_load = g.last_was_load
      /\ h.raw_d = g.raw_d /\ h.lu_d = g.lu_d
  BY <1>1 DEF GenFields
<1>4. IsFiniteSet(h.pending)
  <2>1. IsFiniteSet(g.pending)  BY DEF GenInv, GenType
  <2> QED BY <1>1, <2>1, FS_AddElement
<1>5. GenType(h)  BY <1>1, <1>2, <1>3, <1>4 DEF GenInv, GenType
<1>6. Linked(h)  BY <1>1, <1>3 DEF GenInv, Linked
<1>7. Spaced(h)  BY <1>3 DEF GenInv, Spaced, Dense
<1>8. Recorded(h)  BY <1>3 DEF GenInv, Recorded
<1>9. BaseSettled(h)  BY <1>3 DEF GenInv, BaseSettled
<1>10. GenInv(h)  BY <1>3, <1>5, <1>6, <1>7, <1>8, <1>9 DEF GenInv
<1>11. \A regs : Ready(g, regs) => Ready(h, regs)  BY <1>3 DEF Ready, Dense
<1> QED BY <1>1, <1>2, <1>10, <1>11 DEF h

(* PoolFacts: the registers drawn.                                         *)
LEMMA PoolFacts ==
  /\ G!PoolRegs \subseteq Nat \ {0, 8} /\ G!PoolRegs \subseteq G!Regs
  /\ 0 \in G!Regs /\ 8 \in G!Regs /\ Dests \subseteq G!PoolRegs
  /\ \A srcs \in SourceSets : srcs \subseteq G!PoolRegs \cup {0} /\ srcs \in SUBSET G!Regs
  /\ Len(Pool) \in Nat /\ \A k \in 1 .. Len(Pool) : Pool[k] \in G!PoolRegs
<1>1. Pool \in Seq(Nat \ {0, 8})  BY RandomAssumption DEF G!BASE_REG
<1>2. Len(Pool) \in Nat /\ DOMAIN Pool = 1 .. Len(Pool)
      /\ \A k \in 1 .. Len(Pool) : Pool[k] \in Nat \ {0, 8}
  BY <1>1
<1>3. G!PoolRegs = {Pool[k] : k \in 1 .. Len(Pool)}
  BY <1>2 DEF G!PoolRegs, G!ToSet
<1>4. G!PoolRegs \subseteq Nat \ {0, 8} /\ \A k \in 1 .. Len(Pool) : Pool[k] \in G!PoolRegs
  BY <1>2, <1>3
<1>5. G!Regs = G!PoolRegs \cup {0, 8}  BY DEF G!Regs, G!BASE_REG
<1>6. \A srcs \in SourceSets : srcs \subseteq G!PoolRegs \cup {0}
  BY RandomAssumption
<1> HIDE DEF G!PoolRegs
<1> QED BY <1>2, <1>4, <1>5, <1>6, RandomAssumption

(* PutIs: what is not an access is recorded as no load.                    *)
LEMMA PutIs ==
  ASSUME NEW g, NEW item, NEW load,
         item.rd # 0 => load = (item.kind = "access")
  PROVE  G!Wrote(G!Emit(g, item), item.rd, load) = Put(g, item)
<1>1. CASE item.rd = 0  BY <1>1 DEF Put, G!Wrote
<1>2. CASE item.rd # 0
  <2>1. load = (item.kind = "access")  BY <1>2
  <2> QED BY <2>1, Zenon DEF Put
<1> QED BY <1>1, <1>2

(* ComputeKeeps: an instruction that reads and writes registers, behind    *)
(* its nops.                                                               *)
LEMMA ComputeKeeps ==
  ASSUME NEW g, GenInv(g), NEW srcs \in SUBSET G!Regs, NEW rd \in G!PoolRegs,
         NEW n \in G!Pads(g, srcs)
  PROVE  GenInv(G!Padded(g, n, G!Compute(rd, srcs)))
<1> DEFINE h == G!PadFor(g, n)
           item == G!Compute(rd, srcs)
<1>1. GenInv(h) /\ Ready(h, srcs)  BY PadsReady
<1>2. rd \in G!Regs /\ rd # 8  BY PoolFacts
<1>3. item \in ItemSet /\ item.kind = "alu" /\ item.rd = rd /\ item.srcs = srcs \ {0}
  BY <1>2, ItemFields
<1>4. G!Padded(g, n, item) = G!Wrote(G!Emit(h, item), item.rd, FALSE)  BY DEF G!Padded
<1> HIDE DEF h, item
<1>5. Ready(h, item.srcs)
  <2>1. srcs \ {0} \subseteq srcs  OBVIOUS
  <2> QED BY <2>1, <1>1, <1>3, FewerReady
<1>6. Allowed(h, item)  BY <1>2, <1>3, <1>5 DEF Allowed, Fitting
<1>7. FALSE = (item.kind = "access")  BY <1>3
<1>8. G!Padded(g, n, item) = Put(h, item)  BY <1>4, <1>7, PutIs
<1>9. GenInv(G!Padded(g, n, item))  BY <1>1, <1>6, <1>8, PutKeeps
<1> QED BY <1>9 DEF item

(* FreshKeeps: an instruction that reads nothing.                          *)
LEMMA FreshKeeps ==
  ASSUME NEW g, GenInv(g), NEW rd \in G!PoolRegs
  PROVE  GenInv(G!Fresh(g, rd))
<1> DEFINE item == G!Compute(rd, {})
<1>1. rd \in G!Regs /\ rd # 8  BY PoolFacts
<1>2. item \in ItemSet /\ item.kind = "alu" /\ item.rd = rd /\ item.srcs = {}
  BY <1>1, ItemFields
<1>3. G!Fresh(g, rd) = G!Wrote(G!Emit(g, item), rd, FALSE)  BY DEF G!Fresh
<1> HIDE DEF item
<1>4. Allowed(g, item)  BY <1>1, <1>2 DEF Allowed, Fitting, Ready
<1>5. FALSE = (item.kind = "access")  BY <1>2
<1>6. G!Fresh(g, rd) = Put(g, item)  BY <1>2, <1>3, <1>5, PutIs
<1> QED BY <1>4, <1>6, PutKeeps

(* FlushKeeps: the nops at the end.                                        *)
LEMMA FlushKeeps ==
  ASSUME NEW g, GenInv(g)
  PROVE  GenInv(G!Emit(g, G!Nop))
<1>1. G!Nop \in ItemSet /\ G!Nop.kind = "nop" /\ G!Nop.rd = 0 /\ G!Nop.srcs = {}
  BY ItemFields
<1>2. Allowed(g, G!Nop)  BY <1>1 DEF Allowed, Fitting, Ready
<1>3. Put(g, G!Nop) = G!Emit(g, G!Nop)  BY <1>1 DEF Put, G!Wrote
<1> QED BY <1>2, <1>3, PutKeeps

(* PlainItem: the item the others are made from.                           *)
LEMMA PlainItem ==
  /\ G!Item \in ItemSet
  /\ DOMAIN G!Item = {"kind", "rd", "srcs", "base", "off", "align", "label", "pad"}
<1>1. 0 \in G!Regs  BY DEF G!Regs
<1> QED BY <1>1 DEF G!Item, ItemSet, ItemKinds

(* TransferKeeps: a branch or a jump, whose label is yet to come.          *)
LEMMA TransferKeeps ==
  ASSUME NEW g, GenInv(g), NEW kind \in {"branch", "jal"}, NEW rd \in Dests \cup {0},
         NEW srcs \in SUBSET G!Regs, Ready(g, srcs), NEW at \in Int, NEW l \in Nat
  PROVE  LET item == G!Transfer(kind, rd, srcs, l)
             e == G!Emit(G!NewLabel(g, at, l), item)
         IN  GenInv(G!Wrote(e, rd, FALSE))
<1> DEFINE h == G!NewLabel(g, at, l)
           item == G!Transfer(kind, rd, srcs, l)
<1>1. GenInv(h)  BY LabelKeeps
<1>2. \E p \in h.pending : p.label = l  BY LabelKeeps
<1>3. \A regs : Ready(g, regs) => Ready(h, regs)  BY LabelKeeps
<1>4. rd \in G!Regs /\ rd # 8  BY PoolFacts
<1>5. /\ item \in ItemSet /\ item.kind = kind /\ item.rd = rd /\ item.label = l
      /\ item.srcs = srcs \ {0}
  <2>1. kind \in ItemKinds  BY DEF ItemKinds
  <2>2. rd \in G!Regs  BY <1>4
  <2> QED BY <2>1, <2>2, PlainItem DEF G!Transfer, ItemSet
<1> HIDE DEF h, item
<1>6. Ready(h, item.srcs)
  <2>1. srcs \ {0} \subseteq srcs  OBVIOUS
  <2>2. Ready(h, srcs)  BY <1>3
  <2> QED BY <2>1, <2>2, <1>5, FewerReady
<1>7. Allowed(h, item)  BY <1>2, <1>4, <1>5, <1>6 DEF Allowed, Fitting
<1>8. FALSE = (item.kind = "access")  BY <1>5
<1>9. G!Wrote(G!Emit(h, item), rd, FALSE) = Put(h, item)  BY <1>5, <1>8, PutIs
<1>10. GenInv(G!Wrote(G!Emit(h, item), rd, FALSE))  BY <1>1, <1>7, <1>9, PutKeeps
<1> QED BY <1>10 DEF h, item

(* AliasBehind: the register that points k bytes into scratch.             *)
LEMMA AliasBehind ==
  ASSUME NEW g, GenInv(g), NEW base \in G!PoolRegs, NEW k \in Nat
  PROVE  LET h == G!Hold(G!Wrote(G!Emit(g, G!Alias(base, k)), base, FALSE))
         IN  GenInv(h) /\ Behind(h, base, k)
<1> DEFINE item == G!Alias(base, k)
           p == Put(g, item)
           h == [p EXCEPT !.label_hold = TRUE]
<1>0. GenType(g)  BY DEF GenInv
<1>1. base \in G!Regs /\ base # 8 /\ base # 0  BY PoolFacts
<1>2. /\ item \in ItemSet /\ item.kind = "alias" /\ item.rd = base /\ item.srcs = {8}
      /\ item.off = k
  BY <1>1, ItemFields
<1>3. G!Hold(G!Wrote(G!Emit(g, item), base, FALSE))
        = [G!Wrote(G!Emit(g, item), base, FALSE) EXCEPT !.label_hold = TRUE]
  BY DEF G!Hold
<1> HIDE DEF item
<1>4. Ready(g, item.srcs)
  <2>1. 8 \in DOMAIN g.last_write /\ g.idx - g.last_write[8] >= 4
    BY DEF GenInv, BaseSettled
  <2>2. g.idx \in Nat /\ g.last_write[8] \in Nat  BY <1>0, <2>1 DEF GenType
  <2>3. g.idx - g.last_write[8] >= 3  BY <2>1, <2>2
  <2> QED BY <1>2, <2>3 DEF Ready
<1>5. Allowed(g, item)  BY <1>1, <1>2, <1>4 DEF Allowed, Fitting
<1>6. FALSE = (item.kind = "access")  BY <1>2
<1>7. G!Wrote(G!Emit(g, item), base, FALSE) = p  BY <1>2, <1>6, PutIs
<1>8. GenInv(p)  BY <1>5, PutKeeps
<1>9. PICK n \in Nat : Lays(g.out, p.out, n, item)  BY <1>0, <1>2, PutLays
<1> HIDE DEF p
<1>10. GenInv(h) /\ h.label_hold = TRUE /\ h.out = p.out  BY <1>8, HoldKeeps
<1> HIDE DEF h
<1>11. /\ Len(h.out) \in 1 .. Len(h.out) /\ h.out[Len(h.out)] = item
  BY <1>9, <1>10 DEF Lays
<1>12. AliasAt(h.out, Len(h.out), Len(h.out) + 1, base)
  <2>1. Len(h.out) + 1 .. (Len(h.out) + 1) - 1 = {}  BY <1>11
  <2> QED BY <2>1, <1>1, <1>2, <1>11 DEF AliasAt
<1>13. Behind(h, base, k)  BY <1>2, <1>10, <1>11, <1>12 DEF Behind
<1> QED BY <1>3, <1>7, <1>10, <1>13 DEF h, item

(* AccessKeeps: an access of scratch that fits, behind its nops.           *)
LEMMA AccessKeeps ==
  ASSUME NEW g, GenInv(g), NEW item \in ItemSet, item.kind = "access", item.rd # 8,
         NEW load \in BOOLEAN, item.rd # 0 => load, NEW n \in G!Pads(g, item.srcs),
         Fitting(g, item)
  PROVE  GenInv(G!Accessed(g, n, item, load))
<1> DEFINE h == G!PadFor(g, n)
           p == Put(h, item)
<1>1. GenInv(h) /\ Ready(h, item.srcs) /\ Behinds(g, h)  BY PadsReady
<1>2. G!Accessed(g, n, item, load)
        = [G!Wrote(G!Emit(h, item), item.rd, load) EXCEPT !.label_hold = FALSE]
  BY DEF G!Accessed
<1> HIDE DEF h
<1>3. Fitting(h, item)  BY <1>1 DEF Fitting, Behinds
<1>4. Allowed(h, item)  BY <1>1, <1>3 DEF Allowed
<1>5. GenInv(p)  BY <1>1, <1>4, PutKeeps
<1>6. item.rd # 0 => load = (item.kind = "access")  OBVIOUS
<1>7. G!Wrote(G!Emit(h, item), item.rd, load) = p  BY <1>6, PutIs
<1> HIDE DEF p
<1>8. GenInv([p EXCEPT !.label_hold = FALSE])  BY <1>5, HoldKeeps
<1> QED BY <1>2, <1>7, <1>8

(* TotalFits: an access that is drawn fits in scratch.                     *)
LEMMA TotalFits ==
  ASSUME NEW align \in Aligns, NEW total \in G!Totals(align)
  PROVE  align \in {1, 2, 4} /\ total \in Nat /\ Fits(total, align)
<1>1. align \in {1, 2, 4} /\ ScratchBytes \in Nat  BY RandomAssumption
<1>2. PICK t \in 0 .. ScratchBytes - 5 : total = align * (t \div align)
  BY DEF G!Totals
<1>3. t \in Nat /\ t + 5 <= ScratchBytes  BY <1>1
<1>4. CASE align = 1  BY <1>1, <1>2, <1>3, <1>4 DEF Fits
<1>5. CASE align = 2  BY <1>1, <1>2, <1>3, <1>5 DEF Fits
<1>6. CASE align = 4  BY <1>1, <1>2, <1>3, <1>6 DEF Fits
<1> QED BY <1>1, <1>4, <1>5, <1>6

(* PlainDrawn: reg_reg(), reg_imm(), bitmanip(), muldiv() and the rest     *)
(* that reads and writes registers.                                        *)
LEMMA PlainDrawn ==
  ASSUME GenInv(gen), G!Arith \/ G!Upper \/ G!MulDivEdge
  PROVE  GenInv(gen')
<1>1. CASE G!Arith
  <2>0. PICK rd \in Dests, srcs \in SourceSets :
          \E n \in G!Pads(gen, srcs) : gen' = G!Padded(gen, n, G!Compute(rd, srcs))
    BY <1>1 DEF G!Arith
  <2>1. PICK n \in G!Pads(gen, srcs) : gen' = G!Padded(gen, n, G!Compute(rd, srcs))
    BY <2>0
  <2>2. rd \in G!PoolRegs /\ srcs \in SUBSET G!Regs  BY PoolFacts
  <2> QED BY <2>1, <2>2, ComputeKeeps
<1>2. CASE G!Upper
  <2>1. PICK rd \in Dests : gen' = G!Fresh(gen, rd)  BY <1>2 DEF G!Upper
  <2>2. rd \in G!PoolRegs  BY PoolFacts
  <2> QED BY <2>1, <2>2, FreshKeeps
<1>3. CASE G!MulDivEdge
  <2> DEFINE first(rs1, dividend) == IF dividend THEN G!Fresh(gen, rs1) ELSE gen
             both(rs1, rs2, dividend) == G!Fresh(first(rs1, dividend), rs2)
  <2>1. PICK rd \in Dests, rs2 \in G!PoolRegs, rs1 \in UNION SourceSets,
             dividend \in BOOLEAN :
          /\ dividend => rs1 \notin {0, rs2}
          /\ \E n \in G!Pads(both(rs1, rs2, dividend), {rs1, rs2}) :
               gen' = G!Padded(both(rs1, rs2, dividend), n, G!Compute(rd, {rs1, rs2}))
    BY <1>3 DEF G!MulDivEdge
  <2>2. rd \in G!PoolRegs /\ rs1 \in G!PoolRegs \cup {0} /\ {rs1, rs2} \in SUBSET G!Regs
    BY PoolFacts
  <2>3. GenInv(first(rs1, dividend))
    <3>1. CASE dividend
      <4>1. rs1 \in G!PoolRegs  BY <2>1, <2>2, <3>1
      <4>2. first(rs1, dividend) = G!Fresh(gen, rs1)  BY <3>1
      <4> QED BY <4>1, <4>2, FreshKeeps
    <3>2. CASE ~dividend  BY <3>2
    <3> QED BY <3>1, <3>2
  <2> HIDE DEF first
  <2>4. GenInv(both(rs1, rs2, dividend))  BY <2>3, FreshKeeps
  <2> HIDE DEF both
  <2>5. PICK n \in G!Pads(both(rs1, rs2, dividend), {rs1, rs2}) :
               gen' = G!Padded(both(rs1, rs2, dividend), n, G!Compute(rd, {rs1, rs2}))
    BY <2>1
  <2> QED BY <2>2, <2>4, <2>5, ComputeKeeps
<1> QED BY <1>1, <1>2, <1>3

(* TransferDrawn: branch() and jal(), whose target is drawn first.         *)
LEMMA TransferDrawn ==
  ASSUME GenInv(gen), G!Branch \/ G!Jump
  PROVE  GenInv(gen')
<1> DEFINE l == gen.label_n + 1
<1>0. gen.idx \in Nat /\ l \in Nat  BY DEF GenInv, GenType
<1>1. \A gap \in G!Gaps : gen.idx + gap \in Int
  BY <1>0, RandomAssumption DEF G!Gaps
<1> HIDE DEF l
<1>2. CASE G!Branch
  <2>0. PICK srcs \in SourceSets, gap \in G!Gaps :
          \E n \in G!Pads(gen, srcs) :
            gen' = G!Emit(G!NewLabel(G!PadFor(gen, n), gen.idx + gap, l),
                          G!Transfer("branch", 0, srcs, l))
    BY <1>2 DEF G!Branch, l
  <2>1. PICK n \in G!Pads(gen, srcs) :
          gen' = G!Emit(G!NewLabel(G!PadFor(gen, n), gen.idx + gap, l),
                        G!Transfer("branch", 0, srcs, l))
    BY <2>0
  <2>2. srcs \in SUBSET G!Regs /\ gen.idx + gap \in Int  BY <1>1, PoolFacts
  <2>3. GenInv(G!PadFor(gen, n)) /\ Ready(G!PadFor(gen, n), srcs)  BY PadsReady
  <2>4. \A e : G!Wrote(e, 0, FALSE) = e  BY DEF G!Wrote
  <2>5. GenInv(G!Wrote(gen', 0, FALSE))
    <3>1. /\ "branch" \in {"branch", "jal"} /\ 0 \in Dests \cup {0}
      OBVIOUS
    <3> QED BY <1>0, <2>1, <2>2, <2>3, <3>1, TransferKeeps
  <2> QED BY <2>4, <2>5
<1>3. CASE G!Jump
  <2>1. PICK rd \in Dests \cup {0}, gap \in G!Gaps :
          gen' = G!Wrote(G!Emit(G!NewLabel(gen, gen.idx + gap, l),
                                G!Transfer("jal", rd, {}, l)), rd, FALSE)
    BY <1>3 DEF G!Jump, l
  <2>2. {} \in SUBSET G!Regs /\ gen.idx + gap \in Int /\ Ready(gen, {})
        /\ "jal" \in {"branch", "jal"}
    BY <1>1 DEF Ready
  <2> QED BY <1>0, <2>1, <2>2, TransferKeeps
<1> QED BY <1>2, <1>3

(* MemDrawn: mem(), from the base register or through an alias.            *)
LEMMA MemDrawn ==
  ASSUME GenInv(gen), G!Mem
  PROVE  GenInv(gen')
<1> DEFINE Start(base, k) ==
             IF base = G!BASE_REG THEN gen
             ELSE G!Hold(G!Wrote(G!Emit(gen, G!Alias(base, k)), base, FALSE))
           Drawn(base, off, align, load, data) ==
             G!Access(base, off, align, IF load THEN data ELSE 0, IF load THEN {} ELSE {data})
<1>a. PICK align \in Aligns, load \in BOOLEAN, data \in Dests \cup {0} :
        \E total \in G!Totals(align), base \in G!PoolRegs \cup {G!BASE_REG} :
          \E k \in IF base = G!BASE_REG THEN {0} ELSE 0 .. total :
            /\ load => data # 0
            /\ \E n \in G!Pads(Start(base, k),
                              Drawn(base, G!Offset(total, k), align, load, data).srcs) :
                 gen' = G!Accessed(Start(base, k), n,
                                   Drawn(base, G!Offset(total, k), align, load, data), load)
  BY Zenon DEF G!Mem
<1>b. PICK total \in G!Totals(align), base \in G!PoolRegs \cup {G!BASE_REG} :
        \E k \in IF base = G!BASE_REG THEN {0} ELSE 0 .. total :
          \E n \in G!Pads(Start(base, k),
                          Drawn(base, G!Offset(total, k), align, load, data).srcs) :
            gen' = G!Accessed(Start(base, k), n,
                              Drawn(base, G!Offset(total, k), align, load, data), load)
  BY <1>a, Zenon
<1>c. PICK k \in IF base = G!BASE_REG THEN {0} ELSE 0 .. total :
        \E n \in G!Pads(Start(base, k),
                        Drawn(base, G!Offset(total, k), align, load, data).srcs) :
          gen' = G!Accessed(Start(base, k), n,
                            Drawn(base, G!Offset(total, k), align, load, data), load)
  BY <1>b, Zenon
<1>d. G!BASE_REG = 8 /\ G!Offset(total, k) = total - k  BY DEF G!BASE_REG, G!Offset
<1>2. align \in {1, 2, 4} /\ total \in Nat /\ Fits(total, align)  BY TotalFits
<1>3. k \in Nat /\ total - k \in Int /\ k + (total - k) = total /\ (base = 8 => total - k = total)
  BY <1>2, <1>c, <1>d
<1> DEFINE g == Start(base, k)
           item == Drawn(base, total - k, align, load, data)
<1>4. PICK n \in G!Pads(g, item.srcs) : gen' = G!Accessed(g, n, item, load)
  BY <1>c, <1>d, Zenon
<1>5. /\ item \in ItemSet /\ item.kind = "access" /\ item.base = base
      /\ item.off = total - k /\ item.align = align
      /\ item.rd = IF load THEN data ELSE 0
  <2> DEFINE rd == IF load THEN data ELSE 0
             srcs == IF load THEN {} ELSE {data}
  <2>1. rd \in G!Regs /\ srcs \in SUBSET G!Regs /\ base \in G!Regs
    BY <1>d, PoolFacts
  <2>2. item = G!Access(base, total - k, align, rd, srcs)  OBVIOUS
  <2>3. rd = IF load THEN data ELSE 0  OBVIOUS
  <2> HIDE DEF rd, srcs, item
  <2>4. LET a == G!Access(base, total - k, align, rd, srcs)
        IN  /\ a \in ItemSet /\ a.kind = "access" /\ a.rd = rd /\ a.base = base
            /\ a.off = total - k /\ a.align = align
    BY <1>2, <1>3, <2>1, ItemFields
  <2> QED BY <2>2, <2>3, <2>4
<1>6. item.rd # 8 /\ (item.rd # 0 => load)
  <2>1. data # 8  BY PoolFacts
  <2> HIDE DEF item
  <2> QED BY <1>5, <2>1
<1> HIDE DEF item
<1>7. GenInv(g) /\ Fitting(g, item)
  <2>1. CASE base = 8
    <3>1. g = gen  BY <1>d, <2>1
    <3> HIDE DEF g
    <3> QED BY <1>2, <1>3, <1>5, <2>1, <3>1 DEF Fitting
  <2>2. CASE base # 8
    <3>1. g = G!Hold(G!Wrote(G!Emit(gen, G!Alias(base, k)), base, FALSE))
      BY <1>d, <2>2
    <3>2. base \in G!PoolRegs  BY <1>d, <2>2
    <3> HIDE DEF g
    <3>3. GenInv(g) /\ Behind(g, base, k)  BY <1>3, <3>1, <3>2, AliasBehind
    <3>4. Fits(k + item.off, item.align)  BY <1>2, <1>3, <1>5
    <3> QED BY <1>3, <1>5, <2>2, <3>3, <3>4 DEF Fitting
  <2> QED BY <2>1, <2>2
<1> HIDE DEF g
<1> QED BY <1>4, <1>5, <1>6, <1>7, AccessKeeps

\* The first items: the base register, and the nops around it.
Low == [G!Item EXCEPT !.kind = "la", !.rd = 8, !.srcs = {8}]
SetUp(k) == IF k = 1 THEN G!Compute(8, {}) ELSE IF k = 5 THEN Low ELSE G!Nop
Bare(g, n) ==
  /\ GenType(g) /\ g.pending = {} /\ g.idx = n /\ Len(g.out) = n
  /\ \A k \in 1 .. n : g.out[k] = SetUp(k)

(* SetUpFields: the first items, field by field.                           *)
LEMMA SetUpFields ==
  /\ \A k \in Nat : SetUp(k) \in ItemSet
  /\ SetUp(1).kind = "alu" /\ SetUp(1).rd = 8 /\ SetUp(1).srcs = {}
  /\ SetUp(5).kind = "la" /\ SetUp(5).rd = 8 /\ SetUp(5).srcs = {8}
  /\ \A k \in {2, 3, 4, 6, 7, 8} :
       SetUp(k).kind = "nop" /\ SetUp(k).rd = 0 /\ SetUp(k).srcs = {}
<1>0. 0 \in G!Regs /\ 8 \in G!Regs /\ {} \in SUBSET G!Regs
      /\ {8} \in SUBSET (G!Regs \ {0})
  BY DEF G!Regs, G!BASE_REG
<1>1. G!Item \in ItemSet
      /\ DOMAIN G!Item = {"kind", "rd", "srcs", "base", "off", "align", "label", "pad"}
  BY <1>0 DEF G!Item, ItemSet, ItemKinds
<1>2. Low \in ItemSet /\ Low.kind = "la" /\ Low.rd = 8 /\ Low.srcs = {8}
  <2> HIDE DEF G!Item
  <2> QED BY <1>0, <1>1 DEF Low, ItemSet, ItemKinds
<1>3. G!Nop \in ItemSet /\ G!Nop.kind = "nop" /\ G!Nop.rd = 0 /\ G!Nop.srcs = {}
  BY ItemFields
<1>4. LET c == G!Compute(8, {})
      IN  c \in ItemSet /\ c.kind = "alu" /\ c.rd = 8 /\ c.srcs = {} \ {0}
  BY <1>0, ItemFields
<1>5. SetUp(1) = G!Compute(8, {}) /\ SetUp(5) = Low
      /\ \A k \in Nat : k # 1 /\ k # 5 => SetUp(k) = G!Nop
  BY DEF SetUp
<1> HIDE DEF Low
<1>6. /\ SetUp(1).kind = "alu" /\ SetUp(1).rd = 8 /\ SetUp(1).srcs = {}
      /\ SetUp(1) \in ItemSet
  BY <1>4, <1>5
<1>7. \A k \in Nat : SetUp(k) \in ItemSet  BY <1>2, <1>3, <1>5, <1>6
<1>8. /\ SetUp(5).kind = "la" /\ SetUp(5).rd = 8 /\ SetUp(5).srcs = {8}
  BY <1>2, <1>5
<1> QED BY <1>3, <1>5, <1>6, <1>7, <1>8

(* BareEmit: with no label to come, an item follows the others.            *)
LEMMA BareEmit ==
  ASSUME NEW g, NEW n \in Nat, Bare(g, n)
  PROVE  LET h == G!Emit(g, SetUp(n + 1))
         IN  /\ Bare(h, n + 1)
             /\ h.last_write = g.last_write /\ h.last_was_load = g.last_was_load
<1> DEFINE item == SetUp(n + 1)
           h == G!Emit(g, item)
           o == g.out
           p == G!Emit(g, item).out
<1>1. item \in ItemSet  BY SetUpFields
<1>2. GenType(g) /\ g.pending = {} /\ g.idx = n /\ Len(o) = n
      /\ \A k \in 1 .. n : o[k] = SetUp(k)
  BY DEF Bare
<1>3. G!Due(g) = {}  BY <1>2 DEF G!Due
<1>4. /\ DOMAIN h = GenFields /\ h.idx = g.idx + 1 /\ h.pending = g.pending \ G!Due(g)
      /\ \A f \in GenFields \ {"idx", "pending", "out"} : h[f] = g[f]
  BY <1>2, EmitFields
<1>5. PICK m \in Nat :
        /\ p \in Seq(ItemSet) /\ Len(p) = Len(o) + m + 1 /\ p[Len(p)] = item
        /\ \A k \in 1 .. Len(o) : p[k] = o[k]
        /\ \A k \in Len(o) + 1 .. Len(o) + m :
             p[k].kind = "label" /\ p[k].rd = 0 /\ p[k].srcs = {}
        /\ \A d \in G!Due(g) : Labelled(p, d.label)
        /\ G!Due(g) = {} => m = 0
  <2> HIDE DEF item
  <2> QED BY <1>1, <1>2, EmitLays
<1>p. p = h.out  OBVIOUS
<1> HIDE DEF h, o, p
<1>6. /\ p \in Seq(ItemSet) /\ Len(p) = n + 1 /\ p[n + 1] = item
      /\ \A k \in 1 .. n : p[k] = SetUp(k)
  BY <1>2, <1>3, <1>5
<1>7. \A k \in 1 .. n + 1 : p[k] = SetUp(k)
  <2> SUFFICES ASSUME NEW k \in 1 .. n + 1 PROVE p[k] = SetUp(k)  OBVIOUS
  <2>1. CASE k = n + 1  BY <1>6, <2>1
  <2>2. CASE k # n + 1  BY <1>6, <2>2
  <2> QED BY <2>1, <2>2
<1>8. /\ h.last_write = g.last_write /\ h.last_was_load = g.last_was_load
      /\ h.label_n = g.label_n /\ h.raw_d = g.raw_d /\ h.lu_d = g.lu_d
  BY <1>4 DEF GenFields
<1>9. h.pending = {} /\ h.idx = n + 1  BY <1>2, <1>3, <1>4
<1>10. GenType(h)
  <2>1. \A r \in DOMAIN h.last_write : h.last_write[r] \in Nat /\ h.last_write[r] < h.idx
    BY <1>2, <1>8, <1>9 DEF GenType
  <2>2. IsFiniteSet(h.pending) /\ h.pending \in SUBSET [at : Int, label : Nat]
    BY <1>9, FS_EmptySet
  <2>3. h.label_n \in Nat /\ h.raw_d \in Density /\ h.lu_d \in Density
        /\ DOMAIN h.last_was_load = DOMAIN h.last_write
    BY <1>2, <1>8 DEF GenType
  <2> QED BY <1>4, <1>6, <1>9, <1>p, <2>1, <2>2, <2>3 DEF GenType
<1>11. Bare(h, n + 1)  BY <1>6, <1>7, <1>9, <1>10, <1>p DEF Bare
<1> QED BY <1>8, <1>11 DEF h

(* ThreeBare: three nops after a prefix of the set-up.                     *)
LEMMA ThreeBare ==
  ASSUME NEW g, NEW n \in {1, 5}, Bare(g, n)
  PROVE  LET h == G!EmitTimes(g, G!Nop, 3)
         IN  /\ Bare(h, n + 3)
             /\ h.last_write = g.last_write /\ h.last_was_load = g.last_was_load
<1> DEFINE a == G!Emit(g, G!Nop)
           b == G!Emit(a, G!Nop)
           c == G!Emit(b, G!Nop)
<1>0. SetUp(n + 1) = G!Nop /\ SetUp((n + 1) + 1) = G!Nop /\ SetUp(((n + 1) + 1) + 1) = G!Nop
      /\ n \in Nat /\ n + 1 \in Nat /\ (n + 1) + 1 \in Nat /\ ((n + 1) + 1) + 1 = n + 3
  BY DEF SetUp
<1>1. Bare(a, n + 1) /\ a.last_write = g.last_write /\ a.last_was_load = g.last_was_load
  BY <1>0, BareEmit
<1> HIDE DEF a
<1>2. Bare(b, (n + 1) + 1) /\ b.last_write = a.last_write /\ b.last_was_load = a.last_was_load
  BY <1>0, <1>1, BareEmit
<1> HIDE DEF b
<1>3. Bare(c, ((n + 1) + 1) + 1) /\ c.last_write = b.last_write
      /\ c.last_was_load = b.last_was_load
  BY <1>0, <1>2, BareEmit
<1>4. G!EmitTimes(g, G!Nop, 3) = c  BY DEF G!EmitTimes, a, b
<1> HIDE DEF c
<1> QED BY <1>0, <1>1, <1>2, <1>3, <1>4

(* SetUpKept: the base register as the generator sets it up.               *)
LEMMA SetUpKept ==
  ASSUME NEW g, Bare(g, 8), DOMAIN g.last_write = {8}, g.last_write[8] = 4,
         g.last_was_load[8] = FALSE
  PROVE  GenInv(g)
<1> DEFINE o == g.out
<1>1. /\ GenType(g) /\ g.idx = 8 /\ Len(o) = 8 /\ DOMAIN o = 1 .. 8
      /\ \A k \in 1 .. 8 : o[k] = SetUp(k)
  BY DEF Bare, GenType
<1> HIDE DEF o
<1>2. /\ o[1].kind = "alu" /\ o[1].rd = 8 /\ o[1].srcs = {}
      /\ o[5].kind = "la" /\ o[5].rd = 8 /\ o[5].srcs = {8}
      /\ \A k \in {2, 3, 4, 6, 7, 8} : o[k].kind = "nop" /\ o[k].rd = 0 /\ o[k].srcs = {}
  BY <1>1, SetUpFields
<1>3. \A k \in 1 .. 8 : k = 1 \/ k = 5 \/ k \in {2, 3, 4, 6, 7, 8}  OBVIOUS
<1>4. \A k \in 1 .. 8 : o[k].kind \notin {"branch", "jal", "access", "label"}
  <2> SUFFICES ASSUME NEW k \in 1 .. 8
               PROVE  o[k].kind \notin {"branch", "jal", "access", "label"}
    OBVIOUS
  <2> QED BY <1>2, <1>3
<1>5. Prologue(o)
  <2>1. 9 .. Len(o) = {}  BY <1>1
  <2> QED BY <1>1, <1>2, <2>1 DEF Prologue
<1>6. Linked(g)  BY <1>1, <1>4 DEF Linked, o
<1>7. Placed(o)  BY <1>1, <1>4 DEF Placed
<1>8. ASSUME NEW i \in 1 .. 8, NEW r \in Nat \ {0}, o[i].rd = r
      PROVE  r = 8 /\ i \in {1, 5}
  BY <1>2, <1>3, <1>8
<1>c. \A i, j \in Int : i <= j => Cardinality(i .. j) = j - i + 1
  BY FS_Interval
<1>9. Passed(o, 1, 5) = 4
  <2>1. {k \in 1 + 1 .. 5 : o[k].kind # "label"} = 2 .. 5  BY <1>4
  <2>2. PICK i, j \in Int : i = 2 /\ j = 5  OBVIOUS
  <2>a. i <= j  BY <2>2
  <2>3. Cardinality(i .. j) = j - i + 1  BY <1>c, <2>a, Zenon
  <2>4. Cardinality(2 .. 5) = 4  BY <2>2, <2>3
  <2> QED BY <2>1, <2>4 DEF Passed
<1>10. Passed(o, 5, 8) = 3
  <2>1. {k \in 5 + 1 .. 8 : o[k].kind # "label"} = 6 .. 8  BY <1>4
  <2>2. PICK i, j \in Int : i = 6 /\ j = 8  OBVIOUS
  <2>a. i <= j  BY <2>2
  <2>3. Cardinality(i .. j) = j - i + 1  BY <1>c, <2>a, Zenon
  <2>4. Cardinality(6 .. 8) = 3  BY <2>2, <2>3
  <2> QED BY <2>1, <2>4 DEF Passed
<1>11. Spaced(g)
  <2> SUFFICES ASSUME NEW j \in DOMAIN o, NEW r \in o[j].srcs, NEW i \in 1 .. j - 1,
                      Latest(o, i, j, r)
               PROVE  Passed(o, i, j) >= 3
    BY DEF Spaced, o
  <2>1. j = 5 /\ r = 8  BY <1>1, <1>2, <1>3
  <2>2. i = 1
    <3>1. o[i].rd = 8  BY <2>1 DEF Latest
    <3>2. i \in 1 .. 8 /\ i < 5  BY <2>1
    <3> QED BY <3>1, <3>2, <1>8
  <2> QED BY <2>1, <2>2, <1>9
<1>12. Recorded(g)
  <2> SUFFICES ASSUME NEW i \in DOMAIN o, NEW r \in G!Regs \ {0}, Latest(o, i, Len(o) + 1, r)
               PROVE  /\ r \in DOMAIN g.last_write
                      /\ g.last_was_load[r] <=> o[i].kind = "access"
                      /\ Passed(o, i, Len(o)) = g.idx - 1 - g.last_write[r]
    BY DEF Recorded, o
  <2>1. r \in Nat \ {0}  BY PoolFacts DEF G!Regs, G!BASE_REG
  <2>2. o[i].rd = r /\ i \in 1 .. 8  BY <1>1 DEF Latest
  <2>3. r = 8 /\ i \in {1, 5}  BY <1>8, <2>1, <2>2
  <2>4. i = 5
    <3>1. CASE i = 1
      <4>1. 5 \in i + 1 .. (Len(o) + 1) - 1  BY <1>1, <3>1
      <4>2. o[5].rd # 8  BY <2>3, <4>1 DEF Latest
      <4> QED BY <4>2, <1>2
    <3> QED BY <3>1, <2>3
  <2>5. g.idx - 1 - g.last_write[8] = 3  BY <1>1
  <2>6. ~ g.last_was_load[r] /\ o[i].kind # "access"  BY <1>2, <2>3, <2>4
  <2> QED BY <1>1, <1>10, <2>3, <2>4, <2>5, <2>6
<1>13. BaseSettled(g)
  <2>1. g.idx - g.last_write[8] >= 4  BY <1>1
  <2> QED BY <2>1 DEF BaseSettled
<1> QED BY <1>1, <1>5, <1>6, <1>7, <1>11, <1>12, <1>13 DEF GenInv, o

(* SetBaseKeeps: what generate() starts with.                              *)
LEMMA SetBaseKeeps ==
  ASSUME NEW raw \in Density, NEW lu \in Density
  PROVE  GenInv(G!SetBase(G!NewGen(raw, lu)))
<1> DEFINE g == G!NewGen(raw, lu)
           a == G!Emit(g, G!Compute(8, {}))
           b == G!EmitTimes(a, G!Nop, 3)
           c == G!Emit(b, Low)
           d == G!Wrote(c, 8, FALSE)
           e == G!EmitTimes(d, G!Nop, 3)
<1>0. G!SetBase(g) = e  BY DEF G!SetBase, G!BASE_REG, G!RAW_DISTANCE, Low
<1>1. Bare(g, 0) /\ g.last_write = <<>> /\ g.last_was_load = <<>>
  <2>1. /\ DOMAIN g = GenFields /\ g.out = <<>> /\ g.idx = 0 /\ g.pending = {}
        /\ g.label_n = 0 /\ g.last_write = <<>> /\ g.last_was_load = <<>>
        /\ g.raw_d = raw /\ g.lu_d = lu
    BY DEF G!NewGen, GenFields
  <2> HIDE DEF g
  <2>2. IsFiniteSet(g.pending)  BY <2>1, FS_EmptySet
  <2>3. DOMAIN g.last_write = {} /\ DOMAIN g.last_was_load = {}  BY <2>1
  <2>4. g.out \in Seq(ItemSet) /\ Len(g.out) = 0  BY <2>1
  <2>5. GenType(g)  BY <2>1, <2>2, <2>3, <2>4 DEF GenType
  <2> QED BY <2>1, <2>4, <2>5 DEF Bare
<1> HIDE DEF g
<1>2. Bare(a, 1) /\ a.last_write = <<>> /\ a.last_was_load = <<>>
  <2>1. SetUp(0 + 1) = G!Compute(8, {}) /\ 0 + 1 = 1  BY DEF SetUp
  <2>2. LET h == G!Emit(g, SetUp(0 + 1))
        IN  /\ Bare(h, 0 + 1)
            /\ h.last_write = g.last_write /\ h.last_was_load = g.last_was_load
    BY <1>1, BareEmit
  <2> QED BY <1>1, <2>1, <2>2
<1> HIDE DEF a
<1>3. Bare(b, 1 + 3) /\ b.last_write = <<>> /\ b.last_was_load = <<>>
  BY <1>2, ThreeBare
<1> HIDE DEF b
<1>4. Bare(c, 5) /\ c.last_write = <<>> /\ c.last_was_load = <<>>
  <2>1. SetUp(4 + 1) = Low /\ 4 + 1 = 5 /\ 1 + 3 = 4  BY DEF SetUp
  <2>2. Bare(b, 4)  BY <1>3, <2>1
  <2>3. LET h == G!Emit(b, SetUp(4 + 1))
        IN  /\ Bare(h, 4 + 1)
            /\ h.last_write = b.last_write /\ h.last_was_load = b.last_was_load
    BY <2>2, BareEmit
  <2> QED BY <1>3, <2>1, <2>3
<1> HIDE DEF c
<1>5. /\ Bare(d, 5) /\ DOMAIN d.last_write = {8} /\ d.last_write[8] = 4
      /\ d.last_was_load[8] = FALSE
  <2>0. GenType(c) /\ c.idx = 5 /\ DOMAIN c = GenFields  BY <1>4 DEF Bare, GenType
  <2>1. /\ DOMAIN d = GenFields
        /\ \A f \in GenFields \ {"last_write", "last_was_load"} : d[f] = c[f]
        /\ DOMAIN d.last_write = DOMAIN c.last_write \cup {8}
        /\ \A r \in DOMAIN d.last_write :
             d.last_write[r] = IF r = 8 THEN c.idx - 1 ELSE c.last_write[r]
        /\ DOMAIN d.last_was_load = DOMAIN c.last_was_load \cup {8}
        /\ \A r \in DOMAIN d.last_was_load :
             d.last_was_load[r] = IF r = 8 THEN FALSE ELSE c.last_was_load[r]
    <3>1. PICK load : load = FALSE  OBVIOUS
    <3>2. LET h == G!Wrote(c, 8, load)
          IN  /\ DOMAIN h = GenFields
              /\ \A f \in GenFields \ {"last_write", "last_was_load"} : h[f] = c[f]
              /\ DOMAIN h.last_write = DOMAIN c.last_write \cup {8}
              /\ \A r \in DOMAIN h.last_write :
                   h.last_write[r] = IF r = 8 THEN c.idx - 1 ELSE c.last_write[r]
              /\ DOMAIN h.last_was_load = DOMAIN c.last_was_load \cup {8}
              /\ \A r \in DOMAIN h.last_was_load :
                   h.last_was_load[r] = IF r = 8 THEN load ELSE c.last_was_load[r]
      BY <2>0, WroteFields
    <3> QED BY <3>1, <3>2, Zenon
  <2> HIDE DEF d
  <2>2. DOMAIN c.last_write = {} /\ DOMAIN c.last_was_load = {}  BY <1>4
  <2>3. DOMAIN d.last_write = {8} /\ DOMAIN d.last_was_load = {8}  BY <2>1, <2>2
  <2>4. d.last_write[8] = 4  BY <2>0, <2>1, <2>3
  <2>5. d.last_was_load[8] = FALSE  BY <2>1, <2>3
  <2>6. /\ d.out = c.out /\ d.idx = c.idx /\ d.pending = c.pending
        /\ d.label_n = c.label_n /\ d.raw_d = c.raw_d /\ d.lu_d = c.lu_d
    BY <2>1 DEF GenFields
  <2>7. GenType(d)  BY <2>0, <2>1, <2>3, <2>4, <2>6 DEF GenType
  <2>8. Bare(d, 5)  BY <1>4, <2>6, <2>7 DEF Bare
  <2> QED BY <2>3, <2>4, <2>5, <2>8
<1> HIDE DEF d
<1>6. /\ Bare(e, 5 + 3)
      /\ e.last_write = d.last_write /\ e.last_was_load = d.last_was_load
  BY <1>5, ThreeBare
<1> HIDE DEF e
<1>7. Bare(e, 8)
  <2>1. 5 + 3 = 8  OBVIOUS
  <2> QED BY <2>1, <1>6
<1>8. GenInv(e)  BY <1>5, <1>6, <1>7, SetUpKept
<1> QED BY <1>0, <1>8 DEF g

(* EffectiveIs: the next item that is not a nop.                           *)
LEMMA EffectiveIs ==
  ASSUME GenType(gen), NEW i \in 1 .. Len(gen.out) + 1
  PROVE  LET e == G!Effective(i)
         IN  /\ e \in i .. Len(gen.out) + 1
             /\ e <= Len(gen.out) => gen.out[e].kind # "nop"
             /\ \A k \in i .. e - 1 : gen.out[k].kind = "nop"
<1> DEFINE o == gen.out
           T == {j \in i .. Len(o) + 1 : j <= Len(o) => o[j].kind # "nop"}
           e == G!Effective(i)
<1>1. Len(o) \in Nat  BY DEF GenType
<1>2. e = G!Min(T)  BY DEF G!Effective, G!out
<1>3. T \subseteq Nat  BY <1>1
<1>4. T # {}
  <2>1. Len(o) + 1 \in T  BY <1>1
  <2> QED BY <2>1
<1>5. \E m \in T : \A n \in T : m <= n
  <2> HIDE DEF T
  <2> QED BY <1>3, <1>4, LeastNat
<1>6. e \in T /\ \A n \in T : e <= n
  <2> HIDE DEF T
  <2> QED BY <1>2, <1>5 DEF G!Min
<1> HIDE DEF e, o
<1>7. e \in i .. Len(o) + 1 /\ (e <= Len(o) => o[e].kind # "nop")  BY <1>6
<1>8. ASSUME NEW k \in i .. e - 1 PROVE o[k].kind = "nop"
  <2>1. k \in i .. Len(o) + 1 /\ k < e /\ k <= Len(o)  BY <1>1, <1>7
  <2>2. k \notin T  BY <1>1, <1>6, <2>1
  <2> QED BY <2>1, <2>2
<1> QED BY <1>7, <1>8 DEF e, o

(* TargetIs: a transfer's label is in the finished program, behind the     *)
(* prologue.                                                               *)
LEMMA TargetIs ==
  ASSUME GenInv(gen), gen.pending = {}, NEW i \in DOMAIN gen.out,
         gen.out[i].kind \in {"branch", "jal"}
  PROVE  LET t == G!TargetOf(gen.out[i].label)
         IN  t \in 1 .. Len(gen.out) /\ gen.out[t].kind = "label" /\ t > 8
<1> DEFINE o == gen.out
           l == gen.out[i].label
           t == G!TargetOf(l)
<1>1. Labelled(o, l)  BY DEF GenInv, Linked
<1>2. t \in DOMAIN o /\ o[t].kind = "label"
  BY <1>1 DEF Labelled, G!TargetOf, G!out
<1>3. DOMAIN o = 1 .. Len(o) /\ Len(o) \in Nat /\ Prologue(o)  BY DEF GenInv, GenType
<1> HIDE DEF t, o
<1>4. t > 8
  <2>1. t \in Nat \ {0}  BY <1>2, <1>3
  <2>2. CASE t <= 8
    <3>1. t \in {2, 3, 4, 6, 7, 8} \/ t = 1 \/ t = 5  BY <2>1, <2>2
    <3> QED BY <3>1, <1>2, <1>3 DEF Prologue
  <2> QED BY <2>1, <2>2
<1> QED BY <1>2, <1>3, <1>4 DEF t, o

(* CheckPasses: check_alias_bases() finds nothing.                         *)
LEMMA CheckPasses ==
  ASSUME GenInv(gen)
  PROVE  G!CheckAliasBases(gen.out)
<1> DEFINE o == gen.out
<1>1. Placed(o)  BY DEF GenInv
<1> HIDE DEF o
<1>2. ASSUME NEW i \in DOMAIN o, o[i].kind = "access", o[i].base # 8
      PROVE  \E j \in 1 .. i - 1 :
               /\ o[j].kind = "alias" /\ o[j].rd = o[i].base
               /\ \A k \in j + 1 .. i - 1 : o[k].kind = "nop"
  <2>1. PICK j \in 1 .. i - 1 : AliasAt(o, j, i, o[i].base)
    BY <1>1, <1>2 DEF Placed
  <2> QED BY <2>1 DEF AliasAt
<1> QED BY <1>2 DEF G!CheckAliasBases, G!BASE_REG, o

(* RunStarts: the run starts in front of everything.                       *)
LEMMA RunStarts ==
  ASSUME GenInv(gen), gen' = gen, pc' = 1, val' = val
  PROVE  PathInv'
<1> DEFINE o == gen.out
<1>1. Prologue(o) /\ Len(o) \in Nat  BY DEF GenInv, GenType
<1>2. o' = o  OBVIOUS
<1> HIDE DEF o
<1>3. o[1].kind = "alu" /\ Len(o) >= 8  BY <1>1 DEF Prologue
<1>4. 1 \in 1 .. Len(o) + 1 /\ 1 \notin 2 .. 8 /\ ~(1 > 8)  BY <1>1, <1>3
<1> QED BY <1>2, <1>3, <1>4 DEF PathInv, o

(* FrontIs: what is not a nop in the prologue.                             *)
LEMMA FrontIs ==
  ASSUME NEW o, Prologue(o), NEW k \in Nat \ {0}, k <= 8
  PROVE  /\ o[k].kind # "nop" => k = 1 \/ k = 5
         /\ o[k].kind \in {"alu", "nop", "la"}
<1>1. k \in {2, 3, 4, 6, 7, 8} \/ k = 1 \/ k = 5  OBVIOUS
<1> QED BY <1>1 DEF Prologue

(* RunGoesOn: an item of the program keeps what is known of the registers. *)
LEMMA RunGoesOn ==
  ASSUME GenInv(gen), gen.pending = {}, PathInv, val \in [G!Regs -> Int], G!Execute
  PROVE  PathInv' /\ val' \in [G!Regs -> Int]
<1> DEFINE o == gen.out
           it == o[pc]
           v == CASE it.kind = "la"    -> 0
                  [] it.kind = "alias" -> IF val[8] = 0 - 1 THEN 0 - 1 ELSE val[8] + it.off
                  [] OTHER             -> 0 - 1
<1>1. /\ pc <= Len(o) /\ gen' = gen
      /\ val' = IF it.rd = 0 THEN val ELSE [val EXCEPT ![it.rd] = v]
  BY DEF G!Execute, G!Running, G!out, G!Unknown, G!BASE_REG
<1>2. \E next \in CASE it.kind = "jal"    -> {G!TargetOf(it.label)}
                    [] it.kind = "branch" -> {G!TargetOf(it.label), pc + 1}
                    [] OTHER              -> {pc + 1} :
        pc' = G!Effective(next)
  BY DEF G!Execute, G!out
<1>3. /\ GenType(gen) /\ o \in Seq(ItemSet) /\ Len(o) \in Nat /\ DOMAIN o = 1 .. Len(o)
      /\ Prologue(o) /\ Len(o) >= 8
  BY DEF GenInv, GenType, Prologue
<1>4. pc \in 1 .. Len(o) /\ o[pc].kind # "nop"  BY <1>1, <1>3 DEF PathInv
<1>5. PICK next : /\ pc' = G!Effective(next)
                  /\ next = pc + 1 \/ /\ it.kind \in {"jal", "branch"}
                                      /\ next = G!TargetOf(it.label)
  BY <1>2
<1>6. \/ next = pc + 1
      \/ next \in 1 .. Len(o) /\ o[next].kind = "label" /\ next > 8
  BY <1>3, <1>4, <1>5, TargetIs
<1>7. next \in 1 .. Len(o) + 1  BY <1>3, <1>4, <1>6
<1>q. PICK q : q = pc'  OBVIOUS
<1>8. /\ q \in next .. Len(o) + 1
      /\ q <= Len(o) => o[q].kind # "nop"
      /\ \A k \in next .. q - 1 : o[k].kind = "nop"
  BY <1>3, <1>5, <1>7, <1>q, EffectiveIs
<1>9. it \in ItemSet  BY <1>3, <1>4
<1>10. 8 \in G!Regs /\ it.rd \in G!Regs /\ it.off \in Int  BY <1>9, PoolFacts DEF ItemSet
<1>11. v \in Int  BY <1>10
<1>12. o' = o  BY <1>1
<1>v. /\ it.kind = "la" => v = 0
      /\ it.kind = "alias" /\ val[8] = 0 => v = it.off
  BY <1>10
<1> HIDE DEF v, o
<1>13. val' \in [G!Regs -> Int]  BY <1>1, <1>10, <1>11
<1>14. q \in 1 .. Len(o) + 1 /\ q \in Nat \ {0} /\ next \in Nat /\ pc \in Nat
  BY <1>3, <1>4, <1>7, <1>8
<1>15. q \in 2 .. 8 => q = 5
  BY <1>3, <1>8, <1>14, FrontIs
<1>16. ASSUME q > 8 PROVE val'[8] = 0
  <2>1. CASE pc > 8
    <3>1. val[8] = 0  BY <2>1 DEF PathInv
    <3>2. it.rd # 8
      <4>1. pc \in 9 .. Len(o)  BY <1>3, <1>4, <2>1
      <4> QED BY <4>1, <1>3 DEF Prologue
    <3> QED BY <1>1, <1>10, <3>1, <3>2
  <2>2. CASE pc <= 8
    <3>1. pc = 1 \/ pc = 5  BY <1>3, <1>4, <2>2, FrontIs
    <3>2. CASE pc = 5
      <4>1. it.kind = "la" /\ it.rd = 8  BY <1>3, <3>2 DEF Prologue
      <4>2. val' = [val EXCEPT ![8] = v] /\ v = 0  BY <1>1, <1>v, <4>1
      <4> QED BY <1>10, <4>2
    <3>3. CASE pc = 1
      <4>1. it.kind = "alu"  BY <1>3, <3>3 DEF Prologue
      <4>2. next = 2  BY <1>5, <3>3, <4>1
      <4>3. 5 \in next .. q - 1  BY <1>14, <1>16, <4>2
      <4>4. o[5].kind = "la"  BY <1>3 DEF Prologue
      <4> QED BY <1>8, <4>3, <4>4
    <3> QED BY <3>1, <3>2, <3>3
  <2> QED BY <1>3, <1>4, <2>1, <2>2
<1>17. ASSUME q <= Len(o), o[q].kind = "access", NEW j \in 1 .. q - 1,
              AliasAt(o, j, q, o[q].base)
       PROVE  val'[o[q].base] = o[j].off
  <2>1. o[j].kind = "alias" /\ o[j].rd = o[q].base /\ o[q].base # 0
        /\ \A k \in j + 1 .. q - 1 : o[k].kind = "nop"
    BY <1>17 DEF AliasAt
  <2>2. next = pc + 1
    <3>1. CASE o[next].kind = "label" /\ next \in 1 .. Len(o)
      <4>1. next \notin next .. q - 1  BY <1>8, <3>1
      <4>2. q = next  BY <1>8, <1>14, <3>1, <4>1
      <4> QED BY <1>17, <3>1, <4>2
    <3> QED BY <1>6, <3>1
  <2>3. j = pc
    <3>1. ~(j < pc)
      <4>1. pc < q  BY <1>4, <1>8, <1>14, <2>2
      <4>2. j < pc => pc \in j + 1 .. q - 1  BY <1>4, <1>14, <4>1
      <4> QED BY <1>4, <2>1, <4>2
    <3>2. ~(j > pc)
      <4>1. j > pc => j \in next .. q - 1  BY <1>4, <1>14, <2>2
      <4> QED BY <1>8, <2>1, <4>1
    <3> QED BY <1>4, <3>1, <3>2
  <2>4. pc > 8
    <3>1. CASE pc <= 8  BY <1>3, <1>4, <2>1, <2>3, <3>1, FrontIs
    <3> QED BY <1>4, <3>1
  <2>5. val[8] = 0  BY <2>4 DEF PathInv
  <2>6. v = it.off  BY <1>v, <2>1, <2>3, <2>5
  <2>7. val' = [val EXCEPT ![it.rd] = v]  BY <1>1, <2>1, <2>3
  <2> QED BY <1>10, <2>1, <2>3, <2>6, <2>7
<1>18. PathInv'
  BY <1>q, <1>8, <1>12, <1>14, <1>15, <1>16, <1>17 DEF PathInv, o
<1> QED BY <1>13, <1>18

(* LastWriterIs: the last item in front of an item that writes a register. *)
LEMMA LastWriterIs ==
  ASSUME GenInv(gen), NEW j \in DOMAIN gen.out, NEW r, G!LastWriter(j, r) > 0
  PROVE  /\ G!LastWriter(j, r) \in 1 .. j - 1
         /\ Latest(gen.out, G!LastWriter(j, r), j, r)
<1> DEFINE w == {k \in 1 .. j - 1 : gen.out[k].rd = r}
           T == {j - k : k \in w}
           m == G!LastWriter(j, r)
<1>1. j \in Nat /\ w \subseteq Nat  BY DEF GenInv, GenType
<1>2. m = IF w = {} THEN 0 ELSE G!Max(w)  BY DEF G!LastWriter, G!out
<1>3. w # {}
  <2>1. m > 0  OBVIOUS
  <2> HIDE DEF m, w
  <2> QED BY <1>2, <2>1
<1>4. PICK d \in T : \A n \in T : d <= n
  <2>1. T \subseteq Nat  BY <1>1
  <2>2. T # {}  BY <1>3
  <2> HIDE DEF T
  <2> QED BY <2>1, <2>2, LeastNat
<1>5. PICK x \in w : d = j - x  BY <1>4
<1>6. \A y \in w : y <= x
  <2> SUFFICES ASSUME NEW y \in w PROVE y <= x  OBVIOUS
  <2>1. j - y \in T  OBVIOUS
  <2>2. d <= j - y  BY <1>4, <2>1
  <2>3. x \in Nat /\ y \in Nat  BY <1>1
  <2> QED BY <1>1, <1>5, <2>2, <2>3
<1>7. m = G!Max(w)  BY <1>2, <1>3
<1>8. m \in w /\ \A y \in w : m >= y
  <2>1. \A y \in w : x >= y  BY <1>1, <1>6
  <2> HIDE DEF m, w
  <2> QED BY <1>5, <1>7, <2>1 DEF G!Max
<1> HIDE DEF m
<1>9. m \in 1 .. j - 1 /\ gen.out[m].rd = r  BY <1>8
<1>10. ASSUME NEW k \in m + 1 .. j - 1 PROVE gen.out[k].rd # r
  <2>1. k \in 1 .. j - 1 /\ k > m  BY <1>1, <1>9
  <2>2. k \notin w  BY <1>1, <1>8, <1>9, <2>1
  <2> QED BY <2>1, <2>2
<1> QED BY <1>9, <1>10 DEF Latest, m

(* RandomHolds: what the invariant of the generator says of its program.   *)
LEMMA RandomHolds ==
  ASSUME RandomInv
  PROVE  G!AccessInScratch /\ G!NothingRejected /\ G!PaddedApart
<1> DEFINE o == gen.out
<1>1. GenInv(gen) /\ Prologue(o) /\ Placed(o) /\ Spaced(gen) /\ Len(o) \in Nat
      /\ DOMAIN o = 1 .. Len(o)
  BY DEF RandomInv, GenInv, GenType
<1>2. G!NothingRejected  BY DEF RandomInv, G!NothingRejected
<1>3. G!AccessInScratch
  <2> SUFFICES ASSUME G!Running, o[pc].kind = "access"
               PROVE  LET a == val[o[pc].base] + o[pc].off
                      IN  /\ val[o[pc].base] # 0 - 1
                          /\ a % o[pc].align = 0 /\ a >= 0
                          /\ a + o[pc].align <= ScratchBytes
    BY DEF G!AccessInScratch, G!out, G!Unknown
  <2>1. PathInv /\ pc <= Len(o)  BY DEF G!Running, RandomInv, G!out
  <2>2. pc \in 1 .. Len(o)  BY <1>1, <2>1 DEF PathInv
  <2>3. CASE o[pc].base = 8
    <3>1. Fits(o[pc].off, o[pc].align)  BY <1>1, <2>2, <2>3 DEF Placed
    <3>2. pc > 8
      <4>1. CASE pc <= 8  BY <1>1, <2>2, <4>1, FrontIs
      <4> QED BY <2>2, <4>1
    <3>3. val[8] = 0  BY <2>1, <3>2 DEF PathInv
    <3>4. o[pc].off \in Int
      <4>1. o[pc] \in ItemSet  BY <1>1, <2>2 DEF GenInv, GenType
      <4> QED BY <4>1 DEF ItemSet
    <3>5. val[8] + o[pc].off = o[pc].off  BY <3>3, <3>4
    <3> QED BY <2>3, <3>1, <3>3, <3>5 DEF Fits
  <2>4. CASE o[pc].base # 8
    <3>1. PICK j \in 1 .. pc - 1 : /\ AliasAt(o, j, pc, o[pc].base) /\ o[j].off \in Nat
                                   /\ Fits(o[j].off + o[pc].off, o[pc].align)
      BY <1>1, <2>2, <2>4 DEF Placed
    <3>2. val[o[pc].base] = o[j].off  BY <2>1, <2>4, <3>1 DEF PathInv
    <3> HIDE DEF o
    <3> QED BY <3>1, <3>2 DEF Fits
  <2> QED BY <2>3, <2>4
<1>4. G!PaddedApart
  <2> SUFFICES ASSUME NEW j \in DOMAIN o, NEW r \in o[j].srcs, G!LastWriter(j, r) > 0,
                      Dense(gen, o[G!LastWriter(j, r)].kind = "access") = "none"
               PROVE  G!Between(G!LastWriter(j, r), j) >= 3
    BY DEF G!PaddedApart, G!out, Dense, G!LOAD_USE_DISTANCE, G!RAW_DISTANCE
  <2> DEFINE i == G!LastWriter(j, r)
  <2>1. i \in 1 .. j - 1 /\ Latest(o, i, j, r)  BY <1>1, LastWriterIs
  <2>2. Dense(gen, o[i].kind = "access") = "none"  OBVIOUS
  <2>3. G!Between(i, j) = Passed(o, i, j)  BY GenCount DEF G!Between, G!out, Passed
  <2> HIDE DEF i
  <2>4. Passed(o, i, j) >= 3  BY <1>1, <2>1, <2>2 DEF Spaced
  <2> QED BY <2>3, <2>4 DEF i
<1> QED BY <1>2, <1>3, <1>4

(* RandomStep: each step of the generator, and of its program, keeps the   *)
(* invariant.                                                              *)
LEMMA RandomStep ==
  ASSUME RandomInv, G!Next
  PROVE  RandomInv'
<1>0. GenInv(gen) /\ step \in Nat /\ val \in [G!Regs -> Int]  BY DEF RandomInv
<1> DEFINE Phases == {"seed", "fill", "body", "flush"}
<1>1. ASSUME NEW this \in Phases, NEW next \in Phases, NEW last, G!Steps(this, next, last),
             GenInv(gen')
      PROVE  RandomInv'
  <2>1. stage' \in Phases /\ val' = val /\ step' \in Nat  BY <1>0, <1>1 DEF G!Steps
  <2>2. (G!Regs)' = G!Regs  BY DEF G!Regs
  <2> QED BY <1>0, <1>1, <2>1, <2>2 DEF RandomInv
<1>2. CASE G!Seed
  <2>1. G!Steps("seed", "fill", Len(Pool)) /\ gen' = G!Fresh(gen, Pool[step + 1])
    BY <1>2 DEF G!Seed
  <2>2. step + 1 \in 1 .. Len(Pool)  BY <1>0, <2>1, PoolFacts DEF G!Steps
  <2>3. Pool[step + 1] \in G!PoolRegs  BY <2>2, PoolFacts
  <2>4. GenInv(gen')  BY <1>0, <2>1, <2>3, FreshKeeps
  <2> QED BY <1>1, <2>1, <2>4
<1>3. CASE G!Fill
  <2>1. /\ G!Steps("fill", "body", Len(Pool))
        /\ \E n \in G!Pads(gen, {Pool[step + 1]}) :
             gen' = G!Padded(gen, n, G!Compute(Pool[step + 1], {Pool[step + 1]}))
    BY <1>3 DEF G!Fill
  <2>2. step + 1 \in 1 .. Len(Pool)  BY <1>0, <2>1, PoolFacts DEF G!Steps
  <2>3. Pool[step + 1] \in G!PoolRegs /\ {Pool[step + 1]} \in SUBSET G!Regs
    BY <2>2, PoolFacts
  <2>4. GenInv(gen')  BY <1>0, <2>1, <2>3, ComputeKeeps
  <2> QED BY <1>1, <2>1, <2>4
<1>4. CASE G!Draw /\ (G!Arith \/ G!Upper \/ G!MulDivEdge \/ G!Mem \/ G!Branch \/ G!Jump)
  <2>1. G!Steps("body", "flush", BodySize)  BY <1>4 DEF G!Draw
  <2>2. GenInv(gen')  BY <1>0, <1>4, PlainDrawn, MemDrawn, TransferDrawn
  <2> QED BY <1>1, <2>1, <2>2
<1>5. CASE G!Flush
  <2>1. /\ gen' = G!Emit(gen, G!Nop) /\ stage' = "flush" /\ step' = step /\ val' = val
    BY <1>5 DEF G!Flush
  <2>2. GenInv(gen')  BY <1>0, <2>1, FlushKeeps
  <2>3. (G!Regs)' = G!Regs  BY DEF G!Regs
  <2> QED BY <1>0, <2>1, <2>2, <2>3 DEF RandomInv
<1>6. CASE G!Check
  <2>1. /\ gen.pending = {} /\ gen' = gen /\ pc' = 1 /\ step' = step /\ val' = val
        /\ stage' = IF G!CheckAliasBases(gen.out) THEN "run" ELSE "rejected"
    BY <1>6 DEF G!Check
  <2>2. stage' = "run"  BY <1>0, <2>1, CheckPasses
  <2>3. PathInv'  BY <1>0, <2>1, RunStarts
  <2>4. (G!Regs)' = G!Regs  BY DEF G!Regs
  <2>5. GenInv(gen')  BY <1>0, <2>1
  <2> QED BY <1>0, <2>1, <2>2, <2>3, <2>4, <2>5 DEF RandomInv
<1>7. CASE G!Execute
  <2>1. stage = "run" /\ gen' = gen /\ stage' = stage /\ step' = step
    BY <1>7 DEF G!Execute, G!Running
  <2>2. gen.pending = {} /\ PathInv  BY <2>1 DEF RandomInv
  <2>3. PathInv' /\ val' \in [G!Regs -> Int]  BY <1>0, <1>7, <2>2, RunGoesOn
  <2>4. (G!Regs)' = G!Regs  BY DEF G!Regs
  <2>5. GenInv(gen')  BY <1>0, <2>1
  <2> QED BY <1>0, <2>1, <2>2, <2>3, <2>4, <2>5 DEF RandomInv
<1> QED BY <1>2, <1>3, <1>4, <1>5, <1>6, <1>7
        DEF G!Next, G!DrawArith, G!DrawUpper, G!DrawMulDivEdge, G!DrawMem, G!DrawBranch,
            G!DrawJump

(* RandomInit: the generator starts with the base register set up.         *)
LEMMA RandomInit ==
  ASSUME G!Init
  PROVE  RandomInv
<1>1. PICK k \in Knobs : gen = G!SetBase(G!NewGen(k[1], k[2]))  BY DEF G!Init
<1>2. k[1] \in Density /\ k[2] \in Density  BY RandomAssumption DEF Density
<1>3. GenInv(gen)  BY <1>1, <1>2, SetBaseKeeps
<1>4. stage = "seed" /\ step = 0 /\ val = [r \in G!Regs |-> 0 - 1]
  BY DEF G!Init, G!Unknown
<1> QED BY <1>3, <1>4 DEF RandomInv

(* RandomSound: the programs gen_random_prog.py writes access their scratch *)
(* only, along every path, are never rejected by its own check, and keep   *)
(* the dependencies apart that a knob forbids: for every pool of registers, *)
(* length of the body, size of scratch, and set of branch distances.       *)
THEOREM RandomSound == ToolsSpec => []RandomProgramsSound
<1> DEFINE Inv == program = "random" => RandomInv
<1>1. ToolsInit => Inv  BY RandomInit DEF ToolsInit
<1>2. Inv /\ [ToolsNext]_toolsVars => Inv'
  <2> SUFFICES ASSUME Inv, [ToolsNext]_toolsVars, program' = "random"
               PROVE  RandomInv'
    OBVIOUS
  <2>1. CASE RandomNext  BY <2>1, RandomStep DEF RandomNext
  <2>2. CASE UNCHANGED <<program, randomVars>>
    <3>1. program = "random" /\ RandomInv  BY <2>2
    <3>2. gen' = gen /\ stage' = stage /\ step' = step /\ pc' = pc /\ val' = val
      BY <2>2 DEF randomVars
    <3>3. (G!Regs)' = G!Regs /\ GenInv(gen') /\ (PathInv => PathInv')
      BY <3>1, <3>2 DEF RandomInv, PathInv, G!Regs
    <3> QED BY <3>1, <3>2, <3>3 DEF RandomInv
  <2>3. [ToolsNext]_toolsVars => RandomNext \/ UNCHANGED <<program, randomVars>>
    BY DEF ToolsNext, MutationNext, FormalNext, RegressNext, toolsVars
  <2> QED BY <2>1, <2>2, <2>3
<1>3. Inv => RandomProgramsSound  BY RandomHolds DEF RandomProgramsSound
<1> QED BY <1>1, <1>2, <1>3, PTL DEF ToolsSpec
=============================================================================
