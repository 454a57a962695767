----------------------------- MODULE ExecSandbox -----------------------------
(***************************************************************************)
(* shared/exec_sandbox.py run_tests(), which stage 4 filters candidates    *)
(* with and stage 5 rewards them by: a child process that runs the         *)
(* solution and then the tests in one namespace, reports on its stdout,    *)
(* and exits; a parent that waits for it, at most timeout_s.               *)
(*                                                                         *)
(* A suite is a body, which defines test functions and may end early with  *)
(* a failed assertion; a suite without functions is one of plain asserts.  *)
(* A solution may define functions named test_* of its own, and prints to  *)
(* the stdout that the report goes to: anything, and a solution that       *)
(* `speaks` also lines that begin with the sentinel.                       *)
(***************************************************************************)
EXTENDS Integers, FiniteSets

CONSTANTS
  Absent, Raised,
  Tests,       \* test functions a suite may define
  OwnTests,    \* test functions a solution may define
  Suites,      \* the suites
  Goods,       \* which functions may be the ones that return
  Claims,      \* what a solution's own sentinel line may say
  Timeout      \* timeout_s, in ticks of the wall clock

SuiteShapes ==
  {s \in [funcs : SUBSET Tests, reached : SUBSET Tests, body : {"returns", "raises"}] :
     /\ s.reached \subseteq s.funcs
     /\ s.body = "returns" => s.reached = s.funcs}

Outcomes == [passed : Nat, total : Nat, compiled : BOOLEAN, elapsed : Int]

Results ==
  [passed : Nat, total : Nat, compiled : BOOLEAN, elapsed : Int, timed_out : BOOLEAN]

ASSUME SandboxAssumption ==
  /\ IsFiniteSet(Tests) /\ IsFiniteSet(OwnTests) /\ Tests \cap OwnTests = {}
  /\ Suites \subseteq SuiteShapes /\ Goods \subseteq SUBSET (Tests \cup OwnTests)
  /\ Claims \subseteq Outcomes
  /\ Absent # Raised /\ Absent \notin Results /\ Raised \notin Results
  /\ Timeout \in Nat \ {0}

VARIABLES
  child,      \* where the child process is
  suite,      \* the tests
  own,        \* the solution's own test functions
  good,       \* the test functions that would return rather than raise
  speaks,     \* does the solution print sentinel lines of its own?
  ns,         \* the test_* names in the namespace
  execOk,     \* exec_ok
  todo,       \* the functions still to be called
  passed,     \* how many returned
  clock,      \* wall clock since the child was started
  elapsed,    \* execution_time_s as the child measures it
  line,       \* the verdict in the last sentinel line on its stdout, or Absent
  result      \* what run_tests returned, or Raised; Absent while it waits

inputs == <<suite, own, good, speaks>>
runner == <<ns, execOk, todo, passed, elapsed>>
sandboxVars ==
  <<child, suite, own, good, speaks, ns, execOk, todo, passed, clock, elapsed, line, result>>

Outcome(p, t, c, e) == [passed |-> p, total |-> t, compiled |-> c, elapsed |-> e]

(* _result: what run_tests returns.  Negative counts, which it makes 0, are  *)
(* among the Claims as 0.                                                   *)
Result(v, timed_out) ==
  [passed |-> v.passed, total |-> v.total, compiled |-> v.compiled,
   elapsed |-> v.elapsed, timed_out |-> timed_out]

(* pass_rate >= 1.0                                                         *)
Passes(r) == r.total > 0 /\ r.passed >= r.total

Idle ==
  /\ child = "idle"
  /\ suite \in Suites /\ own \in SUBSET OwnTests /\ good \in Goods /\ speaks \in BOOLEAN
  /\ ns = {} /\ execOk = TRUE /\ todo = {} /\ passed = 0
  /\ clock = 0 /\ elapsed = 0 /\ line = Absent /\ result = Absent

(* Popen: the child starts with the solution, or cannot be started.         *)
StartChild ==
  /\ child = "idle"
  /\ \/ child' = "solution" /\ result' = result
     \/ child' = "exited" /\ result' = Raised
  /\ UNCHANGED <<inputs, runner, clock, line>>

Running == child \notin {"idle", "exited"}

(* Where the solution's last print did not end its line, the report is no   *)
(* line of its own and is not found.                                        *)
Emit(v) ==
  /\ line' \in {v, line}
  /\ child' = "reported"

(* A sentinel line of the solution's own, from any of its code, its threads *)
(* and exit handlers included, or the harness's with another content: they  *)
(* share an interpreter.  One that is no JSON is read as no verdict.        *)
Speak ==
  /\ speaks /\ Running
  /\ line' \in Claims \cup {Absent}
  /\ UNCHANGED <<child, inputs, runner, clock, result>>

(* Phase 1.  BaseException is caught: sys.exit() in the solution raises too.*)
ExecSolution ==
  /\ child = "solution"
  /\ \/ /\ child' = "tests"
        /\ ns' = own
        /\ UNCHANGED <<line, execOk, todo, passed, elapsed>>
     \/ /\ Emit(Outcome(0, 1, FALSE, clock))
        /\ UNCHANGED runner
  /\ UNCHANGED <<inputs, clock, result>>

(* Phase 2, up to the collection of the functions and the measurement.      *)
ExecTests ==
  /\ child = "tests"
  /\ ns' = ns \cup suite.reached
  /\ execOk' = (suite.body = "returns")
  /\ todo' = ns'
  /\ passed' = 0
  /\ elapsed' = clock
  /\ child' = "calls"
  /\ UNCHANGED <<inputs, clock, line, result>>

(* In the order of the namespace.                                           *)
CallTest ==
  /\ child = "calls" /\ todo # {}
  /\ LET f == CHOOSE f \in todo : TRUE IN
       /\ todo' = todo \ {f}
       /\ passed' = passed + (IF f \in good THEN 1 ELSE 0)
  /\ UNCHANGED <<child, inputs, ns, execOk, clock, elapsed, line, result>>

(* Mutant: the body counts as one more test, as if it could not fail.       *)
EmitExtra ==
  /\ child = "calls" /\ todo = {}
  /\ Emit(Outcome(passed + 1, IF ns = {} THEN 1 ELSE Cardinality(ns), TRUE, elapsed))
  /\ UNCHANGED <<inputs, runner, clock, result>>

(* Mutant: the body counts in the total only.                               *)
EmitShort ==
  /\ child = "calls" /\ todo = {}
  /\ Emit(Outcome(passed, Cardinality(ns) + 1, TRUE, elapsed))
  /\ UNCHANGED <<inputs, runner, clock, result>>

(* Fractional with functions, else binary.                                  *)
EmitCounts ==
  /\ child = "calls" /\ todo = {}
  /\ Emit(IF ns # {} THEN Outcome(passed, Cardinality(ns), TRUE, elapsed)
          ELSE Outcome(IF execOk THEN 1 ELSE 0, 1, TRUE, elapsed))
  /\ UNCHANGED <<inputs, runner, clock, result>>

(* The end of the child and of whoever shares its stdout, after its report  *)
(* or, by an rlimit or for want of memory, before it.                       *)
ChildExits ==
  /\ Running
  /\ child' = "exited"
  /\ UNCHANGED <<inputs, runner, clock, line, result>>

(* The solution, a test, or what they leave running behind the report.      *)
Tick ==
  /\ Running
  /\ clock < Timeout
  /\ clock' = clock + 1
  /\ UNCHANGED <<child, inputs, runner, line, result>>

(* Mutant: the report of a child that is late all the same.                 *)
ReadLate ==
  /\ Running /\ clock = Timeout /\ result = Absent
  /\ result' = Result(IF line = Absent THEN Outcome(0, 1, FALSE, Timeout) ELSE line, TRUE)
  /\ child' = "exited"
  /\ UNCHANGED <<inputs, runner, clock, line>>

(* Mutant: a child that has reported is not killed.                         *)
KillSilent ==
  /\ Running /\ clock = Timeout /\ result = Absent /\ line = Absent
  /\ result' = Result(Outcome(0, 1, FALSE, Timeout), TRUE)
  /\ child' = "exited"
  /\ UNCHANGED <<inputs, runner, clock, line>>

(* TimeoutExpired: the group is killed and its output thrown away.          *)
KillGroup ==
  /\ Running /\ clock = Timeout /\ result = Absent
  /\ result' = Result(Outcome(0, 1, FALSE, Timeout), TRUE)
  /\ child' = "exited"
  /\ UNCHANGED <<inputs, runner, clock, line>>

(* Mutant: a child that says nothing has failed a test.                     *)
ReadSilenceAsFailure ==
  /\ child = "exited" /\ result = Absent
  /\ result' = Result(IF line = Absent THEN Outcome(0, 1, TRUE, 0) ELSE line, FALSE)
  /\ UNCHANGED <<child, inputs, runner, clock, line>>

(* communicate() returned: _parse_verdict.  It raises if what was printed   *)
(* cannot be decoded, and the conversions after it do if a sentinel line    *)
(* holds JSON that is no object of counts.                                  *)
ReadVerdict ==
  /\ child = "exited" /\ result = Absent
  /\ result' \in {Raised,
                  Result(IF line = Absent THEN Outcome(0, 1, FALSE, 0) ELSE line, FALSE)}
  /\ UNCHANGED <<child, inputs, runner, clock, line>>

Child == ExecSolution \/ ExecTests \/ CallTest \/ EmitCounts \/ Speak \/ ChildExits

RunTests == StartChild \/ Child \/ Tick \/ KillGroup \/ ReadVerdict

----------------------------------------------------------------------------
SandboxTypeOK ==
  /\ child \in {"idle", "solution", "tests", "calls", "reported", "exited"}
  /\ suite \in Suites /\ own \subseteq OwnTests /\ good \in Goods /\ speaks \in BOOLEAN
  /\ todo \subseteq ns /\ ns \subseteq Tests \cup OwnTests
  /\ passed \in 0..Cardinality(ns \ todo)
  /\ elapsed \in 0..clock /\ clock \in 0..Timeout
  /\ line # Absent => line \in Outcomes
  /\ result \in Results \cup {Absent, Raised}

Answered == result \notin {Absent, Raised}

(* Every test of the suite was reached and holds.                           *)
SuiteHolds == suite.body = "returns" /\ suite.funcs \subseteq good

(* What was collected holds although the body of the suite failed, and it   *)
(* may be the solution's own: _RUNNER looks for test_* in the shared        *)
(* namespace and then forgets exec_ok.                                      *)
SuiteMisleads ==
  suite.body = "raises" /\ suite.reached \cup own # {} /\ suite.reached \cup own \subseteq good

(* A pass is a suite that holds, except where functions were collected      *)
(* before the body of the suite failed, or from the solution itself         *)
(* (_RUNNER's `if funcs`), and except for a solution that prints sentinel   *)
(* lines: the last one counts, whoever printed it (_parse_verdict).         *)
PassExplained == Answered /\ Passes(result) => SuiteHolds \/ SuiteMisleads \/ speaks

(* A suite that holds is not reported as failed unless the child was cut    *)
(* short, the solution did not compile or no report was found, a test of    *)
(* the solution's own failed, or it prints sentinel lines.                  *)
FailExplained ==
  Answered /\ ~Passes(result) /\ SuiteHolds =>
    result.timed_out \/ ~result.compiled \/ ~(own \subseteq good) \/ speaks

(* Whatever a child prints, one that had to be killed passes nothing        *)
(* (a report before the deadline whose sender is not gone by then).         *)
LateIsNoPass == Answered /\ result.timed_out => ~Passes(result)

Oracle == INSTANCE TestOracle WITH
  question <- [holds |-> SuiteHolds, misleads |-> SuiteMisleads,
               spoiled |-> ~(own \subseteq good), speaks |-> speaks],
  answer <- IF result = Absent THEN "none"
            ELSE IF result = Raised THEN "broken"
            ELSE IF Passes(result) THEN "pass"
            ELSE IF result.timed_out \/ ~result.compiled THEN "broken" ELSE "fail"

(* run_tests is an oracle to its callers: one answer to each question, and  *)
(* an answer that the solution and the suite account for, however the child *)
(* ends and whether run_tests returns or raises; trouble with the sandbox   *)
(* never passes for the failure of a suite that holds ("the pass/fail       *)
(* oracle", run_tests).                                                     *)
AnswersAsOracle == Oracle!Spec
=============================================================================
