------------------------------ MODULE CodeReward ------------------------------
(***************************************************************************)
(* stage5/remote/reward.py code_execution_reward(), for one completion:    *)
(* the harmony format gate, the bootstrap without tests, the tiers of the  *)
(* visible tests with the bonus for speed, and the hidden holdout, each    *)
(* suite in a sandbox of its own.                                          *)
(*                                                                         *)
(* Rewards are in thirtieths: 0.1 is 3, a pass rate of 1.0 is 30.          *)
(***************************************************************************)
EXTENDS ExecSandbox

ASSUME RewardAssumption == Absent \notin Int

VARIABLES
  text,      \* the completion: "malformed", "unparsable", "unreadable" or "code"
  tests,     \* what it comes with: "visible" tests, an "oracle" patch, "nothing"
  hidden,    \* are there hidden tests?
  phase,     \* "gate", "visible", "hidden", "done", "raised"
  first,     \* the result of the visible tests
  reward

itemVars == <<text, tests, hidden>>
rewardVars == <<sandboxVars, itemVars, phase, first, reward>>

Texts == {"malformed", "unparsable", "unreadable", "code"}

RewardInit ==
  /\ Idle
  /\ text \in Texts
  /\ tests \in {"visible", "oracle", "nothing"}
  /\ hidden \in BOOLEAN
  /\ phase = "gate" /\ first = Absent /\ reward = Absent

Rewarded(r) == reward' = r /\ phase' = "done"

RaisesOut == phase' = "raised" /\ reward' = reward

(* Everything that is decided without running the code.  Only a SyntaxError *)
(* of ast.parse is caught.                                                  *)
FormatGate ==
  /\ phase = "gate"
  /\ \/ text = "malformed" /\ Rewarded(-30)
     \/ /\ text # "malformed" /\ tests = "oracle"
        /\ \E ratio \in {0, 15, 30} : Rewarded(ratio)
     \/ text # "malformed" /\ tests = "nothing" /\ Rewarded(0)
     \/ text = "unparsable" /\ tests = "visible" /\ Rewarded(0)
     \/ text = "unreadable" /\ tests = "visible" /\ RaisesOut
  /\ UNCHANGED <<sandboxVars, itemVars, first>>

StartVisible ==
  /\ phase = "gate" /\ text = "code" /\ tests = "visible"
  /\ phase' = "visible"
  /\ UNCHANGED <<sandboxVars, itemVars, first, reward>>

InSandbox ==
  /\ phase \in {"visible", "hidden"}
  /\ RunTests
  /\ UNCHANGED <<itemVars, phase, first, reward>>

(* What run_tests raises goes through to the trainer.                       *)
RunRaises ==
  /\ phase \in {"visible", "hidden"} /\ result = Raised
  /\ RaisesOut
  /\ UNCHANGED <<sandboxVars, itemVars, first>>

(* Up to 3 for the time it took, nothing for a time that is no number.      *)
Speed(r) == IF r.elapsed \in 0..Timeout THEN (3 * (Timeout - r.elapsed)) \div Timeout ELSE 0

(* Mutant: the bonus for speed whether or not all tests passed.             *)
BonusForAll(r) == Speed(r)

Bonus(r) == IF Passes(r) THEN Speed(r) ELSE 0

(* min(visible_rate, 1.0)                                                   *)
Rate(r) == IF Passes(r) THEN 30 ELSE IF r.total > 0 THEN (30 * r.passed) \div r.total ELSE 0

(* Tiers: it parses, it compiled, the pass rate, the bonus.                 *)
Tiers(r) == 3 + (IF r.compiled THEN 6 ELSE 0) + Rate(r) + Bonus(r)

(* The second run has a child and a suite of its own.                       *)
ScoreVisible ==
  /\ phase = "visible" /\ Answered
  /\ first' = result
  /\ IF hidden
     THEN /\ phase' = "hidden" /\ reward' = reward
          /\ suite' \in Suites
          /\ child' = "idle" /\ ns' = {} /\ execOk' = TRUE /\ todo' = {} /\ passed' = 0
          /\ clock' = 0 /\ elapsed' = 0 /\ line' = Absent /\ result' = Absent
          /\ UNCHANGED <<own, good, speaks>>
     ELSE /\ Rewarded(Tiers(result))
          /\ UNCHANGED sandboxVars
  /\ UNCHANGED itemVars

(* Mutant: hidden tests that fail punish whatever the visible ones did.     *)
PunishHiddenFailure ==
  /\ phase = "hidden" /\ Answered
  /\ Rewarded(IF ~Passes(result) THEN -30 ELSE Tiers(first))
  /\ UNCHANGED <<sandboxVars, itemVars, first>>

ScoreHidden ==
  /\ phase = "hidden" /\ Answered
  /\ Rewarded(IF Passes(first) /\ ~Passes(result) THEN -30 ELSE Tiers(first))
  /\ UNCHANGED <<sandboxVars, itemVars, first>>

Score == ScoreVisible \/ ScoreHidden \/ RunRaises

RewardNext == FormatGate \/ StartVisible \/ InSandbox \/ Score

RewardSpec == RewardInit /\ [][RewardNext]_rewardVars

FairRewardSpec ==
  /\ RewardSpec
  /\ WF_rewardVars(FormatGate \/ StartVisible \/ Score)
  /\ WF_rewardVars((StartChild \/ Tick \/ KillGroup \/ ReadVerdict) /\ InSandbox)

----------------------------------------------------------------------------
RewardTypeOK ==
  /\ SandboxTypeOK
  /\ phase \in {"gate", "visible", "hidden", "done", "raised"}
  /\ reward # Absent => reward \in -30..42
  /\ phase = "done" <=> reward # Absent

(* The completions GRPO should prefer come out on top: one that compiled    *)
(* and passed all the tests it was run against earns at least 39, and       *)
(* nothing else earns as much, not nine tests of ten passed in no time, nor *)
(* a perfect patch similarity, nor a claim to have passed without having    *)
(* compiled.                                                                *)
PassingOutranks ==
  phase = "done" =>
    (reward >= 39 <=>
       first # Absent /\ Passes(first) /\ first.compiled /\ (hidden => Passes(result)))

(* -1.0 for well-formed text is for code that passes the visible tests and  *)
(* falls short of the hidden ones.  If it satisfies the hidden suite all    *)
(* the same, then that run was late or left no report, a test of its own    *)
(* failed, or it speaks: the holdout takes every run that is no pass for    *)
(* overfit.                                                                 *)
PunishmentExplained ==
  phase = "done" /\ reward < 0 /\ text # "malformed" =>
    /\ hidden /\ Passes(first)
    /\ SuiteHolds => result.timed_out \/ ~result.compiled \/ ~(own \subseteq good) \/ speaks

(* Every call comes back, whatever the code does: no sandbox run can keep   *)
(* the parent waiting ("Deterministic teardown: always kill + reap",        *)
(* exec_sandbox.py).  It may raise instead of returning a reward.           *)
AlwaysAnswered == <>(phase \in {"done", "raised"})
=============================================================================
