# Verification of the heretic-coder pipeline

TLA+ specifications of the pipeline that abliterates and fine-tunes coding
models on rented GPUs, with the TLC runs that check them on small instances and
the TLAPS proofs that hold for every instance. `PROJECT.json` maps every
definition to the lines it stands for and lists the runs, the mutants that show
each property can fail, the hazards and the findings.

1. [The system](#1-the-system)
2. [The modules](#2-the-modules)
3. [The runs](#3-the-runs)
4. [The proofs](#4-the-proofs)
5. [Where code and documents disagree](#5-where-code-and-documents-disagree)
6. [What is not modelled](#6-what-is-not-modelled)
7. [Plan](#7-plan)

## 1. The system

A *stage* turns one model into another: stage 1 abliterates (heretic), stage 2
is supervised fine-tuning, stage 3 ORPO, stage 4 rejection fine-tuning, stage 5
RLVR; *frontier* does three of these to one 480B model. Every stage has a
controller that runs on the user's machine and a script that runs on a rented
GPU box.

| Component | State it keeps | Operations | Talks to |
|---|---|---|---|
| Controller (`stageN/controller.py`) | `instance`, `verdict` of `main()` | provision, deploy and launch, poll, pull the log, stop | vast.ai API, SSH |
| Provisioning (`shared/vast_provision.py`, `vast_ops.py`) | a flock; the label on a contract | find, start, rent, label, wait for boot | vast.ai API |
| Transport (`shared/ssh_utils.py`, `poll.py`) | none | run a command with retries, copy, poll `status.json` | the box |
| Status file (`shared/status.py`) | `status.json`, replaced atomically | write, read | script writes, controller reads |
| Scripts (`stageN/remote/run_stageN.py`, `frontier/remote/run_frontier.py`) | the status object, exports and data under fixed names on the box's disk, the Hugging Face repo | prepare, train, export, evaluate, record the verdict, publish | training libraries, the hub |
| Data preparation (`stageN/dataprep`, `stage5`'s `prepare_data`, `shared/dataprep`) | a data file under a fixed name | collect and validate the sources, drop what SWE-bench Verified has, write the file | the scripts, the datasets |
| Benchmarks (`shared/eval`, `stage1`'s evaluation, `eval_only`) | the models in GPU memory, scores, slates of candidate patches | load, generate, score, free, report | the scripts, the SWE-bench harness |
| Gates (`shared/verdict.py`, `stage1/verdict.py`) | metrics | compute_verdict, target_gaps, model card | the scripts |
| Execution sandbox (`shared/exec_sandbox.py`) | one child process per call | run a solution against tests within a time limit | stages 4 and 5 |
| Reward (`stage5/remote/reward.py`) | none | reward for each completion | the sandbox |
| Pipeline (`pipeline/runner.py`) | exit codes, the repo to go on from | run the controllers one after the other | controllers by exit code, repos by name |
| Training and loading of models, monitoring, prompt formats | | | see section 6 |

What is hard here, none of it reached by the repository's unit tests, which
replace vast.ai, SSH and the libraries by mocks and run one handler at a time:

* **Overlap.** Runs of one stage share a label and so a box, a tmux session of
  fixed name, and a `status.json`. The lock covers provisioning only.
* **Partial failure.** Creating a contract and labelling it are two calls; a
  publish may fail after the verdict was recorded, or be reported as failed
  after the upload was committed; stopping the box may fail.
* **Crashes.** A killed controller runs no `finally`; a killed script writes no
  last status; either meets the next run.
* **Retries.** A command whose answer is lost is sent again, the launch too.
* **Stale state.** `status.json`, exports, heretic's log, and the repo of an
  earlier run are all still there, under the names the next run uses; so is
  the data file, whole or torn.
* **Limits.** The GPUs hold one of these models, and an evaluation loads up to
  five, one after the other, in a process where any call may raise.
* **Nothing to measure.** A dataset with a renamed column yields no row, and a
  benchmark with no rows a score of 0, the worst of a floor and the best of a
  ceiling.
* **Untrusted reports.** The sandbox's verdict comes over the stdout that the
  solution prints to.
* **Unbounded waiting.** The poll loop ends only on a DONE status.

What makes each component correct:

* controller: no instance bills without an owner; exit 0 only for a PASS; it
  ends, or polls a box that has nothing left to say; no script lives on without
  a run that answers for it;
* provisioning: at most one contract per label;
* scripts: weights reach the repo only after an evaluation of those very
  weights passed; a status names the repo only when the weights are in it; DONE
  is written once, with a verdict, and in the end unless the script dies or an
  exception goes past its `except` clauses (in stage 1 that is more than a failed
  status write); a round or step goes on from what this run produced;
* data: a model is trained on the file its own run built, complete; the rows
  of SWE-bench Verified among it are those whose keys give nothing away, or that
  this very run was told to accept;
* evaluation: never two models on the GPUs; an evaluation that broke anywhere is
  an error and no verdict; an empty benchmark of ability lets nobody through;
* gate: better scores never fail a model that passed, through whatever delta or
  comparator they go; the gate never asks more than the targets;
* sandbox: of a solution that prints no sentinel line, a pass means that the
  suite holds, or that its body failed behind functions that do; a late answer
  is no pass; the call returns or raises;
* reward: reports of a full pass come out on top; well-formed text that is given
  -1.0 passed the visible tests, and if it satisfies the hidden ones there is
  something else to blame in that run;
* pipeline: nothing runs behind a failed gate; what is published went through
  all stages.

## 2. The modules

Abstract specifications:

* `JobContract`: the life of `status.json` on a box. Both sides are shown to
  implement it: the controllers' view of a box (`StageController`,
  `BoxesKeepContract`) and each script (`StageScript`, `KeepsPromises`). This
  is what ties the two halves of the model together: a controller is modelled
  against a script it sees only through the contract, and every script is shown
  to keep it.
* `GatedRelease`: what a stage promises about its repo. Implemented by every
  script (`KeepsPromises`).
* `TestOracle`: what `run_tests()` promises stage 4's filter and stage 5's
  reward, which use it as "the pass/fail oracle": one answer to each question, a
  pass or a failure only where solution and suite account for it, and `broken`
  for trouble with the sandbox, a raise included. A solution that `speaks`
  (prints sentinel lines) accounts for any answer. Implemented by the sandbox
  wherever the reward calls it (`AnswersAsOracle`).

The first two also say what a reader of `status.json` or of the repo may
conclude from them (`DoneHasVerdict`, `StatusStands`; `OnlyPassesLeave`,
`JudgedOnce`); section 4 derives these once from the abstract specification and
carries them over to every script and to the controllers.

Detailed modules:

* `StageController`: any number of runs of one stage's controller, the vast.ai
  contracts, and the boxes. `pc[c]` is the place of run `c` in `main()`:
  `find`, `create`, `label`, `boot`, `start`, `check` are inside `provision()`
  (which holds the flock), `deploy`, `launch`, `poll`, `pull`, `stop` are behind
  it; `returned`, `unstopped`, `gaveup`, `killed` are the four ways to end.
  `held[c]` is `instance` in `main()`, `cand[c]` the contract `provision()` is
  working on and has not returned: the difference between the two is where
  billing can leak. Steps are cut at the vast.ai calls and at the SSH commands
  that read or change the box. `job`, `wrote`, `disk` are the box: whose script
  is alive in tmux, whether it has written yet, what `status.json` says.
* `StageScript`: what all scripts share: `update_status()` (`Saves`: the fields
  are set in memory, then the file is replaced or the write raises), `fail()`,
  and the tail of `main()` from the verdict through `publish()` to DONE. A step
  that fails goes to `fail()` (`Raises`), or past every `except` (`Escapes`). Runs
  follow one another on one box; weights are named by the run that made them.
  A stage's module EXTENDS it:
  * `DataPrep`: build() of stages 2 and 3, which collects every source before
    it opens the file, prepare_data() of stage 5, which opens it first, and the
    decontamination guard. A row is where it comes from, whose repository it is
    about and which keys it carries; `file` says who wrote the data file last,
    its rows, and whether it is whole.
  * `TrainRun` EXTENDS `DataPrep`: stages 2, 3, 5. `model` is the run that trained
    the model in memory; `trained`, a history variable, is the data file just as
    the trainer read it, whoever wrote it and whole or not.
  * `AbliterationRun`: stage 1, with heretic's log, which is appended to. An
    entry of `log` is what one run printed: the highest and the last KL that can
    be read in it, if any, and whether the model was left as it was. `Views` are
    what the last 400,000 characters may show of it: some of the last outputs,
    the first of them perhaps cut;
  * `RftRun`: stage 4, whose weights carry how many rounds they went through;
  * `FrontierRun`: the selectable steps and their directories.
* `Pipeline`: the runner over repeated runs, each controller seen through its
  exit code and its repo, with the lineage of the weights in every repo.
* `EvaluationGate`: metrics, the two gates and the targets.
* `EvaluationRun` EXTENDS it: one evaluation, of any of three kinds: the
  subprocess `run_evals.py` of stages 2 to 5, stage 1's own sequence, and
  `eval_only`, which measures and has no gate. `Calls` is the sequence of the
  benchmark calls, `at` the one under way; `gpu` holds each model with the call
  that loaded it, so that a model some call left behind is told from its own. A
  call may find its dataset empty, may raise while it loads, generates or waits
  for the harness, and the subprocess may die, also after it has printed its
  metrics.
* `ExecSandbox`: the child (solution, test body, test functions, report) and
  the parent (wait, kill, parse) of `run_tests()`. `line` is the verdict in the
  last sentinel line on stdout: the harness prints one (`Emit`), which is not
  found behind a print that did not end its line, and a solution that `speaks`
  may print any at any time (`Speak`). `result` is what `run_tests()` returns, or
  `Raised`: the child could not be started, its output could not be decoded, or
  the verdict is no object of counts.
* `CodeReward`: EXTENDS it with the reward of one completion, over one or two
  sandbox runs. Rewards are integers in thirtieths; a call that raises, in
  `ast.parse` or in `run_tests()`, has none. `Absent` stands for Python's None in
  these two modules.
* `MCTrainRun`, `MCEvaluationRun`, `MCCodeReward`: the rows, the scores next to
  every limit, and the suites and claims, for TLC.
* `StageControllerProofs`, `TrainRunProofs`, `AbliterationRunProofs`,
  `RftRunProofs`, `FrontierRunProofs`, `PipelineProofs`: theorems and proofs
  about the module of that name. `ScoringProofs`: those about `EvaluationRun` and
  about `CodeReward` with `ExecSandbox`. `StageScriptProofs` has the lemmas the
  four proofs about scripts share, and what follows from the two abstract
  specifications.

Definitions marked `Mutant` are plausible mistakes in the definition that
follows them. No specification uses them; each serves to show that some
property would notice.

### Faults

`Faults` is a constant of the controller, script and pipeline modules, so a run
says which faults it allows: in `StageController` `api` (a vast.ai call raises),
`ssh` (an SSH command raises, or its answer is lost), `stop` (the stop call
raises), `kill` (the controller), `die` (the script, without a last write),
`preempt` (the host takes the box); in the scripts `step` (a library call
raises), `hub` (a publish call raises, perhaps after the upload was committed),
`disk` (a status write raises), `die`; in `Pipeline` `unpublished` (a controller
exits 0 and its stage published nothing) and `orphan` (its script outlives it).
The sandbox has no such constant: a child that dies, hangs or misreports is its
ordinary behaviour.

### Fairness

Safety needs none. For liveness, `StageController` assumes that a run that has
begun goes on (every SSH and API call has a time limit or returns, and a poll
that can read the box does) and that a script that is alive goes on; nothing is
assumed of faults, of a boot, or of anyone starting a new run. The scripts
assume that a running script goes on: every library call, upload and subprocess
returns or raises. `EvaluationRun` and `Pipeline` claim safety only and assume
nothing. The sandbox assumes that time passes and that the parent reacts, and
nothing at all of the child, which runs code the model wrote; the reward assumes
the same and that the process that computes it goes on.

## 3. The runs

Every pass run enumerates its instance completely. `CHECK_DEADLOCK FALSE` is set
everywhere because the system really stops: runs are bounded, controllers,
scripts and child processes end.

| Run | Question | Bounds |
|---|---|---|
| `ControllerOverlap` | lock and label, billing, live scripts, exit code, `JobContract`, endless waits | 2 overlapping controllers, 2 contracts, all faults, 2 tries of each loop |
| `TrainFaults` | whose data it trains on, what leaks; release, `JobContract`, DONE | 3 runs of one of the three scripts on a box, a wired and an unwired mode, 5 kinds of rows, every choice of sources, all faults |
| `AbliterationFaults` | the same, and the tripwire | 3 runs, and the end of the log shows at most the outputs of 2, the first perhaps cut |
| `RftFaults` | the same, and the rounds | 3 runs, each of 0 to 3 rounds |
| `FrontierFaults` | the same, and the steps | 2 runs, every selection of steps in each |
| `PipelineFaults` | lineage of the repos; failed gates; success | 4 stages, 3 runs, all faults |
| `GateDecides` | models on the GPUs, broken and empty evaluations, comparators and deltas, targets | each kind of evaluation, 1 or 2 slates, the scores at and next to every limit and target |
| `RewardTiers` | what a sandbox verdict means, `TestOracle`, every call ends, ranking and punishment | 6 suites of 0 to 10 functions and one function of the solution's own, 6 choices of which return, 3 claims, 2 ticks, one or two runs |

The four runs that are expected to fail are in section 5.

Why the bounds are enough to be interesting: two controllers suffice for every
race over a box, since the state they share is one lock, one label and one box
at a time, and the proofs of section 4 hold for any number. Two runs of a script
are the least in which anything stale can be met; every stale value the code
reads is the last one written, except heretic's log and the directories named
after rounds, and there are three runs of those. Three rounds have a first, a
middle and a last. The rows of `MCTrainRun` are one that every key of the guard
catches, one that only its repository and one that only its id gives away, a row
of another repository, and one of a source the guard does not look at. The
scores of `MCEvaluationRun` are the values at, below and above the limits of the
gate and the targets: no comparison of the gate tells any other values apart.
The second slate is the first that must not count. The suites of `MCCodeReward`
are plain asserts that hold or fail, one function reached or not, two of which
the body reaches one, and ten: nine of ten passed is the best answer short of a
full pass that a reward could put above one (27 thirtieths and a bonus of 3 reach
30). Its claims are an ordinary pass, more passes than tests without having
compiled and with a time below zero, and nothing tested. Test functions are
called in the order of the namespace, so in one order, and which of them return
is chosen beforehand. What stage 1's log shows rests on two facts of heretic and
the window: a run's own menu is within the last 400,000 characters, and it lists
the trial with the highest KL. Loop counters (`tries`) are
bounded by the loops of the code. The number of runs is capped (`MaxRuns`), as
are the rounds (`MaxRounds`), the outputs the log window reaches back to
(`Window`), in the sandbox the ticks before the time limit (`Timeout`), and in
`EvaluationRun` the slates (`MaxSamples`).

The type invariants of the other modules are proved (section 4) and not run
again; that of `StageController` is run too.

Two liveness properties name the way out that the code leaves open.
`EndsOrPollsInVain`: every run of a controller ends, or reaches the poll loop
while nothing on the box can write DONE any more. `ReachesDone`: every run of a
script records DONE, unless it was killed or something raised outside every `try`
(`cut`: a status write, and in stage 1 also what `HereticError` does not cover
and the reading of the log for the tripwire); such a script is exactly what the
poll loop then waits for.

`ScriptsOwned` is what remains true of "a run's script ends with the run" once
controllers may be killed and stop calls may fail. `SuccessIsThisRuns` assumes
that every stage that passed published in this run (`published`); without it the
claim is false (section 5).

## 4. The proofs

Every detailed module has its type invariant, the safety properties its run
checks, and its refinements proved, for all values of the constants. The pattern
is the same everywhere: a theorem `Invariance` (`Spec => []IInv`) from
`Init => IInv` and `IInv /\ [Next]_vars => IInv'`, with one lemma per action or
group of actions that disturb the same conjuncts, and the properties as
consequences of `IInv`.

### Controllers

`StageControllerProofs` proves, for any finite or infinite sets of controller
runs and contracts, any set of faults, overlapping or not, and any loop bounds:

| Theorem | Statement |
|---|---|
| `Invariance` | `Spec => []IInv` |
| `TypeCorrect` | `Spec => []TypeOK` |
| `LabelUnique` | `Spec => []OneLabelled` |
| `UnlabelledExplained` | `Spec => []UnlabelledAccounted` |
| `BillingExplained` | `Spec => []BillingAccounted` |
| `ScriptsExplained` | `Spec => []ScriptsOwned` |
| `ZeroExplained` | `Spec => []ZeroNeedsFinishedPass` |
| `ImplementsContract` | `Spec => BoxesKeepContract` |
| `VerdictsStand` | on every box DONE has a verdict, and neither changes until another script writes |
| `FreshBoxVerdictIsOwn` | on a box no other run was given, exit 0 is the run's own verdict |
| `OnlyProvisionLeaks` | no `kill`, no `stop` fault: an instance that is up belongs to a run at work, or `provision()` gave it up |
| `SequentialRunsAreAlone` | the same, and no overlap: the script alive on any box is that of the run at work |

The only assumption is `ConstantsAssumption` of `StageController`: `None` is not
a run, a contract or a verdict, and the loop bounds are positive.

None of the five safety properties is inductive. `OneLabelled` needs to know
that whoever is about to label found no label (`HandInv`), and that stays true
only because nobody else can label meanwhile, which needs the lock to be held by
exactly the run inside `provision()` (`LockInv`). `BillingAccounted` needs what
each run has in hand by phase (`HandInv`). `ZeroNeedsFinishedPass` needs that a
status file that says DONE and PASS was written by a script some run given this
box had launched (`PassInv`), however long ago, and `ScriptsOwned` that the box
a run stops is the one its script is on (`PassInv` again). `IInv` is their
conjunction with the properties themselves. The proof has one lemma per part of
`IInv` (`TypeStep`, `LockStep`, `HandStep`, ...), each assuming only the parts it
needs, with one step per action. The refinement proof (`ContractStep`) maps each
action to an action of `JobContract` on the one box it touches or to a stutter,
from `TypeOK`, `HandInv` and `PassInv`.

The last three theorems say under which conditions more than that holds, where
section 5 refutes the README's sentences: a box no other run was given is enough
for half of "Exit 0 iff the stage verdict is PASS" (an exit 0 is the run's own
PASS); without killed controllers and failed stop calls, "always stops the
instance" fails in `provision()` only; and with one run at a time besides, a
launch meets no session but the one its own first attempt left. The conditions
of the last two are on the constants `Faults` and `Overlap`, and the faults they
leave (`api`, `ssh`, `die`, `preempt`) still happen. They rest on
`FaultsInv`, a second inductive invariant: a run ends as killed or unstopped only
where that fault may happen, and runs that do not overlap are at work one at a
time.

### Scripts

`ScriptInv` of `StageScriptProofs` is what the common part keeps whatever the
steps of a stage are: `StatusInv` ties the status object and its file to the
place in `main()`, `Explained` follows a PASS that is not published until its
error is written, `Released` orders the judging, the upload and the announcement
of one run's weights. Each lemma there is about one operation (a write that may
raise, a step that raises, the evaluation, the upload, ...) and concludes
`Keeps`: `ScriptInv` in the next state, a step or stutter of `JobContract`, and
one of `GatedRelease`. The premises on names (`EndSteps`) keep a script's own
steps apart from the common ones.

Each script's `IInv` is `ScriptInv` with what every step knows of the weights and
files (`LineageInv`, `RoundInv`): without it, `AnnouncedIsReleased` and the
refinement of `GatedRelease` fail, since nothing would say that the directory
`publish()` uploads holds what was evaluated. The lemma `Quiet` of each module
covers the steps that leave the weights alone.

| Module | Theorems | Assumptions |
|---|---|---|
| `TrainRunProofs` | `TypeCorrect`, `PassExplained` (`UnpublishedPassExplained`), `AnnouncementsHold` (`AnnouncedIsReleased`), `OwnDataOnly` (`TrainsOnOwnBuild`), `LeaksAreExplained` (`LeaksExplained`), `ImplementsPromises` (`KeepsPromises`) | `ScriptAssumption`, `RowsAssumption`, `ModesAssumption` |
| `AbliterationRunProofs` | `TypeCorrect`, `HiddenNoOpsOnly` (`NoOpsEvaluatedOnlyWhenHidden`), `TripsOnNoOpsOnly` (`OnlyNoOpsTripped`), `ImplementsPromises` | `ScriptAssumption`, `WindowAssumption` |
| `RftRunProofs` | `TypeCorrect`, `RoundsChain` (`RoundsBuildOnEachOther`), `AllRoundsAreEvaluated` (`EvaluatesAllRounds`), `ImplementsPromises` | `ScriptAssumption`, `RoundsAssumption` |
| `FrontierRunProofs` | `TypeCorrect`, `LastStepIsEvaluated` (`EvaluatesLastStep`), `ImplementsPromises` | `ScriptAssumption`, `SelectionsAssumption` |

`ScriptAssumption`: `None` is no number and no verdict, there is at least one
run, and the faults are among those named. The others say what the constants
range over: rows have the fields the guard reads, `distill` is a mode, the log
window reaches at least one output, the number of rounds is natural, and the
selections are those the frontier script tells apart. So the proofs hold for any
datasets, any reach of the log, any number of runs and rounds.

Each of the four also has `PromisesAreUsable`: whatever its repo holds or is said
to hold passed, what the gate said stands, DONE has a verdict, and neither
changes before the next run writes. Nothing about the script goes into it but
`ImplementsPromises`: `ContractConclusions` and `ReleaseConclusions` of
`StageScriptProofs` derive it from `JobContract` and `GatedRelease`, so whoever
reads `status.json` or the repo need not know which script wrote it.

* `TrainRun`: `DataInv` adds that from the end of the writing until the training
  the file is this run's and whole, which `WriteRaises` and `DiesAnywhere` keep
  by leaving those steps, and `OpenFile` by replacing whatever was there.
* `AbliterationRun`: `LogInv` orders the outputs in the log by run; `JudgedInv`
  carries `Hidden(w)` from the tripwire, where a no-op got past, to the end,
  through every later output appended behind it. `EntryReadings` and `ViewShows`
  say what any view can show, whichever part of the log it is.
* `RftRun`: `RoundInv` says for every step which file holds the weights after
  how many rounds.
* `FrontierRun`: `LastTarget` and `AfterHeretic` say what `eval_target` names.

### Pipeline

`PipelineProofs` (`TypeCorrect`, `NoStageIsSkipped`, `FailureStops`,
`SuccessIsOfThisRun`, from `PipelineAssumption`) for any number of stages and
runs. `RepoWentThroughAllStages` is inductive only with the same of the scripts
that outlive their controllers and publish later (`Lineages`), and
`SuccessIsThisRuns` only with `Chain`: a stage that published in this run has no
orphan left that could write over it, and the repos behind it are this run's up
to there.

### Evaluation

The first half of `ScoringProofs`, from `EvaluationAssumption` (scores are
between 0 and 100, at least one slate), for any scores, so also for those between
the values TLC tries. `OneModelAtATime` (`FitsTheGpus`) needs `Residency`, which
says for each step whose model is there; `VerdictsAreComplete` (`BrokenIsError`)
needs `CallsAnswered` (every call before `at` has stored a number) and
`SlatesCounted`; `EmptyIsRefused` (`EmptyNeverPasses`) that the score an empty
benchmark left is never written over (`EmptyScored`). `DominatingPasses` is about
any two candidates: one that passed, and one that is `NowhereWorse` in what the
gate of that stage asks. Its lemmas take the verdict apart into comparisons of
single scores (`CapabilityPass`, `AbliterationPass`). `PassingIsMonotone`
(`BetterStillPasses`), which the run checks with one score moved at a time,
follows from it; `TargetsSuffice` (`TargetsMetPass`) rests on the same lemmas.

### Sandbox and reward

The second half of `ScoringProofs`, from `SandboxAssumption` (the test functions
of suite and solution are finitely many and apart, a claim has the fields of a
verdict, None and a raise are no results, `timeout_s` is positive) and
`RewardAssumption` (None is no number), for any suites, any test functions, any
claims of the solution and any time limit.

| Theorem | Statement |
|---|---|
| `RewardInvariance` | `RewardSpec => []RewardInv` |
| `RewardTypeCorrect` | `RewardSpec => []RewardTypeOK` |
| `PassesAreExplained`, `FailuresAreExplained`, `LatenessNeverPasses` | `PassExplained`, `FailExplained`, `LateIsNoPass` |
| `ImplementsOracle` | `RewardSpec => AnswersAsOracle` |
| `TiersRankPasses` | of any counts and time, possible or not: at least 39 thirtieths if and only if it compiled and all passed |
| `BetterEarnsNoLess` | of any two results of the same tests: more passes and no more time never earn less |
| `FullPassesRankFirst`, `PunishmentIsDeserved` | `PassingOutranks`, `PunishmentExplained` |

What `run_tests()` returns says something of the suite only because of what the
child did steps earlier, so `RewardInv` follows the evidence: `ChildInv` (what
has been collected by then), `CountInv` (all the functions called so far
returned just when the count is their number: this is where cardinalities of
finite sets come in), `LineInv` and `ResultInv` (the report, and the result, are
accounted for by the suite, or by a solution that speaks; nothing else is known
of a report, not even that its counts are possible). The child may end or speak
at any of these steps, and be killed when its time is up. `PunishmentExplained`
needs this evidence of the hidden run too, next to the ranking that shows every
other reward positive. `RewardedFor` ties the reward to the one or two results
it was given for. The refinement follows from these and from the result being
written once per run: `Ask` of `TestOracle` is the start of the hidden tests,
which brings a suite of its own.

The ranking is arithmetic about `(30 * passed) \div total` and the bonus, by the
defining inequalities of a quotient (`Quotient`): a pass rate short of 1.0 is at
most 29 thirtieths (`PassRate`, `RateRanks`), the bonus is between 0 and 3
(`BonusIsSmall`), and a quotient grows with its numerator (`QuotientMonotone`).

### Not proved

Liveness (`EndsOrPollsInVain`, `ReachesDone`, `AlwaysAnswered`), which is beyond
the prover and rests on TLC alone. The four properties of section 5 are false.

## 5. Where code and documents disagree

Four are runs that TLC finds violated, of a sentence the repository says of
itself; `PROJECT.json` quotes it. The property that holds says the same with the
exceptions spelled out.

| Run | What happens | What holds |
|---|---|---|
| `ControllerBillingLeak` (`AlwaysStopsTheInstance`) | a contract that does not boot in time is left up: `provision()` raised, so `instance` is None and `finally` stops nothing | `BillingAccounted` |
| `ControllerSshDrop` (`SshDropKeepsJob`) | the launch is retried after a lost answer, tmux refuses the duplicate, the box is stopped under the healthy script | `BoxesKeepContract` |
| `ControllerStaleVerdict` (`ZeroMeansOwnPass`) | the first poll reads the PASS of an earlier run | `ZeroNeedsFinishedPass` |
| `AbliterationHiddenNoOp` (`NoOpsNeverEvaluated`) | an earlier run's KL in the appended log hides a no-op | `NoOpsEvaluatedOnlyWhenHidden` |

Others met while reading, which no run isolates; where a checked property has
to leave room for one, it says so:

* `shared/poll.py:12` polls without a bound, so a killed script keeps its
  controller waiting (the second alternative of `EndsOrPollsInVain`); the stage 1
  design document promises a wall-clock ceiling.
* `pipeline/runner.py:44` goes on from a repo by name after exit code 0, which a
  PASS whose publish failed also gives (the premise of `SuccessIsThisRuns`);
  `pipeline/config.py:30` has each stage's output feed the next.
* `shared/exec_sandbox.py:76` forgets that the test body failed once any
  `test_*` function was collected (the second alternative of `PassExplained`),
  though `run_tests` is called the pass/fail oracle.
* `shared/exec_sandbox.py:34` says that prints of the solution "can't be mistaken
  for the result" since the last sentinel line is taken (`:127`); solution and
  harness share a process and its stdout, so the last sentinel line may be the
  solution's (the alternative `speaks` of `PassExplained` and `FailExplained`).
  A print that does not end its line hides the harness's own report.
* `shared/exec_sandbox.py:155` catches `TimeoutExpired` only: output that is not
  UTF-8 raises there, and a sentinel line with JSON that is no object of counts at
  `:174-179`; `stage5/remote/reward.py:118` catches `SyntaxError` only, where
  `ast.parse` may also raise `ValueError` and `RecursionError`. Each ends the
  trainer's call without a reward (phase `raised`; `AlwaysAnswered` counts it as
  an end).
* `stage5/remote/reward.py:141` takes a hidden run that timed out or left no
  report for a failure of the hidden tests and gives -1.0, "punish
  hardcoded/overfit returns" (the alternatives of `PunishmentExplained`).
* `shared/exec_sandbox.py:163` reports `compiled=False` on any timeout, also for
  a solution that had been imported.
* `shared/exec_sandbox.py:79` measures the time before the test functions are
  called, so slow solutions get the whole bonus for speed.
* `stage1/remote/run_stage1.py:214` catches `HereticError` only: an error of the
  log file (`:153`), one of pexpect's `close()` (`:168`, `:172`, `:175`), and those
  of reading the log and its KLs (`:222-223`) end `main()` with no DONE
  (`Escapes`; the exception `cut` of `ReachesDone`).
* `stage1/remote/run_stage1.py:224` lets a run through in whose log no KL can be
  read, as `stage1/tests/test_run_stage1.py` expects (the first alternative of
  `NoOpsEvaluatedOnlyWhenHidden`); on a reused box an earlier run's KL is then
  read for it, in either direction (`OnlyNoOpsTripped`).
* `stage1/remote/run_stage1.py:259` looks up the selected trial's KL among the
  menus of every run still in the log.
* `frontier/remote/run_frontier.py:145` hands heretic's export to nobody when SFT
  follows: the SFT starts from the model its YAML names (`EvaluatesLastStep`
  asks only for the steps from SFT on).
* `shared/verdict.py:13` passes exactly 0.85 and 0.40, where the README's table
  has `> 0.85` and `> 0.40`.
* `shared/eval/run_evals.py:21` reports 1.0 for SWE-bench when it was not run,
  and the model card has it in its table.
* `shared/eval/refusal.py:20` answers 0.0 for an empty list of prompts, which
  passes the refusal ceiling; the same 0.0 of `bfcl` and `swebench` fails their
  floors (the exception in `EmptyNeverPasses`).
* `shared/eval/swebench.py:121` frees each model because the GPUs "cannot hold
  two 120B models at once", while `stage2/remote/run_stage2.py:152` keeps the
  trained model in `main()`'s locals until the evaluation subprocess has ended
  (`FitsTheGpus` is about the evaluation process alone).
* `shared/eval/_model.py:126` decodes with `skip_special_tokens=True`, and
  `shared/harmony.py:10` looks for `<|channel|>final<|message|>` in the result:
  if the tokenizer counts these as special, no marker is ever found and the
  analysis channel is scored with the answer, which the comment at
  `shared/eval/refusal.py:25` excludes. A reply cut off inside its analysis (128
  tokens) is scored whole in any case.
* `shared/eval/swebench.py:31` lets `SWE_EVAL_DATASET` name SWE-rebench, of which
  `stage2/dataprep/sources/nebius.py` trains on trajectories; the guard compares
  with SWE-bench Verified only.
* `CHEAP_EVAL` (`README.md:112`: "runs a reduced subset during dev") is handed to
  the evaluation by every script and read by nothing there.
* `stage5/remote/reward.py:78` says that the efficiency bonus is not implemented;
  `:130` implements it. `hidden_tests`, which the holdout reads, is a column that
  stage 5's `prepare_data` never writes.

## 6. What is not modelled

* Training and loading (`shared/train_common.py`, `sft_train.py`,
  `orpo_train.py`, `rlvr_train.py`): calls into training libraries with chosen
  parameters, one step of the scripts that succeeds or raises. What they leave on
  the GPU is up to those libraries.
* Of data preparation, the schemas, the corruptions that make stage 3's rejected
  answers, and compression: functions from row to row. The frontier's build is
  one step.
* Of the benchmarks, the generation and scoring of text: a score is chosen from
  what it may be.
* Text: prompts, chat formats, harmony channels, the extraction of code, the
  wording of logs, the model card.
* The webhook (3 seconds at most, its exceptions swallowed) and the Drive copy:
  best effort, no state depends on them.
* The transfers of `ssh_utils` before the launch, each tried a bounded number of
  times: all of them are one action of the controller, which succeeds or raises.
  The code itself has no versions in the model, so nothing is said of what a
  script does that another run left alive there while new files are unpacked over
  its own (`ScriptsOwned` says only whose script that can be).
* In `ExecSandbox`, code that escapes its limits or its process group, and the
  backends that are not implemented.
* Whether a trainer refuses an empty data file (`stage4/remote/run_stage4.py:163`
  trains on whatever passed): in `RftRun` training succeeds or raises.
* The vast.ai contract is never destroyed by anyone in this code, so it is not
  in the model.

## 7. Plan

Written so far, in this order: `JobContract`, `StageController` and its proofs;
`GatedRelease`, `StageScript` and the scripts; `Pipeline`; `EvaluationGate`;
`ExecSandbox` and `CodeReward`; `EvaluationRun`; `DataPrep`; the proofs about the
scripts, the pipeline and the evaluation; `TestOracle` and the proofs about the
sandbox and the reward; what follows from the abstract specifications, and what
the controllers guarantee under conditions.

Left, in order of importance:

1. **Deployment**: the transfers of `ssh_utils` (`send_dir` unpacks a directory
   over what is there, file by file, on a box where a script of an earlier run may
   still be starting processes from it) as actions of their own, composed with
   `StageController`.
2. **GRPO batches**: rewards aligned with completions when the columns the
   trainer forwards are short.
3. **An abstract specification of the pipeline**: stages that succeed in order,
   with `Pipeline` shown to implement it where every stage publishes.
