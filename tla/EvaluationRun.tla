---------------------------- MODULE EvaluationRun ----------------------------
(***************************************************************************)
(* One evaluation, from its first benchmark to its verdict: the subprocess *)
(* shared/eval/run_evals.py that stages 2 to 5 start, run_stage1.py's own  *)
(* sequence, and eval_only.py, which has no gate.  Every benchmark loads   *)
(* its model, generates or scores, and frees it; the calls follow one      *)
(* another in one process on the same GPUs.                                *)
(*                                                                         *)
(* A benchmark returns a score in hundredths.  What a reply looks like is  *)
(* left out.                                                               *)
(***************************************************************************)
EXTENDS EvaluationGate, Sequences

CONSTANTS
  None,
  Scores,         \* per benchmark, the scores a model may reach
  MaxSamples      \* bound: SWE_N_SAMPLES

Benchmarks == {"refusal", "bfcl", "humaneval", "swebench", "mmlu", "gsm8k"}

ASSUME EvaluationAssumption ==
  /\ None \notin Int
  /\ None \notin {"pass", "fail", "error", "measured"}
  /\ \A b \in Benchmarks : Scores[b] \subseteq 0..100
  /\ MaxSamples \in Nat \ {0}

VARIABLES
  kind,       \* "capability", "abliteration" or "eval_only"
  check,      \* check_swebench
  samples,    \* N_SAMPLES
  at,         \* the number of the call under way
  step,       \* where in the call, or after the last one, the process is
  gpu,        \* the models in GPU memory, each with the call that loaded it
  scores,     \* what the calls returned, by benchmark and model
  slates,     \* resolved_per_slate
  empty,      \* history: the benchmarks whose dataset had no usable row
  metrics,    \* what the evaluation reports, None before
  verdict     \* the verdict recorded, None before

vars == <<kind, check, samples, at, step, gpu, scores, slates, empty, metrics, verdict>>
caseVars == <<kind, check, samples>>

Job(on, of) == [on |-> on, of |-> of]

(* run_evals.main and humaneval.regression; run_stage1.main and eval_only.  *)
Calls ==
  IF kind = "capability"
  THEN <<Job("candidate", {"refusal"}), Job("candidate", {"bfcl"}),
         Job("base", {"humaneval"}), Job("candidate", {"humaneval"}),
         Job("candidate", {"swebench"})>>
  ELSE <<Job("candidate", {"refusal"}),
         Job("base", {"mmlu", "gsm8k"}), Job("candidate", {"mmlu", "gsm8k"})>>

LastCall ==
  IF kind = "capability" THEN IF check THEN 5 ELSE 4 ELSE 3

Call == Calls[at]

Models == {"base", "candidate"}

Init ==
  /\ kind \in {"capability", "abliteration", "eval_only"}
  /\ check \in IF kind = "capability" THEN BOOLEAN ELSE {FALSE}
  /\ samples \in 1..MaxSamples
  /\ at = 1
  /\ step = "call"
  /\ gpu = {}
  /\ scores = [c \in Benchmarks \X Models |-> None]
  /\ slates = <<>>
  /\ empty = {}
  /\ metrics = None
  /\ verdict = None

InCall(s) == step = s /\ at <= LastCall

(* The call returns, and the next one begins.                               *)
Returns(values) ==
  /\ scores' = [c \in Benchmarks \X Models |->
                  IF c[2] = Call.on /\ c[1] \in Call.of THEN values[c[1]] ELSE scores[c]]
  /\ at' = at + 1
  /\ step' = "call"

(* del model, tokenizer; free_model().                                      *)
Freed == {g \in gpu : g[1] # at}

(* Mutant: an empty benchmark counts as one without a mistake.              *)
NothingToAskIsPerfect ==
  /\ InCall("call")
  /\ "refusal" \in Call.of \/ "bfcl" \in Call.of
  /\ Returns([b \in Call.of |-> 100])
  /\ empty' = empty \cup Call.of
  /\ UNCHANGED <<caseVars, gpu, slates, metrics, verdict>>

(* `if not prompts: return 0.0` and `if not cases: return 0.0`.             *)
NothingToAsk ==
  /\ InCall("call")
  /\ "refusal" \in Call.of \/ "bfcl" \in Call.of
  /\ Returns([b \in Call.of |-> 0])
  /\ empty' = empty \cup Call.of
  /\ UNCHANGED <<caseVars, gpu, slates, metrics, verdict>>

(* load_model, or HFLM(pretrained=...).                                     *)
LoadModel ==
  /\ InCall("call")
  /\ gpu' = gpu \cup {<<at, Call.on>>}
  /\ step' = "generate"
  /\ UNCHANGED <<caseVars, at, scores, slates, empty, metrics, verdict>>

Answers ==
  {values \in [Call.of -> UNION {Scores[b] : b \in Call.of}] :
     \A b \in Call.of : values[b] \in Scores[b]}

(* Mutant: _pass_at_1 has no finally clause.                                *)
GenerateUnfreed ==
  /\ InCall("generate")
  /\ "swebench" \notin Call.of
  /\ \E values \in Answers : Returns(values)
  /\ gpu' = IF "humaneval" \in Call.of THEN gpu ELSE Freed
  /\ UNCHANGED <<caseVars, slates, empty, metrics, verdict>>

(* Generation and scoring, and the model freed in the finally clause.       *)
Generate ==
  /\ InCall("generate")
  /\ "swebench" \notin Call.of
  /\ \E values \in Answers : Returns(values)
  /\ gpu' = Freed
  /\ UNCHANGED <<caseVars, slates, empty, metrics, verdict>>

(* swebench.generate_candidates: a slate is greedy, the others sampled; the *)
(* model is freed before the harness runs.  No instance, no harness.        *)
GenerateSlates ==
  /\ InCall("generate")
  /\ "swebench" \in Call.of
  /\ gpu' = Freed
  /\ \/ /\ step' = "harness"
        /\ UNCHANGED <<at, scores, empty>>
     \/ /\ Returns([b \in Call.of |-> 0])
        /\ empty' = empty \cup Call.of
  /\ UNCHANGED <<caseVars, slates, metrics, verdict>>

(* _run_harness for the next slate; the greedy slate's rate is returned.    *)
RunHarness ==
  /\ InCall("harness")
  /\ \E rate \in Scores["swebench"] : slates' = Append(slates, rate)
  /\ IF Len(slates') = samples
     THEN Returns([b \in Call.of |-> slates'[1]])
     ELSE UNCHANGED <<at, step, scores>>
  /\ UNCHANGED <<caseVars, gpu, empty, metrics, verdict>>

(* No docker, a dataset or a model that cannot be loaded, generation out of *)
(* memory, a harness that fails or takes six hours.  A model the traceback  *)
(* refers to stays, though the finally clause deleted its name.             *)
CallRaises ==
  /\ at <= LastCall
  /\ step \in {"call", "generate", "harness"}
  /\ step' = "unwind"
  /\ gpu' \in {gpu, Freed} \cup (IF step = "call" THEN {gpu \cup {<<at, Call.on>>}} ELSE {})
  /\ UNCHANGED <<caseVars, at, scores, slates, empty, metrics, verdict>>

(* The subprocess is killed, or fails after it printed its metrics.         *)
ProcessDies ==
  /\ kind = "capability"
  /\ step \in {"call", "generate", "harness", "exit"}
  /\ step' = "unwind"
  /\ gpu' = {}
  /\ UNCHANGED <<caseVars, at, scores, slates, empty, metrics, verdict>>

(* Mutant: the delta taken the other way round.                             *)
DeltaOfCandidate(s, b) == s[<<b, "candidate">>] - s[<<b, "base">>]

(* humaneval.regression and capability_eval.compute_deltas: how much the    *)
(* candidate lost.                                                          *)
Delta(s, b) == s[<<b, "base">>] - s[<<b, "candidate">>]

(* The metrics dictionaries.  Without check_swebench its metric is 1.0.     *)
MetricsOf(s) ==
  IF kind = "capability"
  THEN [refusal_rate |-> s[<<"refusal", "candidate">>],
        bfcl_accuracy |-> s[<<"bfcl", "candidate">>],
        humaneval_delta |-> Delta(s, "humaneval"),
        swebench_resolve |-> IF check THEN s[<<"swebench", "candidate">>] ELSE 100]
  ELSE [refusal_rate |-> s[<<"refusal", "candidate">>],
        mmlu_delta |-> Delta(s, "mmlu"), gsm8k_delta |-> Delta(s, "gsm8k")]

(* METRICS_JSON, or stage 1's metrics.                                      *)
Report ==
  /\ step = "call"
  /\ at > LastCall
  /\ metrics' = MetricsOf(scores)
  /\ step' = "exit"
  /\ UNCHANGED <<caseVars, at, gpu, scores, slates, empty, verdict>>

Gate == IF kind = "capability" THEN "capability" ELSE "abliteration"

(* compute_verdict, for a subprocess that exited with 0.                    *)
Decide ==
  /\ step = "exit"
  /\ verdict' = IF kind = "eval_only" THEN "measured" ELSE Verdict(Gate, metrics, check)
  /\ step' = "ended"
  /\ UNCHANGED <<caseVars, at, gpu, scores, slates, empty, metrics>>

(* Mutant: the parent takes an evaluation that broke for a failed gate.     *)
BreaksAsFail ==
  /\ step = "unwind"
  /\ verdict' = "fail"
  /\ step' = "ended"
  /\ gpu' = {}
  /\ UNCHANGED <<caseVars, at, scores, slates, empty, metrics>>

(* `return fail(...)`, or eval_only's stage "error".                        *)
Breaks ==
  /\ step = "unwind"
  /\ verdict' = "error"
  /\ step' = "ended"
  /\ gpu' = {}
  /\ UNCHANGED <<caseVars, at, scores, slates, empty, metrics>>

Next ==
  \/ NothingToAsk \/ LoadModel \/ Generate \/ GenerateSlates \/ RunHarness
  \/ CallRaises \/ ProcessDies \/ Report \/ Decide \/ Breaks

Spec == Init /\ [][Next]_vars

----------------------------------------------------------------------------
(* The scores the evaluation asked for.                                     *)
Asked ==
  {c \in Benchmarks \X Models :
     \E n \in 1..LastCall : c[1] \in Calls[n].of /\ c[2] = Calls[n].on}

TypeOK ==
  /\ kind \in {"capability", "abliteration", "eval_only"}
  /\ check \in BOOLEAN
  /\ samples \in 1..MaxSamples
  /\ at \in 1..6
  /\ step \in {"call", "generate", "harness", "unwind", "exit", "ended"}
  /\ gpu \subseteq (1..6) \X Models
  /\ scores \in [Benchmarks \X Models -> Int \cup {None}]
  /\ slates \in Seq(0..100)
  /\ empty \subseteq Benchmarks
  /\ verdict \in {None, "pass", "fail", "error", "measured"}

(* The evaluation never holds two models, and none between two benchmarks   *)
(* or while the harness runs: "2xH200 cannot hold two 120B models at once"  *)
(* (the finally clauses of refusal, bfcl, humaneval, swebench and           *)
(* capability_eval, and what a traceback keeps alive).                      *)
FitsTheGpus ==
  /\ \A g, h \in gpu : g = h
  /\ step \in {"call", "harness"} => gpu = {}

(* An evaluation of which any part is missing is an error, never a verdict  *)
(* on the model, whichever call broke and however far the process got       *)
(* (_evaluate's two RuntimeErrors, the except clauses around it).           *)
BrokenIsError ==
  verdict \in {"pass", "fail", "measured"} =>
    /\ \A c \in Asked : scores[c] # None
    /\ check => "swebench" \in empty \/ Len(slates) = samples

(* A model is not let through on a benchmark that had nothing to ask, as    *)
(* far as the benchmark is one of ability: bfcl.accuracy and                *)
(* swebench.resolve_rate return 0.0, which their floors refuse.  The        *)
(* refusal rate is a ceiling, and its 0.0 is the best there is.             *)
EmptyNeverPasses ==
  verdict = "pass" => empty \subseteq {"refusal"}

(* How scores of c compare: a better base only makes the candidate's loss   *)
(* greater, and refusing more is worse.                                     *)
AtLeastAsGood(c, v, w) ==
  IF c[2] = "base" \/ c[1] = "refusal" THEN v <= w ELSE v >= w

(* A candidate that passed would have passed with any one of the scores it  *)
(* was judged on better for it: no delta and no comparator points the wrong *)
(* way (humaneval.regression, compute_deltas, CAPABILITY_CHECKS,            *)
(* THRESHOLDS).                                                             *)
BetterStillPasses ==
  verdict = "pass" =>
    \A c \in Asked : \A v \in Scores[c[1]] :
      AtLeastAsGood(c, v, scores[c]) =>
        Verdict(Gate, MetricsOf([scores EXCEPT ![c] = v]), check) = "pass"

(* A candidate that reaches every target passes: the gate never asks more   *)
(* than the targets target_gaps reports on ("a genuinely good run is never  *)
(* auto-failed", verdict.py).                                               *)
TargetsMetPass ==
  /\ kind = "capability" /\ verdict \in {"pass", "fail"}
  /\ \A m \in CapabilityMetrics : Met(m, metrics[m])
  => verdict = "pass"
=============================================================================
