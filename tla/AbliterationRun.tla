--------------------------- MODULE AbliterationRun ---------------------------
(***************************************************************************)
(* run_stage1.py: drive heretic's end-of-run prompts until it has saved a  *)
(* model, trip on a run that changed nothing, evaluate, publish.           *)
(*                                                                         *)
(* heretic's output is appended to one log file, and the KL readings are   *)
(* read back from the last 400,000 characters of that file: all of this    *)
(* run's output that matters (its menu, which lists every kind of trial    *)
(* and the worst last), and as much of earlier runs' as there is room for. *)
(* A KL is below the no-op floor ("low") or above it ("high"); a run whose *)
(* every trial is low left the model as it was.  An output may also show   *)
(* no KL that can be read.                                                 *)
(***************************************************************************)
EXTENDS StageScript, Sequences

CONSTANT Window     \* bound: the runs whose outputs the last part can show

ASSUME WindowAssumption == Window \in Nat \ {0} /\ None \notin {"low", "high"}

VARIABLES
  log,       \* HERETIC_LOG_PATH: what one run after the other printed
  export     \* the weights in EXPORT_DIR

vars == <<scriptVars, log, export>>

KLs == {"low", "high"}

(* What run r may have printed: whether all of its trials were low, and the *)
(* highest and the last KL that can be read, None if there is none.         *)
Outputs(r) ==
  {o \in [run : {r}, noop : BOOLEAN, best : KLs \cup {None}, last : KLs \cup {None}] :
     /\ o.best = "low" => o.last = "low"
     /\ o.best = None <=> o.last = None
     /\ o.noop => o.best # "high"}

(* ... if it came to its menu: all of its trials, or nothing readable.      *)
WholeOutputs(r) == {o \in Outputs(r) : ~o.noop => o.best # "low"}

(* What tail() may return: the last outputs, the first of them perhaps cut  *)
(* down to the last reading in it.                                          *)
Views ==
  {v \in [outputs : 1..Window, cut : BOOLEAN] :
     v.outputs <= Len(log) /\ (v.outputs = 1 => ~v.cut)}

Oldest(v) == Len(log) + 1 - v.outputs

Shown(v) ==
  {kl \in KLs :
     \/ \E i \in DOMAIN log : i > Oldest(v) /\ log[i].best = kl
     \/ kl = IF v.cut THEN log[Oldest(v)].last ELSE log[Oldest(v)].best}

(* Mutant: the last KL in the log instead of the highest.                   *)
LastKl(v) == log[Len(log)].last

(* parse_best_kl: the highest KL among all trials the text shows, or None.  *)
BestKl(v) ==
  CASE Shown(v) = {} -> None
    [] "high" \in Shown(v) -> "high"
    [] OTHER -> "low"

Init ==
  /\ ScriptInit
  /\ log = <<>>
  /\ export = 0

Launched == Begin /\ UNCHANGED <<log, export>>

EnterAbliterating ==
  /\ \/ FirstWrite("enter_abl")
     \/ Enters("enter_abl", "abliterating", "install")
  /\ UNCHANGED <<log, export>>

(* The version and the entry point are checked; then the export of an       *)
(* earlier run is removed.                                                  *)
CheckInstall ==
  /\ \/ Continues("install", "heretic") /\ UNCHANGED releaseVars /\ export' = 0
     \/ Raises("install") /\ UNCHANGED export
  /\ UNCHANGED log

(* The part of an output that reached the log.                              *)
PrintsSome == \E o \in Outputs(run) : log' = Append(log, o)

(* heretic under pexpect up to "Model saved to" and a clean exit.  It may   *)
(* exceed the ceiling, exit early or be killed, with part of its output in  *)
(* the log and of the export on the disk, or all of it.  Only HereticError  *)
(* is caught: the log that cannot be opened or written, and what pexpect's  *)
(* close() raises, end main().                                              *)
Abliterate ==
  \/ /\ Continues("heretic", "tripwire")
     /\ UNCHANGED releaseVars
     /\ export' = run
     /\ \E o \in WholeOutputs(run) : log' = Append(log, o)
  \/ /\ Raises("heretic") \/ Escapes("heretic")
     /\ export' \in {0, run}
     /\ UNCHANGED log \/ PrintsSome

(* Mutant: the tripwire is left out.                                        *)
NoTripwire ==
  /\ Continues("tripwire", "enter_eval")
  /\ UNCHANGED <<releaseVars, log, export>>

(* A text without a KL is let through; the file that cannot be read, and a  *)
(* reading that is no float, end main().                                    *)
Tripwire ==
  /\ \/ /\ \E v \in Views :
             Continues("tripwire", IF BestKl(v) = "low" THEN "fail" ELSE "enter_eval")
        /\ UNCHANGED releaseVars
     \/ Escapes("tripwire")
  /\ UNCHANGED <<log, export>>

EnterEvaluating ==
  /\ Enters("enter_eval", "evaluating", "evaluate")
  /\ UNCHANGED <<log, export>>

(* refusal_rate and run_benchmarks load EXPORT_DIR; then the metrics are    *)
(* put together.  The KL among them has no threshold.                       *)
Evaluate ==
  /\ Judges(export) \/ Raises("evaluate")
  /\ UNCHANGED <<log, export>>

RecordAndPublish == AfterEvaluation(export) /\ UNCHANGED <<log, export>>

(* heretic is a child of the script and goes with it.                       *)
DiesAnywhere ==
  /\ Dies
  /\ export' \in {export} \cup (IF pc = "heretic" THEN {run} ELSE {})
  /\ UNCHANGED log \/ (pc = "heretic" /\ PrintsSome)

Step ==
  \/ EnterAbliterating \/ CheckInstall \/ Abliterate \/ Tripwire
  \/ EnterEvaluating \/ Evaluate \/ RecordAndPublish

Next == Launched \/ Step \/ DiesAnywhere

Spec == Init /\ [][Next]_vars

FairSpec == Spec /\ WF_vars(Step)

----------------------------------------------------------------------------
TypeOK ==
  /\ ScriptTypeOK
  /\ \A i \in DOMAIN log : log[i] \in UNION {Outputs(r) : r \in Runs}
  /\ Len(log) <= run
  /\ export \in 0..MaxRuns

(* The run r left the model as it was.                                      *)
NoOp(r) == \E i \in DOMAIN log : log[i].run = r /\ log[i].noop

(* Its output has a KL that can be read.                                    *)
Shows(r) == \E i \in DOMAIN log : log[i].run = r /\ log[i].best # None

(* A run that changed the model is never taken for one that did not, though *)
(* its menu may end with a low KL (the mistake parse_best_kl's docstring    *)
(* tells of), except where its own output shows no KL and a low one of an   *)
(* earlier run is near enough in the log to be taken for its own.           *)
OnlyNoOpsTripped ==
  [][pc = "tripwire" /\ pc' = "fail" =>
       \/ NoOp(run)
       \/ /\ ~Shows(run)
          /\ \E i \in DOMAIN log :
               i < Len(log) /\ Len(log) - i < Window /\ log[i].last = "low"]_vars

(* A model left as it was gets past the tripwire only when its output shows *)
(* no KL, which main() lets through, or when the output of an earlier run   *)
(* is near enough in the log to hide it.                                    *)
NoOpsEvaluatedOnlyWhenHidden ==
  \A w \in Runs : judged[w] # None /\ NoOp(w) =>
    \/ ~Shows(w)
    \/ \E i, j \in DOMAIN log :
         log[j].run = w /\ i < j /\ j - i < Window /\ log[i].best = "high"

(* README: "a sub-0.01 KL no-op tripwire hard-fails a run that barely       *)
(* changed the model, before eval or publish": no run whose own output      *)
(* reads below the floor, and only there, is evaluated.                     *)
NoOpsNeverEvaluated == \A w \in Runs : judged[w] # None => ~(NoOp(w) /\ Shows(w))
=============================================================================
