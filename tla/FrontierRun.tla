----------------------------- MODULE FrontierRun -----------------------------
(***************************************************************************)
(* run_frontier.py: abliterate, fine-tune and preference-tune one 480B     *)
(* model on one box, as far as FRONTIER_STAGE and FRONTIER_SKIP_HERETIC    *)
(* say, then evaluate and publish eval_target, the directory of the last   *)
(* step that ran.  The trainers read their base model from their own YAML. *)
(***************************************************************************)
EXTENDS StageScript

CONSTANT Selections     \* FRONTIER_STAGE values a run may be launched with

ASSUME SelectionsAssumption == Selections \subseteq {"heretic", "sft", "orpo", "all"}

VARIABLES
  selected,  \* main()'s stage argument
  skip,      \* main()'s skip_heretic argument
  target,    \* main()'s eval_target: "base" (MODEL_SOURCE) or a step's directory
  data,      \* the run that wrote DATA_DIR
  out        \* per step, the weights in its output directory

argVars == <<selected, skip>>
vars == <<scriptVars, argVars, target, data, out>>

(* A LoRA step leaves an adapter, its merge a model.                        *)
Steps == {"heretic", "sft", "orpo"}
Dirs == {"heretic", "sft_lora", "sft", "orpo_lora", "orpo"}

(* Weights: the run that produced them and the steps they went through.     *)
Weights == [by : 0..MaxRuns, steps : SUBSET Steps]
Base == [by |-> 0, steps |-> {}]
Broken == [by |-> 0, steps |-> Steps]

Through(step, w) ==
  IF w = Broken \/ w.by \notin {0, run} THEN Broken
  ELSE [by |-> run, steps |-> w.steps \cup {step}]

Runs_heretic == selected \in {"heretic", "all"} /\ ~skip
Runs_sft == selected \in {"sft", "orpo", "all"}
Runs_orpo == selected \in {"orpo", "all"}

Init ==
  /\ ScriptInit
  /\ selected \in Selections
  /\ skip \in BOOLEAN
  /\ target = "base"
  /\ data = 0
  /\ out = [d \in Dirs |-> Broken]

Launched ==
  /\ Begin
  /\ selected' \in Selections
  /\ skip' \in BOOLEAN
  /\ target' = "base"
  /\ UNCHANGED <<data, out>>

AfterFirst == IF Runs_heretic THEN "enter_heretic" ELSE "enter_prep"
AfterData == IF Runs_sft THEN "enter_sft" ELSE "enter_eval"
AfterSft == IF Runs_orpo THEN "enter_orpo" ELSE "enter_eval"

EntersStage ==
  /\ \/ FirstWrite(AfterFirst)
     \/ Enters("enter_heretic", "abliterating", "heretic")
     \/ Enters("enter_prep", "preparing_data", "prepare")
     \/ Enters("enter_sft", "training_sft", "train_sft")
     \/ Enters("enter_orpo", "training_orpo", "train_orpo")
     \/ Enters("enter_eval", "evaluating", "evaluate")
  /\ UNCHANGED <<argVars, target, data, out>>

(* run_cmd: the subprocess leaves w in directory d, or raises leaving d     *)
(* incomplete.                                                              *)
Command(at, next, d, w) ==
  /\ \/ Continues(at, next) /\ UNCHANGED releaseVars /\ out' = [out EXCEPT ![d] = w]
     \/ Raises(at) /\ out' = [out EXCEPT ![d] = Broken]
  /\ UNCHANGED <<argVars, data>>

RunHeretic ==
  /\ Command("heretic", "enter_prep", "heretic", Through("heretic", Base))
  /\ target' = IF pc' = "fail" THEN target ELSE "heretic"

BuildData ==
  /\ \/ Continues("prepare", AfterData) /\ UNCHANGED releaseVars /\ data' = run
     \/ Raises("prepare") /\ data' \in {data, 0}
  /\ UNCHANGED <<argVars, target, out>>

(* What a trainer makes of base model w: the adapter is the run's if the    *)
(* data is.                                                                 *)
TrainedOn(step, w) == IF data = run THEN Through(step, w) ELSE Broken

(* base_model of sft_axolotl.yaml is the published model, by name.          *)
RunSft ==
  /\ Command("train_sft", "merge_sft", "sft_lora", TrainedOn("sft", Base))
  /\ UNCHANGED target

MergeSft ==
  /\ Command("merge_sft", AfterSft, "sft", out["sft_lora"])
  /\ target' = IF pc' = "fail" THEN target ELSE "sft"

(* model_name_or_path of orpo_llamafactory.yaml is SFT_MERGED.              *)
RunOrpo ==
  /\ Command("train_orpo", "merge_orpo", "orpo_lora", TrainedOn("orpo", out["sft"]))
  /\ UNCHANGED target

(* Mutant: the merge is done and eval_target stays what it was.             *)
MergeOrpoForgotten ==
  /\ Command("merge_orpo", "enter_eval", "orpo", out["orpo_lora"])
  /\ UNCHANGED target

MergeOrpo ==
  /\ Command("merge_orpo", "enter_eval", "orpo", out["orpo_lora"])
  /\ target' = IF pc' = "fail" THEN target ELSE "orpo"

(* MODEL_SOURCE is evaluated against itself when no step ran; its verdict   *)
(* is about no run's weights.                                               *)
TargetWeights == IF target = "base" THEN Base ELSE out[target]

Evaluate ==
  /\ Judges(TargetWeights.by) \/ Raises("evaluate")
  /\ UNCHANGED <<argVars, target, data, out>>

(* Mutant: the SFT model is uploaded whatever was evaluated.                *)
UploadSft == UploadFolder(out["sft"].by, "announce")

(* publish(status, eval_target); MODEL_SOURCE is no folder, so its upload   *)
(* raises.  There is no model card.                                         *)
UploadTarget ==
  \/ target # "base" /\ UploadFolder(TargetWeights.by, "announce")
  \/ /\ target = "base"
     /\ Continues("upload", "unpublished")
     /\ UNCHANGED releaseVars

RecordAndPublish ==
  /\ \/ RecordVerdict
     \/ CreateRepo \/ UploadTarget
     \/ PublishRaises(TargetWeights.by) /\ (pc = "create" \/ target # "base")
     \/ Announce \/ RecordUnpublished \/ Finish \/ Fail \/ Exits
  /\ UNCHANGED <<argVars, target, data, out>>

(* Half-written data and directories are broken.                            *)
WritesDir(d) ==
  \/ pc = "heretic" /\ d = "heretic"
  \/ pc = "train_sft" /\ d = "sft_lora"
  \/ pc = "merge_sft" /\ d = "sft"
  \/ pc = "train_orpo" /\ d = "orpo_lora"
  \/ pc = "merge_orpo" /\ d = "orpo"

DiesAnywhere ==
  /\ Dies
  /\ out' = [d \in Dirs |-> IF WritesDir(d) THEN Broken ELSE out[d]]
  /\ data' = IF pc = "prepare" THEN 0 ELSE data
  /\ UNCHANGED <<argVars, target>>

Step ==
  \/ EntersStage \/ RunHeretic \/ BuildData \/ RunSft \/ MergeSft \/ RunOrpo
  \/ MergeOrpo \/ Evaluate \/ RecordAndPublish

Next == Launched \/ Step \/ DiesAnywhere

Spec == Init /\ [][Next]_vars

FairSpec == Spec /\ WF_vars(Step)

----------------------------------------------------------------------------
TypeOK ==
  /\ ScriptTypeOK
  /\ selected \in Selections
  /\ skip \in BOOLEAN
  /\ target \in {"base"} \cup Steps
  /\ data \in 0..MaxRuns
  /\ \A d \in Dirs : out[d] \in Weights

(* What is evaluated is this run's and has been through the last step the   *)
(* run was asked for, whatever other runs with other arguments left in the  *)
(* same directories; with no step asked for, it is the model as it was.     *)
EvaluatesLastStep ==
  pc = "record" =>
    IF Runs_orpo THEN TargetWeights.by = run /\ {"sft", "orpo"} \subseteq TargetWeights.steps
    ELSE IF Runs_sft THEN TargetWeights.by = run /\ "sft" \in TargetWeights.steps
    ELSE IF Runs_heretic THEN TargetWeights = [by |-> run, steps |-> {"heretic"}]
    ELSE TargetWeights = Base
=============================================================================
