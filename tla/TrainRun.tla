------------------------------ MODULE TrainRun ------------------------------
(***************************************************************************)
(* run_stage2.py (sft), run_stage3.py (orpo) and run_stage5.py (rlvr):     *)
(* prepare the data, train, export the merged model and its GGUF, evaluate *)
(* the merged model, publish the GGUF.  The three main() are the same but  *)
(* for the calls they make.                                                *)
(*                                                                         *)
(* The two export directories have fixed names and stay on the box between *)
(* runs, as the data file does.                                            *)
(***************************************************************************)
EXTENDS DataPrep

CONSTANT Modes    \* values of STAGE5_MODE

ASSUME ModesAssumption == "distill" \in Modes

VARIABLES
  mode,      \* the mode this run was launched with
  model,     \* the run that trained the model in memory, 0 if there is none
  trained,   \* history: the data file as the trainer read it
  merged,    \* the weights in MERGED_OUT
  gguf       \* the weights in GGUF_OUT

modelVars == <<mode, model, trained>>
exportVars == <<merged, gguf>>
vars == <<scriptVars, dataVars, mode, model, trained, merged, gguf>>

(* Only stage 5 has a mode.                                                 *)
ModesOf(s) == IF s = 5 THEN Modes ELSE {"distill"}

Init ==
  /\ ScriptInit
  /\ DataInit
  /\ mode \in ModesOf(stage)
  /\ model = 0 /\ trained = NoData /\ merged = 0 /\ gguf = 0

Launched ==
  /\ Begin
  /\ PrepareLaunched
  /\ mode' \in ModesOf(stage)
  /\ model' = 0 /\ trained' = NoData
  /\ UNCHANGED exportVars

EnterPreparing ==
  /\ FirstWrite("enter_prep") \/ Enters("enter_prep", "preparing_data", "prepare")
  /\ UNCHANGED <<dataVars, modelVars, exportVars>>

Prepare == PrepareData /\ UNCHANGED <<modelVars, exportVars>>

EnterTraining ==
  /\ Enters("enter_train", "training", "train")
  /\ UNCHANGED <<dataVars, modelVars, exportVars>>

(* The trainer reads the file, whoever wrote it and whether or not it is    *)
(* whole; _train_for_mode raises unless the mode is wired.                  *)
Train ==
  /\ \/ /\ mode = "distill"
        /\ Continues("train", "save_loss")
        /\ UNCHANGED releaseVars
        /\ model' = run
        /\ trained' = file
     \/ Raises("train") /\ UNCHANGED <<model, trained>>
     \/ /\ mode # "distill"
        /\ Continues("train", "fail")
        /\ UNCHANGED <<releaseVars, model, trained>>
  /\ UNCHANGED <<mode, dataVars, exportVars>>

(* update_status(train_loss=...) is inside the try, unlike the others.      *)
SaveLoss ==
  /\ Saves("save_loss", mem, "export_merged", "fail")
  /\ UNCHANGED <<releaseVars, dataVars, modelVars, exportVars>>

(* export_model: two directories, one after the other.                      *)
ExportMerged ==
  /\ \/ Continues("export_merged", "export_gguf") /\ UNCHANGED releaseVars /\ merged' = model
     \/ Raises("export_merged") /\ merged' = 0
  /\ UNCHANGED <<dataVars, modelVars, gguf>>

(* Mutant: a failed GGUF conversion is only logged.                         *)
ExportGgufOptional ==
  /\ Continues("export_gguf", "enter_eval") /\ UNCHANGED releaseVars
  /\ gguf' \in {gguf, model}
  /\ UNCHANGED <<dataVars, modelVars, merged>>

ExportGguf ==
  /\ \/ Continues("export_gguf", "enter_eval") /\ UNCHANGED releaseVars /\ gguf' = model
     \/ Raises("export_gguf") /\ gguf' = 0
  /\ UNCHANGED <<dataVars, modelVars, merged>>

EnterEvaluating ==
  /\ Enters("enter_eval", "evaluating", "evaluate")
  /\ UNCHANGED <<dataVars, modelVars, exportVars>>

(* _evaluate: the subprocess loads MERGED_OUT.                              *)
Evaluate ==
  /\ Judges(merged) \/ Raises("evaluate")
  /\ UNCHANGED <<dataVars, modelVars, exportVars>>

RecordAndPublish == AfterEvaluation(gguf) /\ UNCHANGED <<dataVars, modelVars, exportVars>>

(* A script that dies in the middle of a step leaves the files of that step *)
(* incomplete.                                                              *)
DiesAnywhere ==
  /\ Dies
  /\ FileTorn
  /\ merged' \in {merged} \cup (IF pc = "export_merged" THEN {0} ELSE {})
  /\ gguf' \in {gguf} \cup (IF pc = "export_gguf" THEN {0} ELSE {})
  /\ UNCHANGED modelVars

Step ==
  \/ EnterPreparing \/ Prepare \/ EnterTraining \/ Train \/ SaveLoss
  \/ ExportMerged \/ ExportGguf \/ EnterEvaluating \/ Evaluate \/ RecordAndPublish

Next == Launched \/ Step \/ DiesAnywhere

Spec == Init /\ [][Next]_vars

(* A script that is running goes on; nothing obliges a new run.             *)
FairSpec == Spec /\ WF_vars(Step)

----------------------------------------------------------------------------
TypeOK ==
  /\ ScriptTypeOK
  /\ DataTypeOK
  /\ mode \in Modes
  /\ {model, merged, gguf} \subseteq 0..MaxRuns
  /\ trained \in [by : 0..MaxRuns, rows : SUBSET Rows, whole : BOOLEAN]

(* The file a stage trains on is the one this run's build wrote, with all   *)
(* it collected and nothing else, never one an earlier run left under the   *)
(* same name or a build that broke left incomplete; and stage 3 never       *)
(* trains on nothing (build(), prepare_data(), the except clause around     *)
(* them; the trainers read whatever file is there).                         *)
TrainsOnOwnBuild ==
  model # 0 =>
    /\ trained = [by |-> run, rows |-> collected, whole |-> TRUE]
    /\ stage = 3 => trained.rows # {}

(* A row of SWE-bench Verified is trained on only if it names no            *)
(* repository, and then only if its id gives nothing away or this very run  *)
(* was told to go on without the keys, whatever earlier runs were told      *)
(* (decontaminate_rows and the fail-closed _load_or_fail).                  *)
LeaksExplained ==
  \A row \in trained.rows :
    row.source \in Guarded /\ row.about = "verified" =>
      ~row.repo /\ (row.id => unverified)
=============================================================================
