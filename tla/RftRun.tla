------------------------------- MODULE RftRun -------------------------------
(***************************************************************************)
(* run_stage4.py: rounds of generate, verify, train on the passing         *)
(* candidates and export; each round starts from the model the one before  *)
(* it exported.  The last model is evaluated and published.                *)
(*                                                                         *)
(* Weights carry their lineage: the run, and how many of its rounds they   *)
(* have been through.  Files have one name per round, except the GGUF of   *)
(* every round but the last, and stay on the box between runs.             *)
(***************************************************************************)
EXTENDS StageScript, Integers

CONSTANT MaxRounds     \* bound: the largest STAGE4_ROUNDS a run is launched with

ASSUME RoundsAssumption == MaxRounds \in Nat

VARIABLES
  numRounds,  \* NUM_ROUNDS of this run
  round,      \* round_idx
  source,     \* model_source: the weights the next round starts from
  candidates, \* the weights that generated this round's candidates
  sft,        \* per round: the weights whose candidates rft_round{k}.jsonl holds
  model,      \* the model in memory after training
  merged,     \* per round: the weights in swe-coder-rft-r{k}-merged
  gguf,       \* the weights in each GGUF directory
  mergedDir,  \* main()'s merged_dir: a round, or None
  ggufDir     \* main()'s gguf_dir, or None

roundVars == <<numRounds, round, source, candidates, model, mergedDir, ggufDir>>
filesVars == <<sft, merged, gguf>>
vars == <<scriptVars, roundVars, filesVars>>

Rounds == 0..(MaxRounds - 1)

(* MODEL_SOURCE, the same for every run, and files without usable content.  *)
Base == [by |-> 0, rounds |-> 0]
Broken == [by |-> 0, rounds |-> -1]

Lineages == {Base, Broken} \cup [by : Runs, rounds : 0..MaxRounds]

(* Training m on what the weights g produced: m's lineage goes on only when *)
(* g is m and m is the base or this run's own.                              *)
Trained(m, g) ==
  IF g = m /\ m.by \in {0, run} /\ m.rounds \in 0..(numRounds - 1)
  THEN [by |-> run, rounds |-> m.rounds + 1] ELSE Broken

(* The weights of a run, once they have been through all its rounds.        *)
Finished(m) == IF m.rounds = numRounds THEN m.by ELSE 0

(* GGUF_OUT, the GGUF directory of every round but the last.                *)
Final == -1

GgufDirs == Rounds \cup {Final}

Init ==
  /\ ScriptInit
  /\ numRounds = 0 /\ round = 0 /\ source = Base /\ candidates = Base /\ model = Base
  /\ sft = [k \in Rounds |-> Broken]
  /\ merged = [k \in Rounds |-> Broken]
  /\ gguf = [d \in GgufDirs |-> Broken]
  /\ mergedDir = None /\ ggufDir = None

Launched ==
  /\ Begin
  /\ numRounds' \in 0..MaxRounds
  /\ round' = 0 /\ source' = Base /\ candidates' = Base /\ model' = Base
  /\ mergedDir' = None /\ ggufDir' = None
  /\ UNCHANGED filesVars

(* _load_problems, then the loop over the rounds.                           *)
LoadProblems ==
  /\ \/ FirstWrite("load")
     \/ Continues("load", "loop") /\ UNCHANGED releaseVars
     \/ Raises("load")
  /\ UNCHANGED <<roundVars, filesVars>>

(* The head of the loop names the directories: the last round's GGUF is     *)
(* named after the round, all the others go to GGUF_OUT.                    *)
NextRound ==
  /\ round < numRounds
  /\ Continues("loop", "enter_gen")
  /\ mergedDir' = round
  /\ ggufDir' = IF round = numRounds - 1 THEN round ELSE Final
  /\ UNCHANGED <<releaseVars, numRounds, round, source, candidates, model, filesVars>>

RoundsOver ==
  /\ round = numRounds
  /\ Continues("loop", "enter_eval")
  /\ UNCHANGED <<releaseVars, roundVars, filesVars>>

(* Every write of run_round is inside the try around the rounds.            *)
RoundWrites(at, stage, next) ==
  /\ Saves(at, [mem EXCEPT !.stage = stage], next, "fail")
  /\ UNCHANGED <<releaseVars, roundVars, filesVars>>

Generate ==
  /\ \/ Continues("generate", "enter_ver") /\ UNCHANGED releaseVars /\ candidates' = source
     \/ Raises("generate") /\ UNCHANGED candidates
  /\ UNCHANGED <<numRounds, round, source, model, mergedDir, ggufDir, filesVars>>

(* _verify and the two jsonl files.                                         *)
Verify ==
  /\ \/ /\ Continues("verify", "save_counts")
        /\ UNCHANGED releaseVars
        /\ sft' = [sft EXCEPT ![round] = candidates]
     \/ /\ Raises("verify")
        /\ sft' \in {sft, [sft EXCEPT ![round] = Broken]}
  /\ UNCHANGED <<roundVars, merged, gguf>>

Train ==
  /\ \/ Continues("train", "merge") /\ UNCHANGED releaseVars
        /\ model' = Trained(source, sft[round])
     \/ Raises("train") /\ UNCHANGED model
  /\ UNCHANGED <<numRounds, round, source, candidates, mergedDir, ggufDir, filesVars>>

ExportMerged ==
  /\ \/ /\ Continues("merge", "quantize")
        /\ UNCHANGED releaseVars
        /\ merged' = [merged EXCEPT ![mergedDir] = model]
     \/ Raises("merge") /\ merged' = [merged EXCEPT ![mergedDir] = Broken]
  /\ UNCHANGED <<roundVars, sft, gguf>>

ExportGguf ==
  /\ \/ /\ Continues("quantize", "save_loss")
        /\ UNCHANGED releaseVars
        /\ gguf' = [gguf EXCEPT ![ggufDir] = model]
     \/ Raises("quantize") /\ gguf' = [gguf EXCEPT ![ggufDir] = Broken]
  /\ UNCHANGED <<roundVars, sft, merged>>

(* Mutant: the next round starts again from MODEL_SOURCE.                   *)
EndRoundFromBase ==
  /\ Continues("end_round", "loop")
  /\ round' = round + 1
  /\ UNCHANGED <<releaseVars, numRounds, source, candidates, model, mergedDir, ggufDir, filesVars>>

(* run_round returns merged_dir, the next round's model_source.             *)
EndRound ==
  /\ Continues("end_round", "loop")
  /\ round' = round + 1
  /\ source' = merged[mergedDir]
  /\ UNCHANGED <<releaseVars, numRounds, candidates, model, mergedDir, ggufDir, filesVars>>

(* One round, as run_round orders it.                                       *)
RunRound ==
  \/ RoundWrites("enter_gen", "generating", "generate") \/ Generate
  \/ RoundWrites("enter_ver", "verifying", "verify") \/ Verify
  \/ RoundWrites("save_counts", "verifying", "enter_train")
  \/ RoundWrites("enter_train", "training", "train") \/ Train
  \/ ExportMerged \/ ExportGguf
  \/ RoundWrites("save_loss", "training", "end_round") \/ EndRound

EnterEvaluating ==
  /\ Enters("enter_eval", "evaluating", "evaluate")
  /\ UNCHANGED <<roundVars, filesVars>>

(* Mutant: without a round the base model is evaluated.                     *)
EvaluateAnything ==
  /\ Judges(IF mergedDir = None THEN 0 ELSE Finished(merged[mergedDir])) \/ Raises("evaluate")
  /\ UNCHANGED <<roundVars, filesVars>>

(* _evaluate(merged_dir, MODEL_SOURCE): with no round there is no           *)
(* directory, and the subprocess call raises on None.                       *)
Evaluate ==
  /\ \/ mergedDir # None /\ Judges(Finished(merged[mergedDir]))
     \/ Raises("evaluate")
     \/ mergedDir = None /\ Continues("evaluate", "fail") /\ UNCHANGED releaseVars
  /\ UNCHANGED <<roundVars, filesVars>>

(* Mutant: publish() uploads GGUF_OUT, as in the other stages.              *)
PublishFinal ==
  /\ AfterEvaluation(Finished(gguf[Final]))
  /\ UNCHANGED <<roundVars, filesVars>>

RecordAndPublish ==
  /\ AfterEvaluation(IF ggufDir = None THEN 0 ELSE Finished(gguf[ggufDir]))
  /\ UNCHANGED <<roundVars, filesVars>>

(* Half-written files are broken.                                           *)
DiesAnywhere ==
  /\ Dies
  /\ sft' \in {sft} \cup (IF pc = "verify" THEN {[sft EXCEPT ![round] = Broken]} ELSE {})
  /\ merged' \in {merged} \cup
       (IF pc = "merge" THEN {[merged EXCEPT ![mergedDir] = Broken]} ELSE {})
  /\ gguf' \in {gguf} \cup
       (IF pc = "quantize" THEN {[gguf EXCEPT ![ggufDir] = Broken]} ELSE {})
  /\ UNCHANGED roundVars

Step ==
  \/ LoadProblems \/ NextRound \/ RunRound \/ RoundsOver
  \/ EnterEvaluating \/ Evaluate \/ RecordAndPublish

Next == Launched \/ Step \/ DiesAnywhere

Spec == Init /\ [][Next]_vars

FairSpec == Spec /\ WF_vars(Step)

----------------------------------------------------------------------------
TypeOK ==
  /\ ScriptTypeOK
  /\ numRounds \in 0..MaxRounds
  /\ round \in 0..numRounds
  /\ {source, candidates, model} \subseteq Lineages
  /\ \A k \in Rounds : {sft[k], merged[k]} \subseteq Lineages
  /\ \A d \in GgufDirs : gguf[d] \in Lineages
  /\ mergedDir \in Rounds \cup {None}
  /\ ggufDir \in GgufDirs \cup {None}

(* Each round starts from what the round before it exported and trains on   *)
(* what that very model generated, whatever earlier runs left in the files  *)
(* of the same names (run_round's chain through three files on the disk).   *)
RoundsBuildOnEachOther ==
  pc = "loop" => source = (IF round = 0 THEN Base ELSE [by |-> run, rounds |-> round])

(* The model that is judged has been through every round of its own run,    *)
(* though earlier runs with more or fewer rounds left directories of the    *)
(* same names; without a round there is nothing to judge.                   *)
EvaluatesAllRounds ==
  pc \in {"record", "create", "upload"} =>
    mergedDir # None /\ merged[mergedDir] = [by |-> run, rounds |-> numRounds]
=============================================================================
