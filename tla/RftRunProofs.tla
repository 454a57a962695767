---------------------------- MODULE RftRunProofs ----------------------------
(***************************************************************************)
(* Safety of RftRun for any number of rounds and runs and any faults, and  *)
(* that it keeps the contract of the controllers and of the repo.          *)
(***************************************************************************)
EXTENDS RftRun, StageScriptProofs

(* The steps of run_round, from what they have produced so far.             *)
Exporting == {"quantize", "save_loss", "end_round"}
Trains == {"merge"} \cup Exporting
Verified == {"save_counts", "enter_train", "train"}
Generated == {"enter_ver", "verify"}
RoundSteps == {"enter_gen", "generate"} \cup Generated \cup Verified \cup Trains
EvalSteps == {"record"} \cup Verdicted

OwnSteps == {"load", "loop", "enter_eval", "evaluate"} \cup RoundSteps

(* The weights this run has after r rounds.                                 *)
After(r) == IF r = 0 THEN Base ELSE [by |-> run, rounds |-> r]

(* The last round has left its files.                                       *)
Exported ==
  IF round = 0 THEN mergedDir = None /\ ggufDir = None
  ELSE /\ mergedDir = round - 1 /\ merged[round - 1] = After(round)
       /\ round = numRounds => ggufDir = round - 1 /\ gguf[round - 1] = After(round)

RoundInv ==
  /\ pc \in {"first", "load"} => round = 0 /\ source = Base /\ mergedDir = None /\ ggufDir = None
  /\ pc \in {"loop"} \cup RoundSteps => source = After(round)
  /\ pc \in {"loop", "enter_eval", "evaluate"} \cup EvalSteps => Exported
  /\ pc \in {"enter_eval", "evaluate"} \cup EvalSteps => round = numRounds
  /\ pc \in EvalSteps => round # 0
  /\ pc \in RoundSteps =>
       /\ round < numRounds /\ mergedDir = round
       /\ ggufDir = IF round = numRounds - 1 THEN round ELSE Final
  /\ pc \in Generated => candidates = source
  /\ pc \in Verified => sft[round] = source
  /\ pc \in Trains => model = After(round + 1)
  /\ pc \in Exporting => merged[round] = After(round + 1)
  /\ pc \in {"save_loss", "end_round"} => gguf[ggufDir] = After(round + 1)

PassedInv ==
  pc \in Verdicted \ {"finish"} \/ (pc = "record" /\ gate = "pass") => judged[run] = "pass"

RftTypeOK ==
  /\ numRounds \in 0..MaxRounds /\ round \in 0..numRounds
  /\ {source, candidates, model} \subseteq Lineages
  /\ {sft, merged} \subseteq [Rounds -> Lineages]
  /\ gguf \in [GgufDirs -> Lineages]
  /\ mergedDir \in Rounds \cup {None} /\ ggufDir \in GgufDirs \cup {None}

IInv ==
  /\ ScriptInv /\ pc \in OwnSteps \cup EndSteps
  /\ RftTypeOK /\ RoundInv /\ PassedInv

Good == IInv' /\ ContractStep /\ ReleaseStep

(* The numbers of rounds are natural, and rounds name the files. *)
LEMMA RoundNumbers ==
  ASSUME IInv
  PROVE  /\ MaxRounds \in Nat /\ numRounds \in 0..MaxRounds /\ round \in 0..numRounds
         /\ numRounds \in Nat /\ round \in Nat /\ round <= numRounds /\ numRounds <= MaxRounds
         /\ round < numRounds => round \in Rounds /\ round + 1 \in 0..numRounds
         /\ round # 0 => round - 1 \in Rounds
         /\ Rounds \subseteq GgufDirs /\ Final \in GgufDirs /\ Rounds \subseteq Nat
BY RoundsAssumption DEF IInv, RftTypeOK, Rounds, GgufDirs

(* A round takes the weights of this run one round further. *)
LEMMA RoundTrains ==
  ASSUME IInv, run \in Runs, round < numRounds
  PROVE  /\ After(round) \in Lineages /\ After(round + 1) \in Lineages
         /\ Trained(After(round), After(round)) = After(round + 1)
<1>1. round \in Nat /\ numRounds \in Nat /\ MaxRounds \in Nat /\ numRounds <= MaxRounds
  BY RoundNumbers
<1>2. After(round).by \in {0, run} /\ After(round).rounds = round
  BY DEF After, Base
<1>3. round \in 0..(numRounds - 1) /\ round + 1 # 0 /\ round \in 0..MaxRounds
      /\ round + 1 \in 0..MaxRounds
  BY <1>1
<1>4. After(round + 1) = [by |-> run, rounds |-> round + 1]
  BY <1>3 DEF After
<1>5. Trained(After(round), After(round)) = [by |-> run, rounds |-> round + 1]
  BY <1>2, <1>3 DEF Trained
<1> QED BY <1>3, <1>4, <1>5 DEF After, Lineages

(* What the steps outside the rounds need of the weights after them. *)
LEMMA LastWeights ==
  ASSUME IInv, Exported, round = numRounds, round # 0, run \in Runs
  PROVE  /\ mergedDir # None /\ merged[mergedDir] = [by |-> run, rounds |-> numRounds]
         /\ ggufDir # None /\ gguf[ggufDir] = [by |-> run, rounds |-> numRounds]
         /\ Finished(merged[mergedDir]) = run /\ Finished(gguf[ggufDir]) = run
<1>1. round - 1 \in Nat
  BY RoundNumbers
<1>2. mergedDir = round - 1 /\ ggufDir = round - 1 /\ After(round) = [by |-> run, rounds |-> numRounds]
      /\ merged[round - 1] = After(round) /\ gguf[round - 1] = After(round)
  BY DEF Exported, After
<1> QED BY <1>1, <1>2, ScriptAssumption DEF Finished

(* A step that leaves rounds and files alone, and goes where what is known  *)
(* of them was known already. *)
LEMMA Quiet ==
  ASSUME IInv, Keeps, UNCHANGED <<run, judged, roundVars, filesVars>>,
         pc' \in OwnSteps \cup EndSteps,
         pc' \in {"first", "load"} => pc \in {"first", "load"},
         pc' = "loop" => pc = "load",
         pc' \in RoundSteps => pc \in RoundSteps,
         pc' \in Generated => pc \in Generated,
         pc' \in Verified => pc \in Verified,
         pc' \in Trains => pc \in Trains,
         pc' \in Exporting => pc \in Exporting,
         pc' \in {"save_loss", "end_round"} => pc \in {"save_loss", "end_round"},
         pc' \in {"enter_eval", "evaluate"} =>
           pc \in {"enter_eval", "evaluate"} \/ (pc = "loop" /\ round = numRounds),
         pc' \in EvalSteps => pc \in EvalSteps,
         pc' # "record",
         pc' \in Verdicted \ {"finish"} =>
           pc \in Verdicted \ {"finish"} \/ (pc = "record" /\ gate = "pass")
  PROVE  Good
<1> USE DEF Verdicted, RoundSteps, Generated, Verified, Trains, Exporting, EvalSteps
<1>1. UNCHANGED <<run, judged, numRounds, round, source, candidates, model, mergedDir, ggufDir,
                  sft, merged, gguf>>
  BY DEF roundVars, filesVars
<1>2. RftTypeOK'
  BY <1>1 DEF IInv, RftTypeOK
<1>3. Exported' <=> Exported
  BY <1>1 DEF Exported, After
<1>4. pc = "load" => source = After(round) /\ Exported
  BY DEF IInv, RoundInv, After, Exported
<1>5. RoundInv'
  BY <1>1, <1>3, <1>4 DEF IInv, RoundInv, After
<1>6. PassedInv'
  BY <1>1 DEF IInv, PassedInv
<1> QED BY <1>2, <1>5, <1>6 DEF Good, IInv, Keeps

(* Of a run that has failed or ended, nothing is asked but the types. *)
LEMMA Over ==
  ASSUME Keeps, RftTypeOK', pc' \in {"fail", "ended"}
  PROVE  Good
<1> USE DEF Verdicted, RoundSteps, Generated, Verified, Trains, Exporting, EvalSteps, EndSteps
<1>1. RoundInv' /\ PassedInv'
  BY DEF RoundInv, PassedInv
<1> QED BY <1>1 DEF Good, IInv, Keeps

(* The writes of a status, outside the rounds and in them. *)
LEMMA WriteKeeps ==
  ASSUME IInv,
         \/ FirstWrite("load") /\ UNCHANGED <<roundVars, filesVars>>
         \/ RoundWrites("enter_gen", "generating", "generate")
         \/ RoundWrites("enter_ver", "verifying", "verify")
         \/ RoundWrites("save_counts", "verifying", "enter_train")
         \/ RoundWrites("enter_train", "training", "train")
         \/ RoundWrites("save_loss", "training", "end_round")
         \/ EnterEvaluating
  PROVE  Good
<1> USE DEF EndSteps, Verdicted, OwnSteps, RoundSteps, Generated, Verified, Trains, Exporting,
            EvalSteps
<1>1. UNCHANGED <<run, judged, roundVars, filesVars>>
  BY DEF FirstWrite, RoundWrites, EnterEvaluating, Enters, Saves, releaseVars
<1>2. <<pc, pc'>> \in
        {<<"first", "load">>, <<"enter_gen", "generate">>, <<"enter_ver", "verify">>,
         <<"save_counts", "enter_train">>, <<"enter_train", "train">>,
         <<"save_loss", "end_round">>, <<"enter_eval", "evaluate">>}
      \/ pc' \in {"fail", "ended"}
  BY DEF FirstWrite, RoundWrites, EnterEvaluating, Enters, Saves
<1>3. Keeps
  <2>1. PICK at, next, onError, kind : \E status \in {mem, [mem EXCEPT !.stage = kind]} :
          /\ Saves(at, status, next, onError) /\ UNCHANGED releaseVars
          /\ <<at, next, onError, kind>> \in
               {<<"first", "load", "ended", "setup">>,
                <<"enter_gen", "generate", "fail", "generating">>,
                <<"enter_ver", "verify", "fail", "verifying">>,
                <<"save_counts", "enter_train", "fail", "verifying">>,
                <<"enter_train", "train", "fail", "training">>,
                <<"save_loss", "end_round", "fail", "training">>,
                <<"enter_eval", "evaluate", "ended", "evaluating">>}
    <3>1. CASE FirstWrite("load")
      BY <3>1 DEF FirstWrite
    <3>2. CASE RoundWrites("enter_gen", "generating", "generate")
      BY <3>2 DEF RoundWrites
    <3>3. CASE RoundWrites("enter_ver", "verifying", "verify")
      BY <3>3 DEF RoundWrites
    <3>4. CASE RoundWrites("save_counts", "verifying", "enter_train")
      BY <3>4 DEF RoundWrites
    <3>5. CASE RoundWrites("enter_train", "training", "train")
      BY <3>5 DEF RoundWrites
    <3>6. CASE RoundWrites("save_loss", "training", "end_round")
      BY <3>6 DEF RoundWrites
    <3>7. CASE EnterEvaluating
      BY <3>7 DEF EnterEvaluating, Enters
    <3> QED BY <3>1, <3>2, <3>3, <3>4, <3>5, <3>6, <3>7
  <2>2. /\ at \notin EndSteps \/ at = "first"
        /\ next \notin EndSteps /\ onError \in {"ended", "fail"}
        /\ at = "first" => onError = "ended"
        /\ kind \in BusyStages
    BY <2>1 DEF BusyStages
  <2>3. ScriptInv /\ UNCHANGED releaseVars /\
        (Saves(at, mem, next, onError) \/ Saves(at, [mem EXCEPT !.stage = kind], next, onError))
    BY <2>1 DEF IInv
  <2> QED BY ONLY <2>2, <2>3, SaveStageKeeps
<1> QED BY <1>1, <1>2, <1>3, Quiet

(* A step of run_round that writes no status. *)
LEMMA RoundStepKeeps ==
  ASSUME IInv, pc \notin EndSteps, pc' \notin EndSteps \/ pc' = "fail",
         Continues(pc, pc') \/ Raises(pc), UNCHANGED releaseVars
  PROVE  Keeps /\ UNCHANGED <<run, gate, judged>> /\ run \in Runs
<1>1. PICK at, next : at = pc /\ next = pc'
  OBVIOUS
<1>2. /\ at \notin EndSteps /\ (next \notin EndSteps \/ next = "fail")
      /\ Continues(at, next) \/ (Raises(at) /\ next = "fail")
      /\ ScriptInv /\ UNCHANGED releaseVars
  BY <1>1 DEF IInv, Raises
<1>3. Keeps
  BY ONLY <1>2, StepKeeps
<1>4. UNCHANGED <<run, gate, judged>>
  BY DEF Continues, Raises, releaseVars
<1>5. run \in Runs
  BY DEF IInv, ScriptInv, Released, EndSteps
<1> QED BY <1>3, <1>4, <1>5

(* The problems are loaded; the loop goes on to a round or past the last. *)
LEMMA LoopKeeps ==
  ASSUME IInv, LoadProblems \/ NextRound \/ RoundsOver
  PROVE  Good
<1> USE DEF EndSteps, Verdicted, OwnSteps, RoundSteps, Generated, Verified, Trains, Exporting,
            EvalSteps
<1>1. CASE FirstWrite("load") /\ UNCHANGED <<roundVars, filesVars>>
  BY <1>1, WriteKeeps
<1>2. CASE /\ (Continues("load", "loop") /\ UNCHANGED releaseVars) \/ Raises("load") \/ RoundsOver
           /\ UNCHANGED <<roundVars, filesVars>>
  <2>1. /\ <<pc, pc'>> \in {<<"load", "loop">>, <<"load", "fail">>, <<"loop", "enter_eval">>}
        /\ pc = "loop" => round = numRounds
        /\ Continues(pc, pc') \/ Raises(pc)
        /\ UNCHANGED releaseVars
    BY <1>2 DEF Continues, Raises, RoundsOver, releaseVars
  <2>2. Keeps /\ UNCHANGED <<run, judged>>
    BY <2>1, RoundStepKeeps
  <2> QED BY <1>2, <2>1, <2>2, Quiet
<1>3. CASE NextRound
  <2>1. /\ pc = "loop" /\ pc' = "enter_gen" /\ round < numRounds /\ mergedDir' = round
        /\ Continues(pc, pc') /\ UNCHANGED releaseVars
        /\ ggufDir' = IF round = numRounds - 1 THEN round ELSE Final
        /\ UNCHANGED <<numRounds, round, source, candidates, model, sft, merged, gguf>>
    BY <1>3 DEF NextRound, Continues, filesVars
  <2>2. Keeps /\ UNCHANGED <<run, gate, judged>>
    BY <2>1, RoundStepKeeps
  <2>3. RftTypeOK'
    BY <2>1, RoundNumbers DEF IInv, RftTypeOK
  <2>4. RoundInv' /\ PassedInv'
    BY <2>1, <2>2 DEF IInv, RoundInv, PassedInv, After
  <2> QED BY <2>1, <2>2, <2>3, <2>4 DEF Good, IInv, Keeps
<1> QED BY <1>1, <1>2, <1>3 DEF LoadProblems, RoundsOver

LEMMA GenerateKeeps ==
  ASSUME IInv, Generate
  PROVE  Good
<1> USE DEF EndSteps, Verdicted, OwnSteps, RoundSteps, Generated, Verified, Trains, Exporting,
            EvalSteps
<1>1. /\ pc = "generate" /\ (Continues(pc, pc') \/ Raises(pc)) /\ UNCHANGED releaseVars
      /\ UNCHANGED <<numRounds, round, source, model, mergedDir, ggufDir, sft, merged, gguf>>
      /\ \/ pc' = "enter_ver" /\ candidates' = source
         \/ pc' = "fail" /\ candidates' = candidates
  BY DEF Generate, Continues, Raises, releaseVars, filesVars
<1>2. Keeps /\ UNCHANGED <<run, gate, judged>>
  BY <1>1, RoundStepKeeps
<1>3. RftTypeOK'
  BY <1>1 DEF IInv, RftTypeOK
<1>4. CASE pc' = "enter_ver"
  <2>1. RoundInv' /\ PassedInv'
    BY <1>1, <1>2, <1>4 DEF IInv, RoundInv, PassedInv, After
  <2> QED BY <1>2, <1>3, <1>4, <2>1 DEF Good, IInv, Keeps
<1> QED BY <1>1, <1>2, <1>3, <1>4, Over

LEMMA VerifyKeeps ==
  ASSUME IInv, Verify
  PROVE  Good
<1> USE DEF EndSteps, Verdicted, OwnSteps, RoundSteps, Generated, Verified, Trains, Exporting,
            EvalSteps
<1>1. /\ pc = "verify" /\ (Continues(pc, pc') \/ Raises(pc)) /\ UNCHANGED releaseVars
      /\ UNCHANGED <<numRounds, round, source, candidates, model, mergedDir, ggufDir, merged, gguf>>
      /\ \/ pc' = "save_counts" /\ sft' = [sft EXCEPT ![round] = candidates]
         \/ pc' = "fail" /\ sft' \in {sft, [sft EXCEPT ![round] = Broken]}
  BY DEF Verify, Continues, Raises, releaseVars, roundVars
<1>2. Keeps /\ UNCHANGED <<run, gate, judged>>
  BY <1>1, RoundStepKeeps
<1>3. RftTypeOK'
  <2>1. sft' \in [Rounds -> Lineages]
    BY <1>1 DEF IInv, RftTypeOK, Lineages
  <2> QED BY <1>1, <2>1 DEF IInv, RftTypeOK
<1>4. CASE pc' = "save_counts"
  <2>1. round \in Rounds /\ candidates = source
    BY <1>1, RoundNumbers DEF IInv, RoundInv
  <2>2. sft'[round] = source
    BY <1>1, <1>4, <2>1 DEF IInv, RftTypeOK
  <2>3. RoundInv' /\ PassedInv'
    BY <1>1, <1>2, <1>4, <2>2 DEF IInv, RoundInv, PassedInv, After
  <2> QED BY <1>2, <1>3, <1>4, <2>3 DEF Good, IInv, Keeps
<1> QED BY <1>1, <1>2, <1>3, <1>4, Over

LEMMA TrainKeeps ==
  ASSUME IInv, Train
  PROVE  Good
<1> USE DEF EndSteps, Verdicted, OwnSteps, RoundSteps, Generated, Verified, Trains, Exporting,
            EvalSteps
<1>1. /\ pc = "train" /\ (Continues(pc, pc') \/ Raises(pc)) /\ UNCHANGED releaseVars
      /\ UNCHANGED <<numRounds, round, source, candidates, mergedDir, ggufDir, sft, merged, gguf>>
      /\ \/ pc' = "merge" /\ model' = Trained(source, sft[round])
         \/ pc' = "fail" /\ model' = model
  BY DEF Train, Continues, Raises, releaseVars, filesVars
<1>2. Keeps /\ UNCHANGED <<run, gate, judged>> /\ run \in Runs
  BY <1>1, RoundStepKeeps
<1>3. round < numRounds /\ source = After(round) /\ sft[round] = source
  BY <1>1 DEF IInv, RoundInv
<1>4. /\ After(round + 1) \in Lineages
      /\ Trained(source, sft[round]) = After(round + 1)
  BY <1>2, <1>3, RoundTrains
<1>5. RftTypeOK'
  BY <1>1, <1>4 DEF IInv, RftTypeOK
<1>6. CASE pc' = "merge"
  <2>1. RoundInv' /\ PassedInv'
    BY <1>1, <1>2, <1>4, <1>6 DEF IInv, RoundInv, PassedInv, After
  <2> QED BY <1>2, <1>5, <1>6, <2>1 DEF Good, IInv, Keeps
<1> QED BY <1>1, <1>2, <1>5, <1>6, Over

LEMMA ExportKeeps ==
  ASSUME IInv, ExportMerged \/ ExportGguf
  PROVE  Good
<1> USE DEF EndSteps, Verdicted, OwnSteps, RoundSteps, Generated, Verified, Trains, Exporting,
            EvalSteps
<1>1. /\ (Continues(pc, pc') \/ Raises(pc)) /\ UNCHANGED releaseVars
      /\ UNCHANGED <<numRounds, round, source, candidates, model, mergedDir, ggufDir, sft>>
      /\ \/ /\ pc = "merge" /\ gguf' = gguf
            /\ \/ pc' = "quantize" /\ merged' = [merged EXCEPT ![mergedDir] = model]
               \/ pc' = "fail" /\ merged' = [merged EXCEPT ![mergedDir] = Broken]
         \/ /\ pc = "quantize" /\ merged' = merged
            /\ \/ pc' = "save_loss" /\ gguf' = [gguf EXCEPT ![ggufDir] = model]
               \/ pc' = "fail" /\ gguf' = [gguf EXCEPT ![ggufDir] = Broken]
  BY DEF ExportMerged, ExportGguf, Continues, Raises, releaseVars, roundVars
<1>2. Keeps /\ UNCHANGED <<run, gate, judged>>
  BY <1>1, RoundStepKeeps
<1>3. /\ mergedDir = round /\ round \in Rounds /\ ggufDir \in GgufDirs
      /\ model = After(round + 1)
  BY <1>1, RoundNumbers DEF IInv, RoundInv
<1>4. RftTypeOK'
  <2>1. merged' \in [Rounds -> Lineages]
    BY <1>1 DEF IInv, RftTypeOK, Lineages
  <2>2. gguf' \in [GgufDirs -> Lineages]
    BY <1>1 DEF IInv, RftTypeOK, Lineages
  <2> QED BY <1>1, <2>1, <2>2 DEF IInv, RftTypeOK
<1>5. CASE pc' # "fail"
  <2>1. merged'[round] = After(round + 1) /\ (pc' = "save_loss" => gguf'[ggufDir] = After(round + 1))
    BY <1>1, <1>3, <1>5 DEF IInv, RftTypeOK, RoundInv
  <2>2. RoundInv' /\ PassedInv'
    BY <1>1, <1>2, <1>5, <2>1 DEF IInv, RoundInv, PassedInv, After
  <2> QED BY <1>1, <1>2, <1>4, <1>5, <2>2 DEF Good, IInv, Keeps
<1> QED BY <1>1, <1>2, <1>4, <1>5, Over

LEMMA EndRoundKeeps ==
  ASSUME IInv, EndRound
  PROVE  Good
<1> USE DEF EndSteps, Verdicted, OwnSteps, RoundSteps, Generated, Verified, Trains, Exporting,
            EvalSteps
<1>1. /\ pc = "end_round" /\ pc' = "loop" /\ Continues(pc, pc') /\ UNCHANGED releaseVars
      /\ UNCHANGED <<numRounds, candidates, model, mergedDir, ggufDir, sft, merged, gguf>>
      /\ round' = round + 1 /\ source' = merged[mergedDir]
  BY DEF EndRound, Continues, filesVars
<1>2. Keeps /\ UNCHANGED <<run, gate, judged>>
  BY <1>1, RoundStepKeeps
<1>3. /\ mergedDir = round /\ round \in Rounds /\ round < numRounds /\ round + 1 \in 0..numRounds
      /\ merged[round] = After(round + 1) /\ gguf[ggufDir] = After(round + 1)
      /\ ggufDir = IF round = numRounds - 1 THEN round ELSE Final
      /\ round \in Nat /\ numRounds \in Nat
  BY <1>1, RoundNumbers DEF IInv, RoundInv
<1>4. RftTypeOK'
  <2>1. merged[mergedDir] \in Lineages
    BY <1>3 DEF IInv, RftTypeOK
  <2> QED BY <1>1, <1>3, <2>1 DEF IInv, RftTypeOK
<1>5. (source = After(round))' /\ Exported'
  <2>1. round' # 0 /\ round' - 1 = round
    BY <1>1, <1>3
  <2>2. After(round)' = After(round + 1)
    BY <1>1, <1>2 DEF After
  <2>3. source' = After(round)' /\ merged'[round] = After(round)'
    BY <1>1, <1>3, <2>2
  <2>4. round' = numRounds' => ggufDir' = round /\ gguf'[round] = After(round)'
    <3>1. round + 1 = numRounds => ggufDir = round
      BY <1>3
    <3> QED BY <1>1, <1>3, <2>2, <3>1
  <2> QED BY <1>1, <1>3, <2>1, <2>3, <2>4 DEF Exported
<1>6. RoundInv' /\ PassedInv'
  BY <1>1, <1>5 DEF RoundInv, PassedInv
<1> QED BY <1>1, <1>2, <1>4, <1>6 DEF Good, IInv, Keeps

(* run_round, in the order of the code. *)
LEMMA RunRoundKeeps ==
  ASSUME IInv, RunRound
  PROVE  Good
BY WriteKeeps, GenerateKeeps, VerifyKeeps, TrainKeeps, ExportKeeps, EndRoundKeeps DEF RunRound

(* Without a round there is no directory to evaluate; otherwise the last    *)
(* round's is judged. *)
LEMMA EvaluateKeeps ==
  ASSUME IInv, Evaluate
  PROVE  Good
<1> USE DEF EndSteps, Verdicted, OwnSteps, RoundSteps, Generated, Verified, Trains, Exporting,
            EvalSteps
<1>1. /\ pc = "evaluate" /\ run \in Runs /\ Exported /\ round = numRounds
      /\ UNCHANGED <<roundVars, filesVars>>
  BY DEF Evaluate, Judges, Continues, Raises, IInv, RoundInv, ScriptInv, Released
<1>2. CASE Raises("evaluate") \/ (Continues("evaluate", "fail") /\ UNCHANGED releaseVars)
  <2>1. pc' = "fail" /\ (Continues(pc, pc') \/ Raises(pc)) /\ UNCHANGED releaseVars
    BY <1>1, <1>2 DEF Continues, Raises, releaseVars
  <2>2. Keeps /\ UNCHANGED <<run, judged>>
    BY <1>1, <2>1, RoundStepKeeps
  <2> QED BY <1>1, <2>1, <2>2, Quiet
<1>3. CASE mergedDir # None /\ Judges(Finished(merged[mergedDir]))
  <2>1. round # 0
    BY <1>1, <1>3 DEF Exported
  <2>2. PICK w \in {0, run} : w = Finished(merged[mergedDir]) /\ w = run
    BY <1>1, <2>1, LastWeights
  <2>3. /\ pc' = "record" /\ UNCHANGED run /\ Judges(w)
        /\ judged' = [x \in Runs |-> IF x = w THEN gate' ELSE judged[x]]
    BY <1>3, <2>2 DEF Judges
  <2>4. Keeps
    BY <2>3, JudgesKeeps DEF IInv
  <2>5. judged'[run] = gate'
    BY <1>1, <2>2, <2>3
  <2>6. UNCHANGED <<numRounds, round, source, candidates, model, mergedDir, ggufDir, sft, merged, gguf>>
    BY <1>1 DEF roundVars, filesVars
  <2>7. RftTypeOK'
    BY <2>6 DEF IInv, RftTypeOK
  <2>8. Exported'
    BY <1>1, <2>3, <2>6 DEF Exported, After
  <2>9. RoundInv' /\ PassedInv'
    BY <1>1, <2>1, <2>3, <2>5, <2>6, <2>8 DEF RoundInv, PassedInv
  <2> QED BY <2>3, <2>4, <2>7, <2>9 DEF Good, IInv, Keeps
<1> QED BY <1>2, <1>3 DEF Evaluate

(* The verdict and the release. *)
LEMMA PublishKeeps ==
  ASSUME IInv, RecordAndPublish
  PROVE  Good
<1> USE DEF EndSteps, Verdicted, OwnSteps, RoundSteps, Generated, Verified, Trains, Exporting,
            EvalSteps
<1>1. Keeps
  <2>1. PICK w : w = IF ggufDir = None THEN 0 ELSE Finished(gguf[ggufDir])
    OBVIOUS
  <2>2. AfterEvaluation(w)
    BY <2>1 DEF RecordAndPublish
  <2>3. pc = "upload" => w = run /\ judged[run] = "pass"
    <3> SUFFICES ASSUME pc = "upload" PROVE w = run /\ judged[run] = "pass"
      OBVIOUS
    <3>1. Exported /\ round = numRounds /\ round # 0 /\ run \in Runs /\ judged[run] = "pass"
      BY DEF IInv, RoundInv, PassedInv, ScriptInv, Released
    <3> QED BY <2>1, <3>1, LastWeights
  <2> QED BY <2>2, <2>3, AfterEvaluationKeeps DEF IInv
<1>2. UNCHANGED <<run, judged, roundVars, filesVars>>
  BY DEF RecordAndPublish, AfterEvaluation, RecordVerdict, CreateRepo, UploadFolder,
     PublishRaises, PushCard, Announce, RecordUnpublished, Finish, Fail, Exits, Enters, Saves,
     Continues, releaseVars
<1>3. \/ pc' \in {"ended", "exit", "finish"}
      \/ pc = "record" /\ gate = "pass" /\ pc' = "create"
      \/ pc \in {"create", "upload", "card", "announce"}
         /\ pc' \in {"upload", "card", "announce", "unpublished"}
  BY DEF RecordAndPublish, AfterEvaluation, RecordVerdict, CreateRepo, UploadFolder,
     PublishRaises, PushCard, Announce, RecordUnpublished, Finish, Fail, Exits, Enters, Saves,
     Continues
<1>4. pc' = "finish" => pc \in EvalSteps
  BY DEF RecordAndPublish, AfterEvaluation, RecordVerdict, CreateRepo, UploadFolder,
     PublishRaises, PushCard, Announce, RecordUnpublished, Finish, Fail, Exits, Enters, Saves,
     Continues
<1> QED BY <1>1, <1>2, <1>3, <1>4, Quiet

(* A death leaves at most the file under way broken. *)
LEMMA DeathKeeps ==
  ASSUME IInv, DiesAnywhere
  PROVE  Good
<1>1. Keeps
  BY DiesKeeps DEF IInv, DiesAnywhere
<1>2. /\ pc' = "ended"
      /\ UNCHANGED <<numRounds, round, source, candidates, model, mergedDir, ggufDir>>
      /\ sft' \in {sft, [sft EXCEPT ![round] = Broken]}
      /\ merged' \in {merged, [merged EXCEPT ![mergedDir] = Broken]}
      /\ gguf' \in {gguf, [gguf EXCEPT ![ggufDir] = Broken]}
  BY DEF DiesAnywhere, Dies, roundVars
<1>3. RftTypeOK'
  <2>1. Broken \in Lineages /\ {sft, merged} \subseteq [Rounds -> Lineages]
        /\ gguf \in [GgufDirs -> Lineages]
    BY DEF Lineages, IInv, RftTypeOK
  <2>2. sft' \in [Rounds -> Lineages]
    BY <1>2, <2>1
  <2>3. merged' \in [Rounds -> Lineages]
    BY <1>2, <2>1
  <2>4. gguf' \in [GgufDirs -> Lineages]
    BY <1>2, <2>1
  <2> QED BY <1>2, <2>2, <2>3, <2>4 DEF IInv, RftTypeOK
<1> QED BY <1>1, <1>2, <1>3, Over

LEMMA LaunchKeeps ==
  ASSUME IInv, Launched
  PROVE  Good
<1> USE DEF EndSteps, Verdicted, OwnSteps, RoundSteps, Generated, Verified, Trains, Exporting,
            EvalSteps
<1>1. Keeps
  BY BeginKeeps DEF IInv, Launched
<1>2. /\ pc' = "first" /\ numRounds' \in 0..MaxRounds /\ round' = 0 /\ source' = Base
      /\ candidates' = Base /\ model' = Base /\ mergedDir' = None /\ ggufDir' = None
      /\ UNCHANGED <<sft, merged, gguf>>
  BY DEF Launched, Begin, filesVars
<1>3. RftTypeOK'
  BY <1>2, RoundsAssumption DEF IInv, RftTypeOK, Lineages
<1>4. RoundInv' /\ PassedInv'
  BY <1>2 DEF RoundInv, PassedInv
<1> QED BY <1>1, <1>2, <1>3, <1>4 DEF Good, IInv, Keeps

LEMMA StayKeeps ==
  ASSUME IInv, UNCHANGED vars
  PROVE  Good
<1>1. Keeps
  BY StutterKeeps DEF IInv, vars
<1>2. UNCHANGED <<run, pc, gate, judged, numRounds, round, source, candidates, model, mergedDir,
                  ggufDir, sft, merged, gguf>>
  BY DEF vars, scriptVars, roundVars, filesVars
<1>3. RoundInv'
  BY <1>2 DEF IInv, RoundInv, Exported, After
<1> QED BY <1>1, <1>2, <1>3 DEF Good, IInv, Keeps, RftTypeOK, PassedInv

LEMMA StartHolds ==
  ASSUME Init
  PROVE  IInv /\ Contract!Init /\ Release!Init
<1> USE DEF EndSteps, Verdicted, OwnSteps, RoundSteps, Generated, Verified, Trains, Exporting,
            EvalSteps
<1>1. ScriptInv /\ Contract!Init /\ Release!Init
  BY InitHolds DEF Init
<1>2. pc = "ended"
  BY DEF Init, ScriptInit
<1>3. RftTypeOK
  BY RoundsAssumption DEF Init, RftTypeOK, Lineages
<1>4. RoundInv /\ PassedInv
  BY <1>2 DEF RoundInv, PassedInv
<1> QED BY <1>1, <1>2, <1>3, <1>4 DEF IInv

LEMMA NextKeeps ==
  ASSUME IInv, [Next]_vars
  PROVE  Good
BY LoopKeeps, RunRoundKeeps, WriteKeeps, EvaluateKeeps, PublishKeeps, DeathKeeps, LaunchKeeps,
   StayKeeps DEF Next, Step

(* The inductive invariant holds of every reachable state.                  *)
THEOREM Invariance == Spec => []IInv
<1>1. Init => IInv
  BY StartHolds
<1>2. IInv /\ [Next]_vars => IInv'
  BY NextKeeps DEF Good
<1> QED BY <1>1, <1>2, PTL DEF Spec

(* Every state is of the expected shape: the rounds and files of            *)
(* run_stage4.py, and the status.                                           *)
THEOREM TypeCorrect == Spec => []TypeOK
<1>1. IInv => TypeOK
  BY DEF IInv, ScriptInv, RftTypeOK, TypeOK
<1> QED BY <1>1, Invariance, PTL

(* Each round goes on from the weights the one before it exported, whatever *)
(* is left in the files of the same names.                                  *)
THEOREM RoundsChain == Spec => []RoundsBuildOnEachOther
<1>1. IInv => RoundsBuildOnEachOther
  BY DEF IInv, RoundInv, After, RoundsBuildOnEachOther
<1> QED BY <1>1, Invariance, PTL

(* The model judged and uploaded has been through all the rounds of its     *)
(* run.                                                                     *)
THEOREM AllRoundsAreEvaluated == Spec => []EvaluatesAllRounds
<1>1. IInv => EvaluatesAllRounds
  <2> SUFFICES ASSUME IInv, pc \in {"record", "create", "upload"}
               PROVE  mergedDir # None /\ merged[mergedDir] = [by |-> run, rounds |-> numRounds]
    BY DEF EvaluatesAllRounds
  <2>1. Exported /\ round = numRounds /\ round # 0 /\ run \in Runs
    BY DEF IInv, RoundInv, EvalSteps, Verdicted, ScriptInv, Released
  <2> QED BY <2>1, LastWeights
<1> QED BY <1>1, Invariance, PTL

(* run_stage4.py keeps the contract of the controllers and the promise      *)
(* about the repo: it implements JobContract and GatedRelease.              *)
THEOREM ImplementsPromises == Spec => KeepsPromises
<1>1. Init => Contract!Init /\ Release!Init
  BY StartHolds
<1>2. IInv /\ [Next]_vars => [Contract!Next]_(Contract!vars) /\ [Release!Next]_(Release!vars)
  BY NextKeeps DEF Good, ContractStep, ReleaseStep
<1> QED
  BY <1>1, <1>2, Invariance, PTL DEF Spec, KeepsPromises, Contract!Spec, Release!Spec

(* Whatever the repo holds and whatever run_stage4.py reported as           *)
(* published passed its gate; a judgement, a verdict and a DONE stand       *)
(* until the next run writes, and DONE is never without a verdict: readers  *)
(* of status.json and of the repo may rely on the two abstract              *)
(* specifications alone.                                                    *)
THEOREM PromisesAreUsable ==
  Spec => /\ []Release!OnlyPassesLeave /\ Release!JudgedOnce
          /\ []Contract!DoneHasVerdict /\ Contract!StatusStands
BY ImplementsPromises, ContractConclusions, ReleaseConclusions, PTL DEF KeepsPromises
=============================================================================
