-------------------------- MODULE FrontierRunProofs --------------------------
(***************************************************************************)
(* Safety of FrontierRun for any selections, any number of runs and any    *)
(* faults, and that it keeps the contract of the controllers and of the    *)
(* repo.                                                                   *)
(***************************************************************************)
EXTENDS FrontierRun, StageScriptProofs

(* The steps up to the data, with the SFT, with the ORPO, and after them.   *)
HereticSteps == {"enter_heretic", "heretic"}
DataSteps == {"enter_prep", "prepare"}
SftSteps == {"enter_sft", "train_sft", "merge_sft"}
OrpoSteps == {"enter_orpo", "train_orpo", "merge_orpo"}
EvalSteps == {"enter_eval", "evaluate", "record"} \cup Verdicted

OwnSteps == HereticSteps \cup DataSteps \cup SftSteps \cup OrpoSteps \cup {"enter_eval", "evaluate"}

(* Weights of this run.                                                     *)
Made(steps) == [by |-> run, steps |-> steps]

(* The outcome of the abliteration is the target when there is one.         *)
AfterHeretic ==
  IF Runs_heretic THEN target = "heretic" /\ out["heretic"] = Made({"heretic"})
  ELSE target = "base"

(* The target is what the last step asked for left.                         *)
LastTarget ==
  IF Runs_orpo THEN target = "orpo" /\ out["orpo"] = Made({"sft", "orpo"})
  ELSE IF Runs_sft THEN target = "sft" /\ out["sft"] = Made({"sft"})
  ELSE AfterHeretic

LineageInv ==
  /\ pc \in HereticSteps => Runs_heretic
  /\ pc \in HereticSteps \cup {"first"} => target = "base"
  /\ pc \in DataSteps \cup SftSteps => AfterHeretic
  /\ pc \in SftSteps => Runs_sft
  /\ pc = "merge_sft" => out["sft_lora"] = Made({"sft"})
  /\ pc \in OrpoSteps => Runs_orpo /\ target = "sft" /\ out["sft"] = Made({"sft"})
  /\ pc = "merge_orpo" => out["orpo_lora"] = Made({"sft", "orpo"})
  /\ pc \in SftSteps \cup OrpoSteps => data = run
  /\ pc \in EvalSteps => LastTarget

(* What is published passed, unless it is the model as it was.              *)
PassedInv ==
  pc \in Verdicted \ {"finish"} \/ (pc = "record" /\ gate = "pass") =>
    target = "base" \/ judged[run] = "pass"

IInv ==
  /\ ScriptInv
  /\ pc \in OwnSteps \cup EndSteps
  /\ selected \in Selections /\ skip \in BOOLEAN /\ target \in {"base"} \cup Steps
  /\ data \in 0..MaxRuns /\ out \in [Dirs -> Weights]
  /\ LineageInv /\ PassedInv

Good == IInv' /\ ContractStep /\ ReleaseStep

LEMMA WeightsOfRun ==
  ASSUME ScriptInv, NEW steps, steps \subseteq Steps
  PROVE  /\ Made(steps) \in Weights /\ Broken \in Weights /\ Base \in Weights
         /\ Base # Broken
BY ScriptAssumption DEF Made, Weights, Broken, Base, Steps, ScriptInv, ScriptTypeOK

(* A further step on weights of this run, or on the base model. *)
LEMMA ThroughOne ==
  ASSUME ScriptInv, run \in Runs
  PROVE  /\ Through("heretic", Base) = Made({"heretic"})
         /\ Through("sft", Base) = Made({"sft"})
         /\ Through("orpo", Made({"sft"})) = Made({"sft", "orpo"})
<1>1. run # 0
  BY ScriptAssumption DEF Runs
<1>2. Base # Broken /\ Base.by = 0 /\ Base.steps = {}
  BY DEF Base, Broken, Steps
<1>3. Made({"sft"}) # Broken /\ Made({"sft"}).by = run /\ Made({"sft"}).steps = {"sft"}
  BY <1>1 DEF Made, Broken
<1> QED BY <1>2, <1>3 DEF Through, Made

(* A step that leaves arguments, data and directories alone, and goes where *)
(* what is known of them was known already. *)
LEMMA Quiet ==
  ASSUME IInv, Keeps, UNCHANGED <<run, judged, argVars, target, data, out>>,
         pc' \in OwnSteps \cup EndSteps,
         pc' \in HereticSteps => Runs_heretic,
         pc' \in HereticSteps \cup {"first"} => pc \in HereticSteps \cup {"first"},
         pc' \in DataSteps => pc \in DataSteps \/ (pc = "first" /\ ~Runs_heretic),
         pc' \in SftSteps => pc \in SftSteps,
         pc' = "merge_sft" => pc = "merge_sft",
         pc' \in OrpoSteps => pc \in OrpoSteps,
         pc' = "merge_orpo" => pc = "merge_orpo",
         pc' \in EvalSteps => pc \in EvalSteps,
         pc' # "record",
         pc' \in Verdicted \ {"finish"} =>
           pc \in Verdicted \ {"finish"} \/ (pc = "record" /\ gate = "pass")
  PROVE  Good
<1>1. selected' \in Selections /\ skip' \in BOOLEAN /\ target' \in {"base"} \cup Steps
      /\ data' \in 0..MaxRuns /\ out' \in [Dirs -> Weights]
  BY DEF IInv, argVars
<1>2. pc \in HereticSteps \cup {"first"} => target = "base"
  BY DEF IInv, LineageInv
<1>3. pc' \in DataSteps \cup SftSteps => AfterHeretic
  BY <1>2 DEF IInv, LineageInv, AfterHeretic
<1>4. AfterHeretic' <=> AfterHeretic
  BY DEF AfterHeretic, Runs_heretic, Made, argVars
<1>5. LastTarget' <=> LastTarget
  BY <1>4 DEF LastTarget, Runs_orpo, Runs_sft, Made, argVars
<1>6. LineageInv'
  BY <1>3, <1>4, <1>5
     DEF IInv, LineageInv, Runs_heretic, Runs_sft, Runs_orpo, Made, argVars
<1>7. PassedInv'
  BY DEF IInv, PassedInv
<1> QED BY <1>1, <1>6, <1>7 DEF Good, IInv, Keeps

(* Where a stage that is entered lies. *)
LEMMA EnterKeeps ==
  ASSUME IInv, EntersStage
  PROVE  Good
<1> USE DEF EndSteps, Verdicted, OwnSteps, HereticSteps, DataSteps, SftSteps, OrpoSteps, EvalSteps
<1>1. UNCHANGED <<run, judged, argVars, target, data, out>>
  BY DEF EntersStage, FirstWrite, Enters, Saves, releaseVars
<1>2. /\ <<pc, pc'>> \in
           {<<"first", "enter_heretic">>, <<"first", "enter_prep">>,
            <<"enter_heretic", "heretic">>, <<"enter_prep", "prepare">>,
            <<"enter_sft", "train_sft">>, <<"enter_orpo", "train_orpo">>,
            <<"enter_eval", "evaluate">>}
         \/ pc' = "ended"
      /\ pc' = "enter_heretic" => Runs_heretic
      /\ pc' = "enter_prep" => ~Runs_heretic
  BY DEF EntersStage, FirstWrite, Enters, Saves, AfterFirst
<1>3. Keeps
  <2>1. PICK at, next, onError, kind : \E status \in {mem, [mem EXCEPT !.stage = kind]} :
          /\ Saves(at, status, next, onError) /\ UNCHANGED releaseVars
          /\ <<at, next, onError, kind>> \in
               {<<"first", "enter_heretic", "ended", "setup">>,
                <<"first", "enter_prep", "ended", "setup">>,
                <<"enter_heretic", "heretic", "ended", "abliterating">>,
                <<"enter_prep", "prepare", "ended", "preparing_data">>,
                <<"enter_sft", "train_sft", "ended", "training_sft">>,
                <<"enter_orpo", "train_orpo", "ended", "training_orpo">>,
                <<"enter_eval", "evaluate", "ended", "evaluating">>}
    <3>1. CASE FirstWrite(AfterFirst)
      BY <3>1 DEF FirstWrite, AfterFirst
    <3>2. CASE Enters("enter_heretic", "abliterating", "heretic")
      BY <3>2 DEF Enters
    <3>3. CASE Enters("enter_prep", "preparing_data", "prepare")
      BY <3>3 DEF Enters
    <3>4. CASE Enters("enter_sft", "training_sft", "train_sft")
      BY <3>4 DEF Enters
    <3>5. CASE Enters("enter_orpo", "training_orpo", "train_orpo")
      BY <3>5 DEF Enters
    <3>6. CASE Enters("enter_eval", "evaluating", "evaluate")
      BY <3>6 DEF Enters
    <3> QED BY <3>1, <3>2, <3>3, <3>4, <3>5, <3>6 DEF EntersStage
  <2>2. /\ at \notin EndSteps \/ at = "first"
        /\ next \notin EndSteps /\ onError \in {"ended", "fail"}
        /\ at = "first" => onError = "ended"
        /\ kind \in BusyStages
    BY <2>1 DEF BusyStages
  <2>3. ScriptInv /\ UNCHANGED releaseVars /\
        (Saves(at, mem, next, onError) \/ Saves(at, [mem EXCEPT !.stage = kind], next, onError))
    BY <2>1 DEF IInv
  <2> QED BY ONLY <2>2, <2>3, SaveStageKeeps
<1>4. pc = "enter_heretic" => Runs_heretic
  BY DEF IInv, LineageInv
<1> QED BY <1>1, <1>2, <1>3, <1>4, Quiet

(* A subprocess, done or failed. *)
LEMMA CommandKeeps ==
  ASSUME ScriptInv, NEW at, NEW next, at \notin EndSteps, next \notin EndSteps, NEW d, NEW w,
         Command(at, next, d, w)
  PROVE  /\ Keeps /\ pc = at /\ UNCHANGED <<run, gate, judged, argVars, data>>
         /\ \/ pc' = next /\ out' = [out EXCEPT ![d] = w]
            \/ pc' = "fail" /\ out' = [out EXCEPT ![d] = Broken]
<1>1. Continues(at, next) \/ Raises(at)
  BY DEF Command
<1>2. UNCHANGED releaseVars /\ (Continues(at, next) \/ (Raises(at) /\ pc' = "fail"))
  BY DEF Command, Raises, releaseVars
<1>3. Keeps
  <2>1. CASE Continues(at, next)
    <3>1. Continues(at, next) /\ UNCHANGED releaseVars
      BY <1>2, <2>1
    <3> QED BY <3>1, StepKeeps
  <2>2. CASE Raises(at)
    <3>1. PICK n : n = "fail"
      OBVIOUS
    <3>2. n \notin EndSteps \/ n = "fail"
      BY <3>1
    <3>3. Continues(at, n) \/ (Raises(at) /\ n = "fail")
      BY <2>2, <3>1
    <3> QED BY <1>2, <3>2, <3>3, StepKeeps
  <2> QED BY <1>1, <2>1, <2>2
<1> QED BY <1>3 DEF Command, Continues, Raises, releaseVars

(* What a subprocess may leave of the lineage: nothing, or weights w in d.  *)
LEMMA OutStands ==
  ASSUME IInv, NEW d \in Dirs, NEW w \in Weights,
         out' = [out EXCEPT ![d] = w] \/ out' = [out EXCEPT ![d] = Broken]
  PROVE  /\ out' \in [Dirs -> Weights]
         /\ \A e \in Dirs : e # d => out'[e] = out[e]
         /\ out'[d] \in {w, Broken} /\ (out' = [out EXCEPT ![d] = w] => out'[d] = w)
<1>1. Broken \in Weights /\ out \in [Dirs -> Weights]
  BY WeightsOfRun DEF IInv
<1> QED BY <1>1

LEMMA HereticKeeps ==
  ASSUME IInv, RunHeretic
  PROVE  Good
<1> USE DEF EndSteps, Verdicted, OwnSteps, HereticSteps, DataSteps, SftSteps, OrpoSteps, EvalSteps
<1>1. PICK at, next, d, w : at = "heretic" /\ next = "enter_prep" /\ d = "heretic"
                            /\ w = Made({"heretic"})
  OBVIOUS
<1>2. pc = "heretic" /\ run \in Runs /\ Runs_heretic
  BY DEF RunHeretic, Command, Continues, Raises, IInv, ScriptInv, Released, LineageInv
<1>3. Command(at, next, d, w)
  BY <1>1, <1>2, ThroughOne DEF RunHeretic, IInv
<1>4. at \notin EndSteps /\ next \notin EndSteps /\ ScriptInv
  BY <1>1 DEF IInv
<1>5. /\ Keeps /\ UNCHANGED <<run, gate, judged, argVars, data>>
      /\ \/ pc' = next /\ out' = [out EXCEPT ![d] = w]
         \/ pc' = "fail" /\ out' = [out EXCEPT ![d] = Broken]
  BY ONLY <1>3, <1>4, CommandKeeps
<1>6. d \in Dirs /\ w \in Weights
  BY <1>1, <1>4, WeightsOfRun DEF Dirs, Steps
<1>7. out' \in [Dirs -> Weights] /\ (pc' = "enter_prep" => out'["heretic"] = Made({"heretic"}))
  <2>1. /\ out' \in [Dirs -> Weights]
        /\ out' = [out EXCEPT ![d] = w] => out'[d] = w
    BY <1>5, <1>6, OutStands
  <2> QED BY <1>1, <1>5, <2>1
<1>8. target' = IF pc' = "fail" THEN target ELSE "heretic"
  BY DEF RunHeretic
<1>9. selected' \in Selections /\ skip' \in BOOLEAN /\ target' \in {"base"} \cup Steps
      /\ data' \in 0..MaxRuns
  BY <1>5, <1>8 DEF IInv, argVars, Steps
<1>10. pc' = "fail" \/ (pc' = "enter_prep" /\ AfterHeretic')
  BY <1>1, <1>2, <1>5, <1>7, <1>8 DEF AfterHeretic, Runs_heretic, Made, argVars
<1>11. LineageInv' /\ PassedInv'
  BY <1>10 DEF LineageInv, PassedInv
<1> QED BY <1>5, <1>7, <1>9, <1>10, <1>11 DEF Good, IInv, Keeps

LEMMA BuildDataKeeps ==
  ASSUME IInv, BuildData
  PROVE  Good
<1> USE DEF EndSteps, Verdicted, OwnSteps, HereticSteps, DataSteps, SftSteps, OrpoSteps, EvalSteps
<1>1. /\ pc = "prepare" /\ UNCHANGED <<run, gate, judged, argVars, target, out>>
      /\ \/ pc' = AfterData /\ data' = run /\ Continues("prepare", AfterData)
         \/ pc' = "fail" /\ data' \in {data, 0} /\ Raises("prepare")
      /\ UNCHANGED releaseVars
  BY DEF BuildData, Continues, Raises, releaseVars
<1>2. Keeps
  <2>1. PICK at, next : at = "prepare" /\ next = pc'
    OBVIOUS
  <2>2. next \in {"enter_sft", "enter_eval", "fail"}
    BY <1>1, <2>1 DEF AfterData
  <2>3. /\ at \notin EndSteps /\ (next \notin EndSteps \/ next = "fail")
        /\ Continues(at, next) \/ (Raises(at) /\ next = "fail")
        /\ ScriptInv /\ UNCHANGED releaseVars
    BY <1>1, <2>1, <2>2 DEF IInv
  <2> QED BY ONLY <2>3, StepKeeps
<1>3. AfterHeretic
  BY <1>1 DEF IInv, LineageInv
<1>4. AfterHeretic' /\ (LastTarget' <=> LastTarget)
  BY <1>1, <1>3 DEF AfterHeretic, LastTarget, Runs_heretic, Runs_orpo, Runs_sft, Made, argVars
<1>5. \/ pc' = "fail"
      \/ pc' = "enter_sft" /\ Runs_sft' /\ data' = run'
      \/ pc' = "enter_eval" /\ LastTarget'
  BY <1>1, <1>3, <1>4 DEF AfterData, LastTarget, Runs_orpo, Runs_sft, argVars
<1>6. selected' \in Selections /\ skip' \in BOOLEAN /\ target' \in {"base"} \cup Steps
      /\ data' \in 0..MaxRuns /\ out' \in [Dirs -> Weights]
  BY <1>1, ScriptAssumption DEF IInv, ScriptInv, ScriptTypeOK, argVars
<1>7. LineageInv' /\ PassedInv'
  BY <1>4, <1>5 DEF LineageInv, PassedInv
<1> QED BY <1>2, <1>5, <1>6, <1>7 DEF Good, IInv, Keeps

LEMMA SftKeeps ==
  ASSUME IInv, RunSft \/ MergeSft
  PROVE  Good
<1> USE DEF EndSteps, Verdicted, OwnSteps, HereticSteps, DataSteps, SftSteps, OrpoSteps, EvalSteps
<1>1. /\ pc \in {"train_sft", "merge_sft"} /\ run \in Runs /\ data = run /\ Runs_sft /\ AfterHeretic
      /\ pc = "merge_sft" => out["sft_lora"] = Made({"sft"})
  BY DEF RunSft, MergeSft, Command, Continues, Raises, IInv, ScriptInv, Released, LineageInv
<1>2. PICK next, d : /\ next = IF pc = "train_sft" THEN "merge_sft" ELSE AfterSft
                     /\ d = IF pc = "train_sft" THEN "sft_lora" ELSE "sft"
  OBVIOUS
<1>3. PICK at, w : at = pc /\ w = Made({"sft"})
  OBVIOUS
<1>4. Command(at, next, d, w)
  <2>1. CASE RunSft
    <3>1. pc = "train_sft" /\ TrainedOn("sft", Base) = w
      BY <1>1, <1>3, <2>1, ThroughOne DEF RunSft, Command, Continues, Raises, TrainedOn, IInv
    <3> QED BY <1>2, <1>3, <2>1, <3>1 DEF RunSft
  <2>2. CASE MergeSft
    <3>1. pc = "merge_sft" /\ out["sft_lora"] = w
      BY <1>1, <1>3, <2>2 DEF MergeSft, Command, Continues, Raises
    <3> QED BY <1>2, <1>3, <2>2, <3>1 DEF MergeSft
  <2> QED BY <2>1, <2>2
<1>5. at \notin EndSteps /\ next \notin EndSteps /\ ScriptInv
  BY <1>1, <1>2, <1>3 DEF IInv, AfterSft
<1>6. /\ Keeps /\ UNCHANGED <<run, gate, judged, argVars, data>>
      /\ \/ pc' = next /\ out' = [out EXCEPT ![d] = w]
         \/ pc' = "fail" /\ out' = [out EXCEPT ![d] = Broken]
  BY ONLY <1>4, <1>5, CommandKeeps
<1>7. d \in Dirs /\ w \in Weights /\ "heretic" \in Dirs /\ "sft" \in Dirs /\ "sft_lora" \in Dirs
  BY <1>2, <1>3, <1>5, WeightsOfRun DEF Dirs, Steps
<1>8. /\ out' \in [Dirs -> Weights] /\ out'["heretic"] = out["heretic"]
      /\ pc' = next => out'[d] = w
  <2>1. /\ out' \in [Dirs -> Weights] /\ \A e \in Dirs : e # d => out'[e] = out[e]
        /\ out' = [out EXCEPT ![d] = w] => out'[d] = w
    BY <1>6, <1>7, OutStands
  <2>2. next # "fail" /\ d # "heretic"
    BY <1>2, <1>5
  <2> QED BY <1>6, <1>7, <2>1, <2>2
<1>9. target' = IF pc = "train_sft" \/ pc' = "fail" THEN target ELSE "sft"
  BY DEF RunSft, MergeSft, Command, Continues, Raises
<1>10. selected' \in Selections /\ skip' \in BOOLEAN /\ target' \in {"base"} \cup Steps
       /\ data' \in 0..MaxRuns
  BY <1>6, <1>9 DEF IInv, argVars, Steps
<1>11. /\ (Runs_sft' <=> Runs_sft) /\ (Runs_orpo' <=> Runs_orpo) /\ (Runs_heretic' <=> Runs_heretic)
       /\ Made({"sft"})' = Made({"sft"}) /\ data' = run'
  BY <1>1, <1>6 DEF Runs_sft, Runs_orpo, Runs_heretic, Made, argVars
<1>12. \/ pc' = "fail"
       \/ /\ pc' = "merge_sft" /\ out'["sft_lora"] = Made({"sft"})' /\ AfterHeretic'
       \/ /\ pc' = "enter_orpo" /\ Runs_orpo' /\ target' = "sft" /\ out'["sft"] = Made({"sft"})'
       \/ /\ pc' = "enter_eval" /\ LastTarget'
  <2>1. CASE pc = "train_sft"
    <3>1. AfterHeretic'
      BY <1>1, <1>6, <1>8, <1>9, <1>11, <2>1 DEF AfterHeretic, Made
    <3> QED BY <1>2, <1>3, <1>6, <1>8, <1>11, <2>1, <3>1
  <2>2. CASE pc = "merge_sft"
    <3>1. next = AfterSft /\ d = "sft"
      BY <1>2, <2>2
    <3>2. CASE pc' = next /\ pc' # "fail"
      <4>1. target' = "sft" /\ out'["sft"] = Made({"sft"})'
        BY <1>3, <1>8, <1>9, <1>11, <2>2, <3>1, <3>2
      <4> QED BY <1>1, <1>11, <3>1, <3>2, <4>1 DEF AfterSft, LastTarget
    <3> QED BY <1>5, <1>6, <3>2
  <2> QED BY <1>1, <2>1, <2>2
<1>13. LineageInv' /\ PassedInv'
  BY <1>1, <1>11, <1>12 DEF LineageInv, PassedInv
<1> QED BY <1>6, <1>8, <1>10, <1>12, <1>13 DEF Good, IInv, Keeps

LEMMA OrpoKeeps ==
  ASSUME IInv, RunOrpo \/ MergeOrpo
  PROVE  Good
<1> USE DEF EndSteps, Verdicted, OwnSteps, HereticSteps, DataSteps, SftSteps, OrpoSteps, EvalSteps
<1>1. /\ pc \in {"train_orpo", "merge_orpo"} /\ run \in Runs /\ data = run /\ Runs_orpo
      /\ target = "sft" /\ out["sft"] = Made({"sft"})
      /\ pc = "merge_orpo" => out["orpo_lora"] = Made({"sft", "orpo"})
  BY DEF RunOrpo, MergeOrpo, Command, Continues, Raises, IInv, ScriptInv, Released, LineageInv
<1>2. PICK next, d : /\ next = IF pc = "train_orpo" THEN "merge_orpo" ELSE "enter_eval"
                     /\ d = IF pc = "train_orpo" THEN "orpo_lora" ELSE "orpo"
  OBVIOUS
<1>3. PICK at, w : at = pc /\ w = Made({"sft", "orpo"})
  OBVIOUS
<1>4. Command(at, next, d, w)
  <2>1. CASE RunOrpo
    <3>1. pc = "train_orpo" /\ TrainedOn("orpo", out["sft"]) = w
      BY <1>1, <1>3, <2>1, ThroughOne DEF RunOrpo, Command, Continues, Raises, TrainedOn, IInv
    <3> QED BY <1>2, <1>3, <2>1, <3>1 DEF RunOrpo
  <2>2. CASE MergeOrpo
    <3>1. pc = "merge_orpo" /\ out["orpo_lora"] = w
      BY <1>1, <1>3, <2>2 DEF MergeOrpo, Command, Continues, Raises
    <3> QED BY <1>2, <1>3, <2>2, <3>1 DEF MergeOrpo
  <2> QED BY <2>1, <2>2
<1>5. at \notin EndSteps /\ next \notin EndSteps /\ ScriptInv
  BY <1>1, <1>2, <1>3 DEF IInv
<1>6. /\ Keeps /\ UNCHANGED <<run, gate, judged, argVars, data>>
      /\ \/ pc' = next /\ out' = [out EXCEPT ![d] = w]
         \/ pc' = "fail" /\ out' = [out EXCEPT ![d] = Broken]
  BY ONLY <1>4, <1>5, CommandKeeps
<1>7. d \in Dirs /\ w \in Weights /\ "sft" \in Dirs
  BY <1>2, <1>3, <1>5, WeightsOfRun DEF Dirs, Steps
<1>8. /\ out' \in [Dirs -> Weights] /\ out'["sft"] = out["sft"]
      /\ pc' = next => out'[d] = w
  <2>1. /\ out' \in [Dirs -> Weights] /\ \A e \in Dirs : e # d => out'[e] = out[e]
        /\ out' = [out EXCEPT ![d] = w] => out'[d] = w
    BY <1>6, <1>7, OutStands
  <2>2. next # "fail" /\ d # "sft"
    BY <1>2, <1>5
  <2> QED BY <1>6, <1>7, <2>1, <2>2
<1>9. target' = IF pc = "train_orpo" \/ pc' = "fail" THEN target ELSE "orpo"
  BY DEF RunOrpo, MergeOrpo, Command, Continues, Raises
<1>10. selected' \in Selections /\ skip' \in BOOLEAN /\ target' \in {"base"} \cup Steps
       /\ data' \in 0..MaxRuns
  BY <1>6, <1>9 DEF IInv, argVars, Steps
<1>11. /\ Runs_orpo' /\ data' = run' /\ Made({"sft"})' = Made({"sft"})
       /\ Made({"sft", "orpo"})' = Made({"sft", "orpo"})
  BY <1>1, <1>6 DEF Runs_orpo, Made, argVars
<1>12. \/ pc' = "fail"
       \/ /\ pc' = "merge_orpo" /\ out'["orpo_lora"] = Made({"sft", "orpo"})'
          /\ target' = "sft" /\ out'["sft"] = Made({"sft"})'
       \/ pc' = "enter_eval" /\ LastTarget'
  <2>1. CASE pc = "train_orpo"
    BY <1>1, <1>2, <1>3, <1>6, <1>8, <1>9, <1>11, <2>1
  <2>2. CASE pc = "merge_orpo"
    <3>1. CASE pc' = "enter_eval"
      <4>1. target' = "orpo" /\ out'["orpo"] = Made({"sft", "orpo"})'
        BY <1>2, <1>3, <1>8, <1>9, <1>11, <2>2, <3>1
      <4> QED BY <1>11, <3>1, <4>1 DEF LastTarget
    <3> QED BY <1>2, <1>6, <2>2, <3>1
  <2> QED BY <1>1, <2>1, <2>2
<1>13. LineageInv' /\ PassedInv'
  BY <1>11, <1>12 DEF LineageInv, PassedInv
<1> QED BY <1>6, <1>8, <1>10, <1>12, <1>13 DEF Good, IInv, Keeps

(* The evaluation judges the target, which is this run's unless it is the   *)
(* model as it was. *)
LEMMA TargetOfRun ==
  ASSUME IInv, pc \in EvalSteps
  PROVE  /\ TargetWeights.by \in {0, run}
         /\ target # "base" => TargetWeights.by = run
<1>1. LastTarget
  BY DEF IInv, LineageInv
<1>2. target = "base" => TargetWeights.by = 0
  BY DEF TargetWeights, Base
<1>3. target # "base" => TargetWeights.by = run
  BY <1>1 DEF LastTarget, AfterHeretic, TargetWeights, Made
<1> QED BY <1>2, <1>3

LEMMA EvaluateKeeps ==
  ASSUME IInv, Evaluate
  PROVE  Good
<1> USE DEF EndSteps, Verdicted, OwnSteps, HereticSteps, DataSteps, SftSteps, OrpoSteps, EvalSteps
<1>1. pc = "evaluate" /\ run \in Runs /\ UNCHANGED <<argVars, target, data, out>>
  BY DEF Evaluate, Judges, Raises, IInv, ScriptInv, Released
<1>2. CASE Raises("evaluate")
  <2>1. pc' = "fail" /\ UNCHANGED <<run, judged>>
    BY <1>2 DEF Raises, releaseVars
  <2>2. PICK at, next : at = "evaluate" /\ next = "fail"
    OBVIOUS
  <2>3. /\ at \notin EndSteps /\ (next \notin EndSteps \/ next = "fail")
        /\ Continues(at, next) \/ (Raises(at) /\ next = "fail")
        /\ ScriptInv /\ UNCHANGED releaseVars
    BY <1>2, <2>2 DEF IInv, Raises
  <2>4. Keeps
    BY ONLY <2>3, StepKeeps
  <2> QED BY <1>1, <2>1, <2>4, Quiet
<1>3. CASE Judges(TargetWeights.by)
  <2>1. PICK w \in {0, run} : w = TargetWeights.by /\ (target # "base" => w = run)
    BY <1>1, TargetOfRun
  <2>2. /\ pc' = "record" /\ UNCHANGED run /\ Judges(w)
        /\ judged' = [x \in Runs |-> IF x = w THEN gate' ELSE judged[x]]
    BY <1>3, <2>1 DEF Judges
  <2>3. Keeps
    BY <2>2, JudgesKeeps DEF IInv
  <2>4. target # "base" => judged'[run] = gate'
    BY <1>1, <2>1, <2>2
  <2>5. LastTarget'
    <3>1. LastTarget
      BY <1>1 DEF IInv, LineageInv
    <3> QED BY <1>1, <2>2, <3>1
         DEF LastTarget, AfterHeretic, Runs_heretic, Runs_orpo, Runs_sft, Made, argVars
  <2>6. LineageInv' /\ PassedInv'
    BY <1>1, <2>2, <2>4, <2>5 DEF LineageInv, PassedInv
  <2>7. selected' \in Selections /\ skip' \in BOOLEAN /\ target' \in {"base"} \cup Steps
        /\ data' \in 0..MaxRuns /\ out' \in [Dirs -> Weights]
    BY <1>1, <2>2 DEF IInv, argVars
  <2> QED BY <2>2, <2>3, <2>6, <2>7 DEF Good, IInv, Keeps
<1> QED BY <1>2, <1>3 DEF Evaluate

(* The upload of a model's name for a folder raises. *)
LEMMA BaseUploadKeeps ==
  ASSUME ScriptInv, Continues("upload", "unpublished"), UNCHANGED releaseVars
  PROVE  Keeps
<1> USE DEF Verdicted
<1>1. /\ pc = "upload" /\ pc' = "unpublished"
      /\ UNCHANGED <<run, mem, disk, gate, cut, judged, hub, announced>>
  BY DEF Continues, releaseVars
<1>2. ScriptTypeOK'
  BY <1>1 DEF ScriptInv, ScriptTypeOK
<1>3. StatusInv' /\ Explained' /\ Released'
  BY <1>1 DEF ScriptInv, StatusInv, Explained, Released
<1>4. ContractStep
  <2>1. ScriptPhase' = ScriptPhase /\ FileStage' = FileStage /\ disk'.verdict = disk.verdict
    BY <1>1 DEF ScriptPhase, FileStage
  <2> QED BY <2>1, ContractStutter
<1> QED BY <1>2, <1>3, <1>4, ReleaseStutter DEF Keeps, ScriptInv

(* The verdict and the release. *)
LEMMA PublishKeeps ==
  ASSUME IInv, RecordAndPublish
  PROVE  Good
<1> USE DEF EndSteps, Verdicted, OwnSteps, HereticSteps, DataSteps, SftSteps, OrpoSteps, EvalSteps
<1>1. Keeps
  <2>1. PICK w : w = TargetWeights.by
    OBVIOUS
  <2>2. CASE /\ target # "base" \/ pc = "create"
             /\ UploadFolder(w, "announce") \/ PublishRaises(w)
    <3>1. PICK next \in {"card", "announce"} : next = "announce"
      OBVIOUS
    <3>2. UploadFolder(w, next) \/ PublishRaises(w)
      BY <2>2, <3>1
    <3>3. pc = "upload" => w = run /\ judged[run] = "pass"
      BY <2>1, <2>2, TargetOfRun DEF IInv, PassedInv
    <3> QED BY <3>2, <3>3, UploadKeeps DEF IInv
  <2>3. CASE Continues("upload", "unpublished") /\ UNCHANGED releaseVars
    BY <2>3, BaseUploadKeeps DEF IInv
  <2> QED
    BY <2>1, <2>2, <2>3, RecordVerdictKeeps, PublishStepKeeps, AnnounceKeeps, DoneKeeps,
       ExitsKeeps DEF RecordAndPublish, UploadTarget, IInv
<1>2. UNCHANGED <<run, judged, argVars, target, data, out>>
  BY DEF RecordAndPublish, RecordVerdict, CreateRepo, UploadTarget, UploadFolder,
     PublishRaises, Announce, RecordUnpublished, Finish, Fail, Exits, Enters, Saves,
     Continues, releaseVars
<1>3. \/ pc' \in {"ended", "exit", "finish"}
      \/ pc = "record" /\ gate = "pass" /\ pc' = "create"
      \/ pc \in {"create", "upload", "announce"} /\ pc' \in {"upload", "announce", "unpublished"}
  BY DEF RecordAndPublish, RecordVerdict, CreateRepo, UploadTarget, UploadFolder,
     PublishRaises, Announce, RecordUnpublished, Finish, Fail, Exits, Enters, Saves, Continues
<1>4. pc' = "finish" => pc \in EvalSteps
  BY DEF RecordAndPublish, RecordVerdict, CreateRepo, UploadTarget, UploadFolder,
     PublishRaises, Announce, RecordUnpublished, Finish, Fail, Exits, Enters, Saves, Continues
<1> QED BY <1>1, <1>2, <1>3, <1>4, Quiet

(* A death leaves at most what was being written broken. *)
LEMMA DeathKeeps ==
  ASSUME IInv, DiesAnywhere
  PROVE  Good
<1> USE DEF EndSteps, Verdicted, OwnSteps, HereticSteps, DataSteps, SftSteps, OrpoSteps, EvalSteps
<1>1. Keeps
  BY DiesKeeps DEF IInv, DiesAnywhere
<1>2. pc' = "ended" /\ UNCHANGED <<argVars, target>> /\ data' \in {data, 0}
  BY DEF DiesAnywhere, Dies
<1>3. out' \in [Dirs -> Weights]
  BY WeightsOfRun DEF DiesAnywhere, IInv
<1>4. selected' \in Selections /\ skip' \in BOOLEAN /\ target' \in {"base"} \cup Steps
      /\ data' \in 0..MaxRuns
  BY <1>2, ScriptAssumption DEF IInv, argVars
<1>5. LineageInv' /\ PassedInv'
  BY <1>2 DEF LineageInv, PassedInv
<1> QED BY <1>1, <1>2, <1>3, <1>4, <1>5 DEF Good, IInv, Keeps

LEMMA LaunchKeeps ==
  ASSUME IInv, Launched
  PROVE  Good
<1> USE DEF EndSteps, Verdicted, OwnSteps, HereticSteps, DataSteps, SftSteps, OrpoSteps, EvalSteps
<1>1. Keeps
  BY BeginKeeps DEF IInv, Launched
<1>2. /\ pc' = "first" /\ selected' \in Selections /\ skip' \in BOOLEAN /\ target' = "base"
      /\ UNCHANGED <<data, out>>
  BY DEF Launched, Begin
<1>3. LineageInv' /\ PassedInv'
  BY <1>2 DEF LineageInv, PassedInv
<1> QED BY <1>1, <1>2, <1>3 DEF Good, IInv, Keeps

LEMMA StayKeeps ==
  ASSUME IInv, UNCHANGED vars
  PROVE  Good
<1>1. Keeps
  BY StutterKeeps DEF IInv, vars
<1>2. UNCHANGED <<run, pc, gate, judged, selected, skip, target, data, out>>
  BY DEF vars, scriptVars, argVars
<1> QED
  BY <1>1, <1>2 DEF Good, IInv, Keeps, LineageInv, PassedInv, LastTarget, AfterHeretic,
     Runs_heretic, Runs_sft, Runs_orpo, Made

LEMMA StartHolds ==
  ASSUME Init
  PROVE  IInv /\ Contract!Init /\ Release!Init
<1>1. ScriptInv /\ Contract!Init /\ Release!Init
  BY InitHolds DEF Init
<1>2. /\ pc = "ended" /\ out \in [Dirs -> Weights] /\ target = "base" /\ data = 0
      /\ selected \in Selections /\ skip \in BOOLEAN
  BY <1>1, WeightsOfRun DEF Init, ScriptInit
<1>3. LineageInv /\ PassedInv
  BY <1>2 DEF LineageInv, PassedInv, HereticSteps, DataSteps, SftSteps, OrpoSteps, EvalSteps,
     Verdicted
<1> QED BY <1>1, <1>2, <1>3, ScriptAssumption DEF IInv, EndSteps

LEMMA NextKeeps ==
  ASSUME IInv, [Next]_vars
  PROVE  Good
BY EnterKeeps, HereticKeeps, BuildDataKeeps, SftKeeps, OrpoKeeps, EvaluateKeeps, PublishKeeps,
   DeathKeeps, LaunchKeeps, StayKeeps DEF Next, Step

(* The inductive invariant holds of every reachable state.                  *)
THEOREM Invariance == Spec => []IInv
<1>1. Init => IInv
  BY StartHolds
<1>2. IInv /\ [Next]_vars => IInv'
  BY NextKeeps DEF Good
<1> QED BY <1>1, <1>2, PTL DEF Spec

(* Every state is of the expected shape: main()'s arguments and eval_target *)
(* of run_frontier.py, its directories, and the status.                     *)
THEOREM TypeCorrect == Spec => []TypeOK
<1>1. IInv => TypeOK
  BY DEF IInv, ScriptInv, TypeOK
<1> QED BY <1>1, Invariance, PTL

(* Whatever was asked for and whatever other runs left in the directories,  *)
(* the evaluation reads the weights of this run's last step (eval_target).  *)
THEOREM LastStepIsEvaluated == Spec => []EvaluatesLastStep
<1>1. IInv => EvaluatesLastStep
  <2> SUFFICES ASSUME IInv, pc = "record"
               PROVE  IF Runs_orpo THEN TargetWeights.by = run
                                        /\ {"sft", "orpo"} \subseteq TargetWeights.steps
                      ELSE IF Runs_sft THEN TargetWeights.by = run
                                            /\ "sft" \in TargetWeights.steps
                      ELSE IF Runs_heretic THEN TargetWeights = [by |-> run, steps |-> {"heretic"}]
                      ELSE TargetWeights = Base
    BY DEF EvaluatesLastStep
  <2>1. LastTarget
    BY DEF IInv, LineageInv, EvalSteps
  <2> QED BY <2>1 DEF LastTarget, AfterHeretic, TargetWeights, Made
<1> QED BY <1>1, Invariance, PTL

(* run_frontier.py keeps the contract of the controllers and the promise    *)
(* about the repo: it implements JobContract and GatedRelease.              *)
THEOREM ImplementsPromises == Spec => KeepsPromises
<1>1. Init => Contract!Init /\ Release!Init
  BY StartHolds
<1>2. IInv /\ [Next]_vars => [Contract!Next]_(Contract!vars) /\ [Release!Next]_(Release!vars)
  BY NextKeeps DEF Good, ContractStep, ReleaseStep
<1> QED
  BY <1>1, <1>2, Invariance, PTL DEF Spec, KeepsPromises, Contract!Spec, Release!Spec

(* Whatever the repo holds and whatever run_frontier.py reported as         *)
(* published passed its gate; a judgement, a verdict and a DONE stand       *)
(* until the next run writes, and DONE is never without a verdict: readers  *)
(* of status.json and of the repo may rely on the two abstract              *)
(* specifications alone.                                                    *)
THEOREM PromisesAreUsable ==
  Spec => /\ []Release!OnlyPassesLeave /\ Release!JudgedOnce
          /\ []Contract!DoneHasVerdict /\ Contract!StatusStands
BY ImplementsPromises, ContractConclusions, ReleaseConclusions, PTL DEF KeepsPromises
=============================================================================
