--------------------------- MODULE TrainRunProofs ---------------------------
(***************************************************************************)
(* Safety of TrainRun for any datasets, any number of runs and any faults, *)
(* and that it keeps the contract of the controllers and of the repo.      *)
(***************************************************************************)
EXTENDS TrainRun, StageScriptProofs

(* The steps after the model was trained, after its merge and its GGUF.     *)
WithGguf == Verdicted \cup {"enter_eval", "evaluate", "record"}
WithMerged == WithGguf \cup {"export_gguf"}
WithModel == WithMerged \cup {"save_loss", "export_merged"}

BeforePrepare == {"first", "enter_prep"}
OwnSteps ==
  {"enter_prep", "prepare", "write", "enter_train", "train", "save_loss", "export_merged",
   "export_gguf", "enter_eval", "evaluate"}

(* Rows the guard lets through in this run.                                 *)
Clean(row) ==
  row.source \in Guarded /\ row.about = "verified" => ~row.repo /\ (row.id => unverified)

DataInv ==
  /\ \A row \in collected : Clean(row)
  /\ pc \in {"enter_train", "train"} =>
       file = [by |-> run, rows |-> collected, whole |-> TRUE]
  /\ pc \in {"write", "enter_train", "train"} => (stage = 3 => collected # {})
  /\ pc \in BeforePrepare \cup {"prepare", "write", "enter_train", "train"} =>
       model = 0
  /\ model = 0 => trained = NoData
  /\ model # 0 =>
       /\ model = run
       /\ trained = [by |-> run, rows |-> collected, whole |-> TRUE]
       /\ stage = 3 => collected # {}

LineageInv ==
  /\ pc \in WithModel => model = run
  /\ pc \in WithMerged => merged = run
  /\ pc \in WithGguf => gguf = run
  /\ pc = "record" /\ gate = "pass" => judged[run] = "pass"
  /\ pc \in Verdicted \ {"finish"} => judged[run] = "pass"

IInv ==
  /\ ScriptInv /\ DataTypeOK
  /\ pc \in OwnSteps \cup EndSteps
  /\ mode \in Modes /\ {model, merged, gguf} \subseteq 0..MaxRuns
  /\ trained \in [by : 0..MaxRuns, rows : SUBSET Rows, whole : BOOLEAN]
  /\ DataInv /\ LineageInv

Good == IInv' /\ ContractStep /\ ReleaseStep

(* A step that leaves data and models alone, and goes where what is known   *)
(* of them was known already. *)
LEMMA Quiet ==
  ASSUME IInv, Keeps, UNCHANGED <<run, judged, dataVars, modelVars, exportVars>>,
         pc' \in OwnSteps \cup EndSteps,
         pc' \in WithModel => pc \in WithModel,
         pc' \in WithMerged => pc \in WithMerged,
         pc' \in WithGguf => pc \in WithGguf,
         pc' \in {"enter_train", "train"} => pc \in {"enter_train", "train"},
         pc' # "write", pc' # "record",
         pc' \in BeforePrepare \cup {"prepare", "train", "enter_train"} =>
           pc \in BeforePrepare \cup {"prepare", "train", "enter_train"},
         pc' \in Verdicted \ {"finish"} =>
           pc \in Verdicted \ {"finish"} \/ (pc = "record" /\ gate = "pass")
  PROVE  Good
<1>1. DataTypeOK' /\ mode' \in Modes /\ {model', merged', gguf'} \subseteq 0..MaxRuns
      /\ trained' \in [by : 0..MaxRuns, rows : SUBSET Rows, whole : BOOLEAN]
  BY DEF IInv, DataTypeOK, dataVars, modelVars, exportVars
<1>2. DataInv'
  BY DEF IInv, DataInv, Clean, dataVars, modelVars
<1>3. LineageInv'
  BY DEF IInv, LineageInv, modelVars, exportVars
<1> QED BY <1>1, <1>2, <1>3 DEF Good, IInv, Keeps

LEMMA EnterKeeps ==
  ASSUME IInv, EnterPreparing \/ EnterTraining \/ EnterEvaluating \/ SaveLoss
  PROVE  Good
<1> USE DEF EndSteps, Verdicted, OwnSteps, BeforePrepare, WithModel, WithMerged, WithGguf
<1>1. UNCHANGED <<run, judged, dataVars, modelVars, exportVars>>
  BY DEF EnterPreparing, EnterTraining, EnterEvaluating, SaveLoss, FirstWrite, Enters, Saves,
     releaseVars
<1>2. <<pc, pc'>> \in
        {<<"first", "enter_prep">>, <<"first", "ended">>, <<"enter_prep", "prepare">>,
         <<"enter_prep", "ended">>, <<"enter_train", "train">>, <<"enter_train", "ended">>,
         <<"enter_eval", "evaluate">>, <<"enter_eval", "ended">>,
         <<"save_loss", "export_merged">>, <<"save_loss", "fail">>}
  BY DEF EnterPreparing, EnterTraining, EnterEvaluating, SaveLoss, FirstWrite, Enters, Saves
<1>3. Keeps
  <2>1. PICK at, next, onError, kind : \E status \in {mem, [mem EXCEPT !.stage = kind]} :
          /\ Saves(at, status, next, onError) /\ UNCHANGED releaseVars
          /\ <<at, next, onError, kind>> \in
               {<<"first", "enter_prep", "ended", "setup">>,
                <<"enter_prep", "prepare", "ended", "preparing_data">>,
                <<"enter_train", "train", "ended", "training">>,
                <<"enter_eval", "evaluate", "ended", "evaluating">>,
                <<"save_loss", "export_merged", "fail", "setup">>}
    <3>1. CASE FirstWrite("enter_prep")
      BY <3>1 DEF FirstWrite
    <3>2. CASE Enters("enter_prep", "preparing_data", "prepare")
      BY <3>2 DEF Enters
    <3>3. CASE Enters("enter_train", "training", "train")
      BY <3>3 DEF Enters
    <3>4. CASE Enters("enter_eval", "evaluating", "evaluate")
      BY <3>4 DEF Enters
    <3>5. CASE SaveLoss
      BY <3>5 DEF SaveLoss
    <3> QED BY <3>1, <3>2, <3>3, <3>4, <3>5 DEF EnterPreparing, EnterTraining, EnterEvaluating
  <2>2. /\ at \notin EndSteps \/ at = "first"
        /\ next \notin EndSteps /\ onError \in {"ended", "fail"}
        /\ at = "first" => onError = "ended"
        /\ kind \in BusyStages
    BY <2>1 DEF BusyStages
  <2>3. ScriptInv /\ UNCHANGED releaseVars /\
        (Saves(at, mem, next, onError) \/ Saves(at, [mem EXCEPT !.stage = kind], next, onError))
    BY <2>1 DEF IInv
  <2> QED BY ONLY <2>2, <2>3, SaveStageKeeps
<1> QED BY <1>1, <1>2, <1>3, Quiet

(* The guard lets through only clean rows. *)
LEMMA KeptIsClean ==
  ASSUME NEW source, NEW keys, keys = "loaded" \/ unverified \/ source = "plain"
  PROVE  /\ Kept(source, keys) \subseteq Rows
         /\ \A row \in Kept(source, keys) : Clean(row)
BY DEF Kept, IsContaminated, Clean, Guarded

(* build() and prepare_data(), whatever fails in them. *)
LEMMA PrepareKeeps ==
  ASSUME IInv, Prepare
  PROVE  Good
<1> USE DEF EndSteps, Verdicted, OwnSteps, BeforePrepare, WithModel, WithMerged, WithGguf
<1>1. UNCHANGED <<modelVars, exportVars>> /\ model = 0 /\ trained = NoData
  BY DEF Prepare, PrepareData, IInv, DataInv, ReadSource, ReadRaises, OpenFile, TooFewPairs,
     WriteRows, WriteRaises, Continues, Raises
<1>2. /\ <<pc, pc'>> \in {<<"prepare", "prepare">>, <<"prepare", "write">>, <<"prepare", "fail">>,
                          <<"write", "enter_train">>, <<"write", "fail">>}
      /\ UNCHANGED <<run, gate, judged, stage, unverified>> /\ UNCHANGED releaseVars
      /\ Continues(pc, pc') \/ (Raises(pc) /\ pc' = "fail")
  BY DEF Prepare, PrepareData, ReadSource, ReadRaises, OpenFile, TooFewPairs, WriteRows,
     WriteRaises, Continues, Raises, dataVars, releaseVars
<1>3. Keeps
  <2>1. PICK at, next : at = pc /\ next = pc'
    OBVIOUS
  <2>2. /\ at \notin EndSteps /\ (next \notin EndSteps \/ next = "fail")
        /\ Continues(at, next) \/ (Raises(at) /\ next = "fail")
        /\ ScriptInv /\ UNCHANGED releaseVars
    BY <1>2, <2>1 DEF IInv
  <2> QED BY ONLY <2>2, StepKeeps
<1>4. run \in 0..MaxRuns /\ collected \subseteq Rows /\ (\A row \in collected : Clean(row))
      /\ left \in Seq({"plain"} \cup Guarded) /\ stage \in {2, 3, 5}
      /\ unverified \in BOOLEAN
      /\ file \in [by : 0..MaxRuns, rows : SUBSET Rows, whole : BOOLEAN]
  BY DEF IInv, ScriptInv, ScriptTypeOK, DataTypeOK, DataInv
<1>5. LineageInv'
  BY <1>1, <1>2 DEF LineageInv, modelVars, exportVars
<1>6. left' \in Seq({"plain"} \cup Guarded) /\ collected' \subseteq Rows
      /\ \A row \in collected' : Clean(row)
  <2>1. CASE ReadSource
    <3>1. left # <<>> /\ left' = Tail(left)
      BY <2>1 DEF ReadSource
    <3>2. left' \in Seq({"plain"} \cup Guarded)
      BY <1>4, <3>1
    <3>3. PICK keys \in Keys(Head(left)) :
            collected' = collected \cup Kept(Head(left), keys) \/ collected' = collected
      BY <2>1 DEF ReadSource
    <3>4. keys = "loaded" \/ unverified
      BY DEF Keys
    <3>5. PICK source : source = Head(left)
      OBVIOUS
    <3>6. /\ Kept(source, keys) \subseteq Rows
          /\ \A row \in Kept(source, keys) : Clean(row)
      BY <3>4, KeptIsClean
    <3> QED BY <1>4, <3>2, <3>3, <3>5, <3>6
  <2>2. CASE OpenFile
    <3>1. left' = left /\ collected' \in {collected, Kept("plain", "none")}
      BY <2>2 DEF OpenFile
    <3> QED BY <1>4, <3>1, KeptIsClean
  <2>3. CASE ReadRaises \/ TooFewPairs \/ WriteRows \/ WriteRaises
    <3>1. left' = left /\ collected' = collected
      BY <2>3 DEF ReadRaises, TooFewPairs, WriteRows, WriteRaises, dataVars
    <3> QED BY <1>4, <3>1
  <2> QED BY <2>1, <2>2, <2>3 DEF Prepare, PrepareData
<1>7. /\ file' \in [by : 0..MaxRuns, rows : SUBSET Rows, whole : BOOLEAN]
      /\ pc' = "enter_train" =>
           /\ file' = [by |-> run, rows |-> collected, whole |-> TRUE]
           /\ collected' = collected
  <2>1. CASE OpenFile
    BY <1>4, <2>1 DEF OpenFile, Continues
  <2>2. CASE WriteRows
    BY <1>4, <2>2 DEF WriteRows
  <2>3. CASE WriteRaises
    BY <1>4, <2>3 DEF WriteRaises, Raises
  <2>4. CASE ReadSource \/ ReadRaises \/ TooFewPairs
    BY <1>4, <2>4 DEF ReadSource, ReadRaises, TooFewPairs, Continues, Raises, dataVars
  <2> QED BY <2>1, <2>2, <2>3, <2>4 DEF Prepare, PrepareData
<1>8. pc' \in {"write", "enter_train"} => (stage = 3 => collected' # {})
  <2>1. CASE pc = "prepare"
    BY <1>2, <2>1 DEF Prepare, PrepareData, ReadSource, ReadRaises, OpenFile, TooFewPairs,
       WriteRows, WriteRaises, Continues, Raises
  <2>2. CASE pc = "write"
    BY <1>2, <2>2 DEF Prepare, PrepareData, ReadSource, ReadRaises, OpenFile, TooFewPairs,
       WriteRows, WriteRaises, Continues, Raises, IInv, DataInv
  <2> QED BY <1>2, <2>1, <2>2
<1>9. DataInv'
  BY <1>1, <1>2, <1>6, <1>7, <1>8 DEF DataInv, Clean, modelVars
<1>10. DataTypeOK'
  BY <1>2, <1>4, <1>6, <1>7 DEF DataTypeOK
<1> QED
  BY <1>1, <1>2, <1>3, <1>5, <1>9, <1>10 DEF Good, IInv, Keeps, modelVars, exportVars

(* Training and the two exports. *)
LEMMA BuildKeeps ==
  ASSUME IInv, Train \/ ExportMerged \/ ExportGguf
  PROVE  Good
<1> USE DEF EndSteps, Verdicted, OwnSteps, BeforePrepare, WithModel, WithMerged, WithGguf
<1>1. /\ <<pc, pc'>> \in {<<"train", "save_loss">>, <<"train", "fail">>,
                          <<"export_merged", "export_gguf">>, <<"export_merged", "fail">>,
                          <<"export_gguf", "enter_eval">>, <<"export_gguf", "fail">>}
      /\ UNCHANGED <<run, gate, judged, dataVars, mode>> /\ UNCHANGED releaseVars
      /\ Continues(pc, pc') \/ (Raises(pc) /\ pc' = "fail")
  BY DEF Train, ExportMerged, ExportGguf, Continues, Raises, releaseVars, modelVars
<1>2. Keeps
  <2>1. PICK at, next : at = pc /\ next = pc'
    OBVIOUS
  <2>2. /\ at \notin EndSteps /\ (next \notin EndSteps \/ next = "fail")
        /\ Continues(at, next) \/ (Raises(at) /\ next = "fail")
        /\ ScriptInv /\ UNCHANGED releaseVars
    BY <1>1, <2>1 DEF IInv
  <2> QED BY ONLY <2>2, StepKeeps
<1>3. run \in 0..MaxRuns /\ collected \subseteq Rows /\ 0 \in 0..MaxRuns
  BY ScriptAssumption DEF IInv, ScriptInv, ScriptTypeOK, DataTypeOK
<1>4. DataTypeOK'
  BY <1>1 DEF IInv, DataTypeOK, dataVars
<1>5. CASE Train
  <2>1. pc = "train" /\ model = 0 /\ trained = NoData /\ UNCHANGED exportVars
    BY <1>5 DEF Train, Continues, Raises, IInv, DataInv
  <2>2. \/ pc' = "save_loss" /\ model' = run /\ trained' = file
        \/ pc' = "fail" /\ model' = model /\ trained' = trained
    BY <1>5, <2>1 DEF Train, Continues, Raises, IInv, DataInv
  <2>3. /\ file = [by |-> run, rows |-> collected, whole |-> TRUE]
        /\ stage = 3 => collected # {}
        /\ file \in [by : 0..MaxRuns, rows : SUBSET Rows, whole : BOOLEAN]
    BY <2>1 DEF IInv, DataInv, DataTypeOK
  <2>4. run # 0
    <3>1. run \in Runs
      BY <2>1 DEF IInv, ScriptInv, Released
    <3> QED BY <3>1, ScriptAssumption DEF Runs
  <2>5. DataInv'
    BY <1>1, <2>1, <2>2, <2>3, <2>4 DEF IInv, DataInv, Clean, dataVars
  <2>6. LineageInv'
    BY <1>1, <2>1, <2>2 DEF LineageInv
  <2> QED BY <1>1, <1>2, <1>3, <1>4, <2>1, <2>2, <2>3, <2>5, <2>6 DEF Good, IInv, Keeps, exportVars
<1>6. CASE ExportMerged \/ ExportGguf
  <2>1. /\ UNCHANGED modelVars /\ pc \in {"export_merged", "export_gguf"} /\ model = run
        /\ merged' \in {merged, model, 0} /\ gguf' \in {gguf, model, 0}
        /\ pc' = "export_gguf" => merged' = model
        /\ pc' = "enter_eval" => merged' = merged /\ merged = run /\ gguf' = model
    BY <1>6 DEF ExportMerged, ExportGguf, Continues, Raises, IInv, LineageInv
  <2>2. DataInv'
    BY <1>1, <2>1 DEF IInv, DataInv, Clean, dataVars, modelVars
  <2>3. LineageInv'
    BY <1>1, <2>1 DEF LineageInv, modelVars
  <2> QED BY <1>1, <1>2, <1>3, <1>4, <2>1, <2>2, <2>3 DEF Good, IInv, Keeps, modelVars
<1> QED BY <1>5, <1>6

(* The evaluation judges this run's weights. *)
LEMMA EvaluateKeeps ==
  ASSUME IInv, Evaluate
  PROVE  Good
<1> USE DEF EndSteps, Verdicted, OwnSteps, BeforePrepare, WithModel, WithMerged, WithGguf
<1>1. pc = "evaluate" /\ model = run /\ merged = run /\ gguf = run /\ run \in Runs
  BY DEF Evaluate, Judges, Raises, IInv, LineageInv, ScriptInv, Released
<1>2. CASE Raises("evaluate")
  <2>1. pc' = "fail" /\ UNCHANGED <<run, judged, dataVars, modelVars, exportVars>>
    BY <1>2 DEF Evaluate, Raises, releaseVars
  <2>2. PICK at, next : at = "evaluate" /\ next = "fail"
    OBVIOUS
  <2>3. /\ at \notin EndSteps /\ (next \notin EndSteps \/ next = "fail")
        /\ Continues(at, next) \/ (Raises(at) /\ next = "fail")
        /\ ScriptInv /\ UNCHANGED releaseVars
    BY <1>2, <2>2 DEF IInv, Raises
  <2>4. Keeps
    BY ONLY <2>3, StepKeeps
  <2> QED BY <1>1, <2>1, <2>4, Quiet
<1>3. CASE Judges(merged)
  <2>1. /\ pc' = "record" /\ UNCHANGED <<run, dataVars, modelVars, exportVars>>
        /\ judged' = [x \in Runs |-> IF x = merged THEN gate' ELSE judged[x]]
    BY <1>3 DEF Evaluate, Judges
  <2>2. Keeps
    <3>1. PICK w \in {0, run} : w = merged
      BY <1>1
    <3> QED BY <1>3, <3>1, JudgesKeeps DEF IInv
  <2>3. judged'[run] = gate'
    BY <1>1, <2>1
  <2>4. DataTypeOK' /\ DataInv'
    BY <1>1, <2>1 DEF IInv, DataTypeOK, DataInv, Clean, dataVars, modelVars
  <2>5. LineageInv'
    BY <1>1, <2>1, <2>3 DEF LineageInv, modelVars, exportVars
  <2> QED BY <2>1, <2>2, <2>4, <2>5 DEF Good, IInv, Keeps, modelVars, exportVars
<1> QED BY <1>2, <1>3 DEF Evaluate

(* The verdict and the release. *)
LEMMA PublishKeeps ==
  ASSUME IInv, RecordAndPublish
  PROVE  Good
<1> USE DEF EndSteps, Verdicted, OwnSteps, BeforePrepare, WithModel, WithMerged, WithGguf
<1>1. Keeps
  <2>1. PICK w : w = gguf
    OBVIOUS
  <2>2. AfterEvaluation(w) /\ (pc = "upload" => w = run /\ judged[run] = "pass")
    BY <2>1 DEF RecordAndPublish, IInv, LineageInv
  <2> QED BY <2>2, AfterEvaluationKeeps DEF IInv
<1>2. UNCHANGED <<run, judged, dataVars, modelVars, exportVars>>
  BY DEF RecordAndPublish, AfterEvaluation, RecordVerdict, CreateRepo, UploadFolder,
     PublishRaises, PushCard, Announce, RecordUnpublished, Finish, Fail, Exits, Enters, Saves,
     Continues, releaseVars
<1>3. \/ pc' \in {"ended", "exit", "finish"}
      \/ pc = "record" /\ gate = "pass" /\ pc' = "create"
      \/ pc \in {"create", "upload", "card", "announce"}
         /\ pc' \in {"upload", "card", "announce", "unpublished"}
  BY DEF RecordAndPublish, AfterEvaluation, RecordVerdict, CreateRepo, UploadFolder,
     PublishRaises, PushCard, Announce, RecordUnpublished, Finish, Fail, Exits, Enters, Saves,
     Continues
<1>4. pc' = "finish" => pc \in WithGguf
  BY DEF RecordAndPublish, AfterEvaluation, RecordVerdict, CreateRepo, UploadFolder,
     PublishRaises, PushCard, Announce, RecordUnpublished, Finish, Fail, Exits, Enters, Saves,
     Continues
<1> QED BY <1>1, <1>2, <1>3, <1>4, Quiet

(* A death leaves at most the file under way torn. *)
LEMMA DeathKeeps ==
  ASSUME IInv, DiesAnywhere
  PROVE  Good
<1> USE DEF EndSteps, Verdicted, OwnSteps, BeforePrepare, WithModel, WithMerged, WithGguf
<1>1. Keeps
  BY DiesKeeps DEF IInv, DiesAnywhere
<1>2. /\ pc' = "ended" /\ UNCHANGED <<run, judged, stage, unverified, left, collected, modelVars>>
      /\ merged' \in {merged, 0} /\ gguf' \in {gguf, 0}
  BY DEF DiesAnywhere, Dies, FileTorn, releaseVars
<1>3. run \in 0..MaxRuns /\ collected \subseteq Rows /\ 0 \in 0..MaxRuns
  BY ScriptAssumption DEF IInv, ScriptInv, ScriptTypeOK, DataTypeOK
<1>4. file' \in [by : 0..MaxRuns, rows : SUBSET Rows, whole : BOOLEAN]
  <2>1. file \in [by : 0..MaxRuns, rows : SUBSET Rows, whole : BOOLEAN]
    BY DEF IInv, DataTypeOK
  <2>2. CASE pc = "write"
    <3>1. PICK some \in SUBSET collected : file' = [by |-> run, rows |-> some, whole |-> FALSE]
      BY <2>2 DEF DiesAnywhere, FileTorn
    <3> QED BY <1>3, <3>1
  <2>3. CASE pc # "write"
    BY <2>1, <2>3 DEF DiesAnywhere, FileTorn
  <2> QED BY <2>2, <2>3
<1>5. DataTypeOK'
  BY <1>2, <1>4 DEF IInv, DataTypeOK
<1>6. DataInv' /\ LineageInv'
  BY <1>2 DEF IInv, DataInv, Clean, LineageInv, modelVars
<1> QED BY <1>1, <1>2, <1>3, <1>5, <1>6 DEF Good, IInv, Keeps, modelVars

LEMMA LaunchKeeps ==
  ASSUME IInv, Launched
  PROVE  Good
<1> USE DEF EndSteps, Verdicted, OwnSteps, BeforePrepare, WithModel, WithMerged, WithGguf
<1>1. Keeps
  BY BeginKeeps DEF IInv, Launched
<1>2. /\ pc' = "first" /\ unverified' \in BOOLEAN /\ left' \in SourceLists /\ collected' = {}
      /\ UNCHANGED <<stage, file, merged, gguf>> /\ model' = 0 /\ trained' = NoData
      /\ mode' \in ModesOf(stage)'
  BY DEF Launched, Begin, PrepareLaunched, exportVars, ModesOf
<1>3. mode' \in Modes /\ 0 \in 0..MaxRuns
  BY <1>2, ModesAssumption, ScriptAssumption DEF ModesOf
<1>4. left' \in Seq({"plain"} \cup Guarded)
  <2>1. left' \in {<<"plain">>, <<"plain", "swegym">>, <<"plain", "nebius">>,
                   <<"plain", "swegym", "nebius">>}
    BY <1>2 DEF SourceLists
  <2>2. {"plain"} \cup Guarded = {"plain", "swegym", "nebius"}
    BY DEF Guarded
  <2>3. /\ <<"plain">> \in Seq({"plain", "swegym", "nebius"})
        /\ <<"plain", "swegym">> \in Seq({"plain", "swegym", "nebius"})
        /\ <<"plain", "nebius">> \in Seq({"plain", "swegym", "nebius"})
        /\ <<"plain", "swegym", "nebius">> \in Seq({"plain", "swegym", "nebius"})
    OBVIOUS
  <2> QED BY <2>1, <2>2, <2>3
<1>5. DataTypeOK'
  BY <1>2, <1>4 DEF IInv, DataTypeOK
<1>6. DataInv' /\ LineageInv'
  BY <1>2 DEF DataInv, LineageInv
<1>7. NoData \in [by : 0..MaxRuns, rows : SUBSET Rows, whole : BOOLEAN]
  BY <1>3 DEF NoData
<1> QED BY <1>1, <1>2, <1>3, <1>5, <1>6, <1>7 DEF Good, IInv, Keeps

LEMMA StayKeeps ==
  ASSUME IInv, UNCHANGED vars
  PROVE  Good
<1>1. Keeps
  BY StutterKeeps DEF IInv, vars
<1>2. UNCHANGED <<run, pc, gate, judged, dataVars, modelVars, exportVars>>
  BY DEF vars, scriptVars, modelVars, exportVars
<1> QED
  BY <1>1, <1>2 DEF Good, IInv, Keeps, DataTypeOK, DataInv, Clean, LineageInv, dataVars,
     modelVars, exportVars

LEMMA StartHolds ==
  ASSUME Init
  PROVE  IInv /\ Contract!Init /\ Release!Init
<1>1. ScriptInv /\ Contract!Init /\ Release!Init
  BY InitHolds DEF Init
<1>2. DataTypeOK /\ NoData \in [by : 0..MaxRuns, rows : SUBSET Rows, whole : BOOLEAN]
  <2>1. NoData \in [by : 0..MaxRuns, rows : SUBSET Rows, whole : BOOLEAN]
    BY ScriptAssumption DEF NoData
  <2> QED BY <2>1 DEF Init, DataInit, DataTypeOK
<1>3. mode \in Modes /\ 0 \in 0..MaxRuns
  BY ModesAssumption, ScriptAssumption DEF Init, ModesOf
<1>4. pc = "ended"
  BY DEF Init, ScriptInit
<1>5. DataInv /\ LineageInv
  BY <1>4 DEF Init, DataInit, DataInv, LineageInv, WithModel, WithMerged, WithGguf, Verdicted,
     BeforePrepare
<1> QED BY <1>1, <1>2, <1>3, <1>4, <1>5 DEF IInv, Init, EndSteps

LEMMA NextKeeps ==
  ASSUME IInv, [Next]_vars
  PROVE  Good
BY EnterKeeps, PrepareKeeps, BuildKeeps, EvaluateKeeps, PublishKeeps, DeathKeeps, LaunchKeeps,
   StayKeeps DEF Next, Step

(* The inductive invariant holds of every reachable state. *)
THEOREM Invariance == Spec => []IInv
<1>1. Init => IInv
  BY StartHolds
<1>2. IInv /\ [Next]_vars => IInv'
  BY NextKeeps DEF Good
<1> QED BY <1>1, <1>2, PTL DEF Spec

(* Every state is of the expected shape: status, files and models of        *)
(* run_stage2.py, run_stage3.py and run_stage5.py.                          *)
THEOREM TypeCorrect == Spec => []TypeOK
<1>1. IInv => TypeOK
  BY DEF IInv, ScriptInv, TypeOK
<1> QED BY <1>1, Invariance, PTL

(* A PASS that published nothing says why, in every script with this tail.  *)
THEOREM PassExplained == Spec => []UnpublishedPassExplained
<1>1. IInv => UnpublishedPassExplained
  BY ScriptInvImplies DEF IInv
<1> QED BY <1>1, Invariance, PTL

(* A status.json names the repo only while the repo holds that run's        *)
(* weights, and they passed.                                                *)
THEOREM AnnouncementsHold == Spec => []AnnouncedIsReleased
<1>1. IInv => AnnouncedIsReleased
  BY ScriptInvImplies DEF IInv
<1> QED BY <1>1, Invariance, PTL

(* A model in memory was trained on this run's own data and on all of it:   *)
(* never on the file of an earlier run or of a build that broke.            *)
THEOREM OwnDataOnly == Spec => []TrainsOnOwnBuild
<1>1. IInv => TrainsOnOwnBuild
  BY DEF IInv, DataInv, TrainsOnOwnBuild
<1> QED BY <1>1, Invariance, PTL

(* The only leaks of SWE-bench Verified into training are those the keys    *)
(* cannot see or this run was told to accept.                               *)
THEOREM LeaksAreExplained == Spec => []LeaksExplained
<1>1. IInv => LeaksExplained
  BY DEF IInv, DataInv, Clean, NoData, LeaksExplained
<1> QED BY <1>1, Invariance, PTL

(* The training scripts keep the contract of the controllers and the        *)
(* promise about the repo: they implement JobContract and GatedRelease.     *)
THEOREM ImplementsPromises == Spec => KeepsPromises
<1>1. Init => Contract!Init /\ Release!Init
  BY StartHolds
<1>2. IInv /\ [Next]_vars => [Contract!Next]_(Contract!vars) /\ [Release!Next]_(Release!vars)
  BY NextKeeps DEF Good, ContractStep, ReleaseStep
<1> QED
  BY <1>1, <1>2, Invariance, PTL DEF Spec, KeepsPromises, Contract!Spec, Release!Spec

(* Whatever the repo holds and whatever run_stage2.py, run_stage3.py and    *)
(* run_stage5.py reported as published passed its gate; a judgement, a      *)
(* verdict and a DONE stand until the next run writes, and DONE is never    *)
(* without a verdict: readers of status.json and of the repo may rely on    *)
(* the two abstract specifications alone.                                   *)
THEOREM PromisesAreUsable ==
  Spec => /\ []Release!OnlyPassesLeave /\ Release!JudgedOnce
          /\ []Contract!DoneHasVerdict /\ Contract!StatusStands
BY ImplementsPromises, ContractConclusions, ReleaseConclusions, PTL DEF KeepsPromises
=============================================================================
