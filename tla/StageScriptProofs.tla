-------------------------- MODULE StageScriptProofs --------------------------
(***************************************************************************)
(* What the common part of the stage scripts keeps, whatever the steps of  *)
(* a stage are: each action of StageScript keeps ScriptInv and is a step,  *)
(* or a stutter, of JobContract and of GatedRelease.  The proofs about a   *)
(* script add what its own steps do to the weights.                        *)
(***************************************************************************)
EXTENDS StageScript, TLAPS

(* The steps from the verdict to the last write, and all those of this      *)
(* module; a script's own steps have other names.                           *)
Verdicted == {"create", "upload", "card", "announce", "unpublished", "finish"}

EndSteps == Verdicted \cup {"first", "record", "fail", "exit", "ended"}

BusyStages ==
  {"setup", "abliterating", "preparing_data", "generating", "verifying", "training",
   "training_sft", "training_orpo", "evaluating"}

Status ==
  [started : 0..MaxRuns, stage : BusyStages \cup {"none", "done"},
   verdict : Verdicts \cup {None}, error : BOOLEAN, repo : BOOLEAN]

(* The status object and its file.                                          *)
StatusInv ==
  /\ mem.started = run
  /\ pc \notin {"ended", "exit"} => mem.stage \notin {"none", "done"}
  /\ pc \notin {"ended", "first"} => disk.started = run /\ disk.verdict = mem.verdict
  /\ pc \notin {"ended", "first", "exit"} => disk.stage \notin {"none", "done"}
  /\ pc \notin Verdicted \cup {"exit", "ended"} => mem.verdict = None
  /\ pc \in Verdicted \ {"finish"} => mem.verdict = "pass"
  /\ pc = "finish" => mem.verdict \in {"pass", "fail"}
  /\ pc = "record" => gate \in {"pass", "fail"}

Explained ==
  /\ disk.stage = "done" /\ disk.verdict = "pass" => disk.repo \/ disk.error
  /\ pc = "finish" /\ mem.verdict = "pass" => mem.repo \/ mem.error

(* The weights of a run are judged, released and announced in this order.   *)
Released ==
  /\ pc # "ended" => run \in Runs
  /\ \A w \in Runs : judged[w] # None => w <= run
  /\ pc \notin Verdicted \cup {"record", "exit", "ended"} => judged[run] = None
  /\ hub # 0 => judged[hub] = "pass"
  /\ pc \in {"card", "announce"} => hub = run
  /\ mem.repo => pc \in {"unpublished", "finish", "exit", "ended"} /\ hub = run
  /\ disk.repo => pc \in {"finish", "exit", "ended", "first"} /\ hub = disk.started /\ hub # 0

ScriptInv == ScriptTypeOK /\ StatusInv /\ Explained /\ Released

ContractStep == [Contract!Next]_(Contract!vars)
ReleaseStep == [Release!Next]_(Release!vars)

Keeps == ScriptInv' /\ ContractStep /\ ReleaseStep

LEMMA Types ==
  ScriptTypeOK <=>
    /\ run \in 0..MaxRuns
    /\ mem \in Status /\ disk \in Status
    /\ gate \in {"pass", "fail", None}
    /\ judged \in [Runs -> {"pass", "fail", None}]
    /\ hub \in 0..MaxRuns
    /\ announced \subseteq Runs
    /\ cut \in BOOLEAN
<1>1. BusyStages \cup {"none", "done"} =
        {"none", "setup", "abliterating", "preparing_data", "generating", "verifying",
         "training", "training_sft", "training_orpo", "evaluating", "done"}
  BY DEF BusyStages
<1> QED BY <1>1 DEF ScriptTypeOK, Status

(* What the two abstractions see of the script. *)
ScriptPhase ==
  IF pc = "ended" THEN "gone" ELSE IF pc = "first" THEN "launched" ELSE "writing"
FileStage == IF disk.stage \in {"none", "done"} THEN disk.stage ELSE "busy"

(* A step of the contract, from what it does to the one box. *)
LEMMA ContractStutter ==
  ASSUME ScriptPhase' = ScriptPhase, FileStage' = FileStage, disk'.verdict = disk.verdict
  PROVE  ContractStep
BY DEF ContractStep, Contract!vars, ScriptPhase, FileStage

LEMMA ContractLaunch ==
  ASSUME pc = "ended", pc' = "first", disk' = disk
  PROVE  ContractStep
<1>1. Contract!Launch("box")
  BY DEF Contract!Launch
<1> QED BY <1>1 DEF ContractStep, Contract!Next

LEMMA ContractEnd ==
  ASSUME pc # "ended", pc' = "ended", disk' = disk
  PROVE  ContractStep
<1>1. Contract!End("box")
  BY DEF Contract!End
<1> QED BY <1>1 DEF ContractStep, Contract!Next

LEMMA ContractFirstWrite ==
  ASSUME pc = "first", pc' \notin {"first", "ended"}, disk'.stage \notin {"none", "done"},
         disk'.verdict = None
  PROVE  ContractStep
<1>1. Contract!FirstWrite("box")
  BY DEF Contract!FirstWrite
<1> QED BY <1>1 DEF ContractStep, Contract!Next

LEMMA ContractVerdict ==
  ASSUME pc \notin {"first", "ended"}, pc' \notin {"first", "ended"},
         disk.stage \notin {"none", "done"}, disk'.stage \notin {"none", "done"},
         disk.verdict = None, disk'.verdict \in {"pass", "fail"}
  PROVE  ContractStep
<1>1. Contract!RecordVerdict("box")
  BY DEF Contract!RecordVerdict, Contract!Writing, Verdicts
<1> QED BY <1>1 DEF ContractStep, Contract!Next

LEMMA ContractDone ==
  ASSUME pc \notin {"first", "ended"}, pc' \notin {"first", "ended"},
         disk.stage \notin {"none", "done"}, disk'.stage = "done",
         disk'.verdict = IF disk.verdict = None THEN "error" ELSE disk.verdict
  PROVE  ContractStep
<1>1. Contract!RecordDone("box")
  BY DEF Contract!RecordDone, Contract!Writing
<1> QED BY <1>1 DEF ContractStep, Contract!Next

LEMMA ReleaseStutter ==
  ASSUME UNCHANGED releaseVars
  PROVE  ReleaseStep
BY DEF ReleaseStep, Release!vars, releaseVars

LEMMA InitHolds ==
  ASSUME ScriptInit
  PROVE  ScriptInv /\ Contract!Init /\ Release!Init
<1>1. /\ NoFile \in Status /\ NoFile.started = 0 /\ NoFile.repo = FALSE
      /\ NoFile.stage = "none" /\ NoFile.verdict = None
  <2>1. 0 \in 0..MaxRuns
    BY ScriptAssumption
  <2>2. New(0) \in Status /\ New(0).started = 0 /\ New(0).repo = FALSE /\ New(0).verdict = None
    BY <2>1 DEF New, Status, BusyStages
  <2>3. NoFile = [New(0) EXCEPT !.stage = "none"]
    BY DEF NoFile
  <2> QED BY <2>2, <2>3 DEF Status
<1>2. ScriptTypeOK
  <2>1. judged \in [Runs -> {"pass", "fail", None}] /\ run \in 0..MaxRuns /\ hub \in 0..MaxRuns
    BY ScriptAssumption DEF ScriptInit
  <2> QED BY <1>1, <2>1, Types DEF ScriptInit
<1>3. StatusInv /\ Explained /\ Released
  <2>1. pc = "ended" /\ mem = NoFile /\ disk = NoFile /\ run = 0 /\ hub = 0
        /\ \A w \in Runs : judged[w] = None
    BY DEF ScriptInit
  <2>2. StatusInv
    BY <1>1, <2>1 DEF StatusInv, Verdicted
  <2>3. Explained
    BY <1>1, <2>1 DEF Explained
  <2>4. Released
    BY <1>1, <2>1 DEF Released
  <2> QED BY <2>2, <2>3, <2>4
<1>4. Contract!Init /\ Release!Init
  BY DEF ScriptInit, Contract!Init, Release!Init, NoFile, New
<1> QED BY <1>2, <1>3, <1>4 DEF ScriptInv

LEMMA BeginKeeps ==
  ASSUME ScriptInv, Begin
  PROVE  Keeps
<1>1. /\ pc = "ended" /\ pc' = "first" /\ run' = run + 1 /\ run' \in Runs
      /\ mem' = New(run + 1) /\ gate' = None /\ cut' = FALSE
      /\ UNCHANGED <<disk, releaseVars>>
  BY Types, ScriptAssumption DEF Begin, ScriptInv, Runs
<1>2. mem' \in Status /\ mem'.started = run' /\ mem'.verdict = None /\ mem'.stage = "setup"
      /\ mem'.repo = FALSE
  BY <1>1, ScriptAssumption DEF New, Status, BusyStages, Runs
<1>3. ScriptTypeOK'
  BY <1>1, <1>2, Types, ScriptAssumption DEF ScriptInv, ScriptTypeOK, Status, BusyStages,
     releaseVars, Runs
<1>4. StatusInv' /\ Explained'
  BY <1>1, <1>2 DEF ScriptInv, StatusInv, Explained, Verdicted
<1>5. Released'
  <2>1. judged[run'] = None /\ (\A w \in Runs : judged[w] # None => w <= run')
    BY <1>1, Types, ScriptAssumption DEF ScriptInv, Released, Runs
  <2> QED BY <1>1, <1>2, <2>1 DEF ScriptInv, Released, releaseVars, Verdicted
<1> QED
  BY <1>1, <1>3, <1>4, <1>5, ContractLaunch, ReleaseStutter DEF Keeps, ScriptInv

(* The first write, or another one of a stage that is under way. *)
LEMMA SaveStageKeeps ==
  ASSUME ScriptInv, NEW at, NEW next, NEW onError, at \notin EndSteps \/ at = "first",
         next \notin EndSteps, onError \in {"ended", "fail"}, at = "first" => onError = "ended",
         NEW stage \in BusyStages,
         \/ Saves(at, mem, next, onError)
         \/ Saves(at, [mem EXCEPT !.stage = stage], next, onError),
         UNCHANGED releaseVars
  PROVE  Keeps
<1>1. /\ pc = at /\ UNCHANGED <<run, gate, judged, hub, announced>> /\ cut' \in BOOLEAN
      /\ \/ disk' = mem' /\ pc' = next
         \/ disk' = disk /\ pc' = onError
  BY Types DEF Saves, ScriptInv, releaseVars
<1>2. mem' \in {mem, [mem EXCEPT !.stage = stage]}
  BY DEF Saves
<1>3. mem \in Status /\ disk \in Status
  BY Types DEF ScriptInv
<1>4. /\ mem' \in Status /\ mem'.started = mem.started /\ mem'.verdict = mem.verdict
      /\ mem'.repo = mem.repo /\ mem'.stage \in {mem.stage, stage}
  BY <1>2, <1>3 DEF Status
<1>5. /\ mem.repo = FALSE /\ mem.verdict = None /\ mem.started = run
      /\ mem'.stage \notin {"none", "done"}
      /\ judged[run] = None /\ run \in Runs
  BY <1>1, <1>3, <1>4 DEF ScriptInv, StatusInv, Released, EndSteps, Verdicted, Status, BusyStages
<1>6. ScriptTypeOK'
  BY <1>1, <1>3, <1>4 DEF ScriptInv, ScriptTypeOK, Status, BusyStages
<1>7. StatusInv' /\ Explained'
  BY <1>1, <1>4, <1>5, ScriptAssumption DEF ScriptInv, StatusInv, Explained, Verdicted, EndSteps
<1>8. Released'
  BY <1>1, <1>4, <1>5 DEF ScriptInv, Released, Verdicted, EndSteps
<1>9. ContractStep
  <2>1. CASE pc' = "ended"
    BY <1>1, <2>1, ContractEnd DEF EndSteps
  <2>2. CASE pc' # "ended" /\ pc = "first"
    BY <1>1, <1>4, <1>5, <2>2, ContractFirstWrite DEF EndSteps
  <2>3. CASE pc' # "ended" /\ pc # "first"
    <3>1. pc # "ended" /\ pc' # "first" /\ pc # "exit"
      BY <1>1, <2>3 DEF EndSteps
    <3>2. ScriptPhase' = ScriptPhase
      BY <2>3, <3>1 DEF ScriptPhase
    <3>3. FileStage' = FileStage /\ disk'.verdict = disk.verdict
      BY <1>1, <1>4, <1>5, <2>3, <3>1 DEF FileStage, ScriptInv, StatusInv
    <3> QED BY <3>2, <3>3, ContractStutter
  <2> QED BY <2>1, <2>2, <2>3
<1> QED
  BY <1>6, <1>7, <1>8, <1>9, ReleaseStutter DEF Keeps, ScriptInv

(* A step of a stage's own that writes no status, done or raised. *)
LEMMA StepKeeps ==
  ASSUME ScriptInv, NEW at, NEW next, at \notin EndSteps, next \notin EndSteps \/ next = "fail",
         Continues(at, next) \/ (Raises(at) /\ next = "fail"), UNCHANGED releaseVars
  PROVE  Keeps
<1>1. pc = at /\ pc' = next /\ UNCHANGED <<run, mem, disk, gate, cut, judged, hub, announced>>
  BY DEF Continues, Raises, releaseVars
<1>2. ScriptTypeOK'
  BY <1>1 DEF ScriptInv, ScriptTypeOK
<1>3. StatusInv' /\ Explained' /\ Released'
  BY <1>1 DEF ScriptInv, StatusInv, Explained, Released, Verdicted, EndSteps
<1>4. ContractStep
  <2>1. ScriptPhase' = ScriptPhase
    BY <1>1 DEF ScriptPhase, EndSteps
  <2>2. FileStage' = FileStage /\ disk'.verdict = disk.verdict
    BY <1>1 DEF FileStage
  <2> QED BY <2>1, <2>2, ContractStutter
<1> QED BY <1>2, <1>3, <1>4, ReleaseStutter DEF Keeps, ScriptInv

LEMMA DiesKeeps ==
  ASSUME ScriptInv, Dies
  PROVE  Keeps
<1>1. /\ pc # "ended" /\ pc' = "ended" /\ cut' = TRUE
      /\ UNCHANGED <<run, mem, disk, gate, judged, hub, announced>>
  BY DEF Dies, releaseVars
<1>2. ScriptTypeOK'
  BY <1>1 DEF ScriptInv, ScriptTypeOK
<1>3. StatusInv' /\ Explained' /\ Released'
  BY <1>1 DEF ScriptInv, StatusInv, Explained, Released, Verdicted
<1> QED BY <1>1, <1>2, <1>3, ContractEnd, ReleaseStutter DEF Keeps, ScriptInv, releaseVars

LEMMA EscapesKeeps ==
  ASSUME ScriptInv, NEW at, at # "ended", Escapes(at)
  PROVE  Keeps
<1>1. /\ pc # "ended" /\ pc' = "ended" /\ cut' = TRUE
      /\ UNCHANGED <<run, mem, disk, gate, judged, hub, announced>>
  BY DEF Escapes, releaseVars
<1>2. ScriptTypeOK'
  BY <1>1 DEF ScriptInv, ScriptTypeOK
<1>3. StatusInv' /\ Explained' /\ Released'
  BY <1>1 DEF ScriptInv, StatusInv, Explained, Released, Verdicted
<1> QED BY <1>1, <1>2, <1>3, ContractEnd, ReleaseStutter DEF Keeps, ScriptInv, releaseVars

(* The gate judges the weights of this run, or none. *)
LEMMA JudgesKeeps ==
  ASSUME ScriptInv, NEW w \in {0, run}, Judges(w)
  PROVE  Keeps
<1>1. /\ pc = "evaluate" /\ pc' = "record" /\ gate' \in {"pass", "fail"}
      /\ UNCHANGED <<run, mem, disk, cut, hub, announced>>
      /\ judged' = [x \in Runs |-> IF x = w THEN gate' ELSE judged[x]]
  BY DEF Judges
<1>2. /\ judged[run] = None /\ run \in Runs /\ judged \in [Runs -> {"pass", "fail", None}]
      /\ hub # run /\ ~mem.repo /\ ~disk.repo /\ hub \in 0..MaxRuns /\ 0 \notin Runs
  BY <1>1, Types, ScriptAssumption DEF ScriptInv, Released, Verdicted, Runs
<1>3. /\ judged' \in [Runs -> {"pass", "fail", None}]
      /\ \A x \in Runs : x # run => judged'[x] = judged[x]
  BY <1>1, <1>2
<1>4. ScriptTypeOK'
  BY <1>1, <1>3 DEF ScriptInv, ScriptTypeOK, Runs
<1>5. StatusInv' /\ Explained'
  BY <1>1 DEF ScriptInv, StatusInv, Explained, Verdicted
<1>6. Released'
  <2>1. \A x \in Runs : judged'[x] # None => x <= run
    BY <1>2, <1>3, ScriptAssumption DEF ScriptInv, Released, Runs
  <2>2. hub # 0 => judged'[hub] = "pass"
    <3>1. hub # 0 => hub \in Runs
      BY <1>2, ScriptAssumption DEF Runs
    <3> QED BY <1>2, <1>3, <3>1 DEF ScriptInv, Released
  <2> QED BY <1>1, <1>2, <2>1, <2>2 DEF ScriptInv, Released, Runs
<1>7. ContractStep
  <2>1. ScriptPhase' = ScriptPhase /\ FileStage' = FileStage /\ disk'.verdict = disk.verdict
    BY <1>1 DEF ScriptPhase, FileStage
  <2> QED BY <2>1, ContractStutter
<1>8. ReleaseStep
  <2>1. CASE w = run
    <3>1. judged' = [judged EXCEPT ![run] = gate']
      BY <1>1, <1>2, <2>1
    <3>2. Release!Judge(run)
      BY <1>1, <1>2, <3>1 DEF Release!Judge
    <3> QED BY <1>2, <3>2 DEF ReleaseStep, Release!Next
  <2>2. CASE w = 0
    <3>1. judged' = judged
      BY <1>1, <1>2, <2>2
    <3> QED BY <1>1, <3>1, ReleaseStutter DEF releaseVars
  <2> QED BY <2>1, <2>2
<1> QED BY <1>4, <1>5, <1>6, <1>7, <1>8 DEF Keeps, ScriptInv

(* The verdict is written. *)
LEMMA RecordVerdictKeeps ==
  ASSUME ScriptInv, RecordVerdict
  PROVE  Keeps
<1>1. /\ pc = "record" /\ gate \in {"pass", "fail"}
      /\ UNCHANGED <<run, gate, judged, hub, announced>>
      /\ \/ /\ disk' = mem' /\ cut' = cut
            /\ pc' = IF gate = "pass" THEN "create" ELSE "finish"
         \/ disk' = disk /\ cut' = TRUE /\ pc' = "ended"
      /\ mem' = [mem EXCEPT !.verdict = gate, !.error = (gate # "pass")]
  BY DEF RecordVerdict, Saves, releaseVars, ScriptInv, StatusInv
<1>2. mem \in Status /\ disk \in Status /\ cut \in BOOLEAN
  BY Types DEF ScriptInv
<1>3. /\ mem' \in Status /\ mem'.started = mem.started /\ mem'.verdict = gate
      /\ mem'.repo = mem.repo /\ mem'.stage = mem.stage
  <2>1. (gate # "pass") \in BOOLEAN
    OBVIOUS
  <2> QED BY <1>1, <1>2, <2>1 DEF Status, Verdicts
<1>4. /\ mem.repo = FALSE /\ disk.repo = FALSE /\ mem.started = run /\ disk.verdict = None
      /\ mem.stage \notin {"none", "done"} /\ disk.stage \notin {"none", "done"}
      /\ run \in Runs
  BY <1>1, <1>2 DEF ScriptInv, StatusInv, Released, Verdicted, Status
<1>5. ScriptTypeOK'
  <2>1. {mem', disk'} \subseteq Status /\ cut' \in BOOLEAN
    BY <1>1, <1>2, <1>3
  <2> QED BY <1>1, <2>1 DEF ScriptInv, ScriptTypeOK, Status, BusyStages
<1>6. StatusInv' /\ Explained' /\ Released'
  BY <1>1, <1>3, <1>4, ScriptAssumption DEF ScriptInv, StatusInv, Explained, Released, Verdicted
<1>7. ContractStep
  <2>1. CASE pc' = "ended"
    BY <1>1, <2>1, ContractEnd
  <2>2. CASE pc' # "ended"
    <3>1. pc' \notin {"first", "ended"} /\ disk' = mem'
      BY <1>1, <2>2
    <3> QED BY <1>1, <1>3, <1>4, <3>1, ContractVerdict
  <2> QED BY <2>1, <2>2
<1> QED BY <1>1, <1>5, <1>6, <1>7, ReleaseStutter DEF Keeps, ScriptInv, releaseVars

(* create_repo and push_card change nothing that is modelled. *)
LEMMA PublishStepKeeps ==
  ASSUME ScriptInv, CreateRepo \/ PushCard
  PROVE  Keeps
<1>1. /\ <<pc, pc'>> \in {<<"create", "upload">>, <<"card", "announce">>}
      /\ UNCHANGED <<run, mem, disk, gate, cut, judged, hub, announced>>
  BY DEF CreateRepo, PushCard, Continues, releaseVars
<1>2. ScriptTypeOK'
  BY <1>1 DEF ScriptInv, ScriptTypeOK
<1>3. StatusInv' /\ Explained' /\ Released'
  BY <1>1 DEF ScriptInv, StatusInv, Explained, Released, Verdicted
<1>4. ContractStep
  <2>1. ScriptPhase' = ScriptPhase /\ FileStage' = FileStage /\ disk'.verdict = disk.verdict
    BY <1>1 DEF ScriptPhase, FileStage
  <2> QED BY <2>1, ContractStutter
<1> QED BY <1>1, <1>2, <1>3, <1>4, ReleaseStutter DEF Keeps, ScriptInv, releaseVars

(* An upload, or one that raised, of weights of this run that passed. *)
LEMMA UploadKeeps ==
  ASSUME ScriptInv, NEW w, NEW next \in {"card", "announce"},
         UploadFolder(w, next) \/ PublishRaises(w),
         pc = "upload" => w = run /\ judged[run] = "pass"
  PROVE  Keeps
<1>1. /\ pc \in {"create", "upload"} /\ pc' \in {"card", "announce", "unpublished"}
      /\ UNCHANGED <<run, mem, disk, gate, cut, judged, announced>>
      /\ hub' = hub \/ (pc = "upload" /\ hub' = w)
      /\ pc' # "unpublished" => pc = "upload" /\ hub' = w
  BY DEF UploadFolder, PublishRaises, Continues
<1>2. run \in Runs /\ hub' \in {hub, run} /\ 0 \notin Runs
      /\ ~mem.repo /\ ~disk.repo /\ (hub' # hub => judged[run] = "pass")
  BY <1>1, ScriptAssumption DEF ScriptInv, Released, Runs
<1>3. ScriptTypeOK'
  BY <1>1, <1>2 DEF ScriptInv, ScriptTypeOK, Runs
<1>4. StatusInv' /\ Explained'
  BY <1>1 DEF ScriptInv, StatusInv, Explained, Verdicted
<1>5. Released'
  BY <1>1, <1>2 DEF ScriptInv, Released, Verdicted
<1>6. ContractStep
  <2>1. ScriptPhase' = ScriptPhase /\ FileStage' = FileStage /\ disk'.verdict = disk.verdict
    BY <1>1 DEF ScriptPhase, FileStage
  <2> QED BY <2>1, ContractStutter
<1>7. ReleaseStep
  <2>1. CASE hub' = hub
    BY <1>1, <2>1, ReleaseStutter DEF releaseVars
  <2>2. CASE hub' # hub
    <3>1. Release!Release(run)
      BY <1>1, <1>2, <2>2 DEF Release!Release
    <3> QED BY <1>2, <3>1 DEF ReleaseStep, Release!Next
  <2> QED BY <2>1, <2>2
<1> QED BY <1>3, <1>4, <1>5, <1>6, <1>7 DEF Keeps, ScriptInv

(* publish()'s last write names the repo; the write of its except clause    *)
(* may carry that name to the file when the first one raised.               *)
LEMMA AnnounceKeeps ==
  ASSUME ScriptInv, Announce \/ RecordUnpublished
  PROVE  Keeps
<1>1. /\ pc \in {"announce", "unpublished"} /\ UNCHANGED <<run, gate, judged, hub>>
      /\ \/ disk' = mem' /\ cut' = cut /\ pc' = "finish"
         \/ /\ disk' = disk /\ cut' \in BOOLEAN
            /\ pc' = IF pc = "announce" THEN "unpublished" ELSE "ended"
      /\ mem' = IF pc = "announce" THEN [mem EXCEPT !.repo = TRUE] ELSE [mem EXCEPT !.error = TRUE]
      /\ announced' = IF disk'.repo THEN announced \cup {disk'.started} ELSE announced
  BY DEF Announce, RecordUnpublished, Saves
<1>2. mem \in Status /\ disk \in Status /\ cut \in BOOLEAN /\ announced \subseteq Runs
  BY Types DEF ScriptInv
<1>3. /\ mem' \in Status /\ mem'.started = mem.started /\ mem'.verdict = mem.verdict
      /\ mem'.stage = mem.stage
      /\ IF pc = "announce" THEN mem'.repo = TRUE ELSE mem'.repo = mem.repo /\ mem'.error = TRUE
  BY <1>1, <1>2 DEF Status
<1>4. /\ disk.repo = FALSE /\ mem.started = run /\ mem.verdict = "pass"
      /\ disk.verdict = "pass" /\ disk.started = run
      /\ mem.stage \notin {"none", "done"} /\ disk.stage \notin {"none", "done"}
      /\ run \in Runs /\ hub \in 0..MaxRuns /\ 0 \notin Runs
      /\ pc = "announce" \/ mem.repo => hub = run
  BY <1>1, <1>2, Types, ScriptAssumption
     DEF ScriptInv, StatusInv, Released, Verdicted, Status, Runs
<1>5. {mem', disk'} \subseteq Status /\ cut' \in BOOLEAN /\ announced' \subseteq Runs
  BY <1>1, <1>2, <1>3, <1>4
<1>6. ScriptTypeOK'
  BY <1>1, <1>5 DEF ScriptInv, ScriptTypeOK, Status, BusyStages, Runs
<1>7. StatusInv'
  BY <1>1, <1>3, <1>4 DEF ScriptInv, StatusInv, Verdicted
<1>8. Explained'
  BY <1>1, <1>3, <1>4 DEF Explained
<1>9. Released'
  <2>1. mem'.repo => hub = run
    BY <1>1, <1>3, <1>4
  <2> QED BY <1>1, <1>3, <1>4, <2>1 DEF ScriptInv, Released, Verdicted
<1>10. ContractStep
  <2>1. CASE pc' = "ended"
    BY <1>1, <2>1, ContractEnd
  <2>2. CASE pc' # "ended"
    <3>1. ScriptPhase' = ScriptPhase
      BY <1>1, <2>2 DEF ScriptPhase
    <3>2. FileStage' = FileStage /\ disk'.verdict = disk.verdict
      BY <1>1, <1>3, <1>4 DEF FileStage
    <3> QED BY <3>1, <3>2, ContractStutter
  <2> QED BY <2>1, <2>2
<1>11. ReleaseStep
  <2>1. CASE ~disk'.repo
    BY <1>1, <2>1, ReleaseStutter DEF releaseVars
  <2>2. CASE disk'.repo
    <3>1. disk' = mem' /\ hub = run /\ announced' = announced \cup {run}
      BY <1>1, <1>3, <1>4, <2>2
    <3>2. Release!Announce(run)
      BY <1>1, <1>4, <3>1 DEF Release!Announce
    <3> QED BY <1>4, <3>2 DEF ReleaseStep, Release!Next
  <2> QED BY <2>1, <2>2
<1> QED BY <1>6, <1>7, <1>8, <1>9, <1>10, <1>11 DEF Keeps, ScriptInv

(* DONE is written once, with a verdict. *)
LEMMA DoneKeeps ==
  ASSUME ScriptInv, Finish \/ Fail
  PROVE  Keeps
<1>1. /\ pc \in {"finish", "fail"} /\ UNCHANGED <<run, gate, judged, hub, announced>>
      /\ \/ disk' = mem' /\ cut' = cut /\ pc' = "exit"
         \/ disk' = disk /\ cut' = TRUE /\ pc' = "ended"
      /\ mem' = IF pc = "finish" THEN [mem EXCEPT !.stage = "done"]
                ELSE [mem EXCEPT !.stage = "done", !.verdict = "error", !.error = TRUE]
  BY DEF Finish, Enters, Fail, Saves, releaseVars
<1>2. mem \in Status /\ disk \in Status /\ cut \in BOOLEAN
  BY Types DEF ScriptInv
<1>3. /\ mem' \in Status /\ mem'.started = mem.started /\ mem'.repo = mem.repo
      /\ mem'.stage = "done"
      /\ IF pc = "finish" THEN mem'.verdict = mem.verdict /\ mem'.error = mem.error
         ELSE mem'.verdict = "error" /\ mem'.error = TRUE
  BY <1>1, <1>2 DEF Status, Verdicts
<1>4. /\ mem.started = run /\ disk.verdict = mem.verdict /\ disk.started = run
      /\ disk.stage \notin {"none", "done"} /\ run \in Runs
      /\ pc = "finish" => mem.verdict \in {"pass", "fail"}
      /\ pc = "fail" => mem.verdict = None /\ ~mem.repo
      /\ pc = "finish" /\ mem.verdict = "pass" => mem.repo \/ mem.error
      /\ mem.repo => hub = run
      /\ 0 \notin Runs
  BY <1>1, ScriptAssumption DEF ScriptInv, StatusInv, Released, Explained, Verdicted, Runs
<1>5. ScriptTypeOK'
  <2>1. {mem', disk'} \subseteq Status /\ cut' \in BOOLEAN
    BY <1>1, <1>2, <1>3
  <2> QED BY <1>1, <2>1 DEF ScriptInv, ScriptTypeOK, Status, BusyStages
<1>6. StatusInv'
  BY <1>1, <1>3, <1>4 DEF StatusInv, Verdicted
<1>7. Explained'
  BY <1>1, <1>3, <1>4, ScriptAssumption DEF Explained
<1>8. Released'
  BY <1>1, <1>3, <1>4 DEF ScriptInv, Released, Verdicted
<1>9. ContractStep
  <2>1. CASE pc' = "ended"
    BY <1>1, <2>1, ContractEnd
  <2>2. CASE pc' # "ended"
    <3>1. disk' = mem' /\ pc' = "exit" /\ pc \notin {"first", "ended"}
      BY <1>1, <2>2
    <3>2. disk'.verdict = IF disk.verdict = None THEN "error" ELSE disk.verdict
      BY <1>1, <1>3, <1>4, <3>1, ScriptAssumption
    <3> QED BY <1>3, <1>4, <3>1, <3>2, ContractDone
  <2> QED BY <2>1, <2>2
<1> QED BY <1>1, <1>5, <1>6, <1>7, <1>8, <1>9, ReleaseStutter DEF Keeps, ScriptInv, releaseVars

LEMMA ExitsKeeps ==
  ASSUME ScriptInv, Exits
  PROVE  Keeps
<1>1. /\ pc = "exit" /\ pc' = "ended"
      /\ UNCHANGED <<run, mem, disk, gate, cut, judged, hub, announced>>
  BY DEF Exits, Continues, releaseVars
<1>2. ScriptTypeOK'
  BY <1>1 DEF ScriptInv, ScriptTypeOK
<1>3. StatusInv' /\ Explained' /\ Released'
  BY <1>1 DEF ScriptInv, StatusInv, Explained, Released, Verdicted
<1> QED BY <1>1, <1>2, <1>3, ContractEnd, ReleaseStutter DEF Keeps, ScriptInv, releaseVars

LEMMA StutterKeeps ==
  ASSUME ScriptInv, UNCHANGED scriptVars
  PROVE  Keeps
<1>1. UNCHANGED <<run, pc, mem, disk, gate, cut, judged, hub, announced>>
  BY DEF scriptVars
<1>2. ScriptTypeOK'
  BY <1>1 DEF ScriptInv, ScriptTypeOK
<1>3. StatusInv' /\ Explained' /\ Released'
  BY <1>1 DEF ScriptInv, StatusInv, Explained, Released
<1>4. ContractStep
  <2>1. ScriptPhase' = ScriptPhase /\ FileStage' = FileStage /\ disk'.verdict = disk.verdict
    BY <1>1 DEF ScriptPhase, FileStage
  <2> QED BY <2>1, ContractStutter
<1> QED BY <1>1, <1>2, <1>3, <1>4, ReleaseStutter DEF Keeps, ScriptInv, releaseVars

(* Everything a script does after its evaluation. *)
LEMMA AfterEvaluationKeeps ==
  ASSUME ScriptInv, NEW w, AfterEvaluation(w),
         pc = "upload" => w = run /\ judged[run] = "pass"
  PROVE  Keeps
<1>1. CASE UploadFolder(w, "card") \/ PublishRaises(w)
  <2>1. PICK next \in {"card", "announce"} : next = "card"
    OBVIOUS
  <2>2. UploadFolder(w, next) \/ PublishRaises(w)
    BY <1>1, <2>1
  <2> QED BY <2>2, UploadKeeps
<1> QED
  BY <1>1, RecordVerdictKeeps, PublishStepKeeps, AnnounceKeeps, DoneKeeps, ExitsKeeps
  DEF AfterEvaluation

(* What the controllers conclude from the contract follows from it: a DONE  *)
(* comes with a verdict, and neither is taken back before another script    *)
(* writes. *)
LEMMA ContractConclusions ==
  Contract!Spec => []Contract!DoneHasVerdict /\ Contract!StatusStands
<1>1. Contract!Init => Contract!DoneHasVerdict
  BY DEF Contract!Init, Contract!DoneHasVerdict
<1>2. Contract!DoneHasVerdict /\ [Contract!Next]_(Contract!vars) => Contract!DoneHasVerdict'
  BY ScriptAssumption
  DEF Contract!DoneHasVerdict, Contract!Next, Contract!vars, Contract!Launch,
      Contract!FirstWrite, Contract!RecordVerdict, Contract!RecordDone, Contract!End,
      Contract!Writing, Verdicts
<1>3. [Contract!Next]_(Contract!vars) => [Contract!Stands]_(Contract!vars)
  BY ScriptAssumption
  DEF Contract!Stands, Contract!TakenBack, Contract!NextScriptWrites, Contract!Next,
      Contract!vars, Contract!Launch, Contract!FirstWrite, Contract!RecordVerdict,
      Contract!RecordDone, Contract!End, Contract!Writing, Verdicts
<1> QED BY <1>1, <1>2, <1>3, PTL DEF Contract!Spec, Contract!StatusStands

(* What a user of the repo concludes from the promise about it: whatever    *)
(* the repo holds, or is said to, passed the gate, and a judgement stands.  *)
LEMMA ReleaseConclusions ==
  Release!Spec => []Release!OnlyPassesLeave /\ Release!JudgedOnce
<1> DEFINE Judgements == {"pass", "fail", None}
           Held == IF hub = 0 THEN None ELSE hub
           Sound == Release!OnlyPassesLeave /\ judged \in [Runs -> Judgements]
<1>1. Release!Init => Sound
  BY ScriptAssumption DEF Release!Init, Release!OnlyPassesLeave
<1>2. Sound /\ [Release!Next]_(Release!vars) => Sound'
  <2> SUFFICES ASSUME Sound, [Release!Next]_(Release!vars) PROVE Sound'
    OBVIOUS
  <2> USE DEF Release!OnlyPassesLeave
  <2>1. ASSUME NEW w \in Runs, Release!Judge(w) PROVE Sound'
    <3>1. PICK v \in {"pass", "fail"} : judged' = [judged EXCEPT ![w] = v]
      BY <2>1 DEF Release!Judge
    <3>2. judged[w] = None /\ Held' = Held /\ announced' = announced
      BY <2>1, ScriptAssumption DEF Release!Judge, Runs
    <3>3. \A x \in Runs : judged[x] = "pass" => judged'[x] = "pass"
      BY <3>1, <3>2, ScriptAssumption
    <3> QED BY <3>1, <3>2, <3>3
  <2>2. ASSUME NEW w \in Runs, Release!Release(w) PROVE Sound'
    BY <2>2 DEF Release!Release
  <2>3. ASSUME NEW w \in Runs, Release!Announce(w) PROVE Sound'
    BY <2>3, ScriptAssumption DEF Release!Announce, Runs
  <2>4. CASE UNCHANGED Release!vars
    BY <2>4 DEF Release!vars
  <2> QED BY <2>1, <2>2, <2>3, <2>4 DEF Release!Next
<1>3. Sound /\ [Release!Next]_(Release!vars) => [Release!JudgementStands]_(Release!vars)
  BY DEF Release!JudgementStands, Release!Next, Release!vars, Release!Judge, Release!Release,
      Release!Announce
<1>4. Sound => Release!OnlyPassesLeave
  OBVIOUS
<1> QED BY <1>1, <1>2, <1>3, <1>4, PTL DEF Release!Spec, Release!JudgedOnce

(* The invariants of the script, from ScriptInv. *)
LEMMA ScriptInvImplies ==
  ASSUME ScriptInv
  PROVE  ScriptTypeOK /\ UnpublishedPassExplained /\ AnnouncedIsReleased
BY DEF ScriptInv, Explained, Released, UnpublishedPassExplained, AnnouncedIsReleased
=============================================================================
