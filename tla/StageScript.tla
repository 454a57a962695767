---------------------------- MODULE StageScript ----------------------------
(***************************************************************************)
(* What the scripts run_stageN.py and run_frontier.py have in common: the  *)
(* status object and its file, update_status(), fail(), and the tail of    *)
(* main() from the verdict to DONE, publish() included.  A stage's module  *)
(* EXTENDS this one with the steps that produce its weights.               *)
(*                                                                         *)
(* Runs of the script follow one another on one box (the tmux session has  *)
(* a fixed name) whose disk survives them.  Weights are named by the run   *)
(* whose steps produced them; 0 stands for none, and for files that are    *)
(* incomplete or not the outcome of all of one run's steps.                *)
(***************************************************************************)
EXTENDS Naturals

CONSTANTS
  None,
  MaxRuns,      \* bound: runs on one box
  Faults        \* which of the faults below may happen

FaultKinds == {"step", "hub", "disk", "die"}

ASSUME ScriptAssumption ==
  /\ None \notin Nat
  /\ None \notin {"pass", "fail", "error"}
  /\ MaxRuns \in Nat \ {0}
  /\ Faults \subseteq FaultKinds

VARIABLES
  run,         \* the number of the run on the box, or of the last one
  pc,          \* its next step
  mem,         \* main()'s `status` object
  disk,        \* status.json
  gate,        \* main()'s `metrics`: what compute_verdict makes of them
  judged,      \* history: what the gate said of each run's weights
  hub,         \* the weights the Hugging Face repo holds
  announced,   \* history: weights a status.json reported as published
  cut          \* history: the run ended by dying or by a raise outside every try

scriptVars == <<run, pc, mem, disk, gate, judged, hub, announced, cut>>
releaseVars == <<judged, hub, announced>>

Runs == 1..MaxRuns

Verdicts == {"pass", "fail", "error"}

(* Status.new(): started_at tells whose status it is.                       *)
New(r) == [stage |-> "setup", started |-> r, verdict |-> None,
           error |-> FALSE, repo |-> FALSE]

NoFile == [New(0) EXCEPT !.stage = "none"]

ScriptInit ==
  /\ run = 0
  /\ pc = "ended"
  /\ mem = NoFile
  /\ disk = NoFile
  /\ gate = None
  /\ judged = [w \in Runs |-> None]
  /\ hub = 0
  /\ announced = {}
  /\ cut = FALSE

(* The controller's tmux new-session: main() begins with Status.new().      *)
Begin ==
  /\ pc = "ended"
  /\ run < MaxRuns
  /\ run' = run + 1
  /\ pc' = "first"
  /\ mem' = New(run + 1)
  /\ gate' = None
  /\ cut' = FALSE
  /\ UNCHANGED <<disk, releaseVars>>

(* update_status(): the fields are set first, then the file is replaced as  *)
(* a whole, or the write raises and the file stays as it was.               *)
Saves(at, status, next, onError) ==
  /\ pc = at
  /\ mem' = status
  /\ \/ disk' = status /\ pc' = next /\ cut' = cut
     \/ /\ "disk" \in Faults
        /\ disk' = disk /\ pc' = onError /\ cut' = (onError = "ended")
  /\ UNCHANGED <<run, gate>>

(* A write outside every try: if it raises, the script is over.             *)
Enters(at, stage, next) ==
  /\ Saves(at, [mem EXCEPT !.stage = stage], next, "ended")
  /\ UNCHANGED releaseVars

FirstWrite(next) ==
  /\ Saves("first", mem, next, "ended")
  /\ UNCHANGED releaseVars

(* A library call inside a try that ends in `return fail(...)`.             *)
Raises(at) ==
  /\ "step" \in Faults
  /\ pc = at
  /\ pc' = "fail"
  /\ UNCHANGED <<run, mem, disk, gate, cut, releaseVars>>

(* A call outside every try raises: the script is over, and says nothing.   *)
Escapes(at) ==
  /\ "step" \in Faults
  /\ pc = at
  /\ pc' = "ended"
  /\ cut' = TRUE
  /\ UNCHANGED <<run, mem, disk, gate, releaseVars>>

Continues(at, next) ==
  /\ pc = at
  /\ pc' = next
  /\ UNCHANGED <<run, mem, disk, gate, cut>>

(* Mutant: fail() records the verdict but not the stage.                    *)
FailWithoutDone ==
  /\ Saves("fail", [mem EXCEPT !.verdict = "error", !.error = TRUE], "exit", "ended")
  /\ UNCHANGED releaseVars

Fail ==
  /\ Saves("fail", [mem EXCEPT !.stage = "done", !.verdict = "error", !.error = TRUE],
           "exit", "ended")
  /\ UNCHANGED releaseVars

(* The evaluation of weights w.                                             *)
Judges(w) ==
  /\ pc = "evaluate"
  /\ pc' = "record"
  /\ gate' \in {"pass", "fail"}
  /\ judged' = [x \in Runs |-> IF x = w THEN gate' ELSE judged[x]]
  /\ UNCHANGED <<run, mem, disk, cut, hub, announced>>

(* compute_verdict and the update_status that records it.                   *)
RecordVerdict ==
  /\ Saves("record", [mem EXCEPT !.verdict = gate, !.error = (gate # "pass")],
           IF gate = "pass" THEN "create" ELSE "finish", "ended")
  /\ UNCHANGED releaseVars

----------------------------------------------------------------------------
(* publish(), inside its try                                                *)

(* Mutant: the repo is named in the status before anything is uploaded.     *)
AnnounceAtCreation ==
  /\ Saves("create", [mem EXCEPT !.repo = TRUE], "upload", "unpublished")
  /\ announced' = IF disk'.repo THEN announced \cup {disk'.started} ELSE announced
  /\ UNCHANGED <<judged, hub>>

CreateRepo ==
  /\ Continues("create", "upload")
  /\ UNCHANGED releaseVars

UploadFolder(w, next) ==
  /\ Continues("upload", next)
  /\ hub' = w
  /\ UNCHANGED <<judged, announced>>

(* create_repo or upload_folder raises; an upload may have reached the repo *)
(* all the same.                                                            *)
PublishRaises(w) ==
  /\ pc \in {"create", "upload"}
  /\ "hub" \in Faults
  /\ pc' = "unpublished"
  /\ hub' \in {hub} \cup (IF pc = "upload" THEN {w} ELSE {})
  /\ UNCHANGED <<run, mem, disk, gate, cut, judged, announced>>

(* push_card and the Drive copy: their exceptions are swallowed.            *)
PushCard ==
  /\ Continues("card", "announce")
  /\ UNCHANGED releaseVars

Announce ==
  /\ Saves("announce", [mem EXCEPT !.repo = TRUE], "finish", "unpublished")
  /\ announced' = IF disk'.repo THEN announced \cup {disk'.started} ELSE announced
  /\ UNCHANGED <<judged, hub>>

(* Mutant: publish() swallows the exception.                                *)
UnpublishedSilently ==
  /\ Continues("unpublished", "finish")
  /\ UNCHANGED releaseVars

(* Mutant: a failed publish turns the verdict recorded before into ERROR.   *)
UnpublishedIsError ==
  /\ Saves("unpublished", [mem EXCEPT !.verdict = "error", !.error = TRUE],
           "finish", "ended")
  /\ UNCHANGED releaseVars

(* except: update_status(error=...).  The verdict stays PASS; a repo set by *)
(* an Announce whose write raised reaches the file with this write.         *)
RecordUnpublished ==
  /\ Saves("unpublished", [mem EXCEPT !.error = TRUE], "finish", "ended")
  /\ announced' = IF disk'.repo THEN announced \cup {disk'.started} ELSE announced
  /\ UNCHANGED <<judged, hub>>

Finish == Enters("finish", "done", "exit")

Exits ==
  /\ Continues("exit", "ended")
  /\ UNCHANGED releaseVars

(* OOM kill, tmux kill, the box stopped: nothing more is written.           *)
Dies ==
  /\ "die" \in Faults
  /\ pc # "ended"
  /\ pc' = "ended"
  /\ cut' = TRUE
  /\ UNCHANGED <<run, mem, disk, gate, releaseVars>>

(* The steps of main() after the evaluation, and fail().                    *)
AfterEvaluation(published) ==
  \/ RecordVerdict
  \/ CreateRepo \/ UploadFolder(published, "card") \/ PublishRaises(published)
  \/ PushCard \/ Announce \/ RecordUnpublished
  \/ Finish \/ Fail \/ Exits

----------------------------------------------------------------------------
ScriptTypeOK ==
  /\ run \in 0..MaxRuns
  /\ {mem, disk} \subseteq
       [started : 0..MaxRuns,
        stage : {"none", "setup", "abliterating", "preparing_data", "generating",
                 "verifying", "training", "training_sft", "training_orpo",
                 "evaluating", "done"},
        verdict : Verdicts \cup {None}, error : BOOLEAN, repo : BOOLEAN]
  /\ gate \in {"pass", "fail", None}
  /\ judged \in [Runs -> {"pass", "fail", None}]
  /\ hub \in 0..MaxRuns
  /\ announced \subseteq Runs
  /\ cut \in BOOLEAN

(* A PASS that names no repo says why: the controller reports PASS and      *)
(* exits 0 on it, so the error is all a reader has to learn that nothing    *)
(* was published (the except clause around publish()).                      *)
UnpublishedPassExplained ==
  disk.stage = "done" /\ disk.verdict = "pass" => disk.repo \/ disk.error

(* As long as a status.json names the repo, the repo holds the weights of   *)
(* the run that wrote it, and they passed (publish(): hf_repo is set last). *)
AnnouncedIsReleased ==
  disk.repo => hub = disk.started /\ judged[hub] = "pass"

(* Every run that starts ends with DONE in its own status.json, unless it   *)
(* dies or what stands outside every try raises (a write of the status; in  *)
(* stage 1 also the handling of heretic's log and process, and the reading  *)
(* of its KLs): whatever other step fails, and when, the controller polling *)
(* for DONE gets it (fail(), and the returns of main()).                    *)
ReachesDone ==
  pc = "first" ~> pc = "ended" /\ (cut \/ (disk.stage = "done" /\ disk.started = run))

Contract == INSTANCE JobContract WITH
  Boxes <- {"box"},
  ErrorVerdict <- "error",
  phase <- [b \in {"box"} |-> IF pc = "ended" THEN "gone"
                              ELSE IF pc = "first" THEN "launched" ELSE "writing"],
  stage <- [b \in {"box"} |-> IF disk.stage \in {"none", "done"}
                              THEN disk.stage ELSE "busy"],
  outcome <- [b \in {"box"} |-> disk.verdict]

Release == INSTANCE GatedRelease WITH
  Weights <- Runs,
  None <- None,
  hub <- IF hub = 0 THEN None ELSE hub

(* The scripts keep the contract the controllers rely on, and weights reach *)
(* the repo only after they passed and are reported as published only when  *)
(* they are there, over all the runs of a box and with every fault.         *)
KeepsPromises == Contract!Spec /\ Release!Spec
============================================================================
