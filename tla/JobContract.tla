---------------------------- MODULE JobContract ----------------------------
(***************************************************************************)
(* What a stage controller relies on about the scripts launched on its     *)
(* boxes, and what every run_stageN.py owes it: the life of status.json.   *)
(*                                                                         *)
(* On a box scripts run one at a time.  One that is launched first         *)
(* replaces the status an earlier script left, may then record a verdict,  *)
(* and records DONE once, with a verdict; after DONE it writes nothing.    *)
(* It may be killed at any moment, leaving the file as it is.              *)
(***************************************************************************)
CONSTANTS Boxes, None, Verdicts, ErrorVerdict

VARIABLES
  phase,     \* the script: "gone", "launched" (nothing written yet), "writing"
  stage,     \* status.json: "none" (no file), "busy" (any stage but DONE), "done"
  outcome    \* status.json: the verdict, or None

vars == <<phase, stage, outcome>>

Init ==
  /\ phase = [b \in Boxes |-> "gone"]
  /\ stage = [b \in Boxes |-> "none"]
  /\ outcome = [b \in Boxes |-> None]

Launch(b) ==
  /\ phase[b] = "gone"
  /\ phase' = [phase EXCEPT ![b] = "launched"]
  /\ UNCHANGED <<stage, outcome>>

FirstWrite(b) ==
  /\ phase[b] = "launched"
  /\ phase' = [phase EXCEPT ![b] = "writing"]
  /\ stage' = [stage EXCEPT ![b] = "busy"]
  /\ outcome' = [outcome EXCEPT ![b] = None]

Writing(b) == phase[b] = "writing" /\ stage[b] = "busy"

RecordVerdict(b) ==
  /\ Writing(b)
  /\ outcome[b] = None
  /\ \E v \in Verdicts \ {ErrorVerdict} : outcome' = [outcome EXCEPT ![b] = v]
  /\ UNCHANGED <<phase, stage>>

RecordDone(b) ==
  /\ Writing(b)
  /\ stage' = [stage EXCEPT ![b] = "done"]
  /\ outcome' = [outcome EXCEPT ![b] = IF @ = None THEN ErrorVerdict ELSE @]
  /\ UNCHANGED phase

(* The script returns, dies, or its box is stopped.                         *)
End(b) ==
  /\ phase[b] # "gone"
  /\ phase' = [phase EXCEPT ![b] = "gone"]
  /\ UNCHANGED <<stage, outcome>>

Next ==
  \E b \in Boxes :
    Launch(b) \/ FirstWrite(b) \/ RecordVerdict(b) \/ RecordDone(b) \/ End(b)

Spec == Init /\ [][Next]_vars

----------------------------------------------------------------------------
(* What a reader of status.json may conclude from the contract.  A verdict, *)
(* and DONE, stand until another script has been launched and writes.       *)
DoneHasVerdict == \A b \in Boxes : stage[b] = "done" => outcome[b] # None

TakenBack(b) ==
  \/ outcome[b] # None /\ outcome'[b] # outcome[b]
  \/ stage[b] = "done" /\ stage'[b] # "done"

NextScriptWrites(b) == phase[b] = "launched" /\ phase'[b] = "writing"

Stands == \A b \in Boxes : TakenBack(b) => NextScriptWrites(b)
StatusStands == [][Stands]_vars
============================================================================
