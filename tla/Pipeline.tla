------------------------------ MODULE Pipeline ------------------------------
(***************************************************************************)
(* pipeline/runner.py: the stages' controllers one after the other, each   *)
(* given the Hugging Face repo of the stage before it by name, until one   *)
(* exits non-zero.  The repos outlive the pipeline, which may be run again.*)
(*                                                                         *)
(* A controller is seen through its exit code and through what becomes of  *)
(* its stage's repo, as StageController and StageScript have them: a PASS  *)
(* whose publish failed exits 0 with the repo as it was, and a controller  *)
(* that is killed or cannot stop its box leaves a script that may still    *)
(* publish.                                                                *)
(***************************************************************************)
EXTENDS Naturals, Sequences

CONSTANTS
  N,           \* len(STAGES)
  MaxRuns,     \* bound: runs of the pipeline
  Faults       \* "unpublished": exit 0 without a publish; "orphan": a script outlives it

ASSUME PipelineAssumption ==
  /\ N \in Nat \ {0} /\ MaxRuns \in Nat \ {0}
  /\ Faults \subseteq {"unpublished", "orphan"}

VARIABLES
  run,       \* which run of the pipeline this is
  results,   \* run_pipeline's results: the exit codes so far
  input,     \* input_model: 0 for the base model, n for the repo of stage n
  over,      \* has run_pipeline returned?
  hub,       \* per stage, the lineage of the weights in its repo, <<>> if none
  orphans,   \* per stage, the weights a script without a controller is making
  codes,     \* history: per run, its results
  published  \* history: the stages that published in this run

vars == <<run, results, input, over, hub, orphans, codes, published>>

Stages == 1..N

(* The lineage of weights: the pipeline run each stage of theirs was in.    *)
Init ==
  /\ run = 0 /\ results = <<>> /\ input = 0 /\ over = TRUE
  /\ hub = [n \in Stages |-> <<>>]
  /\ orphans = [n \in Stages |-> <<>>]
  /\ codes = [r \in 1..MaxRuns |-> <<>>]
  /\ published = {}

RunPipeline ==
  /\ over /\ run < MaxRuns
  /\ run' = run + 1
  /\ results' = <<>> /\ input' = 0 /\ over' = FALSE /\ published' = {}
  /\ UNCHANGED <<hub, orphans, codes>>

Stage == Len(results) + 1

Loadable == input > 0 => hub[input] # <<>>

Made == IF input = 0 THEN <<run>> ELSE Append(hub[input], run)

(* Mutant: input_model is not advanced.                                     *)
ReturnsSameInput(code) ==
  /\ results' = Append(results, code)
  /\ codes' = [codes EXCEPT ![run] = results']
  /\ input' = input
  /\ over' = (code # 0 \/ Stage = N)
  /\ UNCHANGED run

(* Mutant: the loop goes on after a failed stage.                           *)
ReturnsAndGoesOn(code) ==
  /\ results' = Append(results, code)
  /\ codes' = [codes EXCEPT ![run] = results']
  /\ input' = IF code = 0 THEN Stage ELSE input
  /\ over' = (Stage = N)
  /\ UNCHANGED run

(* subprocess.run returned: the result is kept, and the loop goes on with   *)
(* this stage's output_repo or breaks.                                      *)
Returns(code) ==
  /\ results' = Append(results, code)
  /\ codes' = [codes EXCEPT ![run] = results']
  /\ input' = IF code = 0 THEN Stage ELSE input
  /\ over' = (code # 0 \/ Stage = N)
  /\ UNCHANGED run

(* An orphaned script of this stage still holds the tmux session: the       *)
(* controller's launch is refused and its box is stopped, if the call works.*)
Refused ==
  /\ ~over /\ orphans[Stage] # <<>>
  /\ Returns(1)
  /\ orphans' \in {orphans, [orphans EXCEPT ![Stage] = <<>>]}
  /\ UNCHANGED <<hub, published>>

StagePublishes ==
  /\ ~over /\ orphans[Stage] = <<>> /\ Loadable
  /\ \E code \in {0, 1} : Returns(code)      \* 1: stopped or killed after the upload
  /\ hub' = [hub EXCEPT ![Stage] = Made]
  /\ published' = published \cup {Stage}
  /\ UNCHANGED orphans

StagePassesUnpublished ==
  /\ "unpublished" \in Faults
  /\ ~over /\ orphans[Stage] = <<>> /\ Loadable
  /\ Returns(0)
  /\ UNCHANGED <<hub, orphans, published>>

StageFails ==
  /\ ~over /\ orphans[Stage] = <<>>
  /\ Returns(1)
  /\ UNCHANGED <<hub, orphans, published>>

(* The controller is killed, or cannot stop the box, and its script lives   *)
(* on; with a verdict an earlier run left on the box it may even exit 0.    *)
LeavesScript ==
  /\ "orphan" \in Faults
  /\ ~over /\ orphans[Stage] = <<>> /\ Loadable
  /\ \E code \in {0, 1} : Returns(code)
  /\ orphans' = [orphans EXCEPT ![Stage] = Made]
  /\ UNCHANGED <<hub, published>>

OrphanEnds(n) ==
  /\ orphans[n] # <<>>
  /\ hub' \in {hub, [hub EXCEPT ![n] = orphans[n]]}
  /\ orphans' = [orphans EXCEPT ![n] = <<>>]
  /\ UNCHANGED <<run, results, input, over, codes, published>>

Next ==
  \/ RunPipeline \/ Refused \/ StagePublishes \/ StagePassesUnpublished
  \/ StageFails \/ LeavesScript
  \/ \E n \in Stages : OrphanEnds(n)

Spec == Init /\ [][Next]_vars

----------------------------------------------------------------------------
(* main()'s return code is 0.                                               *)
Succeeded == over /\ Len(results) = N /\ \A n \in Stages : results[n] = 0

(* Types, and the shape of the results: only the last may be a failure, and *)
(* then the loop is over.                                                   *)
TypeOK ==
  /\ run \in 0..MaxRuns
  /\ Len(results) <= N
  /\ \A n \in DOMAIN results : results[n] = 0 \/ (results[n] = 1 /\ n = Len(results) /\ over)
  /\ input \in 0..Len(results)
  /\ over \in BOOLEAN
  /\ published \subseteq Stages
  /\ \A n \in Stages : \A w \in {hub[n], orphans[n]} :
       \A k \in DOMAIN w : w[k] \in 1..MaxRuns

(* Whatever a repo holds went through every stage before it, in whichever   *)
(* runs of the pipeline (run_pipeline's input_model).                       *)
RepoWentThroughAllStages ==
  \A n \in Stages : Len(hub[n]) \in {0, n}

(* A stage trained in a run of the pipeline only after every stage before   *)
(* it passed in that same run: a failed gate stops what is downstream.      *)
NothingBehindAFailedGate ==
  \A n \in Stages : hub[n] # <<>> =>
    \A k \in 1..(n - 1) : codes[hub[n][Len(hub[n])]][k] = 0

(* "Each stage's output_repo feeds the next stage's --model": when all      *)
(* stages passed and each of them published, the last repo holds weights    *)
(* that went through this run's stages, though it has a name that earlier   *)
(* runs and their orphaned scripts wrote to as well.  A PASS that published *)
(* nothing breaks the chain, and exits 0 all the same.                      *)
SuccessIsThisRuns ==
  Succeeded /\ published = Stages => hub[N] = [n \in Stages |-> run]
=============================================================================
