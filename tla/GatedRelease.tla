---------------------------- MODULE GatedRelease ----------------------------
(***************************************************************************)
(* What the stage scripts promise about the Hugging Face repo, whatever    *)
(* stage they run and however often they are run, killed and run again:    *)
(* weights reach the repo only after an evaluation of those very weights   *)
(* passed the gate, and a status.json names the repo only when the repo    *)
(* holds the weights that status is about.                                 *)
(***************************************************************************)
CONSTANTS Weights, None

VARIABLES
  judged,      \* what the gate said of each set of weights, None before
  hub,         \* the weights in the repo, or None
  announced    \* the weights some status.json reported as published

vars == <<judged, hub, announced>>

Init ==
  /\ judged = [w \in Weights |-> None]
  /\ hub = None
  /\ announced = {}

Judge(w) ==
  /\ judged[w] = None
  /\ \E v \in {"pass", "fail"} : judged' = [judged EXCEPT ![w] = v]
  /\ UNCHANGED <<hub, announced>>

Release(w) ==
  /\ judged[w] = "pass"
  /\ hub' = w
  /\ UNCHANGED <<judged, announced>>

Announce(w) ==
  /\ hub = w
  /\ announced' = announced \cup {w}
  /\ UNCHANGED <<judged, hub>>

Next == \E w \in Weights : Judge(w) \/ Release(w) \/ Announce(w)

Spec == Init /\ [][Next]_vars

----------------------------------------------------------------------------
(* What a user of the repo may conclude: whatever it holds, and whatever    *)
(* was announced, passed the gate, and what the gate said is not taken      *)
(* back.                                                                    *)
OnlyPassesLeave ==
  /\ hub # None => hub \in Weights /\ judged[hub] = "pass"
  /\ \A w \in announced : judged[w] = "pass"

JudgementStands == \A w \in Weights : judged[w] # None => judged'[w] = judged[w]
JudgedOnce == [][JudgementStands]_vars
=============================================================================
