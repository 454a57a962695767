--------------------------- MODULE MCEvaluationRun ---------------------------
(* EvaluationRun with, for every benchmark, scores that put its metric next *)
(* to the limits and the target.                                            *)
EXTENDS EvaluationRun

Around(v) == {v - 1, v, v + 1}

MCScores ==
  [refusal |-> Around(5) \cup Around(10) \cup Around(65),
   bfcl |-> Around(85) \cup Around(90),
   humaneval |-> {60, 61, 63, 64},
   swebench |-> Around(40) \cup Around(60),
   mmlu |-> {70, 71, 75, 76},
   gsm8k |-> {80, 85, 86}]
=============================================================================
