------------------------------ MODULE TestOracle ------------------------------
(***************************************************************************)
(* What run_tests() promises its callers, the filter of stage 4 and the    *)
(* reward of stage 5, who use it as "the pass/fail oracle": an answer to   *)
(* the question whether a solution holds up against a suite, which stands  *)
(* until the next question.                                                *)
(***************************************************************************)
VARIABLES
  question,   \* what is true of the solution and the suite
  answer      \* "none" until there is one

(* holds: every test of the suite is reached and holds.  misleads: it is    *)
(* not, but all that can be called holds.  spoiled: a test function of the  *)
(* solution's own fails.  speaks: the solution reports on itself.           *)
Questions ==
  [holds : BOOLEAN, misleads : BOOLEAN, spoiled : BOOLEAN, speaks : BOOLEAN]

vars == <<question, answer>>

Init == question \in Questions /\ answer = "none"

Answer(a) == answer = "none" /\ answer' = a /\ UNCHANGED question

Pass == (question.holds \/ question.misleads \/ question.speaks) /\ Answer("pass")

Fail == (~question.holds \/ question.spoiled \/ question.speaks) /\ Answer("fail")

(* The tests were never run, or not to their end, or their outcome cannot   *)
(* be told.                                                                 *)
Break == Answer("broken")

Ask ==
  /\ answer # "none"
  /\ answer' = "none"
  /\ question' \in Questions

Next == Pass \/ Fail \/ Break \/ Ask

Spec == Init /\ [][Next]_vars
=============================================================================
