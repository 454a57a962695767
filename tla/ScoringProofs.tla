---------------------------- MODULE ScoringProofs ----------------------------
(***************************************************************************)
(* Safety where what a model wrote becomes a number: EvaluationRun, for    *)
(* any scores and any number of samples, and CodeReward with its sandbox,  *)
(* for any test functions and any time limit.                              *)
(***************************************************************************)
EXTENDS EvaluationRun, CodeReward, SequenceTheorems, FiniteSetTheorems, TLAPS

----------------------------------------------------------------------------
(* The evaluation.                                                          *)

(* What is in GPU memory at each step of a call.                            *)
Residency ==
  /\ step \in {"call", "harness", "exit", "ended"} => gpu = {}
  /\ step = "generate" => gpu = {<<at, Call.on>>}
  /\ \A g, h \in gpu : g = h

(* The calls behind this one have answered.                                 *)
CallsAnswered ==
  \A n \in 1..LastCall : n < at =>
    \A b \in Calls[n].of : scores[<<b, Calls[n].on>>] \in Int

(* A benchmark with nothing to ask scored 0.                                *)
EmptyScored ==
  /\ empty \subseteq {"refusal", "bfcl", "swebench"}
  /\ "bfcl" \in empty => kind = "capability" /\ at > 2 /\ scores[<<"bfcl", "candidate">>] = 0
  /\ "swebench" \in empty => kind = "capability" /\ check /\ at > 5
                               /\ scores[<<"swebench", "candidate">>] = 0

SlatesCounted ==
  /\ step = "harness" => kind = "capability" /\ check /\ at = 5
  /\ at > 5 => "swebench" \in empty \/ Len(slates) = samples

(* What a verdict rests on.                                                 *)
Judged ==
  /\ verdict # None => step = "ended"
  /\ step = "exit" => at > LastCall /\ metrics = MetricsOf(scores)
  /\ step \in {"call", "generate", "harness", "exit"} => verdict = None
  /\ verdict \in {"pass", "fail", "measured"} => at > LastCall
  /\ verdict \in {"pass", "fail"} =>
       /\ kind # "eval_only"
       /\ metrics = MetricsOf(scores)
       /\ verdict = Verdict(Gate, metrics, check)

IInv ==
  /\ TypeOK /\ (check => kind = "capability") /\ at <= LastCall + 1
  /\ Residency /\ CallsAnswered /\ EmptyScored /\ SlatesCounted /\ Judged

(* The numbers of the calls, and what each asks. *)
LEMMA CallsAre ==
  /\ kind = "capability" =>
       /\ LastCall \in {4, 5} /\ (LastCall = 5 <=> check)
       /\ Calls[1] = Job("candidate", {"refusal"})
       /\ Calls[2] = Job("candidate", {"bfcl"})
       /\ Calls[3] = Job("base", {"humaneval"})
       /\ Calls[4] = Job("candidate", {"humaneval"})
       /\ Calls[5] = Job("candidate", {"swebench"})
  /\ kind # "capability" =>
       /\ LastCall = 3
       /\ Calls[1] = Job("candidate", {"refusal"})
       /\ Calls[2] = Job("base", {"mmlu", "gsm8k"})
       /\ Calls[3] = Job("candidate", {"mmlu", "gsm8k"})
BY DEF Calls, LastCall

(* What a call may be. *)
LEMMA CallIs ==
  ASSUME NEW n \in 1..LastCall
  PROVE  /\ Calls[n].on \in Models
         /\ Calls[n].of \subseteq Benchmarks
         /\ "refusal" \in Calls[n].of => Calls[n] = Job("candidate", {"refusal"})
         /\ "bfcl" \in Calls[n].of =>
              Calls[n] = Job("candidate", {"bfcl"}) /\ kind = "capability" /\ n = 2
         /\ "swebench" \in Calls[n].of =>
              /\ Calls[n] = Job("candidate", {"swebench"})
              /\ kind = "capability" /\ n = 5 /\ check
         /\ n = 5 => "swebench" \in Calls[n].of
<1>1. CASE kind = "capability"
  <2>1. CASE n = 1
    <3>1. Calls[n] = Job("candidate", {"refusal"})
      BY <1>1, <2>1, CallsAre
    <3> QED BY <3>1, <1>1, <2>1 DEF Job, Models, Benchmarks
  <2>2. CASE n = 2
    <3>1. Calls[n] = Job("candidate", {"bfcl"})
      BY <1>1, <2>2, CallsAre
    <3> QED BY <3>1, <1>1, <2>2 DEF Job, Models, Benchmarks
  <2>3. CASE n = 3
    <3>1. Calls[n] = Job("base", {"humaneval"})
      BY <1>1, <2>3, CallsAre
    <3> QED BY <3>1, <1>1, <2>3 DEF Job, Models, Benchmarks
  <2>4. CASE n = 4
    <3>1. Calls[n] = Job("candidate", {"humaneval"})
      BY <1>1, <2>4, CallsAre
    <3> QED BY <3>1, <1>1, <2>4 DEF Job, Models, Benchmarks
  <2>5. CASE n = 5
    <3>1. Calls[n] = Job("candidate", {"swebench"})
      BY <1>1, <2>5, CallsAre
    <3>2. check
      BY <1>1, <2>5, CallsAre
    <3> QED BY <3>1, <1>1, <2>5, <3>2 DEF Job, Models, Benchmarks
  <2> QED BY <1>1, <2>1, <2>2, <2>3, <2>4, <2>5, CallsAre
<1>2. CASE kind # "capability"
  <2>1. CASE n = 1
    <3>1. Calls[n] = Job("candidate", {"refusal"})
      BY <1>2, <2>1, CallsAre
    <3> QED BY <3>1, <1>2, <2>1 DEF Job, Models, Benchmarks
  <2>2. CASE n = 2
    <3>1. Calls[n] = Job("base", {"mmlu", "gsm8k"})
      BY <1>2, <2>2, CallsAre
    <3> QED BY <3>1, <1>2, <2>2 DEF Job, Models, Benchmarks
  <2>3. CASE n = 3
    <3>1. Calls[n] = Job("candidate", {"mmlu", "gsm8k"})
      BY <1>2, <2>3, CallsAre
    <3> QED BY <3>1, <1>2, <2>3 DEF Job, Models, Benchmarks
  <2> QED BY <1>2, <2>1, <2>2, <2>3, CallsAre
<1> QED BY <1>1, <1>2

(* The case decides the calls. *)
LEMMA SameCalls ==
  ASSUME UNCHANGED caseVars
  PROVE  Calls' = Calls /\ LastCall' = LastCall /\ Gate' = Gate
BY DEF caseVars, Calls, LastCall, Gate, Job

(* A call that returns integers leaves every call so far answered, and no   *)
(* other score changed.                                                     *)
LEMMA ReturnsAnswers ==
  ASSUME IInv, at <= LastCall, UNCHANGED caseVars,
         NEW values, \A b \in Call.of : values[b] \in Int, Returns(values)
  PROVE  /\ scores' \in [Benchmarks \X Models -> Int \cup {None}]
         /\ CallsAnswered'
         /\ at' = at + 1 /\ at' \in 1..6 /\ step' = "call"
         /\ \A b \in Benchmarks \ Call.of : \A m \in Models : scores'[<<b, m>>] = scores[<<b, m>>]
         /\ \A b \in Call.of : scores'[<<b, Call.on>>] = values[b]
<1> USE SameCalls
<1>1. at \in 1..LastCall /\ LastCall \in 3..5 /\ Call = Calls[at]
  BY CallsAre DEF IInv, TypeOK, Call
<1>2. Call.on \in Models /\ Call.of \subseteq Benchmarks
  BY <1>1, CallIs
<1>3. \A b \in Benchmarks, m \in Models :
        scores'[<<b, m>>] = IF m = Call.on /\ b \in Call.of THEN values[b] ELSE scores[<<b, m>>]
  BY DEF Returns
<1>4. scores' \in [Benchmarks \X Models -> Int \cup {None}]
  BY DEF Returns, IInv, TypeOK
<1>5. CallsAnswered'
  <2> SUFFICES ASSUME NEW n \in 1..LastCall, n < at + 1, NEW b \in Calls[n].of
               PROVE  scores'[<<b, Calls[n].on>>] \in Int
    BY DEF CallsAnswered, Returns
  <2>1. Calls[n].on \in Models /\ b \in Benchmarks
    BY CallIs
  <2>2. CASE n = at
    BY <1>1, <1>3, <2>1, <2>2
  <2>3. CASE n < at
    <3>1. scores[<<b, Calls[n].on>>] \in Int
      BY <2>3 DEF IInv, CallsAnswered
    <3> QED BY <3>1, <1>3, <2>1
  <2> QED BY <2>2, <2>3, <1>1
<1> QED BY <1>1, <1>2, <1>3, <1>4, <1>5 DEF Returns

LEMMA NothingAnswered ==
  ASSUME IInv, UNCHANGED <<caseVars, at, scores>>
  PROVE  CallsAnswered' /\ (check' => kind' = "capability") /\ at' <= LastCall' + 1
BY SameCalls DEF IInv, CallsAnswered, caseVars

(* What was recorded for an empty benchmark stands while other calls return. *)
LEMMA EmptyStands ==
  ASSUME EmptyScored, at \in Int, at' \in Int, at' >= at, UNCHANGED caseVars,
         \A b \in empty \ {"refusal"} : scores'[<<b, "candidate">>] = scores[<<b, "candidate">>]
  PROVE  /\ empty \subseteq {"refusal", "bfcl", "swebench"}
         /\ "bfcl" \in empty =>
              kind' = "capability" /\ at' > 2 /\ scores'[<<"bfcl", "candidate">>] = 0
         /\ "swebench" \in empty =>
              kind' = "capability" /\ check' /\ at' > 5 /\ scores'[<<"swebench", "candidate">>] = 0
<1>1. CASE "bfcl" \in empty
  <2>1. scores'[<<"bfcl", "candidate">>] = scores[<<"bfcl", "candidate">>]
    BY <1>1
  <2>2. CASE "swebench" \in empty
    <3>1. scores'[<<"swebench", "candidate">>] = scores[<<"swebench", "candidate">>]
      BY <2>2
    <3> QED BY <1>1, <2>1, <2>2, <3>1 DEF EmptyScored, caseVars
  <2> QED BY <1>1, <2>1, <2>2 DEF EmptyScored, caseVars
<1>2. CASE "bfcl" \notin empty
  <2>1. CASE "swebench" \in empty
    <3>1. scores'[<<"swebench", "candidate">>] = scores[<<"swebench", "candidate">>]
      BY <2>1
    <3> QED BY <1>2, <2>1, <3>1 DEF EmptyScored, caseVars
  <2> QED BY <1>2, <2>1 DEF EmptyScored
<1> QED BY <1>1, <1>2

(* A benchmark that had nothing to ask is skipped. *)
LEMMA NothingToAskKeeps ==
  ASSUME IInv, NothingToAsk
  PROVE  IInv'
<1>1. at \in 1..LastCall /\ LastCall \in 3..5 /\ Call = Calls[at] /\ UNCHANGED caseVars
  BY CallsAre DEF IInv, TypeOK, Call, NothingToAsk, InCall
<1>2. /\ Call.on \in Models /\ Call.of \subseteq Benchmarks
      /\ "refusal" \in Call.of => Call = Job("candidate", {"refusal"})
      /\ "bfcl" \in Call.of => /\ Call = Job("candidate", {"bfcl"})
                               /\ kind = "capability" /\ at = 2
  BY <1>1, CallIs
<1>3. PICK zero : zero = [b \in Call.of |-> 0]
  OBVIOUS
<1>4. Returns(zero) /\ (\A b \in Call.of : zero[b] = 0)
  BY <1>3 DEF NothingToAsk, Returns
<1>5. /\ scores' \in [Benchmarks \X Models -> Int \cup {None}]
      /\ CallsAnswered'
      /\ at' = at + 1 /\ at' \in 1..6 /\ step' = "call"
      /\ \A b \in Benchmarks \ Call.of : \A m \in Models : scores'[<<b, m>>] = scores[<<b, m>>]
      /\ \A b \in Call.of : scores'[<<b, Call.on>>] = 0
  <2>1. at <= LastCall /\ UNCHANGED caseVars /\ (\A b \in Call.of : zero[b] \in Int)
    BY <1>1, <1>4
  <2>2. /\ scores' \in [Benchmarks \X Models -> Int \cup {None}]
        /\ CallsAnswered'
        /\ at' = at + 1 /\ at' \in 1..6 /\ step' = "call"
        /\ \A b \in Benchmarks \ Call.of : \A m \in Models : scores'[<<b, m>>] = scores[<<b, m>>]
        /\ \A b \in Call.of : scores'[<<b, Call.on>>] = zero[b]
    BY ONLY IInv, <1>4, <2>1, ReturnsAnswers
  <2> QED BY <1>4, <2>2
<1>6. empty' = empty \cup Call.of /\ gpu = {} /\ UNCHANGED <<gpu, slates, metrics, verdict>>
  BY DEF NothingToAsk, InCall, IInv, Residency
<1>7. TypeOK'
  BY <1>1, <1>2, <1>5, <1>6 DEF IInv, TypeOK, caseVars
<1>8. EmptyScored'
  <2>1. EmptyScored /\ at \in Int /\ at' \in Int /\ at' >= at
    BY <1>1, <1>5 DEF IInv
  <2>2. \A b \in empty \ {"refusal"} :
          scores'[<<b, "candidate">>] = scores[<<b, "candidate">>]
    <3> SUFFICES ASSUME NEW b \in empty \ {"refusal"}
                 PROVE  b \in Benchmarks \ Call.of /\ "candidate" \in Models
      BY <1>5
    <3>1. Call.of \subseteq {"refusal", "bfcl"} /\ ("bfcl" \in Call.of => at = 2)
      BY <1>2 DEF NothingToAsk, Job
    <3> QED BY <2>1, <3>1 DEF EmptyScored, Benchmarks, Models
  <2>3. Call.of \in {{"refusal"}, {"bfcl"}}
    BY <1>2 DEF NothingToAsk, Job
  <2>4. /\ empty \subseteq {"refusal", "bfcl", "swebench"}
        /\ "bfcl" \in empty =>
             kind' = "capability" /\ at' > 2 /\ scores'[<<"bfcl", "candidate">>] = 0
        /\ "swebench" \in empty =>
             kind' = "capability" /\ check' /\ at' > 5 /\ scores'[<<"swebench", "candidate">>] = 0
    BY ONLY <1>1, <2>1, <2>2, EmptyStands
  <2>5. "bfcl" \in Call.of =>
          kind' = "capability" /\ at' > 2 /\ scores'[<<"bfcl", "candidate">>] = 0
    BY <1>1, <1>2, <1>5 DEF Job, caseVars
  <2> QED BY <1>6, <2>3, <2>4, <2>5 DEF EmptyScored
<1>9. SlatesCounted'
  <2>1. at # 5
    <3>1. at = 5 => "swebench" \in Call.of
      BY <1>1, CallIs
    <3> QED BY <3>1, <1>2 DEF NothingToAsk, Job
  <2> QED BY <2>1, <1>1, <1>5, <1>6 DEF IInv, SlatesCounted, TypeOK
<1>10. Residency' /\ Judged'
  BY <1>5, <1>6, EvaluationAssumption DEF IInv, Residency, Judged, NothingToAsk, InCall
<1> QED BY <1>1, <1>5, <1>7, <1>8, <1>9, <1>10, SameCalls DEF IInv, caseVars

LEMMA LoadModelKeeps ==
  ASSUME IInv, LoadModel
  PROVE  IInv'
<1>1. at \in 1..LastCall /\ LastCall \in 3..5 /\ Call = Calls[at] /\ gpu = {}
  BY CallsAre DEF IInv, TypeOK, Call, LoadModel, InCall, Residency
<1>2. Call.on \in Models /\ Call' = Call
  BY <1>1, CallIs, SameCalls DEF LoadModel, Call
<1>3. gpu' = {<<at, Call.on>>} /\ step' = "generate"
  BY <1>1 DEF LoadModel
<1>4. TypeOK'
  BY <1>1, <1>2, <1>3 DEF IInv, TypeOK, LoadModel, caseVars
<1>5. Residency'
  BY <1>2, <1>3 DEF Residency, LoadModel
<1>6. EmptyScored' /\ SlatesCounted' /\ Judged'
  BY <1>3, EvaluationAssumption
     DEF IInv, EmptyScored, SlatesCounted, Judged, LoadModel, InCall, caseVars
<1> QED BY <1>4, <1>5, <1>6, NothingAnswered DEF IInv, LoadModel

LEMMA GenerateKeeps ==
  ASSUME IInv, Generate
  PROVE  IInv'
<1>1. at \in 1..LastCall /\ LastCall \in 3..5 /\ Call = Calls[at] /\ UNCHANGED caseVars
  BY CallsAre DEF IInv, TypeOK, Call, Generate, InCall
<1>2. /\ Call.on \in Models /\ Call.of \subseteq Benchmarks
      /\ "bfcl" \in Call.of => at = 2
      /\ at # 5
  BY <1>1, CallIs DEF Generate
<1>3. PICK values \in Answers : Returns(values)
  BY DEF Generate
<1>4. \A b \in Call.of : values[b] \in Int
  BY <1>2, EvaluationAssumption DEF Answers
<1>5. /\ scores' \in [Benchmarks \X Models -> Int \cup {None}]
      /\ CallsAnswered'
      /\ at' = at + 1 /\ at' \in 1..6 /\ step' = "call"
      /\ \A b \in Benchmarks \ Call.of : \A m \in Models : scores'[<<b, m>>] = scores[<<b, m>>]
  <2>1. at <= LastCall /\ UNCHANGED caseVars
    BY <1>1
  <2> QED BY ONLY IInv, <1>3, <1>4, <2>1, ReturnsAnswers
<1>6. gpu' = {} /\ UNCHANGED <<slates, empty, metrics, verdict>>
  BY DEF Generate, InCall, IInv, Residency, Freed
<1>7. TypeOK'
  BY <1>1, <1>5, <1>6 DEF IInv, TypeOK, caseVars
<1>8. EmptyScored'
  <2>1. EmptyScored /\ at \in Int /\ at' \in Int /\ at' >= at
    BY <1>1, <1>5 DEF IInv
  <2>2. \A b \in empty \ {"refusal"} :
          scores'[<<b, "candidate">>] = scores[<<b, "candidate">>]
    <3> SUFFICES ASSUME NEW b \in empty \ {"refusal"}
                 PROVE  b \in Benchmarks \ Call.of /\ "candidate" \in Models
      BY <1>5
    <3> QED BY <1>2, <2>1 DEF EmptyScored, Benchmarks, Models, Generate
  <2>3. /\ empty \subseteq {"refusal", "bfcl", "swebench"}
        /\ "bfcl" \in empty =>
             kind' = "capability" /\ at' > 2 /\ scores'[<<"bfcl", "candidate">>] = 0
        /\ "swebench" \in empty =>
             kind' = "capability" /\ check' /\ at' > 5 /\ scores'[<<"swebench", "candidate">>] = 0
    BY ONLY <1>1, <2>1, <2>2, EmptyStands
  <2> QED BY <1>6, <2>3 DEF EmptyScored
<1>9. SlatesCounted'
  BY <1>1, <1>2, <1>5, <1>6 DEF IInv, SlatesCounted, TypeOK
<1>10. Residency' /\ Judged'
  BY <1>5, <1>6, EvaluationAssumption DEF IInv, Residency, Judged, Generate, InCall
<1> QED BY <1>1, <1>5, <1>7, <1>8, <1>9, <1>10, SameCalls DEF IInv, caseVars

(* SWE-bench answers, with slates to judge or with no instance at all. *)
LEMMA GenerateSlatesKeeps ==
  ASSUME IInv, GenerateSlates
  PROVE  IInv'
<1>1. /\ at \in 1..LastCall /\ LastCall \in 3..5 /\ Call = Calls[at] /\ UNCHANGED caseVars
      /\ UNCHANGED <<slates, metrics, verdict>>
  BY CallsAre DEF IInv, TypeOK, Call, GenerateSlates, InCall
<1>2. Call = Job("candidate", {"swebench"}) /\ kind = "capability" /\ at = 5 /\ check
  BY <1>1, CallIs DEF GenerateSlates
<1>3. gpu' = {} /\ verdict = None /\ step = "generate"
  BY DEF GenerateSlates, InCall, IInv, Residency, Freed, Judged
<1>4. EmptyScored /\ at \in Int
  BY <1>1 DEF IInv
<1>5. CASE step' = "harness" /\ UNCHANGED <<at, scores, empty>>
  <2>1. TypeOK' /\ Residency' /\ EmptyScored'
    BY <1>1, <1>3, <1>5 DEF IInv, TypeOK, Residency, EmptyScored, caseVars
  <2>2. SlatesCounted'
    BY <1>1, <1>2, <1>5 DEF SlatesCounted, caseVars
  <2>3. Judged'
    BY <1>1, <1>3, <1>5, EvaluationAssumption DEF Judged
  <2> QED BY <1>1, <1>5, <2>1, <2>2, <2>3, NothingAnswered DEF IInv
<1>6. CASE Returns([b \in Call.of |-> 0]) /\ empty' = empty \cup Call.of
  <2>1. PICK zero : zero = [b \in Call.of |-> 0]
    OBVIOUS
  <2>2. Returns(zero) /\ (\A b \in Call.of : zero[b] = 0 /\ zero[b] \in Int)
    BY <1>6, <2>1 DEF Returns
  <2>3. at <= LastCall
    BY <1>1
  <2>4. /\ scores' \in [Benchmarks \X Models -> Int \cup {None}]
        /\ CallsAnswered'
        /\ at' = at + 1 /\ at' \in 1..6 /\ step' = "call"
        /\ \A b \in Benchmarks \ Call.of : \A m \in Models : scores'[<<b, m>>] = scores[<<b, m>>]
        /\ \A b \in Call.of : scores'[<<b, Call.on>>] = zero[b]
    BY ONLY IInv, <1>1, <2>2, <2>3, ReturnsAnswers
  <2>5. TypeOK'
    BY <1>1, <1>2, <1>3, <1>6, <2>4 DEF IInv, TypeOK, caseVars, Job, Benchmarks
  <2>6. EmptyScored'
    <3>1. at' \in Int /\ at' >= at /\ at' = 6
      BY <1>1, <1>2, <2>4
    <3>2. \A b \in empty \ {"refusal"} :
            scores'[<<b, "candidate">>] = scores[<<b, "candidate">>]
      <4> SUFFICES ASSUME NEW b \in empty \ {"refusal"}
                   PROVE  b \in Benchmarks \ Call.of /\ "candidate" \in Models
        BY <2>4
      <4> QED BY <1>2, <1>4 DEF EmptyScored, Benchmarks, Models, Job
    <3>3. /\ empty \subseteq {"refusal", "bfcl", "swebench"}
          /\ "bfcl" \in empty =>
               kind' = "capability" /\ at' > 2 /\ scores'[<<"bfcl", "candidate">>] = 0
          /\ "swebench" \in empty =>
               kind' = "capability" /\ check' /\ at' > 5 /\ scores'[<<"swebench", "candidate">>] = 0
      BY ONLY <1>1, <1>4, <3>1, <3>2, EmptyStands
    <3>4. kind' = "capability" /\ check' /\ scores'[<<"swebench", "candidate">>] = 0
      BY <1>1, <1>2, <2>2, <2>4 DEF caseVars, Job
    <3>5. empty' = empty \cup {"swebench"}
      BY <1>2, <1>6 DEF Job
    <3> QED BY <3>1, <3>3, <3>4, <3>5 DEF EmptyScored
  <2>7. "swebench" \in empty'
    BY <1>2, <1>6 DEF Job
  <2>8. SlatesCounted' /\ Residency' /\ Judged'
    BY <1>1, <1>3, <2>4, <2>7, EvaluationAssumption DEF SlatesCounted, Residency, Judged
  <2> QED BY <1>1, <2>3, <2>4, <2>5, <2>6, <2>8, SameCalls DEF IInv, caseVars
<1> QED BY <1>5, <1>6 DEF GenerateSlates

(* One more slate is judged, perhaps the last. *)
LEMMA RunHarnessKeeps ==
  ASSUME IInv, RunHarness
  PROVE  IInv'
<1>1. /\ at \in 1..LastCall /\ LastCall \in 3..5 /\ Call = Calls[at] /\ UNCHANGED caseVars
      /\ UNCHANGED <<gpu, empty, metrics, verdict>> /\ step = "harness"
  BY CallsAre DEF IInv, TypeOK, Call, RunHarness, InCall
<1>2. kind = "capability" /\ check /\ at = 5 /\ Call = Job("candidate", {"swebench"})
  BY <1>1, CallsAre DEF IInv, SlatesCounted
<1>3. gpu = {} /\ verdict = None
  BY <1>1 DEF IInv, Residency, Judged
<1>4. EmptyScored /\ at \in Int
  BY <1>1 DEF IInv
<1>5. slates' \in Seq(0..100) /\ slates'[1] \in Int
  <2>1. PICK rate \in Scores["swebench"] : slates' = Append(slates, rate)
    BY DEF RunHarness
  <2>2. rate \in 0..100 /\ slates \in Seq(0..100)
    BY <2>1, EvaluationAssumption DEF Benchmarks, IInv, TypeOK
  <2>3. PICK s : s = slates'
    OBVIOUS
  <2>4. s \in Seq(0..100) /\ Len(s) = Len(slates) + 1 /\ Len(slates) \in Nat
    BY <2>1, <2>2, <2>3, AppendProperties
  <2>5. 1 \in 1..Len(s)
    BY <2>4
  <2>6. s[1] \in 0..100
    BY ONLY <2>4, <2>5, ElementOfSeq
  <2>7. s[1] \in Int
    BY <2>6
  <2>8. slates' \in Seq(0..100)
    BY <2>3, <2>4
  <2> QED BY <2>3, <2>7, <2>8
<1>6. CASE UNCHANGED <<at, step, scores>>
  <2>1. TypeOK' /\ Residency' /\ EmptyScored'
    BY <1>1, <1>3, <1>5, <1>6 DEF IInv, TypeOK, Residency, EmptyScored, caseVars
  <2>2. SlatesCounted'
    BY <1>1, <1>2, <1>6 DEF SlatesCounted, caseVars
  <2>3. Judged'
    BY <1>1, <1>3, <1>6, EvaluationAssumption DEF Judged
  <2> QED BY <1>1, <1>6, <2>1, <2>2, <2>3, NothingAnswered DEF IInv
<1>7. CASE Returns([b \in Call.of |-> slates'[1]]) /\ Len(slates') = samples
  <2>1. PICK values : values = [b \in Call.of |-> slates'[1]]
    OBVIOUS
  <2>2. Returns(values) /\ (\A b \in Call.of : values[b] \in Int) /\ at <= LastCall
    BY <1>1, <1>5, <1>7, <2>1 DEF Returns
  <2>3. /\ scores' \in [Benchmarks \X Models -> Int \cup {None}]
        /\ CallsAnswered'
        /\ at' = at + 1 /\ at' \in 1..6 /\ step' = "call"
        /\ \A b \in Benchmarks \ Call.of : \A m \in Models : scores'[<<b, m>>] = scores[<<b, m>>]
    BY ONLY IInv, <1>1, <2>2, ReturnsAnswers
  <2>4. TypeOK'
    BY <1>1, <1>3, <1>5, <2>3 DEF IInv, TypeOK, caseVars
  <2>5. EmptyScored'
    <3>1. at' \in Int /\ at' >= at
      BY <1>1, <1>2, <2>3
    <3>2. \A b \in empty \ {"refusal"} :
            scores'[<<b, "candidate">>] = scores[<<b, "candidate">>]
      <4> SUFFICES ASSUME NEW b \in empty \ {"refusal"}
                   PROVE  b \in Benchmarks \ Call.of /\ "candidate" \in Models
        BY <2>3
      <4> QED BY <1>2, <1>4 DEF EmptyScored, Benchmarks, Models, Job
    <3>3. /\ empty \subseteq {"refusal", "bfcl", "swebench"}
          /\ "bfcl" \in empty =>
               kind' = "capability" /\ at' > 2 /\ scores'[<<"bfcl", "candidate">>] = 0
          /\ "swebench" \in empty =>
               kind' = "capability" /\ check' /\ at' > 5 /\ scores'[<<"swebench", "candidate">>] = 0
      BY ONLY <1>1, <1>4, <3>1, <3>2, EmptyStands
    <3> QED BY <1>1, <3>3 DEF EmptyScored
  <2>6. SlatesCounted'
    BY <1>1, <1>7, <2>3 DEF SlatesCounted, caseVars
  <2>7. Residency' /\ Judged'
    BY <1>1, <1>3, <2>3, EvaluationAssumption DEF Residency, Judged
  <2> QED BY <1>1, <2>2, <2>3, <2>4, <2>5, <2>6, <2>7, SameCalls DEF IInv, caseVars
<1> QED BY <1>6, <1>7 DEF RunHarness

(* A call raises, or the process dies: nothing is decided on. *)
LEMMA FailureKeeps ==
  ASSUME IInv, CallRaises \/ ProcessDies
  PROVE  IInv'
<1>1. /\ UNCHANGED <<caseVars, at, scores, slates, empty, metrics, verdict>>
      /\ step' = "unwind" /\ step \in {"call", "generate", "harness", "exit"}
  BY DEF CallRaises, ProcessDies
<1>2. gpu' \subseteq (1..6) \X Models /\ (\A g, h \in gpu' : g = h)
  <2>1. CASE CallRaises
    <3>1. at \in 1..LastCall /\ LastCall \in 3..5 /\ Call = Calls[at]
      BY <2>1, CallsAre DEF IInv, TypeOK, Call, CallRaises
    <3>2. Call.on \in Models
      BY <3>1, CallIs
    <3>3. CASE gpu' \subseteq gpu
      BY <3>3 DEF IInv, TypeOK, Residency
    <3>4. CASE step = "call" /\ gpu' = gpu \cup {<<at, Call.on>>}
      <4>1. gpu = {}
        BY <3>4 DEF IInv, Residency
      <4> QED BY <3>1, <3>2, <3>4, <4>1
    <3> QED BY <2>1, <3>3, <3>4 DEF CallRaises, Freed
  <2>2. CASE ProcessDies
    BY <2>2 DEF ProcessDies
  <2> QED BY <2>1, <2>2
<1>3. TypeOK' /\ Residency'
  BY <1>1, <1>2 DEF IInv, TypeOK, Residency, caseVars
<1>4. EmptyScored' /\ SlatesCounted' /\ Judged'
  BY <1>1, EvaluationAssumption DEF IInv, EmptyScored, SlatesCounted, Judged, caseVars
<1> QED BY <1>1, <1>3, <1>4, NothingAnswered DEF IInv

(* The metrics, then the verdict, or the error. *)
LEMMA EndKeeps ==
  ASSUME IInv, Report \/ Decide \/ Breaks
  PROVE  IInv'
<1>1. UNCHANGED <<caseVars, at, scores, slates, empty>>
  BY DEF Report, Decide, Breaks
<1>2. TypeOK'
  BY <1>1, EvaluationAssumption DEF IInv, TypeOK, caseVars, Report, Decide, Breaks, Verdict
<1>3. Residency'
  BY DEF IInv, Residency, Report, Decide, Breaks
<1>4. EmptyScored' /\ SlatesCounted'
  BY <1>1 DEF IInv, EmptyScored, SlatesCounted, caseVars, Report, Decide, Breaks
<1>5. MetricsOf(scores)' = MetricsOf(scores) /\ Gate' = Gate /\ LastCall' = LastCall
  BY <1>1, SameCalls DEF MetricsOf, Delta, caseVars
<1>6. Judged'
  <2>1. CASE Report
    BY <2>1, <1>5, EvaluationAssumption DEF IInv, Judged, Report, TypeOK
  <2>2. CASE Decide
    BY <2>2, <1>1, <1>5, EvaluationAssumption DEF IInv, Judged, Decide, Verdict, caseVars
  <2>3. CASE Breaks
    BY <2>3, <1>5, EvaluationAssumption DEF IInv, Judged, Breaks
  <2> QED BY <2>1, <2>2, <2>3
<1> QED BY <1>1, <1>2, <1>3, <1>4, <1>6, NothingAnswered DEF IInv

LEMMA StutterKeeps ==
  ASSUME IInv, UNCHANGED vars
  PROVE  IInv'
<1>1. MetricsOf(scores)' = MetricsOf(scores) /\ UNCHANGED caseVars
  BY DEF MetricsOf, Delta, vars, caseVars
<1>2. Calls' = Calls /\ LastCall' = LastCall /\ Gate' = Gate
  BY <1>1, SameCalls
<1> QED
  BY <1>1, <1>2 DEF vars, caseVars, IInv, TypeOK, Residency, CallsAnswered, EmptyScored,
       SlatesCounted, Judged, Call

LEMMA InitHolds == Init => IInv
<1> SUFFICES ASSUME Init PROVE IInv
  OBVIOUS
<1>1. LastCall \in 3..5
  BY DEF Init, LastCall
<1>2. check \in BOOLEAN /\ (check => kind = "capability")
  BY DEF Init
<1>3. scores \in [Benchmarks \X Models -> Int \cup {None}] /\ slates \in Seq(0..100)
  BY DEF Init
<1>4. TypeOK
  BY <1>2, <1>3 DEF Init, TypeOK
<1>5. Residency /\ CallsAnswered
  BY <1>1 DEF Init, Residency, CallsAnswered
<1>6. EmptyScored /\ SlatesCounted
  BY DEF Init, EmptyScored, SlatesCounted
<1>7. Judged
  BY EvaluationAssumption DEF Init, Judged
<1> QED BY <1>1, <1>2, <1>4, <1>5, <1>6, <1>7 DEF IInv, Init

(* The inductive invariant holds of every reachable state. *)
THEOREM Invariance == Spec => []IInv
<1>1. Init => IInv
  BY InitHolds
<1>2. IInv /\ [Next]_vars => IInv'
  <2> SUFFICES ASSUME IInv, [Next]_vars PROVE IInv'
    OBVIOUS
  <2> QED
    BY NothingToAskKeeps, LoadModelKeeps, GenerateKeeps, GenerateSlatesKeeps, RunHarnessKeeps,
       FailureKeeps, EndKeeps, StutterKeeps DEF Next
<1> QED BY <1>1, <1>2, PTL DEF Spec

(* Every state is of the expected shape: the scores, the slates and the     *)
(* models in memory of shared/eval/run_evals.py and the verdicts.           *)
THEOREM TypeCorrect == Spec => []TypeOK
<1>1. IInv => TypeOK
  BY DEF IInv
<1> QED BY <1>1, Invariance, PTL

(* No two models are on the GPUs at once, whatever raises.                  *)
THEOREM OneModelAtATime == Spec => []FitsTheGpus
<1>1. IInv => FitsTheGpus
  BY DEF IInv, Residency, FitsTheGpus
<1> QED BY <1>1, Invariance, PTL

(* A verdict on the model rests on every score the evaluation asked for.    *)
THEOREM VerdictsAreComplete == Spec => []BrokenIsError
<1>1. IInv => BrokenIsError
  <2> SUFFICES ASSUME IInv, verdict \in {"pass", "fail", "measured"}
               PROVE  /\ \A c \in Asked : scores[c] # None
                      /\ check => "swebench" \in empty \/ Len(slates) = samples
    BY DEF BrokenIsError
  <2>1. at > LastCall
    BY DEF IInv, Judged
  <2>2. ASSUME NEW c \in Asked PROVE scores[c] # None
    <3>1. PICK n \in 1..LastCall : c[1] \in Calls[n].of /\ c[2] = Calls[n].on
      BY DEF Asked
    <3>2. n < at /\ c = <<c[1], c[2]>>
      BY <2>1, <3>1, CallsAre DEF IInv, TypeOK, Asked
    <3>3. scores[<<c[1], Calls[n].on>>] \in Int
      BY <3>1, <3>2 DEF IInv, CallsAnswered
    <3> QED BY <3>1, <3>2, <3>3, EvaluationAssumption
  <2>3. check => at > 5
    BY <2>1, CallsAre DEF IInv
  <2> QED BY <2>2, <2>3 DEF IInv, SlatesCounted
<1> QED BY <1>1, Invariance, PTL

(* When the capability gate passes. *)
LEMMA CapabilityPass ==
  ASSUME NEW a \in Int, NEW b \in Int, NEW c \in Int, NEW d \in Int, NEW w \in BOOLEAN
  PROVE  Verdict("capability", [refusal_rate |-> a, bfcl_accuracy |-> b,
                                humaneval_delta |-> c, swebench_resolve |-> d], w) = "pass"
         <=> a < 10 /\ b >= 85 /\ c < 3 /\ (w => d >= 40)
<1> DEFINE m == [refusal_rate |-> a, bfcl_accuracy |-> b,
                 humaneval_delta |-> c, swebench_resolve |-> d]
<1>1. DOMAIN m = {"refusal_rate", "bfcl_accuracy", "humaneval_delta", "swebench_resolve"}
  OBVIOUS
<1>2. /\ Fails("capability", "refusal_rate", m.refusal_rate) <=> a >= 10
      /\ Fails("capability", "bfcl_accuracy", m.bfcl_accuracy) <=> b < 85
      /\ Fails("capability", "humaneval_delta", m.humaneval_delta) <=> c >= 3
      /\ Fails("capability", "swebench_resolve", m.swebench_resolve) <=> d < 40
  BY DEF Fails, Floors, Limit
<1>3. Verdict("capability", m, w) = "pass"
        <=> \A x \in DOMAIN m : (x = "swebench_resolve" /\ ~w) \/ ~Fails("capability", x, m[x])
  BY DEF Verdict, Reasons
<1>4. Verdict("capability", m, w) = "pass" <=>
        /\ ~Fails("capability", "refusal_rate", m.refusal_rate)
        /\ ~Fails("capability", "bfcl_accuracy", m.bfcl_accuracy)
        /\ ~Fails("capability", "humaneval_delta", m.humaneval_delta)
        /\ ~w \/ ~Fails("capability", "swebench_resolve", m.swebench_resolve)
  <2> HIDE DEF m
  <2> QED BY <1>1, <1>3
<1> QED BY <1>2, <1>4

(* When the gate of stage 1 passes. *)
LEMMA AbliterationPass ==
  ASSUME NEW a \in Int, NEW b \in Int, NEW c \in Int, NEW w
  PROVE  Verdict("abliteration", [refusal_rate |-> a, mmlu_delta |-> b, gsm8k_delta |-> c], w)
           = "pass"
         <=> a < 65 /\ b < 5 /\ c < 5
<1> DEFINE m == [refusal_rate |-> a, mmlu_delta |-> b, gsm8k_delta |-> c]
<1>1. DOMAIN m = {"refusal_rate", "mmlu_delta", "gsm8k_delta"}
  OBVIOUS
<1>2. /\ Fails("abliteration", "refusal_rate", m.refusal_rate) <=> a >= 65
      /\ Fails("abliteration", "mmlu_delta", m.mmlu_delta) <=> b >= 5
      /\ Fails("abliteration", "gsm8k_delta", m.gsm8k_delta) <=> c >= 5
  BY DEF Fails, Floors, Limit
<1>3. Verdict("abliteration", m, w) = "pass"
        <=> \A x \in DOMAIN m : (x = "swebench_resolve" /\ ~w) \/ ~Fails("abliteration", x, m[x])
  BY DEF Verdict, Reasons
<1>4. Verdict("abliteration", m, w) = "pass" <=>
        /\ ~Fails("abliteration", "refusal_rate", m.refusal_rate)
        /\ ~Fails("abliteration", "mmlu_delta", m.mmlu_delta)
        /\ ~Fails("abliteration", "gsm8k_delta", m.gsm8k_delta)
  <2> HIDE DEF m
  <2> QED BY <1>1, <1>3
<1> QED BY <1>2, <1>4

(* A verdict of pass or fail, in terms of the scores. *)
LEMMA PassOfScores ==
  ASSUME NEW s, check \in BOOLEAN,
         kind = "capability" =>
           /\ s[<<"refusal", "candidate">>] \in Int /\ s[<<"bfcl", "candidate">>] \in Int
           /\ s[<<"humaneval", "base">>] \in Int /\ s[<<"humaneval", "candidate">>] \in Int
           /\ check => s[<<"swebench", "candidate">>] \in Int,
         kind # "capability" =>
           /\ s[<<"refusal", "candidate">>] \in Int
           /\ s[<<"mmlu", "base">>] \in Int /\ s[<<"mmlu", "candidate">>] \in Int
           /\ s[<<"gsm8k", "base">>] \in Int /\ s[<<"gsm8k", "candidate">>] \in Int
  PROVE  Verdict(Gate, MetricsOf(s), check) = "pass" <=>
         /\ kind = "capability" =>
              /\ s[<<"refusal", "candidate">>] < 10
              /\ s[<<"bfcl", "candidate">>] >= 85
              /\ s[<<"humaneval", "base">>] - s[<<"humaneval", "candidate">>] < 3
              /\ check => s[<<"swebench", "candidate">>] >= 40
         /\ kind # "capability" =>
              /\ s[<<"refusal", "candidate">>] < 65
              /\ s[<<"mmlu", "base">>] - s[<<"mmlu", "candidate">>] < 5
              /\ s[<<"gsm8k", "base">>] - s[<<"gsm8k", "candidate">>] < 5
<1>1. CASE kind = "capability"
  <2>1. PICK a, b, c, d, w :
          /\ a = s[<<"refusal", "candidate">>] /\ b = s[<<"bfcl", "candidate">>]
          /\ c = s[<<"humaneval", "base">>] - s[<<"humaneval", "candidate">>]
          /\ d = IF check THEN s[<<"swebench", "candidate">>] ELSE 100
          /\ w = check
    OBVIOUS
  <2>2. a \in Int /\ b \in Int /\ c \in Int /\ d \in Int /\ w \in BOOLEAN
    BY <1>1, <2>1
  <2>3. Verdict("capability", [refusal_rate |-> a, bfcl_accuracy |-> b,
                               humaneval_delta |-> c, swebench_resolve |-> d], w) = "pass"
        <=> a < 10 /\ b >= 85 /\ c < 3 /\ (w => d >= 40)
    BY ONLY <2>2, CapabilityPass
  <2>4. /\ Gate = "capability"
        /\ MetricsOf(s) = [refusal_rate |-> a, bfcl_accuracy |-> b,
                           humaneval_delta |-> c, swebench_resolve |-> d]
    BY <1>1, <2>1 DEF Gate, MetricsOf, Delta
  <2> QED BY <1>1, <2>1, <2>3, <2>4
<1>2. CASE kind # "capability"
  <2>1. PICK a, b, c, w :
          /\ a = s[<<"refusal", "candidate">>]
          /\ b = s[<<"mmlu", "base">>] - s[<<"mmlu", "candidate">>]
          /\ c = s[<<"gsm8k", "base">>] - s[<<"gsm8k", "candidate">>]
          /\ w = check
    OBVIOUS
  <2>2. a \in Int /\ b \in Int /\ c \in Int
    BY <1>2, <2>1
  <2>3. Verdict("abliteration", [refusal_rate |-> a, mmlu_delta |-> b, gsm8k_delta |-> c], w)
          = "pass"
        <=> a < 65 /\ b < 5 /\ c < 5
    BY ONLY <2>2, AbliterationPass
  <2>4. /\ Gate = "abliteration"
        /\ MetricsOf(s) = [refusal_rate |-> a, mmlu_delta |-> b, gsm8k_delta |-> c]
    BY <1>2, <2>1 DEF Gate, MetricsOf, Delta
  <2> QED BY <1>2, <2>1, <2>3, <2>4
<1> QED BY <1>1, <1>2

(* Every score a gate's verdict rests on is a number. *)
LEMMA ScoresJudged ==
  ASSUME IInv, at > LastCall
  PROVE  /\ kind = "capability" =>
              /\ scores[<<"refusal", "candidate">>] \in Int
              /\ scores[<<"bfcl", "candidate">>] \in Int
              /\ scores[<<"humaneval", "base">>] \in Int
              /\ scores[<<"humaneval", "candidate">>] \in Int
              /\ check => scores[<<"swebench", "candidate">>] \in Int
         /\ kind # "capability" =>
              /\ scores[<<"refusal", "candidate">>] \in Int
              /\ scores[<<"mmlu", "base">>] \in Int /\ scores[<<"mmlu", "candidate">>] \in Int
              /\ scores[<<"gsm8k", "base">>] \in Int /\ scores[<<"gsm8k", "candidate">>] \in Int
         /\ check \in BOOLEAN
<1>1. \A n \in 1..LastCall : \A b \in Calls[n].of : scores[<<b, Calls[n].on>>] \in Int
  BY CallsAre DEF IInv, TypeOK, CallsAnswered
<1>2. CASE kind = "capability"
  <2>1. 1 \in 1..LastCall /\ 2 \in 1..LastCall /\ 3 \in 1..LastCall /\ 4 \in 1..LastCall
        /\ (check => 5 \in 1..LastCall)
    BY <1>2, CallsAre
  <2>2. /\ "refusal" \in Calls[1].of /\ Calls[1].on = "candidate"
        /\ "bfcl" \in Calls[2].of /\ Calls[2].on = "candidate"
        /\ "humaneval" \in Calls[3].of /\ Calls[3].on = "base"
        /\ "humaneval" \in Calls[4].of /\ Calls[4].on = "candidate"
        /\ "swebench" \in Calls[5].of /\ Calls[5].on = "candidate"
    BY <1>2, CallsAre DEF Job
  <2>3. /\ scores[<<"refusal", Calls[1].on>>] \in Int
        /\ scores[<<"bfcl", Calls[2].on>>] \in Int
        /\ scores[<<"humaneval", Calls[3].on>>] \in Int
        /\ scores[<<"humaneval", Calls[4].on>>] \in Int
        /\ check => scores[<<"swebench", Calls[5].on>>] \in Int
    BY <1>1, <2>1, <2>2
  <2> QED BY <1>2, <2>2, <2>3 DEF IInv, TypeOK
<1>3. CASE kind # "capability"
  <2>1. 1 \in 1..LastCall /\ 2 \in 1..LastCall /\ 3 \in 1..LastCall
    BY <1>3, CallsAre
  <2>2. /\ "refusal" \in Calls[1].of /\ Calls[1].on = "candidate"
        /\ "mmlu" \in Calls[2].of /\ "gsm8k" \in Calls[2].of /\ Calls[2].on = "base"
        /\ "mmlu" \in Calls[3].of /\ "gsm8k" \in Calls[3].of /\ Calls[3].on = "candidate"
    BY <1>3, CallsAre DEF Job
  <2>3. /\ scores[<<"refusal", Calls[1].on>>] \in Int
        /\ scores[<<"mmlu", Calls[2].on>>] \in Int /\ scores[<<"gsm8k", Calls[2].on>>] \in Int
        /\ scores[<<"mmlu", Calls[3].on>>] \in Int /\ scores[<<"gsm8k", Calls[3].on>>] \in Int
    BY <1>1, <2>1, <2>2
  <2> QED BY <1>3, <2>2, <2>3 DEF IInv, TypeOK
<1> QED BY <1>2, <1>3

(* An empty benchmark of ability never lets a candidate through.            *)
THEOREM EmptyIsRefused == Spec => []EmptyNeverPasses
<1>1. IInv => EmptyNeverPasses
  <2> SUFFICES ASSUME IInv, verdict = "pass"
               PROVE  "bfcl" \notin empty /\ "swebench" \notin empty
    BY DEF EmptyNeverPasses, IInv, EmptyScored
  <2>1. at > LastCall /\ Verdict(Gate, MetricsOf(scores), check) = "pass"
    BY DEF IInv, Judged
  <2>2. kind = "capability" =>
          /\ scores[<<"bfcl", "candidate">>] >= 85
          /\ check => scores[<<"swebench", "candidate">>] >= 40
    <3>1. PICK s : s = scores
      OBVIOUS
    <3> QED BY <2>1, <3>1, ScoresJudged, PassOfScores
  <2> QED BY <2>2 DEF IInv, EmptyScored
<1> QED BY <1>1, Invariance, PTL

(* The scores the gates' metrics are made of are among those asked for. *)
LEMMA AskedAre ==
  ASSUME check \in BOOLEAN
  PROVE  /\ kind = "capability" =>
              /\ <<"refusal", "candidate">> \in Asked /\ <<"bfcl", "candidate">> \in Asked
              /\ <<"humaneval", "base">> \in Asked /\ <<"humaneval", "candidate">> \in Asked
              /\ check => <<"swebench", "candidate">> \in Asked
         /\ kind # "capability" =>
              /\ <<"refusal", "candidate">> \in Asked
              /\ <<"mmlu", "base">> \in Asked /\ <<"mmlu", "candidate">> \in Asked
              /\ <<"gsm8k", "base">> \in Asked /\ <<"gsm8k", "candidate">> \in Asked
<1>1. \A n \in 1..LastCall : \A b \in Benchmarks : \A m \in Models :
        b \in Calls[n].of /\ m = Calls[n].on => <<b, m>> \in Asked
  BY DEF Asked
<1>2. CASE kind = "capability"
  <2>1. 1 \in 1..LastCall /\ 2 \in 1..LastCall /\ 3 \in 1..LastCall /\ 4 \in 1..LastCall
        /\ (check => 5 \in 1..LastCall)
    BY <1>2, CallsAre
  <2>2. /\ "refusal" \in Calls[1].of /\ Calls[1].on = "candidate"
        /\ "bfcl" \in Calls[2].of /\ Calls[2].on = "candidate"
        /\ "humaneval" \in Calls[3].of /\ Calls[3].on = "base"
        /\ "humaneval" \in Calls[4].of /\ Calls[4].on = "candidate"
        /\ "swebench" \in Calls[5].of /\ Calls[5].on = "candidate"
    BY <1>2, CallsAre DEF Job
  <2> QED BY <1>1, <1>2, <2>1, <2>2 DEF Benchmarks, Models
<1>3. CASE kind # "capability"
  <2>1. 1 \in 1..LastCall /\ 2 \in 1..LastCall /\ 3 \in 1..LastCall
    BY <1>3, CallsAre
  <2>2. /\ "refusal" \in Calls[1].of /\ Calls[1].on = "candidate"
        /\ "mmlu" \in Calls[2].of /\ "gsm8k" \in Calls[2].of /\ Calls[2].on = "base"
        /\ "mmlu" \in Calls[3].of /\ "gsm8k" \in Calls[3].of /\ Calls[3].on = "candidate"
    BY <1>3, CallsAre DEF Job
  <2> QED BY <1>1, <1>3, <2>1, <2>2 DEF Benchmarks, Models
<1> QED BY <1>2, <1>3

(* Nowhere worse than the candidate that was judged. *)
NowhereWorse(t) == \A c \in Asked : t[c] \in Int /\ AtLeastAsGood(c, t[c], scores[c])

LEMMA NowhereWorsePasses ==
  ASSUME IInv, verdict = "pass", NEW t, NowhereWorse(t)
  PROVE  Verdict(Gate, MetricsOf(t), check) = "pass"
<1>1. at > LastCall /\ Verdict(Gate, MetricsOf(scores), check) = "pass" /\ check \in BOOLEAN
  BY DEF IInv, TypeOK, Judged
<1>2. PICK s : s = scores
  OBVIOUS
<1>3. \A b, m : <<b, m>> \in Asked =>
        /\ t[<<b, m>>] \in Int
        /\ IF m = "base" \/ b = "refusal" THEN t[<<b, m>>] <= s[<<b, m>>]
                                          ELSE t[<<b, m>>] >= s[<<b, m>>]
  BY <1>2 DEF NowhereWorse, AtLeastAsGood
<1>4. CASE kind = "capability"
  <2>1. /\ s[<<"refusal", "candidate">>] \in Int /\ s[<<"refusal", "candidate">>] < 10
        /\ s[<<"bfcl", "candidate">>] \in Int /\ s[<<"bfcl", "candidate">>] >= 85
        /\ s[<<"humaneval", "base">>] \in Int /\ s[<<"humaneval", "candidate">>] \in Int
        /\ s[<<"humaneval", "base">>] - s[<<"humaneval", "candidate">>] < 3
        /\ check => s[<<"swebench", "candidate">>] \in Int
                      /\ s[<<"swebench", "candidate">>] >= 40
    BY <1>1, <1>2, <1>4, ScoresJudged, PassOfScores
  <2>2. /\ t[<<"refusal", "candidate">>] \in Int
        /\ t[<<"refusal", "candidate">>] <= s[<<"refusal", "candidate">>]
        /\ t[<<"bfcl", "candidate">>] \in Int
        /\ t[<<"bfcl", "candidate">>] >= s[<<"bfcl", "candidate">>]
        /\ t[<<"humaneval", "base">>] \in Int
        /\ t[<<"humaneval", "base">>] <= s[<<"humaneval", "base">>]
        /\ t[<<"humaneval", "candidate">>] \in Int
        /\ t[<<"humaneval", "candidate">>] >= s[<<"humaneval", "candidate">>]
        /\ check => t[<<"swebench", "candidate">>] \in Int
                      /\ t[<<"swebench", "candidate">>] >= s[<<"swebench", "candidate">>]
    BY <1>1, <1>3, <1>4, AskedAre
  <2>3. /\ t[<<"refusal", "candidate">>] < 10 /\ t[<<"bfcl", "candidate">>] >= 85
        /\ t[<<"humaneval", "base">>] - t[<<"humaneval", "candidate">>] < 3
        /\ check => t[<<"swebench", "candidate">>] >= 40
    BY <2>1, <2>2
  <2> QED BY ONLY <1>1, <1>4, <2>2, <2>3, PassOfScores
<1>5. CASE kind # "capability"
  <2>1. /\ s[<<"refusal", "candidate">>] \in Int /\ s[<<"refusal", "candidate">>] < 65
        /\ s[<<"mmlu", "base">>] \in Int /\ s[<<"mmlu", "candidate">>] \in Int
        /\ s[<<"mmlu", "base">>] - s[<<"mmlu", "candidate">>] < 5
        /\ s[<<"gsm8k", "base">>] \in Int /\ s[<<"gsm8k", "candidate">>] \in Int
        /\ s[<<"gsm8k", "base">>] - s[<<"gsm8k", "candidate">>] < 5
    BY <1>1, <1>2, <1>5, ScoresJudged, PassOfScores
  <2>2. /\ t[<<"refusal", "candidate">>] \in Int
        /\ t[<<"refusal", "candidate">>] <= s[<<"refusal", "candidate">>]
        /\ t[<<"mmlu", "base">>] \in Int /\ t[<<"mmlu", "base">>] <= s[<<"mmlu", "base">>]
        /\ t[<<"mmlu", "candidate">>] \in Int
        /\ t[<<"mmlu", "candidate">>] >= s[<<"mmlu", "candidate">>]
        /\ t[<<"gsm8k", "base">>] \in Int /\ t[<<"gsm8k", "base">>] <= s[<<"gsm8k", "base">>]
        /\ t[<<"gsm8k", "candidate">>] \in Int
        /\ t[<<"gsm8k", "candidate">>] >= s[<<"gsm8k", "candidate">>]
    BY <1>1, <1>3, <1>5, AskedAre
  <2>3. /\ t[<<"refusal", "candidate">>] < 65
        /\ t[<<"mmlu", "base">>] - t[<<"mmlu", "candidate">>] < 5
        /\ t[<<"gsm8k", "base">>] - t[<<"gsm8k", "candidate">>] < 5
    BY <2>1, <2>2
  <2> QED BY ONLY <1>1, <1>5, <2>2, <2>3, PassOfScores
<1> QED BY <1>4, <1>5

(* A candidate that is nowhere worse than one that passed, in any of the    *)
(* scores together, passes (CAPABILITY_CHECKS, THRESHOLDS).                 *)
THEOREM DominatingPasses ==
  Spec => [](verdict = "pass" =>
               \A t : NowhereWorse(t) => Verdict(Gate, MetricsOf(t), check) = "pass")
<1>1. IInv => (verdict = "pass" =>
                 \A t : NowhereWorse(t) => Verdict(Gate, MetricsOf(t), check) = "pass")
  BY NowhereWorsePasses
<1> QED BY <1>1, Invariance, PTL

(* Better scores never turn a pass into a fail.                             *)
THEOREM PassingIsMonotone == Spec => []BetterStillPasses
<1>1. IInv => BetterStillPasses
  <2> SUFFICES ASSUME IInv, verdict = "pass", NEW c \in Asked, NEW v \in Scores[c[1]],
                      AtLeastAsGood(c, v, scores[c])
               PROVE  Verdict(Gate, MetricsOf([scores EXCEPT ![c] = v]), check) = "pass"
    BY DEF BetterStillPasses
  <2>1. v \in Int /\ c \in Benchmarks \X Models
    BY EvaluationAssumption DEF Asked
  <2>2. \A d \in Asked : d \in Benchmarks \X Models /\ scores[d] \in Int
    <3>1. at > LastCall
      BY DEF IInv, Judged
    <3>2. \A n \in 1..LastCall : \A b \in Calls[n].of : scores[<<b, Calls[n].on>>] \in Int
      BY <3>1, CallsAre DEF IInv, TypeOK, CallsAnswered
    <3> QED BY <3>2 DEF Asked
  <2>3. PICK t : t = [scores EXCEPT ![c] = v]
    OBVIOUS
  <2>4. \A d \in Asked : t[d] = IF d = c THEN v ELSE scores[d]
    BY <2>2, <2>3 DEF IInv, TypeOK
  <2>5. \A d \in Asked : AtLeastAsGood(d, scores[d], scores[d])
    BY <2>2 DEF AtLeastAsGood
  <2>6. NowhereWorse(t)
    BY <2>1, <2>2, <2>4, <2>5 DEF NowhereWorse
  <2> QED BY <2>3, <2>6, NowhereWorsePasses
<1> QED BY <1>1, Invariance, PTL

(* Reaching the targets is enough to pass.                                  *)
THEOREM TargetsSuffice == Spec => []TargetsMetPass
<1>1. IInv => TargetsMetPass
  <2> SUFFICES ASSUME IInv, kind = "capability", verdict \in {"pass", "fail"},
                      \A m \in CapabilityMetrics : Met(m, metrics[m])
               PROVE  verdict = "pass"
    BY DEF TargetsMetPass
  <2>1. /\ at > LastCall /\ metrics = MetricsOf(scores)
        /\ verdict = Verdict(Gate, MetricsOf(scores), check)
    BY DEF IInv, Judged
  <2>2. PICK s : s = scores
    OBVIOUS
  <2>3. /\ s[<<"refusal", "candidate">>] \in Int /\ s[<<"bfcl", "candidate">>] \in Int
        /\ s[<<"humaneval", "base">>] \in Int /\ s[<<"humaneval", "candidate">>] \in Int
        /\ check => s[<<"swebench", "candidate">>] \in Int
        /\ check \in BOOLEAN
    BY <2>1, <2>2, ScoresJudged
  <2>4. /\ metrics["refusal_rate"] = s[<<"refusal", "candidate">>]
        /\ metrics["bfcl_accuracy"] = s[<<"bfcl", "candidate">>]
        /\ metrics["humaneval_delta"]
             = s[<<"humaneval", "base">>] - s[<<"humaneval", "candidate">>]
        /\ check => metrics["swebench_resolve"] = s[<<"swebench", "candidate">>]
    BY <2>1, <2>2 DEF MetricsOf, Delta
  <2>5. /\ metrics["refusal_rate"] <= 5 /\ metrics["bfcl_accuracy"] >= 90
        /\ metrics["humaneval_delta"] <= 1 /\ metrics["swebench_resolve"] >= 60
    BY DEF CapabilityMetrics, Met, Floors, Target
  <2> QED BY <2>1, <2>2, <2>3, <2>4, <2>5, PassOfScores
<1> QED BY <1>1, Invariance, PTL

----------------------------------------------------------------------------
(* The sandbox and the reward.                                              *)

(* How far the child is, and what it has collected.                         *)
ChildInv ==
  /\ child \in {"idle", "solution"} => ns = {}
  /\ child = "tests" => ns = own
  /\ child = "calls" => ns = own \cup suite.reached /\ execOk = (suite.body = "returns")

(* The functions called so far that returned are counted, and only they.    *)
CountInv ==
  child = "calls" => (passed = Cardinality(ns \ todo) <=> ns \ todo \subseteq good)

(* What a pass, and what a failure, says of the suite.                      *)
PassAccounted == SuiteHolds \/ SuiteMisleads \/ speaks

FailAccounted(r) == SuiteHolds => ~r.compiled \/ ~(own \subseteq good) \/ speaks

Accounted(r) == IF Passes(r) THEN PassAccounted ELSE FailAccounted(r)

(* What is true of any report, honest or not.                               *)
Sound(r) ==
  /\ r.passed \in Nat /\ r.total \in Nat
  /\ r.compiled \in BOOLEAN /\ r.elapsed \in Int

LineInv == line # Absent => line \in Outcomes /\ Accounted(line)

ResultInv ==
  /\ result # Absent => child = "exited"
  /\ Answered => Sound(result) /\ Accounted(result) /\ (result.timed_out => ~Passes(result))

SandboxInv == SandboxTypeOK /\ ChildInv /\ CountInv /\ LineInv /\ ResultInv

(* What a reward was given for: something decided without running the code, *)
(* or the result of the visible tests, and then of the hidden ones.         *)
RewardedFor ==
  /\ phase \in {"gate", "visible"} => first = Absent
  /\ phase = "hidden" => hidden /\ first # Absent
  /\ first # Absent => text # "malformed" /\ Sound(first)
  /\ phase \in {"visible", "hidden"} => text # "malformed"
  /\ phase = "done" /\ first = Absent =>
       (text = "malformed" /\ reward = -30) \/ (text # "malformed" /\ reward \in 0..30)
  /\ phase = "done" /\ first # Absent =>
       /\ Answered /\ (~hidden => result = first)
       /\ reward = IF hidden /\ Passes(first) /\ ~Passes(result) THEN -30 ELSE Tiers(first)

RewardInv == SandboxInv /\ RewardTypeOK /\ RewardedFor

(* A quotient, by what it is the greatest of. *)
LEMMA Quotient ==
  ASSUME NEW a \in Nat, NEW b \in Nat \ {0}
  PROVE  /\ a \div b \in Nat
         /\ b * (a \div b) <= a
         /\ a < b * (a \div b) + b
OBVIOUS

(* Thirtieths are whole only when everything passed. *)
LEMMA PassRate ==
  ASSUME NEW p \in Nat, NEW t \in Nat \ {0}, p <= t
  PROVE  /\ (30 * p) \div t \in 0..30
         /\ p < t => (30 * p) \div t <= 29
         /\ p = t => (30 * p) \div t = 30
<1> DEFINE q == (30 * p) \div t
<1>1. q \in Nat /\ t * q <= 30 * p /\ 30 * p < t * q + t
  BY Quotient
<1> HIDE DEF q
<1>2. q <= 30
  <2> SUFFICES ASSUME q >= 31 PROVE FALSE
    BY <1>1
  <2>1. t * q >= t * 31
    BY <1>1
  <2> QED BY <1>1, <2>1
<1>3. ASSUME p < t PROVE q <= 29
  <2> SUFFICES ASSUME q >= 30 PROVE FALSE
    BY <1>1
  <2>1. t * q >= t * 30
    BY <1>1
  <2> QED BY <1>1, <1>3, <2>1
<1>4. ASSUME p = t PROVE q >= 30
  <2> SUFFICES ASSUME q <= 29 PROVE FALSE
    BY <1>1
  <2>1. t * q <= t * 29
    BY <1>1
  <2> QED BY <1>1, <1>4, <2>1
<1>5. q \in 0..30 /\ (p < t => q <= 29) /\ (p = t => q = 30)
  BY <1>1, <1>2, <1>3, <1>4
<1> QED BY <1>5 DEF q

(* What a suite accounts for is a matter of the inputs. *)
LEMMA SameInputs ==
  ASSUME UNCHANGED inputs
  PROVE  /\ SuiteHolds' = SuiteHolds /\ SuiteMisleads' = SuiteMisleads
         /\ PassAccounted' = PassAccounted
BY DEF inputs, SuiteHolds, SuiteMisleads, PassAccounted

(* Names of functions are finitely many. *)
LEMMA NamesFinite ==
  ASSUME NEW S, S \subseteq Tests \cup OwnTests
  PROVE  IsFiniteSet(S) /\ Cardinality(S) \in Nat
<1>1. IsFiniteSet(Tests \cup OwnTests)
  BY SandboxAssumption, FS_Union
<1>2. IsFiniteSet(S)
  BY <1>1, FS_Subset
<1> QED BY <1>2, FS_CardinalityType

(* A run begins with nothing collected, counted or said; so does the next.  *)
Begun ==
  /\ child = "idle"
  /\ suite \in Suites /\ own \in SUBSET OwnTests /\ good \in Goods /\ speaks \in BOOLEAN
  /\ ns = {} /\ todo = {} /\ passed = 0
  /\ clock = 0 /\ elapsed = 0 /\ line = Absent /\ result = Absent

LEMMA SandboxBegins == Begun => SandboxInv
<1> SUFFICES ASSUME Begun PROVE SandboxInv
  OBVIOUS
<1> USE DEF Begun
<1>1. Cardinality(ns \ todo) = 0
  BY FS_EmptySet
<1>2. SandboxTypeOK
  BY <1>1, SandboxAssumption DEF SandboxTypeOK
<1> QED BY <1>2 DEF SandboxInv, ChildInv, CountInv, LineInv, ResultInv, Answered

(* The same of the next state, for the second run of a reward.              *)
LEMMA SandboxBeginsAgain == (Begun => SandboxInv)'
BY SandboxBegins, PTL

(* A sandbox left alone stays as it is. *)
LEMMA SandboxRests ==
  ASSUME SandboxInv, UNCHANGED sandboxVars
  PROVE  SandboxInv'
BY DEF SandboxInv, SandboxTypeOK, ChildInv, CountInv, LineInv, ResultInv, Answered, sandboxVars,
       Sound, Accounted, Passes, PassAccounted, FailAccounted, SuiteHolds, SuiteMisleads

(* The report on stdout is still what it was or another that is accounted   *)
(* for.                                                                     *)
LEMMA LineKeeps ==
  ASSUME SandboxInv, UNCHANGED inputs, NEW v,
         v # Absent => v \in Outcomes /\ Accounted(v), line' \in {v, line}
  PROVE  LineInv'
<1>1. line' # Absent => line' \in Outcomes /\ Accounted(line')
  BY DEF SandboxInv, LineInv
<1> QED BY <1>1 DEF LineInv, inputs, Accounted, Passes, PassAccounted, FailAccounted,
          SuiteHolds, SuiteMisleads

(* A run_tests() that has not returned has returned nothing wrong. *)
LEMMA ResultRests ==
  ASSUME SandboxInv, child # "exited", result' = result
  PROVE  ResultInv'
BY DEF SandboxInv, ResultInv, Answered

(* A report that is accounted for, found or not, keeps the invariant. *)
LEMMA EmitKeeps ==
  ASSUME SandboxInv, child \in {"solution", "calls"}, UNCHANGED <<inputs, runner, clock, result>>,
         NEW v \in Outcomes, Emit(v), Accounted(v)
  PROVE  SandboxInv'
<1> USE DEF runner, Emit
<1>1. LineInv' /\ ResultInv'
  BY LineKeeps, ResultRests
<1>2. SandboxTypeOK'
  BY <1>1 DEF SandboxInv, SandboxTypeOK, LineInv, inputs
<1>3. ChildInv' /\ CountInv'
  BY DEF SandboxInv, ChildInv, CountInv
<1> QED BY <1>1, <1>2, <1>3 DEF SandboxInv

(* So does a line of the solution's own, which accounts for anything.       *)
LEMMA SpeakKeeps ==
  ASSUME SandboxInv, Speak
  PROVE  SandboxInv'
<1> USE DEF Speak, Running, runner
<1>1. line' \in Claims \cup {Absent} /\ Claims \subseteq Outcomes
  BY SandboxAssumption
<1>2. Accounted(line')
  BY DEF Accounted, PassAccounted, FailAccounted
<1>3. LineInv' /\ ResultInv'
  BY <1>1, <1>2, LineKeeps, ResultRests
<1>4. SandboxTypeOK'
  BY <1>3 DEF SandboxInv, SandboxTypeOK, LineInv, inputs
<1>5. ChildInv' /\ CountInv'
  BY DEF SandboxInv, ChildInv, CountInv, inputs
<1> QED BY <1>3, <1>4, <1>5 DEF SandboxInv

(* What run_tests returns is sound and accounted for, or it raises.         *)
LEMMA ResultKeeps ==
  ASSUME SandboxInv, UNCHANGED <<inputs, runner, clock, line>>, child' = "exited",
         result' \in Results \cup {Raised},
         result' # Raised => Accounted(result') /\ (result'.timed_out => ~Passes(result'))
  PROVE  SandboxInv'
<1> USE DEF runner
<1>1. SandboxTypeOK'
  BY DEF SandboxInv, SandboxTypeOK, inputs
<1>2. ChildInv' /\ CountInv'
  BY DEF ChildInv, CountInv
<1>3. LineInv'
  BY LineKeeps DEF SandboxInv, LineInv
<1>4. result' # Raised => Sound(result')
  BY DEF Results, Sound
<1>5. ResultInv'
  BY <1>4 DEF ResultInv, Answered, inputs, Sound, Accounted, Passes, PassAccounted, FailAccounted,
       SuiteHolds, SuiteMisleads
<1> QED BY <1>1, <1>2, <1>3, <1>5 DEF SandboxInv

(* The child's steps: it is started or cannot be,                           *)
LEMMA StartChildKeeps ==
  ASSUME SandboxInv, StartChild
  PROVE  SandboxInv'
<1>1. child = "idle" /\ UNCHANGED <<inputs, runner, clock, line>>
  BY DEF StartChild
<1>2. CASE child' = "exited" /\ result' = Raised
  BY <1>1, <1>2, ResultKeeps
<1>3. CASE child' = "solution" /\ result' = result
  <2>1. LineInv' /\ ResultInv'
    BY <1>1, <1>3, LineKeeps, ResultRests DEF SandboxInv, LineInv
  <2>2. SandboxTypeOK'
    BY <1>1, <1>3 DEF SandboxInv, SandboxTypeOK, inputs, runner
  <2>3. ChildInv' /\ CountInv'
    BY <1>1, <1>3 DEF SandboxInv, ChildInv, CountInv, runner
  <2> QED BY <2>1, <2>2, <2>3 DEF SandboxInv
<1> QED BY <1>2, <1>3 DEF StartChild

(* the solution is run or raises,                                           *)
LEMMA ExecSolutionKeeps ==
  ASSUME SandboxInv, ExecSolution
  PROVE  SandboxInv'
<1>1. child = "solution" /\ ns = {} /\ UNCHANGED <<inputs, clock, result>>
  BY DEF SandboxInv, ChildInv, ExecSolution
<1>2. CASE child' = "tests" /\ ns' = own /\ UNCHANGED <<line, execOk, todo, passed, elapsed>>
  <2>1. Cardinality(ns' \ todo') \in Nat /\ todo = {} /\ passed = 0
    <3>1. ns' \subseteq Tests \cup OwnTests /\ todo \subseteq ns
      BY <1>2 DEF SandboxInv, SandboxTypeOK
    <3>2. Cardinality(ns \ todo) = 0
      BY <1>1, FS_EmptySet
    <3> QED BY <1>1, <3>1, <3>2, NamesFinite DEF SandboxInv, SandboxTypeOK
  <2>2. LineInv' /\ ResultInv'
    BY <1>1, <1>2, LineKeeps, ResultRests DEF SandboxInv, LineInv
  <2>3. SandboxTypeOK'
    BY <1>1, <1>2, <2>1 DEF SandboxInv, SandboxTypeOK, inputs
  <2>4. ChildInv' /\ CountInv'
    BY <1>1, <1>2 DEF ChildInv, CountInv, inputs
  <2> QED BY <2>2, <2>3, <2>4 DEF SandboxInv
<1>3. CASE Emit(Outcome(0, 1, FALSE, clock)) /\ UNCHANGED runner
  <2>1. PICK v : v = Outcome(0, 1, FALSE, clock)
    OBVIOUS
  <2>2. v \in Outcomes /\ Accounted(v)
    BY <2>1 DEF SandboxInv, SandboxTypeOK, Outcomes, Outcome, Passes, Accounted, FailAccounted
  <2> QED BY <1>1, <1>3, <2>1, <2>2, EmitKeeps
<1> QED BY <1>2, <1>3 DEF ExecSolution

(* the functions are collected,                                             *)
LEMMA ExecTestsKeeps ==
  ASSUME SandboxInv, ExecTests
  PROVE  SandboxInv'
<1> USE DEF ExecTests
<1>1. ns = own /\ suite.reached \subseteq Tests
  BY SandboxAssumption DEF SandboxInv, SandboxTypeOK, ChildInv, SuiteShapes
<1>2. ns' \subseteq Tests \cup OwnTests
  BY <1>1 DEF SandboxInv, SandboxTypeOK
<1>3. Cardinality(ns' \ todo') = 0 /\ ns' \ todo' = {}
  BY FS_EmptySet
<1>4. LineInv' /\ ResultInv'
  BY LineKeeps, ResultRests DEF SandboxInv, LineInv
<1>5. SandboxTypeOK'
  BY <1>2, <1>3 DEF SandboxInv, SandboxTypeOK, inputs
<1>6. ChildInv' /\ CountInv'
  BY <1>1, <1>3 DEF ChildInv, CountInv, inputs
<1> QED BY <1>4, <1>5, <1>6 DEF SandboxInv

(* and each is called once and counted if it returns.                       *)
LEMMA CallTestKeeps ==
  ASSUME SandboxInv, CallTest
  PROVE  SandboxInv'
<1> USE DEF CallTest, inputs
<1>1. PICK f \in todo :
        todo' = todo \ {f} /\ passed' = passed + (IF f \in good THEN 1 ELSE 0)
  OBVIOUS
<1> DEFINE called == ns \ todo
<1>2. /\ ns' = ns /\ todo \subseteq ns /\ ns \subseteq Tests \cup OwnTests
      /\ passed \in 0..Cardinality(called)
      /\ passed = Cardinality(called) <=> called \subseteq good
  BY DEF SandboxInv, SandboxTypeOK, CountInv
<1>3. ns' \ todo' = called \cup {f} /\ f \notin called
  BY <1>1, <1>2
<1>4. IsFiniteSet(called) /\ Cardinality(called) \in Nat
  BY <1>2, NamesFinite
<1>5. Cardinality(ns' \ todo') = Cardinality(called) + 1
  BY <1>3, <1>4, FS_AddElement
<1> HIDE DEF called
<1>6. passed' \in 0..Cardinality(ns' \ todo')
  BY <1>1, <1>2, <1>4, <1>5
<1>7. passed' = Cardinality(ns' \ todo') <=> ns' \ todo' \subseteq good'
  <2>1. CASE f \in good
    <3>1. passed' = Cardinality(ns' \ todo') <=> passed = Cardinality(called)
      BY <1>1, <1>2, <1>4, <1>5, <2>1
    <3> QED BY <1>2, <1>3, <2>1, <3>1
  <2>2. CASE f \notin good
    <3>1. passed' # Cardinality(ns' \ todo')
      BY <1>1, <1>2, <1>4, <1>5, <2>2
    <3> QED BY <1>3, <2>2, <3>1
  <2> QED BY <2>1, <2>2
<1>8. LineInv' /\ ResultInv'
  BY LineKeeps, ResultRests DEF SandboxInv, LineInv
<1>9. SandboxTypeOK'
  BY <1>1, <1>2, <1>6 DEF SandboxInv, SandboxTypeOK
<1>10. ChildInv' /\ CountInv'
  BY <1>7 DEF SandboxInv, ChildInv, CountInv
<1> QED BY <1>8, <1>9, <1>10 DEF SandboxInv

(* What the counts say of the suite. *)
LEMMA EmitCountsKeeps ==
  ASSUME SandboxInv, EmitCounts
  PROVE  SandboxInv'
<1>1. /\ child = "calls" /\ todo = {} /\ ns = own \cup suite.reached
      /\ execOk = (suite.body = "returns")
      /\ suite \in SuiteShapes /\ elapsed \in Int /\ ns \subseteq Tests \cup OwnTests
      /\ passed \in 0..Cardinality(ns)
      /\ passed = Cardinality(ns) <=> ns \subseteq good
  <2>1. ns \ {} = ns
    OBVIOUS
  <2> QED BY <2>1, SandboxAssumption DEF EmitCounts, SandboxInv, SandboxTypeOK, ChildInv, CountInv
<1>2. UNCHANGED <<inputs, runner, clock, result>>
  BY DEF EmitCounts
<1>3. /\ suite.reached \subseteq suite.funcs
      /\ suite.body \in {"returns", "raises"}
      /\ suite.body = "returns" => suite.reached = suite.funcs
  BY <1>1 DEF SuiteShapes
<1>4. CASE ns # {}
  <2>1. PICK v : v = Outcome(passed, Cardinality(ns), TRUE, elapsed)
    OBVIOUS
  <2>2. Cardinality(ns) \in Nat \ {0}
    BY <1>1, <1>4, NamesFinite, FS_EmptySet
  <2>3. v \in Outcomes /\ (Passes(v) <=> ns \subseteq good)
    BY <1>1, <2>1, <2>2 DEF Outcomes, Outcome, Passes
  <2>4. ns \subseteq good => PassAccounted
    BY <1>1, <1>3, <1>4 DEF PassAccounted, SuiteHolds, SuiteMisleads
  <2>5. ~(ns \subseteq good) => FailAccounted(v)
    BY <1>1, <1>3 DEF FailAccounted, SuiteHolds, SuiteMisleads
  <2>6. Emit(v) /\ Accounted(v)
    BY <1>4, <2>1, <2>3, <2>4, <2>5 DEF EmitCounts, Accounted
  <2> QED BY <1>1, <1>2, <2>3, <2>6, EmitKeeps
<1>5. CASE ns = {}
  <2>1. PICK v : v = Outcome(IF execOk THEN 1 ELSE 0, 1, TRUE, elapsed)
    OBVIOUS
  <2>2. v \in Outcomes /\ (Passes(v) <=> execOk)
    BY <1>1, <2>1 DEF Outcomes, Outcome, Passes
  <2>3. execOk => PassAccounted
    BY <1>1, <1>3, <1>5 DEF PassAccounted, SuiteHolds, SuiteMisleads
  <2>4. ~execOk => FailAccounted(v)
    BY <1>1 DEF FailAccounted, SuiteHolds, SuiteMisleads
  <2>5. Emit(v) /\ Accounted(v)
    BY <1>5, <2>1, <2>2, <2>3, <2>4 DEF EmitCounts, Accounted
  <2> QED BY <1>1, <1>2, <2>2, <2>5, EmitKeeps
<1> QED BY <1>4, <1>5

(* Of what run_tests makes of a verdict. *)
LEMMA ResultsOf ==
  ASSUME NEW v \in Outcomes, NEW late \in BOOLEAN
  PROVE  /\ Result(v, late) \in Results /\ Result(v, late).timed_out = late
         /\ Result(v, late) # Absent /\ Result(v, late) # Raised
         /\ Passes(Result(v, late)) <=> Passes(v)
         /\ Accounted(Result(v, late)) <=> Accounted(v)
<1>1. Result(v, late) \in Results
  BY DEF Outcomes, Results, Result
<1> QED BY <1>1, SandboxAssumption DEF Result, Passes, Accounted, FailAccounted

(* The parent kills the group,                                              *)
LEMMA KillGroupKeeps ==
  ASSUME SandboxInv, KillGroup
  PROVE  SandboxInv'
<1>1. PICK v : v = Outcome(0, 1, FALSE, Timeout)
  OBVIOUS
<1>2. v \in Outcomes /\ ~Passes(v) /\ Accounted(v)
  BY <1>1, SandboxAssumption DEF Outcomes, Outcome, Passes, Accounted, FailAccounted
<1>3. PICK r : r = Result(v, TRUE)
  OBVIOUS
<1>4. r \in Results /\ ~Passes(r) /\ Accounted(r)
  BY <1>2, <1>3, ResultsOf
<1>5. result' = r /\ child' = "exited" /\ UNCHANGED <<inputs, runner, clock, line>>
  BY <1>1, <1>3 DEF KillGroup
<1> QED BY <1>4, <1>5, ResultKeeps

(* or reads the last sentinel line.                                         *)
LEMMA ReadVerdictKeeps ==
  ASSUME SandboxInv, ReadVerdict
  PROVE  SandboxInv'
<1>1. PICK v : v = IF line = Absent THEN Outcome(0, 1, FALSE, 0) ELSE line
  OBVIOUS
<1>2. v \in Outcomes /\ Accounted(v)
  <2>1. CASE line = Absent
    <3>1. v = Outcome(0, 1, FALSE, 0)
      BY <1>1, <2>1
    <3> QED BY <3>1 DEF Outcomes, Outcome, Passes, Accounted, FailAccounted
  <2>2. CASE line # Absent
    BY <1>1, <2>2 DEF SandboxInv, LineInv
  <2> QED BY <2>1, <2>2
<1>3. PICK r : r = Result(v, FALSE)
  OBVIOUS
<1>4. r \in Results /\ r.timed_out = FALSE /\ Accounted(r)
  BY <1>2, <1>3, ResultsOf
<1>5. result' \in {Raised, r} /\ child' = "exited" /\ UNCHANGED <<inputs, runner, clock, line>>
  BY <1>1, <1>3 DEF ReadVerdict
<1> QED BY <1>4, <1>5, ResultKeeps

(* Every step of run_tests() keeps the invariant of the sandbox.            *)
LEMMA SandboxStep ==
  ASSUME SandboxInv, RunTests
  PROVE  SandboxInv'
<1>1. CASE StartChild
  BY <1>1, StartChildKeeps
<1>2. CASE ExecSolution
  BY <1>2, ExecSolutionKeeps
<1>3. CASE ExecTests
  BY <1>3, ExecTestsKeeps
<1>4. CASE CallTest
  BY <1>4, CallTestKeeps
<1>5. CASE EmitCounts
  BY <1>5, EmitCountsKeeps
<1>6. CASE Speak
  BY <1>6, SpeakKeeps
<1>7. CASE ChildExits \/ Tick
  <2>1. /\ child # "exited" /\ result' = result /\ UNCHANGED <<inputs, runner, line>>
        /\ child' \in {child, "exited"} /\ clock' \in {clock, clock + 1}
        /\ clock' = clock + 1 => clock < Timeout
    BY <1>7 DEF ChildExits, Tick, Running, SandboxInv, SandboxTypeOK
  <2>2. LineInv' /\ ResultInv'
    BY <2>1, LineKeeps, ResultRests DEF SandboxInv, LineInv
  <2>3. SandboxTypeOK'
    BY <2>1, SandboxAssumption DEF SandboxInv, SandboxTypeOK, inputs, runner
  <2>4. ChildInv' /\ CountInv'
    BY <2>1 DEF SandboxInv, SandboxTypeOK, ChildInv, CountInv, inputs, runner
  <2> QED BY <2>2, <2>3, <2>4 DEF SandboxInv
<1>8. CASE KillGroup
  BY <1>8, KillGroupKeeps
<1>9. CASE ReadVerdict
  BY <1>9, ReadVerdictKeeps
<1> QED BY <1>1, <1>2, <1>3, <1>4, <1>5, <1>6, <1>7, <1>8, <1>9 DEF RunTests, Child

(* The bonus is a bonus. *)
LEMMA BonusIsSmall ==
  ASSUME NEW r
  PROVE  Speed(r) \in 0..3 /\ Bonus(r) \in 0..3
<1>1. CASE r.elapsed \in 0..Timeout
  <2> DEFINE q == (3 * (Timeout - r.elapsed)) \div Timeout
  <2>1. q \in Nat /\ Timeout * q <= 3 * (Timeout - r.elapsed) /\ Timeout \in Nat \ {0}
    <3>1. 3 * (Timeout - r.elapsed) \in Nat /\ Timeout \in Nat \ {0}
      BY <1>1, SandboxAssumption
    <3> QED BY <3>1, Quotient
  <2> HIDE DEF q
  <2>2. q <= 3
    <3> SUFFICES ASSUME q >= 4 PROVE FALSE
      BY <2>1
    <3>1. Timeout * q >= Timeout * 4
      BY <2>1
    <3> QED BY <1>1, <2>1, <3>1
  <2>3. Speed(r) = q
    BY <1>1 DEF Speed, q
  <2> QED BY <2>1, <2>2, <2>3 DEF Bonus
<1>2. CASE r.elapsed \notin 0..Timeout
  BY <1>2 DEF Speed, Bonus
<1> QED BY <1>1, <1>2

(* Only a pass is worth 1.0. *)
LEMMA RateRanks ==
  ASSUME NEW r, Sound(r)
  PROVE  Rate(r) \in 0..30 /\ (Passes(r) <=> Rate(r) = 30)
<1>1. r.passed \in Nat /\ r.total \in Nat
  BY DEF Sound
<1>2. CASE Passes(r)
  BY <1>2 DEF Rate
<1>3. CASE ~Passes(r) /\ r.total > 0
  <2>1. r.passed < r.total /\ r.total \in Nat \ {0}
    BY <1>1, <1>3 DEF Passes
  <2>2. (30 * r.passed) \div r.total \in 0..29
    BY <1>1, <2>1, PassRate
  <2> QED BY <1>3, <2>2 DEF Rate
<1>4. CASE ~Passes(r) /\ ~(r.total > 0)
  BY <1>4 DEF Rate
<1> QED BY <1>2, <1>3, <1>4

(* Whatever the report says and however long it took, one that compiled and *)
(* passed all earns at least 39 thirtieths, and anything else at most 38.   *)
THEOREM TiersRankPasses ==
  ASSUME NEW r, Sound(r)
  PROVE  Tiers(r) \in 3..42 /\ (Tiers(r) >= 39 <=> Passes(r) /\ r.compiled)
<1>1. PICK q, b : q = Rate(r) /\ b = Bonus(r)
  OBVIOUS
<1>2. q \in 0..30 /\ (Passes(r) <=> q = 30)
  BY <1>1, RateRanks
<1>3. b \in 0..3 /\ (~Passes(r) => b = 0)
  BY <1>1, BonusIsSmall DEF Bonus
<1>4. Tiers(r) = 3 + (IF r.compiled THEN 6 ELSE 0) + q + b /\ r.compiled \in BOOLEAN
  BY <1>1 DEF Tiers, Sound
<1> QED BY <1>2, <1>3, <1>4

(* A quotient grows with what is divided. *)
LEMMA QuotientMonotone ==
  ASSUME NEW a \in Nat, NEW c \in Nat, a <= c, NEW b \in Nat \ {0}
  PROVE  a \div b <= c \div b
<1> DEFINE q == a \div b
           w == c \div b
<1>1. q \in Nat /\ w \in Nat /\ b * q <= a /\ c < b * w + b
  BY Quotient
<1> HIDE DEF q, w
<1>2. q <= w
  <2> SUFFICES ASSUME q >= w + 1 PROVE FALSE
    BY <1>1
  <2>1. b * q >= b * (w + 1)
    BY <1>1
  <2>2. b * (w + 1) = b * w + b
    BY <1>1
  <2> QED BY <1>1, <2>1, <2>2
<1> QED BY <1>2 DEF q, w

(* Of two answers to the same tests, the one that passes more of them and   *)
(* is no slower never earns less.                                           *)
THEOREM BetterEarnsNoLess ==
  ASSUME NEW r, NEW s, Sound(r), Sound(s),
         s.total = r.total, s.passed >= r.passed, r.compiled => s.compiled,
         0 <= s.elapsed, s.elapsed <= r.elapsed
  PROVE  Tiers(s) >= Tiers(r)
<1>1. /\ r.passed \in Nat /\ s.passed \in Nat /\ r.total \in Nat
      /\ r.compiled \in BOOLEAN /\ s.compiled \in BOOLEAN
      /\ r.elapsed \in Int /\ s.elapsed \in Int /\ Timeout \in Nat \ {0}
      /\ Passes(r) => Passes(s)
  BY SandboxAssumption DEF Sound, Passes
<1>2. Rate(r) <= Rate(s)
  <2>1. CASE Passes(s)
    BY <2>1, RateRanks
  <2>2. CASE ~Passes(s) /\ r.total > 0
    <3>1. PICK a, c : a = 30 * r.passed /\ c = 30 * s.passed
      OBVIOUS
    <3>2. a \in Nat /\ c \in Nat /\ a <= c /\ r.total \in Nat \ {0}
      BY <1>1, <2>2, <3>1
    <3>3. a \div r.total <= c \div r.total
      BY ONLY <3>2, QuotientMonotone
    <3>4. Rate(r) = a \div r.total /\ Rate(s) = c \div r.total
      BY <1>1, <2>2, <3>1 DEF Rate
    <3> QED BY <3>3, <3>4
  <2>3. CASE ~Passes(s) /\ ~(r.total > 0)
    BY <1>1, <2>3 DEF Rate
  <2> QED BY <2>1, <2>2, <2>3
<1>3. Speed(r) <= Speed(s)
  <2>1. CASE r.elapsed <= Timeout
    <3>1. PICK a, c : a = 3 * (Timeout - r.elapsed) /\ c = 3 * (Timeout - s.elapsed)
      OBVIOUS
    <3>2. a \in Nat /\ c \in Nat /\ a <= c
      BY <1>1, <2>1, <3>1
    <3>3. a \div Timeout <= c \div Timeout
      BY ONLY <1>1, <3>2, QuotientMonotone
    <3> QED BY <1>1, <2>1, <3>1, <3>3 DEF Speed
  <2>2. CASE ~(r.elapsed <= Timeout)
    <3>1. Speed(r) = 0 /\ Speed(s) \in 0..3
      BY <1>1, <2>2, BonusIsSmall DEF Speed
    <3> QED BY <3>1
  <2> QED BY <2>1, <2>2
<1>4. Bonus(r) <= Bonus(s)
  BY <1>1, <1>3, BonusIsSmall DEF Bonus
<1>5. PICK q, b, w, d : q = Rate(r) /\ b = Bonus(r) /\ w = Rate(s) /\ d = Bonus(s)
  OBVIOUS
<1>6. q \in 0..30 /\ w \in 0..30 /\ b \in 0..3 /\ d \in 0..3
  BY <1>5, RateRanks, BonusIsSmall
<1>7. /\ Tiers(r) = 3 + (IF r.compiled THEN 6 ELSE 0) + q + b
      /\ Tiers(s) = 3 + (IF s.compiled THEN 6 ELSE 0) + w + d
  BY <1>5 DEF Tiers
<1> QED BY <1>1, <1>2, <1>4, <1>5, <1>6, <1>7

(* A reward begins with a sandbox in which nothing has run.                 *)
LEMMA RewardBegins == RewardInit => RewardInv
<1> SUFFICES ASSUME RewardInit PROVE RewardInv
  OBVIOUS
<1> USE DEF RewardInit, Idle
<1>1. SandboxInv
  BY SandboxBegins DEF Begun
<1>2. RewardTypeOK /\ RewardedFor
  BY <1>1 DEF SandboxInv, RewardTypeOK, RewardedFor
<1> QED BY <1>1, <1>2 DEF RewardInv

(* The reward is a number once there is one. *)
LEMMA RewardedIs ==
  ASSUME NEW r \in -30..42, Rewarded(r)
  PROVE  reward' = r /\ phase' = "done" /\ reward' # Absent /\ reward' \in -30..42
BY RewardAssumption DEF Rewarded

(* A call that raises has no reward. *)
LEMMA RaisesOutKeeps ==
  ASSUME RewardInv, phase \notin {"done", "raised"},
         UNCHANGED <<sandboxVars, itemVars, first>>, RaisesOut
  PROVE  RewardInv'
<1>1. SandboxInv'
  BY SandboxRests DEF RewardInv
<1>2. phase' = "raised" /\ reward' = reward /\ reward = Absent
  BY DEF RaisesOut, RewardInv, RewardTypeOK
<1>3. RewardTypeOK'
  BY <1>1, <1>2 DEF RewardTypeOK, SandboxInv
<1>4. RewardedFor'
  BY <1>2 DEF RewardInv, RewardedFor, itemVars, Sound
<1> QED BY <1>1, <1>3, <1>4 DEF RewardInv

(* What is decided without running the code leaves the sandbox alone.       *)
LEMMA FormatGateKeeps ==
  ASSUME RewardInv, FormatGate
  PROVE  RewardInv'
<1>1. phase = "gate" /\ first = Absent /\ UNCHANGED <<sandboxVars, itemVars, first>>
  BY DEF RewardInv, RewardedFor, FormatGate
<1>2. CASE RaisesOut
  BY <1>1, <1>2, RaisesOutKeeps
<1>3. CASE ~RaisesOut
  <2>1. SandboxInv'
    BY <1>1, SandboxRests DEF RewardInv
  <2>2. PICK r \in -30..30 :
          Rewarded(r) /\ ((text = "malformed" /\ r = -30) \/ (text # "malformed" /\ r \in 0..30))
    BY <1>3 DEF FormatGate
  <2>3. reward' = r /\ phase' = "done" /\ reward' # Absent /\ reward' \in -30..42
    BY <2>2, RewardedIs
  <2>4. RewardTypeOK' /\ RewardedFor'
    BY <1>1, <2>1, <2>2, <2>3 DEF RewardTypeOK, RewardedFor, SandboxInv, itemVars
  <2> QED BY <2>1, <2>4 DEF RewardInv
<1> QED BY <1>2, <1>3

(* The sandbox at work changes nothing that was rewarded. *)
LEMMA InSandboxKeeps ==
  ASSUME RewardInv, StartVisible \/ InSandbox
  PROVE  RewardInv'
<1>1. SandboxInv'
  BY SandboxStep, SandboxRests DEF StartVisible, InSandbox, RewardInv
<1>2. /\ phase' \in {"visible", "hidden"} /\ UNCHANGED <<itemVars, first, reward>>
      /\ phase # "done"
      /\ IF phase = "gate" THEN phase' = "visible" /\ text = "code" ELSE phase' = phase
      /\ first # Absent => phase = "hidden"
  BY DEF StartVisible, InSandbox, RewardInv, RewardedFor, RewardTypeOK
<1>3. RewardTypeOK'
  BY <1>1, <1>2 DEF RewardInv, RewardTypeOK, SandboxInv
<1>4. RewardedFor'
  BY <1>2 DEF RewardInv, RewardedFor, itemVars, Sound
<1> QED BY <1>1, <1>3, <1>4 DEF RewardInv

(* The result of the visible tests is rewarded, or kept for a second run.   *)
LEMMA ScoreVisibleKeeps ==
  ASSUME RewardInv, ScoreVisible
  PROVE  RewardInv'
<1> USE DEF ScoreVisible
<1>1. /\ phase = "visible" /\ Answered /\ first' = result /\ Sound(result) /\ result # Absent
      /\ text # "malformed" /\ UNCHANGED itemVars
  BY DEF RewardInv, RewardedFor, SandboxInv, ResultInv, Answered
<1>2. Sound(first')
  BY <1>1
<1>3. CASE hidden
  <2>1. /\ child' = "idle" /\ suite' \in Suites /\ own' = own /\ good' = good /\ speaks' = speaks
        /\ ns' = {} /\ todo' = {} /\ passed' = 0 /\ clock' = 0 /\ elapsed' = 0
        /\ line' = Absent /\ result' = Absent /\ phase' = "hidden" /\ reward' = reward
    BY <1>3
  <2>2. own' \in SUBSET OwnTests /\ good' \in Goods /\ speaks' \in BOOLEAN
    BY <2>1 DEF RewardInv, SandboxInv, SandboxTypeOK
  <2>3. SandboxInv'
    BY <2>1, <2>2, SandboxBeginsAgain DEF Begun
  <2>4. RewardTypeOK'
    BY <1>1, <2>1, <2>3 DEF RewardInv, RewardTypeOK, SandboxInv
  <2>5. RewardedFor'
    BY <1>1, <1>2, <1>3, <2>1 DEF RewardedFor, itemVars, Sound
  <2> QED BY <2>3, <2>4, <2>5 DEF RewardInv
<1>4. CASE ~hidden
  <2>1. UNCHANGED sandboxVars /\ Rewarded(Tiers(result))
    BY <1>4
  <2>2. SandboxInv'
    BY <2>1, SandboxRests DEF RewardInv
  <2>3. PICK r \in -30..42 : r = Tiers(result)
    BY <1>1, TiersRankPasses
  <2>4. reward' = r /\ phase' = "done" /\ reward' # Absent /\ reward' \in -30..42
    BY <2>1, <2>3, RewardedIs
  <2>5. Tiers(first') = r /\ result' = result /\ Answered'
    BY <1>1, <2>1, <2>3 DEF sandboxVars, Answered
  <2>6. RewardTypeOK'
    BY <2>2, <2>4 DEF RewardTypeOK, SandboxInv
  <2>7. RewardedFor'
    BY <1>1, <1>2, <1>4, <2>4, <2>5 DEF RewardedFor, itemVars
  <2> QED BY <2>2, <2>6, <2>7 DEF RewardInv
<1> QED BY <1>3, <1>4

(* The hidden tests turn the reward of a full pass into -1.0 or leave it.   *)
LEMMA ScoreHiddenKeeps ==
  ASSUME RewardInv, ScoreHidden
  PROVE  RewardInv'
<1>1. /\ phase = "hidden" /\ hidden /\ first # Absent /\ Sound(first) /\ Answered
      /\ text # "malformed" /\ UNCHANGED <<sandboxVars, itemVars, first>>
  BY DEF RewardInv, RewardedFor, ScoreHidden
<1>2. SandboxInv'
  BY <1>1, SandboxRests DEF RewardInv
<1>3. PICK r \in -30..42 : r = IF Passes(first) /\ ~Passes(result) THEN -30 ELSE Tiers(first)
  BY <1>1, TiersRankPasses
<1>4. reward' = r /\ phase' = "done" /\ reward' # Absent /\ reward' \in -30..42
  BY <1>3, RewardedIs DEF ScoreHidden
<1>5. RewardTypeOK'
  BY <1>2, <1>4 DEF RewardTypeOK, SandboxInv
<1>6. /\ result' = result /\ first' = first /\ text' = text /\ hidden' = hidden
      /\ Answered' /\ Tiers(first') = Tiers(first) /\ Passes(first') = Passes(first)
      /\ Passes(result') = Passes(result) /\ Sound(first')
  BY <1>1 DEF sandboxVars, itemVars, Answered
<1>7. RewardedFor'
  BY <1>1, <1>3, <1>4, <1>6 DEF RewardedFor
<1> QED BY <1>2, <1>5, <1>7 DEF RewardInv

(* The inductive invariant of run_tests() and code_execution_reward()       *)
(* holds of every reachable state: what the child counted accounts for its  *)
(* report, the report for the result, and the result for the reward.        *)
THEOREM RewardInvariance == RewardSpec => []RewardInv
<1>1. RewardInv /\ [RewardNext]_rewardVars => RewardInv'
  <2> SUFFICES ASSUME RewardInv, [RewardNext]_rewardVars PROVE RewardInv'
    OBVIOUS
  <2>1. CASE FormatGate
    BY <2>1, FormatGateKeeps
  <2>2. CASE StartVisible \/ InSandbox
    BY <2>2, InSandboxKeeps
  <2>3. CASE ScoreVisible
    BY <2>3, ScoreVisibleKeeps
  <2>4. CASE ScoreHidden
    BY <2>4, ScoreHiddenKeeps
  <2>5. CASE RunRaises
    BY <2>5, RaisesOutKeeps DEF RunRaises
  <2>6. CASE UNCHANGED rewardVars
    <3>1. UNCHANGED sandboxVars /\ UNCHANGED <<itemVars, phase, first, reward>>
      BY <2>6 DEF rewardVars
    <3>2. SandboxInv'
      BY <3>1, SandboxRests DEF RewardInv
    <3>3. RewardTypeOK'
      BY <3>1, <3>2 DEF RewardInv, RewardTypeOK, SandboxInv
    <3>4. /\ result' = result /\ Answered' = Answered /\ Sound(first') = Sound(first)
          /\ Passes(first') = Passes(first) /\ Passes(result') = Passes(result)
          /\ Tiers(first') = Tiers(first)
      BY <3>1 DEF sandboxVars, Answered
    <3>5. RewardedFor'
      BY <3>1, <3>4 DEF RewardInv, RewardedFor, itemVars
    <3> QED BY <3>2, <3>3, <3>5 DEF RewardInv
  <2> QED BY <2>1, <2>2, <2>3, <2>4, <2>5, <2>6 DEF RewardNext, Score
<1> QED BY RewardBegins, <1>1, PTL DEF RewardSpec

(* Every state is of the expected shape: the counts of the child never      *)
(* exceed what it called, and a reward is between -1.0 and 1.4.             *)
THEOREM RewardTypeCorrect == RewardSpec => []RewardTypeOK
<1>1. RewardInv => RewardTypeOK
  BY DEF RewardInv
<1> QED BY <1>1, RewardInvariance, PTL

(* run_tests() reports a pass only of a suite that holds, of one whose body *)
(* failed after functions that hold were collected (_RUNNER's `if funcs`),  *)
(* or of a solution that prints sentinel lines (_parse_verdict).            *)
THEOREM PassesAreExplained == RewardSpec => []PassExplained
<1>1. RewardInv => PassExplained
  BY DEF RewardInv, SandboxInv, ResultInv, PassExplained, Accounted, PassAccounted
<1> QED BY <1>1, RewardInvariance, PTL

(* run_tests() fails a suite that holds only when the child was killed, did *)
(* not compile or left no report, for a test function of the solution's     *)
(* own, or for sentinel lines that it prints.                               *)
THEOREM FailuresAreExplained == RewardSpec => []FailExplained
<1>1. RewardInv => FailExplained
  BY DEF RewardInv, SandboxInv, ResultInv, FailExplained, Accounted, FailAccounted
<1> QED BY <1>1, RewardInvariance, PTL

(* A child that had to be killed at timeout_s passes nothing, whatever it   *)
(* had printed by then.                                                     *)
THEOREM LatenessNeverPasses == RewardSpec => []LateIsNoPass
<1>1. RewardInv => LateIsNoPass
  BY DEF RewardInv, SandboxInv, ResultInv, LateIsNoPass
<1> QED BY <1>1, RewardInvariance, PTL

(* The completions that compiled and passed all they were run against are   *)
(* those that earn at least 1.3 (code_execution_reward's tiers and bonus).  *)
THEOREM FullPassesRankFirst == RewardSpec => []PassingOutranks
<1>1. RewardInv => PassingOutranks
  <2> SUFFICES ASSUME RewardInv, phase = "done"
               PROVE  reward >= 39 <=>
                        first # Absent /\ Passes(first) /\ first.compiled
                        /\ (hidden => Passes(result))
    BY DEF PassingOutranks
  <2>1. CASE first = Absent
    BY <2>1 DEF RewardInv, RewardedFor
  <2>2. CASE first # Absent
    <3>1. Sound(first) /\ reward = IF hidden /\ Passes(first) /\ ~Passes(result) THEN -30
                                   ELSE Tiers(first)
      BY <2>2 DEF RewardInv, RewardedFor
    <3> QED BY <2>2, <3>1, TiersRankPasses
  <2> QED BY <2>1, <2>2
<1> QED BY <1>1, RewardInvariance, PTL

(* -1.0 for well-formed text takes a pass of the visible tests and a hidden *)
(* run that is none; and if the code satisfies the hidden suite all the     *)
(* same, then that run was late or left no report, or it was a test or a    *)
(* sentinel line of the code's own (the override in code_execution_reward). *)
THEOREM PunishmentIsDeserved == RewardSpec => []PunishmentExplained
<1>1. RewardInv => PunishmentExplained
  <2> SUFFICES ASSUME RewardInv, phase = "done", reward < 0, text # "malformed"
               PROVE  /\ hidden /\ Passes(first)
                      /\ SuiteHolds =>
                           result.timed_out \/ ~result.compiled \/ ~(own \subseteq good) \/ speaks
    BY DEF PunishmentExplained
  <2>1. first # Absent
    BY DEF RewardInv, RewardedFor
  <2>2. /\ Sound(first) /\ Answered
        /\ reward = IF hidden /\ Passes(first) /\ ~Passes(result) THEN -30 ELSE Tiers(first)
    BY <2>1 DEF RewardInv, RewardedFor
  <2>3. hidden /\ Passes(first) /\ ~Passes(result)
    BY <2>2, TiersRankPasses
  <2>4. FailAccounted(result)
    BY <2>2, <2>3 DEF RewardInv, SandboxInv, ResultInv, Accounted
  <2> QED BY <2>3, <2>4 DEF FailAccounted
<1> QED BY <1>1, RewardInvariance, PTL

(* A result that accounts for itself, or none, is an answer of the oracle.  *)
LEMMA ResultIsAnswer ==
  ASSUME result = Absent, UNCHANGED inputs, result' # Absent,
         result' # Raised /\ Passes(result') => PassAccounted,
         result' # Raised /\ ~Passes(result') => FailAccounted(result')
  PROVE  [Oracle!Next]_(Oracle!vars)
<1>1. /\ SuiteHolds' = SuiteHolds /\ SuiteMisleads' = SuiteMisleads
      /\ own' = own /\ good' = good /\ speaks' = speaks
  BY SameInputs DEF inputs
<1> USE DEF Oracle!Next, Oracle!vars, Oracle!Pass, Oracle!Fail, Oracle!Break, Oracle!Answer
<1>2. CASE result' = Raised
  <2>1. Oracle!Break
    BY <1>1, <1>2, SandboxAssumption
  <2> QED BY <2>1
<1>3. CASE result' # Raised /\ Passes(result')
  <2>1. SuiteHolds \/ SuiteMisleads \/ speaks
    BY <1>3 DEF PassAccounted
  <2>2. Oracle!Pass
    BY <1>1, <1>3, <2>1
  <2> QED BY <2>2
<1>4. CASE result' # Raised /\ ~Passes(result') /\ (result'.timed_out \/ ~result'.compiled)
  <2>1. Oracle!Break
    BY <1>1, <1>4
  <2> QED BY <2>1
<1>5. CASE result' # Raised /\ ~Passes(result') /\ ~(result'.timed_out \/ ~result'.compiled)
  <2>1. ~SuiteHolds \/ ~(own \subseteq good) \/ speaks
    BY <1>5 DEF FailAccounted
  <2>2. Oracle!Fail
    BY <1>1, <1>5, <2>1
  <2> QED BY <2>2
<1> QED BY <1>2, <1>3, <1>4, <1>5

(* run_tests, wherever the reward calls it, is the oracle it is used as,    *)
(* whether it returns or raises.                                            *)
THEOREM ImplementsOracle == RewardSpec => AnswersAsOracle
<1>1. RewardInit => Oracle!Init
  BY DEF RewardInit, Idle, Oracle!Init, Oracle!Questions, SuiteHolds, SuiteMisleads
<1>2. RewardInv /\ RewardInv' /\ [RewardNext]_rewardVars => [Oracle!Next]_(Oracle!vars)
  <2> SUFFICES ASSUME RewardInv, RewardInv', [RewardNext]_rewardVars
               PROVE  [Oracle!Next]_(Oracle!vars)
    OBVIOUS
  <2>1. CASE UNCHANGED <<inputs, result>>
    BY <2>1 DEF inputs, Oracle!vars, SuiteHolds, SuiteMisleads, Passes
  <2>2. CASE InSandbox /\ (StartChild \/ KillGroup \/ ReadVerdict) /\ result' # result
    <3>1. result = Absent /\ UNCHANGED inputs /\ result' # Absent
      BY <2>2 DEF StartChild, KillGroup, ReadVerdict, RewardInv, SandboxInv, ResultInv
    <3>2. result' # Raised => /\ Passes(result') => PassAccounted'
                              /\ ~Passes(result') => FailAccounted(result)'
      BY <3>1 DEF RewardInv, SandboxInv, ResultInv, Accounted, Answered, Passes
    <3>3. PassAccounted' = PassAccounted /\ (FailAccounted(result)' => FailAccounted(result'))
      BY <3>1, SameInputs DEF inputs, FailAccounted
    <3> QED BY <3>1, <3>2, <3>3, ResultIsAnswer
  <2>3. CASE ScoreVisible /\ hidden
    <3>1. result # Absent /\ result' = Absent
      BY <2>3 DEF ScoreVisible, Answered
    <3>2. speaks' \in BOOLEAN
      BY DEF RewardInv, SandboxInv, SandboxTypeOK
    <3>3. Oracle!Ask
      BY <3>1, <3>2 DEF Oracle!Ask, Oracle!Questions, SuiteHolds, SuiteMisleads
    <3> QED BY <3>3 DEF Oracle!Next
  <2>4. RewardNext => \/ UNCHANGED <<inputs, result>>
                      \/ /\ InSandbox /\ (StartChild \/ KillGroup \/ ReadVerdict)
                         /\ result' # result
                      \/ ScoreVisible /\ hidden
    BY DEF RewardNext, Score, FormatGate, StartVisible, InSandbox, ScoreVisible, ScoreHidden,
         RunRaises, RunTests, Child, StartChild, ExecSolution, ExecTests, CallTest, EmitCounts,
         Speak, ChildExits, Tick, KillGroup, ReadVerdict, sandboxVars, inputs
  <2>5. UNCHANGED rewardVars => UNCHANGED <<inputs, result>>
    BY DEF rewardVars, sandboxVars, inputs
  <2> QED BY <2>1, <2>2, <2>3, <2>4, <2>5
<1> QED BY <1>1, <1>2, RewardInvariance, PTL DEF RewardSpec, AnswersAsOracle, Oracle!Spec
=============================================================================
