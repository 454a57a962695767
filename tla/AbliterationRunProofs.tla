------------------------ MODULE AbliterationRunProofs ------------------------
(***************************************************************************)
(* Safety of AbliterationRun for any number of runs, any faults and any    *)
(* reach of the log's last part, and that it keeps the contract of the     *)
(* controllers and of the repo.                                            *)
(***************************************************************************)
EXTENDS AbliterationRun, StageScriptProofs, SequenceTheorems

OwnSteps == {"enter_abl", "install", "heretic", "tripwire", "enter_eval", "evaluate"}

(* What one run printed.                                                    *)
Entries == UNION {Outputs(r) : r \in Runs}

(* The log holds the outputs of earlier runs in their order, and that of    *)
(* this run from the tripwire on.                                           *)
LogInv ==
  /\ log \in Seq(Entries) /\ Len(log) <= run
  /\ \A i \in 1..Len(log) : log[i].run <= run
  /\ pc \in {"first", "enter_abl", "install", "heretic"} =>
       Len(log) < run /\ \A i \in 1..Len(log) : log[i].run < run
  /\ pc = "tripwire" => Len(log) > 0 /\ log[Len(log)] \in WholeOutputs(run)
  /\ \A i, j \in 1..Len(log) : i < j => log[i].run < log[j].run

(* If run w changed nothing, its output shows no KL or is hidden by one     *)
(* before it.                                                               *)
Hidden(w) ==
  NoOp(w) =>
    \/ ~Shows(w)
    \/ \E i, j \in 1..Len(log) :
         log[j].run = w /\ i < j /\ j - i < Window /\ log[i].best = "high"

JudgedInv ==
  /\ \A w \in Runs : judged[w] # None => Hidden(w)
  /\ pc \in {"enter_eval", "evaluate"} => Hidden(run)

LineageInv ==
  /\ export \in 0..MaxRuns
  /\ pc \in Verdicted \cup {"tripwire", "enter_eval", "evaluate", "record"} => export = run
  /\ pc = "record" /\ gate = "pass" => judged[run] = "pass"
  /\ pc \in Verdicted \ {"finish"} => judged[run] = "pass"

IInv ==
  /\ ScriptInv /\ pc \in OwnSteps \cup EndSteps
  /\ LogInv /\ JudgedInv /\ LineageInv

Good == IInv' /\ ContractStep /\ ReleaseStep

(* What the log is after one more output. *)
LEMMA Appended ==
  ASSUME IInv, run \in Runs, NEW o \in Outputs(run), log' = Append(log, o)
  PROVE  /\ log' \in Seq(Entries) /\ Len(log') = Len(log) + 1 /\ Len(log) \in Nat
         /\ \A i \in 1..Len(log) : log'[i] = log[i]
         /\ log'[Len(log) + 1] = o /\ o.run = run
<1>1. PICK l : l = log
  OBVIOUS
<1>2. o \in Entries /\ o.run = run
  BY DEF Entries, Outputs
<1>3. l \in Seq(Entries)
  BY <1>1 DEF IInv, LogInv
<1>4. /\ Append(l, o) \in Seq(Entries) /\ Len(Append(l, o)) = Len(l) + 1 /\ Len(l) \in Nat
      /\ \A i \in 1..Len(l) : Append(l, o)[i] = l[i]
      /\ Append(l, o)[Len(l) + 1] = o
  BY ONLY <1>2, <1>3, AppendProperties, LenProperties
<1> QED BY <1>1, <1>2, <1>4

(* What is known of earlier runs' outputs stays so. *)
LEMMA HiddenStands ==
  ASSUME IInv, NEW w \in Runs, Hidden(w),
         \/ log' = log
         \/ run \in Runs /\ w # run /\ \E o \in Outputs(run) : log' = Append(log, o)
  PROVE  Hidden(w)'
<1>1. CASE log' = log
  BY <1>1 DEF Hidden, NoOp, Shows
<1>2. CASE run \in Runs /\ w # run /\ \E o \in Outputs(run) : log' = Append(log, o)
  <2>1. PICK o \in Outputs(run) : log' = Append(log, o)
    BY <1>2
  <2>2. /\ log' \in Seq(Entries) /\ Len(log') = Len(log) + 1 /\ Len(log) \in Nat
        /\ \A i \in 1..Len(log) : log'[i] = log[i]
        /\ log'[Len(log) + 1] = o /\ o.run = run
    BY <1>2, <2>1, Appended
  <2> SUFFICES ASSUME NoOp(w)', Shows(w)'
               PROVE  \E i, j \in 1..Len(log') :
                        log'[j].run = w /\ i < j /\ j - i < Window /\ log'[i].best = "high"
    BY DEF Hidden
  <2>3. DOMAIN log' = 1..(Len(log) + 1) /\ DOMAIN log = 1..Len(log)
    BY <2>2, LenProperties DEF IInv, LogInv
  <2>4. ASSUME NEW n \in 1..(Len(log) + 1), log'[n].run = w
        PROVE  n \in 1..Len(log) /\ log'[n] = log[n]
    BY <1>2, <2>2, <2>4
  <2>5. NoOp(w) /\ Shows(w)
    BY <2>3, <2>4 DEF NoOp, Shows
  <2>6. PICK i, j \in 1..Len(log) :
          log[j].run = w /\ i < j /\ j - i < Window /\ log[i].best = "high"
    BY <2>5 DEF Hidden
  <2>7. i \in 1..Len(log') /\ j \in 1..Len(log')
    BY <2>2
  <2> QED BY <2>2, <2>6, <2>7
<1> QED BY <1>1, <1>2

(* At the tripwire this run's output is the last one in the log, and no     *)
(* other is its own. *)
LEMMA OwnOutputLast ==
  ASSUME IInv, pc = "tripwire"
  PROVE  /\ Len(log) \in Nat /\ Len(log) > 0 /\ DOMAIN log = 1..Len(log)
         /\ log[Len(log)] \in WholeOutputs(run)
         /\ \A i \in 1..Len(log) : log[i].run = run => i = Len(log)
         /\ \A i \in 1..Len(log) : log[i] \in Entries
<1>1. /\ log \in Seq(Entries) /\ Len(log) \in Nat /\ Len(log) > 0
      /\ log[Len(log)] \in WholeOutputs(run)
      /\ DOMAIN log = 1..Len(log) /\ \A i, j \in 1..Len(log) : i < j => log[i].run < log[j].run
      /\ run \in Nat
  BY LenProperties, ScriptAssumption DEF IInv, LogInv, ScriptInv, ScriptTypeOK
<1>2. \A i \in 1..Len(log) : log[i] \in Entries
  <2>1. PICK l : l = log
    OBVIOUS
  <2> QED BY <1>1, <2>1, ElementOfSeq
<1>3. ASSUME NEW i \in 1..Len(log), log[i].run = run PROVE i = Len(log)
  <2>1. Len(log) \in 1..Len(log) /\ log[Len(log)].run = run
    BY <1>1 DEF WholeOutputs, Outputs
  <2>2. ASSUME i < Len(log) PROVE FALSE
    <3>1. log[i].run < log[Len(log)].run
      BY <1>1, <2>1, <2>2
    <3> QED BY <1>1, <1>3, <2>1, <3>1
  <2>3. Len(log) \in Nat /\ i \in Nat /\ i <= Len(log)
    BY <1>1
  <2> QED BY ONLY <2>2, <2>3
<1> QED BY <1>1, <1>2, <1>3

(* What the entries of the log have in common. *)
LEMMA EntryReadings ==
  ASSUME NEW o \in Entries
  PROVE  /\ o.best \in {"low", "high", None} /\ o.last \in {"low", "high", None}
         /\ o.best = "low" => o.last = "low"
         /\ o.best = None <=> o.last = None
         /\ o.noop => o.best # "high"
BY DEF Entries, Outputs, KLs

(* This run's output is in every view, and what else a view shows is near   *)
(* enough before it. *)
LEMMA ViewShows ==
  ASSUME IInv, pc = "tripwire", NEW v \in Views
  PROVE  /\ log[Len(log)].best \in KLs => log[Len(log)].best \in Shown(v)
         /\ \A kl \in Shown(v) :
              \/ kl = log[Len(log)].best
              \/ \E i \in 1..Len(log) :
                   /\ i < Len(log) /\ Len(log) - i < Window
                   /\ log[i].best = kl \/ log[i].last = kl
<1>1. /\ Len(log) \in Nat /\ Len(log) > 0 /\ DOMAIN log = 1..Len(log)
      /\ Window \in Nat
  BY OwnOutputLast, WindowAssumption
<1>2. /\ v.outputs \in 1..Window /\ v.outputs <= Len(log) /\ (v.outputs = 1 => ~v.cut)
      /\ v.cut \in BOOLEAN
  BY DEF Views
<1>3. /\ Oldest(v) \in 1..Len(log) /\ Len(log) - Oldest(v) < Window
      /\ Oldest(v) = Len(log) <=> v.outputs = 1
  BY <1>1, <1>2 DEF Oldest
<1>4. ASSUME log[Len(log)].best \in KLs PROVE log[Len(log)].best \in Shown(v)
  <2>1. CASE Oldest(v) = Len(log)
    BY <1>2, <1>3, <1>4, <2>1 DEF Shown
  <2>2. CASE Oldest(v) # Len(log)
    <3>1. Len(log) \in DOMAIN log /\ Len(log) > Oldest(v)
      BY <1>1, <1>3, <2>2
    <3> QED BY <1>4, <3>1 DEF Shown
  <2> QED BY <2>1, <2>2
<1>5. ASSUME NEW kl \in Shown(v), kl # log[Len(log)].best
      PROVE  \E i \in 1..Len(log) :
               /\ i < Len(log) /\ Len(log) - i < Window
               /\ log[i].best = kl \/ log[i].last = kl
  <2>1. CASE \E i \in DOMAIN log : i > Oldest(v) /\ log[i].best = kl
    <3>1. PICK i \in 1..Len(log) : i > Oldest(v) /\ log[i].best = kl
      BY <1>1, <2>1
    <3>2. i # Len(log)
      BY <1>5, <3>1
    <3>3. /\ Len(log) \in Nat /\ Window \in Nat /\ i \in 1..Len(log) /\ i # Len(log)
          /\ Oldest(v) \in 1..Len(log) /\ Len(log) - Oldest(v) < Window /\ i > Oldest(v)
      BY <1>1, <1>3, <3>1, <3>2
    <3>4. i < Len(log) /\ Len(log) - i < Window
      BY ONLY <3>3
    <3> QED BY <3>1, <3>4
  <2>2. CASE kl = IF v.cut THEN log[Oldest(v)].last ELSE log[Oldest(v)].best
    <3>1. Oldest(v) # Len(log)
      BY <1>2, <1>3, <1>5, <2>2
    <3>2. Oldest(v) < Len(log)
      BY <1>1, <1>3, <3>1
    <3> QED BY <1>3, <2>2, <3>2
  <2> QED BY <2>1, <2>2 DEF Shown
<1> QED BY <1>4, <1>5

(* What gets past the tripwire has changed the model, shows no KL, or is    *)
(* hidden. *)
LEMMA TripwireReads ==
  ASSUME IInv, pc = "tripwire", NEW v \in Views, BestKl(v) # "low"
  PROVE  Hidden(run)
<1>1. /\ Len(log) \in Nat /\ Len(log) > 0 /\ DOMAIN log = 1..Len(log)
      /\ Len(log) \in 1..Len(log)
      /\ \A i \in 1..Len(log) : log[i].run = run => i = Len(log)
      /\ \A i \in 1..Len(log) : log[i] \in Entries
      /\ log[Len(log)].run = run
  <2>1. log[Len(log)] \in WholeOutputs(run)
    BY OwnOutputLast
  <2>2. log[Len(log)].run = run
    BY <2>1 DEF WholeOutputs, Outputs
  <2>3. Len(log) \in Nat /\ Len(log) > 0
    BY OwnOutputLast
  <2>4. Len(log) \in 1..Len(log)
    BY ONLY <2>3
  <2> QED BY <2>2, <2>3, <2>4, OwnOutputLast, Zenon
<1> SUFFICES ASSUME NoOp(run), Shows(run)
             PROVE  \E i, j \in 1..Len(log) :
                      log[j].run = run /\ i < j /\ j - i < Window /\ log[i].best = "high"
  BY DEF Hidden
<1>2. log[Len(log)].noop /\ log[Len(log)].best # None
  BY <1>1 DEF NoOp, Shows
<1>3. log[Len(log)].best = "low"
  BY <1>1, <1>2, EntryReadings
<1>4. "low" \in Shown(v)
  BY <1>3, ViewShows DEF KLs
<1>5. "high" \in Shown(v)
  BY <1>4 DEF BestKl
<1>6. PICK i \in 1..Len(log) : /\ i < Len(log) /\ Len(log) - i < Window
                               /\ log[i].best = "high" \/ log[i].last = "high"
  BY <1>3, <1>5, ViewShows
<1>7. log[i].best = "high"
  BY <1>1, <1>6, EntryReadings, WindowAssumption
<1> QED BY <1>1, <1>6, <1>7

(* What the tripwire stops has changed nothing, or shows no KL. *)
LEMMA TrippedByNoOp ==
  ASSUME IInv, pc = "tripwire", NEW v \in Views, BestKl(v) = "low"
  PROVE  \/ NoOp(run)
         \/ /\ ~Shows(run)
            /\ \E i \in DOMAIN log :
                 i < Len(log) /\ Len(log) - i < Window /\ log[i].last = "low"
<1>1. /\ Len(log) \in Nat /\ Len(log) > 0 /\ DOMAIN log = 1..Len(log)
      /\ log[Len(log)] \in WholeOutputs(run)
      /\ \A i \in 1..Len(log) : log[i].run = run => i = Len(log)
      /\ \A i \in 1..Len(log) : log[i] \in Entries
  BY OwnOutputLast
<1>2. Len(log) \in 1..Len(log)
  <2>1. Len(log) \in Nat /\ Len(log) > 0
    BY <1>1
  <2> QED BY ONLY <2>1
<1>3. Shown(v) # {} /\ "high" \notin Shown(v) /\ Shown(v) \subseteq {"low", "high"}
  <2>1. Shown(v) \subseteq {"low", "high"}
    BY DEF Shown, KLs
  <2>2. Shown(v) # {} /\ "high" \notin Shown(v)
    BY WindowAssumption DEF BestKl
  <2> QED BY <2>1, <2>2
<1>4. log[Len(log)].run = run /\ (~log[Len(log)].noop => log[Len(log)].best # "low")
  BY <1>1 DEF WholeOutputs, Outputs
<1>5. CASE Shows(run)
  <2>1. log[Len(log)].best # None
    BY <1>1, <1>5 DEF Shows
  <2>2. log[Len(log)].best \in {"low", "high"}
    BY <1>1, <1>2, <2>1, EntryReadings
  <2>3. log[Len(log)].best = "low"
    BY <1>3, <2>2, ViewShows DEF KLs
  <2> QED BY <1>1, <1>2, <1>4, <2>3 DEF NoOp
<1>6. CASE ~Shows(run)
  <2>1. log[Len(log)].best = None
    BY <1>1, <1>2, <1>4, <1>6 DEF Shows
  <2>2. "low" \in Shown(v)
    BY <1>3
  <2>3. PICK i \in 1..Len(log) : /\ i < Len(log) /\ Len(log) - i < Window
                                 /\ log[i].best = "low" \/ log[i].last = "low"
    BY <2>1, <2>2, ViewShows, WindowAssumption
  <2>4. log[i].last = "low"
    BY <1>1, <2>3, EntryReadings
  <2> QED BY <1>1, <1>6, <2>3, <2>4
<1> QED BY <1>5, <1>6

(* A step that leaves log and export alone, and goes where what is known of *)
(* them was known already. *)
LEMMA Quiet ==
  ASSUME IInv, Keeps, UNCHANGED <<run, judged, log, export>>,
         pc' \in OwnSteps \cup EndSteps, pc' # "tripwire", pc' # "record",
         pc' \in {"first", "enter_abl", "install", "heretic"} =>
           pc \in {"first", "enter_abl", "install", "heretic"},
         pc' \in Verdicted \cup {"enter_eval", "evaluate"} =>
           pc \in Verdicted \cup {"tripwire", "enter_eval", "evaluate", "record"},
         pc' \in {"enter_eval", "evaluate"} => Hidden(run),
         pc' \in Verdicted \ {"finish"} =>
           pc \in Verdicted \ {"finish"} \/ (pc = "record" /\ gate = "pass")
  PROVE  Good
<1>1. LogInv'
  BY DEF IInv, LogInv
<1>2. JudgedInv'
  BY HiddenStands DEF IInv, JudgedInv, Hidden, NoOp, Shows
<1>3. LineageInv'
  BY DEF IInv, LineageInv, Verdicted
<1> QED BY <1>1, <1>2, <1>3 DEF Good, IInv, Keeps

LEMMA EnterKeeps ==
  ASSUME IInv, EnterAbliterating \/ EnterEvaluating
  PROVE  Good
<1> USE DEF EndSteps, Verdicted, OwnSteps
<1>1. UNCHANGED <<run, judged, log, export>>
  BY DEF EnterAbliterating, EnterEvaluating, FirstWrite, Enters, Saves, releaseVars
<1>2. <<pc, pc'>> \in
        {<<"first", "enter_abl">>, <<"first", "ended">>, <<"enter_abl", "install">>,
         <<"enter_abl", "ended">>, <<"enter_eval", "evaluate">>, <<"enter_eval", "ended">>}
  BY DEF EnterAbliterating, EnterEvaluating, FirstWrite, Enters, Saves
<1>3. Keeps
  <2>1. PICK at, next, onError, kind : \E status \in {mem, [mem EXCEPT !.stage = kind]} :
          /\ Saves(at, status, next, onError) /\ UNCHANGED releaseVars
          /\ <<at, next, onError, kind>> \in
               {<<"first", "enter_abl", "ended", "setup">>,
                <<"enter_abl", "install", "ended", "abliterating">>,
                <<"enter_eval", "evaluate", "ended", "evaluating">>}
    <3>1. CASE FirstWrite("enter_abl")
      BY <3>1 DEF FirstWrite
    <3>2. CASE Enters("enter_abl", "abliterating", "install")
      BY <3>2 DEF Enters
    <3>3. CASE Enters("enter_eval", "evaluating", "evaluate")
      BY <3>3 DEF Enters
    <3> QED BY <3>1, <3>2, <3>3 DEF EnterAbliterating, EnterEvaluating
  <2>2. /\ at \notin EndSteps \/ at = "first"
        /\ next \notin EndSteps /\ onError \in {"ended", "fail"}
        /\ at = "first" => onError = "ended"
        /\ kind \in BusyStages
    BY <2>1 DEF BusyStages
  <2>3. ScriptInv /\ UNCHANGED releaseVars /\
        (Saves(at, mem, next, onError) \/ Saves(at, [mem EXCEPT !.stage = kind], next, onError))
    BY <2>1 DEF IInv
  <2> QED BY ONLY <2>2, <2>3, SaveStageKeeps
<1>4. pc' = "evaluate" => Hidden(run)
  BY <1>2 DEF IInv, JudgedInv
<1> QED BY <1>1, <1>2, <1>3, <1>4, Quiet

(* heretic printed its output, or was stopped before; its run is not yet    *)
(* judged. *)
LEMMA Printed ==
  ASSUME IInv, pc = "heretic", UNCHANGED <<run, judged>>, run \in Runs, judged[run] = None,
         pc' \in {"tripwire", "fail", "ended"},
         pc' = "tripwire" => \E o \in WholeOutputs(run) : log' = Append(log, o),
         log' = log \/ \E o \in Outputs(run) : log' = Append(log, o)
  PROVE  LogInv' /\ JudgedInv'
<1>1. /\ log \in Seq(Entries) /\ Len(log) \in Nat /\ Len(log) < run /\ run \in Nat
      /\ \A i \in 1..Len(log) : log[i].run < run
      /\ \A i, j \in 1..Len(log) : i < j => log[i].run < log[j].run
  BY LenProperties, ScriptAssumption DEF IInv, LogInv, Runs
<1>2. LogInv'
  <2>1. CASE log' = log /\ pc' # "tripwire"
    BY <1>1, <2>1 DEF LogInv, IInv
  <2>2. CASE \E o \in Outputs(run) : log' = Append(log, o)
    <3>1. PICK o \in Outputs(run) : log' = Append(log, o)
      BY <2>2
    <3>2. /\ log' \in Seq(Entries) /\ Len(log') = Len(log) + 1
          /\ \A i \in 1..Len(log) : log'[i] = log[i]
          /\ log'[Len(log) + 1].run = run
      BY <3>1, Appended
    <3>3. PICK n, l, r, l2 : n = Len(log) /\ l = log /\ r = run /\ l2 = log'
      OBVIOUS
    <3>4. /\ n \in Nat /\ r \in Nat /\ n < r /\ Len(l2) = n + 1
          /\ \A i \in 1..n : l2[i] = l[i] /\ l[i].run < r
          /\ \A i, j \in 1..n : i < j => l[i].run < l[j].run
          /\ l2[n + 1].run = r
      BY <1>1, <3>2, <3>3
    <3>5. ASSUME NEW i \in 1..(n + 1) PROVE l2[i].run <= r
      <4>1. CASE i \in 1..n
        <5>1. l2[i] = l[i] /\ l[i].run < r
          BY <3>4, <4>1
        <5>2. l2[i] \in Entries
          BY <3>2, <3>3, <3>4, ElementOfSeq
        <5>3. l2[i].run \in Nat
          BY <5>2 DEF Entries, Outputs, Runs
        <5> QED BY <3>4, <5>1, <5>3
      <4>2. CASE i = n + 1
        BY <3>4, <4>2
      <4> QED BY <3>4, <4>1, <4>2
    <3>6. ASSUME NEW i \in 1..(n + 1), NEW j \in 1..(n + 1), i < j
          PROVE  l2[i].run < l2[j].run
      <4>1. i \in 1..n
        BY <3>4, <3>6
      <4>2. CASE j \in 1..n
        BY <3>4, <3>6, <4>1, <4>2
      <4>3. CASE j = n + 1
        BY <3>4, <4>1, <4>3
      <4> QED BY <3>4, <4>2, <4>3
    <3>7. pc' = "tripwire" => log'[Len(log')] \in WholeOutputs(run)
      <4> SUFFICES ASSUME pc' = "tripwire" PROVE log'[Len(log')] \in WholeOutputs(run)
        OBVIOUS
      <4>1. PICK w \in WholeOutputs(run) : log' = Append(log, w)
        OBVIOUS
      <4>2. w \in Outputs(run)
        BY DEF WholeOutputs
      <4>3. log'[Len(log) + 1] = w
        BY <4>1, <4>2, Appended
      <4> QED BY <3>2, <4>3
    <3> QED BY <1>1, <3>2, <3>3, <3>4, <3>5, <3>6, <3>7 DEF LogInv
  <2>3. WholeOutputs(run) \subseteq Outputs(run)
    BY DEF WholeOutputs
  <2> QED BY <2>1, <2>2, <2>3
<1>3. JudgedInv'
  <2> SUFFICES ASSUME NEW w \in Runs, judged[w] # None PROVE Hidden(w)'
    BY DEF JudgedInv
  <2>1. w # run /\ Hidden(w)
    BY DEF IInv, JudgedInv
  <2> QED BY <2>1, HiddenStands
<1> QED BY <1>2, <1>3

(* The install check, heretic itself, and the tripwire. *)
LEMMA AbliterateKeeps ==
  ASSUME IInv, CheckInstall \/ Abliterate \/ Tripwire
  PROVE  Good
<1> USE DEF EndSteps, Verdicted, OwnSteps
<1>1. /\ <<pc, pc'>> \in {<<"install", "heretic">>, <<"install", "fail">>,
                          <<"heretic", "tripwire">>, <<"heretic", "fail">>, <<"heretic", "ended">>,
                          <<"tripwire", "enter_eval">>, <<"tripwire", "fail">>,
                          <<"tripwire", "ended">>}
      /\ UNCHANGED <<run, gate, judged>> /\ UNCHANGED releaseVars
      /\ Continues(pc, pc') \/ (Raises(pc) /\ pc' = "fail") \/ Escapes(pc)
      /\ pc' = "ended" => Escapes(pc)
  BY DEF CheckInstall, Abliterate, Tripwire, Continues, Raises, Escapes, releaseVars
<1>2. Keeps
  <2>1. PICK at, next : at = pc /\ next = pc'
    OBVIOUS
  <2>2. CASE next # "ended"
    <3>1. /\ at \notin EndSteps /\ (next \notin EndSteps \/ next = "fail")
          /\ Continues(at, next) \/ (Raises(at) /\ next = "fail")
          /\ ScriptInv /\ UNCHANGED releaseVars
      BY <1>1, <2>1, <2>2 DEF IInv, Escapes
    <3> QED BY ONLY <3>1, StepKeeps
  <2>3. CASE next = "ended"
    <3>1. ScriptInv /\ at # "ended" /\ Escapes(at)
      BY <1>1, <2>1, <2>3 DEF IInv
    <3> QED BY ONLY <3>1, EscapesKeeps
  <2> QED BY <2>2, <2>3
<1>3. run \in Runs /\ run \in 0..MaxRuns /\ 0 \in 0..MaxRuns /\ judged[run] = None
  BY <1>1, ScriptAssumption DEF IInv, ScriptInv, ScriptTypeOK, Released
<1>4. CASE Tripwire
  <2>1. /\ pc = "tripwire" /\ UNCHANGED <<log, export>>
        /\ pc' = "enter_eval" => \E v \in Views : BestKl(v) # "low"
    BY <1>4 DEF Tripwire, Continues, Escapes
  <2>2. pc' = "enter_eval" => Hidden(run)
    BY <2>1, TripwireReads
  <2> QED BY <1>1, <1>2, <2>1, <2>2, Quiet
<1>5. CASE CheckInstall
  <2>1. pc = "install" /\ UNCHANGED log /\ export' \in {export, 0} /\ pc' \in {"heretic", "fail"}
    BY <1>5 DEF CheckInstall, Continues, Raises
  <2>2. LogInv'
    BY <1>1, <2>1 DEF IInv, LogInv
  <2>3. JudgedInv'
    BY <1>1, <2>1 DEF IInv, JudgedInv, Hidden, NoOp, Shows
  <2>4. LineageInv'
    BY <1>3, <2>1 DEF IInv, LineageInv
  <2> QED BY <1>1, <1>2, <2>2, <2>3, <2>4 DEF Good, IInv, Keeps
<1>6. CASE Abliterate
  <2>1. /\ pc = "heretic" /\ export' \in {0, run} /\ (pc' = "tripwire" => export' = run)
        /\ pc' = "tripwire" => \E o \in WholeOutputs(run) : log' = Append(log, o)
        /\ pc' # "tripwire" => log' = log \/ \E o \in Outputs(run) : log' = Append(log, o)
        /\ pc' \in {"tripwire", "fail", "ended"}
    BY <1>6 DEF Abliterate, PrintsSome, Continues, Raises, Escapes
  <2>2. LogInv' /\ JudgedInv'
    <3>1. WholeOutputs(run) \subseteq Outputs(run)
      BY DEF WholeOutputs
    <3> QED BY <1>1, <1>3, <2>1, <3>1, Printed
  <2>3. LineageInv'
    BY <1>1, <1>3, <2>1 DEF LineageInv
  <2> QED BY <1>1, <1>2, <2>2, <2>3 DEF Good, IInv, Keeps
<1> QED BY <1>4, <1>5, <1>6

(* The evaluation judges this run's weights. *)
LEMMA EvaluateKeeps ==
  ASSUME IInv, Evaluate
  PROVE  Good
<1> USE DEF EndSteps, Verdicted, OwnSteps
<1>1. pc = "evaluate" /\ export = run /\ run \in Runs
  BY DEF Evaluate, Judges, Raises, IInv, LineageInv, ScriptInv, Released
<1>2. CASE Raises("evaluate")
  <2>1. pc' = "fail" /\ UNCHANGED <<run, judged, log, export>>
    BY <1>2 DEF Evaluate, Raises, releaseVars
  <2>2. PICK at, next : at = "evaluate" /\ next = "fail"
    OBVIOUS
  <2>3. /\ at \notin EndSteps /\ (next \notin EndSteps \/ next = "fail")
        /\ Continues(at, next) \/ (Raises(at) /\ next = "fail")
        /\ ScriptInv /\ UNCHANGED releaseVars
    BY <1>2, <2>2 DEF IInv, Raises
  <2>4. Keeps
    BY ONLY <2>3, StepKeeps
  <2> QED BY <1>1, <2>1, <2>4, Quiet
<1>3. CASE Judges(export)
  <2>1. /\ pc' = "record" /\ UNCHANGED <<run, log, export>>
        /\ judged' = [x \in Runs |-> IF x = export THEN gate' ELSE judged[x]]
    BY <1>3 DEF Evaluate, Judges
  <2>2. Keeps
    <3>1. PICK w \in {0, run} : w = export
      BY <1>1
    <3> QED BY <1>3, <3>1, JudgesKeeps DEF IInv
  <2>3. judged'[run] = gate' /\ (\A w \in Runs : w # run => judged'[w] = judged[w])
    BY <1>1, <2>1
  <2>4. LogInv'
    BY <1>1, <2>1 DEF IInv, LogInv
  <2>5. JudgedInv'
    <3> SUFFICES ASSUME NEW w \in Runs, judged'[w] # None PROVE Hidden(w)'
      BY <2>1 DEF JudgedInv
    <3>1. Hidden(w)
      BY <1>1, <2>3 DEF IInv, JudgedInv
    <3> QED BY <2>1, <3>1, HiddenStands
  <2>6. LineageInv'
    BY <1>1, <2>1, <2>3 DEF IInv, LineageInv
  <2> QED BY <2>1, <2>2, <2>4, <2>5, <2>6 DEF Good, IInv, Keeps
<1> QED BY <1>2, <1>3 DEF Evaluate

(* The verdict and the release. *)
LEMMA PublishKeeps ==
  ASSUME IInv, RecordAndPublish
  PROVE  Good
<1> USE DEF EndSteps, Verdicted, OwnSteps
<1>1. Keeps
  <2>1. PICK w : w = export
    OBVIOUS
  <2>2. AfterEvaluation(w) /\ (pc = "upload" => w = run /\ judged[run] = "pass")
    BY <2>1 DEF RecordAndPublish, IInv, LineageInv
  <2> QED BY <2>2, AfterEvaluationKeeps DEF IInv
<1>2. UNCHANGED <<run, judged, log, export>>
  BY DEF RecordAndPublish, AfterEvaluation, RecordVerdict, CreateRepo, UploadFolder,
     PublishRaises, PushCard, Announce, RecordUnpublished, Finish, Fail, Exits, Enters, Saves,
     Continues, releaseVars
<1>3. \/ pc' \in {"ended", "exit", "finish"}
      \/ pc = "record" /\ gate = "pass" /\ pc' = "create"
      \/ pc \in {"create", "upload", "card", "announce"}
         /\ pc' \in {"upload", "card", "announce", "unpublished"}
  BY DEF RecordAndPublish, AfterEvaluation, RecordVerdict, CreateRepo, UploadFolder,
     PublishRaises, PushCard, Announce, RecordUnpublished, Finish, Fail, Exits, Enters, Saves,
     Continues
<1>4. pc' = "finish" => pc \in Verdicted \cup {"record"}
  BY DEF RecordAndPublish, AfterEvaluation, RecordVerdict, CreateRepo, UploadFolder,
     PublishRaises, PushCard, Announce, RecordUnpublished, Finish, Fail, Exits, Enters, Saves,
     Continues
<1> QED BY <1>1, <1>2, <1>3, <1>4, Quiet

(* A death leaves of heretic's output and of its export what there was.     *)
LEMMA DeathKeeps ==
  ASSUME IInv, DiesAnywhere
  PROVE  Good
<1> USE DEF EndSteps, Verdicted, OwnSteps
<1>1. Keeps
  BY DiesKeeps DEF IInv, DiesAnywhere
<1>2. /\ pc # "ended" /\ pc' = "ended" /\ UNCHANGED <<run, judged>> /\ export' \in {export, run}
      /\ \/ UNCHANGED log
         \/ pc = "heretic" /\ \E o \in Outputs(run) : log' = Append(log, o)
  BY DEF DiesAnywhere, PrintsSome, Dies, releaseVars
<1>3. run \in 0..MaxRuns
  BY DEF IInv, ScriptInv, ScriptTypeOK
<1>4. LogInv' /\ JudgedInv'
  <2>1. CASE UNCHANGED log
    <3>1. LogInv'
      BY <1>2, <2>1 DEF IInv, LogInv
    <3>2. JudgedInv'
      BY <1>2, <2>1 DEF IInv, JudgedInv, Hidden, NoOp, Shows
    <3> QED BY <3>1, <3>2
  <2>2. CASE pc = "heretic" /\ \E o \in Outputs(run) : log' = Append(log, o)
    <3>1. run \in Runs /\ judged[run] = None
      BY <2>2 DEF IInv, ScriptInv, Released
    <3> QED BY <1>2, <2>2, <3>1, Printed
  <2> QED BY <1>2, <2>1, <2>2
<1>5. LineageInv'
  BY <1>2, <1>3 DEF IInv, LineageInv
<1> QED BY <1>1, <1>2, <1>4, <1>5 DEF Good, IInv, Keeps

LEMMA LaunchKeeps ==
  ASSUME IInv, Launched
  PROVE  Good
<1> USE DEF EndSteps, Verdicted, OwnSteps
<1>1. Keeps
  BY BeginKeeps DEF IInv, Launched
<1>2. pc' = "first" /\ run' = run + 1 /\ UNCHANGED <<judged, log, export>>
  BY DEF Launched, Begin, releaseVars
<1>3. LogInv'
  <2>1. /\ run \in Nat /\ log \in Seq(Entries) /\ Len(log) \in Nat /\ Len(log) <= run
        /\ \A i \in 1..Len(log) : log[i].run <= run
        /\ \A i, j \in 1..Len(log) : i < j => log[i].run < log[j].run
    BY LenProperties, ScriptAssumption DEF IInv, LogInv, ScriptInv, ScriptTypeOK
  <2>2. ASSUME NEW i \in 1..Len(log) PROVE log[i].run < run + 1 /\ log[i].run <= run + 1
    <3>1. PICK l : l = log
      OBVIOUS
    <3>2. l[i] \in Entries
      BY <2>1, <3>1, ElementOfSeq
    <3>3. l[i].run \in Nat
      BY <3>2 DEF Entries, Outputs, Runs
    <3> QED BY <2>1, <3>1, <3>3
  <2> QED BY <1>2, <2>1, <2>2 DEF LogInv
<1>4. JudgedInv'
  BY <1>2 DEF IInv, JudgedInv, Hidden, NoOp, Shows
<1>5. LineageInv'
  BY <1>2 DEF IInv, LineageInv
<1> QED BY <1>1, <1>2, <1>3, <1>4, <1>5 DEF Good, IInv, Keeps

LEMMA StayKeeps ==
  ASSUME IInv, UNCHANGED vars
  PROVE  Good
<1>1. Keeps
  BY StutterKeeps DEF IInv, vars
<1>2. UNCHANGED <<run, pc, gate, judged, log, export>>
  BY DEF vars, scriptVars
<1> QED
  BY <1>1, <1>2 DEF Good, IInv, Keeps, LogInv, JudgedInv, Hidden, NoOp, Shows, LineageInv

LEMMA StartHolds ==
  ASSUME Init
  PROVE  IInv /\ Contract!Init /\ Release!Init
<1>1. ScriptInv /\ Contract!Init /\ Release!Init
  BY InitHolds DEF Init
<1>2. pc = "ended" /\ run = 0 /\ log = <<>> /\ export = 0
      /\ judged = [w \in Runs |-> None]
  BY DEF Init, ScriptInit
<1>3. LogInv
  <2>1. <<>> \in Seq(Entries) /\ Len(<<>>) = 0
    BY EmptySeq
  <2> QED BY <1>2, <2>1 DEF LogInv
<1>4. JudgedInv /\ LineageInv
  BY <1>2, ScriptAssumption DEF JudgedInv, LineageInv, Verdicted
<1> QED BY <1>1, <1>2, <1>3, <1>4 DEF IInv, EndSteps

LEMMA NextKeeps ==
  ASSUME IInv, [Next]_vars
  PROVE  Good
BY EnterKeeps, AbliterateKeeps, EvaluateKeeps, PublishKeeps, DeathKeeps, LaunchKeeps,
   StayKeeps DEF Next, Step

(* The inductive invariant holds of every reachable state.                  *)
THEOREM Invariance == Spec => []IInv
<1>1. Init => IInv
  BY StartHolds
<1>2. IInv /\ [Next]_vars => IInv'
  BY NextKeeps DEF Good
<1> QED BY <1>1, <1>2, PTL DEF Spec

(* Every state is of the expected shape: heretic's log and the export of    *)
(* run_stage1.py, and the status.                                           *)
THEOREM TypeCorrect == Spec => []TypeOK
<1>1. IInv => TypeOK
  <2> SUFFICES ASSUME IInv PROVE TypeOK
    OBVIOUS
  <2>1. log \in Seq(Entries) /\ Len(log) <= run /\ DOMAIN log = 1..Len(log)
    BY LenProperties DEF IInv, LogInv
  <2>2. \A i \in DOMAIN log : log[i] \in Entries
    BY <2>1, ElementOfSeq
  <2> QED BY <2>1, <2>2 DEF TypeOK, IInv, ScriptInv, LineageInv, Entries
<1> QED BY <1>1, Invariance, PTL

(* A model that heretic left as it was is evaluated only when its output    *)
(* shows no KL or the log shows that of an earlier run before it            *)
(* (parse_best_kl, and the `is not None` after it).                         *)
THEOREM HiddenNoOpsOnly == Spec => []NoOpsEvaluatedOnlyWhenHidden
<1>1. IInv => NoOpsEvaluatedOnlyWhenHidden
  <2> SUFFICES ASSUME IInv, NEW w \in Runs, judged[w] # None, NoOp(w), Shows(w)
               PROVE  \E i, j \in DOMAIN log :
                        log[j].run = w /\ i < j /\ j - i < Window /\ log[i].best = "high"
    BY DEF NoOpsEvaluatedOnlyWhenHidden
  <2>1. DOMAIN log = 1..Len(log)
    BY LenProperties DEF IInv, LogInv
  <2>2. Hidden(w)
    BY DEF IInv, JudgedInv
  <2> QED BY <2>1, <2>2 DEF Hidden
<1> QED BY <1>1, Invariance, PTL

(* The tripwire fails only a run that changed nothing, or one that shows no *)
(* KL of its own after one that shows a low one: the highest KL the log     *)
(* shows is at least this run's own.                                        *)
THEOREM TripsOnNoOpsOnly == Spec => OnlyNoOpsTripped
<1>1. IInv /\ [Next]_vars =>
        [pc = "tripwire" /\ pc' = "fail" =>
           \/ NoOp(run)
           \/ /\ ~Shows(run)
              /\ \E i \in DOMAIN log :
                   i < Len(log) /\ Len(log) - i < Window /\ log[i].last = "low"]_vars
  <2> SUFFICES ASSUME IInv, Next, pc = "tripwire", pc' = "fail"
               PROVE  \/ NoOp(run)
                      \/ /\ ~Shows(run)
                         /\ \E i \in DOMAIN log :
                              i < Len(log) /\ Len(log) - i < Window /\ log[i].last = "low"
    OBVIOUS
  <2>1. Tripwire
    BY DEF Next, Step, Launched, Begin, EnterAbliterating, FirstWrite, Enters, Saves,
       CheckInstall, Abliterate, Continues, Raises, Escapes, EnterEvaluating, Evaluate, Judges,
       RecordAndPublish, AfterEvaluation, RecordVerdict, CreateRepo, UploadFolder,
       PublishRaises, PushCard, Announce, RecordUnpublished, Finish, Fail, Exits, DiesAnywhere,
       Dies
  <2>2. PICK v \in Views : BestKl(v) = "low"
    BY <2>1 DEF Tripwire, Continues, Escapes
  <2> QED BY <2>2, TrippedByNoOp
<1> QED BY <1>1, Invariance, PTL DEF Spec, OnlyNoOpsTripped

(* run_stage1.py keeps the contract of the controllers and the promise      *)
(* about the repo: it implements JobContract and GatedRelease.              *)
THEOREM ImplementsPromises == Spec => KeepsPromises
<1>1. Init => Contract!Init /\ Release!Init
  BY StartHolds
<1>2. IInv /\ [Next]_vars => [Contract!Next]_(Contract!vars) /\ [Release!Next]_(Release!vars)
  BY NextKeeps DEF Good, ContractStep, ReleaseStep
<1> QED
  BY <1>1, <1>2, Invariance, PTL DEF Spec, KeepsPromises, Contract!Spec, Release!Spec

(* Whatever the repo holds and whatever run_stage1.py reported as           *)
(* published passed its gate; a judgement, a verdict and a DONE stand       *)
(* until the next run writes, and DONE is never without a verdict: readers  *)
(* of status.json and of the repo may rely on the two abstract              *)
(* specifications alone.                                                    *)
THEOREM PromisesAreUsable ==
  Spec => /\ []Release!OnlyPassesLeave /\ Release!JudgedOnce
          /\ []Contract!DoneHasVerdict /\ Contract!StatusStands
BY ImplementsPromises, ContractConclusions, ReleaseConclusions, PTL DEF KeepsPromises
=============================================================================
