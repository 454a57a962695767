--------------------------- MODULE PipelineProofs ---------------------------
(***************************************************************************)
(* Safety of Pipeline for any number of stages, of runs and of faults.     *)
(***************************************************************************)
EXTENDS Pipeline, SequenceTheorems, TLAPS

Weights == Seq(1..MaxRuns)

Shape ==
  /\ run \in 0..MaxRuns
  /\ results \in Seq({0, 1}) /\ Len(results) <= N
  /\ input \in 0..Len(results)
  /\ over \in BOOLEAN
  /\ ~over => run > 0 /\ Len(results) < N /\ input = Len(results)
  /\ hub \in [Stages -> Weights] /\ orphans \in [Stages -> Weights]
  /\ codes \in [1..MaxRuns -> Seq({0, 1})]
  /\ published \subseteq 1..Len(results)

(* Only the last result may be a failure, and it ends the loop.             *)
Passed ==
  \A n \in 1..Len(results) : results[n] = 0 \/ (results[n] = 1 /\ n = Len(results) /\ over)

(* The results of this run and of those to come.                            *)
Coded ==
  /\ run > 0 => codes[run] = results
  /\ \A r \in 1..MaxRuns : r > run => codes[r] = <<>>

(* Weights of stage n: their last run got past the stages before n.         *)
Lineage(n, w) ==
  w # <<>> =>
    /\ Len(w) = n /\ w[n] \in 1..run
    /\ \A k \in 1..(n - 1) : k \in 1..Len(codes[w[n]]) /\ codes[w[n]][k] = 0

Lineages == \A n \in Stages : Lineage(n, hub[n]) /\ Lineage(n, orphans[n])

(* While a run's stages publish, nobody else writes to their repos.         *)
Chain ==
  /\ \A n \in published : orphans[n] = <<>>
  /\ \A n \in Stages : 1..n \subseteq published => hub[n] = [k \in 1..n |-> run]

IInv == Shape /\ Passed /\ Coded /\ Lineages /\ Chain

(* What a stage makes has gone through this run's stages before it. *)
LEMMA MadeLineage ==
  ASSUME IInv, ~over, Loadable
  PROVE  /\ Stage \in Stages /\ Made \in Weights /\ Made # <<>>
         /\ Lineage(Stage, Made)
         /\ 1..(Stage - 1) \subseteq published => Made = [k \in 1..Stage |-> run]
<1>1. /\ Stage \in Stages /\ Stage = input + 1 /\ run \in 1..MaxRuns /\ input \in Nat
      /\ results \in Seq({0, 1}) /\ input = Len(results) /\ run > 0
  BY PipelineAssumption DEF IInv, Shape, Stage, Stages
<1>2. \A k \in 1..input : k \in 1..Len(codes[run]) /\ codes[run][k] = 0
  BY <1>1 DEF IInv, Passed, Coded
<1>3. CASE input = 0
  <2>1. Made = <<run>> /\ Stage = 1
    BY <1>1, <1>3 DEF Made
  <2>2. Made \in Weights /\ Made # <<>> /\ Len(Made) = 1 /\ Made[1] = run
    BY <1>1, <2>1 DEF Weights
  <2>3. Made = [k \in 1..Stage |-> run]
    BY <2>1
  <2>4. Lineage(Stage, Made)
    <3>1. Len(Made) = Stage /\ Made[Stage] = run /\ run \in 1..run
      BY <1>1, <2>1, <2>2
    <3>2. \A k \in 1..(Stage - 1) : FALSE
      BY <2>1
    <3> QED BY <3>1, <3>2 DEF Lineage
  <2> QED BY <1>1, <2>2, <2>3, <2>4
<1>4. CASE input > 0
  <2>1. Made = Append(hub[input], run) /\ input \in Stages /\ hub[input] # <<>>
    BY <1>1, <1>4, PipelineAssumption DEF Made, Loadable, Stages
  <2>2. PICK w : w = hub[input]
    OBVIOUS
  <2>3. PICK r : r = run
    OBVIOUS
  <2>4. w \in Seq(1..MaxRuns) /\ r \in 1..MaxRuns /\ Len(w) = input
    <3>1. hub[input] \in Weights /\ Lineage(input, hub[input])
      BY <2>1 DEF IInv, Shape, Lineages
    <3> QED BY <1>1, <2>1, <2>2, <2>3, <3>1 DEF Weights, Lineage
  <2>5. /\ Append(w, r) \in Seq(1..MaxRuns) /\ Append(w, r) # <<>>
        /\ Len(Append(w, r)) = Len(w) + 1
        /\ \A i \in 1..Len(w) : Append(w, r)[i] = w[i]
        /\ Append(w, r)[Len(w) + 1] = r
    BY ONLY <2>4, AppendProperties
  <2>6. Made \in Weights /\ Made # <<>> /\ Len(Made) = Stage /\ Made[Stage] = run
    BY <1>1, <2>1, <2>2, <2>3, <2>4, <2>5 DEF Weights
  <2>7. Lineage(Stage, Made)
    BY <1>1, <1>2, <2>6 DEF Lineage
  <2>8. ASSUME 1..(Stage - 1) \subseteq published
        PROVE  Made = [k \in 1..Stage |-> run]
    <3>1. w = [k \in 1..input |-> r]
      BY <1>1, <2>1, <2>2, <2>3, <2>8 DEF IInv, Chain
    <3>2. \A i \in 1..Stage : Append(w, r)[i] = r
      BY <1>1, <2>4, <2>5, <3>1
    <3>3. Append(w, r) \in [1..Stage -> 1..MaxRuns]
      BY <1>1, <2>4, <2>5, LenProperties
    <3>4. Append(w, r) = [k \in 1..Stage |-> r]
      BY <3>2, <3>3
    <3> QED BY <2>1, <2>2, <2>3, <3>4
  <2> QED BY <1>1, <2>6, <2>7, <2>8
<1> QED BY <1>1, <1>3, <1>4

(* A controller's exit code, recorded: every other weight keeps its past.   *)
LEMMA ReturnsKeeps ==
  ASSUME IInv, ~over, NEW code \in {0, 1}, Returns(code)
  PROVE  /\ Stage \in Stages /\ run' = run
         /\ results' \in Seq({0, 1}) /\ Len(results') = Stage
         /\ input' \in 0..Len(results') /\ over' \in BOOLEAN
         /\ ~over' => run' > 0 /\ Len(results') < N /\ input' = Len(results')
         /\ codes' \in [1..MaxRuns -> Seq({0, 1})]
         /\ Passed' /\ Coded'
         /\ \A n \in Stages : \A w : Lineage(n, w) => Lineage(n, w)'
<1>1. /\ Stage \in Stages /\ Stage = Len(results) + 1 /\ run \in 1..MaxRuns
      /\ results \in Seq({0, 1}) /\ input = Len(results) /\ Len(results) \in Nat /\ N \in Nat
      /\ codes \in [1..MaxRuns -> Seq({0, 1})]
  BY PipelineAssumption DEF IInv, Shape, Stage, Stages
<1>2. PICK rs, rs2 : rs = results /\ rs2 = results'
  OBVIOUS
<1>3. /\ rs2 \in Seq({0, 1}) /\ Len(rs2) = Len(rs) + 1
      /\ \A i \in 1..Len(rs) : rs2[i] = rs[i]
      /\ rs2[Len(rs) + 1] = code
  <2>1. rs \in Seq({0, 1}) /\ rs2 = Append(rs, code)
    BY <1>1, <1>2 DEF Returns
  <2> QED BY <2>1, AppendProperties
<1>4. /\ run' = run /\ codes' = [codes EXCEPT ![run] = results']
      /\ input' = (IF code = 0 THEN Stage ELSE input) /\ over' = (code # 0 \/ Stage = N)
  BY DEF Returns
<1>5. codes' \in [1..MaxRuns -> Seq({0, 1})] /\ codes'[run] = rs2
      /\ \A r \in 1..MaxRuns : r # run => codes'[r] = codes[r]
  BY <1>1, <1>2, <1>3, <1>4
<1>6. Passed'
  <2> SUFFICES ASSUME NEW n \in 1..Len(rs2)
               PROVE  rs2[n] = 0 \/ (rs2[n] = 1 /\ n = Len(rs2) /\ over')
    BY <1>2 DEF Passed
  <2>1. CASE n \in 1..Len(rs)
    BY <1>1, <1>2, <1>3, <2>1 DEF IInv, Passed
  <2>2. CASE n = Len(rs) + 1
    BY <1>3, <1>4, <2>2
  <2> QED BY <1>3, <2>1, <2>2
<1>7. Coded'
  BY <1>1, <1>2, <1>4, <1>5 DEF IInv, Coded
<1>8. ASSUME NEW n \in Stages, NEW w, Lineage(n, w)
      PROVE  Lineage(n, w)'
  <2> SUFFICES ASSUME w # <<>>
               PROVE  \A k \in 1..(n - 1) :
                        k \in 1..Len(codes'[w[n]]) /\ codes'[w[n]][k] = 0
    BY <1>4, <1>8 DEF Lineage
  <2> TAKE k \in 1..(n - 1)
  <2>1. w[n] \in 1..run /\ k \in 1..Len(codes[w[n]]) /\ codes[w[n]][k] = 0
    BY <1>8 DEF Lineage
  <2>2. CASE w[n] = run
    <3>1. codes[w[n]] = rs
      BY <1>1, <1>2, <2>2 DEF IInv, Coded
    <3> QED BY <1>1, <1>2, <1>3, <1>5, <2>1, <2>2, <3>1
  <2>3. CASE w[n] # run
    <3>1. w[n] \in 1..MaxRuns
      BY <1>1, <2>1, PipelineAssumption
    <3>2. codes'[w[n]] = codes[w[n]]
      BY <1>5, <2>3, <3>1
    <3> QED BY <2>1, <3>2
  <2> QED BY <2>2, <2>3
<1>9. \A n \in Stages : \A w : Lineage(n, w) => Lineage(n, w)'
  BY ONLY <1>8
<1>10. results' \in Seq({0, 1}) /\ Len(results') = Stage
  BY <1>1, <1>2, <1>3
<1>11. /\ input' \in 0..Len(results') /\ over' \in BOOLEAN
       /\ ~over' => run' > 0 /\ Len(results') < N /\ input' = Len(results')
  <2>1. over' \in BOOLEAN
    BY <1>4, Zenon
  <2>2. input' \in 0..Len(results')
    BY <1>1, <1>4, <1>10
  <2>3. ~over' => code = 0 /\ Stage # N
    BY <1>4, Zenon
  <2> QED BY <1>1, <1>4, <1>10, <2>1, <2>2, <2>3 DEF Stages
<1> QED BY <1>1, <1>4, <1>5, <1>6, <1>7, <1>9, <1>10, <1>11

(* A stage returns: at most its own repo and its own orphan changed, to what *)
(* it made, or an orphan was stopped.                                       *)
LEMMA StageKeeps ==
  ASSUME IInv, ~over, NEW code \in {0, 1}, Returns(code),
         hub' \in {hub, [hub EXCEPT ![Stage] = Made]}, hub' # hub => Loadable,
         orphans' \in {orphans, [orphans EXCEPT ![Stage] = <<>>], [orphans EXCEPT ![Stage] = Made]},
         orphans'[Stage] \in {orphans[Stage], <<>>} \/ Loadable,
         \/ published' = published
         \/ /\ published' = published \cup {Stage} /\ Loadable
            /\ orphans'[Stage] = <<>> /\ hub' = [hub EXCEPT ![Stage] = Made]
  PROVE  IInv'
<1>1. /\ Stage \in Stages /\ run' = run
      /\ results' \in Seq({0, 1}) /\ Len(results') = Stage
      /\ input' \in 0..Len(results') /\ over' \in BOOLEAN
      /\ ~over' => run' > 0 /\ Len(results') < N /\ input' = Len(results')
      /\ codes' \in [1..MaxRuns -> Seq({0, 1})]
      /\ Passed' /\ Coded'
      /\ \A n \in Stages : \A w : Lineage(n, w) => Lineage(n, w)'
  BY ONLY IInv, ~over, Returns(code), code \in {0, 1}, ReturnsKeeps
<1>2. Loadable => /\ Made \in Weights /\ Lineage(Stage, Made)
                  /\ 1..(Stage - 1) \subseteq published => Made = [k \in 1..Stage |-> run]
  BY MadeLineage
<1>3. /\ hub \in [Stages -> Weights] /\ orphans \in [Stages -> Weights]
      /\ published \subseteq 1..(Stage - 1) /\ N \in Nat /\ Stage \in Nat /\ run \in 0..MaxRuns
  <2>1. Len(results) \in Nat
    BY DEF IInv, Shape
  <2> QED BY <1>1, <2>1, PipelineAssumption DEF IInv, Shape, Stage, Stages
<1>4. <<>> \in Weights
  BY DEF Weights
<1>5. hub' \in [Stages -> Weights] /\ \A n \in Stages :
        hub'[n] = hub[n] \/ (n = Stage /\ Loadable /\ hub'[n] = Made)
  BY <1>1, <1>2, <1>3
<1>6. \A n \in Stages : orphans'[n] = orphans[n] \/ orphans'[n] = <<>>
                          \/ (n = Stage /\ Loadable /\ orphans'[n] = Made)
  BY <1>1, <1>3
<1>7. orphans' \in [Stages -> Weights]
  <2>1. \A n \in Stages : orphans'[n] \in Weights
    BY <1>2, <1>3, <1>4, <1>6
  <2>2. orphans' = [n \in Stages |-> orphans'[n]]
    BY <1>3
  <2> QED BY <2>1, <2>2
<1>8. Shape'
  <2>1. published' \subseteq 1..Len(results')
    <3>1. 1 <= Stage
      BY <1>1, PipelineAssumption DEF Stages
    <3>2. 1..(Stage - 1) \subseteq 1..Stage /\ Stage \in 1..Stage
      BY <1>3, <3>1
    <3>3. published' \subseteq 1..Stage
      BY <1>3, <3>2
    <3> QED BY <1>1, <3>3
  <2> QED BY <1>1, <1>3, <1>5, <1>7, <2>1 DEF Shape, Stages
<1>9. Lineages'
  <2> SUFFICES ASSUME NEW n \in Stages
               PROVE  Lineage(n, hub[n])' /\ Lineage(n, orphans[n])'
    BY DEF Lineages, Stages
  <2>1. PICK v, w, m : v = hub'[n] /\ w = orphans'[n] /\ m = Made
    OBVIOUS
  <2>2. PICK h, o : h = hub[n] /\ o = orphans[n]
    OBVIOUS
  <2>3. Lineage(n, h) /\ Lineage(n, o) /\ Lineage(n, <<>>)
    BY <2>2 DEF IInv, Lineages, Lineage
  <2>4. Lineage(n, v) /\ Lineage(n, w)
    BY <1>2, <1>5, <1>6, <2>1, <2>2, <2>3
  <2>5. Lineage(n, v)' /\ Lineage(n, w)'
    BY <1>1, <2>4
  <2> QED BY <2>1, <2>5 DEF Lineage
<1>10. Chain'
  <2>1. ASSUME NEW n \in published' PROVE orphans'[n] = <<>>
    <3>1. CASE n \in published
      BY <1>1, <1>3, <1>6, <3>1, PipelineAssumption DEF IInv, Chain, Stages
    <3>2. CASE n = Stage /\ n \notin published
      BY <3>2, <2>1, <1>3
    <3> QED BY <2>1, <3>1, <3>2
  <2>2. ASSUME NEW n \in Stages, 1..n \subseteq published'
        PROVE  hub'[n] = [k \in 1..n |-> run']
    <3>1. n \in Nat /\ n >= 1 /\ n \in 1..n
      BY <1>3 DEF Stages
    <3>2. CASE n < Stage
      <4>1. 1..n \subseteq published
        BY <1>3, <2>2, <3>1, <3>2
      <4>2. hub[n] = [k \in 1..n |-> run]
        BY <4>1 DEF IInv, Chain
      <4>3. hub'[n] = hub[n]
        BY <1>3, <1>5, <3>1, <3>2
      <4> QED BY <1>1, <4>2, <4>3
    <3>3. CASE n = Stage
      <4>1. Stage \in published' /\ Stage \notin published
        BY <1>3, <2>2, <3>1, <3>3
      <4>2. Loadable /\ hub'[Stage] = Made
        BY <1>1, <1>3, <4>1
      <4>3. 1..(Stage - 1) \subseteq published
        BY <1>3, <2>2, <3>1, <3>3
      <4> QED BY <1>1, <1>2, <3>3, <4>2, <4>3
    <3>4. CASE n > Stage
      <4>1. n \in published'
        BY <2>2, <3>1
      <4> QED BY <1>3, <3>1, <3>4, <4>1
    <3> QED BY <1>3, <3>1, <3>2, <3>3, <3>4
  <2> QED BY <2>1, <2>2 DEF Chain, Stages
<1> QED BY <1>1, <1>8, <1>9, <1>10 DEF IInv

LEMMA RunPipelineKeeps ==
  ASSUME IInv, RunPipeline
  PROVE  IInv'
<1>1. run \in 0..MaxRuns /\ run' = run + 1 /\ run' \in 1..MaxRuns /\ MaxRuns \in Nat
  BY PipelineAssumption DEF IInv, Shape, RunPipeline
<1>2. results' = <<>> /\ Len(results') = 0 /\ input' = 0 /\ over' = FALSE /\ published' = {}
      /\ UNCHANGED <<hub, orphans, codes>>
  BY DEF RunPipeline
<1>3. Shape'
  <2>1. <<>> \in Seq({0, 1})
    OBVIOUS
  <2>2. results' \in Seq({0, 1}) /\ input' \in 0..Len(results') /\ published' = {}
    BY <1>2, <2>1
  <2>3. Len(results') <= N /\ (run' > 0 /\ Len(results') < N /\ input' = Len(results'))
    BY <1>1, <1>2, PipelineAssumption
  <2>4. run' \in 0..MaxRuns
    BY <1>1
  <2> QED BY <1>2, <2>2, <2>3, <2>4 DEF IInv, Shape, Stages
<1>4. Passed' /\ Chain'
  <2>1. Passed'
    BY <1>2 DEF Passed
  <2>2. \A n \in Stages : 1 \in 1..n
    BY PipelineAssumption DEF Stages
  <2>3. Chain'
    BY <1>2, <2>2 DEF Chain, Stages
  <2> QED BY <2>1, <2>3
<1>5. Coded'
  BY <1>1, <1>2 DEF IInv, Coded
<1>6. Lineages'
  <2> SUFFICES ASSUME NEW n \in Stages
               PROVE  Lineage(n, hub[n])' /\ Lineage(n, orphans[n])'
    BY DEF Lineages, Stages
  <2>1. Lineage(n, hub[n]) /\ Lineage(n, orphans[n])
    BY DEF IInv, Lineages
  <2> QED BY <1>1, <1>2, <2>1 DEF Lineage
<1> QED BY <1>3, <1>4, <1>5, <1>6 DEF IInv

(* An orphaned script publishes or not: never over what this run published. *)
LEMMA OrphanEndsKeeps ==
  ASSUME IInv, NEW n \in Stages, OrphanEnds(n)
  PROVE  IInv'
<1>1. /\ UNCHANGED <<run, results, input, over, codes, published>> /\ orphans[n] # <<>>
      /\ hub' \in {hub, [hub EXCEPT ![n] = orphans[n]]}
      /\ orphans' = [orphans EXCEPT ![n] = <<>>]
  BY DEF OrphanEnds
<1>2. hub \in [Stages -> Weights] /\ orphans \in [Stages -> Weights] /\ <<>> \in Weights
  BY DEF IInv, Shape, Weights
<1>3. Shape'
  <2>1. hub' \in [Stages -> Weights] /\ orphans' \in [Stages -> Weights]
    BY <1>1, <1>2
  <2> QED BY <1>1, <2>1 DEF IInv, Shape, Stages
<1>4. Passed' /\ Coded'
  BY <1>1 DEF IInv, Passed, Coded
<1>5. Lineages'
  <2> SUFFICES ASSUME NEW m \in Stages
               PROVE  Lineage(m, hub[m])' /\ Lineage(m, orphans[m])'
    BY DEF Lineages, Stages
  <2>1. /\ hub'[m] = hub[m] \/ hub'[m] = orphans[m]
        /\ orphans'[m] = orphans[m] \/ orphans'[m] = <<>>
    BY <1>1, <1>2
  <2>2. Lineage(m, hub[m]) /\ Lineage(m, orphans[m])
    BY DEF IInv, Lineages
  <2> QED BY <1>1, <2>1, <2>2 DEF Lineage
<1>6. Chain'
  <2>1. n \notin published
    BY <1>1 DEF IInv, Chain
  <2>2. \A m \in Stages : m # n => hub'[m] = hub[m]
    BY <1>1, <1>2
  <2>3. \A m \in Stages : m \in 1..m
    BY PipelineAssumption DEF Stages
  <2>4. \A m \in published : orphans'[m] = <<>>
    BY <1>1, <1>2, <2>1 DEF IInv, Chain, Shape, Stages
  <2> QED BY <1>1, <2>1, <2>2, <2>3, <2>4 DEF IInv, Chain, Stages
<1> QED BY <1>3, <1>4, <1>5, <1>6 DEF IInv

LEMMA StutterKeeps ==
  ASSUME IInv, UNCHANGED vars
  PROVE  IInv'
BY DEF vars, IInv, Shape, Passed, Coded, Lineages, Lineage, Chain, Stages

LEMMA InitHolds ==
  ASSUME Init
  PROVE  IInv
<1>1. <<>> \in Weights /\ <<>> \in Seq({0, 1}) /\ Len(<<>>) = 0 /\ MaxRuns \in Nat
  BY PipelineAssumption DEF Weights
<1>2. Shape
  <2>1. hub \in [Stages -> Weights] /\ orphans \in [Stages -> Weights]
        /\ codes \in [1..MaxRuns -> Seq({0, 1})]
    BY <1>1 DEF Init
  <2>2. run \in 0..MaxRuns /\ results \in Seq({0, 1}) /\ Len(results) <= N
        /\ input \in 0..Len(results)
    BY <1>1, PipelineAssumption DEF Init
  <2> QED BY <2>1, <2>2 DEF Init, Shape
<1>3. Passed /\ Coded
  BY <1>1 DEF Init, Passed, Coded
<1>4. Lineages
  BY DEF Init, Lineages, Lineage
<1>5. Chain
  <2>1. \A n \in Stages : 1 \in 1..n
    BY PipelineAssumption DEF Stages
  <2> QED BY <2>1 DEF Init, Chain
<1> QED BY <1>2, <1>3, <1>4, <1>5 DEF IInv

(* The inductive invariant holds of every reachable state. *)
THEOREM Invariance == Spec => []IInv
<1>1. Init => IInv
  BY InitHolds
<1>2. IInv /\ [Next]_vars => IInv'
  <2> SUFFICES ASSUME IInv, [Next]_vars PROVE IInv'
    OBVIOUS
  <2>1. Stage \in Nat
    BY DEF IInv, Shape, Stage
  <2>2. ~over => orphans \in [Stages -> Weights] /\ Stage \in Stages
    BY <2>1, PipelineAssumption DEF IInv, Shape, Stage, Stages
  <2>3. CASE Refused
    <3>1. PICK code \in {0, 1} : code = 1
      OBVIOUS
    <3>2. /\ ~over /\ Returns(code) /\ hub' = hub /\ published' = published
          /\ orphans' \in {orphans, [orphans EXCEPT ![Stage] = <<>>]}
          /\ orphans'[Stage] \in {orphans[Stage], <<>>}
      BY <2>2, <2>3, <3>1 DEF Refused
    <3> QED BY <3>2, StageKeeps
  <2>4. CASE StagePublishes
    <3>1. PICK code \in {0, 1} : Returns(code)
      BY <2>4 DEF StagePublishes
    <3>2. /\ ~over /\ hub' = [hub EXCEPT ![Stage] = Made] /\ orphans' = orphans
          /\ published' = published \cup {Stage} /\ orphans[Stage] = <<>> /\ Loadable
      BY <2>4 DEF StagePublishes
    <3> QED BY <3>1, <3>2, StageKeeps
  <2>5. CASE StagePassesUnpublished \/ StageFails
    <3>1. PICK code \in {0, 1} : Returns(code)
      BY <2>5 DEF StagePassesUnpublished, StageFails
    <3>2. ~over /\ hub' = hub /\ orphans' = orphans /\ published' = published
      BY <2>5 DEF StagePassesUnpublished, StageFails
    <3> QED BY <3>1, <3>2, StageKeeps
  <2>6. CASE LeavesScript
    <3>1. PICK code \in {0, 1} : Returns(code)
      BY <2>6 DEF LeavesScript
    <3>2. /\ ~over /\ hub' = hub /\ published' = published /\ Loadable
          /\ orphans' = [orphans EXCEPT ![Stage] = Made]
      BY <2>6 DEF LeavesScript
    <3> QED BY <3>1, <3>2, StageKeeps
  <2>7. CASE RunPipeline
    BY <2>7, RunPipelineKeeps
  <2>8. CASE \E n \in Stages : OrphanEnds(n)
    BY <2>8, OrphanEndsKeeps
  <2>9. CASE UNCHANGED vars
    BY <2>9, StutterKeeps
  <2> QED BY <2>3, <2>4, <2>5, <2>6, <2>7, <2>8, <2>9 DEF Next
<1> QED BY <1>1, <1>2, PTL DEF Spec

(* Every state is of the expected shape, and only the last of               *)
(* run_pipeline's results may be a failure.                                 *)
THEOREM TypeCorrect == Spec => []TypeOK
<1>1. IInv => TypeOK
  <2> SUFFICES ASSUME IInv PROVE TypeOK
    OBVIOUS
  <2>1. DOMAIN results = 1..Len(results) /\ Len(results) \in Nat
    BY LenProperties DEF IInv, Shape
  <2>2. \A n \in DOMAIN results : results[n] = 0 \/ (results[n] = 1 /\ n = Len(results) /\ over)
    BY <2>1 DEF IInv, Passed
  <2>3. published \subseteq Stages
    <3>1. published \subseteq 1..Len(results) /\ Len(results) <= N
      BY DEF IInv, Shape
    <3>2. 1..Len(results) \subseteq 1..N
      BY <2>1, <3>1, PipelineAssumption
    <3> QED BY <3>1, <3>2 DEF Stages
  <2>4. ASSUME NEW w \in Weights, NEW k \in DOMAIN w PROVE w[k] \in 1..MaxRuns
    BY <2>4, LenProperties, ElementOfSeq DEF Weights
  <2>5. \A n \in Stages : hub[n] \in Weights /\ orphans[n] \in Weights
    BY DEF IInv, Shape
  <2> QED BY <2>2, <2>3, <2>4, <2>5 DEF TypeOK, IInv, Shape
<1> QED BY <1>1, Invariance, PTL

(* What a repo holds has gone through every stage before it, whichever runs *)
(* of the pipeline and orphaned scripts wrote to it.                        *)
THEOREM NoStageIsSkipped == Spec => []RepoWentThroughAllStages
<1>1. IInv => RepoWentThroughAllStages
  BY DEF IInv, Lineages, Lineage, RepoWentThroughAllStages
<1> QED BY <1>1, Invariance, PTL

(* Nothing is published downstream of a stage that failed in the same run.  *)
THEOREM FailureStops == Spec => []NothingBehindAFailedGate
<1>1. IInv => NothingBehindAFailedGate
  BY DEF IInv, Lineages, Lineage, NothingBehindAFailedGate
<1> QED BY <1>1, Invariance, PTL

(* A run all of whose stages published ends with weights that went through  *)
(* this very run.                                                           *)
THEOREM SuccessIsOfThisRun == Spec => []SuccessIsThisRuns
<1>1. IInv => SuccessIsThisRuns
  <2> SUFFICES ASSUME IInv, published = Stages
               PROVE  hub[N] = [n \in Stages |-> run]
    BY DEF SuccessIsThisRuns
  <2>1. N \in Stages /\ 1..N = Stages
    BY PipelineAssumption DEF Stages
  <2>2. \A n \in Stages : 1..n \subseteq published => hub[n] = [k \in 1..n |-> run]
    BY DEF IInv, Chain
  <2> QED BY <2>1, <2>2
<1> QED BY <1>1, Invariance, PTL
=============================================================================
