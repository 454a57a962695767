------------------------------ MODULE DataPrep ------------------------------
(***************************************************************************)
(* The data a stage trains on: build() of stages 2 and 3, which collects   *)
(* and validates every source before it opens the file, and prepare_data() *)
(* of stage 5, which opens the file and writes row by row; with the guard  *)
(* of shared/dataprep/decontaminate.py against SWE-bench Verified.         *)
(*                                                                         *)
(* The file has a fixed name and outlives the run that wrote it.  Rows are *)
(* abstract: where they come from, whose repository they are about, and    *)
(* what they tell of it.  Formats and compression are left out.            *)
(***************************************************************************)
EXTENDS StageScript, Sequences

CONSTANT Rows     \* what the datasets hold

(* SWE-Gym and Nebius; every other source holds no GitHub issues.           *)
Guarded == {"swegym", "nebius"}

(* about: "verified" for an instance of SWE-bench Verified, "blocklisted"   *)
(* for another issue of one of its repositories; id, repo: the row carries  *)
(* the instance_id as Verified has it, the repo.                            *)
ASSUME RowsAssumption ==
  Rows \subseteq [source : {"plain"} \cup Guarded,
                  about : {"verified", "blocklisted", "other"},
                  id : BOOLEAN, repo : BOOLEAN]

VARIABLES
  stage,       \* 2, 3 or 5: whose build it is
  unverified,  \* SWE_DECONTAM_ALLOW_UNVERIFIED of this run
  left,        \* the sources still to read
  collected,   \* `examples`, `pairs`, or the rows of stage 5
  file         \* DATA_PATH: who wrote it last, its rows, and whether it is whole

dataVars == <<stage, unverified, left, collected, file>>

NoData == [by |-> 0, rows |-> {}, whole |-> FALSE]

(* _sources(): the guarded ones are opted in by the environment.            *)
SourceLists ==
  IF stage = 2
  THEN {<<"plain">>, <<"plain", "swegym">>, <<"plain", "nebius">>,
        <<"plain", "swegym", "nebius">>}
  ELSE {<<"plain">>}

DataInit ==
  /\ stage \in {2, 3, 5}
  /\ unverified \in BOOLEAN
  /\ left = <<>>
  /\ collected = {}
  /\ file = NoData

PrepareLaunched ==
  /\ unverified' \in BOOLEAN
  /\ left' \in SourceLists
  /\ collected' = {}
  /\ UNCHANGED <<stage, file>>

(* is_contaminated.  Verified has no instance outside the blocklisted       *)
(* repositories, so a match of repo and commit is one of them.              *)
IsContaminated(row, keys) ==
  \/ keys = "loaded" /\ row.id /\ row.about = "verified"
  \/ row.repo /\ row.about \in {"verified", "blocklisted"}

(* Mutant: a failure to load the keys always lets the rows through.         *)
AnyKeys(source) == {"loaded", "none"}

(* _load_or_fail: with no keys it raises, unless the run was told not to.   *)
Keys(source) ==
  {"loaded"} \cup (IF unverified THEN {"none"} ELSE {})

(* decontaminate_rows, for the sources that call it.                        *)
Kept(source, keys) ==
  {row \in Rows :
     /\ row.source = source
     /\ ~(source \in Guarded /\ IsContaminated(row, keys))}

(* A source is exhausted and each of its examples valid.  Stage 3 may get   *)
(* no pair out of its sources.                                              *)
ReadSource ==
  /\ stage # 5
  /\ left # <<>>
  /\ Continues("prepare", "prepare")
  /\ \E keys \in Keys(Head(left)) :
       \/ collected' = collected \cup Kept(Head(left), keys)
       \/ stage = 3 /\ collected' = collected
  /\ left' = Tail(left)
  /\ UNCHANGED <<releaseVars, stage, unverified, file>>

(* A dataset cannot be loaded, an example is not valid, or the keys cannot  *)
(* be loaded: nothing has been opened yet.                                  *)
ReadRaises ==
  /\ Raises("prepare")
  /\ UNCHANGED dataVars

(* Mutant: a file that is there already is used as it is, whole or not.     *)
OpenUnlessThere ==
  /\ Continues("prepare", IF file.by # 0 THEN "enter_train" ELSE "write")
  /\ stage # 5 => left = <<>>
  /\ stage = 3 => collected # {}
  /\ collected' = IF stage = 5 THEN Kept("plain", "none") ELSE collected
  /\ file' = IF file.by # 0 THEN file ELSE [by |-> run, rows |-> {}, whole |-> FALSE]
  /\ UNCHANGED <<releaseVars, stage, unverified, left>>

(* open(out_path, "w") leaves an empty file in place of the old one; the    *)
(* rows of stage 5 are read as they are written.                            *)
OpenFile ==
  /\ Continues("prepare", "write")
  /\ stage # 5 => left = <<>>
  /\ stage = 3 => collected # {}
  /\ collected' = IF stage = 5 THEN Kept("plain", "none") ELSE collected
  /\ file' = [by |-> run, rows |-> {}, whole |-> FALSE]
  /\ UNCHANGED <<releaseVars, stage, unverified, left>>

(* `if len(pairs) < min_pairs: raise`, with min_pairs = 1.                  *)
TooFewPairs ==
  /\ stage = 3 /\ left = <<>> /\ collected = {}
  /\ Continues("prepare", "fail")
  /\ UNCHANGED <<releaseVars, dataVars>>

WriteRows ==
  /\ Continues("write", "enter_train")
  /\ file' = [by |-> run, rows |-> collected, whole |-> TRUE]
  /\ UNCHANGED <<releaseVars, stage, unverified, left, collected>>

(* The disk is full, or a row of stage 5 lacks a column: the file keeps     *)
(* what was written.                                                        *)
WriteRaises ==
  /\ Raises("write")
  /\ \E some \in SUBSET collected : file' = [by |-> run, rows |-> some, whole |-> FALSE]
  /\ UNCHANGED <<stage, unverified, left, collected>>

PrepareData ==
  ReadSource \/ ReadRaises \/ OpenFile \/ TooFewPairs \/ WriteRows \/ WriteRaises

(* What a death leaves of the file.                                         *)
FileTorn ==
  /\ IF pc = "write"
     THEN \E some \in SUBSET collected : file' = [by |-> run, rows |-> some, whole |-> FALSE]
     ELSE file' = file
  /\ UNCHANGED <<stage, unverified, left, collected>>

DataTypeOK ==
  /\ stage \in {2, 3, 5}
  /\ unverified \in BOOLEAN
  /\ left \in Seq({"plain"} \cup Guarded)
  /\ collected \subseteq Rows
  /\ file \in [by : 0..MaxRuns, rows : SUBSET Rows, whole : BOOLEAN]
=============================================================================
