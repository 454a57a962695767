----------------------------- MODULE MCTrainRun -----------------------------
(* TrainRun with datasets that hold a row the guard drops, one it keeps,    *)
(* one that only the keys give away, and one of the other sources.          *)
EXTENDS TrainRun

Row(source, about, id, repo) ==
  [source |-> source, about |-> about, id |-> id, repo |-> repo]

MCRows ==
  {Row("plain", "other", FALSE, FALSE),
   Row("swegym", "verified", TRUE, TRUE),
   Row("swegym", "other", TRUE, TRUE),
   Row("nebius", "verified", TRUE, FALSE),
   Row("nebius", "verified", FALSE, TRUE)}
=============================================================================
