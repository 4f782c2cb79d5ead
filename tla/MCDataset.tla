----------------------------- MODULE MCDataset -----------------------------
(* Instances of Dataset for TLC.                                             *)
EXTENDS Dataset

CONSTANTS r1, r2

\* Two metrics, one of whose three series churns, and two scrapes.
Small == [series |-> <<2, 1>>, churn |-> <<1, 0>>, window |-> 4, interval |-> 2,
          churnInterval |-> 2, maxSamples |-> 2, runs |-> {r1}, overlap |-> FALSE, edits |-> 0]

AllDatasets ==
    { \* Two runs one after the other, a window the interval does not divide,
      \* epochs of one and a half scrapes.
      [Small EXCEPT !.runs = {r1, r2}, !.window = 7, !.churnInterval = 3, !.maxSamples = 5],
      \* Epochs shorter than the interval.
      [Small EXCEPT !.series = <<1, 2>>, !.churn = <<0, 1>>, !.window = 9,
                    !.churnInterval = 1, !.maxSamples = 3],
      \* Two runs at the same time.
      [Small EXCEPT !.runs = {r1, r2}, !.overlap = TRUE],
      \* Edits of the published directory.
      [Small EXCEPT !.maxSamples = 4, !.edits = 2]}
=============================================================================
