--------------------------- MODULE MCSampleLoader ---------------------------
(* Small instances of SampleLoader for TLC.                                 *)
EXTENDS SampleLoader, TLC

CONSTANTS w1, w2

\* Workers are interchangeable; used only without temporal properties.
WorkerSymmetry == Permutations(Workers)

Finite(from, to, step) == [infinite |-> FALSE, duration |-> FALSE, dryRun |-> FALSE,
                           churn |-> FALSE, workers |-> Workers, start |-> from, end |-> to, interval |-> step]
TwoDates == Finite(0, 2, 2)
Duration == [Finite(0, 0, 1) EXCEPT !.duration = TRUE]

\* A run with a duration, real and dry; an endless one whose labels churn; one
\* over two dates, the last of them the end date, and one whose dates are
\* swapped.  With a duration also without workers.
WithoutWorkers == [Duration EXCEPT !.workers = {}]
AllModes == {Duration, WithoutWorkers, [Duration EXCEPT !.dryRun = TRUE],
             [Finite(0, 0, 1) EXCEPT !.infinite = TRUE, !.churn = TRUE],
             TwoDates, Finite(1, 0, 1)}
\* The runs that have to end.
EndingModes == {Duration, WithoutWorkers, TwoDates}
=============================================================================
