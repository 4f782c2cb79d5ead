-------------------------- MODULE ChurnAllocation --------------------------
(***************************************************************************)
(* ChurnCounts (pkg/samples/parse.go): how the series to churn, a share of *)
(* all series, are spread over the metrics.  Every metric gets the floor   *)
(* of its part in one pass over the metrics in name order, and a second    *)
(* pass hands out what is left, one each.                                  *)
(*                                                                         *)
(* The part is computed in float64.  It may come out just below a whole    *)
(* number it should equal, and the floor is then one less.                 *)
(***************************************************************************)
EXTENDS Integers, FiniteSetsExt, Functions

CONSTANTS N,             \* number of metrics
          SeriesCounts,  \* the functions from metrics to series to be tried
          Targets,       \* what Round(rate * total) may be
          RoundsDown(_, _, _)  \* whether a part series / total * target that is
                               \* a whole number may come out below it

ASSUME AllocationAssumption == /\ N \in Nat \ {0}
                               /\ Targets \subseteq Nat
                               /\ SeriesCounts \subseteq [1..N -> Nat]

\* The metrics in name order.
Metrics == 1..N

VARIABLES churnSeries, target,
          pass,       \* "floor", "rest" or "done"
          churnNext,  \* the metric the pass is at
          counts, remaining

churnVars == <<churnSeries, target, pass, churnNext, counts, remaining>>

Total == SumFunctionOnSet(churnSeries, Metrics)

\* The rate is positive, and there are series: otherwise all counts are zero.
ChurnInit == /\ churnSeries \in SeriesCounts
             /\ Total > 0
             /\ target \in {Min({t, Total}) : t \in Targets}
             /\ pass = "floor"
             /\ churnNext = 1
             /\ counts = [m \in Metrics |-> 0]
             /\ remaining = target

\* The values the floor of SeriesCount / totalSeries * target may have.
Part(m) ==
    LET exact == (churnSeries[m] * target) \div Total
        whole == (churnSeries[m] * target) % Total = 0
    IN  {exact} \cup (IF whole /\ exact > 0 /\ RoundsDown(churnSeries[m], Total, target)
                      THEN {exact - 1} ELSE {})

Floor == /\ pass = "floor"
         /\ churnNext \in Metrics
         /\ remaining > 0
         /\ \E share \in Part(churnNext) :
               /\ counts' = [counts EXCEPT ![churnNext] = Min({share, remaining})]
               /\ remaining' = remaining - Min({share, remaining})
         /\ churnNext' = churnNext + 1
         /\ UNCHANGED <<churnSeries, target, pass>>

\* The end of the first loop, also its break.
FloorDone == /\ pass = "floor"
             /\ churnNext \notin Metrics \/ remaining = 0
             /\ pass' = "rest"
             /\ churnNext' = 1
             /\ UNCHANGED <<churnSeries, target, counts, remaining>>

\* Mutant: the metrics get a remainder only if they have a part.
RestToChurned == /\ pass = "rest"
                 /\ churnNext \in Metrics
                 /\ remaining > 0
                 /\ IF counts[churnNext] > 0
                    THEN counts' = [counts EXCEPT ![churnNext] = @ + 1] /\ remaining' = remaining - 1
                    ELSE UNCHANGED <<counts, remaining>>
                 /\ churnNext' = churnNext + 1
                 /\ UNCHANGED <<churnSeries, target, pass>>

Rest == /\ pass = "rest"
        /\ churnNext \in Metrics
        /\ remaining > 0
        /\ counts' = [counts EXCEPT ![churnNext] = @ + 1]
        /\ remaining' = remaining - 1
        /\ churnNext' = churnNext + 1
        /\ UNCHANGED <<churnSeries, target, pass>>

RestDone == /\ pass = "rest"
            /\ churnNext \notin Metrics \/ remaining = 0
            /\ pass' = "done"
            /\ UNCHANGED <<churnSeries, target, churnNext, counts, remaining>>

ChurnNext == Floor \/ FloorDone \/ Rest \/ RestDone

ChurnSpec == ChurnInit /\ [][ChurnNext]_churnVars
-----------------------------------------------------------------------------
\* Nothing of the target is left over, even if every part came out low: one
\* series for each metric is enough for what the floors leave.  Every metric
\* churns its due, give or take less than one series, so that it does not matter
\* much which metrics get the rest, and not more series than it has unless it has
\* none or all are to churn.
ChurnSpread ==
    pass = "done" =>
        /\ SumFunctionOnSet(counts, Metrics) = target
        /\ \A m \in Metrics :
              LET due == churnSeries[m] * target
              IN  /\ counts[m] * Total \in (due - Total)..(due + Total)
                  /\ target < Total /\ churnSeries[m] > 0 => counts[m] <= churnSeries[m]

\* pkg/samples/parse.go:124-125: "ChurnCounts returns the size of each metric's
\* deterministic prefix of churned series", which no metric exceeds.
DocPrefix == pass = "done" => \A m \in Metrics : counts[m] <= churnSeries[m]
=============================================================================
