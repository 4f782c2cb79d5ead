--------------------------- MODULE PlanAssignment ---------------------------
(***************************************************************************)
(* assignPlans of partition_query_loader (workload.go): which plans are    *)
(* hot, and the period and the window each plan keeps for the whole run.   *)
(* The hot plans come from the datanode with most plans, the others only   *)
(* if it has too few.  One is a nanosecond.                                *)
(***************************************************************************)
EXTENDS Integers, Sequences, FiniteSets, FiniteSetsExt

CONSTANTS NumPlans,      \* number of plans
          Datanodes,
          HotPartitions, \* values of --hot-partitions to be tried
          Shares,        \* values of --hot-share, in tenths
          PeriodMin, PeriodMaxs,       \* --period-min and values of --period-max
          TimeRangeMin, TimeRangeMaxs  \* --time-range-min, values of --time-range-max

Plans == 1..NumPlans

\* What Config.Validate lets through.
ASSUME ConfigAssumption ==
    /\ NumPlans \in Nat \ {0}
    /\ HotPartitions \subseteq Nat \ {0}
    /\ Shares \subseteq 1..10
    /\ PeriodMin \in Nat \ {0}
    /\ \A max \in PeriodMaxs : max \in Nat /\ max >= PeriodMin
    /\ TimeRangeMin \in Nat \ {0}
    /\ \A max \in TimeRangeMaxs : max \in Nat /\ max >= TimeRangeMin

VARIABLES
    leader,       \* Plans -> Datanodes
    hotCount,     \* --hot-partitions, at most all plans
    periodMax, timeRangeMax,
    hotPeriodMax, \* the end of the hot plans' periods
    hot,          \* the hot plans
    planPc,       \* "datanode", "others", "assign" or "done"
    nextPlan,     \* the plan to be assigned
    period, timeRange  \* of the plans assigned

config == <<leader, hotCount, periodMax, timeRangeMax, hotPeriodMax>>
planVars == <<config, hot, planPc, nextPlan, period, timeRange>>

\* PeriodMin + (PeriodMax - PeriodMin) * (1 - share), the product in float64 and
\* then cut: where it should be a whole number it may come out below it.
HotPeriodMaxs(max, share) ==
    LET tenths == (max - PeriodMin) * (10 - Max({share, 5}))
    IN  {PeriodMin + (tenths \div 10)} \cup
        (IF tenths % 10 = 0 /\ tenths > 0 THEN {PeriodMin + (tenths \div 10) - 1} ELSE {})

PlanStart == /\ hot = {}
             /\ planPc = "datanode"
             /\ nextPlan = 1
             /\ period = <<>>
             /\ timeRange = <<>>

PlanInit == /\ leader \in [Plans -> Datanodes]
            /\ hotCount \in {Min({n, NumPlans}) : n \in HotPartitions}
            /\ periodMax \in PeriodMaxs
            /\ timeRangeMax \in TimeRangeMaxs
            /\ \E share \in Shares : hotPeriodMax \in HotPeriodMaxs(periodMax, share)
            /\ PlanStart

Group(d) == {p \in Plans : leader[p] = d}

\* The datanodes with most plans; the random source breaks the tie.
LargestGroups ==
    {Group(d) : d \in {e \in Datanodes : \A f \in Datanodes :
                            Cardinality(Group(f)) <= Cardinality(Group(e))}}

\* A shuffle and its first plans: any of that number.
HotOfDatanode ==
    /\ planPc = "datanode"
    /\ \E group \in LargestGroups :
          hot' \in kSubset(Min({hotCount, Cardinality(group)}), group)
    /\ planPc' = "others"
    /\ UNCHANGED <<config, nextPlan, period, timeRange>>

HotOfOthers ==
    /\ planPc = "others"
    /\ \E more \in kSubset(hotCount - Cardinality(hot), Plans \ hot) :
          hot' = hot \cup more
    /\ planPc' = "assign"
    /\ UNCHANGED <<config, nextPlan, period, timeRange>>

WindowSplit == TimeRangeMin + ((timeRangeMax - TimeRangeMin) \div 2)

\* Mutant: the hot windows start at the end of the cold ones.
HotWindowMinAtSplit == WindowSplit
HotWindowMin == IF WindowSplit < timeRangeMax THEN WindowSplit + 1 ELSE WindowSplit
ColdPeriodMin == IF hotPeriodMax < periodMax THEN hotPeriodMax + 1 ELSE hotPeriodMax

\* If all plans are hot their periods are not narrowed; their windows are.
Skewed == hotCount > 0 /\ hotCount < NumPlans

RandomDuration(min, max) == IF min >= max THEN {min} ELSE min..max

Period(p) == RandomDuration(IF Skewed /\ p \notin hot THEN ColdPeriodMin ELSE PeriodMin,
                            IF Skewed /\ p \in hot THEN hotPeriodMax ELSE periodMax)

TimeRange(p) == IF p \in hot THEN RandomDuration(HotWindowMin, timeRangeMax)
                             ELSE RandomDuration(TimeRangeMin, WindowSplit)

Assign == /\ planPc = "assign"
          /\ nextPlan \in Plans
          /\ \E d \in Period(nextPlan) : period' = Append(period, d)
          /\ \E d \in TimeRange(nextPlan) : timeRange' = Append(timeRange, d)
          /\ nextPlan' = nextPlan + 1
          /\ planPc' = IF nextPlan = NumPlans THEN "done" ELSE planPc
          /\ UNCHANGED <<config, hot>>

PlanNext == HotOfDatanode \/ HotOfOthers \/ Assign

PlanSpec == PlanInit /\ [][PlanNext]_planVars
-----------------------------------------------------------------------------
Hot == {p \in 1..Len(period) : p \in hot}
Cold == 1..Len(period) \ hot

\* Every hot plan is asked more often than every cold one, and for a longer time
\* (TestPlanAssignmentsArePersistentSeededAndPreserveHotSkew looks at one draw),
\* whenever the configured ranges have room for both, and the split does not push
\* a period or a window out of these ranges.
HotterInBoth ==
    /\ \A h \in Hot, c \in Cold :
          /\ period[h] <= period[c]
          /\ PeriodMin < periodMax => period[h] < period[c]
          /\ timeRange[h] >= timeRange[c]
          /\ TimeRangeMin < timeRangeMax => timeRange[h] > timeRange[c]
    /\ \A p \in 1..Len(period) : /\ period[p] \in PeriodMin..periodMax
                                 /\ timeRange[p] \in TimeRangeMin..timeRangeMax
=============================================================================
