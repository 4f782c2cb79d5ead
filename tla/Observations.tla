---------------------------- MODULE Observations ----------------------------
(***************************************************************************)
(* What partition_query_loader computes from its readings of               *)
(* region_statistics (observations.go, observationsFromSnapshots): rates   *)
(* between two readings, moved and reset regions, and the CPU total of     *)
(* each datanode.                                                          *)
(*                                                                         *)
(* A reading is a function from the regions the query returned to          *)
(* [time, datanode, cpu, bytes]; reading a region twice is ruled out by    *)
(* SampleRegionStatistics and uniqueRegionSnapshots.  The metrics of an    *)
(* interval are a function from regions to [requests, errors].             *)
(***************************************************************************)
EXTENDS Integers, Sequences, FiniteSets, FiniteSetsExt, Functions

CONSTANTS NoDatanode,  \* the empty datanode id: the region has no leader
          CounterSize  \* number of values of a uint64 counter

ASSUME CounterAssumption == CounterSize \in Nat \ {0}

NoMetrics == [requests |-> 0, errors |-> 0]

\* uint64 subtraction
Minus(a, b) == (a - b) % CounterSize

\* Mutant: only the CPU counter is compared.
ResetCpuOnly(now, old) == now.cpu < old.cpu

\* A counter of the region decreased.
IsReset(now, old) == now.cpu < old.cpu \/ now.bytes < old.bytes

IsMoved(now, old) == now.datanode # old.datanode

\* CalculateObservations for one region with a current reading.  cpuUsed and
\* bytesUsed are the numerators of the rates.
ObservePresent(r, current, previous, metrics) ==
    LET now == current[r]
        known == r \in DOMAIN previous
        moved == known /\ IsMoved(now, previous[r])
        reset == known /\ ~moved /\ IsReset(now, previous[r])
        valid == known /\ ~moved /\ ~reset /\ now.time > previous[r].time
    IN  [region |-> r, time |-> now.time, datanode |-> now.datanode,
         cpu |-> now.cpu, moved |-> moved, reset |-> reset, valid |-> valid,
         cpuUsed |-> IF valid THEN Minus(now.cpu, previous[r].cpu) ELSE 0,
         bytesUsed |-> IF valid THEN Minus(now.bytes, previous[r].bytes) ELSE 0,
         requests |-> metrics[r].requests, errors |-> metrics[r].errors]

\* ... and for a region that has disappeared: its old reading, marked moved.
ObserveGone(r, previous, metrics) ==
    [region |-> r, time |-> previous[r].time, datanode |-> previous[r].datanode,
     cpu |-> previous[r].cpu, moved |-> TRUE, reset |-> FALSE, valid |-> FALSE,
     cpuUsed |-> 0, bytesUsed |-> 0,
     requests |-> metrics[r].requests, errors |-> metrics[r].errors]

\* Mutant: disappeared regions are forgotten.
CalculatePresent(current, previous, metrics) ==
    {ObservePresent(r, current, previous, metrics) : r \in DOMAIN current}

CalculateObservations(current, previous, metrics) ==
    {ObservePresent(r, current, previous, metrics) : r \in DOMAIN current}
    \cup {ObserveGone(r, previous, metrics) : r \in DOMAIN previous \ DOMAIN current}

\* intervalMetrics: the k-th reading is given the interval before it, counting
\* the readings from 1; the first has none, nor has one without a counterpart.
MetricsFor(k, intervals, regions) ==
    IF k > 1 /\ k - 1 <= Len(intervals) THEN intervals[k - 1]
    ELSE [r \in regions |-> NoMetrics]

\* observationsFromSnapshots: the observations of each reading in turn.
ObservationsFromSnapshots(snapshots, intervals, regions) ==
    [k \in DOMAIN snapshots |->
        CalculateObservations(snapshots[k],
                              IF k = 1 THEN <<>> ELSE snapshots[k - 1],
                              MetricsFor(k, intervals, regions))]

\* AggregateDatanodeCPU: regions and CPU of every datanode an observation names.
AggregateDatanodeCPU(current, previous, regions) ==
    LET all == CalculateObservations(current, previous, [r \in regions |-> NoMetrics])
        named == {o.datanode : o \in all} \ {NoDatanode}
        on(d) == {o \in all : o.datanode = d}
    IN  [d \in named |-> [regionCount |-> Cardinality(on(d)),
                          cores |-> SumFunction([o \in on(d) |-> o.cpuUsed])]]
=============================================================================
