----------------------------- MODULE QueryLoad -----------------------------
(***************************************************************************)
(* A run of partition_query_loader after discovery (runConfigured): the    *)
(* first reading of region_statistics, the loop that reads it again on a   *)
(* ticker of its own beside the workload of QueryWorkload, ends with it,   *)
(* and turns the readings and the workload's intervals into observations.  *)
(* A reading is one query per region, each row with the time at which the  *)
(* reading began; the database moves, restarts and drops regions, and uses *)
(* CPU, between any two of them.                                           *)
(***************************************************************************)
EXTENDS QueryWorkload, Observations

CONSTANTS Datanodes,
          RegionOrder   \* the distinct regions of the discovered tables, in order

ASSUME LoadAssumption == /\ NoDatanode \notin Datanodes
                         /\ RegionOrder \in Seq(Regions)
                         /\ IsInjective(RegionOrder)

VARIABLES
    ldPc,       \* "first", "loop", "reading", "final", "abort", "exited", or
                \* "notStarted": the first reading failed
    ldTick,     \* ticker.C holds a tick
    ldTicks,    \* how often the ticker fired
    ctxDone,    \* the command's context is done
    began,      \* dependencies.now() of the latest reading
    unread,     \* its regions still to be queried
    rows,       \* its rows so far, by region
    snapshots,  \* the readings
    outcome,    \* "none", "written", "failed" or "cancelled"
    output,     \* the observations written, by reading
    now,        \* the wall clock
    region,     \* external: region_statistics of every region
    used,       \* external, history: cpu and bytes each region really consumed
    queried,    \* history: used and the time at the query of each of the rows
    usedAt,     \* history: queried of each of the readings
    events      \* what happened to the regions so far

readVars == <<began, unread, rows, queried, now>>
keptVars == <<snapshots, usedAt>>
loaderVars == <<ldPc, ldTick, ldTicks, began, unread, rows, queried, now, snapshots,
                usedAt, outcome, output>>
dbVars == <<region, used, events>>
loadVars == <<workloadVars, loaderVars, dbVars, ctxDone>>

Started == ldPc \notin {"first", "notStarted"}
Running == ldPc \notin {"exited", "notStarted"}

LoadInit ==
    /\ WorkloadInit
    /\ \E d \in Datanodes :
          region = [r \in Regions |-> [leader |-> d, cpu |-> 0, bytes |-> 0, listed |-> TRUE]]
    /\ used = [r \in Regions |-> [cpu |-> 0, bytes |-> 0]]
    /\ events = 0
    /\ ldPc = "first"
    /\ ldTick = FALSE
    /\ ldTicks = 0
    /\ ctxDone = FALSE
    /\ now = 0
    /\ began = 0
    /\ unread = RegionOrder
    /\ rows = <<>>
    /\ queried = <<>>
    /\ snapshots = <<>>
    /\ usedAt = <<>>
    /\ outcome = "none"
    /\ output = <<>>
-----------------------------------------------------------------------------
(* A reading.                                                                *)

TimePasses == \E advance \in {0, 1} : /\ now + advance <= setting.clock
                                      /\ now' = now + advance

StartReading == /\ TimePasses
                /\ began' = now'
                /\ unread' = RegionOrder
                /\ rows' = <<>>
                /\ queried' = <<>>

With(f, r, value) == [s \in {r} \cup DOMAIN f |-> IF s = r THEN value ELSE f[s]]

\* The query of SampleRegionStatistics for the next region returns its row, or
\* none.
QueryRegion ==
    /\ ldPc \in {"first", "reading", "final"}
    /\ ~ctxDone
    /\ unread # <<>>
    /\ TimePasses
    /\ LET r == Head(unread)
       IN  IF region[r].listed
           THEN /\ rows' = With(rows, r, [time |-> began, datanode |-> region[r].leader,
                                          cpu |-> region[r].cpu, bytes |-> region[r].bytes])
                /\ queried' = With(queried, r, [time |-> now', cpu |-> used[r].cpu,
                                                bytes |-> used[r].bytes])
           ELSE UNCHANGED <<rows, queried>>
    /\ unread' = Tail(unread)
    /\ UNCHANGED <<workloadVars, dbVars, ctxDone, ldPc, ldTick, ldTicks, began, keptVars,
                   outcome, output>>

\* snapshots = append(snapshots, current)
KeepReading == /\ unread = <<>>
               /\ snapshots' = Append(snapshots, rows)
               /\ usedAt' = Append(usedAt, queried)

FirstReading == /\ ldPc = "first"
                /\ KeepReading
                /\ ldPc' = "loop"
                /\ UNCHANGED <<workloadVars, dbVars, ctxDone, ldTick, ldTicks, readVars,
                               outcome, output>>

\* An error in the first reading returns before anything was started.
FirstFails == /\ ldPc = "first"
              /\ ldPc' = "notStarted"
              /\ outcome' = "failed"
              /\ UNCHANGED <<workloadVars, dbVars, ctxDone, ldTick, ldTicks, readVars,
                             keptVars, output>>
-----------------------------------------------------------------------------
(* The loop.  The two tickers have the same period: neither fires twice      *)
(* between two ticks of the other.                                           *)

TickerFires == /\ Started /\ Running
               /\ ldTicks < MaxTicks
               /\ ldTicks <= ticks \/ wlPc # "run"
               /\ ldTicks' = ldTicks + 1
               /\ ldTick' = TRUE
               /\ UNCHANGED <<workloadVars, dbVars, ctxDone, ldPc, readVars, keptVars,
                              outcome, output>>

TakeTick == /\ ldPc = "loop"
            /\ ldTick
            /\ ldTick' = FALSE
            /\ ldPc' = "reading"
            /\ StartReading
            /\ UNCHANGED <<workloadVars, dbVars, ctxDone, ldTicks, keptVars, outcome, output>>

ReadOnTick == /\ ldPc = "reading"
              /\ KeepReading
              /\ ldPc' = "loop"
              /\ UNCHANGED <<workloadVars, dbVars, ctxDone, ldTick, ldTicks, readVars,
                             outcome, output>>

\* Mutant: a failed reading leaves the workload running.
ReadOnTickFailsUnstopped == /\ ldPc = "reading"
                            /\ ldPc' = "exited"
                            /\ outcome' = "failed"
                            /\ UNCHANGED <<workloadVars, dbVars, ctxDone, ldTick, ldTicks,
                                           readVars, keptVars, output>>

\* Mutant: the workload is waited for but not cancelled.
ReadOnTickFailsUncancelled == /\ ldPc = "reading"
                              /\ ldPc' = "abort"
                              /\ outcome' = "failed"
                              /\ UNCHANGED <<workloadVars, dbVars, ctxDone, ldTick, ldTicks,
                                             readVars, keptVars, output>>

\* A query of the reading fails: cancel(), and wait for the workload.
ReadOnTickFails == /\ ldPc = "reading"
                   /\ stopped' = TRUE
                   /\ ldPc' = "abort"
                   /\ outcome' = "failed"
                   /\ UNCHANGED <<runnerVars, metricVars, collectVars, dbVars, ctxDone,
                                  ldTick, ldTicks, readVars, keptVars, output>>

\* case <-ctx.Done(): cancel(), and wait for the workload.
TakeCancel == /\ ldPc = "loop"
              /\ ctxDone
              /\ ldPc' = "abort"
              /\ outcome' = "cancelled"
              /\ UNCHANGED <<workloadVars, dbVars, ctxDone, ldTick, ldTicks, readVars,
                             keptVars, output>>

AbortDone == /\ ldPc = "abort"
             /\ wlPc = "returned"
             /\ ldPc' = "exited"
             /\ UNCHANGED <<workloadVars, dbVars, ctxDone, ldTick, ldTicks, readVars,
                            keptVars, outcome, output>>

\* case completed := <-workloadDone
TakeResult == /\ ldPc = "loop"
              /\ wlPc = "returned"
              /\ ldPc' = "final"
              /\ StartReading
              /\ UNCHANGED <<workloadVars, dbVars, ctxDone, ldTick, ldTicks, keptVars,
                             outcome, output>>

\* The last reading, and the observations of all readings are written.
WriteObservations == /\ ldPc = "final"
                     /\ KeepReading
                     /\ output' = ObservationsFromSnapshots(snapshots', intervals, Regions)
                     /\ outcome' = "written"
                     /\ ldPc' = "exited"
                     /\ UNCHANGED <<workloadVars, dbVars, ctxDone, ldTick, ldTicks, readVars>>

\* A query of the last reading, or the writing, fails.
FinalFails == /\ ldPc = "final"
              /\ outcome' = "failed"
              /\ ldPc' = "exited"
              /\ UNCHANGED <<workloadVars, dbVars, ctxDone, ldTick, ldTicks, readVars,
                             keptVars, output>>

\* The command's context ends, and with it the context of the workload.
Cancel == /\ ~ctxDone
          /\ Running
          /\ ctxDone' = TRUE
          /\ stopped' = TRUE
          /\ UNCHANGED <<runnerVars, metricVars, collectVars, loaderVars, dbVars>>

DurationOver == /\ Started
                /\ Stop
                /\ UNCHANGED <<loaderVars, dbVars, ctxDone>>
-----------------------------------------------------------------------------
(* The database, external: any query adds to the counters of its region; a   *)
(* region that moves or restarts counts from zero.  What happens once no      *)
(* reading can follow is left out.                                           *)

Happens == /\ events < setting.events
           /\ ldPc \in {"first", "loop", "reading", "final"}
           /\ ~ctxDone
           /\ events' = events + 1
           /\ UNCHANGED <<workloadVars, loaderVars, ctxDone>>

Consume(r) == /\ Happens
              /\ \E f \in {"cpu", "bytes"} :
                    /\ region' = [region EXCEPT ![r][f] = @ + 1]
                    /\ used' = [used EXCEPT ![r][f] = @ + 1]

Relead(r) == /\ Happens
             /\ \E d \in Datanodes \cup {NoDatanode} :
                   region' = [region EXCEPT ![r] = [@ EXCEPT !.leader = d, !.cpu = 0, !.bytes = 0]]
             /\ UNCHANGED used

ListOrDelist(r) == /\ Happens
                   /\ region' = [region EXCEPT ![r].listed = ~@]
                   /\ UNCHANGED used

Database == \E r \in Regions : Consume(r) \/ Relead(r) \/ ListOrDelist(r)

Loader == \/ QueryRegion \/ FirstReading \/ FirstFails
          \/ TakeTick \/ ReadOnTick \/ ReadOnTickFails \/ TakeCancel \/ AbortDone
          \/ TakeResult \/ WriteObservations \/ FinalFails

Workload == /\ Started
            /\ WorkloadStep
            /\ ticks' <= ldTicks + 1
            /\ UNCHANGED <<loaderVars, dbVars, ctxDone>>

LoadNext == /\ Workload \/ Loader \/ TickerFires \/ Cancel \/ DurationOver \/ Database
            /\ UNCHANGED setting

LoadSpec == LoadInit /\ [][LoadNext]_<<setting, loadVars>>

\* Goroutines run and queries end: requestCtx bounds each by the plan's
\* interval, and the MySQL driver has timeouts for the readings.  The select of
\* a runner picks a ready case at random, so it cannot pass runCtx.Done() by
\* forever.  Nothing obliges a run to be cancelled or its duration to end.
LoadFairness == /\ \A p \in Plans : /\ WF_loadVars(Workload /\ p \in Active /\ Runner(p))
                                    /\ WF_loadVars(Workload /\ p \in Active /\ Request(p))
                                    /\ SF_loadVars(Workload /\ p \in Active /\ RunnerExit(p))
                /\ WF_loadVars(Workload /\ Collector)
                /\ WF_loadVars(Loader)
FairLoadSpec == LoadSpec /\ LoadFairness
-----------------------------------------------------------------------------
\* A valid rate never claims more CPU or bytes than its region consumed between
\* the queries for it in the two readings, wherever the region has been, however
\* often its counters began again, and although the database moves on between
\* the queries of one reading; an undetected restart can only understate it.
\* The time it is divided by is positive, and runs from the beginning of the one
\* reading to that of the other: each begins before its own query, and the second
\* after the first query, so that it differs from the time between the queries by
\* no more than a reading takes.  Nor does the log line of a reading claim more
\* for a datanode than the regions it leads now consumed.
RatesUnderstate ==
    \A k \in 2..Len(snapshots) :
        LET consumed(r, f) == usedAt[k][r][f] - usedAt[k - 1][r][f]
            line == AggregateDatanodeCPU(snapshots[k], snapshots[k - 1], Regions)
            led(d) == {r \in DOMAIN snapshots[k] \cap DOMAIN snapshots[k - 1] :
                          snapshots[k][r].datanode = d}
        IN  /\ k <= Len(output) => \A o \in output[k] :
                  o.valid => /\ o.cpuUsed <= consumed(o.region, "cpu")
                             /\ o.bytesUsed <= consumed(o.region, "bytes")
                             /\ snapshots[k - 1][o.region].time < o.time
                             /\ snapshots[k - 1][o.region].time <= usedAt[k - 1][o.region].time
                             /\ usedAt[k - 1][o.region].time <= o.time
                             /\ o.time <= usedAt[k][o.region].time
            /\ \A d \in DOMAIN line :
                  line[d].cores <= SumFunction([r \in led(d) |-> consumed(r, "cpu")])

ReportedAt(k, r) ==
    SumFunction([o \in {o \in output[k] : o.region = r} |-> o.requests])
Reported(r) == SumFunction([k \in DOMAIN output |-> ReportedAt(k, r)])

\* No request shows up in two observations; and if the readings kept up with
\* the workload's intervals, each is in one, even if its region was dropped
\* from the statistics before the run ended.
RequestsReportedOnce ==
    outcome = "written" =>
        \A r \in Regions :
            /\ Reported(r) <= total[r].requests
            /\ /\ Len(snapshots) > Len(intervals)
               /\ \A k \in 2..Len(snapshots) : r \in DOMAIN snapshots[k - 1]
               => Reported(r) = total[r].requests

\* The workload returns only when no query runs and every interval is cut, so
\* that its result is complete and final, and the command, which closes the
\* database, only after the workload.
QueriesEndFirst == /\ wlPc = "returned" => InFlight = {} /\ open = NoRequests
                   /\ ldPc = "exited" => wlPc = "returned"

\* A run whose duration is over, that is cancelled or whose reading fails ends,
\* in whatever state its runners are, and so does one with nothing to query.
LoadEnds == stopped \/ ldPc = "abort" \/ Active = {} ~> ldPc \in {"exited", "notStarted"}

\* observations.go: "RequestMetrics contains workload measurements collected
\* during a sampling interval."  Then the intervals between the readings hold
\* every request of the workload.
DocMetricsCollected ==
    outcome = "written" /\ (\A k \in DOMAIN snapshots : DOMAIN snapshots[k] = Regions) =>
        \A r \in Regions : Reported(r) = total[r].requests
=============================================================================
