---------------------------- MODULE QueryWorkload ----------------------------
(***************************************************************************)
(* The workload of partition_query_loader (runWorkloadWithLookupAndLogger):*)
(* a goroutine per assigned plan with a timer of its own, the semaphore    *)
(* they share, two sets of per-region counters behind their own locks, and *)
(* the collecting loop that cuts the second set into intervals.            *)
(***************************************************************************)
EXTENDS Integers, Sequences, FiniteSets, FiniteSetsExt, Functions, SequencesExt

CONSTANTS Plans,        \* query plans
          Regions,      \* regions the plans may target
          RegionOf,     \* the region of each plan
          Settings,     \* the runs considered
          MaxTicks      \* bound on the ticks of the stats ticker

ASSUME WorkloadAssumption ==
    /\ IsFiniteSet(Plans) /\ IsFiniteSet(Regions)
    /\ RegionOf \in [Plans -> Regions]
    /\ \A s \in Settings : /\ s.plans \subseteq Plans
                            /\ s.concurrency \in Nat \ {0}
                            /\ {s.fires, s.events, s.clock} \subseteq Nat
    /\ MaxTicks \in Nat

VARIABLES
    setting,    \* [plans, concurrency, fires, events, clock]: the plans discovery
                \* assigned, --concurrency, how often a plan's timer may fire and
                \* something may happen to the regions, and the last time of the
                \* clock; never changes
    runner,     \* "timer", "lookup", "execute", "count", "tally", "release" or "done"
    armed,      \* timer.C of a runner holds a tick
    fires,      \* how often the timer of a runner was set off
    failed,     \* err != nil of a runner's request
    slots,      \* tokens in the semaphore channel
    skipped,    \* history: a firing found the semaphore full
    total,      \* metrics
    open,       \* intervalMetrics
    intervals,  \* the intervals collected
    statsTick,  \* statsTicker.C holds a tick
    ticks,      \* how often statsTicker fired
    stopped,    \* runCtx is done
    wlPc        \* "empty" without plans, "run", "wait" or "returned"

runnerVars  == <<runner, armed, fires, failed, slots, skipped>>
metricVars  == <<total, open>>
collectVars == <<intervals, statsTick, ticks, wlPc>>
workloadVars == <<runner, armed, fires, failed, slots, skipped, total, open,
                  intervals, statsTick, ticks, stopped, wlPc>>

Active == setting.plans
Concurrency == setting.concurrency

NoRequests == [r \in Regions |-> [requests |-> 0, errors |-> 0]]

\* metrics.record
Counted(metrics, p) ==
    [metrics EXCEPT ![RegionOf[p]].requests = @ + 1,
                    ![RegionOf[p]].errors = @ + (IF failed[p] THEN 1 ELSE 0)]

WorkloadInit ==
    /\ setting \in Settings
    /\ runner = [p \in Plans |-> "timer"]
    /\ armed = [p \in Plans |-> TRUE]
    /\ fires = [p \in Plans |-> 1]
    /\ failed = [p \in Plans |-> FALSE]
    /\ slots = 0
    /\ skipped = FALSE
    /\ total = NoRequests
    /\ open = NoRequests
    /\ intervals = <<>>
    /\ statsTick = FALSE
    /\ ticks = 0
    /\ stopped = FALSE
    /\ wlPc = IF Active = {} THEN "empty" ELSE "run"
-----------------------------------------------------------------------------
(* A runner.                                                                 *)

TimerFires(p) == /\ runner[p] = "timer"
                 /\ ~armed[p]
                 /\ fires[p] < setting.fires
                 /\ armed' = [armed EXCEPT ![p] = TRUE]
                 /\ fires' = [fires EXCEPT ![p] = @ + 1]
                 /\ UNCHANGED <<runner, failed, slots, skipped, metricVars, collectVars, stopped>>

\* case <-timer.C with a free slot; the context may be done already.
StartRequest(p) == /\ runner[p] = "timer"
                   /\ armed[p]
                   /\ slots < Concurrency
                   /\ slots' = slots + 1
                   /\ armed' = [armed EXCEPT ![p] = FALSE]
                   /\ runner' = [runner EXCEPT ![p] = "lookup"]
                   /\ UNCHANGED <<fires, failed, skipped, metricVars, collectVars, stopped>>

\* The semaphore is full: the execution is skipped and the timer set again.
SkipRequest(p) == /\ runner[p] = "timer"
                  /\ armed[p]
                  /\ slots >= Concurrency
                  /\ armed' = [armed EXCEPT ![p] = FALSE]
                  /\ skipped' = TRUE
                  /\ UNCHANGED <<runner, fires, failed, slots, metricVars, collectVars, stopped>>

RunnerExit(p) == /\ runner[p] = "timer"
                 /\ stopped
                 /\ runner' = [runner EXCEPT ![p] = "done"]
                 /\ UNCHANGED <<armed, fires, failed, slots, skipped, metricVars,
                                collectVars, stopped>>

\* The lookup of the newest timestamp finds one, none, or fails, which it may
\* at any time: requestCtx ends with the plan's interval and with runCtx.
Lookup(p) == /\ runner[p] = "lookup"
             /\ \/ runner' = [runner EXCEPT ![p] = "execute"] /\ UNCHANGED failed
                \/ runner' = [runner EXCEPT ![p] = "release"] /\ UNCHANGED failed
                \/ /\ runner' = [runner EXCEPT ![p] = "count"]
                   /\ failed' = [failed EXCEPT ![p] = TRUE]
             /\ UNCHANGED <<armed, fires, slots, skipped, metricVars, collectVars, stopped>>

Execute(p) == /\ runner[p] = "execute"
              /\ runner' = [runner EXCEPT ![p] = "count"]
              /\ \E err \in BOOLEAN : failed' = [failed EXCEPT ![p] = err]
              /\ UNCHANGED <<armed, fires, slots, skipped, metricVars, collectVars, stopped>>

CountRequest(p) == /\ runner[p] = "count"
                   /\ total' = Counted(total, p)
                   /\ runner' = [runner EXCEPT ![p] = "tally"]
                   /\ UNCHANGED <<armed, fires, failed, slots, skipped, open, collectVars, stopped>>

\* Mutant: the interval counts failed requests only.
TallyFailed(p) == /\ runner[p] = "tally"
                  /\ open' = IF failed[p] THEN Counted(open, p) ELSE open
                  /\ runner' = [runner EXCEPT ![p] = "release"]
                  /\ UNCHANGED <<armed, fires, failed, slots, skipped, total, collectVars, stopped>>

TallyRequest(p) == /\ runner[p] = "tally"
                   /\ open' = Counted(open, p)
                   /\ runner' = [runner EXCEPT ![p] = "release"]
                   /\ UNCHANGED <<armed, fires, failed, slots, skipped, total, collectVars, stopped>>

\* Mutant: a request that failed keeps its slot.
ReleaseSucceeded(p) == /\ runner[p] = "release"
                       /\ slots' = IF failed[p] THEN slots ELSE slots - 1
                       /\ failed' = [failed EXCEPT ![p] = FALSE]
                       /\ runner' = [runner EXCEPT ![p] = "timer"]
                       /\ UNCHANGED <<armed, fires, skipped, metricVars, collectVars, stopped>>

\* <-semaphore, then timer.Reset.
Release(p) == /\ runner[p] = "release"
              /\ slots' = slots - 1
              /\ failed' = [failed EXCEPT ![p] = FALSE]
              /\ runner' = [runner EXCEPT ![p] = "timer"]
              /\ UNCHANGED <<armed, fires, skipped, metricVars, collectVars, stopped>>
-----------------------------------------------------------------------------
(* The collecting loop.                                                      *)

StatsTickerFires == /\ ticks < MaxTicks
                    /\ wlPc = "run"
                    /\ ticks' = ticks + 1
                    /\ statsTick' = TRUE
                    /\ UNCHANGED <<runnerVars, metricVars, intervals, wlPc, stopped>>

\* snapshotAndReset
CutInterval == /\ intervals' = Append(intervals, open)
               /\ open' = NoRequests

\* case <-statsTicker.C, also chosen when runCtx is done.
Collect == /\ wlPc = "run"
           /\ statsTick
           /\ CutInterval
           /\ statsTick' = FALSE
           /\ UNCHANGED <<runnerVars, total, ticks, wlPc, stopped>>

StopCollecting == /\ wlPc = "run"
                  /\ stopped
                  /\ wlPc' = "wait"
                  /\ UNCHANGED <<runnerVars, metricVars, intervals, statsTick, ticks, stopped>>

\* done is closed: one more interval, which may be shorter, and the totals.
Return == /\ wlPc \in {"run", "wait"}
          /\ \A p \in Active : runner[p] = "done"
          /\ CutInterval
          /\ wlPc' = "returned"
          /\ UNCHANGED <<runnerVars, total, statsTick, ticks, stopped>>

\* len(plans) == 0: no interval at all, whatever the duration.
ReturnAtOnce == /\ wlPc = "empty"
                /\ wlPc' = "returned"
                /\ UNCHANGED <<runnerVars, metricVars, intervals, statsTick, ticks, stopped>>

\* The duration is over, or the caller cancelled.
Stop == /\ ~stopped
        /\ wlPc # "returned"
        /\ stopped' = TRUE
        /\ UNCHANGED <<runnerVars, metricVars, collectVars>>

Request(p) == Lookup(p) \/ Execute(p) \/ CountRequest(p) \/ TallyRequest(p) \/ Release(p)
Runner(p) == StartRequest(p) \/ SkipRequest(p) \/ RunnerExit(p) \/ Request(p)
Collector == Collect \/ StopCollecting \/ Return \/ ReturnAtOnce

WorkloadStep == (\E p \in Active : TimerFires(p) \/ Runner(p)) \/ StatsTickerFires \/ Collector
-----------------------------------------------------------------------------
Metrics == [Regions -> [requests : Nat, errors : Nat]]
InFlight == {p \in Plans : runner[p] \notin {"timer", "done"}}

\* Every token in the semaphore belongs to a request in flight: no path of a
\* request, neither an empty partition nor an error, keeps its slot, so the
\* concurrency available never shrinks.  With a slot for every plan nothing is
\* skipped: a plan never competes with its own last request.
SlotsBalance == /\ slots = Cardinality(InFlight)
                /\ Concurrency >= Cardinality(Active) => ~skipped

Collected(parts, region, field) ==
    SumFunction([k \in DOMAIN parts |-> parts[k][region][field]])

\* The two sets of counters have separate locks and are read at different
\* times; all that is in one and not in the other are the requests between
\* their two record calls.
CountersAgree ==
    \A r \in Regions :
        LET between == {p \in Plans : runner[p] = "tally" /\ RegionOf[p] = r}
        IN  /\ total[r].requests = Collected(intervals, r, "requests") + open[r].requests
                                       + Cardinality(between)
            /\ total[r].errors = Collected(intervals, r, "errors") + open[r].errors
                                     + Cardinality({p \in between : failed[p]})

=============================================================================
