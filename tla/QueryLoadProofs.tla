-------------------------- MODULE QueryLoadProofs --------------------------
(***************************************************************************)
(* partition_query_loader for any number of plans, regions, slots and      *)
(* ticks: its slots, the end of its run, the counters of its two maps, and *)
(* what its observations say of the requests and of the database's load.   *)
(***************************************************************************)
EXTENDS QueryLoad, FoldLemmas, SequenceTheorems, TLAPS

Busy == {"lookup", "execute", "count", "tally", "release"}

LoadTypes ==
    /\ setting \in Settings
    /\ runner \in [Plans -> Busy \cup {"timer", "done"}]
    /\ slots \in Nat
    /\ wlPc \in {"empty", "run", "wait", "returned"}

\* Plans that discovery assigned no runner to do nothing.  This is what the second
\* half of SlotsBalance needs: the runner that finds no slot is itself not in
\* flight, so the others, which are fewer than the plans, hold all slots.
OthersRest == \A p \in Plans \ Active : runner[p] = "timer"

\* What the program counters of workload and command say of each other.
Endings == /\ wlPc = "empty" => Active = {} /\ open = NoRequests
           /\ wlPc = "returned" => open = NoRequests /\ \A p \in Active : runner[p] = "done"
           /\ ldPc \in {"final", "exited"} => wlPc = "returned"

LoadInv == LoadTypes /\ OthersRest /\ SlotsBalance /\ Endings
-----------------------------------------------------------------------------
LEMMA PlansFinite ==
    ASSUME setting \in Settings
    PROVE  /\ IsFiniteSet(Plans) /\ Active \subseteq Plans /\ IsFiniteSet(Active)
           /\ IsFiniteSet(InFlight) /\ InFlight \subseteq Plans
           /\ Cardinality(InFlight) \in Nat /\ Cardinality(Active) \in Nat
           /\ Concurrency \in Nat \ {0}
<1>1. IsFiniteSet(Plans) /\ Active \subseteq Plans /\ Concurrency \in Nat \ {0}
  BY WorkloadAssumption DEF Active, Concurrency
<1>2. InFlight \subseteq Plans
  BY DEF InFlight
<1>3. IsFiniteSet(Active) /\ IsFiniteSet(InFlight)
  BY <1>1, <1>2, FS_Subset
<1> QED
  BY <1>1, <1>2, <1>3, FS_CardinalityType

LEMMA LoadInitInv == LoadInit => LoadInv
<1> SUFFICES ASSUME LoadInit PROVE LoadInv
  OBVIOUS
<1> USE DEF LoadInit, WorkloadInit
<1>1. LoadTypes /\ OthersRest /\ Endings
  BY WorkloadAssumption DEF LoadTypes, OthersRest, Endings, Active
<1>2. InFlight = {} /\ Cardinality({}) = 0
  BY FS_EmptySet, WorkloadAssumption DEF InFlight
<1> QED
  BY <1>1, <1>2 DEF LoadInv, SlotsBalance

\* A request that takes or gives back a slot is counted once more or once less.
LEMMA StartInv ==
    ASSUME LoadInv, NEW p \in Active, StartRequest(p), UNCHANGED <<setting, ldPc>>
    PROVE  LoadInv'
<1>1. /\ runner[p] = "timer" /\ runner' = [runner EXCEPT ![p] = "lookup"] /\ slots' = slots + 1
      /\ UNCHANGED <<setting, skipped, open, wlPc, ldPc>> /\ p \in Plans
  BY PlansFinite DEF LoadInv, LoadTypes, StartRequest, metricVars, collectVars
<1>2. InFlight' = InFlight \cup {p} /\ p \notin InFlight
  BY <1>1 DEF LoadInv, LoadTypes, InFlight
<1>3. Cardinality(InFlight') = slots' /\ slots' \in Nat
  <2>1. IsFiniteSet(InFlight) /\ slots = Cardinality(InFlight) /\ slots \in Nat
    BY PlansFinite DEF LoadInv, LoadTypes, SlotsBalance
  <2>2. Cardinality(InFlight \cup {p}) = Cardinality(InFlight) + 1
    BY <1>2, <2>1, FS_AddElement
  <2> QED
    BY <1>1, <1>2, <2>1, <2>2
<1>4. LoadTypes' /\ OthersRest' /\ Endings'
  BY <1>1, <1>3 DEF LoadInv, LoadTypes, OthersRest, Endings, Active, Busy
<1> QED
  BY <1>1, <1>3, <1>4 DEF LoadInv, SlotsBalance, Active, Concurrency

LEMMA ReleaseInv ==
    ASSUME LoadInv, NEW p \in Active, Release(p), UNCHANGED <<setting, ldPc>>
    PROVE  LoadInv'
<1>1. /\ runner[p] = "release" /\ runner' = [runner EXCEPT ![p] = "timer"] /\ slots' = slots - 1
      /\ UNCHANGED <<setting, skipped, open, wlPc, ldPc>> /\ p \in Plans
  BY PlansFinite DEF LoadInv, LoadTypes, Release, metricVars, collectVars
<1>2. InFlight' = InFlight \ {p} /\ p \in InFlight
  BY <1>1 DEF LoadInv, LoadTypes, InFlight
<1>3. Cardinality(InFlight') = slots' /\ Cardinality(InFlight') \in Nat
  <2>1. IsFiniteSet(InFlight) /\ slots = Cardinality(InFlight) /\ slots \in Nat
    BY PlansFinite DEF LoadInv, LoadTypes, SlotsBalance
  <2>2. IsFiniteSet(InFlight \ {p}) /\ Cardinality(InFlight \ {p}) = Cardinality(InFlight) - 1
    BY <1>2, <2>1, FS_RemoveElement
  <2>3. Cardinality(InFlight \ {p}) \in Nat
    BY <2>2, FS_CardinalityType
  <2> QED
    BY <1>1, <1>2, <2>1, <2>2, <2>3
<1>4. LoadTypes' /\ OthersRest' /\ Endings'
  BY <1>1, <1>3 DEF LoadInv, LoadTypes, OthersRest, Endings, Active
<1> QED
  BY <1>1, <1>3, <1>4 DEF LoadInv, SlotsBalance, Active, Concurrency

\* A firing that finds no slot: there are as many other requests as slots.
LEMMA SkipInv ==
    ASSUME LoadInv, NEW p \in Active, SkipRequest(p), UNCHANGED <<setting, ldPc>>
    PROVE  LoadInv'
<1>1. /\ runner[p] = "timer" /\ slots >= Concurrency
      /\ UNCHANGED <<setting, runner, slots, open, wlPc, ldPc>>
  BY DEF SkipRequest, metricVars, collectVars
<1>2. InFlight \subseteq Active \ {p}
  BY <1>1 DEF LoadInv, OthersRest, InFlight
<1>3. Cardinality(Active \ {p}) = Cardinality(Active) - 1
  BY PlansFinite, FS_RemoveElement DEF LoadInv, LoadTypes
<1>4. Cardinality(InFlight) <= Cardinality(Active \ {p})
  BY <1>2, PlansFinite, FS_RemoveElement, FS_Subset DEF LoadInv, LoadTypes
<1>5. ~(Concurrency >= Cardinality(Active))
  BY <1>1, <1>3, <1>4, PlansFinite DEF LoadInv, LoadTypes, SlotsBalance
<1>6. InFlight' = InFlight
  BY <1>1 DEF InFlight
<1> QED
  BY <1>1, <1>5, <1>6 DEF LoadInv, LoadTypes, OthersRest, SlotsBalance, Endings, Active, Concurrency

\* Between the two a request goes on, or a runner that holds no slot leaves.
LEMMA RunnerInv ==
    ASSUME LoadInv, NEW p \in Active, UNCHANGED <<setting, ldPc>>,
           RunnerExit(p) \/ Lookup(p) \/ Execute(p) \/ CountRequest(p) \/ TallyRequest(p)
    PROVE  LoadInv'
<1> p \in Plans
  BY PlansFinite DEF LoadInv, LoadTypes
<1>1. PICK state \in Busy \cup {"done"} :
         /\ runner' = [runner EXCEPT ![p] = state]
         /\ IF state = "done" THEN runner[p] = "timer"
                              ELSE runner[p] \in Busy
  <2>1. CASE RunnerExit(p)
    BY <2>1 DEF RunnerExit
  <2>2. CASE Lookup(p)
    BY <2>2 DEF Lookup, Busy
  <2>3. CASE Execute(p)
    BY <2>3 DEF Execute, Busy
  <2>4. CASE CountRequest(p)
    BY <2>4 DEF CountRequest, Busy
  <2>5. CASE TallyRequest(p)
    BY <2>5 DEF TallyRequest, Busy
  <2> QED
    BY <2>1, <2>2, <2>3, <2>4, <2>5
<1>2. UNCHANGED <<slots, skipped, wlPc>> /\ (runner[p] \in Busy \/ open' = open)
  BY DEF RunnerExit, Lookup, Execute, CountRequest, TallyRequest, metricVars, collectVars, Busy
<1>3. InFlight' = InFlight
  BY <1>1 DEF LoadInv, LoadTypes, InFlight, Busy
<1>4. wlPc # "empty" /\ (runner[p] \in Busy => wlPc # "returned")
  BY DEF LoadInv, Endings, Busy
<1>5. LoadTypes' /\ OthersRest'
  BY <1>1, <1>2 DEF LoadInv, LoadTypes, OthersRest, Active
<1>6. Endings'
  BY <1>1, <1>2, <1>4 DEF LoadInv, LoadTypes, Endings, Active, Busy
<1> QED
  BY <1>2, <1>3, <1>5, <1>6 DEF LoadInv, SlotsBalance, Active, Concurrency

\* The collecting loop, the tickers, the command and the database hold no slot.
LEMMA OthersInv ==
    ASSUME LoadInv, UNCHANGED <<setting, runner, slots, skipped>>,
           \/ UNCHANGED <<open, wlPc>>
           \/ wlPc \in {"run", "wait"} /\ wlPc' # "empty" /\ LoadTypes' /\
              (wlPc' = "returned" => open' = NoRequests /\ \A p \in Active : runner[p] = "done")
           \/ wlPc = "empty" /\ wlPc' = "returned" /\ open' = open,
           ldPc' \in {"final", "exited"} => ldPc' = ldPc \/ wlPc = "returned" \/ wlPc' = "returned"
    PROVE  LoadInv'
<1>1. InFlight' = InFlight
  BY DEF InFlight
<1>2. LoadTypes' /\ OthersRest'
  BY DEF LoadInv, LoadTypes, OthersRest, Active
<1>3. Endings'
  BY DEF LoadInv, LoadTypes, Endings, Active
<1> QED
  BY <1>1, <1>2, <1>3 DEF LoadInv, SlotsBalance, Active, Concurrency

LEMMA LoadStep ==
    ASSUME LoadInv, [LoadNext]_<<setting, loadVars>>
    PROVE  LoadInv'
<1> USE DEF loaderVars, runnerVars, metricVars, collectVars
<1>1. ASSUME LoadNext, Workload PROVE LoadInv'
  <2>1. UNCHANGED <<setting, ldPc>> /\ WorkloadStep
    BY <1>1 DEF LoadNext, Workload
  <2>2. ASSUME NEW p \in Active, TimerFires(p) PROVE LoadInv'
    BY <2>1, <2>2, OthersInv DEF TimerFires
  <2>3. ASSUME NEW p \in Active, Runner(p) PROVE LoadInv'
    BY <2>1, <2>3, StartInv, SkipInv, ReleaseInv, RunnerInv DEF Runner, Request
  <2>4. CASE StatsTickerFires
    BY <2>1, <2>4, OthersInv DEF StatsTickerFires
  <2>5. CASE Collect
    <3>1. UNCHANGED <<setting, ldPc, runner, slots, skipped, wlPc>> /\ wlPc = "run"
      BY <2>1, <2>5 DEF Collect
    <3>2. LoadTypes'
      BY <3>1 DEF LoadInv, LoadTypes
    <3> QED
      BY <3>1, <3>2, OthersInv
  <2>6. CASE StopCollecting
    <3>1. UNCHANGED <<setting, ldPc, runner, slots, skipped>> /\ wlPc = "run" /\ wlPc' = "wait"
      BY <2>1, <2>6 DEF StopCollecting
    <3>2. LoadTypes'
      BY <3>1 DEF LoadInv, LoadTypes
    <3> QED
      BY <3>1, <3>2, OthersInv
  <2>7. CASE Return
    <3>1. /\ UNCHANGED <<setting, ldPc, runner, slots, skipped>> /\ wlPc \in {"run", "wait"}
          /\ wlPc' = "returned" /\ open' = NoRequests /\ \A p \in Active : runner[p] = "done"
      BY <2>1, <2>7 DEF Return, CutInterval
    <3>2. LoadTypes'
      BY <3>1 DEF LoadInv, LoadTypes
    <3> QED
      BY <3>1, <3>2, OthersInv
  <2>8. CASE ReturnAtOnce
    BY <2>1, <2>8, OthersInv DEF ReturnAtOnce
  <2> QED
    BY <2>1, <2>2, <2>3, <2>4, <2>5, <2>6, <2>7, <2>8 DEF WorkloadStep, Collector
<1>2. ASSUME LoadNext, Loader PROVE LoadInv'
  <2>1. UNCHANGED <<setting, runner, slots, skipped, open, wlPc>>
    BY <1>2 DEF LoadNext, Loader, QueryRegion, FirstReading, FirstFails, TakeTick, ReadOnTick,
                ReadOnTickFails, TakeCancel, AbortDone, TakeResult, WriteObservations, FinalFails, workloadVars
  <2>2. ldPc' \in {"final", "exited"} => wlPc = "returned"
    BY <1>2 DEF Loader, QueryRegion, FirstReading, FirstFails, TakeTick, ReadOnTick,
                ReadOnTickFails, TakeCancel, AbortDone, TakeResult, WriteObservations, FinalFails, LoadInv, Endings
  <2> QED
    BY <2>1, <2>2, OthersInv
<1>3. ASSUME LoadNext, TickerFires \/ Cancel \/ DurationOver \/ Database PROVE LoadInv'
  <2>1. UNCHANGED <<setting, runner, slots, skipped, open, wlPc, ldPc>>
    BY <1>3 DEF LoadNext, TickerFires, Cancel, DurationOver, Stop, Database, Consume, Relead, ListOrDelist,
                Happens, workloadVars
  <2> QED
    BY <2>1, OthersInv
<1>4. CASE UNCHANGED <<setting, loadVars>>
  <2>1. UNCHANGED <<setting, runner, slots, skipped, open, wlPc, ldPc>>
    BY <1>4 DEF loadVars, workloadVars
  <2> QED
    BY <2>1, OthersInv
<1> QED
  BY <1>1, <1>2, <1>3, <1>4 DEF LoadNext

\* The strengthening above is an invariant of every run of the command.
THEOREM LoadInvariance == LoadSpec => []LoadInv
BY LoadInitInv, LoadStep, PTL DEF LoadSpec

\* No path of a request keeps its slot, and with a slot for every plan no execution
\* is skipped.
THEOREM SlotsKept == LoadSpec => []SlotsBalance
<1>1. LoadInv => SlotsBalance
  BY DEF LoadInv
<1> QED
  BY <1>1, LoadInvariance, PTL

\* The workload returns a complete result with no query in flight, and the command
\* only after the workload, whatever fails or is cancelled.
THEOREM QueriesEnd == LoadSpec => []QueriesEndFirst
<1>1. LoadInv => QueriesEndFirst
  <2> SUFFICES ASSUME LoadInv PROVE QueriesEndFirst
    OBVIOUS
  <2>1. wlPc = "returned" => InFlight = {} /\ open = NoRequests
    BY DEF LoadInv, OthersRest, Endings, InFlight
  <2> QED
    BY <2>1 DEF QueriesEndFirst, LoadInv, Endings
<1> QED
  BY <1>1, LoadInvariance, PTL
-----------------------------------------------------------------------------
(* The two sets of counters.                                                 *)

CountTypes ==
    /\ total \in Metrics /\ open \in Metrics /\ intervals \in Seq(Metrics)
    /\ runner \in [Plans -> Busy \cup {"timer", "done"}]
    /\ failed \in [Plans -> BOOLEAN]

\* The requests of a region between their two record calls.
Between(r) == {p \in Plans : runner[p] = "tally" /\ RegionOf[p] = r}
BetweenFailed(r) == {p \in Between(r) : failed[p]}

Agree(r) ==
    /\ total[r].requests = Collected(intervals, r, "requests") + open[r].requests + Cardinality(Between(r))
    /\ total[r].errors = Collected(intervals, r, "errors") + open[r].errors + Cardinality(BetweenFailed(r))

CountInv == CountTypes /\ \A r \in Regions : Agree(r)

Fields == {"requests", "errors"}

LEMMA CollectedEmpty ==
    ASSUME NEW r, NEW f
    PROVE  Collected(<<>>, r, f) = 0
<1>1. DOMAIN [k \in DOMAIN <<>> |-> <<>>[k][r][f]] = {}
  OBVIOUS
<1> QED
  BY <1>1, SumEmpty DEF Collected, SumFunction

\* Cutting an interval moves what it holds to the intervals collected.
LEMMA CollectedAppend ==
    ASSUME NEW parts \in Seq(Metrics), NEW m \in Metrics, NEW r \in Regions, NEW f \in Fields
    PROVE  /\ Collected(parts, r, f) \in Nat
           /\ Collected(Append(parts, m), r, f) = Collected(parts, r, f) + m[r][f]
<1> DEFINE n == Len(parts)
           more == Append(parts, m)
           e == [k \in DOMAIN parts |-> parts[k][r][f]]
           g == [k \in DOMAIN more |-> more[k][r][f]]
<1>1. /\ n \in Nat /\ DOMAIN parts = 1..n /\ DOMAIN more = 1..(n + 1)
      /\ (\A k \in 1..n : more[k] = parts[k]) /\ more[n + 1] = m
  BY AppendProperties, LenProperties
<1>2. \A k \in 1..n : parts[k][r][f] \in Nat
  <2>1. \A k \in 1..n : parts[k] \in Metrics
    BY ElementOfSeq
  <2> QED
    BY <2>1 DEF Metrics, Fields
<1>3. m[r][f] \in Nat
  BY DEF Metrics, Fields
<1> HIDE DEF n, more
<1>4. /\ \A k \in 1..n : e[k] \in Nat /\ g[k] = e[k]
      /\ g[n + 1] = m[r][f]
      /\ \A k \in 1..(n + 1) : g[k] \in Int
  BY <1>1, <1>2, <1>3
<1>5. DOMAIN e = 1..n /\ DOMAIN g = 1..(n + 1)
  BY <1>1
<1> HIDE DEF e, g
<1>6. IsFiniteSet(1..n)
  BY <1>1, FS_Interval
<1>7. SumFunctionOnSet(e, 1..n) \in Nat
  BY <1>4, <1>6, SumTypes
<1>8. SumFunctionOnSet(g, 1..(n + 1)) = SumFunctionOnSet(g, 1..n) + g[n + 1]
  BY <1>1, <1>4, SumLast
<1>9. SumFunctionOnSet(g, 1..n) = SumFunctionOnSet(e, 1..n)
  BY <1>4, <1>6, SumSame
<1>10. Collected(parts, r, f) = SumFunctionOnSet(e, 1..n)
       /\ Collected(more, r, f) = SumFunctionOnSet(g, 1..(n + 1))
  BY <1>5 DEF Collected, SumFunction, e, g
<1> QED
  BY <1>4, <1>7, <1>8, <1>9, <1>10 DEF more

\* metrics.record counts one request of one region.
LEMMA CountedOne ==
    ASSUME NEW m \in Metrics, NEW p \in Plans
    PROVE  /\ Counted(m, p) \in Metrics
           /\ \A r \in Regions : r # RegionOf[p] => Counted(m, p)[r] = m[r]
           /\ Counted(m, p)[RegionOf[p]].requests = m[RegionOf[p]].requests + 1
           /\ Counted(m, p)[RegionOf[p]].errors = m[RegionOf[p]].errors + (IF failed[p] THEN 1 ELSE 0)
<1> DEFINE g == RegionOf[p]
           one == IF failed[p] THEN 1 ELSE 0
           c == [requests |-> m[g].requests + 1, errors |-> m[g].errors + one]
<1>1. g \in Regions /\ one \in Nat
  BY WorkloadAssumption
<1> HIDE DEF one, g
<1>2. m[g] \in [requests : Nat, errors : Nat]
  BY <1>1 DEF Metrics
<1>3. Counted(m, p) = [m EXCEPT ![g].requests = @ + 1, ![g].errors = @ + one]
  BY DEF Counted, g, one
<1>4. Counted(m, p)[g] = c /\ \A r \in Regions : r # g => Counted(m, p)[r] = m[r]
  BY <1>1, <1>2, <1>3 DEF Metrics
<1>5. c \in [requests : Nat, errors : Nat]
  BY <1>1, <1>2
<1>6. Counted(m, p) \in Metrics
  BY <1>1, <1>3, <1>4, <1>5 DEF Metrics
<1> QED
  BY <1>4, <1>6 DEF g, one

LEMMA BetweenFinite ==
    ASSUME NEW r
    PROVE  /\ IsFiniteSet(Between(r)) /\ IsFiniteSet(BetweenFailed(r))
           /\ Cardinality(Between(r)) \in Nat /\ Cardinality(BetweenFailed(r)) \in Nat
<1>1. Between(r) \subseteq Plans /\ BetweenFailed(r) \subseteq Plans /\ IsFiniteSet(Plans)
  BY WorkloadAssumption DEF Between, BetweenFailed
<1> QED
  BY <1>1, FS_Subset, FS_CardinalityType

LEMMA CountNumbers ==
    ASSUME CountTypes, NEW r \in Regions, NEW f \in Fields
    PROVE  total[r][f] \in Nat /\ open[r][f] \in Nat /\ Collected(intervals, r, f) \in Nat
<1>1. open \in Metrics /\ intervals \in Seq(Metrics) /\ total \in Metrics
  BY DEF CountTypes
<1>2. Collected(intervals, r, f) \in Nat
  BY <1>1, CollectedAppend
<1> QED
  BY <1>1, <1>2 DEF Metrics, Fields

LEMMA CountInitInv == LoadInit => CountInv
<1> SUFFICES ASSUME LoadInit PROVE CountInv
  OBVIOUS
<1> USE DEF LoadInit, WorkloadInit
<1>1. NoRequests \in Metrics
  BY DEF NoRequests, Metrics
<1>2. CountTypes
  <2>1. <<>> \in Seq(Metrics)
    OBVIOUS
  <2> QED
    BY <1>1, <2>1 DEF CountTypes
<1>3. ASSUME NEW r \in Regions PROVE Agree(r)
  <2>1. Between(r) = {} /\ BetweenFailed(r) = {}
    BY DEF Between, BetweenFailed
  <2>2. Cardinality(Between(r)) = 0 /\ Cardinality(BetweenFailed(r)) = 0
    BY <2>1, FS_EmptySet
  <2>3. intervals = <<>>
    OBVIOUS
  <2>4. Collected(intervals, r, "requests") = 0 /\ Collected(intervals, r, "errors") = 0
    BY <2>3, CollectedEmpty
  <2>5. /\ total[r].requests = 0 /\ total[r].errors = 0
        /\ open[r].requests = 0 /\ open[r].errors = 0
    BY DEF NoRequests
  <2> QED
    BY <2>2, <2>4, <2>5 DEF Agree
<1> QED
  BY <1>2, <1>3 DEF CountInv

\* The first record call: the request is in total, and between the two.
LEMMA CountRequestAgrees ==
    ASSUME CountInv, NEW p \in Plans, CountRequest(p)
    PROVE  CountInv'
<1>1. /\ runner[p] = "count" /\ total' = Counted(total, p) /\ runner' = [runner EXCEPT ![p] = "tally"]
      /\ UNCHANGED <<failed, open, intervals>>
  BY DEF CountRequest, collectVars
<1>2. total \in Metrics /\ runner \in [Plans -> Busy \cup {"timer", "done"}]
  BY DEF CountInv, CountTypes
<1>3. CountTypes'
  <2>1. total' \in Metrics
    BY <1>1, <1>2, CountedOne
  <2>2. runner' \in [Plans -> Busy \cup {"timer", "done"}]
    BY <1>1, <1>2 DEF Busy
  <2> QED
    BY <1>1, <2>1, <2>2 DEF CountInv, CountTypes
<1>4. ASSUME NEW r \in Regions, r # RegionOf[p] PROVE Agree(r)'
  <2>1. Between(r)' = Between(r) /\ BetweenFailed(r)' = BetweenFailed(r)
    BY <1>1, <1>2, <1>4 DEF Between, BetweenFailed
  <2>2. total'[r] = total[r]
    BY <1>1, <1>2, <1>4, CountedOne
  <2> QED
    BY <1>1, <2>1, <2>2 DEF CountInv, Agree
<1>5. ASSUME NEW r \in Regions, r = RegionOf[p] PROVE Agree(r)'
  <2> DEFINE one == IF failed[p] THEN 1 ELSE 0
  <2>1. Between(r)' = Between(r) \cup {p} /\ p \notin Between(r) /\ p \notin BetweenFailed(r)
    BY <1>1, <1>2, <1>5 DEF Between, BetweenFailed
  <2>2. Cardinality(Between(r)') = Cardinality(Between(r)) + 1
    BY <2>1, BetweenFinite, FS_AddElement
  <2>3. Cardinality(BetweenFailed(r)') = Cardinality(BetweenFailed(r)) + one
    <3>1. CASE failed[p]
      <4>1. BetweenFailed(r)' = BetweenFailed(r) \cup {p}
        BY <1>1, <2>1, <3>1 DEF BetweenFailed
      <4> QED
        BY <2>1, <3>1, <4>1, BetweenFinite, FS_AddElement
    <3>2. CASE ~failed[p]
      <4>1. BetweenFailed(r)' = BetweenFailed(r)
        BY <1>1, <2>1, <3>2 DEF BetweenFailed
      <4> QED
        BY <3>2, <4>1, BetweenFinite
    <3> QED
      BY <3>1, <3>2
  <2>4. total'[r].requests = total[r].requests + 1 /\ total'[r].errors = total[r].errors + one
    BY <1>1, <1>2, <1>5, CountedOne
  <2>5. /\ open[r].requests \in Nat /\ Collected(intervals, r, "requests") \in Nat
        /\ open[r].errors \in Nat /\ Collected(intervals, r, "errors") \in Nat
    BY CountNumbers DEF CountInv, Fields
  <2>6. one \in Nat /\ Cardinality(Between(r)) \in Nat /\ Cardinality(BetweenFailed(r)) \in Nat
    BY BetweenFinite
  <2>7. open'[r] = open[r] /\ intervals' = intervals
    BY <1>1
  <2>8. Agree(r)
    BY DEF CountInv
  <2> HIDE DEF one
  <2>9. total'[r].requests = Collected(intervals, r, "requests") + open[r].requests + Cardinality(Between(r)')
    BY <2>2, <2>4, <2>5, <2>6, <2>8 DEF Agree
  <2>10. total'[r].errors = Collected(intervals, r, "errors") + open[r].errors + Cardinality(BetweenFailed(r)')
    BY <2>3, <2>4, <2>5, <2>6, <2>8 DEF Agree
  <2> QED
    BY <2>7, <2>9, <2>10 DEF Agree
<1> QED
  BY <1>3, <1>4, <1>5 DEF CountInv

\* The second record call: the request is in the open interval.
LEMMA TallyRequestAgrees ==
    ASSUME CountInv, NEW p \in Plans, TallyRequest(p)
    PROVE  CountInv'
<1>1. /\ runner[p] = "tally" /\ open' = Counted(open, p) /\ runner' = [runner EXCEPT ![p] = "release"]
      /\ UNCHANGED <<failed, total, intervals>>
  BY DEF TallyRequest, collectVars
<1>2. open \in Metrics /\ runner \in [Plans -> Busy \cup {"timer", "done"}]
  BY DEF CountInv, CountTypes
<1>3. CountTypes'
  <2>1. open' \in Metrics
    BY <1>1, <1>2, CountedOne
  <2>2. runner' \in [Plans -> Busy \cup {"timer", "done"}]
    BY <1>1, <1>2 DEF Busy
  <2> QED
    BY <1>1, <2>1, <2>2 DEF CountInv, CountTypes
<1>4. ASSUME NEW r \in Regions, r # RegionOf[p] PROVE Agree(r)'
  <2>1. Between(r)' = Between(r) /\ BetweenFailed(r)' = BetweenFailed(r)
    BY <1>1, <1>2, <1>4 DEF Between, BetweenFailed
  <2>2. open'[r] = open[r]
    BY <1>1, <1>2, <1>4, CountedOne
  <2> QED
    BY <1>1, <2>1, <2>2 DEF CountInv, Agree
<1>5. ASSUME NEW r \in Regions, r = RegionOf[p] PROVE Agree(r)'
  <2> DEFINE one == IF failed[p] THEN 1 ELSE 0
  <2>1. Between(r)' = Between(r) \ {p} /\ p \in Between(r)
    BY <1>1, <1>2, <1>5 DEF Between
  <2>2. Cardinality(Between(r)') = Cardinality(Between(r)) - 1
    BY <2>1, BetweenFinite, FS_RemoveElement
  <2>3. Cardinality(BetweenFailed(r)') = Cardinality(BetweenFailed(r)) - one
    <3>1. CASE failed[p]
      <4>1. BetweenFailed(r)' = BetweenFailed(r) \ {p} /\ p \in BetweenFailed(r)
        BY <1>1, <2>1, <3>1 DEF BetweenFailed
      <4> QED
        BY <3>1, <4>1, BetweenFinite, FS_RemoveElement
    <3>2. CASE ~failed[p]
      <4>1. BetweenFailed(r)' = BetweenFailed(r)
        BY <1>1, <2>1, <3>2 DEF BetweenFailed
      <4> QED
        BY <3>2, <4>1, BetweenFinite
    <3> QED
      BY <3>1, <3>2
  <2>4. open'[r].requests = open[r].requests + 1 /\ open'[r].errors = open[r].errors + one
    BY <1>1, <1>2, <1>5, CountedOne
  <2>5. /\ open[r].requests \in Nat /\ Collected(intervals, r, "requests") \in Nat
        /\ open[r].errors \in Nat /\ Collected(intervals, r, "errors") \in Nat
    BY CountNumbers DEF CountInv, Fields
  <2>6. one \in Nat /\ Cardinality(Between(r)) \in Nat /\ Cardinality(BetweenFailed(r)) \in Nat
    BY BetweenFinite
  <2>7. total'[r] = total[r] /\ intervals' = intervals
    BY <1>1
  <2>8. Agree(r)
    BY DEF CountInv
  <2> HIDE DEF one
  <2>9. total[r].requests = Collected(intervals, r, "requests") + open'[r].requests + Cardinality(Between(r)')
    BY <2>2, <2>4, <2>5, <2>6, <2>8 DEF Agree
  <2>10. total[r].errors = Collected(intervals, r, "errors") + open'[r].errors + Cardinality(BetweenFailed(r)')
    BY <2>3, <2>4, <2>5, <2>6, <2>8 DEF Agree
  <2> QED
    BY <2>7, <2>9, <2>10 DEF Agree
<1> QED
  BY <1>3, <1>4, <1>5 DEF CountInv

\* snapshotAndReset, while no other step is possible: the lock of the open
\* interval is held.
LEMMA CutAgrees ==
    ASSUME CountInv, CutInterval, UNCHANGED <<runner, failed, total>>
    PROVE  CountInv'
<1>1. intervals' = Append(intervals, open) /\ open' = NoRequests
  BY DEF CutInterval
<1>2. open \in Metrics /\ intervals \in Seq(Metrics) /\ NoRequests \in Metrics
  BY DEF CountInv, CountTypes, NoRequests, Metrics
<1>3. CountTypes'
  <2>1. intervals' \in Seq(Metrics)
    BY <1>1, <1>2, AppendProperties
  <2> QED
    BY <1>1, <1>2, <2>1 DEF CountInv, CountTypes
<1>4. ASSUME NEW r \in Regions PROVE Agree(r)'
  <2>1. Between(r)' = Between(r) /\ BetweenFailed(r)' = BetweenFailed(r)
    BY DEF Between, BetweenFailed
  <2>2. /\ Collected(intervals', r, "requests") = Collected(intervals, r, "requests") + open[r].requests
        /\ Collected(intervals', r, "errors") = Collected(intervals, r, "errors") + open[r].errors
    BY <1>1, <1>2, CollectedAppend DEF Fields
  <2>3. open'[r].requests = 0 /\ open'[r].errors = 0
    BY <1>1 DEF NoRequests
  <2>4. /\ open[r].requests \in Nat /\ Collected(intervals, r, "requests") \in Nat
        /\ open[r].errors \in Nat /\ Collected(intervals, r, "errors") \in Nat
    BY CountNumbers DEF CountInv, Fields
  <2>5. Agree(r) /\ Cardinality(Between(r)) \in Nat /\ Cardinality(BetweenFailed(r)) \in Nat
    BY BetweenFinite DEF CountInv
  <2>6. total[r].requests = Collected(intervals', r, "requests") + open'[r].requests + Cardinality(Between(r))
    BY <2>2, <2>3, <2>4, <2>5 DEF Agree
  <2>7. total[r].errors = Collected(intervals', r, "errors") + open'[r].errors + Cardinality(BetweenFailed(r))
    BY <2>2, <2>3, <2>4, <2>5 DEF Agree
  <2> QED
    BY <2>1, <2>6, <2>7 DEF Agree
<1> QED
  BY <1>3, <1>4 DEF CountInv

\* Any other step of a runner: its request is not between the two.
LEMMA RunnerAgrees ==
    ASSUME CountInv, NEW p \in Plans, UNCHANGED <<total, open, intervals>>,
           runner[p] # "tally",
           \/ runner' = runner
           \/ \E state \in (Busy \ {"tally"}) \cup {"timer", "done"} : runner' = [runner EXCEPT ![p] = state],
           \/ failed' = failed
           \/ \E err \in BOOLEAN : failed' = [failed EXCEPT ![p] = err]
    PROVE  CountInv'
<1>1. runner \in [Plans -> Busy \cup {"timer", "done"}] /\ failed \in [Plans -> BOOLEAN]
  BY DEF CountInv, CountTypes
<1>2. /\ runner' \in [Plans -> Busy \cup {"timer", "done"}] /\ runner'[p] # "tally"
      /\ \A q \in Plans : q # p => runner'[q] = runner[q]
  BY <1>1
<1>3. failed' \in [Plans -> BOOLEAN] /\ \A q \in Plans : q # p => failed'[q] = failed[q]
  BY <1>1
<1>4. ASSUME NEW r \in Regions PROVE Agree(r)'
  <2>1. Between(r)' = Between(r) /\ p \notin Between(r) /\ Between(r) \subseteq Plans
    BY <1>2 DEF Between
  <2>2. BetweenFailed(r)' = BetweenFailed(r)
    <3>1. \A q \in Between(r) : failed'[q] = failed[q]
      BY <1>3, <2>1
    <3> QED
      BY <2>1, <3>1 DEF BetweenFailed
  <2> QED
    BY <2>1, <2>2 DEF CountInv, Agree
<1> QED
  BY <1>2, <1>3, <1>4 DEF CountInv, CountTypes

LEMMA FrameAgrees ==
    CountInv /\ UNCHANGED <<total, open, intervals, runner, failed>> => CountInv'
<1> SUFFICES ASSUME CountInv, UNCHANGED <<total, open, intervals, runner, failed>> PROVE CountInv'
  OBVIOUS
<1>1. CountTypes'
  BY DEF CountInv, CountTypes
<1>2. ASSUME NEW r \in Regions PROVE Agree(r)'
  <2>1. Between(r)' = Between(r) /\ BetweenFailed(r)' = BetweenFailed(r)
    BY DEF Between, BetweenFailed
  <2> QED
    BY <2>1 DEF CountInv, Agree
<1> QED
  BY <1>1, <1>2 DEF CountInv

LEMMA CountStep ==
    ASSUME LoadInv, CountInv, [LoadNext]_<<setting, loadVars>>
    PROVE  CountInv'
<1> USE DEF loaderVars, runnerVars, metricVars, collectVars
<1>1. ASSUME LoadNext, Workload PROVE CountInv'
  <2>1. WorkloadStep /\ Active \subseteq Plans
    BY <1>1, PlansFinite DEF Workload, LoadInv, LoadTypes
  <2>2. ASSUME NEW p \in Active, TimerFires(p) PROVE CountInv'
    BY <2>2, FrameAgrees DEF TimerFires
  <2>3. ASSUME NEW p \in Active, Runner(p) PROVE CountInv'
    <3> p \in Plans
      BY <2>1, <2>3
    <3>1. CASE StartRequest(p)
      <4>1. /\ UNCHANGED <<total, open, intervals, failed>> /\ runner[p] # "tally"
            /\ runner' = [runner EXCEPT ![p] = "lookup"] /\ "lookup" \in Busy \ {"tally"}
        BY <3>1 DEF StartRequest, Busy
      <4> QED
        BY <4>1, RunnerAgrees
    <3>2. CASE SkipRequest(p)
      BY <3>2, FrameAgrees DEF SkipRequest
    <3>3. CASE RunnerExit(p)
      <4>1. /\ UNCHANGED <<total, open, intervals, failed>> /\ runner[p] # "tally"
            /\ runner' = [runner EXCEPT ![p] = "done"]
        BY <3>3 DEF RunnerExit
      <4> QED
        BY <4>1, RunnerAgrees
    <3>4. CASE Lookup(p)
      <4>1. /\ UNCHANGED <<total, open, intervals>> /\ runner[p] # "tally"
            /\ \E state \in Busy \ {"tally"} : runner' = [runner EXCEPT ![p] = state]
            /\ failed' = failed \/ failed' = [failed EXCEPT ![p] = TRUE]
        BY <3>4 DEF Lookup, Busy
      <4> QED
        BY <4>1, RunnerAgrees
    <3>5. CASE Execute(p)
      <4>1. /\ UNCHANGED <<total, open, intervals>> /\ runner[p] # "tally"
            /\ runner' = [runner EXCEPT ![p] = "count"] /\ "count" \in Busy \ {"tally"}
            /\ \E err \in BOOLEAN : failed' = [failed EXCEPT ![p] = err]
        BY <3>5 DEF Execute, Busy
      <4> QED
        BY <4>1, RunnerAgrees
    <3>6. CASE Release(p)
      <4>1. /\ UNCHANGED <<total, open, intervals>> /\ runner[p] # "tally"
            /\ runner' = [runner EXCEPT ![p] = "timer"]
            /\ failed' = [failed EXCEPT ![p] = FALSE]
        BY <3>6 DEF Release
      <4> QED
        BY <4>1, RunnerAgrees
    <3> QED
      BY <2>3, <3>1, <3>2, <3>3, <3>4, <3>5, <3>6, CountRequestAgrees, TallyRequestAgrees DEF Runner, Request
  <2>4. CASE StatsTickerFires
    BY <2>4, FrameAgrees DEF StatsTickerFires
  <2>5. CASE Collect
    BY <2>5, CutAgrees DEF Collect
  <2>6. CASE StopCollecting
    BY <2>6, FrameAgrees DEF StopCollecting
  <2>7. CASE Return
    BY <2>7, CutAgrees DEF Return
  <2>8. CASE ReturnAtOnce
    BY <2>8, FrameAgrees DEF ReturnAtOnce
  <2> QED
    BY <2>1, <2>2, <2>3, <2>4, <2>5, <2>6, <2>7, <2>8 DEF WorkloadStep, Collector
<1>2. ASSUME LoadNext, Loader PROVE CountInv'
  <2>1. UNCHANGED <<total, open, intervals, runner, failed>>
    BY <1>2 DEF LoadNext, Loader, QueryRegion, FirstReading, FirstFails, TakeTick, ReadOnTick,
                ReadOnTickFails, TakeCancel, AbortDone, TakeResult, WriteObservations, FinalFails, workloadVars
  <2> QED
    BY <2>1, FrameAgrees
<1>3. ASSUME LoadNext, TickerFires \/ Cancel \/ DurationOver \/ Database PROVE CountInv'
  <2>1. UNCHANGED <<total, open, intervals, runner, failed>>
    BY <1>3 DEF LoadNext, TickerFires, Cancel, DurationOver, Stop, Database, Consume, Relead, ListOrDelist,
                Happens, workloadVars
  <2> QED
    BY <2>1, FrameAgrees
<1>4. CASE UNCHANGED <<setting, loadVars>>
  <2>1. UNCHANGED <<total, open, intervals, runner, failed>>
    BY <1>4 DEF loadVars, workloadVars
  <2> QED
    BY <2>1, FrameAgrees
<1> QED
  BY <1>1, <1>2, <1>3, <1>4 DEF LoadNext

LEMMA CountInvariance == LoadSpec => []CountInv
BY LoadInvariance, CountInitInv, CountStep, PTL DEF LoadSpec

\* What one set of counters has and the other has not, are the requests between
\* their two record calls, for any number of plans that share a region and any
\* number of intervals.
THEOREM CountersStayTogether == LoadSpec => []CountersAgree
<1>1. CountInv => CountersAgree
  BY DEF CountInv, Agree, CountersAgree, Between, BetweenFailed
<1> QED
  BY <1>1, CountInvariance, PTL
-----------------------------------------------------------------------------
(* The readings.                                                             *)

Usage == {"cpu", "bytes"}
Entries == [time : Nat, datanode : Datanodes \cup {NoDatanode}, cpu : Nat, bytes : Nat]
Readings == UNION {[listed -> Entries] : listed \in SUBSET Regions}
Uses == [time : Nat, cpu : Nat, bytes : Nat]
UsesRead == UNION {[listed -> Uses] : listed \in SUBSET Regions}
Used == [Regions -> [cpu : Nat, bytes : Nat]]

StatisticsTypes ==
    /\ region \in [Regions -> [leader : Datanodes \cup {NoDatanode}, cpu : Nat, bytes : Nat, listed : BOOLEAN]]
    /\ used \in Used

\* The rows of a reading carry a time from before their queries.
Timely(from, usedFrom) ==
    DOMAIN usedFrom = DOMAIN from /\ \A r \in DOMAIN from : from[r].time <= usedFrom[r].time
QueriedBy(usedFrom, time) == \A r \in DOMAIN usedFrom : usedFrom[r].time <= time
\* The one reading began after the other's query for the same region.
BeginsAfter(usedFrom, to) == \A r \in DOMAIN usedFrom \cap DOMAIN to : usedFrom[r].time <= to[r].time

\* Between two looks at a region its counters grow by no more than it consumes.
GrowsBelow(from, usedFrom, to, usedTo) ==
    \A f \in Usage : to[f] - from[f] <= usedTo[f] - usedFrom[f] /\ usedFrom[f] <= usedTo[f]
Follows(from, usedFrom, to, usedTo) ==
    \A r \in DOMAIN from \cap DOMAIN to : GrowsBelow(from[r], usedFrom[r], to[r], usedTo[r])

Latest == IF snapshots = <<>> THEN <<>> ELSE snapshots[Len(snapshots)]
LatestUsed == IF usedAt = <<>> THEN <<>> ELSE usedAt[Len(usedAt)]

ReadingTypes ==
    /\ now \in Nat /\ began \in Nat /\ began <= now
    /\ unread \in Seq(Regions)
    /\ rows \in Readings /\ queried \in UsesRead /\ Timely(rows, queried) /\ QueriedBy(queried, now)
    /\ snapshots \in Seq(Readings) /\ usedAt \in Seq(UsesRead) /\ Len(usedAt) = Len(snapshots)
    /\ \A k \in 1..Len(snapshots) : Timely(snapshots[k], usedAt[k])

KeptInv ==
    \A k \in 2..Len(snapshots) : /\ Follows(snapshots[k - 1], usedAt[k - 1], snapshots[k], usedAt[k])
                                 /\ BeginsAfter(usedAt[k - 1], snapshots[k])

\* What the last reading says of the regions as they are now.
LatestInv == /\ Follows(Latest, LatestUsed, region, used)
             /\ QueriedBy(LatestUsed, now)

\* A reading under way: where it comes after the last one, and before the regions
\* as they are now.
UnderWay == ldPc \in {"first", "reading", "final"}
RowsInv == /\ QueriedBy(LatestUsed, began)
           /\ Follows(Latest, LatestUsed, rows, queried)
           /\ BeginsAfter(LatestUsed, rows)
           /\ Follows(rows, queried, region, used)

OutputInv ==
    \/ outcome # "written" /\ output = <<>>
    \/ /\ ldPc = "exited" /\ wlPc = "returned" /\ snapshots # <<>>
       /\ output = ObservationsFromSnapshots(snapshots, intervals, Regions)

ReadingInv == StatisticsTypes /\ ReadingTypes /\ KeptInv /\ LatestInv /\ (UnderWay => RowsInv)
LoadTruth == ReadingInv /\ OutputInv

LEMMA ReadingParts ==
    ASSUME NEW s \in Readings
    PROVE  DOMAIN s \subseteq Regions /\ s \in [DOMAIN s -> Entries] /\ \A r \in DOMAIN s : s[r] \in Entries
BY DEF Readings

LEMMA UsesParts ==
    ASSUME NEW u \in UsesRead
    PROVE  DOMAIN u \subseteq Regions /\ u \in [DOMAIN u -> Uses] /\ \A r \in DOMAIN u : u[r] \in Uses
BY DEF UsesRead

\* The last reading kept, if there is one.
LEMMA LatestKept ==
    ASSUME ReadingTypes
    PROVE  /\ Latest \in Readings /\ LatestUsed \in UsesRead /\ Timely(Latest, LatestUsed)
           /\ snapshots # <<>> => /\ Len(snapshots) \in Nat \ {0}
                                  /\ Latest = snapshots[Len(snapshots)]
                                  /\ LatestUsed = usedAt[Len(snapshots)]
<1>1. /\ snapshots \in Seq(Readings) /\ usedAt \in Seq(UsesRead) /\ Len(usedAt) = Len(snapshots)
      /\ Len(snapshots) \in Nat
  BY LenProperties DEF ReadingTypes
<1>2. CASE snapshots = <<>>
  <2>1. usedAt = <<>>
    BY <1>1, <1>2, EmptySeq
  <2>2. Latest = <<>> /\ LatestUsed = <<>> /\ DOMAIN <<>> = {}
    BY <1>2, <2>1 DEF Latest, LatestUsed
  <2>3. <<>> \in Readings /\ <<>> \in UsesRead
    <3>1. <<>> \in [{} -> Entries] /\ <<>> \in [{} -> Uses]
      OBVIOUS
    <3> QED
      BY <3>1 DEF Readings, UsesRead
  <2> QED
    BY <1>2, <2>2, <2>3 DEF Timely
<1>3. CASE snapshots # <<>>
  <2>1. Len(snapshots) \in Nat \ {0} /\ usedAt # <<>>
    BY <1>1, <1>3, EmptySeq
  <2>2. Latest = snapshots[Len(snapshots)] /\ LatestUsed = usedAt[Len(snapshots)]
    BY <1>1, <1>3, <2>1 DEF Latest, LatestUsed
  <2>3. Len(snapshots) \in 1..Len(snapshots)
    BY <2>1
  <2>4. Latest \in Readings /\ LatestUsed \in UsesRead
    BY <1>1, <2>2, <2>3, ElementOfSeq
  <2> QED
    BY <2>1, <2>2, <2>3, <2>4 DEF ReadingTypes
<1> QED
  BY <1>2, <1>3


LEMMA TruthInit == LoadInit => LoadTruth
<1> SUFFICES ASSUME LoadInit PROVE LoadTruth
  OBVIOUS
<1>1. PICK d \in Datanodes :
         region = [r \in Regions |-> [leader |-> d, cpu |-> 0, bytes |-> 0, listed |-> TRUE]]
  BY DEF LoadInit
<1>2. /\ used = [r \in Regions |-> [cpu |-> 0, bytes |-> 0]] /\ now = 0 /\ began = 0
      /\ unread = RegionOrder /\ rows = <<>> /\ queried = <<>>
      /\ snapshots = <<>> /\ usedAt = <<>> /\ outcome = "none" /\ output = <<>>
  BY DEF LoadInit
<1>3. StatisticsTypes
  BY <1>1, <1>2 DEF StatisticsTypes, Used
<1>4. DOMAIN <<>> = {} /\ Len(<<>>) = 0 /\ 1..0 = {} /\ 2..0 = {}
  OBVIOUS
<1>5. <<>> \in Readings /\ <<>> \in UsesRead
  <2>1. <<>> \in [{} -> Entries] /\ <<>> \in [{} -> Uses]
    OBVIOUS
  <2> QED
    BY <2>1 DEF Readings, UsesRead
<1>6. ReadingTypes
  <2>1. <<>> \in Seq(Readings) /\ <<>> \in Seq(UsesRead)
    OBVIOUS
  <2>2. unread \in Seq(Regions)
    BY <1>2, LoadAssumption
  <2> QED
    BY <1>2, <1>4, <1>5, <2>1, <2>2 DEF ReadingTypes, Timely, QueriedBy
<1>7. Latest = <<>> /\ LatestUsed = <<>>
  BY <1>2 DEF Latest, LatestUsed
<1>8. KeptInv /\ LatestInv /\ RowsInv
  BY <1>2, <1>4, <1>7 DEF KeptInv, LatestInv, RowsInv, Follows, BeginsAfter, QueriedBy
<1> QED
  BY <1>2, <1>3, <1>6, <1>8 DEF LoadTruth, ReadingInv, OutputInv

\* Time passes, or nothing of the readings changes.
LEMMA ReadingFrame ==
    ASSUME ReadingInv, UNCHANGED <<region, used, rows, queried, began, unread, snapshots, usedAt>>,
           UNCHANGED now, UnderWay' => UnderWay
    PROVE  ReadingInv'
<1>1. UNCHANGED <<Latest, LatestUsed>>
  BY DEF Latest, LatestUsed
<1>2. StatisticsTypes' /\ ReadingTypes' /\ KeptInv'
  BY DEF ReadingInv, StatisticsTypes, ReadingTypes, KeptInv
<1>3. LatestInv' /\ (UnderWay' => RowsInv')
  BY <1>1 DEF ReadingInv, LatestInv, RowsInv
<1> QED
  BY <1>2, <1>3 DEF ReadingInv

LEMMA LaterToo ==
    ASSUME NEW u \in UsesRead, NEW t \in Nat, NEW later \in Nat, QueriedBy(u, t), t <= later
    PROVE  QueriedBy(u, later)
<1> SUFFICES ASSUME NEW r \in DOMAIN u PROVE u[r].time <= later
  BY DEF QueriedBy
<1>1. u[r].time \in Nat /\ u[r].time <= t
  BY UsesParts DEF Uses, QueriedBy
<1> QED
  BY <1>1

LEMMA LaterClock ==
    ASSUME now \in Nat, TimePasses PROVE now' \in Nat /\ now <= now'
BY DEF TimePasses

\* A reading begins.
LEMMA StartTruth ==
    ASSUME ReadingInv, StartReading, UNCHANGED <<region, used, snapshots, usedAt>>
    PROVE  ReadingInv'
<1>1. /\ ReadingTypes /\ now \in Nat /\ StatisticsTypes'
  BY DEF ReadingInv, ReadingTypes, StatisticsTypes
<1>2. /\ now' \in Nat /\ now <= now' /\ began' = now' /\ unread' = RegionOrder
      /\ rows' = <<>> /\ queried' = <<>>
  BY <1>1, LaterClock DEF StartReading
<1>3. UNCHANGED <<Latest, LatestUsed>>
  BY DEF Latest, LatestUsed
<1>4. DOMAIN <<>> = {} /\ <<>> \in Readings /\ <<>> \in UsesRead
  <2>1. <<>> \in [{} -> Entries] /\ <<>> \in [{} -> Uses]
    OBVIOUS
  <2> QED
    BY <2>1 DEF Readings, UsesRead
<1>5. unread' \in Seq(Regions)
  BY <1>2, LoadAssumption
<1>6. Timely(<<>>, <<>>) /\ QueriedBy(<<>>, now')
  BY <1>4 DEF Timely, QueriedBy
<1>7. ReadingTypes'
  BY <1>1, <1>2, <1>4, <1>5, <1>6 DEF ReadingTypes
<1>8. QueriedBy(LatestUsed, now)
  BY DEF ReadingInv, LatestInv
<1>9. QueriedBy(LatestUsed, now')
  BY <1>1, <1>2, <1>8, LaterToo, LatestKept
<1>10. KeptInv' /\ LatestInv'
  BY <1>3, <1>9 DEF ReadingInv, KeptInv, LatestInv
<1>11. RowsInv'
  BY <1>2, <1>3, <1>4, <1>9 DEF RowsInv, Follows, BeginsAfter
<1> QED
  BY <1>1, <1>7, <1>10, <1>11 DEF ReadingInv
\* What a region's counters and what it used are, as numbers.
LEMMA CountersNow ==
    ASSUME StatisticsTypes, NEW r \in Regions
    PROVE  /\ r \in DOMAIN region /\ r \in DOMAIN used
           /\ \A f \in Usage : region[r][f] \in Nat /\ used[r][f] \in Nat
BY DEF StatisticsTypes, Used, Usage

\* The row of a region is added to the reading under way.
LEMMA RowTruth ==
    ASSUME ReadingInv, QueryRegion
    PROVE  ReadingInv'
<1> DEFINE x == Head(unread)
           row == [time |-> began, datanode |-> region[x].leader,
                   cpu |-> region[x].cpu, bytes |-> region[x].bytes]
           use == [time |-> now', cpu |-> used[x].cpu, bytes |-> used[x].bytes]
<1>1. /\ StatisticsTypes /\ ReadingTypes /\ KeptInv /\ LatestInv /\ now \in Nat /\ began \in Nat /\ began <= now
      /\ unread \in Seq(Regions) /\ unread # <<>>
      /\ UNCHANGED <<region, used, ldPc, began, snapshots, usedAt>> /\ unread' = Tail(unread)
  BY DEF ReadingInv, ReadingTypes, QueryRegion, dbVars, keptVars
<1>2. RowsInv
  BY DEF ReadingInv, QueryRegion, UnderWay
<1>3. now' \in Nat /\ now <= now'
  BY <1>1, LaterClock DEF QueryRegion
<1>4. x \in Regions /\ unread' \in Seq(Regions)
  BY <1>1, HeadTailProperties
<1>5. UNCHANGED <<Latest, LatestUsed>> /\ StatisticsTypes'
  BY <1>1 DEF Latest, LatestUsed, StatisticsTypes
<1>6. /\ rows \in Readings /\ queried \in UsesRead /\ Timely(rows, queried) /\ QueriedBy(queried, now)
      /\ QueriedBy(LatestUsed, now) /\ Follows(Latest, LatestUsed, region, used)
      /\ LatestUsed \in UsesRead /\ Latest \in Readings /\ DOMAIN LatestUsed = DOMAIN Latest
  BY <1>1, LatestKept DEF ReadingTypes, LatestInv, Timely
<1>7. QueriedBy(LatestUsed, now') /\ QueriedBy(queried, now')
  BY <1>1, <1>3, <1>6, LaterToo
<1>8. KeptInv' /\ LatestInv'
  BY <1>1, <1>5, <1>6, <1>7 DEF KeptInv, LatestInv
<1>9. CASE UNCHANGED <<rows, queried>>
  <2>1. ReadingTypes'
    BY <1>1, <1>3, <1>4, <1>7, <1>9 DEF ReadingTypes
  <2>2. RowsInv'
    BY <1>1, <1>2, <1>5, <1>9 DEF RowsInv
  <2> QED
    BY <1>5, <1>8, <2>1, <2>2 DEF ReadingInv
<1>10. CASE rows' = With(rows, x, row) /\ queried' = With(queried, x, use)
  <2>1. row \in Entries
    BY <1>1, <1>4 DEF StatisticsTypes, Entries
  <2>2. use \in Uses
    BY <1>1, <1>3, <1>4 DEF StatisticsTypes, Used, Uses
  <2>3. \A f \in Usage : row[f] = region[x][f] /\ use[f] = used[x][f]
    BY DEF Usage
  <2>4. row.time = began /\ use.time = now'
    OBVIOUS
  <2> HIDE DEF x, row, use
  <2>5. /\ DOMAIN rows' = {x} \cup DOMAIN rows /\ rows'[x] = row
        /\ \A r \in DOMAIN rows : r # x => rows'[r] = rows[r]
    BY <1>10 DEF With
  <2>6. /\ DOMAIN queried' = {x} \cup DOMAIN queried /\ queried'[x] = use
        /\ \A r \in DOMAIN queried : r # x => queried'[r] = queried[r]
    BY <1>10 DEF With
  <2>7. rows' \in Readings /\ queried' \in UsesRead
    <3>1. /\ DOMAIN rows \subseteq Regions /\ DOMAIN queried \subseteq Regions
          /\ \A r \in DOMAIN rows : rows[r] \in Entries
          /\ \A r \in DOMAIN queried : queried[r] \in Uses
      BY <1>6, ReadingParts, UsesParts
    <3>2. rows' = [r \in DOMAIN rows' |-> rows'[r]] /\ queried' = [r \in DOMAIN queried' |-> queried'[r]]
      BY <1>10 DEF With
    <3>3. \A r \in DOMAIN rows' : rows'[r] \in Entries
      BY <2>1, <2>5, <3>1
    <3>4. \A r \in DOMAIN queried' : queried'[r] \in Uses
      BY <2>2, <2>6, <3>1
    <3>5. DOMAIN rows' \in SUBSET Regions /\ DOMAIN queried' \in SUBSET Regions
      BY <1>4, <2>5, <2>6, <3>1
    <3>6. rows' \in [DOMAIN rows' -> Entries] /\ queried' \in [DOMAIN queried' -> Uses]
      BY <3>2, <3>3, <3>4
    <3> QED
      BY <3>5, <3>6 DEF Readings, UsesRead
  <2>8. Timely(rows', queried')
    <3>1. DOMAIN queried = DOMAIN rows /\ \A r \in DOMAIN rows : rows[r].time <= queried[r].time
      BY <1>6 DEF Timely
    <3>2. began <= now'
      BY <1>1, <1>3
    <3> QED
      BY <2>4, <2>5, <2>6, <3>1, <3>2 DEF Timely
  <2>9. QueriedBy(queried', now')
    BY <1>3, <1>7, <2>4, <2>6 DEF QueriedBy
  <2>10. ReadingTypes'
    BY <1>1, <1>3, <1>4, <2>7, <2>8, <2>9 DEF ReadingTypes
  <2>11. Follows(Latest, LatestUsed, rows', queried')
    <3> SUFFICES ASSUME NEW r \in DOMAIN Latest, r \in DOMAIN rows'
                 PROVE  GrowsBelow(Latest[r], LatestUsed[r], rows'[r], queried'[r])
      BY DEF Follows
    <3>1. CASE r # x
      <4>1. r \in DOMAIN rows /\ r \in DOMAIN queried
        BY <1>6, <2>5, <3>1 DEF Timely
      <4>2. GrowsBelow(Latest[r], LatestUsed[r], rows[r], queried[r])
        BY <1>2, <4>1 DEF RowsInv, Follows
      <4> QED
        BY <2>5, <2>6, <3>1, <4>1, <4>2
    <3>2. CASE r = x
      <4>1. x \in DOMAIN region
        BY <1>1, <1>4, CountersNow
      <4>2. GrowsBelow(Latest[x], LatestUsed[x], region[x], used[x])
        BY <1>6, <3>2, <4>1 DEF Follows
      <4>3. GrowsBelow(Latest[x], LatestUsed[x], row, use)
        BY <2>3, <4>2 DEF GrowsBelow
      <4> QED
        BY <2>5, <2>6, <3>2, <4>3
    <3> QED
      BY <3>1, <3>2
  <2>12. BeginsAfter(LatestUsed, rows')
    <3> SUFFICES ASSUME NEW r \in DOMAIN LatestUsed, r \in DOMAIN rows'
                 PROVE  LatestUsed[r].time <= rows'[r].time
      BY DEF BeginsAfter
    <3>1. CASE r = x
      BY <1>2, <2>4, <2>5, <3>1 DEF RowsInv, QueriedBy
    <3>2. CASE r # x
      BY <1>2, <2>5, <3>2 DEF RowsInv, BeginsAfter
    <3> QED
      BY <3>1, <3>2
  <2>13. Follows(rows', queried', region, used)
    <3> SUFFICES ASSUME NEW r \in DOMAIN rows', r \in DOMAIN region
                 PROVE  GrowsBelow(rows'[r], queried'[r], region[r], used[r])
      BY DEF Follows
    <3>1. CASE r # x
      <4>1. r \in DOMAIN rows /\ r \in DOMAIN queried
        BY <1>6, <2>5, <3>1 DEF Timely
      <4>2. GrowsBelow(rows[r], queried[r], region[r], used[r])
        BY <1>2, <4>1 DEF RowsInv, Follows
      <4> QED
        BY <2>5, <2>6, <3>1, <4>1, <4>2
    <3>2. CASE r = x
      <4>1. \A f \in Usage : region[x][f] \in Nat /\ used[x][f] \in Nat
        BY <1>1, <1>4, CountersNow
      <4>2. GrowsBelow(row, use, region[x], used[x])
        <5> SUFFICES ASSUME NEW f \in Usage
                     PROVE  region[x][f] - row[f] <= used[x][f] - use[f] /\ use[f] <= used[x][f]
          BY DEF GrowsBelow
        <5>1. region[x][f] - region[x][f] <= used[x][f] - used[x][f] /\ used[x][f] <= used[x][f]
          BY <4>1
        <5> QED
          BY <2>3, <5>1
      <4> QED
        BY <2>5, <2>6, <3>2, <4>2
    <3> QED
      BY <3>1, <3>2
  <2>14. RowsInv'
    BY <1>1, <1>2, <1>5, <2>11, <2>12, <2>13 DEF RowsInv
  <2> QED
    BY <1>5, <1>8, <2>10, <2>14 DEF ReadingInv
<1> QED
  BY <1>9, <1>10 DEF QueryRegion

\* The reading is complete and becomes the latest one.
LEMMA KeepTruth ==
    ASSUME ReadingInv, UnderWay, KeepReading, ~UnderWay',
           UNCHANGED <<region, used, now, began, unread, rows, queried>>
    PROVE  ReadingInv' /\ snapshots' # <<>>
<1> DEFINE n == Len(snapshots)
<1>1. /\ StatisticsTypes /\ ReadingTypes /\ KeptInv /\ LatestInv /\ RowsInv
      /\ snapshots' = Append(snapshots, rows) /\ usedAt' = Append(usedAt, queried)
  BY DEF ReadingInv, KeepReading
<1>2. /\ snapshots \in Seq(Readings) /\ usedAt \in Seq(UsesRead) /\ Len(usedAt) = n /\ n \in Nat
      /\ rows \in Readings /\ queried \in UsesRead /\ Timely(rows, queried) /\ QueriedBy(queried, now)
  BY <1>1, LenProperties DEF ReadingTypes
<1>3. snapshots # <<>> => n \in Nat \ {0} /\ Latest = snapshots[n] /\ LatestUsed = usedAt[n]
  BY <1>1, LatestKept
<1>4. snapshots = <<>> => n = 0
  OBVIOUS
<1> HIDE DEF n
<1>5. /\ snapshots' \in Seq(Readings) /\ Len(snapshots') = n + 1 /\ snapshots'[n + 1] = rows
      /\ \A k \in 1..n : snapshots'[k] = snapshots[k]
  BY <1>1, <1>2, AppendProperties DEF n
<1>6. /\ usedAt' \in Seq(UsesRead) /\ Len(usedAt') = n + 1 /\ usedAt'[n + 1] = queried
      /\ \A k \in 1..n : usedAt'[k] = usedAt[k]
  BY <1>1, <1>2, AppendProperties
<1>7. snapshots' # <<>> /\ usedAt' # <<>>
  BY <1>2, <1>5, <1>6, EmptySeq
<1>8. Latest' = rows /\ LatestUsed' = queried
  BY <1>5, <1>6, <1>7 DEF Latest, LatestUsed
<1>9. ReadingTypes'
  <2>1. ASSUME NEW k \in 1..(n + 1) PROVE Timely(snapshots'[k], usedAt'[k])
    <3>1. CASE k = n + 1
      BY <1>2, <1>5, <1>6, <3>1
    <3>2. CASE k # n + 1
      <4>1. k \in 1..n
        BY <1>2, <3>2
      <4> QED
        BY <1>1, <1>5, <1>6, <4>1 DEF ReadingTypes, n
    <3> QED
      BY <3>1, <3>2
  <2> QED
    BY <1>1, <1>5, <1>6, <2>1 DEF ReadingTypes
<1>10. KeptInv'
  <2>1. ASSUME NEW k \in 2..(n + 1)
        PROVE  /\ Follows(snapshots'[k - 1], usedAt'[k - 1], snapshots'[k], usedAt'[k])
               /\ BeginsAfter(usedAt'[k - 1], snapshots'[k])
    <3>1. CASE k = n + 1
      <4>1. k - 1 = n /\ n \in 1..n /\ snapshots # <<>>
        BY <1>2, <1>4, <3>1
      <4>2. Follows(snapshots[n], usedAt[n], rows, queried) /\ BeginsAfter(usedAt[n], rows)
        BY <1>1, <1>3, <4>1 DEF RowsInv
      <4> QED
        BY <1>5, <1>6, <3>1, <4>1, <4>2
    <3>2. CASE k # n + 1
      <4>1. k - 1 \in 1..n /\ k \in 1..n /\ k \in 2..n
        BY <1>2, <3>2
      <4>2. Follows(snapshots[k - 1], usedAt[k - 1], snapshots[k], usedAt[k]) /\ BeginsAfter(usedAt[k - 1], snapshots[k])
        BY <1>1, <4>1 DEF KeptInv, n
      <4> QED
        BY <1>5, <1>6, <4>1, <4>2
    <3> QED
      BY <3>1, <3>2
  <2> QED
    BY <1>5, <2>1 DEF KeptInv
<1>11. LatestInv'
  BY <1>1, <1>2, <1>8 DEF LatestInv, RowsInv
<1>12. StatisticsTypes'
  BY <1>1 DEF StatisticsTypes
<1> QED
  BY <1>7, <1>9, <1>10, <1>11, <1>12 DEF ReadingInv

\* The database: a query adds to a counter and to what was used; a counter that
\* starts again falls.
LEMMA DatabaseGrows ==
    ASSUME StatisticsTypes, Database
    PROVE  /\ StatisticsTypes'
           /\ \A r \in Regions : GrowsBelow(region[r], used[r], region'[r], used'[r])
<1> DEFINE Region == [leader : Datanodes \cup {NoDatanode}, cpu : Nat, bytes : Nat, listed : BOOLEAN]
<1>1. region \in [Regions -> Region] /\ used \in Used
  BY DEF StatisticsTypes
<1>2. /\ region' \in [Regions -> Region] /\ used' \in Used
      /\ \A r \in Regions : \A f \in Usage : /\ region'[r][f] - region[r][f] <= used'[r][f] - used[r][f]
                                             /\ used[r][f] <= used'[r][f]
  <2>1. PICK r \in Regions : Consume(r) \/ Relead(r) \/ ListOrDelist(r)
    BY DEF Database
  <2>2. region[r] \in Region /\ used[r] \in [cpu : Nat, bytes : Nat]
    BY <1>1 DEF Used
  <2>3. CASE Consume(r)
    <3>1. PICK g \in Usage : /\ region' = [region EXCEPT ![r][g] = @ + 1]
                             /\ used' = [used EXCEPT ![r][g] = @ + 1]
      BY <2>3 DEF Consume, Usage
    <3>2. /\ \A x \in Regions : x # r => region'[x] = region[x] /\ used'[x] = used[x]
          /\ region'[r] = [region[r] EXCEPT ![g] = @ + 1] /\ used'[r] = [used[r] EXCEPT ![g] = @ + 1]
      BY <1>1, <3>1 DEF Used
    <3>3. region'[r] \in Region /\ used'[r] \in [cpu : Nat, bytes : Nat]
      BY <2>2, <3>2 DEF Usage
    <3>4. region' \in [Regions -> Region] /\ used' \in Used
      BY <1>1, <3>1, <3>2, <3>3 DEF Used
    <3>5. \A f \in Usage : /\ region'[r][f] = region[r][f] + (IF f = g THEN 1 ELSE 0)
                           /\ used'[r][f] = used[r][f] + (IF f = g THEN 1 ELSE 0)
      BY <2>2, <3>2 DEF Usage
    <3>6. \A x \in Regions : \A f \in Usage : region[x][f] \in Nat /\ used[x][f] \in Nat
      BY <1>1 DEF Usage, Used
    <3>7. \A x \in Regions : \A f \in Usage : /\ region'[x][f] - region[x][f] <= used'[x][f] - used[x][f]
                                              /\ used[x][f] <= used'[x][f]
      <4> TAKE x \in Regions
      <4> TAKE f \in Usage
      <4>1. region[x][f] \in Nat /\ used[x][f] \in Nat
        BY <3>6
      <4>2. CASE x = r
        <5> DEFINE one == IF f = g THEN 1 ELSE 0
        <5>1. region'[x][f] = region[x][f] + one /\ used'[x][f] = used[x][f] + one /\ one \in Nat
          BY <3>5, <4>2
        <5> HIDE DEF one
        <5> QED
          BY <4>1, <5>1
      <4>3. CASE x # r
        BY <3>2, <4>1, <4>3
      <4> QED
        BY <4>2, <4>3
    <3> QED
      BY <3>4, <3>7
  <2>4. CASE Relead(r) \/ ListOrDelist(r)
    <3>1. used' = used
      BY <2>4 DEF Relead, ListOrDelist
    <3>2. /\ region' \in [Regions -> Region]
          /\ \A x \in Regions : \A f \in Usage : region'[x][f] <= region[x][f]
      <4>1. CASE Relead(r)
        <5>1. PICK d \in Datanodes \cup {NoDatanode} :
                 region' = [region EXCEPT ![r] = [@ EXCEPT !.leader = d, !.cpu = 0, !.bytes = 0]]
          BY <4>1 DEF Relead
        <5>2. /\ \A x \in Regions : x # r => region'[x] = region[x]
              /\ region'[r] = [leader |-> d, cpu |-> 0, bytes |-> 0, listed |-> region[r].listed]
          BY <1>1, <2>2, <5>1
        <5>3. region'[r] \in Region
          BY <2>2, <5>2
        <5>4. region' \in [Regions -> Region]
          BY <1>1, <5>1, <5>2, <5>3
        <5>5. \A x \in Regions : \A f \in Usage : region[x][f] \in Nat
          BY <1>1 DEF Usage
        <5>6. \A f \in Usage : region'[r][f] = 0
          BY <5>2 DEF Usage
        <5> QED
          BY <5>2, <5>4, <5>5, <5>6
      <4>2. CASE ListOrDelist(r)
        <5>1. region' = [region EXCEPT ![r].listed = ~@]
          BY <4>2 DEF ListOrDelist
        <5>2. /\ \A x \in Regions : x # r => region'[x] = region[x]
              /\ region'[r] = [leader |-> region[r].leader, cpu |-> region[r].cpu, bytes |-> region[r].bytes,
                               listed |-> ~region[r].listed]
          BY <1>1, <2>2, <5>1
        <5>3. region'[r] \in Region
          BY <2>2, <5>2
        <5>4. region' \in [Regions -> Region]
          BY <1>1, <5>1, <5>2, <5>3
        <5>5. \A x \in Regions : \A f \in Usage : region[x][f] \in Nat /\ region'[x][f] = region[x][f]
          BY <1>1, <5>2 DEF Usage
        <5> QED
          BY <5>4, <5>5
      <4> QED
        BY <2>4, <4>1, <4>2
    <3>3. \A x \in Regions : \A f \in Usage : /\ region[x][f] \in Nat /\ used[x][f] \in Nat
                                              /\ region'[x][f] \in Nat
      BY <1>1, <3>2 DEF Usage, Used
    <3>4. \A x \in Regions : \A f \in Usage : /\ region'[x][f] - region[x][f] <= used'[x][f] - used[x][f]
                                              /\ used[x][f] <= used'[x][f]
      <4> TAKE x \in Regions
      <4> TAKE f \in Usage
      <4>1. region[x][f] \in Nat /\ used[x][f] \in Nat /\ region'[x][f] \in Nat /\ region'[x][f] <= region[x][f]
        BY <3>2, <3>3
      <4> QED
        BY <3>1, <4>1
    <3> QED
      BY <1>1, <3>1, <3>2, <3>4
  <2> QED
    BY <2>1, <2>3, <2>4
<1> QED
  BY <1>2 DEF StatisticsTypes, GrowsBelow

\* What an earlier look at the regions says stays true when they move on.
LEMMA FollowsOn ==
    ASSUME StatisticsTypes, StatisticsTypes', NEW s \in Readings, NEW u \in UsesRead, Timely(s, u),
           Follows(s, u, region, used),
           \A r \in Regions : GrowsBelow(region[r], used[r], region'[r], used'[r])
    PROVE  Follows(s, u, region', used')
<1> SUFFICES ASSUME NEW r \in DOMAIN s, r \in DOMAIN region', NEW f \in Usage
             PROVE  region'[r][f] - s[r][f] <= used'[r][f] - u[r][f] /\ u[r][f] <= used'[r][f]
  BY DEF Follows, GrowsBelow
<1>1. r \in Regions /\ r \in DOMAIN u /\ s[r] \in Entries /\ u[r] \in Uses
  BY ReadingParts, UsesParts DEF Timely
<1> DEFINE a == region[r][f]
           b == region'[r][f]
           c == used[r][f]
           d == used'[r][f]
           e == u[r][f]
           g == s[r][f]
<1>2. a \in Nat /\ c \in Nat /\ r \in DOMAIN region
  BY <1>1, CountersNow
<1>3. b \in Nat /\ d \in Nat
  BY <1>1 DEF StatisticsTypes, Used, Usage
<1>4. e \in Nat /\ g \in Nat
  BY <1>1 DEF Entries, Uses, Usage
<1>5. a - g <= c - e /\ e <= c
  BY <1>2 DEF Follows, GrowsBelow
<1>6. b - a <= d - c /\ c <= d
  BY <1>1 DEF GrowsBelow
<1> HIDE DEF a, b, c, d, e, g
<1>7. b - g <= d - e /\ e <= d
  BY <1>2, <1>3, <1>4, <1>5, <1>6
<1> QED
  BY <1>7 DEF b, d, e, g

LEMMA DatabaseTruth ==
    ASSUME ReadingInv, Database,
           UNCHANGED <<ldPc, now, began, unread, rows, queried, snapshots, usedAt>>
    PROVE  ReadingInv'
<1>1. StatisticsTypes /\ ReadingTypes /\ LatestInv
  BY DEF ReadingInv
<1>2. StatisticsTypes' /\ \A r \in Regions : GrowsBelow(region[r], used[r], region'[r], used'[r])
  BY <1>1, DatabaseGrows
<1>3. UNCHANGED <<Latest, LatestUsed>>
  BY DEF Latest, LatestUsed
<1>4. ReadingTypes' /\ KeptInv'
  BY DEF ReadingInv, ReadingTypes, KeptInv
<1>5. LatestInv'
  <2>1. Latest \in Readings /\ LatestUsed \in UsesRead /\ Timely(Latest, LatestUsed)
    BY <1>1, LatestKept
  <2>2. Follows(Latest, LatestUsed, region, used) /\ QueriedBy(LatestUsed, now)
    BY <1>1 DEF LatestInv
  <2>3. Follows(Latest, LatestUsed, region', used')
    BY <1>1, <1>2, <2>1, <2>2, FollowsOn
  <2> QED
    BY <1>3, <2>2, <2>3 DEF LatestInv
<1>6. ASSUME UnderWay PROVE RowsInv'
  <2>1. rows \in Readings /\ queried \in UsesRead /\ Timely(rows, queried)
    BY <1>1 DEF ReadingTypes
  <2>2. RowsInv
    BY <1>6 DEF ReadingInv
  <2>3. Follows(rows, queried, region', used')
    BY <1>1, <1>2, <2>1, <2>2, FollowsOn DEF RowsInv
  <2> QED
    BY <1>3, <2>2, <2>3 DEF RowsInv
<1> QED
  BY <1>2, <1>4, <1>5, <1>6 DEF ReadingInv, UnderWay

\* The observations are computed when the workload has returned and from the
\* last reading, and nothing happens to them afterwards.
LEMMA OutputFrame ==
    ASSUME LoadInv, LoadTruth,
           \/ UNCHANGED <<outcome, output>>
           \/ ldPc # "exited" /\ outcome' # "written" /\ output' = output,
           ldPc = "exited" /\ wlPc = "returned" =>
               UNCHANGED <<ldPc, wlPc, output, snapshots, intervals>>
    PROVE  OutputInv'
<1>1. CASE outcome # "written" /\ output = <<>>
  BY <1>1 DEF OutputInv
<1>2. CASE /\ ldPc = "exited" /\ wlPc = "returned" /\ snapshots # <<>>
           /\ output = ObservationsFromSnapshots(snapshots, intervals, Regions)
  BY <1>2 DEF OutputInv
<1> QED
  BY <1>1, <1>2 DEF LoadTruth, OutputInv

LEMMA TruthStep ==
    ASSUME LoadInv, LoadTruth, [LoadNext]_<<setting, loadVars>>
    PROVE  LoadTruth'
<1> USE DEF loaderVars, readVars, keptVars, dbVars, runnerVars, metricVars, collectVars
<1>0. ReadingInv
  BY DEF LoadTruth
<1>1. ASSUME LoadNext, Workload PROVE LoadTruth'
  <2>1. UNCHANGED <<ldPc, outcome, output>> /\ WorkloadStep
        /\ UNCHANGED <<now, region, used, rows, queried, began, unread, snapshots, usedAt>>
    BY <1>1 DEF Workload
  <2>2. wlPc = "returned" => UNCHANGED <<wlPc, intervals>>
    <3> SUFFICES ASSUME wlPc = "returned" PROVE UNCHANGED <<wlPc, intervals>>
      OBVIOUS
    <3>1. ASSUME NEW p \in Active, TimerFires(p) \/ Runner(p) PROVE UNCHANGED <<wlPc, intervals>>
      BY <3>1 DEF TimerFires, Runner, StartRequest, SkipRequest, RunnerExit, Request, Lookup, Execute,
                  CountRequest, TallyRequest, Release
    <3>2. ~Collector /\ ~StatsTickerFires
      BY DEF Collector, Collect, StopCollecting, Return, ReturnAtOnce, StatsTickerFires
    <3> QED
      BY <2>1, <3>1, <3>2 DEF WorkloadStep
  <2>3. OutputInv'
    BY <2>1, <2>2, OutputFrame
  <2> QED
    BY <1>0, <2>1, <2>3, ReadingFrame DEF LoadTruth, UnderWay
<1>2. ASSUME LoadNext, Loader PROVE LoadTruth'
  <2>1. CASE ReadOnTickFails \/ TakeCancel \/ AbortDone \/ FinalFails \/ FirstFails
    <3>1. /\ UNCHANGED <<now, region, used, rows, queried, began, unread, snapshots, usedAt, output>>
          /\ ldPc # "exited" /\ (outcome' = outcome \/ outcome' # "written") /\ ~UnderWay'
      BY <2>1 DEF ReadOnTickFails, TakeCancel, AbortDone, FinalFails, FirstFails, UnderWay
    <3>2. OutputInv'
      BY <3>1, OutputFrame
    <3>3. ReadingInv'
      BY <1>0, <3>1, ReadingFrame
    <3> QED
      BY <3>2, <3>3 DEF LoadTruth
  <2>2. CASE TakeTick \/ TakeResult
    <3>1. StartReading /\ UNCHANGED <<region, used, snapshots, usedAt, outcome, output>> /\ ldPc # "exited"
      BY <2>2 DEF TakeTick, TakeResult
    <3>2. OutputInv'
      BY <3>1, OutputFrame
    <3>3. ReadingInv'
      BY <1>0, <3>1, StartTruth
    <3> QED
      BY <3>2, <3>3 DEF LoadTruth
  <2>3. CASE QueryRegion
    <3>1. UNCHANGED <<outcome, output>> /\ ldPc # "exited"
      BY <2>3 DEF QueryRegion
    <3>2. OutputInv'
      BY <3>1, OutputFrame
    <3>3. ReadingInv'
      BY <1>0, <2>3, RowTruth
    <3> QED
      BY <3>2, <3>3 DEF LoadTruth
  <2>4. CASE FirstReading \/ ReadOnTick
    <3>1. /\ KeepReading /\ UnderWay /\ ~UnderWay' /\ ldPc # "exited" /\ UNCHANGED <<outcome, output>>
          /\ UNCHANGED <<region, used, now, began, unread, rows, queried>>
      BY <2>4 DEF FirstReading, ReadOnTick, UnderWay
    <3>2. OutputInv'
      BY <3>1, OutputFrame
    <3>3. ReadingInv'
      BY <1>0, <3>1, KeepTruth
    <3> QED
      BY <3>2, <3>3 DEF LoadTruth
  <2>5. CASE WriteObservations
    <3>1. /\ KeepReading /\ UnderWay /\ ~UnderWay' /\ UNCHANGED <<wlPc, intervals>>
          /\ UNCHANGED <<region, used, now, began, unread, rows, queried>>
          /\ ldPc = "final" /\ ldPc' = "exited"
          /\ output' = ObservationsFromSnapshots(snapshots', intervals, Regions)
      BY <2>5 DEF WriteObservations, workloadVars, UnderWay
    <3>2. wlPc = "returned"
      BY <3>1 DEF LoadInv, Endings
    <3>3. ReadingInv' /\ snapshots' # <<>>
      BY <1>0, <3>1, KeepTruth
    <3>4. OutputInv'
      BY <3>1, <3>2, <3>3 DEF OutputInv
    <3> QED
      BY <3>3, <3>4 DEF LoadTruth
  <2> QED
    BY <1>2, <2>1, <2>2, <2>3, <2>4, <2>5 DEF Loader
<1>3. ASSUME LoadNext, TickerFires \/ Cancel \/ DurationOver PROVE LoadTruth'
  <2>1. /\ UNCHANGED <<outcome, output, ldPc, wlPc, intervals>>
        /\ UNCHANGED <<now, region, used, rows, queried, began, unread, snapshots, usedAt>>
    BY <1>3 DEF TickerFires, Cancel, DurationOver, Stop, workloadVars
  <2>2. OutputInv'
    BY <2>1, OutputFrame
  <2>3. ReadingInv'
    BY <1>0, <2>1, ReadingFrame DEF UnderWay
  <2> QED
    BY <2>2, <2>3 DEF LoadTruth
<1>4. ASSUME LoadNext, Database PROVE LoadTruth'
  <2>1. /\ UNCHANGED <<outcome, output, ldPc, wlPc, intervals>>
        /\ UNCHANGED <<now, rows, queried, began, unread, snapshots, usedAt>>
    BY <1>4 DEF Database, Consume, Relead, ListOrDelist, Happens, workloadVars
  <2>2. OutputInv'
    BY <2>1, OutputFrame
  <2>3. ReadingInv'
    BY <1>0, <1>4, <2>1, DatabaseTruth
  <2> QED
    BY <2>2, <2>3 DEF LoadTruth
<1>5. CASE UNCHANGED <<setting, loadVars>>
  <2>1. /\ UNCHANGED <<outcome, output, ldPc, wlPc, intervals>>
        /\ UNCHANGED <<now, region, used, rows, queried, began, unread, snapshots, usedAt>>
    BY <1>5 DEF loadVars, workloadVars
  <2>2. OutputInv'
    BY <2>1, OutputFrame
  <2>3. ReadingInv'
    BY <1>0, <2>1, ReadingFrame DEF UnderWay
  <2> QED
    BY <2>2, <2>3 DEF LoadTruth
<1> QED
  BY <1>1, <1>2, <1>3, <1>4, <1>5 DEF LoadNext

LEMMA TruthInvariance == LoadSpec => []LoadTruth
BY LoadInvariance, TruthInit, TruthStep, PTL DEF LoadSpec
-----------------------------------------------------------------------------
(* The observations.                                                         *)

LEMMA PresentFields ==
    ASSUME NEW cur, NEW prev, NEW metrics, NEW r
    PROVE  LET o == ObservePresent(r, cur, prev, metrics)
           IN  /\ o.region = r /\ o.datanode = cur[r].datanode
               /\ o.requests = metrics[r].requests
               /\ o.time = cur[r].time
               /\ \/ ~o.valid /\ o.cpuUsed = 0 /\ o.bytesUsed = 0
                  \/ /\ o.valid /\ r \in DOMAIN prev /\ ~IsReset(cur[r], prev[r])
                     /\ prev[r].time < cur[r].time
                     /\ o.cpuUsed = Minus(cur[r].cpu, prev[r].cpu)
                     /\ o.bytesUsed = Minus(cur[r].bytes, prev[r].bytes)
BY DEF ObservePresent

LEMMA GoneFields ==
    ASSUME NEW prev, NEW metrics, NEW r
    PROVE  LET o == ObserveGone(r, prev, metrics)
           IN  /\ o.region = r /\ o.requests = metrics[r].requests /\ ~o.valid
               /\ o.cpuUsed = 0 /\ o.bytesUsed = 0
BY DEF ObserveGone

\* CalculateObservations has one observation of each region in either reading.
LEMMA ObservationsByRegion ==
    ASSUME NEW cur, NEW prev, NEW metrics,
           DOMAIN cur \subseteq Regions, DOMAIN prev \subseteq Regions
    PROVE  LET all == CalculateObservations(cur, prev, metrics)
           IN  /\ IsFiniteSet(all)
               /\ \A o \in all : /\ o.region \in DOMAIN cur \cup DOMAIN prev
                                  /\ o = IF o.region \in DOMAIN cur
                                         THEN ObservePresent(o.region, cur, prev, metrics)
                                         ELSE ObserveGone(o.region, prev, metrics)
               /\ \A o, q \in all : o.region = q.region => o = q
               /\ \A r \in DOMAIN cur \cup DOMAIN prev : \E o \in all : o.region = r
<1> DEFINE all == CalculateObservations(cur, prev, metrics)
<1>1. \A o \in all : /\ o.region \in DOMAIN cur \cup DOMAIN prev
                     /\ o = IF o.region \in DOMAIN cur
                            THEN ObservePresent(o.region, cur, prev, metrics)
                            ELSE ObserveGone(o.region, prev, metrics)
  <2> SUFFICES ASSUME NEW o \in all
               PROVE  /\ o.region \in DOMAIN cur \cup DOMAIN prev
                      /\ o = IF o.region \in DOMAIN cur
                             THEN ObservePresent(o.region, cur, prev, metrics)
                             ELSE ObserveGone(o.region, prev, metrics)
    OBVIOUS
  <2>1. CASE \E r \in DOMAIN cur : o = ObservePresent(r, cur, prev, metrics)
    BY <2>1, PresentFields
  <2>2. CASE \E r \in DOMAIN prev \ DOMAIN cur : o = ObserveGone(r, prev, metrics)
    BY <2>2, GoneFields
  <2> QED
    BY <2>1, <2>2 DEF CalculateObservations
<1>2. \A r \in DOMAIN cur \cup DOMAIN prev : \E o \in all : o.region = r
  <2> TAKE r \in DOMAIN cur \cup DOMAIN prev
  <2>1. CASE r \in DOMAIN cur
    BY <2>1, PresentFields DEF CalculateObservations
  <2>2. CASE r \notin DOMAIN cur
    BY <2>2, GoneFields DEF CalculateObservations
  <2> QED
    BY <2>1, <2>2
<1> HIDE DEF all
<1>3. \A o, q \in all : o.region = q.region => o = q
  BY <1>1
<1>4. IsFiniteSet(all)
  <2> DEFINE regionOf == [o \in all |-> o.region]
  <2>1. regionOf \in Injection(all, Regions)
    BY <1>1, <1>3 DEF Injection, IsInjective
  <2> QED
    BY <2>1, FS_Injection, WorkloadAssumption
<1> QED
  BY <1>1, <1>2, <1>3, <1>4 DEF all

\* A uint64 difference of counters that have not started again.
LEMMA MinusBelow ==
    ASSUME NEW a \in Nat, NEW b \in Nat, ~(a < b)
    PROVE  Minus(a, b) \in Nat /\ Minus(a, b) <= a - b
<1> DEFINE d == a - b
<1>1. d \in Nat /\ CounterSize \in Nat \ {0}
  BY CounterAssumption
<1> HIDE DEF d
<1>2. d % CounterSize \in Nat /\ d % CounterSize <= d
  BY <1>1
<1> QED
  BY <1>2 DEF Minus, d

\* What a valid rate of region r between two readings claims.
ValidBelow(o, prev, from, cur, to) ==
    LET r == o.region
    IN  /\ r \in DOMAIN prev /\ r \in DOMAIN cur
        /\ o.datanode = cur[r].datanode
        /\ o.cpuUsed \in Nat /\ o.cpuUsed <= to[r].cpu - from[r].cpu
        /\ o.bytesUsed \in Nat /\ o.bytesUsed <= to[r].bytes - from[r].bytes
        /\ o.time = cur[r].time /\ prev[r].time < o.time

\* CalculateObservations claims no more of a region than it consumed.
LEMMA ObservedBelow ==
    ASSUME NEW cur \in Readings, NEW prev \in Readings, NEW from \in UsesRead, NEW to \in UsesRead,
           DOMAIN from = DOMAIN prev, DOMAIN to = DOMAIN cur, Follows(prev, from, cur, to), NEW metrics,
           NEW o \in CalculateObservations(cur, prev, metrics)
    PROVE  \/ ~o.valid /\ o.cpuUsed = 0 /\ o.bytesUsed = 0
           \/ ValidBelow(o, prev, from, cur, to)
<1> DEFINE r == o.region
<1>1. DOMAIN cur \subseteq Regions /\ DOMAIN prev \subseteq Regions
  BY ReadingParts
<1>2. /\ r \in DOMAIN cur \cup DOMAIN prev
      /\ o = IF r \in DOMAIN cur THEN ObservePresent(r, cur, prev, metrics)
                                 ELSE ObserveGone(r, prev, metrics)
  BY <1>1, ObservationsByRegion
<1> HIDE DEF r
<1>3. CASE r \notin DOMAIN cur
  BY <1>2, <1>3, GoneFields
<1>4. CASE r \in DOMAIN cur /\ ~o.valid /\ o.cpuUsed = 0 /\ o.bytesUsed = 0
  BY <1>4
<1>5. CASE /\ r \in DOMAIN cur /\ r \in DOMAIN prev /\ ~IsReset(cur[r], prev[r])
           /\ prev[r].time < cur[r].time
           /\ o.cpuUsed = Minus(cur[r].cpu, prev[r].cpu)
           /\ o.bytesUsed = Minus(cur[r].bytes, prev[r].bytes)
  <2>1. /\ cur[r].cpu \in Nat /\ cur[r].bytes \in Nat /\ prev[r].cpu \in Nat /\ prev[r].bytes \in Nat
        /\ ~(cur[r].cpu < prev[r].cpu) /\ ~(cur[r].bytes < prev[r].bytes)
    BY <1>5, ReadingParts DEF Entries, IsReset
  <2>2. /\ o.cpuUsed \in Nat /\ o.cpuUsed <= cur[r].cpu - prev[r].cpu
        /\ o.bytesUsed \in Nat /\ o.bytesUsed <= cur[r].bytes - prev[r].bytes
    BY <1>5, <2>1, MinusBelow
  <2>3. /\ cur[r].cpu - prev[r].cpu <= to[r].cpu - from[r].cpu
        /\ cur[r].bytes - prev[r].bytes <= to[r].bytes - from[r].bytes
    BY <1>5 DEF Follows, GrowsBelow, Usage
  <2>4. o.datanode = cur[r].datanode /\ o.time = cur[r].time
    BY <1>2, <1>5, PresentFields
  <2>5. from[r] \in Uses /\ to[r] \in Uses
    BY <1>5, UsesParts
  <2>6. r \in DOMAIN prev /\ r \in DOMAIN cur /\ prev[r].time < o.time
    BY <1>5, <2>4
  <2> QED
    BY <2>1, <2>2, <2>3, <2>4, <2>5, <2>6 DEF r, ValidBelow, Uses
<1> QED
  BY <1>2, <1>3, <1>4, <1>5, PresentFields

\* The log line of a reading claims no more of a datanode than the regions it
\* leads consumed.
LEMMA AggregateBelow ==
    ASSUME NEW cur \in Readings, NEW prev \in Readings, NEW from \in UsesRead, NEW to \in UsesRead,
           DOMAIN from = DOMAIN prev, DOMAIN to = DOMAIN cur, Follows(prev, from, cur, to),
           NEW d \in DOMAIN AggregateDatanodeCPU(cur, prev, Regions)
    PROVE  AggregateDatanodeCPU(cur, prev, Regions)[d].cores <=
               SumFunction([r \in {r \in DOMAIN cur \cap DOMAIN prev : cur[r].datanode = d}
                               |-> to[r].cpu - from[r].cpu])
<1> DEFINE metrics == [r \in Regions |-> NoMetrics]
           all == CalculateObservations(cur, prev, metrics)
           on == {o \in all : o.datanode = d}
           led == {r \in DOMAIN cur \cap DOMAIN prev : cur[r].datanode = d}
           f == [o \in on |-> o.cpuUsed]
           e == [r \in led |-> to[r].cpu - from[r].cpu]
           regionOf == [o \in on |-> o.region]
<1>1. AggregateDatanodeCPU(cur, prev, Regions)[d].cores = SumFunctionOnSet(f, on)
  BY DEF AggregateDatanodeCPU, SumFunction
<1>2. SumFunction(e) = SumFunctionOnSet(e, led)
  BY DEF SumFunction
<1>3. ASSUME NEW o \in all
      PROVE  /\ o.cpuUsed \in Nat
             /\ o.cpuUsed > 0 => /\ o.region \in DOMAIN cur \cap DOMAIN prev
                                 /\ o.datanode = cur[o.region].datanode
                                 /\ o.cpuUsed <= to[o.region].cpu - from[o.region].cpu
  <2>1. \/ ~o.valid /\ o.cpuUsed = 0 /\ o.bytesUsed = 0
        \/ ValidBelow(o, prev, from, cur, to)
    BY ObservedBelow
  <2> HIDE DEF all
  <2> QED
    BY <2>1 DEF ValidBelow
<1>4. /\ IsFiniteSet(all) /\ DOMAIN cur \subseteq Regions
      /\ \A o, q \in all : o.region = q.region => o = q
  <2>1. DOMAIN cur \subseteq Regions /\ DOMAIN prev \subseteq Regions
    BY ReadingParts
  <2> QED
    BY <2>1, ObservationsByRegion
<1>5. IsFiniteSet(on) /\ IsFiniteSet(led)
  <2>1. on \subseteq all /\ led \subseteq Regions
    BY <1>4
  <2> QED
    BY <1>4, <2>1, FS_Subset, WorkloadAssumption
<1>6. \A r \in led : e[r] \in Nat
  <2> SUFFICES ASSUME NEW r \in led PROVE to[r].cpu - from[r].cpu \in Nat
    OBVIOUS
  <2>1. to[r].cpu \in Nat /\ from[r].cpu \in Nat
    BY UsesParts DEF Uses
  <2>2. from[r].cpu <= to[r].cpu
    BY DEF Follows, GrowsBelow, Usage
  <2> QED
    BY <2>1, <2>2
<1>7. \A o \in on : f[o] \in Int /\ (f[o] > 0 => regionOf[o] \in led /\ f[o] <= e[regionOf[o]])
  BY <1>3
<1>8. \A o, q \in on : f[o] > 0 /\ f[q] > 0 /\ regionOf[o] = regionOf[q] => o = q
  BY <1>4
<1> HIDE DEF on, led, f, e, regionOf
<1>9. SumFunctionOnSet(f, on) <= SumFunctionOnSet(e, led)
  BY <1>5, <1>6, <1>7, <1>8, SumInjected
<1>10. SumFunction(e) = SumFunction([r \in led |-> to[r].cpu - from[r].cpu])
  BY DEF e
<1> QED
  BY <1>1, <1>2, <1>9, <1>10 DEF led

\* The readings and what was used, at two readings in turn.
LEMMA TwoReadings ==
    ASSUME LoadTruth, NEW k \in 2..Len(snapshots)
    PROVE  /\ snapshots[k] \in Readings /\ snapshots[k - 1] \in Readings
           /\ usedAt[k] \in UsesRead /\ usedAt[k - 1] \in UsesRead
           /\ Timely(snapshots[k], usedAt[k]) /\ Timely(snapshots[k - 1], usedAt[k - 1])
           /\ Follows(snapshots[k - 1], usedAt[k - 1], snapshots[k], usedAt[k])
           /\ BeginsAfter(usedAt[k - 1], snapshots[k])
<1>1. /\ snapshots \in Seq(Readings) /\ usedAt \in Seq(UsesRead) /\ Len(usedAt) = Len(snapshots)
      /\ Len(snapshots) \in Nat
  BY LenProperties DEF LoadTruth, ReadingInv, ReadingTypes
<1>2. k \in 1..Len(snapshots) /\ k - 1 \in 1..Len(snapshots)
  BY <1>1
<1>3. /\ snapshots[k] \in Readings /\ snapshots[k - 1] \in Readings
      /\ usedAt[k] \in UsesRead /\ usedAt[k - 1] \in UsesRead
  BY <1>1, <1>2, ElementOfSeq
<1>4. Timely(snapshots[k], usedAt[k]) /\ Timely(snapshots[k - 1], usedAt[k - 1])
  BY <1>2 DEF LoadTruth, ReadingInv, ReadingTypes
<1> QED
  BY <1>3, <1>4 DEF LoadTruth, ReadingInv, KeptInv

\* What the command writes has one set of observations for each reading.
LEMMA OutputOf ==
    ASSUME LoadTruth, output # <<>>
    PROVE  /\ wlPc = "returned" /\ Len(snapshots) \in Nat
           /\ DOMAIN output = 1..Len(snapshots) /\ Len(output) = Len(snapshots)
           /\ \A k \in 1..Len(snapshots) :
                 output[k] = CalculateObservations(snapshots[k], IF k = 1 THEN <<>> ELSE snapshots[k - 1],
                                                   MetricsFor(k, intervals, Regions))
<1> DEFINE n == Len(snapshots)
           set(k) == CalculateObservations(snapshots[k], IF k = 1 THEN <<>> ELSE snapshots[k - 1],
                                           MetricsFor(k, intervals, Regions))
<1>1. n \in Nat /\ DOMAIN snapshots = 1..n
  BY LenProperties DEF LoadTruth, ReadingInv, ReadingTypes
<1>2. /\ wlPc = "returned"
      /\ output = [k \in DOMAIN snapshots |-> set(k)]
  BY DEF LoadTruth, OutputInv, ObservationsFromSnapshots
<1> HIDE DEF n, set
<1>3. output = [k \in 1..n |-> set(k)]
  BY <1>1, <1>2
<1>4. output \in Seq({set(k) : k \in 1..n})
  BY <1>1, <1>3
<1>5. DOMAIN output = 1..n /\ Len(output) = n
  BY <1>1, <1>3, <1>4, LenProperties
<1> QED
  BY <1>1, <1>2, <1>3, <1>5 DEF n, set

\* A valid rate or a log line never claims more than its regions consumed between
\* the queries of the two readings, and the time of a rate begins before the one
\* query and ends between the two, for any moves, restarts and drops of any number
\* of regions, at any point of a reading, and whatever the size of the counters.
THEOREM RatesAreBelow == LoadSpec => []RatesUnderstate
<1>1. LoadTruth => RatesUnderstate
  <2> SUFFICES ASSUME LoadTruth, NEW k \in 2..Len(snapshots)
               PROVE  /\ k <= Len(output) => \A o \in output[k] :
                            o.valid => /\ o.cpuUsed <= usedAt[k][o.region]["cpu"] - usedAt[k - 1][o.region]["cpu"]
                                       /\ o.bytesUsed <= usedAt[k][o.region]["bytes"] - usedAt[k - 1][o.region]["bytes"]
                                       /\ snapshots[k - 1][o.region].time < o.time
                                       /\ snapshots[k - 1][o.region].time <= usedAt[k - 1][o.region].time
                                       /\ usedAt[k - 1][o.region].time <= o.time
                                       /\ o.time <= usedAt[k][o.region].time
                      /\ \A d \in DOMAIN AggregateDatanodeCPU(snapshots[k], snapshots[k - 1], Regions) :
                            AggregateDatanodeCPU(snapshots[k], snapshots[k - 1], Regions)[d].cores <=
                              SumFunction([r \in {r \in DOMAIN snapshots[k] \cap DOMAIN snapshots[k - 1] :
                                                     snapshots[k][r].datanode = d}
                                              |-> usedAt[k][r]["cpu"] - usedAt[k - 1][r]["cpu"]])
    BY DEF RatesUnderstate
  <2>1. /\ snapshots[k] \in Readings /\ snapshots[k - 1] \in Readings
        /\ usedAt[k] \in UsesRead /\ usedAt[k - 1] \in UsesRead
        /\ Timely(snapshots[k], usedAt[k]) /\ Timely(snapshots[k - 1], usedAt[k - 1])
        /\ Follows(snapshots[k - 1], usedAt[k - 1], snapshots[k], usedAt[k])
        /\ BeginsAfter(usedAt[k - 1], snapshots[k])
    BY TwoReadings
  <2>2. ASSUME k <= Len(output), NEW o \in output[k], o.valid
        PROVE  /\ o.cpuUsed <= usedAt[k][o.region].cpu - usedAt[k - 1][o.region].cpu
               /\ o.bytesUsed <= usedAt[k][o.region].bytes - usedAt[k - 1][o.region].bytes
               /\ snapshots[k - 1][o.region].time < o.time
               /\ snapshots[k - 1][o.region].time <= usedAt[k - 1][o.region].time
               /\ usedAt[k - 1][o.region].time <= o.time
               /\ o.time <= usedAt[k][o.region].time
    <3>1. output # <<>> /\ k # 1 /\ k \in 1..Len(snapshots)
      <4>1. Len(<<>>) = 0 /\ Len(snapshots) \in Nat
        BY LenProperties DEF LoadTruth, ReadingInv, ReadingTypes
      <4> QED
        BY <2>2, <4>1
    <3>2. o \in CalculateObservations(snapshots[k], snapshots[k - 1], MetricsFor(k, intervals, Regions))
      BY <2>2, <3>1, OutputOf
    <3>3. ValidBelow(o, snapshots[k - 1], usedAt[k - 1], snapshots[k], usedAt[k])
      BY <2>1, <2>2, <3>2, ObservedBelow DEF Timely
    <3> QED
      BY <2>1, <3>3 DEF ValidBelow, Timely, BeginsAfter
  <2>3. \A d \in DOMAIN AggregateDatanodeCPU(snapshots[k], snapshots[k - 1], Regions) :
            AggregateDatanodeCPU(snapshots[k], snapshots[k - 1], Regions)[d].cores <=
              SumFunction([r \in {r \in DOMAIN snapshots[k] \cap DOMAIN snapshots[k - 1] :
                                     snapshots[k][r].datanode = d}
                              |-> usedAt[k][r].cpu - usedAt[k - 1][r].cpu])
    BY <2>1, AggregateBelow DEF Timely
  <2> QED
    BY <2>2, <2>3
<1> QED
  BY <1>1, TruthInvariance, PTL
-----------------------------------------------------------------------------
(* The requests reported.                                                    *)

LEMMA MetricsOf ==
    ASSUME intervals \in Seq(Metrics), NEW k \in Nat \ {0}, NEW r \in Regions
    PROVE  /\ MetricsFor(k, intervals, Regions)[r].requests \in Nat
           /\ MetricsFor(k, intervals, Regions)[r].requests > 0 => k - 1 \in 1..Len(intervals)
           /\ k - 1 \in 1..Len(intervals) =>
                MetricsFor(k, intervals, Regions)[r].requests = intervals[k - 1][r].requests
<1>1. Len(intervals) \in Nat
  BY LenProperties
<1>2. CASE k - 1 \in 1..Len(intervals)
  <2>1. intervals[k - 1] \in Metrics
    BY <1>2, ElementOfSeq
  <2>2. MetricsFor(k, intervals, Regions) = intervals[k - 1]
    BY <1>1, <1>2 DEF MetricsFor
  <2>3. intervals[k - 1][r].requests \in Nat
    BY <2>1 DEF Metrics
  <2> QED
    BY <1>2, <2>2, <2>3
<1>3. CASE k - 1 \notin 1..Len(intervals)
  <2>1. ~(k > 1 /\ k - 1 <= Len(intervals))
    BY <1>1, <1>3
  <2>2. MetricsFor(k, intervals, Regions)[r] = [requests |-> 0, errors |-> 0]
    BY <2>1 DEF MetricsFor, NoMetrics
  <2> QED
    BY <1>3, <2>2
<1> QED
  BY <1>2, <1>3

\* A reading reports a region once, with the requests of the interval before it.
LEMMA ReportedOnce ==
    ASSUME LoadTruth, CountInv, output # <<>>, NEW k \in 1..Len(snapshots), NEW r \in Regions
    PROVE  /\ ReportedAt(k, r) \in {0, MetricsFor(k, intervals, Regions)[r].requests}
           /\ k > 1 /\ r \in DOMAIN snapshots[k - 1] =>
                ReportedAt(k, r) = MetricsFor(k, intervals, Regions)[r].requests
<1> DEFINE cur == snapshots[k]
           prev == IF k = 1 THEN <<>> ELSE snapshots[k - 1]
           metrics == MetricsFor(k, intervals, Regions)
           mine == {o \in output[k] : o.region = r}
           f == [o \in mine |-> o.requests]
<1>1. output[k] = CalculateObservations(cur, prev, metrics)
  BY OutputOf
<1>2. DOMAIN cur \subseteq Regions /\ DOMAIN prev \subseteq Regions
  <2>1. snapshots \in Seq(Readings) /\ Len(snapshots) \in Nat
    BY LenProperties DEF LoadTruth, ReadingInv, ReadingTypes
  <2>2. CASE k = 1
    <3>1. snapshots[k] \in Readings /\ DOMAIN <<>> = {}
      BY <2>1, <2>2, ElementOfSeq
    <3> QED
      BY <2>2, <3>1, ReadingParts
  <2>3. CASE k # 1
    <3>1. k - 1 \in 1..Len(snapshots)
      BY <2>1, <2>3
    <3>2. snapshots[k] \in Readings /\ snapshots[k - 1] \in Readings
      BY <2>1, <3>1, ElementOfSeq
    <3> QED
      BY <2>3, <3>2, ReadingParts
  <2> QED
    BY <2>2, <2>3
<1> HIDE DEF cur, prev, metrics
<1>3. /\ \A o \in output[k] : /\ o.region \in DOMAIN cur \cup DOMAIN prev
                              /\ o = IF o.region \in DOMAIN cur
                                     THEN ObservePresent(o.region, cur, prev, metrics)
                                     ELSE ObserveGone(o.region, prev, metrics)
      /\ \A o, q \in output[k] : o.region = q.region => o = q
      /\ \A x \in DOMAIN cur \cup DOMAIN prev : \E o \in output[k] : o.region = x
  BY <1>1, <1>2, ObservationsByRegion
<1>4. \A o \in mine : o.requests = metrics[r].requests
  <2> TAKE o \in mine
  <2>1. o = ObservePresent(r, cur, prev, metrics) \/ o = ObserveGone(r, prev, metrics)
    BY <1>3
  <2> QED
    BY <2>1, PresentFields, GoneFields
<1>5. ReportedAt(k, r) = SumFunctionOnSet(f, mine)
  BY DEF ReportedAt, SumFunction
<1>6. metrics[r].requests \in Nat
  <2>1. intervals \in Seq(Metrics)
    BY DEF CountInv, CountTypes
  <2>2. k \in Nat \ {0}
    BY OutputOf
  <2> QED
    BY <2>1, <2>2, MetricsOf DEF metrics
<1> HIDE DEF mine
<1>7. CASE mine = {}
  <2>1. ReportedAt(k, r) = 0
    BY <1>5, <1>7, SumEmpty
  <2>2. r \notin DOMAIN prev
    BY <1>3, <1>7 DEF mine
  <2> QED
    BY <2>1, <2>2 DEF prev
<1>8. CASE mine # {}
  <2>1. PICK o \in mine : TRUE
    BY <1>8
  <2>2. mine = {o}
    BY <1>3, <2>1 DEF mine
  <2>3. f[o] = metrics[r].requests
    BY <1>4, <2>1
  <2> DEFINE x == f[o]
  <2>x. x \in Nat /\ x = metrics[r].requests
    BY <1>6, <2>3, Zenon
  <2> HIDE DEF f, x
  <2>4. SumFunctionOnSet(f, {o}) = x + SumFunctionOnSet(f, {o} \ {o})
    <3>1. IsFiniteSet({o}) /\ o \in {o}
      BY FS_Singleton
    <3>2. \A y \in {o} : f[y] \in Int
      BY <2>x DEF x
    <3> QED
      BY <3>1, <3>2, SumSplit DEF x
  <2>5. {o} \ {o} = {} /\ SumFunctionOnSet(f, {}) = 0
    BY SumEmpty
  <2>6. SumFunctionOnSet(f, mine) = metrics[r].requests
    <3>1. SumFunctionOnSet(f, mine) = x + 0
      BY <2>2, <2>4, <2>5
    <3> QED
      BY <2>x, <3>1
  <2> QED
    BY <1>5, <2>6 DEF metrics
<1> QED
  BY <1>7, <1>8

\* Reported, and the counters of the run that has returned, are sums over the
\* readings and over the intervals.
LEMMA ReportedSums ==
    ASSUME LoadInv, CountInv, LoadTruth, output # <<>>, NEW r \in Regions
    PROVE  /\ Reported(r) = SumFunctionOnSet([k \in 1..Len(snapshots) |-> ReportedAt(k, r)], 1..Len(snapshots))
           /\ total[r].requests = SumFunctionOnSet([j \in 1..Len(intervals) |-> intervals[j][r].requests],
                                                   1..Len(intervals))
<1>1. DOMAIN output = 1..Len(snapshots) /\ wlPc = "returned"
  BY OutputOf
<1>2. DOMAIN intervals = 1..Len(intervals) /\ Len(intervals) \in Nat
  BY LenProperties DEF CountInv, CountTypes
<1>3. Reported(r) = SumFunctionOnSet([k \in 1..Len(snapshots) |-> ReportedAt(k, r)], 1..Len(snapshots))
  BY <1>1 DEF Reported, SumFunction
<1>4. Between(r) = {}
  <2>1. \A p \in Plans : runner[p] \in {"done", "timer"}
    BY <1>1 DEF LoadInv, Endings, OthersRest
  <2> QED
    BY <2>1 DEF Between
<1>5. open[r].requests = 0
  BY <1>1 DEF LoadInv, Endings, NoRequests
<1>6. Cardinality(Between(r)) = 0
  BY <1>4, FS_EmptySet
<1>7. total[r].requests = Collected(intervals, r, "requests") + 0 + 0
  BY <1>5, <1>6 DEF CountInv, Agree
<1>8. Collected(intervals, r, "requests") \in Nat
  BY CountNumbers DEF CountInv, Fields
<1>9. Collected(intervals, r, "requests")
        = SumFunctionOnSet([j \in 1..Len(intervals) |-> intervals[j][r].requests], 1..Len(intervals))
  BY <1>2 DEF Collected, SumFunction
<1> QED
  BY <1>3, <1>7, <1>8, <1>9

\* An observation never reports the requests of an interval a second time, and
\* with a reading for every interval and the region in all of them, none is left
\* out.
THEOREM RequestsReported == LoadSpec => []RequestsReportedOnce
<1>1. LoadInv /\ CountInv /\ LoadTruth => RequestsReportedOnce
  <2> SUFFICES ASSUME LoadInv, CountInv, LoadTruth, outcome = "written", NEW r \in Regions
               PROVE  /\ Reported(r) <= total[r].requests
                      /\ /\ Len(snapshots) > Len(intervals)
                         /\ \A k \in 2..Len(snapshots) : r \in DOMAIN snapshots[k - 1]
                         => Reported(r) = total[r].requests
    BY DEF RequestsReportedOnce
  <2> DEFINE n == Len(snapshots)
             m == Len(intervals)
             f == [k \in 1..n |-> ReportedAt(k, r)]
             e == [j \in 1..m |-> intervals[j][r].requests]
             before == [k \in 1..n |-> k - 1]
             after == [j \in 1..m |-> j + 1]
  <2>1. n \in Nat /\ m \in Nat /\ intervals \in Seq(Metrics) /\ output # <<>>
    <3>1. snapshots \in Seq(Readings) /\ snapshots # <<>> /\ intervals \in Seq(Metrics)
      BY DEF LoadTruth, ReadingInv, ReadingTypes, OutputInv, CountInv, CountTypes
    <3>2. n \in Nat \ {0} /\ m \in Nat /\ DOMAIN snapshots = 1..n
      BY <3>1, EmptySeq, LenProperties
    <3>3. DOMAIN output = DOMAIN snapshots
      BY DEF LoadTruth, OutputInv, ObservationsFromSnapshots
    <3>4. output # <<>>
      BY <3>2, <3>3
    <3> QED
      BY <3>1, <3>2, <3>4
  <2>2. Reported(r) = SumFunctionOnSet(f, 1..n) /\ total[r].requests = SumFunctionOnSet(e, 1..m)
    BY <2>1, ReportedSums
  <2>3. \A k \in 1..n : /\ f[k] \in Nat
                        /\ f[k] > 0 => k - 1 \in 1..m /\ f[k] = e[k - 1]
                        /\ k - 1 \in 1..m /\ r \in DOMAIN snapshots[k - 1] => f[k] = e[k - 1]
    <3> TAKE k \in 1..n
    <3>1. k \in Nat \ {0}
      BY <2>1
    <3> DEFINE x == MetricsFor(k, intervals, Regions)[r].requests
    <3>2. /\ x \in Nat /\ (x > 0 => k - 1 \in 1..m)
          /\ k - 1 \in 1..m => x = intervals[k - 1][r].requests
      BY <2>1, <3>1, MetricsOf
    <3>3. /\ ReportedAt(k, r) \in {0, x}
          /\ k > 1 /\ r \in DOMAIN snapshots[k - 1] => ReportedAt(k, r) = x
      BY <2>1, ReportedOnce
    <3>4. k - 1 \in 1..m => k > 1
      BY <2>1, <3>1
    <3> HIDE DEF x, n, m
    <3> QED
      BY <3>2, <3>3, <3>4
  <2>4. \A j \in 1..m : e[j] \in Nat
    <3>1. \A j \in 1..m : intervals[j] \in Metrics
      BY <2>1, ElementOfSeq
    <3> QED
      BY <3>1 DEF Metrics
  <2>5. IsFiniteSet(1..n) /\ IsFiniteSet(1..m)
    BY <2>1, FS_Interval
  <2>6. \A k \in 1..n : before[k] = k - 1
    OBVIOUS
  <2>7. \A j \in 1..m : after[j] = j + 1
    OBVIOUS
  <2> HIDE DEF f, e, before, after
  <2>8. SumFunctionOnSet(f, 1..n) <= SumFunctionOnSet(e, 1..m)
    <3>1. \A k \in 1..n : f[k] \in Int /\ (f[k] > 0 => before[k] \in 1..m /\ f[k] <= e[before[k]])
      BY <2>3, <2>6
    <3>2. \A k, l \in 1..n : f[k] > 0 /\ f[l] > 0 /\ before[k] = before[l] => k = l
      BY <2>1, <2>6
    <3> HIDE DEF n, m
    <3> QED
      BY <2>4, <2>5, <3>1, <3>2, SumInjected
  <2>9. ASSUME n > m, \A k \in 2..n : r \in DOMAIN snapshots[k - 1]
        PROVE  SumFunctionOnSet(e, 1..m) <= SumFunctionOnSet(f, 1..n)
    <3>1. \A j \in 1..m : e[j] \in Int /\ after[j] \in 1..n /\ e[j] <= f[after[j]]
      <4> TAKE j \in 1..m
      <4>1. j + 1 \in 1..n /\ j + 1 \in 2..n /\ (j + 1) - 1 = j
        BY <2>1, <2>9
      <4>2. f[j + 1] = e[j]
        BY <2>3, <2>9, <4>1
      <4> QED
        BY <2>4, <2>7, <4>1, <4>2
    <3>2. \A j, l \in 1..m : after[j] = after[l] => j = l
      BY <2>1, <2>7
    <3> HIDE DEF n, m
    <3>3. \A k \in 1..n : f[k] \in Nat
      BY <2>3
    <3> QED
      BY <2>5, <3>1, <3>2, <3>3, SumInjected
  <2>10. SumFunctionOnSet(f, 1..n) \in Int /\ SumFunctionOnSet(e, 1..m) \in Int
    <3>1. /\ \A k \in 1..n : f[k] \in Int
          /\ \A j \in 1..m : e[j] \in Int
      BY <2>3, <2>4
    <3> HIDE DEF n, m
    <3> QED
      BY <2>5, <3>1, SumTypes
  <2> QED
    BY <2>2, <2>8, <2>9, <2>10
<1> QED
  BY <1>1, LoadInvariance, CountInvariance, TruthInvariance, PTL
=============================================================================
