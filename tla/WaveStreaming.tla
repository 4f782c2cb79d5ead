--------------------------- MODULE WaveStreaming ---------------------------
(***************************************************************************)
(* One call of convertToRemoteWriteRequestsStreaming (sample_loader.go)    *)
(* with every goroutine it starts: per config file a generator that walks  *)
(* the label permutations and a forwarder that copies its series to the    *)
(* merged channel, one closer, and the calling goroutine that cuts the     *)
(* merged stream into requests.  The workers are an environment that takes *)
(* requests from the bounded request channel, or never does.               *)
(***************************************************************************)
EXTENDS Integers, Sequences, FiniteSets, Functions

CONSTANTS Configs,      \* the parsed config files
          SeriesCount,  \* number of label permutations of each config
          MaxSamples,   \* --max-samples
          Workers,      \* --workers, the capacity of the request channel
          HasDeadline   \* --duration was given

ASSUME StreamAssumption ==
    /\ IsFiniteSet(Configs)
    /\ SeriesCount \in [Configs -> Nat]
    /\ MaxSamples \in Nat \ {0}
    /\ Workers \in Nat
    /\ HasDeadline \in BOOLEAN

\* A series is named by its config and its 0-based permutation index.
Series == UNION {{c} \X (0..(SeriesCount[c] - 1)) : c \in Configs}

GenChanCap == 1
MergedCap  == Cardinality(Configs)

VARIABLES
    genPc,     \* generator of a config: "check", "send" or "closed"
    next,      \* seriesIdx of a generator
    genChan,   \* channel of a generator, of capacity 1
    fwdPc,     \* forwarder of a config: "recv", "send" or "done"
    held,      \* series a forwarder is about to send, <<>> or <<series>>
    merged,    \* timeSeriesChan
    tsClosed,  \* timeSeriesChan is closed
    mainPc,    \* "range", "got", "enqueue", "drain", "final", "flush", "returned"
    cur,       \* series the caller has received, <<>> or <<series>>
    batch,     \* tsSet
    enqueued,  \* history: requests sent to requestChan, in order
    queued,    \* requests now in requestChan
    expired,   \* ctx.Err() != nil
    late,      \* history: requests sent after the deadline
    result     \* "running", or the returned value "true" / "false"

genVars  == <<genPc, next>>
fwdVars  == <<fwdPc, held>>
mainVars == <<mainPc, cur, batch, enqueued, queued, late, result>>
vars == <<genPc, next, genChan, fwdPc, held, merged, tsClosed, mainPc, cur,
          batch, enqueued, queued, expired, late, result>>

Init == /\ genPc = [c \in Configs |-> "check"]
        /\ next = [c \in Configs |-> 0]
        /\ genChan = [c \in Configs |-> <<>>]
        /\ fwdPc = [c \in Configs |-> "recv"]
        /\ held = [c \in Configs |-> <<>>]
        /\ merged = <<>>
        /\ tsClosed = FALSE
        /\ mainPc = "range"
        /\ cur = <<>>
        /\ batch = <<>>
        /\ enqueued = <<>>
        /\ queued = 0
        /\ expired = FALSE
        /\ late = 0
        /\ result = "running"
----------------------------------------------------------------------------
(* The generator: GeneratePermutedTimeSeriesContext, then close.            *)

\* The next permutation exists and ctx is live: build it.
GenBuild(c) == /\ genPc[c] = "check"
               /\ next[c] < SeriesCount[c]
               /\ ~expired
               /\ genPc' = [genPc EXCEPT ![c] = "send"]
               /\ UNCHANGED <<next, genChan, fwdVars, merged, tsClosed, mainVars, expired>>

\* No permutation is left, or ctx.Err() != nil: return and close the channel.
GenStop(c) == /\ genPc[c] = "check"
              /\ next[c] = SeriesCount[c] \/ expired
              /\ genPc' = [genPc EXCEPT ![c] = "closed"]
              /\ UNCHANGED <<next, genChan, fwdVars, merged, tsClosed, mainVars, expired>>

GenSend(c) == /\ genPc[c] = "send"
              /\ Len(genChan[c]) < GenChanCap
              /\ genChan' = [genChan EXCEPT ![c] = Append(@, <<c, next[c]>>)]
              /\ next' = [next EXCEPT ![c] = @ + 1]
              /\ genPc' = [genPc EXCEPT ![c] = "check"]
              /\ UNCHANGED <<fwdVars, merged, tsClosed, mainVars, expired>>

GenCancel(c) == /\ genPc[c] = "send"
                /\ expired
                /\ genPc' = [genPc EXCEPT ![c] = "closed"]
                /\ UNCHANGED <<next, genChan, fwdVars, merged, tsClosed, mainVars, expired>>
----------------------------------------------------------------------------
(* The forwarder of a config, and the goroutine that closes the merged      *)
(* channel once every forwarder is done.                                    *)

FwdReceive(c) == /\ fwdPc[c] = "recv"
                 /\ genChan[c] # <<>>
                 /\ held' = [held EXCEPT ![c] = <<Head(genChan[c])>>]
                 /\ genChan' = [genChan EXCEPT ![c] = Tail(@)]
                 /\ fwdPc' = [fwdPc EXCEPT ![c] = "send"]
                 /\ UNCHANGED <<genVars, merged, tsClosed, mainVars, expired>>

FwdEnd(c) == /\ fwdPc[c] = "recv"
             /\ genChan[c] = <<>>
             /\ genPc[c] = "closed"
             /\ fwdPc' = [fwdPc EXCEPT ![c] = "done"]
             /\ UNCHANGED <<genVars, genChan, held, merged, tsClosed, mainVars, expired>>

FwdSend(c) == /\ fwdPc[c] = "send"
              /\ Len(merged) < MergedCap
              /\ merged' = merged \o held[c]
              /\ held' = [held EXCEPT ![c] = <<>>]
              /\ fwdPc' = [fwdPc EXCEPT ![c] = "recv"]
              /\ UNCHANGED <<genVars, genChan, tsClosed, mainVars, expired>>

FwdCancel(c) == /\ fwdPc[c] = "send"
                /\ expired
                /\ held' = [held EXCEPT ![c] = <<>>]
                /\ fwdPc' = [fwdPc EXCEPT ![c] = "done"]
                /\ UNCHANGED <<genVars, genChan, merged, tsClosed, mainVars, expired>>

\* Mutant: nobody closes timeSeriesChan.
CloseMergedMissing == FALSE /\ UNCHANGED vars

CloseMerged == /\ ~tsClosed
               /\ \A c \in Configs : fwdPc[c] = "done"
               /\ tsClosed' = TRUE
               /\ UNCHANGED <<genVars, genChan, fwdVars, merged, mainVars, expired>>
----------------------------------------------------------------------------
(* The calling goroutine.                                                   *)

Receive == /\ mainPc = "range"
           /\ merged # <<>>
           /\ cur' = <<Head(merged)>>
           /\ merged' = Tail(merged)
           /\ mainPc' = "got"
           /\ UNCHANGED <<genVars, genChan, fwdVars, tsClosed, batch, enqueued,
                          queued, expired, late, result>>

\* A series received after the deadline is thrown away.
Discard == /\ mainPc = "got"
           /\ expired
           /\ cur' = <<>>
           /\ mainPc' = "range"
           /\ UNCHANGED <<genVars, genChan, fwdVars, merged, tsClosed, batch,
                          enqueued, queued, expired, late, result>>

Collect == /\ mainPc = "got"
           /\ ~expired
           /\ batch' = batch \o cur
           /\ cur' = <<>>
           /\ mainPc' = IF Len(batch') >= MaxSamples THEN "enqueue" ELSE "range"
           /\ UNCHANGED <<genVars, genChan, fwdVars, merged, tsClosed, enqueued,
                          queued, expired, late, result>>

\* Mutant: tsSet is not replaced after it was sent.
SendBatchKept(pc) == /\ mainPc = pc
                     /\ queued < Workers
                     /\ enqueued' = Append(enqueued, batch)
                     /\ queued' = queued + 1
                     /\ late' = IF expired THEN late + 1 ELSE late
                     /\ UNCHANGED <<batch, genVars, genChan, fwdVars, merged,
                                    tsClosed, cur, expired>>

\* Mutant: the request channel has no bound.
SendBatchUnbounded(pc) == /\ mainPc = pc
                          /\ enqueued' = Append(enqueued, batch)
                          /\ queued' = queued + 1
                          /\ late' = IF expired THEN late + 1 ELSE late
                          /\ batch' = <<>>
                          /\ UNCHANGED <<genVars, genChan, fwdVars, merged,
                                         tsClosed, cur, expired>>

\* The select of enqueue: send the request if the channel has room ...
SendBatch(pc) == /\ mainPc = pc
                 /\ queued < Workers
                 /\ enqueued' = Append(enqueued, batch)
                 /\ queued' = queued + 1
                 /\ late' = IF expired THEN late + 1 ELSE late
                 /\ batch' = <<>>
                 /\ UNCHANGED <<genVars, genChan, fwdVars, merged, tsClosed, cur, expired>>

\* ... or give the request up when ctx is done.
GiveUp(pc) == mainPc = pc /\ expired

Return(value) == /\ mainPc' = "returned"
                 /\ result' = value

EnqueueFull == /\ SendBatch("enqueue")
               /\ mainPc' = "range"
               /\ UNCHANGED result

\* Mutant: the merged channel is not drained before returning.
AbandonFullUndrained == /\ GiveUp("enqueue")
                        /\ Return("false")
                        /\ UNCHANGED <<genVars, genChan, fwdVars, merged, tsClosed,
                                       cur, batch, enqueued, queued, expired, late>>

AbandonFull == /\ GiveUp("enqueue")
               /\ mainPc' = "drain"
               /\ UNCHANGED <<genVars, genChan, fwdVars, merged, tsClosed, cur,
                              batch, enqueued, queued, expired, late, result>>

\* for range timeSeriesChan {}
Drain == /\ mainPc = "drain"
         /\ merged # <<>>
         /\ merged' = Tail(merged)
         /\ UNCHANGED <<genVars, genChan, fwdVars, tsClosed, mainVars, expired>>

DrainEnd == /\ mainPc = "drain"
            /\ merged = <<>> /\ tsClosed
            /\ Return("false")
            /\ UNCHANGED <<genVars, genChan, fwdVars, merged, tsClosed, cur,
                           batch, enqueued, queued, expired, late>>

RangeEnd == /\ mainPc = "range"
            /\ merged = <<>> /\ tsClosed
            /\ mainPc' = "final"
            /\ UNCHANGED <<genVars, genChan, fwdVars, merged, tsClosed, cur,
                           batch, enqueued, queued, expired, late, result>>

\* Mutant: ctx.Err() is not looked at after the loop.
FinalCheckBlind == /\ mainPc = "final"
                   /\ \/ batch = <<>> /\ Return("true")
                      \/ batch # <<>> /\ mainPc' = "flush" /\ result' = result
                   /\ UNCHANGED <<genVars, genChan, fwdVars, merged, tsClosed, cur,
                                  batch, enqueued, queued, expired, late>>

FinalCheck == /\ mainPc = "final"
              /\ \/ expired /\ Return("false")
                 \/ ~expired /\ batch = <<>> /\ Return("true")
                 \/ ~expired /\ batch # <<>> /\ mainPc' = "flush" /\ result' = result
              /\ UNCHANGED <<genVars, genChan, fwdVars, merged, tsClosed, cur,
                             batch, enqueued, queued, expired, late>>

Flush == /\ SendBatch("flush")
         /\ Return("true")

\* Mutant: the result of the last enqueue is ignored.
AbandonFlushTrue == /\ GiveUp("flush")
                    /\ Return("true")
                    /\ UNCHANGED <<genVars, genChan, fwdVars, merged, tsClosed, cur,
                                   batch, enqueued, queued, expired, late>>

AbandonFlush == /\ GiveUp("flush")
                /\ Return("false")
                /\ UNCHANGED <<genVars, genChan, fwdVars, merged, tsClosed, cur,
                               batch, enqueued, queued, expired, late>>
----------------------------------------------------------------------------
(* The environment: a worker takes a request; the duration ends.            *)

WorkerTakes == /\ queued > 0
               /\ queued' = queued - 1
               /\ UNCHANGED <<genVars, genChan, fwdVars, merged, tsClosed, mainPc,
                              cur, batch, enqueued, expired, late, result>>

Deadline == /\ HasDeadline
            /\ ~expired
            /\ expired' = TRUE
            /\ UNCHANGED <<genVars, genChan, fwdVars, merged, tsClosed, mainVars>>

Generator(c) == GenBuild(c) \/ GenStop(c) \/ GenSend(c) \/ GenCancel(c)
Forwarder(c) == FwdReceive(c) \/ FwdEnd(c) \/ FwdSend(c) \/ FwdCancel(c)
Caller == \/ Receive \/ Discard \/ Collect \/ EnqueueFull \/ AbandonFull
          \/ Drain \/ DrainEnd \/ RangeEnd \/ FinalCheck \/ Flush \/ AbandonFlush

Next == \/ \E c \in Configs : Generator(c) \/ Forwarder(c)
        \/ CloseMerged
        \/ Caller
        \/ WorkerTakes
        \/ Deadline

Spec == Init /\ [][Next]_vars

\* The Go scheduler runs every runnable goroutine.  Nothing obliges a worker to
\* take a request, and the deadline may be too far away to matter.
SchedulerFairness == /\ \A c \in Configs : WF_vars(Generator(c)) /\ WF_vars(Forwarder(c))
                     /\ WF_vars(CloseMerged)
                     /\ WF_vars(Caller)

FairSpec == Spec /\ SchedulerFairness
----------------------------------------------------------------------------
Batches == Range(enqueued)
Sent == UNION {Range(b) : b \in Batches}

\* Every series a generator has handed over is in a channel or a hand of its
\* own config, or in one of the places the configs share.
Upstream == UNION {Range(genChan[c]) \cup Range(held[c]) : c \in Configs}
Downstream == Upstream \cup Range(merged) \cup Range(cur) \cup Range(batch) \cup Sent

TypeOK ==
    /\ genPc \in [Configs -> {"check", "send", "closed"}]
    /\ next \in [Configs -> Nat]
    /\ \A c \in Configs : next[c] <= SeriesCount[c]
    /\ \A c \in Configs : genPc[c] = "send" => next[c] < SeriesCount[c]
    /\ genChan \in [Configs -> Seq(Series)]
    /\ fwdPc \in [Configs -> {"recv", "send", "done"}]
    /\ held \in [Configs -> Seq(Series)]
    /\ merged \in Seq(Series)
    /\ tsClosed \in BOOLEAN
    /\ mainPc \in {"range", "got", "enqueue", "drain", "final", "flush", "returned"}
    /\ cur \in Seq(Series)
    /\ batch \in Seq(Series)
    /\ enqueued \in Seq(Seq(Series))
    /\ queued \in 0..Workers
    /\ expired \in BOOLEAN
    /\ late \in Nat
    /\ result \in {"running", "true", "false"}
----------------------------------------------------------------------------
(* Safety.                                                                  *)

\* No series leaves twice, and the series of one config leave in permutation
\* order: an earlier position in the request stream has the smaller index.
\* The forwarders race on timeSeriesChan, so only the order between configs
\* is free.
OrderedOnce ==
    \A j, k \in DOMAIN enqueued : \A x \in DOMAIN enqueued[j], y \in DOMAIN enqueued[k] :
        /\ enqueued[j][x][1] = enqueued[k][y][1]
        /\ j < k \/ (j = k /\ x < y)
        => enqueued[j][x][2] < enqueued[k][y][2]

\* TRUE is returned only when every series of every config is in a request:
\* no goroutine kept one back and nothing was discarded on the way.
CompleteOnTrue == result = "true" => Sent = Series

\* Every request but the last holds exactly MaxSamples series, none is empty,
\* and a smaller one is the last thing the call does before returning TRUE.
FullRequests ==
    \A k \in DOMAIN enqueued :
        /\ Len(enqueued[k]) \in 1..MaxSamples
        /\ Len(enqueued[k]) < MaxSamples => k = Len(enqueued) /\ result = "true"

\* FALSE is returned only after the deadline: run stops the whole load on it.
FalseOnlyExpired == result = "false" => expired

\* The deadline stops the wave in progress: at most one request, the one that
\* had passed its ctx.Err() check, leaves after it.
AtMostOneLate == late <= 1

\* When TRUE is returned no generator still runs, so the FieldGenerators map of
\* a FileConfig, which has no lock, is never written by two waves at once.
GeneratorsQuiescent == result = "true" => \A c \in Configs : genPc[c] = "closed"

\* The caller never returns while a forwarder is blocked on the merged channel,
\* from which nobody would receive any more.
ForwardersGone == result # "running" => \A c \in Configs : fwdPc[c] = "done"

\* The call keeps the contract run relies on.
Contract == INSTANCE WaveContract WITH sent <- Sent
ContractSpec == Contract!Spec
----------------------------------------------------------------------------
(* The inductive invariant behind the safety properties.                    *)

\* The one-place buffers of the goroutines agree with their program counters.
Shape == /\ \A c \in Configs : /\ Len(held[c]) <= 1
                               /\ held[c] = <<>> <=> fwdPc[c] # "send"
         /\ Len(cur) <= 1
         /\ cur = <<>> <=> mainPc # "got"
         /\ result = "running" <=> mainPc # "returned"

\* Before the deadline a goroutine ends only when its work is done, and the
\* merged channel closes only behind the forwarders.
Endings == /\ ~expired => \A c \in Configs :
                /\ genPc[c] = "closed" => next[c] = SeriesCount[c]
                /\ fwdPc[c] = "done" => genPc[c] = "closed" /\ genChan[c] = <<>>
           /\ tsClosed => \A c \in Configs : fwdPc[c] = "done"
           /\ mainPc \in {"final", "flush", "returned"} => tsClosed /\ merged = <<>>
           /\ mainPc = "drain" => expired

\* The call has passed its last ctx.Err() check, or returned TRUE.
Committed == mainPc = "flush" \/ result = "true"

\* Then every generator has ended by itself and handed over all its series.
CommittedDone == Committed => \A c \in Configs : /\ genPc[c] = "closed"
                                                 /\ next[c] = SeriesCount[c]
                                                 /\ genChan[c] = <<>>

\* As long as FALSE is not the only possible result nothing is discarded.
NothingDiscarded == ~expired \/ Committed =>
    \A c \in Configs : \A i \in 0..(next[c] - 1) : <<c, i>> \in Downstream

RequestSizes ==
    /\ mainPc = "enqueue" => Len(batch) = MaxSamples
    /\ mainPc \in {"range", "got", "final", "flush"} => Len(batch) < MaxSamples
    /\ mainPc = "flush" => batch # <<>>
    /\ result = "true" => batch = <<>>

LateOnce == /\ late > 0 => expired
            /\ mainPc \in {"enqueue", "flush"} => late = 0

Control == /\ Shape /\ Endings /\ CommittedDone /\ RequestSizes /\ FullRequests
           /\ LateOnce /\ FalseOnlyExpired /\ AtMostOneLate

\* p is ahead of q in the request stream: their series of one config ascend.
Ahead(p, q) == \A s \in p, t \in q : s[1] = t[1] => s[2] < t[2]

Ascending(q) == \A j, k \in DOMAIN q : j < k /\ q[j][1] = q[k][1] => q[j][2] < q[k][2]

\* Index of the next series of a config to reach the merged channel.
Frontier(c) == next[c] - Len(genChan[c]) - Len(held[c])

\* What a generator and its forwarder hold are the next series to come.
Heads == \A c \in Configs : /\ Len(genChan[c]) <= 1
                            /\ genChan[c] # <<>> => genChan[c][1] = <<c, next[c] - 1>>
                            /\ held[c] # <<>> => held[c][1] = <<c, Frontier(c)>>

\* The series of a config are in permutation order along the whole pipeline.
Ordered ==
    /\ Heads
    /\ Ascending(merged) /\ Ascending(batch) /\ OrderedOnce
    /\ Ahead(Range(cur), Range(merged))
    /\ Ahead(Range(batch), Range(cur) \cup Range(merged))
    /\ Ahead(Sent, Range(batch) \cup Range(cur) \cup Range(merged))
    /\ \A s \in Sent \cup Range(batch) \cup Range(cur) \cup Range(merged) :
          s[2] < Frontier(s[1])

IInv == TypeOK /\ Control /\ NothingDiscarded /\ Ordered
----------------------------------------------------------------------------
(* Liveness.                                                                *)

AllStopped == /\ mainPc = "returned"
              /\ \A c \in Configs : genPc[c] = "closed" /\ fwdPc[c] = "done"
              /\ tsClosed

\* As long as workers take requests and the deadline does not fall, the call
\* completes and every goroutine it started ends.
Completes == WF_vars(WorkerTakes) => <>(expired \/ (result = "true" /\ AllStopped))
============================================================================
