---------------------------- MODULE SampleLoader ----------------------------
(***************************************************************************)
(* A whole run of sample_loader: the wave loop of SampleLoader.run with    *)
(* its ticker, end date, duration deadline and churn epoch, the bounded    *)
(* request channel, the workers, the receiver that answers them, the drain *)
(* at the end, the statistics and their reporter.  One wave is the call    *)
(* WaveStreaming details, reduced to what WaveContract says of it.         *)
(***************************************************************************)
EXTENDS Integers, Sequences, FiniteSets, FiniteSetsExt, Functions

CONSTANTS Workers,       \* as many as --workers may start
          SeriesPerWave, \* label permutations of all configs
          MaxSamples,    \* --max-samples
          Modes,         \* the flags of the runs considered
          Rejections,    \* rejected_data_points an OTLP answer may carry
          MaxWaves,      \* bound on the waves of a live run
          MaxEpoch       \* bound on the churn epoch

ASSUME LoaderAssumption ==
    /\ IsFiniteSet(Workers)
    /\ SeriesPerWave \in Nat
    /\ MaxSamples \in Nat \ {0}
    /\ Modes \subseteq [infinite : BOOLEAN, duration : BOOLEAN, dryRun : BOOLEAN,
                        churn : BOOLEAN, workers : SUBSET Workers, start : Nat, end : Nat, interval : Nat \ {0}]
    /\ \A m \in Modes : ~(m.infinite /\ m.duration)
    /\ Rejections \subseteq Nat \ {0}
    /\ MaxWaves \in Nat \ {0} /\ MaxEpoch \in Nat

VARIABLES
    mode,       \* the flags of this run; they never change
    pc,         \* "stream", "enqueue", "wait", "drain", "stop" or "exited"
    current,    \* timestamp of the wave
    left,       \* series of the wave not yet in a request
    pending,    \* rows of the request waiting for a slot, else 0
    waveResult, \* what the last wave returned: "running", "true", "false"
    epoch,      \* currentEpoch
    clock,      \* what churnEpochGenerator.GetChurnEpoch() returns now
    expired,    \* generationCtx is done
    queue,      \* requestChan
    closed,     \* requestChan is closed
    cancelled,  \* requestCtx is done
    wPc,        \* worker: "recv", "send", "served" or "done"
    wReq,       \* the request a worker holds, <<>> or <<request>>
    answer,     \* rejected_data_points of the answer a worker waits for
    wErr,       \* the errors a worker has joined: subset of {"send", "canceled"}
    stats,      \* writeStats
    runStats,   \* statsByWorker
    runLog,     \* what logRunStats printed, <<>> before
    printed,    \* history of the reporter's lines
    exitErr,    \* run returned an error
    truth       \* history: what was offered, accepted and lost

mainVars   == <<pc, current, left, pending, waveResult, epoch>>
chanVars   == <<queue, closed, cancelled>>
workerVars == <<wPc, wReq, answer, wErr, runStats>>
endVars    == <<runLog, exitErr>>
vars == <<pc, current, left, pending, waveResult, epoch, clock, expired, queue,
          closed, cancelled, wPc, wReq, answer, wErr, stats, runStats, runLog,
          printed, exitErr, truth>>

HasDuration == mode.duration
DryRun == mode.dryRun
Live == mode.infinite \/ mode.duration
Started == mode.workers
Capacity == Cardinality(Started)

NoRunStats == [requests |-> 0, samples |-> 0, failed |-> 0, failedSamples |-> 0]

Init == /\ mode \in Modes
        /\ pc = "stream"
        /\ current = IF Live THEN 0 ELSE mode.start
        /\ left = SeriesPerWave
        /\ pending = 0
        /\ waveResult = "running"
        /\ epoch = 0
        /\ clock = 0
        /\ expired = FALSE
        /\ queue = <<>>
        /\ closed = FALSE
        /\ cancelled = FALSE
        /\ wPc = [w \in Workers |-> IF w \in Started THEN "recv" ELSE "done"]
        /\ wReq = [w \in Workers |-> <<>>]
        /\ answer = [w \in Workers |-> 0]
        /\ wErr = [w \in Workers |-> {}]
        /\ stats = [total |-> 0, interval |-> 0, requests |-> 0, epoch |-> 0]
        /\ runStats = [w \in Workers |-> NoRunStats]
        /\ runLog = <<>>
        /\ printed = [total |-> 0, sum |-> 0]
        /\ exitErr = FALSE
        /\ truth = [requests |-> 0, rows |-> 0, accepted |-> 0, lost |-> 0,
                    late |-> 0, epoch |-> 0]
-----------------------------------------------------------------------------
(* The wave loop.                                                            *)

\* Mutant: the wave goes on after the deadline.
FormRequestLate == /\ pc = "stream"
                   /\ left > 0
                   /\ pending' = Min({MaxSamples, left})
                   /\ left' = left - pending'
                   /\ pc' = "enqueue"
                   /\ UNCHANGED <<current, waveResult, epoch, clock, expired, chanVars,
                                  workerVars, stats, endVars, printed, truth>>

\* The caller collected a full request, or the rest of the wave.
FormRequest == /\ pc = "stream"
               /\ left > 0
               /\ ~expired
               /\ pending' = Min({MaxSamples, left})
               /\ left' = left - pending'
               /\ pc' = "enqueue"
               /\ UNCHANGED <<current, waveResult, epoch, clock, expired, chanVars,
                              workerVars, stats, endVars, printed, truth>>

\* return finish(): close(requestChan) and wait for the workers.
Finish == pc' = "drain" /\ closed' = TRUE

\* The wave returned true: advance the timestamp, and stop after the end date
\* unless the run is live.
WaveDone == /\ waveResult' = "true"
            /\ current' = current + mode.interval
            /\ IF ~Live /\ current' > mode.end
               THEN Finish
               ELSE pc' = "wait" /\ UNCHANGED closed

\* Every series has left in full requests.
WaveComplete == /\ pc = "stream"
                /\ left = 0
                /\ ~expired
                /\ WaveDone
                /\ UNCHANGED <<left, pending, epoch, clock, expired, queue, cancelled,
                               workerVars, stats, endVars, printed, truth>>

\* The wave returned false.
StopWave == /\ waveResult' = "false"
            /\ Finish
            /\ UNCHANGED <<current, left, pending, epoch, clock, expired, queue,
                           cancelled, workerVars, stats, endVars, printed, truth>>

AbortWave == pc = "stream" /\ expired /\ StopWave
AbandonRequest == pc = "enqueue" /\ expired /\ StopWave

\* The select of enqueue found room.  A request smaller than MaxSamples is the
\* last one, and the wave returns true with it.
Enqueue == /\ pc = "enqueue"
           /\ Len(queue) < Capacity
           /\ queue' = Append(queue, [time |-> current, epoch |-> epoch, rows |-> pending])
           /\ truth' = [truth EXCEPT !.requests = @ + 1, !.rows = @ + pending,
                                     !.late = @ + (IF expired THEN 1 ELSE 0)]
           /\ pending' = 0
           /\ IF pending < MaxSamples
              THEN WaveDone
              ELSE pc' = "stream" /\ UNCHANGED <<waveResult, current, closed>>
           /\ UNCHANGED <<left, epoch, clock, expired, cancelled, workerVars, stats,
                          endVars, printed>>

\* Mutant: the statistics learn of an epoch one tick after it was streamed.
TickAnnouncesLate ==
    /\ pc = "wait"
    /\ Live => current < MaxWaves * mode.interval
    /\ epoch' = clock
    /\ stats' = [stats EXCEPT !.epoch = epoch]
    /\ left' = SeriesPerWave
    /\ waveResult' = "running"
    /\ pc' = "stream"
    /\ UNCHANGED <<current, pending, clock, expired, chanVars, workerVars, endVars,
                   printed, truth>>

\* case <-ticker.C, also chosen when the deadline has passed.
Tick == /\ pc = "wait"
        /\ Live => current < MaxWaves * mode.interval
        /\ epoch' = clock
        /\ stats' = [stats EXCEPT !.epoch = clock]
        /\ left' = SeriesPerWave
        /\ waveResult' = "running"
        /\ pc' = "stream"
        /\ UNCHANGED <<current, pending, clock, expired, chanVars, workerVars, endVars,
                       printed, truth>>

\* case <-generationCtx.Done().
DurationOver == /\ pc = "wait"
                /\ expired
                /\ Finish
                /\ UNCHANGED <<current, left, pending, waveResult, epoch, clock, expired,
                               queue, cancelled, workerVars, stats, endVars, printed, truth>>
-----------------------------------------------------------------------------
(* finish: waitForWorkers, logRunStats, then the deferred calls of run.      *)

\* Mutant: the drain has no timeout.
DrainTimeoutMissing == FALSE /\ UNCHANGED vars

\* The drain grace period is over: cancel(), and keep waiting.
DrainTimeout == /\ pc = "drain"
                /\ HasDuration
                /\ ~cancelled
                /\ cancelled' = TRUE
                /\ UNCHANGED <<mainVars, clock, expired, queue, closed, workerVars,
                               stats, endVars, printed, truth>>

TotalOf(rs) == [f \in {"requests", "samples", "failed", "failedSamples"} |->
                  SumFunction([w \in Workers |-> rs[w][f]])]

WorkersDone == /\ pc = "drain"
               /\ \A w \in Workers : wPc[w] = "done"
               /\ exitErr' = \E w \in Workers : wErr[w] # {}
               /\ runLog' = IF HasDuration THEN <<TotalOf(runStats)>> ELSE runLog
               /\ pc' = "stop"
               /\ UNCHANGED <<current, left, pending, waveResult, epoch, clock, expired,
                              chanVars, workerVars, stats, printed, truth>>

\* snapshot: the interval counters start again.
Snapshot == stats' = [stats EXCEPT !.interval = 0, !.requests = 0]

PrintLine == printed' = [total |-> stats.total, sum |-> printed.sum + stats.interval]

\* Mutant: the snapshot at the end prints nothing.
StopReporterSilent == /\ pc = "stop"
                      /\ Snapshot
                      /\ pc' = "exited"
                      /\ UNCHANGED <<current, left, pending, waveResult, epoch, clock,
                                     expired, chanVars, workerVars, endVars, printed, truth>>

\* stopStatsReporter: the last snapshot, printed unless it is empty.
StopReporter == /\ pc = "stop"
                /\ Snapshot
                /\ IF stats.requests > 0 \/ DryRun THEN PrintLine ELSE UNCHANGED printed
                /\ pc' = "exited"
                /\ UNCHANGED <<current, left, pending, waveResult, epoch, clock, expired,
                               chanVars, workerVars, endVars, truth>>

ReportTick == /\ pc # "exited"
              /\ Snapshot
              /\ PrintLine
              /\ UNCHANGED <<mainVars, clock, expired, chanVars, workerVars, endVars, truth>>
-----------------------------------------------------------------------------
(* The workers.                                                              *)

Record(w, rows, failed) ==
    runStats' = IF ~HasDuration THEN runStats
                ELSE [runStats EXCEPT ![w].requests = @ + 1,
                                      ![w].samples = @ + rows,
                                      ![w].failed = @ + (IF failed THEN 1 ELSE 0),
                                      ![w].failedSamples = @ + (IF failed THEN rows ELSE 0)]

\* writeStats.record
Written(rows) == stats' = [stats EXCEPT !.total = @ + rows, !.interval = @ + rows,
                                        !.requests = @ + 1]

Take(w) == /\ wPc[w] = "recv"
           /\ queue # <<>>
           /\ ~cancelled
           /\ queue' = Tail(queue)
           /\ IF DryRun
              THEN Record(w, Head(queue).rows, FALSE) /\ UNCHANGED <<wPc, wReq, truth>>
              ELSE /\ wPc' = [wPc EXCEPT ![w] = "send"]
                   /\ wReq' = [wReq EXCEPT ![w] = <<Head(queue)>>]
                   /\ truth' = [truth EXCEPT !.epoch = Max({@, Head(queue).epoch})]
                   /\ UNCHANGED runStats
           /\ UNCHANGED <<mainVars, clock, expired, closed, cancelled, answer, wErr,
                          stats, endVars, printed>>

\* requestCtx is cancelled: the worker drops the request it took and returns.
TakeCancelled(w) == /\ wPc[w] = "recv"
                    /\ queue # <<>>
                    /\ cancelled
                    /\ queue' = Tail(queue)
                    /\ wPc' = [wPc EXCEPT ![w] = "done"]
                    /\ wErr' = [wErr EXCEPT ![w] = @ \cup {"canceled"}]
                    /\ truth' = [truth EXCEPT !.lost = @ + 1]
                    /\ UNCHANGED <<mainVars, clock, expired, closed, cancelled, wReq, answer,
                                   runStats, stats, endVars, printed>>

\* Mutant: the worker returns as soon as the channel is closed.
RangeOverEarly(w) == /\ wPc[w] = "recv"
                     /\ closed
                     /\ wPc' = [wPc EXCEPT ![w] = "done"]
                     /\ UNCHANGED <<mainVars, clock, expired, chanVars, wReq, answer, wErr,
                                    runStats, stats, endVars, printed, truth>>

\* for request := range requests ends on a closed and empty channel.
RangeOver(w) == /\ wPc[w] = "recv"
                /\ queue = <<>> /\ closed
                /\ wPc' = [wPc EXCEPT ![w] = "done"]
                /\ UNCHANGED <<mainVars, clock, expired, chanVars, wReq, answer, wErr, runStats,
                               stats, endVars, printed, truth>>

\* rejected := min(rows, RejectedDataPoints)
RejectedOf(rows, answered) == Min({rows, answered})

\* The receiver takes the request's rows, all but those it rejects.  Its
\* answer is not here yet, and may never come.
Serve(w, rejected) ==
    /\ wPc[w] = "send"
    /\ wPc' = [wPc EXCEPT ![w] = "served"]
    /\ answer' = [answer EXCEPT ![w] = rejected]
    /\ truth' = [truth EXCEPT !.accepted =
                    @ + wReq[w][1].rows - RejectedOf(wReq[w][1].rows, rejected)]
    /\ UNCHANGED <<mainVars, clock, expired, chanVars, wReq, wErr, runStats, stats,
                   endVars, printed>>

Answered(w) == /\ wPc' = [wPc EXCEPT ![w] = "recv"]
               /\ wReq' = [wReq EXCEPT ![w] = <<>>]
               /\ answer' = [answer EXCEPT ![w] = 0]
               /\ UNCHANGED <<mainVars, clock, expired, chanVars, endVars, printed, truth>>

\* err == nil
Succeed(w) == /\ wPc[w] = "served"
              /\ answer[w] = 0
              /\ Record(w, wReq[w][1].rows, FALSE)
              /\ Written(wReq[w][1].rows)
              /\ UNCHANGED wErr
              /\ Answered(w)

\* Mutant: a PartialSuccessError counts the whole request as written.
PartialSuccessAll(w) ==
    /\ wPc[w] = "served"
    /\ answer[w] > 0
    /\ Record(w, wReq[w][1].rows, TRUE)
    /\ Written(wReq[w][1].rows)
    /\ wErr' = [wErr EXCEPT ![w] = @ \cup {"send"}]
    /\ Answered(w)

\* PartialSuccessError: an error to the caller, its accepted rows are counted.
PartialSuccess(w) ==
    /\ wPc[w] = "served"
    /\ answer[w] > 0
    /\ Record(w, wReq[w][1].rows, TRUE)
    /\ Written(wReq[w][1].rows - RejectedOf(wReq[w][1].rows, answer[w]))
    /\ wErr' = [wErr EXCEPT ![w] = @ \cup {"send"}]
    /\ Answered(w)

\* Mutant: the error of a failed request is logged and forgotten.
FailForgotten(w) == /\ wPc[w] \in {"send", "served"}
                    /\ Record(w, wReq[w][1].rows, TRUE)
                    /\ UNCHANGED <<wErr, stats>>
                    /\ Answered(w)

\* Any other error: transport, status, cancellation; the receiver may have
\* accepted the rows all the same.
Fail(w) == /\ wPc[w] \in {"send", "served"}
           /\ Record(w, wReq[w][1].rows, TRUE)
           /\ wErr' = [wErr EXCEPT ![w] = @ \cup {"send"}]
           /\ UNCHANGED stats
           /\ Answered(w)
-----------------------------------------------------------------------------
(* The clocks.                                                               *)

Deadline == /\ HasDuration
            /\ ~expired
            /\ expired' = TRUE
            /\ UNCHANGED <<mainVars, clock, chanVars, workerVars, stats, endVars,
                           printed, truth>>

EpochPasses == /\ mode.churn
               /\ clock < MaxEpoch
               /\ pc # "exited"
               /\ clock' = clock + 1
               /\ UNCHANGED <<mainVars, expired, chanVars, workerVars, stats, endVars,
                              printed, truth>>

Main == \/ FormRequest \/ WaveComplete \/ AbortWave \/ Enqueue \/ AbandonRequest
        \/ DurationOver \/ WorkersDone \/ StopReporter

Worker(w) == Take(w) \/ TakeCancelled(w) \/ RangeOver(w)
Receiver(w) == \/ \E r \in Rejections \cup {0} : Serve(w, r)
               \/ Succeed(w) \/ PartialSuccess(w) \/ Fail(w)

Next == /\ \/ Main
           \/ Tick
           \/ DrainTimeout
           \/ ReportTick
           \/ \E w \in Workers : Worker(w) \/ Receiver(w)
           \/ Deadline
           \/ EpochPasses
        /\ UNCHANGED mode

Spec == Init /\ [][Next]_<<mode, vars>>

\* Runnable goroutines run, and the ticker, the deadline and the drain timer
\* fire.  An HTTP request has no timeout: only cancelling requestCtx obliges
\* it to return, so the receiver may stay silent until then.
SchedulerFairness == /\ WF_vars(Main) /\ WF_vars(Tick) /\ WF_vars(Deadline)
                     /\ WF_vars(DrainTimeout)
                     /\ \A w \in Workers : WF_vars(Worker(w))
                     /\ \A w \in Workers : WF_vars(cancelled /\ Fail(w))
FairSpec == Spec /\ SchedulerFairness
-----------------------------------------------------------------------------
(* Properties.                                                               *)

\* rows_written never claims rows the receiver did not accept, whatever mix of
\* answers, partial successes, lost answers and cancellations the workers saw.
NeverOverReported == stats.total <= truth.accepted

\* The waves of a finite run: one at the start date, and one at every interval
\* after it up to the end date, which is included.
FiniteWaves == IF mode.start > mode.end THEN 1
               ELSE (mode.end - mode.start) \div mode.interval + 1

\* A run that ends without an error has delivered every row it offered, and
\* says so: an error of any worker, a partial success and a request dropped by
\* the drain timeout all reach the result of run.  A finite one has offered
\* every series at every timestamp of its range once.
NothingLostQuietly ==
    pc = "exited" /\ ~exitErr /\ ~DryRun =>
        /\ stats.total = truth.rows /\ truth.accepted = truth.rows
        /\ ~Live => truth.rows = SeriesPerWave * FiniteWaves

\* The run statistics printed after a --duration run are those of workers that
\* cannot write them any more, and account for every request offered but those
\* the drain timeout left unsent; these imply an error.  The rows in succeeded
\* requests are a lower bound of rows_written.
RunLogAccounts ==
    runLog # <<>> =>
        LET log == runLog[1]
            unsent == truth.lost + Len(queue)
        IN  /\ runLog = <<TotalOf(runStats)>>
            /\ log.requests + unsent = truth.requests
            /\ unsent > 0 => cancelled /\ exitErr
            /\ ~DryRun => log.samples - log.failedSamples <= stats.total

\* No row falls between two reports: the intervals printed so far and the one
\* that is running add up to rows_written, and the last line printed before the
\* process exits shows the final total.
ReportsAddUp == /\ printed.sum + stats.interval = stats.total
                /\ pc = "exited" => printed.total = stats.total

\* A report never shows an older churn epoch than one of the requests sent.
EpochReported == truth.epoch <= stats.epoch

\* Wave after wave, the loop keeps the contract of one wave, and after the
\* deadline at most one request is offered, even if the ticker is chosen.
Contract == INSTANCE WaveContract
                WITH Series <- 1..SeriesPerWave,
                     sent <- 1..(SeriesPerWave - left - pending),
                     late <- truth.late,
                     result <- waveResult
ContractSpec == Contract!Spec

\* A run with a duration exits even if the receiver never answers, for the drain
\* timeout cancels what is still in flight, and even without a worker, in which
\* case its first request waits for the deadline.  A run over a date range has no
\* such timeout; it exits if it has a worker and the receiver answers, in whatever
\* way.
Exits == \/ HasDuration
         \/ ~Live /\ Started # {} /\ \A w \in Workers : WF_vars(Receiver(w))
         => <>(pc = "exited")
=============================================================================
