------------------------- MODULE SampleLoaderProofs -------------------------
(***************************************************************************)
(* A whole run of sample_loader, for any series, requests, workers, flags  *)
(* and answers: wave after wave it keeps the contract of one wave, reports *)
(* add up, none shows an epoch older than what was sent, and in the end    *)
(* the counters agree with what was accepted.                              *)
(***************************************************************************)
EXTENDS SampleLoader, FoldLemmas, SequenceTheorems, FiniteSetTheorems, TLAPS

Requests == [time : Int, epoch : Nat, rows : Nat]

Stats == [total : Int, interval : Int, requests : Nat, epoch : Nat]
Lines == [total : Int, sum : Int]
Truths == [requests : Nat, rows : Nat, accepted : Int, lost : Nat, late : Nat, epoch : Nat]

MainTypes ==
    /\ mode \in Modes
    /\ pc \in {"stream", "enqueue", "wait", "drain", "stop", "exited"}
    /\ current \in Int
    /\ left \in Nat /\ pending \in Nat /\ left + pending <= SeriesPerWave
    /\ waveResult \in {"running", "true", "false"}
    /\ epoch \in Nat /\ clock \in Nat
    /\ expired \in BOOLEAN

WorkTypes ==
    /\ queue \in Seq(Requests)
    /\ wPc \in [Workers -> {"recv", "send", "served", "done"}]
    /\ wReq \in [Workers -> Seq(Requests)]
    /\ \A w \in Workers : wPc[w] \in {"send", "served"} => wReq[w] # <<>>
    /\ answer \in [Workers -> Nat]

StatTypes == stats \in Stats /\ printed \in Lines /\ truth \in Truths

LoaderTypes == MainTypes /\ WorkTypes /\ StatTypes

\* A request is formed before the deadline, is full or the rest of the wave, and
\* only it may leave late.
WaveInv ==
    /\ pc \in {"stream", "wait"} => pending = 0
    /\ pc = "stream" => waveResult = "running"
    /\ pc = "wait" => waveResult = "true"
    /\ pc = "enqueue" => /\ waveResult = "running" /\ 0 < pending /\ pending <= MaxSamples
                         /\ pending < MaxSamples => left = 0
                         /\ truth.late = 0
    /\ ~expired => truth.late = 0

\* The statistics learn of an epoch before its first request exists.
EpochInv ==
    /\ stats.epoch = epoch /\ epoch <= clock
    /\ truth.epoch <= epoch
    /\ \A i \in 1..Len(queue) : queue[i].epoch <= epoch

\* An interval without a request is empty, so that the last one may go unprinted;
\* and after the last one nobody is left to write.
ReportInv ==
    /\ printed.sum + stats.interval = stats.total
    /\ stats.requests = 0 => stats.interval = 0 /\ printed.total = stats.total
    /\ pc \in {"stop", "exited"} => \A w \in Workers : wPc[w] = "done"
    /\ pc = "exited" => printed.total = stats.total

LoaderInv == LoaderTypes /\ WaveInv /\ EpochInv /\ ReportInv
-----------------------------------------------------------------------------
LEMMA MinOfTwo ==
    ASSUME NEW a \in Int, NEW b \in Int
    PROVE  Min({a, b}) \in {a, b} /\ Min({a, b}) <= a /\ Min({a, b}) <= b
<1>1. \E x \in {a, b} : \A y \in {a, b} : x <= y
  OBVIOUS
<1> QED
  BY <1>1 DEF Min

LEMMA RejectedInt ==
    ASSUME NEW a \in Int, NEW b \in Int
    PROVE  RejectedOf(a, b) \in Int
BY MinOfTwo DEF RejectedOf

LEMMA MaxOfTwo ==
    ASSUME NEW a \in Int, NEW b \in Int
    PROVE  Max({a, b}) \in {a, b}
<1>1. \E x \in {a, b} : \A y \in {a, b} : x >= y
  OBVIOUS
<1> QED
  BY <1>1 DEF Max

\* What the parts of the type say, field by field.
LEMMA Fields ==
    ASSUME LoaderInv
    PROVE  /\ stats.total \in Int /\ stats.interval \in Int /\ stats.requests \in Nat /\ stats.epoch \in Nat
           /\ printed.total \in Int /\ printed.sum \in Int
           /\ truth.late \in Nat /\ truth.epoch \in Nat
           /\ stats \in Stats /\ printed \in Lines /\ truth \in Truths
BY DEF LoaderInv, LoaderTypes, StatTypes, Stats, Lines, Truths

LEMMA Flags ==
    ASSUME MainTypes
    PROVE  mode.start \in Int /\ mode.interval \in Int /\ SeriesPerWave \in Nat /\ MaxSamples \in Nat \ {0}
BY LoaderAssumption DEF MainTypes

\* The request a worker holds.
LEMMA HeldRequest ==
    ASSUME LoaderInv, NEW w \in Workers, wPc[w] \in {"send", "served"}
    PROVE  wReq[w][1] \in Requests /\ wReq[w][1].rows \in Nat
<1>1. wReq[w] \in Seq(Requests) /\ wReq[w] # <<>>
  BY DEF LoaderInv, LoaderTypes, WorkTypes
<1>2. Len(wReq[w]) \in Nat \ {0}
  BY <1>1, EmptySeq, LenProperties
<1>3. wReq[w][1] \in Requests
  BY <1>1, <1>2, ElementOfSeq
<1> QED
  BY <1>3 DEF Requests

\* The requests in the channel before and after one is added or taken.
LEMMA QueueAppend ==
    ASSUME NEW q \in Seq(Requests), NEW r \in Requests, NEW e, r.epoch <= e,
           \A i \in 1..Len(q) : q[i].epoch <= e
    PROVE  Append(q, r) \in Seq(Requests) /\ \A i \in 1..Len(Append(q, r)) : Append(q, r)[i].epoch <= e
<1>1. /\ Append(q, r) \in Seq(Requests) /\ Len(Append(q, r)) = Len(q) + 1 /\ Len(q) \in Nat
      /\ \A i \in 1..Len(q) : Append(q, r)[i] = q[i]
      /\ Append(q, r)[Len(q) + 1] = r
  BY AppendProperties, LenProperties
<1> QED
  BY <1>1

LEMMA QueueTail ==
    ASSUME NEW q \in Seq(Requests), q # <<>>, NEW e, \A i \in 1..Len(q) : q[i].epoch <= e
    PROVE  /\ Tail(q) \in Seq(Requests) /\ \A i \in 1..Len(Tail(q)) : Tail(q)[i].epoch <= e
           /\ Head(q) \in Requests /\ Head(q).epoch <= e
<1>1. /\ Tail(q) \in Seq(Requests) /\ Head(q) \in Requests /\ Head(q) = q[1]
      /\ Len(q) \in Nat \ {0} /\ Len(Tail(q)) = Len(q) - 1
      /\ \A i \in 1..Len(Tail(q)) : Tail(q)[i] = q[i + 1]
  BY HeadTailProperties, EmptySeq, LenProperties
<1> QED
  BY <1>1

\* A part of the type that a step leaves alone.
LEMMA Frame ==
    /\ MainTypes /\ UNCHANGED <<mode, mainVars, clock, expired>> => MainTypes'
    /\ WorkTypes /\ UNCHANGED <<queue, wPc, wReq, answer>> => WorkTypes'
    /\ StatTypes /\ UNCHANGED <<stats, printed, truth>> => StatTypes'
    /\ WaveInv /\ UNCHANGED <<mainVars, expired>> /\ truth'.late = truth.late => WaveInv'
    /\ EpochInv /\ UNCHANGED <<epoch, clock, queue>> /\ stats'.epoch = stats.epoch /\ truth'.epoch = truth.epoch
         => EpochInv'
    /\ ReportInv /\ UNCHANGED <<pc, wPc, stats, printed>> => ReportInv'
BY DEF MainTypes, WorkTypes, StatTypes, WaveInv, EpochInv, ReportInv, mainVars

LEMMA LoaderInitInv == Init => LoaderInv
<1> SUFFICES ASSUME Init PROVE LoaderInv
  OBVIOUS
<1>1. MainTypes
  <2>1. mode \in Modes /\ mode.start \in Int /\ SeriesPerWave \in Nat
    BY LoaderAssumption DEF Init
  <2>2. current \in Int
    BY <2>1 DEF Init
  <2>3. /\ pc = "stream" /\ left = SeriesPerWave /\ pending = 0 /\ waveResult = "running"
        /\ epoch = 0 /\ clock = 0
    BY DEF Init
  <2>4. left \in Nat /\ pending \in Nat /\ left + pending <= SeriesPerWave
    BY <2>1, <2>3
  <2>5. expired \in BOOLEAN
    BY DEF Init
  <2> QED
    BY <2>1, <2>2, <2>3, <2>4, <2>5 DEF MainTypes
<1>2. WorkTypes
  BY DEF Init, WorkTypes
<1>3. StatTypes
  BY DEF Init, StatTypes, Stats, Lines, Truths
<1>4. WaveInv /\ EpochInv /\ ReportInv
  BY DEF Init, WaveInv, EpochInv, ReportInv
<1> QED
  BY <1>1, <1>2, <1>3, <1>4 DEF LoaderInv, LoaderTypes
-----------------------------------------------------------------------------
(* The main goroutine.                                                       *)

USE DEF mainVars, chanVars, workerVars, endVars

LEMMA FormInv == LoaderInv /\ FormRequest /\ UNCHANGED mode => LoaderInv'
<1> SUFFICES ASSUME LoaderInv, FormRequest, UNCHANGED mode PROVE LoaderInv'
  OBVIOUS
<1>1. /\ left > 0 /\ ~expired /\ pc = "stream" /\ pc' = "enqueue"
      /\ pending' = Min({MaxSamples, left}) /\ left' = left - pending'
      /\ UNCHANGED <<mode, current, waveResult, epoch, clock, expired, chanVars, workerVars, stats, endVars,
                     printed, truth>>
  BY DEF FormRequest
<1>2. left \in Nat /\ MaxSamples \in Nat \ {0} /\ left + pending <= SeriesPerWave /\ SeriesPerWave \in Nat
  BY Flags DEF LoaderInv, LoaderTypes, MainTypes
<1>3. pending' \in {MaxSamples, left} /\ pending' <= MaxSamples /\ pending' <= left
  BY <1>1, <1>2, MinOfTwo
<1>4. pending = 0
  BY <1>1 DEF LoaderInv, WaveInv
<1>5. MainTypes'
  <2>1. left' \in Nat /\ pending' \in Nat /\ left' + pending' <= SeriesPerWave
    BY <1>1, <1>2, <1>3, <1>4
  <2> QED
    BY <1>1, <2>1 DEF LoaderInv, LoaderTypes, MainTypes
<1>6. WorkTypes' /\ StatTypes' /\ EpochInv'
  BY <1>1, Frame DEF LoaderInv, LoaderTypes
<1>7. WaveInv'
  BY <1>1, <1>2, <1>3 DEF LoaderInv, WaveInv
<1>8. ReportInv'
  BY <1>1 DEF LoaderInv, ReportInv
<1> QED
  BY <1>5, <1>6, <1>7, <1>8 DEF LoaderInv, LoaderTypes

LEMMA WaveEndInv ==
    ASSUME LoaderInv, WaveComplete \/ AbortWave \/ AbandonRequest \/ DurationOver, UNCHANGED mode
    PROVE  LoaderInv'
<1>1. /\ UNCHANGED <<mode, left, pending, epoch, clock, expired, queue, workerVars, stats, printed, truth>>
      /\ current' \in {current, current + mode.interval} /\ waveResult' \in {waveResult, "true", "false"}
      /\ pc' \in {"wait", "drain"} /\ (pc' = "wait" => waveResult' = "true" /\ pending = 0)
  <2>1. CASE WaveComplete
    BY <2>1 DEF WaveComplete, WaveDone, Finish, LoaderInv, WaveInv
  <2>2. CASE AbortWave \/ AbandonRequest
    BY <2>2 DEF AbortWave, AbandonRequest, StopWave, Finish
  <2>3. CASE DurationOver
    BY <2>3 DEF DurationOver, Finish
  <2> QED
    BY <2>1, <2>2, <2>3
<1>2. MainTypes'
  <2>1. current' \in Int
    BY <1>1, Flags DEF LoaderInv, LoaderTypes, MainTypes
  <2> QED
    BY <1>1, <2>1 DEF LoaderInv, LoaderTypes, MainTypes
<1>3. WorkTypes' /\ StatTypes' /\ EpochInv'
  BY <1>1, Frame DEF LoaderInv, LoaderTypes
<1>4. WaveInv' /\ ReportInv'
  BY <1>1 DEF LoaderInv, WaveInv, ReportInv
<1> QED
  BY <1>2, <1>3, <1>4 DEF LoaderInv, LoaderTypes

LEMMA EnqueueInv == LoaderInv /\ Enqueue /\ UNCHANGED mode => LoaderInv'
<1> SUFFICES ASSUME LoaderInv, Enqueue, UNCHANGED mode PROVE LoaderInv'
  OBVIOUS
<1> DEFINE r == [time |-> current, epoch |-> epoch, rows |-> pending]
<1>1. /\ pc = "enqueue" /\ queue' = Append(queue, r) /\ pending' = 0
      /\ truth' = [truth EXCEPT !.requests = @ + 1, !.rows = @ + pending,
                                !.late = @ + (IF expired THEN 1 ELSE 0)]
      /\ UNCHANGED <<mode, left, epoch, clock, expired, workerVars, stats, printed>>
  BY DEF Enqueue
<1>2. /\ current' \in {current, current + mode.interval} /\ pc' \in {"stream", "wait", "drain"}
      /\ pc' = "stream" => waveResult' = waveResult
      /\ pc' = "wait" => waveResult' = "true"
      /\ waveResult' \in {waveResult, "true"}
  BY DEF Enqueue, WaveDone, Finish
<1>3. /\ current \in Int /\ epoch \in Nat /\ left \in Nat /\ pending \in Nat /\ left + pending <= SeriesPerWave
      /\ mode.interval \in Int /\ SeriesPerWave \in Nat /\ expired \in BOOLEAN
  BY Flags DEF LoaderInv, LoaderTypes, MainTypes
<1>4. r \in Requests /\ r.epoch = epoch /\ r.epoch <= epoch
  BY <1>3 DEF Requests
<1> HIDE DEF r
<1>5. queue' \in Seq(Requests) /\ \A i \in 1..Len(queue') : queue'[i].epoch <= epoch
  BY <1>1, <1>4, QueueAppend DEF LoaderInv, LoaderTypes, WorkTypes, EpochInv
<1>6. truth' \in Truths /\ truth'.epoch = truth.epoch /\ (~expired => truth'.late = truth.late)
  <2> DEFINE more == IF expired THEN 1 ELSE 0
  <2>1. truth \in Truths /\ more \in Nat
    BY Fields
  <2>2. truth' = [requests |-> truth.requests + 1, rows |-> truth.rows + pending, accepted |-> truth.accepted,
                  lost |-> truth.lost, late |-> truth.late + more, epoch |-> truth.epoch]
    BY <1>1, <2>1 DEF Truths
  <2>3. ~expired => truth.late + more = truth.late
    BY <2>1 DEF Truths
  <2> HIDE DEF more
  <2> QED
    BY <1>3, <2>1, <2>2, <2>3 DEF Truths
<1>7. MainTypes'
  <2>1. left' + pending' <= SeriesPerWave /\ current' \in Int /\ pending' \in Nat
    BY <1>1, <1>2, <1>3
  <2> QED
    BY <1>1, <1>2, <2>1 DEF LoaderInv, LoaderTypes, MainTypes
<1>8. WorkTypes' /\ StatTypes'
  BY <1>1, <1>5, <1>6 DEF LoaderInv, LoaderTypes, WorkTypes, StatTypes
<1>9. WaveInv'
  BY <1>1, <1>2, <1>6 DEF LoaderInv, WaveInv
<1>10. EpochInv'
  BY <1>1, <1>5, <1>6 DEF LoaderInv, EpochInv
<1>11. ReportInv'
  BY <1>1, <1>2 DEF LoaderInv, ReportInv
<1> QED
  BY <1>7, <1>8, <1>9, <1>10, <1>11 DEF LoaderInv, LoaderTypes

LEMMA TickInv == LoaderInv /\ Tick /\ UNCHANGED mode => LoaderInv'
<1> SUFFICES ASSUME LoaderInv, Tick, UNCHANGED mode PROVE LoaderInv'
  OBVIOUS
<1>1. /\ pc = "wait" /\ pc' = "stream" /\ epoch' = clock /\ stats' = [stats EXCEPT !.epoch = clock]
      /\ left' = SeriesPerWave /\ waveResult' = "running"
      /\ UNCHANGED <<mode, current, pending, clock, expired, chanVars, workerVars, printed, truth>>
  BY DEF Tick
<1>2. /\ clock \in Nat /\ epoch \in Nat /\ epoch <= clock /\ truth.epoch \in Nat /\ SeriesPerWave \in Nat
      /\ pending = 0 /\ queue \in Seq(Requests)
  BY <1>1, Fields, Flags DEF LoaderInv, LoaderTypes, MainTypes, WorkTypes, WaveInv, EpochInv
<1>3. /\ stats' \in Stats /\ stats'.epoch = clock /\ stats'.total = stats.total
      /\ stats'.interval = stats.interval /\ stats'.requests = stats.requests
  BY <1>1, <1>2, Fields DEF Stats
<1>4. MainTypes'
  BY <1>1, <1>2 DEF LoaderInv, LoaderTypes, MainTypes
<1>5. WorkTypes' /\ StatTypes'
  BY <1>1, <1>3, Frame DEF LoaderInv, LoaderTypes, StatTypes
<1>6. WaveInv'
  BY <1>1, <1>2 DEF LoaderInv, WaveInv
<1>7. EpochInv'
  <2>1. \A i \in 1..Len(queue) : queue[i].epoch \in Nat
    <3>1. \A i \in 1..Len(queue) : queue[i] \in Requests
      BY <1>2, ElementOfSeq
    <3> QED
      BY <3>1 DEF Requests
  <2>2. truth.epoch <= clock /\ \A i \in 1..Len(queue) : queue[i].epoch <= clock
    BY <1>2, <2>1 DEF LoaderInv, EpochInv
  <2> QED
    BY <1>1, <1>2, <1>3, <2>2 DEF EpochInv
<1>8. ReportInv'
  BY <1>1, <1>3 DEF LoaderInv, ReportInv
<1> QED
  BY <1>4, <1>5, <1>6, <1>7, <1>8 DEF LoaderInv, LoaderTypes

\* A snapshot that is printed, or that finds no request to print.
LEMMA SnapshotInv ==
    ASSUME LoaderInv, Snapshot, PrintLine \/ (printed' = printed /\ ~(stats.requests > 0))
    PROVE  /\ stats' \in Stats /\ printed' \in Lines /\ stats'.epoch = stats.epoch
           /\ stats'.total = stats.total /\ stats'.interval = 0 /\ stats'.requests = 0
           /\ printed'.sum = stats.total /\ printed'.total = stats.total
<1>1. /\ stats' \in Stats /\ stats'.epoch = stats.epoch
      /\ stats'.total = stats.total /\ stats'.interval = 0 /\ stats'.requests = 0
  <2>1. stats' = [total |-> stats.total, interval |-> 0, requests |-> 0, epoch |-> stats.epoch]
    BY Fields DEF Snapshot, Stats
  <2> QED
    BY <2>1, Fields DEF Stats
<1>2. printed' \in Lines /\ printed'.sum = stats.total /\ printed'.total = stats.total
  <2>1. CASE PrintLine
    <3>1. printed.sum + stats.interval = stats.total
      BY DEF LoaderInv, ReportInv
    <3> QED
      BY <2>1, <3>1, Fields DEF PrintLine, Lines
  <2>2. CASE printed' = printed /\ ~(stats.requests > 0)
    <3>1. stats.requests = 0
      BY <2>2, Fields
    <3>2. printed.sum + 0 = stats.total /\ printed.total = stats.total
      BY <3>1 DEF LoaderInv, ReportInv
    <3> QED
      BY <2>2, <3>2, Fields
  <2> QED
    BY <2>1, <2>2
<1> QED
  BY <1>1, <1>2

LEMMA EndInv == LoaderInv /\ (WorkersDone \/ StopReporter) /\ UNCHANGED mode => LoaderInv'
<1>1. ASSUME LoaderInv, WorkersDone, UNCHANGED mode PROVE LoaderInv'
  <2>1. /\ pc' = "stop" /\ \A w \in Workers : wPc[w] = "done"
        /\ UNCHANGED <<mode, current, left, pending, waveResult, epoch, clock, expired, chanVars, workerVars,
                       stats, printed, truth>>
    BY <1>1 DEF WorkersDone
  <2>2. MainTypes'
    BY <1>1, <2>1 DEF LoaderInv, LoaderTypes, MainTypes
  <2>3. WorkTypes' /\ StatTypes' /\ EpochInv'
    BY <1>1, <2>1, Frame DEF LoaderInv, LoaderTypes
  <2>4. WaveInv' /\ ReportInv'
    BY <1>1, <2>1 DEF LoaderInv, WaveInv, ReportInv
  <2> QED
    BY <2>2, <2>3, <2>4 DEF LoaderInv, LoaderTypes
<1>2. ASSUME LoaderInv, StopReporter, UNCHANGED mode PROVE LoaderInv'
  <2>1. /\ pc = "stop" /\ pc' = "exited" /\ Snapshot
        /\ UNCHANGED <<mode, current, left, pending, waveResult, epoch, clock, expired, chanVars, workerVars,
                       truth>>
    BY <1>2 DEF StopReporter
  <2>printing. PrintLine \/ (printed' = printed /\ ~(stats.requests > 0))
    BY <1>2, Zenon DEF StopReporter
  <2>2. /\ stats' \in Stats /\ printed' \in Lines /\ stats'.epoch = stats.epoch
        /\ stats'.total = stats.total /\ stats'.interval = 0 /\ stats'.requests = 0
        /\ printed'.sum = stats.total /\ printed'.total = stats.total /\ stats.total \in Int
    BY <1>2, <2>1, <2>printing, SnapshotInv, Fields
  <2>3. MainTypes'
    BY <1>2, <2>1 DEF LoaderInv, LoaderTypes, MainTypes
  <2>4. WorkTypes' /\ StatTypes' /\ EpochInv'
    BY <1>2, <2>1, <2>2, Frame DEF LoaderInv, LoaderTypes, StatTypes
  <2>5. WaveInv' /\ ReportInv'
    BY <1>2, <2>1, <2>2 DEF LoaderInv, WaveInv, ReportInv
  <2> QED
    BY <2>3, <2>4, <2>5 DEF LoaderInv, LoaderTypes
<1> QED
  BY <1>1, <1>2
-----------------------------------------------------------------------------
(* The workers.                                                              *)

\* The main goroutine is left alone by all workers, and the end waits for them.
LEMMA TakeInv == ASSUME NEW w \in Workers, LoaderInv, Take(w) \/ TakeCancelled(w), UNCHANGED mode
                 PROVE  LoaderInv'
<1>1. /\ queue # <<>> /\ queue' = Tail(queue) /\ wPc[w] = "recv"
      /\ UNCHANGED <<mode, mainVars, clock, expired, answer, stats, printed>>
  BY DEF Take, TakeCancelled
<1>2. /\ queue' \in Seq(Requests) /\ \A i \in 1..Len(queue') : queue'[i].epoch <= epoch
      /\ Head(queue) \in Requests /\ Head(queue).epoch <= epoch
  BY <1>1, QueueTail DEF LoaderInv, LoaderTypes, WorkTypes, EpochInv
<1>3. \/ UNCHANGED <<wPc, wReq, truth>>
      \/ /\ wPc' = [wPc EXCEPT ![w] = "send"] /\ wReq' = [wReq EXCEPT ![w] = <<Head(queue)>>]
         /\ truth' = [truth EXCEPT !.epoch = Max({@, Head(queue).epoch})]
      \/ /\ wPc' = [wPc EXCEPT ![w] = "done"] /\ UNCHANGED wReq
         /\ truth' = [truth EXCEPT !.lost = @ + 1]
  BY DEF Take, TakeCancelled
<1>4. truth' \in Truths /\ truth'.late = truth.late /\ truth'.epoch <= epoch
  <2>1. truth \in Truths /\ truth.epoch \in Nat /\ truth.epoch <= epoch /\ Head(queue).epoch \in Nat
    BY <1>2, Fields DEF LoaderInv, EpochInv, Requests
  <2>2. Max({truth.epoch, Head(queue).epoch}) \in {truth.epoch, Head(queue).epoch}
    BY <2>1, MaxOfTwo
  <2> QED
    BY <1>2, <1>3, <2>1, <2>2 DEF Truths
<1>5. WorkTypes'
  <2>1. <<Head(queue)>> \in Seq(Requests) /\ <<Head(queue)>> # <<>>
    BY <1>2
  <2> QED
    BY <1>1, <1>2, <1>3, <2>1 DEF LoaderInv, LoaderTypes, WorkTypes
<1>6. MainTypes' /\ StatTypes' /\ WaveInv'
  BY <1>1, <1>4, Frame DEF LoaderInv, LoaderTypes, StatTypes
<1>7. EpochInv'
  BY <1>1, <1>2, <1>4 DEF LoaderInv, EpochInv
<1>8. ReportInv'
  BY <1>1 DEF LoaderInv, ReportInv
<1> QED
  BY <1>5, <1>6, <1>7, <1>8 DEF LoaderInv, LoaderTypes

LEMMA ServeInv == ASSUME NEW w \in Workers, NEW rejected \in Rejections \cup {0}, LoaderInv,
                         Serve(w, rejected), UNCHANGED mode
                  PROVE  LoaderInv'
<1>1. /\ wPc[w] = "send" /\ wPc' = [wPc EXCEPT ![w] = "served"] /\ answer' = [answer EXCEPT ![w] = rejected]
      /\ truth' = [truth EXCEPT !.accepted = @ + wReq[w][1].rows - RejectedOf(wReq[w][1].rows, rejected)]
      /\ UNCHANGED <<mode, mainVars, clock, expired, chanVars, wReq, stats, printed>>
  BY DEF Serve
<1>2. rejected \in Nat /\ wReq[w][1].rows \in Nat
  BY <1>1, HeldRequest, LoaderAssumption
<1>3. RejectedOf(wReq[w][1].rows, rejected) \in Int
  <2>1. wReq[w][1].rows \in Int /\ rejected \in Int
    BY <1>2
  <2> QED
    BY <2>1, RejectedInt, Zenon
<1>4. truth' \in Truths /\ truth'.late = truth.late /\ truth'.epoch = truth.epoch
  BY <1>1, <1>2, <1>3, Fields DEF Truths
<1>5. WorkTypes'
  BY <1>1, <1>2 DEF LoaderInv, LoaderTypes, WorkTypes
<1>6. MainTypes' /\ StatTypes' /\ WaveInv' /\ EpochInv'
  BY <1>1, <1>4, Frame DEF LoaderInv, LoaderTypes, StatTypes
<1>7. ReportInv'
  BY <1>1 DEF LoaderInv, ReportInv
<1> QED
  BY <1>5, <1>6, <1>7 DEF LoaderInv, LoaderTypes

LEMMA LeaveInv == ASSUME NEW w \in Workers, LoaderInv, RangeOver(w), UNCHANGED mode
                  PROVE  LoaderInv'
<1>1. /\ wPc' = [wPc EXCEPT ![w] = "done"]
      /\ UNCHANGED <<mode, mainVars, clock, expired, chanVars, wReq, answer, stats, printed, truth>>
  BY DEF RangeOver
<1>2. WorkTypes'
  BY <1>1 DEF LoaderInv, LoaderTypes, WorkTypes
<1>3. MainTypes' /\ StatTypes' /\ WaveInv' /\ EpochInv'
  BY <1>1, Frame DEF LoaderInv, LoaderTypes
<1>4. ReportInv'
  BY <1>1 DEF LoaderInv, LoaderTypes, WorkTypes, ReportInv
<1> QED
  BY <1>2, <1>3, <1>4 DEF LoaderInv, LoaderTypes

\* What is written counts in the total and in the interval, and as a request.
LEMMA WrittenInv ==
    ASSUME LoaderInv, NEW rows \in Int, Written(rows)
    PROVE  /\ stats' \in Stats /\ stats'.epoch = stats.epoch /\ stats'.requests # 0
           /\ stats'.total = stats.total + rows /\ stats'.interval = stats.interval + rows
<1>1. stats' = [total |-> stats.total + rows, interval |-> stats.interval + rows,
                requests |-> stats.requests + 1, epoch |-> stats.epoch]
  BY Fields DEF Written, Stats
<1> QED
  BY <1>1, Fields DEF Stats

LEMMA AnswerInv == ASSUME NEW w \in Workers, LoaderInv, Succeed(w) \/ PartialSuccess(w) \/ Fail(w),
                          UNCHANGED mode
                   PROVE  LoaderInv'
<1>1. /\ wPc[w] \in {"send", "served"}
      /\ wPc' = [wPc EXCEPT ![w] = "recv"] /\ wReq' = [wReq EXCEPT ![w] = <<>>]
      /\ answer' = [answer EXCEPT ![w] = 0]
      /\ UNCHANGED <<mode, mainVars, clock, expired, chanVars, printed, truth>>
  BY DEF Succeed, PartialSuccess, Fail, Answered
<1>2. wReq[w][1].rows \in Nat /\ answer[w] \in Nat
  BY <1>1, HeldRequest DEF LoaderInv, LoaderTypes, WorkTypes
<1>3. RejectedOf(wReq[w][1].rows, answer[w]) \in Int
  <2>1. wReq[w][1].rows \in Int /\ answer[w] \in Int
    BY <1>2
  <2> QED
    BY <2>1, RejectedInt, Zenon
<1>4. stats' = stats \/ \E rows \in Int : Written(rows)
  <2>1. wReq[w][1].rows \in Int /\ wReq[w][1].rows - RejectedOf(wReq[w][1].rows, answer[w]) \in Int
    BY <1>2, <1>3
  <2> QED
    BY <2>1 DEF Succeed, PartialSuccess, Fail
<1>5. /\ stats' \in Stats /\ stats'.epoch = stats.epoch
      /\ printed.sum + stats'.interval = stats'.total
      /\ stats' = stats \/ stats'.requests # 0
  <2>1. printed.sum + stats.interval = stats.total
    BY DEF LoaderInv, ReportInv
  <2>2. CASE stats' = stats
    BY <2>1, <2>2, Fields
  <2>3. ASSUME NEW rows \in Int, Written(rows)
        PROVE  /\ stats' \in Stats /\ stats'.epoch = stats.epoch /\ stats'.requests # 0
               /\ printed.sum + stats'.interval = stats'.total
    <3>1. /\ stats' \in Stats /\ stats'.epoch = stats.epoch /\ stats'.requests # 0
          /\ stats'.total = stats.total + rows /\ stats'.interval = stats.interval + rows
      BY <2>3, WrittenInv
    <3>2. printed.sum + (stats.interval + rows) = stats.total + rows
      BY <2>1, Fields
    <3> QED
      BY <3>1, <3>2
  <2> QED
    BY <1>4, <2>2, <2>3
<1>6. WorkTypes'
  <2>1. <<>> \in Seq(Requests)
    OBVIOUS
  <2> QED
    BY <1>1, <2>1 DEF LoaderInv, LoaderTypes, WorkTypes
<1>7. MainTypes' /\ StatTypes' /\ WaveInv' /\ EpochInv'
  BY <1>1, <1>5, Frame DEF LoaderInv, LoaderTypes, StatTypes
<1>8. pc \notin {"stop", "exited"}
  BY <1>1 DEF LoaderInv, ReportInv
<1>9. ReportInv'
  BY <1>1, <1>5, <1>8 DEF LoaderInv, ReportInv
<1> QED
  BY <1>6, <1>7, <1>9 DEF LoaderInv, LoaderTypes
-----------------------------------------------------------------------------
(* The clocks.                                                               *)

LEMMA ClockInv ==
    ASSUME LoaderInv, DrainTimeout \/ Deadline \/ EpochPasses \/ UNCHANGED vars, UNCHANGED mode
    PROVE  LoaderInv'
<1>1. /\ UNCHANGED <<mode, mainVars, queue, workerVars, stats, printed, truth>>
      /\ clock' \in {clock, clock + 1} /\ expired' \in {expired, TRUE}
  BY DEF DrainTimeout, Deadline, EpochPasses, vars
<1>2. /\ clock \in Nat /\ epoch \in Nat /\ clock' \in Nat /\ clock <= clock' /\ epoch <= clock
  BY <1>1 DEF LoaderInv, LoaderTypes, MainTypes, EpochInv
<1>deadline. expired \in BOOLEAN /\ expired' \in BOOLEAN /\ (~expired' => ~expired)
  <2>1. expired \in BOOLEAN
    BY DEF LoaderInv, LoaderTypes, MainTypes
  <2>2. CASE expired' = expired
    BY <2>1, <2>2, Zenon
  <2>3. CASE expired' = TRUE
    BY <2>1, <2>3, Zenon
  <2> QED
    BY <1>1, <2>2, <2>3, Zenon
<1>3. MainTypes'
  BY <1>1, <1>2, <1>deadline DEF LoaderInv, LoaderTypes, MainTypes
<1>4. WorkTypes' /\ StatTypes' /\ ReportInv'
  BY <1>1, Frame DEF LoaderInv, LoaderTypes
<1>5. WaveInv'
  BY <1>1, <1>deadline DEF LoaderInv, WaveInv
<1>6. EpochInv'
  BY <1>1, <1>2 DEF LoaderInv, EpochInv
<1> QED
  BY <1>3, <1>4, <1>5, <1>6 DEF LoaderInv, LoaderTypes

LEMMA ReportTickInv == LoaderInv /\ ReportTick /\ UNCHANGED mode => LoaderInv'
<1> SUFFICES ASSUME LoaderInv, ReportTick, UNCHANGED mode PROVE LoaderInv'
  OBVIOUS
<1>1. /\ pc # "exited" /\ Snapshot /\ PrintLine
      /\ UNCHANGED <<mode, mainVars, clock, expired, chanVars, workerVars, truth>>
  BY DEF ReportTick
<1>2. /\ stats' \in Stats /\ printed' \in Lines /\ stats'.epoch = stats.epoch
      /\ stats'.total = stats.total /\ stats'.interval = 0 /\ stats'.requests = 0
      /\ printed'.sum = stats.total /\ printed'.total = stats.total
  BY <1>1, SnapshotInv
<1>3. MainTypes' /\ WorkTypes' /\ StatTypes' /\ WaveInv' /\ EpochInv'
  BY <1>1, <1>2, Frame DEF LoaderInv, LoaderTypes, StatTypes
<1>4. ReportInv'
  BY <1>1, <1>2, Fields DEF LoaderInv, ReportInv
<1> QED
  BY <1>3, <1>4 DEF LoaderInv, LoaderTypes

LEMMA LoaderStep ==
    ASSUME LoaderInv, [Next]_<<mode, vars>>
    PROVE  LoaderInv'
<1>1. CASE UNCHANGED <<mode, vars>>
  BY <1>1, ClockInv
<1>2. CASE Next
  <2>1. UNCHANGED mode
    BY <1>2 DEF Next
  <2>2. CASE Main
    BY <2>1, <2>2, FormInv, WaveEndInv, EnqueueInv, EndInv DEF Main
  <2>3. ASSUME NEW w \in Workers, Worker(w) \/ Receiver(w) PROVE LoaderInv'
    BY <2>1, <2>3, TakeInv, LeaveInv, ServeInv, AnswerInv DEF Worker, Receiver
  <2>4. CASE Tick \/ ReportTick \/ DrainTimeout \/ Deadline \/ EpochPasses
    BY <2>1, <2>4, TickInv, ReportTickInv, ClockInv
  <2> QED
    BY <1>2, <2>2, <2>3, <2>4 DEF Next
<1> QED
  BY <1>1, <1>2

\* The strengthening above is an invariant of every run.
THEOREM LoaderInvariance == Spec => []LoaderInv
BY LoaderInitInv, LoaderStep, PTL DEF Spec

\* A report never shows an epoch older than that of a request sent, whatever the
\* ticker, the reporter and the workers do in between.
THEOREM EpochsReported == Spec => []EpochReported
<1>1. LoaderInv => EpochReported
  BY DEF LoaderInv, EpochInv, EpochReported
<1> QED
  BY <1>1, LoaderInvariance, PTL

\* No row falls between two reports, and the last line shows the final total.
THEOREM ReportsComplete == Spec => []ReportsAddUp
<1>1. LoaderInv => ReportsAddUp
  BY DEF LoaderInv, ReportInv, ReportsAddUp
<1> QED
  BY <1>1, LoaderInvariance, PTL
-----------------------------------------------------------------------------
(* The contract of the waves.                                                *)

Offered == 1..(SeriesPerWave - left - pending)

LEMMA ContractCardinality == \A S : Contract!Cardinality(S) = Cardinality(S)
BY Zenon DEF Contract!Cardinality, Cardinality

\* The rows of a request are the next ones.
LEMMA NextRows ==
    ASSUME NEW a \in Nat, NEW b \in Nat, a <= b
    PROVE  /\ (a + 1)..b \subseteq (1..b) \ (1..a) /\ 1..b = (1..a) \cup ((a + 1)..b)
           /\ (1..b) \ (1..a) = (a + 1)..b
           /\ Cardinality((a + 1)..b) = b - a
<1>1. Cardinality((a + 1)..b) = b - a
  <2>1. a + 1 \in Int /\ b \in Int
    OBVIOUS
  <2>2. Cardinality((a + 1)..b) = IF a + 1 > b THEN 0 ELSE b - (a + 1) + 1
    BY <2>1, FS_Interval
  <2> QED
    BY <2>2
<1> QED
  BY <1>1

\* Only the first request after the deadline finds one.
LEMMA LateCounted ==
    ASSUME LoaderInv, Enqueue
    PROVE  Contract!CountLate
<1>1. /\ truth \in Truths
      /\ truth' = [truth EXCEPT !.requests = @ + 1, !.rows = @ + pending,
                                !.late = @ + (IF expired THEN 1 ELSE 0)]
      /\ truth.late = 0 /\ expired \in BOOLEAN
  BY DEF LoaderInv, LoaderTypes, MainTypes, StatTypes, WaveInv, Enqueue
<1> QED
  BY <1>1 DEF Contract!CountLate

LEMMA EnqueueContract ==
    ASSUME LoaderInv, Enqueue
    PROVE  Contract!EnqueueFull \/ Contract!EnqueueLast
<1> DEFINE a == SeriesPerWave - left - pending
           b == SeriesPerWave - left
<1>1. /\ pc = "enqueue" /\ pending' = 0 /\ UNCHANGED <<left, expired>> /\ waveResult = "running"
      /\ 0 < pending /\ pending <= MaxSamples /\ (pending < MaxSamples => left = 0)
  BY DEF LoaderInv, WaveInv, Enqueue
<1>2. a \in Nat /\ b \in Nat /\ a <= b /\ b - a = pending /\ SeriesPerWave \in Nat /\ MaxSamples \in Nat
      /\ pending \in Nat /\ left \in Nat /\ a = SeriesPerWave - left - pending /\ b = SeriesPerWave - left
      /\ b <= SeriesPerWave
  BY Flags DEF LoaderInv, LoaderTypes, MainTypes
<1>3. Offered = 1..a /\ Offered' = 1..b
  BY <1>1, <1>2 DEF Offered
<1> HIDE DEF a, b
<1>4. (1..b) \ (1..a) = (a + 1)..b /\ 1..b = (1..a) \cup ((a + 1)..b) /\ Cardinality((a + 1)..b) = pending
  BY <1>2, NextRows
<1>5. Contract!CountLate
  BY LateCounted
<1>6. CASE pending < MaxSamples
  <2>1. b = SeriesPerWave /\ waveResult' = "true"
    BY <1>1, <1>2, <1>6 DEF Enqueue, WaveDone
  <2>2. Offered # 1..SeriesPerWave /\ Offered' = 1..SeriesPerWave
    BY <1>1, <1>2, <1>3, <2>1
  <2>3. Cardinality((1..SeriesPerWave) \ Offered) < MaxSamples
    BY <1>3, <1>4, <1>6, <2>1
  <2> QED
    BY <1>1, <1>5, <2>1, <2>2, <2>3, ContractCardinality DEF Contract!EnqueueLast, Offered
<1>7. CASE pending = MaxSamples
  <2>1. waveResult' = waveResult
    BY <1>2, <1>7 DEF Enqueue
  <2>2. (a + 1)..b \in SUBSET ((1..SeriesPerWave) \ Offered)
    <3>1. (a + 1)..b \subseteq (1..b) \ (1..a) /\ 1..b \subseteq 1..SeriesPerWave
      BY <1>2, <1>4
    <3> QED
      BY <1>3, <3>1
  <2>3. Contract!Cardinality((a + 1)..b) = MaxSamples
    BY <1>4, <1>7, ContractCardinality
  <2>4. \E batch \in SUBSET ((1..SeriesPerWave) \ Offered) :
           Contract!Cardinality(batch) = MaxSamples /\ Offered' = Offered \cup batch
    BY <1>3, <1>4, <2>2, <2>3
  <2> QED
    BY <1>1, <1>5, <2>1, <2>4 DEF Contract!EnqueueFull, Offered
<1> QED
  BY <1>1, <1>2, <1>6, <1>7

LEMMA LoaderContract ==
    ASSUME LoaderInv, [Next]_<<mode, vars>>
    PROVE  [Contract!Next]_Contract!vars
<1> USE DEF Contract!Next
<1>1. ASSUME Offered' = Offered, UNCHANGED <<expired, waveResult>>, truth'.late = truth.late
      PROVE  UNCHANGED Contract!vars
  BY <1>1 DEF Contract!vars, Offered
<1>2. CASE FormRequest
  <2>1. pending = 0 /\ left \in Nat /\ left > 0 /\ pending' = Min({MaxSamples, left}) /\ left' = left - pending'
        /\ UNCHANGED <<expired, waveResult, truth>>
    BY <1>2 DEF FormRequest, LoaderInv, LoaderTypes, MainTypes, WaveInv
  <2>2. pending' \in Int
    <3>1. MaxSamples \in Int /\ left \in Int
      BY <2>1, LoaderAssumption
    <3> QED
      BY <2>1, <3>1, MinOfTwo
  <2>3. Offered' = Offered
    BY <2>1, <2>2, LoaderAssumption DEF Offered
  <2> QED
    BY <1>1, <2>1, <2>3
<1>3. CASE WaveComplete
  <2>1. /\ left = 0 /\ pending = 0 /\ waveResult = "running" /\ waveResult' = "true"
        /\ UNCHANGED <<left, pending, expired, truth>>
    BY <1>3 DEF WaveComplete, WaveDone, LoaderInv, WaveInv
  <2>2. Offered = 1..SeriesPerWave /\ Offered' = Offered
    BY <2>1, LoaderAssumption DEF Offered
  <2>3. Contract!Complete
    BY <2>1, <2>2 DEF Contract!Complete, Offered
  <2> QED
    BY <2>3
<1>4. CASE AbortWave \/ AbandonRequest
  <2>1. Contract!Abandon
    BY <1>4 DEF AbortWave, AbandonRequest, StopWave, LoaderInv, WaveInv, Contract!Abandon
  <2> QED
    BY <2>1
<1>5. CASE Enqueue
  BY <1>5, EnqueueContract
<1>6. CASE Tick
  <2>1. /\ waveResult = "true" /\ waveResult' = "running" /\ left' = SeriesPerWave /\ pending' = 0
        /\ UNCHANGED <<expired, truth>>
    BY <1>6 DEF Tick, LoaderInv, WaveInv
  <2>2. Offered' = {}
    BY <2>1, LoaderAssumption DEF Offered
  <2>3. Contract!NextWave
    BY <2>1, <2>2 DEF Contract!NextWave, Offered
  <2> QED
    BY <2>3
<1>7. CASE Deadline
  <2>1. Contract!Deadline
    BY <1>7 DEF Deadline, Contract!Deadline
  <2> QED
    BY <2>1
<1>8. ASSUME UNCHANGED <<left, pending, expired, waveResult>>, truth'.late = truth.late
      PROVE  [Contract!Next]_Contract!vars
  BY <1>1, <1>8 DEF Offered
<1>9. CASE DurationOver \/ WorkersDone \/ StopReporter \/ DrainTimeout \/ ReportTick \/ EpochPasses
           \/ UNCHANGED <<mode, vars>>
  BY <1>8, <1>9 DEF DurationOver, WorkersDone, StopReporter, DrainTimeout, ReportTick, EpochPasses, vars
<1>10. ASSUME NEW w \in Workers, Worker(w) \/ Receiver(w) PROVE [Contract!Next]_Contract!vars
  <2>1. UNCHANGED <<left, pending, expired, waveResult>>
    BY <1>10 DEF Worker, Receiver, Take, TakeCancelled, RangeOver, Serve, Succeed, PartialSuccess, Fail, Answered
  <2>2. \/ UNCHANGED truth
        \/ \E x : truth' = [truth EXCEPT !.epoch = x] \/ truth' = [truth EXCEPT !.lost = x]
                  \/ truth' = [truth EXCEPT !.accepted = x]
    BY <1>10 DEF Worker, Receiver, Take, TakeCancelled, RangeOver, Serve, Succeed, PartialSuccess, Fail, Answered
  <2>3. truth'.late = truth.late
    BY <2>2, Fields DEF Truths
  <2> QED
    BY <1>8, <2>1, <2>3
<1> QED
  BY <1>2, <1>3, <1>4, <1>5, <1>6, <1>7, <1>9, <1>10 DEF Next, Main

\* A whole run, wave after wave: full requests of new series, TRUE only for a whole
\* wave, FALSE only after the deadline, and one request after it over all waves, even
\* when the ticker is chosen once more.
THEOREM RunKeepsContract == Spec => ContractSpec
<1>1. Init => Contract!Init
  BY LoaderAssumption DEF Init, Contract!Init
<1> QED
  BY <1>1, LoaderInvariance, LoaderContract, PTL DEF Spec, ContractSpec, Contract!Spec

-----------------------------------------------------------------------------
(***************************************************************************)
(* The accounts of a whole run: what rows_written claims, what a run       *)
(* without an error has delivered, and what the run statistics add up to.  *)
(* Each is a balance between a counter, what is still in the channel and   *)
(* what the workers hold, and an action moves an amount from one to        *)
(* another.                                                                *)
(***************************************************************************)

RunStats == [requests : Int, samples : Int, failed : Int, failedSamples : Int]

AccountTypes ==
    /\ wErr \in [Workers -> SUBSET {"send", "canceled"}]
    /\ runStats \in [Workers -> RunStats]
    /\ closed \in BOOLEAN /\ cancelled \in BOOLEAN /\ exitErr \in BOOLEAN

Clean == \A w \in Workers : wErr[w] = {}

\* The channel is closed with the last wave.  A worker leaves it when it is
\* closed and empty, or with a request of it that the drain timeout cancelled.
ClosingInv ==
    /\ closed <=> pc \in {"drain", "stop", "exited"}
    /\ cancelled \/ expired => HasDuration
    /\ \A w \in Workers : wPc[w] = "done" =>
           w \notin Started \/ "canceled" \in wErr[w] \/ (closed /\ queue = <<>>)
    /\ \A w \in Workers : "canceled" \in wErr[w] => cancelled
    /\ truth.lost > 0 => \E w \in Workers : "canceled" \in wErr[w]
    /\ Started = {} => queue = <<>>
    /\ pc \in {"stop", "exited"} => (~exitErr => Clean)
    /\ runLog # <<>> => /\ HasDuration /\ pc \in {"stop", "exited"}
                        /\ runLog = <<TotalOf(runStats)>>

\* Requests and rows in the hands of the workers, and rows the receiver has
\* accepted from requests whose answer is not here.
Held == [w \in Workers |-> IF wPc[w] \in {"send", "served"} THEN 1 ELSE 0]
HeldRows == [w \in Workers |-> IF wPc[w] \in {"send", "served"} THEN wReq[w][1].rows ELSE 0]
Unreported == [w \in Workers |->
                  IF wPc[w] = "served"
                  THEN wReq[w][1].rows - RejectedOf(wReq[w][1].rows, answer[w])
                  ELSE 0]
RowsOf(q) == [i \in 1..Len(q) |-> q[i].rows]
Logged(f) == [w \in Workers |-> runStats[w][f]]

Sum(f) == SumFunctionOnSet(f, Workers)
QueuedRows == SumFunctionOnSet(RowsOf(queue), 1..Len(queue))

\* Rows accepted are in rows_written, on the way to it, or in an answer that
\* was lost, with an error.
AcceptedInv ==
    /\ stats.total + Sum(Unreported) <= truth.accepted
    /\ Clean => truth.accepted = stats.total + Sum(Unreported)

\* Without an error every row offered is in the channel, held or written.
OfferedInv == ~DryRun /\ Clean => truth.rows = stats.total + Sum(HeldRows) + QueuedRows

\* Every request offered is in the channel, held, in the run statistics or lost.
RequestsInv == HasDuration => truth.requests = Sum(Logged("requests")) + Sum(Held) + Len(queue) + truth.lost

\* Rows of the requests logged as succeeded are in rows_written.
SamplesInv == HasDuration /\ ~DryRun =>
                  Sum(Logged("samples")) - Sum(Logged("failedSamples")) <= stats.total

\* After k waves of a run over a date range.
FiniteInv ==
    ~Live =>
        \E k \in Nat :
            /\ current = mode.start + k * mode.interval
            /\ pc \in {"stream", "enqueue"} =>
                   /\ truth.rows = SeriesPerWave * k + (SeriesPerWave - left - pending)
                   /\ k = 0 \/ current <= mode.end
            /\ pc = "wait" => truth.rows = SeriesPerWave * k /\ k > 0 /\ current <= mode.end
            /\ pc \in {"drain", "stop", "exited"} =>
                   /\ truth.rows = SeriesPerWave * k /\ k > 0 /\ current > mode.end
                   /\ k = 1 \/ current - mode.interval <= mode.end

AccountInv == /\ AccountTypes /\ ClosingInv /\ AcceptedInv /\ OfferedInv /\ RequestsInv
              /\ SamplesInv /\ FiniteInv

USE DEF mainVars, chanVars, workerVars, endVars
-----------------------------------------------------------------------------
(* The balances.                                                             *)

LEMMA WorkersFinite == IsFiniteSet(Workers)
BY LoaderAssumption

LEMMA BalanceChange ==
    ASSUME NEW f, NEW e, NEW w \in Workers,
           \A x \in Workers : f[x] \in Int /\ e[x] \in Int,
           \A x \in Workers : x # w => e[x] = f[x]
    PROVE  Sum(f) \in Int /\ Sum(e) = Sum(f) + (e[w] - f[w])
BY WorkersFinite, SumChange DEF Sum

LEMMA BalanceInt ==
    ASSUME NEW f, \A x \in Workers : f[x] \in Int
    PROVE  Sum(f) \in Int
BY WorkersFinite, SumTypes DEF Sum

LEMMA BalanceZero ==
    ASSUME NEW f, \A x \in Workers : f[x] = 0
    PROVE  Sum(f) = 0
BY WorkersFinite, SumZero DEF Sum

\* What the balances add up is a number for every worker.
LEMMA BalanceTypes ==
    LoaderInv => \A w \in Workers : /\ Held[w] \in Int /\ HeldRows[w] \in Int
                                    /\ Unreported[w] \in Int
<1> SUFFICES ASSUME LoaderInv, NEW w \in Workers
             PROVE  Held[w] \in Int /\ HeldRows[w] \in Int /\ Unreported[w] \in Int
  OBVIOUS
<1>1. CASE wPc[w] \notin {"send", "served"}
  BY <1>1 DEF Held, HeldRows, Unreported
<1>2. CASE wPc[w] \in {"send", "served"}
  <2>1. wReq[w][1].rows \in Int /\ answer[w] \in Int
    BY <1>2, HeldRequest DEF LoaderInv, LoaderTypes, WorkTypes
  <2>2. RejectedOf(wReq[w][1].rows, answer[w]) \in Int
    BY <2>1, RejectedInt, Zenon
  <2> QED
    BY <1>2, <2>1, <2>2 DEF Held, HeldRows, Unreported
<1> QED
  BY <1>1, <1>2

LEMMA BalanceTypesNext ==
    LoaderInv' => \A w \in Workers : /\ Held'[w] \in Int /\ HeldRows'[w] \in Int
                                     /\ Unreported'[w] \in Int
<1>1. LoaderInv' => (\A w \in Workers : /\ Held[w] \in Int /\ HeldRows[w] \in Int
                                        /\ Unreported[w] \in Int)'
  BY BalanceTypes, PTL
<1> QED
  BY <1>1

\* A step of one worker changes the balances by what changes at that worker.
LEMMA WorkerBalances ==
    ASSUME LoaderInv, LoaderInv', NEW w \in Workers,
           \A x \in Workers : x # w => /\ wPc'[x] = wPc[x] /\ wReq'[x] = wReq[x]
                                       /\ answer'[x] = answer[x]
    PROVE  /\ Sum(Held) \in Int /\ Sum(Held') = Sum(Held) + (Held'[w] - Held[w])
           /\ Sum(HeldRows) \in Int /\ Sum(HeldRows') = Sum(HeldRows) + (HeldRows'[w] - HeldRows[w])
           /\ Sum(Unreported) \in Int
           /\ Sum(Unreported') = Sum(Unreported) + (Unreported'[w] - Unreported[w])
<1>1. \A x \in Workers : x # w => /\ Held'[x] = Held[x] /\ HeldRows'[x] = HeldRows[x]
                                  /\ Unreported'[x] = Unreported[x]
  BY DEF Held, HeldRows, Unreported
<1>2. \A x \in Workers : /\ Held[x] \in Int /\ HeldRows[x] \in Int /\ Unreported[x] \in Int
                         /\ Held'[x] \in Int /\ HeldRows'[x] \in Int /\ Unreported'[x] \in Int
  BY BalanceTypes, BalanceTypesNext
<1> HIDE DEF Held, HeldRows, Unreported, Sum
<1>3. Sum(Held) \in Int /\ Sum(Held') = Sum(Held) + (Held'[w] - Held[w])
  BY <1>1, <1>2, BalanceChange
<1>4. Sum(HeldRows) \in Int /\ Sum(HeldRows') = Sum(HeldRows) + (HeldRows'[w] - HeldRows[w])
  BY <1>1, <1>2, BalanceChange
<1>5. /\ Sum(Unreported) \in Int
      /\ Sum(Unreported') = Sum(Unreported) + (Unreported'[w] - Unreported[w])
  BY <1>1, <1>2, BalanceChange
<1> QED
  BY <1>3, <1>4, <1>5

\* A worker records a request in the run statistics, if the run has a duration.
LEMMA RecordBalances ==
    ASSUME AccountTypes, NEW w \in Workers, NEW rows \in Int, NEW failed \in BOOLEAN,
           Record(w, rows, failed)
    PROVE  /\ runStats' \in [Workers -> RunStats]
           /\ ~HasDuration => runStats' = runStats
           /\ HasDuration =>
                /\ Sum(Logged("requests")) \in Int
                /\ Sum(Logged("requests")') = Sum(Logged("requests")) + 1
                /\ Sum(Logged("samples")) \in Int
                /\ Sum(Logged("samples")') = Sum(Logged("samples")) + rows
                /\ Sum(Logged("failedSamples")) \in Int
                /\ Sum(Logged("failedSamples")') =
                     Sum(Logged("failedSamples")) + (IF failed THEN rows ELSE 0)
<1> DEFINE one == IF failed THEN 1 ELSE 0
           some == IF failed THEN rows ELSE 0
<1>1. one \in Int /\ some \in Int
  OBVIOUS
<1>2. CASE ~HasDuration
  BY <1>2 DEF Record, AccountTypes
<1>3. CASE HasDuration
  <2>1. runStats \in [Workers -> RunStats]
    BY DEF AccountTypes
  <2>2. runStats' = [runStats EXCEPT ![w].requests = @ + 1, ![w].samples = @ + rows,
                                     ![w].failed = @ + one, ![w].failedSamples = @ + some]
    BY <1>3 DEF Record
  <2> HIDE DEF one, some
  <2>3. /\ \A x \in Workers : x # w => runStats'[x] = runStats[x]
        /\ runStats'[w] = [requests |-> runStats[w].requests + 1, samples |-> runStats[w].samples + rows,
                           failed |-> runStats[w].failed + one,
                           failedSamples |-> runStats[w].failedSamples + some]
    BY <2>1, <2>2 DEF RunStats
  <2>4. runStats'[w] \in RunStats
    BY <1>1, <2>1, <2>3 DEF RunStats
  <2>5. runStats' \in [Workers -> RunStats]
    BY <2>1, <2>2, <2>3, <2>4
  <2>6. \A f \in {"requests", "samples", "failedSamples"} :
            /\ \A x \in Workers : Logged(f)[x] \in Int /\ Logged(f)'[x] \in Int
            /\ \A x \in Workers : x # w => Logged(f)'[x] = Logged(f)[x]
    BY <2>1, <2>3, <2>5 DEF Logged, RunStats
  <2>7. /\ Logged("requests")'[w] = Logged("requests")[w] + 1
        /\ Logged("samples")'[w] = Logged("samples")[w] + rows
        /\ Logged("failedSamples")'[w] = Logged("failedSamples")[w] + some
    BY <2>3 DEF Logged
  <2>8. \A f \in {"requests", "samples", "failedSamples"} :
            /\ Sum(Logged(f)) \in Int
            /\ Sum(Logged(f)') = Sum(Logged(f)) + (Logged(f)'[w] - Logged(f)[w])
    <3> TAKE f \in {"requests", "samples", "failedSamples"}
    <3>1. /\ \A x \in Workers : Logged(f)[x] \in Int /\ Logged(f)'[x] \in Int
          /\ \A x \in Workers : x # w => Logged(f)'[x] = Logged(f)[x]
      BY <2>6
    <3> QED
      BY <3>1, BalanceChange
  <2>9. \A f \in {"requests", "samples", "failedSamples"} : Logged(f)[w] \in Int
    BY <2>6
  <2>10. /\ Sum(Logged("requests")') = Sum(Logged("requests")) + 1
         /\ Sum(Logged("samples")') = Sum(Logged("samples")) + rows
         /\ Sum(Logged("failedSamples")') = Sum(Logged("failedSamples")) + some
    BY <1>1, <2>7, <2>8, <2>9
  <2> QED
    BY <1>3, <2>5, <2>8, <2>10 DEF some
<1> QED
  BY <1>2, <1>3

\* The rows in the channel when a request is added, and when one is taken.
LEMMA AppendRows ==
    ASSUME NEW q \in Seq(Requests), NEW r \in Requests
    PROVE  /\ SumFunctionOnSet(RowsOf(q), 1..Len(q)) \in Int
           /\ SumFunctionOnSet(RowsOf(Append(q, r)), 1..Len(Append(q, r)))
                = SumFunctionOnSet(RowsOf(q), 1..Len(q)) + r.rows
<1> DEFINE n == Len(q)
           p == Append(q, r)
           f == RowsOf(p)
<1>1. n \in Nat /\ p \in Seq(Requests) /\ Len(p) = n + 1
      /\ (\A i \in 1..n : p[i] = q[i]) /\ p[n + 1] = r
  BY AppendProperties, LenProperties
<1>2. \A i \in 1..(n + 1) : p[i] \in Requests
  BY <1>1, ElementOfSeq
<1> HIDE DEF n, p
<1>3. /\ \A i \in 1..(n + 1) : f[i] \in Int
      /\ f[n + 1] = r.rows
      /\ \A i \in 1..n : f[i] = RowsOf(q)[i]
  <2>1. /\ n + 1 \in 1..(n + 1) /\ (\A i \in 1..n : i \in 1..(n + 1))
        /\ \A i \in 1..(n + 1) : f[i] = p[i].rows
    BY <1>1 DEF RowsOf
  <2>2. \A i \in 1..n : RowsOf(q)[i] = q[i].rows
    BY DEF RowsOf, n
  <2>3. \A i \in 1..(n + 1) : p[i].rows \in Int
    BY <1>2 DEF Requests
  <2> HIDE DEF f
  <2> QED
    BY <1>1, <2>1, <2>2, <2>3
<1> HIDE DEF f
<1>4. /\ SumFunctionOnSet(f, 1..n) \in Int
      /\ SumFunctionOnSet(f, 1..(n + 1)) = SumFunctionOnSet(f, 1..n) + f[n + 1]
  BY <1>1, <1>3, SumLast
<1>5. SumFunctionOnSet(f, 1..n) = SumFunctionOnSet(RowsOf(q), 1..n)
  <2>1. IsFiniteSet(1..n)
    BY <1>1, FS_Interval
  <2> QED
    BY <2>1, <1>3, SumSame
<1> QED
  BY <1>1, <1>3, <1>4, <1>5 DEF f, n, p

LEMMA TailRows ==
    ASSUME NEW q \in Seq(Requests), q # <<>>
    PROVE  /\ SumFunctionOnSet(RowsOf(Tail(q)), 1..Len(Tail(q))) \in Int
           /\ SumFunctionOnSet(RowsOf(q), 1..Len(q))
                = Head(q).rows + SumFunctionOnSet(RowsOf(Tail(q)), 1..Len(Tail(q)))
           /\ Len(Tail(q)) = Len(q) - 1 /\ Len(q) \in Nat
           /\ Head(q) \in Requests /\ Head(q).rows \in Nat
<1> DEFINE n == Len(q) - 1
           t == Tail(q)
           f == RowsOf(q)
           e == RowsOf(t)
<1>1. /\ t \in Seq(Requests) /\ Head(q) \in Requests /\ Head(q) = q[1]
      /\ Len(q) \in Nat \ {0} /\ Len(t) = Len(q) - 1
      /\ \A i \in 1..Len(t) : t[i] = q[i + 1]
  BY HeadTailProperties, EmptySeq, LenProperties
<1>2. \A i \in 1..Len(q) : q[i] \in Requests
  BY ElementOfSeq
<1>3. n \in Nat /\ Len(q) = n + 1 /\ Len(t) = n
  BY <1>1
<1> HIDE DEF n, t
<1>4. /\ \A i \in 1..(n + 1) : f[i] \in Int
      /\ f[1] = Head(q).rows
      /\ \A i \in 1..n : e[i] = f[i + 1]
  BY <1>1, <1>2, <1>3 DEF RowsOf, Requests
<1> HIDE DEF e, f
<1>5. /\ SumFunctionOnSet(e, 1..n) \in Int
      /\ SumFunctionOnSet(f, 1..(n + 1)) = f[1] + SumFunctionOnSet(e, 1..n)
  BY <1>3, <1>4, SumFirst
<1>6. Head(q).rows \in Nat
  BY <1>1 DEF Requests
<1> QED
  BY <1>1, <1>3, <1>4, <1>5, <1>6 DEF e, f, t

LEMMA QueuedInt == queue \in Seq(Requests) => QueuedRows \in Int
<1> SUFFICES ASSUME queue \in Seq(Requests) PROVE QueuedRows \in Int
  OBVIOUS
<1>1. [time |-> 0, epoch |-> 0, rows |-> 0] \in Requests
  BY DEF Requests
<1> QED
  BY <1>1, AppendRows DEF QueuedRows

LEMMA QueueEmpty == queue = <<>> => QueuedRows = 0 /\ Len(queue) = 0
<1>1. queue = <<>> => Len(queue) = 0 /\ 1..Len(queue) = {}
  OBVIOUS
<1> QED
  BY <1>1, SumEmpty DEF QueuedRows
-----------------------------------------------------------------------------
(* The initial states, and what a step leaves alone.                         *)

LEMMA TruthFields ==
    ASSUME LoaderInv
    PROVE  /\ truth.requests \in Nat /\ truth.rows \in Nat /\ truth.accepted \in Int
           /\ truth.lost \in Nat /\ stats.total \in Int
           /\ queue \in Seq(Requests) /\ Len(queue) \in Nat
BY LenProperties DEF LoaderInv, LoaderTypes, StatTypes, WorkTypes, Stats, Truths

LEMMA AccountFrame ==
    /\ AccountTypes /\ UNCHANGED <<wErr, runStats, closed, cancelled, exitErr>> => AccountTypes'
    /\ ClosingInv /\ UNCHANGED <<mode, pc, closed, cancelled, expired, wPc, wErr, queue, exitErr, runStats, runLog>>
         /\ truth'.lost = truth.lost => ClosingInv'
    /\ AcceptedInv /\ UNCHANGED <<wPc, wReq, answer, wErr>>
         /\ stats'.total = stats.total /\ truth'.accepted = truth.accepted => AcceptedInv'
    /\ OfferedInv /\ UNCHANGED <<mode, queue, wPc, wReq, wErr>>
         /\ stats'.total = stats.total /\ truth'.rows = truth.rows => OfferedInv'
    /\ RequestsInv /\ UNCHANGED <<mode, queue, wPc, runStats>>
         /\ truth'.requests = truth.requests /\ truth'.lost = truth.lost => RequestsInv'
    /\ SamplesInv /\ UNCHANGED <<mode, runStats>> /\ stats'.total = stats.total => SamplesInv'
    /\ FiniteInv /\ UNCHANGED <<mode, pc, current, left, pending>> /\ truth'.rows = truth.rows => FiniteInv'
<1>1. AccountTypes /\ UNCHANGED <<wErr, runStats, closed, cancelled, exitErr>> => AccountTypes'
  BY DEF AccountTypes
<1>2. ClosingInv /\ UNCHANGED <<mode, pc, closed, cancelled, expired, wPc, wErr, queue, exitErr, runStats, runLog>>
         /\ truth'.lost = truth.lost => ClosingInv'
  BY DEF ClosingInv, Started, HasDuration, Clean, TotalOf
<1>3. AcceptedInv /\ UNCHANGED <<wPc, wReq, answer, wErr>>
         /\ stats'.total = stats.total /\ truth'.accepted = truth.accepted => AcceptedInv'
  BY DEF AcceptedInv, Clean, Unreported
<1>4. OfferedInv /\ UNCHANGED <<mode, queue, wPc, wReq, wErr>>
         /\ stats'.total = stats.total /\ truth'.rows = truth.rows => OfferedInv'
  BY DEF OfferedInv, Clean, DryRun, HeldRows, QueuedRows
<1>5. RequestsInv /\ UNCHANGED <<mode, queue, wPc, runStats>>
         /\ truth'.requests = truth.requests /\ truth'.lost = truth.lost => RequestsInv'
  BY DEF RequestsInv, HasDuration, Logged, Held
<1>6. SamplesInv /\ UNCHANGED <<mode, runStats>> /\ stats'.total = stats.total => SamplesInv'
  BY DEF SamplesInv, HasDuration, DryRun, Logged
<1>7. FiniteInv /\ UNCHANGED <<mode, pc, current, left, pending>> /\ truth'.rows = truth.rows => FiniteInv'
  BY DEF FiniteInv, Live
<1> QED
  BY <1>1, <1>2, <1>3, <1>4, <1>5, <1>6, <1>7

LEMMA AccountInit == Init => AccountInv
<1> SUFFICES ASSUME Init PROVE AccountInv
  OBVIOUS
<1>1. LoaderInv
  BY LoaderInitInv
<1>2. /\ \A w \in Workers : /\ Held[w] = 0 /\ HeldRows[w] = 0 /\ Unreported[w] = 0
      /\ \A f \in {"requests", "samples", "failedSamples"} : \A w \in Workers : Logged(f)[w] = 0
  BY DEF Init, Held, HeldRows, Unreported, Logged, NoRunStats
<1>3. /\ Sum(Held) = 0 /\ Sum(HeldRows) = 0 /\ Sum(Unreported) = 0
      /\ Sum(Logged("requests")) = 0 /\ Sum(Logged("samples")) = 0 /\ Sum(Logged("failedSamples")) = 0
  BY <1>2, BalanceZero
<1>4. QueuedRows = 0 /\ Len(queue) = 0
  BY QueueEmpty DEF Init
<1>5. AccountTypes /\ ClosingInv
  <2>1. AccountTypes
    <3>1. NoRunStats \in RunStats
      BY DEF NoRunStats, RunStats
    <3> QED
      BY <3>1 DEF Init, AccountTypes
  <2>2. /\ pc = "stream" /\ ~closed /\ ~cancelled /\ ~expired /\ truth.lost = 0 /\ queue = <<>> /\ runLog = <<>>
        /\ \A w \in Workers : wErr[w] = {} /\ (wPc[w] = "done" => w \notin Started)
    BY DEF Init
  <2> QED
    BY <2>1, <2>2 DEF ClosingInv
<1>6. /\ stats.total = 0 /\ truth.accepted = 0 /\ truth.rows = 0 /\ truth.requests = 0
      /\ truth.lost = 0
  BY DEF Init
<1>7. AcceptedInv /\ OfferedInv /\ RequestsInv /\ SamplesInv
  BY <1>3, <1>4, <1>6 DEF AcceptedInv, OfferedInv, RequestsInv, SamplesInv
<1>8. FiniteInv
  <2>1. mode.start \in Int /\ mode.interval \in Int /\ SeriesPerWave \in Int
    BY <1>1, Flags DEF LoaderInv, LoaderTypes
  <2>2. ~Live => current = mode.start + 0 * mode.interval
    BY <2>1 DEF Init
  <2>3. truth.rows = SeriesPerWave * 0 + (SeriesPerWave - left - pending)
    BY <1>6, <2>1 DEF Init
  <2>4. pc = "stream"
    BY DEF Init
  <2> QED
    BY <2>2, <2>3, <2>4 DEF FiniteInv
<1> QED
  BY <1>5, <1>7, <1>8 DEF AccountInv
-----------------------------------------------------------------------------
(* The workers.                                                              *)

\* What every step of a worker leaves alone.
LEMMA WorkerFrame ==
    ASSUME LoaderInv, AccountInv, UNCHANGED <<mode, pc, current, left, pending, expired, closed, cancelled,
                                              runLog, exitErr>>,
           truth'.rows = truth.rows,
           wErr' \in [Workers -> SUBSET {"send", "canceled"}],
           runStats' \in [Workers -> RunStats]
    PROVE  AccountTypes' /\ FiniteInv'
BY AccountFrame DEF AccountInv, AccountTypes

\* A worker that is about to act is not done, so that nothing is printed yet.
LEMMA NothingPrinted ==
    ASSUME LoaderInv, AccountInv, NEW w \in Workers, wPc[w] # "done"
    PROVE  pc \notin {"stop", "exited"} /\ runLog = <<>>
BY DEF LoaderInv, ReportInv, AccountInv, ClosingInv

LEMMA TakeAccounts ==
    ASSUME LoaderInv, LoaderInv', AccountInv, NEW w \in Workers, Take(w), UNCHANGED mode
    PROVE  AccountInv'
<1>1. /\ wPc[w] = "recv" /\ queue # <<>> /\ ~cancelled /\ queue' = Tail(queue)
      /\ UNCHANGED <<mode, pc, current, left, pending, expired, closed, cancelled, wErr, answer, stats,
                     runLog, exitErr>>
  BY DEF Take
<1>2. /\ truth'.rows = truth.rows /\ truth'.accepted = truth.accepted
      /\ truth'.requests = truth.requests /\ truth'.lost = truth.lost
  <2>1. truth' = truth \/ \E n : truth' = [truth EXCEPT !.epoch = n]
    BY DEF Take
  <2> QED
    BY <2>1, Fields DEF Truths
<1>3. pc \notin {"stop", "exited"} /\ runLog = <<>>
  BY <1>1, NothingPrinted
<1>4. /\ QueuedRows = Head(queue).rows + QueuedRows' /\ QueuedRows' \in Int
      /\ Len(queue') = Len(queue) - 1 /\ Len(queue) \in Nat
      /\ Head(queue) \in Requests /\ Head(queue).rows \in Nat
  BY <1>1, TruthFields, TailRows DEF QueuedRows
<1>5. ClosingInv'
  <2>1. \A x \in Workers : wPc'[x] = "done" => wPc[x] = "done"
    <3>1. wPc' = wPc \/ wPc' = [wPc EXCEPT ![w] = "send"]
      BY DEF Take
    <3>2. wPc \in [Workers -> {"recv", "send", "served", "done"}]
      BY DEF LoaderInv, LoaderTypes, WorkTypes
    <3> QED
      BY <3>1, <3>2
  <2>2. closed /\ queue = <<>> => closed' /\ queue' = <<>>
    BY <1>1
  <2> QED
    BY <1>1, <1>2, <1>3, <2>1, <2>2 DEF AccountInv, ClosingInv, Started, HasDuration
<1>6. \A x \in Workers : x # w => /\ wPc'[x] = wPc[x] /\ wReq'[x] = wReq[x] /\ answer'[x] = answer[x]
  BY <1>1 DEF Take, LoaderInv, LoaderTypes, WorkTypes
<1>7. /\ Sum(Held) \in Int /\ Sum(Held') = Sum(Held) + (Held'[w] - Held[w])
      /\ Sum(HeldRows) \in Int /\ Sum(HeldRows') = Sum(HeldRows) + (HeldRows'[w] - HeldRows[w])
      /\ Sum(Unreported) \in Int
      /\ Sum(Unreported') = Sum(Unreported) + (Unreported'[w] - Unreported[w])
  BY <1>6, WorkerBalances
<1>8. CASE DryRun
  <2>1. Record(w, Head(queue).rows, FALSE) /\ UNCHANGED <<wPc, wReq, truth>>
    BY <1>8 DEF Take
  <2>2. /\ runStats' \in [Workers -> RunStats]
        /\ ~HasDuration => runStats' = runStats
        /\ HasDuration => /\ Sum(Logged("requests")) \in Int
                          /\ Sum(Logged("requests")') = Sum(Logged("requests")) + 1
    <3>1. Head(queue).rows \in Int /\ FALSE \in BOOLEAN
      BY <1>4
    <3> QED
      BY <2>1, <3>1, RecordBalances DEF AccountInv
  <2>3. AccountTypes' /\ FiniteInv'
    BY <1>1, <1>2, <2>2, WorkerFrame DEF AccountInv, AccountTypes
  <2>4. AcceptedInv'
    BY <1>1, <1>2, <2>1, AccountFrame DEF AccountInv
  <2>5. OfferedInv' /\ SamplesInv'
    BY <1>1, <1>8 DEF OfferedInv, SamplesInv, DryRun
  <2>6. RequestsInv'
    <3>1. Sum(Held') = Sum(Held)
      BY <2>1 DEF Held
    <3>2. HasDuration => truth.requests = Sum(Logged("requests")) + Sum(Held) + Len(queue) + truth.lost
      BY DEF AccountInv, RequestsInv
    <3> QED
      BY <1>1, <1>2, <1>4, <1>7, <2>2, <3>1, <3>2, TruthFields DEF RequestsInv, HasDuration
  <2> QED
    BY <1>5, <2>3, <2>4, <2>5, <2>6 DEF AccountInv
<1>9. CASE ~DryRun
  <2>1. /\ wPc' = [wPc EXCEPT ![w] = "send"] /\ wReq' = [wReq EXCEPT ![w] = <<Head(queue)>>]
        /\ UNCHANGED runStats
    BY <1>9 DEF Take
  <2>2. /\ Held[w] = 0 /\ Held'[w] = 1 /\ HeldRows[w] = 0 /\ HeldRows'[w] = Head(queue).rows
        /\ Unreported[w] = 0 /\ Unreported'[w] = 0
    BY <1>1, <2>1 DEF Held, HeldRows, Unreported, LoaderInv, LoaderTypes, WorkTypes
  <2>3. AccountTypes' /\ FiniteInv'
    BY <1>1, <1>2, <2>1, WorkerFrame DEF AccountInv, AccountTypes
  <2>4. AcceptedInv'
    BY <1>1, <1>2, <1>7, <2>2 DEF AccountInv, AcceptedInv, Clean
  <2>5. OfferedInv'
    <3>1. ~DryRun /\ Clean => truth.rows = stats.total + Sum(HeldRows) + QueuedRows
      BY DEF AccountInv, OfferedInv
    <3>2. stats.total + Sum(HeldRows) + QueuedRows = stats.total + Sum(HeldRows') + QueuedRows'
      <4>1. Sum(HeldRows') = Sum(HeldRows) + (Head(queue).rows - 0)
        BY <1>7, <2>2
      <4>2. /\ Head(queue).rows \in Int /\ stats.total \in Int /\ Sum(HeldRows) \in Int
            /\ QueuedRows' \in Int /\ QueuedRows = Head(queue).rows + QueuedRows'
        BY <1>4, <1>7, TruthFields
      <4> HIDE DEF Sum, QueuedRows, HeldRows
      <4> QED
        BY <4>1, <4>2
    <3>3. Clean' <=> Clean
      BY <1>1 DEF Clean
    <3> QED
      BY <1>1, <1>2, <3>1, <3>2, <3>3 DEF OfferedInv, DryRun
  <2>6. RequestsInv'
    <3>1. HasDuration => truth.requests = Sum(Logged("requests")) + Sum(Held) + Len(queue) + truth.lost
      BY DEF AccountInv, RequestsInv
    <3>2. Sum(Logged("requests")') = Sum(Logged("requests")) /\ Sum(Logged("requests")) \in Int
      <4>1. \A x \in Workers : Logged("requests")[x] \in Int
        BY DEF AccountInv, AccountTypes, RunStats, Logged
      <4> QED
        BY <2>1, <4>1, BalanceInt DEF Logged
    <3> QED
      BY <1>1, <1>2, <1>4, <1>7, <2>2, <3>1, <3>2, TruthFields DEF RequestsInv, HasDuration
  <2>7. SamplesInv'
    BY <1>1, <2>1, AccountFrame DEF AccountInv
  <2> QED
    BY <1>5, <2>3, <2>4, <2>5, <2>6, <2>7 DEF AccountInv
<1> QED
  BY <1>8, <1>9

LEMMA LoggedInt ==
    AccountTypes => \A f \in {"requests", "samples", "failedSamples"} : Sum(Logged(f)) \in Int
<1> SUFFICES ASSUME AccountTypes, NEW f \in {"requests", "samples", "failedSamples"}
             PROVE  Sum(Logged(f)) \in Int
  OBVIOUS
<1>1. \A x \in Workers : Logged(f)[x] \in Int
  BY DEF AccountTypes, RunStats, Logged
<1> QED
  BY <1>1, BalanceInt

LEMMA TakeCancelledAccounts ==
    ASSUME LoaderInv, LoaderInv', AccountInv, NEW w \in Workers, TakeCancelled(w), UNCHANGED mode
    PROVE  AccountInv'
<1>1. /\ wPc[w] = "recv" /\ queue # <<>> /\ cancelled /\ queue' = Tail(queue)
      /\ wPc' = [wPc EXCEPT ![w] = "done"] /\ wErr' = [wErr EXCEPT ![w] = @ \cup {"canceled"}]
      /\ UNCHANGED <<mode, pc, current, left, pending, expired, closed, cancelled, wReq, answer, stats,
                     runStats, runLog, exitErr>>
  BY DEF TakeCancelled
<1>2. /\ truth'.rows = truth.rows /\ truth'.accepted = truth.accepted
      /\ truth'.requests = truth.requests /\ truth'.lost = truth.lost + 1
  <2>1. truth' = [requests |-> truth.requests, rows |-> truth.rows, accepted |-> truth.accepted,
                  lost |-> truth.lost + 1, late |-> truth.late, epoch |-> truth.epoch]
    BY Fields DEF TakeCancelled, Truths
  <2> QED
    BY <2>1
<1>3. pc \notin {"stop", "exited"} /\ runLog = <<>>
  BY <1>1, NothingPrinted
<1>4. Len(queue') = Len(queue) - 1 /\ Len(queue) \in Nat
  BY <1>1, TruthFields, TailRows
<1>5. /\ wErr \in [Workers -> SUBSET {"send", "canceled"}]
      /\ wErr' \in [Workers -> SUBSET {"send", "canceled"}]
      /\ "canceled" \in wErr'[w]
      /\ \A x \in Workers : "canceled" \in wErr[x] => "canceled" \in wErr'[x]
  BY <1>1 DEF AccountInv, AccountTypes
<1>6. ~Clean'
  BY <1>5 DEF Clean
<1>7. ClosingInv'
  <2>1. \A x \in Workers : wPc'[x] = "done" => x = w \/ wPc[x] = "done"
    BY <1>1 DEF LoaderInv, LoaderTypes, WorkTypes
  <2> QED
    BY <1>1, <1>3, <1>5, <2>1 DEF AccountInv, ClosingInv, Started, HasDuration
<1>8. /\ \A x \in Workers : x # w => /\ wPc'[x] = wPc[x] /\ wReq'[x] = wReq[x] /\ answer'[x] = answer[x]
      /\ wPc'[w] = "done"
  BY <1>1 DEF LoaderInv, LoaderTypes, WorkTypes
<1>9. /\ Sum(Held) \in Int /\ Sum(Held') = Sum(Held) + (Held'[w] - Held[w])
      /\ Sum(Unreported) \in Int
      /\ Sum(Unreported') = Sum(Unreported) + (Unreported'[w] - Unreported[w])
  BY <1>8, WorkerBalances
<1>10. Held[w] = 0 /\ Held'[w] = 0 /\ Unreported[w] = 0 /\ Unreported'[w] = 0
  BY <1>1, <1>8 DEF Held, Unreported
<1>11. AccountTypes' /\ FiniteInv' /\ SamplesInv'
  BY <1>1, <1>2, <1>5, WorkerFrame, AccountFrame DEF AccountInv, AccountTypes
<1>12. AcceptedInv'
  <2>1. stats.total + Sum(Unreported) <= truth.accepted
    BY DEF AccountInv, AcceptedInv
  <2>2. Sum(Unreported') = Sum(Unreported)
    BY <1>9, <1>10
  <2> QED
    BY <1>1, <1>2, <1>6, <2>1, <2>2 DEF AcceptedInv
<1>13. OfferedInv'
  BY <1>6 DEF OfferedInv
<1>14. RequestsInv'
  <2>1. HasDuration => truth.requests = Sum(Logged("requests")) + Sum(Held) + Len(queue) + truth.lost
    BY DEF AccountInv, RequestsInv
  <2>2. Sum(Held') = Sum(Held)
    BY <1>9, <1>10
  <2>3. Sum(Logged("requests")') = Sum(Logged("requests")) /\ Sum(Logged("requests")) \in Int
    BY <1>1, LoggedInt DEF AccountInv, Logged
  <2> QED
    BY <1>1, <1>2, <1>4, <1>9, <2>1, <2>2, <2>3, TruthFields DEF RequestsInv, HasDuration
<1> QED
  BY <1>7, <1>11, <1>12, <1>13, <1>14 DEF AccountInv

LEMMA LeaveAccounts ==
    ASSUME LoaderInv, LoaderInv', AccountInv, NEW w \in Workers, RangeOver(w), UNCHANGED mode
    PROVE  AccountInv'
<1>1. /\ wPc[w] = "recv" /\ queue = <<>> /\ closed /\ wPc' = [wPc EXCEPT ![w] = "done"]
      /\ UNCHANGED <<mode, pc, current, left, pending, expired, queue, closed, cancelled, wReq, answer, wErr,
                     stats, runStats, runLog, exitErr, truth>>
  BY DEF RangeOver
<1>2. /\ \A x \in Workers : x # w => wPc'[x] = wPc[x]
      /\ wPc'[w] = "done"
  BY <1>1 DEF LoaderInv, LoaderTypes, WorkTypes
<1>3. Held' = Held /\ HeldRows' = HeldRows /\ Unreported' = Unreported
  BY <1>1, <1>2 DEF Held, HeldRows, Unreported
<1>4. pc \notin {"stop", "exited"} /\ runLog = <<>>
  BY <1>1, NothingPrinted
<1>5. ClosingInv'
  BY <1>1, <1>2, <1>4 DEF AccountInv, ClosingInv, Started, HasDuration
<1>6. AccountTypes' /\ FiniteInv' /\ SamplesInv'
  BY <1>1, AccountFrame DEF AccountInv
<1>7. AcceptedInv' /\ OfferedInv' /\ RequestsInv'
  BY <1>1, <1>3 DEF AccountInv, AcceptedInv, OfferedInv, RequestsInv, Clean, DryRun, HasDuration, QueuedRows, Logged
<1> QED
  BY <1>5, <1>6, <1>7 DEF AccountInv

LEMMA ServeAccounts ==
    ASSUME LoaderInv, LoaderInv', AccountInv, NEW w \in Workers, NEW rejected \in Rejections \cup {0},
           Serve(w, rejected), UNCHANGED mode
    PROVE  AccountInv'
<1> DEFINE rows == wReq[w][1].rows
           taken == rows - RejectedOf(rows, rejected)
<1>1. /\ wPc[w] = "send" /\ wPc' = [wPc EXCEPT ![w] = "served"] /\ answer' = [answer EXCEPT ![w] = rejected]
      /\ truth' = [truth EXCEPT !.accepted = @ + rows - RejectedOf(rows, rejected)]
      /\ UNCHANGED <<mode, pc, current, left, pending, expired, queue, closed, cancelled, wReq, wErr,
                     stats, runStats, runLog, exitErr>>
  BY DEF Serve
<1>2. rows \in Int /\ rejected \in Int
  BY <1>1, HeldRequest, LoaderAssumption
<1>3. RejectedOf(rows, rejected) \in Int /\ taken \in Int
  <2>1. RejectedOf(rows, rejected) \in Int
    BY <1>2, RejectedInt, Zenon
  <2> QED
    BY <1>2, <2>1
<1>4. /\ truth'.rows = truth.rows /\ truth'.accepted = truth.accepted + taken
      /\ truth'.requests = truth.requests /\ truth'.lost = truth.lost
  <2> HIDE DEF rows
  <2>1. truth' = [requests |-> truth.requests, rows |-> truth.rows,
                  accepted |-> truth.accepted + rows - RejectedOf(rows, rejected),
                  lost |-> truth.lost, late |-> truth.late, epoch |-> truth.epoch]
    BY <1>1, Fields DEF Truths
  <2> QED
    BY <1>2, <1>3, <2>1, TruthFields
<1>5. /\ \A x \in Workers : x # w => /\ wPc'[x] = wPc[x] /\ wReq'[x] = wReq[x] /\ answer'[x] = answer[x]
      /\ wPc'[w] = "served" /\ answer'[w] = rejected
  BY <1>1 DEF LoaderInv, LoaderTypes, WorkTypes
<1>6. /\ Unreported[w] = 0 /\ Unreported'[w] = taken
      /\ Held' = Held /\ HeldRows' = HeldRows
  BY <1>1, <1>5 DEF Held, HeldRows, Unreported
<1> HIDE DEF taken, rows
<1>7. /\ Sum(Unreported) \in Int
      /\ Sum(Unreported') = Sum(Unreported) + (Unreported'[w] - Unreported[w])
  BY <1>5, WorkerBalances
<1>8. ClosingInv'
  <2>1. \A x \in Workers : wPc'[x] = "done" => wPc[x] = "done"
    BY <1>5
  <2>2. pc \notin {"stop", "exited"} /\ runLog = <<>>
    BY <1>1, NothingPrinted
  <2> QED
    BY <1>1, <1>4, <2>1, <2>2 DEF AccountInv, ClosingInv, Started, HasDuration
<1>9. AccountTypes' /\ FiniteInv' /\ SamplesInv'
  BY <1>1, <1>4, AccountFrame DEF AccountInv
<1>10. AcceptedInv'
  <2>1. /\ stats.total + Sum(Unreported) <= truth.accepted
        /\ Clean => truth.accepted = stats.total + Sum(Unreported)
    BY DEF AccountInv, AcceptedInv
  <2>2. Sum(Unreported') = Sum(Unreported) + taken
    BY <1>3, <1>6, <1>7
  <2>3. Clean' <=> Clean
    BY <1>1 DEF Clean
  <2>4. /\ stats.total + Sum(Unreported') <= truth'.accepted
        /\ Clean => truth'.accepted = stats.total + Sum(Unreported')
    BY <1>3, <1>4, <1>7, <2>1, <2>2, TruthFields
  <2> QED
    BY <1>1, <2>3, <2>4 DEF AcceptedInv
<1>11. OfferedInv' /\ RequestsInv'
  BY <1>1, <1>4, <1>6 DEF AccountInv, OfferedInv, RequestsInv, Clean, DryRun, HasDuration, QueuedRows, Logged
<1> QED
  BY <1>8, <1>9, <1>10, <1>11 DEF AccountInv

\* What a worker writes when the answer is there: everything after a success,
\* and at most what the receiver accepted after an error, which it keeps.
LEMMA AnswerEffects ==
    ASSUME LoaderInv, AccountInv, NEW w \in Workers, Succeed(w) \/ PartialSuccess(w) \/ Fail(w)
    PROVE  \E written \in Int : \E failed \in BOOLEAN :
               /\ stats'.total = stats.total + written
               /\ Record(w, wReq[w][1].rows, failed)
               /\ ~failed => wErr' = wErr /\ written = wReq[w][1].rows /\ written = Unreported[w]
               /\ failed => /\ wErr' = [wErr EXCEPT ![w] = @ \cup {"send"}]
                            /\ 0 <= written /\ written <= Unreported[w]
<1> DEFINE rows == wReq[w][1].rows
           rejected == RejectedOf(rows, answer[w])
<1>1. wPc[w] \in {"send", "served"}
  BY DEF Succeed, PartialSuccess, Fail
<1>2. rows \in Nat /\ answer[w] \in Nat /\ rows \in Int /\ answer[w] \in Int
  BY <1>1, HeldRequest DEF LoaderInv, LoaderTypes, WorkTypes
<1>3. rejected \in {rows, answer[w]} /\ rejected <= rows /\ rejected <= answer[w] /\ rejected \in Int
  BY <1>2, MinOfTwo DEF RejectedOf
<1>4. Unreported[w] = IF wPc[w] = "served" THEN rows - rejected ELSE 0
  BY DEF Unreported
<1> HIDE DEF rows, rejected
<1>5. CASE Succeed(w)
  <2>1. wPc[w] = "served" /\ answer[w] = 0 /\ Record(w, rows, FALSE) /\ Written(rows) /\ wErr' = wErr
    BY <1>5 DEF Succeed, rows
  <2>2. stats'.total = stats.total + rows
    BY <1>2, <2>1, WrittenInv
  <2>3. rejected = 0 /\ rows = Unreported[w]
    BY <1>2, <1>3, <1>4, <2>1
  <2> QED
    BY <1>2, <2>1, <2>2, <2>3 DEF rows
<1>6. CASE PartialSuccess(w)
  <2>1. /\ wPc[w] = "served" /\ Record(w, rows, TRUE) /\ Written(rows - rejected)
        /\ wErr' = [wErr EXCEPT ![w] = @ \cup {"send"}]
    BY <1>6 DEF PartialSuccess, rows, rejected
  <2>2. /\ rows - rejected \in Int /\ 0 <= rows - rejected
        /\ rows - rejected <= Unreported[w]
    BY <1>2, <1>3, <1>4, <2>1
  <2>3. stats'.total = stats.total + (rows - rejected)
    BY <2>1, <2>2, WrittenInv
  <2>4. Record(w, wReq[w][1].rows, TRUE)
    BY <2>1, Zenon DEF rows
  <2> QED
    BY <2>1, <2>2, <2>3, <2>4, Zenon
<1>7. CASE Fail(w)
  <2>1. Record(w, rows, TRUE) /\ stats' = stats /\ wErr' = [wErr EXCEPT ![w] = @ \cup {"send"}]
    BY <1>7 DEF Fail, rows
  <2>2. 0 <= Unreported[w]
    BY <1>2, <1>3, <1>4
  <2>3. stats'.total = stats.total + 0
    BY <2>1, TruthFields
  <2>4. Record(w, wReq[w][1].rows, TRUE)
    BY <2>1, Zenon DEF rows
  <2>5. 0 \in Int /\ 0 <= 0
    OBVIOUS
  <2> QED
    BY <2>1, <2>2, <2>3, <2>4, <2>5, Zenon
<1> QED
  BY <1>5, <1>6, <1>7

LEMMA AnswerAccounts ==
    ASSUME LoaderInv, LoaderInv', AccountInv, NEW w \in Workers,
           Succeed(w) \/ PartialSuccess(w) \/ Fail(w), UNCHANGED mode
    PROVE  AccountInv'
<1> DEFINE rows == wReq[w][1].rows
<1>1. /\ wPc[w] \in {"send", "served"}
      /\ wPc' = [wPc EXCEPT ![w] = "recv"] /\ wReq' = [wReq EXCEPT ![w] = <<>>]
      /\ answer' = [answer EXCEPT ![w] = 0]
      /\ UNCHANGED <<mode, pc, current, left, pending, expired, queue, closed, cancelled,
                     runLog, exitErr, truth>>
  BY DEF Succeed, PartialSuccess, Fail, Answered
<1>2. PICK written \in Int, failed \in BOOLEAN :
          /\ stats'.total = stats.total + written
          /\ Record(w, rows, failed)
          /\ ~failed => wErr' = wErr /\ written = rows /\ written = Unreported[w]
          /\ failed => /\ wErr' = [wErr EXCEPT ![w] = @ \cup {"send"}]
                       /\ 0 <= written /\ written <= Unreported[w]
  BY AnswerEffects
<1>3. rows \in Int /\ rows >= 0
  BY <1>1, HeldRequest
<1>4. /\ \A x \in Workers : x # w => /\ wPc'[x] = wPc[x] /\ wReq'[x] = wReq[x] /\ answer'[x] = answer[x]
      /\ wPc'[w] = "recv"
  BY <1>1 DEF LoaderInv, LoaderTypes, WorkTypes
<1>5. /\ Held[w] = 1 /\ Held'[w] = 0 /\ HeldRows[w] = rows /\ HeldRows'[w] = 0 /\ Unreported'[w] = 0
      /\ Unreported[w] \in Int
  <2>1. Unreported[w] \in Int
    BY BalanceTypes
  <2> QED
    BY <1>1, <1>4, <2>1 DEF Held, HeldRows, Unreported
<1> HIDE DEF rows
<1>6. /\ Sum(Held) \in Int /\ Sum(Held') = Sum(Held) + (Held'[w] - Held[w])
      /\ Sum(HeldRows) \in Int /\ Sum(HeldRows') = Sum(HeldRows) + (HeldRows'[w] - HeldRows[w])
      /\ Sum(Unreported) \in Int
      /\ Sum(Unreported') = Sum(Unreported) + (Unreported'[w] - Unreported[w])
  BY <1>4, WorkerBalances
<1>7. /\ Sum(Held') = Sum(Held) - 1 /\ Sum(HeldRows') = Sum(HeldRows) - rows
      /\ Sum(Unreported') = Sum(Unreported) - Unreported[w]
  BY <1>3, <1>5, <1>6
<1>8. /\ runStats' \in [Workers -> RunStats]
      /\ ~HasDuration => runStats' = runStats
      /\ HasDuration =>
           /\ Sum(Logged("requests")) \in Int
           /\ Sum(Logged("requests")') = Sum(Logged("requests")) + 1
           /\ Sum(Logged("samples")) \in Int
           /\ Sum(Logged("samples")') = Sum(Logged("samples")) + rows
           /\ Sum(Logged("failedSamples")) \in Int
           /\ Sum(Logged("failedSamples")') = Sum(Logged("failedSamples")) + (IF failed THEN rows ELSE 0)
  BY <1>2, <1>3, RecordBalances DEF AccountInv
<1>9. /\ wErr' \in [Workers -> SUBSET {"send", "canceled"}]
      /\ \A x \in Workers : "canceled" \in wErr'[x] <=> "canceled" \in wErr[x]
      /\ failed => ~Clean'
      /\ ~failed => (Clean' <=> Clean)
  <2>1. wErr \in [Workers -> SUBSET {"send", "canceled"}]
    BY DEF AccountInv, AccountTypes
  <2>2. CASE failed
    <3>1. wErr' = [wErr EXCEPT ![w] = @ \cup {"send"}]
      BY <1>2, <2>2
    <3> QED
      BY <2>1, <2>2, <3>1 DEF Clean
  <2>3. CASE ~failed
    <3>1. wErr' = wErr
      BY <1>2, <2>3
    <3> QED
      BY <2>1, <2>3, <3>1 DEF Clean
  <2> QED
    BY <2>2, <2>3
<1>10. AccountTypes' /\ FiniteInv'
  BY <1>1, <1>8, <1>9, WorkerFrame
<1>11. ClosingInv'
  <2>1. \A x \in Workers : wPc'[x] = "done" => wPc[x] = "done"
    BY <1>4
  <2>2. pc \notin {"stop", "exited"} /\ runLog = <<>>
    BY <1>1, NothingPrinted
  <2> QED
    BY <1>1, <1>9, <2>1, <2>2 DEF AccountInv, ClosingInv, Started, HasDuration
<1>12. AcceptedInv'
  <2>1. /\ stats.total + Sum(Unreported) <= truth.accepted
        /\ Clean => truth.accepted = stats.total + Sum(Unreported)
    BY DEF AccountInv, AcceptedInv
  <2>2. stats'.total + Sum(Unreported') <= truth.accepted
    <3>1. written <= Unreported[w]
      BY <1>2, <1>5
    <3>2. /\ stats'.total + Sum(Unreported') = (stats.total + written) + (Sum(Unreported) - Unreported[w])
          /\ stats.total \in Int /\ truth.accepted \in Int
      BY <1>2, <1>7, TruthFields
    <3>3. (stats.total + written) + (Sum(Unreported) - Unreported[w]) <= stats.total + Sum(Unreported)
      BY <1>5, <1>6, <3>1, <3>2
    <3> QED
      BY <1>5, <1>6, <2>1, <3>2, <3>3
  <2>3. Clean' => truth.accepted = stats'.total + Sum(Unreported')
    <3>1. Clean' => Clean /\ written = Unreported[w]
      BY <1>2, <1>9
    <3> QED
      BY <1>2, <1>5, <1>6, <1>7, <2>1, <3>1, TruthFields
  <2> QED
    BY <1>1, <2>2, <2>3 DEF AcceptedInv
<1>13. OfferedInv'
  <2>1. ~DryRun /\ Clean => truth.rows = stats.total + Sum(HeldRows) + QueuedRows
    BY DEF AccountInv, OfferedInv
  <2>2. Clean' => Clean /\ written = rows
    BY <1>2, <1>9
  <2>3. QueuedRows' = QueuedRows /\ (DryRun' <=> DryRun)
    BY <1>1 DEF QueuedRows, DryRun
  <2>4. ~DryRun /\ Clean' => truth.rows = stats'.total + Sum(HeldRows') + QueuedRows
    <3>1. QueuedRows \in Int
      BY TruthFields, QueuedInt
    <3> QED
      BY <1>2, <1>3, <1>6, <1>7, <2>1, <2>2, <3>1, TruthFields
  <2> QED
    BY <1>1, <2>3, <2>4 DEF OfferedInv
<1>14. RequestsInv'
  <2>1. HasDuration => truth.requests = Sum(Logged("requests")) + Sum(Held) + Len(queue) + truth.lost
    BY DEF AccountInv, RequestsInv
  <2> QED
    BY <1>1, <1>6, <1>7, <1>8, <2>1, TruthFields DEF RequestsInv, HasDuration
<1>15. SamplesInv'
  <2>1. HasDuration /\ ~DryRun =>
            Sum(Logged("samples")) - Sum(Logged("failedSamples")) <= stats.total
    BY DEF AccountInv, SamplesInv
  <2>2. IF failed THEN written >= 0 ELSE written = rows
    BY <1>2
  <2>3. HasDuration /\ ~DryRun =>
            Sum(Logged("samples")') - Sum(Logged("failedSamples")') <= stats'.total
    BY <1>2, <1>3, <1>8, <2>1, <2>2, TruthFields, SMTT(30)
  <2>4. (HasDuration' <=> HasDuration) /\ (DryRun' <=> DryRun)
    BY <1>1 DEF HasDuration, DryRun
  <2> QED
    BY <2>3, <2>4 DEF SamplesInv
<1> QED
  BY <1>10, <1>11, <1>12, <1>13, <1>14, <1>15 DEF AccountInv
-----------------------------------------------------------------------------
(* The main goroutine.                                                       *)

LEMMA FormAccounts ==
    LoaderInv /\ LoaderInv' /\ AccountInv /\ FormRequest /\ UNCHANGED mode => AccountInv'
<1> SUFFICES ASSUME LoaderInv, LoaderInv', AccountInv, FormRequest, UNCHANGED mode PROVE AccountInv'
  OBVIOUS
<1>1. /\ pc = "stream" /\ pc' = "enqueue" /\ left' = left - pending'
      /\ UNCHANGED <<mode, current, waveResult, epoch, clock, expired, chanVars, workerVars, stats, endVars,
                     printed, truth>>
  BY DEF FormRequest
<1>2. AccountTypes' /\ AcceptedInv' /\ OfferedInv' /\ RequestsInv' /\ SamplesInv'
  BY <1>1, AccountFrame DEF AccountInv
<1>3. ClosingInv'
  BY <1>1 DEF AccountInv, ClosingInv, Started, HasDuration
<1>4. FiniteInv'
  <2>1. left \in Int /\ left' \in Int /\ pending = 0 /\ pending' \in Int /\ SeriesPerWave \in Int
    BY <1>1, Flags DEF LoaderInv, LoaderTypes, MainTypes, WaveInv
  <2>2. SeriesPerWave - left' - pending' = SeriesPerWave - left - pending
    <3>1. \A m, p \in Int : m = left - p => SeriesPerWave - m - p = SeriesPerWave - left - pending
      BY <2>1
    <3>2. left' = left - pending'
      BY DEF FormRequest
    <3> QED
      BY <2>1, <3>1, <3>2, Zenon
  <2> QED
    BY <1>1, <2>2 DEF AccountInv, FiniteInv, Live
<1> QED
  BY <1>2, <1>3, <1>4 DEF AccountInv

\* The last series of a wave over a date range is offered.
LEMMA WaveDoneFinite ==
    ASSUME LoaderInv, FiniteInv, pc \in {"stream", "enqueue"}, left = 0, WaveDone, UNCHANGED mode,
           truth'.rows = truth.rows + pending
    PROVE  FiniteInv'
<1> SUFFICES ASSUME ~Live PROVE FiniteInv'
  BY DEF FiniteInv, Live
<1>1. /\ mode.start \in Int /\ mode.interval \in Int /\ mode.end \in Int /\ SeriesPerWave \in Int
      /\ pending \in Int /\ truth.rows \in Int /\ current \in Int
  BY Flags, TruthFields, LoaderAssumption DEF LoaderInv, LoaderTypes, MainTypes
<1>2. PICK k \in Nat : /\ current = mode.start + k * mode.interval
                       /\ truth.rows = SeriesPerWave * k + (SeriesPerWave - left - pending)
                       /\ k = 0 \/ current <= mode.end
  BY DEF FiniteInv
<1>3. /\ current' = current + mode.interval /\ current' - mode.interval = current
      /\ pc' \in {"wait", "drain"}
      /\ pc' = "wait" => ~(current' > mode.end)
      /\ pc' = "drain" => current' > mode.end
  <2>1. current' = current + mode.interval
    BY DEF WaveDone
  <2> QED
    BY <1>1, <2>1 DEF WaveDone, Finish
<1>4. (k + 1) * mode.interval = k * mode.interval + mode.interval /\ k * mode.interval \in Int
  BY <1>1
<1>5. SeriesPerWave * (k + 1) = SeriesPerWave * k + SeriesPerWave /\ SeriesPerWave * k \in Int
  BY <1>1
<1>6. current' = mode.start + (k + 1) * mode.interval
  BY <1>1, <1>2, <1>3, <1>4
<1>7. truth'.rows = SeriesPerWave * (k + 1)
  <2>1. truth'.rows = (SeriesPerWave * k + (SeriesPerWave - 0 - pending)) + pending
    BY <1>2
  <2> QED
    BY <1>1, <1>5, <2>1
<1>8. /\ k + 1 \in Nat /\ k + 1 > 0 /\ (k + 1 = 1 \/ current <= mode.end)
      /\ pc' = "wait" => current' <= mode.end
  BY <1>1, <1>2, <1>3
<1> QED
  BY <1>3, <1>6, <1>7, <1>8 DEF FiniteInv, Live

LEMMA WaveEndAccounts ==
    ASSUME LoaderInv, LoaderInv', AccountInv,
           WaveComplete \/ AbortWave \/ AbandonRequest \/ DurationOver, UNCHANGED mode
    PROVE  AccountInv'
<1>1. /\ pc \in {"stream", "enqueue", "wait"}
      /\ UNCHANGED <<mode, left, pending, epoch, clock, expired, queue, cancelled, workerVars, stats, endVars,
                     printed, truth>>
      /\ \/ pc' = "wait" /\ closed' = closed
         \/ pc' = "drain" /\ closed' = TRUE
  <2>1. CASE WaveComplete
    BY <2>1 DEF WaveComplete, WaveDone, Finish
  <2>2. CASE AbortWave \/ AbandonRequest
    BY <2>2 DEF AbortWave, AbandonRequest, StopWave, Finish
  <2>3. CASE DurationOver
    BY <2>3 DEF DurationOver, Finish
  <2> QED
    BY <2>1, <2>2, <2>3
<1>2. AcceptedInv' /\ OfferedInv' /\ RequestsInv' /\ SamplesInv'
  BY <1>1, AccountFrame DEF AccountInv
<1>3. AccountTypes' /\ ClosingInv'
  <2>1. closed \in BOOLEAN /\ ~closed
    BY <1>1 DEF AccountInv, AccountTypes, ClosingInv
  <2>2. CASE pc' = "wait" /\ closed' = closed
    BY <1>1, <2>1, <2>2 DEF AccountInv, AccountTypes, ClosingInv, Started, HasDuration
  <2>3. CASE pc' = "drain" /\ closed' = TRUE
    BY <1>1, <2>1, <2>3 DEF AccountInv, AccountTypes, ClosingInv, Started, HasDuration
  <2> QED
    BY <1>1, <2>2, <2>3
<1>4. FiniteInv'
  <2>1. CASE WaveComplete
    <3>1. pc = "stream" /\ left = 0 /\ WaveDone /\ pending = 0 /\ truth'.rows = truth.rows
      BY <2>1 DEF WaveComplete, LoaderInv, WaveInv
    <3>2. truth'.rows = truth.rows + pending
      BY <3>1, TruthFields
    <3> QED
      BY <3>1, <3>2, WaveDoneFinite DEF AccountInv
  <2>2. CASE AbortWave \/ AbandonRequest \/ DurationOver
    <3>1. expired
      BY <2>2 DEF AbortWave, AbandonRequest, DurationOver
    <3>2. Live'
      BY <1>1, <3>1 DEF AccountInv, ClosingInv, HasDuration, Live
    <3> QED
      BY <3>2 DEF FiniteInv
  <2> QED
    BY <2>1, <2>2
<1> QED
  BY <1>2, <1>3, <1>4 DEF AccountInv

LEMMA EnqueueAccounts ==
    LoaderInv /\ LoaderInv' /\ AccountInv /\ Enqueue /\ UNCHANGED mode => AccountInv'
<1> SUFFICES ASSUME LoaderInv, LoaderInv', AccountInv, Enqueue, UNCHANGED mode PROVE AccountInv'
  OBVIOUS
<1> DEFINE r == [time |-> current, epoch |-> epoch, rows |-> pending]
<1>1. /\ pc = "enqueue" /\ Len(queue) < Capacity /\ queue' = Append(queue, r) /\ pending' = 0
      /\ UNCHANGED <<mode, left, epoch, clock, expired, cancelled, workerVars, stats, endVars, printed>>
  BY DEF Enqueue
<1>2. \/ pending < MaxSamples /\ WaveDone
      \/ ~(pending < MaxSamples) /\ pc' = "stream" /\ UNCHANGED <<waveResult, current, closed>>
  BY DEF Enqueue
<1>3. current \in Int /\ epoch \in Nat /\ pending \in Nat /\ left \in Int /\ SeriesPerWave \in Int
  BY Flags DEF LoaderInv, LoaderTypes, MainTypes
<1>4. r \in Requests /\ r.rows = pending
  BY <1>3 DEF Requests
<1> HIDE DEF r
<1>5. /\ truth'.rows = truth.rows + pending /\ truth'.accepted = truth.accepted
      /\ truth'.requests = truth.requests + 1 /\ truth'.lost = truth.lost
  <2> DEFINE more == IF expired THEN 1 ELSE 0
  <2>1. truth' = [requests |-> truth.requests + 1, rows |-> truth.rows + pending, accepted |-> truth.accepted,
                  lost |-> truth.lost, late |-> truth.late + more, epoch |-> truth.epoch]
    BY Fields DEF Enqueue, Truths
  <2> HIDE DEF more
  <2> QED
    BY <2>1
<1>6. QueuedRows \in Int /\ QueuedRows' = QueuedRows + pending /\ Len(queue') = Len(queue) + 1
  <2>1. queue \in Seq(Requests)
    BY TruthFields
  <2>2. Len(Append(queue, r)) = Len(queue) + 1
    BY <1>4, <2>1, AppendProperties
  <2> QED
    BY <1>1, <1>4, <2>1, <2>2, AppendRows DEF QueuedRows
<1>7. /\ ~closed /\ pc' \in {"stream", "wait", "drain"} /\ closed' \in BOOLEAN
      /\ closed' <=> pc' = "drain"
  <2>1. closed \in BOOLEAN /\ ~closed
    BY <1>1 DEF AccountInv, AccountTypes, ClosingInv
  <2>2. \/ closed' = closed /\ pc' \in {"stream", "wait"}
        \/ closed' = TRUE /\ pc' = "drain"
    BY <1>2 DEF WaveDone, Finish
  <2>3. CASE closed' = closed /\ pc' \in {"stream", "wait"}
    <3>1. pc' # "drain" /\ pc' \in {"stream", "wait", "drain"}
      BY <2>3
    <3> QED
      BY <2>1, <2>3, <3>1, Zenon
  <2>4. CASE closed' = TRUE /\ pc' = "drain"
    BY <2>1, <2>4
  <2> QED
    BY <2>2, <2>3, <2>4
<1>8. AccountTypes'
  BY <1>1, <1>7 DEF AccountInv, AccountTypes
<1>9. ClosingInv'
  <2>1. Started # {}
    <3>1. Len(queue) \in Nat /\ Started = {} => Capacity = 0
      BY FS_EmptySet DEF Capacity
    <3> QED
      BY <1>1, <3>1, TruthFields
  <2> QED
    BY <1>1, <1>5, <1>7, <2>1 DEF AccountInv, ClosingInv, Started, HasDuration
<1>10. AcceptedInv' /\ SamplesInv'
  BY <1>1, <1>5, AccountFrame DEF AccountInv
<1>11. OfferedInv'
  <2>1. ~DryRun /\ Clean => truth.rows = stats.total + Sum(HeldRows) + QueuedRows
    BY DEF AccountInv, OfferedInv
  <2>2. HeldRows' = HeldRows /\ (Clean' <=> Clean) /\ (DryRun' <=> DryRun)
    BY <1>1 DEF HeldRows, Clean, DryRun
  <2>3. Sum(HeldRows) \in Int
    BY BalanceTypes, BalanceInt
  <2>4. ~DryRun /\ Clean => truth'.rows = stats.total + Sum(HeldRows) + QueuedRows'
    BY <1>3, <1>5, <1>6, <2>1, <2>3, TruthFields
  <2> QED
    BY <1>1, <2>2, <2>4 DEF OfferedInv
<1>12. RequestsInv'
  <2>1. HasDuration => truth.requests = Sum(Logged("requests")) + Sum(Held) + Len(queue) + truth.lost
    BY DEF AccountInv, RequestsInv
  <2>2. Held' = Held /\ Logged("requests")' = Logged("requests") /\ (HasDuration' <=> HasDuration)
    BY <1>1 DEF Held, Logged, HasDuration
  <2>3. Sum(Held) \in Int /\ Sum(Logged("requests")) \in Int
    BY BalanceTypes, BalanceInt, LoggedInt DEF AccountInv
  <2>4. HasDuration => truth'.requests = Sum(Logged("requests")) + Sum(Held) + Len(queue') + truth'.lost
    BY <1>5, <1>6, <2>1, <2>3, TruthFields
  <2> QED
    BY <2>2, <2>4 DEF RequestsInv
<1>13. FiniteInv'
  <2>1. CASE pending < MaxSamples /\ WaveDone
    <3>1. left = 0
      BY <1>1, <2>1 DEF LoaderInv, WaveInv
    <3> QED
      BY <1>1, <1>5, <2>1, <3>1, WaveDoneFinite DEF AccountInv
  <2>2. CASE pc' = "stream" /\ UNCHANGED <<waveResult, current, closed>>
    <3> SUFFICES ASSUME ~Live PROVE FiniteInv'
      BY <1>1 DEF FiniteInv, Live
    <3>1. PICK k \in Nat : /\ current = mode.start + k * mode.interval
                           /\ truth.rows = SeriesPerWave * k + (SeriesPerWave - left - pending)
                           /\ k = 0 \/ current <= mode.end
      BY <1>1 DEF AccountInv, FiniteInv
    <3>2. SeriesPerWave * k \in Int
      BY <1>3
    <3>3. truth'.rows = SeriesPerWave * k + (SeriesPerWave - left' - pending')
      BY <1>1, <1>3, <1>5, <3>1, <3>2
    <3> QED
      BY <1>1, <2>2, <3>1, <3>3 DEF FiniteInv, Live
  <2> QED
    BY <1>2, <2>1, <2>2
<1> QED
  BY <1>8, <1>9, <1>10, <1>11, <1>12, <1>13 DEF AccountInv

LEMMA TickAccounts ==
    LoaderInv /\ LoaderInv' /\ AccountInv /\ Tick /\ UNCHANGED mode => AccountInv'
<1> SUFFICES ASSUME LoaderInv, LoaderInv', AccountInv, Tick, UNCHANGED mode PROVE AccountInv'
  OBVIOUS
<1>1. /\ pc = "wait" /\ pc' = "stream" /\ left' = SeriesPerWave
      /\ stats'.total = stats.total
      /\ UNCHANGED <<mode, current, pending, clock, expired, chanVars, workerVars, endVars, printed, truth>>
  BY Fields DEF Tick, Stats
<1>2. AccountTypes' /\ AcceptedInv' /\ OfferedInv' /\ RequestsInv' /\ SamplesInv'
  BY <1>1, AccountFrame DEF AccountInv
<1>3. ClosingInv'
  BY <1>1 DEF AccountInv, ClosingInv, Started, HasDuration
<1>4. FiniteInv'
  <2> SUFFICES ASSUME ~Live PROVE FiniteInv'
    BY <1>1 DEF FiniteInv, Live
  <2>1. PICK k \in Nat : /\ current = mode.start + k * mode.interval
                         /\ truth.rows = SeriesPerWave * k
                         /\ current <= mode.end
    BY <1>1 DEF AccountInv, FiniteInv
  <2>2. SeriesPerWave \in Int /\ pending = 0
    BY <1>1, Flags DEF LoaderInv, LoaderTypes, WaveInv
  <2>3. SeriesPerWave * k \in Int
    BY <2>2
  <2>4. truth'.rows = SeriesPerWave * k + (SeriesPerWave - left' - pending')
    BY <1>1, <2>1, <2>2, <2>3
  <2> QED
    BY <1>1, <2>1, <2>4 DEF FiniteInv, Live
<1> QED
  BY <1>2, <1>3, <1>4 DEF AccountInv

LEMMA ReportAccounts ==
    LoaderInv /\ LoaderInv' /\ AccountInv /\ (StopReporter \/ ReportTick) /\ UNCHANGED mode => AccountInv'
<1> SUFFICES ASSUME LoaderInv, LoaderInv', AccountInv, StopReporter \/ ReportTick, UNCHANGED mode
             PROVE  AccountInv'
  OBVIOUS
<1>1. /\ pc' = pc \/ (pc = "stop" /\ pc' = "exited")
      /\ Snapshot
      /\ UNCHANGED <<mode, current, left, pending, expired, chanVars, workerVars, endVars, truth>>
  BY DEF StopReporter, ReportTick
<1>2. stats'.total = stats.total
  BY <1>1, Fields DEF Snapshot, Stats
<1>3. AccountTypes' /\ AcceptedInv' /\ OfferedInv' /\ RequestsInv' /\ SamplesInv'
  BY <1>1, <1>2, AccountFrame DEF AccountInv
<1>4. ClosingInv'
  BY <1>1 DEF AccountInv, ClosingInv, Started, HasDuration, Clean, TotalOf
<1>5. FiniteInv'
  BY <1>1 DEF AccountInv, FiniteInv, Live
<1> QED
  BY <1>3, <1>4, <1>5 DEF AccountInv

LEMMA WorkersDoneAccounts ==
    LoaderInv /\ LoaderInv' /\ AccountInv /\ WorkersDone /\ UNCHANGED mode => AccountInv'
<1> SUFFICES ASSUME LoaderInv, LoaderInv', AccountInv, WorkersDone, UNCHANGED mode PROVE AccountInv'
  OBVIOUS
<1>1. /\ pc = "drain" /\ pc' = "stop"
      /\ runLog' = IF HasDuration THEN <<TotalOf(runStats)>> ELSE runLog
      /\ UNCHANGED <<mode, current, left, pending, waveResult, epoch, clock, expired, chanVars, workerVars,
                     stats, printed, truth>>
  BY DEF WorkersDone
<1>2. exitErr' \in BOOLEAN /\ (~exitErr' => Clean)
  BY Zenon DEF WorkersDone, Clean
<1>3. AccountTypes'
  BY <1>1, <1>2 DEF AccountInv, AccountTypes
<1>4. AcceptedInv' /\ OfferedInv' /\ RequestsInv' /\ SamplesInv'
  BY <1>1, AccountFrame DEF AccountInv
<1>5. runLog' # <<>> => HasDuration /\ runLog' = <<TotalOf(runStats)>>
  BY <1>1 DEF AccountInv, ClosingInv
<1>6. TotalOf(runStats)' = TotalOf(runStats) /\ (Clean' <=> Clean) /\ (HasDuration' <=> HasDuration)
  BY <1>1 DEF TotalOf, Clean, HasDuration
<1>7. ClosingInv'
  BY <1>1, <1>2, <1>5, <1>6 DEF AccountInv, ClosingInv, Started, HasDuration
<1>8. FiniteInv'
  BY <1>1 DEF AccountInv, FiniteInv, Live
<1> QED
  BY <1>3, <1>4, <1>7, <1>8 DEF AccountInv

LEMMA ClockAccounts ==
    ASSUME LoaderInv, LoaderInv', AccountInv,
           DrainTimeout \/ Deadline \/ EpochPasses \/ UNCHANGED vars, UNCHANGED mode
    PROVE  AccountInv'
<1>1. UNCHANGED <<mode, mainVars, queue, closed, workerVars, stats, printed, endVars, truth>>
  BY DEF DrainTimeout, Deadline, EpochPasses, vars
<1>2. /\ cancelled' = cancelled \/ (cancelled' = TRUE /\ HasDuration)
      /\ expired' = expired \/ (expired' = TRUE /\ HasDuration)
  BY DEF DrainTimeout, Deadline, EpochPasses, vars
<1>3. AccountTypes'
  <2>1. cancelled \in BOOLEAN /\ (cancelled' = cancelled \/ cancelled' = TRUE)
    BY <1>2 DEF AccountInv, AccountTypes
  <2>2. cancelled' \in BOOLEAN
    BY <2>1, Zenon
  <2> QED
    BY <1>1, <2>2 DEF AccountInv, AccountTypes
<1>4. AcceptedInv' /\ OfferedInv' /\ RequestsInv' /\ SamplesInv' /\ FiniteInv'
  BY <1>1, AccountFrame DEF AccountInv
<1>5. ClosingInv'
  <2>1. /\ cancelled' \/ expired' => HasDuration'
        /\ cancelled => cancelled'
    <3>1. (HasDuration' <=> HasDuration) /\ (cancelled \/ expired => HasDuration)
      BY <1>1 DEF AccountInv, ClosingInv, HasDuration
    <3>2. cancelled' => cancelled \/ HasDuration
      BY <1>2, Zenon
    <3>3. expired' => expired \/ HasDuration
      BY <1>2, Zenon
    <3>4. cancelled => cancelled'
      BY <1>2, Zenon
    <3> QED
      BY <3>1, <3>2, <3>3, <3>4, Zenon
  <2>2. TotalOf(runStats)' = TotalOf(runStats) /\ (Clean' <=> Clean)
    BY <1>1 DEF TotalOf, Clean
  <2> QED
    BY <1>1, <2>1, <2>2 DEF AccountInv, ClosingInv, Started, HasDuration
<1> QED
  BY <1>3, <1>4, <1>5 DEF AccountInv

LEMMA AccountStep ==
    LoaderInv /\ LoaderInv' /\ AccountInv /\ [Next]_<<mode, vars>> => AccountInv'
<1> SUFFICES ASSUME LoaderInv, LoaderInv', AccountInv, [Next]_<<mode, vars>> PROVE AccountInv'
  OBVIOUS
<1>1. CASE UNCHANGED <<mode, vars>>
  BY <1>1, ClockAccounts
<1>2. CASE Next
  <2>1. UNCHANGED mode
    BY <1>2 DEF Next
  <2>2. CASE Main
    BY <2>1, <2>2, FormAccounts, WaveEndAccounts, EnqueueAccounts, WorkersDoneAccounts, ReportAccounts DEF Main
  <2>3. ASSUME NEW w \in Workers, Worker(w) \/ Receiver(w) PROVE AccountInv'
    BY <2>1, <2>3, TakeAccounts, TakeCancelledAccounts, LeaveAccounts, ServeAccounts, AnswerAccounts
       DEF Worker, Receiver
  <2>4. CASE Tick \/ ReportTick \/ DrainTimeout \/ Deadline \/ EpochPasses
    BY <2>1, <2>4, TickAccounts, ReportAccounts, ClockAccounts
  <2> QED
    BY <1>2, <2>2, <2>3, <2>4 DEF Next
<1> QED
  BY <1>1, <1>2

\* The balances hold in every run.
THEOREM AccountsBalance == Spec => [](LoaderInv /\ AccountInv)
<1>1. LoaderInv /\ LoaderInv' /\ AccountInv /\ [Next]_<<mode, vars>> => AccountInv'
  BY AccountStep
<1> QED
  BY <1>1, AccountInit, LoaderInvariance, PTL DEF Spec
-----------------------------------------------------------------------------
(* What the balances mean at the end.                                        *)

LEMMA UnreportedNat == LoaderInv => \A w \in Workers : Unreported[w] \in Nat
<1> SUFFICES ASSUME LoaderInv, NEW w \in Workers PROVE Unreported[w] \in Nat
  OBVIOUS
<1>1. CASE wPc[w] # "served"
  BY <1>1 DEF Unreported
<1>2. CASE wPc[w] = "served"
  <2> DEFINE rows == wReq[w][1].rows
             rejected == RejectedOf(rows, answer[w])
  <2>1. rows \in Int /\ answer[w] \in Int
    BY <1>2, HeldRequest DEF LoaderInv, LoaderTypes, WorkTypes
  <2> HIDE DEF rows
  <2>2. rejected \in Int /\ rejected <= rows
    BY <2>1, MinOfTwo DEF RejectedOf
  <2>3. Unreported[w] = rows - rejected
    BY <1>2 DEF Unreported, rows
  <2> QED
    BY <2>1, <2>2, <2>3
<1> QED
  BY <1>1, <1>2

\* Once every worker is done, none holds a request.
LEMMA DoneBalances ==
    LoaderInv /\ pc \in {"stop", "exited"} =>
        Sum(Held) = 0 /\ Sum(HeldRows) = 0 /\ Sum(Unreported) = 0
<1> SUFFICES ASSUME LoaderInv, pc \in {"stop", "exited"}
             PROVE  Sum(Held) = 0 /\ Sum(HeldRows) = 0 /\ Sum(Unreported) = 0
  OBVIOUS
<1>1. \A w \in Workers : wPc[w] = "done"
  BY DEF LoaderInv, ReportInv
<1>2. \A w \in Workers : Held[w] = 0 /\ HeldRows[w] = 0 /\ Unreported[w] = 0
  BY <1>1 DEF Held, HeldRows, Unreported
<1> QED
  BY <1>2, BalanceZero

\* A request is left in the channel only by the drain timeout.
LEMMA QueueAtEnd ==
    LoaderInv /\ AccountInv /\ pc \in {"stop", "exited"} /\ queue # <<>> =>
        \E w \in Workers : "canceled" \in wErr[w]
<1> SUFFICES ASSUME LoaderInv, AccountInv, pc \in {"stop", "exited"}, queue # <<>>
             PROVE  \E w \in Workers : "canceled" \in wErr[w]
  OBVIOUS
<1>1. Started # {} /\ Started \subseteq Workers
  <2>1. mode \in Modes /\ Started # {}
    BY DEF LoaderInv, LoaderTypes, MainTypes, AccountInv, ClosingInv
  <2>2. mode.workers \in SUBSET Workers
    BY <2>1, LoaderAssumption
  <2> QED
    BY <2>1, <2>2 DEF Started
<1>2. PICK w \in Started : TRUE
  BY <1>1
<1>3. w \in Workers /\ wPc[w] = "done"
  BY <1>1, <1>2 DEF LoaderInv, ReportInv
<1> QED
  BY <1>2, <1>3 DEF AccountInv, ClosingInv

LEMMA Quotient ==
    ASSUME NEW a \in Int, NEW d \in Nat \ {0}, NEW q \in Nat, q * d <= a, a < (q + 1) * d
    PROVE  a \div d = q
OBVIOUS

\* The waves of a run over a date range, from the loop and from the flags.
LEMMA WavesCounted ==
    ASSUME NEW start \in Int, NEW end \in Int, NEW interval \in Nat \ {0}, NEW k \in Nat \ {0},
           start + k * interval > end,
           k = 1 \/ (start + k * interval) - interval <= end
    PROVE  k = IF start > end THEN 1 ELSE (end - start) \div interval + 1
<1> DEFINE q == k - 1
           a == end - start
<1>1. q \in Nat /\ a \in Int /\ q * interval \in Int /\ q * interval >= 0
  OBVIOUS
<1>2. k * interval = q * interval + interval /\ (q + 1) * interval = q * interval + interval
  OBVIOUS
<1>3. /\ a < (q + 1) * interval
      /\ k = 1 \/ q * interval <= a
  BY <1>1, <1>2
<1>4. CASE start > end
  BY <1>1, <1>3, <1>4
<1>5. CASE start <= end
  <2>1. q * interval <= a
    <3>1. CASE k = 1
      BY <1>5, <3>1
    <3> QED
      BY <1>3, <3>1
  <2>2. a \div interval = q
    BY <1>1, <1>3, <2>1, Quotient
  <2> QED
    BY <1>5, <2>2
<1> QED
  BY <1>4, <1>5

LEMMA FiniteRows ==
    LoaderInv /\ AccountInv /\ pc = "exited" /\ ~Live => truth.rows = SeriesPerWave * FiniteWaves
<1> SUFFICES ASSUME LoaderInv, AccountInv, pc = "exited", ~Live
             PROVE  truth.rows = SeriesPerWave * FiniteWaves
  OBVIOUS
<1>1. PICK k \in Nat : /\ current = mode.start + k * mode.interval
                       /\ truth.rows = SeriesPerWave * k /\ k > 0 /\ current > mode.end
                       /\ k = 1 \/ current - mode.interval <= mode.end
  BY DEF AccountInv, FiniteInv
<1>2. mode.start \in Int /\ mode.end \in Int /\ mode.interval \in Nat \ {0}
  BY LoaderAssumption DEF LoaderInv, LoaderTypes, MainTypes
<1>3. k = IF mode.start > mode.end THEN 1
          ELSE (mode.end - mode.start) \div mode.interval + 1
  <2>1. k \in Nat \ {0} /\ mode.start + k * mode.interval > mode.end
        /\ (k = 1 \/ (mode.start + k * mode.interval) - mode.interval <= mode.end)
    BY <1>1
  <2> QED
    BY <1>2, <2>1, WavesCounted, Zenon
<1> QED
  BY <1>1, <1>3 DEF FiniteWaves

\* What rows_written (statsReporter, writeStats.record) claims has been
\* accepted: what is accepted and not claimed yet is not negative.
LEMMA ClaimIsAccepted == LoaderInv /\ AccountInv => NeverOverReported
<1> SUFFICES ASSUME LoaderInv, AccountInv PROVE stats.total <= truth.accepted
  BY DEF NeverOverReported
<1>1. Sum(Unreported) \in Nat
  BY UnreportedNat, WorkersFinite, SumTypes DEF Sum
<1>2. stats.total + Sum(Unreported) <= truth.accepted /\ stats.total \in Int /\ truth.accepted \in Int
  BY TruthFields DEF AccountInv, AcceptedInv
<1> QED
  BY <1>1, <1>2

LEMMA CleanIsDelivered == LoaderInv /\ AccountInv => NothingLostQuietly
<1> SUFFICES ASSUME LoaderInv, AccountInv, pc = "exited", ~exitErr, ~DryRun
             PROVE  /\ stats.total = truth.rows /\ truth.accepted = truth.rows
                    /\ ~Live => truth.rows = SeriesPerWave * FiniteWaves
  BY DEF NothingLostQuietly
<1>1. Clean
  BY DEF AccountInv, ClosingInv
<1>2. Sum(HeldRows) = 0 /\ Sum(Unreported) = 0
  BY DoneBalances
<1>3. QueuedRows = 0
  BY <1>1, QueueAtEnd, QueueEmpty DEF Clean
<1>4. truth.accepted = stats.total + Sum(Unreported) /\ truth.rows = stats.total + Sum(HeldRows) + QueuedRows
  BY <1>1 DEF AccountInv, AcceptedInv, OfferedInv
<1>5. stats.total \in Int
  BY TruthFields
<1>6. stats.total = truth.rows /\ truth.accepted = truth.rows
  BY <1>2, <1>3, <1>4, <1>5
<1> QED
  BY <1>6, FiniteRows

LEMMA TotalIsSum ==
    ASSUME NEW f \in {"requests", "samples", "failed", "failedSamples"}
    PROVE  TotalOf(runStats)[f] = Sum(Logged(f))
BY DEF TotalOf, SumFunction, Sum, Logged

LEMMA LogIsBalanced == LoaderInv /\ AccountInv => RunLogAccounts
<1> SUFFICES ASSUME LoaderInv, AccountInv, runLog # <<>> PROVE RunLogAccounts
  BY DEF RunLogAccounts
<1> DEFINE log == runLog[1]
           unsent == truth.lost + Len(queue)
<1>1. HasDuration /\ pc \in {"stop", "exited"} /\ runLog = <<TotalOf(runStats)>>
  BY DEF AccountInv, ClosingInv
<1>2. runLog[1] = TotalOf(runStats)
  BY <1>1
<1>3. /\ log.requests = Sum(Logged("requests")) /\ log.samples = Sum(Logged("samples"))
      /\ log.failedSamples = Sum(Logged("failedSamples"))
  BY <1>2, TotalIsSum
<1>4. /\ Sum(Logged("requests")) \in Int
      /\ truth.requests \in Int /\ truth.lost \in Nat /\ Len(queue) \in Nat
  <2>1. \A w \in Workers : Logged("requests")[w] \in Int
    BY DEF AccountInv, AccountTypes, RunStats, Logged
  <2> QED
    BY <2>1, BalanceInt, TruthFields
<1>5. log.requests + unsent = truth.requests
  <2>1. truth.requests = Sum(Logged("requests")) + Sum(Held) + Len(queue) + truth.lost /\ Sum(Held) = 0
    BY <1>1, DoneBalances DEF AccountInv, RequestsInv
  <2> HIDE DEF log
  <2> QED
    BY <1>3, <1>4, <2>1
<1>6. unsent > 0 => cancelled /\ exitErr
  <2> SUFFICES ASSUME unsent > 0 PROVE cancelled /\ exitErr
    OBVIOUS
  <2>1. truth.lost > 0 \/ queue # <<>>
    BY <1>4
  <2>2. PICK w \in Workers : "canceled" \in wErr[w]
    BY <1>1, <2>1, QueueAtEnd DEF AccountInv, ClosingInv
  <2>3. cancelled
    BY <2>2 DEF AccountInv, ClosingInv
  <2>4. ~Clean
    BY <2>2 DEF Clean
  <2>5. exitErr
    BY <1>1, <2>4, Zenon DEF AccountInv, ClosingInv
  <2> QED
    BY <2>3, <2>5
<1>7. ~DryRun => log.samples - log.failedSamples <= stats.total
  BY <1>1, <1>3 DEF AccountInv, SamplesInv
<1> QED
  BY <1>1, <1>5, <1>6, <1>7 DEF RunLogAccounts

\* rows_written never claims rows the receiver did not accept, for any mix of
\* answers, partial successes, lost answers and cancellations (runWorkers,
\* writeStats.record).
THEOREM ClaimsAreAccepted == Spec => []NeverOverReported
BY AccountsBalance, ClaimIsAccepted, PTL

\* A run that returns no error (waitForWorkers, run) has delivered every row
\* it offered, reports exactly that, and a run over a date range has offered
\* every series once per timestamp of the range.
THEOREM CleanRunsDeliver == Spec => []NothingLostQuietly
BY AccountsBalance, CleanIsDelivered, PTL

\* logRunStats runs after every worker has returned; requests not in its sums
\* are those the drain timeout left unsent, and then run returns an error.
THEOREM RunLogsBalance == Spec => []RunLogAccounts
BY AccountsBalance, LogIsBalanced, PTL
=============================================================================
