--------------------------- MODULE MetricsLoader ---------------------------
(***************************************************************************)
(* The loader command (pkg/cmd/loader): at every tick of its ticker the    *)
(* series of a captured traffic get their next samples, are multiplied by  *)
(* the metric and label scales, and are sent in chunks, one goroutine for  *)
(* each.  The tick ends when the result of every chunk has been read from  *)
(* a channel, and the command at the first tick with a failed chunk.       *)
(*                                                                         *)
(* A series is its metric name, which is the value of its first label, and *)
(* its other labels, with their values, which never change.  Cloning puts  *)
(* a number behind a name and a character behind the name of a label.      *)
(***************************************************************************)
EXTENDS Integers, Sequences, SequencesExt, FiniteSets

CONSTANTS Bases,     \* names as far as no clone's number follows; labels, with their values
          Captured,  \* the captured series: set of [name, labels]
          Flags,     \* set of [perRequest, sample, metric, label] to be tried
          MaxTicks   \* bound on the ticks handled

\* A captured name may itself end in the numbers of clones: "x_1" is "x" and a 1.
NumberedNames == [base : Bases, added : Seq(Nat)]

\* slices.Chunk panics on a size below 1, the log line of process on a zero
\* sample scale.
ASSUME LoaderAssumption ==
    /\ Captured \subseteq [name : NumberedNames, labels : SUBSET NumberedNames] /\ IsFiniteSet(Captured)
    /\ MaxTicks \in Nat
    /\ Flags \subseteq [{"perRequest", "sample", "metric", "label"} -> Nat \ {0}]

VARIABLES
    flags,
    factories, \* the series in the order of the Counter's iteration
    clock,     \* mock intervals since the start date
    ticked,    \* the ticker's channel holds a tick
    loopPc,    \* "waiting", "collecting" or "failed"
    chunks,    \* the chunks of this tick: sequences of [series, time]
    sending,   \* the goroutines: [time, chunk, samples, state]
    results,   \* errorsByChunk: sequence of [chunk, ok]
    collected, \* results read
    sendErr,   \* the chunks whose errors are joined
    failures,  \* history: [time, chunk] of the failed requests
    received   \* history: samples in the order the receiver took them

tickVars == <<flags, factories, clock, chunks>>
loaderVars == <<tickVars, ticked, loopPc, sending, results, collected, sendErr, failures, received>>

TimeseriesPerRequest == flags.perRequest
SampleScale == flags.sample
MetricScale == flags.metric
LabelScale == flags.label

Factories == SetToSeqs(Captured)

LoaderInit == /\ flags \in Flags
              /\ factories \in Factories
              /\ clock = 0
              /\ ticked = FALSE
              /\ loopPc = "waiting"
              /\ chunks = <<>> /\ sending = {} /\ results = <<>>
              /\ collected = 0
              /\ sendErr = {} /\ failures = {}
              /\ received = <<>>

Fire == /\ loopPc # "failed"
        /\ ticked' = TRUE
        /\ UNCHANGED <<tickVars, loopPc, sending, results, collected, sendErr, failures, received>>

OneEach(time) == [i \in DOMAIN factories |-> [series |-> factories[i], time |-> time]]
Generated == FlattenSeq([i \in 1..SampleScale |-> OneEach(clock + i)])

\* A clone of every sample for each i in 1..scale-1, after the originals.
Scaled(samples, scale, Clone(_, _)) ==
    FlattenSeq([i \in 1..scale |->
                   IF i = 1 THEN samples
                            ELSE [s \in DOMAIN samples |-> [samples[s] EXCEPT !.series = Clone(@, i - 1)]]])

Numbered(name, i) == [base |-> name.base, added |-> Append(name.added, i)]
CloneMetric(series, i) == [name |-> Numbered(series.name, i), labels |-> series.labels]
ScaleMetrics(samples) == Scaled(samples, MetricScale, CloneMetric)
CloneLabels(series, i) == [name |-> series.name, labels |-> {Numbered(label, i) : label \in series.labels}]
ScaleLabels(samples) == Scaled(samples, LabelScale, CloneLabels)

Chunk(samples) ==
    LET n == (Len(samples) + TimeseriesPerRequest - 1) \div TimeseriesPerRequest
        End(c) == c * TimeseriesPerRequest
    IN  [c \in 1..n |-> SubSeq(samples, End(c - 1) + 1, IF c = n THEN Len(samples) ELSE End(c))]

Start == /\ loopPc = "waiting" /\ ticked
         /\ clock < MaxTicks * SampleScale
         /\ ticked' = FALSE
         /\ clock' = clock + SampleScale
         /\ chunks' = Chunk(ScaleLabels(ScaleMetrics(Generated)))
         /\ sending' = sending \cup {[time |-> clock', chunk |-> c, samples |-> chunks'[c], state |-> "sending"] :
                                       c \in DOMAIN chunks'}
         /\ collected' = 0
         /\ loopPc' = "collecting"
         /\ results' = <<>>
         /\ UNCHANGED <<flags, factories, sendErr, failures, received>>

Become(g, state) == sending' = (sending \ {g}) \cup {[g EXCEPT !.state = state]}

Taken(g) == /\ g.state = "sending"
            /\ Become(g, "taken")
            /\ received' = received \o g.samples
            /\ UNCHANGED <<tickVars, ticked, loopPc, results, collected, sendErr, failures>>

\* Any of the samples, in their order.
PartsOf(samples) ==
    UNION {{[k \in 1..n |-> samples[at[k]]] :
               at \in {f \in [1..n -> DOMAIN samples] : \A j, k \in 1..n : j < k => f[j] < f[k]}} :
           n \in 0..Len(samples)}

\* Of a failed request the receiver may have taken any part: all of it when the
\* answer is lost, some when it is a partial success (OTLP).
Rejected(g) == /\ g.state = "sending"
               /\ Become(g, "rejected")
               /\ \E part \in PartsOf(g.samples) : received' = received \o part
               /\ failures' = failures \cup {[time |-> g.time, chunk |-> g.chunk]}
               /\ UNCHANGED <<tickVars, ticked, loopPc, results, collected, sendErr>>

\* Each tick has a channel of its own, with room for every chunk.
Report(g) == /\ g.state \in {"taken", "rejected"}
             /\ sending' = sending \ {g}
             /\ results' = IF g.time = clock THEN Append(results, [chunk |-> g.chunk, ok |-> g.state = "taken"])
                                              ELSE results
             /\ UNCHANGED <<tickVars, ticked, loopPc, collected, sendErr, failures, received>>

\* Mutant: only the last result is kept.
CollectLast == /\ loopPc = "collecting" /\ results # <<>>
               /\ results' = Tail(results)
               /\ collected' = collected + 1
               /\ sendErr' = IF Head(results).ok THEN {} ELSE {Head(results).chunk}
               /\ UNCHANGED <<tickVars, ticked, loopPc, sending, failures, received>>

Collect == /\ loopPc = "collecting" /\ results # <<>>
           /\ results' = Tail(results)
           /\ collected' = collected + 1
           /\ sendErr' = sendErr \cup (IF Head(results).ok THEN {} ELSE {Head(results).chunk})
           /\ UNCHANGED <<tickVars, ticked, loopPc, sending, failures, received>>

\* Mutant: the error of the last chunk to be collected is not waited for.
ProcessedOneShort == /\ loopPc = "collecting" /\ collected >= Len(chunks) - 1
                     /\ loopPc' = IF sendErr = {} THEN "waiting" ELSE "failed"
                     /\ UNCHANGED <<tickVars, ticked, sending, results, collected, sendErr, failures, received>>

Processed == /\ loopPc = "collecting" /\ collected = Len(chunks)
             /\ loopPc' = IF sendErr = {} THEN "waiting" ELSE "failed"
             /\ UNCHANGED <<tickVars, ticked, sending, results, collected, sendErr, failures, received>>

Goroutines == \E g \in sending : Taken(g) \/ Rejected(g) \/ Report(g)

LoaderNext == Fire \/ Start \/ Goroutines \/ Collect \/ Processed

LoaderSpec == LoaderInit /\ [][LoaderNext]_loaderVars

-----------------------------------------------------------------------------
\* The command ends with an error that joins those of all failed chunks, and
\* goes on only while no request has failed.
EveryFailureReported ==
    /\ loopPc = "waiting" => failures = {}
    /\ loopPc = "failed" => /\ failures # {}
                            /\ failures = {[time |-> clock, chunk |-> c] : c \in sendErr}

\* The series of clone m of the metric and clone l of the labels; 0 is no clone.
CloneOf(series, m, l) ==
    LET named == IF m = 0 THEN series ELSE CloneMetric(series, m)
    IN  IF l = 0 THEN named ELSE CloneLabels(named, l)
Clones(series) == {CloneOf(series, m, l) : m \in 0..MetricScale - 1, l \in 0..LabelScale - 1}

\* No series is a clone of two captured ones, and the clone of no label set is the
\* same label set: it has a label to put the character behind.
CapturedApart ==
    /\ \A s, t \in Captured : s # t => Clones(s) \cap Clones(t) = {}
    /\ LabelScale > 1 => \A s \in Captured : s.labels # {}

\* When a tick has ended without an error the receiver has all clones of all captured
\* series at all times so far.  It never gets a sample twice, unless two clones have
\* one name and one label set.  The chunks of one tick are unordered, but no sample
\* arrives after one of a later tick.
EachSampleOnce ==
    /\ CapturedApart => IsInjective(received)
    /\ loopPc = "waiting" =>
          Range(received) =
             {[series |-> CloneOf(s, m, l), time |-> t] :
                     s \in Captured, m \in 0..MetricScale - 1, l \in 0..LabelScale - 1, t \in 1..clock}
    /\ \A i, j \in DOMAIN received :
          i < j => (received[i].time - 1) \div SampleScale <= (received[j].time - 1) \div SampleScale
=============================================================================
