--------------------------- MODULE SampleBatches ---------------------------
(***************************************************************************)
(* The sending half of sample_generator (pkg/cmd/sample_generator): the    *)
(* samples of all series from the start to the end date are cut into       *)
(* batches of max-samples-per-request, a series over several batches if    *)
(* need be, and the batches are sent one after the other until one fails.  *)
(*                                                                         *)
(* A series is its number, a sample its timestamp.                         *)
(***************************************************************************)
EXTENDS Integers, Sequences, SequencesExt

CONSTANTS MaxSeries,  \* bound on the series
          MaxSpan,    \* bound on the range of dates
          MaxInterval

ASSUME BatchesAssumption == {MaxSeries, MaxSpan, MaxInterval} \subseteq Nat

VARIABLES
    maxSamples, timeSeries,
    at,          \* the series being cut
    remaining,   \* its samples that are in no batch
    batch,       \* sequence of [series, samples]
    sampleCount, \* the samples of batch
    batches,
    batchPc,     \* "split", "send" or "ended"
    nextBatch,   \* the batch to be sent
    exit,        \* 0, or the number of the batch the error is about
    delivered,   \* history: what the receiver took of the batches before the
                 \* failed one, as a sequence of [series, sample]
    partly       \* history: what it took of the failed batch, as a set

input == <<maxSamples, timeSeries>>
batchVars == <<input, at, remaining, batch, sampleCount, batches, batchPc, nextBatch, exit, delivered, partly>>

\* The end date is exclusive.
Timestamps(end, interval) == [i \in 1..(end + interval - 1) \div interval |-> (i - 1) * interval]
SamplesOf(series) == timeSeries[series]

BatchesStart == /\ at = 0
                /\ remaining = <<>> /\ batch = <<>> /\ batches = <<>>
                /\ sampleCount = 0
                /\ batchPc = "split"
                /\ nextBatch = 1
                /\ exit = 0
                /\ delivered = <<>> /\ partly = {}

\* An interval of zero never ends, and run refuses a maxSamples below one.
BatchesInit == /\ maxSamples \in 1..(MaxSpan + 2)
               /\ \E n \in 0..MaxSeries, end \in 0..MaxSpan, interval \in 1..MaxInterval :
                     timeSeries = [s \in 1..n |-> Timestamps(end, interval)]
               /\ BatchesStart

Smaller(a, b) == IF a < b THEN a ELSE b

NextSeries == /\ batchPc = "split" /\ remaining = <<>> /\ at < Len(timeSeries)
              /\ at' = at + 1
              /\ remaining' = SamplesOf(at + 1)
              /\ UNCHANGED <<input, batch, sampleCount, batches, batchPc, nextBatch, exit, delivered, partly>>

Take == /\ batchPc = "split" /\ remaining # <<>>
        /\ LET take == Smaller(maxSamples - sampleCount, Len(remaining))
               grown == Append(batch, [series |-> at, samples |-> SubSeq(remaining, 1, take)])
               full == sampleCount + take = maxSamples
           IN  /\ remaining' = SubSeq(remaining, take + 1, Len(remaining))
               /\ sampleCount' = IF full THEN 0 ELSE sampleCount + take
               /\ batch' = IF full THEN <<>> ELSE grown
               /\ batches' = IF full THEN Append(batches, grown) ELSE batches
        /\ UNCHANGED <<input, at, batchPc, nextBatch, exit, delivered, partly>>

Split == /\ batchPc = "split" /\ remaining = <<>> /\ at = Len(timeSeries)
         /\ batches' = IF batch # <<>> THEN Append(batches, batch) ELSE batches
         /\ batchPc' = "send"
         /\ UNCHANGED <<input, at, remaining, batch, sampleCount, nextBatch, exit, delivered, partly>>

Points(parts) ==
    FlattenSeq([p \in DOMAIN parts |->
                   [s \in DOMAIN parts[p].samples |-> [series |-> parts[p].series, sample |-> parts[p].samples[s]]]])

Send == /\ batchPc = "send" /\ nextBatch <= Len(batches)
        /\ nextBatch' = nextBatch + 1
        /\ delivered' = delivered \o Points(batches[nextBatch])
        /\ UNCHANGED <<input, at, remaining, batch, sampleCount, batches, batchPc, exit, partly>>

\* Mutant: the loop goes on after a failed batch.
SendFailsOn == /\ batchPc = "send" /\ nextBatch <= Len(batches)
               /\ exit' = nextBatch
               /\ nextBatch' = nextBatch + 1
               /\ partly' \in SUBSET Range(Points(batches[nextBatch]))
               /\ UNCHANGED <<input, at, remaining, batch, sampleCount, batches, batchPc, delivered>>

\* Of a failed request any part may have been taken: none of it; all of it, when the
\* answer is lost; some, when it is a partial success (OTLP).
SendFails == /\ batchPc = "send" /\ nextBatch <= Len(batches)
             /\ exit' = nextBatch
             /\ batchPc' = "ended"
             /\ partly' \in SUBSET Range(Points(batches[nextBatch]))
             /\ UNCHANGED <<input, at, remaining, batch, sampleCount, batches, nextBatch, delivered>>

SendEnd == /\ batchPc = "send" /\ nextBatch > Len(batches)
           /\ batchPc' = "ended"
           /\ UNCHANGED <<input, at, remaining, batch, sampleCount, batches, nextBatch, exit, delivered, partly>>

BatchesNext == NextSeries \/ Take \/ Split \/ Send \/ SendFails \/ SendEnd

BatchesSpec == BatchesInit /\ [][BatchesNext]_batchVars

-----------------------------------------------------------------------------
All == Points([s \in DOMAIN timeSeries |-> [series |-> s, samples |-> timeSeries[s]]])

\* All samples are sent, in their order and each once.  If the command succeeds the
\* receiver has them all; with a failure in batch n it has the n - 1 full batches
\* before, any part of batch n and nothing beyond.
ReceivedPrefix ==
    /\ IsPrefix(delivered, All)
    /\ batchPc = "ended" /\ exit = 0 => delivered = All
    /\ exit = 0 => partly = {}
    /\ exit # 0 =>
          /\ Len(delivered) = (exit - 1) * maxSamples
          /\ partly \subseteq {All[i] : i \in (exit - 1) * maxSamples + 1..Smaller(exit * maxSamples, Len(All))}
=============================================================================
