-------------------------- MODULE DatasetContract --------------------------
(***************************************************************************)
(* What a historical metrics dataset is (pkg/dataset): the options and the *)
(* metric inventory of its manifest, the samples it holds in              *)
(* timestamp-major order, and Verify with its scrapeVerifier, which reads  *)
(* the files back.                                                         *)
(*                                                                         *)
(* An entry of a file is one time series with its one sample.  Base labels *)
(* are abstracted to the metric and a series number; a series that churns  *)
(* has a churn_id label, whose epoch is the entry's, the others None.      *)
(***************************************************************************)
EXTENDS Integers, Sequences, FiniteSets, FiniteSetsExt, Functions, SequencesExt

CONSTANTS Datasets,  \* the options and metric configurations considered
          None       \* no churn_id label

\* Options.Validate and validateConfig; the window is not empty.
ASSUME OptionsAssumption ==
    /\ \A o \in Datasets :
          /\ o.series \in Seq(Nat \ {0}) /\ o.series # <<>>
          /\ o.churn \in Seq(Nat) /\ Len(o.churn) = Len(o.series)
          /\ {o.window, o.interval, o.churnInterval, o.maxSamples} \subseteq Nat \ {0}
    /\ None \notin Nat

VARIABLE options  \* [series, churn, window, interval, churnInterval, maxSamples]

SeriesOf == options.series     \* series of each metric, in name order
ChurnCount == options.churn    \* ChurnCounts(configs, churn rate), in the same order
Window == options.window       \* End - Start in milliseconds
IntervalMillis == options.interval
ChurnIntervalMillis == options.churnInterval
MaxSamples == options.maxSamples  \* --max-samples-per-request

Metrics == DOMAIN SeriesOf
BaseSeries == SumFunction(SeriesOf)
SamplesPerSeries == 1 + (Window - 1) \div IntervalMillis

EpochAt(scrape) == (scrape * IntervalMillis) \div ChurnIntervalMillis

\* The base series of one scrape: metric by metric, each one's permutations.
ScrapeOrder ==
    FlattenSeq([m \in Metrics |-> [s \in 1..SeriesOf[m] |-> [metric |-> m, series |-> s]]])

\* The k-th sample Generate emits, counted from 0.
EntryAt(k) ==
    LET base == ScrapeOrder[(k % BaseSeries) + 1]
        scrape == k \div BaseSeries
    IN  [metric |-> base.metric, series |-> base.series, scrape |-> scrape,
         epoch |-> IF base.series <= ChurnCount[base.metric] THEN EpochAt(scrape) ELSE None]

TotalSamples == BaseSeries * SamplesPerSeries
-----------------------------------------------------------------------------
(* scrapeVerifier                                                            *)

NewScrapeVerifier == [ok |-> TRUE, samples |-> 0, metricIndex |-> 1, metricSeries |-> 0,
                      identities |-> <<>>, seen |-> {}, actualSeries |-> 0,
                      metricCounts |-> [m \in Metrics |-> 0]]

\* The scrape and the churn epoch a sample may not differ from.
Expected(v) ==
    LET scrape == v.samples \div BaseSeries
        churn == v.metricSeries < ChurnCount[v.metricIndex]
    IN  [scrape |-> scrape, epoch |-> IF churn THEN EpochAt(scrape) ELSE None]

Identity(e) == [metric |-> e.metric, series |-> e.series]

\* Mutant: a later scrape is not compared with the first.
FitsAnyOrder(v, e) ==
    LET expected == Expected(v)
    IN  /\ expected.scrape < SamplesPerSeries
        /\ e.scrape = expected.scrape /\ e.epoch = expected.epoch
        /\ e.metric = v.metricIndex
        /\ expected.scrape = 0 => Identity(e) \notin v.seen

\* The checks of observe that return an error.
Fits(v, e) ==
    LET expected == Expected(v)
        position == v.samples % BaseSeries
    IN  /\ expected.scrape < SamplesPerSeries
        /\ e.scrape = expected.scrape /\ e.epoch = expected.epoch
        /\ e.metric = v.metricIndex
        /\ IF expected.scrape = 0 THEN Identity(e) \notin v.seen
           ELSE Identity(e) = v.identities[position + 1]

\* Mutant: every scrape of a churned series counts as a series.
StartsSeriesEachScrape(scrape, churn) == scrape = 0 \/ churn

\* A sample that begins a series: the first scrape, or a new churn epoch.
StartsSeries(scrape, churn) ==
    scrape = 0 \/ (churn /\ EpochAt(scrape) # EpochAt(scrape - 1))

\* metricIndex and metricSeries of the next sample.
NextPosition(v) ==
    [index |-> IF v.samples % BaseSeries = BaseSeries - 1 THEN 1
               ELSE IF v.metricSeries + 1 = SeriesOf[v.metricIndex]
                    THEN v.metricIndex + 1 ELSE v.metricIndex,
     series |-> IF v.metricSeries + 1 = SeriesOf[v.metricIndex] THEN 0 ELSE v.metricSeries + 1]

Observe(v, e) ==
    IF ~v.ok \/ ~Fits(v, e) THEN [v EXCEPT !.ok = FALSE]
    ELSE LET first == v.samples < BaseSeries
             next == NextPosition(v)
         IN  [v EXCEPT !.samples = @ + 1,
                       !.metricIndex = next.index,
                       !.metricSeries = next.series,
                       !.identities = IF first THEN Append(@, Identity(e)) ELSE @,
                       !.seen = IF first THEN @ \cup {Identity(e)} ELSE @,
                       !.metricCounts[e.metric] = IF first THEN @ + 1 ELSE @,
                       !.actualSeries = IF StartsSeries(e.scrape, e.epoch # None)
                                        THEN @ + 1 ELSE @]

\* The scrapeVerifier after all entries.
Observed(entries) ==
    LET v[k \in 0..Len(entries)] ==
            IF k = 0 THEN NewScrapeVerifier ELSE Observe(v[k - 1], entries[k])
    IN  v[Len(entries)]

\* Verify after its manifest and checksum tests: the entries of the files in
\* order, and the series total of the manifest.
Verifies(files, actualSeries) ==
    LET v == Observed(FlattenSeq(files))
    IN  /\ files # <<>>
        /\ \A f \in Range(files) : Len(f) \in 1..MaxSamples
        /\ v.ok
        /\ v.samples = TotalSamples
        /\ v.metricCounts = SeriesOf
        /\ v.actualSeries = actualSeries
=============================================================================
