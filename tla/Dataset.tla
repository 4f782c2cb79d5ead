------------------------------ MODULE Dataset ------------------------------
(***************************************************************************)
(* metrics_dataset generate and verify on one output directory: runs of    *)
(* Generate that check that it is empty, fill it file by file and publish  *)
(* the manifest with a rename; that are interrupted, fail or crash between *)
(* any two steps; that overlap; and a directory somebody edited.           *)
(*                                                                         *)
(* A file is Torn from its creation to the end of its write.  Its content  *)
(* stands for its bytes and its digest.                                    *)
(***************************************************************************)
EXTENDS DatasetContract

CONSTANTS Runs,  \* calls of Generate, each with a seed of its own
          Torn   \* what a file holds that is not completely written

\* What the directory's files hold.
Entry == [metric : Nat, series : Nat, scrape : Nat, epoch : Nat \cup {None}]
File == [seed : Runs \cup {None}, entries : Seq(Entry)]
SummaryFile == [files : Seq(File), series : Nat]

ASSUME TornAssumption == Torn # None /\ Torn \notin File /\ {Torn, None} \cap SummaryFile = {}

\* What else the options say: which calls are made, whether a run may start
\* before another has ended, and how often a published directory is edited.
ASSUME DatasetsAssumption ==
    \A o \in Datasets : o.runs \subseteq Runs /\ o.overlap \in BOOLEAN /\ o.edits \in Nat

VARIABLES
    pc,        \* "start", "visit", "flush", "write", "publish", "rename", or how it
               \* ended: "refused", "published", "failed" or "dead"
    visited,   \* samples emitted
    batch,     \* entries not yet in a file
    listed,    \* summary.Files: what each file should hold
    series,    \* summary.ActualSeries
    ctxDone,   \* the context of the run is cancelled
    bins,      \* the directory's prw-*.bin files
    partial,   \* summary.json.partial, None if absent
    summary,   \* summary.json, None if absent
    edits      \* edits made

runVars == <<pc, visited, batch, listed, series, ctxDone>>
dirVars == <<bins, partial, summary>>
Active == options.runs
Overlap == options.overlap
vars == <<pc, visited, batch, listed, series, ctxDone, bins, partial, summary, edits>>

Ended == {"refused", "published", "failed", "dead"}

Init == /\ options \in Datasets
        /\ pc = [r \in Runs |-> "start"]
        /\ visited = [r \in Runs |-> 0]
        /\ batch = [r \in Runs |-> <<>>]
        /\ listed = [r \in Runs |-> <<>>]
        /\ series = [r \in Runs |-> 0]
        /\ ctxDone = [r \in Runs |-> FALSE]
        /\ bins = <<>>
        /\ partial = None
        /\ summary = None
        /\ edits = 0

Go(r, where) == pc' = [pc EXCEPT ![r] = where]
Entries == Cardinality(DOMAIN bins) + (IF partial = None THEN 0 ELSE 1)
                                    + (IF summary = None THEN 0 ELSE 1)

\* Mutant: the output directory may hold files.
StartAnywhere(r) == /\ pc[r] = "start"
                    /\ Overlap \/ \A q \in Runs \ {r} : pc[q] \in Ended \cup {"start"}
                    /\ Go(r, "visit")
                    /\ UNCHANGED <<visited, batch, listed, series, ctxDone, dirVars, edits>>

\* The output directory must be empty.
Start(r) == /\ pc[r] = "start"
            /\ Overlap \/ \A q \in Runs \ {r} : pc[q] \in Ended \cup {"start"}
            /\ Go(r, IF Entries = 0 THEN "visit" ELSE "refused")
            /\ UNCHANGED <<visited, batch, listed, series, ctxDone, dirVars, edits>>

\* One sample: the callback of VisitTagSets.
Visit(r) ==
    LET e == EntryAt(visited[r])
    IN  /\ pc[r] = "visit"
        /\ visited[r] < TotalSamples
        /\ ~ctxDone[r]
        /\ visited' = [visited EXCEPT ![r] = @ + 1]
        /\ batch' = [batch EXCEPT ![r] = Append(@, e)]
        /\ series' = [series EXCEPT ![r] =
                         IF StartsSeries(e.scrape, e.epoch # None) THEN @ + 1 ELSE @]
        /\ Go(r, IF Len(batch'[r]) = MaxSamples THEN "flush" ELSE "visit")
        /\ UNCHANGED <<listed, ctxDone, dirVars, edits>>

Fail(r) == /\ Go(r, "failed")
           /\ UNCHANGED <<visited, batch, listed, series, ctxDone, dirVars, edits>>

\* ctx.Err() in the callback and in flush.  It is not read any more once the
\* last batch is flushed.
CancelVisit(r) == pc[r] = "visit" /\ visited[r] < TotalSamples /\ ctxDone[r] /\ Fail(r)
CancelFlush(r) == pc[r] = "flush" /\ ctxDone[r] /\ Fail(r)

\* flush after the last scrape.
LastFlush(r) == /\ pc[r] = "visit"
                /\ visited[r] = TotalSamples
                /\ batch[r] # <<>>
                /\ Go(r, "flush")
                /\ UNCHANGED <<visited, batch, listed, series, ctxDone, dirVars, edits>>

\* os.WriteFile truncates or creates the file, and then writes it.
OpenBin(r) == /\ pc[r] = "flush"
              /\ ~ctxDone[r]
              /\ bins' = [f \in DOMAIN bins \cup {Len(listed[r])} |->
                             IF f = Len(listed[r]) THEN Torn ELSE bins[f]]
              /\ Go(r, "write")
              /\ UNCHANGED <<visited, batch, listed, series, ctxDone, partial, summary, edits>>

\* Another run has the same file open: what is left of both writes is anyone's.
Shared(r) == \E q \in Runs \ {r} : pc[q] = "write" /\ Len(listed[q]) = Len(listed[r])

WriteBin(r) ==
    LET content == [seed |-> r, entries |-> batch[r]]
    IN  /\ pc[r] = "write"
        /\ \E left \in {content} \cup (IF Shared(r) THEN {Torn} ELSE {}) :
              bins' = [bins EXCEPT ![Len(listed[r])] = left]
        /\ listed' = [listed EXCEPT ![r] = Append(@, content)]
        /\ batch' = [batch EXCEPT ![r] = <<>>]
        /\ Go(r, "visit")
        /\ UNCHANGED <<visited, series, ctxDone, partial, summary, edits>>

WriteFails(r) == pc[r] \in {"write", "publish"} /\ Fail(r)

\* Mutant: the manifest is written under its final name.
OpenSummaryInPlace(r) == /\ pc[r] = "visit"
                         /\ visited[r] = TotalSamples
                         /\ batch[r] = <<>>
                         /\ summary' = Torn
                         /\ Go(r, "publish")
                         /\ UNCHANGED <<visited, batch, listed, series, ctxDone, bins, partial,
                                        edits>>

OpenSummary(r) == /\ pc[r] = "visit"
                  /\ visited[r] = TotalSamples
                  /\ batch[r] = <<>>
                  /\ partial' = Torn
                  /\ Go(r, "publish")
                  /\ UNCHANGED <<visited, batch, listed, series, ctxDone, bins, summary, edits>>

Manifest(r) == [files |-> listed[r], series |-> series[r]]

\* If another run renamed the file meanwhile, this writes into summary.json.
WriteSummary(r) == /\ pc[r] = "publish"
                   /\ IF partial # None
                      THEN partial' = Manifest(r) /\ UNCHANGED summary
                      ELSE summary' = Manifest(r) /\ UNCHANGED partial
                   /\ Go(r, "rename")
                   /\ UNCHANGED <<visited, batch, listed, series, ctxDone, bins, edits>>

Rename(r) == /\ pc[r] = "rename"
             /\ IF partial # None
                THEN summary' = partial /\ partial' = None /\ Go(r, "published")
                ELSE Go(r, "failed") /\ UNCHANGED <<partial, summary>>
             /\ UNCHANGED <<visited, batch, listed, series, ctxDone, bins, edits>>

\* SIGINT or SIGTERM.
Interrupt(r) == /\ pc[r] \notin Ended
                /\ ~ctxDone[r]
                /\ ctxDone' = [ctxDone EXCEPT ![r] = TRUE]
                /\ UNCHANGED <<pc, visited, batch, listed, series, dirVars, edits>>

\* The process is killed.
Crash(r) == /\ pc[r] \notin Ended \cup {"start"}
            /\ Go(r, "dead")
            /\ UNCHANGED <<visited, batch, listed, series, ctxDone, dirVars, edits>>

\* Edits of the sample sequence of a published dataset, as
\* TestVerifyRejectsInvalidScrapes makes them: the files and all metadata of
\* the manifest that do not depend on the options are made again.
Altered(entries) ==
    LET here == DOMAIN entries
        entry == [metric : Metrics, series : UNION {1..n : n \in Range(SeriesOf)},
                  scrape : 0..SamplesPerSeries,
                  epoch : {None} \cup 0..EpochAt(SamplesPerSeries)]
    IN  {[entries EXCEPT ![k] = e] : k \in here, e \in entry}
        \cup {RemoveAt(entries, k) : k \in here}
        \cup {InsertAt(entries, k, entries[k]) : k \in here}
        \cup {[entries EXCEPT ![j] = entries[k], ![k] = entries[j]] : j, k \in here}

\* The entries in files of MaxSamples.
Batches(entries) ==
    LET n == (Len(entries) + MaxSamples - 1) \div MaxSamples
    IN  [f \in 1..n |-> SubSeq(entries, (f - 1) * MaxSamples + 1,
                               IF f = n THEN Len(entries) ELSE f * MaxSamples)]

EntriesOf(files) == FlattenSeq([f \in DOMAIN files |-> files[f].entries])

FilesOf(entries) == [f \in DOMAIN Batches(entries) |->
                        [seed |-> None, entries |-> Batches(entries)[f]]]

Edit ==
    /\ edits < options.edits
    /\ \E r \in Runs : pc[r] = "published"
    /\ summary \notin {None, Torn}
    /\ summary.files # <<>>
    /\ \E entries \in Altered(EntriesOf(summary.files)) :
          LET files == FilesOf(entries)
          IN  /\ summary' = [files |-> files, series |-> summary.series]
              /\ bins' = [f \in 0..(Len(files) - 1) |-> files[f + 1]]
    /\ edits' = edits + 1
    /\ UNCHANGED <<runVars, partial>>

Generate(r) == \/ Start(r) \/ Visit(r) \/ LastFlush(r) \/ OpenBin(r) \/ WriteBin(r)
               \/ OpenSummary(r) \/ WriteSummary(r) \/ Rename(r)
               \/ CancelVisit(r) \/ CancelFlush(r) \/ WriteFails(r)

Next == /\ (\E r \in Active : Generate(r) \/ Interrupt(r) \/ Crash(r)) \/ Edit
        /\ UNCHANGED options

Spec == Init /\ [][Next]_<<options, vars>>
-----------------------------------------------------------------------------
\* Mutant: the files' digests are not compared.
VerifiedUnchecked ==
    /\ summary \notin {None, Torn}
    /\ Entries = Len(summary.files) + 1
    /\ \A f \in DOMAIN summary.files : f - 1 \in DOMAIN bins
    /\ Verifies([f \in DOMAIN summary.files |-> summary.files[f].entries], summary.series)

\* Verify on the directory: a complete manifest, no other file, every file as
\* the manifest lists it, and the entries as Verifies says.
Verified ==
    /\ summary \notin {None, Torn}
    /\ Entries = Len(summary.files) + 1
    /\ \A f \in DOMAIN summary.files :
          f - 1 \in DOMAIN bins /\ bins[f - 1] = summary.files[f]
    /\ Verifies([f \in DOMAIN summary.files |-> summary.files[f].entries], summary.series)

\* A directory Verify accepts holds one run's samples and all of them, however
\* many runs wrote into it at the same time and however they ended.
AcceptedIsWhole ==
    Verified /\ edits = 0 =>
        \E r \in Runs :
            /\ \A f \in DOMAIN bins : bins[f] # Torn /\ bins[f].seed = r
            /\ EntriesOf(summary.files) = [k \in 1..TotalSamples |-> EntryAt(k - 1)]

\* Verify accepts what Generate has published, whatever the batch size, the
\* window and the churn epochs, and whatever other runs were refused.  An
\* interrupted, failed or killed run leaves nothing Verify accepts, and no later
\* run completes it.
VerifiesOncePublished ==
    LET published == \E r \in Runs : pc[r] = "published"
    IN  /\ Verified => published
        /\ ~Overlap /\ edits = 0 /\ published => Verified

\* Once accepted, a dataset stays as it is: a later run is refused, or has
\* ended, before it touches the directory.
AcceptedForGood == [][Verified /\ ~Overlap /\ edits' = edits => UNCHANGED dirVars]_vars

\* README: "distinct emitted identities including churn".  Epochs that pass
\* between two scrapes make no series.
SeriesCounted ==
    summary \notin {None, Torn} /\ edits = 0 =>
        summary.series = Cardinality({<<e.metric, e.series, e.epoch>> :
                                         e \in Range(EntriesOf(summary.files))})

\* What an edited dataset must be to be a dataset: full scrapes, each of them
\* with the same base series in the same places, distinct, grouped by metric,
\* and the churned ones with the epoch of the scrape.
WholeScrapes(entries) ==
    /\ Len(entries) = TotalSamples
    /\ \A k \in DOMAIN entries :
          LET e == entries[k]
              planned == EntryAt(k - 1)
          IN  /\ e.metric = planned.metric
              /\ e.scrape = planned.scrape
              /\ e.epoch = planned.epoch
              /\ k + BaseSeries \in DOMAIN entries =>
                    entries[k + BaseSeries].series = e.series
    /\ \A j, k \in 1..BaseSeries :
          Identity(entries[j]) = Identity(entries[k]) => j = k

\* No edit of the samples deceives Verify, and no rearrangement that leaves
\* whole scrapes makes it reject them.
EditsDetected == edits > 0 /\ ~Overlap => (Verified <=> WholeScrapes(EntriesOf(summary.files)))
=============================================================================
