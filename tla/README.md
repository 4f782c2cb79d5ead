# metrics-bench-suite in TLA+

metrics-bench-suite writes and reads synthetic Prometheus-style metrics to benchmark a time
series database. This directory models the parts of it that carry state, concurrency or
non-trivial arithmetic, model-checks them with TLC and proves the core with TLAPS. Paths are
relative to the repository.

Run a check with `tlc -config <name>.cfg <MC module>` and a proof with `tlapm <module>.tla`.
`PROJECT.json` lists the runs, the mutants that show each property can fail, the lines each
definition stands for, the findings, the hazards and the theorems.

## 1. Inventory

| Part | Source | State | Operations | What is hard |
|---|---|---|---|---|
| sample_loader, one wave | `pkg/cmd/sample_loader/sample_loader.go` 507-568, `pkg/samples/file_config_timeseries.go` 19-55 | two channels per config, merged channel, request being filled, request channel | generate, forward, collect, enqueue, give up, drain | goroutines racing a deadline; request sizes; leaks |
| sample_loader, run | same file 295-486, `stats.go` | data timestamp, churn epoch, request channel, worker accounts, reports | tick, wave, deadline, send, drain, cancel, report | random `select`, late answers, cancelled requests, three accounts of one event |
| partition_query_loader, workload | `workload.go` | slots, timers, metrics in two maps, intervals | fire, take a slot, look up, query, record, cut an interval, end | slots kept, two locks, the last records |
| partition_query_loader, plan assignment | `workload.go` 211-341 | none | choose hot plans, draw periods and ranges | boundaries, ties |
| partition_query_loader, command | `command.go`, `observations.go` | readings, outcome | read, pair with intervals, write, abort, cancel | two tickers, counters that restart, regions that move or vanish |
| partition_query_loader, discovery | `discovery.go`, `partition.go`, `query_plan.go` | cache of physical tables, result, skips | list, select, resolve in three queries, plan | cached failures, ambiguous metadata, a repartition between the queries, the timeout |
| partition_query_loader, partition texts | `partition.go` | none | unwrap, split, parse conditions | quotes, nesting, negation: half an understanding aims a query at the wrong rows |
| partition_query_loader, configuration | `config.go`, `workload.go` 110-130, `command.go` 228-300 | the settings | flags, file, aliases, defaults | later steps cannot tell a flag from a default |
| metrics_dataset | `pkg/dataset` | a directory, counters, a manifest | generate, publish, verify | crashes, two runs in one directory, a verifier with a position |
| samples | `pkg/samples` | counters of the generators, cache, odometer | next value, allocate churn, visit, build labels, read a directory | rounding, resets, label order, identity of a series |
| HTTP requester | `pkg/http/requester.go` | one request | encode, post, judge the answer | partial success, odd answers |
| captured traffic | `pkg/parser`, `pkg/utils`, `pkg/timeseries`, `pkg/cmd/timeseries_analyzer` | parsed requests, set of series | parse, decode, count | a file cut anywhere, two series with one text |
| loader | `pkg/cmd/loader/loader.go`, `pkg/timeseries/factory.go` | clock, goroutines, errors | tick, scale, chunk, send, collect | one goroutine per chunk, joined errors |
| sample_generator | `pkg/cmd/sample_generator` | batches | split, send | boundaries, partial failure |
| schema_generator | `pkg/cmd/schema_generator` | statements, a channel, connections | write files, send, connect, execute | goroutines that fail to connect, the room in the channel, physical tables before logical ones |
| config_modifier | `pkg/cmd/config_modifier`, `pkg/samples/config.go` | the configurations, the variables of the flags | assign, cut, write | distributions of all files share pointers |
| viewer, table_creator; output formats; tools, profiles | `pkg/cmd/...`, `tools`, `profiles` | none across calls | print | not modelled: one pass of formatting, data, a Helm chart |

The commands share `pkg/samples` (configurations and values) and `pkg/http` (requests).
Within a command the parts meet in channels: a wave fills the request channel of a run, whose
workers call the requester; the workload hands its result to the command, which reads the
database beside it. No two commands share anything but the receiver and the file system.

## 2. Modules

Each module has its constants, variables and assumptions at the top, one action per step of
the code, and its properties at the end; definitions called mutants are faulty versions of
the next definition and not part of any specification. `MC*` modules give TLC its values.

What a command is told by its flags is chosen in the initial state and kept: `mode` of
`SampleLoader`, `setting` of `QueryWorkload`, `options` of `DatasetContract`, `setup` of
`Discovery`, `flags` of `MetricsLoader`, each out of a set that is a constant. So one run
covers the combinations its `MC` module lists. `MCSamples` and `MCCommands` each put several
components that share no state side by side: a variable `part` names the one that runs, and
the others rest in an initial state of theirs, in which their properties hold. To that end
these components' variables and formulas have names of their own (`walkPc`, `WalkNext`,
`churnVars`, ...).

### sample_loader

`WaveContract` is what a wave promises: any order of configs, but no series twice; requests
of `--max-samples` except the last; all series sent, or the deadline is over; at most one
request after the deadline, over all waves of a run. It has no channel and no goroutine.

`WaveStreaming` is `convertToRemoteWriteRequestsStreaming` with all its goroutines. `genPc`,
`next`, `genChan` are a generator (`GenBuild`, `GenSend`, `GenCancel`, `GenStop`); `fwdPc`,
`held` a forwarder; `merged`, `tsClosed` the merged channel and its closer; `mainPc`, `cur`,
`batch` the caller. The two branches of a `select` are two actions. A series is its config
and its index, which is all the caller's behaviour depends on. `late` and `enqueued` are
history. `WaveStreaming` implements `WaveContract` (`ContractSpec`).

`SampleLoader` is the run. It uses a wave only through what `WaveContract` says of it
(`FormRequest`, `Enqueue`, `WaveDone`, `StopWave`), and is itself shown to keep that contract
over all its waves. Beside the main goroutine there are the ticker, the deadline, the workers
with the receiver as environment (accept, reject a part, fail, hang), the drain timer and the
reporter. `mode.workers` are the workers a run starts, perhaps none, in which case the request
channel has no room and the first request waits for the deadline. Properties relate the three
accounts of a row: `rows_written`, the run statistics and the exit status.

### partition_query_loader

`QueryWorkload` is `RunWorkload`: one runner per plan, the slots, the two metric maps and the
collector. `Observations` holds the pure operators of `observations.go` with counters modulo
`CounterSize` (unsigned subtraction wraps). `QueryLoad` extends both and adds the command's
loop and the database, whose regions consume, move, restart and vanish. A reading takes the time
(`StartReading`), asks for one region after the other (`QueryRegion`; `unread` are those to come,
`rows` what came) and is kept when all are read (`KeepReading`). The database and the clock may
move on before every query, and every query may fail. `queried` is history: what each region had
really consumed, and the time, when it was asked for.

Before the first query there are four parts. `QueryConfig` follows the range of a workload
through its five steps (`ReadFlags`, `ApplyWorkloadFile`, `Validate`, `BeginWorkload`, with the
alias applied in three of them), as period-min, period-max and the alias period; the range of
times is set by the same code with other names. `Discovery` is `discover` to the query plans
of `BuildQueryPlans`: a physical table is read by three queries (`ReadDefinition`,
`ReadMetadata`, `ReadLeaders`), any of which may fail, and between which the table may be
partitioned anew (`Repartition`, once); a predicate is named by the region it selects and the
partitioning it belongs to, so that a wrong pairing shows. `PartitionText` is how such a
predicate comes out of a text. A text is a sequence of tokens (quotes, backquotes,
parentheses, operators, keywords, words); the scanners of `partition.go` are operators on it;
and the texts are made by the operators of the SQL grammar, which keep beside the tokens the
points at which a condition holds, the reference the parsed text is compared with. `Written` is
the list of the sets of conditions that occur: comparisons first, then conditions made of those
of the set before.
`PlanAssignment` is `assignPlans` over integers with the division of windows between hot and
other plans (`WindowSplit`); a float conversion is a cut towards zero.

### metrics_dataset and samples

`DatasetContract` is the sequence of samples a dataset consists of and when a directory is a
dataset; `Dataset` is `Generate` between any two system calls (it may be cancelled, fail or
die at each), the verifier, a second run in the same directory and edits of a finished one.
`ChurnAllocation` is `ChurnCounts`; `RoundsDown` says where float64 arithmetic falls below the
exact quotient, and is every possibility (`Samples`) or the real one (`ChurnDocPrefix`).
`FieldGenerators` is the counter `MonoInc` with its cache and validation, on a half-unit grid
so that the cut of a float to an integer shows. `SeriesLabels` is the odometer and the label
sets, names being their place in the order; the tags are sorted by their ranks. `ConfigWalk` is
the walk over a directory.
`ConfigModifier` rewrites its files: `numbers` are the variables of the flags, `Flag(label)` a
pointer to one and `Own(n)` one to a number of the file's own, and a file is written with what
its pointers lead to at that time (`Serialized`). How many distinct values the tags are cut to
comes from float64 logarithms and is any number the formula may give (`NDVs`).

### Requests, loader, sample_generator and schema_generator

`Requester` is one call of `SendContext` or `SendV2Context`, with every answer a receiver can
encode. `Capture` is what loader and timeseries_analyzer make of a captured file: tokens that
are cut off anywhere, requests parsed from them (`ReadRequest`), one body after the other decoded
(`DecodeBody`) and its series counted one by one by their `String` (`CountSeries`), in which the
token `comma` is the separator. `MetricsLoader` is the loader's tick: samples, clones, chunks, one
goroutine each, and the channel of errors. A name is its base and the numbers behind it
(`NumberedNames`), and a clone has one number more (`Numbered`): "x_1" may be a captured name as
well as that of a clone of "x", and so may be a label with the character of the label scale. The
metric name is the value of the first label, which a remote write sorts first. `SampleBatches` is
the split into batches and the sends. In both, the receiver may take any part of a request that
failed: all of it when the answer is lost, some of it when it is a partial success, as `Requester`
has it.
`SchemaGenerator` is the order of the files and statements, with the goroutines that connect
or do not, take statements from the channel and execute them.

## 3. Runs

| Run (cfg) | Instance | Shows |
|---|---|---|
| `Wave` | configs of 3 and 2 series, requests of 2, one worker, a deadline at any point or never | order, no goroutine left, the contract (completeness, sizes, one late request), the end without a deadline |
| `LoadAccounts` | 2 workers or none, 2 waves of 3 rows, requests of 2; with a duration, real and dry; endless with epochs 0 to 2; dates 0 to 2 and, reversed, 1 to 0; rejections of 1 and of more than a request | the three accounts of a row agree, a range is offered whole, the reports show an epoch before it is sent |
| `LoadEnds` | the runs that have to end, no rejections | the exit, with and without workers, and the contract over all waves |
| `Query` | 2 regions; 2 plans on one of them with 1 slot and with 2; 1 plan and 1 event; no plan, with 3 events and a clock to 1 or 1 event and a clock to 2; counters modulo 16 | slots and counters balance, rates never claim more than was consumed and have the time between their readings, no request is reported twice, queries end first and leave a complete result |
| `QueryEnds` | 2 regions; 2 plans and 1 slot; no plan, 1 event and a clock to 1 | the command ends |
| `Dataset` | 2 runs in turn or at once, files of 2 to 5 samples, epochs longer and shorter than the interval, 2 edits | published verifies, unfinished does not, what verifies is one whole dataset and stays so, the series count, edits are noticed |
| `Samples` | directories of up to 3 entries; 4 metrics of up to 4 series, some with none, with any target and rounding; counters with bounds on both sides of zero or none, 6 waves; up to 3 tags among the reserved names, 2 epochs; 2 files of up to 3 tags each, with any distribution, to be modified | the first metrics or the first failure; the target spent in proportion; no panic after validation and values in closed form; identity and order of labels; a file is written as if it were the only one |
| `Commands` | ranges out of 3 durations in flags and file, among them the defaults; 3 tables on 1 or 2 physical ones with a limit of 2, 2 databases, 2 partitions with any metadata, one repartition; partition texts of up to two nested conditions over 3 columns and 5 literals; 3 plans on 2 datanodes, all draws; 3 series, 3 protocols, all answers; 3 series of up to 5 samples, all limits; 2 captured series with clones of either kind, with clones of both that have each other's names, or with 3 samples, in 2 or 3 chunks, 2 ticks; captures of up to 3 requests cut at every token; 2 physical and 2 logical tables, 2 connections | a flag wins but for one case; every table is skipped or planned, with its region's own predicate; a text is understood or refused; hot plans are hotter, in the configured ranges; nothing is lost in encoding, success only if all was taken; whole batches arrive, and any part of the one that failed; all failures are reported, each sample arrives, and once if the clones are apart; what is whole in a capture is counted; physical tables first, and no sender left alone |

The instances are the smallest in which each branch is taken with something on either side of
it: two configs so that series can overtake each other, a wave that ends in a partial request,
two workers so that one may hang while the other works, as many slots as plans and fewer, a
limit below, at and above each count. In `Commands` a third table on a physical table shows
that the fate of the second is not luck; two conditions in parentheses beside a third are the
least in which a separator at a wrong depth would be taken; the literals have a keyword, a
parenthesis, a pair of quotes, an operator and a comma between quotes; three requests are a
whole one, a cut one and one before both. That a wave whose series are a multiple of the request
size has no empty last request is left to the proof of the refinement, which holds for every
count. Counters that only count (waves, ticks, timer firings, epochs, events, edits) are
bounded by `Max*` constants or by the setting; two or three are enough to relate a step to the
one before and after it. In `Query` the events fall between any two queries of a reading, three
being enough for one region to consume, restart and consume again around a query of the other; the
clock is bounded by the setting, and stands still in those with plans, where no time is compared.
`LoadAccounts` uses the symmetry of workers and `Query` that of datanodes, for invariants only.
`CHECK_DEADLOCK FALSE` is set wherever the program terminates or a bound stops the model,
which is everywhere.

### Findings

Four runs check a sentence of the repository and find the code doing otherwise:

- `QueryDocMetrics`: requests of the last interval are in no observation when a reading was
  skipped, because intervals and readings are paired by position;
- `ChurnDocPrefix`: a float64 share below the exact one lets a metric of 7 series have 8
  churned ones and one of 15 only 14;
- `GeneratorDocMonotone`: a counter with a negative lower bound starts again whenever it
  reaches zero;
- `FlagsDoc`: "explicit flags take precedence", says the help of `--workload-config`, but a
  minimum or maximum given as the default cannot be told from an absent one, and an alias in
  the file replaces it (`workload.go:120`).

Smaller divergences were met and have no run:

- an error of a worker does reach the exit status (`sample_loader.go:577`), which
  `docs/prometheus-remote-write-benchmark.md:280` denies;
- the walk keeps one file more than the pick count (`parse.go:90`; `FirstMetrics` says so);
- `selectTables` draws before it is known which tables are eligible (`discovery.go:65`);
- the key of the generator cache has no churn epoch (`parse.go:29`; `ValidatedValues` relies on
  it), although the comment of the field says it has;
- `--period` among the flags loses against the file's minimum and maximum (`FlagsWin` says
  when it does not);
- a capture cut inside a request line or before the digits of a length fails the command,
  although the comment at `parser/request.go:93` says the end is ignored (`CapturedWhole` names
  the cuts);
- series whose values contain ", " may have one `String` and are counted once
  (`timeseries.go:26`; `CapturedWhole` leaves them out, and no property covers the loss);
- clones of the loader may have a captured name: with `x` and `x_1` captured, equal labels and
  `--metric-scale 2`, the receiver gets two samples of `x_1` at one time (`loader.go:138`), and so
  it does with labels `job` and `joba` (`loader.go:156`) or, under `--label-scale`, for a series
  without a label but its name. No document says what the scales promise; `CapturedApart` is the
  condition under which `EachSampleOnce` claims that no sample comes twice;
- the time of a row of `region_statistics` is that of the beginning of the reading, and its region
  is asked for later (`observations.go:65`), so that a rate is divided by a time that differs by
  up to the length of a reading from that in which its CPU was used (`RatesUnderstate` says how
  the two times lie);
- the number of distinct values of `config_modifier` comes from logarithms and may exceed what
  `--target-series` asks for; for a file with one tag it is infinite, and the conversion to int
  is up to the machine.

## 4. Fairness

- Goroutines that can go on do (`WF` on each one), as Go's scheduler sees to.
- In `SampleLoader` and `QueryLoad` timers fire and readings return. In `WaveStreaming` the
  deadline need not come and no worker need take a request; `Completes` assumes the worker.
- The receiver answers only where `Exits` says so, for a run over a range of dates: the HTTP
  client has no timeout. For a run with a duration `Exits` does without.
- Every query of the workload has a context with a deadline, so it returns (`Request`).
- `SF` on `RunnerExit`: a `select` with both the timer and the ended context ready chooses at
  random, so a runner that finds its context ended over and over leaves in the end.

The other modules have no fairness and no liveness property.

## 5. Proofs

All theorems hold for every value of the constants, under the assumptions named in the
modules; none of the bounds of the runs is used. Where an invariant is not inductive, its
strengthening was first checked with TLC on the instances of the runs.

| Module | About | Strengthening | Assumptions |
|---|---|---|---|
| `WaveStreamingProofs` | `WaveStreaming`, `WaveContract` | `IInv` | `StreamAssumption` |
| `SampleLoaderProofs` | `SampleLoader`, `WaveContract` | `LoaderInv`, `AccountInv` | `LoaderAssumption` |
| `QueryLoadProofs` | `QueryWorkload`, `Observations`, `QueryLoad` | `LoadInv`, `CountInv`, `LoadTruth` | `WorkloadAssumption`, `CounterAssumption`, `LoadAssumption` |
| `QuerySetupProofs` | `QueryConfig`, `Discovery`, `PlanAssignment`, `PartitionText` | `SettingsInv`, `DiscoveryInv`, `PlanInv`, `TextInvariant` | the assumptions of each |
| `DatasetProofs` | `DatasetContract`, `Dataset` | `DatasetInv`, `SoloInv` | `OptionsAssumption`, `DatasetsAssumption`, `TornAssumption` |
| `SamplesProofs` | `ChurnAllocation`, `FieldGenerators`, `ConfigModifier`, `ConfigWalk`, `SeriesLabels` | `ChurnInv`, `FieldInv`, `ModifierInv`, `WalkInv`, `LabelInv` | `AllocationAssumption`, `GeneratorsAssumption`, `ModifierAssumption`, `WalkAssumption`, `TagsAssumption` |
| `CommandProofs` | `SchemaGenerator`, `SampleBatches`, `Requester`, `MetricsLoader`, `Capture` | `SchemaInv`, `BatchesInv`, `RequesterInv`, `LoaderInv`, `ReceiveInv`, `CaptureInv` | `SchemaAssumption`, `BatchesAssumption`, `RequesterAssumption`, `LoaderAssumption`, `CaptureAssumption` |
| `FoldLemmas` | sums and sequences, for the others | | |

**One wave.** `WaveStreamingProofs` proves, for every finite set of configs, every number of
series, every `--max-samples` from 1 and every number of workers:

- `Invariance`: `Spec => []IInv`;
- `SentInOrder`, `CompleteTrue`, `RequestsFull`, `FalseIsDeadline`, `OneLateRequest`,
  `QuietOnTrue`, `NoForwarderLeft`: the safety properties of the wave;
- `ImplementsContract`: every step of `WaveStreaming` is a step of `WaveContract` or a
  stutter.

None of the safety properties is inductive. That a request is full and in order depends on
where every other series is, so `IInv` (checked by `Wave`) adds
- `Shape`, `Endings`: what the program counters say of the buffers, and that before the
  deadline nobody ends early;
- `CommittedDone`, `NothingDiscarded`: as long as the call can return true, a series that was
  generated is somewhere downstream;
- `RequestSizes`, `LateOnce`: the request and the deadline;
- `Ordered`: along the whole pipeline the series of one config ascend, and everything
  downstream of a generator and forwarder is below their `Frontier`.

Each part has one lemma for the generators, one for the forwarders and one for the caller.
The refinement needs `Ordered` again: a batch is new to the contract because its series ascend
from what was sent, and `Cardinality(batch) = MaxSamples` because they are distinct.

**The run.** The first half of `SampleLoaderProofs`: `EpochsReported`, `ReportsComplete`, and
`RunKeepsContract`, that the waves of a whole run, in requests of any size and with a deadline
anywhere, implement the same `WaveContract`. `LoaderInv` has the types and
- `WaveInv`: a request that waits for room was formed before the deadline and none has left
  late yet (this makes it at most one over all waves, also when the ticker is chosen after the
  deadline), and one below `--max-samples` is the rest of its wave;
- `EpochInv`: nothing in the channel is of a later epoch than the statistics show;
- `ReportInv`: an interval without a request is empty, which is why the last snapshot may go
  unprinted, and nobody writes any more when it is taken.

The step from `Enqueue` to `WaveContract` counts an interval of numbers (`NextRows`): what is
offered next is disjoint from what was offered, and as many as the request has rows.

**Its accounts.** The second half: `ClaimsAreAccepted` (`NeverOverReported`),
`CleanRunsDeliver` (`NothingLostQuietly`) and `RunLogsBalance` (`RunLogAccounts`), for any
number of workers, series and answers. `AccountInv` says of every row offered where it is. It
is in the queue, in the hands of a worker (`Held`, `HeldRows`), answered but in no account yet
(`Unreported`), or in an account. `AcceptedInv`, `OfferedInv`, `RequestsInv` and `SamplesInv`
each balance a counter with such sums over workers and queue, and every action moves one summand
(`SumChange`, `SumLast`, `SumFirst`). `ClosingInv` says what is empty when the run ends; only
with it do the balances speak of the final accounts. `FiniteInv` counts the waves of a range of
dates.

**Queries.** `QueryLoadProofs`, for any plans, slots, regions, readings and ticks: `SlotsKept`
(`SlotsBalance`), `QueriesEnd` (`QueriesEndFirst`), `CountersStayTogether` (`CountersAgree`),
`RatesAreBelow` (`RatesUnderstate`) and `RequestsReported` (`RequestsReportedOnce`). A slot is
counted by the cardinality of the runners in flight, which a step changes by one member;
`OthersRest` says that plans without a runner do nothing, and `Endings` what the program
counters of workload and command say of each other. `CountInv` has, region by region, that the
two maps differ by the runners between their two updates. `LoadTruth` follows a counter from
the region to the reading and to the observation: `ReadingInv`, from one reading to the next a
counter grows by no more than its region consumed between the two queries for it, whatever
restarted, moved or vanished in between and whichever regions were read before or after, and the
beginning of a reading, its queries and the clock are in the order of time; `OutputInv`, what is
written comes from the readings and intervals, once and at the end. The theorem on rates is one
about regions: what a single request used is in no reading. That about requests is an inequality,
and an equality if the readings kept up with the intervals and the region was in each reading
before, which `QueryDocMetrics` shows is not always so.

**Before the queries.** `QuerySetupProofs`:

- `FlagsDecide` (`FlagsWin`), for any durations and defaults; `SettingsInv` is what each step
  hands to the next.
- `TablesAccounted` (`EveryTableAccounted`) and `PredicatesAreRight` (`RightPredicate`), for any
  schemas, errors, limits and a repartition anywhere. `DiscoveryInv` is `AccountInv` (each table
  selected is in hand, skipped or in the result, and in one of these only), `CacheInv` (how far
  a physical table has been read, which partitioning its answers belong to, and that no table
  was settled by it before), `SettledInv` (a table is in the result if its physical table could
  be used, with the partitions that gave, and skipped if not) and `PlansInv`.
- `HotPlansAreHotter` (`HotterInBoth`), for any datanodes, shares, bounds and draws, over
  integers: `ConfigInv` and `HotPeriodEnds` say where the periods of hot plans end and leave
  room for the others, and `PlanInv` that each plan drew its period and range on its side.

**The texts.** `TextsAreMeant` (`ParsedMeansText`) of `QuerySetupProofs`, for any names of columns,
literals and texts whose conditions are built of comparisons by AND, OR, NOT and parentheses, to
any depth. `Fine` says of one condition that its tokens, with and without the parentheses around
them, mean what it means once all their pieces can be read; and that a conjunction of comparisons
can be read. `ExpressionsFine` has it of all conditions, by induction over `Written`, with one lemma
for each operator of the grammar. These rest on three things:
- What is outside quotes and how many parentheses are open adds up along a text (`ConcatScans`),
  as does where it is cut (`PiecesJoin`). So parentheses come off as they were put on
  (`UnwrapEnclosed`), and a conjunction is cut into the pieces of its two conditions.
- The code cuts at every AND, also inside parentheses. A piece that is left with a parenthesis
  that does not match, that begins with NOT or contains OR outside quotes is not read as a condition
  (`ParenthesisUnread`, `NotUnread`, `OrUnread`), so that what is not understood is an error.
- A comparison can be split only at its own operator (`ComparisonSplit`), although operators are
  searched in quotes too: what is left of a literal is no literal.

`JoinedSplits` takes the list of the partitions apart again, and `DefinitionMeans` finds it: a
PARTITION before the clause makes the loader refuse the text. The assumptions are about what the
server writes: a literal is one string or a word, names that are keywords are in backquotes, the
names of the columns have no parentheses.

**The loader.** `CommandProofs`, for any captured series, scales, chunk sizes and ticks:
`FailuresAreReported` (`EveryFailureReported`) and `SamplesArriveOnce` (`EachSampleOnce`).
First the pure part (`ScaledLists`): what `Generated` and the two scalings make is a list of exactly
`SampleSet`, the samples of all clones, and without a repetition if `CapturedApart`: two clones of
one series differ (`CloneSampleParts`, `LabelsTell`), so that only those of two captured ones could
agree. Its chunks put end to end are that list (`ChunksFacts`). Then `TickInv` (each chunk has one
goroutine, in one place), `FailInv` (the error of a failed goroutine is in the channel, collected or
reported) and `ReceiveInv` (the receiver has the samples of the ticks before and, of this one, those
of the chunks taken and parts of the chunks that failed; if the captured series are apart none
twice, and nothing yet of a chunk that is still to be sent, `OpenAreNew`).

**Datasets.** `DatasetProofs`, for any metrics, churn, window, interval, batch size and any set
of runs. `DatasetInv` is `RunInv`, what a run emitted, has in its batch and lists are together
the first `visited` samples of `Plan`; and `DirInv`, a manifest in the directory that nobody
edited is one some run wrote, complete. From it `AcceptedDatasetsAreWhole` (`AcceptedIsWhole`),
also for overlapping runs. `SoloInv` is about runs that do not overlap: at most one is at work
and the directory holds exactly its files; from it `AcceptedStays` (`AcceptedForGood`).

The other theorems need the verifier, a fold over the entries. `ObserverStarts` and
`ObserveStep` show that after `k` entries that fit it is `Observer(entries, k)`, a record in closed
form, and `VerifiesFacts` that Verify accepts exactly the files whose entries all satisfy
`FitsAt`, a formula about one entry and the first scrape. Then
- `PublishedVerifies` (`VerifiesOncePublished`): `PlannedFits`, the samples of `Plan` do;
- `EditsAreDetected` (`EditsDetected`): `WholeFits`, those and only those sequences do that
  consist of whole scrapes. `SameAsFirst` carries the comparison with the first scrape, which the
  code makes, over to that with the scrape before, which the property states;
- `SeriesAreCounted` (`SeriesCounted`): a sample that begins a series is the only one of its
  identity that does (`BeginsOnce`, as epochs are monotone), and every identity has one
  (`BeginsFound`), so that the counter is the cardinality of a set in bijection with the
  identities.

**Schema.** `CommandProofs` also has `StatementsInOrder` (`SchemaInOrder`) for any number of
tables and goroutines; `SchemaInv` has `InRound` (what the channel, the goroutines and the
history hold at a time), `OnePlace` and `SomePlace` (a statement of the round is in exactly one
of them) and `Served` (a goroutine that connected stays until the channel is closed and empty).

**Batches.** `PrefixArrives` (`ReceivedPrefix`) of `CommandProofs`, for any series, dates and
batch size. While the series are cut, `SplitInv` says that the batches, the batch being filled
and what remains of the series, put end to end, are the series so far; so the flattened batches
are all samples (`BatchesDone`), and after n sends the receiver has the first n of them, a
prefix (`FlattenPrefix`). How long it is, is counted: the batches but the last are full, so the
first n hold n times `maxSamples`. Of the batch a send failed on any part may have arrived;
`BatchIsAt` says at which places of the sequence its samples are, so that nothing beyond it did.

**Requests.** `RequestsAreHonest` (`DeliveredOrReported`) of `CommandProofs`, for any batch,
protocol and answer a receiver can encode. `BodyInv` says that the body groups exactly the
series encoded so far, none lost or in a group of another name, so that what is posted is the
whole batch or nothing (a timestamp OTLP cannot carry ends the encoding before). `AnswerInv` says
that from the answer on, what `Send` will return (`Result`) is true of what the server has stored:
an error, or the count of what it did not store (`Honest`). That this is so when the answer
comes is a matter of its fields alone: it is a list of fields in which an unknown one or a garbled
one may stand anywhere, and the count that is read is that of the last field that has one.

**Captures.** `CapturesAreWhole` (`CapturedWhole`) of `CommandProofs`, for any traffic and a file
that ends anywhere. `ParserInv` says that the parser is between two requests of the traffic as
long as all it read were remote writes (`Leads`); each was read in its place, the first other
one leaves an empty body, and at the end no whole request is left behind (`WholeIsRead`). A
request that is none misleads the parser for good, but then the traffic has an excuse for any
failure that follows (`OtherIsExcuse`), and no failure is ever read as an end: a command that
goes on has decoded every body, and no body decodes but in its place (`BodyDecoded`). `CountInv`
has one series of each `String` in the counter. `StringTells` is about the text itself: two
lists of labels with one `String` are one, unless a value contains the separator. Names may
contain anything, since the labels are compared from the left and the pieces before are equal.

**The modifier.** `FilesStayIndependent` (`FilesIndependent`) of `SamplesProofs`, for any
directory, flags and target series. `FlagsKept` is the point: a replica distribution that points
to a flag is on a count label, which is a query label that no cut touches, so nothing is written
through the shared pointers. Hence `ModifiedAlone`, each file is what its own content and one
number of distinct values make, and `WrittenInv`, the output has the last file written of each
name. `ModifierAssumption` says what the YAML of a directory can hold: a distribution that is
read points to a number of its own.

**The walk and the labels.** `WalkTakesTheFirst` (`FirstMetrics`) of `SamplesProofs`, for any
directory and limit: what was visited is a beginning of the directory in the order of its names,
the metrics kept are those in it that have one, ascending (`WalkInv`), and the walk ends at the
first that is unreadable or one above the limit, whichever comes first. `SeriesAreIdentified`
(`SeriesIdentity`), for any tags, candidates, churned series and epochs. The sort is shown to be a
permutation in order, by the ranks of the names; the odometer visits a combination in one place of
the walk only, since a turn is undone in one way (`OnePlaceEach`, which holds across the epochs);
and a label set is the sorted one of its combination (`RightLabels`), so that the combination
and, if the series is churned, its epoch can be read off it. Where the replica label is put in among
the sorted tags does not matter but for the order, which `LabelInv` keeps.

**Churn and values.** `SamplesProofs`. `ChurnIsSpread` (`ChurnSpread`), for any metrics, series,
target and rounding of the divisions: `FloorInv` says that the floors of the metrics passed
stay at most one series per metric below their exact share, so that the rest is less than the
metrics there are (`RestInv`) and one more for each of them spends it. The order in which the
break and the cut to what remains come matters: `PartIsLeft` shows that the cut never takes
anything from a floor. `ValuesAreValid` (`ValidatedValues`), for any bounds, steps, waves and
epochs: `SeriesInv` says that the counter of a series that left n values is at the value n + 1
of the closed form, which `NthNext` (one division further, or back to the lower bound) carries
through a reset; a counter at 0 is at its lower bound only because that is not negative.

**Sums and sequences.** The operators of the community modules are defined by recursive
functions. `FoldLemmas` shows that such a function exists and is unique on the finite sets or
intervals in question, from which one unfolding follows as a fact (`SumPick`, `FlattenStep`).
What else is needed goes by a least counterexample (`LeastOf`) or by an induction over a set of
numbers, which is a constant and not an operator (`NumbersInduction`, `SubsetInduction`). The
verifier of `Dataset` is treated in the same way.

**Only model-checked.** Liveness under fairness and `ENABLED`: `Completes`, `Exits` and
`LoadEnds`. Every invariant and every action property of the runs is proved. The operators `:>` and
`@@` are opaque to the prover, so modules that are proved about write functions with a constructor.

## 6. Not modelled

- Random, noisy and periodic field values, latencies and percentiles: draws and measurements
  with nothing to relate them to.
- The text of observations, log lines, the statements and files of `schema_generator`, the
  file of `table_creator`, the printing of `remote_write_request_viewer`, parquet output: one
  pass of formatting without control. YAML, SQL results, compression, hashing and the DSN:
  their results are enumerated.
- The Helm chart, the profiles and the sample configurations: data.
- What one query for a region does in the database: each returns the counters and the leader of
  one moment. One database listed twice in the flags is not considered.
- `SampleLoader` and `MetricsLoader` take positive intervals: the flags are not validated and
  other values panic or never end. `SeriesLabels` takes configurations `metrics_dataset`
  accepts; the live commands validate less.
- A partition text with a quote that does not end.

## 7. Plan

Done in this order: the wave and its contract; its proofs; the run; the workload and its
command; datasets and churn; values, labels, plans, requests; loader, batches, walk; discovery
with its three queries and the plans made of it; partition texts, captures, the configuration
of queries, the schema and the modifier; proofs of the run, of the queries, of the
configuration and of the schema; proofs of the accounts, of the discovery and the plans, of the
loader, of datasets, of churn and values, of the batches and the modifier; proofs of requests,
captures, the walk and the labels, and of the partition texts. What would come next:

1. Put the parts of `MCSamples` in sequence, as the loaders use them: the walk's metrics are
   what churn is allocated over, and the counts are what the labels are built with.
2. The run over `WaveStreaming` itself, one wave detailed: both implement `WaveContract` now,
   but a run with the goroutines of each wave is not checked as one.
