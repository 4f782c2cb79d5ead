---------------------------- MODULE DatasetProofs ----------------------------
(***************************************************************************)
(* metrics_dataset for any metrics, windows, intervals and batch sizes: a  *)
(* directory that Verify accepts holds all samples of one run, in order;   *)
(* it accepts what one run published, and nothing else but a rearrangement *)
(* of whole scrapes.                                                       *)
(***************************************************************************)
EXTENDS Dataset, FoldLemmas

-----------------------------------------------------------------------------
(* The runs.                                                                 *)

Starts(e) == StartsSeries(e.scrape, e.epoch # None)

\* What Generate emits, and which samples begin a series.
Plan == [k \in Nat |-> EntryAt(k)]
Begins == [k \in Nat |-> Starts(EntryAt(k))]

\* The first n of them.
Prefix(plan, n) == [k \in 1..n |-> plan[k - 1]]
Counted(begins, n) == Cardinality({k \in 1..n : begins[k - 1]})

Planned(n) == [k \in 1..n |-> EntryAt(k - 1)]

Complete(r) == visited[r] = TotalSamples /\ batch[r] = <<>>

RunTypes ==
    /\ options \in Datasets
    /\ pc \in [Runs -> {"start", "visit", "flush", "write", "publish", "rename"} \cup Ended]
    /\ visited \in [Runs -> Nat]
    /\ batch \in [Runs -> Seq(Entry)]
    /\ listed \in [Runs -> Seq(File)]
    /\ series \in [Runs -> Nat]

\* What a run has listed and what waits in its batch are the samples it has
\* emitted, in full files; the total counts the series they begin.
DataOK(r) ==
    /\ EntriesOf(listed[r]) \o batch[r] = Prefix(Plan, visited[r])
    /\ \A f \in 1..Len(listed[r]) :
          listed[r][f].seed = r /\ Len(listed[r][f].entries) \in 1..MaxSamples
    /\ series[r] = Counted(Begins, visited[r])
    /\ Len(batch[r]) <= MaxSamples

\* Where a run is tells how full its batch is, and what it has emitted.
PlaceOK(r) ==
    /\ pc[r] \in {"start", "visit"} => Len(batch[r]) < MaxSamples
    /\ pc[r] \in {"flush", "write"} => batch[r] # <<>>
    /\ pc[r] \in {"publish", "rename", "published"} => Complete(r)
    /\ pc[r] = "start" => listed[r] = <<>>

RunInv == \A r \in Runs : DataOK(r) /\ PlaceOK(r)

-----------------------------------------------------------------------------
(* The directory.                                                            *)

Written(r) == pc[r] \in {"rename", "published", "failed", "dead"} /\ Complete(r)
Published == \E r \in Runs : pc[r] = "published"

DirTypes ==
    /\ IsFiniteSet(DOMAIN bins)
    /\ partial \in {None, Torn} \cup SummaryFile
    /\ summary \in {None, Torn} \cup SummaryFile
    /\ edits \in Nat

\* A complete manifest, under either name, is that of a run that has emitted all
\* its samples; it has its final name only after some run published.
DirInv ==
    /\ partial \in {None, Torn} \/ \E r \in Runs : Written(r) /\ partial = Manifest(r)
    /\ edits = 0 => summary \in {None, Torn} \/ \E r \in Runs : Written(r) /\ summary = Manifest(r)
    /\ summary # None => Published
    /\ (\E r \in Runs : pc[r] \in {"publish", "rename"}) /\ partial = None => Published

\* The directory holds the files and nothing else of their kind.
Holds(files) ==
    /\ DOMAIN bins = 0..(Len(files) - 1)
    /\ \A f \in 1..Len(files) : bins[f - 1] = files[f]

Busy(r) == pc[r] \notin Ended \cup {"start"}

\* Runs that do not overlap: the one that is at work has the directory for itself.
SoloInv == ~Overlap =>
    /\ \A q \in Runs : \A r \in Runs : Busy(q) /\ Busy(r) => q = r
    /\ \A r \in Runs : Busy(r) => summary = None
    /\ \A r \in Runs : pc[r] \in {"visit", "flush", "publish", "rename"} => Holds(listed[r])
    /\ \A r \in Runs : pc[r] = "write" =>
          /\ DOMAIN bins = 0..Len(listed[r])
          /\ \A f \in 1..Len(listed[r]) : bins[f - 1] = listed[r][f]
    /\ \A r \in Runs : pc[r] \in {"visit", "flush", "write"} => partial = None
    /\ \A r \in Runs : pc[r] = "publish" => partial = Torn
    /\ \A r \in Runs : pc[r] = "rename" => partial = Manifest(r)
    /\ Published => summary \in SummaryFile /\ partial = None
    /\ \A r \in Runs : pc[r] = "published" /\ edits = 0 => summary = Manifest(r) /\ Holds(listed[r])
    /\ edits > 0 =>
          /\ Published
          /\ summary.series = Counted(Begins, TotalSamples)
          /\ \E entries \in Seq(Entry) : summary.files = FilesOf(entries) /\ Holds(FilesOf(entries))

-----------------------------------------------------------------------------
(* The order of one scrape.                                                  *)

LEMMA OptionFacts ==
    ASSUME options \in Datasets
    PROVE  /\ SeriesOf \in Seq(Nat \ {0}) /\ Len(SeriesOf) \in Nat \ {0}
           /\ Metrics = 1..Len(SeriesOf)
           /\ ChurnCount \in Seq(Nat) /\ DOMAIN ChurnCount = Metrics
           /\ Window \in Nat \ {0} /\ IntervalMillis \in Nat \ {0}
           /\ ChurnIntervalMillis \in Nat \ {0} /\ MaxSamples \in Nat \ {0}
<1>1. /\ options.series \in Seq(Nat \ {0}) /\ options.series # <<>>
      /\ options.churn \in Seq(Nat) /\ Len(options.churn) = Len(options.series)
      /\ {options.window, options.interval, options.churnInterval, options.maxSamples} \subseteq Nat \ {0}
  BY OptionsAssumption
<1> DEFINE given == options.series
           churn == options.churn
<1>2. given \in Seq(Nat \ {0}) /\ given # <<>> /\ churn \in Seq(Nat) /\ Len(churn) = Len(given)
  BY <1>1
<1> HIDE DEF given, churn
<1>3. Len(given) \in Nat \ {0} /\ DOMAIN given = 1..Len(given) /\ DOMAIN churn = 1..Len(given)
  BY <1>2
<1> QED
  BY <1>1, <1>2, <1>3 DEF given, churn, SeriesOf, ChurnCount, Window, IntervalMillis, ChurnIntervalMillis,
                     MaxSamples, Metrics

Places == [metric : Metrics, series : Nat \ {0}]
Block(m) == [s \in 1..SeriesOf[m] |-> [metric |-> m, series |-> s]]
Blocks == [m \in Metrics |-> Block(m)]

\* The place in a scrape after p.
After(p) == IF p.series = SeriesOf[p.metric] THEN [metric |-> p.metric + 1, series |-> 1]
            ELSE [metric |-> p.metric, series |-> p.series + 1]

\* The places of the first n metrics, in order.
Chain(f, n) ==
    /\ f \in Seq(Places)
    /\ Len(f) = SumFunctionOnSet(SeriesOf, 1..n)
    /\ \A i \in 1..Len(f) : f[i].series <= SeriesOf[f[i].metric]
    /\ \A i \in 1..(Len(f) - 1) : f[i + 1] = After(f[i])
    /\ n > 0 => /\ Len(f) > 0
                /\ f[1] = [metric |-> 1, series |-> 1]
                /\ f[Len(f)] = [metric |-> n, series |-> SeriesOf[n]]

LEMMA BlockFacts ==
    ASSUME options \in Datasets, NEW m \in Metrics
    PROVE  /\ Block(m) \in Seq(Places)
           /\ Len(Block(m)) = SeriesOf[m]
           /\ SeriesOf[m] \in Nat \ {0}
           /\ \A s \in 1..SeriesOf[m] : Block(m)[s] = [metric |-> m, series |-> s]
<1>1. SeriesOf[m] \in Nat \ {0}
  BY OptionFacts
<1> DEFINE n == SeriesOf[m]
<1> HIDE DEF n
<1>2. n \in Nat \ {0} /\ Block(m) = [s \in 1..n |-> [metric |-> m, series |-> s]]
  BY <1>1 DEF n, Block
<1>3. \A s \in 1..n : [metric |-> m, series |-> s] \in Places
  BY <1>2 DEF Places
<1> DEFINE P == Places
<1> HIDE DEF P
<1>4. Block(m) \in Seq(P) /\ Len(Block(m)) = n
  BY <1>2, <1>3 DEF P
<1> QED
  BY <1>2, <1>4 DEF n, P

LEMMA BlocksSeq ==
    ASSUME options \in Datasets
    PROVE  /\ Blocks \in Seq(Seq(Places))
           /\ Len(Blocks) = Len(SeriesOf)
           /\ \A m \in 1..Len(SeriesOf) : Blocks[m] = Block(m)
           /\ ScrapeOrder = FlattenSeq(Blocks)
<1>1. Metrics = 1..Len(SeriesOf) /\ Len(SeriesOf) \in Nat
  BY OptionFacts
<1> DEFINE n == Len(SeriesOf)
           Q == Seq(Places)
<1>2. \A m \in 1..n : Block(m) \in Q
  BY <1>1, BlockFacts
<1>3. Blocks = [m \in 1..n |-> Block(m)]
  BY <1>1 DEF Blocks
<1> HIDE DEF n, Q
<1>4. Blocks \in Seq(Q) /\ Len(Blocks) = n
  BY <1>1, <1>2, <1>3 DEF n
<1> QED
  BY <1>3, <1>4 DEF n, Q, Blocks, Block, ScrapeOrder

\* One more block after a chain.
LEMMA ChainStep ==
    ASSUME options \in Datasets, NEW n \in Nat, n + 1 \in Metrics, NEW f, Chain(f, n)
    PROVE  Chain(f \o Block(n + 1), n + 1)
<1> DEFINE b == Block(n + 1)
           l == Len(f)
           k == SeriesOf[n + 1]
           fb == f \o b
<1>1. /\ b \in Seq(Places) /\ Len(b) = k /\ k \in Nat \ {0}
      /\ \A s \in 1..k : b[s] = [metric |-> n + 1, series |-> s]
  BY BlockFacts
<1>2. f \in Seq(Places) /\ l \in Nat
  BY DEF Chain
<1>3. /\ SumFunctionOnSet(SeriesOf, 1..n) \in Int
      /\ SumFunctionOnSet(SeriesOf, 1..(n + 1)) = SumFunctionOnSet(SeriesOf, 1..n) + k
  <2>1. \A i \in 1..(n + 1) : SeriesOf[i] \in Int
    BY OptionFacts
  <2> QED
    BY <2>1, SumLast
<1>4. /\ l = SumFunctionOnSet(SeriesOf, 1..n)
      /\ \A i \in 1..l : f[i].series <= SeriesOf[f[i].metric]
      /\ \A i \in 1..(l - 1) : f[i + 1] = After(f[i])
      /\ n > 0 => l > 0 /\ f[1] = [metric |-> 1, series |-> 1]
                  /\ f[l] = [metric |-> n, series |-> SeriesOf[n]]
  BY DEF Chain
<1>0. n = 0 => l = 0
  <2> SUFFICES ASSUME n = 0 PROVE l = 0
    OBVIOUS
  <2>1. 1..n = {}
    OBVIOUS
  <2> QED
    BY <1>4, <2>1, SumEmpty
<1> DEFINE P == Places
<1>14. b \in Seq(P) /\ f \in Seq(P) /\ l = Len(f) /\ fb = f \o b
  BY <1>1, <1>2
<1> HIDE DEF P, b, l, k, fb
<1>5. fb \in Seq(P) /\ Len(fb) = l + k
      /\ \A i \in 1..(l + k) : fb[i] = IF i <= l THEN f[i] ELSE b[i - l]
  <2>1. Len(b) = k /\ k \in Nat /\ l \in Nat
    BY <1>1, <1>2
  <2> QED
    BY <2>1, <1>14
<1>6. \A i \in 1..l : fb[i] = f[i]
  BY <1>1, <1>2, <1>5
<1>7. \A s \in 1..k : fb[l + s] = [metric |-> n + 1, series |-> s]
  <2> SUFFICES ASSUME NEW s \in 1..k PROVE fb[l + s] = [metric |-> n + 1, series |-> s]
    OBVIOUS
  <2>1. l + s \in 1..(l + k) /\ ~(l + s <= l) /\ (l + s) - l = s
    BY <1>1, <1>2
  <2>2. fb[l + s] = b[(l + s) - l]
    BY <1>5, <2>1
  <2> QED
    BY <1>1, <2>1, <2>2
<1>8. \A i \in 1..(l + k) : fb[i].series <= SeriesOf[fb[i].metric]
  <2> TAKE i \in 1..(l + k)
  <2>1. CASE i \in 1..l
    BY <1>4, <1>6, <2>1
  <2>2. CASE i \notin 1..l
    <3>1. PICK s \in 1..k : l + s = i
      <4>1. i - l \in 1..k /\ l + (i - l) = i
        BY <1>1, <1>2, <2>2
      <4> QED
        BY <4>1
    <3>2. fb[i] = [metric |-> n + 1, series |-> s] /\ s <= k
      BY <1>1, <1>7, <3>1
    <3> QED
      BY <3>2 DEF k
  <2> QED
    BY <2>1, <2>2
<1>9. \A i \in 1..(l + k - 1) : fb[i + 1] = After(fb[i])
  <2> TAKE i \in 1..(l + k - 1)
  <2>1. CASE i < l
    <3>1. i \in 1..(l - 1) /\ i + 1 \in 1..l /\ i \in 1..l
      BY <1>2, <2>1
    <3> QED
      BY <1>4, <1>6, <3>1
  <2>2. CASE i = l
    <3>1. fb[i] = f[l] /\ n > 0 /\ l \in 1..l
      BY <1>0, <1>2, <1>6, <2>2
    <3>2. fb[i + 1] = [metric |-> n + 1, series |-> 1]
      BY <1>1, <1>7, <2>2
    <3>3. After([metric |-> n, series |-> SeriesOf[n]]) = [metric |-> n + 1, series |-> 1]
      BY DEF After
    <3> QED
      BY <1>4, <3>1, <3>2, <3>3
  <2>3. CASE i > l
    <3>1. PICK s \in 1..(k - 1) : l + s = i
      <4>1. i - l \in 1..(k - 1) /\ l + (i - l) = i
        BY <1>1, <1>2, <2>3
      <4> QED
        BY <4>1
    <3>2. s \in 1..k /\ s + 1 \in 1..k /\ l + (s + 1) = i + 1 /\ s # k
      BY <1>1, <1>2, <3>1
    <3>3. fb[i] = [metric |-> n + 1, series |-> s] /\ fb[i + 1] = [metric |-> n + 1, series |-> s + 1]
      <4>1. fb[l + s] = [metric |-> n + 1, series |-> s]
            /\ fb[l + (s + 1)] = [metric |-> n + 1, series |-> s + 1]
        BY <1>7, <3>2
      <4> QED
        BY <3>1, <3>2, <4>1
    <3>4. After([metric |-> n + 1, series |-> s]) = [metric |-> n + 1, series |-> s + 1]
      BY <3>2 DEF After, k
    <3> QED
      BY <3>3, <3>4
  <2> QED
    BY <1>2, <2>1, <2>2, <2>3
<1>10. fb[1] = [metric |-> 1, series |-> 1]
  <2>1. CASE n = 0
    <3>1. l + 1 = 1 /\ 1 \in 1..k
      BY <1>0, <1>1, <2>1
    <3> QED
      BY <1>7, <2>1, <3>1
  <2>2. CASE n # 0
    BY <1>2, <1>4, <1>6, <2>2
  <2> QED
    BY <2>1, <2>2
<1>11. fb[l + k] = [metric |-> n + 1, series |-> k]
  BY <1>1, <1>7
<1>12. l + k > 0 /\ n + 1 > 0
  BY <1>1, <1>2
<1>13. l + k = SumFunctionOnSet(SeriesOf, 1..(n + 1))
  BY <1>3, <1>4
<1>15. Chain(fb, n + 1)
  <2>1. fb \in Seq(Places)
    BY <1>5 DEF P
  <2>2. Len(fb) = l + k
    BY <1>5
  <2>3. \A i \in 1..(Len(fb) - 1) : fb[i + 1] = After(fb[i])
    <3>1. l \in Nat /\ k \in Nat
      BY <1>1, <1>2
    <3>2. Len(fb) - 1 = l + k - 1
      BY <2>2, <3>1
    <3> QED
      BY <1>9, <3>2
  <2>4. \A i \in 1..Len(fb) : fb[i].series <= SeriesOf[fb[i].metric]
    BY <1>8, <2>2
  <2>5. Len(fb) > 0 /\ fb[Len(fb)] = [metric |-> n + 1, series |-> SeriesOf[n + 1]]
    BY <1>11, <1>12, <2>2 DEF k
  <2> QED
    BY <1>10, <1>13, <2>1, <2>2, <2>3, <2>4, <2>5 DEF Chain
<1> QED
  BY <1>15 DEF fb, b

\* A scrape holds each series of each metric once, metric after metric.
LEMMA OrderFacts ==
    ASSUME options \in Datasets
    PROVE  /\ BaseSeries \in Nat \ {0}
           /\ Chain(ScrapeOrder, Len(SeriesOf))
           /\ Len(ScrapeOrder) = BaseSeries
           /\ IsInjective(ScrapeOrder)
<1> DEFINE m == Len(SeriesOf)
           F(n) == FlattenTo(Blocks, n)
           T == {n \in Nat : n <= m => Chain(F(n), n)}
<1>0. /\ m \in Nat \ {0} /\ Metrics = 1..m /\ Blocks \in Seq(Seq(Places)) /\ Len(Blocks) = m
      /\ \A c \in 1..m : Blocks[c] = Block(c)
      /\ ScrapeOrder = FlattenSeq(Blocks)
  BY OptionFacts, BlocksSeq
<1>1. 0 \in T
  <2>1. F(0) = <<>>
    BY <1>0, FlattenEnds
  <2>2. 1..0 = {}
    OBVIOUS
  <2>3. <<>> \in Seq(Places) /\ Len(<<>>) = 0
    OBVIOUS
  <2>4. Chain(<<>>, 0)
    BY <2>2, <2>3, SumEmpty DEF Chain
  <2> QED
    BY <2>1, <2>4
<1>2. ASSUME NEW n \in Nat, n \in T PROVE n + 1 \in T
  <2> SUFFICES ASSUME n + 1 <= m PROVE Chain(F(n + 1), n + 1)
    OBVIOUS
  <2>1. n < Len(Blocks) /\ n + 1 \in 1..m /\ n + 1 \in Metrics
    BY <1>0
  <2>2. Chain(F(n), n)
    BY <1>0, <1>2, <2>1
  <2>3. F(n + 1) = IF n = 0 THEN Blocks[1] ELSE F(n) \o Blocks[n + 1]
    BY <1>0, <2>1, FlattenStep
  <2>4. Chain(F(n) \o Block(n + 1), n + 1)
    <3> HIDE DEF F
    <3> QED
      BY <2>1, <2>2, ChainStep
  <2>5. F(n + 1) = F(n) \o Block(n + 1)
    <3>1. CASE n = 0
      <4>1. F(0) = <<>>
        BY <1>0, FlattenEnds
      <4>2. F(n + 1) = Block(1) /\ Block(1) \in Seq(Places)
        BY <1>0, <2>1, <2>3, <3>1, BlockFacts
      <4>3. F(n + 1) = <<>> \o Block(1)
        <5> DEFINE b == Block(1)
        <5>1. b \in Seq(Places)
          BY <4>2
        <5> HIDE DEF b
        <5>2. <<>> \o b = b
          BY <5>1
        <5> QED
          BY <4>2, <5>2 DEF b
      <4> HIDE DEF F
      <4>4. F(n) = <<>> /\ n + 1 = 1
        BY <3>1, <4>1
      <4>5. Block(n + 1) = Block(1)
        BY <4>4
      <4> QED
        BY <4>3, <4>4, <4>5
    <3>2. CASE n # 0
      BY <1>0, <2>1, <2>3, <3>2
    <3> QED
      BY <3>1, <3>2
  <2> QED
    BY <2>4, <2>5
<1> HIDE DEF T
<1>3. m \in T
  BY <1>0, <1>1, <1>2, NumbersInduction
<1>4. F(m) = ScrapeOrder
  BY <1>0, FlattenEnds
<1>5. Chain(ScrapeOrder, m)
  BY <1>0, <1>3, <1>4 DEF T
<1>6. BaseSeries = SumFunctionOnSet(SeriesOf, 1..m)
  BY <1>0 DEF BaseSeries, SumFunction, Metrics
<1>7. Len(ScrapeOrder) = BaseSeries /\ ScrapeOrder \in Seq(Places) /\ Len(ScrapeOrder) > 0
  BY <1>0, <1>5, <1>6 DEF Chain
<1>8. IsInjective(ScrapeOrder)
  <2>1. \A c \in 1..m : IsInjective(Blocks[c])
    <3> SUFFICES ASSUME NEW c \in 1..m PROVE IsInjective(Block(c))
      BY <1>0
    <3>1. DOMAIN Block(c) = 1..SeriesOf[c]
      BY DEF Block
    <3>2. \A i \in 1..SeriesOf[c] : Block(c)[i].series = i
      BY DEF Block
    <3> QED
      BY <3>1, <3>2 DEF IsInjective
  <2>2. \A c \in 1..m : \A x \in Range(Blocks[c]) : x.metric = c
    <3> SUFFICES ASSUME NEW c \in 1..m, NEW x \in Range(Block(c)) PROVE x.metric = c
      BY <1>0
    <3>1. PICK i \in DOMAIN Block(c) : x = Block(c)[i]
      BY DEF Range
    <3> QED
      BY <3>1 DEF Block
  <2>3. \A c, d \in 1..m : c # d => Range(Blocks[c]) \cap Range(Blocks[d]) = {}
    BY <2>2
  <2> QED
    BY <1>0, <2>1, <2>3, FlattenInjective
<1> QED
  BY <1>5, <1>7, <1>8

\* The options of a directory are given once.
LEMMA PlanStays ==
    ASSUME options' = options
    PROVE  /\ Plan' = Plan /\ Begins' = Begins /\ TotalSamples' = TotalSamples /\ BaseSeries' = BaseSeries
           /\ MaxSamples' = MaxSamples /\ Overlap' = Overlap
           /\ ScrapeOrder' = ScrapeOrder /\ SamplesPerSeries' = SamplesPerSeries
<1>1. ScrapeOrder' = ScrapeOrder /\ BaseSeries' = BaseSeries /\ SamplesPerSeries' = SamplesPerSeries
  BY DEF ScrapeOrder, BaseSeries, SamplesPerSeries, Metrics, SeriesOf, Window, IntervalMillis
<1>2. TotalSamples' = TotalSamples
  BY <1>1 DEF TotalSamples
<1>3. MaxSamples' = MaxSamples /\ Overlap' = Overlap
  BY DEF MaxSamples, Overlap
<1>4. Plan' = Plan
  BY <1>1 DEF Plan, EntryAt, EpochAt, ChurnCount, IntervalMillis, ChurnIntervalMillis
<1>5. Begins' = Begins
  BY <1>1 DEF Begins, Starts, StartsSeries, EntryAt, EpochAt, ChurnCount, IntervalMillis,
              ChurnIntervalMillis
<1> QED
  BY <1>1, <1>2, <1>3, <1>4, <1>5

LEMMA PlacesFacts ==
    ASSUME options \in Datasets, NEW k \in Nat
    PROVE  /\ k % BaseSeries \in 0..(BaseSeries - 1) /\ k \div BaseSeries \in Nat
           /\ k = (k \div BaseSeries) * BaseSeries + (k % BaseSeries)
           /\ (k % BaseSeries) + 1 \in 1..BaseSeries
           /\ ScrapeOrder[(k % BaseSeries) + 1] \in Places
<1>1. BaseSeries \in Nat \ {0} /\ ScrapeOrder \in Seq(Places) /\ Len(ScrapeOrder) = BaseSeries
  BY OrderFacts DEF Chain
<1> DEFINE b == BaseSeries
           order == ScrapeOrder
           P == Places
<1>2. b \in Nat \ {0} /\ order \in Seq(P) /\ Len(order) = b
  BY <1>1
<1> HIDE DEF b, order, P
<1>3. k % b \in 0..(b - 1) /\ k \div b \in Nat /\ k = (k \div b) * b + (k % b)
  BY <1>2
<1>4. (k % b) + 1 \in 1..b
  BY <1>2, <1>3
<1>5. order[(k % b) + 1] \in P
  BY <1>2, <1>4
<1> QED
  BY <1>3, <1>4, <1>5 DEF b, order, P

LEMMA EpochNumber ==
    ASSUME options \in Datasets, NEW s \in Nat
    PROVE  EpochAt(s) \in Nat
<1> DEFINE i == IntervalMillis
           c == ChurnIntervalMillis
<1>1. i \in Nat /\ c \in Nat \ {0}
  BY OptionFacts
<1> HIDE DEF i, c
<1>2. s * i \in Nat
  BY <1>1
<1>3. (s * i) \div c \in Nat
  BY <1>1, <1>2
<1> QED
  BY <1>3 DEF EpochAt, i, c

LEMMA EntryFacts ==
    ASSUME options \in Datasets, NEW k \in Nat
    PROVE  /\ EntryAt(k) \in Entry
           /\ EntryAt(k).metric = ScrapeOrder[(k % BaseSeries) + 1].metric
           /\ EntryAt(k).series = ScrapeOrder[(k % BaseSeries) + 1].series
           /\ EntryAt(k).scrape = k \div BaseSeries
           /\ EntryAt(k).epoch =
                 IF ScrapeOrder[(k % BaseSeries) + 1].series <=
                        ChurnCount[ScrapeOrder[(k % BaseSeries) + 1].metric]
                 THEN EpochAt(k \div BaseSeries) ELSE None
<1> DEFINE base == ScrapeOrder[(k % BaseSeries) + 1]
           scrape == k \div BaseSeries
           epoch == IF base.series <= ChurnCount[base.metric] THEN EpochAt(scrape) ELSE None
<1>1. base \in Places /\ scrape \in Nat
  BY PlacesFacts
<1>2. EpochAt(scrape) \in Nat
  <2> HIDE DEF scrape
  <2> QED
    BY <1>1, EpochNumber
<1>3. EntryAt(k) = [metric |-> base.metric, series |-> base.series, scrape |-> scrape, epoch |-> epoch]
  BY DEF EntryAt
<1>4. Metrics \subseteq Nat
  BY OptionFacts
<1> HIDE DEF base, scrape
<1>5. epoch \in Nat \cup {None}
  BY <1>2
<1> HIDE DEF epoch
<1>7. base.metric \in Nat /\ base.series \in Nat
  BY <1>1, <1>4 DEF Places
<1>6. EntryAt(k) \in Entry
  BY <1>1, <1>3, <1>5, <1>7 DEF Entry
<1> QED
  BY <1>3, <1>6 DEF base, scrape, epoch

LEMMA TotalFacts ==
    ASSUME options \in Datasets
    PROVE  /\ SamplesPerSeries \in Nat \ {0}
           /\ TotalSamples \in Nat \ {0}
           /\ BaseSeries <= TotalSamples
<1> DEFINE w == Window
           i == IntervalMillis
           b == BaseSeries
           s == SamplesPerSeries
<1>1. w \in Nat \ {0} /\ i \in Nat \ {0} /\ b \in Nat \ {0}
  BY OptionFacts, OrderFacts
<1>2. s = 1 + (w - 1) \div i
  BY DEF SamplesPerSeries
<1> HIDE DEF w, i, b, s
<1>3. w - 1 \in Nat
  BY <1>1
<1>4. (w - 1) \div i \in Nat
  BY <1>1, <1>3
<1>5. s \in Nat \ {0}
  BY <1>2, <1>4
<1>6. PICK t \in Nat : s = t + 1
  <2>1. s - 1 \in Nat /\ s = (s - 1) + 1
    BY <1>5
  <2> QED
    BY <2>1
<1>7. b * s = b * t + b /\ b * t \in Nat
  BY <1>1, <1>6
<1>8. b * s \in Nat \ {0} /\ b <= b * s
  BY <1>1, <1>7
<1> QED
  BY <1>5, <1>8 DEF TotalSamples, b, s

\* The samples planned are entries of files.
LEMMA PlannedEntries ==
    ASSUME options \in Datasets, NEW n \in Nat
    PROVE  /\ Planned(n) \in Seq(Entry) /\ Len(Planned(n)) = n
           /\ \A k \in 1..n : Planned(n)[k] = EntryAt(k - 1) /\ EntryAt(k - 1) \in Entry
           /\ Planned(n) = Prefix(Plan, n)
<1>1. \A k \in 1..n : EntryAt(k - 1) \in Entry /\ k - 1 \in Nat
  <2> TAKE k \in 1..n
  <2>1. k - 1 \in Nat
    OBVIOUS
  <2> QED
    BY <2>1, EntryFacts
<1> DEFINE E == Entry
<1> HIDE DEF E
<1>2. Planned(n) \in Seq(E) /\ Len(Planned(n)) = n
  BY <1>1 DEF Planned, E
<1> QED
  BY <1>1, <1>2 DEF Planned, Plan, Prefix, E

\* One sample more.
LEMMA PlannedNext ==
    ASSUME options \in Datasets, NEW n \in Nat
    PROVE  Append(Planned(n), EntryAt(n)) = Planned(n + 1)
<1> DEFINE p == Planned(n)
           q == Planned(n + 1)
           e == EntryAt(n)
           E == Entry
<1>1. /\ p \in Seq(E) /\ Len(p) = n /\ q \in Seq(E) /\ Len(q) = n + 1 /\ e \in E
      /\ \A k \in 1..n : p[k] = EntryAt(k - 1)
      /\ \A k \in 1..(n + 1) : q[k] = EntryAt(k - 1)
  <2>1. n + 1 \in Nat
    OBVIOUS
  <2>2. p \in Seq(E) /\ Len(p) = n /\ \A k \in 1..n : p[k] = EntryAt(k - 1)
    BY PlannedEntries
  <2>3. q \in Seq(E) /\ Len(q) = n + 1 /\ \A k \in 1..(n + 1) : q[k] = EntryAt(k - 1)
    BY <2>1, PlannedEntries
  <2>4. e \in E
    BY EntryFacts
  <2> QED
    BY <2>2, <2>3, <2>4
<1>2. q[n + 1] = e
  <2>1. n + 1 \in 1..(n + 1) /\ (n + 1) - 1 = n
    OBVIOUS
  <2> QED
    BY <1>1, <2>1
<1>3. \A k \in 1..n : q[k] = p[k]
  BY <1>1
<1> HIDE DEF p, q, e, E
<1>4. Append(p, e) \in Seq(E) /\ Len(Append(p, e)) = n + 1
      /\ \A k \in 1..(n + 1) : Append(p, e)[k] = q[k]
  BY <1>1, <1>2, <1>3
<1>5. Append(p, e) = q
  BY <1>1, <1>4
<1> QED
  BY <1>5 DEF p, q, e

-----------------------------------------------------------------------------
(* What a run emits.                                                         *)

LEMMA EntriesSeq ==
    ASSUME NEW files \in Seq(File)
    PROVE  /\ [f \in DOMAIN files |-> files[f].entries] \in Seq(Seq(Entry))
           /\ EntriesOf(files) \in Seq(Entry)
<1> DEFINE E == Seq(Entry)
           s == [f \in DOMAIN files |-> files[f].entries]
<1>1. \A f \in 1..Len(files) : files[f].entries \in E
  <2>1. \A file \in File : file.entries \in E
    BY DEF File
  <2>2. \A f \in 1..Len(files) : files[f] \in File
    OBVIOUS
  <2> QED
    BY <2>1, <2>2
<1>2. DOMAIN files = 1..Len(files) /\ Len(files) \in Nat
  OBVIOUS
<1> HIDE DEF E
<1>3. s \in Seq(E)
  BY <1>1, <1>2
<1> HIDE DEF s
<1>4. FlattenSeq(s) \in Seq(Entry)
  BY <1>3, FlattenRange DEF E
<1> QED
  BY <1>3, <1>4 DEF E, s, EntriesOf

\* A file more.
LEMMA EntriesAppend ==
    ASSUME NEW files \in Seq(File), NEW file \in File
    PROVE  EntriesOf(Append(files, file)) = EntriesOf(files) \o file.entries
<1> DEFINE s == [f \in DOMAIN files |-> files[f].entries]
           more == Append(files, file)
           t == [f \in DOMAIN more |-> more[f].entries]
           e == file.entries
           n == Len(files)
<1>1. s \in Seq(Seq(Entry)) /\ t \in Seq(Seq(Entry)) /\ e \in Seq(Entry)
  <2>1. more \in Seq(File)
    OBVIOUS
  <2>2. e \in Seq(Entry)
    BY DEF File
  <2> HIDE DEF more, e
  <2> QED
    BY <2>1, <2>2, EntriesSeq
<1>2. n \in Nat /\ DOMAIN s = 1..n /\ DOMAIN more = 1..(n + 1) /\ more[n + 1] = file
      /\ \A f \in 1..n : more[f] = files[f]
  OBVIOUS
<1>3. DOMAIN t = 1..(n + 1) /\ t[n + 1] = e /\ \A f \in 1..n : t[f] = s[f]
  BY <1>2
<1>4. t = Append(s, e)
  <2> DEFINE E == Seq(Entry)
  <2> HIDE DEF s, t, e, E, n
  <2>1. Len(s) = n /\ Len(t) = n + 1
    BY <1>1, <1>2, <1>3
  <2>2. Append(s, e) \in Seq(E) /\ Len(Append(s, e)) = n + 1 /\ t \in Seq(E)
        /\ Append(s, e)[n + 1] = e /\ \A f \in 1..n : Append(s, e)[f] = s[f]
    BY <1>1, <1>2, <2>1 DEF E
  <2>3. \A f \in 1..(n + 1) : Append(s, e)[f] = t[f]
    BY <1>2, <1>3, <2>2
  <2> QED
    BY <2>1, <2>2, <2>3
<1>5. FlattenSeq(Append(s, e)) = FlattenSeq(s) \o e
  <2> HIDE DEF s, e
  <2> QED
    BY <1>1, FlattenAppend
<1> HIDE DEF s, t, e
<1> QED
  BY <1>4, <1>5 DEF EntriesOf, s, t, e

\* One sample more may begin one series more.
LEMMA CountedNext ==
    ASSUME NEW begins, NEW n \in Nat
    PROVE  /\ Counted(begins, n) \in Nat
           /\ Counted(begins, n + 1) = IF begins[n] THEN Counted(begins, n) + 1 ELSE Counted(begins, n)
<1> DEFINE S == {k \in 1..n : begins[k - 1]}
           T == {k \in 1..(n + 1) : begins[k - 1]}
<1>1. IsFiniteSet(S) /\ n + 1 \notin S
  <2>1. IsFiniteSet(1..n) /\ S \subseteq 1..n
    BY FS_Interval
  <2> QED
    BY <2>1, FS_Subset
<1>2. T = IF begins[n] THEN S \cup {n + 1} ELSE S
  <2>1. 1..(n + 1) = 1..n \cup {n + 1} /\ (n + 1) - 1 = n
    OBVIOUS
  <2> QED
    BY <2>1
<1>3. Cardinality(S \cup {n + 1}) = Cardinality(S) + 1 /\ Cardinality(S) \in Nat
  BY <1>1, FS_AddElement, FS_CardinalityType
<1> HIDE DEF S, T
<1>4. Cardinality(T) = IF begins[n] THEN Cardinality(S) + 1 ELSE Cardinality(S)
  BY <1>2, <1>3
<1> QED
  BY <1>3, <1>4 DEF S, T, Counted

\* A step that is not about what a run emits.
LEMMA DataStays ==
    ASSUME options' = options, NEW r \in Runs, DataOK(r),
           visited'[r] = visited[r], batch'[r] = batch[r], listed'[r] = listed[r], series'[r] = series[r]
    PROVE  DataOK(r)'
BY PlanStays DEF DataOK

\* The callback of one sample.
LEMMA VisitData ==
    ASSUME RunTypes, NEW r \in Runs, DataOK(r), PlaceOK(r), Visit(r), options' = options
    PROVE  RunTypes' /\ DataOK(r)' /\ PlaceOK(r)'
<1> DEFINE n == visited[r]
           e == EntryAt(n)
           b == batch[r]
           old == EntriesOf(listed[r])
           E == Entry
<1>1. /\ n \in Nat /\ b \in Seq(Entry) /\ old \in Seq(Entry) /\ e \in Entry
      /\ listed[r] \in Seq(File) /\ series[r] \in Nat /\ options \in Datasets
  <2>1. n \in Nat /\ b \in Seq(Entry) /\ listed[r] \in Seq(File) /\ series[r] \in Nat
        /\ options \in Datasets
    BY DEF RunTypes
  <2> QED
    BY <2>1, EntriesSeq, EntryFacts
<1>2. /\ visited' = [visited EXCEPT ![r] = n + 1]
      /\ batch' = [batch EXCEPT ![r] = Append(b, e)]
      /\ series' = [series EXCEPT ![r] = IF Starts(e) THEN series[r] + 1 ELSE series[r]]
      /\ pc' = [pc EXCEPT ![r] = IF Len(batch'[r]) = MaxSamples THEN "flush" ELSE "visit"]
      /\ listed' = listed /\ pc[r] = "visit"
  BY DEF Visit, Go, Starts
<1>3. visited'[r] = n + 1 /\ batch'[r] = Append(b, e) /\ listed'[r] = listed[r]
      /\ series'[r] = (IF Starts(e) THEN series[r] + 1 ELSE series[r])
      /\ pc'[r] = (IF Len(Append(b, e)) = MaxSamples THEN "flush" ELSE "visit")
  BY <1>2 DEF RunTypes
<1>4. RunTypes'
  <2>1. Append(b, e) \in Seq(Entry)
    <3> HIDE DEF b, e
    <3> QED
      BY <1>1
  <2>2. visited' \in [Runs -> Nat]
    BY <1>1, <1>2 DEF RunTypes
  <2>3. series' \in [Runs -> Nat]
    BY <1>1, <1>2 DEF RunTypes
  <2>4. batch' \in [Runs -> Seq(Entry)]
    <3> HIDE DEF b, e
    <3> QED
      BY <1>2, <2>1 DEF RunTypes
  <2>5. pc' \in [Runs -> {"start", "visit", "flush", "write", "publish", "rename"} \cup Ended]
    BY <1>2 DEF RunTypes
  <2> QED
    BY <1>1, <1>2, <2>2, <2>3, <2>4, <2>5 DEF RunTypes
<1>5. old \o b = Prefix(Plan, n) /\ Len(b) <= MaxSamples /\ Len(b) < MaxSamples
      /\ series[r] = Counted(Begins, n)
  BY <1>2 DEF DataOK, PlaceOK
<1>6. Prefix(Plan, n + 1) = Append(Prefix(Plan, n), e)
  <2> HIDE DEF n, e
  <2>1. n + 1 \in Nat
    BY <1>1
  <2>2. Planned(n) = Prefix(Plan, n) /\ Planned(n + 1) = Prefix(Plan, n + 1)
    BY <1>1, <2>1, PlannedEntries
  <2>3. Append(Planned(n), EntryAt(n)) = Planned(n + 1)
    BY <1>1, PlannedNext
  <2> QED
    BY <2>2, <2>3 DEF e
<1>7. /\ old \o Append(b, e) = Append(old \o b, e)
      /\ Len(Append(b, e)) = Len(b) + 1 /\ Append(b, e) # <<>> /\ Len(b) \in Nat
  <2> HIDE DEF b, e, old
  <2>0. b \in Seq(E) /\ e \in E
    BY <1>1
  <2>1. Len(Append(b, e)) = Len(b) + 1 /\ Append(b, e) # <<>> /\ Len(b) \in Nat
    BY <2>0
  <2>2. old \o Append(b, e) = Append(old \o b, e)
    BY <1>1, ConcatAppend
  <2> QED
    BY <2>1, <2>2
<1>8. Counted(Begins, n + 1) = IF Starts(e) THEN series[r] + 1 ELSE series[r]
  <2>1. Begins[n] = Starts(e)
    BY <1>1 DEF Begins
  <2> QED
    BY <1>1, <1>5, <2>1, CountedNext
<1>9. MaxSamples \in Nat \ {0} /\ MaxSamples' = MaxSamples
  BY <1>1, OptionFacts, PlanStays
<1>10. DataOK(r)'
  <2>1. EntriesOf(listed'[r]) \o batch'[r] = Prefix(Plan', visited'[r])
    BY <1>3, <1>5, <1>6, <1>7, PlanStays
  <2>2. series'[r] = Counted(Begins', visited'[r])
    BY <1>3, <1>8, PlanStays
  <2>3. Len(batch'[r]) <= MaxSamples'
    BY <1>3, <1>5, <1>7, <1>9
  <2>4. \A f \in 1..Len(listed[r]) : listed[r][f].seed = r /\ Len(listed[r][f].entries) \in 1..MaxSamples
    BY DEF DataOK
  <2> QED
    BY <1>3, <1>9, <2>1, <2>2, <2>3, <2>4 DEF DataOK
<1>11. PlaceOK(r)'
  BY <1>3, <1>5, <1>7, <1>9 DEF PlaceOK
<1> QED
  BY <1>4, <1>10, <1>11

\* A full batch is written.
LEMMA WriteData ==
    ASSUME RunTypes, NEW r \in Runs, DataOK(r), PlaceOK(r), WriteBin(r), options' = options
    PROVE  /\ RunTypes' /\ DataOK(r)' /\ PlaceOK(r)'
<1> DEFINE b == batch[r]
           l == listed[r]
           c == [seed |-> r, entries |-> b]
<1>1. b \in Seq(Entry) /\ l \in Seq(File) /\ options \in Datasets /\ visited[r] \in Nat
      /\ pc[r] = "write"
  BY DEF RunTypes, WriteBin
<1>2. c \in File
  BY <1>1 DEF File
<1>3. /\ listed' = [listed EXCEPT ![r] = Append(l, c)] /\ batch' = [batch EXCEPT ![r] = <<>>]
      /\ pc' = [pc EXCEPT ![r] = "visit"]
      /\ visited' = visited /\ series' = series
  BY DEF WriteBin, Go
<1>4. listed'[r] = Append(l, c) /\ batch'[r] = <<>> /\ pc'[r] = "visit"
  BY <1>3 DEF RunTypes
<1>5. Append(l, c) \in Seq(File) /\ <<>> \in Seq(Entry) /\ Len(<<>>) = 0
  <2> HIDE DEF c, l
  <2> QED
    BY <1>1, <1>2
<1>6. RunTypes'
  <2>1. listed' \in [Runs -> Seq(File)]
    <3> HIDE DEF c, l
    <3> QED
      BY <1>3, <1>5 DEF RunTypes
  <2>2. batch' \in [Runs -> Seq(Entry)]
    BY <1>3, <1>5 DEF RunTypes
  <2>3. pc' \in [Runs -> {"start", "visit", "flush", "write", "publish", "rename"} \cup Ended]
    BY <1>3 DEF RunTypes
  <2> QED
    BY <1>3, <2>1, <2>2, <2>3 DEF RunTypes
<1>7. MaxSamples \in Nat \ {0} /\ MaxSamples' = MaxSamples
  BY <1>1, OptionFacts, PlanStays
<1>8. EntriesOf(Append(l, c)) \o <<>> = Prefix(Plan, visited[r])
  <2>1. EntriesOf(Append(l, c)) = EntriesOf(l) \o b
    <3> HIDE DEF c, l
    <3>1. EntriesOf(Append(l, c)) = EntriesOf(l) \o c.entries
      BY <1>1, <1>2, EntriesAppend
    <3> QED
      BY <3>1 DEF c
  <2>2. EntriesOf(l) \o b = Prefix(Plan, visited[r])
    BY DEF DataOK
  <2>3. EntriesOf(Append(l, c)) \in Seq(Entry)
    <3> HIDE DEF c, l
    <3> QED
      BY <1>5, EntriesSeq
  <2>4. EntriesOf(Append(l, c)) \o <<>> = EntriesOf(Append(l, c))
    <3> DEFINE x == EntriesOf(Append(l, c))
    <3>1. x \in Seq(Entry)
      BY <2>3
    <3> HIDE DEF x
    <3>2. x \o <<>> = x
      BY <3>1
    <3> QED
      BY <3>2 DEF x
  <2> QED
    BY <2>1, <2>2, <2>4
<1>9. \A f \in 1..Len(Append(l, c)) :
         Append(l, c)[f].seed = r /\ Len(Append(l, c)[f].entries) \in 1..MaxSamples
  <2>1. Len(b) \in 1..MaxSamples
    <3>1. b # <<>> /\ Len(b) <= MaxSamples
      BY <1>1 DEF PlaceOK, DataOK
    <3> HIDE DEF b
    <3>2. Len(b) \in Nat /\ Len(b) # 0
      BY <1>1, <3>1
    <3> QED
      BY <1>7, <3>1, <3>2
  <2>2. c.seed = r /\ Len(c.entries) \in 1..MaxSamples
    BY <2>1
  <2>3. \A f \in 1..Len(l) : l[f].seed = r /\ Len(l[f].entries) \in 1..MaxSamples
    BY DEF DataOK
  <2> HIDE DEF c, l
  <2>4. /\ Len(Append(l, c)) = Len(l) + 1 /\ Append(l, c)[Len(l) + 1] = c /\ Len(l) \in Nat
        /\ \A f \in 1..Len(l) : Append(l, c)[f] = l[f]
    BY <1>1, <1>2
  <2>5. \A f \in 1..(Len(l) + 1) : f \in 1..Len(l) \/ f = Len(l) + 1
    BY <2>4
  <2> QED
    BY <2>2, <2>3, <2>4, <2>5
<1>10. DataOK(r)'
  <2> HIDE DEF c, l
  <2>1. EntriesOf(listed'[r]) \o batch'[r] = Prefix(Plan', visited'[r])
    BY <1>3, <1>4, <1>8, PlanStays
  <2>2. series'[r] = Counted(Begins', visited'[r])
    BY <1>3, PlanStays DEF DataOK
  <2>3. Len(batch'[r]) <= MaxSamples'
    BY <1>4, <1>5, <1>7
  <2> QED
    BY <1>4, <1>7, <1>9, <2>1, <2>2, <2>3 DEF DataOK
<1>11. PlaceOK(r)'
  BY <1>4, <1>5, <1>7 DEF PlaceOK
<1> QED
  BY <1>6, <1>10, <1>11

\* Every step keeps what a run has emitted, file by file.
LEMMA RunStep ==
    ASSUME RunTypes, RunInv, Next
    PROVE  RunTypes' /\ RunInv'
<1>0. options' = options
  BY DEF Next
<1> DEFINE Still == visited' = visited /\ batch' = batch /\ listed' = listed /\ series' = series
           Others(r) == \A q \in Runs \ {r} : /\ pc'[q] = pc[q] /\ visited'[q] = visited[q]
                                              /\ batch'[q] = batch[q] /\ listed'[q] = listed[q]
                                              /\ series'[q] = series[q]
<1>1. ASSUME NEW q \in Runs, pc'[q] = pc[q], visited'[q] = visited[q], batch'[q] = batch[q],
             listed'[q] = listed[q], series'[q] = series[q]
      PROVE  DataOK(q)' /\ PlaceOK(q)'
  <2>1. DataOK(q) /\ PlaceOK(q)
    BY DEF RunInv
  <2>2. DataOK(q)'
    BY <1>0, <1>1, <2>1, DataStays
  <2>3. MaxSamples' = MaxSamples /\ TotalSamples' = TotalSamples
    BY <1>0, PlanStays
  <2>4. PlaceOK(q)'
    BY <1>1, <2>1, <2>3 DEF PlaceOK, Complete
  <2> QED
    BY <2>2, <2>4
<1>2. ASSUME NEW r \in Active, Visit(r) \/ WriteBin(r)
      PROVE  RunTypes' /\ RunInv'
  <2>1. r \in Runs
    BY <1>2, DatasetsAssumption DEF RunTypes, Active
  <2>2. DataOK(r) /\ PlaceOK(r)
    BY <2>1 DEF RunInv
  <2>3. RunTypes' /\ DataOK(r)' /\ PlaceOK(r)'
    BY <1>0, <1>2, <2>1, <2>2, VisitData, WriteData
  <2>4. \A q \in Runs \ {r} : /\ pc'[q] = pc[q] /\ visited'[q] = visited[q]
                             /\ batch'[q] = batch[q] /\ listed'[q] = listed[q]
                             /\ series'[q] = series[q]
    <3> TAKE q \in Runs \ {r}
    <3>1. CASE Visit(r)
      BY <3>1 DEF Visit, Go, RunTypes
    <3>2. CASE WriteBin(r)
      BY <3>2 DEF WriteBin, Go, RunTypes
    <3> QED
      BY <1>2, <3>1, <3>2
  <2> QED
    BY <1>1, <2>3, <2>4 DEF RunInv
<1>3. ASSUME NEW r \in Runs, Still, NEW where \in {"visit", "flush", "write", "publish", "rename"} \cup Ended,
             pc' = [pc EXCEPT ![r] = where],
             where = "visit" => pc[r] \in {"start", "visit"},
             where \in {"flush", "write"} => batch[r] # <<>>,
             where \in {"publish", "rename", "published"} => Complete(r)
      PROVE  RunTypes' /\ RunInv'
  <2>1. RunTypes'
    <3>1. pc' \in [Runs -> {"start", "visit", "flush", "write", "publish", "rename"} \cup Ended]
      BY <1>3 DEF RunTypes
    <3> QED
      BY <1>0, <1>3, <3>1 DEF RunTypes
  <2>2. DataOK(r)' /\ PlaceOK(r)'
    <3>1. DataOK(r) /\ PlaceOK(r)
      BY DEF RunInv
    <3>2. DataOK(r)'
      BY <1>0, <1>3, <3>1, DataStays
    <3>3. MaxSamples' = MaxSamples /\ TotalSamples' = TotalSamples /\ pc'[r] = where
      BY <1>0, <1>3, PlanStays DEF RunTypes
    <3>4. PlaceOK(r)'
      <4>1. where # "start" /\ batch'[r] = batch[r] /\ visited'[r] = visited[r] /\ listed'[r] = listed[r]
        BY <1>3 DEF Ended
      <4>2. where = "visit" => Len(batch[r]) < MaxSamples
        BY <1>3, <3>1 DEF PlaceOK
      <4>3. Complete(r)' <=> Complete(r)
        BY <3>3, <4>1 DEF Complete
      <4> HIDE DEF Still
      <4> QED
        BY <1>3, <3>3, <4>1, <4>2, <4>3 DEF PlaceOK
    <3> QED
      BY <3>2, <3>4
  <2>3. \A q \in Runs \ {r} : pc'[q] = pc[q]
    BY <1>3 DEF RunTypes
  <2> QED
    BY <1>1, <1>3, <2>1, <2>2, <2>3 DEF RunInv
<1>4. ASSUME Still, pc' = pc PROVE RunTypes' /\ RunInv'
  BY <1>0, <1>1, <1>4 DEF RunTypes, RunInv
<1>5. ASSUME NEW r \in Active,
             (Start(r) \/ LastFlush(r) \/ OpenBin(r)) \/ (OpenSummary(r) \/ WriteSummary(r) \/ Rename(r))
             \/ (CancelVisit(r) \/ CancelFlush(r) \/ WriteFails(r)) \/ Crash(r)
      PROVE  RunTypes' /\ RunInv'
  <2>0. r \in Runs
    BY <1>5, DatasetsAssumption DEF RunTypes, Active
  <2>p. PlaceOK(r)
    BY <2>0 DEF RunInv
  <2> HIDE DEF Still
  <2>1. CASE Start(r)
    <3> DEFINE where == IF Entries = 0 THEN "visit" ELSE "refused"
    <3>1. Still /\ pc' = [pc EXCEPT ![r] = where] /\ pc[r] = "start" /\ where \in {"visit", "refused"}
      BY <2>1 DEF Start, Go, Still
    <3> HIDE DEF where
    <3> QED
      BY <1>3, <2>0, <3>1 DEF Ended
  <2>2. CASE LastFlush(r)
    <3>1. Still /\ pc' = [pc EXCEPT ![r] = "flush"] /\ batch[r] # <<>>
      BY <2>2 DEF LastFlush, Go, Still
    <3> QED
      BY <1>3, <2>0, <3>1
  <2>3. CASE OpenBin(r)
    <3>1. Still /\ pc' = [pc EXCEPT ![r] = "write"] /\ batch[r] # <<>>
      BY <2>3, <2>p DEF OpenBin, Go, Still, PlaceOK
    <3> QED
      BY <1>3, <2>0, <3>1
  <2>4. CASE OpenSummary(r)
    <3>1. Still /\ pc' = [pc EXCEPT ![r] = "publish"] /\ Complete(r)
      BY <2>4 DEF OpenSummary, Go, Still, Complete
    <3> QED
      BY <1>3, <2>0, <3>1
  <2>5. CASE WriteSummary(r)
    <3>1. Still /\ pc' = [pc EXCEPT ![r] = "rename"] /\ Complete(r)
      BY <2>5, <2>p DEF WriteSummary, Go, Still, PlaceOK
    <3> QED
      BY <1>3, <2>0, <3>1
  <2>6. CASE Rename(r)
    <3> DEFINE where == IF partial # None THEN "published" ELSE "failed"
    <3>1. Still /\ pc' = [pc EXCEPT ![r] = where] /\ Complete(r) /\ where \in {"published", "failed"}
      BY <2>6, <2>p DEF Rename, Go, Still, PlaceOK
    <3> HIDE DEF where
    <3> QED
      BY <1>3, <2>0, <3>1 DEF Ended
  <2>7. CASE CancelVisit(r) \/ CancelFlush(r) \/ WriteFails(r)
    <3>1. Still /\ pc' = [pc EXCEPT ![r] = "failed"]
      BY <2>7 DEF CancelVisit, CancelFlush, WriteFails, Fail, Go, Still
    <3> QED
      BY <1>3, <2>0, <3>1 DEF Ended
  <2>8. CASE Crash(r)
    <3>1. Still /\ pc' = [pc EXCEPT ![r] = "dead"]
      BY <2>8 DEF Crash, Go, Still
    <3> QED
      BY <1>3, <2>0, <3>1 DEF Ended
  <2> QED
    BY <1>5, <2>1, <2>2, <2>3, <2>4, <2>5, <2>6, <2>7, <2>8
<1>6. ASSUME NEW r \in Active, Interrupt(r) PROVE RunTypes' /\ RunInv'
  BY <1>4, <1>6 DEF Interrupt
<1>7. ASSUME Edit PROVE RunTypes' /\ RunInv'
  BY <1>4, <1>7 DEF Edit, runVars
<1> QED
  BY <1>2, <1>5, <1>6, <1>7 DEF Next, Generate

-----------------------------------------------------------------------------
(* Edits.                                                                    *)

\* An edited sequence is one of entries.
LEMMA AlteredEntries ==
    ASSUME options \in Datasets, NEW entries \in Seq(Entry), NEW changed \in Altered(entries)
    PROVE  changed \in Seq(Entry)
<1> DEFINE here == DOMAIN entries
           some == [metric : Metrics, series : UNION {1..n : n \in Range(SeriesOf)},
                    scrape : 0..SamplesPerSeries,
                    epoch : {None} \cup 0..EpochAt(SamplesPerSeries)]
           E == Entry
<1>1. here = 1..Len(entries) /\ Len(entries) \in Nat /\ \A k \in here : entries[k] \in Entry
  OBVIOUS
<1>2. some \subseteq Entry
  <2>1. Metrics \subseteq Nat
    BY OptionFacts
  <2>2. UNION {1..n : n \in Range(SeriesOf)} \subseteq Nat
    OBVIOUS
  <2>3. 0..SamplesPerSeries \subseteq Nat /\ 0..EpochAt(SamplesPerSeries) \subseteq Nat
    OBVIOUS
  <2> QED
    BY <2>1, <2>2, <2>3 DEF Entry
<1>3. CASE changed \in {[entries EXCEPT ![k] = e] : k \in here, e \in some}
  <2>1. \E k \in here : \E e \in some : changed = [entries EXCEPT ![k] = e]
    BY <1>3
  <2>2. PICK k \in here : \E e \in some : changed = [entries EXCEPT ![k] = e]
    BY <2>1
  <2>3. PICK e \in some : changed = [entries EXCEPT ![k] = e]
    BY <2>2
  <2>4. e \in Entry
    BY <1>2, <2>3
  <2> QED
    BY <2>3, <2>4
<1>4. CASE changed \in {RemoveAt(entries, k) : k \in here}
  <2>1. PICK k \in here : changed = RemoveAt(entries, k)
    BY <1>4
  <2>2. SubSeq(entries, 1, k - 1) \in Seq(Entry) /\ SubSeq(entries, k + 1, Len(entries)) \in Seq(Entry)
    BY <1>1
  <2> QED
    BY <2>1, <2>2 DEF RemoveAt
<1>5. CASE changed \in {InsertAt(entries, k, entries[k]) : k \in here}
  <2>1. PICK k \in here : changed = InsertAt(entries, k, entries[k])
    BY <1>5
  <2>2. SubSeq(entries, 1, k - 1) \in Seq(Entry) /\ SubSeq(entries, k, Len(entries)) \in Seq(Entry)
        /\ <<entries[k]>> \in Seq(Entry)
    BY <1>1
  <2> QED
    BY <2>1, <2>2 DEF InsertAt
<1>6. CASE changed \in {[entries EXCEPT ![j] = entries[k], ![k] = entries[j]] : j, k \in here}
  <2>1. \E j \in here : \E k \in here : changed = [entries EXCEPT ![j] = entries[k], ![k] = entries[j]]
    BY <1>6
  <2>2. PICK j \in here : \E k \in here : changed = [entries EXCEPT ![j] = entries[k], ![k] = entries[j]]
    BY <2>1
  <2>3. PICK k \in here : changed = [entries EXCEPT ![j] = entries[k], ![k] = entries[j]]
    BY <2>2
  <2>4. entries[k] \in Entry /\ entries[j] \in Entry
    BY <1>1
  <2> QED
    BY <2>3, <2>4
<1> QED
  BY <1>3, <1>4, <1>5, <1>6 DEF Altered

\* The files made of edited samples hold them, and are no larger than others.
LEMMA FilesOfFacts ==
    ASSUME options \in Datasets, NEW entries \in Seq(Entry)
    PROVE  /\ FilesOf(entries) \in Seq(File)
           /\ EntriesOf(FilesOf(entries)) = entries
           /\ \A f \in 1..Len(FilesOf(entries)) : Len(FilesOf(entries)[f].entries) \in 1..MaxSamples
<1> DEFINE b == Batches(entries)
           E == Seq(Entry)
           n == Len(b)
           F == FilesOf(entries)
<1>1. MaxSamples \in Nat \ {0}
  BY OptionFacts
<1>2. b = Chunks(entries, MaxSamples)
  BY DEF Batches, Chunks
<1>3. b \in Seq(E) /\ FlattenSeq(b) = entries /\ \A f \in 1..n : Len(b[f]) \in 1..MaxSamples
  BY <1>1, <1>2, ChunksFacts
<1>4. F = [f \in DOMAIN b |-> [seed |-> None, entries |-> b[f]]]
  BY DEF FilesOf
<1> HIDE DEF b, E
<1>5. n \in Nat /\ DOMAIN b = 1..n /\ \A f \in 1..n : b[f] \in E
  BY <1>3
<1>6. \A f \in 1..n : [seed |-> None, entries |-> b[f]] \in File
  BY <1>5 DEF File, E
<1> HIDE DEF n, F
<1>7. F \in Seq(File) /\ Len(F) = n /\ DOMAIN F = 1..n
  <2> DEFINE G == File
  <2>1. \A f \in 1..n : [seed |-> None, entries |-> b[f]] \in G
    BY <1>6
  <2> HIDE DEF G
  <2>2. F = [f \in 1..n |-> [seed |-> None, entries |-> b[f]]]
    BY <1>4, <1>5
  <2>3. F \in Seq(G) /\ Len(F) = n /\ DOMAIN F = 1..n
    BY <1>5, <2>1, <2>2
  <2> QED
    BY <2>3 DEF G
<1>8. \A f \in 1..n : F[f].entries = b[f]
  BY <1>4, <1>5
<1>9. [f \in DOMAIN F |-> F[f].entries] = b
  <2>1. b = [f \in 1..n |-> b[f]]
    BY <1>3, <1>5
  <2> QED
    BY <1>7, <1>8, <2>1
<1>10. EntriesOf(F) = entries
  BY <1>3, <1>9 DEF EntriesOf
<1>11. \A f \in 1..n : Len(F[f].entries) \in 1..MaxSamples
  BY <1>3, <1>8 DEF n
<1> QED
  BY <1>7, <1>10, <1>11 DEF F

-----------------------------------------------------------------------------
(* What the directory holds.                                                 *)

Kept(q) == visited'[q] = visited[q] /\ batch'[q] = batch[q] /\ listed'[q] = listed[q]
           /\ series'[q] = series[q]

\* A step of one run leaves the others where they are.
LEMMA OthersStay ==
    ASSUME RunTypes, NEW r \in Runs, Generate(r) \/ Interrupt(r) \/ Crash(r)
    PROVE  \A q \in Runs : q # r => pc'[q] = pc[q] /\ Kept(q)
<1> SUFFICES ASSUME NEW q \in Runs, q # r PROVE pc'[q] = pc[q] /\ Kept(q)
  OBVIOUS
<1>0. /\ pc \in [Runs -> {"start", "visit", "flush", "write", "publish", "rename"} \cup Ended]
      /\ visited \in [Runs -> Nat] /\ batch \in [Runs -> Seq(Entry)]
      /\ listed \in [Runs -> Seq(File)] /\ series \in [Runs -> Nat]
  BY DEF RunTypes
<1>1. CASE Visit(r)
  BY <1>0, <1>1 DEF Visit, Go, Kept
<1>2. CASE WriteBin(r)
  BY <1>0, <1>2 DEF WriteBin, Go, Kept
<1>3. CASE Start(r) \/ LastFlush(r) \/ OpenBin(r)
  BY <1>0, <1>3 DEF Start, LastFlush, OpenBin, Go, Kept
<1>4. CASE OpenSummary(r) \/ WriteSummary(r) \/ Rename(r)
  <2>1. CASE OpenSummary(r) \/ WriteSummary(r)
    BY <1>0, <2>1 DEF OpenSummary, WriteSummary, Go, Kept
  <2>2. CASE Rename(r)
    BY <1>0, <2>2 DEF Rename, Go, Kept
  <2> QED
    BY <1>4, <2>1, <2>2
<1>5. CASE CancelVisit(r) \/ CancelFlush(r) \/ WriteFails(r)
  BY <1>0, <1>5 DEF CancelVisit, CancelFlush, WriteFails, Fail, Go, Kept
<1>6. CASE Interrupt(r) \/ Crash(r)
  BY <1>0, <1>6 DEF Interrupt, Crash, Go, Kept
<1> QED
  BY <1>1, <1>2, <1>3, <1>4, <1>5, <1>6 DEF Generate

\* Only the callback and the end of a write change what a run has emitted.
LEMMA DataKept ==
    ASSUME RunTypes, Next, NEW q \in Runs, pc[q] \notin {"visit", "write"}
    PROVE  Kept(q)
<1>1. CASE Edit
  BY <1>1 DEF Edit, runVars, Kept
<1>2. CASE ~Edit
  <2>1. PICK r \in Active : Generate(r) \/ Interrupt(r) \/ Crash(r)
    BY <1>2 DEF Next
  <2>2. r \in Runs
    BY DatasetsAssumption DEF RunTypes, Active
  <2>3. CASE q # r
    BY <2>1, <2>2, <2>3, OthersStay
  <2>4. CASE q = r
    <3>1. ~Visit(r) /\ ~WriteBin(r)
      BY <2>4 DEF Visit, WriteBin
    <3>2. CASE Start(r) \/ LastFlush(r) \/ OpenBin(r)
      BY <3>2 DEF Start, LastFlush, OpenBin, Kept
    <3>3. CASE OpenSummary(r) \/ WriteSummary(r) \/ Rename(r)
      BY <3>3 DEF OpenSummary, WriteSummary, Rename, Kept
    <3>4. CASE CancelVisit(r) \/ CancelFlush(r) \/ WriteFails(r)
      BY <3>4 DEF CancelVisit, CancelFlush, WriteFails, Fail, Kept
    <3>5. CASE Interrupt(r) \/ Crash(r)
      BY <3>5 DEF Interrupt, Crash, Kept
    <3> QED
      BY <2>1, <3>1, <3>2, <3>3, <3>4, <3>5 DEF Generate
  <2> QED
    BY <2>3, <2>4
<1> QED
  BY <1>1, <1>2

\* A run that has ended stays as it is; one that renames ends.
LEMMA EndsStay ==
    ASSUME RunTypes, Next, NEW q \in Runs
    PROVE  /\ pc[q] \in Ended => pc'[q] = pc[q]
           /\ pc[q] = "rename" => pc'[q] \in {"rename", "published", "failed", "dead"}
<1>0. pc \in [Runs -> {"start", "visit", "flush", "write", "publish", "rename"} \cup Ended]
  BY DEF RunTypes
<1>1. CASE Edit
  BY <1>0, <1>1 DEF Edit, runVars
<1>2. CASE ~Edit
  <2>1. PICK r \in Active : Generate(r) \/ Interrupt(r) \/ Crash(r)
    BY <1>2 DEF Next
  <2>2. r \in Runs
    BY DatasetsAssumption DEF RunTypes, Active
  <2>3. CASE q # r
    BY <1>0, <2>1, <2>2, <2>3, OthersStay
  <2>4. ASSUME q = r, pc[q] \in Ended \cup {"rename"}
        PROVE  /\ pc[q] \in Ended => pc'[q] = pc[q]
               /\ pc[q] = "rename" => pc'[q] \in {"rename", "published", "failed", "dead"}
    <3>1. ~Visit(r) /\ ~WriteBin(r) /\ ~Start(r) /\ ~LastFlush(r) /\ ~OpenBin(r) /\ ~OpenSummary(r)
          /\ ~WriteSummary(r) /\ ~CancelVisit(r) /\ ~CancelFlush(r) /\ ~WriteFails(r)
      BY <2>4 DEF Visit, WriteBin, Start, LastFlush, OpenBin, OpenSummary, WriteSummary, CancelVisit,
                 CancelFlush, WriteFails, Ended
    <3>2. CASE Rename(r)
      BY <1>0, <2>2, <2>4, <3>2 DEF Rename, Go, Ended
    <3>3. CASE Interrupt(r)
      BY <1>0, <2>4, <3>3 DEF Interrupt
    <3>4. CASE Crash(r)
      BY <1>0, <2>2, <2>4, <3>4 DEF Crash, Go, Ended
    <3> QED
      BY <2>1, <3>1, <3>2, <3>3, <3>4 DEF Generate
  <2> QED
    BY <2>3, <2>4
<1> QED
  BY <1>1, <1>2

\* A manifest that was complete remains that of its run.
LEMMA WrittenStays ==
    ASSUME RunTypes, Next, NEW q \in Runs, Written(q)
    PROVE  Written(q)' /\ Manifest(q)' = Manifest(q)
<1>0. options' = options
  BY DEF Next
<1>1. pc[q] \in {"rename", "published", "failed", "dead"} /\ Complete(q)
  BY DEF Written
<1>2. Kept(q)
  BY <1>1, DataKept
<1>3. pc'[q] \in {"rename", "published", "failed", "dead"}
  BY <1>1, EndsStay DEF Ended
<1>4. Complete(q)'
  BY <1>0, <1>1, <1>2, PlanStays DEF Complete, Kept
<1> QED
  BY <1>2, <1>3, <1>4 DEF Written, Manifest, Kept

\* What is published remains published.
LEMMA PublishedStays ==
    ASSUME RunTypes, Next, Published
    PROVE  Published'
<1>1. PICK q \in Runs : pc[q] = "published"
  BY DEF Published
<1> QED
  BY <1>1, EndsStay DEF Published, Ended

LEMMA ManifestType ==
    ASSUME RunTypes, NEW r \in Runs
    PROVE  Manifest(r) \in SummaryFile /\ Manifest(r) \notin {None, Torn}
<1>1. listed[r] \in Seq(File) /\ series[r] \in Nat
  BY DEF RunTypes
<1>2. Manifest(r) \in SummaryFile
  BY <1>1 DEF Manifest, SummaryFile
<1> QED
  BY <1>2, TornAssumption

\* Every step keeps the types of the directory.
LEMMA DirTypesStep ==
    ASSUME RunTypes, DirTypes, Next
    PROVE  DirTypes'
<1>0. /\ IsFiniteSet(DOMAIN bins) /\ edits \in Nat
      /\ partial \in {None, Torn} \cup SummaryFile /\ summary \in {None, Torn} \cup SummaryFile
  BY DEF DirTypes
<1>1. CASE Edit
  <2>1. edits' = edits + 1 /\ partial' = partial
    BY <1>1 DEF Edit
  <2>2. summary \in SummaryFile
    <3>1. summary # None
      BY <1>1, TornAssumption DEF Edit
    <3> QED
      BY <1>0, <1>1, <3>1 DEF Edit
  <2>3. summary.files \in Seq(File) /\ summary.series \in Nat
    BY <2>2 DEF SummaryFile
  <2>4. EntriesOf(summary.files) \in Seq(Entry) /\ options \in Datasets
    BY <2>3, EntriesSeq DEF RunTypes
  <2>5. PICK entries \in Altered(EntriesOf(summary.files)) :
            /\ summary' = [files |-> FilesOf(entries), series |-> summary.series]
            /\ bins' = [f \in 0..(Len(FilesOf(entries)) - 1) |-> FilesOf(entries)[f + 1]]
    BY <1>1 DEF Edit
  <2>6. FilesOf(entries) \in Seq(File)
    BY <2>4, AlteredEntries, FilesOfFacts
  <2>7. summary' \in SummaryFile
    BY <2>3, <2>5, <2>6 DEF SummaryFile
  <2>8. IsFiniteSet(DOMAIN bins')
    <3> DEFINE F == FilesOf(entries)
               G == File
    <3>1. F \in Seq(G)
      BY <2>6
    <3> HIDE DEF F, G
    <3>2. 0 \in Int /\ Len(F) - 1 \in Int
      BY <3>1
    <3>3. IsFiniteSet(0..(Len(F) - 1))
      BY <3>2, FS_Interval
    <3>4. DOMAIN bins' = 0..(Len(F) - 1)
      BY <2>5 DEF F
    <3> QED
      BY <3>3, <3>4
  <2> QED
    BY <1>0, <2>1, <2>7, <2>8 DEF DirTypes
<1>2. CASE ~Edit
  <2>1. PICK r \in Active : Generate(r) \/ Interrupt(r) \/ Crash(r)
    BY <1>2 DEF Next
  <2>2. r \in Runs
    BY DatasetsAssumption DEF RunTypes, Active
  <2>3. Manifest(r) \in SummaryFile
    BY <2>2, ManifestType
  <2>4. edits' = edits
    <3>1. CASE Start(r) \/ Visit(r) \/ LastFlush(r) \/ OpenBin(r) \/ WriteBin(r)
      BY <3>1 DEF Start, Visit, LastFlush, OpenBin, WriteBin
    <3>2. CASE OpenSummary(r) \/ WriteSummary(r) \/ Rename(r)
      BY <3>2 DEF OpenSummary, WriteSummary, Rename
    <3>3. CASE CancelVisit(r) \/ CancelFlush(r) \/ WriteFails(r) \/ Interrupt(r) \/ Crash(r)
      BY <3>3 DEF CancelVisit, CancelFlush, WriteFails, Fail, Interrupt, Crash
    <3> QED
      BY <2>1, <3>1, <3>2, <3>3 DEF Generate
  <2>5. CASE OpenBin(r)
    <3>1. partial' = partial /\ summary' = summary /\ DOMAIN bins' = DOMAIN bins \cup {Len(listed[r])}
      BY <2>5 DEF OpenBin
    <3>2. IsFiniteSet(DOMAIN bins')
      BY <1>0, <3>1, FS_AddElement
    <3> QED
      BY <1>0, <2>4, <3>1, <3>2 DEF DirTypes
  <2>6. CASE WriteBin(r)
    <3>1. partial' = partial /\ summary' = summary
      BY <2>6 DEF WriteBin
    <3>2. DOMAIN bins' = DOMAIN bins
      BY <2>6 DEF WriteBin
    <3> QED
      BY <1>0, <2>4, <3>1, <3>2 DEF DirTypes
  <2>7. CASE OpenSummary(r) \/ WriteSummary(r) \/ Rename(r)
    <3>1. CASE OpenSummary(r)
      BY <1>0, <2>4, <3>1 DEF OpenSummary, DirTypes
    <3>2. CASE WriteSummary(r)
      BY <1>0, <2>3, <2>4, <3>2 DEF WriteSummary, DirTypes
    <3>3. CASE Rename(r)
      BY <1>0, <2>4, <3>3 DEF Rename, DirTypes
    <3> QED
      BY <2>7, <3>1, <3>2, <3>3
  <2>8. CASE ~OpenBin(r) /\ ~WriteBin(r) /\ ~OpenSummary(r) /\ ~WriteSummary(r) /\ ~Rename(r)
    <3>1. UNCHANGED dirVars
      <4>1. CASE Start(r) \/ Visit(r) \/ LastFlush(r)
        BY <4>1 DEF Start, Visit, LastFlush
      <4>2. CASE CancelVisit(r) \/ CancelFlush(r) \/ WriteFails(r) \/ Interrupt(r) \/ Crash(r)
        BY <4>2 DEF CancelVisit, CancelFlush, WriteFails, Fail, Interrupt, Crash
      <4> QED
        BY <2>1, <2>8, <4>1, <4>2 DEF Generate
    <3> QED
      BY <1>0, <2>4, <3>1 DEF DirTypes, dirVars
  <2> QED
    BY <2>5, <2>6, <2>7, <2>8
<1> QED
  BY <1>1, <1>2

\* Every step keeps the manifests those of runs that emitted all samples.
LEMMA DirStep ==
    ASSUME RunTypes, RunInv, DirTypes, DirInv, Next
    PROVE  DirInv'
<1> DEFINE Whole(m) == m \in {None, Torn} \/ \E r \in Runs : Written(r) /\ m = Manifest(r)
           AtEnd == \E r \in Runs : pc[r] \in {"publish", "rename"}
<1>0. /\ Whole(partial) /\ (edits = 0 => Whole(summary)) /\ (summary # None => Published)
      /\ (AtEnd /\ partial = None => Published)
  BY DEF DirInv
<1>1. ASSUME NEW m, Whole(m) PROVE m \in {None, Torn} \/ \E r \in Runs : Written(r)' /\ m = Manifest(r)'
  BY <1>1, WrittenStays
<1>2. Published => Published'
  BY PublishedStays
<1> HIDE DEF Whole
<1>e. RunTypes' /\ RunInv'
  BY RunStep
<1>3. CASE Edit
  <2>1. edits' # 0 /\ partial' = partial /\ Published /\ pc' = pc
    BY <1>3 DEF Edit, runVars, DirTypes, Published
  <2>2. Published'
    BY <1>2, <2>1
  <2>3. partial' \in {None, Torn} \/ \E r \in Runs : Written(r)' /\ partial' = Manifest(r)'
    BY <1>0, <1>1, <2>1
  <2> QED
    BY <2>1, <2>2, <2>3 DEF DirInv
<1>4. CASE ~Edit
  <2>1. PICK r \in Active : Generate(r) \/ Interrupt(r) \/ Crash(r)
    BY <1>4 DEF Next
  <2>2. r \in Runs
    BY DatasetsAssumption DEF RunTypes, Active
  <2>3. \A q \in Runs : q # r => pc'[q] = pc[q]
    BY <2>1, <2>2, OthersStay
  <2>4. pc \in [Runs -> {"start", "visit", "flush", "write", "publish", "rename"} \cup Ended]
    BY DEF RunTypes
  <2>5. CASE OpenSummary(r)
    <3>1. partial' = Torn /\ summary' = summary /\ edits' = edits
      BY <2>5 DEF OpenSummary
    <3>2. edits' = 0 => summary' \in {None, Torn} \/ \E q \in Runs : Written(q)' /\ summary' = Manifest(q)'
      BY <1>0, <1>1, <3>1
    <3>3. partial' # None
      BY <3>1, TornAssumption
    <3> QED
      BY <1>0, <1>2, <3>1, <3>2, <3>3 DEF DirInv
  <2>6. CASE WriteSummary(r)
    <3>1. /\ pc'[r] = "rename" /\ edits' = edits /\ pc[r] = "publish"
          /\ listed' = listed /\ series' = series
      BY <2>2, <2>4, <2>6 DEF WriteSummary, Go
    <3>2. Written(r)' /\ Manifest(r)' = Manifest(r)
      <4>1. Complete(r)'
        BY <1>e, <2>2, <3>1 DEF RunInv, PlaceOK
      <4> QED
        BY <3>1, <4>1 DEF Written, Manifest
    <3>3. Manifest(r) # None
      BY <2>2, ManifestType
    <3>4. CASE partial # None
      <4>1. partial' = Manifest(r) /\ summary' = summary
        BY <2>6, <3>4 DEF WriteSummary
      <4>2. edits' = 0 => summary' \in {None, Torn} \/ \E q \in Runs : Written(q)' /\ summary' = Manifest(q)'
        BY <1>0, <1>1, <3>1, <4>1
      <4>3. \E q \in Runs : Written(q)' /\ partial' = Manifest(q)'
        BY <2>2, <3>2, <4>1
      <4> QED
        BY <1>0, <1>2, <3>3, <4>1, <4>2, <4>3 DEF DirInv
    <3>5. CASE partial = None
      <4>1. summary' = Manifest(r) /\ partial' = partial
        BY <2>6, <3>5 DEF WriteSummary
      <4>2. Published'
        BY <1>0, <1>2, <2>2, <3>1, <3>5
      <4>3. \E q \in Runs : Written(q)' /\ summary' = Manifest(q)'
        BY <2>2, <3>2, <4>1
      <4>4. partial' \in {None, Torn}
        BY <3>5, <4>1
      <4> QED
        BY <4>2, <4>3, <4>4 DEF DirInv
    <3> QED
      BY <3>4, <3>5
  <2>7. CASE Rename(r)
    <3>1. edits' = edits /\ pc[r] = "rename"
      BY <2>7 DEF Rename
    <3>2. CASE partial # None
      <4>1. summary' = partial /\ partial' = None /\ pc'[r] = "published"
        BY <2>2, <2>4, <2>7, <3>2 DEF Rename, Go
      <4>2. Published'
        BY <2>2, <4>1 DEF Published
      <4>3. summary' \in {None, Torn} \/ \E q \in Runs : Written(q)' /\ summary' = Manifest(q)'
        BY <1>0, <1>1, <4>1
      <4> QED
        BY <4>1, <4>2, <4>3 DEF DirInv
    <3>3. CASE partial = None
      <4>1. summary' = summary /\ partial' = None
        BY <2>7, <3>3 DEF Rename
      <4>2. Published'
        BY <1>0, <1>2, <2>2, <3>1, <3>3
      <4>3. edits' = 0 => summary' \in {None, Torn} \/ \E q \in Runs : Written(q)' /\ summary' = Manifest(q)'
        BY <1>0, <1>1, <3>1, <4>1
      <4> QED
        BY <4>1, <4>2, <4>3 DEF DirInv
    <3> QED
      BY <3>2, <3>3
  <2>8. CASE ~OpenSummary(r) /\ ~WriteSummary(r) /\ ~Rename(r)
    <3>1. /\ partial' = partial /\ summary' = summary /\ edits' = edits
          /\ pc'[r] = pc[r] \/ pc'[r] \notin {"publish", "rename"}
      <4>1. CASE Start(r) \/ Visit(r) \/ LastFlush(r)
        <5>1. CASE Start(r)
          BY <2>2, <2>4, <5>1 DEF Start, Go, dirVars
        <5>2. CASE Visit(r)
          BY <2>2, <2>4, <5>2 DEF Visit, Go, dirVars
        <5>3. CASE LastFlush(r)
          BY <2>2, <2>4, <5>3 DEF LastFlush, Go, dirVars
        <5> QED
          BY <4>1, <5>1, <5>2, <5>3
      <4>2. CASE OpenBin(r) \/ WriteBin(r)
        BY <2>2, <2>4, <4>2 DEF OpenBin, WriteBin, Go
      <4>3. CASE CancelVisit(r) \/ CancelFlush(r) \/ WriteFails(r) \/ Crash(r)
        BY <2>2, <2>4, <4>3 DEF CancelVisit, CancelFlush, WriteFails, Fail, Crash, Go, dirVars
      <4>4. CASE Interrupt(r)
        BY <4>4 DEF Interrupt, dirVars
      <4> QED
        BY <2>1, <2>8, <4>1, <4>2, <4>3, <4>4 DEF Generate
    <3>2. edits' = 0 => summary' \in {None, Torn} \/ \E q \in Runs : Written(q)' /\ summary' = Manifest(q)'
      BY <1>0, <1>1, <3>1
    <3>3. partial' \in {None, Torn} \/ \E q \in Runs : Written(q)' /\ partial' = Manifest(q)'
      BY <1>0, <1>1, <3>1
    <3>4. (\E q \in Runs : pc'[q] \in {"publish", "rename"}) => AtEnd
      BY <2>3, <3>1
    <3> QED
      BY <1>0, <1>2, <3>1, <3>2, <3>3, <3>4 DEF DirInv
  <2> QED
    BY <2>5, <2>6, <2>7, <2>8
<1> QED
  BY <1>3, <1>4

\* A directory that the tests of names and digests pass holds the files of the
\* manifest, and nothing else.
LEMMA NothingElse ==
    ASSUME DirTypes, NEW files \in Seq(File), summary # None, Entries = Len(files) + 1,
           \A f \in 1..Len(files) : f - 1 \in DOMAIN bins /\ bins[f - 1] = files[f]
    PROVE  Holds(files) /\ partial = None
<1> DEFINE n == Len(files)
           d == DOMAIN bins
           e == (IF partial = None THEN 0 ELSE 1)
<1>1. n \in Nat
  OBVIOUS
<1>2. 0..(n - 1) \subseteq d
  <2> SUFFICES ASSUME NEW i \in 0..(n - 1) PROVE i \in d
    OBVIOUS
  <2>1. i + 1 \in 1..n /\ (i + 1) - 1 = i
    BY <1>1
  <2> QED
    BY <2>1
<1>3. Entries = Cardinality(d) + e + 1
  BY DEF Entries
<1> HIDE DEF n, d
<1>4. IsFiniteSet(d) /\ Cardinality(d) \in Nat
  BY FS_CardinalityType DEF DirTypes, d
<1>5. Cardinality(0..(n - 1)) = n
  <2>1. 0 \in Int /\ n - 1 \in Int
    BY <1>1
  <2>2. Cardinality(0..(n - 1)) = IF 0 > n - 1 THEN 0 ELSE (n - 1) - 0 + 1
    BY <2>1, FS_Interval
  <2> QED
    BY <1>1, <2>2
<1>6. Cardinality(d) >= n
  BY <1>2, <1>4, <1>5, FS_Subset
<1>7. Cardinality(d) + e + 1 = n + 1
  BY <1>3 DEF n
<1>8. Cardinality(d) = n /\ e = 0
  BY <1>1, <1>4, <1>6, <1>7
<1>9. d = 0..(n - 1)
  BY <1>2, <1>4, <1>5, <1>8, FS_Subset
<1> QED
  BY <1>8, <1>9 DEF Holds, n, d

-----------------------------------------------------------------------------
(* The invariant.                                                            *)

DatasetInv == RunTypes /\ RunInv /\ DirTypes /\ DirInv

LEMMA StartsEmpty ==
    ASSUME Init
    PROVE  DatasetInv
<1>1. RunTypes
  BY DEF Init, RunTypes, Ended
<1>2. options \in Datasets /\ MaxSamples \in Nat \ {0}
  BY OptionFacts DEF Init
<1>3. ASSUME NEW r \in Runs PROVE DataOK(r) /\ PlaceOK(r)
  <2>1. pc[r] = "start" /\ visited[r] = 0 /\ batch[r] = <<>> /\ listed[r] = <<>> /\ series[r] = 0
    BY DEF Init
  <2>2. EntriesOf(<<>>) = <<>>
    <3>1. [f \in DOMAIN <<>> |-> <<>>[f].entries] = <<>>
      OBVIOUS
    <3> QED
      BY <3>1, FlattenEmpty DEF EntriesOf
  <2>3. Prefix(Plan, 0) = <<>>
    BY DEF Prefix
  <2>4. Counted(Begins, 0) = 0
    <3>1. {k \in 1..0 : Begins[k - 1]} = {}
      OBVIOUS
    <3> QED
      BY <3>1, FS_EmptySet DEF Counted
  <2>5. EntriesOf(listed[r]) \o batch[r] = Prefix(Plan, visited[r])
    <3>1. <<>> \o <<>> = <<>>
      OBVIOUS
    <3> QED
      BY <2>1, <2>2, <2>3, <3>1
  <2>6. Len(batch[r]) = 0 /\ 1..Len(listed[r]) = {}
    BY <2>1
  <2>7. DataOK(r)
    BY <1>2, <2>1, <2>4, <2>5, <2>6 DEF DataOK
  <2>8. PlaceOK(r)
    BY <1>2, <2>1, <2>6 DEF PlaceOK
  <2> QED
    BY <2>7, <2>8
<1>4. DirTypes /\ DirInv
  <2>1. DOMAIN bins = {} /\ partial = None /\ summary = None /\ edits = 0
        /\ \A r \in Runs : pc[r] = "start"
    BY DEF Init
  <2> QED
    BY <2>1, FS_EmptySet DEF DirTypes, DirInv
<1> QED
  BY <1>1, <1>3, <1>4 DEF DatasetInv, RunInv

LEMMA InvStep ==
    ASSUME DatasetInv, [Next]_<<options, vars>>
    PROVE  DatasetInv'
<1>1. CASE Next
  BY <1>1, RunStep, DirTypesStep, DirStep DEF DatasetInv
<1>2. CASE UNCHANGED <<options, vars>>
  <2>1. /\ options' = options /\ pc' = pc /\ visited' = visited /\ batch' = batch /\ listed' = listed
        /\ series' = series /\ bins' = bins /\ partial' = partial /\ summary' = summary /\ edits' = edits
    BY <1>2 DEF vars
  <2>2. RunTypes' /\ DirTypes'
    BY <2>1 DEF DatasetInv, RunTypes, DirTypes
  <2>3. MaxSamples' = MaxSamples /\ TotalSamples' = TotalSamples
    BY <2>1, PlanStays
  <2>4. ASSUME NEW r \in Runs
        PROVE  /\ DataOK(r)' /\ PlaceOK(r)' /\ (Written(r)' <=> Written(r)) /\ Manifest(r)' = Manifest(r)
    <3>1. DataOK(r) /\ PlaceOK(r)
      BY DEF DatasetInv, RunInv
    <3>2. DataOK(r)'
      BY <2>1, <3>1, DataStays
    <3>3. Complete(r)' <=> Complete(r)
      BY <2>1, <2>3 DEF Complete
    <3>4. PlaceOK(r)'
      BY <2>1, <2>3, <3>1, <3>3 DEF PlaceOK
    <3> QED
      BY <2>1, <3>2, <3>3, <3>4 DEF Written, Manifest
  <2>5. RunInv'
    BY <2>4 DEF RunInv
  <2>6. DirInv'
    BY <2>1, <2>4 DEF DatasetInv, DirInv, Published
  <2> QED
    BY <2>2, <2>5, <2>6 DEF DatasetInv
<1> QED
  BY <1>1, <1>2

\* What every run has emitted and written, and whose manifest the directory
\* holds, whichever runs were interrupted, failed or killed.
THEOREM DatasetInvariant == Spec => []DatasetInv
<1>1. Init => DatasetInv
  BY StartsEmpty
<1>2. DatasetInv /\ [Next]_<<options, vars>> => DatasetInv'
  BY InvStep
<1> QED
  BY <1>1, <1>2, PTL DEF Spec

\* What one run lists when it has emitted all: all samples in their order.
LEMMA CompleteEntries ==
    ASSUME RunTypes, NEW r \in Runs, DataOK(r), Complete(r)
    PROVE  EntriesOf(listed[r]) = Planned(TotalSamples)
<1>1. options \in Datasets /\ listed[r] \in Seq(File) /\ visited[r] = TotalSamples /\ batch[r] = <<>>
  BY DEF RunTypes, Complete
<1>2. TotalSamples \in Nat
  BY <1>1, TotalFacts
<1>3. EntriesOf(listed[r]) \o <<>> = Planned(TotalSamples)
  BY <1>1, <1>2, PlannedEntries DEF DataOK
<1> DEFINE x == EntriesOf(listed[r])
<1>4. x \in Seq(Entry)
  BY <1>1, EntriesSeq
<1> HIDE DEF x
<1>5. x \o <<>> = x
  BY <1>4
<1> QED
  BY <1>3, <1>5 DEF x

\* A directory Verify accepts, and nobody edited, holds all samples of one run
\* in their order and of no other, however many runs wrote into it at the same
\* time and wherever they were interrupted or killed: the digests in the
\* manifest tie the files to the run that wrote it.
THEOREM AcceptedDatasetsAreWhole == Spec => []AcceptedIsWhole
<1>1. DatasetInv => AcceptedIsWhole
  <2> SUFFICES ASSUME DatasetInv, Verified, edits = 0
               PROVE  \E r \in Runs :
                         /\ \A f \in DOMAIN bins : bins[f] # Torn /\ bins[f].seed = r
                         /\ EntriesOf(summary.files) = [k \in 1..TotalSamples |-> EntryAt(k - 1)]
    BY DEF AcceptedIsWhole
  <2>1. summary \notin {None, Torn}
    BY DEF Verified
  <2>2. PICK r \in Runs : Written(r) /\ summary = Manifest(r)
    BY <2>1 DEF DatasetInv, DirInv
  <2> DEFINE files == listed[r]
             n == Len(files)
  <2>3. summary.files = files /\ files \in Seq(File)
    BY <2>2 DEF Manifest, DatasetInv, RunTypes
  <2>4. n \in Nat /\ DOMAIN files = 1..n
    BY <2>3
  <2>5. Entries = Len(files) + 1
    BY <2>3 DEF Verified
  <2>6. \A f \in 1..Len(files) : f - 1 \in DOMAIN bins /\ bins[f - 1] = files[f]
    BY <2>3, <2>4 DEF Verified
  <2>7. Holds(files)
    BY <2>1, <2>3, <2>5, <2>6, NothingElse DEF DatasetInv
  <2>8. DataOK(r) /\ Complete(r)
    BY <2>2 DEF DatasetInv, RunInv, Written
  <2>9. \A f \in DOMAIN bins : bins[f] # Torn /\ bins[f].seed = r
    <3> SUFFICES ASSUME NEW f \in DOMAIN bins PROVE bins[f] # Torn /\ bins[f].seed = r
      OBVIOUS
    <3> HIDE DEF n, files
    <3>1. f \in 0..(n - 1)
      BY <2>7 DEF Holds, n
    <3>2. f + 1 \in 1..n /\ (f + 1) - 1 = f
      BY <2>4, <3>1
    <3>3. bins[f] = files[f + 1] /\ files[f + 1].seed = r
      BY <2>7, <2>8, <3>2 DEF Holds, DataOK, n, files
    <3>4. files[f + 1] \in File
      <4> DEFINE G == File
      <4>1. files \in Seq(G)
        BY <2>3
      <4> HIDE DEF G
      <4>2. files[f + 1] \in G
        BY <3>2, <4>1 DEF n
      <4> QED
        BY <4>2 DEF G
    <3> QED
      BY <3>3, <3>4, TornAssumption
  <2>10. EntriesOf(summary.files) = Planned(TotalSamples)
    BY <2>3, <2>8, CompleteEntries DEF DatasetInv
  <2> QED
    BY <2>9, <2>10 DEF Planned
<1> QED
  BY <1>1, DatasetInvariant, PTL

-----------------------------------------------------------------------------
(* Runs that do not overlap.                                                 *)

\* What the directory looks like to the run that is at work.
MineOK(r) ==
    /\ summary = None
    /\ pc[r] \in {"visit", "flush", "publish", "rename"} => Holds(listed[r])
    /\ pc[r] = "write" =>
          /\ DOMAIN bins = 0..Len(listed[r])
          /\ \A f \in 1..Len(listed[r]) : bins[f - 1] = listed[r][f]
    /\ pc[r] \in {"visit", "flush", "write"} => partial = None
    /\ pc[r] = "publish" => partial = Torn
    /\ pc[r] = "rename" => partial = Manifest(r)

\* Who is at work is alone, and nothing is published yet.
LEMMA AtWork ==
    ASSUME RunTypes, DirTypes, SoloInv, ~Overlap, NEW r \in Runs, Busy(r)
    PROVE  /\ MineOK(r) /\ ~Published /\ edits = 0
           /\ \A q \in Runs : q # r => ~Busy(q)
<1>1. summary = None /\ \A q \in Runs : q # r => ~Busy(q)
  BY DEF SoloInv
<1>2. ~Published
  BY <1>1, TornAssumption DEF SoloInv
<1>3. edits = 0
  BY <1>2 DEF SoloInv, DirTypes
<1>4. MineOK(r)
  BY <1>1 DEF MineOK, SoloInv
<1> QED
  BY <1>1, <1>2, <1>3, <1>4

\* A step of the run at work that does not publish.
LEMMA WorkGoesOn ==
    ASSUME RunTypes, DirTypes, SoloInv, ~Overlap, options' = options, NEW r \in Runs, ~Published, edits = 0,
           \A q \in Runs : q # r => ~Busy(q) /\ pc'[q] = pc[q],
           edits' = edits, pc'[r] # "published", Busy(r)' => MineOK(r)'
    PROVE  SoloInv'
<1>1. \A q \in Runs : q # r => ~Busy(q)'
  BY DEF Busy
<1>2. ~Published'
  BY DEF Published
<1>3. \A q \in Runs : pc'[q] \in {"visit", "flush", "write", "publish", "rename"} => Busy(q)' /\ q = r
  BY <1>1 DEF Busy, Ended
<1>4. \A q \in Runs : pc'[q] # "published"
  BY <1>2 DEF Published
<1>5. ASSUME NEW q \in Runs PROVE Busy(q)' => q = r /\ MineOK(q)'
  BY <1>1
<1>6. \A q \in Runs : \A p \in Runs : Busy(q)' /\ Busy(p)' => q = p
  BY <1>5
<1>7. \A q \in Runs : Busy(q)' => summary' = None
  BY <1>5 DEF MineOK
<1>8. \A q \in Runs : pc'[q] \in {"visit", "flush", "publish", "rename"} => Holds(listed[q])'
  BY <1>3, <1>5 DEF MineOK
<1>9. \A q \in Runs : pc'[q] = "write" =>
         /\ DOMAIN bins' = 0..Len(listed'[q])
         /\ \A f \in 1..Len(listed'[q]) : bins'[f - 1] = listed'[q][f]
  BY <1>3, <1>5 DEF MineOK
<1>10. \A q \in Runs : pc'[q] \in {"visit", "flush", "write"} => partial' = None
  BY <1>3, <1>5 DEF MineOK
<1>11. \A q \in Runs : pc'[q] = "publish" => partial' = Torn
  BY <1>3, <1>5 DEF MineOK
<1>12. \A q \in Runs : pc'[q] = "rename" => partial' = Manifest(q)'
  BY <1>3, <1>5 DEF MineOK
<1>13. ~(edits' > 0)
  OBVIOUS
<1> QED
  BY <1>2, <1>4, <1>6, <1>7, <1>8, <1>9, <1>10, <1>11, <1>12, <1>13 DEF SoloInv

\* The first step of a run: the directory is empty, or the run is refused.
LEMMA SoloStart ==
    ASSUME DatasetInv, SoloInv, ~Overlap, options' = options, NEW r \in Runs, Start(r)
    PROVE  SoloInv'
<1>0. RunTypes /\ RunInv /\ DirTypes
  BY DEF DatasetInv
<1>1. /\ pc[r] = "start" /\ \A q \in Runs \ {r} : ~Busy(q)
      /\ pc' = [pc EXCEPT ![r] = IF Entries = 0 THEN "visit" ELSE "refused"]
      /\ UNCHANGED <<visited, batch, listed, series, bins, partial, summary, edits>>
  BY DEF Start, Go, dirVars, Busy
<1>2. listed[r] = <<>>
  BY <1>0, <1>1 DEF RunInv, PlaceOK
<1>3. \A q \in Runs : q # r => pc'[q] = pc[q]
  BY <1>0, <1>1 DEF RunTypes
<1>4. CASE Entries = 0
  <2>1. pc'[r] = "visit"
    BY <1>0, <1>1, <1>4 DEF RunTypes
  <2>2. Cardinality(DOMAIN bins) \in Nat /\ IsFiniteSet(DOMAIN bins)
    BY <1>0, FS_CardinalityType DEF DirTypes
  <2>3. Cardinality(DOMAIN bins) = 0 /\ partial = None /\ summary = None
    BY <1>4, <2>2 DEF Entries
  <2>4. DOMAIN bins = {}
    BY <2>2, <2>3, FS_EmptySet
  <2>5. ~Published /\ edits = 0
    <3>1. ~Published
      BY <2>3, TornAssumption DEF SoloInv
    <3> QED
      BY <1>0, <3>1 DEF SoloInv, DirTypes
  <2>6. Holds(listed[r])'
    <3>1. listed'[r] = <<>> /\ DOMAIN bins' = {} /\ Len(<<>>) = 0
      BY <1>1, <1>2, <2>4
    <3> QED
      BY <3>1 DEF Holds
  <2>7. MineOK(r)'
    BY <1>1, <2>1, <2>3, <2>6 DEF MineOK
  <2> QED
    BY <1>0, <1>1, <1>3, <2>1, <2>5, <2>7, WorkGoesOn
<1>5. CASE Entries # 0
  <2>1. pc'[r] = "refused"
    BY <1>0, <1>1, <1>5 DEF RunTypes
  <2>2. Published' <=> Published
    BY <1>1, <1>3, <2>1 DEF Published
  <2>3. \A q \in Runs : (Busy(q)' <=> Busy(q)) /\ (pc'[q] = pc[q] \/ pc'[q] = "refused")
        /\ (Holds(listed[q])' <=> Holds(listed[q])) /\ Manifest(q)' = Manifest(q)
    BY <1>1, <1>3, <2>1 DEF Busy, Ended, Holds, Manifest
  <2>4. \A entries : (FilesOf(entries)' = FilesOf(entries))
        /\ (Holds(FilesOf(entries))' <=> Holds(FilesOf(entries)))
    BY <1>1 DEF FilesOf, Batches, MaxSamples, Holds
  <2>5. Counted(Begins, TotalSamples)' = Counted(Begins, TotalSamples)
    BY PlanStays DEF Counted
  <2> QED
    BY <1>1, <2>2, <2>3, <2>4, <2>5 DEF SoloInv
<1> QED
  BY <1>4, <1>5

\* A batch goes to a file of its own name.
LEMMA SoloWrite ==
    ASSUME RunTypes, NEW r \in Runs, MineOK(r), WriteBin(r), ~Shared(r)
    PROVE  MineOK(r)'
<1> DEFINE l == listed[r]
           n == Len(l)
           c == [seed |-> r, entries |-> batch[r]]
           F == File
<1>1. l \in Seq(F) /\ batch[r] \in Seq(Entry)
  BY DEF RunTypes
<1>2. c \in F
  BY <1>1 DEF File
<1>3. /\ pc[r] = "write" /\ bins' = [bins EXCEPT ![n] = c] /\ listed' = [listed EXCEPT ![r] = Append(l, c)]
      /\ pc' = [pc EXCEPT ![r] = "visit"] /\ partial' = partial /\ summary' = summary
  BY DEF WriteBin, Go
<1>4. listed'[r] = Append(l, c) /\ pc'[r] = "visit"
  BY <1>3 DEF RunTypes
<1>5. DOMAIN bins = 0..n /\ \A f \in 1..n : bins[f - 1] = l[f]
  BY <1>3 DEF MineOK
<1> HIDE DEF F, c, l
<1>6. /\ Len(Append(l, c)) = n + 1 /\ Append(l, c)[n + 1] = c /\ n \in Nat
      /\ \A f \in 1..n : Append(l, c)[f] = l[f]
  BY <1>1, <1>2
<1> HIDE DEF n
<1>7. DOMAIN bins' = 0..((n + 1) - 1)
  BY <1>3, <1>5, <1>6
<1>8. ASSUME NEW f \in 1..(n + 1) PROVE bins'[f - 1] = Append(l, c)[f]
  <2>1. CASE f = n + 1
    <3>1. f - 1 = n /\ n \in 0..n
      BY <1>6, <2>1
    <3>2. bins'[n] = c
      BY <1>3, <1>5, <3>1
    <3> QED
      BY <1>6, <2>1, <3>1, <3>2
  <2>2. CASE f # n + 1
    <3>1. f \in 1..n /\ f - 1 \in 0..n /\ f - 1 # n
      BY <1>6, <2>2
    <3>2. bins'[f - 1] = bins[f - 1]
      BY <1>3, <1>5, <3>1
    <3> QED
      BY <1>5, <1>6, <3>1, <3>2
  <2> QED
    BY <2>1, <2>2
<1>9. Holds(listed[r])'
  BY <1>4, <1>6, <1>7, <1>8 DEF Holds
<1> QED
  BY <1>3, <1>4, <1>9 DEF MineOK

\* A step of a run that does not overlap others.
LEMMA SoloWork ==
    ASSUME DatasetInv, SoloInv, ~Overlap, options' = options, NEW r \in Runs, Busy(r),
           Generate(r) \/ Interrupt(r) \/ Crash(r), ~Start(r), ~Rename(r)
    PROVE  SoloInv'
<1>0. RunTypes /\ RunInv /\ DirTypes
  BY DEF DatasetInv
<1>1. /\ MineOK(r) /\ ~Published /\ edits = 0
      /\ \A q \in Runs : q # r => ~Busy(q)
  BY <1>0, AtWork
<1>2. \A q \in Runs : q # r => ~Busy(q) /\ pc'[q] = pc[q]
  BY <1>0, <1>1, OthersStay
<1>3. pc \in [Runs -> {"start", "visit", "flush", "write", "publish", "rename"} \cup Ended]
  BY <1>0 DEF RunTypes
<1>4. edits' = edits /\ pc'[r] # "published" /\ (Busy(r)' => MineOK(r)')
  <2>1. CASE Visit(r)
    <3>1. /\ pc[r] = "visit" /\ UNCHANGED <<listed, bins, partial, summary, edits>>
          /\ pc'[r] \in {"visit", "flush"}
      BY <1>3, <2>1 DEF Visit, Go, dirVars
    <3> QED
      BY <1>1, <3>1 DEF MineOK, Holds
  <2>2. CASE LastFlush(r)
    <3>1. /\ pc[r] = "visit" /\ UNCHANGED <<listed, bins, partial, summary, edits>>
          /\ pc'[r] = "flush"
      BY <1>3, <2>2 DEF LastFlush, Go, dirVars
    <3> QED
      BY <1>1, <3>1 DEF MineOK, Holds
  <2>3. CASE OpenBin(r)
    <3> DEFINE n == Len(listed[r])
    <3>1. /\ pc[r] = "flush" /\ UNCHANGED <<listed, partial, summary, edits>>
          /\ pc'[r] = "write"
          /\ bins' = [f \in DOMAIN bins \cup {n} |-> IF f = n THEN Torn ELSE bins[f]]
      BY <1>3, <2>3 DEF OpenBin, Go
    <3>2. Holds(listed[r]) /\ n \in Nat
      <4>1. listed[r] \in Seq(File)
        BY <1>0 DEF RunTypes
      <4> QED
        BY <1>1, <3>1, <4>1 DEF MineOK
    <3> HIDE DEF n
    <3>3. DOMAIN bins' = 0..n
      BY <3>1, <3>2 DEF Holds, n
    <3>4. \A f \in 1..n : bins'[f - 1] = bins[f - 1]
      BY <3>1, <3>2 DEF Holds, n
    <3> QED
      BY <1>1, <3>1, <3>2, <3>3, <3>4 DEF MineOK, Holds, n
  <2>4. CASE WriteBin(r)
    <3>1. ~Shared(r)
      BY <1>1 DEF Shared, Busy, Ended
    <3>2. edits' = edits /\ pc'[r] = "visit"
      BY <1>3, <2>4 DEF WriteBin, Go
    <3> QED
      BY <1>0, <1>1, <2>4, <3>1, <3>2, SoloWrite
  <2>5. CASE OpenSummary(r)
    <3>1. /\ pc[r] = "visit" /\ UNCHANGED <<listed, bins, summary, edits>>
          /\ pc'[r] = "publish" /\ partial' = Torn
      BY <1>3, <2>5 DEF OpenSummary, Go
    <3> QED
      BY <1>1, <3>1 DEF MineOK, Holds
  <2>6. CASE WriteSummary(r)
    <3>1. /\ pc[r] = "publish" /\ UNCHANGED <<listed, series, bins, edits>>
          /\ pc'[r] = "rename"
      BY <1>3, <2>6 DEF WriteSummary, Go
    <3>2. partial # None
      BY <1>1, <3>1, TornAssumption DEF MineOK
    <3>3. partial' = Manifest(r) /\ summary' = summary
      BY <2>6, <3>2 DEF WriteSummary
    <3> QED
      BY <1>1, <3>1, <3>3 DEF MineOK, Holds, Manifest
  <2>7. CASE CancelVisit(r) \/ CancelFlush(r) \/ WriteFails(r)
    <3>1. edits' = edits /\ pc'[r] = "failed"
      BY <1>3, <2>7 DEF CancelVisit, CancelFlush, WriteFails, Fail, Go
    <3> QED
      BY <3>1 DEF Busy, Ended
  <2>8. CASE Crash(r)
    <3>1. edits' = edits /\ pc'[r] = "dead"
      BY <1>3, <2>8 DEF Crash, Go
    <3> QED
      BY <3>1 DEF Busy, Ended
  <2>9. CASE Interrupt(r)
    <3>1. UNCHANGED <<pc, listed, series, bins, partial, summary, edits>>
      BY <2>9 DEF Interrupt, dirVars
    <3>2. pc[r] # "published"
      BY DEF Busy, Ended
    <3> QED
      BY <1>1, <3>1, <3>2 DEF MineOK, Holds, Manifest
  <2> QED
    BY <2>1, <2>2, <2>3, <2>4, <2>5, <2>6, <2>7, <2>8, <2>9 DEF Generate
<1> QED
  BY <1>0, <1>1, <1>2, <1>4, WorkGoesOn

\* The run at work publishes what it has written.
LEMMA SoloRename ==
    ASSUME DatasetInv, SoloInv, ~Overlap, options' = options, NEW r \in Runs, Rename(r)
    PROVE  SoloInv'
<1>0. RunTypes /\ RunInv /\ DirTypes
  BY DEF DatasetInv
<1>1. pc[r] = "rename" /\ Busy(r)
  BY DEF Rename, Busy, Ended
<1>2. /\ MineOK(r) /\ ~Published /\ edits = 0
      /\ \A q \in Runs : q # r => ~Busy(q)
  BY <1>0, <1>1, AtWork
<1>3. partial = Manifest(r) /\ Holds(listed[r])
  BY <1>1, <1>2 DEF MineOK
<1>4. Manifest(r) \in SummaryFile /\ Manifest(r) \notin {None, Torn}
  BY <1>0, ManifestType
<1>5. /\ summary' = Manifest(r) /\ partial' = None /\ pc' = [pc EXCEPT ![r] = "published"]
      /\ UNCHANGED <<listed, series, bins, edits>>
  BY <1>3, <1>4 DEF Rename, Go
<1>6. pc'[r] = "published" /\ \A q \in Runs : q # r => pc'[q] = pc[q]
  BY <1>0, <1>5 DEF RunTypes
<1>7. \A q \in Runs : ~Busy(q)'
  BY <1>2, <1>6 DEF Busy, Ended
<1>8. \A q \in Runs : pc'[q] \notin {"visit", "flush", "write", "publish", "rename"}
  BY <1>7 DEF Busy, Ended
<1>9. \A q \in Runs : pc'[q] = "published" => q = r
  BY <1>2, <1>6 DEF Published
<1>10. Manifest(r)' = Manifest(r) /\ Holds(listed[r])'
  BY <1>3, <1>5 DEF Manifest, Holds
<1>11. \A q \in Runs : pc'[q] = "published" /\ edits' = 0 => summary' = Manifest(q)' /\ Holds(listed[q])'
  BY <1>5, <1>9, <1>10
<1>12. ~(edits' > 0) /\ (Published' => summary' \in SummaryFile /\ partial' = None)
  BY <1>2, <1>4, <1>5
<1>13. \A q \in Runs : \A p \in Runs : Busy(q)' /\ Busy(p)' => q = p
  BY <1>7
<1> QED
  BY <1>7, <1>8, <1>11, <1>12, <1>13 DEF SoloInv

\* A step of no run, and of no editor.
LEMMA SoloSame ==
    ASSUME SoloInv, options' = options,
           UNCHANGED <<pc, listed, series, bins, partial, summary, edits>>
    PROVE  SoloInv'
<1>1. \A q \in Runs : (Busy(q)' <=> Busy(q)) /\ (Holds(listed[q])' <=> Holds(listed[q]))
      /\ Manifest(q)' = Manifest(q)
  BY DEF Busy, Holds, Manifest
<1>2. \A entries : (FilesOf(entries)' = FilesOf(entries))
      /\ (Holds(FilesOf(entries))' <=> Holds(FilesOf(entries)))
  BY DEF FilesOf, Batches, MaxSamples, Holds
<1>3. Counted(Begins, TotalSamples)' = Counted(Begins, TotalSamples) /\ (Overlap' <=> Overlap)
  BY PlanStays DEF Counted
<1>4. Published' <=> Published
  BY DEF Published
<1> QED
  BY <1>1, <1>2, <1>3, <1>4 DEF SoloInv

\* An edit keeps the total of the manifest, and writes the files it lists.
LEMMA SoloEdit ==
    ASSUME DatasetInv, SoloInv, ~Overlap, options' = options, Edit
    PROVE  SoloInv'
<1>0. RunTypes /\ RunInv /\ DirTypes /\ options \in Datasets
  BY DEF DatasetInv, RunTypes
<1>1. /\ Published /\ summary \notin {None, Torn} /\ edits' = edits + 1
      /\ UNCHANGED <<pc, listed, series, partial>>
  BY DEF Edit, runVars, Published
<1>2. PICK entries \in Altered(EntriesOf(summary.files)) :
          /\ summary' = [files |-> FilesOf(entries), series |-> summary.series]
          /\ bins' = [f \in 0..(Len(FilesOf(entries)) - 1) |-> FilesOf(entries)[f + 1]]
  BY DEF Edit
<1>3. summary.files \in Seq(File) /\ summary.series \in Nat
  BY <1>0, <1>1 DEF DirTypes, SummaryFile
<1>4. entries \in Seq(Entry)
  BY <1>0, <1>3, EntriesSeq, AlteredEntries
<1>5. FilesOf(entries) \in Seq(File)
  BY <1>0, <1>4, FilesOfFacts
<1>6. \A q \in Runs : ~Busy(q)
  BY <1>1 DEF SoloInv
<1>7. \A q \in Runs : ~Busy(q)' /\ pc'[q] \notin {"visit", "flush", "write", "publish", "rename"}
  BY <1>1, <1>6 DEF Busy, Ended
<1>8. summary.series = Counted(Begins, TotalSamples)
  <2>1. CASE edits > 0
    BY <2>1 DEF SoloInv
  <2>2. CASE ~(edits > 0)
    <3>1. PICK r \in Runs : pc[r] = "published"
      BY <1>1 DEF Published
    <3>2. edits = 0
      BY <1>0, <2>2 DEF DirTypes
    <3>3. summary = Manifest(r)
      BY <3>1, <3>2 DEF SoloInv
    <3>4. DataOK(r) /\ Complete(r)
      BY <1>0, <3>1 DEF RunInv, PlaceOK
    <3>5. summary.series = series[r]
      BY <3>3 DEF Manifest
    <3> QED
      BY <3>4, <3>5 DEF DataOK, Complete
  <2> QED
    BY <2>1, <2>2
<1> DEFINE files == FilesOf(entries)
<1>9. Counted(Begins, TotalSamples)' = Counted(Begins, TotalSamples)
  BY PlanStays DEF Counted
<1>10. files' = files
  BY DEF FilesOf, Batches, MaxSamples
<1>11. /\ DOMAIN bins' = 0..(Len(files) - 1)
       /\ \A f \in 1..Len(files) : bins'[f - 1] = files[f]
  <2> DEFINE F == File
  <2>1. files \in Seq(F)
    BY <1>5
  <2>2. bins' = [f \in 0..(Len(files) - 1) |-> files[f + 1]]
    BY <1>2
  <2> HIDE DEF files, F
  <2>3. ASSUME NEW f \in 1..Len(files) PROVE bins'[f - 1] = files[f]
    <3>1. f - 1 \in 0..(Len(files) - 1) /\ (f - 1) + 1 = f
      BY <2>1
    <3> QED
      BY <2>2, <3>1
  <2> QED
    BY <2>2, <2>3
<1>12. Holds(files)'
  BY <1>10, <1>11 DEF Holds
<1>13. summary'.files = files /\ summary'.series = Counted(Begins, TotalSamples)'
  BY <1>2, <1>8, <1>9
<1>14. \E e \in Seq(Entry) : summary'.files = FilesOf(e)' /\ Holds(FilesOf(e))'
  <2>1. summary'.files = FilesOf(entries)' /\ Holds(FilesOf(entries))'
    BY <1>10, <1>12, <1>13
  <2> HIDE DEF files
  <2> QED
    BY <1>4, <2>1
<1>15. summary' \in SummaryFile
  BY <1>2, <1>3, <1>5 DEF SummaryFile
<1>16. Published' /\ partial' = None /\ edits' # 0
  BY <1>0, <1>1 DEF Published, SoloInv, DirTypes
<1>17. \A q \in Runs : \A p \in Runs : Busy(q)' /\ Busy(p)' => q = p
  BY <1>7
<1> QED
  BY <1>7, <1>13, <1>14, <1>15, <1>16, <1>17 DEF SoloInv

LEMMA SoloStep ==
    ASSUME DatasetInv, SoloInv, [Next]_<<options, vars>>
    PROVE  SoloInv'
<1>0. RunTypes /\ DirTypes
  BY DEF DatasetInv
<1>1. CASE UNCHANGED <<options, vars>>
  BY <1>1, SoloSame DEF vars
<1>2. CASE Next
  <2>0. options' = options
    BY <1>2 DEF Next
  <2>1. CASE Overlap
    BY <2>0, <2>1, PlanStays DEF SoloInv
  <2>2. CASE ~Overlap
    <3>1. CASE Edit
      BY <2>0, <2>2, <3>1, SoloEdit
    <3>2. CASE ~Edit
      <4>1. PICK r \in Active : Generate(r) \/ Interrupt(r) \/ Crash(r)
        BY <1>2, <3>2 DEF Next
      <4>2. r \in Runs
        BY <1>0, DatasetsAssumption DEF RunTypes, Active
      <4>3. CASE Start(r)
        BY <2>0, <2>2, <4>2, <4>3, SoloStart
      <4>4. CASE Rename(r)
        BY <2>0, <2>2, <4>2, <4>4, SoloRename
      <4>5. CASE ~Start(r) /\ ~Rename(r) /\ Busy(r)
        BY <2>0, <2>2, <4>1, <4>2, <4>5, SoloWork
      <4>6. CASE ~Start(r) /\ ~Rename(r) /\ ~Busy(r)
        <5>1. pc[r] \in Ended \cup {"start"}
          BY <4>6 DEF Busy
        <5>2. Interrupt(r)
          BY <4>1, <4>6, <5>1 DEF Generate, Visit, LastFlush, OpenBin, WriteBin, OpenSummary, WriteSummary,
             CancelVisit, CancelFlush, WriteFails, Crash, Ended
        <5> QED
          BY <2>0, <5>2, SoloSame DEF Interrupt, dirVars
      <4> QED
        BY <4>3, <4>4, <4>5, <4>6
    <3> QED
      BY <3>1, <3>2
  <2> QED
    BY <2>1, <2>2
<1> QED
  BY <1>1, <1>2

LEMMA SoloStarts ==
    ASSUME Init
    PROVE  SoloInv
<1>1. /\ \A r \in Runs : pc[r] = "start"
      /\ edits = 0
  BY DEF Init
<1>2. \A r \in Runs : ~Busy(r) /\ pc[r] \notin {"visit", "flush", "write", "publish", "rename", "published"}
  BY <1>1 DEF Busy
<1>3. ~Published /\ ~(edits > 0)
  BY <1>1 DEF Published
<1> QED
  BY <1>2, <1>3 DEF SoloInv

LEMMA SoloInvariance == Spec => [](DatasetInv /\ SoloInv)
<1>1. Init => SoloInv
  BY SoloStarts
<1>2. DatasetInv /\ SoloInv /\ [Next]_<<options, vars>> => SoloInv'
  BY SoloStep
<1> QED
  BY <1>1, <1>2, DatasetInvariant, PTL DEF Spec

\* Once Verify accepts a directory whose runs do not overlap, no later run
\* changes it: it is refused because files are there, or it has ended.
THEOREM AcceptedStays == Spec => AcceptedForGood
<1>1. ASSUME DatasetInv, SoloInv, [Next]_<<options, vars>>
      PROVE  [Verified /\ ~Overlap /\ edits' = edits => UNCHANGED dirVars]_vars
  <2> SUFFICES ASSUME Next, Verified, ~Overlap, edits' = edits PROVE UNCHANGED dirVars
    BY <1>1
  <2>1. RunTypes /\ DirTypes
    BY <1>1 DEF DatasetInv
  <2>2. \A r \in Runs : pc[r] \in Ended \cup {"start"}
    BY <1>1 DEF Verified, SoloInv, Busy
  <2>3. ~Edit
    BY <2>1 DEF Edit, DirTypes
  <2>4. PICK r \in Active : Generate(r) \/ Interrupt(r) \/ Crash(r)
    BY <2>3 DEF Next
  <2>5. pc[r] \in Ended \cup {"start"}
    BY <2>1, <2>2, DatasetsAssumption DEF RunTypes, Active
  <2>6. Start(r) \/ Interrupt(r)
    BY <2>4, <2>5 DEF Generate, Visit, LastFlush, OpenBin, WriteBin, OpenSummary, WriteSummary, Rename,
       CancelVisit, CancelFlush, WriteFails, Crash, Ended
  <2> QED
    BY <2>6 DEF Start, Interrupt
<1>2. DatasetInv /\ SoloInv /\ [Next]_<<options, vars>>
        => [Verified /\ ~Overlap /\ edits' = edits => UNCHANGED dirVars]_vars
  BY <1>1
<1> QED
  BY <1>2, SoloInvariance, PTL DEF Spec, AcceptedForGood

-----------------------------------------------------------------------------
(* The verifier.                                                             *)

\* The place after that of the k-th sample.
LEMMA PlaceNext ==
    ASSUME options \in Datasets, NEW k \in Nat
    PROVE  LET b == BaseSeries
           IN  IF k % b = b - 1 THEN (k + 1) % b = 0 /\ (k + 1) \div b = (k \div b) + 1
               ELSE (k + 1) % b = (k % b) + 1 /\ (k + 1) \div b = k \div b
<1> DEFINE b == BaseSeries
           c == k \div b
           p == k % b
<1>1. b \in Nat \ {0}
  BY OrderFacts
<1>2. c \in Nat /\ p \in 0..(b - 1) /\ k = c * b + p
  BY PlacesFacts
<1> HIDE DEF b, c, p
<1>3. CASE p = b - 1
  <2>1. (c + 1) * b = c * b + b
    BY <1>1, <1>2
  <2> DEFINE x == c * b
             y == (c + 1) * b
  <2>2. y = x + b /\ k = x + p /\ x \in Nat
    BY <1>1, <1>2, <2>1
  <2>3. (y + 0) \div b = c + 1 /\ (y + 0) % b = 0
    <3>1. 0 \in 0..(b - 1) /\ c + 1 \in Nat
      BY <1>1, <1>2
    <3> QED
      BY <1>1, <3>1, DivideOnce
  <2> HIDE DEF x, y
  <2>4. k + 1 = y + 0
    BY <1>1, <1>2, <1>3, <2>2
  <2>5. (k + 1) \div b = c + 1 /\ (k + 1) % b = 0
    BY <2>3, <2>4
  <2> QED
    BY <1>3, <2>5 DEF b, c, p
<1>4. CASE p # b - 1
  <2>1. p + 1 \in 0..(b - 1)
    BY <1>1, <1>2, <1>4
  <2>2. (c * b + (p + 1)) \div b = c /\ (c * b + (p + 1)) % b = p + 1
    BY <1>1, <1>2, <2>1, DivideOnce
  <2> DEFINE x == c * b
  <2>3. x \in Nat /\ k = x + p
    BY <1>1, <1>2
  <2>4. (x + (p + 1)) \div b = c /\ (x + (p + 1)) % b = p + 1
    BY <2>2
  <2> HIDE DEF x
  <2>5. k + 1 = x + (p + 1)
    BY <1>1, <1>2, <2>3
  <2>6. (k + 1) \div b = c /\ (k + 1) % b = p + 1
    BY <2>4, <2>5
  <2> QED
    BY <1>4, <2>6 DEF b, c, p
<1> QED
  BY <1>3, <1>4

\* Where the k-th sample has its place in the scrape.
Place(k) == ScrapeOrder[(k % BaseSeries) + 1]

LEMMA PlaceStep ==
    ASSUME options \in Datasets, NEW k \in Nat
    PROVE  /\ Place(k) \in Places
           /\ Place(k).series <= SeriesOf[Place(k).metric]
           /\ IF k % BaseSeries = BaseSeries - 1
              THEN /\ Place(k + 1) = [metric |-> 1, series |-> 1]
                   /\ Place(k) = [metric |-> Len(SeriesOf), series |-> SeriesOf[Len(SeriesOf)]]
              ELSE Place(k + 1) = After(Place(k))
<1> DEFINE b == BaseSeries
           p == k % b
           order == ScrapeOrder
           n == Len(SeriesOf)
           last == [metric |-> n, series |-> SeriesOf[n]]
           first == [metric |-> 1, series |-> 1]
<1>1. b \in Nat \ {0} /\ p \in 0..(b - 1)
  BY OrderFacts, PlacesFacts
<1>2. /\ \A i \in 1..b : order[i].series <= SeriesOf[order[i].metric]
      /\ \A i \in 1..(b - 1) : order[i + 1] = After(order[i])
      /\ order[1] = first
      /\ order[b] = last
  <2>1. n > 0
    BY OptionFacts
  <2> QED
    BY <2>1, OrderFacts DEF Chain
<1>3. Place(k) = order[p + 1] /\ Place(k) \in Places
  BY PlacesFacts DEF Place
<1>4. IF p = b - 1 THEN (k + 1) % b = 0 ELSE (k + 1) % b = p + 1
  BY PlaceNext
<1>5. Place(k + 1) = order[((k + 1) % b) + 1]
  BY DEF Place
<1>0. Place(k).series <= SeriesOf[Place(k).metric]
  <2> HIDE DEF b, p, order
  <2>1. p + 1 \in 1..b
    BY <1>1
  <2> QED
    BY <1>2, <1>3, <2>1
<1>6. CASE p = b - 1
  <2>1. ((k + 1) % b) + 1 = 1
    BY <1>4, <1>6
  <2> HIDE DEF b, p, order, last, first
  <2>2. p + 1 = b
    BY <1>1, <1>6
  <2>3. Place(k + 1) = first /\ Place(k) = last
    BY <1>2, <1>3, <1>5, <2>1, <2>2
  <2> QED
    BY <1>0, <1>3, <1>6, <2>3 DEF b, p, last, first
<1>7. CASE p # b - 1
  <2>1. ((k + 1) % b) + 1 = (p + 1) + 1
    BY <1>4, <1>7
  <2> HIDE DEF b, p, order, last, first
  <2>2. p + 1 \in 1..(b - 1)
    BY <1>1, <1>7
  <2>3. order[(p + 1) + 1] = After(order[p + 1])
    BY <1>2, <2>2
  <2>4. Place(k + 1) = After(Place(k))
    BY <1>3, <1>5, <2>1, <2>3
  <2> QED
    BY <1>0, <1>3, <1>7, <2>4 DEF b, p
<1> QED
  BY <1>6, <1>7

\* The samples of each metric among the first j places.
Before(j) == [m \in Metrics |->
                 IF j = 0 THEN 0
                 ELSE IF m < ScrapeOrder[j].metric THEN SeriesOf[m]
                 ELSE IF m = ScrapeOrder[j].metric THEN ScrapeOrder[j].series ELSE 0]

LEMMA BeforeNext ==
    ASSUME options \in Datasets, NEW j \in Nat, j < BaseSeries
    PROVE  LET m == ScrapeOrder[j + 1].metric
           IN  m \in Metrics /\ Before(j + 1) = [Before(j) EXCEPT ![m] = @ + 1]
<1> DEFINE b == BaseSeries
           order == ScrapeOrder
           p == order[j]
           q == order[j + 1]
<1>1. b \in Nat \ {0} /\ Metrics = 1..Len(SeriesOf) /\ Len(SeriesOf) \in Nat
      /\ \A m \in Metrics : SeriesOf[m] \in Nat \ {0}
  BY OrderFacts, OptionFacts
<1>2. \A i \in 1..b : order[i] \in Places
  <2>1. order \in Seq(Places) /\ Len(order) = b
    BY OrderFacts DEF Chain
  <2> DEFINE P == Places
  <2>2. order \in Seq(P)
    BY <2>1
  <2> HIDE DEF P, order, b
  <2>3. \A i \in 1..b : order[i] \in P
    BY <2>1, <2>2
  <2> QED
    BY <2>3 DEF P
<1>3. q \in Places
  BY <1>1, <1>2
<1>4. q.metric \in Metrics
  BY <1>3 DEF Places
<1>5. CASE j = 0
  <2>1. q = [metric |-> 1, series |-> 1]
    <3>1. Len(SeriesOf) > 0
      BY OptionFacts
    <3> QED
      BY <1>5, <3>1, OrderFacts DEF Chain
  <2>2. Before(j) = [m \in Metrics |-> 0]
    BY <1>5 DEF Before
  <2>3. q.metric = 1 /\ q.series = 1
    BY <2>1
  <2>4. Before(j + 1) = [m \in Metrics |-> IF m < q.metric THEN SeriesOf[m]
                                           ELSE IF m = q.metric THEN q.series ELSE 0]
    BY <1>5 DEF Before
  <2>5. Before(j + 1) = [m \in Metrics |-> IF m = 1 THEN 1 ELSE 0]
    BY <1>1, <2>3, <2>4
  <2> DEFINE f == Before(j)
             g == Before(j + 1)
  <2>7. f = [m \in Metrics |-> 0] /\ g = [m \in Metrics |-> IF m = 1 THEN 1 ELSE 0] /\ 1 \in Metrics
    BY <1>4, <2>2, <2>3, <2>5
  <2> HIDE DEF f, g
  <2>8. \A m \in Metrics : g[m] = IF m = 1 THEN f[m] + 1 ELSE f[m]
    BY <2>7
  <2>9. g = [f EXCEPT ![1] = @ + 1]
    BY <2>7, <2>8
  <2>6. Before(j + 1) = [Before(j) EXCEPT ![1] = @ + 1]
    BY <2>9 DEF f, g
  <2> QED
    BY <1>4, <2>3, <2>6
<1>6. CASE j # 0
  <2>1. j \in 1..(b - 1) /\ j \in 1..b
    BY <1>1, <1>6
  <2>2. p \in Places /\ q = After(p)
    BY <1>2, <2>1, OrderFacts DEF Chain
  <2>3. Before(j) = [m \in Metrics |-> IF m < p.metric THEN SeriesOf[m]
                                       ELSE IF m = p.metric THEN p.series ELSE 0]
    BY <1>6 DEF Before
  <2>4. Before(j + 1) = [m \in Metrics |-> IF m < q.metric THEN SeriesOf[m]
                                           ELSE IF m = q.metric THEN q.series ELSE 0]
    BY DEF Before
  <2>5. p.metric \in Metrics /\ p.series \in Nat
    BY <2>2 DEF Places
  <2>6. IF p.series = SeriesOf[p.metric] THEN q.metric = p.metric + 1 /\ q.series = 1
        ELSE q.metric = p.metric /\ q.series = p.series + 1
    BY <2>2 DEF After
  <2> DEFINE x == p.metric
             y == q.metric
             xs == p.series
             ys == q.series
  <2>7. /\ x \in Metrics /\ y \in Metrics /\ xs \in Nat
        /\ Before(j) = [m \in Metrics |-> IF m < x THEN SeriesOf[m] ELSE IF m = x THEN xs ELSE 0]
        /\ Before(j + 1) = [m \in Metrics |-> IF m < y THEN SeriesOf[m] ELSE IF m = y THEN ys ELSE 0]
        /\ IF xs = SeriesOf[x] THEN y = x + 1 /\ ys = 1 ELSE y = x /\ ys = xs + 1
    BY <1>4, <2>3, <2>4, <2>5, <2>6
  <2> HIDE DEF x, y, xs, ys, p, q, order
  <2>8. \A m \in Metrics : Before(j + 1)[m] = IF m = y THEN Before(j)[m] + 1 ELSE Before(j)[m]
    BY <1>1, <2>7
  <2>9. Before(j + 1) = [Before(j) EXCEPT ![y] = @ + 1]
    BY <2>7, <2>8
  <2> QED
    BY <2>7, <2>9 DEF y, q, order
<1> QED
  BY <1>5, <1>6

\* How many of the first k samples belong to the first scrape.
Least(k) == IF k < BaseSeries THEN k ELSE BaseSeries

BeginsOf(entries) == [k \in Nat |-> Starts(entries[k + 1])]

\* The verifier after k samples that it accepts.
Observer(entries, k) ==
    [ok |-> TRUE, samples |-> k,
     metricIndex |-> Place(k).metric, metricSeries |-> Place(k).series - 1,
     identities |-> [i \in 1..Least(k) |-> Identity(entries[i])],
     seen |-> {Identity(entries[i]) : i \in 1..Least(k)},
     actualSeries |-> Counted(BeginsOf(entries), k),
     metricCounts |-> Before(Least(k))]

\* What it asks of the k-th sample.
FitsAt(entries, k) ==
    LET e == entries[k]
        planned == EntryAt(k - 1)
    IN  /\ (k - 1) \div BaseSeries < SamplesPerSeries
        /\ e.metric = planned.metric /\ e.scrape = planned.scrape /\ e.epoch = planned.epoch
        /\ IF k <= BaseSeries THEN \A i \in 1..(k - 1) : Identity(entries[i]) # Identity(e)
           ELSE Identity(e) = Identity(entries[((k - 1) % BaseSeries) + 1])

LEMMA ObserverStarts ==
    ASSUME options \in Datasets, NEW entries
    PROVE  Observer(entries, 0) = NewScrapeVerifier
<1>1. BaseSeries \in Nat \ {0}
  BY OrderFacts
<1>2. Least(0) = 0
  BY <1>1 DEF Least
<1>3. Place(0) = [metric |-> 1, series |-> 1]
  <2>1. Len(SeriesOf) > 0
    BY OptionFacts
  <2>2. 0 % BaseSeries = 0
    BY <1>1
  <2>3. ScrapeOrder[1] = [metric |-> 1, series |-> 1]
    BY <2>1, OrderFacts DEF Chain
  <2> QED
    BY <2>2, <2>3 DEF Place
<1>4. Place(0).metric = 1 /\ Place(0).series - 1 = 0
  BY <1>3
<1>5. [i \in 1..0 |-> Identity(entries[i])] = <<>> /\ {Identity(entries[i]) : i \in 1..0} = {}
  OBVIOUS
<1>6. Before(0) = [m \in Metrics |-> 0]
  BY DEF Before
<1>7. Counted(BeginsOf(entries), 0) = 0
  <2>1. {k \in 1..0 : BeginsOf(entries)[k - 1]} = {}
    OBVIOUS
  <2> QED
    BY <2>1, FS_EmptySet DEF Counted
<1> QED
  BY <1>2, <1>4, <1>5, <1>6, <1>7 DEF Observer, NewScrapeVerifier

\* The checks of the verifier are those of the sample's place.
LEMMA FitsThere ==
    ASSUME options \in Datasets, NEW entries, NEW k \in Nat
    PROVE  Fits(Observer(entries, k), entries[k + 1]) <=> FitsAt(entries, k + 1)
<1> DEFINE v == Observer(entries, k)
           e == entries[k + 1]
           b == BaseSeries
           s == k \div b
           p == k % b
           place == Place(k)
           planned == EntryAt(k)
<1>1. b \in Nat \ {0} /\ p \in 0..(b - 1) /\ s \in Nat /\ k = s * b + p
  BY OrderFacts, PlacesFacts
<1>2. place.metric \in Metrics /\ place.series \in Nat \ {0}
  BY PlaceStep DEF Places
<1>3. /\ v.samples = k /\ v.metricIndex = place.metric /\ v.metricSeries = place.series - 1
      /\ v.identities = [i \in 1..Least(k) |-> Identity(entries[i])]
      /\ v.seen = {Identity(entries[i]) : i \in 1..Least(k)}
  BY DEF Observer
<1>4. /\ planned.metric = place.metric /\ planned.scrape = s
      /\ planned.epoch = IF place.series <= ChurnCount[place.metric] THEN EpochAt(s) ELSE None
  BY EntryFacts DEF Place
<1>5. v.metricSeries < ChurnCount[v.metricIndex] <=> place.series <= ChurnCount[place.metric]
  <2>1. ChurnCount[place.metric] \in Nat
    <3> DEFINE churn == ChurnCount
               m == place.metric
    <3>1. churn \in Seq(Nat) /\ m \in DOMAIN churn
      BY <1>2, OptionFacts
    <3> HIDE DEF churn, m
    <3>2. churn[m] \in Nat
      BY <3>1
    <3> QED
      BY <3>2 DEF churn, m
  <2> DEFINE c == ChurnCount[place.metric]
             ps == place.series
  <2>2. c \in Nat /\ ps \in Nat
    BY <1>2, <2>1
  <2> HIDE DEF c, ps
  <2>3. ps - 1 < c <=> ps <= c
    BY <2>2
  <2> QED
    BY <1>3, <2>3 DEF c, ps
<1>6. Expected(v).scrape = s /\ Expected(v).epoch = planned.epoch
  <2> HIDE DEF v, planned, place
  <2> QED
    BY <1>3, <1>4, <1>5 DEF Expected
<1>7. s = 0 <=> k + 1 <= b
  <2> HIDE DEF b, s, p
  <2>1. CASE s = 0
    BY <1>1, <2>1
  <2>2. CASE s # 0
    <3>1. PICK d \in Nat : s = d + 1
      <4>1. s - 1 \in Nat /\ s = (s - 1) + 1
        BY <1>1, <2>2
      <4> QED
        BY <4>1
    <3>2. s * b = d * b + b /\ d * b \in Nat
      BY <1>1, <3>1
    <3> DEFINE sb == s * b
               db == d * b
    <3>3. sb = db + b /\ db \in Nat /\ k = sb + p
      BY <1>1, <3>2
    <3> HIDE DEF sb, db
    <3> QED
      BY <1>1, <2>2, <3>3
  <2> QED
    BY <2>1, <2>2
<1>8. s = 0 => (Identity(e) \notin v.seen <=> \A i \in 1..k : Identity(entries[i]) # Identity(e))
  <2> SUFFICES ASSUME s = 0
               PROVE  Identity(e) \notin v.seen <=> \A i \in 1..k : Identity(entries[i]) # Identity(e)
    OBVIOUS
  <2>1. Least(k) = k
    BY <1>1, <1>7 DEF Least
  <2>2. v.seen = {Identity(entries[i]) : i \in 1..k}
    BY <1>3, <2>1
  <2> HIDE DEF v, e
  <2> QED
    BY <2>2
<1>9. s # 0 => v.identities[p + 1] = Identity(entries[p + 1])
  <2> SUFFICES ASSUME s # 0 PROVE v.identities[p + 1] = Identity(entries[p + 1])
    OBVIOUS
  <2>1. Least(k) = b
    BY <1>1, <1>7 DEF Least
  <2>2. p + 1 \in 1..b
    <3> HIDE DEF b, p
    <3> QED
      BY <1>1
  <2>3. v.identities = [i \in 1..b |-> Identity(entries[i])]
    BY <1>3, <2>1
  <2> HIDE DEF v, b, p
  <2> QED
    BY <2>2, <2>3
<1>10. (k + 1) - 1 = k
  OBVIOUS
<1> DEFINE same == IF s = 0 THEN Identity(e) \notin v.seen ELSE Identity(e) = v.identities[p + 1]
           fits == IF k + 1 <= b THEN \A i \in 1..k : Identity(entries[i]) # Identity(e)
                   ELSE Identity(e) = Identity(entries[p + 1])
<1>11. same <=> fits
  <2> HIDE DEF v, e, b, p, s
  <2> QED
    BY <1>7, <1>8, <1>9 DEF same, fits
<1>12. Fits(v, e) <=> /\ s < SamplesPerSeries /\ e.scrape = s /\ e.epoch = planned.epoch
                      /\ e.metric = place.metric /\ same
  <2>1. v.samples % BaseSeries = p /\ v.metricIndex = place.metric
    BY <1>3
  <2> HIDE DEF v, e, planned, place, s
  <2> QED
    BY <1>6, <2>1 DEF Fits, same, p, b
<1>13. FitsAt(entries, k + 1) <=> /\ s < SamplesPerSeries /\ e.scrape = s /\ e.epoch = planned.epoch
                                  /\ e.metric = place.metric /\ fits
  <2> HIDE DEF planned, place
  <2> QED
    BY <1>4, <1>10 DEF FitsAt, fits, planned
<1> QED
  <2> HIDE DEF same, fits
  <2> QED
    BY <1>11, <1>12, <1>13

\* A verifier that has rejected nothing.
Accepting(s, mi, ms, ids, seen, total, counts) ==
    [ok |-> TRUE, samples |-> s, metricIndex |-> mi, metricSeries |-> ms,
     identities |-> ids, seen |-> seen, actualSeries |-> total, metricCounts |-> counts]

\* It accepts one more.
Accepted(v, e) ==
    Accepting(v.samples + 1, NextPosition(v).index, NextPosition(v).series,
              IF v.samples < BaseSeries THEN Append(v.identities, Identity(e)) ELSE v.identities,
              IF v.samples < BaseSeries THEN v.seen \cup {Identity(e)} ELSE v.seen,
              IF Starts(e) THEN v.actualSeries + 1 ELSE v.actualSeries,
              [v.metricCounts EXCEPT ![e.metric] = IF v.samples < BaseSeries THEN @ + 1 ELSE @])

LEMMA ObserveFields ==
    ASSUME NEW s, NEW mi, NEW ms, NEW ids, NEW seen, NEW total, NEW counts, NEW e,
           NEW given, given = Accepting(s, mi, ms, ids, seen, total, counts), Fits(given, e)
    PROVE  Observe(given, e) = Accepted(given, e)
<1> DEFINE v == [ok |-> TRUE, samples |-> s, metricIndex |-> mi, metricSeries |-> ms,
                 identities |-> ids, seen |-> seen, actualSeries |-> total, metricCounts |-> counts]
           first == v.samples < BaseSeries
           next == NextPosition(v)
           m == e.metric
           id == Identity(e)
           st == StartsSeries(e.scrape, e.epoch # None)
<1>1. Fits(v, e) /\ v.ok
  BY DEF Accepting
<1>2. Observe(v, e) = [v EXCEPT !.samples = @ + 1,
                       !.metricIndex = next.index,
                       !.metricSeries = next.series,
                       !.identities = IF first THEN Append(@, id) ELSE @,
                       !.seen = IF first THEN @ \cup {id} ELSE @,
                       !.metricCounts[m] = IF first THEN @ + 1 ELSE @,
                       !.actualSeries = IF st THEN @ + 1 ELSE @]
  BY <1>1 DEF Observe
<1> DEFINE ni == next.index
           ns == next.series
           a == s + 1
           b == IF first THEN Append(ids, id) ELSE ids
           c == IF first THEN seen \cup {id} ELSE seen
           d == [counts EXCEPT ![m] = IF first THEN counts[m] + 1 ELSE counts[m]]
           f == IF st THEN total + 1 ELSE total
<1>3. Observe(v, e) = [v EXCEPT !.samples = a, !.metricIndex = ni, !.metricSeries = ns,
                       !.identities = b, !.seen = c, !.metricCounts = d, !.actualSeries = f]
  <2> HIDE DEF first, next, m, id, st
  <2> QED
    BY <1>2
<1> HIDE DEF ni, ns, a, b, c, d, f
<1>4. Observe(v, e) = [ok |-> TRUE, samples |-> a, metricIndex |-> ni, metricSeries |-> ns,
                       identities |-> b, seen |-> c, actualSeries |-> f, metricCounts |-> d]
  BY <1>3
<1>5. given = v
  BY DEF Accepting
<1>6. Accepted(v, e) = Accepting(a, ni, ns, b, c, f, d)
  <2>1. v.samples = s /\ v.identities = ids /\ v.seen = seen /\ v.actualSeries = total
        /\ v.metricCounts = counts
    OBVIOUS
  <2> HIDE DEF v, next
  <2> QED
    BY <2>1 DEF Accepted, ni, ns, a, b, c, d, f, Starts, next, first, m, id, st
<1>7. Observe(v, e) = Accepted(v, e)
  BY <1>4, <1>6 DEF Accepting
<1> QED
  BY <1>5, <1>7

\* The verifier that accepts a sample is where the next one has its place.
LEMMA ObserveStep ==
    ASSUME options \in Datasets, NEW entries, NEW k \in Nat, FitsAt(entries, k + 1)
    PROVE  Observe(Observer(entries, k), entries[k + 1]) = Observer(entries, k + 1)
<1> DEFINE v == Observer(entries, k)
           e == entries[k + 1]
           b == BaseSeries
           place == Place(k)
           ids == [i \in 1..Least(k) |-> Identity(entries[i])]
           seen == {Identity(entries[i]) : i \in 1..Least(k)}
           total == Counted(BeginsOf(entries), k)
           counts == Before(Least(k))
           first == k < b
           mi == place.metric
           ms == place.series - 1
<1>1. b \in Nat \ {0} /\ k % b \in 0..(b - 1) /\ Fits(v, e)
  BY OrderFacts, PlacesFacts, FitsThere
<1> SUFFICES Observe(v, e) = Observer(entries, k + 1)
  OBVIOUS
<1>2. v = Accepting(k, mi, ms, ids, seen, total, counts)
  BY DEF Observer, Accepting
<1>3. Observe(v, e) =
         Accepting(k + 1, NextPosition(v).index, NextPosition(v).series,
                   IF k < b THEN Append(ids, Identity(e)) ELSE ids,
                   IF k < b THEN seen \cup {Identity(e)} ELSE seen,
                   IF Starts(e) THEN total + 1 ELSE total,
                   [counts EXCEPT ![e.metric] = IF k < b THEN @ + 1 ELSE @])
  <2> HIDE DEF v, e, ids, seen, total, counts, mi, ms
  <2>1. Observe(v, e) = Accepted(v, e)
    BY <1>1, <1>2, ObserveFields
  <2>2. v.samples = k /\ v.identities = ids /\ v.seen = seen /\ v.actualSeries = total
        /\ v.metricCounts = counts
    BY <1>2 DEF Accepting
  <2> HIDE DEF b
  <2> QED
    BY <2>1, <2>2 DEF Accepted, b
<1>4. NextPosition(v).index = Place(k + 1).metric /\ NextPosition(v).series = Place(k + 1).series - 1
  <2>1. v.samples = k /\ v.metricIndex = mi /\ v.metricSeries = ms
    BY <1>2 DEF Accepting
  <2>2. NextPosition(v) = [index |-> IF k % b = b - 1 THEN 1
                                     ELSE IF ms + 1 = SeriesOf[mi] THEN mi + 1 ELSE mi,
                           series |-> IF ms + 1 = SeriesOf[mi] THEN 0 ELSE ms + 1]
    <3> HIDE DEF v, mi, ms
    <3> QED
      BY <2>1 DEF NextPosition
  <2>3. place \in Places /\ mi \in Nat /\ place.series \in Nat /\ ms + 1 = place.series
    <3>1. place \in Places
      BY PlaceStep
    <3>2. mi \in Metrics /\ place.series \in Nat
      BY <3>1 DEF Places
    <3>3. \A m \in Metrics : m \in Nat
      BY OptionFacts
    <3> HIDE DEF place
    <3> QED
      BY <3>1, <3>2, <3>3
  <2>4. CASE k % b = b - 1
    <3>1. Place(k + 1) = [metric |-> 1, series |-> 1]
          /\ place = [metric |-> Len(SeriesOf), series |-> SeriesOf[Len(SeriesOf)]]
      BY <2>4, PlaceStep
    <3>2. place.series = SeriesOf[place.metric]
      BY <3>1
    <3> HIDE DEF v, place, b
    <3>3. NextPosition(v).index = 1 /\ NextPosition(v).series = 0
      BY <2>2, <2>3, <2>4, <3>2
    <3>4. Place(k + 1).metric = 1 /\ Place(k + 1).series - 1 = 0
      BY <3>1
    <3> QED
      BY <3>3, <3>4
  <2>5. CASE k % b # b - 1
    <3>1. Place(k + 1) = After(place)
      BY <2>5, PlaceStep
    <3>2. Place(k + 1) = IF place.series = SeriesOf[mi] THEN [metric |-> mi + 1, series |-> 1]
                         ELSE [metric |-> mi, series |-> place.series + 1]
      BY <3>1 DEF After
    <3> HIDE DEF v, place, b
    <3>3. CASE place.series = SeriesOf[mi]
      <4>1. Place(k + 1) = [metric |-> mi + 1, series |-> 1]
        BY <3>2, <3>3
      <4>2. Place(k + 1).metric = mi + 1 /\ Place(k + 1).series - 1 = 0
        BY <4>1
      <4>3. NextPosition(v).index = mi + 1 /\ NextPosition(v).series = 0
        BY <2>2, <2>3, <2>5, <3>3
      <4> QED
        BY <4>2, <4>3
    <3>4. CASE place.series # SeriesOf[mi]
      <4>1. Place(k + 1) = [metric |-> mi, series |-> place.series + 1]
        BY <3>2, <3>4
      <4>2. Place(k + 1).metric = mi /\ Place(k + 1).series - 1 = place.series
        BY <2>3, <4>1
      <4>3. NextPosition(v).index = mi /\ NextPosition(v).series = place.series
        BY <2>2, <2>3, <2>5, <3>4
      <4> QED
        BY <4>2, <4>3
    <3> QED
      BY <3>3, <3>4
  <2> QED
    BY <2>4, <2>5
<1>5. Counted(BeginsOf(entries), k + 1) = IF Starts(e) THEN total + 1 ELSE total
  <2>1. BeginsOf(entries)[k] = Starts(e)
    BY DEF BeginsOf
  <2> QED
    BY <2>1, CountedNext
<1>6. e.metric = mi
  BY EntryFacts DEF FitsAt, Place
<1>7. CASE first
  <2>1. Least(k) = k /\ Least(k + 1) = k + 1
    BY <1>1, <1>7 DEF Least
  <2>2. ids = [i \in 1..k |-> Identity(entries[i])] /\ seen = {Identity(entries[i]) : i \in 1..k}
        /\ counts = Before(k)
    BY <2>1
  <2>3. Append(ids, Identity(e)) = [i \in 1..(k + 1) |-> Identity(entries[i])]
    <3> DEFINE I == [j \in Nat |-> Identity(entries[j])]
               id == Identity(e)
    <3>0. id = I[k + 1] /\ \A i \in 1..(k + 1) : Identity(entries[i]) = I[i]
      OBVIOUS
    <3>1. ids = [i \in 1..k |-> I[i]]
      BY <2>2
    <3> HIDE DEF ids, I, id
    <3>2. ids \in Seq({I[i] : i \in Nat}) /\ Len(ids) = k
      BY <3>1
    <3>3. Append(ids, id) = [i \in 1..(k + 1) |-> I[i]]
      BY <3>0, <3>1, <3>2
    <3>4. [i \in 1..(k + 1) |-> Identity(entries[i])] = [i \in 1..(k + 1) |-> I[i]]
      BY <3>0
    <3> QED
      BY <3>3, <3>4 DEF id
  <2>4. seen \cup {Identity(e)} = {Identity(entries[i]) : i \in 1..(k + 1)}
    <3>1. 1..(k + 1) = 1..k \cup {k + 1}
      OBVIOUS
    <3> HIDE DEF seen
    <3> QED
      BY <2>2, <3>1
  <2>5. [counts EXCEPT ![e.metric] = IF k < b THEN @ + 1 ELSE @] = Before(k + 1)
    <3>1. ScrapeOrder[k + 1] = place
      <4>1. k % b = k
        <5> HIDE DEF b
        <5> QED
          BY <1>1, <1>7
      <4> QED
        BY <4>1 DEF Place
    <3>2. Before(k + 1) = [Before(k) EXCEPT ![mi] = @ + 1]
      BY <1>7, <3>1, BeforeNext
    <3> HIDE DEF counts, mi, e, b
    <3> QED
      BY <1>6, <1>7, <2>2, <3>2
  <2>6. Observer(entries, k + 1) =
           Accepting(k + 1, Place(k + 1).metric,
                     Place(k + 1).series - 1,
                     [i \in 1..(k + 1) |-> Identity(entries[i])],
                     {Identity(entries[i]) : i \in 1..(k + 1)},
                     Counted(BeginsOf(entries), k + 1),
                     Before(k + 1))
    BY <2>1 DEF Observer, Accepting
  <2> HIDE DEF v, e, ids, seen, total, counts, mi, ms, b
  <2> QED
    BY <1>3, <1>4, <1>5, <1>7, <2>3, <2>4, <2>5, <2>6
<1>8. CASE ~first
  <2>1. Least(k) = b /\ Least(k + 1) = b
    BY <1>1, <1>8 DEF Least
  <2>2. [counts EXCEPT ![e.metric] = IF k < b THEN @ + 1 ELSE @] = Before(b)
    <3>1. counts = Before(b)
      BY <2>1
    <3>2. \E f : counts = [m \in Metrics |-> f[m]]
      <4>1. counts = [m \in Metrics |-> counts[m]]
        BY <3>1 DEF Before
      <4> QED
        BY <4>1
    <3> HIDE DEF counts, e, b
    <3> QED
      BY <1>8, <3>1, <3>2
  <2>3. Observer(entries, k + 1) =
           Accepting(k + 1, Place(k + 1).metric,
                     Place(k + 1).series - 1,
                     ids,
                     seen,
                     Counted(BeginsOf(entries), k + 1),
                     Before(b))
    BY <2>1 DEF Observer, Accepting
  <2> HIDE DEF v, e, ids, seen, total, counts, mi, ms, b
  <2> QED
    BY <1>3, <1>4, <1>5, <1>8, <2>2, <2>3
<1> QED
  BY <1>7, <1>8

\* The verifier after each of the first n entries.
Read(entries, n, g) == [k \in 0..n |-> IF k = 0 THEN NewScrapeVerifier ELSE Observe(g[k - 1], entries[k])]
Reads(entries, n, g) == g = Read(entries, n, g)

LEMMA ReadsExists ==
    ASSUME NEW entries, NEW m \in Nat
    PROVE  \E g : Reads(entries, m, g)
<1> DEFINE T == {n \in Nat : \E g : Reads(entries, n, g)}
<1>1. 0 \in T
  <2> DEFINE g == [k \in 0..0 |-> NewScrapeVerifier]
  <2>1. g = Read(entries, 0, g)
    BY DEF Read
  <2> QED
    BY <2>1 DEF Reads
<1>2. ASSUME NEW n \in Nat, n \in T PROVE n + 1 \in T
  <2>1. PICK g : Reads(entries, n, g)
    BY <1>2
  <2> DEFINE h == Read(entries, n + 1, g)
  <2>2. ASSUME NEW i \in 0..n PROVE h[i] = g[i]
    <3>1. g[i] = Read(entries, n, g)[i]
      BY <2>1, Zenon DEF Reads
    <3>2. i \in 0..(n + 1)
      OBVIOUS
    <3> QED
      BY <3>1, <3>2 DEF Read
  <2>3. \A i \in 0..(n + 1) : i # 0 => i - 1 \in 0..n
    OBVIOUS
  <2>4. h = Read(entries, n + 1, h)
    BY <2>2, <2>3 DEF Read
  <2> QED
    BY <2>4 DEF Reads
<1> HIDE DEF T
<1>3. Nat \subseteq T
  BY <1>1, <1>2, NumbersInduction
<1> QED
  BY <1>3 DEF T

\* It accepts as long as every sample fits its place, and never again.
AsExpected(entries, k, v) ==
    IF \A i \in 1..k : FitsAt(entries, i) THEN v = Observer(entries, k)
    ELSE "ok" \in DOMAIN v /\ ~v.ok

LEMMA ReadsFacts ==
    ASSUME options \in Datasets, NEW entries, NEW n \in Nat, NEW g, Reads(entries, n, g)
    PROVE  \A k \in 0..n : AsExpected(entries, k, g[k])
<1> DEFINE T == {k \in Nat : k <= n => AsExpected(entries, k, g[k])}
<1>0. ASSUME NEW k \in 0..n
      PROVE  g[k] = IF k = 0 THEN NewScrapeVerifier ELSE Observe(g[k - 1], entries[k])
  <2>1. g[k] = Read(entries, n, g)[k]
    BY Zenon DEF Reads
  <2> QED
    BY <2>1 DEF Read
<1>1. 0 \in T
  <2>1. g[0] = NewScrapeVerifier
    BY <1>0
  <2>2. g[0] = Observer(entries, 0) /\ 1..0 = {}
    BY <2>1, ObserverStarts
  <2> QED
    BY <2>2 DEF AsExpected
<1>2. ASSUME NEW k \in Nat, k \in T PROVE k + 1 \in T
  <2> SUFFICES ASSUME k + 1 <= n PROVE AsExpected(entries, k + 1, g[k + 1])
    OBVIOUS
  <2>1. g[k + 1] = Observe(g[k], entries[k + 1])
    <3>1. k + 1 \in 0..n /\ k + 1 # 0 /\ (k + 1) - 1 = k
      OBVIOUS
    <3> QED
      BY <1>0, <3>1
  <2>2. AsExpected(entries, k, g[k])
    BY <1>2
  <2>3. 1..(k + 1) = 1..k \cup {k + 1}
    OBVIOUS
  <2>4. CASE ~(\A i \in 1..k : FitsAt(entries, i))
    <3>1. "ok" \in DOMAIN g[k] /\ ~g[k].ok
      BY <2>2, <2>4 DEF AsExpected
    <3>2. g[k + 1] = [g[k] EXCEPT !.ok = FALSE]
      BY <2>1, <3>1 DEF Observe
    <3>3. "ok" \in DOMAIN g[k + 1] /\ ~g[k + 1].ok
      BY <3>1, <3>2
    <3> QED
      BY <2>3, <2>4, <3>3 DEF AsExpected
  <2>5. CASE \A i \in 1..k : FitsAt(entries, i)
    <3>1. g[k] = Observer(entries, k)
      BY <2>2, <2>5 DEF AsExpected
    <3>2. CASE FitsAt(entries, k + 1)
      <4>1. g[k + 1] = Observer(entries, k + 1)
        BY <2>1, <3>1, <3>2, ObserveStep
      <4> QED
        BY <2>3, <2>5, <3>2, <4>1 DEF AsExpected
    <3>3. CASE ~FitsAt(entries, k + 1)
      <4>1. ~Fits(g[k], entries[k + 1])
        BY <3>1, <3>3, FitsThere
      <4>2. g[k + 1] = [g[k] EXCEPT !.ok = FALSE]
        BY <2>1, <4>1 DEF Observe
      <4>3. "ok" \in DOMAIN g[k]
        BY <3>1 DEF Observer
      <4>4. "ok" \in DOMAIN g[k + 1] /\ ~g[k + 1].ok
        BY <4>2, <4>3
      <4> QED
        BY <2>3, <3>3, <4>4 DEF AsExpected
    <3> QED
      BY <3>2, <3>3
  <2> QED
    BY <2>4, <2>5
<1> HIDE DEF T
<1>3. Nat \subseteq T
  BY <1>1, <1>2, NumbersInduction
<1> QED
  BY <1>3 DEF T

LEMMA ObservedFacts ==
    ASSUME options \in Datasets, NEW entries, Len(entries) \in Nat
    PROVE  AsExpected(entries, Len(entries), Observed(entries))
<1> DEFINE n == Len(entries)
           v == CHOOSE g : Reads(entries, n, g)
<1>1. Observed(entries) = v[n]
  BY DEF Observed, Reads, Read
<1>2. Reads(entries, n, v)
  BY ReadsExists
<1> HIDE DEF v
<1>3. n \in 0..n
  OBVIOUS
<1> QED
  BY <1>1, <1>2, <1>3, ReadsFacts

LEMMA BeforeAll ==
    ASSUME options \in Datasets
    PROVE  Before(BaseSeries) = SeriesOf
<1> DEFINE n == Len(SeriesOf)
           p == ScrapeOrder[BaseSeries]
<1>1. n \in Nat \ {0} /\ Metrics = 1..n /\ BaseSeries # 0
  BY OptionFacts, OrderFacts
<1>2. p = [metric |-> n, series |-> SeriesOf[n]]
  BY <1>1, OrderFacts DEF Chain
<1>3. p.metric = n /\ p.series = SeriesOf[n]
  BY <1>2
<1>4. Before(BaseSeries) = [m \in Metrics |-> IF m < p.metric THEN SeriesOf[m]
                                             ELSE IF m = p.metric THEN p.series ELSE 0]
  BY <1>1 DEF Before
<1>5. SeriesOf = [m \in Metrics |-> SeriesOf[m]]
  BY OptionFacts DEF Metrics
<1> HIDE DEF p, n
<1> QED
  BY <1>1, <1>3, <1>4, <1>5

\* What Verify asks of the entries: full scrapes in files of the size allowed,
\* each sample in its place, and the total of the series they begin.
LEMMA VerifiesFacts ==
    ASSUME options \in Datasets, NEW files \in Seq(File), NEW total
    PROVE  Verifies([f \in DOMAIN files |-> files[f].entries], total) <=>
               /\ files # <<>>
               /\ \A f \in 1..Len(files) : Len(files[f].entries) \in 1..MaxSamples
               /\ Len(EntriesOf(files)) = TotalSamples
               /\ \A k \in 1..TotalSamples : FitsAt(EntriesOf(files), k)
               /\ Counted(BeginsOf(EntriesOf(files)), TotalSamples) = total
<1> DEFINE parts == [f \in DOMAIN files |-> files[f].entries]
           E == EntriesOf(files)
           v == Observed(E)
           n == Len(E)
           fit == \A k \in 1..n : FitsAt(E, k)
<1>1. DOMAIN files = 1..Len(files) /\ Len(files) \in Nat
  BY DEF File
<1>2. n \in Nat
  <2>1. E \in Seq(Entry)
    BY EntriesSeq
  <2> HIDE DEF E
  <2> QED
    BY <2>1
<1>3. parts # <<>> <=> files # <<>>
  <2>1. DOMAIN parts = 1..Len(files)
    BY <1>1
  <2>2. DOMAIN (<<>>) = {}
    OBVIOUS
  <2>3. files = <<>> => Len(files) = 0
    OBVIOUS
  <2>4. Len(files) = 0 => files = <<>>
    <3> DEFINE F == File
    <3>1. files \in Seq(F)
      OBVIOUS
    <3> HIDE DEF F
    <3> QED
      BY <3>1
  <2>5. parts = <<>> => Len(files) = 0
    <3> SUFFICES ASSUME parts = <<>> PROVE Len(files) = 0
      OBVIOUS
    <3>1. 1..Len(files) = {}
      BY <2>1, <2>2
    <3> QED
      BY <1>1, <3>1
  <2>6. Len(files) = 0 => parts = <<>>
    BY <1>1
  <2> QED
    BY <2>3, <2>4, <2>5, <2>6
<1>4. (\A f \in Range(parts) : Len(f) \in 1..MaxSamples)
        <=> (\A f \in 1..Len(files) : Len(files[f].entries) \in 1..MaxSamples)
  BY <1>1 DEF Range
<1>5. E = FlattenSeq(parts)
  BY DEF EntriesOf
<1>6. AsExpected(E, n, v)
  BY <1>2, ObservedFacts
<1>7. Verifies(parts, total) <=>
         /\ files # <<>>
         /\ \A f \in 1..Len(files) : Len(files[f].entries) \in 1..MaxSamples
         /\ v.ok /\ v.samples = TotalSamples /\ v.metricCounts = SeriesOf /\ v.actualSeries = total
  <2> HIDE DEF parts, E
  <2> QED
    BY <1>3, <1>4, <1>5 DEF Verifies
<1> DEFINE good == v.ok /\ v.samples = TotalSamples /\ v.metricCounts = SeriesOf /\ v.actualSeries = total
<1>8. good <=> /\ n = TotalSamples /\ fit /\ Counted(BeginsOf(E), TotalSamples) = total
  <2>1. CASE ~fit
    BY <1>6, <2>1 DEF AsExpected
  <2>2. CASE fit
    <3> HIDE DEF v, E, n
    <3>1. v = Observer(E, n)
      BY <1>6, <2>2 DEF AsExpected
    <3>2. v.ok /\ v.samples = n /\ v.actualSeries = Counted(BeginsOf(E), n) /\ v.metricCounts = Before(Least(n))
      BY <3>1 DEF Observer
    <3>3. n = TotalSamples => v.metricCounts = SeriesOf
      <4> SUFFICES ASSUME n = TotalSamples PROVE v.metricCounts = SeriesOf
        OBVIOUS
      <4>1. Least(n) = BaseSeries
        <5>1. BaseSeries \in Nat /\ TotalSamples \in Nat /\ BaseSeries <= TotalSamples
          BY OrderFacts, TotalFacts
        <5> QED
          BY <5>1 DEF Least
      <4> QED
        BY <3>2, <4>1, BeforeAll
    <3> HIDE DEF fit
    <3> QED
      BY <2>2, <3>2, <3>3
  <2> QED
    BY <2>1, <2>2
<1> QED
  <2>1. n = TotalSamples => (fit <=> \A k \in 1..TotalSamples : FitsAt(E, k))
    OBVIOUS
  <2> HIDE DEF v, E, fit, parts
  <2> QED
    BY <1>7, <1>8, <2>1 DEF parts, E, n

-----------------------------------------------------------------------------
(* What Verify accepts.                                                      *)

\* Within the total, the scrape is one of the window.
LEMMA ScrapeBound ==
    ASSUME options \in Datasets, NEW k \in Nat, k < TotalSamples
    PROVE  k \div BaseSeries < SamplesPerSeries
<1> DEFINE b == BaseSeries
           s == SamplesPerSeries
           c == k \div b
           p == k % b
<1>1. /\ b \in Nat \ {0} /\ s \in Nat \ {0} /\ c \in Nat /\ p \in 0..(b - 1) /\ k = c * b + p
      /\ k < b * s
  BY OrderFacts, PlacesFacts, TotalFacts DEF TotalSamples
<1> HIDE DEF b, s, c, p
<1>2. c < s
  <2> SUFFICES ASSUME c >= s PROVE FALSE
    BY <1>1
  <2>1. PICK d \in Nat : c = s + d
    <3>1. c - s \in Nat /\ c = s + (c - s)
      BY <1>1
    <3> QED
      BY <3>1
  <2>2. c * b = b * s + d * b /\ d * b \in Nat /\ b * s \in Nat
    BY <1>1, <2>1
  <2> DEFINE cb == c * b
             bs == b * s
             db == d * b
  <2>3. cb = bs + db /\ db \in Nat /\ bs \in Nat /\ k = cb + p /\ k < bs
    BY <1>1, <2>2
  <2> HIDE DEF cb, bs, db
  <2> QED
    BY <1>1, <2>3
<1> QED
  BY <1>2 DEF b, s, c

\* A place of the first scrape, and that of any sample, by its number.
LEMMA FirstPlaces ==
    ASSUME options \in Datasets, NEW k \in Nat
    PROVE  /\ k < BaseSeries => k % BaseSeries = k /\ k \div BaseSeries = 0
           /\ Place(k % BaseSeries) = Place(k)
           /\ Identity(EntryAt(k)) = Place(k)
<1> DEFINE b == BaseSeries
           p == k % b
<1>1. b \in Nat \ {0} /\ p \in 0..(b - 1)
  BY OrderFacts, PlacesFacts
<1>2. ASSUME NEW i \in Nat, i < b PROVE i % b = i /\ i \div b = 0
  <2> HIDE DEF b
  <2>1. (0 * b + i) \div b = 0 /\ (0 * b + i) % b = i
    <3>1. i \in 0..(b - 1)
      BY <1>1, <1>2
    <3> QED
      BY <1>1, <3>1, DivideOnce
  <2>2. 0 * b + i = i
    BY <1>1
  <2> QED
    BY <2>1, <2>2
<1>3. p % b = p
  <2> HIDE DEF b, p
  <2> QED
    BY <1>1, <1>2
<1>4. Place(p) = Place(k)
  BY <1>3 DEF Place
<1>5. Identity(EntryAt(k)) = [metric |-> Place(k).metric, series |-> Place(k).series]
  BY EntryFacts DEF Identity, Place
<1>6. Place(k) = [metric |-> Place(k).metric, series |-> Place(k).series]
  BY PlaceStep DEF Places
<1> QED
  BY <1>2, <1>4, <1>5, <1>6

\* What Generate emits fits.
LEMMA PlannedFits ==
    ASSUME options \in Datasets, NEW k \in 1..TotalSamples
    PROVE  FitsAt(Planned(TotalSamples), k)
<1> DEFINE n == TotalSamples
           E == Planned(n)
           b == BaseSeries
           j == k - 1
           p == j % b
<1>1. n \in Nat /\ b \in Nat \ {0} /\ b <= n
  BY TotalFacts, OrderFacts
<1>2. j \in Nat /\ j < n /\ k \in 1..n /\ (p + 1) - 1 = p /\ p \in 0..(b - 1)
  <2>1. j \in Nat /\ j < n
    BY <1>1
  <2>2. p \in 0..(b - 1)
    BY <2>1, PlacesFacts
  <2> HIDE DEF p, b
  <2> QED
    BY <1>1, <2>1, <2>2
<1>3. \A i \in 1..n : E[i] = EntryAt(i - 1) /\ Identity(E[i]) = Place(i - 1)
  <2> TAKE i \in 1..n
  <2>1. E[i] = EntryAt(i - 1) /\ i - 1 \in Nat
    BY <1>1, PlannedEntries
  <2> QED
    BY <2>1, FirstPlaces
<1>4. j \div b < SamplesPerSeries
  BY <1>2, ScrapeBound
<1>5. E[k] = EntryAt(j)
  BY <1>3
<1>6. CASE k <= b
  <2>1. ASSUME NEW i \in 1..(k - 1) PROVE Identity(E[i]) # Identity(E[k])
    <3>1. i \in 1..n /\ i - 1 \in Nat /\ i - 1 < b /\ j < b /\ i # k /\ i \in 1..b /\ k \in 1..b
      BY <1>1, <1>2, <1>6
    <3>2. (i - 1) % b = i - 1 /\ j % b = j
      BY <1>2, <3>1, FirstPlaces
    <3>3. Place(i - 1) = ScrapeOrder[(i - 1) + 1] /\ Place(j) = ScrapeOrder[j + 1]
      BY <3>2 DEF Place
    <3>4. (i - 1) + 1 = i /\ j + 1 = k
      BY <3>1
    <3>5. ScrapeOrder[i] # ScrapeOrder[k]
      <4>1. IsInjective(ScrapeOrder) /\ ScrapeOrder \in Seq(Places) /\ Len(ScrapeOrder) = b
        BY OrderFacts DEF Chain
      <4> DEFINE o == ScrapeOrder
                 P == Places
      <4>2. o \in Seq(P) /\ Len(o) = b /\ IsInjective(o)
        BY <4>1
      <4> HIDE DEF o, P
      <4>3. DOMAIN o = 1..b
        BY <4>2
      <4>4. o[i] # o[k]
        BY <3>1, <4>2, <4>3 DEF IsInjective
      <4> QED
        BY <4>4 DEF o
    <3>6. Identity(E[i]) = Place(i - 1) /\ Identity(E[k]) = Place(j)
      BY <1>3, <3>1
    <3> QED
      BY <3>3, <3>4, <3>5, <3>6
  <2> HIDE DEF E
  <2> QED
    BY <1>4, <1>5, <1>6, <2>1 DEF FitsAt, E
<1>7. CASE ~(k <= b)
  <2>1. Identity(E[k]) = Identity(E[p + 1])
    <3>1. p + 1 \in 1..n
      <4> HIDE DEF p, b, n
      <4> QED
        BY <1>1, <1>2
    <3>2. Identity(E[p + 1]) = Place((p + 1) - 1)
      BY <1>3, <3>1
    <3>3. Identity(E[p + 1]) = Place(p)
      <4> HIDE DEF p, E
      <4> QED
        BY <1>2, <3>2
    <3>4. Place(p) = Place(j)
      BY <1>2, FirstPlaces
    <3> QED
      BY <1>3, <3>3, <3>4
  <2> HIDE DEF E
  <2> QED
    BY <1>4, <1>5, <1>7, <2>1 DEF FitsAt, E
<1> QED
  BY <1>6, <1>7

\* The total of the series what Generate emits begins.
LEMMA PlannedCount ==
    ASSUME options \in Datasets, NEW entries, NEW n \in Nat,
           \A k \in 1..n : entries[k].scrape = EntryAt(k - 1).scrape /\ entries[k].epoch = EntryAt(k - 1).epoch
    PROVE  Counted(BeginsOf(entries), n) = Counted(Begins, n)
<1>1. ASSUME NEW k \in 1..n PROVE BeginsOf(entries)[k - 1] = Begins[k - 1]
  <2>1. k - 1 \in Nat /\ (k - 1) + 1 = k
    OBVIOUS
  <2>2. BeginsOf(entries)[k - 1] = Starts(entries[k]) /\ Begins[k - 1] = Starts(EntryAt(k - 1))
    BY <2>1 DEF BeginsOf, Begins
  <2>3. Starts(entries[k]) = Starts(EntryAt(k - 1))
    BY DEF Starts
  <2> QED
    BY <2>2, <2>3
<1>2. {k \in 1..n : BeginsOf(entries)[k - 1]} = {k \in 1..n : Begins[k - 1]}
  BY <1>1
<1> QED
  BY <1>2 DEF Counted

\* Files that the manifest lists and nothing else.
LEMMA HoldsFacts ==
    ASSUME NEW files \in Seq(File), Holds(files), partial = None, summary # None
    PROVE  /\ Entries = Len(files) + 1
           /\ \A f \in DOMAIN files : f - 1 \in DOMAIN bins /\ bins[f - 1] = files[f]
<1> DEFINE n == Len(files)
<1>1. n \in Nat /\ DOMAIN files = 1..n
  BY DEF File
<1>2. DOMAIN bins = 0..(n - 1) /\ \A f \in 1..n : bins[f - 1] = files[f]
  BY DEF Holds
<1> HIDE DEF n
<1>3. Cardinality(0..(n - 1)) = n
  <2>1. 0 \in Int /\ n - 1 \in Int
    BY <1>1
  <2>2. Cardinality(0..(n - 1)) = IF 0 > n - 1 THEN 0 ELSE (n - 1) - 0 + 1
    BY <2>1, FS_Interval
  <2> QED
    BY <1>1, <2>2
<1>4. Entries = n + 0 + 1
  BY <1>2, <1>3 DEF Entries
<1>5. \A f \in 1..n : f - 1 \in 0..(n - 1)
  BY <1>1
<1> QED
  BY <1>1, <1>2, <1>4, <1>5 DEF n

LEMMA NoFiles ==
    ASSUME NEW files \in Seq(File), Len(EntriesOf(files)) # 0
    PROVE  files # <<>>
<1> SUFFICES ASSUME files = <<>> PROVE FALSE
  OBVIOUS
<1>1. [f \in DOMAIN <<>> |-> <<>>[f].entries] = <<>>
  OBVIOUS
<1>2. EntriesOf(<<>>) = <<>>
  BY <1>1, FlattenEmpty DEF EntriesOf
<1> QED
  BY <1>2

\* What Verify accepts was published: an interrupted, failed or killed run
\* leaves nothing that it accepts, and no later run completes it.  And it
\* accepts what was published, for every option, if the runs did not overlap.
THEOREM PublishedVerifies == Spec => []VerifiesOncePublished
<1>1. ASSUME DatasetInv, SoloInv PROVE VerifiesOncePublished
  <2>0. RunTypes /\ RunInv /\ DirTypes /\ DirInv /\ options \in Datasets
    BY <1>1 DEF DatasetInv, RunTypes
  <2>1. Verified => Published
    BY <2>0 DEF Verified, DirInv
  <2>2. ASSUME ~Overlap, edits = 0, NEW r \in Runs, pc[r] = "published" PROVE Verified
    <3>1. summary = Manifest(r) /\ Holds(listed[r]) /\ partial = None
      BY <1>1, <2>2 DEF SoloInv, Published
    <3> DEFINE files == listed[r]
               n == TotalSamples
               E == EntriesOf(files)
    <3>2. files \in Seq(File) /\ summary \notin {None, Torn}
          /\ summary.files = files /\ summary.series = series[r]
      BY <2>0, <3>1, ManifestType DEF Manifest, RunTypes
    <3>3. Entries = Len(files) + 1
          /\ \A f \in DOMAIN files : f - 1 \in DOMAIN bins /\ bins[f - 1] = files[f]
      BY <3>1, <3>2, HoldsFacts
    <3>4. DataOK(r) /\ Complete(r)
      BY <2>0, <2>2 DEF RunInv, PlaceOK
    <3>5. E = Planned(n) /\ n \in Nat \ {0}
      BY <2>0, <3>4, CompleteEntries, TotalFacts
    <3>6. Len(E) = n /\ \A k \in 1..n : E[k] = EntryAt(k - 1)
      <4> HIDE DEF E, n
      <4> QED
        BY <2>0, <3>5, PlannedEntries
    <3>7. \A k \in 1..n : FitsAt(E, k)
      <4> HIDE DEF E
      <4> QED
        BY <2>0, <3>5, PlannedFits
    <3>8. Counted(BeginsOf(E), n) = series[r]
      <4>1. Counted(BeginsOf(E), n) = Counted(Begins, n)
        <5> HIDE DEF E, n
        <5> QED
          BY <2>0, <3>5, <3>6, PlannedCount
      <4>2. series[r] = Counted(Begins, n)
        BY <3>4 DEF DataOK, Complete
      <4> QED
        BY <4>1, <4>2
    <3>9. files # <<>>
      <4>1. Len(E) # 0
        BY <3>5, <3>6
      <4> QED
        BY <3>2, <4>1, NoFiles
    <3>10. \A f \in 1..Len(files) : Len(files[f].entries) \in 1..MaxSamples
      BY <3>4 DEF DataOK
    <3>11. Verifies([f \in DOMAIN files |-> files[f].entries], series[r])
      <4> HIDE DEF files
      <4> QED
        BY <2>0, <3>2, <3>6, <3>7, <3>8, <3>9, <3>10, VerifiesFacts
    <3> QED
      BY <3>2, <3>3, <3>11 DEF Verified
  <2> QED
    BY <2>1, <2>2 DEF VerifiesOncePublished, Published
<1>2. DatasetInv /\ SoloInv => VerifiesOncePublished
  BY <1>1
<1> QED
  BY <1>2, SoloInvariance, PTL

\* A scrape later in the same place.
LEMMA ScrapeLater ==
    ASSUME options \in Datasets, NEW k \in Nat
    PROVE  (k + BaseSeries) % BaseSeries = k % BaseSeries
<1> DEFINE b == BaseSeries
           c == k \div b
           p == k % b
<1>1. b \in Nat \ {0} /\ c \in Nat /\ p \in 0..(b - 1) /\ k = c * b + p
  BY OrderFacts, PlacesFacts
<1> HIDE DEF b, c, p
<1>2. ((c + 1) * b + p) % b = p
  BY <1>1, DivideOnce
<1>3. (c + 1) * b + p = k + b
  <2>1. (c + 1) * b = c * b + b /\ c * b \in Nat
    BY <1>1
  <2> DEFINE x == c * b
             y == (c + 1) * b
  <2>2. y = x + b /\ x \in Nat /\ k = x + p
    BY <1>1, <2>1
  <2>3. y + p = k + b
    <3> HIDE DEF x, y
    <3> QED
      BY <1>1, <2>2
  <2> QED
    BY <2>3
<1> QED
  BY <1>2, <1>3 DEF b, p

\* The series of whole scrapes are those of the first one.
LEMMA SameAsFirst ==
    ASSUME options \in Datasets, NEW entries, Len(entries) = TotalSamples,
           DOMAIN entries = 1..TotalSamples, WholeScrapes(entries),
           NEW k \in 0..(TotalSamples - 1)
    PROVE  entries[k + 1].series = entries[(k % BaseSeries) + 1].series
<1> DEFINE b == BaseSeries
           n == TotalSamples
           c == k \div b
           p == k % b
           T == {d \in Nat : d * b + p < n => entries[d * b + p + 1].series = entries[p + 1].series}
<1>1. n \in Nat \ {0} /\ b \in Nat \ {0}
  BY TotalFacts, OrderFacts
<1>2. k \in Nat
  BY <1>1
<1>3. c \in Nat /\ p \in 0..(b - 1) /\ k = c * b + p
  BY <1>2, PlacesFacts
<1>4. \A i \in 1..n : i + b \in 1..n => entries[i + b].series = entries[i].series
  BY DEF WholeScrapes
<1> HIDE DEF b, n, c, p
<1>5. 0 \in T
  <2>1. 0 * b + p + 1 = p + 1
    BY <1>1, <1>3
  <2> QED
    BY <2>1
<1>6. ASSUME NEW d \in Nat, d \in T PROVE d + 1 \in T
  <2>1. (d + 1) * b = d * b + b /\ d * b \in Nat
    BY <1>1
  <2> DEFINE x == d * b
             y == (d + 1) * b
  <2>2. y = x + b /\ x \in Nat
    BY <2>1
  <2>3. x + p < n => entries[x + p + 1].series = entries[p + 1].series
    BY <1>6
  <2>4. y + p < n => entries[y + p + 1].series = entries[p + 1].series
    <3> HIDE DEF x, y, T
    <3> SUFFICES ASSUME y + p < n PROVE entries[y + p + 1].series = entries[p + 1].series
      OBVIOUS
    <3>1. x + p < n /\ x + p + 1 \in 1..n /\ (x + p + 1) + b \in 1..n /\ (x + p + 1) + b = y + p + 1
      BY <1>1, <1>3, <2>2
    <3>2. entries[(x + p + 1) + b].series = entries[x + p + 1].series
      BY <1>4, <3>1
    <3> QED
      BY <2>3, <3>1, <3>2
  <2> QED
    BY <2>4
<1>7. c \in T
  <2> HIDE DEF T
  <2> QED
    BY <1>3, <1>5, <1>6, NumbersInduction
<1>8. k < n /\ c * b + p + 1 = k + 1
  <2> DEFINE x == c * b
  <2>1. x + p = k
    BY <1>3
  <2> HIDE DEF x
  <2>2. k < n
    BY <1>1 DEF n
  <2>3. x + p + 1 = (x + p) + 1
    <3>1. x \in Nat
      BY <1>1, <1>3 DEF x
    <3> QED
      BY <1>3, <3>1
  <2> QED
    BY <2>1, <2>2, <2>3 DEF x
<1>9. entries[c * b + p + 1].series = entries[p + 1].series
  BY <1>3, <1>7, <1>8
<1> QED
  BY <1>8, <1>9 DEF p, b

\* Whole scrapes are what fits, sample by sample.
LEMMA WholeFits ==
    ASSUME options \in Datasets, NEW entries, Len(entries) = TotalSamples,
           DOMAIN entries = 1..TotalSamples
    PROVE  WholeScrapes(entries) <=> \A k \in 1..TotalSamples : FitsAt(entries, k)
<1> DEFINE b == BaseSeries
           n == TotalSamples
           id(k) == Identity(entries[k])
<1>0. n \in Nat \ {0} /\ b \in Nat \ {0} /\ b <= n
  BY TotalFacts, OrderFacts
<1>1. ASSUME NEW k \in 1..n
      PROVE  /\ k - 1 \in Nat /\ k - 1 < n /\ k - 1 \in 0..(n - 1) /\ (k - 1) + 1 = k
             /\ (k - 1) % b \in 0..(b - 1) /\ ((k - 1) % b) + 1 \in 1..n
             /\ (k <= b => (k - 1) % b = k - 1)
  <2>1. k - 1 \in Nat /\ k - 1 < n /\ k - 1 \in 0..(n - 1) /\ (k - 1) + 1 = k
    BY <1>0
  <2>2. (k - 1) % b \in 0..(b - 1)
    BY <2>1, PlacesFacts
  <2>3. k <= b => k - 1 < b
    BY <1>0
  <2>4. k <= b => (k - 1) % b = k - 1
    BY <2>1, <2>3, FirstPlaces
  <2> DEFINE p == (k - 1) % b
  <2>5. p \in 0..(b - 1)
    BY <2>2
  <2> HIDE DEF p
  <2>6. p + 1 \in 1..n
    BY <1>0, <2>5
  <2> QED
    BY <2>1, <2>2, <2>4, <2>6 DEF p
<1>2. ASSUME WholeScrapes(entries), NEW k \in 1..n PROVE FitsAt(entries, k)
  <2> DEFINE j == k - 1
             p == j % b
  <2>1. j \in Nat /\ j < n /\ j \in 0..(n - 1) /\ j + 1 = k /\ p \in 0..(b - 1) /\ p + 1 \in 1..n
        /\ (k <= b => p = j)
    BY <1>1
  <2>2. j \div b < SamplesPerSeries
    BY <2>1, ScrapeBound
  <2>3. \A i \in 1..n : /\ entries[i].metric = EntryAt(i - 1).metric
                        /\ entries[i].scrape = EntryAt(i - 1).scrape
                        /\ entries[i].epoch = EntryAt(i - 1).epoch
    BY <1>2 DEF WholeScrapes
  <2>4. ASSUME k <= b, NEW i \in 1..(k - 1) PROVE id(i) # id(k)
    <3>1. i \in 1..b /\ k \in 1..b /\ i # k
      BY <1>0, <2>4
    <3> QED
      BY <1>2, <3>1 DEF WholeScrapes
  <2>5. ASSUME ~(k <= b) PROVE id(k) = id(p + 1)
    <3>1. entries[k].series = entries[p + 1].series
      BY <1>2, <2>1, SameAsFirst
    <3>2. EntryAt(j).metric = EntryAt(p).metric
      <4>1. p \in Nat
        <5> HIDE DEF p, b
        <5> QED
          BY <1>0, <2>1
      <4>2. EntryAt(j).metric = Place(j).metric /\ EntryAt(p).metric = Place(p).metric
        BY <2>1, <4>1, EntryFacts DEF Place
      <4>3. Place(p) = Place(j)
        BY <2>1, FirstPlaces
      <4> QED
        BY <4>2, <4>3
    <3>3. entries[k].metric = EntryAt(j).metric
      BY <2>3
    <3>4. entries[p + 1].metric = EntryAt(p).metric
      <4>1. (p + 1) - 1 = p
        <5> HIDE DEF p, b
        <5> QED
          BY <1>0, <2>1
      <4>2. entries[p + 1].metric = EntryAt((p + 1) - 1).metric
        BY <2>1, <2>3
      <4> HIDE DEF p
      <4> QED
        BY <4>1, <4>2
    <3> HIDE DEF p, j
    <3> QED
      BY <3>1, <3>2, <3>3, <3>4 DEF Identity
  <2> QED
    BY <2>2, <2>3, <2>4, <2>5 DEF FitsAt
<1>3. ASSUME \A k \in 1..n : FitsAt(entries, k) PROVE WholeScrapes(entries)
  <2>1. \A i \in 1..n : /\ entries[i].metric = EntryAt(i - 1).metric
                        /\ entries[i].scrape = EntryAt(i - 1).scrape
                        /\ entries[i].epoch = EntryAt(i - 1).epoch
    BY <1>3 DEF FitsAt
  <2>2. \A k \in 1..n : id(k) = id(((k - 1) % b) + 1)
    <3> TAKE k \in 1..n
    <3>1. CASE k <= b
      <4>1. ((k - 1) % b) + 1 = k
        BY <1>1, <3>1
      <4> QED
        BY <4>1
    <3>2. CASE ~(k <= b)
      BY <1>3, <3>2 DEF FitsAt
    <3> QED
      BY <3>1, <3>2
  <2>3. ASSUME NEW k \in 1..n, k + b \in 1..n PROVE entries[k + b].series = entries[k].series
    <3>1. k - 1 \in Nat
      BY <1>1
    <3>2. ((k - 1) + b) % b = (k - 1) % b
      BY <3>1, ScrapeLater
    <3>3. (k + b) - 1 = (k - 1) + b
      BY <1>0
    <3>4. id(k + b) = id((((k + b) - 1) % b) + 1)
      BY <2>2, <2>3
    <3>5. id(k + b) = id(k)
      BY <2>2, <3>2, <3>3, <3>4
    <3> QED
      BY <3>5 DEF Identity
  <2>4. ASSUME NEW i \in 1..b, NEW k \in 1..b, id(i) = id(k) PROVE i = k
    <3>1. i \in 1..n /\ k \in 1..n
      BY <1>0
    <3>2. CASE i < k
      <4>1. i \in 1..(k - 1) /\ k <= b
        BY <1>0, <3>2
      <4>2. id(i) # id(k)
        BY <1>3, <3>1, <4>1 DEF FitsAt
      <4> QED
        BY <2>4, <4>2
    <3>3. CASE k < i
      <4>1. k \in 1..(i - 1) /\ i <= b
        BY <1>0, <3>3
      <4>2. id(k) # id(i)
        BY <1>3, <3>1, <4>1 DEF FitsAt
      <4> QED
        BY <2>4, <4>2
    <3> QED
      BY <1>0, <3>2, <3>3
  <2> QED
    BY <2>1, <2>3, <2>4 DEF WholeScrapes
<1> QED
  BY <1>2, <1>3

\* No edit of the samples deceives Verify, and no rearrangement that leaves
\* whole scrapes makes it reject them, for datasets of every size: what the
\* verifier remembers of the first scrape is enough to judge all others.
THEOREM EditsAreDetected == Spec => []EditsDetected
<1>1. ASSUME DatasetInv, SoloInv, edits > 0, ~Overlap
      PROVE  Verified <=> WholeScrapes(EntriesOf(summary.files))
  <2>0. RunTypes /\ DirTypes /\ options \in Datasets
    BY <1>1 DEF DatasetInv, RunTypes
  <2>1. PICK entries \in Seq(Entry) : summary.files = FilesOf(entries) /\ Holds(FilesOf(entries))
    BY <1>1 DEF SoloInv
  <2> DEFINE files == FilesOf(entries)
             n == TotalSamples
  <2>2. summary \in SummaryFile /\ partial = None /\ summary.series = Counted(Begins, n)
    BY <1>1 DEF SoloInv
  <2>3. summary \notin {None, Torn}
    BY <2>2, TornAssumption
  <2>4. /\ files \in Seq(File) /\ EntriesOf(files) = entries
        /\ \A f \in 1..Len(files) : Len(files[f].entries) \in 1..MaxSamples
    BY <2>0, FilesOfFacts
  <2>5. Entries = Len(files) + 1
        /\ \A f \in DOMAIN files : f - 1 \in DOMAIN bins /\ bins[f - 1] = files[f]
    <3> HIDE DEF files
    <3> QED
      BY <2>1, <2>2, <2>3, <2>4, HoldsFacts DEF files
  <2>6. Verified <=> Verifies([f \in DOMAIN files |-> files[f].entries], summary.series)
    <3> HIDE DEF files
    <3> QED
      BY <2>1, <2>3, <2>5 DEF Verified, files
  <2>7. n \in Nat \ {0} /\ DOMAIN entries = 1..Len(entries)
    <3>1. n \in Nat \ {0}
      BY <2>0, TotalFacts
    <3> HIDE DEF n
    <3> QED
      BY <3>1
  <2>8. Len(entries) = n => files # <<>>
    <3> SUFFICES ASSUME Len(entries) = n PROVE files # <<>>
      OBVIOUS
    <3> HIDE DEF files, n
    <3>1. Len(EntriesOf(files)) # 0
      BY <2>4, <2>7
    <3> QED
      BY <2>4, <3>1, NoFiles
  <2>9. Verified <=> /\ Len(entries) = n
                     /\ \A k \in 1..n : FitsAt(entries, k)
                     /\ Counted(BeginsOf(entries), n) = Counted(Begins, n)
    <3> HIDE DEF files
    <3>1. Verifies([f \in DOMAIN files |-> files[f].entries], summary.series) <=>
               /\ files # <<>>
               /\ \A f \in 1..Len(files) : Len(files[f].entries) \in 1..MaxSamples
               /\ Len(EntriesOf(files)) = TotalSamples
               /\ \A k \in 1..TotalSamples : FitsAt(EntriesOf(files), k)
               /\ Counted(BeginsOf(EntriesOf(files)), TotalSamples) = summary.series
      BY <2>0, <2>4, VerifiesFacts
    <3> QED
      BY <2>2, <2>4, <2>6, <2>8, <3>1
  <2>10. (\A k \in 1..n : FitsAt(entries, k)) => Counted(BeginsOf(entries), n) = Counted(Begins, n)
    <3> SUFFICES ASSUME \A k \in 1..n : FitsAt(entries, k)
                 PROVE  Counted(BeginsOf(entries), n) = Counted(Begins, n)
      OBVIOUS
    <3>1. \A k \in 1..n : entries[k].scrape = EntryAt(k - 1).scrape /\ entries[k].epoch = EntryAt(k - 1).epoch
      BY DEF FitsAt
    <3> HIDE DEF n
    <3> QED
      BY <2>0, <2>7, <3>1, PlannedCount
  <2>11. Len(entries) = n => (WholeScrapes(entries) <=> \A k \in 1..n : FitsAt(entries, k))
    BY <2>0, <2>7, WholeFits
  <2>12. WholeScrapes(entries) => Len(entries) = n
    BY DEF WholeScrapes
  <2>13. EntriesOf(summary.files) = entries
    BY <2>1, <2>4
  <2> HIDE DEF files, n
  <2> QED
    BY <2>9, <2>10, <2>11, <2>12, <2>13
<1>2. DatasetInv /\ SoloInv => EditsDetected
  BY <1>1 DEF EditsDetected
<1> QED
  BY <1>2, SoloInvariance, PTL

-----------------------------------------------------------------------------
(* What the total counts.                                                    *)

LEMMA EpochMonotone ==
    ASSUME options \in Datasets, NEW s \in Nat, NEW t \in Nat, s <= t
    PROVE  EpochAt(s) <= EpochAt(t)
<1> DEFINE i == IntervalMillis
           c == ChurnIntervalMillis
           x == s * i
           y == t * i
<1>1. i \in Nat /\ c \in Nat \ {0}
  BY OptionFacts
<1> HIDE DEF i, c
<1>2. x \in Nat /\ y \in Nat /\ x <= y
  <2>1. PICK d \in Nat : t = s + d
    <3>1. t - s \in Nat /\ t = s + (t - s)
      OBVIOUS
    <3> QED
      BY <3>1
  <2>2. y = x + d * i /\ d * i \in Nat /\ x \in Nat
    BY <1>1, <2>1
  <2> DEFINE di == d * i
  <2>3. y = x + di /\ di \in Nat /\ x \in Nat
    BY <2>2
  <2> HIDE DEF x, y, di
  <2> QED
    BY <2>3
<1> HIDE DEF x, y
<1>3. x \div c <= y \div c
  <2> DEFINE q == x \div c
             u == x % c
             r == y \div c
             w == y % c
  <2>1. q \in Nat /\ u \in 0..(c - 1) /\ x = q * c + u /\ r \in Nat /\ w \in 0..(c - 1) /\ y = r * c + w
    BY <1>1, <1>2
  <2> HIDE DEF q, u, r, w
  <2> SUFFICES ASSUME q > r PROVE FALSE
    BY <2>1 DEF q, r
  <2>2. PICK d \in Nat : q = (r + 1) + d
    <3>1. q - (r + 1) \in Nat /\ q = (r + 1) + (q - (r + 1))
      BY <2>1
    <3> QED
      BY <3>1
  <2>3. q * c = r * c + c + d * c /\ d * c \in Nat /\ r * c \in Nat
    BY <1>1, <2>1, <2>2
  <2> DEFINE qc == q * c
             rc == r * c
             dc == d * c
  <2>4. qc = rc + c + dc /\ dc \in Nat /\ rc \in Nat /\ x = qc + u /\ y = rc + w
    BY <2>1, <2>3
  <2> HIDE DEF qc, rc, dc
  <2> QED
    BY <1>1, <1>2, <2>1, <2>4
<1> QED
  BY <1>3 DEF EpochAt, x, y, i, c

\* A series of the dataset, with its churn epoch.
Label(k) == <<EntryAt(k).metric, EntryAt(k).series, EntryAt(k).epoch>>

\* Samples of one base series have one place.
LEMMA OnePlace ==
    ASSUME options \in Datasets, NEW j \in Nat, NEW k \in Nat, Place(j) = Place(k)
    PROVE  j % BaseSeries = k % BaseSeries
<1> DEFINE o == ScrapeOrder
           b == BaseSeries
           p == j % b
           q == k % b
           P == Places
<1>1. IsInjective(o) /\ o \in Seq(P) /\ Len(o) = b
  BY OrderFacts DEF Chain
<1>2. p \in 0..(b - 1) /\ q \in 0..(b - 1) /\ p + 1 \in 1..b /\ q + 1 \in 1..b
  BY PlacesFacts
<1>3. o[p + 1] = o[q + 1]
  BY DEF Place
<1> HIDE DEF o, p, q, P
<1>4. DOMAIN o = 1..b
  BY <1>1
<1>5. p + 1 = q + 1
  BY <1>1, <1>2, <1>3, <1>4 DEF IsInjective
<1> HIDE DEF b
<1>6. p = q
  BY <1>2, <1>5
<1> QED
  BY <1>6 DEF p, q, b

\* What a sample is the first of, no later one is the first of.
LEMMA BeginsOnce ==
    ASSUME options \in Datasets, NEW j \in Nat, NEW k \in Nat, Label(j) = Label(k), Begins[k],
           j \div BaseSeries < k \div BaseSeries
    PROVE  FALSE
<1> DEFINE s == j \div BaseSeries
           t == k \div BaseSeries
<1>1. s \in Nat /\ t \in Nat /\ s < t
  BY PlacesFacts
<1>2. EntryAt(k).scrape = t /\ EntryAt(j).epoch = EntryAt(k).epoch
  BY EntryFacts DEF Label
<1>3. EntryAt(j).epoch \in {None, EpochAt(s)} /\ EntryAt(k).epoch \in {None, EpochAt(t)}
  BY EntryFacts
<1>4. Starts(EntryAt(k))
  BY DEF Begins
<1> HIDE DEF s, t
<1>5. EntryAt(k).epoch # None /\ EpochAt(t) # EpochAt(t - 1)
  BY <1>1, <1>2, <1>4 DEF Starts, StartsSeries
<1>6. EpochAt(s) = EpochAt(t)
  BY <1>2, <1>3, <1>5
<1>7. t - 1 \in Nat /\ s <= t - 1 /\ t - 1 <= t
  BY <1>1
<1>8. EpochAt(s) <= EpochAt(t - 1) /\ EpochAt(t - 1) <= EpochAt(t)
  BY <1>1, <1>7, EpochMonotone
<1>9. EpochAt(s) \in Nat /\ EpochAt(t) \in Nat /\ EpochAt(t - 1) \in Nat
  BY <1>1, <1>7, EpochNumber
<1> DEFINE x == EpochAt(s)
           y == EpochAt(t)
           z == EpochAt(t - 1)
<1>10. x \in Nat /\ y \in Nat /\ z \in Nat /\ x <= z /\ z <= y /\ x = y /\ y # z
  BY <1>5, <1>6, <1>8, <1>9
<1> HIDE DEF x, y, z
<1> QED
  BY <1>10

LEMMA BeginsUnique ==
    ASSUME options \in Datasets, NEW j \in Nat, NEW k \in Nat, Label(j) = Label(k), Begins[j], Begins[k]
    PROVE  j = k
<1> DEFINE b == BaseSeries
           s == j \div b
           t == k \div b
           p == j % b
           q == k % b
<1>1. s \in Nat /\ t \in Nat /\ j = s * b + p /\ k = t * b + q
  BY PlacesFacts
<1>2. ~(s < t) /\ ~(t < s)
  BY BeginsOnce
<1>3. s = t
  <2> HIDE DEF s, t
  <2> QED
    BY <1>1, <1>2
<1>4. Place(j) = Place(k)
  <2>1. EntryAt(j).metric = EntryAt(k).metric /\ EntryAt(j).series = EntryAt(k).series
    BY DEF Label
  <2>2. Identity(EntryAt(j)) = Identity(EntryAt(k))
    BY <2>1 DEF Identity
  <2> QED
    BY <2>2, FirstPlaces
<1>5. p = q
  BY <1>4, OnePlace
<1> HIDE DEF s, t, p, q, b
<1> QED
  BY <1>1, <1>3, <1>5

\* The sample of one place in one scrape.
LEMMA SampleAt ==
    ASSUME options \in Datasets, NEW s \in Nat, NEW k \in Nat
    PROVE  LET j == s * BaseSeries + (k % BaseSeries)
           IN  /\ j \in Nat /\ j \div BaseSeries = s
               /\ EntryAt(j).metric = EntryAt(k).metric /\ EntryAt(j).series = EntryAt(k).series
               /\ EntryAt(j).scrape = s
               /\ EntryAt(j).epoch = IF EntryAt(k).series <= ChurnCount[EntryAt(k).metric]
                                     THEN EpochAt(s) ELSE None
               /\ s <= k \div BaseSeries => j <= k
<1> DEFINE b == BaseSeries
           p == k % b
           c == k \div b
           j == s * b + p
<1>1. b \in Nat \ {0} /\ p \in 0..(b - 1) /\ c \in Nat /\ k = c * b + p
  BY OrderFacts, PlacesFacts
<1>2. j \in Nat /\ j \div b = s /\ j % b = p /\ (s <= c => j <= k)
  <2> HIDE DEF b, p, c
  <2>1. j \div b = s /\ j % b = p
    BY <1>1, DivideOnce
  <2>2. s * b \in Nat /\ c * b \in Nat
    BY <1>1
  <2>3. s <= c => s * b <= c * b
    <3> SUFFICES ASSUME s <= c PROVE s * b <= c * b
      OBVIOUS
    <3>1. PICK d \in Nat : c = s + d
      <4>1. c - s \in Nat /\ c = s + (c - s)
        BY <1>1
      <4> QED
        BY <4>1
    <3>2. c * b = s * b + d * b /\ d * b \in Nat
      BY <1>1, <3>1
    <3> DEFINE cb == c * b
               sb == s * b
               db == d * b
    <3>3. cb = sb + db /\ db \in Nat /\ sb \in Nat
      BY <2>2, <3>2
    <3> HIDE DEF cb, sb, db
    <3>4. sb <= cb
      BY <3>3
    <3> QED
      BY <3>4 DEF sb, cb
  <2> DEFINE sb == s * b
             cb == c * b
  <2>4. sb \in Nat /\ cb \in Nat /\ j = sb + p /\ k = cb + p /\ (s <= c => sb <= cb)
    BY <1>1, <2>2, <2>3
  <2>5. j \in Nat /\ (s <= c => j <= k)
    <3> HIDE DEF sb, cb, j
    <3> QED
      BY <1>1, <2>4
  <2> QED
    BY <2>1, <2>5
<1>3. Place(j) = Place(k)
  BY <1>2 DEF Place
<1>4. /\ EntryAt(j).metric = Place(j).metric /\ EntryAt(j).series = Place(j).series
      /\ EntryAt(j).scrape = s
      /\ EntryAt(j).epoch = IF Place(j).series <= ChurnCount[Place(j).metric] THEN EpochAt(s) ELSE None
  BY <1>2, EntryFacts DEF Place
<1>5. EntryAt(k).metric = Place(k).metric /\ EntryAt(k).series = Place(k).series
  BY EntryFacts DEF Place
<1> HIDE DEF j
<1>6. /\ EntryAt(j).metric = EntryAt(k).metric /\ EntryAt(j).series = EntryAt(k).series
      /\ EntryAt(j).epoch = IF EntryAt(k).series <= ChurnCount[EntryAt(k).metric] THEN EpochAt(s) ELSE None
  BY <1>3, <1>4, <1>5
<1> QED
  BY <1>2, <1>4, <1>6 DEF j, b, p, c

\* Every sample belongs to a series that one of them, or an earlier, begins.
LEMMA BeginsFound ==
    ASSUME options \in Datasets, NEW k \in Nat
    PROVE  \E j \in Nat : j <= k /\ Label(j) = Label(k) /\ Begins[j]
<1> DEFINE b == BaseSeries
           c == k \div b
           churned == EntryAt(k).series <= ChurnCount[EntryAt(k).metric]
           at(s) == s * b + (k % b)
<1>1. c \in Nat
  BY PlacesFacts
<1>2. EntryAt(k).epoch = IF churned THEN EpochAt(c) ELSE None
  BY EntryFacts
<1>3. \A s \in Nat : /\ at(s) \in Nat
                     /\ EntryAt(at(s)).metric = EntryAt(k).metric
                     /\ EntryAt(at(s)).series = EntryAt(k).series
                     /\ EntryAt(at(s)).scrape = s
                     /\ EntryAt(at(s)).epoch = IF churned THEN EpochAt(s) ELSE None
                     /\ s <= c => at(s) <= k
  BY SampleAt
<1> HIDE DEF b, at, churned, c
<1>4. ASSUME NEW s \in Nat, s <= c, churned => EpochAt(s) = EpochAt(c),
             s # 0 => churned /\ EpochAt(s) # EpochAt(s - 1)
      PROVE  \E j \in Nat : j <= k /\ Label(j) = Label(k) /\ Begins[j]
  <2> DEFINE j == at(s)
  <2>1. /\ j \in Nat /\ j <= k
        /\ EntryAt(j).metric = EntryAt(k).metric /\ EntryAt(j).series = EntryAt(k).series
        /\ EntryAt(j).scrape = s /\ EntryAt(j).epoch = IF churned THEN EpochAt(s) ELSE None
    BY <1>3, <1>4
  <2> HIDE DEF j
  <2>2. EntryAt(j).epoch = EntryAt(k).epoch
    BY <1>2, <1>4, <2>1
  <2>3. Label(j) = Label(k)
    BY <2>1, <2>2 DEF Label
  <2>4. Starts(EntryAt(j))
    <3>1. EpochAt(s) # None
      BY EpochNumber, OptionsAssumption
    <3> QED
      BY <1>4, <2>1, <3>1 DEF Starts, StartsSeries
  <2>5. Begins[j]
    BY <2>1, <2>4 DEF Begins
  <2> QED
    BY <2>1, <2>3, <2>5
<1>5. CASE ~churned
  <2>1. 0 <= c
    BY <1>1
  <2> QED
    BY <1>4, <1>5, <2>1
<1>6. CASE churned
  <2> DEFINE T == {s \in Nat : EpochAt(s) = EpochAt(c)}
  <2>1. c \in T /\ T \subseteq Nat
    BY <1>1
  <2>2. PICK s \in T : \A t \in T : s <= t
    <3> HIDE DEF T
    <3> QED
      BY <2>1, LeastOf
  <2>3. s \in Nat /\ EpochAt(s) = EpochAt(c) /\ s <= c
    BY <2>1, <2>2
  <2>4. s # 0 => EpochAt(s) # EpochAt(s - 1)
    <3> SUFFICES ASSUME s # 0, EpochAt(s) = EpochAt(s - 1) PROVE FALSE
      OBVIOUS
    <3>1. s - 1 \in Nat /\ ~(s <= s - 1)
      BY <2>3
    <3>2. s - 1 \in T
      BY <2>3, <3>1
    <3> HIDE DEF T
    <3> QED
      BY <2>2, <3>1, <3>2
  <2> QED
    BY <1>4, <1>6, <2>3, <2>4
<1> QED
  BY <1>5, <1>6

\* The samples that begin a series are as many as the series with their epochs.
LEMMA CountedLabels ==
    ASSUME options \in Datasets, NEW n \in Nat
    PROVE  Counted(Begins, n) = Cardinality({Label(k - 1) : k \in 1..n})
<1> DEFINE D == {k \in 1..n : Begins[k - 1]}
           L == {Label(k - 1) : k \in 1..n}
           h == [k \in D |-> Label(k - 1)]
<1>1. IsFiniteSet(D)
  <2>1. IsFiniteSet(1..n)
    <3>1. 1 \in Int /\ n \in Int
      OBVIOUS
    <3> QED
      BY <3>1, FS_Interval
  <2>2. D \subseteq 1..n
    OBVIOUS
  <2> QED
    BY <2>1, <2>2, FS_Subset
<1>2. h \in [D -> L]
  OBVIOUS
<1>3. IsInjective(h)
  <2> SUFFICES ASSUME NEW x \in D, NEW y \in D, h[x] = h[y] PROVE x = y
    BY DEF IsInjective
  <2>1. Label(x - 1) = Label(y - 1) /\ Begins[x - 1] /\ Begins[y - 1]
    OBVIOUS
  <2>2. x \in 1..n /\ y \in 1..n
    OBVIOUS
  <2> HIDE DEF D, h, L
  <2>3. x - 1 \in Nat /\ y - 1 \in Nat
    BY <2>2
  <2>4. x - 1 = y - 1
    BY <2>1, <2>3, BeginsUnique
  <2> QED
    BY <2>2, <2>4
<1>4. \A t \in L : \E k \in D : h[k] = t
  <2> SUFFICES ASSUME NEW t \in L PROVE \E k \in D : h[k] = t
    OBVIOUS
  <2>1. PICK k \in 1..n : t = Label(k - 1)
    OBVIOUS
  <2>2. k - 1 \in Nat
    OBVIOUS
  <2>3. PICK j \in Nat : j <= k - 1 /\ Label(j) = Label(k - 1) /\ Begins[j]
    BY <2>2, BeginsFound
  <2>4. j + 1 \in 1..n /\ (j + 1) - 1 = j
    BY <2>3
  <2>5. j + 1 \in D /\ h[j + 1] = Label(j)
    BY <2>3, <2>4
  <2> QED
    BY <2>1, <2>3, <2>5
<1>5. h \in Bijection(D, L)
  <2> HIDE DEF h, D, L
  <2> QED
    BY <1>2, <1>3, <1>4 DEF Bijection, Injection, Surjection
<1>6. Cardinality(L) = Cardinality(D)
  <2> HIDE DEF h, D, L
  <2>1. ExistsBijection(D, L)
    BY <1>5 DEF ExistsBijection
  <2> QED
    BY <1>1, <2>1, FS_Bijection
<1> QED
  BY <1>6 DEF Counted

\* The series total of a manifest is the number of distinct identities emitted,
\* churned ones counted once for each epoch that some scrape falls into.
THEOREM SeriesAreCounted == Spec => []SeriesCounted
<1>1. ASSUME DatasetInv, summary \notin {None, Torn}, edits = 0
      PROVE  summary.series = Cardinality({<<e.metric, e.series, e.epoch>> :
                                              e \in Range(EntriesOf(summary.files))})
  <2>0. RunTypes /\ options \in Datasets
    BY <1>1 DEF DatasetInv, RunTypes
  <2>1. PICK r \in Runs : Written(r) /\ summary = Manifest(r)
    BY <1>1 DEF DatasetInv, DirInv
  <2>2. DataOK(r) /\ Complete(r)
    BY <1>1, <2>1 DEF DatasetInv, RunInv, Written
  <2> DEFINE n == TotalSamples
             E == EntriesOf(listed[r])
             labels == {<<e.metric, e.series, e.epoch>> : e \in Range(E)}
  <2>3. summary.files = listed[r] /\ summary.series = series[r]
    BY <2>1 DEF Manifest
  <2>4. n \in Nat /\ series[r] = Counted(Begins, n)
    BY <2>0, <2>2, TotalFacts DEF DataOK, Complete
  <2>5. E = Planned(n)
    BY <2>0, <2>2, CompleteEntries
  <2>6. Range(E) = {EntryAt(k - 1) : k \in 1..n}
    BY <2>5 DEF Range, Planned
  <2>7. labels = {Label(k - 1) : k \in 1..n}
    <3> HIDE DEF E, n
    <3>1. ASSUME NEW x \in labels PROVE x \in {Label(k - 1) : k \in 1..n}
      <4>1. PICK e \in Range(E) : x = <<e.metric, e.series, e.epoch>>
        BY <3>1
      <4>2. PICK k \in 1..n : e = EntryAt(k - 1)
        BY <2>6
      <4>3. x = Label(k - 1)
        BY <4>1, <4>2 DEF Label
      <4> QED
        BY <4>3
    <3>2. ASSUME NEW k \in 1..n PROVE Label(k - 1) \in labels
      BY <2>6 DEF Label
    <3> QED
      BY <3>1, <3>2
  <2>8. Counted(Begins, n) = Cardinality(labels)
    <3> HIDE DEF n, labels, E
    <3> QED
      BY <2>0, <2>4, <2>7, CountedLabels
  <2> QED
    BY <2>3, <2>4, <2>8
<1>2. DatasetInv => SeriesCounted
  BY <1>1 DEF SeriesCounted
<1> QED
  BY <1>2, DatasetInvariant, PTL
=============================================================================
