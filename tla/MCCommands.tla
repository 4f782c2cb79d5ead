----------------------------- MODULE MCCommands -----------------------------
(* Instances for TLC of the parts of the commands that are modelled one by   *)
(* one: what partition_query_loader does before its first query (the range   *)
(* of its configuration, the discovery, the reading of partition texts, the  *)
(* assignment of the plans); the paths of a write request (one request of    *)
(* pkg/http, the batches of sample_generator, the traffic loader reads and   *)
(* the ticks it replays it in); the statements of schema_generator.  They    *)
(* share no state: a behaviour is one of them, named by part, while the      *)
(* others rest in an initial state.                                          *)
EXTENDS Discovery, PlanAssignment, PartitionText, QueryConfig,
        Requester, SampleBatches, MetricsLoader, Capture, SchemaGenerator

VARIABLE part

-----------------------------------------------------------------------------
(* Values of the constants.                                                  *)

\* Three tables on one or two physical tables; one that has no columns to query;
\* one that is no logical table.  Two databases with one table of one name each.
\* One table with every kind of metadata of two partitions.
Logical(p) == [physical |-> p, columns |-> TRUE]
Shared == {[t1 |-> Logical("p"), t2 |-> Logical("p"), t3 |-> third] :
              third \in {Logical("p"), Logical("q"), Logical(NoTable),
                         [Logical("p") EXCEPT !.columns = FALSE]}}
Alone == [t1 |-> Logical("p")]
TriedSetups == {[schema |-> <<three>>, limit |-> 2, rows |-> 1] : three \in Shared}
               \cup {[schema |-> <<Alone, Alone>>, limit |-> 0, rows |-> 1],
                     [schema |-> <<Alone>>, limit |-> 0, rows |-> 2]}

HotPartitionsTried == 1..4
SharesTried == {2, 7, 10}
PeriodMaxsTried == {2, 3, 8}
TimeRangeMaxsTried == {1, 2, 4}

\* Columns a, b and one named like a keyword; numbers, a date, strings with a
\* keyword, a pair of quotes, a parenthesis, or an operator and a comma in them.
Low == [tokens |-> <<"1">>, value |-> 1]
High == [tokens |-> <<"2">>, value |-> 2]
Date == [tokens |-> <<"TIMESTAMP", "'", "date", "'">>, value |-> 2]
Quoted == [tokens |-> <<"'", "AND", "'", "'", "(", "'">>, value |-> 1]
Tricky == [tokens |-> <<"'", "x", ">=", "comma", "'">>, value |-> 2]
LiteralsTried == {Low, High, Date, Quoted, Tricky}

BelowLow == Comparison("a", <<"a">>, "<", Low)
FromHigh == Comparison("b", <<"b">>, ">=", High)
Basic == {BelowLow, FromHigh, Comparison("a", <<"a">>, "=", Quoted)}
ComparisonsTried == Basic \cup
    {Comparison("AND", Backquoted("AND"), ">", Low), Comparison("a", <<"a">>, "!=", Low),
     Comparison("a", <<"a">>, "<>", High),
     Comparison("b", Backquoted("b"), "<=", Date), Comparison("a", <<"a">>, "=", Tricky)}

\* Two conditions joined; conditions nested to a depth of two; with and without
\* parentheses around them.
Grouped(es) == {InParentheses(e) : e \in es}
Pairs(es) == UNION {{Conjunction(e, f), Disjunction(e, f)} : e, f \in es}
Simple == ComparisonsTried \cup Pairs(ComparisonsTried)
Closed == Basic \cup Grouped(Basic \cup Pairs(Basic))
Factors == Closed \cup {Negation(e) : e \in Basic}
WrittenTried == <<ComparisonsTried, Simple, Simple \cup Grouped(Simple), Factors, Pairs(Factors), Grouped(Pairs(Factors))>>

BothColumns == <<"a", "comma", "b">>
Rows(es, columns) == [columns : columns, partitions : UNION {{<<e>>, <<InParentheses(e)>>} : e \in es},
                      ddl : {FALSE}, head : {<<>>}]
Clauses(es) == [columns : {<<"a">>, BothColumns}, partitions : {<<e, f>> : e, f \in es},
                ddl : {TRUE}, head : {<<>>, Backquoted("PARTITION")}]
TextsTried == UNION {Rows(Pairs(Factors), {<<"a">>, BothColumns}),
                     Rows(Simple, {<<"b">>, BothColumns, <<"a", "comma", "a">>, Backquoted("AND")}),
                     Clauses(ComparisonsTried \cup Grouped(Pairs({BelowLow, FromHigh})))}

\* The defaults of minimum and maximum, which may be given too, and no period at all.
DurationsTried == {0, 1, 3}
DefaultsTried == [n \in SettingNames |-> IF n = "period" THEN 2 ELSE IF n = "period-min" THEN 1 ELSE 3]

\* Up to three series of two metrics or without a name.  The timestamps tell the
\* samples apart; -1 and 9 cannot be sent with OTLP.
AllProtocols == {"prometheus", "otlp", "v2"}
Samples == {<<>>, <<1>>, <<2, 3>>, <<4, -1>>, <<9>>}
SmallBatches == UNION {[1..n -> [name : {"a", "b"}, samples : Samples]] : n \in 0..3}
                \cup {<<[name |-> "a", samples |-> <<1>>], [name |-> None, samples |-> <<2>>]>>}

\* Two series in two or three chunks: of metric or label clones, which are apart; of
\* three samples each; of both kinds of clones, one of which, up_1{joba}, is the other
\* series.
Name(word) == [base |-> word, added |-> <<>>]
UpJob == [name |-> Name("up"), labels |-> {Name("job")}]
TwoSeries == {UpJob, CloneLabels(CloneMetric(UpJob, 1), 1)}
TriedFlags == {[perRequest |-> 3, sample |-> 1, metric |-> 2, label |-> 1],
               [perRequest |-> 2, sample |-> 1, metric |-> 1, label |-> 2],
               [perRequest |-> 2, sample |-> 3, metric |-> 1, label |-> 1],
               [perRequest |-> 4, sample |-> 1, metric |-> 2, label |-> 2]}

\* Series of one and of two labels, and one whose value looks like a second label.
LabelA == <<"a", <<"1">>>>
LabelB == <<"b", <<"1">>>>
Deceptive == <<<<"a", <<"1", "comma", "b", "=", "1">>>>>>
SeriesSets == {{<<LabelA>>}, {<<LabelA>>, <<LabelB>>}, {<<LabelA, LabelB>>, Deceptive}, {<<>>}}
Kinds == {"write", "chunked", "get"}
SomeTraffics == UNION {[1..n -> [kind : Kinds, series : SeriesSets]] : n \in 0..2}
                \cup [1..3 -> [kind : Kinds, series : {{<<LabelA>>, <<LabelB>>}}]]
-----------------------------------------------------------------------------
DiscoveryRests == setup = (CHOOSE s \in Setups : TRUE) /\ DiscoveryInit
PlansRest == /\ leader = [p \in Plans |-> CHOOSE d \in Datanodes : TRUE]
             /\ hotCount = 1
             /\ periodMax = PeriodMin + 1 /\ hotPeriodMax = PeriodMin
             /\ timeRangeMax = TimeRangeMin
             /\ PlanStart
TextRests == /\ text = [columns |-> <<"a">>, partitions |-> <<BelowLow>>, ddl |-> FALSE, head |-> <<>>]
             /\ parsed = <<>>
ConfigRests == flagged = [n \in SettingNames |-> Absent] /\ filed = Malformed /\ ConfigInit
RequesterRests == protocol = "v2" /\ writeRequest = <<>> /\ RequesterInit
BatchesRest == maxSamples = 1 /\ timeSeries = <<>> /\ BatchesStart
LoaderRests == /\ flags = CHOOSE f \in Flags : TRUE
               /\ factories = CHOOSE order \in Factories : TRUE
               /\ LoaderInit
CaptureRests == traffic = <<>> /\ CaptureInit
SchemaRests == execSQL = FALSE /\ SchemaInit

Parts == {"config", "discovery", "text", "plans", "request", "batches", "loader", "capture", "schema"}

Init == /\ part \in Parts
        /\ IF part = "config" THEN ConfigInit ELSE ConfigRests
        /\ IF part = "discovery" THEN DiscoveryInit ELSE DiscoveryRests
        /\ IF part = "text" THEN TextInit ELSE TextRests
        /\ IF part = "plans" THEN PlanInit ELSE PlansRest
        /\ IF part = "request" THEN RequesterInit ELSE RequesterRests
        /\ IF part = "batches" THEN BatchesInit ELSE BatchesRest
        /\ IF part = "loader" THEN LoaderInit ELSE LoaderRests
        /\ IF part = "capture" THEN CaptureInit ELSE CaptureRests
        /\ IF part = "schema" THEN SchemaInit ELSE SchemaRests

queryVars == <<configVars, discoveryVars, textVars, planVars>>
writeVars == <<requesterVars, batchVars, loaderVars, captureVars, schemaVars>>
vars == <<part, queryVars, writeVars>>

\* Before the first query.
Configured == part = "config" /\ ConfigNext /\ UNCHANGED <<part, discoveryVars, textVars, planVars, writeVars>>
Discover == part = "discovery" /\ DiscoveryNext /\ UNCHANGED <<part, configVars, textVars, planVars, writeVars>>
ReadPartition == part = "text" /\ ReadText /\ UNCHANGED <<part, configVars, discoveryVars, planVars, writeVars>>
AssignPlans == part = "plans" /\ PlanNext /\ UNCHANGED <<part, configVars, discoveryVars, textVars, writeVars>>

\* Writing.
OneRequest == /\ part = "request" /\ RequesterNext
              /\ UNCHANGED <<part, queryVars, batchVars, loaderVars, captureVars, schemaVars>>
AllBatches == /\ part = "batches" /\ BatchesNext
              /\ UNCHANGED <<part, queryVars, requesterVars, loaderVars, captureVars, schemaVars>>
LoaderTicks == /\ part = "loader" /\ LoaderNext
               /\ UNCHANGED <<part, queryVars, requesterVars, batchVars, captureVars, schemaVars>>
ReadTraffic == /\ part = "capture" /\ CaptureNext
               /\ UNCHANGED <<part, queryVars, requesterVars, batchVars, loaderVars, schemaVars>>
MakeSchema == /\ part = "schema" /\ SchemaNext
              /\ UNCHANGED <<part, queryVars, requesterVars, batchVars, loaderVars, captureVars>>

Next == \/ Configured \/ Discover \/ ReadPartition \/ AssignPlans
        \/ OneRequest \/ AllBatches \/ LoaderTicks \/ ReadTraffic \/ MakeSchema

Spec == Init /\ [][Next]_vars
==============================================================================
