----------------------------- MODULE Discovery -----------------------------
(***************************************************************************)
(* discover of partition_query_loader (discovery.go): the tables of each   *)
(* database are listed, some are selected, and every one is resolved to    *)
(* the regions of its physical table or skipped with a reason.  What is    *)
(* read of a physical table, in three queries between which it may be      *)
(* partitioned anew, is cached, errors included, for the tables that share *)
(* it.  Any query may fail, and all do after the deadline.  At the end     *)
(* every partition becomes a query plan (query_plan.go).                   *)
(*                                                                         *)
(* A physical table is named by its database and its name, a region by     *)
(* the physical table and the position of its partition in the table's     *)
(* DDL, and a partition's predicate by the region it selects and the       *)
(* partitioning it belongs to.                                             *)
(***************************************************************************)
EXTENDS Integers, Sequences, FiniteSets, FiniteSetsExt

CONSTANTS Setups,  \* set of [schema, limit, rows], see the variables
          Names,   \* names of partitions, see Metadata
          NoTable  \* not a logical table

ASSUME DiscoveryAssumption ==
    \A s \in Setups : s.limit \in Nat /\ s.rows \in Nat /\ 1..s.rows \subseteq Names

VARIABLES
    setup,      \* schema: for each database a function from its tables to
                \*         [physical, columns];
                \* limit: --tables-per-database, 0 for all;
                \* rows: bound on the partitions of a physical table
    expired,    \* the discovery timeout has passed
    db,         \* the database being read
    discPc,     \* "list", "pick", "create", "columns", "physical", "metadata",
                \* "leaders", "build", "done", "planned" or "failed"
    todo,       \* selected tables not begun
    table,      \* the table being discovered
    cache,      \* physical table -> what was read of it
    generation, \* how often the table being read was partitioned anew
    tables,     \* result.Tables: set of [db, table, partitions]
    skipped,    \* result.Skipped: set of <<db, table>>
    plans,      \* what BuildQueryPlans makes of them: set of [db, table, partition]
    selected,   \* all tables ever selected, as <<db, table>>
    ownCause    \* those with a reason of their own to be skipped

result == <<tables, skipped>>
history == <<selected, ownCause>>
server == <<setup, generation>>
discoveryVars == <<server, expired, db, discPc, todo, table, cache, result, plans, history>>

schema == setup.schema

DiscoveryInit == /\ setup \in Setups
                 /\ expired = FALSE
                 /\ db = 1
                 /\ discPc = "list"
                 /\ todo = {}
                 /\ table = NoTable
                 /\ cache = <<>>
                 /\ generation = 0 /\ plans = {}
                 /\ tables = {}
                 /\ skipped = {}
                 /\ selected = {}
                 /\ ownCause = {}

Go(where) == discPc' = where
Physical == schema[db][table].physical

Key == <<db, Physical>>
-----------------------------------------------------------------------------
(* What the server says of a physical table.                               *)

\* The rows of information_schema.partitions.  The row of partition i carries
\* its name and its position, or a name or position that another row has too;
\* described says that its description can be parsed.
Metadata ==
    {rows \in UNION {[1..n -> [name : Names, ordinal : 0..setup.rows, described : BOOLEAN]] :
                     n \in {0, setup.rows}} :
        \A i \in DOMAIN rows :
            /\ rows[i].name = i \/ \E j \in DOMAIN rows \ {i} : rows[j].name = rows[i].name
            /\ rows[i].ordinal \in {0, i} \/
               \E j \in DOMAIN rows \ {i} : rows[j].ordinal = rows[i].ordinal}

\* The DDL: as many partitions, on the columns the metadata names or on others, or
\* another table's worth of fewer.
Definitions == {[partitions |-> 0, sameColumns |-> TRUE, generation |-> generation]}
               \cup [partitions : {setup.rows}, sameColumns : BOOLEAN, generation : {generation}]

Unique(rows, field) ==
    {i \in DOMAIN rows : \A j \in DOMAIN rows \ {i} : rows[j][field] # rows[i][field]}

\* Mutant: rows that share an ordinal are told apart by their names.
IdentifiedByName(rows) == Unique(rows, "name")

\* A row is used if no other has its name or its ordinal.
Identified(rows) ==
    {i \in Unique(rows, "name") \cap Unique(rows, "ordinal") : rows[i].ordinal # 0}

\* metadataPredicates: from the row's description, else from the DDL.
Predicates(key, entry) ==
    [i \in {j \in Identified(entry.rows) :
               \/ entry.rows[j].described
               \/ entry.ddl.sameColumns /\ entry.rows[j].ordinal <= entry.ddl.partitions}
     |-> IF entry.rows[i].described
         THEN [region |-> <<key, i>>, generation |-> entry.rowsOf]
         ELSE [region |-> <<key, entry.rows[i].ordinal>>, generation |-> entry.ddl.generation]]
-----------------------------------------------------------------------------
Expire == /\ ~expired
          /\ discPc \notin {"done", "planned", "failed"}
          /\ expired' = TRUE
          /\ UNCHANGED <<plans, server, db, discPc, todo, table, cache, result, history>>

\* logicalTables and selectTables.  The order of the tables is the server's or
\* the shuffle's.
List == /\ discPc = "list"
        /\ ~expired
        /\ LET all == DOMAIN schema[db]
               n == IF setup.limit = 0 THEN Cardinality(all) ELSE Min({setup.limit, Cardinality(all)})
           IN  \E chosen \in kSubset(n, all) :
                  /\ todo' = chosen
                  /\ selected' = selected \cup {<<db, t>> : t \in chosen}
        /\ Go("pick")
        /\ UNCHANGED <<plans, server, expired, db, table, cache, result, ownCause>>

\* An error here is the only one discover returns, and nothing else is returned.
ListFails == /\ discPc = "list"
             /\ Go("failed")
             /\ tables' = {}
             /\ skipped' = {}
             /\ UNCHANGED <<plans, server, expired, db, todo, table, cache, history>>

Pick == /\ discPc = "pick"
        /\ \E t \in todo : table' = t /\ todo' = todo \ {t}
        /\ Go("create")
        /\ UNCHANGED <<plans, server, expired, db, cache, result, history>>

NextDatabase == /\ discPc = "pick"
                /\ todo = {}
                /\ IF db < Len(schema) THEN db' = db + 1 /\ Go("list")
                                          ELSE Go("done") /\ UNCHANGED db
                /\ UNCHANGED <<plans, server, expired, todo, table, cache, result, history>>

SkipTable == /\ skipped' = skipped \cup {<<db, table>>}
             /\ Go("pick")
             /\ UNCHANGED tables

\* The table's own DDL cannot be read, or is not of a logical table.
CreateSkips == /\ discPc = "create"
               /\ SkipTable
               /\ ownCause' = ownCause \cup {<<db, table>>}
               /\ UNCHANGED <<plans, server, expired, db, todo, table, cache, selected>>

Create == /\ discPc = "create"
          /\ ~expired
          /\ Physical # NoTable
          /\ Go("columns")
          /\ UNCHANGED <<plans, server, expired, db, todo, table, cache, result, history>>

\* The columns cannot be read, or there is none to aggregate or no time index.
ColumnsSkips == /\ discPc = "columns"
                /\ SkipTable
                /\ ownCause' = ownCause \cup {<<db, table>>}
                /\ UNCHANGED <<plans, server, expired, db, todo, table, cache, selected>>

Columns == /\ discPc = "columns"
           /\ ~expired
           /\ schema[db][table].columns
           /\ Go(IF Key \in DOMAIN cache THEN "build" ELSE "physical")
           /\ UNCHANGED <<plans, server, expired, db, todo, table, cache, result, history>>

Entry == cache[Key]
Remember(entry) == cache' = [k \in DOMAIN cache \cup {Key} |-> IF k = Key THEN entry ELSE cache[k]]

\* The first of three queries: the DDL of the physical table.
ReadDefinition ==
    /\ discPc = "physical"
    /\ ~expired
    /\ \E ddl \in Definitions : Remember([err |-> FALSE, ddl |-> ddl])
    /\ Go("metadata")
    /\ UNCHANGED <<plans, server, expired, db, todo, table, result, selected, ownCause>>

\* The second: the rows of its partitions.
ReadMetadata ==
    /\ discPc = "metadata"
    /\ ~expired
    /\ \E rows \in Metadata :
          Remember([err |-> FALSE, ddl |-> Entry.ddl, rows |-> rows, rowsOf |-> generation])
    /\ Go("leaders")
    /\ UNCHANGED <<plans, server, expired, db, todo, table, result, selected, ownCause>>

\* The third: the leaders of the regions of those rows, as far as they have one.
ReadLeaders ==
    /\ discPc = "leaders"
    /\ ~expired
    /\ \E led \in SUBSET DOMAIN Entry.rows :
          Remember([err |-> FALSE, ddl |-> Entry.ddl, rows |-> Entry.rows,
                    rowsOf |-> Entry.rowsOf, led |-> led])
    /\ Go("build")
    /\ UNCHANGED <<plans, server, expired, db, todo, table, result, selected, ownCause>>

\* The regions keep their numbers and get other predicates.  At most once.
Repartition ==
    /\ discPc \in {"metadata", "leaders"}
    /\ generation = 0
    /\ generation' = 1
    /\ UNCHANGED <<setup, plans, expired, db, discPc, todo, table, cache, result, history>>

\* Mutant: an error is not cached.
ReadForgotten == /\ discPc \in {"physical", "metadata", "leaders"}
                 /\ SkipTable
                 /\ cache' = [k \in DOMAIN cache \ {Key} |-> cache[k]]
                 /\ UNCHANGED <<plans, server, expired, db, todo, table, selected, ownCause>>

\* One of the three queries fails or the DDL cannot be parsed, and so it stays.
ReadFails == /\ discPc \in {"physical", "metadata", "leaders"}
             /\ Remember([err |-> TRUE])
             /\ Go("build")
             /\ UNCHANGED <<plans, server, expired, db, todo, table, result, selected, ownCause>>

Usable(entry) == /\ ~entry.err
                 /\ DOMAIN Predicates(Key, entry) # {}
                 /\ DOMAIN Predicates(Key, entry) \subseteq entry.led

Partitions(entry) ==
    {[name |-> entry.rows[i].name, region |-> <<Key, i>>, predicate |-> Predicates(Key, entry)[i]] :
     i \in DOMAIN Predicates(Key, entry)}

Build == /\ discPc = "build"
         /\ Usable(cache[Key])
         /\ tables' = tables \cup {[db |-> db, table |-> table, partitions |-> Partitions(cache[Key])]}
         /\ Go("pick")
         /\ UNCHANGED <<plans, server, expired, db, todo, table, cache, skipped, history>>

\* No metadata, no safe predicate, or a region that has a predicate and no leader.
BuildSkips == /\ discPc = "build"
              /\ ~Usable(cache[Key])
              /\ SkipTable
              /\ UNCHANGED <<plans, server, expired, db, todo, table, cache, history>>

\* BuildQueryPlans: a plan for each partition; nothing discover lets through is
\* skipped here.
BuildQueryPlans ==
    /\ discPc = "done"
    /\ plans' = UNION {{[db |-> t.db, table |-> t.table, partition |-> p] : p \in t.partitions} :
                       t \in tables}
    /\ Go("planned")
    /\ UNCHANGED <<server, expired, db, todo, table, cache, result, history>>

DiscoveryNext == \/ Expire \/ List \/ ListFails \/ Pick \/ NextDatabase
                 \/ Create \/ CreateSkips \/ Columns \/ ColumnsSkips
                 \/ ReadDefinition \/ ReadMetadata \/ ReadLeaders \/ Repartition
                 \/ ReadFails \/ Build \/ BuildSkips \/ BuildQueryPlans

DiscoverySpec == DiscoveryInit /\ [][DiscoveryNext]_discoveryVars
-----------------------------------------------------------------------------
Discovered == {<<t.db, t.table>> : t \in tables}
PhysicalOf(e) == <<e[1], schema[e[1]][e[2]].physical>>
PlansOf(e) == {p.partition : p \in {q \in plans : <<q.db, q.table>> = e}}

\* Every table that was selected is either skipped or planned, for some regions,
\* each of them once.  Tables of one physical table that have no fault of their own
\* share its fate, however late which of its queries fails: all are planned on the
\* same partitions, or all are skipped.
EveryTableAccounted ==
    discPc = "planned" =>
        /\ skipped \subseteq selected
        /\ \A e \in selected : e \in skipped <=> PlansOf(e) = {}
        /\ \A e \in selected : \A p, q \in PlansOf(e) : p.region = q.region => p = q
        /\ \A e, f \in selected \ ownCause :
              PhysicalOf(e) = PhysicalOf(f) => PlansOf(e) = PlansOf(f)

\* A plan aimed at a region has the predicate of that region's partition, and no
\* two partitions of a table have one name (TestDiscoverDoesNotQueryAmbiguous-
\* PartitionRows has one case): whichever rows share a name or an ordinal, have a
\* description or not, and whatever the DDL has.  A predicate of another
\* partitioning than the row's is possible only if the table was partitioned anew
\* between the DDL and the rows, and only for a row without a description.
RightPredicate ==
    \A t \in tables :
        LET read == cache[PhysicalOf(<<t.db, t.table>>)]
        IN  /\ \A p \in t.partitions :
                  /\ p.predicate.region = p.region
                  /\ p.region[1] = PhysicalOf(<<t.db, t.table>>)
                  /\ \/ p.predicate.generation = read.rowsOf
                     \/ read.ddl.generation < read.rowsOf /\ ~read.rows[p.region[2]].described
            /\ \A p, q \in t.partitions : p.name = q.name => p = q
=============================================================================
