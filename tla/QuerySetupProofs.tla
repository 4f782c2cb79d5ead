-------------------------- MODULE QuerySetupProofs --------------------------
(***************************************************************************)
(* What partition_query_loader settles before its first query: which of    *)
(* flags, file and defaults a range of its configuration comes from, what  *)
(* the discovery makes of the tables, the plans of the hot and cold        *)
(* partitions, and what it reads from the texts of partitions.             *)
(***************************************************************************)
EXTENDS QueryConfig, Discovery, PlanAssignment, PartitionText, FoldLemmas,
        FiniteSetTheorems, TLAPS

-----------------------------------------------------------------------------
(* The configuration.                                                       *)

AsFlagged == [n \in SettingNames |-> IF Changed(n) THEN flagged[n] ELSE Defaults[n]]
AfterFlags == IF Changed("period") /\ ~Changed("period-min") /\ ~Changed("period-max")
              THEN Both(AsFlagged) ELSE AsFlagged

AsFiled == [n \in SettingNames |-> IF Used(n) THEN filed[n] ELSE AfterFlags[n]]
AfterFile == IF filed["period"] # Absent /\ ~Changed("period-min") /\ ~Changed("period-max")
             THEN Both(AsFiled) ELSE AsFiled

\* FlagsWin is not inductive: it says nothing before the workload runs.  What is
\* passed on from step to step is which settings the ones before have made.
SettingsInv ==
    /\ flagged \in [SettingNames -> Durations \cup {Absent}]
    /\ filed \in [SettingNames -> Durations \cup {Malformed, Absent}] \cup {Malformed}
    /\ configPc \in {"flags", "file", "validate", "workload", "running", "refused"}
    /\ configPc = "flags" => settings = Defaults
    /\ configPc = "file" => settings = AfterFlags
    /\ configPc \in {"validate", "workload"} => Parses /\ settings = AfterFile
    /\ configPc = "running" => Parses /\ settings = Final(AfterFile) /\ Valid(settings)

\* After the flags, each setting is a duration, and a bound among the flags is kept.
LEMMA FlagSettings ==
    ASSUME SettingsInv
    PROVE  /\ AfterFlags \in [SettingNames -> Int]
           /\ \A n \in SettingNames : Changed(n) => AfterFlags[n] = flagged[n]
           /\ \A n \in Bounds : AfterFlags[n] = IF Changed(n) THEN flagged[n]
                                 ELSE IF Changed("period") /\ Explicit = {} THEN flagged["period"]
                                 ELSE Defaults[n]
<1>1. AsFlagged \in [SettingNames -> Int]
  <2>1. \A n \in SettingNames : Changed(n) => flagged[n] \in Int
    BY ConfigurationAssumption DEF SettingsInv, Changed
  <2>2. \A n \in SettingNames : Defaults[n] \in Int
    BY ConfigurationAssumption
  <2> QED
    BY <2>1, <2>2 DEF AsFlagged
<1>2. Explicit = {} <=> ~Changed("period-min") /\ ~Changed("period-max")
  BY DEF Explicit, Bounds
<1> QED
  BY <1>1, <1>2 DEF AfterFlags, AsFlagged, Both, SettingNames, Bounds

\* The same after the file.
LEMMA FileSettings ==
    ASSUME SettingsInv, Parses
    PROVE  /\ AfterFile \in [SettingNames -> Int]
           /\ \A n \in SettingNames : Changed(n) => AfterFile[n] = flagged[n]
           /\ \A n \in Bounds : AfterFile[n] = IF Changed(n) THEN flagged[n]
                                 ELSE IF filed["period"] # Absent /\ Explicit = {}
                                      THEN AfterFile["period"]
                                 ELSE IF filed[n] # Absent THEN filed[n]
                                 ELSE AfterFlags[n]
           /\ ~Changed("period") => AfterFile["period"] = IF filed["period"] # Absent
                                    THEN filed["period"] ELSE Defaults["period"]
<1>1. filed \in [SettingNames -> Durations \cup {Malformed, Absent}]
  BY DEF SettingsInv, Parses
<1>2. AsFiled \in [SettingNames -> Int]
  BY <1>1, FlagSettings, ConfigurationAssumption DEF AsFiled, Used, Parses
<1>3. \A n \in SettingNames : Changed(n) => AsFiled[n] = flagged[n]
  BY FlagSettings DEF AsFiled, Used
<1>4. Explicit = {} <=> ~Changed("period-min") /\ ~Changed("period-max")
  BY DEF Explicit, Bounds
<1>5. ~Changed("period") => AfterFlags["period"] = Defaults["period"]
  BY DEF AfterFlags, AsFlagged, SettingNames
<1> QED
  BY <1>2, <1>3, <1>4, <1>5 DEF AfterFile, AsFiled, Used, Both, SettingNames, Bounds

\* Flags and file stay, and with them what is made of them.
LEMMA InputsStay ==
    ASSUME UNCHANGED configInput
    PROVE  AfterFlags' = AfterFlags /\ AfterFile' = AfterFile /\ Parses' = Parses
<1>1. flagged' = flagged /\ filed' = filed
  BY DEF configInput
<1>2. \A n : Changed(n)' = Changed(n)
  BY <1>1 DEF Changed
<1>3. \A n : Used(n)' = Used(n)
  BY <1>1, <1>2 DEF Used
<1>4. AsFlagged' = AsFlagged
  BY <1>1, <1>2 DEF AsFlagged
<1>5. AfterFlags' = AfterFlags
  BY <1>2, <1>4 DEF AfterFlags, Both
<1>6. AsFiled' = AsFiled
  BY <1>1, <1>3, <1>5 DEF AsFiled
<1> QED
  BY <1>1, <1>2, <1>3, <1>5, <1>6 DEF AfterFile, Both, Parses

\* Each step makes of the settings what SettingsInv says of its successor.
LEMMA SettingsStep ==
    ASSUME SettingsInv, [ConfigNext]_configVars
    PROVE  SettingsInv'
<1>1. CASE ReadFlags
  <2>1. settings' = AfterFlags
    BY <1>1 DEF ReadFlags, AfterFlags, AsFlagged
  <2> QED
    BY <1>1, <2>1, InputsStay DEF SettingsInv, ReadFlags, configInput
<1>2. CASE ApplyWorkloadFile
  <2>1. settings = AfterFlags
    BY <1>2 DEF SettingsInv, ApplyWorkloadFile
  <2>2. settings' = AfterFile
    BY <1>2, <2>1 DEF ApplyWorkloadFile, AfterFile, AsFiled
  <2> QED
    BY <1>2, <2>2, InputsStay DEF SettingsInv, ApplyWorkloadFile, configInput
<1>3. CASE FileRefused
  BY <1>3 DEF SettingsInv, FileRefused, configInput
<1>4. CASE Validate
  BY <1>4, InputsStay DEF SettingsInv, Validate, configInput
<1>5. CASE BeginWorkload
  <2>1. settings' = Final(AfterFile) /\ Parses
    BY <1>5 DEF SettingsInv, BeginWorkload
  <2>2. settings' = Final(AfterFile)' /\ Valid(settings)' = Valid(settings')
    BY <1>5, <2>1, InputsStay DEF BeginWorkload, Final, Both, Valid
  <2> QED
    BY <1>5, <2>1, <2>2, InputsStay DEF SettingsInv, BeginWorkload, configInput
<1>6. CASE UNCHANGED configVars
  <2>1. UNCHANGED <<configInput, settings, configPc>>
    BY <1>6 DEF configVars
  <2>2. Final(AfterFile)' = Final(AfterFile) /\ Valid(settings)' = Valid(settings)
    BY <2>1, InputsStay DEF Final, Both, Valid
  <2> QED
    BY <2>1, <2>2, InputsStay DEF SettingsInv, configInput
<1> QED
  BY <1>1, <1>2, <1>3, <1>4, <1>5, <1>6 DEF ConfigNext

\* What each step hands to the next is the function of flags and file stated above.
THEOREM SettingsInvariance == ConfigSpec => []SettingsInv
<1>1. ConfigInit => SettingsInv
  BY DEF ConfigInit, SettingsInv
<1> QED
  BY <1>1, SettingsStep, PTL DEF ConfigSpec

\* A bound among the flags is what the queries run with, whatever the file says,
\* unless it is the default beside an alias that is not; an alias alone decides
\* both; nothing malformed and no empty range gets that far.
THEOREM FlagsDecide == ConfigSpec => []FlagsWin
<1>1. ASSUME SettingsInv, configPc = "running"
      PROVE  FlagsWin
  <2>1. Parses /\ Valid(settings) /\ settings = Final(AfterFile)
    BY <1>1 DEF SettingsInv
  <2>2. AfterFile \in [SettingNames -> Int] /\ settings \in [SettingNames -> Int]
    BY <1>1, <2>1, FileSettings DEF Final, Both, SettingNames
  <2>3. settings["period"] = AfterFile["period"]
    BY <2>1, <2>2 DEF Final, Both, SettingNames
  <2>4. \/ settings = AfterFile
        \/ /\ Expects(Bounds, OfAlias(settings["period"]))
           /\ \A n \in Bounds : AfterFile[n] = Defaults[n]
    BY <2>1, <2>2, <2>3 DEF Final, Both, Bounds, Expects, OfAlias, SettingNames
  <2>5. \/ Expects(Explicit, Itself)
        \/ Expects(Bounds, OfAlias(settings["period"])) /\ \A n \in Explicit : flagged[n] = Defaults[n]
    BY <1>1, <2>1, <2>4, FileSettings DEF Expects, Explicit, Itself, Bounds, SettingNames
  <2>6. ASSUME Changed("period"), Explicit = {}, \A n \in Bounds : filed[n] = Absent
        PROVE  Expects(Bounds, OfAlias(flagged["period"]))
    <3>1. settings["period"] = flagged["period"]
      BY <1>1, <2>1, <2>3, <2>6, FileSettings DEF SettingNames
    <3>2. \A n \in Bounds : AfterFile[n] = flagged["period"]
      BY <1>1, <2>1, <2>3, <2>6, <3>1, FileSettings, FlagSettings DEF Explicit
    <3> QED
      BY <2>4, <3>1, <3>2 DEF Expects, OfAlias
  <2>7. ASSUME \A n \in SettingNames : ~Changed(n), filed["period"] # Absent
        PROVE  Expects(Bounds, OfAlias(filed["period"]))
    <3>1. Explicit = {} /\ AfterFile["period"] = filed["period"]
      BY <1>1, <2>1, <2>7, FileSettings DEF Explicit, Bounds, SettingNames
    <3>2. \A n \in Bounds : AfterFile[n] = filed["period"]
      BY <1>1, <2>1, <2>7, <3>1, FileSettings DEF Bounds, SettingNames
    <3> QED
      BY <2>3, <2>4, <3>1, <3>2 DEF Expects, OfAlias
  <2>8. ASSUME filed["period"] = Absent, ~Changed("period")
        PROVE  \A n \in Bounds : settings[n] = IF Changed(n) THEN flagged[n]
                                               ELSE IF filed[n] # Absent THEN filed[n]
                                               ELSE Defaults[n]
    <3>1. AfterFile["period"] = Defaults["period"]
      BY <1>1, <2>1, <2>8, FileSettings
    <3>2. settings = AfterFile
      BY <2>1, <3>1 DEF Final
    <3> QED
      BY <1>1, <2>1, <2>8, <3>2, FileSettings, FlagSettings
  <2> QED
    BY <2>1, <2>5, <2>6, <2>7, <2>8 DEF FlagsWin
<1>2. SettingsInv => FlagsWin
  BY <1>1 DEF FlagsWin
<1> QED
  BY <1>2, SettingsInvariance, PTL

-----------------------------------------------------------------------------
(* The discovery.                                                           *)

USE DEF result, history, server, Go

\* The table in hand: its physical table is being read in Reading.
Reading == {"physical", "metadata", "leaders"}
Handling == {"create", "columns", "build"} \cup Reading

\* The selected tables of the database whose fate is open.
InHand == {<<db, t>> : t \in todo \cup (IF discPc \in Handling THEN {table} ELSE {})}

\* Every selected table is in exactly one place: in hand, skipped or among the
\* tables of the result, and those of the database to be listed are in none.
AccountInv ==
    /\ discPc \in {"list", "pick", "done", "planned", "failed"} \cup Handling
    /\ db \in Nat
    /\ discPc \in Handling => table \notin todo
    /\ discPc \in {"list", "done", "planned"} => todo = {}
    /\ \A s, t \in tables : s.db = t.db /\ s.table = t.table => s = t
    /\ discPc = "failed" => tables = {}
    /\ discPc # "failed" =>
          /\ selected = InHand \cup skipped \cup Discovered
          /\ InHand \cap (skipped \cup Discovered) = {}
          /\ skipped \cap Discovered = {}
          /\ ownCause \subseteq skipped
          /\ \A e \in selected : e[1] \in Nat /\ e[1] <= db /\ (discPc = "list" => e[1] < db)

\* What Usable and Partitions say, of any physical table.
Fit(key, entry) == /\ ~entry.err
                   /\ DOMAIN Predicates(key, entry) # {}
                   /\ DOMAIN Predicates(key, entry) \subseteq entry.led
Made(key, entry) ==
    {[name |-> entry.rows[i].name, region |-> <<key, i>>, predicate |-> Predicates(key, entry)[i]] :
     i \in DOMAIN Predicates(key, entry)}

\* A row has its own position, none, or that of another row.
OwnPositions(rows) ==
    \A i \in DOMAIN rows : rows[i].ordinal \in {0, i} \/
        \E j \in DOMAIN rows \ {i} : rows[j].ordinal = rows[i].ordinal

\* The fields an entry gets from the first query, and from the second.
FromDefinition(entry) == /\ ~entry.err
                         /\ "err" \in DOMAIN entry /\ "ddl" \in DOMAIN entry
                         /\ entry.ddl.generation \in 0..generation
FromMetadata(entry) == /\ "rows" \in DOMAIN entry /\ "rowsOf" \in DOMAIN entry
                       /\ OwnPositions(entry.rows)
                       /\ entry.rowsOf \in Nat
                       /\ entry.ddl.generation <= entry.rowsOf
Whole(entry) == entry.err \/ (FromDefinition(entry) /\ FromMetadata(entry))

\* What has been read of a physical table, as far as it has been, and that it was
\* read before any table was settled by it.
CacheInv ==
    /\ generation \in Nat
    /\ discPc = "physical" => Key \notin DOMAIN cache
    /\ discPc = "metadata" => Key \in DOMAIN cache /\ FromDefinition(Entry)
                              /\ DOMAIN Entry = {"err", "ddl"}
    /\ discPc = "leaders" => Key \in DOMAIN cache /\ FromDefinition(Entry) /\ FromMetadata(Entry)
                             /\ DOMAIN Entry = {"err", "ddl", "rows", "rowsOf"}
    /\ discPc = "build" => Key \in DOMAIN cache
    /\ \A k \in DOMAIN cache :
          Whole(cache[k]) \/ (discPc \in Reading /\ k = Key)
    /\ discPc \in Reading => \A e \in Discovered \cup (skipped \ ownCause) : PhysicalOf(e) # Key

\* The tables of the result have the partitions their physical table gave, and
\* those skipped for no reason of their own had one that gave none.
SettledInv ==
    /\ \A t \in tables : LET key == PhysicalOf(<<t.db, t.table>>)
                         IN  /\ key \in DOMAIN cache
                             /\ Fit(key, cache[key])
                             /\ t.partitions = Made(key, cache[key])
    /\ \A e \in skipped \ ownCause : LET key == PhysicalOf(e)
                                     IN  key \in DOMAIN cache /\ ~Fit(key, cache[key])

PlansInv == discPc = "planned" =>
    plans = UNION {{[db |-> t.db, table |-> t.table, partition |-> p] : p \in t.partitions} :
                   t \in tables}

DiscoveryInv == AccountInv /\ CacheInv /\ SettledInv /\ PlansInv
-----------------------------------------------------------------------------

\* Initially nothing is selected, read or settled.
LEMMA DiscoveryStarts == DiscoveryInit => DiscoveryInv
BY DEF DiscoveryInit, DiscoveryInv, AccountInv, CacheInv, SettledInv, PlansInv,
       InHand, Discovered, Handling, Reading

\* No step moves a table to a second place.
LEMMA AccountStep ==
    ASSUME AccountInv, [DiscoveryNext]_discoveryVars
    PROVE  AccountInv'
<1> USE DEF AccountInv, Handling, Reading
<1>1. CASE List
  <2>1. PICK chosen \in SUBSET DOMAIN schema[db] :
            todo' = chosen /\ selected' = selected \cup {<<db, t>> : t \in chosen}
    BY <1>1 DEF List, kSubset
  <2>2. InHand = {} /\ InHand' = {<<db, t>> : t \in chosen}
    BY <1>1, <2>1 DEF List, InHand
  <2>3. \A t : <<db, t>> \notin selected
    BY <1>1 DEF List
  <2> QED
    BY <1>1, <2>1, <2>2, <2>3 DEF List, Discovered
<1>2. CASE ListFails
  BY <1>2 DEF ListFails, InHand, Discovered
<1>3. CASE Pick
  <2>1. InHand' = InHand
    BY <1>3 DEF Pick, InHand
  <2> QED
    BY <1>3, <2>1 DEF Pick, Discovered
<1>4. CASE NextDatabase
  <2>1. InHand = {} /\ InHand' = {}
    BY <1>4 DEF NextDatabase, InHand
  <2> QED
    BY <1>4, <2>1 DEF NextDatabase, Discovered
<1>5. CASE SkipTable /\ discPc \in Handling /\ UNCHANGED <<db, todo, table, selected>>
           /\ ownCause' \in {ownCause, ownCause \cup {<<db, table>>}}
  <2>1. InHand = InHand' \cup {<<db, table>>} /\ <<db, table>> \notin InHand'
    BY <1>5 DEF SkipTable, InHand
  <2> QED
    BY <1>5, <2>1 DEF SkipTable, Discovered
<1>6. CASE Build
  <2>1. InHand = InHand' \cup {<<db, table>>} /\ <<db, table>> \notin InHand'
    BY <1>6 DEF Build, InHand
  <2> DEFINE made == [db |-> db, table |-> table, partitions |-> Partitions(cache[Key])]
  <2>4. tables' = tables \cup {made}
    BY <1>6 DEF Build
  <2>5. made.db = db /\ made.table = table
    OBVIOUS
  <2> HIDE DEF made
  <2>2. Discovered' = Discovered \cup {<<db, table>>}
    BY <2>4, <2>5 DEF Discovered
  <2>3. \A s, t \in tables' : s.db = t.db /\ s.table = t.table => s = t
    <3>1. <<db, table>> \notin Discovered
      BY <1>6, <2>1 DEF Build
    <3>2. \A t \in tables : ~(t.db = db /\ t.table = table)
      BY <3>1 DEF Discovered
    <3> QED
      BY <2>4, <2>5, <3>2
  <2> QED
    BY <1>6, <2>1, <2>2, <2>3 DEF Build
<1>7. CASE /\ UNCHANGED <<db, todo, table, result, history>>
           /\ discPc \in Handling /\ discPc' \in Handling
  <2>1. InHand' = InHand
    BY <1>7 DEF InHand
  <2> QED
    BY <1>7, <2>1 DEF Discovered
<1>8. CASE /\ UNCHANGED <<db, todo, table, result, history>>
           /\ discPc' = discPc \/ (discPc = "done" /\ discPc' = "planned")
  <2>1. InHand' = InHand
    BY <1>8 DEF InHand
  <2> QED
    BY <1>8, <2>1 DEF Discovered
<1>9. CASE CreateSkips
  BY <1>5, <1>9 DEF CreateSkips
<1>10. CASE ColumnsSkips
  BY <1>5, <1>10 DEF ColumnsSkips
<1>11. CASE BuildSkips
  BY <1>5, <1>11 DEF BuildSkips
<1>12. CASE Create \/ Columns \/ ReadDefinition \/ ReadMetadata \/ ReadLeaders \/ ReadFails
  BY <1>7, <1>12 DEF Create, Columns, ReadDefinition, ReadMetadata, ReadLeaders, ReadFails
<1>13. CASE Expire \/ Repartition \/ BuildQueryPlans \/ UNCHANGED discoveryVars
  BY <1>8, <1>13 DEF Expire, Repartition, BuildQueryPlans, discoveryVars
<1> QED
  BY <1>1, <1>2, <1>3, <1>4, <1>6, <1>9, <1>10, <1>11, <1>12, <1>13 DEF DiscoveryNext

\* What the server calls tables and physical tables does not change.
LEMMA PhysicalStays ==
    ASSUME UNCHANGED setup
    PROVE  \A e : PhysicalOf(e)' = PhysicalOf(e)
BY DEF PhysicalOf, schema

\* Reading ends with an entry that is an error or has all that was read, and the
\* entries of other physical tables stay as they are.
LEMMA CacheStep ==
    ASSUME AccountInv, CacheInv, SettledInv, [DiscoveryNext]_discoveryVars
    PROVE  CacheInv'
<1> USE DEF CacheInv, Handling, Reading
<1>0. UNCHANGED setup
  BY DEF DiscoveryNext, discoveryVars, Expire, List, ListFails, Pick, NextDatabase, Create,
         CreateSkips, Columns, ColumnsSkips, ReadDefinition, ReadMetadata, ReadLeaders,
         Repartition, ReadFails, Build, BuildSkips, BuildQueryPlans
<1>1. ASSUME UNCHANGED <<cache, generation>>
      PROVE  \A k : Whole(cache[k])' <=> Whole(cache[k])
  BY <1>1 DEF Whole, FromDefinition, FromMetadata
<1>2. ASSUME UNCHANGED <<db, table, tables, skipped, ownCause>>
      PROVE  /\ Key' = Key
             /\ \A e \in Discovered' \cup (skipped' \ ownCause') :
                   e \in Discovered \cup (skipped \ ownCause) /\ PhysicalOf(e)' = PhysicalOf(e)
  <2>1. Key' = Key
    BY <1>0, <1>2 DEF Key, Physical, schema
  <2>2. Discovered' = Discovered
    BY <1>2 DEF Discovered
  <2> QED
    BY <1>0, <1>2, <2>1, <2>2, PhysicalStays
<1>3. ASSUME UNCHANGED <<cache, generation>>, discPc \notin Reading, discPc' \notin Reading \cup {"build"}
      PROVE  CacheInv'
  <2>1. \A k \in DOMAIN cache : Whole(cache[k])
    BY <1>3
  <2>2. \A k \in DOMAIN cache' : Whole(cache[k])'
    BY <1>1, <1>3, <2>1
  <2>3. generation' \in Nat /\ discPc' \notin {"physical", "metadata", "leaders", "build"}
    BY <1>3
  <2> QED
    BY <2>2, <2>3
<1>4. CASE Columns
  <2>1. Key' = Key /\ UNCHANGED <<cache, generation>>
    BY <1>2, <1>4 DEF Columns
  <2>2. \A k \in DOMAIN cache' : Whole(cache[k])'
    BY <1>1, <1>4, <2>1 DEF Columns
  <2>3. CASE Key \in DOMAIN cache
    BY <1>4, <2>1, <2>2, <2>3 DEF Columns
  <2>4. CASE Key \notin DOMAIN cache
    <3>1. discPc' = "physical"
      BY <1>4, <2>4 DEF Columns
    <3>2. \A e \in Discovered \cup (skipped \ ownCause) : PhysicalOf(e) \in DOMAIN cache
      BY DEF SettledInv, Discovered
    <3>3. \A e \in Discovered' \cup (skipped' \ ownCause') : PhysicalOf(e)' # Key'
      BY <1>2, <1>4, <2>1, <2>4, <3>2 DEF Columns
    <3> QED
      BY <2>1, <2>2, <2>4, <3>1, <3>3
  <2> QED
    BY <2>3, <2>4
<1>5. ASSUME discPc \in Reading, UNCHANGED <<db, table, tables, skipped, ownCause>>,
             generation' = generation,
             NEW entry,
             DOMAIN cache' = {Key} \cup DOMAIN cache,
             cache'[Key] = entry,
             \A k \in DOMAIN cache \ {Key} : cache'[k] = cache[k]
      PROVE  /\ Key' = Key
             /\ cache'[Key'] = entry
             /\ \A k \in DOMAIN cache' : Whole(cache[k])' \/ k = Key'
             /\ \A e \in Discovered' \cup (skipped' \ ownCause') : PhysicalOf(e)' # Key'
  <2>1. \A k \in DOMAIN cache \ {Key} : Whole(cache[k])' <=> Whole(cache[k])
    BY <1>5 DEF Whole, FromDefinition, FromMetadata
  <2> QED
    BY <1>2, <1>5, <2>1
<1>6. ASSUME NEW entry, Remember(entry)
      PROVE  /\ DOMAIN cache' = {Key} \cup DOMAIN cache /\ cache'[Key] = entry
             /\ \A k \in DOMAIN cache \ {Key} : cache'[k] = cache[k]
  BY <1>6 DEF Remember
<1>7. CASE ReadDefinition
  <2>1. PICK ddl \in Definitions : Remember([err |-> FALSE, ddl |-> ddl])
    BY <1>7 DEF ReadDefinition
  <2> DEFINE entry == [err |-> FALSE, ddl |-> ddl]
  <2>2. ddl.generation = generation
    BY DEF Definitions
  <2>3. FromDefinition(entry)' /\ DOMAIN entry = {"err", "ddl"}
    BY <1>7, <2>2 DEF ReadDefinition, FromDefinition
  <2> HIDE DEF entry
  <2>4. Remember(entry)
    BY <2>1 DEF entry
  <2>5. discPc' = "metadata" /\ generation' = generation /\ UNCHANGED <<db, table, tables, skipped, ownCause>>
    BY <1>7 DEF ReadDefinition
  <2> QED
    BY <1>5, <1>6, <1>7, <2>3, <2>4, <2>5 DEF ReadDefinition, Entry
<1>8. CASE ReadMetadata
  <2>1. PICK rows \in Metadata :
            Remember([err |-> FALSE, ddl |-> Entry.ddl, rows |-> rows, rowsOf |-> generation])
    BY <1>8 DEF ReadMetadata
  <2> DEFINE entry == [err |-> FALSE, ddl |-> Entry.ddl, rows |-> rows, rowsOf |-> generation]
  <2>2. OwnPositions(rows)
    BY DEF Metadata, OwnPositions
  <2>3. FromDefinition(Entry)
    BY <1>8 DEF ReadMetadata
  <2>4. generation' = generation /\ discPc' = "leaders" /\ UNCHANGED <<db, table, tables, skipped, ownCause>>
    BY <1>8 DEF ReadMetadata
  <2>5. /\ DOMAIN entry = {"err", "ddl", "rows", "rowsOf"}
        /\ entry.err = FALSE /\ entry.ddl = Entry.ddl
        /\ entry.rows = rows /\ entry.rowsOf = generation
    OBVIOUS
  <2> HIDE DEF entry
  <2>6. FromDefinition(entry) /\ FromMetadata(entry)
    BY <2>2, <2>3, <2>5 DEF FromDefinition, FromMetadata
  <2>7. Remember(entry)
    BY <2>1 DEF entry
  <2>8. cache'[Key'] = entry /\ Key' = Key
    BY <1>5, <1>6, <1>8, <2>4, <2>7 DEF ReadMetadata
  <2>9. FromDefinition(Entry)' /\ FromMetadata(Entry)' /\ DOMAIN Entry' = DOMAIN entry
    BY <2>4, <2>6, <2>8 DEF FromDefinition, FromMetadata, Entry
  <2> QED
    BY <1>5, <1>6, <1>8, <2>4, <2>5, <2>7, <2>9 DEF ReadMetadata
<1>9. CASE ReadLeaders
  <2>1. PICK led \in SUBSET DOMAIN Entry.rows :
            Remember([err |-> FALSE, ddl |-> Entry.ddl, rows |-> Entry.rows,
                      rowsOf |-> Entry.rowsOf, led |-> led])
    BY <1>9 DEF ReadLeaders
  <2> DEFINE entry == [err |-> FALSE, ddl |-> Entry.ddl, rows |-> Entry.rows,
                       rowsOf |-> Entry.rowsOf, led |-> led]
  <2>2. FromDefinition(Entry) /\ FromMetadata(Entry)
    BY <1>9 DEF ReadLeaders
  <2>3. generation' = generation /\ discPc' = "build" /\ UNCHANGED <<db, table, tables, skipped, ownCause>>
    BY <1>9 DEF ReadLeaders
  <2>4. /\ DOMAIN entry = {"err", "ddl", "rows", "rowsOf", "led"}
        /\ entry.err = FALSE /\ entry.ddl = Entry.ddl
        /\ entry.rows = Entry.rows /\ entry.rowsOf = Entry.rowsOf
    OBVIOUS
  <2> HIDE DEF entry
  <2>5. FromDefinition(entry) /\ FromMetadata(entry)
    BY <2>2, <2>4 DEF FromDefinition, FromMetadata
  <2>6. Remember(entry)
    BY <2>1 DEF entry
  <2>7. cache'[Key'] = entry /\ Key' = Key /\ \A k \in DOMAIN cache' : Whole(cache[k])' \/ k = Key'
    BY <1>5, <1>6, <1>9, <2>3, <2>6 DEF ReadLeaders
  <2>8. Whole(cache[Key])'
    BY <2>3, <2>5, <2>7 DEF Whole, FromDefinition, FromMetadata
  <2> QED
    BY <1>6, <2>3, <2>6, <2>7, <2>8
<1>10. CASE ReadFails
  <2> DEFINE entry == [err |-> TRUE]
  <2>1. Remember(entry)
    BY <1>10 DEF ReadFails
  <2>2. generation' = generation /\ discPc' = "build" /\ UNCHANGED <<db, table, tables, skipped, ownCause>>
    BY <1>10 DEF ReadFails
  <2>3. entry.err
    OBVIOUS
  <2> HIDE DEF entry
  <2>4. cache'[Key'] = entry /\ Key' = Key /\ \A k \in DOMAIN cache' : Whole(cache[k])' \/ k = Key'
    BY <1>5, <1>6, <1>10, <2>1, <2>2 DEF ReadFails
  <2>5. Whole(cache[Key])'
    BY <2>3, <2>4 DEF Whole
  <2> QED
    BY <1>6, <2>1, <2>2, <2>4, <2>5
<1>11. CASE Repartition
  <2>1. UNCHANGED <<cache, discPc, db, table, tables, skipped, ownCause>>
        /\ generation \in Nat /\ generation' \in Nat /\ generation <= generation'
    BY <1>11 DEF Repartition
  <2>2. ASSUME NEW k
        PROVE  /\ FromDefinition(cache[k]) => FromDefinition(cache[k])'
               /\ FromMetadata(cache[k]) => FromMetadata(cache[k])'
    <3>1. 0..generation \subseteq 0..generation'
      BY <2>1
    <3> QED
      BY <2>1, <3>1 DEF FromDefinition, FromMetadata
  <2>3. \A k \in DOMAIN cache : Whole(cache[k]) => Whole(cache[k])'
    BY <2>1, <2>2 DEF Whole
  <2>4. Key' = Key
    BY <1>2, <2>1
  <2> QED
    BY <1>2, <2>1, <2>2, <2>3, <2>4 DEF Entry
<1>12. CASE Expire \/ UNCHANGED discoveryVars
  <2>1. UNCHANGED <<cache, generation, discPc, db, table, tables, skipped, ownCause>>
    BY <1>12 DEF Expire, discoveryVars
  <2>2. Entry' = Entry /\ FromDefinition(Entry)' = FromDefinition(Entry) /\ FromMetadata(Entry)' = FromMetadata(Entry)
    BY <1>2, <2>1 DEF Entry, FromDefinition, FromMetadata
  <2> QED
    BY <1>1, <1>2, <2>1, <2>2
<1>13. CASE List \/ ListFails \/ Pick \/ NextDatabase \/ Create \/ CreateSkips \/ ColumnsSkips
            \/ Build \/ BuildSkips \/ BuildQueryPlans
  BY <1>3, <1>13 DEF List, ListFails, Pick, NextDatabase, Create, CreateSkips, ColumnsSkips,
                     Build, BuildSkips, BuildQueryPlans, SkipTable
<1> QED
  BY <1>4, <1>7, <1>8, <1>9, <1>10, <1>11, <1>12, <1>13 DEF DiscoveryNext

\* What settled a table is not read again.
LEMMA SettledStep ==
    ASSUME AccountInv, CacheInv, SettledInv, [DiscoveryNext]_discoveryVars
    PROVE  SettledInv'
<1> USE DEF Handling, Reading
<1> DEFINE By(key, t) == key \in DOMAIN cache /\ Fit(key, cache[key]) /\ t.partitions = Made(key, cache[key])
           Against(key) == key \in DOMAIN cache /\ ~Fit(key, cache[key])
<1>0. UNCHANGED setup
  BY DEF DiscoveryNext, discoveryVars, Expire, List, ListFails, Pick, NextDatabase, Create,
         CreateSkips, Columns, ColumnsSkips, ReadDefinition, ReadMetadata, ReadLeaders,
         Repartition, ReadFails, Build, BuildSkips, BuildQueryPlans
<1>1. /\ \A t \in tables : By(PhysicalOf(<<t.db, t.table>>), t)
      /\ \A e \in skipped \ ownCause : Against(PhysicalOf(e))
  BY DEF SettledInv
<1>2. ASSUME \A t \in tables' : By(PhysicalOf(<<t.db, t.table>>), t)',
             \A e \in skipped' \ ownCause' : Against(PhysicalOf(e))'
      PROVE  SettledInv'
  BY <1>2 DEF SettledInv
<1>3. ASSUME UNCHANGED cache, tables' \subseteq tables, skipped' \ ownCause' \subseteq skipped \ ownCause
      PROVE  SettledInv'
  <2>1. \A e : PhysicalOf(e)' = PhysicalOf(e)
    BY <1>0, PhysicalStays
  <2> QED
    BY <1>1, <1>2, <1>3, <2>1
<1>4. ASSUME NEW entry, Remember(entry), discPc \in Reading, UNCHANGED <<tables, skipped, ownCause>>
      PROVE  SettledInv'
  <2>1. \A e : PhysicalOf(e)' = PhysicalOf(e)
    BY <1>0, PhysicalStays
  <2>2. \A k \in DOMAIN cache \ {Key} : k \in DOMAIN cache' /\ cache'[k] = cache[k]
    BY <1>4 DEF Remember
  <2>3. \A t \in tables : PhysicalOf(<<t.db, t.table>>) \in DOMAIN cache \ {Key}
    BY <1>1, <1>4 DEF CacheInv, Discovered
  <2>4. \A e \in skipped \ ownCause : PhysicalOf(e) \in DOMAIN cache \ {Key}
    BY <1>1, <1>4 DEF CacheInv
  <2>5. \A t \in tables' : By(PhysicalOf(<<t.db, t.table>>), t)'
    BY <1>1, <1>4, <2>1, <2>2, <2>3
  <2>6. \A e \in skipped' \ ownCause' : Against(PhysicalOf(e))'
    BY <1>1, <1>4, <2>1, <2>2, <2>4
  <2> QED
    BY <1>2, <2>5, <2>6
<1>5. Key = PhysicalOf(<<db, table>>)
  BY DEF Key, Physical, PhysicalOf
<1>6. CASE Build
  <2> DEFINE made == [db |-> db, table |-> table, partitions |-> Partitions(cache[Key])]
  <2>1. tables' = tables \cup {made} /\ UNCHANGED <<cache, skipped, ownCause>>
    BY <1>6 DEF Build
  <2>2. made.db = db /\ made.table = table /\ made.partitions = Made(Key, cache[Key])
    BY DEF Partitions, Made
  <2> HIDE DEF made
  <2>3. By(Key, made)
    BY <1>6, <2>2 DEF Build, Usable, Fit, CacheInv
  <2>4. \A e : PhysicalOf(e)' = PhysicalOf(e)
    BY <1>0, PhysicalStays
  <2>5. By(PhysicalOf(<<made.db, made.table>>), made)
    BY <1>5, <2>2, <2>3
  <2>6. \A t \in tables' : By(PhysicalOf(<<t.db, t.table>>), t)'
    BY <1>1, <2>1, <2>4, <2>5
  <2>7. \A e \in skipped' \ ownCause' : Against(PhysicalOf(e))'
    BY <1>1, <2>1, <2>4
  <2> QED
    BY <1>2, <2>6, <2>7
<1>7. CASE BuildSkips
  <2>1. skipped' = skipped \cup {<<db, table>>} /\ UNCHANGED <<cache, tables, ownCause>>
    BY <1>7 DEF BuildSkips, SkipTable
  <2>2. Against(Key)
    BY <1>7 DEF BuildSkips, Usable, Fit, CacheInv
  <2>3. \A e : PhysicalOf(e)' = PhysicalOf(e)
    BY <1>0, PhysicalStays
  <2>4. \A t \in tables' : By(PhysicalOf(<<t.db, t.table>>), t)'
    BY <1>1, <2>1, <2>3
  <2>5. \A e \in skipped' \ ownCause' : Against(PhysicalOf(e))'
    BY <1>1, <1>5, <2>1, <2>2, <2>3
  <2> QED
    BY <1>2, <2>4, <2>5
<1>8. CASE ReadDefinition \/ ReadMetadata \/ ReadLeaders \/ ReadFails
  BY <1>4, <1>8 DEF ReadDefinition, ReadMetadata, ReadLeaders, ReadFails
<1>9. CASE CreateSkips \/ ColumnsSkips
  BY <1>3, <1>9 DEF CreateSkips, ColumnsSkips, SkipTable
<1>10. CASE \/ Expire \/ List \/ ListFails \/ Pick \/ NextDatabase \/ Create \/ Columns
            \/ Repartition \/ BuildQueryPlans \/ UNCHANGED discoveryVars
  BY <1>3, <1>10 DEF Expire, List, ListFails, Pick, NextDatabase, Create, Columns, Repartition,
                     BuildQueryPlans, discoveryVars
<1> QED
  BY <1>6, <1>7, <1>8, <1>9, <1>10 DEF DiscoveryNext

\* The plans are made of the tables at the end, and nothing changes any more.
LEMMA PlansStep ==
    ASSUME PlansInv, [DiscoveryNext]_discoveryVars
    PROVE  PlansInv'
BY DEF PlansInv, DiscoveryNext, discoveryVars, Expire, List, ListFails, Pick, NextDatabase, Create,
       CreateSkips, Columns, ColumnsSkips, ReadDefinition, ReadMetadata, ReadLeaders,
       Repartition, ReadFails, Build, BuildSkips, BuildQueryPlans, SkipTable

\* Every table is in one place, and what settled it stays in the cache.
THEOREM DiscoveryInvariance == DiscoverySpec => []DiscoveryInv
<1>1. DiscoveryInv /\ [DiscoveryNext]_discoveryVars => DiscoveryInv'
  BY AccountStep, CacheStep, SettledStep, PlansStep DEF DiscoveryInv
<1> QED
  BY <1>1, DiscoveryStarts, PTL DEF DiscoverySpec

\* A row that is used has its own position.
LEMMA OwnPosition ==
    ASSUME NEW rows, OwnPositions(rows), NEW i \in Identified(rows)
    PROVE  /\ i \in DOMAIN rows
           /\ rows[i].ordinal = i
           /\ \A j \in DOMAIN rows : rows[j].name = rows[i].name => j = i
<1>1. i \in Unique(rows, "name") /\ i \in Unique(rows, "ordinal") /\ rows[i].ordinal # 0
  BY DEF Identified
<1>2. \A j \in DOMAIN rows \ {i} : rows[j]["name"] # rows[i]["name"]
  BY <1>1 DEF Unique
<1>3. \A j \in DOMAIN rows \ {i} : rows[j]["ordinal"] # rows[i]["ordinal"]
  BY <1>1 DEF Unique
<1> QED
  BY <1>1, <1>2, <1>3 DEF OwnPositions, Unique

\* A partition of a table of the result comes from one row of the metadata.
LEMMA PartitionsOfRows ==
    ASSUME NEW key, NEW entry, NEW p \in Made(key, entry)
    PROVE  \E i \in Identified(entry.rows) :
              /\ p = [name |-> entry.rows[i].name, region |-> <<key, i>>,
                      predicate |-> Predicates(key, entry)[i]]
              /\ p.name = entry.rows[i].name /\ p.region = <<key, i>>
              /\ entry.rows[i].described =>
                    p.predicate = [region |-> <<key, i>>, generation |-> entry.rowsOf]
              /\ ~entry.rows[i].described =>
                    p.predicate = [region |-> <<key, entry.rows[i].ordinal>>,
                                   generation |-> entry.ddl.generation]
<1> DEFINE used == {j \in Identified(entry.rows) :
                       \/ entry.rows[j].described
                       \/ entry.ddl.sameColumns /\ entry.rows[j].ordinal <= entry.ddl.partitions}
           predicate(i) == IF entry.rows[i].described
                           THEN [region |-> <<key, i>>, generation |-> entry.rowsOf]
                           ELSE [region |-> <<key, entry.rows[i].ordinal>>,
                                 generation |-> entry.ddl.generation]
<1>1. Predicates(key, entry) = [i \in used |-> predicate(i)]
  BY DEF Predicates
<1>2. used \subseteq Identified(entry.rows)
  OBVIOUS
<1>3. \A i : /\ entry.rows[i].described => predicate(i) = [region |-> <<key, i>>, generation |-> entry.rowsOf]
             /\ ~entry.rows[i].described =>
                   predicate(i) = [region |-> <<key, entry.rows[i].ordinal>>,
                                   generation |-> entry.ddl.generation]
  OBVIOUS
<1> HIDE DEF used, predicate
<1>4. DOMAIN Predicates(key, entry) = used /\ \A i \in used : Predicates(key, entry)[i] = predicate(i)
  BY <1>1
<1>5. PICK i \in used : p = [name |-> entry.rows[i].name, region |-> <<key, i>>,
                             predicate |-> Predicates(key, entry)[i]]
  BY <1>4 DEF Made
<1> QED
  BY <1>2, <1>3, <1>4, <1>5

\* Its region tells it from the others, and so does its name.
LEMMA PartitionsApart ==
    ASSUME NEW key, NEW entry, NEW p \in Made(key, entry), NEW q \in Made(key, entry)
    PROVE  /\ p.region = q.region => p = q
           /\ OwnPositions(entry.rows) /\ p.name = q.name => p = q
<1> DEFINE of(i) == [name |-> entry.rows[i].name, region |-> <<key, i>>,
                     predicate |-> Predicates(key, entry)[i]]
<1>1. PICK i \in Identified(entry.rows) :
          p = of(i) /\ p.name = entry.rows[i].name /\ p.region = <<key, i>>
  BY PartitionsOfRows, ZenonT(60)
<1>2. PICK j \in Identified(entry.rows) :
          q = of(j) /\ q.name = entry.rows[j].name /\ q.region = <<key, j>>
  BY PartitionsOfRows, ZenonT(60)
<1> HIDE DEF of
<1> QED
  BY <1>1, <1>2, OwnPosition

\* Whatever the server answers and whenever it partitions a table anew, a plan has
\* the predicate of its region's partition.
THEOREM PredicatesAreRight == DiscoverySpec => []RightPredicate
<1>1. ASSUME DiscoveryInv PROVE RightPredicate
  <2> SUFFICES ASSUME NEW t \in tables
               PROVE  LET key == PhysicalOf(<<t.db, t.table>>)
                          read == cache[key]
                      IN  /\ \A p \in t.partitions :
                                /\ p.predicate.region = p.region
                                /\ p.region[1] = key
                                /\ \/ p.predicate.generation = read.rowsOf
                                   \/ read.ddl.generation < read.rowsOf /\ ~read.rows[p.region[2]].described
                          /\ \A p, q \in t.partitions : p.name = q.name => p = q
    BY DEF RightPredicate
  <2> DEFINE key == PhysicalOf(<<t.db, t.table>>)
             read == cache[key]
  <2>1. key \in DOMAIN cache /\ Fit(key, read) /\ t.partitions = Made(key, read)
    BY <1>1 DEF DiscoveryInv, SettledInv
  <2>2. <<t.db, t.table>> \in Discovered
    BY DEF Discovered
  <2>3. FromDefinition(read) /\ FromMetadata(read)
    BY <1>1, <2>1, <2>2 DEF DiscoveryInv, CacheInv, Whole, Fit
  <2>4. read.ddl.generation \in Int /\ read.rowsOf \in Int /\ read.ddl.generation <= read.rowsOf
    BY <1>1, <2>3 DEF FromDefinition, FromMetadata, DiscoveryInv, CacheInv
  <2>5. OwnPositions(read.rows)
    BY <2>3 DEF FromMetadata
  <2> HIDE DEF key, read
  <2>6. ASSUME NEW p \in t.partitions
        PROVE  /\ p.predicate.region = p.region
               /\ p.region[1] = key
               /\ \/ p.predicate.generation = read.rowsOf
                  \/ read.ddl.generation < read.rowsOf /\ ~read.rows[p.region[2]].described
    <3>1. PICK i \in Identified(read.rows) :
              /\ p.region = <<key, i>>
              /\ read.rows[i].described =>
                    p.predicate = [region |-> <<key, i>>, generation |-> read.rowsOf]
              /\ ~read.rows[i].described =>
                    p.predicate = [region |-> <<key, read.rows[i].ordinal>>,
                                   generation |-> read.ddl.generation]
      BY <2>1, PartitionsOfRows
    <3>2. read.rows[i].ordinal = i
      BY <2>5, OwnPosition
    <3> QED
      BY <2>4, <3>1, <3>2
  <2>7. ASSUME NEW p \in t.partitions, NEW q \in t.partitions, p.name = q.name
        PROVE  p = q
    BY <2>1, <2>5, <2>7, PartitionsApart
  <2> QED
    BY <2>6, <2>7 DEF key, read
<1> QED
  BY <1>1, DiscoveryInvariance, PTL

\* No table is lost or in two places, and tables of one physical table share its
\* fate.
THEOREM TablesAccounted == DiscoverySpec => []EveryTableAccounted
<1>1. ASSUME DiscoveryInv, discPc = "planned"
      PROVE  /\ skipped \subseteq selected
             /\ \A e \in selected : e \in skipped <=> PlansOf(e) = {}
             /\ \A e \in selected : \A p, q \in PlansOf(e) : p.region = q.region => p = q
             /\ \A e, f \in selected \ ownCause :
                   PhysicalOf(e) = PhysicalOf(f) => PlansOf(e) = PlansOf(f)
  <2>1. /\ selected = skipped \cup Discovered
        /\ skipped \cap Discovered = {}
        /\ \A s, t \in tables : s.db = t.db /\ s.table = t.table => s = t
    BY <1>1 DEF DiscoveryInv, AccountInv, InHand, Handling, Reading
  <2>2. plans = UNION {{[db |-> t.db, table |-> t.table, partition |-> p] : p \in t.partitions} :
                       t \in tables}
    BY <1>1 DEF DiscoveryInv, PlansInv
  <2>3. \A q \in plans : <<q.db, q.table>> \in Discovered
    BY <2>2 DEF Discovered
  <2>4. ASSUME NEW e \in skipped
        PROVE  PlansOf(e) = {}
    BY <2>1, <2>3 DEF PlansOf
  <2>5. ASSUME NEW t \in tables
        PROVE  PlansOf(<<t.db, t.table>>) = t.partitions
    <3> DEFINE plan(p) == [db |-> t.db, table |-> t.table, partition |-> p]
    <3>3. \A p : plan(p).db = t.db /\ plan(p).table = t.table /\ plan(p).partition = p
      OBVIOUS
    <3>1. \A p \in t.partitions : plan(p) \in plans
      BY <2>2
    <3>2. \A q \in plans : q.db = t.db /\ q.table = t.table => q.partition \in t.partitions
      BY <2>1, <2>2
    <3> HIDE DEF plan
    <3> QED
      BY <3>1, <3>2, <3>3 DEF PlansOf
  <2>6. ASSUME NEW e \in Discovered
        PROVE  LET key == PhysicalOf(e)
               IN  /\ Fit(key, cache[key])
                   /\ PlansOf(e) = Made(key, cache[key])
    <3>1. PICK t \in tables : e = <<t.db, t.table>>
      BY DEF Discovered
    <3> QED
      BY <1>1, <2>5, <3>1 DEF DiscoveryInv, SettledInv
  <2>7. ASSUME NEW e \in Discovered
        PROVE  /\ PlansOf(e) # {}
               /\ \A p, q \in PlansOf(e) : p.region = q.region => p = q
    <3> DEFINE key == PhysicalOf(e)
               read == cache[key]
    <3>1. Fit(key, read) /\ PlansOf(e) = Made(key, read)
      BY <2>6
    <3> HIDE DEF key, read
    <3>2. Made(key, read) # {}
      BY <3>1 DEF Fit, Made
    <3>3. ASSUME NEW p \in Made(key, read), NEW q \in Made(key, read), p.region = q.region
          PROVE  p = q
      BY <3>3, PartitionsApart
    <3> QED
      BY <3>1, <3>2, <3>3
  <2>8. ASSUME NEW e \in selected \ ownCause, NEW f \in selected \ ownCause,
               PhysicalOf(e) = PhysicalOf(f)
        PROVE  PlansOf(e) = PlansOf(f)
    <3>1. \A x \in skipped \ ownCause : ~Fit(PhysicalOf(x), cache[PhysicalOf(x)])
      BY <1>1 DEF DiscoveryInv, SettledInv
    <3> QED
      BY <2>1, <2>4, <2>6, <2>8, <3>1
  <2> QED
    BY <2>1, <2>4, <2>7, <2>8
<1>2. DiscoveryInv => EveryTableAccounted
  BY <1>1 DEF EveryTableAccounted
<1> QED
  BY <1>2, DiscoveryInvariance, PTL

-----------------------------------------------------------------------------
(* The plans.                                                               *)

USE DEF config

\* The ranges, and the end of the hot plans' periods, which leaves room for the
\* cold ones' whenever there is any.
ConfigInv ==
    /\ hotCount \in 1..NumPlans
    /\ periodMax \in Nat /\ timeRangeMax \in Nat /\ hotPeriodMax \in Nat
    /\ PeriodMin <= periodMax
    /\ TimeRangeMin <= timeRangeMax
    /\ PeriodMin <= hotPeriodMax
    /\ IF PeriodMin < periodMax THEN hotPeriodMax < periodMax ELSE hotPeriodMax = periodMax

\* As many plans are hot as there should be, once the others have been asked for the
\* rest; a plan that has been assigned has a period and a window of its own kind.
PlanInv ==
    /\ ConfigInv
    /\ planPc \in {"datanode", "others", "assign", "done"}
    /\ hot \subseteq Plans
    /\ Cardinality(hot) <= hotCount
    /\ planPc \in {"assign", "done"} => Cardinality(hot) = hotCount
    /\ period \in Seq(Int)
    /\ timeRange \in Seq(Int)
    /\ Len(timeRange) = Len(period)
    /\ nextPlan = Len(period) + 1
    /\ nextPlan <= NumPlans + 1
    /\ planPc \in {"datanode", "others"} => nextPlan = 1
    /\ \A p \in 1..Len(period) : period[p] \in Period(p) /\ timeRange[p] \in TimeRange(p)

\* Two numbers have a greater and a lesser one.
LEMMA MaxOfTwo ==
    ASSUME NEW a \in Int, NEW b \in Int
    PROVE  /\ Max({a, b}) \in {a, b} /\ Max({a, b}) >= a /\ Max({a, b}) >= b
           /\ Min({a, b}) \in {a, b} /\ Min({a, b}) <= a /\ Min({a, b}) <= b
<1>1. \E x \in {a, b} : \A y \in {a, b} : x >= y
  OBVIOUS
<1>2. \E x \in {a, b} : \A y \in {a, b} : x <= y
  OBVIOUS
<1> QED
  BY <1>1, <1>2 DEF Max, Min

\* Where the hot plans' periods end.
LEMMA HotPeriodEnds ==
    ASSUME NEW max \in Nat, max >= PeriodMin, NEW share \in 1..10,
           NEW end \in HotPeriodMaxs(max, share)
    PROVE  /\ end \in Nat
           /\ PeriodMin <= end
           /\ IF PeriodMin < max THEN end < max ELSE end = max
<1> DEFINE cold == 10 - Max({share, 5})
           tenths == (max - PeriodMin) * cold
<1>0. PeriodMin \in Nat \ {0}
  BY ConfigAssumption
<1>1. cold \in 0..5
  BY MaxOfTwo
<1>2. \/ end = PeriodMin + (tenths \div 10)
      \/ tenths % 10 = 0 /\ tenths > 0 /\ end = PeriodMin + (tenths \div 10) - 1
  BY DEF HotPeriodMaxs
<1>3. tenths \in Nat /\ 2 * tenths <= 10 * (max - PeriodMin)
  <2>1. \/ cold = 0 \/ cold = 1 \/ cold = 2 \/ cold = 3 \/ cold = 4 \/ cold = 5
    BY <1>1
  <2> HIDE DEF cold
  <2> QED
    BY <1>0, <2>1
<1> HIDE DEF tenths
<1> QED
  BY <1>0, <1>2, <1>3

\* The configuration leaves the ranges the plans' draws are made from.
LEMMA PlansStart == PlanInit => PlanInv
<1> SUFFICES ASSUME PlanInit PROVE PlanInv
  OBVIOUS
<1>1. hotCount \in 1..NumPlans
  <2>1. PICK n \in HotPartitions : hotCount = Min({n, NumPlans})
    BY DEF PlanInit
  <2>2. n \in Nat \ {0} /\ NumPlans \in Nat \ {0}
    BY ConfigAssumption
  <2> QED
    BY <2>1, <2>2, MaxOfTwo
<1>2. ConfigInv
  BY <1>1, ConfigAssumption, HotPeriodEnds DEF PlanInit, ConfigInv
<1>3. hot = {} /\ Cardinality(hot) = 0
  BY FS_EmptySet DEF PlanInit, PlanStart
<1> QED
  BY <1>1, <1>2, <1>3, ConfigAssumption DEF PlanInit, PlanStart, PlanInv

\* The plans, and the subsets of them, are finite.
LEMMA PlansFinite ==
    /\ Cardinality(Plans) = NumPlans
    /\ \A s \in SUBSET Plans : IsFiniteSet(s) /\ Cardinality(s) \in Nat
    /\ \A s \in SUBSET Plans : Cardinality(s) = NumPlans => s = Plans
<1>1. IsFiniteSet(Plans) /\ Cardinality(Plans) = NumPlans
  BY FS_Interval, ConfigAssumption DEF Plans
<1>2. \A s \in SUBSET Plans : IsFiniteSet(s) /\ (Cardinality(s) = Cardinality(Plans) => s = Plans)
  BY <1>1, FS_Subset
<1> QED
  BY <1>1, <1>2, FS_CardinalityType

\* A draw between two numbers, the lesser first, is one of those from one to the other.
LEMMA Draws ==
    ASSUME NEW min \in Int, NEW max \in Int, min <= max
    PROVE  RandomDuration(min, max) = min..max
BY DEF RandomDuration

\* What a plan's period and window are drawn from.
LEMMA DrawRanges ==
    ASSUME ConfigInv, NEW p
    PROVE  /\ Period(p) = (IF Skewed /\ p \notin hot THEN ColdPeriodMin ELSE PeriodMin)
                          ..(IF Skewed /\ p \in hot THEN hotPeriodMax ELSE periodMax)
           /\ TimeRange(p) = IF p \in hot THEN HotWindowMin..timeRangeMax ELSE TimeRangeMin..WindowSplit
           /\ ColdPeriodMin \in Int /\ PeriodMin <= ColdPeriodMin /\ ColdPeriodMin <= periodMax
           /\ hotPeriodMax <= ColdPeriodMin
           /\ PeriodMin < periodMax => hotPeriodMax < ColdPeriodMin
           /\ HotWindowMin \in Int /\ WindowSplit \in Int
           /\ TimeRangeMin <= WindowSplit /\ WindowSplit <= HotWindowMin
           /\ HotWindowMin <= timeRangeMax
           /\ TimeRangeMin < timeRangeMax => WindowSplit < HotWindowMin
<1>0. PeriodMin \in Int /\ TimeRangeMin \in Int
  BY ConfigAssumption
<1>1. /\ ColdPeriodMin \in Int /\ PeriodMin <= ColdPeriodMin /\ ColdPeriodMin <= periodMax
      /\ hotPeriodMax <= ColdPeriodMin
      /\ PeriodMin < periodMax => hotPeriodMax < ColdPeriodMin
  BY <1>0 DEF ConfigInv, ColdPeriodMin
<1>2. /\ WindowSplit \in Int /\ TimeRangeMin <= WindowSplit /\ WindowSplit <= timeRangeMax
      /\ TimeRangeMin < timeRangeMax => WindowSplit < timeRangeMax
  BY <1>0 DEF ConfigInv, WindowSplit
<1>3. /\ HotWindowMin \in Int /\ WindowSplit <= HotWindowMin /\ HotWindowMin <= timeRangeMax
      /\ TimeRangeMin < timeRangeMax => WindowSplit < HotWindowMin
  BY <1>2 DEF ConfigInv, HotWindowMin
<1>4. periodMax \in Int /\ hotPeriodMax \in Int /\ timeRangeMax \in Int
      /\ PeriodMin <= periodMax /\ PeriodMin <= hotPeriodMax
  BY DEF ConfigInv
<1>5. Period(p) = (IF Skewed /\ p \notin hot THEN ColdPeriodMin ELSE PeriodMin)
                  ..(IF Skewed /\ p \in hot THEN hotPeriodMax ELSE periodMax)
  BY <1>0, <1>1, <1>4, Draws DEF Period
<1>6. TimeRange(p) = IF p \in hot THEN HotWindowMin..timeRangeMax ELSE TimeRangeMin..WindowSplit
  BY <1>0, <1>2, <1>3, <1>4, Draws DEF TimeRange
<1> QED
  BY <1>1, <1>2, <1>3, <1>5, <1>6

\* Periods and windows are drawn from integers.
LEMMA DrawTypes ==
    ASSUME ConfigInv
    PROVE  \A p : Period(p) \subseteq Int /\ TimeRange(p) \subseteq Int
<1> SUFFICES ASSUME NEW p
             PROVE  Period(p) \subseteq Int /\ TimeRange(p) \subseteq Int
  OBVIOUS
<1>1. \E i, j \in Int : Period(p) = i..j
  BY DrawRanges, ConfigAssumption DEF ConfigInv
<1>2. \E i, j \in Int : TimeRange(p) = i..j
  BY DrawRanges, ConfigAssumption DEF ConfigInv
<1> QED
  BY <1>1, <1>2

\* Each plan's draw is one of its kind's.
LEMMA PlanStep ==
    ASSUME PlanInv, [PlanNext]_planVars
    PROVE  PlanInv'
<1> USE DEF PlanInv
<1>1. CASE HotOfDatanode
  <2>1. PICK group \in LargestGroups : hot' \in kSubset(Min({hotCount, Cardinality(group)}), group)
    BY <1>1 DEF HotOfDatanode
  <2>2. group \subseteq Plans
    BY DEF LargestGroups, Group
  <2>3. hot' \subseteq Plans /\ Cardinality(hot') = Min({hotCount, Cardinality(group)})
    BY <2>1, <2>2 DEF kSubset
  <2>4. Cardinality(hot') <= hotCount
    <3>1. Cardinality(group) \in Int /\ hotCount \in Int
      BY <2>2, PlansFinite DEF ConfigInv
    <3> QED
      BY <2>3, <3>1, MaxOfTwo
  <2> QED
    BY <1>1, <2>3, <2>4 DEF HotOfDatanode, ConfigInv
<1>2. CASE HotOfOthers
  <2>1. PICK more \in kSubset(hotCount - Cardinality(hot), Plans \ hot) : hot' = hot \cup more
    BY <1>2 DEF HotOfOthers
  <2>2. more \subseteq Plans \ hot /\ Cardinality(more) = hotCount - Cardinality(hot)
    BY <2>1 DEF kSubset
  <2>3. Cardinality(hot') = Cardinality(hot) + Cardinality(more)
    <3>1. IsFiniteSet(hot) /\ IsFiniteSet(more) /\ hot \cap more = {}
          /\ Cardinality(hot) \in Nat /\ Cardinality(more) \in Nat
      BY <2>2, PlansFinite
    <3>2. Cardinality(hot') = Cardinality(hot) + Cardinality(more) - Cardinality(hot \cap more)
      BY <2>1, <3>1, FS_Union, Zenon
    <3>3. Cardinality(hot \cap more) = 0
      BY <3>1, FS_EmptySet
    <3> QED
      BY <3>1, <3>2, <3>3
  <2>4. Cardinality(hot') = hotCount /\ hot' \subseteq Plans
    BY <2>1, <2>2, <2>3, PlansFinite DEF ConfigInv
  <2> QED
    BY <1>2, <2>4 DEF HotOfOthers, ConfigInv
<1>3. CASE Assign
  <2>1. PICK d \in Period(nextPlan) : period' = Append(period, d)
    BY <1>3 DEF Assign
  <2>2. PICK e \in TimeRange(nextPlan) : timeRange' = Append(timeRange, e)
    BY <1>3 DEF Assign
  <2>3. \A p : Period(p)' = Period(p) /\ TimeRange(p)' = TimeRange(p)
    BY <1>3 DEF Assign, Period, TimeRange, Skewed, ColdPeriodMin, HotWindowMin, WindowSplit
  <2>4. d \in Int /\ e \in Int
    BY DrawTypes
  <2>5. /\ period' \in Seq(Int) /\ Len(period') = Len(period) + 1
        /\ timeRange' \in Seq(Int) /\ Len(timeRange') = Len(timeRange) + 1
        /\ Len(period) \in Nat
    BY <2>1, <2>2, <2>4
  <2>6. \A p \in 1..Len(period') : period'[p] \in Period(p)' /\ timeRange'[p] \in TimeRange(p)'
    <3> SUFFICES ASSUME NEW p \in 1..Len(period')
                 PROVE  period'[p] \in Period(p) /\ timeRange'[p] \in TimeRange(p)
      BY <2>3
    <3>1. CASE p = nextPlan
      BY <2>1, <2>2, <2>4, <2>5, <3>1
    <3>2. CASE p # nextPlan
      <4>1. p \in 1..Len(period) /\ period'[p] = period[p] /\ timeRange'[p] = timeRange[p]
        BY <2>1, <2>2, <2>4, <2>5, <3>2
      <4> QED
        BY <4>1
    <3> QED
      BY <3>1, <3>2
  <2>7. ConfigInv'
    BY <1>3 DEF Assign, ConfigInv
  <2>8. nextPlan' = nextPlan + 1 /\ nextPlan <= NumPlans /\ nextPlan' \in Nat /\ NumPlans \in Nat
    BY <1>3, <2>5, ConfigAssumption DEF Assign, Plans
  <2> QED
    BY <1>3, <2>5, <2>6, <2>7, <2>8 DEF Assign
<1>4. CASE UNCHANGED planVars
  BY <1>4 DEF planVars, ConfigInv, Period, TimeRange, Skewed, ColdPeriodMin, HotWindowMin, WindowSplit
<1> QED
  BY <1>1, <1>2, <1>3, <1>4 DEF PlanNext

\* Before, while and after the leaders' partitions are made hot.
THEOREM PlanInvariance == PlanSpec => []PlanInv
BY PlansStart, PlanStep, PTL DEF PlanSpec

\* Whatever the plans' leaders, the flags and the random source are: the hot plans
\* are asked more often and for longer, within the ranges.
THEOREM HotPlansAreHotter == PlanSpec => []HotterInBoth
<1>1. ASSUME PlanInv PROVE HotterInBoth
  <2>0. /\ ConfigInv /\ PeriodMin \in Int /\ TimeRangeMin \in Int /\ NumPlans \in Nat
        /\ periodMax \in Int /\ hotPeriodMax \in Int /\ timeRangeMax \in Int
        /\ hotPeriodMax <= periodMax
    BY <1>1, ConfigAssumption DEF PlanInv, ConfigInv
  <2>1. ASSUME NEW p \in 1..Len(period)
        PROVE  /\ period[p] \in Period(p) /\ timeRange[p] \in TimeRange(p)
               /\ period[p] \in PeriodMin..periodMax
               /\ timeRange[p] \in TimeRangeMin..timeRangeMax
    <3>1. period[p] \in Period(p) /\ timeRange[p] \in TimeRange(p)
      BY <1>1 DEF PlanInv
    <3>2. Period(p) \subseteq PeriodMin..periodMax
      BY <2>0, DrawRanges
    <3>3. TimeRange(p) \subseteq TimeRangeMin..timeRangeMax
      BY <2>0, DrawRanges
    <3> QED
      BY <3>1, <3>2, <3>3
  <2>2. ASSUME NEW h \in Hot, NEW c \in Cold
        PROVE  /\ period[h] <= period[c]
               /\ PeriodMin < periodMax => period[h] < period[c]
               /\ timeRange[h] >= timeRange[c]
               /\ TimeRangeMin < timeRangeMax => timeRange[h] > timeRange[c]
    <3>1. h \in hot /\ c \notin hot /\ h \in 1..Len(period) /\ c \in 1..Len(period)
      BY DEF Hot, Cold
    <3>2. Skewed
      <4>1. Len(period) \in Nat /\ Len(period) <= NumPlans /\ Len(period) # 0 /\ nextPlan # 1
        BY <1>1, <2>0, <3>1 DEF PlanInv
      <4>2. Cardinality(hot) = hotCount /\ hot \subseteq Plans
        BY <1>1, <4>1 DEF PlanInv
      <4>3. c \in Plans /\ hot # Plans
        BY <2>0, <3>1, <4>1 DEF Plans
      <4>4. hotCount # NumPlans
        BY <4>2, <4>3, PlansFinite
      <4>5. hotCount \in 1..NumPlans
        BY <1>1 DEF PlanInv, ConfigInv
      <4> QED
        BY <2>0, <4>4, <4>5 DEF Skewed
    <3>3. period[h] \in PeriodMin..hotPeriodMax /\ period[c] \in ColdPeriodMin..periodMax
      BY <2>0, <2>1, <3>1, <3>2, DrawRanges
    <3>4. timeRange[h] \in HotWindowMin..timeRangeMax /\ timeRange[c] \in TimeRangeMin..WindowSplit
      BY <2>0, <2>1, <3>1, DrawRanges
    <3>5. period[h] <= period[c] /\ (PeriodMin < periodMax => period[h] < period[c])
      BY <2>0, <3>3, DrawRanges
    <3>6. timeRange[h] >= timeRange[c] /\ (TimeRangeMin < timeRangeMax => timeRange[h] > timeRange[c])
      BY <2>0, <3>4, DrawRanges
    <3> QED
      BY <3>5, <3>6
  <2> QED
    BY <2>1, <2>2 DEF HotterInBoth
<1> QED
  BY <1>1, PlanInvariance, PTL

-----------------------------------------------------------------------------
(* The texts of partitions: counting.                                       *)

\* One place more.
LEMMA CountStep ==
    ASSUME NEW A, NEW i \in Nat
    PROVE  /\ Cardinality(A \cap (1..0)) = 0
           /\ Cardinality(A \cap (1..i)) \in Nat
           /\ Cardinality(A \cap (1..(i + 1))) = Cardinality(A \cap (1..i)) + (IF i + 1 \in A THEN 1 ELSE 0)
<1> DEFINE B == A \cap (1..i)
           C == A \cap (1..(i + 1))
<1>1. IsFiniteSet(B) /\ Cardinality(B) \in Nat
  <2>1. IsFiniteSet(1..i) /\ B \subseteq 1..i
    BY FS_Interval
  <2> HIDE DEF B
  <2> QED
    BY <2>1, FS_Subset, FS_CardinalityType
<1>2. Cardinality(A \cap (1..0)) = 0
  <2>1. A \cap (1..0) = {}
    OBVIOUS
  <2> QED
    BY <2>1, FS_EmptySet
<1>3. CASE i + 1 \in A
  <2>1. C = B \cup {i + 1} /\ i + 1 \notin B
    BY <1>3
  <2>2. Cardinality(B \cup {i + 1}) = Cardinality(B) + 1
    BY <1>1, <2>1, FS_AddElement
  <2> QED
    BY <1>1, <1>2, <1>3, <2>1, <2>2
<1>4. CASE i + 1 \notin A
  <2>1. C = B
    BY <1>4
  <2> QED
    BY <1>1, <1>2, <1>4, <2>1
<1> QED
  BY <1>3, <1>4

\* Quotes are counted one token at a time.
LEMMA QuotesStep ==
    ASSUME NEW t, NEW i \in Nat
    PROVE  /\ Quotes(t, 0) = 0 /\ Quotes(t, i) \in Nat
           /\ Quotes(t, i + 1) = Quotes(t, i) + (IF t[i + 1] = "'" THEN 1 ELSE 0)
<1> DEFINE A == {j \in 1..(i + 1) : t[j] = "'"}
<1>1. /\ {j \in 1..i : t[j] = "'"} = A \cap (1..i)
      /\ {j \in 1..(i + 1) : t[j] = "'"} = A \cap (1..(i + 1))
      /\ {j \in 1..0 : t[j] = "'"} = A \cap (1..0)
      /\ i + 1 \in A <=> t[i + 1] = "'"
  OBVIOUS
<1> HIDE DEF A
<1>2. /\ Cardinality(A \cap (1..0)) = 0
      /\ Cardinality(A \cap (1..i)) \in Nat
      /\ Cardinality(A \cap (1..(i + 1))) = Cardinality(A \cap (1..i)) + (IF i + 1 \in A THEN 1 ELSE 0)
  BY CountStep
<1> QED
  BY <1>1, <1>2 DEF Quotes

\* The parentheses open after token i.
Level(t, i) == Depth(t)[i]

Outer(t, i, token) == i \in Outside(t) /\ t[i] = token

\* So are the open parentheses.
LEMMA LevelStep ==
    ASSUME NEW S, NEW t \in Seq(S), NEW i \in 0..Len(t)
    PROVE  /\ Level(t, 0) = 0 /\ Level(t, i) \in Int
           /\ i < Len(t) => Level(t, i + 1) = Level(t, i) + (IF Outer(t, i + 1, "(") THEN 1 ELSE 0)
                                                         - (IF Outer(t, i + 1, ")") THEN 1 ELSE 0)
<1> DEFINE A == {j \in Outside(t) : t[j] = "("}
           B == {j \in Outside(t) : t[j] = ")"}
<1>1. \A j \in 0..Len(t) : Level(t, j) = Cardinality(A \cap (1..j)) - Cardinality(B \cap (1..j))
  BY DEF Level, Depth
<1>2. i \in Nat /\ 0 \in 0..Len(t) /\ (i < Len(t) => i + 1 \in 0..Len(t))
  OBVIOUS
<1>3. /\ i + 1 \in A <=> Outer(t, i + 1, "(")
      /\ i + 1 \in B <=> Outer(t, i + 1, ")")
  BY DEF Outer
<1> HIDE DEF A, B
<1>4. /\ Cardinality(A \cap (1..0)) = 0
      /\ Cardinality(A \cap (1..i)) \in Nat
      /\ Cardinality(A \cap (1..(i + 1))) = Cardinality(A \cap (1..i)) + (IF i + 1 \in A THEN 1 ELSE 0)
  BY <1>2, CountStep
<1>5. /\ Cardinality(B \cap (1..0)) = 0
      /\ Cardinality(B \cap (1..i)) \in Nat
      /\ Cardinality(B \cap (1..(i + 1))) = Cardinality(B \cap (1..i)) + (IF i + 1 \in B THEN 1 ELSE 0)
  BY <1>2, CountStep
<1>6. /\ Level(t, 0) = Cardinality(A \cap (1..0)) - Cardinality(B \cap (1..0))
      /\ Level(t, i) = Cardinality(A \cap (1..i)) - Cardinality(B \cap (1..i))
      /\ i < Len(t) => Level(t, i + 1) = Cardinality(A \cap (1..(i + 1))) - Cardinality(B \cap (1..(i + 1)))
  BY <1>1, <1>2
<1> QED
  BY <1>3, <1>4, <1>5, <1>6

\* Counts are added up in any order.
LEMMA SumOfThree ==
    ASSUME NEW a \in Nat, NEW b \in Nat, NEW c \in Nat
    PROVE  (a + b) + c = a + (b + c) /\ b + c \in Nat
OBVIOUS

\* An even number of quotes before does not change what is even.
LEMMA EvenSum == ASSUME NEW a \in Nat, NEW b \in Nat, a % 2 = 0 PROVE (a + b) % 2 = 0 <=> b % 2 = 0
OBVIOUS

\* x is what follows the first a tokens of w, for the scanners too.
SameToken(w, j, x, i) == w[j] = x[i] /\ \A token : Outer(x, i, token) <=> Outer(w, j, token)
IsPart(w, a, x) == \A i \in 0..Len(x) : /\ Quotes(w, a + i) = Quotes(w, a) + Quotes(x, i)
                                        /\ Level(w, a + i) = Level(w, a) + Level(x, i)
                                        /\ i # 0 => SameToken(w, a + i, x, i)

\* It is, if it begins outside quotes.
LEMMA PartScans ==
    ASSUME NEW S, NEW w \in Seq(S), NEW R, NEW x \in Seq(R), NEW a \in Nat,
           a + Len(x) <= Len(w), Quotes(w, a) % 2 = 0, \A j \in 1..Len(x) : x[j] = w[a + j]
    PROVE  IsPart(w, a, x)
<1> DEFINE Fine(i) == /\ Quotes(w, a + i) = Quotes(w, a) + Quotes(x, i)
                      /\ Level(w, a + i) = Level(w, a) + Level(x, i)
                      /\ i # 0 => SameToken(w, a + i, x, i)
           T == {i \in Nat : i <= Len(x) => Fine(i)}
<1>0. Len(w) \in Nat /\ Len(x) \in Nat /\ a \in 0..Len(w) /\ 0 \in 0..Len(x) /\ a + 0 = a
      /\ DOMAIN w = 1..Len(w) /\ DOMAIN x = 1..Len(x)
  OBVIOUS
<1>1. 0 \in T
  <2>1. Quotes(x, 0) = 0 /\ Quotes(w, a) \in Nat
    BY QuotesStep
  <2>2. Level(w, a) \in Int /\ Level(x, 0) = 0
    BY <1>0, LevelStep
  <2>3. Fine(0)
    BY <1>0, <2>1, <2>2
  <2> QED
    BY <2>3
<1>2. ASSUME NEW i \in Nat, i \in T PROVE i + 1 \in T
  <2> SUFFICES ASSUME i + 1 <= Len(x) PROVE Fine(i + 1)
    OBVIOUS
  <2>1. Fine(i)
    BY <1>2
  <2>2. /\ i \in 0..Len(x) /\ a + i \in 0..Len(w) /\ i < Len(x) /\ a + i < Len(w)
        /\ i + 1 \in 1..Len(x) /\ i + 1 \in DOMAIN x /\ a + (i + 1) \in DOMAIN w /\ (a + i) + 1 = a + (i + 1)
    <3>1. a \in Nat /\ i \in Nat /\ i + 1 <= Len(x) /\ a + Len(x) <= Len(w)
      OBVIOUS
    <3>2. i \in 0..Len(x) /\ i < Len(x) /\ i + 1 \in 1..Len(x) /\ (a + i) + 1 = a + (i + 1)
      BY <1>0, <3>1
    <3>3. a + i \in 0..Len(w) /\ a + i < Len(w) /\ a + (i + 1) \in 1..Len(w)
      BY <1>0, <3>1
    <3> QED
      BY <1>0, <3>2, <3>3, Zenon
  <2>3. x[i + 1] = w[a + (i + 1)]
    BY <2>2
  <2>4. Quotes(w, a + (i + 1)) = Quotes(w, a) + Quotes(x, i + 1) /\ Quotes(w, a) \in Nat /\ Quotes(x, i + 1) \in Nat
    <3>1. Quotes(x, i + 1) = Quotes(x, i) + (IF x[i + 1] = "'" THEN 1 ELSE 0) /\ Quotes(x, i) \in Nat
      BY QuotesStep
    <3>2. Quotes(w, (a + i) + 1) = Quotes(w, a + i) + (IF w[(a + i) + 1] = "'" THEN 1 ELSE 0)
      <4>1. a + i \in Nat
        OBVIOUS
      <4> QED
        BY <4>1, QuotesStep
    <3>3. Quotes(w, a + (i + 1)) = Quotes(w, a + i) + (IF w[a + (i + 1)] = "'" THEN 1 ELSE 0)
      BY <2>2, <3>2
    <3>4. Quotes(w, a) \in Nat
      BY QuotesStep
    <3>5. Quotes(w, a + i) = Quotes(w, a) + Quotes(x, i)
      BY <2>1
    <3> DEFINE more == IF x[i + 1] = "'" THEN 1 ELSE 0
    <3>6. /\ Quotes(x, i + 1) = Quotes(x, i) + more /\ Quotes(w, a + (i + 1)) = Quotes(w, a + i) + more
          /\ more \in Nat
      BY <2>3, <3>1, <3>3
    <3> HIDE DEF more, Fine, T
    <3>7. /\ (Quotes(w, a) + Quotes(x, i)) + more = Quotes(w, a) + (Quotes(x, i) + more)
          /\ Quotes(x, i) + more \in Nat
      <4>1. Quotes(w, a) \in Nat /\ Quotes(x, i) \in Nat /\ more \in Nat
        BY <3>1, <3>4, <3>6
      <4> QED
        BY <4>1, SumOfThree
    <3> QED
      BY <3>4, <3>5, <3>6, <3>7, Zenon
  <2>5. \A token : Outer(x, i + 1, token) <=> Outer(w, a + (i + 1), token)
    <3>1. Quotes(x, i + 1) % 2 = 0 <=> Quotes(w, a + (i + 1)) % 2 = 0
      <4>1. Quotes(w, a) \in Nat /\ Quotes(x, i + 1) \in Nat
        BY <2>4
      <4>2. (Quotes(w, a) + Quotes(x, i + 1)) % 2 = 0 <=> Quotes(x, i + 1) % 2 = 0
        BY <4>1, EvenSum
      <4> QED
        BY <2>4, <4>2
    <3> QED
      BY <2>2, <2>3, <3>1 DEF Outer, Outside
  <2>6. Level(w, a + (i + 1)) = Level(w, a) + Level(x, i + 1)
    <3>1. /\ Level(x, i) \in Int
          /\ Level(x, i + 1) = Level(x, i) + (IF Outer(x, i + 1, "(") THEN 1 ELSE 0)
                                          - (IF Outer(x, i + 1, ")") THEN 1 ELSE 0)
      BY <2>2, LevelStep
    <3>2. /\ Level(w, a) \in Int
          /\ Level(w, (a + i) + 1) = Level(w, a + i) + (IF Outer(w, (a + i) + 1, "(") THEN 1 ELSE 0)
                                                  - (IF Outer(w, (a + i) + 1, ")") THEN 1 ELSE 0)
      BY <1>0, <2>2, LevelStep
    <3>3. Level(w, a + (i + 1)) = Level(w, a + i) + (IF Outer(w, a + (i + 1), "(") THEN 1 ELSE 0)
                                                  - (IF Outer(w, a + (i + 1), ")") THEN 1 ELSE 0)
      BY <2>2, <3>2
    <3>4. Level(w, a + (i + 1)) = (Level(w, a) + Level(x, i)) + (IF Outer(x, i + 1, "(") THEN 1 ELSE 0)
                                                  - (IF Outer(x, i + 1, ")") THEN 1 ELSE 0)
      BY <2>1, <2>5, <3>3
    <3> QED
      BY <3>1, <3>2, <3>4
  <2> QED
    BY <2>2, <2>3, <2>4, <2>5, <2>6 DEF SameToken
<1> HIDE DEF T
<1>3. Nat \subseteq T
  BY <1>1, <1>2, NumbersInduction
<1> QED
  BY <1>3 DEF T, IsPart

\* At the beginning.
LEMMA PrefixScans ==
    ASSUME NEW S, NEW w \in Seq(S), NEW R, NEW x \in Seq(R), IsPart(w, 0, x)
    PROVE  \A i \in 0..Len(x) : /\ Quotes(w, i) = Quotes(x, i) /\ Level(w, i) = Level(x, i)
                                /\ i # 0 => SameToken(w, i, x, i)
<1> SUFFICES ASSUME NEW i \in 0..Len(x)
             PROVE  /\ Quotes(w, i) = Quotes(x, i) /\ Level(w, i) = Level(x, i)
                    /\ i # 0 => SameToken(w, i, x, i)
  OBVIOUS
<1>1. 0 + i = i /\ i \in Nat /\ 0 \in 0..Len(w)
  OBVIOUS
<1>2. /\ Quotes(w, 0 + i) = Quotes(w, 0) + Quotes(x, i)
      /\ Level(w, 0 + i) = Level(w, 0) + Level(x, i)
      /\ i # 0 => SameToken(w, 0 + i, x, i)
  BY DEF IsPart
<1>3. Quotes(w, 0) = 0 /\ Quotes(x, i) \in Nat
  BY <1>1, QuotesStep
<1>4. Level(w, 0) = 0 /\ Level(x, i) \in Int
  BY <1>1, LevelStep
<1> QED
  BY <1>1, <1>2, <1>3, <1>4

\* One text after another.
LEMMA ConcatTypes ==
    ASSUME NEW S, NEW s \in Seq(S), NEW R, NEW t \in Seq(R)
    PROVE  /\ s \o t \in Seq(S \cup R) /\ Len(s \o t) = Len(s) + Len(t) /\ Len(s) \in Nat /\ Len(t) \in Nat
           /\ \A i \in 1..Len(s) : (s \o t)[i] = s[i]
           /\ \A i \in 1..Len(t) : (s \o t)[Len(s) + i] = t[i]
<1>1. s \in Seq(S \cup R) /\ t \in Seq(S \cup R)
  OBVIOUS
<1> QED
  BY <1>1

\* In two texts put together the first is scanned as alone, and if it ends outside
\* quotes so is the second.
LEMMA ConcatScans ==
    ASSUME NEW S, NEW s \in Seq(S), NEW R, NEW t \in Seq(R)
    PROVE  /\ IsPart(s \o t, 0, s)
           /\ Terminated(s) => IsPart(s \o t, Len(s), t) /\ (Terminated(s \o t) <=> Terminated(t))
<1> DEFINE w == s \o t
<1>1. /\ w \in Seq(S \cup R) /\ Len(w) = Len(s) + Len(t) /\ Len(s) \in Nat /\ Len(t) \in Nat
      /\ \A i \in 1..Len(s) : w[i] = s[i]
      /\ \A i \in 1..Len(t) : w[Len(s) + i] = t[i]
  BY ConcatTypes
<1> HIDE DEF w
<1>2. IsPart(w, 0, s)
  <2>1. Quotes(w, 0) = 0
    BY QuotesStep
  <2>2. Quotes(w, 0) % 2 = 0 /\ 0 + Len(s) <= Len(w) /\ \A j \in 1..Len(s) : s[j] = w[0 + j]
    BY <1>1, <2>1
  <2> QED
    BY <1>1, <2>2, PartScans
<1>3. ASSUME Terminated(s) PROVE IsPart(w, Len(s), t) /\ (Terminated(w) <=> Terminated(t))
  <2>1. Quotes(w, Len(s)) = Quotes(s, Len(s)) /\ Quotes(s, Len(s)) % 2 = 0
    BY <1>1, <1>2, <1>3, PrefixScans DEF Terminated
  <2>2. Quotes(w, Len(s)) % 2 = 0 /\ Len(s) + Len(t) <= Len(w) /\ \A j \in 1..Len(t) : t[j] = w[Len(s) + j]
    BY <1>1, <2>1
  <2>3. IsPart(w, Len(s), t)
    BY <1>1, <2>2, PartScans
  <2>4. Quotes(w, Len(s) + Len(t)) = Quotes(w, Len(s)) + Quotes(t, Len(t))
    BY <1>1, <2>3 DEF IsPart
  <2>5. Quotes(w, Len(s)) \in Nat /\ Quotes(t, Len(t)) \in Nat
    BY <1>1, QuotesStep
  <2>6. (Quotes(w, Len(s)) + Quotes(t, Len(t))) % 2 = 0 <=> Quotes(t, Len(t)) % 2 = 0
    BY <2>2, <2>5, EvenSum
  <2>7. Terminated(w) <=> Terminated(t)
    BY <1>1, <2>4, <2>6 DEF Terminated
  <2> QED
    BY <2>3, <2>7
<1> QED
  BY <1>2, <1>3 DEF w

\* One token.
LEMMA WordScans ==
    ASSUME NEW x, x # "'"
    PROVE  /\ <<x>> \in Seq({x}) /\ Len(<<x>>) = 1 /\ <<x>>[1] = x
           /\ Quotes(<<x>>, 1) = 0 /\ Terminated(<<x>>) /\ Level(<<x>>, 0) = 0
           /\ \A token : Outer(<<x>>, 1, token) <=> token = x
           /\ Level(<<x>>, 1) = IF x = "(" THEN 1 ELSE IF x = ")" THEN -1 ELSE 0
<1>1. <<x>> \in Seq({x}) /\ Len(<<x>>) = 1 /\ <<x>>[1] = x /\ DOMAIN <<x>> = {1} /\ 0 \in 0..Len(<<x>>)
  OBVIOUS
<1>2. Quotes(<<x>>, 0) = 0 /\ Quotes(<<x>>, 0 + 1) = Quotes(<<x>>, 0) + (IF <<x>>[0 + 1] = "'" THEN 1 ELSE 0)
  BY QuotesStep
<1>3. Quotes(<<x>>, 1) = 0
  BY <1>1, <1>2
<1>4. Terminated(<<x>>) /\ \A token : Outer(<<x>>, 1, token) <=> token = x
  <2>1. 0 % 2 = 0
    OBVIOUS
  <2> QED
    BY <1>1, <1>3, <2>1 DEF Terminated, Outer, Outside
<1>5. /\ Level(<<x>>, 0) = 0
      /\ Level(<<x>>, 0 + 1) = Level(<<x>>, 0) + (IF Outer(<<x>>, 0 + 1, "(") THEN 1 ELSE 0)
                                               - (IF Outer(<<x>>, 0 + 1, ")") THEN 1 ELSE 0)
  <2>1. 0 < Len(<<x>>)
    BY <1>1
  <2> QED
    BY <1>1, <2>1, LevelStep
<1>6. Level(<<x>>, 1) = IF x = "(" THEN 1 ELSE IF x = ")" THEN -1 ELSE 0
  BY <1>4, <1>5
<1> QED
  BY <1>1, <1>3, <1>4, <1>5, <1>6

\* Every string ends and every parenthesis closes after it opens.
Balanced(t) == Terminated(t) /\ Level(t, Len(t)) = 0 /\ \A i \in 0..Len(t) : Level(t, i) >= 0

\* Two balanced texts together are balanced.
LEMMA ConcatBalanced ==
    ASSUME NEW S, NEW s \in Seq(S), NEW R, NEW t \in Seq(R), Balanced(s), Balanced(t)
    PROVE  Balanced(s \o t)
<1> DEFINE w == s \o t
<1>1. w \in Seq(S \cup R) /\ Len(w) = Len(s) + Len(t) /\ Len(s) \in Nat /\ Len(t) \in Nat
  BY ConcatTypes
<1>2. IsPart(w, 0, s) /\ IsPart(w, Len(s), t) /\ Terminated(w)
  BY ConcatScans DEF Balanced
<1> HIDE DEF w
<1>3. \A i \in 0..Len(s) : Level(w, i) = Level(s, i)
  BY <1>1, <1>2, PrefixScans
<1>4. \A i \in 0..Len(t) : Level(w, Len(s) + i) = Level(t, i)
  <2> TAKE i \in 0..Len(t)
  <2>1. Level(w, Len(s) + i) = Level(w, Len(s)) + Level(t, i) /\ Level(t, i) \in Int
    BY <1>2, LevelStep DEF IsPart
  <2>2. Level(w, Len(s)) = 0
    BY <1>1, <1>3 DEF Balanced
  <2> QED
    BY <2>1, <2>2
<1>5. ASSUME NEW i \in 0..Len(w) PROVE Level(w, i) >= 0
  <2>1. CASE i <= Len(s)
    <3>1. i \in 0..Len(s)
      BY <1>1, <2>1
    <3> QED
      BY <1>3, <3>1 DEF Balanced
  <2>2. CASE i > Len(s)
    <3>1. i - Len(s) \in 0..Len(t) /\ Len(s) + (i - Len(s)) = i
      BY <1>1, <2>2
    <3>2. Level(w, Len(s) + (i - Len(s))) = Level(t, i - Len(s)) /\ Level(t, i - Len(s)) >= 0
      BY <1>4, <3>1 DEF Balanced
    <3> QED
      BY <3>1, <3>2
  <2> QED
    BY <1>1, <2>1, <2>2
<1>6. Level(w, Len(w)) = 0
  BY <1>1, <1>4 DEF Balanced
<1>7. Balanced(w)
  BY <1>2, <1>5, <1>6 DEF Balanced
<1> QED
  BY <1>7 DEF w

\* Parentheses around a text.
LEMMA EnclosedScans ==
    ASSUME NEW S, NEW x \in Seq(S), Balanced(x)
    PROVE  LET w == Enclosed(x) IN
           /\ w \in Seq(S \cup {"(", ")"}) /\ Len(w) = Len(x) + 2 /\ Balanced(w)
           /\ w[1] = "(" /\ w[Len(x) + 2] = ")" /\ IsPart(w, 1, x) /\ Level(w, 1) = 1
           /\ \A token : /\ Outer(w, 1, token) <=> token = "("
                         /\ Outer(w, Len(x) + 2, token) <=> token = ")"
<1> DEFINE w == Enclosed(x)
           n == Len(x)
<1>1. /\ w \in Seq(S \cup {"(", ")"}) /\ Len(w) = n + 2 /\ n \in Nat
      /\ w[1] = "(" /\ w[n + 2] = ")" /\ \A j \in 1..n : x[j] = w[1 + j]
  <2>1. x \in Seq(S \cup {"(", ")"}) /\ <<"(">> \in Seq(S \cup {"(", ")"}) /\ <<")">> \in Seq(S \cup {"(", ")"})
    OBVIOUS
  <2> QED
    BY <2>1 DEF Enclosed
<1> HIDE DEF w
<1>2. Quotes(w, 1) = 0 /\ Level(w, 0) = 0
  <2>1. Quotes(w, 0) = 0 /\ Quotes(w, 0 + 1) = Quotes(w, 0) + (IF w[0 + 1] = "'" THEN 1 ELSE 0)
    BY QuotesStep
  <2>2. Level(w, 0) = 0
    <3>1. 0 \in 0..Len(w)
      BY <1>1
    <3> QED
      BY <1>1, <3>1, LevelStep
  <2> QED
    BY <1>1, <2>1, <2>2
<1>3. IsPart(w, 1, x)
  <2>1. Quotes(w, 1) % 2 = 0 /\ 1 + Len(x) <= Len(w)
    BY <1>1, <1>2
  <2> QED
    BY <1>1, <2>1, PartScans
<1>4. \A token : Outer(w, 1, token) <=> token = "("
  <2>1. 1 \in DOMAIN w /\ Quotes(w, 1) % 2 = 0
    BY <1>1, <1>2
  <2> QED
    BY <1>1, <2>1 DEF Outer, Outside
<1>5. Level(w, 1) = 1
  <2>1. 0 \in 0..Len(w) /\ 0 < Len(w) /\ 0 + 1 = 1
    BY <1>1
  <2>2. Level(w, 0 + 1) = Level(w, 0) + (IF Outer(w, 0 + 1, "(") THEN 1 ELSE 0) - (IF Outer(w, 0 + 1, ")") THEN 1 ELSE 0)
    BY <1>1, <2>1, LevelStep
  <2> QED
    BY <1>2, <1>4, <2>1, <2>2
<1>6. \A i \in 0..n : Level(w, 1 + i) = 1 + Level(x, i)
  BY <1>3, <1>5 DEF IsPart
<1>7. Quotes(w, 1 + n) = Quotes(x, n) /\ Quotes(x, n) \in Nat
  <2>1. Quotes(w, 1 + n) = Quotes(w, 1) + Quotes(x, n)
    BY <1>1, <1>3 DEF IsPart
  <2>2. Quotes(x, n) \in Nat
    BY <1>1, QuotesStep
  <2> QED
    BY <1>2, <2>1, <2>2
<1>8. Quotes(w, n + 2) = Quotes(x, n)
  <2>1. 1 + n \in Nat /\ (1 + n) + 1 = n + 2
    BY <1>1
  <2>2. Quotes(w, (1 + n) + 1) = Quotes(w, 1 + n) + (IF w[(1 + n) + 1] = "'" THEN 1 ELSE 0)
    BY <2>1, QuotesStep
  <2> QED
    BY <1>1, <1>7, <2>1, <2>2
<1>9. Terminated(w) /\ \A token : Outer(w, n + 2, token) <=> token = ")"
  <2>1. n + 2 \in DOMAIN w /\ Quotes(w, n + 2) % 2 = 0
    BY <1>1, <1>8 DEF Balanced, Terminated
  <2> QED
    BY <1>1, <2>1 DEF Outer, Outside, Terminated
<1>10. Level(w, n + 2) = 0
  <2>1. 1 + n \in 0..Len(w) /\ 1 + n < Len(w) /\ (1 + n) + 1 = n + 2
    BY <1>1
  <2>2. Level(w, (1 + n) + 1) = Level(w, 1 + n) + (IF Outer(w, (1 + n) + 1, "(") THEN 1 ELSE 0)
                                                - (IF Outer(w, (1 + n) + 1, ")") THEN 1 ELSE 0)
    BY <1>1, <2>1, LevelStep
  <2>3. Level(w, 1 + n) = 1
    BY <1>1, <1>6 DEF Balanced
  <2> QED
    BY <1>9, <2>1, <2>2, <2>3
<1>11. ASSUME NEW i \in 0..Len(w) PROVE Level(w, i) >= 0
  <2>1. i = 0 \/ i = n + 2 \/ (i - 1 \in 0..n /\ 1 + (i - 1) = i)
    BY <1>1
  <2>2. CASE i - 1 \in 0..n /\ 1 + (i - 1) = i
    <3>1. Level(w, 1 + (i - 1)) = 1 + Level(x, i - 1) /\ Level(x, i - 1) >= 0 /\ Level(x, i - 1) \in Int
      BY <1>6, <2>2, LevelStep DEF Balanced
    <3> QED
      BY <2>2, <3>1
  <2> QED
    BY <1>2, <1>10, <2>1, <2>2
<1>12. Balanced(w)
  BY <1>1, <1>9, <1>10, <1>11 DEF Balanced
<1> QED
  BY <1>1, <1>3, <1>4, <1>5, <1>9, <1>12 DEF w

-----------------------------------------------------------------------------
(* Parentheses around all of a text.                                        *)

\* Closing(t) is the first place at which no parenthesis is open.
LEMMA ClosingFacts ==
    ASSUME NEW S, NEW t \in Seq(S)
    PROVE  /\ Closing(t) \in 0..Len(t)
           /\ Closing(t) # 0 => /\ t[1] = "(" /\ Level(t, Closing(t)) = 0
                                /\ \A i \in 1..Closing(t) - 1 : Level(t, i) # 0
           /\ \A i \in 1..Len(t) : t[1] = "(" /\ Level(t, i) = 0 => Closing(t) \in 1..i
<1> DEFINE ends == {i \in DOMAIN t : Level(t, i) = 0}
<1>1. Closing(t) = IF t = <<>> \/ t[1] # "(" \/ ends = {} THEN 0 ELSE Min(ends)
  BY DEF Closing, Level
<1>2. ends \in SUBSET (1..Len(t)) /\ Len(t) \in Nat /\ (t = <<>> => Len(t) = 0)
  OBVIOUS
<1>3. \A i \in 1..Len(t) : Level(t, i) = 0 => i \in ends
  OBVIOUS
<1>4. \A i \in ends : Level(t, i) = 0
  OBVIOUS
<1> HIDE DEF ends
<1>5. CASE t = <<>> \/ t[1] # "(" \/ ends = {}
  BY <1>1, <1>2, <1>3, <1>5
<1>6. CASE ~(t = <<>> \/ t[1] # "(" \/ ends = {})
  <2>1. Min(ends) \in ends /\ \A i \in ends : Min(ends) <= i
    BY <1>2, <1>6, FirstPlace
  <2>2. Closing(t) = Min(ends) /\ Min(ends) \in 1..Len(t)
    BY <1>1, <1>2, <1>6, <2>1
  <2> HIDE DEF Closing
  <2>3. \A i \in 1..Closing(t) - 1 : Level(t, i) # 0
    <3> SUFFICES ASSUME NEW i \in 1..Closing(t) - 1, Level(t, i) = 0 PROVE FALSE
      OBVIOUS
    <3>1. i \in 1..Len(t) /\ i < Closing(t)
      BY <1>2, <2>2
    <3>2. Min(ends) <= i
      BY <1>3, <2>1, <3>1
    <3> QED
      BY <2>2, <3>1, <3>2
  <2>4. \A i \in 1..Len(t) : Level(t, i) = 0 => Closing(t) \in 1..i
    BY <1>3, <2>1, <2>2
  <2> QED
    BY <1>4, <1>6, <2>1, <2>2, <2>3, <2>4
<1> QED
  BY <1>5, <1>6

\* What is after i tokens.
LEMMA RestOf ==
    ASSUME NEW S, NEW t \in Seq(S), NEW a \in Nat, NEW b \in Nat, a <= b, b <= Len(t)
    PROVE  /\ SubSeq(t, a + 1, b) \in Seq(S) /\ Len(SubSeq(t, a + 1, b)) = b - a
           /\ \A i \in 1..(b - a) : SubSeq(t, a + 1, b)[i] = t[a + i]
OBVIOUS

\* The parenthesis a text begins with closes at the end of the enclosed text.
LEMMA ClosingEnclosed ==
    ASSUME NEW S, NEW x \in Seq(S), Balanced(x), NEW R, NEW w \in Seq(R),
           Len(w) >= Len(x) + 2, IsPart(w, 0, Enclosed(x))
    PROVE  Closing(w) = Len(x) + 2 /\ Inside(w) = x
<1> DEFINE e == Enclosed(x)
           n == Len(x)
<1>1. /\ e \in Seq(S \cup {"(", ")"}) /\ Len(e) = n + 2 /\ Balanced(e)
      /\ e[1] = "(" /\ IsPart(e, 1, x) /\ Level(e, 1) = 1
  BY EnclosedScans
<1>2. \A i \in 0..Len(e) : Level(w, i) = Level(e, i) /\ (i # 0 => SameToken(w, i, e, i))
  BY <1>1, PrefixScans
<1> HIDE DEF e
<1>3. n \in Nat /\ Len(w) \in Nat /\ n + 2 <= Len(w)
  OBVIOUS
<1>4. w[1] = "(" /\ Level(w, n + 2) = 0
  <2>1. 1 \in 0..Len(e) /\ n + 2 \in 0..Len(e)
    BY <1>1, <1>3
  <2>2. SameToken(w, 1, e, 1) /\ Level(w, n + 2) = Level(e, Len(e))
    BY <1>1, <1>2, <2>1
  <2> QED
    BY <1>1, <2>2 DEF SameToken, Balanced
<1>5. ASSUME NEW i \in 0..n
      PROVE  Level(w, i + 1) # 0 /\ (i # 0 => w[i + 1] = x[i])
  <2>1. i + 1 \in 0..Len(e) /\ 1 + i = i + 1 /\ i + 1 # 0
    BY <1>1, <1>3
  <2>2. Level(e, 1 + i) = Level(e, 1) + Level(x, i) /\ (i # 0 => SameToken(e, 1 + i, x, i))
    BY <1>1 DEF IsPart
  <2>3. Level(x, i) >= 0 /\ Level(x, i) \in Int
    BY LevelStep DEF Balanced
  <2> QED
    BY <1>1, <1>2, <2>1, <2>2, <2>3 DEF SameToken
<1>6. Closing(w) \in 1..n + 2 /\ Level(w, Closing(w)) = 0
  <2>1. n + 2 \in 1..Len(w)
    BY <1>3
  <2>2. Closing(w) \in 1..n + 2
    BY <1>4, <2>1, ClosingFacts
  <2> QED
    BY <2>2, ClosingFacts
<1>7. Closing(w) = n + 2
  <2> SUFFICES ASSUME Closing(w) # n + 2 PROVE FALSE
    OBVIOUS
  <2>1. Closing(w) - 1 \in 0..n /\ (Closing(w) - 1) + 1 = Closing(w)
    BY <1>3, <1>6
  <2> QED
    BY <1>5, <1>6, <2>1
<1>8. Inside(w) = x
  <2>1. Inside(w) = SubSeq(w, 1 + 1, n + 1)
    <3>1. Closing(w) - 1 = n + 1 /\ 1 + 1 = 2
      BY <1>3, <1>7
    <3> QED
      BY <3>1 DEF Inside
  <2>2. /\ SubSeq(w, 1 + 1, n + 1) \in Seq(R) /\ Len(SubSeq(w, 1 + 1, n + 1)) = (n + 1) - 1
        /\ \A i \in 1..((n + 1) - 1) : SubSeq(w, 1 + 1, n + 1)[i] = w[1 + i]
    BY <1>3, RestOf
  <2>3. (n + 1) - 1 = n /\ \A i \in 1..n : w[1 + i] = x[i]
    <3>1. \A i \in 1..n : i \in 0..n /\ i # 0 /\ 1 + i = i + 1
      BY <1>3
    <3> QED
      BY <1>3, <1>5, <3>1
  <2> DEFINE y == SubSeq(w, 1 + 1, n + 1)
  <2>4. y \in Seq(R) /\ Len(y) = n /\ \A i \in 1..n : y[i] = x[i]
    BY <2>2, <2>3
  <2> HIDE DEF y
  <2>5. y = x
    BY <2>4
  <2> QED
    BY <2>1, <2>5 DEF y
<1> QED
  BY <1>7, <1>8

\* Parentheses put around a balanced text are the ones taken off.
LEMMA UnwrappedEnclosed ==
    ASSUME NEW S, NEW x \in Seq(S), Balanced(x)
    PROVE  Unwrapped(Enclosed(x)) = x
<1> DEFINE e == Enclosed(x)
<1>1. e \in Seq(S \cup {"(", ")"}) /\ Len(e) = Len(x) + 2 /\ Len(x) \in Nat
  BY EnclosedScans
<1>2. Quotes(e, 0) % 2 = 0
  <2>1. Quotes(e, 0) = 0
    BY QuotesStep
  <2> QED
    BY <2>1
<1> HIDE DEF e
<1>3. IsPart(e, 0, e)
  <2>1. 0 + Len(e) <= Len(e) /\ \A j \in 1..Len(e) : e[j] = e[0 + j]
    BY <1>1
  <2> QED
    BY <1>1, <1>2, <2>1, PartScans
<1>4. Closing(e) = Len(x) + 2 /\ Inside(e) = x
  BY <1>1, <1>3, ClosingEnclosed DEF e
<1> QED
  BY <1>1, <1>4 DEF Unwrapped, e

\* Unwrapped takes off one pair of parentheses or leaves the text.
LEMMA UnwrappedFacts ==
    ASSUME NEW S, NEW s \in Seq(S)
    PROVE  /\ Unwrapped(s) \in Seq(S)
           /\ Unwrapped(s) = s \/ (s = Enclosed(Unwrapped(s)) /\ Len(s) = Len(Unwrapped(s)) + 2)
           /\ s[1] # "(" => Unwrapped(s) = s
<1> DEFINE n == Len(s)
<1>1. n \in Nat /\ DOMAIN s = 1..n
  OBVIOUS
<1>2. CASE Closing(s) # n
  BY <1>2 DEF Unwrapped
<1>3. CASE Closing(s) = n /\ n = 0
  <2>1. s = <<>>
    BY <1>3
  <2>2. SubSeq(<<>>, 2, 0 - 1) = <<>>
    OBVIOUS
  <2>3. Unwrapped(s) = s
    BY <1>3, <2>1, <2>2 DEF Unwrapped, Inside
  <2> QED
    BY <2>3
<1>4. CASE Closing(s) = n /\ n # 0
  <2>1. s[1] = "(" /\ Level(s, n) = 0 /\ \A i \in 1..n - 1 : Level(s, i) # 0
    BY <1>4, ClosingFacts
  <2>2. Quotes(s, 1) = 0 /\ Quotes(s, 1) % 2 = 0
    <3>1. Quotes(s, 0) = 0 /\ Quotes(s, 0 + 1) = Quotes(s, 0) + (IF s[0 + 1] = "'" THEN 1 ELSE 0)
      BY QuotesStep
    <3> QED
      BY <2>1, <3>1
  <2>3. \A token : Outer(s, 1, token) <=> token = "("
    <3>1. 1 \in DOMAIN s
      BY <1>1, <1>4
    <3> QED
      BY <2>1, <2>2, <3>1 DEF Outer, Outside
  <2>4. Level(s, 1) = 1
    <3>1. 0 \in 0..Len(s) /\ 0 < Len(s) /\ 0 + 1 = 1
      BY <1>1, <1>4
    <3>2. /\ Level(s, 0) = 0
          /\ Level(s, 0 + 1) = Level(s, 0) + (IF Outer(s, 0 + 1, "(") THEN 1 ELSE 0) - (IF Outer(s, 0 + 1, ")") THEN 1 ELSE 0)
      BY <3>1, LevelStep
    <3> QED
      BY <2>3, <3>1, <3>2
  <2>5. n - 1 \in Nat /\ n - 1 # 0 /\ (n - 1) + 1 = n
    BY <1>1, <1>4, <2>1, <2>4
  <2> DEFINE T == {i \in Nat : i \in 1..n - 1 => Level(s, i) >= 1}
  <2>6. 0 \in T
    OBVIOUS
  <2>7. ASSUME NEW i \in Nat, i \in T PROVE i + 1 \in T
    <3> SUFFICES ASSUME i + 1 \in 1..n - 1 PROVE Level(s, i + 1) >= 1
      OBVIOUS
    <3>1. i \in 0..Len(s) /\ i < Len(s) /\ i + 1 \in 0..Len(s) /\ (i # 0 => i \in 1..n - 1)
      BY <1>1
    <3>2. Level(s, i + 1) = Level(s, i) + (IF Outer(s, i + 1, "(") THEN 1 ELSE 0) - (IF Outer(s, i + 1, ")") THEN 1 ELSE 0)
          /\ Level(s, i) \in Int
      BY <3>1, LevelStep
    <3>3. Level(s, i + 1) # 0
      BY <2>1
    <3>4. CASE i = 0
      BY <2>4, <3>4
    <3>5. CASE i # 0
      <4>1. Level(s, i) >= 1
        BY <2>7, <3>1, <3>5
      <4> QED
        BY <3>2, <3>3, <4>1
    <3> QED
      BY <3>4, <3>5
  <2> HIDE DEF T
  <2>8. Nat \subseteq T
    BY <2>6, <2>7, NumbersInduction
  <2>9. Level(s, n - 1) >= 1
    <3>1. n - 1 \in 1..n - 1
      BY <2>5
    <3> QED
      BY <2>5, <2>8, <3>1 DEF T
  <2>10. s[n] = ")"
    <3>1. n - 1 \in 0..Len(s) /\ n - 1 < Len(s)
      BY <1>1, <2>5
    <3>2. Level(s, (n - 1) + 1) = Level(s, n - 1) + (IF Outer(s, (n - 1) + 1, "(") THEN 1 ELSE 0) - (IF Outer(s, (n - 1) + 1, ")") THEN 1 ELSE 0)
          /\ Level(s, n - 1) \in Int
      BY <3>1, LevelStep
    <3>3. Outer(s, n, ")")
      BY <2>1, <2>5, <2>9, <3>2
    <3> QED
      BY <3>3 DEF Outer
  <2> DEFINE x == SubSeq(s, 1 + 1, n - 1)
  <2>11. Unwrapped(s) = x
    <3>1. 1 + 1 = 2
      OBVIOUS
    <3> QED
      BY <1>4, <3>1 DEF Unwrapped, Inside
  <2>12. x \in Seq(S) /\ Len(x) = (n - 1) - 1 /\ \A i \in 1..((n - 1) - 1) : x[i] = s[1 + i]
    <3>1. 1 \in Nat /\ n - 1 \in Nat /\ 1 <= n - 1 /\ n - 1 <= Len(s)
      BY <1>1, <2>5
    <3> QED
      BY <3>1, RestOf
  <2> HIDE DEF x
  <2>13. Enclosed(x) = s
    <3>1. /\ x \in Seq(S \cup {"(", ")"}) /\ <<"(">> \in Seq(S \cup {"(", ")"}) /\ <<")">> \in Seq(S \cup {"(", ")"})
          /\ s \in Seq(S \cup {"(", ")"}) /\ Len(x) = n - 2
      BY <1>1, <2>12
    <3> DEFINE e == Enclosed(x)
    <3>2. /\ e \in Seq(S \cup {"(", ")"}) /\ Len(e) = Len(x) + 2 /\ e[1] = "(" /\ e[Len(x) + 2] = ")"
          /\ \A i \in 1..Len(x) : e[i + 1] = x[i]
      BY <3>1 DEF Enclosed
    <3> HIDE DEF e
    <3>3. Len(e) = n
      BY <1>1, <3>1, <3>2
    <3>4. ASSUME NEW i \in 1..n PROVE e[i] = s[i]
      <4>1. i = 1 \/ i = n \/ (i - 1 \in 1..Len(x) /\ (i - 1) + 1 = i /\ 1 + (i - 1) = i)
        <5>1. \A l \in Int : l = n - 2 => i = 1 \/ i = n \/ (i - 1 \in 1..l /\ (i - 1) + 1 = i /\ 1 + (i - 1) = i)
          <6> HIDE DEF n
          <6> QED
            BY <1>1
        <5>2. Len(x) \in Int
          BY <2>12
        <5> QED
          BY <3>1, <5>1, <5>2
      <4>2. CASE i - 1 \in 1..Len(x) /\ (i - 1) + 1 = i /\ 1 + (i - 1) = i
        <5>1. e[(i - 1) + 1] = x[i - 1]
          BY <3>2, <4>2
        <5>2. x[i - 1] = s[1 + (i - 1)]
          BY <2>12, <4>2
        <5> QED
          BY <4>2, <5>1, <5>2
      <4>3. CASE i = n
        <5>1. Len(x) + 2 = n
          BY <1>1, <3>1
        <5> QED
          BY <2>10, <3>2, <4>3, <5>1
      <4> QED
        BY <2>1, <3>2, <4>1, <4>2, <4>3
    <3>5. e = s
      BY <3>1, <3>2, <3>3, <3>4
    <3> QED
      BY <3>5 DEF e
  <2> QED
    BY <1>1, <2>1, <2>11, <2>12, <2>13
<1> QED
  BY <1>2, <1>3, <1>4

-----------------------------------------------------------------------------
(* The texts of partitions: parentheses around a text.                       *)

\* The recursive function of Unwrap.
Bared(t, n, f) == f = [i \in 0..n |-> IF i = 0 THEN t ELSE Unwrapped(f[i - 1])]

BaredSteps(t, n, f) == f[0] = t /\ \A i \in 0..n : i + 1 \in 0..n => f[i + 1] = Unwrapped(f[i])

\* The texts that Unwrap passes through, one step at a time.
LEMMA BaredAt ==
    ASSUME NEW t, NEW n \in Nat, NEW f, Bared(t, n, f)
    PROVE  BaredSteps(t, n, f)
<1>1. 0 \in 0..n /\ \A i \in 0..n : i + 1 # 0 /\ (i + 1) - 1 = i
  OBVIOUS
<1>2. \A i \in 0..n : f[i] = IF i = 0 THEN t ELSE Unwrapped(f[i - 1])
  BY Zenon DEF Bared
<1> QED
  BY <1>1, <1>2 DEF BaredSteps

\* There is such a function.
LEMMA BaredExists ==
    ASSUME NEW t, NEW m \in Nat
    PROVE  \E f : Bared(t, m, f)
<1> DEFINE T == {n \in Nat : \E f : Bared(t, n, f)}
           Step(n, f) == [i \in 0..n |-> IF i = 0 THEN t ELSE Unwrapped(f[i - 1])]
<1>1. 0 \in T
  <2>1. Step(0, t) = Step(0, Step(0, t))
    OBVIOUS
  <2>2. Bared(t, 0, Step(0, t))
    BY <2>1 DEF Bared
  <2> QED
    BY <2>2
<1>2. ASSUME NEW n \in Nat, n \in T PROVE n + 1 \in T
  <2>1. PICK f : Bared(t, n, f)
    BY <1>2
  <2> DEFINE h == Step(n + 1, f)
  <2>2. \A i \in 0..n : f[i] = IF i = 0 THEN t ELSE Unwrapped(f[i - 1])
    BY <2>1, Zenon DEF Bared
  <2>3. \A i \in 0..n : i \in 0..(n + 1) /\ h[i] = f[i]
    BY <2>2
  <2>4. \A i \in 0..(n + 1) : i # 0 => i - 1 \in 0..n
    OBVIOUS
  <2>5. h = Step(n + 1, h)
    BY <2>3, <2>4
  <2>6. Bared(t, n + 1, h)
    BY <2>5 DEF Bared
  <2> HIDE DEF h
  <2>7. n + 1 \in Nat
    OBVIOUS
  <2> QED
    BY <2>6, <2>7, Zenon
<1> HIDE DEF T
<1>3. Nat \subseteq T
  BY <1>1, <1>2, NumbersInduction
<1> QED
  BY <1>3 DEF T

\* Unwrap is the last of these texts.
LEMMA UnwrapIsBared ==
    ASSUME NEW S, NEW t \in Seq(S)
    PROVE  \E f : Bared(t, Len(t), f) /\ Unwrap(t) = f[Len(t)]
<1> DEFINE bare == CHOOSE f : f = [i \in 0..Len(t) |-> IF i = 0 THEN t ELSE Unwrapped(f[i - 1])]
<1>1. \E f : f = [i \in 0..Len(t) |-> IF i = 0 THEN t ELSE Unwrapped(f[i - 1])]
  <2>1. Len(t) \in Nat
    OBVIOUS
  <2> QED
    BY <2>1, BaredExists DEF Bared
<1>2. bare = [i \in 0..Len(t) |-> IF i = 0 THEN t ELSE Unwrapped(bare[i - 1])]
  BY <1>1, Zenon
<1>3. Unwrap(t) = bare[Len(t)]
  BY Zenon DEF Unwrap
<1> HIDE DEF bare
<1> QED
  BY <1>2, <1>3 DEF Bared

\* What one pair of parentheses leaves as it is, all of them do.
LEMMA UnwrapKeeps ==
    ASSUME NEW S, NEW t \in Seq(S), NEW P, t \in P, \A s \in P : Unwrapped(s) \in P
    PROVE  Unwrap(t) \in P
<1>1. PICK f : Bared(t, Len(t), f) /\ Unwrap(t) = f[Len(t)]
  BY UnwrapIsBared
<1>2. Len(t) \in Nat
  OBVIOUS
<1>3. f[0] = t /\ \A i \in 0..Len(t) : i + 1 \in 0..Len(t) => f[i + 1] = Unwrapped(f[i])
  <2>1. BaredSteps(t, Len(t), f)
    BY <1>1, <1>2, BaredAt, Zenon
  <2> QED
    BY <2>1 DEF BaredSteps
<1> DEFINE T == {i \in Nat : i \in 0..Len(t) => f[i] \in P}
<1>4. 0 \in T
  BY <1>3
<1>5. ASSUME NEW i \in Nat, i \in T PROVE i + 1 \in T
  <2> SUFFICES ASSUME i + 1 \in 0..Len(t) PROVE f[i + 1] \in P
    OBVIOUS
  <2>1. i \in 0..Len(t)
    BY <1>2
  <2> QED
    BY <1>3, <1>5, <2>1
<1> HIDE DEF T
<1>6. Nat \subseteq T
  BY <1>4, <1>5, NumbersInduction
<1>7. Len(t) \in 0..Len(t)
  BY <1>2
<1> QED
  BY <1>1, <1>2, <1>6, <1>7 DEF T

\* Unwrap gives a text again.
LEMMA UnwrapTypes ==
    ASSUME NEW S, NEW t \in Seq(S)
    PROVE  /\ Unwrap(t) \in Seq(S)
           /\ Unwrapped(t) = t => Unwrap(t) = t
<1>1. Unwrap(t) \in Seq(S)
  <2>1. \A s \in Seq(S) : Unwrapped(s) \in Seq(S)
    BY UnwrappedFacts
  <2> QED
    BY <2>1, UnwrapKeeps
<1>2. ASSUME Unwrapped(t) = t PROVE Unwrap(t) = t
  <2>1. t \in {t} /\ \A s \in {t} : Unwrapped(s) \in {t}
    BY <1>2
  <2>2. Unwrap(t) \in {t}
    BY <2>1, UnwrapKeeps
  <2> QED
    BY <2>2
<1> QED
  BY <1>1, <1>2

\* One pair of parentheses more makes no difference.
LEMMA UnwrapEnclosed ==
    ASSUME NEW S, NEW x \in Seq(S), Balanced(x)
    PROVE  Unwrap(Enclosed(x)) = Unwrap(x)
<1> DEFINE e == Enclosed(x)
           n == Len(x)
<1>1. n \in Nat /\ e \in Seq(S \cup {"(", ")"}) /\ Len(e) = n + 2 /\ Unwrapped(e) = x
  BY EnclosedScans, UnwrappedEnclosed
<1> HIDE DEF e
<1>2. PICK f : Bared(x, n, f) /\ Unwrap(x) = f[n]
  BY UnwrapIsBared
<1>3. PICK g : Bared(e, n + 2, g) /\ Unwrap(e) = g[n + 2]
  BY <1>1, UnwrapIsBared
<1>4. f[0] = x /\ \A i \in 0..n : i + 1 \in 0..n => f[i + 1] = Unwrapped(f[i])
  <2>1. BaredSteps(x, n, f)
    BY <1>1, <1>2, BaredAt, Zenon
  <2> QED
    BY <2>1 DEF BaredSteps
<1>5. g[0] = e /\ \A i \in 0..(n + 2) : i + 1 \in 0..(n + 2) => g[i + 1] = Unwrapped(g[i])
  <2>1. n + 2 \in Nat
    BY <1>1
  <2>2. BaredSteps(e, n + 2, g)
    BY <1>3, <2>1, BaredAt, Zenon
  <2> QED
    BY <2>2 DEF BaredSteps
<1> HIDE DEF n
<1> DEFINE T == {i \in Nat : i \in 0..n => /\ g[i + 1] = f[i] /\ f[i] \in Seq(S)
                                           /\ Unwrapped(f[i]) = f[i] \/ Len(f[i]) + i <= n}
<1>6. 0 \in T
  <2>1. 0 \in 0..(n + 2) /\ 0 + 1 \in 0..(n + 2)
    BY <1>1
  <2>2. Len(x) + 0 <= n
    BY <1>1 DEF n
  <2> QED
    BY <1>1, <1>4, <1>5, <2>1, <2>2
<1>7. ASSUME NEW i \in Nat, i \in T PROVE i + 1 \in T
  <2>0. i + 1 \in Nat
    OBVIOUS
  <2> SUFFICES ASSUME i + 1 \in 0..n
               PROVE  /\ g[(i + 1) + 1] = f[i + 1] /\ f[i + 1] \in Seq(S)
                      /\ Unwrapped(f[i + 1]) = f[i + 1] \/ Len(f[i + 1]) + (i + 1) <= n
    BY <2>0, Zenon
  <2>1. i \in 0..n /\ i + 1 \in 0..(n + 2) /\ (i + 1) + 1 \in 0..(n + 2)
    BY <1>1
  <2>2. /\ g[i + 1] = f[i] /\ f[i] \in Seq(S)
        /\ Unwrapped(f[i]) = f[i] \/ Len(f[i]) + i <= n
    BY <1>7, <2>1
  <2>3. f[i + 1] = Unwrapped(f[i]) /\ g[(i + 1) + 1] = Unwrapped(g[i + 1])
    BY <1>4, <1>5, <2>1
  <2>4. f[i + 1] \in Seq(S)
    BY <2>2, <2>3, UnwrappedFacts
  <2>5. CASE Unwrapped(f[i]) = f[i]
    BY <2>2, <2>3, <2>4, <2>5
  <2>6. CASE Unwrapped(f[i]) # f[i]
    <3>1. Len(f[i]) = Len(Unwrapped(f[i])) + 2
      BY <2>2, <2>6, UnwrappedFacts
    <3>2. Len(f[i + 1]) \in Nat /\ Len(f[i]) \in Nat /\ Len(f[i]) = Len(f[i + 1]) + 2 /\ Len(f[i]) + i <= n
      BY <2>2, <2>3, <2>4, <2>6, <3>1
    <3>3. Len(f[i + 1]) + (i + 1) <= n
      <4>1. \A k, l \in Nat : k = l + 2 /\ k + i <= n => l + (i + 1) <= n
        BY <1>1
      <4> QED
        BY <3>2, <4>1
    <3> QED
      BY <2>2, <2>3, <2>4, <3>3
  <2> QED
    BY <2>5, <2>6
<1> HIDE DEF T
<1>8. Nat \subseteq T
  BY <1>6, <1>7, NumbersInduction
<1>9. /\ g[n + 1] = f[n] /\ f[n] \in Seq(S)
      /\ Unwrapped(f[n]) = f[n] \/ Len(f[n]) + n <= n
  <2>1. n \in 0..n
    BY <1>1
  <2> QED
    BY <1>1, <1>8, <2>1 DEF T
<1>10. Unwrapped(f[n]) = f[n]
  <2> SUFFICES ASSUME Unwrapped(f[n]) # f[n] PROVE FALSE
    OBVIOUS
  <2>1. Len(f[n]) = Len(Unwrapped(f[n])) + 2 /\ Unwrapped(f[n]) \in Seq(S)
    BY <1>9, UnwrappedFacts
  <2>2. Len(Unwrapped(f[n])) \in Nat /\ Len(f[n]) + n <= n
    BY <1>9, <2>1
  <2> QED
    BY <1>1, <2>1, <2>2
<1>11. g[n + 2] = Unwrapped(g[n + 1])
  <2>1. n + 1 \in 0..(n + 2) /\ (n + 1) + 1 \in 0..(n + 2) /\ (n + 1) + 1 = n + 2
    BY <1>1
  <2>2. g[(n + 1) + 1] = Unwrapped(g[n + 1])
    BY <1>5, <2>1
  <2> QED
    BY <2>1, <2>2
<1> QED
  BY <1>2, <1>3, <1>9, <1>10, <1>11 DEF e

-----------------------------------------------------------------------------
(* The texts of partitions: pieces between separators.                       *)

-----------------------------------------------------------------------------
(* The pieces of a text.                                                    *)

Passed(C, a) == Cardinality(C \cap (1..a))

\* Separators are counted one place at a time.
LEMMA PassedStep ==
    ASSUME NEW C, NEW i \in Nat
    PROVE  /\ Passed(C, 0) = 0 /\ Passed(C, i) \in Nat
           /\ Passed(C, i + 1) = Passed(C, i) + (IF i + 1 \in C THEN 1 ELSE 0)
BY CountStep DEF Passed

\* Further on as many have passed, or more.
LEMMA PassedMore ==
    ASSUME NEW C, NEW a \in Nat, NEW b \in Nat, a < b
    PROVE  Passed(C, a) <= Passed(C, b) /\ (b \in C => Passed(C, a) < Passed(C, b))
<1> DEFINE T == {i \in Nat : Passed(C, a) <= Passed(C, a + i)}
<1>0. Passed(C, a) \in Nat
  BY PassedStep
<1>1. 0 \in T
  <2>1. a + 0 = a
    OBVIOUS
  <2> QED
    BY <1>0, <2>1
<1>2. ASSUME NEW i \in Nat, i \in T PROVE i + 1 \in T
  <2>1. a + i \in Nat /\ (a + i) + 1 = a + (i + 1) /\ i + 1 \in Nat
    OBVIOUS
  <2>2. Passed(C, a + i) \in Nat /\ Passed(C, (a + i) + 1) = Passed(C, a + i) + (IF (a + i) + 1 \in C THEN 1 ELSE 0)
    BY <2>1, PassedStep
  <2>3. Passed(C, a) <= Passed(C, a + i)
    BY <1>2
  <2>4. Passed(C, a) <= Passed(C, a + (i + 1))
    BY <1>0, <2>1, <2>2, <2>3
  <2> QED
    BY <2>1, <2>4
<1> HIDE DEF T
<1>3. Nat \subseteq T
  BY <1>1, <1>2, NumbersInduction
<1>4. Passed(C, a) <= Passed(C, b) /\ Passed(C, a) <= Passed(C, b - 1)
  <2>1. b - a \in Nat /\ (b - 1) - a \in Nat /\ a + (b - a) = b /\ a + ((b - 1) - a) = b - 1
    OBVIOUS
  <2>2. Passed(C, a) <= Passed(C, a + (b - a)) /\ Passed(C, a) <= Passed(C, a + ((b - 1) - a))
    BY <1>3, <2>1 DEF T
  <2> QED
    BY <2>1, <2>2
<1>5. Passed(C, b - 1) \in Nat /\ (b \in C => Passed(C, b) = Passed(C, b - 1) + 1)
  <2>1. b - 1 \in Nat /\ (b - 1) + 1 = b
    OBVIOUS
  <2>2. Passed(C, b - 1) \in Nat /\ Passed(C, (b - 1) + 1) = Passed(C, b - 1) + (IF (b - 1) + 1 \in C THEN 1 ELSE 0)
    BY <2>1, PassedStep
  <2> QED
    BY <2>1, <2>2
<1> QED
  BY <1>0, <1>4, <1>5

\* Where the pieces begin.
LEMMA PieceStarts ==
    ASSUME NEW n \in Nat, NEW C \in SUBSET (1..n)
    PROVE  /\ Cardinality(C) \in Nat /\ Passed(C, n) = Cardinality(C)
           /\ \A a \in {0} \cup C : /\ Passed(C, a) \in 0..Cardinality(C)
                                    /\ PieceStart(C, Passed(C, a) + 1) = a
           /\ \A k \in 1..Cardinality(C) + 1 : /\ PieceStart(C, k) \in {0} \cup C
                                               /\ Passed(C, PieceStart(C, k)) = k - 1
<1>1. Passed(C, n) = Cardinality(C) /\ Cardinality(C) \in Nat
  <2>1. C \cap (1..n) = C
    OBVIOUS
  <2> QED
    BY <2>1, PassedStep DEF Passed
<1>2. \A a \in {0} \cup C : a \in Nat /\ a <= n
  OBVIOUS
<1>3. ASSUME NEW a \in {0} \cup C, NEW b \in {0} \cup C, Passed(C, a) = Passed(C, b)
      PROVE  a = b
  <2>1. Passed(C, a) \in Nat /\ Passed(C, b) \in Nat
    BY <1>2, PassedStep
  <2>2. ~(a < b)
    <3> SUFFICES ASSUME a < b PROVE FALSE
      OBVIOUS
    <3>1. b \in C
      BY <1>2
    <3> QED
      BY <1>2, <1>3, <2>1, <3>1, PassedMore
  <2>3. ~(b < a)
    <3> SUFFICES ASSUME b < a PROVE FALSE
      OBVIOUS
    <3>1. a \in C
      BY <1>2
    <3> QED
      BY <1>2, <1>3, <2>1, <3>1, PassedMore
  <2> QED
    BY <1>2, <2>2, <2>3
<1>4. \A k : PieceStart(C, k) = CHOOSE a \in {0} \cup C : Passed(C, a) = k - 1
  BY DEF PieceStart, Passed
<1>5. ASSUME NEW a \in {0} \cup C
      PROVE  Passed(C, a) \in 0..Cardinality(C) /\ PieceStart(C, Passed(C, a) + 1) = a
  <2>1. Passed(C, a) \in Nat
    BY <1>2, PassedStep
  <2>2. Passed(C, a) <= Passed(C, n)
    BY <1>2, <2>1, PassedMore
  <2>3. (Passed(C, a) + 1) - 1 = Passed(C, a)
    BY <2>1
  <2> DEFINE b == PieceStart(C, Passed(C, a) + 1)
  <2>4. b = CHOOSE c \in {0} \cup C : Passed(C, c) = Passed(C, a)
    BY <1>4, <2>3
  <2> HIDE DEF b
  <2>5. b \in {0} \cup C /\ Passed(C, b) = Passed(C, a)
    BY <2>4
  <2>6. b = a
    BY <1>3, <2>5
  <2> QED
    BY <1>1, <2>1, <2>2, <2>6 DEF b
<1>6. ASSUME NEW k \in 1..Cardinality(C) + 1
      PROVE  PieceStart(C, k) \in {0} \cup C /\ Passed(C, PieceStart(C, k)) = k - 1
  <2> DEFINE T == {i \in Nat : i <= n => \A m \in 0..Passed(C, i) : \E a \in {0} \cup C : Passed(C, a) = m}
  <2>1. 0 \in T
    <3>1. Passed(C, 0) = 0
      BY PassedStep
    <3> QED
      BY <3>1
  <2>2. ASSUME NEW i \in Nat, i \in T PROVE i + 1 \in T
    <3> SUFFICES ASSUME i + 1 <= n, NEW m \in 0..Passed(C, i + 1)
                 PROVE  \E a \in {0} \cup C : Passed(C, a) = m
      OBVIOUS
    <3>1. \A l \in 0..Passed(C, i) : \E a \in {0} \cup C : Passed(C, a) = l
      BY <2>2
    <3>2. Passed(C, i) \in Nat /\ Passed(C, i + 1) = Passed(C, i) + (IF i + 1 \in C THEN 1 ELSE 0)
      BY PassedStep
    <3>3. CASE m \in 0..Passed(C, i)
      BY <3>1, <3>3
    <3>4. CASE m \notin 0..Passed(C, i)
      <4>1. i + 1 \in C /\ m = Passed(C, i + 1)
        BY <3>2, <3>4
      <4> QED
        BY <4>1
    <3> QED
      BY <3>3, <3>4
  <2> HIDE DEF T
  <2>3. Nat \subseteq T
    BY <2>1, <2>2, NumbersInduction
  <2>4. k - 1 \in 0..Passed(C, n)
    BY <1>1
  <2>5. \E a \in {0} \cup C : Passed(C, a) = k - 1
    BY <2>3, <2>4 DEF T
  <2> QED
    BY <1>4, <2>5
<1> QED
  BY <1>1, <1>5, <1>6

\* Between a and b no separator, and one or an end of the text at them.
Between(n, C, a, b) == /\ a \in {0} \cup C /\ b \in C \cup {n + 1} /\ a < b
                       /\ \A c \in C : c <= a \/ c >= b

\* A piece ends at the next separator or at the end of the text.
LEMMA PieceEnds ==
    ASSUME NEW S, NEW t \in Seq(S), NEW C \in SUBSET (1..Len(t)), NEW a \in {0} \cup C
    PROVE  /\ Between(Len(t), C, a, PieceEnd(t, C, a))
           /\ \A b : Between(Len(t), C, a, b) => b = PieceEnd(t, C, a)
<1> DEFINE n == Len(t)
           E == {b \in C \cup {n + 1} : b > a}
           e == PieceEnd(t, C, a)
<1>1. n \in Nat
  OBVIOUS
<1> DEFINE m == n + 1
<1>2. E \in SUBSET (1..m) /\ m \in E /\ m \in Nat
  <2>1. m \in Nat /\ n < m /\ a \in Nat /\ a <= n /\ \A c \in C : c \in 1..n
    <3> HIDE DEF n
    <3>1. \A c \in C : c \in 1..n
      BY DEF n
    <3> QED
      BY <1>1, <3>1
  <2>2. m \in E
    BY <2>1
  <2>3. ASSUME NEW b \in E PROVE b \in 1..m
    <3>1. CASE b = m
      BY <2>1, <3>1
    <3>2. CASE b \in C
      BY <1>1, <2>1, <3>2
    <3> QED
      BY <3>1, <3>2
  <2> QED
    BY <2>1, <2>2, <2>3
<1>3. e = Min(E)
  BY DEF PieceEnd
<1>4. e \in E /\ \A b \in E : e <= b
  <2> HIDE DEF E, m
  <2>1. E # {}
    BY <1>2
  <2>2. Min(E) \in E /\ \A b \in E : Min(E) <= b
    BY <1>2, <2>1, FirstPlace
  <2> HIDE DEF e
  <2> QED
    BY <1>3, <2>2
<1> HIDE DEF e
<1>5. Between(n, C, a, e)
  <2>1. \A c \in C : c \in Int /\ a \in Int /\ (c > a => c \in E)
    OBVIOUS
  <2>2. e \in Int /\ e \in C \cup {n + 1} /\ a < e
    BY <1>4
  <2>3. \A c \in C : c <= a \/ c >= e
    <3> HIDE DEF E
    <3> QED
      BY <1>4, <2>1, <2>2
  <2> QED
    BY <2>2, <2>3 DEF Between
<1>6. ASSUME NEW b, Between(n, C, a, b) PROVE b = e
  <2>1. b \in E /\ b \in Int /\ e \in Int
    BY <1>4, <1>6 DEF Between
  <2>2. e <= b
    BY <1>4, <2>1
  <2>3. b <= e
    <3>1. CASE e \in C
      <4>1. e <= a \/ e >= b
        BY <1>6, <3>1 DEF Between
      <4> QED
        BY <1>4, <2>1, <4>1
    <3>2. CASE e = n + 1
      <4>1. b <= n + 1
        BY <2>1
      <4> QED
        BY <3>2, <4>1
    <3> QED
      BY <1>4, <3>1, <3>2
  <2> QED
    BY <2>1, <2>2, <2>3
<1> QED
  BY <1>5, <1>6 DEF e

Piece(t, C, x) == \E a, b : Between(Len(t), C, a, b) /\ x = SubSeq(t, a + 1, b - 1)

\* The pieces are what is between two separators that follow each other.
LEMMA PiecesFacts ==
    ASSUME NEW S, NEW t \in Seq(S), NEW C \in SUBSET (1..Len(t))
    PROVE  /\ Cardinality(C) \in Nat /\ DOMAIN Pieces(t, C) = 1..Cardinality(C) + 1
           /\ Pieces(t, C) \in Seq(Seq(S)) /\ Len(Pieces(t, C)) = Cardinality(C) + 1
           /\ \A k \in DOMAIN Pieces(t, C) : Piece(t, C, Pieces(t, C)[k])
           /\ \A x : Piece(t, C, x) => \E k \in DOMAIN Pieces(t, C) : Pieces(t, C)[k] = x
<1> DEFINE n == Len(t)
           N == Cardinality(C)
           At(k) == SubSeq(t, PieceStart(C, k) + 1, PieceEnd(t, C, PieceStart(C, k)) - 1)
<1>1. /\ n \in Nat /\ N \in Nat
      /\ \A a \in {0} \cup C : Passed(C, a) \in 0..N /\ PieceStart(C, Passed(C, a) + 1) = a
      /\ \A k \in 1..N + 1 : PieceStart(C, k) \in {0} \cup C
  BY PieceStarts
<1>2. Pieces(t, C) = [k \in 1..N + 1 |-> At(k)]
  BY DEF Pieces
<1>3. ASSUME NEW k \in 1..N + 1 PROVE Piece(t, C, At(k)) /\ At(k) \in Seq(S)
  <2> DEFINE a == PieceStart(C, k)
             b == PieceEnd(t, C, a)
  <2>1. a \in {0} \cup C
    BY <1>1
  <2>2. Between(n, C, a, b)
    BY <2>1, PieceEnds
  <2>3. At(k) = SubSeq(t, a + 1, b - 1)
    OBVIOUS
  <2> HIDE DEF a, b, At
  <2>4. Piece(t, C, At(k))
    BY <2>2, <2>3 DEF Piece
  <2>5. a \in Nat /\ b \in Nat /\ a + 1 <= b /\ b <= n + 1
    BY <1>1, <2>2 DEF Between
  <2>6. SubSeq(t, a + 1, b - 1) \in Seq(S)
    <3>1. a \in Nat /\ b - 1 \in Nat /\ a <= b - 1 /\ b - 1 <= Len(t)
      BY <2>5
    <3> QED
      BY <3>1, RestOf
  <2> QED
    BY <2>3, <2>4, <2>6
<1>4. ASSUME NEW x, Piece(t, C, x) PROVE \E k \in 1..N + 1 : At(k) = x
  <2>1. PICK a, b : Between(n, C, a, b) /\ x = SubSeq(t, a + 1, b - 1)
    BY <1>4 DEF Piece
  <2>2. a \in {0} \cup C
    BY <2>1 DEF Between
  <2>3. Passed(C, a) \in 0..N /\ PieceStart(C, Passed(C, a) + 1) = a
    BY <1>1, <2>2
  <2>4. b = PieceEnd(t, C, a)
    BY <2>1, <2>2, PieceEnds
  <2>5. Passed(C, a) + 1 \in 1..N + 1
    BY <1>1, <2>3
  <2>6. At(Passed(C, a) + 1) = x
    BY <2>1, <2>3, <2>4
  <2> QED
    BY <2>5, <2>6
<1> HIDE DEF At, N
<1>5. Pieces(t, C) \in Seq(Seq(S)) /\ Len(Pieces(t, C)) = N + 1 /\ DOMAIN Pieces(t, C) = 1..N + 1
  BY <1>1, <1>2, <1>3
<1>6. \A k \in 1..N + 1 : Pieces(t, C)[k] = At(k)
  BY <1>2
<1> HIDE DEF Pieces
<1> QED
  BY <1>1, <1>3, <1>4, <1>5, <1>6 DEF N

-----------------------------------------------------------------------------
(* The texts of partitions: one condition.                                   *)

-----------------------------------------------------------------------------
(* One condition.                                                           *)

\* What is read as an identifier is a name, in backquotes or not.
LEMMA IdentifierFacts ==
    ASSUME NEW S, NEW t \in Seq(S), Identifier(t) # Refused
    PROVE  /\ Identifier(t) \in ColumnNames
           /\ \/ Len(t) = 1 /\ t[1] = Identifier(t)
              \/ Len(t) = 3 /\ t[1] = "backquote" /\ t[2] = Identifier(t) /\ t[3] = "backquote"
<1>1. CASE Len(t) = 1 /\ t[1] \in ColumnNames
  BY <1>1 DEF Identifier
<1>2. CASE ~(Len(t) = 1 /\ t[1] \in ColumnNames) /\ Len(t) = 3 /\ t = Backquoted(t[2]) /\ t[2] \in ColumnNames
  <2>1. Identifier(t) = t[2]
    BY <1>2 DEF Identifier
  <2> DEFINE name == t[2]
  <2>2. t = <<"backquote", name, "backquote">>
    BY <1>2 DEF Backquoted
  <2> HIDE DEF name
  <2>3. t[1] = "backquote" /\ t[3] = "backquote"
    BY <2>2
  <2> QED
    BY <1>2, <2>1, <2>3
<1>3. CASE ~(Len(t) = 1 /\ t[1] \in ColumnNames) /\ ~(Len(t) = 3 /\ t = Backquoted(t[2]) /\ t[2] \in ColumnNames)
  BY <1>3 DEF Identifier
<1> QED
  BY <1>1, <1>2, <1>3

\* A name is read as itself.
LEMMA IdentifierOf ==
    ASSUME NEW name \in ColumnNames
    PROVE  /\ <<name>> \in Seq(AllTokens) /\ Len(<<name>>) = 1
           /\ Backquoted(name) \in Seq(AllTokens) /\ Len(Backquoted(name)) = 3
           /\ Identifier(<<name>>) = name /\ Identifier(Backquoted(name)) = name
<1>1. name \in AllTokens /\ "backquote" \in AllTokens
  BY DEF AllTokens, Marks
<1>2. Len(<<name>>) = 1 /\ <<name>>[1] = name /\ <<name>> \in Seq(AllTokens)
  BY <1>1
<1>3. /\ Backquoted(name) \in Seq(AllTokens) /\ Len(Backquoted(name)) = 3 /\ Backquoted(name)[2] = name
  BY <1>1 DEF Backquoted
<1>4. Identifier(<<name>>) = name
  BY <1>2 DEF Identifier
<1>5. Identifier(Backquoted(name)) = name
  BY <1>3 DEF Identifier
<1> QED
  BY <1>2, <1>3, <1>4, <1>5

ConditionAt(t, i) == [column |-> Identifier(SubSeq(t, 1, i - 1)), operator |-> t[i],
                      value |-> Literal(SubSeq(t, i + 1, Len(t)))]
SplitsAt(t, i) == /\ i \in DOMAIN t /\ t[i] \in Operators
                  /\ Identifier(SubSeq(t, 1, i - 1)) # Refused /\ Literal(SubSeq(t, i + 1, Len(t))) # Refused

Order == <<">=", "<=", "=", "<", ">">>

\* A condition that is read is split at an operator, with a column before it and a
\* literal after it.
LEMMA ConditionSplits ==
    ASSUME NEW S, NEW t \in Seq(S), ParseCondition(t) # Refused
    PROVE  \E i : SplitsAt(t, i) /\ ParseCondition(t) = ConditionAt(t, i)
<1> DEFINE Found(k) == {i \in DOMAIN t : t[i] \in Within(Order[k])}
           tried == {k \in DOMAIN Order : Found(k) # {}}
           k0 == Min(tried)
           i0 == Min(Found(k0))
           condition == [column |-> Identifier(SubSeq(t, 1, i0 - 1)), operator |-> Order[k0],
                         value |-> Literal(SubSeq(t, i0 + 1, Len(t)))]
<1>1. ParseCondition(t) = IF tried = {} THEN Refused
                          ELSE IF t[i0] # Order[k0] \/ Refused \in {condition.column, condition.value}
                               THEN Refused ELSE condition
  BY DEF ParseCondition, Order
<1>2. DOMAIN Order = 1..5 /\ \A k \in 1..5 : Order[k] \in Operators
  BY DEF Order, Operators
<1>3. tried \in SUBSET (1..5) /\ tried # {}
  <2>1. tried # {}
    BY <1>1
  <2> QED
    BY <1>2, <2>1
<1>4. k0 \in tried
  <2> HIDE DEF tried
  <2>1. 5 \in Nat
    OBVIOUS
  <2>2. Min(tried) \in tried
    BY <1>3, <2>1, FirstPlace
  <2> QED
    BY <2>2
<1>5. Found(k0) \in SUBSET (1..Len(t)) /\ Found(k0) # {} /\ k0 \in 1..5 /\ Len(t) \in Nat
  <2>1. \A k \in tried : k \in 1..5 /\ Found(k) # {}
    BY <1>2
  <2>2. \A k : Found(k) \in SUBSET (1..Len(t))
    OBVIOUS
  <2> HIDE DEF tried, k0, Found
  <2> QED
    BY <1>4, <2>1, <2>2
<1>6. i0 \in Found(k0)
  <2> DEFINE F == Found(k0)
  <2> HIDE DEF Found, k0, tried
  <2>1. F \in SUBSET (1..Len(t)) /\ F # {} /\ Len(t) \in Nat
    BY <1>5
  <2> HIDE DEF F
  <2>2. Min(F) \in F
    BY <2>1, FirstPlace
  <2> QED
    BY <2>2 DEF F
<1>7. i0 \in DOMAIN t
  BY <1>6
<1> HIDE DEF Found, tried, k0, i0
<1>8. /\ t[i0] = Order[k0] /\ ParseCondition(t) = condition
      /\ Identifier(SubSeq(t, 1, i0 - 1)) # Refused /\ Literal(SubSeq(t, i0 + 1, Len(t))) # Refused
  BY <1>1
<1>9. t[i0] \in Operators
  BY <1>2, <1>5, <1>8
<1>10. ParseCondition(t) = ConditionAt(t, i0)
  BY <1>8 DEF ConditionAt
<1> QED
  BY <1>7, <1>8, <1>9, <1>10 DEF SplitsAt

\* A literal is read as itself.
LEMMA LiteralTypes ==
    ASSUME NEW S, NEW t \in Seq(S), Literal(t) # Refused
    PROVE  Literal(t) = t /\ (IsQuoted(t) \/ t \in Unquoted)
BY DEF Literal

\* What a condition is read as.
LEMMA ConditionTypes ==
    ASSUME NEW t \in Seq(AllTokens), NEW i, SplitsAt(t, i)
    PROVE  /\ SubSeq(t, 1, i - 1) \in Seq(AllTokens) /\ Len(SubSeq(t, 1, i - 1)) = i - 1
           /\ \A j \in 1..i - 1 : SubSeq(t, 1, i - 1)[j] = t[j]
           /\ SubSeq(t, i + 1, Len(t)) \in Seq(AllTokens) /\ Len(SubSeq(t, i + 1, Len(t))) = Len(t) - i
           /\ \A j \in 1..Len(t) - i : SubSeq(t, i + 1, Len(t))[j] = t[i + j]
           /\ ConditionAt(t, i) \in Conditions /\ ConditionAt(t, i) # Refused
<1>1. i \in 1..Len(t) /\ Len(t) \in Nat
  BY DEF SplitsAt
<1>2. /\ SubSeq(t, 1, i - 1) \in Seq(AllTokens) /\ Len(SubSeq(t, 1, i - 1)) = i - 1
      /\ \A j \in 1..i - 1 : SubSeq(t, 1, i - 1)[j] = t[j]
  <2>1. 0 \in Nat /\ i - 1 \in Nat /\ 0 <= i - 1 /\ i - 1 <= Len(t)
    BY <1>1
  <2>2. /\ SubSeq(t, 0 + 1, i - 1) \in Seq(AllTokens) /\ Len(SubSeq(t, 0 + 1, i - 1)) = (i - 1) - 0
        /\ \A j \in 1..((i - 1) - 0) : SubSeq(t, 0 + 1, i - 1)[j] = t[0 + j]
    BY <2>1, RestOf
  <2>3. 0 + 1 = 1 /\ (i - 1) - 0 = i - 1 /\ \A j \in 1..i - 1 : 0 + j = j
    BY <1>1
  <2> QED
    BY <2>2, <2>3
<1>3. /\ SubSeq(t, i + 1, Len(t)) \in Seq(AllTokens) /\ Len(SubSeq(t, i + 1, Len(t))) = Len(t) - i
      /\ \A j \in 1..Len(t) - i : SubSeq(t, i + 1, Len(t))[j] = t[i + j]
  <2>1. i \in Nat /\ Len(t) \in Nat /\ i <= Len(t) /\ Len(t) <= Len(t)
    BY <1>1
  <2> QED
    BY <2>1, RestOf
<1>4. ConditionAt(t, i) \in Conditions
  <2>1. Identifier(SubSeq(t, 1, i - 1)) \in ColumnNames
    BY <1>2, IdentifierFacts DEF SplitsAt
  <2>2. Literal(SubSeq(t, i + 1, Len(t))) \in Seq(AllTokens)
    BY <1>3, LiteralTypes DEF SplitsAt
  <2> QED
    BY <2>1, <2>2 DEF ConditionAt, Conditions, SplitsAt
<1> QED
  BY <1>2, <1>3, <1>4, RefusedAssumption

\* It is read, if no other token of it is an operator.
LEMMA ConditionRead ==
    ASSUME NEW t \in Seq(AllTokens), NEW i, SplitsAt(t, i), \A j \in DOMAIN t : t[j] \in Signs => j = i
    PROVE  ParseCondition(t) = ConditionAt(t, i) /\ ParseCondition(t) # Refused
<1> DEFINE Found(k) == {j \in DOMAIN t : t[j] \in Within(Order[k])}
           tried == {k \in DOMAIN Order : Found(k) # {}}
           k0 == Min(tried)
           i0 == Min(Found(k0))
           condition == [column |-> Identifier(SubSeq(t, 1, i0 - 1)), operator |-> Order[k0],
                         value |-> Literal(SubSeq(t, i0 + 1, Len(t)))]
<1>1. ParseCondition(t) = IF tried = {} THEN Refused
                          ELSE IF t[i0] # Order[k0] \/ Refused \in {condition.column, condition.value}
                               THEN Refused ELSE condition
  BY DEF ParseCondition, Order
<1>2. /\ DOMAIN Order = 1..5 /\ \A k \in 1..5 : Within(Order[k]) \subseteq Signs
      /\ \A op \in Operators : \E k \in 1..5 : /\ Order[k] = op /\ op \in Within(op)
                                               /\ \A l \in 1..k - 1 : op \notin Within(Order[l])
  <2>1. DOMAIN Order = 1..5
    BY DEF Order
  <2>2. ASSUME NEW k \in 1..5 PROVE Within(Order[k]) \subseteq Signs
    <3>1. k = 1 \/ k = 2 \/ k = 3 \/ k = 4 \/ k = 5
      OBVIOUS
    <3> QED
      BY <3>1 DEF Within, Order, Signs, Operators
  <2>3. \A op \in Operators : op \in Within(op)
    BY DEF Operators, Within
  <2>4. /\ Order[1] = ">=" /\ Order[2] = "<=" /\ Order[3] = "=" /\ Order[4] = "<" /\ Order[5] = ">"
    BY DEF Order
  <2>5. /\ Within(">=") = {">="} /\ Within("<=") = {"<="} /\ Within("=") = {"=", ">=", "<=", "!="}
        /\ Within("<") = {"<", "<=", "<>"}
    BY DEF Within
  <2>6. /\ 1..1 - 1 = {} /\ 1..2 - 1 = {1} /\ 1..3 - 1 = {1, 2} /\ 1..4 - 1 = {1, 2, 3} /\ 1..5 - 1 = {1, 2, 3, 4}
    OBVIOUS
  <2>7. ASSUME NEW op \in Operators
        PROVE  \E k \in 1..5 : Order[k] = op /\ \A l \in 1..k - 1 : op \notin Within(Order[l])
    <3>1. CASE op = ">="
      BY <2>4, <2>6, <3>1
    <3>2. CASE op = "<="
      BY <2>4, <2>5, <2>6, <3>2
    <3>3. CASE op = "="
      BY <2>4, <2>5, <2>6, <3>3
    <3>4. CASE op = "<"
      BY <2>4, <2>5, <2>6, <3>4
    <3>5. CASE op = ">"
      BY <2>4, <2>5, <2>6, <3>5
    <3> QED
      BY <3>1, <3>2, <3>3, <3>4, <3>5 DEF Operators
  <2> QED
    BY <2>1, <2>2, <2>3, <2>7
<1>3. PICK k \in 1..5 : /\ Order[k] = t[i] /\ t[i] \in Within(t[i])
                        /\ \A l \in 1..k - 1 : t[i] \notin Within(Order[l])
  BY <1>2 DEF SplitsAt
<1>4. \A l \in 1..5 : Found(l) \subseteq {i}
  <2> SUFFICES ASSUME NEW l \in 1..5, NEW j \in Found(l) PROVE j = i
    OBVIOUS
  <2>1. j \in DOMAIN t /\ t[j] \in Within(Order[l])
    OBVIOUS
  <2> HIDE DEF Found
  <2> QED
    BY <1>2, <2>1
<1>5. Found(k) = {i}
  BY <1>3, <1>4 DEF SplitsAt
<1>6. \A l \in 1..k - 1 : Found(l) = {}
  <2> SUFFICES ASSUME NEW l \in 1..k - 1 PROVE Found(l) = {}
    OBVIOUS
  <2>1. l \in 1..5 /\ t[i] \notin Within(Order[l])
    BY <1>3
  <2>2. i \notin Found(l)
    BY <2>1
  <2> QED
    BY <1>4, <2>1, <2>2
<1>7. tried \in SUBSET (1..5) /\ k \in tried /\ \A l \in tried : ~(l < k)
  <2>1. \A l \in tried : l \in 1..5 /\ Found(l) # {}
    BY <1>2
  <2>2. k \in tried
    BY <1>2, <1>5
  <2> HIDE DEF tried, Found
  <2>3. ASSUME NEW l \in tried PROVE ~(l < k)
    <3> SUFFICES ASSUME l < k PROVE FALSE
      OBVIOUS
    <3>1. l \in 1..k - 1
      BY <2>1
    <3> QED
      BY <1>6, <2>1, <3>1
  <2> QED
    BY <2>1, <2>2, <2>3
<1>8. k0 = k
  <2> HIDE DEF tried
  <2>1. 5 \in Nat /\ tried # {}
    BY <1>7
  <2>2. Min(tried) \in tried /\ \A l \in tried : Min(tried) <= l
    BY <1>7, <2>1, FirstPlace
  <2>3. Min(tried) <= k /\ ~(Min(tried) < k) /\ Min(tried) \in 1..5
    BY <1>7, <2>2
  <2> QED
    BY <2>3
<1>9. i0 = i
  <2>1. i0 = Min({i})
    BY <1>5, <1>8
  <2>2. {i} \in SUBSET (1..Len(t)) /\ {i} # {} /\ Len(t) \in Nat
    BY DEF SplitsAt
  <2>3. Min({i}) \in {i}
    BY <2>2, FirstPlace
  <2> QED
    BY <2>1, <2>3
<1>10. tried # {}
  BY <1>7
<1> HIDE DEF Found, tried, k0, i0
<1>11. ParseCondition(t) = ConditionAt(t, i)
  BY <1>1, <1>3, <1>8, <1>9, <1>10 DEF SplitsAt, ConditionAt
<1> QED
  BY <1>11, ConditionTypes

-----------------------------------------------------------------------------
(* The texts of partitions: what is not read.                                *)

\* A piece of the text that the code makes a condition of.
Reads(t) == ParseCondition(Unwrap(t)) # Refused

\* Names, operators and marks are different tokens.
LEMMA TextsApart ==
    /\ \A name \in ColumnNames : name # "(" /\ name # ")" /\ name # "'" /\ name # "backquote" /\ name # "comma"
    /\ \A op \in Operators : op \in Signs /\ op # "'" /\ op # "OR"
    /\ \A op \in Signs : op # "'" /\ op # "OR" /\ op # "AND" /\ op # "(" /\ op # ")" /\ op # "comma"
BY WordsAssumption DEF Marks, Signs, Operators

\* A column's name comes first, in backquotes or not.
LEMMA ConditionStarts ==
    ASSUME NEW t \in Seq(AllTokens), NEW i, SplitsAt(t, i)
    PROVE  \/ i = 2 /\ t[1] \in ColumnNames
           \/ i = 4 /\ t[1] = "backquote" /\ t[2] \in ColumnNames /\ t[3] = "backquote"
<1> DEFINE s == SubSeq(t, 1, i - 1)
<1>1. s \in Seq(AllTokens) /\ Len(s) = i - 1 /\ (\A j \in 1..i - 1 : s[j] = t[j]) /\ Identifier(s) # Refused
  BY ConditionTypes DEF SplitsAt
<1>2. i \in 1..Len(t) /\ Len(t) \in Nat
  BY DEF SplitsAt
<1> HIDE DEF s
<1>3. /\ Identifier(s) \in ColumnNames
      /\ \/ Len(s) = 1 /\ s[1] = Identifier(s)
         \/ Len(s) = 3 /\ s[1] = "backquote" /\ s[2] = Identifier(s) /\ s[3] = "backquote"
  BY <1>1, IdentifierFacts
<1>6. i \in Int
  BY <1>2
<1>4. CASE Len(s) = 1
  <2>1. i = 2 /\ 1 \in 1..i - 1
    <3>1. i \in Int /\ i - 1 = 1
      BY <1>1, <1>4, <1>6, Zenon
    <3> QED
      BY <3>1
  <2> QED
    BY <1>1, <1>3, <1>4, <2>1
<1>5. CASE Len(s) = 3
  <2>1. i = 4 /\ 1 \in 1..i - 1 /\ 2 \in 1..i - 1 /\ 3 \in 1..i - 1
    <3>1. i \in Int /\ i - 1 = 3
      BY <1>1, <1>5, <1>6, Zenon
    <3> QED
      BY <3>1
  <2> QED
    BY <1>1, <1>3, <1>5, <2>1
<1> QED
  BY <1>3, <1>4, <1>5

\* What begins with a parenthesis that does not close at the end.
LEMMA ParenthesisUnread ==
    ASSUME NEW t \in Seq(AllTokens), t[1] = "(", Closing(t) # Len(t)
    PROVE  ~Reads(t)
<1> SUFFICES ASSUME Reads(t) PROVE FALSE
  OBVIOUS
<1>1. Unwrapped(t) = t
  BY DEF Unwrapped
<1>2. ParseCondition(t) # Refused
  BY <1>1, UnwrapTypes DEF Reads
<1>3. PICK i : SplitsAt(t, i)
  BY <1>2, ConditionSplits
<1> QED
  BY <1>3, ConditionStarts, TextsApart

\* What begins with NOT.
LEMMA NotUnread ==
    ASSUME NEW t \in Seq(AllTokens), t[1] = "NOT", Len(t) >= 2 => t[2] \notin Signs
    PROVE  ~Reads(t)
<1> SUFFICES ASSUME Reads(t) PROVE FALSE
  OBVIOUS
<1>1. Unwrapped(t) = t
  BY UnwrappedFacts
<1>2. ParseCondition(t) # Refused
  BY <1>1, UnwrapTypes DEF Reads
<1>3. PICK i : SplitsAt(t, i)
  BY <1>2, ConditionSplits
<1>4. i = 2 \/ (i = 4 /\ t[1] = "backquote")
  BY <1>3, ConditionStarts
<1>5. i \in 1..Len(t) /\ t[i] \in Signs
  BY <1>3, TextsApart DEF SplitsAt
<1> QED
  BY <1>4, <1>5

\* Two conditions joined by OR.
OrInside(t) == \E i \in 2..Len(t) : Outer(t, i, "OR") /\ t[i - 1] # "backquote" /\ t[i - 1] # "("

\* An OR outside quotes stays when parentheses are taken off.
LEMMA OrStays ==
    ASSUME NEW S, NEW t \in Seq(S), OrInside(t)
    PROVE  OrInside(Unwrapped(t))
<1> DEFINE x == Unwrapped(t)
<1>1. x \in Seq(S) /\ (x = t \/ (t = Enclosed(x) /\ Len(t) = Len(x) + 2))
  BY UnwrappedFacts
<1> HIDE DEF x
<1>2. CASE x = t
  BY <1>2 DEF x
<1>3. CASE x # t
  <2> DEFINE n == Len(x)
  <2>1. n \in Nat /\ t = Enclosed(x) /\ Len(t) = n + 2
    BY <1>1, <1>3
  <2>2. t[1] = "(" /\ t[n + 2] = ")" /\ \A j \in 1..n : x[j] = t[1 + j]
    <3>1. x \in Seq(S \cup {"(", ")"}) /\ <<"(">> \in Seq(S \cup {"(", ")"}) /\ <<")">> \in Seq(S \cup {"(", ")"})
      BY <1>1
    <3> QED
      BY <2>1, <3>1 DEF Enclosed
  <2>3. Quotes(t, 1) % 2 = 0
    <3>1. Quotes(t, 0) = 0 /\ Quotes(t, 0 + 1) = Quotes(t, 0) + (IF t[0 + 1] = "'" THEN 1 ELSE 0)
      BY QuotesStep
    <3>2. Quotes(t, 1) = 0
      BY <2>2, <3>1
    <3> QED
      BY <3>2
  <2>4. IsPart(t, 1, x)
    <3>1. 1 + Len(x) <= Len(t)
      BY <2>1
    <3> QED
      BY <1>1, <2>2, <2>3, <3>1, PartScans
  <2>5. PICK i \in 2..Len(t) : Outer(t, i, "OR") /\ t[i - 1] # "backquote" /\ t[i - 1] # "("
    BY DEF OrInside
  <2>6. i # 2 /\ i # n + 2
    <3>1. i = 2 => i - 1 = 1
      OBVIOUS
    <3>2. t[i] = "OR"
      BY <2>5 DEF Outer
    <3> QED
      BY <2>2, <2>5, <3>1, <3>2
  <2>7. /\ i - 1 \in 2..n /\ i - 1 \in 0..n /\ i - 1 # 0 /\ 1 + (i - 1) = i
        /\ (i - 1) - 1 \in 1..n /\ 1 + ((i - 1) - 1) = i - 1
    <3> HIDE DEF n
    <3> QED
      BY <2>1, <2>6
  <2>8. Outer(x, i - 1, "OR")
    <3>1. SameToken(t, 1 + (i - 1), x, i - 1)
      BY <2>4, <2>7 DEF IsPart
    <3> QED
      BY <2>5, <2>7, <3>1 DEF SameToken
  <2>9. x[(i - 1) - 1] = t[i - 1]
    BY <2>2, <2>7
  <2>10. OrInside(x)
    BY <2>5, <2>7, <2>8, <2>9 DEF OrInside
  <2> QED
    BY <2>10 DEF x
<1> QED
  BY <1>2, <1>3

\* A text with an OR is not read as a condition.
LEMMA OrUnread ==
    ASSUME NEW t \in Seq(AllTokens), OrInside(t)
    PROVE  ~Reads(t)
<1> SUFFICES ASSUME Reads(t) PROVE FALSE
  OBVIOUS
<1> DEFINE P == {s \in Seq(AllTokens) : OrInside(s)}
           u == Unwrap(t)
<1>1. u \in P
  <2>1. t \in P /\ \A s \in P : Unwrapped(s) \in P
    BY OrStays, UnwrappedFacts
  <2> HIDE DEF P
  <2> QED
    BY <2>1, UnwrapKeeps
<1>2. u \in Seq(AllTokens) /\ OrInside(u) /\ ParseCondition(u) # Refused
  BY <1>1 DEF Reads
<1> HIDE DEF u, P
<1>3. PICK i : SplitsAt(u, i)
  BY <1>2, ConditionSplits
<1>4. PICK j \in 2..Len(u) : Outer(u, j, "OR") /\ u[j - 1] # "backquote" /\ u[j - 1] # "("
  BY <1>2 DEF OrInside
<1>5. i \in 1..Len(u) /\ u[i] # "OR" /\ u[i] # "'" /\ Len(u) \in Nat
  BY <1>2, <1>3, TextsApart DEF SplitsAt
<1>6. u[j] = "OR"
  BY <1>4 DEF Outer
<1>7. /\ i = 2 \/ i = 4
      /\ u[1] # "'"
      /\ i = 4 => u[1] = "backquote" /\ u[2] # "'" /\ u[3] = "backquote"
  BY <1>2, <1>3, ConditionStarts, TextsApart
<1>8. j > i
  <2> SUFFICES ASSUME ~(j > i) PROVE FALSE
    OBVIOUS
  <2>1. j # i
    BY <1>5, <1>6
  <2>2. i = 4 /\ (j = 2 \/ j = 3)
    BY <1>5, <1>7, <2>1
  <2>3. j = 2
    BY <1>6, <1>7, <2>2
  <2>4. j - 1 = 1
    BY <2>3
  <2> QED
    BY <1>4, <1>7, <2>2, <2>4
<1>9. Quotes(u, i) = 0
  <2>1. \A k \in 0..3 : /\ Quotes(u, k) \in Nat
                        /\ Quotes(u, k + 1) = Quotes(u, k) + (IF u[k + 1] = "'" THEN 1 ELSE 0)
    <3>1. 0..3 \subseteq Nat
      OBVIOUS
    <3> QED
      BY <3>1, QuotesStep
  <2>2. Quotes(u, 0) = 0
    BY QuotesStep
  <2>3. 0 \in 0..3 /\ 1 \in 0..3 /\ 2 \in 0..3 /\ 3 \in 0..3 /\ 0 + 1 = 1 /\ 1 + 1 = 2 /\ 2 + 1 = 3 /\ 3 + 1 = 4
    OBVIOUS
  <2>4. Quotes(u, 1) = 0
    BY <1>7, <2>1, <2>2, <2>3
  <2>5. CASE i = 2
    BY <1>5, <2>1, <2>3, <2>4, <2>5
  <2>6. CASE i = 4
    <3>1. Quotes(u, 2) = 0
      BY <1>7, <2>1, <2>3, <2>4, <2>6
    <3>2. Quotes(u, 3) = 0
      BY <1>7, <2>1, <2>3, <2>6, <3>1
    <3> QED
      BY <1>5, <2>1, <2>3, <2>6, <3>2
  <2> QED
    BY <1>7, <2>5, <2>6
<1> DEFINE y == SubSeq(u, i + 1, Len(u))
<1>10. /\ y \in Seq(AllTokens) /\ Len(y) = Len(u) - i /\ (\A k \in 1..Len(u) - i : y[k] = u[i + k])
       /\ Literal(y) # Refused
  BY <1>2, <1>3, ConditionTypes DEF SplitsAt
<1> HIDE DEF y
<1>11. IsPart(u, i, y)
  <2>1. Quotes(u, i) % 2 = 0
    BY <1>9
  <2>2. i \in Nat /\ i + Len(y) <= Len(u) /\ \A k \in 1..Len(y) : y[k] = u[i + k]
    BY <1>5, <1>10
  <2> QED
    BY <1>2, <1>10, <2>1, <2>2, PartScans
<1>12. Outer(y, j - i, "OR")
  <2>1. j - i \in 0..Len(y) /\ j - i # 0 /\ i + (j - i) = j
    BY <1>5, <1>8, <1>10
  <2>2. SameToken(u, i + (j - i), y, j - i)
    BY <1>11, <2>1 DEF IsPart
  <2> QED
    BY <1>4, <2>1, <2>2 DEF SameToken
<1>13. IsQuoted(y) \/ y \in Unquoted
  BY <1>10, LiteralTypes
<1>14. CASE IsQuoted(y)
  BY <1>12, <1>14 DEF IsQuoted, Outer
<1>15. CASE y \in Unquoted
  <2>1. PICK l \in Literals : l.tokens[1] # "'" /\ y = l.tokens
    BY <1>15 DEF Unquoted
  <2>2. \A k \in Outside(y) : y[k] \notin Marks \cup Keywords \cup Signs
    BY <2>1, WordsAssumption
  <2> QED
    BY <1>12, <2>2 DEF Outer, Keywords
<1> QED
  BY <1>13, <1>14, <1>15

-----------------------------------------------------------------------------
(* The texts of partitions: what a written text looks like.                  *)

-----------------------------------------------------------------------------
(* How conditions are written.                                              *)

OuterFree(t, token) == \A i : ~Outer(t, i, token)

\* Without parentheses a text is balanced.
LEMMA FreeLevel ==
    ASSUME NEW S, NEW t \in Seq(S), OuterFree(t, "("), OuterFree(t, ")"), Terminated(t)
    PROVE  Balanced(t)
<1> DEFINE T == {i \in Nat : i \in 0..Len(t) => Level(t, i) = 0}
<1>0. Len(t) \in Nat
  OBVIOUS
<1>1. 0 \in T
  <2>1. 0 \in 0..Len(t)
    BY <1>0
  <2> QED
    BY <2>1, LevelStep
<1>2. ASSUME NEW i \in Nat, i \in T PROVE i + 1 \in T
  <2>0. i + 1 \in Nat
    OBVIOUS
  <2> SUFFICES ASSUME i + 1 \in 0..Len(t) PROVE Level(t, i + 1) = 0
    BY <2>0
  <2>1. i \in 0..Len(t) /\ i < Len(t)
    BY <1>0
  <2>2. Level(t, i) = 0
    BY <1>2, <2>1
  <2>3. Level(t, i + 1) = Level(t, i) + (IF Outer(t, i + 1, "(") THEN 1 ELSE 0)
                                      - (IF Outer(t, i + 1, ")") THEN 1 ELSE 0)
    BY <2>1, LevelStep
  <2> QED
    BY <2>2, <2>3 DEF OuterFree
<1> HIDE DEF T
<1>3. Nat \subseteq T
  BY <1>1, <1>2, NumbersInduction
<1>4. \A i \in 0..Len(t) : Level(t, i) = 0
  BY <1>0, <1>3 DEF T
<1>5. Len(t) \in 0..Len(t)
  BY <1>0
<1> QED
  BY <1>4, <1>5 DEF Balanced

\* What is outside quotes in two texts put together.
LEMMA ConcatOuter ==
    ASSUME NEW S, NEW s \in Seq(S), NEW R, NEW t \in Seq(R), Terminated(s), NEW token
    PROVE  /\ \A i \in 1..Len(s) : Outer(s \o t, i, token) <=> Outer(s, i, token)
           /\ \A i \in 1..Len(t) : Outer(s \o t, Len(s) + i, token) <=> Outer(t, i, token)
<1> DEFINE w == s \o t
<1>1. w \in Seq(S \cup R) /\ Len(s) \in Nat /\ Len(t) \in Nat
  BY ConcatTypes
<1>2. IsPart(w, 0, s) /\ IsPart(w, Len(s), t)
  BY ConcatScans
<1> HIDE DEF w
<1>3. \A i \in 1..Len(s) : Outer(w, i, token) <=> Outer(s, i, token)
  <2> TAKE i \in 1..Len(s)
  <2>1. i \in 0..Len(s) /\ i # 0
    BY <1>1
  <2>2. SameToken(w, i, s, i)
    BY <1>1, <1>2, <2>1, PrefixScans
  <2> QED
    BY <2>2 DEF SameToken
<1>4. \A i \in 1..Len(t) : Outer(w, Len(s) + i, token) <=> Outer(t, i, token)
  <2> TAKE i \in 1..Len(t)
  <2>1. i \in 0..Len(t) /\ i # 0
    BY <1>1
  <2>2. SameToken(w, Len(s) + i, t, i)
    BY <1>2, <2>1 DEF IsPart
  <2> QED
    BY <2>2 DEF SameToken
<1> QED
  BY <1>3, <1>4 DEF w

\* If neither has the token outside quotes, they have not.
LEMMA ConcatFree ==
    ASSUME NEW S, NEW s \in Seq(S), NEW R, NEW t \in Seq(R), Terminated(s), NEW token,
           OuterFree(s, token), OuterFree(t, token)
    PROVE  OuterFree(s \o t, token)
<1> SUFFICES ASSUME NEW i, Outer(s \o t, i, token) PROVE FALSE
  BY DEF OuterFree
<1>1. s \o t \in Seq(S \cup R) /\ Len(s \o t) = Len(s) + Len(t) /\ Len(s) \in Nat /\ Len(t) \in Nat
  BY ConcatTypes
<1>2. i \in 1..Len(s) + Len(t)
  BY <1>1 DEF Outer, Outside
<1>3. \/ i \in 1..Len(s)
      \/ i - Len(s) \in 1..Len(t) /\ Len(s) + (i - Len(s)) = i
  BY <1>1, <1>2
<1>4. CASE i \in 1..Len(s)
  BY <1>4, ConcatOuter DEF OuterFree
<1>5. CASE i - Len(s) \in 1..Len(t) /\ Len(s) + (i - Len(s)) = i
  <2>1. Outer(s \o t, Len(s) + (i - Len(s)), token) <=> Outer(t, i - Len(s), token)
    BY <1>5, ConcatOuter
  <2> QED
    BY <1>5, <2>1 DEF OuterFree
<1> QED
  BY <1>3, <1>4, <1>5

\* A token that is no quote and no parenthesis.
LEMMA WordFree ==
    ASSUME NEW x, x # "'", x # "(", x # ")"
    PROVE  Balanced(<<x>>) /\ Terminated(<<x>>) /\ \A token : token # x => OuterFree(<<x>>, token)
<1>1. /\ <<x>> \in Seq({x}) /\ Terminated(<<x>>) /\ Len(<<x>>) = 1
      /\ \A token : Outer(<<x>>, 1, token) <=> token = x
  BY WordScans
<1>2. \A token : token # x => OuterFree(<<x>>, token)
  <2> SUFFICES ASSUME NEW token, token # x, NEW i, Outer(<<x>>, i, token) PROVE FALSE
    BY DEF OuterFree
  <2>1. i = 1
    BY <1>1 DEF Outer, Outside
  <2> QED
    BY <1>1, <2>1
<1>3. Balanced(<<x>>)
  BY <1>1, <1>2, FreeLevel
<1> QED
  BY <1>1, <1>2, <1>3

\* What the tokens of a condition are like.
Formed(t) == /\ t \in Seq(AllTokens) /\ Len(t) >= 1 /\ Balanced(t) /\ OuterFree(t, "comma")
             /\ t[1] \notin Signs
             /\ t[Len(t)] # "backquote" /\ t[Len(t)] # "(" /\ t[Len(t)] # "AND"

\* The literals of the texts are scanned and read as what they are.
LEMMA LiteralFacts ==
    ASSUME NEW l \in Literals
    PROVE  /\ l.tokens \in Seq(AllTokens) /\ Len(l.tokens) >= 1 /\ Balanced(l.tokens)
           /\ OuterFree(l.tokens, "comma") /\ OuterFree(l.tokens, "AND")
           /\ LET last == l.tokens[Len(l.tokens)] IN last # "backquote" /\ last # "(" /\ last # "AND"
           /\ Literal(l.tokens) = l.tokens /\ l.tokens # Refused
           /\ ValueOf(l.tokens) = l.value
<1> DEFINE t == l.tokens
<1>1. /\ t \in Seq(AllTokens) /\ t # <<>>
      /\ IF t[1] = "'" THEN IsQuoted(t)
         ELSE Terminated(t) /\ \A i \in Outside(t) : t[i] \notin Marks \cup Keywords \cup Signs
      /\ \A m \in Literals : m.tokens = t => m.value = l.value
  BY WordsAssumption
<1>2. t[1] # "'" => t \in Unquoted
  BY DEF Unquoted
<1>3. ValueOf(t) = l.value
  <2> DEFINE known == {m.value : m \in {m \in Literals : m.tokens = t}}
  <2>1. known = {l.value}
    <3>1. l.value \in known
      OBVIOUS
    <3>2. \A v \in known : v = l.value
      BY <1>1
    <3> QED
      BY <3>1, <3>2
  <2>2. ValueOf(t) = IF known = {} THEN 1 + Max(Values) ELSE CHOOSE v \in known : TRUE
    BY DEF ValueOf
  <2> HIDE DEF known, t
  <2> QED
    BY <2>1, <2>2
<1> HIDE DEF t
<1>4. Len(t) \in Nat /\ Len(t) >= 1
  BY <1>1
<1>5. Terminated(t)
  BY <1>1 DEF IsQuoted
<1>6. \A i \in Outside(t) : t[i] \notin Marks \cup Keywords \cup Signs
  BY <1>1 DEF IsQuoted
<1>7. OuterFree(t, "(") /\ OuterFree(t, ")") /\ OuterFree(t, "comma") /\ OuterFree(t, "AND")
  BY <1>6 DEF OuterFree, Outer, Marks, Keywords
<1>8. Balanced(t)
  BY <1>1, <1>5, <1>7, FreeLevel
<1>9. t[Len(t)] # "'" => Len(t) \in Outside(t)
  BY <1>1, <1>4, <1>5 DEF Terminated, Outside
<1>10. t[Len(t)] # "backquote" /\ t[Len(t)] # "(" /\ t[Len(t)] # "AND"
  BY <1>6, <1>9 DEF Marks, Keywords
<1>11. Literal(t) = t /\ t # Refused
  BY <1>1, <1>2, RefusedAssumption DEF Literal
<1> QED
  BY <1>1, <1>3, <1>4, <1>7, <1>8, <1>10, <1>11 DEF t

\* The name of a column, in backquotes or not.
LEMMA NameFacts ==
    ASSUME NEW name \in ColumnNames, NEW c \in {<<name>>, Backquoted(name)}
    PROVE  /\ c \in Seq(AllTokens) /\ Len(c) \in {1, 3} /\ Balanced(c) /\ OuterFree(c, "comma")
           /\ name # "AND" => OuterFree(c, "AND")
           /\ Identifier(c) = name
           /\ Len(c) = 1 => c = <<name>> /\ c[1] = name
           /\ Len(c) = 3 => c = Backquoted(name) /\ c[1] = "backquote" /\ c[2] = name /\ c[3] = "backquote"
<1>1. /\ <<name>> \in Seq(AllTokens) /\ Len(<<name>>) = 1
      /\ Backquoted(name) \in Seq(AllTokens) /\ Len(Backquoted(name)) = 3
      /\ Identifier(<<name>>) = name /\ Identifier(Backquoted(name)) = name
  BY IdentifierOf
<1>2. name # "(" /\ name # ")" /\ name # "'" /\ name # "comma"
  BY TextsApart
<1>3. Balanced(<<name>>) /\ Terminated(<<name>>) /\ \A token : token # name => OuterFree(<<name>>, token)
  BY <1>2, WordFree
<1>4. CASE c = <<name>>
  BY <1>1, <1>2, <1>3, <1>4
<1>5. CASE c = Backquoted(name)
  <2> DEFINE q == <<"backquote">>
             n == <<name>>
  <2>1. /\ Balanced(q) /\ Terminated(q) /\ OuterFree(q, "comma") /\ OuterFree(q, "AND")
        /\ q \in Seq(AllTokens) /\ n \in Seq(AllTokens)
    <3>1. q \in Seq(AllTokens)
      BY DEF AllTokens, Marks
    <3> QED
      BY <1>1, <3>1, WordFree
  <2>2. c = q \o (n \o q) /\ c[1] = "backquote" /\ c[2] = name /\ c[3] = "backquote"
    BY <1>5 DEF Backquoted
  <2> HIDE DEF q, n
  <2>3. n \o q \in Seq(AllTokens)
    BY <2>1
  <2>4. Balanced(n \o q) /\ OuterFree(n \o q, "comma") /\ (name # "AND" => OuterFree(n \o q, "AND"))
    BY <1>2, <1>3, <2>1, ConcatBalanced, ConcatFree DEF n
  <2>5. Balanced(c) /\ OuterFree(c, "comma") /\ (name # "AND" => OuterFree(c, "AND"))
    BY <2>1, <2>2, <2>3, <2>4, ConcatBalanced, ConcatFree
  <2> QED
    BY <1>1, <1>5, <2>2, <2>5
<1> QED
  BY <1>4, <1>5

-----------------------------------------------------------------------------
(* The texts of partitions: comparisons.                                     *)

-----------------------------------------------------------------------------
(* What conditions mean.                                                    *)

Ands(t) == {i \in Outside(t) : t[i] = "AND"}
AndPiece(t, x) == Piece(t, Ands(t), x)

Parsed(t) == ParseCondition(Unwrap(t))
Holds(t) == {p \in Assignments : Compare(p[Parsed(t).column], Parsed(t).operator, ValueOf(Parsed(t).value))}
Meaning(t) == {p \in Assignments : \A x : AndPiece(t, x) => p \in Holds(x)}

\* If all pieces are read, they mean together what the text means.
Sound(t, holds) == (\A x : AndPiece(t, x) => Reads(x)) => holds = Meaning(t)

\* Where a text is split into conditions.
LEMMA AndPlaces ==
    ASSUME NEW S, NEW t \in Seq(S)
    PROVE  /\ Ands(t) \in SUBSET (1..Len(t))
           /\ \A i : i \in Ands(t) <=> Outer(t, i, "AND")
<1>1. DOMAIN t = 1..Len(t)
  OBVIOUS
<1> QED
  BY <1>1 DEF Ands, Outer, Outside

\* Without an AND outside quotes the text is its only piece.
LEMMA WholePiece ==
    ASSUME NEW S, NEW t \in Seq(S), OuterFree(t, "AND")
    PROVE  \A x : AndPiece(t, x) <=> x = t
<1>1. Ands(t) = {}
  BY DEF Ands, OuterFree, Outer
<1>2. Len(t) \in Nat /\ SubSeq(t, 0 + 1, (Len(t) + 1) - 1) = t
  <2>1. Len(t) \in Nat /\ 0 + 1 = 1 /\ (Len(t) + 1) - 1 = Len(t)
    OBVIOUS
  <2>2. SubSeq(t, 1, Len(t)) = t
    OBVIOUS
  <2> QED
    BY <2>1, <2>2
<1>3. Between(Len(t), {}, 0, Len(t) + 1)
  BY <1>2 DEF Between
<1>4. ASSUME NEW a, NEW b, Between(Len(t), {}, a, b) PROVE a = 0 /\ b = Len(t) + 1
  BY <1>4 DEF Between
<1> QED
  BY <1>1, <1>2, <1>3, <1>4 DEF AndPiece, Piece

\* The tokens of a comparison.
Compares(t, name, c, op, l) ==
    /\ name \in ColumnNames /\ c \in {<<name>>, Backquoted(name)} /\ op \in Signs /\ l \in Literals
    /\ c = <<name>> => name \notin Keywords \cup Signs
    /\ t = c \o <<op>> \o l.tokens

Comparing(t, name, c, op, l) ==
    /\ Formed(t) /\ t[1] # "("
    /\ Len(c) \in {1, 3} /\ Len(t) = (Len(c) + 1) + Len(l.tokens) /\ Len(l.tokens) \in Nat
    /\ \A j \in 1..Len(c) : t[j] = c[j]
    /\ t[Len(c) + 1] = op
    /\ \A j \in 1..Len(l.tokens) : t[(Len(c) + 1) + j] = l.tokens[j]
    /\ name # "AND" => OuterFree(t, "AND")
    /\ name = "AND" => Len(c) = 3 /\ Outer(t, 2, "AND")

\* A comparison is column, operator and literal, and is scanned as one.
LEMMA ComparisonTokens ==
    ASSUME NEW t, NEW name, NEW c, NEW op, NEW l, Compares(t, name, c, op, l)
    PROVE  Comparing(t, name, c, op, l)
<1> DEFINE v == l.tokens
           s == c \o <<op>>
<1>1. name \in ColumnNames /\ c \in {<<name>>, Backquoted(name)} /\ op \in Signs /\ l \in Literals /\ t = s \o v
  BY DEF Compares
<1>2. /\ v \in Seq(AllTokens) /\ Len(v) >= 1 /\ Balanced(v) /\ OuterFree(v, "comma") /\ OuterFree(v, "AND")
      /\ v[Len(v)] # "backquote" /\ v[Len(v)] # "(" /\ v[Len(v)] # "AND"
  BY <1>1, LiteralFacts
<1>3. /\ c \in Seq(AllTokens) /\ Len(c) \in {1, 3} /\ Balanced(c) /\ OuterFree(c, "comma")
      /\ name # "AND" => OuterFree(c, "AND")
      /\ Len(c) = 1 => c = <<name>> /\ c[1] = name
      /\ Len(c) = 3 => c = Backquoted(name) /\ c[1] = "backquote" /\ c[2] = name /\ c[3] = "backquote"
  BY <1>1, NameFacts
<1>4. op # "'" /\ op # "(" /\ op # ")" /\ op # "AND" /\ op # "comma"
  BY <1>1, TextsApart
<1> DEFINE o == <<op>>
<1>5. o \in Seq(AllTokens) /\ Len(o) = 1 /\ o[1] = op /\ Balanced(o) /\ OuterFree(o, "AND") /\ OuterFree(o, "comma")
  <2>1. op \in AllTokens
    BY <1>1 DEF AllTokens
  <2> QED
    BY <1>4, <2>1, WordFree
<1>6. s = c \o o
  OBVIOUS
<1> HIDE DEF v, s, o
<1>7. /\ s \in Seq(AllTokens) /\ Len(s) = Len(c) + 1 /\ (\A j \in 1..Len(c) : s[j] = c[j]) /\ s[Len(c) + 1] = op
  <2>1. /\ Len(c \o o) = Len(c) + Len(o)
        /\ \A j \in 1..Len(c) : (c \o o)[j] = c[j]
        /\ \A j \in 1..Len(o) : (c \o o)[Len(c) + j] = o[j]
    BY <1>3, <1>5, ConcatTypes
  <2>2. c \o o \in Seq(AllTokens)
    BY <1>3, <1>5
  <2>3. 1 \in 1..Len(o)
    BY <1>5
  <2> QED
    BY <1>5, <1>6, <2>1, <2>2, <2>3
<1>8. Balanced(s) /\ OuterFree(s, "comma") /\ (name # "AND" => OuterFree(s, "AND")) /\ Terminated(s) /\ Terminated(c)
  <2>1. Terminated(c)
    BY <1>3 DEF Balanced
  <2>2. Balanced(s) /\ OuterFree(s, "comma") /\ (name # "AND" => OuterFree(s, "AND"))
    BY <1>3, <1>5, <1>6, <2>1, ConcatBalanced, ConcatFree
  <2> QED
    BY <2>1, <2>2 DEF Balanced
<1>9. t \in Seq(AllTokens) /\ Balanced(t) /\ OuterFree(t, "comma") /\ (name # "AND" => OuterFree(t, "AND"))
  <2>1. t \in Seq(AllTokens)
    BY <1>1, <1>2, <1>7
  <2> QED
    BY <1>1, <1>2, <1>7, <1>8, <2>1, ConcatBalanced, ConcatFree
<1>10. /\ Len(t) = Len(s) + Len(v) /\ Len(s) \in Nat /\ Len(v) \in Nat
       /\ \A j \in 1..Len(s) : t[j] = s[j]
       /\ \A j \in 1..Len(v) : t[Len(s) + j] = v[j]
  <2>0. s \in Seq(AllTokens) /\ v \in Seq(AllTokens)
    BY <1>2, <1>7
  <2>1. /\ Len(s \o v) = Len(s) + Len(v) /\ Len(s) \in Nat /\ Len(v) \in Nat
        /\ \A j \in 1..Len(s) : (s \o v)[j] = s[j]
        /\ \A j \in 1..Len(v) : (s \o v)[Len(s) + j] = v[j]
    BY <2>0, ConcatTypes
  <2> QED
    BY <1>1, <2>1
<1>11. \A j \in 1..Len(c) : j \in 1..Len(s) /\ t[j] = c[j]
  <2>1. \A j \in 1..Len(c) : j \in 1..Len(s)
    BY <1>3, <1>7
  <2> QED
    BY <1>7, <1>10, <2>1
<1>12. t[Len(c) + 1] = op
  <2>1. Len(c) + 1 \in 1..Len(s)
    BY <1>3, <1>7
  <2> QED
    BY <1>7, <1>10, <2>1
<1>13. t[1] = c[1]
  <2>1. 1 \in 1..Len(c)
    BY <1>3
  <2> QED
    BY <1>11, <2>1
<1>14. t[1] # "(" /\ t[1] \notin Signs
  <2>1. name # "(" /\ "backquote" \notin Signs
    BY <1>1, TextsApart DEF Signs, Operators
  <2>2. CASE Len(c) = 1
    BY <1>3, <1>13, <2>1, <2>2 DEF Compares
  <2>3. CASE Len(c) = 3
    BY <1>3, <1>13, <2>1, <2>3
  <2> QED
    BY <1>3, <2>2, <2>3
<1>15. t[Len(t)] # "backquote" /\ t[Len(t)] # "(" /\ t[Len(t)] # "AND"
  <2>1. Len(v) \in 1..Len(v)
    BY <1>2, <1>10
  <2>2. t[Len(s) + Len(v)] = v[Len(v)]
    BY <1>10, <2>1
  <2> QED
    BY <1>2, <1>10, <2>2
<1>16. Formed(t)
  <2>1. Len(t) >= 1
    BY <1>2, <1>10
  <2> QED
    BY <1>9, <1>14, <1>15, <2>1 DEF Formed
<1>17. ASSUME name = "AND" PROVE Len(c) = 3 /\ Outer(t, 2, "AND")
  <2>1. Len(c) = 3
    BY <1>3, <1>17 DEF Compares, Keywords
  <2>2. t[1] = "backquote" /\ t[2] = "AND"
    <3>1. 2 \in 1..Len(c)
      BY <2>1
    <3> QED
      BY <1>3, <1>11, <1>13, <1>17, <2>1, <3>1
  <2>3. Quotes(t, 2) = 0
    <3>1. /\ Quotes(t, 0) = 0 /\ Quotes(t, 0 + 1) = Quotes(t, 0) + (IF t[0 + 1] = "'" THEN 1 ELSE 0)
      BY QuotesStep
    <3>2. Quotes(t, 1) = 0
      BY <2>2, <3>1
    <3>3. 1 \in Nat /\ 1 + 1 = 2
      OBVIOUS
    <3>4. Quotes(t, 1 + 1) = Quotes(t, 1) + (IF t[1 + 1] = "'" THEN 1 ELSE 0)
      BY <3>3, QuotesStep
    <3> QED
      BY <2>2, <3>2, <3>3, <3>4
  <2>4. 2 \in DOMAIN t /\ Quotes(t, 2) % 2 = 0
    <3>1. Len(t) \in Nat /\ 2 <= Len(t) /\ DOMAIN t = 1..Len(t)
      BY <1>7, <1>9, <1>10, <2>1
    <3> QED
      BY <2>3, <3>1
  <2> QED
    BY <2>1, <2>2, <2>4 DEF Outer, Outside
<1> QED
  BY <1>3, <1>7, <1>9, <1>10, <1>11, <1>12, <1>14, <1>16, <1>17 DEF v, Comparing

\* It can be split nowhere but at its operator.
LEMMA ComparisonSplit ==
    ASSUME NEW t, NEW name, NEW c, NEW op, NEW l, Compares(t, name, c, op, l)
    PROVE  /\ t \in Seq(AllTokens) /\ Unwrap(t) = t
           /\ ConditionAt(t, Len(c) + 1) = [column |-> name, operator |-> op, value |-> l.tokens]
           /\ op \in Operators => SplitsAt(t, Len(c) + 1)
           /\ \A i : SplitsAt(t, i) => i = Len(c) + 1
<1> DEFINE v == l.tokens
<1>1. /\ t \in Seq(AllTokens) /\ t[1] # "("
      /\ Len(c) \in {1, 3} /\ Len(t) = (Len(c) + 1) + Len(v) /\ Len(v) \in Nat
      /\ \A j \in 1..Len(c) : t[j] = c[j]
      /\ t[Len(c) + 1] = op
      /\ \A j \in 1..Len(v) : t[(Len(c) + 1) + j] = v[j]
  <2>1. Comparing(t, name, c, op, l)
    BY ComparisonTokens
  <2> QED
    BY <2>1 DEF Comparing, Formed
<1>2. /\ v \in Seq(AllTokens) /\ Literal(v) = v /\ v # Refused
  BY LiteralFacts DEF Compares
<1>3. /\ c \in Seq(AllTokens) /\ Identifier(c) = name /\ name \in ColumnNames
      /\ Len(c) = 1 => c[1] = name
      /\ Len(c) = 3 => c[1] = "backquote"
  <2>1. name \in ColumnNames /\ c \in {<<name>>, Backquoted(name)}
    BY DEF Compares
  <2>2. Identifier(c) = name
    BY <2>1, NameFacts
  <2>3. (Len(c) = 1 => c[1] = name) /\ (Len(c) = 3 => c[1] = "backquote")
    BY <2>1, NameFacts
  <2>4. c \in Seq(AllTokens)
    BY <2>1, NameFacts
  <2> QED
    BY <2>1, <2>2, <2>3, <2>4
<1> HIDE DEF v
<1>4. Unwrap(t) = t
  <2>1. Unwrapped(t) = t
    BY <1>1, UnwrappedFacts
  <2> QED
    BY <1>1, <2>1, UnwrapTypes
<1> DEFINE k == Len(c) + 1
<1>5. k \in 1..Len(t) /\ k \in Nat /\ k - 1 = Len(c) /\ Len(t) \in Nat /\ Len(t) - k = Len(v)
  BY <1>1
<1>6. SubSeq(t, 1, k - 1) = c
  <2>1. 0 \in Nat /\ k - 1 \in Nat /\ 0 <= k - 1 /\ k - 1 <= Len(t)
    BY <1>1, <1>5
  <2> DEFINE s == SubSeq(t, 0 + 1, k - 1)
  <2>2. s \in Seq(AllTokens) /\ Len(s) = (k - 1) - 0 /\ \A j \in 1..((k - 1) - 0) : s[j] = t[0 + j]
    BY <1>1, <2>1, RestOf
  <2>3. s = SubSeq(t, 1, k - 1) /\ (k - 1) - 0 = Len(c) /\ \A j \in 1..Len(c) : 0 + j = j
    BY <1>1, <1>5
  <2> HIDE DEF s, k
  <2>4. Len(s) = Len(c) /\ \A j \in 1..Len(c) : s[j] = c[j]
    BY <1>1, <2>2, <2>3
  <2>5. s = c
    BY <1>3, <2>2, <2>4
  <2> QED
    BY <2>3, <2>5
<1>7. SubSeq(t, k + 1, Len(t)) = v
  <2>1. k \in Nat /\ Len(t) \in Nat /\ k <= Len(t) /\ Len(t) <= Len(t)
    BY <1>5
  <2> DEFINE s == SubSeq(t, k + 1, Len(t))
  <2>2. s \in Seq(AllTokens) /\ Len(s) = Len(t) - k /\ \A j \in 1..Len(t) - k : s[j] = t[k + j]
    BY <1>1, <2>1, RestOf
  <2> HIDE DEF s
  <2>3. Len(s) = Len(v) /\ \A j \in 1..Len(v) : s[j] = v[j]
    BY <1>1, <1>5, <2>2
  <2>4. s = v
    BY <1>2, <2>2, <2>3
  <2> QED
    BY <2>4 DEF s
<1>8. t[k] = op
  BY <1>1
<1> HIDE DEF k
<1>9. ConditionAt(t, k) = [column |-> name, operator |-> op, value |-> v]
  BY <1>2, <1>3, <1>6, <1>7, <1>8 DEF ConditionAt
<1>10. op \in Operators => SplitsAt(t, k)
  <2>1. k \in DOMAIN t
    BY <1>1, <1>5
  <2>2. name # Refused
    BY <1>3, RefusedAssumption
  <2> QED
    BY <1>2, <1>3, <1>6, <1>7, <1>8, <2>1, <2>2 DEF SplitsAt
<1>11. ASSUME NEW i, SplitsAt(t, i) PROVE i = k
  <2>1. \/ i = 2 /\ t[1] \in ColumnNames
        \/ i = 4 /\ t[1] = "backquote"
    BY <1>1, <1>11, ConditionStarts
  <2>2. t[1] = c[1]
    <3>1. Len(c) \in {1, 3}
      BY <1>1
    <3>2. 1 \in 1..Len(c)
      BY <3>1
    <3> QED
      BY <1>1, <3>2
  <2>3. CASE Len(c) = 1
    BY <1>3, <2>1, <2>2, <2>3, TextsApart DEF k
  <2>4. CASE Len(c) = 3
    BY <1>3, <2>1, <2>2, <2>4, TextsApart DEF k
  <2> QED
    BY <1>1, <2>3, <2>4
<1> QED
  BY <1>1, <1>4, <1>9, <1>10, <1>11 DEF k, v

-----------------------------------------------------------------------------
(* The texts of partitions: two texts with a separator.                      *)

\* The piece a token is in.
LEMMA PieceAround ==
    ASSUME NEW S, NEW t \in Seq(S), NEW C \in SUBSET (1..Len(t)), NEW k \in 1..Len(t), k \notin C
    PROVE  \E a, b : Between(Len(t), C, a, b) /\ a < k /\ k < b
<1> DEFINE n == Len(t)
           a == PieceStart(C, Passed(C, k) + 1)
           b == PieceEnd(t, C, a)
<1>1. n \in Nat /\ k \in Nat /\ k <= n
  OBVIOUS
<1>2. Passed(C, k) \in Nat /\ Passed(C, k) <= Cardinality(C) /\ Cardinality(C) \in Nat
  <2>1. Passed(C, n) = Cardinality(C) /\ Cardinality(C) \in Nat
    BY <1>1, PieceStarts
  <2>2. Passed(C, k) \in Nat
    BY <1>1, PassedStep
  <2>3. k < n => Passed(C, k) <= Passed(C, n)
    BY <1>1, PassedMore
  <2>4. k = n \/ k < n
    BY <1>1
  <2> QED
    BY <2>1, <2>2, <2>3, <2>4
<1>3. a \in {0} \cup C /\ Passed(C, a) = Passed(C, k)
  <2>1. Passed(C, k) + 1 \in 1..Cardinality(C) + 1 /\ (Passed(C, k) + 1) - 1 = Passed(C, k)
    BY <1>2
  <2>2. a \in {0} \cup C /\ Passed(C, a) = (Passed(C, k) + 1) - 1
    BY <1>1, <2>1, PieceStarts
  <2> QED
    BY <2>1, <2>2
<1> HIDE DEF a
<1>4. Between(n, C, a, b)
  BY <1>3, PieceEnds
<1> HIDE DEF b
<1>5. a \in Nat /\ b \in Nat /\ a < b /\ a # k /\ b # k
  <2>1. \A c \in C : c \in Nat /\ c # k
    OBVIOUS
  <2>2. b \in C \cup {n + 1} /\ a < b
    BY <1>4 DEF Between
  <2>3. b \in Nat /\ b # k
    <3> HIDE DEF n
    <3> QED
      BY <1>1, <2>1, <2>2
  <2> QED
    BY <1>1, <1>3, <2>1, <2>2, <2>3
<1>6. a < k
  <2> SUFFICES ASSUME k < a PROVE FALSE
    BY <1>1, <1>5
  <2>1. a \in C
    BY <1>1, <1>3
  <2>2. Passed(C, k) < Passed(C, a)
    BY <1>1, <1>5, <2>1, PassedMore
  <2> QED
    BY <1>2, <1>3, <2>2
<1>7. k < b
  <2> SUFFICES ASSUME b < k PROVE FALSE
    BY <1>1, <1>5
  <2>1. b \in C
    <3>1. b # n + 1
      BY <1>1, <1>5
    <3> QED
      BY <1>4, <3>1 DEF Between
  <2>2. Passed(C, a) < Passed(C, b)
    BY <1>5, <2>1, PassedMore
  <2>3. Passed(C, b) <= Passed(C, k)
    BY <1>1, <1>5, PassedMore
  <2>4. Passed(C, b) \in Nat
    BY <1>5, PassedStep
  <2> QED
    BY <1>2, <1>3, <2>2, <2>3, <2>4
<1> QED
  BY <1>4, <1>6, <1>7

\* Where the separators are in a text and another after one more.
Shifted(B, m) == {m + i : i \in B}

CutsJoin(n, A, l, B, m, C) ==
    /\ C \in SUBSET (1..(m + l))
    /\ \A i \in 0..n : Passed(C, i) = Passed(A, i)
    /\ \A i \in Nat : Passed(C, m + i) = (Cardinality(A) + 1) + Passed(B, i)
    /\ Cardinality(C) = (Cardinality(A) + 1) + Cardinality(B)

\* The separators of two texts with one more between them.
LEMMA JoinedCuts ==
    ASSUME NEW n \in Nat, NEW A \in SUBSET (1..n), NEW l \in Nat, NEW B \in SUBSET (1..l),
           NEW m, m = n + 1, NEW C, C = A \cup {m} \cup Shifted(B, m)
    PROVE  CutsJoin(n, A, l, B, m, C)
<1>1. C \in SUBSET (1..(m + l))
  <2> SUFFICES ASSUME NEW c \in C PROVE c \in 1..(m + l)
    OBVIOUS
  <2>1. CASE c \in A
    BY <2>1
  <2>2. CASE c = m
    BY <2>2
  <2>3. CASE c \in Shifted(B, m)
    BY <2>3 DEF Shifted
  <2> QED
    BY <2>1, <2>2, <2>3
<1>2. \A i \in 0..n : Passed(C, i) = Passed(A, i)
  <2> TAKE i \in 0..n
  <2>1. C \cap (1..i) = A \cap (1..i)
    <3>1. \A c \in Shifted(B, m) : c \notin 1..i
      BY DEF Shifted
    <3>2. m \notin 1..i
      OBVIOUS
    <3> QED
      BY <3>1, <3>2
  <2> QED
    BY <2>1 DEF Passed
<1>3. \A i \in Nat : m + (i + 1) \in C <=> i + 1 \in B
  <2> TAKE i \in Nat
  <2>1. m + (i + 1) \notin A /\ m + (i + 1) # m
    OBVIOUS
  <2>2. \A c \in B : c \in Nat /\ (m + c = m + (i + 1) <=> c = i + 1)
    OBVIOUS
  <2> QED
    BY <2>1, <2>2 DEF Shifted
<1> DEFINE T == {i \in Nat : Passed(C, m + i) = (Cardinality(A) + 1) + Passed(B, i)}
<1>4. 0 \in T
  <2>1. Passed(C, n) = Cardinality(A) /\ Cardinality(A) \in Nat
    <3>1. n \in 0..n
      OBVIOUS
    <3>2. Passed(A, n) = Cardinality(A) /\ Cardinality(A) \in Nat
      BY PieceStarts
    <3> QED
      BY <1>2, <3>1, <3>2
  <2>2. Passed(C, n + 1) = Passed(C, n) + (IF n + 1 \in C THEN 1 ELSE 0)
    BY PassedStep
  <2>3. Passed(B, 0) = 0
    BY PassedStep
  <2>4. m + 0 = n + 1 /\ n + 1 \in C
    OBVIOUS
  <2>5. Passed(C, m + 0) = (Cardinality(A) + 1) + Passed(B, 0)
    BY <2>1, <2>2, <2>3, <2>4
  <2> QED
    BY <2>5
<1>5. ASSUME NEW i \in Nat, i \in T PROVE i + 1 \in T
  <2>1. m + i \in Nat /\ (m + i) + 1 = m + (i + 1)
    OBVIOUS
  <2>2. Passed(C, (m + i) + 1) = Passed(C, m + i) + (IF (m + i) + 1 \in C THEN 1 ELSE 0)
    BY <2>1, PassedStep
  <2>3. Passed(B, i + 1) = Passed(B, i) + (IF i + 1 \in B THEN 1 ELSE 0) /\ Passed(B, i) \in Nat
    BY PassedStep
  <2>4. Passed(C, m + i) = (Cardinality(A) + 1) + Passed(B, i)
    BY <1>5
  <2>5. Cardinality(A) \in Nat
    BY PieceStarts
  <2>6. Passed(C, m + (i + 1)) = Passed(C, m + i) + (IF i + 1 \in B THEN 1 ELSE 0)
    BY <1>3, <2>1, <2>2
  <2>7. Passed(C, m + (i + 1)) = (Cardinality(A) + 1) + Passed(B, i + 1)
    BY <2>3, <2>4, <2>5, <2>6
  <2>8. i + 1 \in Nat
    OBVIOUS
  <2> QED
    BY <2>7, <2>8
<1> HIDE DEF T
<1>6. Nat \subseteq T
  BY <1>4, <1>5, NumbersInduction
<1>7. \A i \in Nat : Passed(C, m + i) = (Cardinality(A) + 1) + Passed(B, i)
  BY <1>6 DEF T
<1>8. Cardinality(C) = (Cardinality(A) + 1) + Cardinality(B)
  <2>1. m + l \in Nat
    OBVIOUS
  <2>2. Passed(C, m + l) = Cardinality(C)
    BY <1>1, <2>1, PieceStarts
  <2>3. Passed(B, l) = Cardinality(B)
    BY PieceStarts
  <2> QED
    BY <1>7, <2>2, <2>3
<1> QED
  BY <1>1, <1>2, <1>7, <1>8 DEF CutsJoin

\* A function on 1..n is a sequence.
LEMMA IsSequence ==
    ASSUME NEW n \in Nat, NEW X, NEW f, f = [k \in 1..n |-> f[k]], \A k \in 1..n : f[k] \in X
    PROVE  f \in Seq(X) /\ Len(f) = n
OBVIOUS

\* The text w is s, a separator, and t; A and B are where they are cut.
PiecesAt(S, w, s, A, t, B) ==
    /\ s \in Seq(S) /\ t \in Seq(S) /\ w \in Seq(S) /\ Len(w) = (Len(s) + 1) + Len(t)
    /\ \A j \in 1..Len(s) : w[j] = s[j]
    /\ \A j \in 1..Len(t) : w[(Len(s) + 1) + j] = t[j]
    /\ A \in SUBSET (1..Len(s)) /\ B \in SUBSET (1..Len(t))

\* The pieces of the one text, then those of the other.
LEMMA PiecesJoin ==
    ASSUME NEW S, NEW w, NEW s, NEW A, NEW t, NEW B, PiecesAt(S, w, s, A, t, B),
           NEW C, C = A \cup {Len(s) + 1} \cup Shifted(B, Len(s) + 1)
    PROVE  C \in SUBSET (1..Len(w)) /\ Pieces(w, C) = Pieces(s, A) \o Pieces(t, B)
<1>0. /\ s \in Seq(S) /\ t \in Seq(S) /\ w \in Seq(S) /\ Len(w) = (Len(s) + 1) + Len(t)
      /\ \A j \in 1..Len(s) : w[j] = s[j]
      /\ \A j \in 1..Len(t) : w[(Len(s) + 1) + j] = t[j]
      /\ A \in SUBSET (1..Len(s)) /\ B \in SUBSET (1..Len(t))
  BY DEF PiecesAt
<1> DEFINE n == Len(s)
           l == Len(t)
           m == n + 1
           N == Cardinality(A) + 1
           M == Cardinality(B) + 1
           At(u, D, k) == SubSeq(u, PieceStart(D, k) + 1, PieceEnd(u, D, PieceStart(D, k)) - 1)
<1>a. Cardinality(A) \in Nat /\ Cardinality(B) \in Nat
  <2>1. A \in SUBSET (1..Len(s)) /\ B \in SUBSET (1..Len(t)) /\ Len(s) \in Nat /\ Len(t) \in Nat
    BY <1>0
  <2> QED
    BY <2>1, PieceStarts
<1>b. ASSUME Cardinality(C) = (Cardinality(A) + 1) + Cardinality(B)
      PROVE  N \in Nat /\ M \in Nat /\ Cardinality(C) + 1 = N + M
  <2> DEFINE x == Cardinality(A)
             y == Cardinality(B)
             z == Cardinality(C)
  <2>1. x \in Nat /\ y \in Nat /\ z = (x + 1) + y
    BY <1>a, <1>b
  <2> HIDE DEF x, y, z
  <2>2. x + 1 \in Nat /\ y + 1 \in Nat /\ z + 1 = (x + 1) + (y + 1)
    BY <2>1
  <2> QED
    BY <2>2 DEF x, y, z
<1> USE <1>0
<1>1. n \in Nat /\ l \in Nat /\ Len(w) = m + l /\ m \in Nat
  OBVIOUS
<1>2. /\ C \in SUBSET (1..Len(w))
      /\ \A i \in 0..n : Passed(C, i) = Passed(A, i)
      /\ \A i \in Nat : Passed(C, m + i) = N + Passed(B, i)
      /\ Cardinality(C) = N + Cardinality(B)
  <2>1. CutsJoin(n, A, l, B, m, C)
    BY <1>1, JoinedCuts
  <2> QED
    BY <1>1, <2>1 DEF CutsJoin
<1>3. /\ N \in Nat /\ M \in Nat /\ Cardinality(A) \in Nat /\ Cardinality(B) \in Nat /\ Cardinality(C) + 1 = N + M
      /\ \A k \in 1..N : PieceStart(A, k) \in {0} \cup A /\ Passed(A, PieceStart(A, k)) = k - 1
      /\ \A k \in 1..M : PieceStart(B, k) \in {0} \cup B /\ Passed(B, PieceStart(B, k)) = k - 1
      /\ \A a \in {0} \cup C : PieceStart(C, Passed(C, a) + 1) = a
  <2>1. Cardinality(A) \in Nat /\ Cardinality(B) \in Nat /\ Len(w) \in Nat
    BY <1>1, PieceStarts
  <2>2. \A k \in 1..N : PieceStart(A, k) \in {0} \cup A /\ Passed(A, PieceStart(A, k)) = k - 1
    BY <1>1, PieceStarts
  <2>3. \A k \in 1..M : PieceStart(B, k) \in {0} \cup B /\ Passed(B, PieceStart(B, k)) = k - 1
    BY <1>1, PieceStarts
  <2>4. \A a \in {0} \cup C : PieceStart(C, Passed(C, a) + 1) = a
    BY <1>2, <2>1, PieceStarts
  <2>5. N \in Nat /\ M \in Nat /\ Cardinality(C) + 1 = N + M
    <3>1. Cardinality(C) = (Cardinality(A) + 1) + Cardinality(B)
      BY <1>2, Zenon
    <3> QED
      BY <1>b, <3>1
  <2> QED
    BY <2>1, <2>2, <2>3, <2>4, <2>5
<1>4. /\ \A c \in A : c \in 1..n
      /\ \A c \in B : c \in 1..l
      /\ \A c : c \in C <=> c \in A \/ c = m \/ \E i \in B : c = m + i
  <2>1. \A c : c \in Shifted(B, m) <=> \E i \in B : c = m + i
    BY DEF Shifted
  <2> QED
    BY <2>1
<1>5. /\ Pieces(w, C) = [k \in 1..Cardinality(C) + 1 |-> At(w, C, k)]
      /\ Pieces(s, A) = [k \in 1..N |-> At(s, A, k)]
      /\ Pieces(t, B) = [k \in 1..M |-> At(t, B, k)]
  BY DEF Pieces
<1> HIDE DEF N, M
<1>6. ASSUME NEW k \in 1..N PROVE At(w, C, k) = At(s, A, k)
  <2> DEFINE a == PieceStart(A, k)
             b == PieceEnd(s, A, a)
  <2>1. a \in {0} \cup A /\ Passed(A, a) = k - 1
    BY <1>3
  <2>2. Between(n, A, a, b)
    BY <2>1, PieceEnds
  <2> HIDE DEF a, b
  <2>3. a \in 0..n /\ a \in {0} \cup C
    BY <1>1, <1>4, <2>1
  <2>4. PieceStart(C, k) = a
    <3>1. Passed(C, a) = k - 1
      BY <1>2, <2>1, <2>3
    <3>2. (k - 1) + 1 = k
      OBVIOUS
    <3>3. PieceStart(C, Passed(C, a) + 1) = a
      BY <1>3, <2>3
    <3> QED
      BY <3>1, <3>2, <3>3
  <2>5. b \in A \cup {m} /\ a < b /\ \A c \in A : c <= a \/ c >= b
    BY <2>2 DEF Between
  <2>6. b \in 1..m
    BY <1>1, <1>4, <2>5
  <2>7. Between(Len(w), C, a, b)
    <3>1. b \in C
      BY <1>4, <2>5
    <3>2. ASSUME NEW c \in C PROVE c <= a \/ c >= b
      <4>1. CASE c \in A
        BY <2>5, <4>1
      <4>2. CASE c = m
        BY <2>6, <4>2
      <4>3. ASSUME NEW i \in B, c = m + i PROVE c >= b
        <5>1. i \in Nat
          BY <1>1, <1>4
        <5> QED
          BY <1>1, <2>6, <4>3, <5>1
      <4> QED
        BY <1>4, <4>1, <4>2, <4>3
    <3> QED
      BY <2>3, <2>5, <3>1, <3>2 DEF Between
  <2>8. PieceEnd(w, C, a) = b
    BY <1>2, <2>3, <2>7, PieceEnds
  <2>9. SubSeq(w, a + 1, b - 1) = SubSeq(s, a + 1, b - 1)
    <3> DEFINE c == b - 1
    <3>1. a \in Nat /\ c \in Nat /\ a <= c /\ c <= Len(s) /\ c <= Len(w)
      BY <1>1, <2>3, <2>5, <2>6
    <3> HIDE DEF c
    <3> DEFINE x == SubSeq(w, a + 1, c)
               y == SubSeq(s, a + 1, c)
    <3>2. y \in Seq(S) /\ Len(y) = c - a /\ \A i \in 1..(c - a) : y[i] = s[a + i]
      BY <3>1, RestOf, SMTT(30)
    <3>3. x \in Seq(S) /\ Len(x) = c - a /\ \A i \in 1..(c - a) : x[i] = w[a + i]
      BY <3>1, RestOf, SMTT(30)
    <3>4. \A i \in 1..(c - a) : a + i \in 1..Len(s)
      BY <1>1, <3>1
    <3> HIDE DEF x, y
    <3>5. \A i \in 1..(c - a) : x[i] = y[i]
      BY <3>2, <3>3, <3>4
    <3>6. x = y
      BY <3>2, <3>3, <3>5
    <3> QED
      BY <3>6 DEF x, y, c
  <2> QED
    BY <2>4, <2>8, <2>9 DEF a, b
<1>7. ASSUME NEW k \in 1..M PROVE At(w, C, N + k) = At(t, B, k)
  <2> DEFINE a == PieceStart(B, k)
             b == PieceEnd(t, B, a)
  <2>1. a \in {0} \cup B /\ Passed(B, a) = k - 1
    BY <1>3
  <2>2. Between(l, B, a, b)
    BY <2>1, PieceEnds
  <2> HIDE DEF a, b
  <2>3. a \in 0..l /\ m + a \in {0} \cup C
    <3>1. a \in 0..l
      <4>1. CASE a = 0
        BY <1>1, <4>1
      <4>2. CASE a \in B
        BY <1>4, <4>2
      <4> QED
        BY <2>1, <4>1, <4>2
    <3>2. CASE a = 0
      <4>1. m + a = m
        BY <1>1, <3>2
      <4> QED
        BY <1>4, <3>1, <4>1
    <3>3. CASE a \in B
      BY <1>4, <3>1, <3>3
    <3> QED
      BY <2>1, <3>2, <3>3
  <2>4. PieceStart(C, N + k) = m + a
    <3>1. Passed(C, m + a) = N + (k - 1)
      <4>1. a \in Nat
        BY <2>3
      <4>2. Passed(C, m + a) = N + Passed(B, a)
        BY <1>2, <4>1
      <4> QED
        BY <2>1, <4>2
    <3>2. (N + (k - 1)) + 1 = N + k
      BY <1>3
    <3>3. PieceStart(C, Passed(C, m + a) + 1) = m + a
      BY <1>3, <2>3
    <3> QED
      BY <3>1, <3>2, <3>3
  <2>5. b \in B \cup {l + 1} /\ a < b /\ \A c \in B : c <= a \/ c >= b
    BY <2>2 DEF Between
  <2>6. b \in 1..l + 1
    BY <1>1, <1>4, <2>5
  <2>7. Between(Len(w), C, m + a, m + b)
    <3>1. m + b \in C \cup {Len(w) + 1}
      <4>1. CASE b \in B
        BY <1>4, <4>1
      <4>2. CASE b = l + 1
        BY <1>1, <4>2
      <4> QED
        BY <2>5, <4>1, <4>2
    <3>2. ASSUME NEW c \in C PROVE c <= m + a \/ c >= m + b
      <4>1. CASE c \in A
        BY <1>1, <1>4, <2>3, <4>1
      <4>2. CASE c = m
        BY <1>1, <2>3, <4>2
      <4>3. ASSUME NEW i \in B, c = m + i PROVE c <= m + a \/ c >= m + b
        <5>1. i \in Nat /\ (i <= a \/ i >= b)
          BY <1>1, <1>4, <2>5
        <5> QED
          BY <1>1, <2>3, <2>6, <4>3, <5>1
      <4> QED
        BY <1>4, <4>1, <4>2, <4>3
    <3>3. m + a < m + b
      BY <1>1, <2>3, <2>5, <2>6
    <3> QED
      BY <2>3, <3>1, <3>2, <3>3 DEF Between
  <2>8. PieceEnd(w, C, m + a) = m + b
    BY <1>2, <2>3, <2>7, PieceEnds
  <2>9. SubSeq(w, (m + a) + 1, (m + b) - 1) = SubSeq(t, a + 1, b - 1)
    <3> DEFINE c == b - 1
               d == m + a
               e == (m + b) - 1
    <3>1. a \in Nat /\ c \in Nat /\ a <= c /\ c <= l
      BY <1>1, <2>3, <2>5, <2>6
    <3>2. d \in Nat /\ e \in Nat /\ d <= e /\ e <= Len(w) /\ e - d = c - a
      BY <1>1, <2>3, <2>5, <2>6
    <3>3. \A i \in 1..(c - a) : a + i \in 1..l /\ d + i = m + (a + i)
      BY <1>1, <2>3, <3>1
    <3>4. \A j \in 1..l : w[m + j] = t[j]
      OBVIOUS
    <3> HIDE DEF c, d, e
    <3> DEFINE x == SubSeq(w, d + 1, e)
               y == SubSeq(t, a + 1, c)
    <3>5. y \in Seq(S) /\ Len(y) = c - a /\ \A i \in 1..(c - a) : y[i] = t[a + i]
      BY <3>1, RestOf, SMTT(30)
    <3>6. x \in Seq(S) /\ Len(x) = e - d /\ \A i \in 1..(e - d) : x[i] = w[d + i]
      BY <3>2, RestOf, SMTT(30)
    <3> HIDE DEF x, y, m, l
    <3>7. \A i \in 1..(c - a) : x[i] = y[i]
      <4> TAKE i \in 1..(c - a)
      <4>1. a + i \in 1..l /\ d + i = m + (a + i)
        BY <3>3
      <4>2. w[m + (a + i)] = t[a + i]
        BY <3>4, <4>1
      <4>3. x[i] = w[d + i] /\ y[i] = t[a + i]
        BY <3>2, <3>5, <3>6
      <4> QED
        BY <4>1, <4>2, <4>3
    <3>8. x = y
      BY <3>2, <3>5, <3>6, <3>7
    <3> QED
      BY <3>8 DEF x, y, c, d, e
  <2> QED
    BY <2>4, <2>8, <2>9 DEF a, b
<1> DEFINE P == [k \in 1..N |-> At(s, A, k)]
           Q == [k \in 1..M |-> At(t, B, k)]
           R == [k \in 1..N + M |-> At(w, C, k)]
<1> HIDE DEF At, m, n, l
<1>8. P \o Q = R
  <2> DEFINE X == {At(s, A, k) : k \in 1..N} \cup {At(t, B, k) : k \in 1..M} \cup {At(w, C, k) : k \in 1..N + M}
  <2>1. P \in Seq(X) /\ Q \in Seq(X) /\ R \in Seq(X) /\ Len(P) = N /\ Len(Q) = M /\ Len(R) = N + M
    <3>0. N + M \in Nat
      BY <1>3
    <3>1. (\A k \in 1..N : At(s, A, k) \in X) /\ (\A k \in 1..M : At(t, B, k) \in X) /\ \A k \in 1..N + M : At(w, C, k) \in X
      OBVIOUS
    <3> HIDE DEF X
    <3>2. P \in Seq(X) /\ Len(P) = N
      BY <1>3, <3>1
    <3>3. Q \in Seq(X) /\ Len(Q) = M
      BY <1>3, <3>1
    <3>4. R \in Seq(X) /\ Len(R) = N + M
      <4>1. R = [k \in 1..N + M |-> R[k]] /\ \A k \in 1..N + M : R[k] \in X
        BY <3>1
      <4> HIDE DEF R
      <4> QED
        BY <3>0, <4>1, IsSequence
    <3> QED
      BY <3>2, <3>3, <3>4
  <2>2. /\ \A k \in 1..N : P[k] = At(s, A, k)
        /\ \A k \in 1..M : Q[k] = At(t, B, k)
        /\ \A k \in 1..N + M : R[k] = At(w, C, k)
    OBVIOUS
  <2> HIDE DEF P, Q, R, X
  <2> DEFINE Z == P \o Q
  <2>3. Z \in Seq(X) /\ Len(Z) = N + M /\ (\A k \in 1..N : Z[k] = P[k]) /\ \A k \in 1..M : Z[N + k] = Q[k]
    <3>0. P \in Seq(X) /\ Q \in Seq(X)
      BY <2>1
    <3>1. /\ Len(P \o Q) = Len(P) + Len(Q)
          /\ \A k \in 1..Len(P) : (P \o Q)[k] = P[k]
          /\ \A k \in 1..Len(Q) : (P \o Q)[Len(P) + k] = Q[k]
      BY <3>0, ConcatTypes
    <3>2. P \o Q \in Seq(X)
      BY <2>1
    <3> QED
      BY <2>1, <3>1, <3>2
  <2> HIDE DEF Z
  <2>4. ASSUME NEW k \in 1..N + M PROVE Z[k] = R[k]
    <3>1. k \in 1..N \/ (k - N \in 1..M /\ N + (k - N) = k)
      BY <1>3
    <3>2. CASE k \in 1..N
      <4>1. Z[k] = P[k]
        BY <2>3, <3>2
      <4>2. P[k] = At(s, A, k) /\ R[k] = At(w, C, k)
        BY <2>2, <3>2
      <4>3. At(w, C, k) = At(s, A, k)
        BY <1>6, <3>2
      <4> QED
        BY <4>1, <4>2, <4>3
    <3>3. CASE k - N \in 1..M /\ N + (k - N) = k
      <4>1. Z[N + (k - N)] = Q[k - N]
        BY <2>3, <3>3
      <4>2. At(w, C, N + (k - N)) = At(t, B, k - N)
        BY <1>7, <3>3
      <4> QED
        BY <2>2, <3>3, <4>1, <4>2
    <3> QED
      BY <3>1, <3>2, <3>3
  <2>5. Z = R
    BY <1>3, <2>1, <2>3, <2>4
  <2> QED
    BY <2>5 DEF Z
<1> QED
  BY <1>2, <1>3, <1>5, <1>8

-----------------------------------------------------------------------------
(* The texts of partitions: conditions with their meaning.                   *)

Flat(t, columns) ==
    /\ Terminated(t)
    /\ \A x : AndPiece(t, x) => Reads(x) /\ Parsed(x).column \in columns
    /\ \A name \in columns : \E x : AndPiece(t, x) /\ Parsed(x).column = name

Wholes == [tokens : Seq(AllTokens), columns : SUBSET ColumnNames, form : {"cmp", "flat", "other"},
           holds : SUBSET Assignments]

\* What is true of every condition that is written, whatever it is made of: its
\* tokens with and without the parentheses around it say what it means.
Fine(e) ==
    /\ e \in Wholes /\ Formed(e.tokens)
    /\ Sound(e.tokens, e.holds) /\ Sound(Unwrap(e.tokens), e.holds)
    /\ e.form = "cmp" => /\ OuterFree(e.tokens, "AND") /\ Reads(e.tokens)
                         /\ e.columns = {Parsed(e.tokens).column}
    /\ e.form # "other" => Flat(Unwrap(e.tokens), e.columns)

\* Comparisons are fine.
LEMMA ComparisonFine ==
    ASSUME NEW e \in Comparisons
    PROVE  Fine(e)
<1>0. PICK name \in ColumnNames, op \in Signs, l \in Literals : \E c \in {<<name>>, Backquoted(name)} :
         e = Comparison(name, c, op, l) /\ (c = <<name>> => name \notin Keywords \cup Signs)
  <2>1. CASE \E name \in ColumnNames \ (Keywords \cup Signs), op \in Signs, l \in Literals :
               e = Comparison(name, <<name>>, op, l)
    BY <2>1
  <2>2. CASE \E name \in ColumnNames, op \in Signs, l \in Literals :
               e = Comparison(name, Backquoted(name), op, l)
    <3>1. PICK name \in ColumnNames, op \in Signs, l \in Literals : e = Comparison(name, Backquoted(name), op, l)
      BY <2>2
    <3>2. Backquoted(name) # <<name>>
      <4>1. Len(Backquoted(name)) = 3 /\ Len(<<name>>) = 1
        BY IdentifierOf
      <4> QED
        BY <4>1
    <3> QED
      BY <3>1, <3>2
  <2> QED
    BY <2>1, <2>2 DEF Comparisons
<1>1. PICK c \in {<<name>>, Backquoted(name)} :
         e = Comparison(name, c, op, l) /\ (c = <<name>> => name \notin Keywords \cup Signs)
  BY <1>0
<1> DEFINE t == c \o <<op>> \o l.tokens
           form == IF op \in Operators /\ ToSet(l.tokens) \cap Signs = {} /\ name \notin {"AND"} \cup Signs
                   THEN "cmp" ELSE "other"
           holds == {p \in Assignments : Compare(p[name], op, l.value)}
<1>2. e = [tokens |-> t, columns |-> {name}, form |-> form, holds |-> holds]
  BY <1>1 DEF Comparison
<1>3. e.tokens = t /\ e.columns = {name} /\ e.form = form /\ e.holds = holds
  BY <1>2
<1>4. Compares(t, name, c, op, l)
  BY <1>1 DEF Compares
<1>5. Comparing(t, name, c, op, l)
  BY <1>4, ComparisonTokens
<1>6. /\ t \in Seq(AllTokens) /\ Unwrap(t) = t
      /\ ConditionAt(t, Len(c) + 1) = [column |-> name, operator |-> op, value |-> l.tokens]
      /\ op \in Operators => SplitsAt(t, Len(c) + 1)
      /\ \A i : SplitsAt(t, i) => i = Len(c) + 1
  BY <1>4, ComparisonSplit
<1>7. holds \in SUBSET Assignments /\ form \in {"cmp", "flat", "other"}
  OBVIOUS
<1>8. e \in Wholes
  BY <1>2, <1>6, <1>7 DEF Wholes
<1>9. Formed(t)
  BY <1>5 DEF Comparing
<1> HIDE DEF t, form, holds
<1>10. Sound(t, holds)
  <2> SUFFICES ASSUME \A x : AndPiece(t, x) => Reads(x)
               PROVE  holds = Meaning(t)
    BY DEF Sound
  <2>1. CASE name = "AND"
    <3>1. Len(c) = 3 /\ Outer(t, 2, "AND") /\ t[1] = c[1] /\ c[1] = "backquote"
      <4>1. Len(c) = 3 /\ Outer(t, 2, "AND")
        BY <1>5, <2>1 DEF Comparing
      <4>2. 1 \in 1..Len(c)
        BY <4>1
      <4>3. t[1] = c[1]
        BY <1>5, <4>2 DEF Comparing
      <4>4. c[1] = "backquote"
        BY <4>1, NameFacts
      <4> QED
        BY <4>1, <4>3, <4>4
    <3>2. Ands(t) \in SUBSET (1..Len(t)) /\ 2 \in Ands(t) /\ 1 \notin Ands(t) /\ Len(t) \in Nat
      BY <1>6, <3>1, AndPlaces DEF Ands
    <3>3. Between(Len(t), Ands(t), 0, 2)
      BY <3>2 DEF Between
    <3> DEFINE x == SubSeq(t, 0 + 1, 2 - 1)
    <3>4. AndPiece(t, x)
      BY <3>3 DEF AndPiece, Piece
    <3>6. x \in Seq(AllTokens) /\ x[1] = "backquote" /\ Len(x) = 1
      <4>1. 0 \in Nat /\ 1 \in Nat /\ 0 <= 1 /\ 1 <= Len(t)
        BY <3>2
      <4> DEFINE y == SubSeq(t, 0 + 1, 1)
      <4>2. y \in Seq(AllTokens) /\ Len(y) = 1 - 0 /\ \A i \in 1..(1 - 0) : y[i] = t[0 + i]
        BY <1>6, <4>1, RestOf
      <4>3. y = x
        OBVIOUS
      <4> HIDE DEF y, x
      <4>4. 1 - 0 = 1 /\ 0 + 1 = 1 /\ 1 \in 1..(1 - 0)
        OBVIOUS
      <4>5. y[1] = t[0 + 1]
        BY <4>2, <4>4
      <4> QED
        BY <3>1, <4>2, <4>3, <4>4, <4>5
    <3> HIDE DEF x
    <3>7. Unwrap(x) = x
      BY <3>6, UnwrappedFacts, UnwrapTypes
    <3>8. ParseCondition(x) # Refused
      BY <3>4, <3>7 DEF Reads
    <3>9. PICK i : SplitsAt(x, i)
      BY <3>6, <3>8, ConditionSplits
    <3>10. i \in 1..1 /\ (i = 2 \/ i = 4)
      BY <3>6, <3>9, ConditionStarts DEF SplitsAt
    <3> QED
      BY <3>10
  <2>2. CASE name # "AND"
    <3>1. \A x : AndPiece(t, x) <=> x = t
      BY <1>5, <1>6, <2>2, WholePiece DEF Comparing
    <3>2. ParseCondition(t) # Refused
      BY <1>6, <3>1 DEF Reads
    <3>3. PICK i : SplitsAt(t, i) /\ ParseCondition(t) = ConditionAt(t, i)
      BY <1>6, <3>2, ConditionSplits
    <3>4. i = Len(c) + 1
      BY <1>6, <3>3
    <3>5. Parsed(t) = [column |-> name, operator |-> op, value |-> l.tokens]
      BY <1>6, <3>3, <3>4 DEF Parsed
    <3>6. ValueOf(l.tokens) = l.value
      BY LiteralFacts
    <3>7. Holds(t) = holds
      <4>1. Parsed(t).column = name /\ Parsed(t).operator = op /\ Parsed(t).value = l.tokens
        BY <3>5
      <4> QED
        BY <3>6, <4>1 DEF Holds, holds
    <3>8. Meaning(t) = Holds(t)
      BY <3>1 DEF Meaning, Holds
    <3> QED
      BY <3>7, <3>8
  <2> QED
    BY <2>1, <2>2
<1>11. ASSUME form = "cmp"
       PROVE  OuterFree(t, "AND") /\ Reads(t) /\ {name} = {Parsed(t).column} /\ Flat(t, {name})
  <2>1. op \in Operators /\ ToSet(l.tokens) \cap Signs = {} /\ name # "AND" /\ name \notin Signs
    BY <1>11 DEF form
  <2>2. OuterFree(t, "AND")
    BY <1>5, <2>1 DEF Comparing
  <2>3. SplitsAt(t, Len(c) + 1)
    BY <1>6, <2>1
  <2>4. ASSUME NEW j \in DOMAIN t, t[j] \in Signs PROVE j = Len(c) + 1
    <3>1. /\ Len(c) \in {1, 3} /\ Len(t) = (Len(c) + 1) + Len(l.tokens) /\ Len(l.tokens) \in Nat
      BY <1>5 DEF Comparing
    <3>2. j \in 1..Len(t)
      BY <1>6
    <3>3. \/ j \in 1..Len(c) \/ j = Len(c) + 1
          \/ j - (Len(c) + 1) \in 1..Len(l.tokens) /\ (Len(c) + 1) + (j - (Len(c) + 1)) = j
      <4>1. \A n \in {1, 3} : \A k \in Nat : j \in 1..((n + 1) + k) =>
                 \/ j \in 1..n \/ j = n + 1
                 \/ j - (n + 1) \in 1..k /\ (n + 1) + (j - (n + 1)) = j
        OBVIOUS
      <4> QED
        BY <3>1, <3>2, <4>1
    <3>4. CASE j \in 1..Len(c)
      <4>1. t[j] = c[j]
        BY <1>5, <3>4 DEF Comparing
      <4>2. /\ Len(c) = 1 => c[1] = name
            /\ Len(c) = 3 => c[1] = "backquote" /\ c[2] = name /\ c[3] = "backquote"
        BY NameFacts
      <4>3. "backquote" \notin Signs
        BY DEF Signs, Operators
      <4>4. Len(c) = 1 => j = 1
        BY <3>1, <3>4
      <4>5. Len(c) = 3 => j = 1 \/ j = 2 \/ j = 3
        BY <3>1, <3>4
      <4> QED
        BY <2>1, <2>4, <3>1, <4>1, <4>2, <4>3, <4>4, <4>5
    <3>5. CASE j - (Len(c) + 1) \in 1..Len(l.tokens) /\ (Len(c) + 1) + (j - (Len(c) + 1)) = j
      <4> DEFINE i == j - (Len(c) + 1)
      <4>1. t[(Len(c) + 1) + i] = l.tokens[i] /\ i \in 1..Len(l.tokens)
        BY <1>5, <3>5 DEF Comparing
      <4>2. l.tokens \in Seq(AllTokens)
        BY LiteralFacts
      <4> HIDE DEF i
      <4>3. l.tokens[i] \in ToSet(l.tokens)
        BY <4>1, <4>2 DEF ToSet
      <4> QED
        BY <2>1, <2>4, <3>5, <4>1, <4>3 DEF i
    <3> QED
      BY <3>3, <3>4, <3>5
  <2>5. ParseCondition(t) = ConditionAt(t, Len(c) + 1) /\ ParseCondition(t) # Refused
    BY <1>6, <2>3, <2>4, ConditionRead
  <2>6. Reads(t) /\ Parsed(t).column = name
    BY <1>6, <2>5 DEF Reads, Parsed
  <2>7. \A x : AndPiece(t, x) <=> x = t
    BY <1>6, <2>2, WholePiece
  <2>8. Terminated(t)
    BY <1>9 DEF Formed, Balanced
  <2> QED
    BY <2>2, <2>6, <2>7, <2>8 DEF Flat
<1>12. form # "other" => form = "cmp"
  BY DEF form
<1> QED
  BY <1>3, <1>6, <1>8, <1>9, <1>10, <1>11, <1>12 DEF Fine

\* The first piece of a text.
LEMMA FirstPiece ==
    ASSUME NEW t \in Seq(AllTokens), Len(t) >= 1, t[1] # "AND"
    PROVE  \E b \in 2..Len(t) + 1 : \E x \in Seq(AllTokens) :
              /\ AndPiece(t, x) /\ Len(x) = b - 1 /\ \A j \in 1..b - 1 : x[j] = t[j]
              /\ b \in Ands(t) \cup {Len(t) + 1} /\ \A c \in Ands(t) : c >= b
<1> DEFINE n == Len(t)
           C == Ands(t)
           b == PieceEnd(t, C, 0)
           x == SubSeq(t, 0 + 1, b - 1)
<1>1. C \in SUBSET (1..n) /\ 0 \in {0} \cup C /\ n \in Nat /\ n >= 1
  BY AndPlaces
<1>2. Between(n, C, 0, b)
  BY <1>1, PieceEnds
<1>3. 1 \notin C
  BY DEF Ands
<1> HIDE DEF b, C, n
<1>4. AndPiece(t, x)
  BY <1>2 DEF AndPiece, Piece, C, n
<1>5. b \in C \cup {n + 1} /\ b > 0 /\ \A c \in C : c <= 0 \/ c >= b
  BY <1>2 DEF Between
<1>6. b \in 2..n + 1
  <2>1. CASE b \in C
    <3>1. b \in 1..n /\ b # 1
      BY <1>1, <1>3, <2>1
    <3> QED
      BY <1>1, <3>1
  <2>2. CASE b = n + 1
    BY <1>1, <2>2
  <2> QED
    BY <1>5, <2>1, <2>2
<1>7. \A c \in C : c >= b
  <2> TAKE c \in C
  <2>1. c \in 1..n
    BY <1>1
  <2> QED
    BY <1>5, <2>1
<1>8. x \in Seq(AllTokens) /\ Len(x) = b - 1 /\ \A j \in 1..b - 1 : x[j] = t[j]
  <2>1. 0 \in Nat /\ b - 1 \in Nat /\ 0 <= b - 1 /\ b - 1 <= Len(t)
    BY <1>1, <1>6 DEF n
  <2>2. x \in Seq(AllTokens) /\ Len(x) = (b - 1) - 0 /\ \A j \in 1..((b - 1) - 0) : x[j] = t[0 + j]
    BY <2>1, RestOf
  <2> HIDE DEF x
  <2>3. (b - 1) - 0 = b - 1 /\ \A j \in 1..b - 1 : 0 + j = j
    BY <1>1, <1>6
  <2> QED
    BY <2>2, <2>3
<1> HIDE DEF x
<1> QED
  BY <1>4, <1>5, <1>6, <1>7, <1>8 DEF n, C

\* What has the same pieces has the same meaning.
LEMMA SameMeaning ==
    ASSUME NEW t, NEW u, \A x : AndPiece(t, x) <=> x = t, \A x : AndPiece(u, x) <=> x = u,
           Unwrap(t) = Unwrap(u), NEW holds, Sound(t, holds)
    PROVE  Sound(u, holds)
<1>1. (Reads(t) <=> Reads(u)) /\ Holds(t) = Holds(u)
  BY DEF Reads, Holds, Parsed
<1>2. Meaning(t) = Meaning(u)
  BY <1>1 DEF Meaning
<1> QED
  BY <1>1, <1>2 DEF Sound

\* Parentheses change nothing.
LEMMA ParenthesesFine ==
    ASSUME NEW e, Fine(e)
    PROVE  Fine(InParentheses(e))
<1> DEFINE t == e.tokens
           w == Enclosed(t)
           n == Len(t)
           f == InParentheses(e)
<1>1. e \in Wholes /\ Formed(t) /\ Sound(t, e.holds) /\ Sound(Unwrap(t), e.holds)
  BY DEF Fine
<1>2. t \in Seq(AllTokens) /\ n >= 1 /\ n \in Nat /\ Balanced(t) /\ OuterFree(t, "comma")
  BY <1>1 DEF Formed
<1>3. f = [e EXCEPT !.tokens = w]
  BY DEF InParentheses
<1>4. /\ w \in Seq(AllTokens \cup {"(", ")"}) /\ Len(w) = n + 2 /\ Balanced(w)
      /\ w[1] = "(" /\ w[n + 2] = ")" /\ IsPart(w, 1, t) /\ Level(w, 1) = 1
      /\ \A token : /\ Outer(w, 1, token) <=> token = "("
                    /\ Outer(w, n + 2, token) <=> token = ")"
  BY <1>2, EnclosedScans
<1>5. w \in Seq(AllTokens)
  <2>1. AllTokens \cup {"(", ")"} = AllTokens
    BY DEF AllTokens, Marks
  <2> QED
    BY <1>4, <2>1
<1>6. Unwrap(w) = Unwrap(t)
  BY <1>2, UnwrapEnclosed
<1>7. f \in Wholes /\ f.tokens = w /\ f.columns = e.columns /\ f.form = e.form /\ f.holds = e.holds
  BY <1>1, <1>3, <1>5 DEF Wholes
<1> HIDE DEF w, t, f, n
<1>8. ASSUME NEW i, NEW token, token # "(", token # ")", Outer(w, i, token)
      PROVE  i - 1 \in 1..n /\ Outer(t, i - 1, token)
  <2>1. i \in 1..n + 2
    BY <1>4, <1>8 DEF Outer, Outside
  <2>2. i # 1 /\ i # n + 2
    BY <1>4, <1>8
  <2>3. i - 1 \in 0..n /\ i - 1 # 0 /\ 1 + (i - 1) = i
    BY <1>2, <2>1, <2>2
  <2>4. SameToken(w, 1 + (i - 1), t, i - 1)
    BY <1>4, <2>3 DEF IsPart, n
  <2>5. Outer(t, i - 1, token)
    BY <1>8, <2>3, <2>4 DEF SameToken
  <2> QED
    BY <2>3, <2>5
<1>9. OuterFree(w, "comma") /\ (OuterFree(t, "AND") => OuterFree(w, "AND"))
  BY <1>2, <1>8 DEF OuterFree
<1>10. Formed(w)
  <2>1. "(" \notin Signs /\ Len(w) >= 1 /\ w[Len(w)] = ")"
    BY <1>2, <1>4 DEF Signs, Operators
  <2> QED
    BY <1>4, <1>5, <1>9, <2>1 DEF Formed
<1>11. Sound(w, e.holds)
  <2>1. CASE OuterFree(t, "AND")
    <3>1. \A x : AndPiece(t, x) <=> x = t
      BY <1>2, <2>1, WholePiece
    <3>2. \A x : AndPiece(w, x) <=> x = w
      BY <1>5, <1>9, <2>1, WholePiece
    <3> QED
      BY <1>1, <1>6, <3>1, <3>2, SameMeaning
  <2>2. CASE ~OuterFree(t, "AND")
    <3>1. PICK k : Outer(t, k, "AND")
      BY <2>2 DEF OuterFree
    <3>2. k \in 1..n
      BY <1>2, <3>1 DEF Outer, Outside, n
    <3>3. 1 + k \in Ands(w) /\ 1 + k < n + 2
      <4>1. k \in 0..n /\ k # 0 /\ 1 + k < n + 2
        BY <1>2, <3>2
      <4>2. SameToken(w, 1 + k, t, k)
        BY <1>4, <4>1 DEF IsPart, n
      <4> QED
        BY <1>5, <3>1, <4>1, <4>2, AndPlaces DEF SameToken
    <3>4. PICK b \in 2..Len(w) + 1 : \E x \in Seq(AllTokens) :
              /\ AndPiece(w, x) /\ Len(x) = b - 1 /\ \A j \in 1..b - 1 : x[j] = w[j]
              /\ b \in Ands(w) \cup {Len(w) + 1} /\ \A c \in Ands(w) : c >= b
      <4>1. Len(w) >= 1 /\ w[1] # "AND"
        BY <1>2, <1>4
      <4> QED
        BY <1>5, <4>1, FirstPiece
    <3>5. PICK x \in Seq(AllTokens) :
              /\ AndPiece(w, x) /\ Len(x) = b - 1 /\ \A j \in 1..b - 1 : x[j] = w[j]
              /\ b \in Ands(w) \cup {Len(w) + 1} /\ \A c \in Ands(w) : c >= b
      BY <3>4
    <3>6. b \in 2..n + 1
      <4>1. 1 + k >= b
        BY <3>3, <3>5
      <4> QED
        BY <1>2, <3>2, <3>4, <4>1
    <3>7. IsPart(w, 0, x)
      <4>1. Quotes(w, 0) = 0
        BY QuotesStep
      <4>2. Quotes(w, 0) % 2 = 0 /\ 0 + Len(x) <= Len(w) /\ \A j \in 1..Len(x) : x[j] = w[0 + j]
        <5>1. Len(x) = b - 1 /\ b - 1 \in 1..n /\ Len(w) = n + 2
          BY <1>2, <1>4, <3>5, <3>6
        <5>2. \A j \in 1..b - 1 : 0 + j = j
          OBVIOUS
        <5>3. 0 + (b - 1) <= n + 2
          BY <1>2, <3>6
        <5> QED
          BY <3>5, <4>1, <5>1, <5>2, <5>3
      <4> QED
        BY <1>5, <4>2, PartScans
    <3>8. \A i \in 1..b - 1 : Level(x, i) # 0
      <4> TAKE i \in 1..b - 1
      <4>1. i \in 0..Len(x) /\ i - 1 \in 0..n /\ 1 + (i - 1) = i
        BY <1>2, <3>5, <3>6
      <4>2. Level(w, i) = Level(x, i)
        BY <1>5, <3>7, <4>1, PrefixScans
      <4>3. Level(w, 1 + (i - 1)) = Level(w, 1) + Level(t, i - 1)
        BY <1>4, <4>1 DEF IsPart, n
      <4>4. Level(t, i - 1) >= 0 /\ Level(t, i - 1) \in Int
        BY <1>2, <4>1, LevelStep DEF Balanced, n
      <4> QED
        BY <1>4, <4>1, <4>2, <4>3, <4>4
    <3>9. Closing(x) # Len(x)
      <4>1. Len(x) = b - 1 /\ b - 1 \in 1..b - 1
        BY <3>5, <3>6
      <4>2. Closing(x) # 0 => Level(x, Closing(x)) = 0
        BY ClosingFacts
      <4> QED
        BY <3>8, <4>1, <4>2
    <3>10. x[1] = "("
      <4>1. 1 \in 1..b - 1
        BY <3>6
      <4> QED
        BY <1>4, <3>5, <4>1
    <3>11. ~Reads(x)
      BY <3>9, <3>10, ParenthesisUnread
    <3> QED
      BY <3>5, <3>11 DEF Sound
  <2> QED
    BY <2>1, <2>2
<1>12. e.form = "cmp" => OuterFree(w, "AND") /\ Reads(w) /\ e.columns = {Parsed(w).column}
  BY <1>6, <1>9 DEF Fine, Reads, Parsed, t
<1>13. e.form # "other" => Flat(Unwrap(w), e.columns)
  BY <1>6 DEF Fine, t
<1>14. Sound(Unwrap(w), e.holds)
  BY <1>1, <1>6
<1>15. Fine(f)
  BY <1>7, <1>10, <1>11, <1>12, <1>13, <1>14 DEF Fine
<1> QED
  BY <1>15 DEF f

\* A negation is refused, as its first piece cannot be read.
LEMMA NegationFine ==
    ASSUME NEW e, Fine(e)
    PROVE  Fine(Negation(e))
<1> DEFINE t == e.tokens
           q == <<"NOT">>
           w == q \o t
           f == Negation(e)
<1>1. e \in Wholes /\ Formed(t)
  BY DEF Fine
<1>2. t \in Seq(AllTokens) /\ Len(t) >= 1 /\ Len(t) \in Nat /\ Balanced(t) /\ OuterFree(t, "comma") /\ t[1] \notin Signs
  BY <1>1 DEF Formed
<1>3. f = [e EXCEPT !.tokens = w, !.form = "other", !.holds = Assignments \ e.holds]
  BY DEF Negation
<1>4. q \in Seq(AllTokens) /\ Len(q) = 1 /\ q[1] = "NOT" /\ Balanced(q) /\ Terminated(q) /\ OuterFree(q, "comma")
  <2>1. "NOT" \in AllTokens
    BY DEF AllTokens, Keywords
  <2> QED
    BY <2>1, WordFree
<1>5. w \in Seq(AllTokens)
  BY <1>2, <1>4
<1>6. f \in Wholes /\ f.tokens = w /\ f.columns = e.columns /\ f.form = "other" /\ f.holds = Assignments \ e.holds
  BY <1>1, <1>3, <1>5 DEF Wholes
<1>7. /\ Len(w) = Len(q) + Len(t)
      /\ \A i \in 1..Len(q) : w[i] = q[i]
      /\ \A i \in 1..Len(t) : w[Len(q) + i] = t[i]
  BY <1>2, <1>4, ConcatTypes
<1>8. Balanced(w) /\ OuterFree(w, "comma")
  BY <1>2, <1>4, ConcatBalanced, ConcatFree
<1> HIDE DEF w, t, f, q
<1>9. w[1] = "NOT" /\ w[2] = t[1] /\ Len(w) = 1 + Len(t) /\ w[1 + Len(t)] = t[Len(t)]
  <2>1. 1 \in 1..1 /\ 1 \in 1..Len(t) /\ Len(t) \in 1..Len(t) /\ 1 + 1 = 2
    BY <1>2
  <2>2. w[1] = q[1]
    BY <1>4, <1>7, <2>1
  <2>3. w[1 + 1] = t[1] /\ w[1 + Len(t)] = t[Len(t)]
    BY <1>4, <1>7, <2>1
  <2> QED
    BY <1>4, <1>7, <2>1, <2>2, <2>3
<1>10. Formed(w)
  <2>1. "NOT" \notin Signs /\ Len(w) >= 1
    BY <1>2, <1>9 DEF Signs, Operators
  <2> QED
    BY <1>1, <1>5, <1>8, <1>9, <2>1 DEF Formed
<1>11. Unwrap(w) = w
  <2>1. w[1] # "("
    BY <1>9
  <2> QED
    BY <1>5, <2>1, UnwrappedFacts, UnwrapTypes
<1>12. Sound(w, f.holds)
  <2>1. PICK b \in 2..Len(w) + 1 : \E x \in Seq(AllTokens) :
            /\ AndPiece(w, x) /\ Len(x) = b - 1 /\ \A j \in 1..b - 1 : x[j] = w[j]
            /\ b \in Ands(w) \cup {Len(w) + 1} /\ \A c \in Ands(w) : c >= b
    <3>1. Len(w) >= 1 /\ w[1] # "AND"
      BY <1>2, <1>9
    <3> QED
      BY <1>5, <3>1, FirstPiece
  <2>2. PICK x \in Seq(AllTokens) : AndPiece(w, x) /\ Len(x) = b - 1 /\ \A j \in 1..b - 1 : x[j] = w[j]
    BY <2>1
  <2>3. x[1] = "NOT" /\ (Len(x) >= 2 => x[2] \notin Signs)
    <3>1. 1 \in 1..b - 1 /\ (b - 1 >= 2 => 2 \in 1..b - 1)
      BY <2>1
    <3> QED
      BY <1>2, <1>9, <2>2, <3>1
  <2>4. ~Reads(x)
    BY <2>3, NotUnread
  <2> QED
    BY <2>2, <2>4 DEF Sound
<1>13. Fine(f)
  BY <1>6, <1>10, <1>11, <1>12 DEF Fine
<1> QED
  BY <1>13 DEF f

\* Two conditions and a word between them.
Joining(w, s, word, t) ==
    /\ Formed(w) /\ Unwrap(w) = w /\ Len(w) = (Len(s) + 1) + Len(t)
    /\ \A j \in 1..Len(s) : w[j] = s[j]
    /\ \A j \in 1..Len(t) : w[(Len(s) + 1) + j] = t[j]
    /\ \A token : /\ \A j \in 1..Len(s) : Outer(w, j, token) <=> Outer(s, j, token)
                  /\ Outer(w, Len(s) + 1, token) <=> token = word
                  /\ \A j \in 1..Len(t) : Outer(w, (Len(s) + 1) + j, token) <=> Outer(t, j, token)

\* Two conditions with AND or OR between them are scanned as the two.
LEMMA JoiningTwo ==
    ASSUME NEW s, Formed(s), NEW t, Formed(t), NEW word \in {"AND", "OR"}
    PROVE  Joining(s \o <<word>> \o t, s, word, t)
<1> DEFINE q == <<word>>
           r == s \o q
           w == r \o t
           n == Len(s)
           l == Len(t)
<1>1. s \in Seq(AllTokens) /\ n \in Nat /\ n >= 1 /\ Balanced(s) /\ Terminated(s) /\ OuterFree(s, "comma") /\ s[1] \notin Signs
  BY DEF Formed, Balanced
<1>2. /\ t \in Seq(AllTokens) /\ l \in Nat /\ l >= 1 /\ Balanced(t) /\ OuterFree(t, "comma")
      /\ t[l] # "backquote" /\ t[l] # "(" /\ t[l] # "AND"
  BY DEF Formed
<1>3. /\ q \in Seq(AllTokens) /\ Len(q) = 1 /\ Balanced(q) /\ Terminated(q) /\ OuterFree(q, "comma")
      /\ \A token : Outer(q, 1, token) <=> token = word
  <2>1. word \in AllTokens
    BY DEF AllTokens, Keywords
  <2> QED
    BY <2>1, WordFree, WordScans
<1> HIDE DEF q, n, l
<1>4. /\ r \in Seq(AllTokens) /\ Len(r) = n + 1 /\ Balanced(r) /\ Terminated(r) /\ OuterFree(r, "comma")
      /\ \A i \in 1..n : r[i] = s[i]
  <2>0. s \in Seq(AllTokens) /\ q \in Seq(AllTokens)
    BY <1>1, <1>3
  <2>1. /\ Len(s \o q) = Len(s) + Len(q)
        /\ \A i \in 1..Len(s) : (s \o q)[i] = s[i]
    BY <2>0, ConcatTypes
  <2>2. Balanced(s \o q) /\ OuterFree(s \o q, "comma")
    BY <1>1, <1>3, ConcatBalanced, ConcatFree
  <2>3. s \o q \in Seq(AllTokens)
    BY <1>1, <1>3
  <2> QED
    BY <1>3, <2>1, <2>2, <2>3 DEF n, Balanced
<1>5. \A token : /\ \A i \in 1..n : Outer(r, i, token) <=> Outer(s, i, token)
                 /\ Outer(r, n + 1, token) <=> token = word
  <2> TAKE token
  <2>1. \A i \in 1..n : Outer(r, i, token) <=> Outer(s, i, token)
    BY <1>1, <1>3, ConcatOuter DEF n
  <2>2. \A i \in 1..Len(q) : Outer(r, n + i, token) <=> Outer(q, i, token)
    BY <1>1, <1>3, ConcatOuter DEF n
  <2>3. 1 \in 1..Len(q)
    BY <1>3
  <2> QED
    BY <1>3, <2>1, <2>2, <2>3
<1> HIDE DEF r
<1>6. /\ w \in Seq(AllTokens) /\ Len(w) = (n + 1) + l /\ Balanced(w) /\ OuterFree(w, "comma")
      /\ \A i \in 1..n + 1 : w[i] = r[i]
      /\ \A i \in 1..l : w[(n + 1) + i] = t[i]
  <2>0. r \in Seq(AllTokens) /\ t \in Seq(AllTokens)
    BY <1>2, <1>4
  <2>1. /\ Len(r \o t) = Len(r) + Len(t)
        /\ \A i \in 1..Len(r) : (r \o t)[i] = r[i]
        /\ \A i \in 1..Len(t) : (r \o t)[Len(r) + i] = t[i]
    BY <2>0, ConcatTypes
  <2>2. Balanced(r \o t) /\ OuterFree(r \o t, "comma")
    BY <1>2, <1>4, ConcatBalanced, ConcatFree
  <2>3. r \o t \in Seq(AllTokens)
    BY <1>2, <1>4
  <2> QED
    BY <1>4, <2>1, <2>2, <2>3 DEF l
<1>7. \A token : /\ \A i \in 1..n + 1 : Outer(w, i, token) <=> Outer(r, i, token)
                 /\ \A i \in 1..l : Outer(w, (n + 1) + i, token) <=> Outer(t, i, token)
  <2> TAKE token
  <2>1. \A i \in 1..Len(r) : Outer(w, i, token) <=> Outer(r, i, token)
    BY <1>2, <1>4, ConcatOuter
  <2>2. \A i \in 1..Len(t) : Outer(w, Len(r) + i, token) <=> Outer(t, i, token)
    BY <1>2, <1>4, ConcatOuter
  <2> QED
    BY <1>4, <2>1, <2>2 DEF l
<1>8. IsPart(w, 0, r) /\ IsPart(r, 0, s)
  BY <1>1, <1>2, <1>3, <1>4, ConcatScans DEF r
<1> HIDE DEF w
<1>9. \A i \in 1..n : i \in 1..n + 1 /\ w[i] = s[i]
  <2>1. \A i \in 1..n : i \in 1..n + 1
    BY <1>1
  <2> QED
    BY <1>4, <1>6, <2>1
<1>10. w[1] = s[1] /\ w[Len(w)] = t[l]
  <2>1. 1 \in 1..n /\ l \in 1..l
    BY <1>1, <1>2
  <2> QED
    BY <1>6, <1>9, <2>1
<1>11. Formed(w)
  <2>1. Len(w) >= 1
    BY <1>1, <1>2, <1>6
  <2> QED
    BY <1>1, <1>2, <1>6, <1>10, <2>1 DEF Formed
<1>12. Closing(w) # Len(w)
  <2>1. CASE w[1] = "("
    <3>1. Level(w, n) = 0
      <4>1. n \in 0..Len(r) /\ n \in 0..Len(s)
        BY <1>1, <1>4 DEF n
      <4>2. Level(w, n) = Level(r, n) /\ Level(r, n) = Level(s, n)
        BY <1>1, <1>4, <1>6, <1>8, <4>1, PrefixScans
      <4> QED
        BY <1>1, <4>2 DEF Balanced, n
    <3>2. n \in 1..Len(w) /\ n < Len(w)
      BY <1>1, <1>2, <1>6
    <3>3. Closing(w) \in 1..n
      BY <1>6, <2>1, <3>1, <3>2, ClosingFacts
    <3> QED
      BY <1>1, <3>2, <3>3
  <2>2. CASE w[1] # "("
    <3>1. Closing(w) = 0
      BY <1>6, <2>2, ClosingFacts
    <3> QED
      BY <1>1, <1>2, <1>6, <3>1
  <2> QED
    BY <2>1, <2>2
<1>13. Unwrap(w) = w
  <2>1. Unwrapped(w) = w
    BY <1>12 DEF Unwrapped
  <2> QED
    BY <1>6, <2>1, UnwrapTypes
<1>14. ASSUME NEW token
       PROVE  /\ \A i \in 1..n : Outer(w, i, token) <=> Outer(s, i, token)
              /\ Outer(w, n + 1, token) <=> token = word
              /\ \A i \in 1..l : Outer(w, (n + 1) + i, token) <=> Outer(t, i, token)
  <2>1. n + 1 \in 1..n + 1
    BY <1>1
  <2> QED
    BY <1>5, <1>7, <1>9, <2>1
<1> HIDE DEF Formed, Outer
<1>15. Joining(w, s, word, t)
  BY <1>6, <1>9, <1>11, <1>13, <1>14 DEF Joining, n, l
<1> QED
  BY <1>15 DEF w, r, q

\* A disjunction is refused, as the piece with OR in it cannot be read.
LEMMA DisjunctionFine ==
    ASSUME NEW e, Fine(e), NEW g, Fine(g)
    PROVE  Fine(Disjunction(e, g))
<1> DEFINE s == e.tokens
           t == g.tokens
           w == s \o <<"OR">> \o t
           n == Len(s)
           k == n + 1
           f == Disjunction(e, g)
<1>1. e \in Wholes /\ g \in Wholes /\ Formed(s) /\ Formed(t)
  BY DEF Fine
<1>2. Joining(w, s, "OR", t)
  BY <1>1, JoiningTwo
<1>3. f = [tokens |-> w, columns |-> e.columns \cup g.columns, form |-> "other", holds |-> e.holds \cup g.holds]
  BY DEF Disjunction
<1> HIDE DEF w, s, t, f
<1>4. w \in Seq(AllTokens) /\ Formed(w) /\ Unwrap(w) = w /\ Len(w) = (n + 1) + Len(t)
  BY <1>2 DEF Joining, Formed
<1>5. /\ s \in Seq(AllTokens) /\ n \in Nat /\ n >= 1 /\ s[n] # "backquote" /\ s[n] # "(" /\ s[n] # "AND" /\ Len(t) \in Nat
  BY <1>1 DEF Formed
<1>6. f \in Wholes /\ f.tokens = w /\ f.form = "other"
  BY <1>1, <1>3, <1>4 DEF Wholes
<1>7. w[n] = s[n] /\ Outer(w, k, "OR") /\ k \in 1..Len(w) /\ n \in 1..Len(w)
  <2>1. n \in 1..n
    BY <1>5
  <2>2. w[n] = s[n] /\ Outer(w, k, "OR")
    BY <1>2, <2>1 DEF Joining
  <2>3. k \in 1..Len(w) /\ n \in 1..Len(w)
    BY <1>4, <1>5
  <2> QED
    BY <2>2, <2>3
<1> HIDE DEF n
<1>8. Sound(w, f.holds)
  <2> DEFINE C == Ands(w)
  <2>1. C \in SUBSET (1..Len(w)) /\ k \notin C /\ n \notin C /\ \A c \in C : Outer(w, c, "AND")
    <3>1. w[k] = "OR"
      BY <1>7 DEF Outer
    <3> QED
      BY <1>4, <1>5, <1>7, <3>1, AndPlaces DEF Ands
  <2>2. PICK a, b : Between(Len(w), C, a, b) /\ a < k /\ k < b
    BY <1>4, <1>7, <2>1, PieceAround
  <2> DEFINE x == SubSeq(w, a + 1, b - 1)
  <2>3. AndPiece(w, x)
    BY <2>2 DEF AndPiece, Piece
  <2> HIDE DEF C, x
  <2>4. a \in Nat /\ b \in Nat /\ b <= Len(w) + 1 /\ a # n /\ Len(w) \in Nat
    <3>1. a \in {0} \cup C /\ b \in C \cup {Len(w) + 1}
      BY <2>2 DEF Between
    <3>2. Len(w) \in Nat
      BY <1>4
    <3>3. a \in Nat /\ a # n
      BY <1>5, <2>1, <3>1
    <3>4. b \in Nat /\ b <= Len(w) + 1
      <4>1. CASE b \in C
        <5>1. b \in 1..Len(w)
          BY <2>1, <4>1
        <5> QED
          BY <3>2, <5>1
      <4>2. CASE b = Len(w) + 1
        BY <3>2, <4>2
      <4> QED
        BY <3>1, <4>1, <4>2
    <3> QED
      BY <3>2, <3>3, <3>4
  <2>5. /\ x \in Seq(AllTokens) /\ Len(x) = (b - 1) - a
        /\ \A i \in 1..((b - 1) - a) : x[i] = w[a + i]
    <3>1. a \in Nat /\ b - 1 \in Nat /\ a <= b - 1 /\ b - 1 <= Len(w)
      BY <1>5, <2>2, <2>4
    <3> QED
      BY <1>4, <3>1, RestOf DEF x
  <2>6. Quotes(w, a) % 2 = 0
    <3>1. CASE a = 0
      <4>1. Quotes(w, 0) = 0
        BY QuotesStep
      <4> QED
        BY <3>1, <4>1
    <3>2. CASE a \in C
      <4>1. Outer(w, a, "AND")
        BY <2>1, <3>2
      <4> QED
        BY <4>1 DEF Outer, Outside
    <3> QED
      BY <2>2, <3>1, <3>2 DEF Between
  <2>7. IsPart(w, a, x)
    <3>1. a + Len(x) <= Len(w)
      BY <2>2, <2>4, <2>5
    <3> QED
      BY <1>4, <2>4, <2>5, <2>6, <3>1, PartScans
  <2> DEFINE i == k - a
  <2>8. i \in 2..Len(x) /\ i \in 0..Len(x) /\ i # 0 /\ a + i = k /\ i - 1 \in 1..((b - 1) - a) /\ a + (i - 1) = n
    <3>1. a < n /\ n + 1 < b
      BY <1>5, <2>2, <2>4
    <3>2. i \in 2..((b - 1) - a) /\ i \in 0..((b - 1) - a) /\ i # 0 /\ a + i = k /\ i - 1 \in 1..((b - 1) - a) /\ a + (i - 1) = n
      BY <1>5, <2>4, <3>1
    <3> HIDE DEF i, k
    <3> QED
      BY <2>5, <3>2
  <2> HIDE DEF i, k
  <2>9. Outer(x, i, "OR")
    <3>1. SameToken(w, a + i, x, i)
      BY <2>7, <2>8 DEF IsPart
    <3> QED
      BY <1>7, <2>8, <3>1 DEF SameToken
  <2>10. x[i - 1] = s[n]
    BY <1>7, <2>5, <2>8
  <2>11. OrInside(x)
    BY <1>5, <2>8, <2>9, <2>10 DEF OrInside
  <2>12. ~Reads(x)
    BY <2>5, <2>11, OrUnread
  <2> QED
    BY <2>3, <2>12 DEF Sound
<1>9. Fine(f)
  BY <1>4, <1>6, <1>8 DEF Fine
<1> QED
  BY <1>9 DEF f

\* The pieces of a conjunction are those of its two conditions.
LEMMA ConjunctionPieces ==
    ASSUME NEW s, Formed(s), NEW t, Formed(t), NEW w, Joining(w, s, "AND", t)
    PROVE  \A x : AndPiece(w, x) <=> AndPiece(s, x) \/ AndPiece(t, x)
<1> DEFINE n == Len(s)
           l == Len(t)
           A == Ands(s)
           B == Ands(t)
           C == Ands(w)
<1>1. /\ s \in Seq(AllTokens) /\ t \in Seq(AllTokens) /\ w \in Seq(AllTokens)
      /\ n \in Nat /\ l \in Nat /\ Len(w) = (n + 1) + l
      /\ \A j \in 1..n : w[j] = s[j]
      /\ \A j \in 1..l : w[(n + 1) + j] = t[j]
      /\ \A j \in 1..n : Outer(w, j, "AND") <=> Outer(s, j, "AND")
      /\ Outer(w, n + 1, "AND")
      /\ \A j \in 1..l : Outer(w, (n + 1) + j, "AND") <=> Outer(t, j, "AND")
  <2>1. s \in Seq(AllTokens) /\ t \in Seq(AllTokens)
    BY DEF Formed
  <2>2. Formed(w) /\ Len(w) = (n + 1) + l
    BY DEF Joining
  <2>3. w \in Seq(AllTokens)
    BY <2>2 DEF Formed
  <2>4. (\A j \in 1..n : w[j] = s[j]) /\ \A j \in 1..l : w[(n + 1) + j] = t[j]
    BY DEF Joining
  <2>5. \A token : /\ \A j \in 1..n : Outer(w, j, token) <=> Outer(s, j, token)
                   /\ Outer(w, n + 1, token) <=> token = "AND"
                   /\ \A j \in 1..l : Outer(w, (n + 1) + j, token) <=> Outer(t, j, token)
    BY DEF Joining
  <2>6. n \in Nat /\ l \in Nat
    BY <2>1
  <2> HIDE DEF n, l
  <2> QED
    BY <2>1, <2>2, <2>3, <2>4, <2>5, <2>6
<1>2. /\ A \in SUBSET (1..n) /\ \A i : i \in A <=> Outer(s, i, "AND")
      /\ B \in SUBSET (1..l) /\ \A i : i \in B <=> Outer(t, i, "AND")
      /\ C \in SUBSET (1..Len(w)) /\ \A i : i \in C <=> Outer(w, i, "AND")
  BY <1>1, AndPlaces
<1> HIDE DEF A, B, C
<1>3. C = A \cup {n + 1} \cup Shifted(B, n + 1)
  <2> HIDE DEF n, l
  <2>1. ASSUME NEW i \in C PROVE i \in A \cup {n + 1} \cup Shifted(B, n + 1)
    <3>1. i \in 1..(n + 1) + l
      BY <1>1, <1>2
    <3>2. \/ i \in 1..n \/ i = n + 1 \/ (i - (n + 1) \in 1..l /\ (n + 1) + (i - (n + 1)) = i)
      BY <1>1, <3>1
    <3>3. CASE i \in 1..n
      BY <1>1, <1>2, <3>3
    <3>4. CASE i - (n + 1) \in 1..l /\ (n + 1) + (i - (n + 1)) = i
      <4> DEFINE j == i - (n + 1)
      <4>1. j \in 1..l /\ (n + 1) + j = i
        BY <3>4
      <4> HIDE DEF j
      <4>2. Outer(w, (n + 1) + j, "AND")
        BY <1>2, <4>1
      <4>3. j \in B
        BY <1>1, <1>2, <4>1, <4>2
      <4> QED
        BY <4>1, <4>3 DEF Shifted
    <3> QED
      BY <3>2, <3>3, <3>4
  <2>2. \A i \in A : i \in C
    BY <1>1, <1>2
  <2>3. n + 1 \in C
    BY <1>1, <1>2
  <2>4. \A i \in B : (n + 1) + i \in C
    BY <1>1, <1>2
  <2> QED
    BY <2>1, <2>2, <2>3, <2>4 DEF Shifted
<1> DEFINE P == Pieces(s, A)
           Q == Pieces(t, B)
           R == Pieces(w, C)
<1>4. R = P \o Q
  <2>1. PiecesAt(AllTokens, w, s, A, t, B)
    BY <1>1, <1>2, <1>3 DEF PiecesAt
  <2> QED
    BY <1>3, <2>1, PiecesJoin
<1>5. /\ P \in Seq(Seq(AllTokens)) /\ \A x : AndPiece(s, x) <=> \E k \in DOMAIN P : P[k] = x
  <2>1. /\ P \in Seq(Seq(AllTokens))
        /\ \A k \in DOMAIN P : Piece(s, A, P[k])
        /\ \A x : Piece(s, A, x) => \E k \in DOMAIN P : P[k] = x
    BY <1>1, <1>2, PiecesFacts
  <2> HIDE DEF P
  <2> QED
    BY <2>1 DEF AndPiece, A
<1>6. /\ Q \in Seq(Seq(AllTokens)) /\ \A x : AndPiece(t, x) <=> \E k \in DOMAIN Q : Q[k] = x
  <2>1. /\ Q \in Seq(Seq(AllTokens))
        /\ \A k \in DOMAIN Q : Piece(t, B, Q[k])
        /\ \A x : Piece(t, B, x) => \E k \in DOMAIN Q : Q[k] = x
    BY <1>1, <1>2, PiecesFacts
  <2> HIDE DEF Q
  <2> QED
    BY <2>1 DEF AndPiece, B
<1>7. \A x : AndPiece(w, x) <=> \E k \in DOMAIN R : R[k] = x
  <2>1. /\ \A k \in DOMAIN R : Piece(w, C, R[k])
        /\ \A x : Piece(w, C, x) => \E k \in DOMAIN R : R[k] = x
    BY <1>1, <1>2, PiecesFacts
  <2> HIDE DEF R
  <2> QED
    BY <2>1 DEF AndPiece, C
<1> HIDE DEF P, Q, R, n, l
<1>8. /\ Len(P \o Q) = Len(P) + Len(Q)
      /\ \A k \in 1..Len(P) : (P \o Q)[k] = P[k]
      /\ \A k \in 1..Len(Q) : (P \o Q)[Len(P) + k] = Q[k]
      /\ P \o Q \in Seq(Seq(AllTokens) \cup Seq(AllTokens))
  <2>1. P \in Seq(Seq(AllTokens)) /\ Q \in Seq(Seq(AllTokens))
    BY <1>5, <1>6
  <2> QED
    BY <2>1, ConcatTypes
<1>9. DOMAIN P = 1..Len(P) /\ DOMAIN Q = 1..Len(Q) /\ DOMAIN R = 1..(Len(P) + Len(Q)) /\ Len(P) \in Nat /\ Len(Q) \in Nat
  BY <1>4, <1>5, <1>6, <1>8
<1>10. \A x : (\E k \in DOMAIN R : R[k] = x) <=> (\E k \in DOMAIN P : P[k] = x) \/ (\E k \in DOMAIN Q : Q[k] = x)
  <2> TAKE x
  <2>1. ASSUME NEW k \in DOMAIN R, R[k] = x
        PROVE  (\E j \in DOMAIN P : P[j] = x) \/ (\E j \in DOMAIN Q : Q[j] = x)
    <3>1. k \in 1..Len(P) \/ (k - Len(P) \in 1..Len(Q) /\ Len(P) + (k - Len(P)) = k)
      BY <1>9
    <3>2. CASE k \in 1..Len(P)
      BY <1>4, <1>8, <1>9, <2>1, <3>2
    <3>3. CASE k - Len(P) \in 1..Len(Q) /\ Len(P) + (k - Len(P)) = k
      <4>1. (P \o Q)[Len(P) + (k - Len(P))] = Q[k - Len(P)]
        BY <1>8, <3>3
      <4> QED
        BY <1>4, <1>9, <2>1, <3>3, <4>1
    <3> QED
      BY <3>1, <3>2, <3>3
  <2>2. ASSUME NEW k \in DOMAIN P, P[k] = x PROVE \E j \in DOMAIN R : R[j] = x
    <3>1. k \in 1..Len(P) /\ k \in DOMAIN R
      BY <1>9
    <3> QED
      BY <1>4, <1>8, <2>2, <3>1
  <2>3. ASSUME NEW k \in DOMAIN Q, Q[k] = x PROVE \E j \in DOMAIN R : R[j] = x
    <3>1. k \in 1..Len(Q) /\ Len(P) + k \in DOMAIN R
      BY <1>9
    <3> QED
      BY <1>4, <1>8, <2>3, <3>1
  <2> QED
    BY <2>1, <2>2, <2>3
<1> QED
  BY <1>5, <1>6, <1>7, <1>10

\* A conjunction means what both mean.
LEMMA ConjunctionFine ==
    ASSUME NEW e, Fine(e), NEW g, Fine(g)
    PROVE  Fine(Conjunction(e, g))
<1> DEFINE s == e.tokens
           t == g.tokens
           w == s \o <<"AND">> \o t
           form == IF e.form = "cmp" /\ g.form = "cmp" THEN "flat" ELSE "other"
           f == Conjunction(e, g)
<1>1. e \in Wholes /\ g \in Wholes /\ Formed(s) /\ Formed(t)
  BY DEF Fine
<1>2. Joining(w, s, "AND", t)
  BY <1>1, JoiningTwo
<1>3. f = [tokens |-> w, columns |-> e.columns \cup g.columns, form |-> form, holds |-> e.holds \cap g.holds]
  BY DEF Conjunction
<1> HIDE DEF w, f
<1>4. w \in Seq(AllTokens) /\ Formed(w) /\ Unwrap(w) = w
  BY <1>2 DEF Joining, Formed
<1>5. form \in {"cmp", "flat", "other"} /\ form # "cmp" /\ (form # "other" => e.form = "cmp" /\ g.form = "cmp")
  OBVIOUS
<1> HIDE DEF form
<1>6. f \in Wholes /\ f.tokens = w /\ f.columns = e.columns \cup g.columns /\ f.form = form /\ f.holds = e.holds \cap g.holds
  BY <1>1, <1>3, <1>4, <1>5 DEF Wholes
<1>7. \A x : AndPiece(w, x) <=> AndPiece(s, x) \/ AndPiece(t, x)
  BY <1>1, <1>2, ConjunctionPieces
<1>8. Sound(w, f.holds)
  <2> SUFFICES ASSUME \A x : AndPiece(w, x) => Reads(x) PROVE f.holds = Meaning(w)
    BY DEF Sound
  <2>1. e.holds = Meaning(s) /\ g.holds = Meaning(t)
    BY <1>7 DEF Fine, Sound
  <2>2. Meaning(w) = Meaning(s) \cap Meaning(t)
    BY <1>7 DEF Meaning
  <2> QED
    BY <1>6, <2>1, <2>2
<1>9. ASSUME form # "other" PROVE Flat(w, f.columns)
  <2>1. /\ OuterFree(s, "AND") /\ Reads(s) /\ e.columns = {Parsed(s).column}
        /\ OuterFree(t, "AND") /\ Reads(t) /\ g.columns = {Parsed(t).column}
    BY <1>5, <1>9 DEF Fine
  <2>2. s \in Seq(AllTokens) /\ t \in Seq(AllTokens) /\ Terminated(w)
    BY <1>1, <1>4 DEF Formed, Balanced
  <2>3. (\A x : AndPiece(s, x) <=> x = s) /\ \A x : AndPiece(t, x) <=> x = t
    BY <2>1, <2>2, WholePiece
  <2> QED
    BY <1>6, <1>7, <2>1, <2>2, <2>3 DEF Flat
<1>10. Fine(f)
  BY <1>4, <1>5, <1>6, <1>8, <1>9 DEF Fine
<1> QED
  BY <1>10 DEF f

\* Every condition of the texts.
LEMMA ExpressionsFine == \A e \in Expressions : Fine(e)
<1> DEFINE N == Len(Written)
           T == {n \in Nat : n + 1 \in 1..N => \A e \in Written[n + 1] : Fine(e)}
<1>1. N \in Nat /\ N >= 1 /\ DOMAIN Written = 1..N /\ Written[1] \subseteq Comparisons
  BY WrittenAssumption
<1>2. 0 \in T
  <2>1. 0 + 1 = 1
    OBVIOUS
  <2> QED
    BY <1>1, <2>1, ComparisonFine
<1>3. ASSUME NEW n \in Nat, n \in T PROVE n + 1 \in T
  <2> DEFINE m == n + 1
  <2>0. m \in Nat
    OBVIOUS
  <2> SUFFICES ASSUME m + 1 \in 1..N, NEW e \in Written[m + 1] PROVE Fine(e)
    BY <2>0
  <2>1. m \in 1..N /\ m \in 1..N - 1
    BY <1>1
  <2>2. \A a \in Written[m] : Fine(a)
    BY <1>3, <2>1
  <2> HIDE DEF m, N, T
  <2>3. \/ e \in UNION {Written[m], {InParentheses(a) : a \in Written[m]}, {Negation(a) : a \in Written[m]}}
        \/ e \in UNION {Written[m], {Conjunction(a, b) : a, b \in Written[m]},
                        {Disjunction(a, b) : a, b \in Written[m]}}
    BY <2>1, WrittenAssumption DEF N
  <2>4. \/ e \in Written[m]
        \/ \E a \in Written[m] : e = InParentheses(a) \/ e = Negation(a)
        \/ \E a, b \in Written[m] : e = Conjunction(a, b) \/ e = Disjunction(a, b)
    BY <2>3
  <2> QED
    BY <2>2, <2>4, ParenthesesFine, NegationFine, ConjunctionFine, DisjunctionFine
<1> HIDE DEF T
<1>4. Nat \subseteq T
  BY <1>2, <1>3, NumbersInduction
<1> SUFFICES ASSUME NEW n \in 1..N, NEW e \in Written[n] PROVE Fine(e)
  BY <1>1 DEF Expressions
<1>5. n - 1 \in Nat /\ (n - 1) + 1 = n
  OBVIOUS
<1>6. n - 1 \in T
  BY <1>4, <1>5
<1> QED
  BY <1>5, <1>6 DEF T

-----------------------------------------------------------------------------
(* The texts of partitions: lists.                                           *)

\* The commas a text is split at.
Commas(t) == {i \in Outside(t) : t[i] = "comma" /\ Depth(t)[i] = 0}

\* Where a list is split.
LEMMA CommaPlaces ==
    ASSUME NEW S, NEW t \in Seq(S)
    PROVE  /\ Commas(t) \in SUBSET (1..Len(t))
           /\ \A i : i \in Commas(t) <=> Outer(t, i, "comma") /\ Level(t, i) = 0
<1>1. Outside(t) \subseteq 1..Len(t)
  BY DEF Outside
<1> QED
  BY <1>1 DEF Commas, Outer, Level

\* A balanced list is not refused.
LEMMA SplitBalanced ==
    ASSUME NEW S, NEW t \in Seq(S), Balanced(t)
    PROVE  SplitTopLevel(t) = Pieces(t, Commas(t))
<1> DEFINE depth == Depth(t)
<1>1. Terminated(t) /\ depth[Len(t)] = 0 /\ \A i \in 0..Len(t) : depth[i] >= 0
  BY DEF Balanced, Level
<1>2. DOMAIN t \subseteq 0..Len(t) /\ \A i \in 0..Len(t) : depth[i] \in Int
  <2>1. DOMAIN t \subseteq 0..Len(t)
    OBVIOUS
  <2>2. \A i \in 0..Len(t) : Level(t, i) \in Int
    BY LevelStep
  <2> QED
    BY <2>1, <2>2 DEF Level
<1>3. ~\E i \in DOMAIN t : depth[i] < 0
  <2> HIDE DEF depth
  <2> QED
    BY <1>1, <1>2
<1> QED
  BY <1>1, <1>3 DEF SplitTopLevel, Commas

\* A part without commas is behind a comma.
CommaJoins(w, s, t) ==
    /\ w \in Seq(AllTokens) /\ Balanced(w) /\ Len(w) = (Len(s) + 1) + Len(t)
    /\ \A j \in 1..Len(s) : w[j] = s[j]
    /\ \A j \in 1..Len(t) : w[(Len(s) + 1) + j] = t[j]
    /\ \A j \in 1..Len(s) : Level(w, j) = Level(s, j) /\ (Outer(w, j, "comma") <=> Outer(s, j, "comma"))
    /\ Level(w, Len(s) + 1) = 0 /\ Outer(w, Len(s) + 1, "comma")
    /\ \A j \in 1..Len(t) : ~Outer(w, (Len(s) + 1) + j, "comma")

\* The comma that joins two texts is outside quotes and parentheses.
LEMMA CommaBetween ==
    ASSUME NEW s \in Seq(AllTokens), Balanced(s), NEW t \in Seq(AllTokens), Balanced(t), OuterFree(t, "comma")
    PROVE  CommaJoins(s \o (<<"comma">> \o t), s, t)
<1> DEFINE q == <<"comma">>
           r == q \o t
           w == s \o r
           n == Len(s)
           l == Len(t)
<1>1. /\ n \in Nat /\ l \in Nat /\ Terminated(s) /\ Level(s, n) = 0
  BY DEF Balanced
<1>2. /\ q \in Seq(AllTokens) /\ Len(q) = 1 /\ Balanced(q) /\ Terminated(q)
      /\ (\A token : Outer(q, 1, token) <=> token = "comma") /\ Level(q, 1) = 0
  <2>1. "comma" \in AllTokens
    BY DEF AllTokens, Marks
  <2> QED
    BY <2>1, WordFree, WordScans
<1> HIDE DEF q, n, l
<1>3. /\ r \in Seq(AllTokens) /\ Len(r) = 1 + l /\ Balanced(r) /\ \A i \in 1..l : r[1 + i] = t[i]
  <2>0. q \in Seq(AllTokens)
    BY <1>2
  <2>1. /\ Len(q \o t) = Len(q) + Len(t)
        /\ \A i \in 1..Len(t) : (q \o t)[Len(q) + i] = t[i]
    BY <2>0, ConcatTypes
  <2>2. Balanced(q \o t)
    BY <1>2, ConcatBalanced
  <2>3. q \o t \in Seq(AllTokens)
    BY <2>0
  <2> QED
    BY <1>2, <2>1, <2>2, <2>3 DEF l
<1>4. Outer(r, 1, "comma") /\ Level(r, 1) = 0
  <2>1. IsPart(q \o t, 0, q)
    BY <1>2, ConcatScans
  <2>2. q \in Seq(AllTokens) /\ r \in Seq(AllTokens)
    BY <1>2, <1>3
  <2>3. \A i \in 0..Len(q) : Level(r, i) = Level(q, i) /\ (i # 0 => SameToken(r, i, q, i))
    BY <2>1, <2>2, PrefixScans
  <2>4. 1 \in 0..Len(q)
    BY <1>2
  <2> QED
    BY <1>2, <2>3, <2>4 DEF SameToken
<1>5. \A i \in 1..l : ~Outer(r, 1 + i, "comma")
  <2>1. \A i \in 1..Len(t) : Outer(q \o t, Len(q) + i, "comma") <=> Outer(t, i, "comma")
    BY <1>2, ConcatOuter
  <2> QED
    BY <1>2, <2>1 DEF l, OuterFree
<1> HIDE DEF r
<1>6. /\ w \in Seq(AllTokens) /\ Len(w) = n + (1 + l) /\ Balanced(w)
      /\ \A i \in 1..n : w[i] = s[i]
      /\ \A i \in 1..(1 + l) : w[n + i] = r[i]
  <2>0. r \in Seq(AllTokens)
    BY <1>3
  <2>1. /\ Len(s \o r) = Len(s) + Len(r)
        /\ \A i \in 1..Len(s) : (s \o r)[i] = s[i]
        /\ \A i \in 1..Len(r) : (s \o r)[Len(s) + i] = r[i]
    BY <2>0, ConcatTypes
  <2>2. Balanced(s \o r)
    BY <1>3, ConcatBalanced
  <2>3. s \o r \in Seq(AllTokens)
    BY <2>0
  <2> QED
    BY <1>3, <2>1, <2>2, <2>3 DEF n
<1>7. \A i \in 0..n : Level(w, i) = Level(s, i) /\ (i # 0 => SameToken(w, i, s, i))
  <2>1. IsPart(s \o r, 0, s)
    BY <1>3, ConcatScans
  <2>2. w \in Seq(AllTokens)
    BY <1>6
  <2> QED
    BY <2>1, <2>2, PrefixScans DEF n
<1>8. \A i \in 0..(1 + l) : Level(w, n + i) = Level(w, n) + Level(r, i) /\ (i # 0 => SameToken(w, n + i, r, i))
  <2>1. IsPart(s \o r, Len(s), r)
    BY <1>1, <1>3, ConcatScans
  <2> QED
    BY <1>3, <2>1 DEF n, IsPart
<1> HIDE DEF w
<1>9. \A i \in 1..l : (n + 1) + i = n + (1 + i) /\ 1 + i \in 1..(1 + l)
  BY <1>1
<1>10. \A j \in 1..l : w[(n + 1) + j] = t[j] /\ ~Outer(w, (n + 1) + j, "comma")
  <2> TAKE j \in 1..l
  <2>1. 1 + j \in 0..(1 + l) /\ 1 + j # 0
    BY <1>1
  <2> QED
    BY <1>3, <1>5, <1>6, <1>8, <1>9, <2>1 DEF SameToken
<1>11. Level(w, n + 1) = 0 /\ Outer(w, n + 1, "comma")
  <2>1. 1 \in 0..(1 + l) /\ n \in 0..n
    BY <1>1
  <2>2. Level(w, n + 1) = Level(w, n) + Level(r, 1) /\ SameToken(w, n + 1, r, 1)
    BY <1>8, <2>1
  <2> QED
    BY <1>1, <1>4, <1>7, <2>1, <2>2 DEF SameToken
<1>12. \A j \in 1..n : Level(w, j) = Level(s, j) /\ (Outer(w, j, "comma") <=> Outer(s, j, "comma"))
  BY <1>7 DEF SameToken
<1>13. Len(w) = (n + 1) + l
  BY <1>1, <1>6
<1> QED
  BY <1>6, <1>10, <1>11, <1>12, <1>13 DEF CommaJoins, w, n, l, r, q

\* Without a separator there is one piece.
LEMMA WholePieces ==
    ASSUME NEW S, NEW t \in Seq(S)
    PROVE  Pieces(t, {}) = <<t>>
<1> DEFINE P == Pieces(t, {})
<1>1. Len(t) \in Nat /\ SubSeq(t, 0 + 1, (Len(t) + 1) - 1) = t
  <2>1. Len(t) \in Nat /\ 0 + 1 = 1 /\ (Len(t) + 1) - 1 = Len(t)
    OBVIOUS
  <2>2. SubSeq(t, 1, Len(t)) = t
    OBVIOUS
  <2> QED
    BY <2>1, <2>2
<1>2. ASSUME NEW a, NEW b, Between(Len(t), {}, a, b) PROVE a = 0 /\ b = Len(t) + 1
  BY <1>2 DEF Between
<1>3. \A x : Piece(t, {}, x) => x = t
  BY <1>1, <1>2 DEF Piece
<1>4. P \in Seq(Seq(S)) /\ Len(P) = 1 /\ \A k \in DOMAIN P : Piece(t, {}, P[k])
  <2>1. Cardinality({}) = 0
    BY FS_EmptySet
  <2>2. {} \in SUBSET (1..Len(t))
    OBVIOUS
  <2>3. P \in Seq(Seq(S)) /\ Len(P) = Cardinality({}) + 1 /\ \A k \in DOMAIN P : Piece(t, {}, P[k])
    BY <2>2, PiecesFacts
  <2> HIDE DEF P
  <2>4. Len(P) = 0 + 1
    BY <2>1, <2>3
  <2>5. Len(P) = 1
    BY <2>4
  <2> QED
    BY <2>3, <2>5, Zenon
<1> HIDE DEF P
<1>5. DOMAIN P = 1..1 /\ P[1] = t
  BY <1>3, <1>4
<1>6. P = <<t>>
  BY <1>4, <1>5
<1> QED
  BY <1>6 DEF P

\* One part more in the list is one piece more.
LEMMA CommaPieces ==
    ASSUME NEW s \in Seq(AllTokens), NEW t \in Seq(AllTokens), NEW w, CommaJoins(w, s, t)
    PROVE  Pieces(w, Commas(w)) = Pieces(s, Commas(s)) \o <<t>>
<1> DEFINE n == Len(s)
           l == Len(t)
           A == Commas(s)
           C == Commas(w)
<1>1. /\ w \in Seq(AllTokens) /\ n \in Nat /\ l \in Nat /\ Len(w) = (n + 1) + l
      /\ \A j \in 1..n : Level(w, j) = Level(s, j) /\ (Outer(w, j, "comma") <=> Outer(s, j, "comma"))
      /\ Level(w, n + 1) = 0 /\ Outer(w, n + 1, "comma")
      /\ \A j \in 1..l : ~Outer(w, (n + 1) + j, "comma")
  BY DEF CommaJoins
<1>2. /\ A \in SUBSET (1..n) /\ \A i : i \in A <=> Outer(s, i, "comma") /\ Level(s, i) = 0
      /\ C \in SUBSET (1..Len(w)) /\ \A i : i \in C <=> Outer(w, i, "comma") /\ Level(w, i) = 0
  BY <1>1, CommaPlaces
<1>3. PiecesAt(AllTokens, w, s, A, t, {})
  BY <1>1, <1>2 DEF PiecesAt, CommaJoins
<1> HIDE DEF A, C, n, l
<1>4. C = A \cup {n + 1} \cup Shifted({}, n + 1)
  <2>1. Shifted({}, n + 1) = {}
    BY DEF Shifted
  <2>2. ASSUME NEW i \in C PROVE i \in A \cup {n + 1}
    <3>1. i \in 1..(n + 1) + l
      BY <1>1, <1>2
    <3>2. \/ i \in 1..n \/ i = n + 1 \/ (i - (n + 1) \in 1..l /\ (n + 1) + (i - (n + 1)) = i)
      BY <1>1, <3>1
    <3>3. CASE i \in 1..n
      BY <1>1, <1>2, <3>3
    <3>4. CASE i - (n + 1) \in 1..l /\ (n + 1) + (i - (n + 1)) = i
      <4> DEFINE j == i - (n + 1)
      <4>1. j \in 1..l /\ (n + 1) + j = i
        BY <3>4
      <4> HIDE DEF j
      <4>2. Outer(w, (n + 1) + j, "comma")
        BY <1>2, <4>1
      <4> QED
        BY <1>1, <4>1, <4>2
    <3> QED
      BY <3>2, <3>3, <3>4
  <2>3. \A i \in A : i \in C
    BY <1>1, <1>2
  <2>4. n + 1 \in C
    BY <1>1, <1>2
  <2> QED
    BY <2>1, <2>2, <2>3, <2>4
<1>5. Pieces(w, C) = Pieces(s, A) \o Pieces(t, {})
  BY <1>3, <1>4, PiecesJoin DEF n
<1>6. Pieces(t, {}) = <<t>>
  BY WholePieces
<1> QED
  BY <1>5, <1>6 DEF A, C

\* The parts of a list.
Parts(parts) == parts \in Seq(Seq(AllTokens)) /\ \A k \in DOMAIN parts : Balanced(parts[k]) /\ OuterFree(parts[k], "comma")

\* Splitting the list gives the parts it was joined from.
LEMMA JoinedSplits ==
    ASSUME NEW parts, Parts(parts), parts # <<>>
    PROVE  Joined(parts) \in Seq(AllTokens) /\ Balanced(Joined(parts)) /\ SplitTopLevel(Joined(parts)) = parts
<1> DEFINE N == Len(parts)
           seqs == [k \in DOMAIN parts |-> IF k = 1 THEN parts[k] ELSE <<"comma">> \o parts[k]]
           J(n) == FlattenTo(seqs, n)
           Good(n) == /\ J(n) \in Seq(AllTokens) /\ Balanced(J(n))
                      /\ Pieces(J(n), Commas(J(n))) = SubSeq(parts, 1, n)
           T == {n \in Nat : n + 1 \in 1..N => Good(n + 1)}
<1>1. /\ parts \in Seq(Seq(AllTokens)) /\ N \in Nat /\ N >= 1 /\ DOMAIN parts = 1..N
      /\ \A k \in 1..N : parts[k] \in Seq(AllTokens) /\ Balanced(parts[k]) /\ OuterFree(parts[k], "comma")
  BY DEF Parts
<1>2. /\ seqs \in Seq(Seq(AllTokens)) /\ Len(seqs) = N /\ seqs[1] = parts[1]
      /\ \A k \in 2..N : seqs[k] = <<"comma">> \o parts[k]
  <2>1. <<"comma">> \in Seq(AllTokens)
    <3>1. "comma" \in AllTokens
      BY DEF AllTokens, Marks
    <3> QED
      BY <3>1
  <2>2. seqs = [k \in 1..N |-> seqs[k]] /\ \A k \in 1..N : seqs[k] \in Seq(AllTokens)
    <3>1. \A k \in 1..N : <<"comma">> \o parts[k] \in Seq(AllTokens)
      BY <1>1, <2>1
    <3> QED
      BY <1>1, <3>1
  <2>3. seqs[1] = parts[1] /\ \A k \in 2..N : seqs[k] = <<"comma">> \o parts[k]
    BY <1>1
  <2> HIDE DEF seqs
  <2> QED
    BY <1>1, <2>2, <2>3, IsSequence
<1>3. Joined(parts) = J(N)
  <2>1. Joined(parts) = FlattenSeq(seqs)
    BY DEF Joined
  <2> HIDE DEF seqs
  <2> QED
    BY <1>2, <2>1, FlattenEnds
<1> HIDE DEF seqs
<1>4. 0 \in T
  <2>1. J(1) = parts[1]
    <3>1. 0 \in Nat /\ 0 < Len(seqs) /\ 0 + 1 = 1
      BY <1>1, <1>2
    <3>2. J(0 + 1) = seqs[1]
      BY <1>2, <3>1, FlattenStep
    <3> QED
      BY <1>2, <3>1, <3>2
  <2>2. parts[1] \in Seq(AllTokens) /\ Balanced(parts[1]) /\ OuterFree(parts[1], "comma")
    BY <1>1
  <2>3. Commas(parts[1]) = {}
    BY <2>2, CommaPlaces DEF OuterFree
  <2>4. Pieces(parts[1], {}) = <<parts[1]>>
    BY <2>2, WholePieces
  <2>5. SubSeq(parts, 1, 1) = <<parts[1]>>
    <3> DEFINE x == SubSeq(parts, 1, 1)
               y == <<parts[1]>>
    <3>1. x \in Seq(Seq(AllTokens)) /\ Len(x) = 1 /\ x[1] = parts[1]
      BY <1>1
    <3>2. y \in Seq(Seq(AllTokens)) /\ Len(y) = 1 /\ y[1] = parts[1]
      BY <1>1
    <3> HIDE DEF x, y
    <3>3. x = y
      BY <3>1, <3>2
    <3> QED
      BY <3>3 DEF x, y
  <2> HIDE DEF J
  <2>6. Good(1)
    BY <2>1, <2>2, <2>3, <2>4, <2>5
  <2> HIDE DEF Good
  <2>7. 0 + 1 = 1
    OBVIOUS
  <2> QED
    BY <2>6, <2>7
<1>5. ASSUME NEW n \in Nat, n \in T PROVE n + 1 \in T
  <2> DEFINE m == n + 1
             s == J(m)
             t == parts[m + 1]
  <2>0. m \in Nat /\ m # 0
    OBVIOUS
  <2> SUFFICES ASSUME m + 1 \in 1..N PROVE Good(m + 1)
    BY <2>0
  <2>1. m \in 1..N /\ m + 1 \in 2..N /\ m < N
    BY <1>1
  <2>2. Good(m)
    BY <1>5, <2>1
  <2> HIDE DEF m
  <2>3. J(m + 1) = s \o (<<"comma">> \o t)
    <3>1. FlattenTo(seqs, m + 1) = FlattenTo(seqs, m) \o seqs[m + 1]
      BY <1>2, <2>0, <2>1, FlattenStep
    <3> QED
      BY <1>2, <2>1, <3>1
  <2>4. s \in Seq(AllTokens) /\ Balanced(s) /\ Pieces(s, Commas(s)) = SubSeq(parts, 1, m)
    BY <2>2
  <2> HIDE DEF J
  <2>5. t \in Seq(AllTokens) /\ Balanced(t) /\ OuterFree(t, "comma")
    BY <1>1
  <2> DEFINE w == s \o (<<"comma">> \o t)
  <2>6. CommaJoins(w, s, t)
    BY <2>4, <2>5, CommaBetween
  <2> HIDE DEF w, s, t
  <2>7. w \in Seq(AllTokens) /\ Balanced(w)
    BY <2>6 DEF CommaJoins
  <2>8. Pieces(w, Commas(w)) = SubSeq(parts, 1, m) \o <<t>>
    BY <2>4, <2>5, <2>6, CommaPieces
  <2>9. SubSeq(parts, 1, m) \o <<t>> = SubSeq(parts, 1, m + 1)
    BY <1>1, <2>1 DEF t
  <2>10. J(m + 1) = w
    BY <2>3 DEF w
  <2> QED
    BY <2>7, <2>8, <2>9, <2>10
<1> HIDE DEF T
<1>6. Nat \subseteq T
  BY <1>4, <1>5, NumbersInduction
<1>7. N - 1 \in T /\ (N - 1) + 1 = N
  BY <1>1, <1>6
<1>8. Good(N)
  BY <1>1, <1>7 DEF T
<1>9. SubSeq(parts, 1, N) = parts
  BY <1>1
<1> DEFINE w == J(N)
<1> HIDE DEF J
<1>10. w \in Seq(AllTokens) /\ Balanced(w) /\ Pieces(w, Commas(w)) = parts
  BY <1>8, <1>9
<1> HIDE DEF w
<1>11. SplitTopLevel(w) = parts
  BY <1>10, SplitBalanced
<1> QED
  BY <1>3, <1>10, <1>11 DEF w

-----------------------------------------------------------------------------
(* The texts of partitions: what is read of one partition.                   *)

\* What is read of one partition's tokens.
Split(t) == SplitConditions(Unwrap(t))
Read(t) == [c \in DOMAIN Split(t) |-> Parsed(Split(t)[c])]

\* The conditions of one partition are its pieces; none is empty.
LEMMA SplitFacts ==
    ASSUME NEW t \in Seq(AllTokens)
    PROVE  /\ Split(t) # Refused => /\ Split(t) \in Seq(Seq(AllTokens))
                                    /\ \A x : AndPiece(Unwrap(t), x) <=> \E k \in DOMAIN Split(t) : Split(t)[k] = x
           /\ Terminated(Unwrap(t)) /\ (\A x : AndPiece(Unwrap(t), x) => x # <<>>) => Split(t) # Refused
<1> DEFINE u == Unwrap(t)
           P == Pieces(u, Ands(u))
<1>1. u \in Seq(AllTokens)
  BY UnwrapTypes
<1>2. Split(t) = IF ~Terminated(u) \/ \E k \in DOMAIN P : P[k] = <<>> THEN Refused ELSE P
  BY DEF Split, SplitConditions, Ands
<1> HIDE DEF u
<1>3. /\ P \in Seq(Seq(AllTokens))
      /\ \A k \in DOMAIN P : Piece(u, Ands(u), P[k])
      /\ \A x : Piece(u, Ands(u), x) => \E k \in DOMAIN P : P[k] = x
  BY <1>1, AndPlaces, PiecesFacts
<1> HIDE DEF P
<1>4. \A x : AndPiece(u, x) <=> \E k \in DOMAIN P : P[k] = x
  BY <1>3 DEF AndPiece
<1>5. P # Refused
  BY <1>3, RefusedAssumption
<1> QED
  BY <1>2, <1>3, <1>4, <1>5 DEF u

\* A condition that is read is one.
LEMMA ReadTypes ==
    ASSUME NEW x \in Seq(AllTokens), Reads(x)
    PROVE  Parsed(x) \in Conditions /\ Parsed(x) # Refused /\ x # <<>>
<1> DEFINE u == Unwrap(x)
<1>1. u \in Seq(AllTokens) /\ (x = <<>> => u = <<>>)
  <2>1. u \in Seq(AllTokens) /\ (Unwrapped(x) = x => u = x)
    BY UnwrapTypes
  <2>2. ASSUME x = <<>> PROVE Unwrapped(x) = x
    <3>1. Unwrapped(x) \in Seq(AllTokens) /\ (Unwrapped(x) = x \/ Len(x) = Len(Unwrapped(x)) + 2)
      BY UnwrappedFacts
    <3>2. Len(x) = 0 /\ Len(Unwrapped(x)) \in Nat
      BY <2>2, <3>1
    <3> QED
      BY <3>1, <3>2
  <2> QED
    BY <2>1, <2>2
<1>2. ParseCondition(u) # Refused
  BY DEF Reads
<1> HIDE DEF u
<1>3. PICK i : SplitsAt(u, i) /\ ParseCondition(u) = ConditionAt(u, i)
  BY <1>1, <1>2, ConditionSplits
<1>4. ConditionAt(u, i) \in Conditions
  BY <1>1, <1>3, ConditionTypes
<1>5. i \in DOMAIN u
  BY <1>3 DEF SplitsAt
<1>6. u # <<>>
  BY <1>5
<1> QED
  BY <1>1, <1>2, <1>3, <1>4, <1>6 DEF Parsed, u

\* What is read is right, and what can be read is.
ReadsRight(e) ==
    /\ Split(e.tokens) # Refused /\ Refused \notin ToSet(Read(e.tokens))
         => Read(e.tokens) \in Seq(Conditions) /\ Selects(Read(e.tokens)) = e.holds
    /\ e.form # "other" => /\ Split(e.tokens) # Refused /\ Refused \notin ToSet(Read(e.tokens))
                           /\ {Read(e.tokens)[c].column : c \in DOMAIN Read(e.tokens)} = e.columns

\* A fine condition is read right.
LEMMA FineReads ==
    ASSUME NEW e, Fine(e)
    PROVE  ReadsRight(e)
<1> DEFINE t == e.tokens
           u == Unwrap(t)
           S == Split(t)
           R == Read(t)
<1>1. t \in Seq(AllTokens) /\ e.holds \subseteq Assignments
  BY DEF Fine, Formed, Wholes
<1>2. /\ Sound(u, e.holds)
      /\ e.form # "other" => Flat(u, e.columns)
  BY DEF Fine
<1>3. /\ S # Refused => S \in Seq(Seq(AllTokens)) /\ \A x : AndPiece(u, x) <=> \E k \in DOMAIN S : S[k] = x
      /\ Terminated(u) /\ (\A x : AndPiece(u, x) => x # <<>>) => S # Refused
  BY <1>1, SplitFacts
<1>4. \A x : AndPiece(u, x) => x \in Seq(AllTokens)
  <2>1. u \in Seq(AllTokens)
    BY <1>1, UnwrapTypes
  <2> HIDE DEF u
  <2> DEFINE P == Pieces(u, Ands(u))
  <2>2. /\ P \in Seq(Seq(AllTokens))
        /\ \A k \in DOMAIN P : Piece(u, Ands(u), P[k])
        /\ \A x : Piece(u, Ands(u), x) => \E k \in DOMAIN P : P[k] = x
    BY <2>1, AndPlaces, PiecesFacts
  <2> HIDE DEF P
  <2> QED
    BY <2>2 DEF AndPiece
<1>5. R = [c \in DOMAIN S |-> Parsed(S[c])]
  BY DEF Read
<1> HIDE DEF t, u, S, R
<1>6. DOMAIN R = DOMAIN S /\ \A c \in DOMAIN S : R[c] = Parsed(S[c])
  BY <1>5
<1>7. ASSUME S # Refused, Refused \notin ToSet(R) PROVE R \in Seq(Conditions) /\ Selects(R) = e.holds
  <2>1. \A c \in DOMAIN S : S[c] \in Seq(AllTokens) /\ Reads(S[c]) /\ R[c] = Parsed(S[c]) /\ R[c] \in Conditions
    <3> TAKE c \in DOMAIN S
    <3>1. S[c] \in Seq(AllTokens)
      BY <1>3, <1>7
    <3>2. Parsed(S[c]) # Refused
      BY <1>6, <1>7 DEF ToSet
    <3>3. Reads(S[c])
      BY <3>2 DEF Reads, Parsed
    <3> QED
      BY <1>6, <3>1, <3>3, ReadTypes
  <2>2. R \in Seq(Conditions)
    <3>1. S \in Seq(Seq(AllTokens)) /\ Len(S) \in Nat /\ DOMAIN S = 1..Len(S)
      BY <1>3, <1>7
    <3>2. R = [c \in 1..Len(S) |-> R[c]]
      BY <1>5, <3>1
    <3> QED
      BY <2>1, <3>1, <3>2, IsSequence
  <2>3. \A x : AndPiece(u, x) => Reads(x)
    BY <1>3, <1>7, <2>1
  <2>4. e.holds = Meaning(u)
    BY <1>2, <2>3 DEF Sound
  <2>5. ASSUME NEW p \in Assignments
        PROVE  p \in Selects(R) <=> p \in Meaning(u)
    <3>1. p \in Selects(R) <=> \A c \in DOMAIN S : Compare(p[R[c].column], R[c].operator, ValueOf(R[c].value))
      BY <1>6 DEF Selects
    <3>2. \A c \in DOMAIN S : p \in Holds(S[c]) <=> Compare(p[R[c].column], R[c].operator, ValueOf(R[c].value))
      BY <2>1 DEF Holds
    <3>3. p \in Meaning(u) <=> \A c \in DOMAIN S : p \in Holds(S[c])
      BY <1>3, <1>7 DEF Meaning
    <3> QED
      BY <3>1, <3>2, <3>3
  <2>6. Selects(R) \subseteq Assignments /\ Meaning(u) \subseteq Assignments
    BY DEF Selects, Meaning
  <2>7. Selects(R) = Meaning(u)
    BY <2>5, <2>6
  <2> QED
    BY <2>2, <2>4, <2>7
<1>8. ASSUME e.form # "other"
      PROVE  S # Refused /\ Refused \notin ToSet(R) /\ {R[c].column : c \in DOMAIN R} = e.columns
  <2>1. /\ Terminated(u)
        /\ \A x : AndPiece(u, x) => Reads(x) /\ Parsed(x).column \in e.columns
        /\ \A name \in e.columns : \E x : AndPiece(u, x) /\ Parsed(x).column = name
    BY <1>2, <1>8 DEF Flat
  <2>2. \A x : AndPiece(u, x) => x # <<>> /\ Parsed(x) # Refused
    BY <1>4, <2>1, ReadTypes
  <2>3. S # Refused
    BY <1>3, <2>1, <2>2
  <2>4. \A x : AndPiece(u, x) <=> \E k \in DOMAIN S : S[k] = x
    BY <1>3, <2>3
  <2>5. \A c \in DOMAIN S : AndPiece(u, S[c]) /\ R[c] = Parsed(S[c])
    BY <1>6, <2>4
  <2>6. Refused \notin ToSet(R)
    BY <1>6, <2>2, <2>5 DEF ToSet
  <2>7. \A c \in DOMAIN R : R[c].column \in e.columns
    BY <1>6, <2>1, <2>5
  <2>8. \A name \in e.columns : \E c \in DOMAIN R : R[c].column = name
    BY <1>6, <2>1, <2>4, <2>5
  <2> QED
    BY <2>3, <2>6, <2>7, <2>8
<1> QED
  BY <1>7, <1>8 DEF ReadsRight, t, S, R

-----------------------------------------------------------------------------
(* The texts of partitions: rows and definitions.                            *)

\* The tokens of the text's partitions.
Tokens(g) == [k \in DOMAIN g.partitions |-> g.partitions[k].tokens]

MeansText(p) ==
    \/ p = Refused /\ ~Ordinary
    \/ /\ p \in Seq(Seq(Conditions)) /\ Len(p) = Len(text.partitions)
       /\ \A k \in DOMAIN p : Selects(p[k]) = text.partitions[k].holds

\* The partitions of a text are fine.
LEMMA TextFacts ==
    ASSUME NEW g \in Texts
    PROVE  /\ Len(g.partitions) \in Nat /\ Len(g.partitions) >= 1 /\ DOMAIN g.partitions = 1..Len(g.partitions)
           /\ \A k \in 1..Len(g.partitions) : Fine(g.partitions[k])
           /\ Tokens(g) \in Seq(Seq(AllTokens)) /\ Len(Tokens(g)) = Len(g.partitions) /\ Parts(Tokens(g))
           /\ \A k \in 1..Len(g.partitions) : Tokens(g)[k] = g.partitions[k].tokens
<1> DEFINE n == Len(g.partitions)
           P == Tokens(g)
<1>1. g.partitions \in Seq(Expressions) /\ g.partitions # <<>>
  BY TextsAssumption
<1>2. n \in Nat /\ n >= 1 /\ DOMAIN g.partitions = 1..n /\ \A k \in 1..n : g.partitions[k] \in Expressions
  BY <1>1
<1>3. \A k \in 1..n : Fine(g.partitions[k])
  BY <1>2, ExpressionsFine
<1>4. P = [k \in 1..n |-> g.partitions[k].tokens]
  BY <1>2 DEF Tokens
<1> HIDE DEF n, P
<1>5. DOMAIN P = 1..n /\ \A k \in 1..n : P[k] = g.partitions[k].tokens
  BY <1>4
<1>6. \A k \in 1..n : P[k] \in Seq(AllTokens) /\ Balanced(P[k]) /\ OuterFree(P[k], "comma")
  BY <1>3, <1>5 DEF Fine, Formed
<1>7. P \in Seq(Seq(AllTokens)) /\ Len(P) = n
  <2>1. P = [k \in 1..n |-> P[k]]
    BY <1>4
  <2> QED
    BY <1>2, <1>6, <2>1, IsSequence
<1> QED
  BY <1>2, <1>3, <1>5, <1>6, <1>7 DEF Parts, n, P

\* parsePartitions: the conditions mean what the partitions say, or an error is
\* returned and the text is not ordinary.
LEMMA PartitionsMean ==
    ASSUME text \in Texts, ParsePartitions(Tokens(text), ParseColumns(text.columns))
    PROVE  MeansText(parsed')
<1> DEFINE n == Len(text.partitions)
           P == Tokens(text)
           columns == ParseColumns(text.columns)
           cut == [k \in DOMAIN P |-> SplitConditions(Unwrap(P[k]))]
<1>1. /\ n \in Nat /\ n >= 1 /\ DOMAIN text.partitions = 1..n
      /\ \A k \in 1..n : Fine(text.partitions[k])
      /\ P \in Seq(Seq(AllTokens)) /\ Len(P) = n
      /\ \A k \in 1..n : P[k] = text.partitions[k].tokens
  BY TextFacts
<1>2. DOMAIN P = 1..n /\ P # Refused
  BY <1>1, RefusedAssumption
<1>3. PICK split \in {IF Refused \in {P, columns} THEN <<Refused>> ELSE cut} :
       IF Refused \in ToSet(split) THEN parsed' = Refused
       ELSE \E bare \in {[k \in DOMAIN split |-> [c \in DOMAIN split[k] |-> Unwrap(split[k][c])]]} :
            \E all \in {[k \in DOMAIN bare |-> [c \in DOMAIN bare[k] |-> ParseCondition(bare[k][c])]]} :
               parsed' = IF \A k \in DOMAIN all : Complete(all[k], columns) THEN all ELSE Refused
  BY DEF ParsePartitions
<1>4. \A k \in 1..n : ReadsRight(text.partitions[k])
  BY <1>1, FineReads
<1>5. CASE columns = Refused
  <2>1. split = <<Refused>>
    BY <1>3, <1>5
  <2>2. Refused \in ToSet(split)
    <3>1. 1 \in DOMAIN <<Refused>> /\ <<Refused>>[1] = Refused
      OBVIOUS
    <3> QED
      BY <2>1, <3>1 DEF ToSet
  <2>3. ~Ordinary
    BY <1>5 DEF Ordinary
  <2> QED
    BY <1>3, <2>2, <2>3 DEF MeansText
<1> HIDE DEF cut
<1>6. CASE columns # Refused
  <2>1. split = cut
    BY <1>2, <1>3, <1>6
  <2>2. DOMAIN split = 1..n /\ \A k \in 1..n : split[k] = Split(text.partitions[k].tokens)
    BY <1>1, <1>2, <2>1 DEF cut, Split
  <2> HIDE DEF P, columns
  <2>3. CASE Refused \in ToSet(split)
    <3>1. PICK k \in 1..n : split[k] = Refused
      BY <2>2, <2>3 DEF ToSet
    <3>2. text.partitions[k].form = "other"
      BY <1>4, <2>2, <3>1 DEF ReadsRight
    <3>3. ~Ordinary
      BY <1>1, <3>2 DEF Ordinary
    <3> QED
      BY <1>3, <2>3, <3>3 DEF MeansText
  <2>4. CASE Refused \notin ToSet(split)
    <3>1. PICK bare \in {[k \in DOMAIN split |-> [c \in DOMAIN split[k] |-> Unwrap(split[k][c])]]} :
            \E all \in {[k \in DOMAIN bare |-> [c \in DOMAIN bare[k] |-> ParseCondition(bare[k][c])]]} :
               parsed' = IF \A k \in DOMAIN all : Complete(all[k], columns) THEN all ELSE Refused
      BY <1>3, <2>4
    <3>2. PICK all \in {[k \in DOMAIN bare |-> [c \in DOMAIN bare[k] |-> ParseCondition(bare[k][c])]]} :
               parsed' = IF \A k \in DOMAIN all : Complete(all[k], columns) THEN all ELSE Refused
      BY <3>1
    <3>3. bare = [k \in DOMAIN split |-> [c \in DOMAIN split[k] |-> Unwrap(split[k][c])]]
      BY <3>1
    <3>4. all = [k \in DOMAIN bare |-> [c \in DOMAIN bare[k] |-> ParseCondition(bare[k][c])]]
      BY <3>2
    <3>5. DOMAIN all = 1..n /\ all = [k \in 1..n |-> all[k]]
      BY <2>2, <3>3, <3>4
    <3>6. \A k \in 1..n : all[k] = Read(text.partitions[k].tokens)
      <4> TAKE k \in 1..n
      <4>1. bare[k] = [c \in DOMAIN split[k] |-> Unwrap(split[k][c])]
        BY <2>2, <3>3
      <4>2. DOMAIN bare = 1..n
        BY <2>2, <3>3
      <4>3. all[k] = [c \in DOMAIN bare[k] |-> ParseCondition(bare[k][c])]
        BY <3>4, <4>2
      <4>4. all[k] = [c \in DOMAIN split[k] |-> ParseCondition(Unwrap(split[k][c]))]
        BY <4>1, <4>3
      <4> QED
        BY <2>2, <4>4 DEF Read, Parsed
    <3>7. \A k \in 1..n : Split(text.partitions[k].tokens) # Refused
      BY <2>2, <2>4 DEF ToSet
    <3>8. CASE \A k \in DOMAIN all : Complete(all[k], columns)
      <4>1. \A k \in 1..n : all[k] \in Seq(Conditions) /\ Selects(all[k]) = text.partitions[k].holds
        BY <1>4, <3>5, <3>6, <3>7, <3>8 DEF ReadsRight, Complete
      <4>2. all \in Seq(Seq(Conditions)) /\ Len(all) = n
        BY <1>1, <3>5, <4>1, IsSequence
      <4> QED
        BY <3>2, <3>5, <3>8, <4>1, <4>2 DEF MeansText
    <3>9. CASE ~\A k \in DOMAIN all : Complete(all[k], columns)
      <4>1. PICK k \in 1..n : ~Complete(all[k], columns)
        BY <3>5, <3>9
      <4>2. \/ Refused \in ToSet(Read(text.partitions[k].tokens))
            \/ {Read(text.partitions[k].tokens)[c].column : c \in DOMAIN Read(text.partitions[k].tokens)} # ToSet(columns)
        BY <3>6, <4>1 DEF Complete
      <4>3. text.partitions[k].form = "other" \/ text.partitions[k].columns # ToSet(columns)
        BY <1>4, <4>2 DEF ReadsRight
      <4>4. ~Ordinary
        BY <1>1, <4>3 DEF Ordinary, columns
      <4> QED
        BY <3>2, <3>9, <4>4 DEF MeansText
    <3> QED
      BY <3>8, <3>9
  <2> QED
    BY <2>3, <2>4
<1> QED
  BY <1>5, <1>6

\* A row of information_schema.partitions.
LEMMA RowMeans ==
    ASSUME text \in Texts, ParseRow
    PROVE  MeansText(parsed') /\ text' = text
<1>1. Len(text.partitions) = 1 /\ ~text.ddl
  BY TextsAssumption DEF ParseRow
<1>2. <<text.partitions[1].tokens>> = Tokens(text)
  <2> DEFINE P == Tokens(text)
             Q == <<text.partitions[1].tokens>>
  <2>1. P \in Seq(Seq(AllTokens)) /\ Len(P) = 1 /\ P[1] = text.partitions[1].tokens
    BY <1>1, TextFacts
  <2>2. Q \in Seq(Seq(AllTokens)) /\ Len(Q) = 1 /\ Q[1] = text.partitions[1].tokens
    <3> HIDE DEF P
    <3>1. P[1] \in Seq(AllTokens)
      BY <2>1
    <3> QED
      BY <2>1, <3>1
  <2> HIDE DEF P, Q
  <2>3. P = Q
    BY <2>1, <2>2
  <2> QED
    BY <2>3 DEF P, Q
<1>3. ParsePartitions(Tokens(text), ParseColumns(text.columns)) /\ text' = text
  BY <1>2 DEF ParseRow
<1> QED
  BY <1>3, PartitionsMean

\* The list of the columns has no quotes and parentheses.
LEMMA ColumnsBalanced ==
    ASSUME NEW g \in Texts
    PROVE  g.columns \in Seq(ToSet(g.columns)) /\ Balanced(g.columns)
<1> DEFINE c == g.columns
           C == ToSet(c) \ {"'", "(", ")"}
<1>1. c \in Seq(C)
  BY TextsAssumption
<1>2. \A i \in DOMAIN c : c[i] # "'" /\ c[i] # "(" /\ c[i] # ")"
  <2>1. \A i \in DOMAIN c : c[i] \in C
    BY <1>1
  <2> QED
    BY <2>1
<1>3. c \in Seq(ToSet(c))
  <2>1. C \subseteq ToSet(c)
    OBVIOUS
  <2> HIDE DEF C, c
  <2> QED
    BY <1>1, <2>1
<1> HIDE DEF c, C
<1>4. OuterFree(c, "(") /\ OuterFree(c, ")")
  BY <1>2 DEF OuterFree, Outer, Outside
<1>5. Terminated(c)
  <2>1. {j \in 1..Len(c) : c[j] = "'"} = {}
    BY <1>1, <1>2
  <2>2. Quotes(c, Len(c)) = 0
    BY <2>1, FS_EmptySet DEF Quotes
  <2> QED
    BY <2>2 DEF Terminated
<1>6. Balanced(c)
  BY <1>1, <1>4, <1>5, FreeLevel
<1> QED
  BY <1>3, <1>6 DEF c

\* The list of the columns in parentheses, then that of the partitions.
LEMMA ListsFound ==
    ASSUME NEW S, NEW x \in Seq(S), Balanced(x), NEW R, NEW y \in Seq(R), Balanced(y)
    PROVE  LET v == Enclosed(x) \o Enclosed(y) IN
           /\ Closing(v) # 0 /\ Inside(v) = x
           /\ Closing(After(v)) # 0 /\ Inside(After(v)) = y
<1> DEFINE a == Enclosed(x)
           b == Enclosed(y)
           v == a \o b
           A == S \cup {"(", ")"}
           B == R \cup {"(", ")"}
<1>1. a \in Seq(A) /\ Len(a) = Len(x) + 2
  BY EnclosedScans
<1>2. b \in Seq(B) /\ Len(b) = Len(y) + 2
  BY EnclosedScans
<1>3. Len(x) \in Nat /\ Len(y) \in Nat
  OBVIOUS
<1> HIDE DEF A, B
<1>4. /\ v \in Seq(A \cup B) /\ Len(v) = Len(a) + Len(b) /\ IsPart(v, 0, a)
      /\ \A i \in 1..Len(b) : v[Len(a) + i] = b[i]
  <2>1. IsPart(a \o b, 0, a)
    BY <1>1, <1>2, ConcatScans
  <2>0. a \in Seq(A) /\ b \in Seq(B)
    BY <1>1, <1>2
  <2> HIDE DEF a, b
  <2>2. /\ a \o b \in Seq(A \cup B) /\ Len(a \o b) = Len(a) + Len(b)
        /\ \A i \in 1..Len(b) : (a \o b)[Len(a) + i] = b[i]
    BY <2>0, ConcatTypes
  <2> QED
    BY <2>1, <2>2
<1> HIDE DEF v
<1>5. Closing(v) = Len(x) + 2 /\ Inside(v) = x
  <2>1. Len(v) >= Len(x) + 2
    BY <1>1, <1>2, <1>3, <1>4
  <2> QED
    BY <1>4, <2>1, ClosingEnclosed
<1>6. After(v) = b
  <2> DEFINE n == Len(x) + 2
             m == Len(v)
             z == SubSeq(v, n + 1, m)
  <2>1. n \in Nat /\ m \in Nat /\ n <= m /\ m - n = Len(b) /\ n = Len(a) /\ Len(b) \in Nat
    BY <1>1, <1>2, <1>3, <1>4
  <2> HIDE DEF n
  <2>2. z \in Seq(A \cup B) /\ Len(z) = m - n /\ \A i \in 1..(m - n) : z[i] = v[n + i]
    BY <1>4, <2>1, RestOf
  <2> HIDE DEF b, a
  <2>3. After(v) = z
    BY <1>5 DEF After, n
  <2> HIDE DEF z
  <2>4. \A i \in 1..Len(b) : z[i] = b[i]
    BY <1>4, <2>1, <2>2
  <2>5. z = b
    BY <1>2, <2>1, <2>2, <2>4
  <2> QED
    BY <2>3, <2>5
<1>7. Closing(b) = Len(y) + 2 /\ Inside(b) = y
  <2>1. 0 + Len(b) <= Len(b) /\ Quotes(b, 0) % 2 = 0 /\ \A j \in 1..Len(b) : b[j] = b[0 + j]
    <3> HIDE DEF b
    <3>1. Quotes(b, 0) = 0
      BY QuotesStep
    <3> QED
      BY <1>2, <3>1
  <2>2. IsPart(b, 0, b)
    <3> HIDE DEF b
    <3> QED
      BY <1>2, <2>1, PartScans
  <2>3. Len(b) >= Len(y) + 2
    BY <1>2, <1>3
  <2> QED
    BY <1>2, <2>2, <2>3, ClosingEnclosed
<1> HIDE DEF a, b
<1>8. Len(x) + 2 # 0 /\ Len(y) + 2 # 0
  BY <1>3
<1> QED
  BY <1>5, <1>6, <1>7, <1>8 DEF v, a, b

\* SHOW CREATE TABLE: what is before the partition clause makes the loader refuse it
\* or changes nothing.
LEMMA DefinitionMeans ==
    ASSUME text \in Texts, ParseDefinition
    PROVE  MeansText(parsed') /\ text' = text
<1> DEFINE head == text.head
           h == Len(head)
           K == <<"PARTITION", "ON", "COLUMNS">>
           c == text.columns
           J == Joined(Tokens(text))
           V == Enclosed(c) \o Enclosed(J)
           t == Given(text)
           places == {i \in DOMAIN t : t[i] = "PARTITION"}
           start == Min(places)
           rest == SubSeq(t, start + 3, Len(t))
           after == After(rest)
           H == ToSet(head)
           C == ToSet(c)
           VS == (C \cup {"(", ")"}) \cup (AllTokens \cup {"(", ")"})
           TS == H \cup (ToSet(K) \cup VS)
<1>1. Parts(Tokens(text)) /\ Tokens(text) # <<>>
  <2>1. Len(Tokens(text)) >= 1 /\ Parts(Tokens(text))
    BY TextFacts
  <2> QED
    BY <2>1
<1>2. J \in Seq(AllTokens) /\ Balanced(J) /\ SplitTopLevel(J) = Tokens(text)
  BY <1>1, JoinedSplits
<1>3. c \in Seq(C) /\ Balanced(c)
  BY ColumnsBalanced
<1>4. t = head \o (K \o V)
  BY DEF Given, Tokens
<1>5. head \in Seq(H) /\ \A i \in 1..h - 1 : head[i] = "PARTITION" => head[i + 1] # "ON"
  BY TextsAssumption
<1>6. Closing(V) # 0 /\ Inside(V) = c /\ Closing(After(V)) # 0 /\ Inside(After(V)) = J
  BY <1>2, <1>3, ListsFound
<1>7. V \in Seq(VS)
  <2>1. Enclosed(c) \in Seq(C \cup {"(", ")"}) /\ Enclosed(J) \in Seq(AllTokens \cup {"(", ")"})
    BY <1>2, <1>3, EnclosedScans
  <2> HIDE DEF C, J, c
  <2> QED
    BY <2>1, ConcatTypes
<1>8. /\ text' = text
      /\ IF SubSeq(t, start + 1, start + 2) # <<"ON", "COLUMNS">> \/ 0 \in {Closing(rest), Closing(after)}
         THEN parsed' = Refused
         ELSE ParsePartitions(SplitTopLevel(Inside(after)), ParseColumns(Inside(rest)))
  BY DEF ParseDefinition
<1> HIDE DEF V, VS, t, c, J, C
<1>9. K \in Seq(ToSet(K)) /\ Len(K) = 3 /\ K[1] = "PARTITION" /\ K[2] = "ON" /\ K[3] = "COLUMNS"
  BY DEF ToSet
<1> HIDE DEF K, H
<1> DEFINE KV == K \o V
<1>10. /\ KV \in Seq(ToSet(K) \cup VS) /\ Len(KV) = 3 + Len(V) /\ Len(V) \in Nat
       /\ \A i \in 1..3 : KV[i] = K[i]
       /\ \A i \in 1..Len(V) : KV[3 + i] = V[i]
  <2>0. K \in Seq(ToSet(K))
    BY <1>9
  <2>1. /\ K \o V \in Seq(ToSet(K) \cup VS) /\ Len(K \o V) = Len(K) + Len(V) /\ Len(V) \in Nat
        /\ \A i \in 1..Len(K) : (K \o V)[i] = K[i]
        /\ \A i \in 1..Len(V) : (K \o V)[Len(K) + i] = V[i]
    BY <1>7, <2>0, ConcatTypes
  <2> QED
    BY <1>9, <2>1
<1>11. t = head \o KV
  BY <1>4
<1> HIDE DEF KV, head
<1>12. /\ t \in Seq(TS) /\ h \in Nat /\ Len(t) = h + (3 + Len(V))
       /\ \A i \in 1..h : t[i] = head[i]
       /\ \A i \in 1..3 + Len(V) : t[h + i] = KV[i]
  <2>0. head \in Seq(H) /\ KV \in Seq(ToSet(K) \cup VS)
    BY <1>5, <1>10
  <2>1. /\ head \o KV \in Seq(H \cup (ToSet(K) \cup VS)) /\ Len(head \o KV) = Len(head) + Len(KV)
        /\ \A i \in 1..Len(head) : (head \o KV)[i] = head[i]
        /\ \A i \in 1..Len(KV) : (head \o KV)[Len(head) + i] = KV[i]
        /\ Len(head) \in Nat
    BY <2>0, ConcatTypes
  <2> QED
    BY <1>10, <1>11, <2>1
<1> HIDE DEF TS, h
<1>13. /\ t[h + 1] = "PARTITION" /\ t[h + 2] = "ON" /\ t[h + 3] = "COLUMNS"
       /\ \A i \in 1..Len(V) : t[(h + 3) + i] = V[i]
  <2>0. \A i \in 1..3 : i \in 1..3 + Len(V)
    BY <1>10
  <2>1. \A i \in 1..3 : t[h + i] = K[i]
    BY <1>10, <1>12, <2>0
  <2>2. \A i \in 1..Len(V) : 3 + i \in 1..3 + Len(V) /\ h + (3 + i) = (h + 3) + i
    BY <1>10, <1>12
  <2> QED
    BY <1>9, <1>10, <1>12, <2>1, <2>2
<1>14. start \in 1..h + 1 /\ t[start] = "PARTITION"
  <2>1. places \subseteq Nat /\ h + 1 \in places
    BY <1>10, <1>12, <1>13
  <2>2. \A i \in places : i \in 1..Len(t) /\ t[i] = "PARTITION"
    BY <1>12
  <2> HIDE DEF places
  <2>3. start \in places /\ \A i \in places : start <= i
    BY <2>1, LeastOf DEF Min
  <2> HIDE DEF start
  <2> QED
    BY <1>12, <2>1, <2>2, <2>3
<1> HIDE DEF places, start
<1> DEFINE two == SubSeq(t, start + 1, start + 2)
<1>15. two \in Seq(TS) /\ Len(two) = 2 /\ two[1] = t[start + 1] /\ two[2] = t[start + 2]
  <2> DEFINE m == start + 2
  <2>1. start \in Nat /\ m \in Nat /\ start <= m /\ m <= Len(t) /\ m - start = 2
    BY <1>10, <1>12, <1>14
  <2> HIDE DEF m
  <2> DEFINE z == SubSeq(t, start + 1, m)
  <2>2. z \in Seq(TS) /\ Len(z) = m - start /\ \A i \in 1..(m - start) : z[i] = t[start + i]
    BY <1>12, <2>1, RestOf
  <2> HIDE DEF z
  <2>3. z \in Seq(TS) /\ Len(z) = 2 /\ z[1] = t[start + 1] /\ z[2] = t[start + 2]
    BY <2>1, <2>2
  <2> QED
    BY <2>3 DEF z, m
<1>16. CASE start \in 1..h
  <2>1. t[start + 1] # "ON"
    <3>1. CASE start = h
      BY <1>13, <3>1
    <3>2. CASE start \in 1..h - 1
      <4>1. start \in 1..h /\ start + 1 \in 1..h
        BY <1>12, <3>2
      <4>2. t[start] = head[start] /\ t[start + 1] = head[start + 1]
        BY <1>12, <4>1
      <4> QED
        BY <1>5, <1>14, <3>2, <4>2 DEF h
    <3> QED
      BY <1>12, <1>16, <3>1, <3>2
  <2>2. two # <<"ON", "COLUMNS">>
    <3>1. <<"ON", "COLUMNS">>[1] = "ON"
      OBVIOUS
    <3> QED
      BY <1>15, <2>1, <3>1
  <2>3. parsed' = Refused
    BY <1>8, <2>2
  <2>4. ~Ordinary
    <3>1. h >= 1
      BY <1>12, <1>16
    <3>2. head # <<>>
      BY <3>1 DEF h
    <3> QED
      BY <3>2 DEF Ordinary, head
  <2> QED
    BY <1>8, <2>3, <2>4 DEF MeansText
<1>17. CASE start = h + 1
  <2>1. two = <<"ON", "COLUMNS">>
    <3> DEFINE y == <<"ON", "COLUMNS">>
    <3>1. y \in Seq({"ON", "COLUMNS"}) /\ Len(y) = 2 /\ y[1] = "ON" /\ y[2] = "COLUMNS"
      OBVIOUS
    <3>2. two[1] = "ON" /\ two[2] = "COLUMNS"
      <4>1. start + 1 = h + 2 /\ start + 2 = h + 3
        BY <1>12, <1>17
      <4> QED
        BY <1>13, <1>15, <4>1
    <3> HIDE DEF two, y
    <3>3. two = y
      BY <1>15, <3>1, <3>2
    <3> QED
      BY <3>3 DEF y
  <2>2. rest = V
    <3> DEFINE a == h + 3
               m == Len(t)
               z == SubSeq(t, a + 1, m)
    <3>1. a \in Nat /\ m \in Nat /\ a <= m /\ m - a = Len(V) /\ Len(V) \in Nat /\ start + 3 = a + 1
      BY <1>10, <1>12, <1>17
    <3>2. \A i \in 1..Len(V) : t[a + i] = V[i]
      BY <1>13
    <3> HIDE DEF a
    <3>3. z \in Seq(TS) /\ Len(z) = m - a /\ \A i \in 1..(m - a) : z[i] = t[a + i]
      BY <1>12, <3>1, RestOf
    <3>4. rest = z
      BY <3>1
    <3> HIDE DEF z, m, rest
    <3>5. z = V
      BY <1>7, <3>1, <3>2, <3>3
    <3> QED
      BY <3>4, <3>5
  <2> HIDE DEF two
  <2>3. ParsePartitions(SplitTopLevel(Inside(After(V))), ParseColumns(Inside(V)))
    <3>1. SubSeq(t, start + 1, start + 2) = <<"ON", "COLUMNS">>
      BY <2>1 DEF two
    <3> HIDE DEF rest
    <3>2. Closing(rest) # 0 /\ Closing(after) # 0
      BY <1>6, <2>2
    <3> QED
      BY <1>8, <2>2, <3>1, <3>2
  <2>4. ParsePartitions(Tokens(text), ParseColumns(text.columns))
    BY <1>2, <1>6, <2>3 DEF c
  <2> QED
    BY <1>8, <2>4, PartitionsMean
<1> QED
  BY <1>12, <1>14, <1>16, <1>17

TextInvariant == text \in Texts /\ ParsedMeansText

\* The invariant of reading.
LEMMA TextStep == TextInvariant /\ [ReadText]_textVars => TextInvariant'
<1> SUFFICES ASSUME TextInvariant, [ReadText]_textVars PROVE TextInvariant'
  OBVIOUS
<1>1. CASE UNCHANGED textVars
  BY <1>1 DEF TextInvariant, ParsedMeansText, Ordinary, textVars
<1>2. CASE ReadText
  <2>1. MeansText(parsed') /\ text' = text
    BY <1>2, RowMeans, DefinitionMeans DEF ReadText, TextInvariant
  <2>2. Ordinary' = Ordinary
    BY <2>1 DEF Ordinary
  <2>3. parsed' = Refused => ~Ordinary \/ parsed' \in Seq(Seq(Conditions))
    BY <2>1 DEF MeansText
  <2>4. Refused \notin Seq(Seq(Conditions))
    BY RefusedAssumption
  <2> QED
    BY <2>1, <2>2, <2>3, <2>4 DEF TextInvariant, ParsedMeansText, MeansText
<1> QED
  BY <1>1, <1>2

\* Whatever is written in a partition text, the conditions the loader builds its
\* query from select the points the text selects, or the text is refused; a
\* conjunction of comparisons over all partition columns is not refused.
THEOREM TextsAreMeant == TextSpec => []ParsedMeansText
<1>1. TextInit => TextInvariant
  <2>1. <<>> # Refused
    <3>1. <<>> \in Seq(AllTokens)
      OBVIOUS
    <3> QED
      BY <3>1, RefusedAssumption
  <2> QED
    BY <2>1 DEF TextInit, TextInvariant, ParsedMeansText
<1>2. TextInvariant => ParsedMeansText
  BY DEF TextInvariant
<1> QED
  BY <1>1, <1>2, TextStep, PTL DEF TextSpec
=============================================================================
