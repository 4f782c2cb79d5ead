--------------------------- MODULE ConfigModifier ---------------------------
(***************************************************************************)
(* config_modifier: it rewrites every configuration of a directory so that *)
(* its metric has about --target-series series.  The tags named after a    *)
(* count flag get a replica distribution that holds a POINTER to the flag; *)
(* then the other tags are cut to a number of distinct values, which for a *)
(* replica distribution is a write through its pointer.  The files are     *)
(* written when all of them have been modified, and what a pointer leads   *)
(* to is read then.                                                        *)
(***************************************************************************)
EXTENDS Integers, Sequences, SequencesExt, FiniteSets

CONSTANTS Directories,    \* sequences of [name, tags], a tag is [label, dist]
          FlagValues,     \* functions from CountLabels to what the flags are
          TargetSeries,   \* the values of --target-series to be tried
          Ahead,          \* file names that begin with "ahead_"
          LargeSeries,    \* file names among largeSeriesMetrics
          Huge            \* more replicas than a slice can have

\* --num-pods, --num-nodes and so on; the labels whose value becomes fixed.
CountLabels == {"pod", "node", "instance", "namespace", "workload"}
FixedLabels == {"name", "id", "image", "pod_ip", "node_ip", "uid", "device", "container"}

\* Mutant: a count label is missing among the labels that are left alone.
QueryLabelsNoPod == (CountLabels \ {"pod"}) \cup
    {"type", "cluster", "resource", "job", "workload_type", "device", "metrics_path", "le", "state", "code"}

QueryLabels == CountLabels \cup
    {"type", "cluster", "resource", "job", "workload_type", "device", "metrics_path", "le", "state", "code"}

VARIABLES directory, targetSeries,
          numbers,     \* the variables of the flags, which distributions point to
          flagCounts, \* history: what they were at the start
          configs,    \* fileConfigs, modified up to some file
          modified,   \* files modified
          written,    \* files written
          output,     \* set of [name, tags]: what the output directory holds
          modifierPc  \* "reading", "modifying", "writing", "done" or "failed"

modifierInput == <<directory, targetSeries, flagCounts>>
modifierVars == <<modifierInput, numbers, configs, modified, written, output, modifierPc>>

Weighted(values) == [type |-> "weighted_preset", values |-> values]
Constant(value) == [type |-> "constant_string", value |-> value]
Own(n) == <<"own", n>>
Flag(label) == <<"flag", label>>
Replicas(pointer) == [type |-> "replica_string", replica |-> pointer]
Invalid == [type |-> "invalid"]

\* What the YAML of a tag can hold: a distribution that is read points to a number
\* of its own.
IsRead(dist) == \/ dist = Invalid
                \/ dist.type = "weighted_preset" /\ dist = Weighted(dist.values)
                \/ dist.type = "constant_string" /\ dist = Constant(dist.value)
                \/ dist.type = "replica_string" /\ dist = Replicas(Own(dist.replica[2]))
IsTag(tag) == tag = [label |-> tag.label, dist |-> tag.dist] /\ IsRead(tag.dist)

IsFile(file) == /\ file = [name |-> file.name, tags |-> file.tags]
                /\ file.tags \in Seq(ToSet(file.tags))
                /\ \A tag \in ToSet(file.tags) : IsTag(tag)

ASSUME ModifierAssumption == /\ Huge \in Nat
                             /\ TargetSeries \subseteq Int
                             /\ FlagValues \subseteq [CountLabels -> Int]
                             /\ \A d \in Directories : d \in Seq(ToSet(d)) /\ \A file \in ToSet(d) : IsFile(file)

ModifierStart == /\ numbers = flagCounts
                 /\ configs = directory
                 /\ modified = 0 /\ written = 0
                 /\ output = {}
                 /\ modifierPc = "reading"

ModifierInit == /\ directory \in Directories
                /\ targetSeries \in TargetSeries
                /\ flagCounts \in FlagValues
                /\ ModifierStart
-----------------------------------------------------------------------------
\* *d.Replica.
Number(pointer, flags) == IF pointer[1] = "own" THEN pointer[2] ELSE flags[pointer[2]]

\* LabelGenerator ends the command on a type it does not know, and panics on a
\* number of replicas no slice can have.
Generates(dist, flags) ==
    /\ dist.type # "invalid"
    /\ dist.type = "replica_string" => Number(dist.replica, flags) \in 0..Huge - 1
AllGenerate(tags, flags) == \A i \in DOMAIN tags : Generates(tags[i].dist, flags)

\* What the label's name alone decides.
Assigned(tag) ==
    IF tag.label \in CountLabels THEN [tag EXCEPT !.dist = Replicas(Flag(tag.label))]
    ELSE IF tag.label \in FixedLabels THEN [tag EXCEPT !.dist = Constant(tag.label)]
    ELSE tag
Assign(tags) == [i \in DOMAIN tags |-> Assigned(tags[i])]

\* int(maxNDV), where maxNDV is log target / log n in float64: a quotient that is
\* a whole number may come out below it; an infinity or no number at all becomes
\* the lowest int, the highest or zero, as the processor has it.
NDVs(name, n) ==
    IF name \in LargeSeries THEN {1}
    ELSE IF n = 1 \/ targetSeries < 1 THEN {-1, 0, Huge}
    ELSE LET k == CHOOSE e \in 0..targetSeries : n^e <= targetSeries /\ targetSeries < n^(e + 1)
         IN  {k} \cup (IF k > 1 /\ n^k = targetSeries THEN {k - 1} ELSE {})


Modifies(name, tag) == name \notin Ahead /\ tag.label \notin QueryLabels

\* SetReplica on every tag that is no query label: a new preset, or a write to what
\* the replica distribution points to.
SetPreset(tag, ndv) ==
    IF tag.dist.type # "weighted_preset" THEN tag
    ELSE [tag EXCEPT !.dist.values =
             [i \in 1..Min({ndv, Len(tag.dist.values)}) |-> <<tag.label, i - 1>>]]
SetOwn(tag, ndv) ==
    IF tag.dist.type = "replica_string" /\ tag.dist.replica[1] = "own"
    THEN [tag EXCEPT !.dist.replica = Own(ndv)] ELSE tag
SetReplicas(name, tags, ndv) ==
    [i \in DOMAIN tags |-> IF Modifies(name, tags[i]) THEN SetOwn(SetPreset(tags[i], ndv), ndv) ELSE tags[i]]
SetFlags(name, tags, ndv) ==
    [l \in CountLabels |->
        IF \E i \in DOMAIN tags : Modifies(name, tags[i]) /\ tags[i].dist = Replicas(Flag(l))
        THEN ndv ELSE numbers[l]]

ReadConfigs == /\ modifierPc = "reading"
               /\ modifierPc' = "modifying"
               /\ UNCHANGED <<modifierInput, numbers, configs, modified, written, output>>

\* The directory, a configuration with a reserved tag, or the expected series.
ReadConfigsFails == /\ modifierPc = "reading"
                    /\ modifierPc' = "failed"
                    /\ UNCHANGED <<modifierInput, numbers, configs, modified, written, output>>

NextConfig == configs[modified + 1]

ModifyFile ==
    /\ modifierPc = "modifying" /\ modified < Len(configs)
    /\ LET tags == Assign(NextConfig.tags)
       IN  /\ AllGenerate(tags, numbers)
           /\ \E ndv \in NDVs(NextConfig.name, Len(tags)) :
                 /\ numbers' = SetFlags(NextConfig.name, tags, ndv)
                 /\ configs' = [configs EXCEPT ![modified + 1].tags = SetReplicas(NextConfig.name, tags, ndv)]
                 /\ AllGenerate(configs'[modified + 1].tags, numbers')
    /\ modified' = modified + 1
    /\ UNCHANGED <<modifierInput, written, output, modifierPc>>

ModifyFails ==
    /\ modifierPc = "modifying" /\ modified < Len(configs)
    /\ LET tags == Assign(NextConfig.tags)
       IN  \/ ~AllGenerate(tags, numbers)
           \/ \E ndv \in NDVs(NextConfig.name, Len(tags)) :
                 ~AllGenerate(SetReplicas(NextConfig.name, tags, ndv), SetFlags(NextConfig.name, tags, ndv))
    /\ modifierPc' = "failed"
    /\ UNCHANGED <<modifierInput, numbers, configs, modified, written, output>>

MakeOutput == /\ modifierPc = "modifying" /\ modified = Len(configs)
              /\ modifierPc' \in {"writing", "failed"}
              /\ UNCHANGED <<modifierInput, numbers, configs, modified, written, output>>

Dereferenced(dist, flags) ==
    IF dist.type = "replica_string" THEN Replicas(Own(Number(dist.replica, flags))) ELSE dist
Serialized(tags) == [i \in DOMAIN tags |-> [tags[i] EXCEPT !.dist = Dereferenced(@, numbers)]]

\* A file replaces what was written under the same name.
WriteConfig ==
    /\ modifierPc = "writing" /\ written < Len(configs)
    /\ output' = {file \in output : file.name # configs[written + 1].name}
                 \cup {[name |-> configs[written + 1].name, tags |-> Serialized(configs[written + 1].tags)]}
    /\ written' = written + 1
    /\ UNCHANGED <<modifierInput, numbers, configs, modified, modifierPc>>

WriteConfigFails == /\ modifierPc = "writing" /\ written < Len(configs)
                    /\ modifierPc' = "failed"
                    /\ UNCHANGED <<modifierInput, numbers, configs, modified, written, output>>

WriteEnds == /\ modifierPc = "writing" /\ written = Len(configs)
             /\ modifierPc' = "done"
             /\ UNCHANGED <<modifierInput, numbers, configs, modified, written, output>>

ModifierNext == \/ ReadConfigs \/ ReadConfigsFails \/ ModifyFile \/ ModifyFails \/ MakeOutput
                \/ WriteConfig \/ WriteConfigFails \/ WriteEnds

ModifierSpec == ModifierInit /\ [][ModifierNext]_modifierVars
-----------------------------------------------------------------------------
\* What a tag of a file becomes if its distribution were a value of its own.
Expected(name, tag, ndv) ==
    IF tag.label \in CountLabels THEN Replicas(Own(flagCounts[tag.label]))
    ELSE IF tag.label \in FixedLabels THEN Constant(tag.label)
    ELSE IF ~Modifies(name, tag) \/ tag.dist.type = "constant_string" THEN tag.dist
    ELSE IF tag.dist.type = "replica_string" THEN Replicas(Own(ndv))
    ELSE Weighted([i \in 1..Min({ndv, Len(tag.dist.values)}) |-> <<tag.label, i - 1>>])

LastOf(name) == CHOOSE f \in DOMAIN directory :
                  directory[f].name = name /\ \A g \in DOMAIN directory : g > f => directory[g].name # name

\* Although the replica distributions of all files share the variables of the
\* flags, each file is written as if it were the only one: the count labels with
\* the number of the flag, the query labels as they were, the others with at most
\* the distinct values their own file's tags give.  Nothing is written before all
\* files could be modified, and the end has every name, from its last file.
FilesIndependent ==
    /\ output # {} => modified = Len(directory)
    /\ \A file \in output :
          \E f \in DOMAIN directory :
             /\ directory[f].name = file.name /\ Len(directory[f].tags) = Len(file.tags)
             /\ modifierPc = "done" => f = LastOf(file.name)
             /\ \E ndv \in NDVs(file.name, Len(file.tags)) :
                   \A i \in DOMAIN file.tags :
                      file.tags[i] = [label |-> directory[f].tags[i].label,
                                      dist |-> Expected(file.name, directory[f].tags[i], ndv)]
    /\ modifierPc = "done" => {file.name : file \in output} = {directory[f].name : f \in DOMAIN directory}
=============================================================================
