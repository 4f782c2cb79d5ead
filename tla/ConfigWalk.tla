----------------------------- MODULE ConfigWalk -----------------------------
(***************************************************************************)
(* Reading a directory of metric configurations (pkg/samples/parse.go):    *)
(* WalkDir visits the files in the order of their names; YAML files that   *)
(* do not parse are skipped, a tag named replica ends the walk with an     *)
(* error, and so does an entry that cannot be read.  The walk stops early  *)
(* at the pick count.                                                      *)
(***************************************************************************)
EXTENDS Integers, Sequences, SequencesExt

CONSTANTS MaxFiles,  \* bound on the files of the directory
          MaxSeries  \* bound on the series of a metric

ASSUME WalkAssumption == {MaxFiles, MaxSeries} \subseteq Nat

\* What an entry is: no YAML file, unreadable, not parsable, one with the reserved
\* tag, or the configuration of a metric with some number of series.
Other == [kind |-> "other", series |-> 0]
Unreadable == [kind |-> "unreadable", series |-> 0]
Broken == [kind |-> "broken", series |-> 0]
Kinds == {Other, Unreadable, Broken}
         \cup [kind : {"reserved", "metric"}, series : 0..MaxSeries]

VARIABLES
    files,          \* the entries in the order of the walk
    tablePickCount,
    at,             \* entries visited
    fileConfigs,    \* the places of the files in the result
    totalSeries,
    walkPc          \* "walk", "failed" or "parsed"

input == <<files, tablePickCount>>
walkVars == <<input, at, fileConfigs, totalSeries, walkPc>>

WalkInit == /\ files \in UNION {[1..n -> Kinds] : n \in 0..MaxFiles}
            /\ tablePickCount \in 0..MaxFiles + 1
            /\ at = 0
            /\ fileConfigs = <<>>
            /\ totalSeries = 0
            /\ walkPc = "walk"

VisitEntry(kinds) == /\ walkPc = "walk" /\ at < Len(files)
                     /\ files[at + 1].kind \in kinds
                     /\ at' = at + 1
                     /\ UNCHANGED input

Skip == /\ VisitEntry({"other", "broken"})
        /\ UNCHANGED <<fileConfigs, totalSeries, walkPc>>

\* The series of a file with the reserved tag are counted before it is refused.
Fail == /\ VisitEntry({"unreadable", "reserved"})
        /\ totalSeries' = totalSeries + files[at + 1].series
        /\ walkPc' = "failed"
        /\ UNCHANGED fileConfigs

\* Mutant: every YAML file visited counts towards the limit, as in i > count.
ParseCountsAll == /\ VisitEntry({"metric"})
                  /\ fileConfigs' = Append(fileConfigs, at + 1)
                  /\ totalSeries' = totalSeries + files[at + 1].series
                  /\ walkPc' = IF at + 1 > tablePickCount THEN "parsed" ELSE "walk"

\* The limit is looked at when the file is in the result.
Parse == /\ VisitEntry({"metric"})
         /\ fileConfigs' = Append(fileConfigs, at + 1)
         /\ totalSeries' = totalSeries + files[at + 1].series
         /\ walkPc' = IF Len(fileConfigs') > tablePickCount THEN "parsed" ELSE "walk"

WalkEnd == /\ walkPc = "walk" /\ at = Len(files)
           /\ walkPc' = "parsed"
           /\ UNCHANGED <<input, at, fileConfigs, totalSeries>>

WalkNext == Skip \/ Fail \/ Parse \/ WalkEnd

WalkSpec == WalkInit /\ [][WalkNext]_walkVars

-----------------------------------------------------------------------------
Places(kinds) == {i \in DOMAIN files : files[i].kind \in kinds}

\* The result is the first metrics of the directory, in its order, whatever lies
\* between them: all of them, or one more than the pick count.  A configuration that
\* cannot be used fails the walk exactly when the limit was not reached before it:
\* with a limit, the same directory may load.
FirstMetrics ==
    LET metrics == Places({"metric"})
        bad == Places({"unreadable", "reserved"})
        parsed == ToSet(fileConfigs)
    IN  /\ walkPc = "failed" => at \in bad /\ \A i \in bad : at <= i
        /\ walkPc = "parsed" =>
              /\ \A j, k \in DOMAIN fileConfigs : j < k => fileConfigs[j] < fileConfigs[k]
              /\ parsed \subseteq metrics
              /\ \A i \in metrics \ parsed, j \in parsed : j < i
              /\ \/ parsed = metrics /\ Len(fileConfigs) <= tablePickCount /\ bad = {}
                 \/ Len(fileConfigs) = tablePickCount + 1 /\ \A i \in bad : at < i
=============================================================================
