------------------------------ MODULE MCSamples ------------------------------
(* Instances for TLC of the algorithms of pkg/samples that make the series  *)
(* of a load, and of the command that rewrites its configurations.  They     *)
(* share no state: a behaviour is one of them, named by part, while the      *)
(* others rest in an initial state.                                          *)
EXTENDS ConfigWalk, ChurnAllocation, FieldGenerators, SeriesLabels, ConfigModifier

CONSTANT Parts
VARIABLE part

\* The flags at their defaults but for --num-pods.
AllPods(n) == [l \in CountLabels |-> IF l = "pod" THEN n ELSE 5]

WalkRests == files = <<>> /\ tablePickCount = 0 /\ WalkInit
ChurnRests == churnSeries = [m \in Metrics |-> 1] /\ target = 0 /\ ChurnInit
FieldRests == lower = None /\ upper = None /\ step = 2 /\ FieldInit
LabelsRest == tags = <<>> /\ churned = 0 /\ LabelInit
ModifierRests == directory = <<>> /\ targetSeries = 10 /\ flagCounts = AllPods(2) /\ ModifierStart

Init == /\ part \in Parts
        /\ \/ part = "walk" /\ WalkInit /\ ChurnRests /\ FieldRests /\ LabelsRest /\ ModifierRests
           \/ part = "churn" /\ WalkRests /\ ChurnInit /\ FieldRests /\ LabelsRest /\ ModifierRests
           \/ part = "values" /\ WalkRests /\ ChurnRests /\ FieldInit /\ LabelsRest /\ ModifierRests
           \/ part = "labels" /\ WalkRests /\ ChurnRests /\ FieldRests /\ LabelInit /\ ModifierRests
           \/ part = "modifier" /\ WalkRests /\ ChurnRests /\ FieldRests /\ LabelsRest /\ ModifierInit

vars == <<part, walkVars, churnVars, fieldVars, labelVars, modifierVars>>

Next == /\ \/ part = "walk" /\ WalkNext /\ UNCHANGED <<churnVars, fieldVars, labelVars, modifierVars>>
           \/ part = "churn" /\ ChurnNext /\ UNCHANGED <<walkVars, fieldVars, labelVars, modifierVars>>
           \/ part = "values" /\ FieldNext /\ UNCHANGED <<walkVars, churnVars, labelVars, modifierVars>>
           \/ part = "labels" /\ LabelNext /\ UNCHANGED <<walkVars, churnVars, fieldVars, modifierVars>>
           \/ part = "modifier" /\ ModifierNext /\ UNCHANGED <<walkVars, churnVars, fieldVars, labelVars>>
        /\ UNCHANGED part

Spec == Init /\ [][Next]_vars

\* Some values of --num-pods.
SomeFlags == {AllPods(n) : n \in {-1, 0, 2}}

\* A tag of each class of labels, with each type of distribution.
Listed == Weighted([i \in 1..4 |-> <<"listed", i>>])
SomeDists == {Listed, Replicas(Own(4)), Constant("fixed"), Invalid}
Tag(label, dist) == [label |-> label, dist |-> dist]
SomeTags == {Tag(l, d) : l \in {"pod", "uid", "other"}, d \in SomeDists} \cup {Tag("type", Listed), Tag("node", Invalid)}
TagsTried == {<<t>> : t \in SomeTags} \cup {<<Tag("pod", Listed), t>> : t \in SomeTags}
             \cup {<<Tag("other", Listed), Tag("pod", Listed), Tag("size", Replicas(Own(3)))>>}
File(name, list) == [name |-> name, tags |-> list]
SomeTargets == {0, 4, 10}
SomeDirectories ==
    {<<>>} \cup {<<File(a, t)>> : a \in {"up", "ahead_up", "go_goroutines"}, t \in TagsTried}
    \cup {<<File("up", t), File(b, u)>> : b \in {"up", "down", "ahead_up"}, t, u \in TagsTried}

\* Metrics of up to four series, any number of them to churn, any rounding.
AllParts == {"walk", "churn", "values", "labels", "modifier"}
UpToFour == [Metrics -> 0..4]
AllTargets == 0..16
AnyRounding(s, all, t) == TRUE

\* In halves: no bound, whole bounds on both sides of zero, and some that are not.
SomeLowers == {None, -6, -5, -4, 0, 1, 2, 4, 5}
SomeUppers == {None, -2, 0, 4, 6, 7, 8}
SomeSteps == {2, 4, 6}

\* A name before __name__ (10), two between it and churn_id (20), one between
\* that and replica (30), one after it.
TagNames == {5, 13, 16, 25, 35}
Candidates == {<<1>>, <<1, 2>>, <<Empty, 1>>}
Lists == UNION {{[i \in 1..n |-> [name |-> names[i], values |-> values[i]]] :
                    names \in {s \in [1..n -> TagNames] : IsInjective(s)},
                    values \in [1..n -> Candidates]} : n \in 0..2}
         \cup {<<[name |-> 35, values |-> a], [name |-> 5, values |-> b],
                 [name |-> 16, values |-> c]>> : a, b, c \in Candidates}

\* The two documented claims: metrics of 7 and 15 series that all churn (in
\* float64, 15 / 22 * 22 < 15 and 7 / 22 * 22 = 7); a counter from -2.
ChurnPart == {"churn"}
SevenAndFifteen == {<<7, 15>>, <<1, 1>>}
TwentyTwo == {0, 22}
Float64Of22(s, all, t) == <<s, all, t>> = <<15, 22, 22>>
ValuesPart == {"values"}
BelowZero == {None, -4}
NoUpper == {None}
==============================================================================
