---------------------------- MODULE SeriesLabels ----------------------------
(***************************************************************************)
(* The series of one metric (pkg/samples): the walk over all combinations  *)
(* of the tags' candidate values (tagSetPermutationStream) and the label   *)
(* set of each (BuildSeriesLabels), with its replica label and, for a      *)
(* churned series, its churn epoch.                                        *)
(*                                                                         *)
(* A label name is a number, its place in the order of names.  The labels  *)
(* of a sequence that has to be sorted have different names.               *)
(***************************************************************************)
EXTENDS Integers, Sequences, SequencesExt, FiniteSets, FiniteSetsExt

CONSTANTS MetricName,  \* "__name__"
          ChurnId,     \* "churn_id"
          Replica,     \* "replica"
          TagLists,    \* sequences of [name, values] in any order
          Empty,       \* the empty value, which stands for no label
          MaxChurned,  \* bound on the churned series
          MaxEpoch

Reserved == {MetricName, ChurnId, Replica}

IsSequence(s) == s \in Seq(ToSet(s))

\* What Inspect of metrics_dataset makes sure of.
ASSUME TagsAssumption ==
    /\ Reserved \subseteq Int /\ MetricName < ChurnId /\ ChurnId < Replica
    /\ MaxChurned \in Nat
    /\ MaxEpoch \in Nat
    /\ \A list \in TagLists :
          /\ IsSequence(list)
          /\ \A i \in DOMAIN list : /\ list[i].name \in Int \ Reserved
                                    /\ IsSequence(list[i].values)
                                    /\ list[i].values # <<>>
                                    /\ IsInjective(list[i].values)
                                    /\ \A j \in DOMAIN list : list[i].name = list[j].name => i = j

VARIABLES
    tags,     \* sorted by name
    churned,  \* the first churned series of the walk change with the epoch
    churnEpoch,
    indices,  \* the odometer: for each tag the candidate it is at
    count,    \* series of this walk so far
    done,
    emitted   \* set of [index, position, epoch, labels]

labelVars == <<tags, churned, churnEpoch, indices, count, done, emitted>>

Label(name, value) == [name |-> name, value |-> value]

\* In the order of names: the i-th is the one that i - 1 others have lesser names than.
Rank(s, k) == Cardinality({j \in DOMAIN s : s[j].name < s[k].name})
Sorted(s) == [i \in DOMAIN s |-> s[CHOOSE k \in DOMAIN s : Rank(s, k) = i - 1]]

Zero(list) == [i \in DOMAIN list |-> 1]

LabelInit == /\ \E list \in TagLists : tags = Sorted(list)
             /\ churned \in 0..MaxChurned
             /\ churnEpoch = 0
             /\ indices = Zero(tags)
             /\ count = 0
             /\ done = FALSE
             /\ emitted = {}

\* Where a name goes among those of a sequence: the first place, from some place on,
\* that has no lesser one.
PlaceFor(name, s, from) == Min({i \in from..(Len(s) + 1) : i <= Len(s) => s[i].name >= name})

\* How many tags the replica label comes after.
InsertIndex == PlaceFor(Replica, tags, 1) - 1

Tagged == [i \in DOMAIN tags |-> Label(tags[i].name, tags[i].values[indices[i]])]

\* Those that have a value.
Present(labels) ==
    FlattenSeq([i \in DOMAIN labels |-> IF labels[i].value = Empty THEN <<>> ELSE <<labels[i]>>])

\* The metric, the tags that have a value and the replica.
Plain == <<Label(MetricName, 0)>>
         \o (Present(SubSeq(Tagged, 1, InsertIndex)) \o <<Label(Replica, 0)>>
             \o Present(SubSeq(Tagged, InsertIndex + 1, Len(tags))))

\* After the labels of lesser names, the metric's aside.
ChurnPlace(labels) == PlaceFor(ChurnId, labels, 2)

\* Mutant: the churn label is of the first epoch.
WithFirstEpoch(labels) == InsertAt(labels, ChurnPlace(labels), Label(ChurnId, 0))

WithChurn(labels) == InsertAt(labels, ChurnPlace(labels), Label(ChurnId, churnEpoch))

\* Only a name that sorts before __name__ calls for sorting.
Ordered(labels) == IF labels[2].name < MetricName THEN Sorted(labels) ELSE labels

ShouldChurn == count < churned

BuildSeriesLabels == Ordered(IF ShouldChurn THEN WithChurn(Plain) ELSE Plain)

AtLast(index, i) == index[i] = Len(tags[i].values)

\* The tags the odometer moves: those before the first that is not at its last
\* candidate go back, that one goes on.
Turn(index) ==
    LET carried(i) == \A j \in 1..(i - 1) : AtLast(index, j)
    IN  [i \in DOMAIN tags |-> IF ~carried(i) THEN index[i]
                               ELSE IF AtLast(index, i) THEN 1 ELSE index[i] + 1]

Visit == /\ ~done
         /\ emitted' = emitted \cup
               {[index |-> indices, position |-> count, epoch |-> churnEpoch,
                 labels |-> BuildSeriesLabels]}
         /\ count' = count + 1
         /\ indices' = Turn(indices)
         /\ done' = \A i \in DOMAIN tags : AtLast(indices, i)
         /\ UNCHANGED <<tags, churned, churnEpoch>>

\* The next wave or scrape, in a later epoch.
NextWalk == /\ done
            /\ churnEpoch < MaxEpoch
            /\ churnEpoch' = churnEpoch + 1
            /\ indices' = Zero(tags)
            /\ count' = 0
            /\ done' = FALSE
            /\ UNCHANGED <<tags, churned, emitted>>

LabelNext == Visit \/ NextWalk

LabelSpec == LabelInit /\ [][LabelNext]_labelVars
-----------------------------------------------------------------------------
\* Two series that left have the same label set exactly if they are the same
\* combination of candidates and, for a churned one, of the same epoch: no two
\* series of a wave fall together, and an epoch changes the identity of the
\* churned series and of no other.  And a label set is in the order of its names,
\* without one twice, wherever the tags' names fall between the three the program
\* adds, as a receiver of remote write may demand.
SeriesIdentity ==
    /\ \A a, b \in emitted :
          ToSet(a.labels) = ToSet(b.labels) <=>
              a.index = b.index /\ (a.epoch = b.epoch \/ a.position >= churned)
    /\ \A a \in emitted : \A i \in 1..(Len(a.labels) - 1) :
          a.labels[i].name < a.labels[i + 1].name
=============================================================================
