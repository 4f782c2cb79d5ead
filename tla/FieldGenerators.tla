-------------------------- MODULE FieldGenerators --------------------------
(***************************************************************************)
(* The values of one metric's series over the waves of a load: the cache   *)
(* of field generators (FileConfig.FieldGenerators, pkg/samples/parse.go)  *)
(* and the counter behind a mono_inc field (MonoInc.Next,                  *)
(* pkg/samples/distribution.go).                                           *)
(*                                                                         *)
(* Bounds are float64 and the counter is an int: numbers are multiples of  *)
(* 1/Unit here, an int is a multiple of Unit, and int(x) cuts towards      *)
(* zero.                                                                   *)
(***************************************************************************)
EXTENDS Integers, Sequences

CONSTANTS Series,     \* number of series of the metric
          Churned,    \* its first Churned series change identity with the epoch
          Unit,       \* what 1 is
          Lowers, Uppers, Steps,  \* what a configuration may set
          None,       \* an absent bound
          MaxWaves,   \* bound on waves
          LastEpoch   \* bound on the churn epoch

ASSUME GeneratorsAssumption == /\ Series \in Nat \ {0}
                               /\ Churned \in 0..Series
                               /\ Unit \in Nat \ {0}
                               /\ MaxWaves \in Nat
                               /\ LastEpoch \in Nat
                               /\ Lowers \cup Uppers \subseteq Int \cup {None} /\ None \notin Int
                               /\ Steps \subseteq {s \in Int : s % Unit = 0}

\* Counted from 0.
AllSeries == 0..(Series - 1)

VARIABLES
    lower, upper, step,  \* the distribution
    generators,          \* FieldGenerators: series index -> the counter's current
    wave, epoch,         \* the wave and its churn epoch
    index,               \* the next series of the wave
    sent,                \* what left of each series: sequence of [value, epoch]
    panicked             \* Next dereferenced a nil lowerBound

config == <<lower, upper, step>>
fieldVars == <<config, generators, wave, epoch, index, sent, panicked>>

\* int(x)
Cut(x) == IF x >= 0 THEN (x \div Unit) * Unit ELSE -(((-x) \div Unit) * Unit)

FieldInit == /\ lower \in Lowers
             /\ upper \in Uppers
             /\ step \in Steps
             /\ generators = <<>>
             /\ wave = 1
             /\ epoch = 0
             /\ index = 0
             /\ sent = [s \in AllSeries |-> <<>>]
             /\ panicked = FALSE

\* The key of the cache is the index of the series alone.
Current(s) == IF s \in DOMAIN generators THEN generators[s] ELSE 0

\* A counter at 0 starts from the lower bound, whether or not it is new.
AtStart(s) == lower # None /\ Current(s) = 0

Value(s) == IF AtStart(s) THEN lower ELSE Current(s)
NextValue(s) == (IF AtStart(s) THEN Cut(lower) ELSE Current(s)) + step

\* Mutant: the upper bound itself is out of bounds.
ExceedsFromBound(s) == upper # None /\ NextValue(s) >= upper
Exceeds(s) == upper # None /\ NextValue(s) > upper

\* The counter of a series nobody asked for yet is made by its first use.
Generate ==
    /\ index < Series
    /\ ~panicked
    /\ ~(Exceeds(index) /\ lower = None)
    /\ generators' = [s \in DOMAIN generators \cup {index} |->
                         IF s # index THEN generators[s]
                         ELSE IF Exceeds(index) THEN Cut(lower) ELSE NextValue(index)]
    /\ sent' = [sent EXCEPT ![index] =
                   Append(@, [value |-> Value(index), epoch |-> IF index < Churned THEN epoch ELSE 0])]
    /\ index' = index + 1
    /\ UNCHANGED <<config, wave, epoch, panicked>>

\* The reset to a lower bound that is nil: the process ends.
Panic == /\ index < Series
         /\ ~panicked
         /\ Exceeds(index)
         /\ lower = None
         /\ panicked' = TRUE
         /\ UNCHANGED <<config, generators, wave, epoch, index, sent>>

\* The next tick, any number of churn epochs later.
NextWave == /\ index = Series
            /\ wave < MaxWaves
            /\ wave' = wave + 1
            /\ epoch' \in epoch..LastEpoch
            /\ index' = 0
            /\ UNCHANGED <<config, generators, sent, panicked>>

FieldNext == Generate \/ Panic \/ NextWave

FieldSpec == FieldInit /\ [][FieldNext]_fieldVars
-----------------------------------------------------------------------------
\* validateField (pkg/dataset/config.go) accepts these bounds.
Whole(x) == x % Unit = 0
Validated == /\ step > 0
             /\ lower # None => Whole(lower)
             /\ upper # None => Whole(upper) /\ lower # None /\ Whole(lower) /\ upper >= lower

\* What Generate of metrics_dataset relies on, at whatever point of the load: a
\* distribution its validation accepts never makes Next panic, every value is
\* within the bounds through every reset, and the k-th value of a series of a
\* bounded counter is the one the wave's number says, since a series is stepped
\* once for each wave, however the waves and the churn epochs go.  A counter
\* whose lower bound is negative may pass zero, where it starts anew
\* (DocMonotone).
ValidatedValues ==
    Validated =>
        /\ ~panicked
        /\ \A s \in AllSeries : \A k \in DOMAIN sent[s] :
              LET value == sent[s][k].value
              IN  /\ lower = None \/ value >= lower
                  /\ upper = None \/ value <= upper
                  /\ (lower # None /\ lower >= 0 /\ upper # None) =>
                        value = lower + ((k - 1) % ((upper - lower) \div step + 1)) * step

\* pkg/samples/distribution.go:52: "Next returns a monotonically increasing
\* float.", for a counter that has no upper bound.
DocMonotone ==
    upper = None /\ step > 0 =>
        \A s \in AllSeries : \A k \in 2..Len(sent[s]) : sent[s][k].value > sent[s][k - 1].value
=============================================================================
