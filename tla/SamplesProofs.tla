--------------------------- MODULE SamplesProofs ---------------------------
(***************************************************************************)
(* The algorithms of pkg/samples, for any metrics and bounds: how churn is *)
(* spread over the metrics, and the values of the generators.  Then        *)
(* config_modifier and the walk of a directory of configurations, for any  *)
(* directory; and the label sets of the series of a metric, for any tags.  *)
(***************************************************************************)
EXTENDS ChurnAllocation, FieldGenerators, ConfigModifier, ConfigWalk, SeriesLabels,
        FoldLemmas

(* Churn.                                                                    *)

Due(m) == churnSeries[m] * target

\* The series of the first n metrics.
SeriesTo(n) == SumFunctionOnSet(churnSeries, 1..n)

\* A metric has what its floor gave, or one more of the rest.
IsFloor(c, m) == c * Total <= Due(m) /\ Due(m) - Total <= c * Total
IsDue(m) == IsFloor(counts[m], m) \/ IsFloor(counts[m] - 1, m)

ChurnTypes ==
    /\ churnSeries \in [Metrics -> Nat]
    /\ Total > 0
    /\ target \in Nat /\ target <= Total
    /\ pass \in {"floor", "rest", "done"}
    /\ churnNext \in 1..(N + 1)
    /\ counts \in [Metrics -> Nat]
    /\ remaining \in Nat

\* What the floors have given is at most the part of the metrics passed, and by
\* less than one for each of them below it.
FloorInv == pass = "floor" =>
    /\ (target - remaining) * Total <= SeriesTo(churnNext - 1) * target
    /\ SeriesTo(churnNext - 1) * target <= (target - remaining + churnNext - 1) * Total
    /\ \A m \in Metrics : IF m < churnNext THEN IsFloor(counts[m], m) ELSE counts[m] = 0

\* There is a metric for each series that is left.
RestInv ==
    /\ pass = "rest" =>
          /\ remaining <= N + 1 - churnNext
          /\ \A m \in Metrics : m >= churnNext => IsFloor(counts[m], m)
          /\ \A m \in Metrics : IsDue(m)
    /\ pass = "done" => remaining = 0 /\ \A m \in Metrics : IsDue(m)

ChurnInv == /\ ChurnTypes /\ FloorInv /\ RestInv
            /\ SumFunctionOnSet(counts, Metrics) + remaining = target

LEMMA MinOfTwo ==
    ASSUME NEW a \in Nat, NEW b \in Nat
    PROVE  Min({a, b}) = IF a <= b THEN a ELSE b
<1>1. \E x \in {a, b} : \A y \in {a, b} : x <= y
  OBVIOUS
<1>2. /\ Min({a, b}) \in {a, b}
      /\ \A y \in {a, b} : Min({a, b}) <= y
  BY <1>1 DEF Min
<1> QED
  BY <1>2

LEMMA MetricsFinite ==
    /\ IsFiniteSet(Metrics)
    /\ N \in Nat
    /\ \A n \in 0..N : 1..n \subseteq Metrics /\ IsFiniteSet(1..n)
<1>1. N \in Nat
  BY AllocationAssumption
<1>2. IsFiniteSet(1..N)
  BY <1>1, FS_Interval
<1>3. \A n \in 0..N : 1..n \subseteq Metrics /\ IsFiniteSet(1..n)
  BY <1>1, <1>2, FS_Subset DEF Metrics
<1> QED
  BY <1>1, <1>2, <1>3 DEF Metrics

\* Fewer metrics have fewer series, and one more metric adds its own.
LEMMA SeriesToFacts ==
    ASSUME churnSeries \in [Metrics -> Nat]
    PROVE  /\ Total \in Nat /\ SeriesTo(N) = Total /\ SeriesTo(0) = 0
           /\ \A n \in 0..N : SeriesTo(n) \in Nat
           /\ \A n \in 0..(N - 1) : SeriesTo(n + 1) = SeriesTo(n) + churnSeries[n + 1]
<1>1. \A n \in 0..N : SeriesTo(n) \in Nat
  <2> SUFFICES ASSUME NEW n \in 0..N PROVE SeriesTo(n) \in Nat
    OBVIOUS
  <2>1. \A x \in 1..n : churnSeries[x] \in Nat
    BY MetricsFinite
  <2> QED
    BY <2>1, MetricsFinite, SumTypes DEF SeriesTo
<1>2. \A n \in 0..(N - 1) : SeriesTo(n + 1) = SeriesTo(n) + churnSeries[n + 1]
  <2> SUFFICES ASSUME NEW n \in 0..(N - 1)
               PROVE  SeriesTo(n + 1) = SeriesTo(n) + churnSeries[n + 1]
    OBVIOUS
  <2>1. n \in Nat /\ \A i \in 1..(n + 1) : churnSeries[i] \in Int
    BY MetricsFinite DEF Metrics
  <2> QED
    BY <2>1, SumLast DEF SeriesTo
<1>3. SeriesTo(0) = 0
  <2>1. 1..0 = {}
    OBVIOUS
  <2> QED
    BY <2>1, SumEmpty DEF SeriesTo
<1>4. N \in 0..N /\ SeriesTo(N) = Total
  BY MetricsFinite DEF SeriesTo, Total, Metrics
<1> QED
  BY <1>1, <1>2, <1>3, <1>4

\* A metric beyond the first n has its series beside theirs.
LEMMA SeriesBeyond ==
    ASSUME churnSeries \in [Metrics -> Nat], NEW n \in 0..N, NEW m \in Metrics, m > n
    PROVE  SeriesTo(n) + churnSeries[m] <= Total
<1> DEFINE T == Metrics \ {m}
           h == [x \in 1..n |-> x]
<1>1. IsFiniteSet(T) /\ 1..n \subseteq T /\ IsFiniteSet(1..n)
  BY MetricsFinite, FS_Subset DEF Metrics
<1>2. \A x \in T : churnSeries[x] \in Nat /\ churnSeries[x] \in Int
  OBVIOUS
<1>3. /\ Total = churnSeries[m] + SumFunctionOnSet(churnSeries, T)
      /\ SumFunctionOnSet(churnSeries, T) \in Int
  <2>1. \A x \in Metrics : churnSeries[x] \in Int
    OBVIOUS
  <2> QED
    BY <2>1, MetricsFinite, SumSplit DEF Total
<1>4. SeriesTo(n) <= SumFunctionOnSet(churnSeries, T)
  <2>1. /\ \A x \in 1..n : churnSeries[x] \in Int
        /\ \A y \in T : churnSeries[y] \in Nat
        /\ \A x \in 1..n : churnSeries[x] > 0 => h[x] \in T /\ churnSeries[x] <= churnSeries[h[x]]
        /\ \A x, y \in 1..n : churnSeries[x] > 0 /\ churnSeries[y] > 0 /\ h[x] = h[y] => x = y
    BY <1>1, <1>2
  <2> HIDE DEF T, h
  <2> QED
    BY <1>1, <2>1, SumInjected DEF SeriesTo
<1>5. SeriesTo(n) \in Nat
  BY SeriesToFacts
<1> QED
  BY <1>3, <1>4, <1>5 DEF Metrics

-----------------------------------------------------------------------------
(* Products.                                                                 *)

LEMMA ProductLess ==
    ASSUME NEW a \in Int, NEW b \in Int, NEW c \in Nat \ {0}, a * c < b * c
    PROVE  a < b
<1> SUFFICES ASSUME a >= b PROVE FALSE
  OBVIOUS
<1>1. PICK d \in Nat : a = b + d
  <2>1. a - b \in Nat /\ a = b + (a - b)
    OBVIOUS
  <2> QED
    BY <2>1
<1>2. a * c = b * c + d * c /\ d * c \in Nat /\ b * c \in Int
  BY <1>1
<1> QED
  BY <1>2

LEMMA ProductAtMost ==
    ASSUME NEW a \in Nat, NEW b \in Nat, NEW c \in Nat, a <= b
    PROVE  a * c \in Nat /\ b * c \in Nat /\ a * c <= b * c
<1>1. PICK d \in Nat : b = a + d
  <2>1. b - a \in Nat /\ b = a + (b - a)
    OBVIOUS
  <2> QED
    BY <2>1
<1>2. b * c = a * c + d * c /\ d * c \in Nat /\ a * c \in Nat
  BY <1>1
<1> QED
  BY <1>2

-----------------------------------------------------------------------------
(* The floors.                                                               *)

LEMMA PartFacts ==
    ASSUME ChurnTypes, NEW m \in Metrics, NEW share \in Part(m)
    PROVE  share \in Nat /\ IsFloor(share, m) /\ Due(m) \in Nat
<1> DEFINE t == Total
           d == churnSeries[m] * target
           q == d \div t
<1>1. t \in Nat \ {0} /\ d \in Nat
  BY SeriesToFacts DEF ChurnTypes
<1>2. Due(m) = d
  BY DEF Due
<1>3. \/ share = q
      \/ share = q - 1 /\ q > 0 /\ d % t = 0
  BY DEF Part
<1> HIDE DEF t, d
<1>4. q \in Nat /\ d % t \in 0..(t - 1) /\ d = q * t + (d % t)
  BY <1>1
<1> HIDE DEF q
<1>5. (q - 1) * t = q * t - t /\ q * t \in Nat
  BY <1>1, <1>4
<1>6. share \in Nat /\ share * t <= d /\ d - t <= share * t
  <2>1. CASE share = q
    BY <1>1, <1>4, <1>5, <2>1
  <2>2. CASE share = q - 1 /\ q > 0 /\ d % t = 0
    BY <1>1, <1>4, <1>5, <2>2
  <2> QED
    BY <1>3, <2>1, <2>2
<1> QED
  BY <1>1, <1>2, <1>6 DEF IsFloor, t

\* A part never asks for more than what is left.
LEMMA PartIsLeft ==
    ASSUME ChurnTypes, FloorInv, pass = "floor", churnNext \in Metrics, NEW share \in Part(churnNext)
    PROVE  /\ share \in Nat /\ share <= remaining
           /\ Min({share, remaining}) = share
           /\ (target - remaining + share) * Total <= SeriesTo(churnNext) * target
           /\ SeriesTo(churnNext) * target <= (target - remaining + share + churnNext) * Total
<1> DEFINE t == Total
           n == churnNext
           given == target - remaining
           before == SeriesTo(n - 1)
           due == Due(n)
<1>1. /\ t \in Nat \ {0} /\ n \in 1..N /\ N \in Nat /\ given \in Int /\ target \in Nat
      /\ remaining \in Nat /\ before \in Nat /\ due \in Nat
  <2>1. t \in Nat \ {0}
    BY SeriesToFacts DEF ChurnTypes
  <2>2. n \in 1..N /\ N \in Nat
    BY MetricsFinite DEF Metrics
  <2>3. given \in Int /\ target \in Nat /\ remaining \in Nat
    BY DEF ChurnTypes
  <2>4. before \in Nat
    <3>1. n - 1 \in 0..N
      BY <2>2
    <3> HIDE DEF n
    <3> QED
      BY <3>1, SeriesToFacts DEF ChurnTypes
  <2>5. due \in Nat
    BY PartFacts
  <2> QED
    BY <2>1, <2>2, <2>3, <2>4, <2>5
<1>2. share \in Nat /\ share * t <= due /\ due - t <= share * t
  BY PartFacts DEF IsFloor
<1>3. SeriesTo(n) = before + churnSeries[n] /\ churnSeries[n] \in Nat
  <2>1. n - 1 \in 0..(N - 1) /\ (n - 1) + 1 = n
    BY <1>1
  <2>2. \A k \in 0..(N - 1) : SeriesTo(k + 1) = SeriesTo(k) + churnSeries[k + 1]
    BY SeriesToFacts DEF ChurnTypes
  <2>3. SeriesTo((n - 1) + 1) = SeriesTo(n - 1) + churnSeries[(n - 1) + 1]
    BY <2>1, <2>2
  <2> HIDE DEF n
  <2>4. churnSeries[n] \in Nat
    BY <1>1 DEF ChurnTypes, Metrics
  <2> QED
    BY <1>1, <2>3, <2>4
<1>4. /\ given * t <= before * target
      /\ before * target <= (given + n - 1) * t
  BY DEF FloorInv
<1>5. SeriesTo(n) * target = before * target + due
  BY <1>1, <1>3 DEF Due
<1>6. SeriesTo(n) <= t /\ SeriesTo(n) \in Nat
  <2>1. before + churnSeries[n] <= Total
    BY <1>1, SeriesBeyond DEF ChurnTypes, Metrics
  <2> QED
    BY <1>1, <1>3, <2>1
<1> HIDE DEF t, n, given, before, due
<1>7. /\ (given + share) * t = given * t + share * t
      /\ (given + n - 1) * t = given * t + n * t - t
      /\ (given + share + n) * t = given * t + share * t + n * t
      /\ given * t \in Int /\ share * t \in Nat /\ n * t \in Int /\ before * target \in Int
  BY <1>1, <1>2
<1>8. /\ (given + share) * t <= SeriesTo(n) * target
      /\ SeriesTo(n) * target <= (given + share + n) * t
  <2> DEFINE gt == given * t
             st == share * t
             nt == n * t
             bt == before * target
  <2>1. /\ (given + share) * t = gt + st
        /\ (given + share + n) * t = gt + st + nt
        /\ SeriesTo(n) * target = bt + due
        /\ gt <= bt /\ bt <= gt + nt - t
        /\ gt \in Int /\ st \in Nat /\ nt \in Int /\ bt \in Int
        /\ st <= due /\ due - t <= st
    BY <1>2, <1>4, <1>5, <1>7
  <2> HIDE DEF gt, st, nt, bt
  <2> QED
    BY <1>1, <2>1
<1>9. share <= remaining
  <2> SUFFICES ASSUME share > remaining PROVE FALSE
    BY <1>1, <1>2
  <2>1. SeriesTo(n) * target <= t * target /\ t * target \in Nat
    BY <1>1, <1>6, ProductAtMost
  <2>2. target + 1 <= given + share /\ given + share \in Nat
    BY <1>1, <1>2 DEF given
  <2>3. (target + 1) * t <= (given + share) * t
    BY <1>1, <2>2, ProductAtMost
  <2>4. (target + 1) * t = t * target + t
    BY <1>1
  <2>5. (given + share) * t \in Int /\ SeriesTo(n) * target \in Int
    BY <1>1, <1>2, <1>6
  <2> QED
    BY <1>1, <1>8, <2>1, <2>3, <2>4, <2>5
<1>10. Min({share, remaining}) = share
  BY <1>1, <1>2, <1>9, MinOfTwo
<1> QED
  BY <1>2, <1>8, <1>9, <1>10 DEF t, n, given

\* What a step of the passes does not change.
LEMMA ChurnStays ==
    ASSUME churnSeries' = churnSeries, target' = target
    PROVE  /\ Total' = Total
           /\ \A n : SeriesTo(n)' = SeriesTo(n)
           /\ \A m : Due(m)' = Due(m)
           /\ \A c, m : IsFloor(c, m)' <=> IsFloor(c, m)
BY DEF Total, SeriesTo, Due, IsFloor

LEMMA FloorStep ==
    ASSUME ChurnInv, Floor
    PROVE  ChurnInv'
<1> DEFINE n == churnNext
<1>1. /\ ChurnTypes /\ FloorInv /\ pass = "floor" /\ n \in Metrics /\ n \in 1..N /\ N \in Nat
      /\ SumFunctionOnSet(counts, Metrics) + remaining = target
  BY MetricsFinite DEF ChurnInv, Floor, Metrics
<1>2. PICK share \in Part(n) :
         /\ counts' = [counts EXCEPT ![n] = Min({share, remaining})]
         /\ remaining' = remaining - Min({share, remaining})
  BY DEF Floor
<1>3. /\ share \in Nat /\ share <= remaining
      /\ Min({share, remaining}) = share
      /\ (target - remaining + share) * Total <= SeriesTo(n) * target
      /\ SeriesTo(n) * target <= (target - remaining + share + n) * Total
  BY <1>1, PartIsLeft
<1>4. IsFloor(share, n)
  BY <1>1, PartFacts
<1>5. /\ churnSeries' = churnSeries /\ target' = target /\ pass' = "floor" /\ churnNext' = n + 1
      /\ counts' = [counts EXCEPT ![n] = share] /\ remaining' = remaining - share
  BY <1>2, <1>3 DEF Floor
<1>6. /\ Total' = Total
      /\ \A k : SeriesTo(k)' = SeriesTo(k)
      /\ \A c, m : IsFloor(c, m)' <=> IsFloor(c, m)
  BY <1>5, ChurnStays
<1>7. ChurnTypes'
  BY <1>1, <1>3, <1>5, <1>6 DEF ChurnTypes, Metrics
<1>8. SumFunctionOnSet(counts, Metrics)' + remaining' = target'
  <2>1. /\ \A x \in Metrics : counts[x] \in Int /\ counts'[x] \in Int
        /\ \A x \in Metrics \ {n} : counts'[x] = counts[x]
        /\ counts'[n] = share
    BY <1>1, <1>3, <1>5 DEF ChurnTypes
  <2>2. counts[n] = 0
    BY <1>1 DEF FloorInv, Metrics
  <2>3. /\ SumFunctionOnSet(counts, Metrics) \in Int
        /\ SumFunctionOnSet(counts', Metrics) = SumFunctionOnSet(counts, Metrics) + (counts'[n] - counts[n])
    <3> DEFINE e == counts'
    <3>1. /\ \A x \in Metrics : counts[x] \in Int /\ e[x] \in Int
          /\ \A x \in Metrics \ {n} : e[x] = counts[x]
          /\ n \in Metrics
      BY <1>1, <2>1
    <3> HIDE DEF e, n
    <3>2. /\ SumFunctionOnSet(counts, Metrics) \in Int
          /\ SumFunctionOnSet(e, Metrics) = SumFunctionOnSet(counts, Metrics) + (e[n] - counts[n])
      BY <3>1, MetricsFinite, SumChange
    <3> QED
      BY <3>2 DEF e
  <2> HIDE DEF n
  <2> QED
    BY <1>1, <1>3, <1>5, <2>1, <2>2, <2>3 DEF ChurnTypes, Metrics
<1>9. FloorInv'
  <2>1. /\ target' - remaining' = target - remaining + share
        /\ churnNext' - 1 = n
        /\ target' - remaining' + churnNext' - 1 = target - remaining + share + n
    BY <1>1, <1>3, <1>5 DEF ChurnTypes
  <2>2. \A m \in Metrics : IF m < churnNext' THEN IsFloor(counts'[m], m) ELSE counts'[m] = 0
    <3> SUFFICES ASSUME NEW m \in Metrics
                 PROVE  IF m < churnNext' THEN IsFloor(counts'[m], m) ELSE counts'[m] = 0
      OBVIOUS
    <3>1. m \in Int /\ n \in Int /\ churnNext' = n + 1
      BY <1>1, <1>5 DEF Metrics
    <3>2. CASE m = n
      BY <1>4, <1>5, <3>1, <3>2 DEF ChurnTypes, ChurnInv
    <3>3. CASE m # n
      <4>1. counts'[m] = counts[m]
        BY <1>1, <1>5, <3>3 DEF ChurnTypes
      <4>2. IF m < n THEN IsFloor(counts[m], m) ELSE counts[m] = 0
        BY <1>1 DEF FloorInv
      <4>3. m < churnNext' <=> m < n
        BY <3>1, <3>3
      <4> QED
        BY <4>1, <4>2, <4>3
    <3> QED
      BY <3>2, <3>3
  <2>3. /\ (target' - remaining') * Total' <= SeriesTo(churnNext' - 1) * target'
        /\ SeriesTo(churnNext' - 1) * target' <= (target' - remaining' + churnNext' - 1) * Total'
    BY <1>3, <1>5, <1>6, <2>1
  <2>4. SeriesTo(churnNext' - 1) = SeriesTo(churnNext - 1)'
    BY <1>5 DEF SeriesTo
  <2>5. \A m \in Metrics : IF m < churnNext' THEN IsFloor(counts[m], m)' ELSE counts'[m] = 0
    BY <2>2, <1>5, <1>6 DEF IsFloor, Due
  <2> QED
    BY <2>3, <2>4, <2>5 DEF FloorInv, Metrics
<1>10. RestInv'
  BY <1>5 DEF RestInv
<1> QED
  BY <1>7, <1>8, <1>9, <1>10 DEF ChurnInv, Metrics

LEMMA FloorDoneStep ==
    ASSUME ChurnInv, FloorDone
    PROVE  ChurnInv'
<1>1. /\ ChurnTypes /\ FloorInv /\ pass = "floor" /\ N \in Nat
      /\ churnNext \in 1..(N + 1)
      /\ SumFunctionOnSet(counts, Metrics) + remaining = target
  BY MetricsFinite DEF ChurnInv, FloorDone, ChurnTypes
<1>2. /\ churnSeries' = churnSeries /\ target' = target /\ pass' = "rest" /\ churnNext' = 1
      /\ counts' = counts /\ remaining' = remaining
  BY DEF FloorDone
<1>3. Total \in Nat \ {0} /\ target \in Nat /\ remaining \in Nat
  BY SeriesToFacts DEF ChurnTypes, ChurnInv
<1>4. remaining <= N
  <2>1. CASE remaining = 0
    BY <1>1, <2>1
  <2>2. CASE remaining # 0
    <3>1. churnNext = N + 1
      BY <1>1, <2>2 DEF FloorDone, Metrics
    <3>2. Total * target <= (target - remaining + N) * Total
      <4>1. SeriesTo(churnNext - 1) * target <= (target - remaining + churnNext - 1) * Total
        BY <1>1 DEF FloorInv
      <4>2. churnNext - 1 = N /\ target - remaining + churnNext - 1 = target - remaining + N
        BY <1>1, <1>3, <3>1
      <4>3. SeriesTo(N) = Total
        BY <1>1, SeriesToFacts DEF ChurnTypes
      <4> QED
        BY <4>1, <4>2, <4>3
    <3>3. (target - 1) * Total < (target - remaining + N) * Total
      <4>1. (target - 1) * Total = Total * target - Total /\ Total * target \in Nat
        BY <1>3
      <4>2. (target - remaining + N) * Total \in Int
        BY <1>1, <1>3
      <4> QED
        BY <1>3, <3>2, <4>1, <4>2
    <3>4. target - 1 < target - remaining + N
      BY <1>1, <1>3, <3>3, ProductLess
    <3> QED
      BY <1>1, <1>3, <3>4
  <2> QED
    BY <2>1, <2>2
<1>5. \A m \in Metrics : IsFloor(counts[m], m)
  <2> SUFFICES ASSUME NEW m \in Metrics PROVE IsFloor(counts[m], m)
    OBVIOUS
  <2>0. m \in 1..N
    BY DEF Metrics
  <2>1. CASE m < churnNext
    BY <1>1, <2>1 DEF FloorInv
  <2>2. CASE ~(m < churnNext)
    <3>1. counts[m] = 0
      BY <1>1, <2>2 DEF FloorInv
    <3>2. remaining = 0 /\ churnNext - 1 \in 0..N /\ m > churnNext - 1
      BY <1>1, <2>0, <2>2 DEF FloorDone, Metrics
    <3> DEFINE before == SeriesTo(churnNext - 1)
               t == Total
    <3>3. before + churnSeries[m] <= t /\ before \in Nat /\ churnSeries[m] \in Nat
      BY <1>1, <3>2, SeriesBeyond, SeriesToFacts DEF ChurnTypes
    <3>4. target * t <= before * target
      BY <1>1, <1>3, <3>2 DEF FloorInv
    <3> HIDE DEF before, t
    <3>5. (before + churnSeries[m]) * target <= t * target
      BY <1>3, <3>3, ProductAtMost DEF t
    <3>6. /\ (before + churnSeries[m]) * target = before * target + churnSeries[m] * target
          /\ t * target = target * t
          /\ before * target \in Int /\ churnSeries[m] * target \in Nat /\ t * target \in Int
      BY <1>3, <3>3 DEF t
    <3>7. churnSeries[m] * target = 0
      BY <3>4, <3>5, <3>6
    <3>8. 0 * Total = 0
      BY <1>3
    <3> QED
      BY <1>3, <3>1, <3>7, <3>8 DEF IsFloor, Due
  <2> QED
    BY <2>1, <2>2
<1>6. ChurnTypes'
  BY <1>1, <1>2, ChurnStays DEF ChurnTypes, Metrics
<1>7. FloorInv'
  BY <1>2 DEF FloorInv
<1>8. RestInv'
  <2>1. \A m \in Metrics : IsFloor(counts[m], m)'
    BY <1>2, <1>5 DEF IsFloor, Due, Total
  <2> QED
    BY <1>1, <1>2, <1>3, <1>4, <2>1 DEF RestInv, IsDue, Metrics
<1> QED
  BY <1>1, <1>2, <1>6, <1>7, <1>8 DEF ChurnInv, Metrics

LEMMA RestStep ==
    ASSUME ChurnInv, Rest
    PROVE  ChurnInv'
<1> DEFINE n == churnNext
           e == counts'
<1>1. /\ ChurnTypes /\ RestInv /\ pass = "rest" /\ n \in Metrics /\ n \in 1..N /\ N \in Nat
      /\ remaining > 0 /\ remaining \in Nat /\ target \in Nat
      /\ SumFunctionOnSet(counts, Metrics) + remaining = target
  BY MetricsFinite DEF ChurnInv, ChurnTypes, Rest, Metrics
<1>2. /\ churnSeries' = churnSeries /\ target' = target /\ pass' = "rest" /\ churnNext' = n + 1
      /\ e = [counts EXCEPT ![n] = @ + 1] /\ remaining' = remaining - 1
  BY <1>1 DEF Rest
<1>3. /\ \A x \in Metrics : counts[x] \in Nat /\ e[x] \in Nat
      /\ \A x \in Metrics \ {n} : e[x] = counts[x]
      /\ e[n] = counts[n] + 1
  BY <1>1, <1>2 DEF ChurnTypes
<1>4. ChurnTypes'
  BY <1>1, <1>2, ChurnStays DEF ChurnTypes, Metrics
<1>5. SumFunctionOnSet(e, Metrics) + remaining' = target'
  <2>1. /\ \A x \in Metrics : counts[x] \in Int /\ e[x] \in Int
        /\ \A x \in Metrics : x # n => e[x] = counts[x]
        /\ n \in Metrics
    BY <1>1, <1>3
  <2> HIDE DEF e, n
  <2>2. /\ SumFunctionOnSet(counts, Metrics) \in Int
        /\ SumFunctionOnSet(e, Metrics) = SumFunctionOnSet(counts, Metrics) + (e[n] - counts[n])
    BY <2>1, MetricsFinite, SumChange
  <2> QED
    BY <1>1, <1>2, <1>3, <2>2
<1>6. \A m \in Metrics : IsFloor(e[m], m) \/ IsFloor(e[m] - 1, m)
  <2> SUFFICES ASSUME NEW m \in Metrics PROVE IsFloor(e[m], m) \/ IsFloor(e[m] - 1, m)
    OBVIOUS
  <2>1. CASE m = n
    <3>1. IsFloor(counts[n], n)
      BY <1>1 DEF RestInv, Metrics
    <3>2. e[n] - 1 = counts[n]
      BY <1>1, <1>3
    <3> QED
      BY <2>1, <3>1, <3>2
  <2>2. CASE m # n
    BY <1>1, <1>3, <2>2 DEF RestInv, IsDue
  <2> QED
    BY <2>1, <2>2
<1>7. \A m \in Metrics : m >= n + 1 => IsFloor(e[m], m)
  BY <1>1, <1>3 DEF RestInv, Metrics
<1>8. RestInv'
  <2>1. \A m \in Metrics : IsDue(m)'
    BY <1>2, <1>6, ChurnStays DEF IsDue, IsFloor
  <2>2. \A m \in Metrics : m >= churnNext' => IsFloor(counts[m], m)'
    BY <1>2, <1>7, ChurnStays DEF IsFloor
  <2>3. remaining' <= N + 1 - churnNext'
    BY <1>1, <1>2 DEF RestInv
  <2> QED
    BY <1>2, <2>1, <2>2, <2>3 DEF RestInv, Metrics
<1>9. FloorInv'
  BY <1>2 DEF FloorInv
<1> QED
  BY <1>4, <1>5, <1>8, <1>9 DEF ChurnInv, Metrics

LEMMA RestDoneStep ==
    ASSUME ChurnInv, RestDone
    PROVE  ChurnInv'
<1>1. /\ ChurnTypes /\ RestInv /\ pass = "rest" /\ N \in Nat
      /\ SumFunctionOnSet(counts, Metrics) + remaining = target
  BY MetricsFinite DEF ChurnInv, RestDone
<1>2. /\ churnSeries' = churnSeries /\ target' = target /\ pass' = "done" /\ churnNext' = churnNext
      /\ counts' = counts /\ remaining' = remaining
  BY DEF RestDone
<1>3. remaining = 0
  BY <1>1 DEF RestInv, RestDone, ChurnTypes, Metrics
<1>4. ChurnTypes'
  BY <1>1, <1>2, ChurnStays DEF ChurnTypes, Metrics
<1>5. \A m \in Metrics : IsDue(m)'
  BY <1>1, <1>2, ChurnStays DEF RestInv, IsDue, IsFloor
<1>6. RestInv' /\ FloorInv'
  BY <1>2, <1>3, <1>5 DEF RestInv, FloorInv, Metrics
<1> QED
  BY <1>1, <1>2, <1>4, <1>6 DEF ChurnInv, Metrics

LEMMA ChurnStart == ChurnInit => ChurnInv
<1> SUFFICES ASSUME ChurnInit PROVE ChurnInv
  OBVIOUS
<1>1. churnSeries \in [Metrics -> Nat]
  BY AllocationAssumption DEF ChurnInit, Metrics
<1>2. Total \in Nat /\ SeriesTo(0) = 0
  BY <1>1, SeriesToFacts
<1>3. target \in Nat /\ target <= Total
  <2>1. PICK t \in Targets : target = Min({t, Total})
    BY DEF ChurnInit
  <2>2. t \in Nat
    BY AllocationAssumption
  <2> QED
    BY <1>2, <2>1, <2>2, MinOfTwo
<1>4. ChurnTypes
  BY <1>1, <1>2, <1>3, MetricsFinite DEF ChurnInit, ChurnTypes
<1>5. SumFunctionOnSet(counts, Metrics) = 0
  BY MetricsFinite, SumZero DEF ChurnInit
<1>6. FloorInv
  <2>1. churnNext = 1 /\ target - remaining = 0 /\ churnNext - 1 = 0
    BY <1>3 DEF ChurnInit
  <2>2. 0 * Total = 0 /\ 0 * target = 0
    BY <1>2, <1>3
  <2>3. SeriesTo(churnNext - 1) = 0 /\ target - remaining + churnNext - 1 = 0
    BY <1>2, <2>1
  <2>4. \A m \in Metrics : ~(m < 1) /\ counts[m] = 0
    BY DEF ChurnInit, Metrics
  <2> QED
    BY <2>1, <2>2, <2>3, <2>4 DEF FloorInv
<1>7. RestInv
  BY DEF RestInv, ChurnInit
<1> QED
  BY <1>3, <1>4, <1>5, <1>6, <1>7 DEF ChurnInv, ChurnInit

\* The strengthening is an invariant of the two passes.
THEOREM ChurnInvariance == ChurnSpec => []ChurnInv
<1>1. ChurnInv /\ [ChurnNext]_churnVars => ChurnInv'
  <2> SUFFICES ASSUME ChurnInv, [ChurnNext]_churnVars PROVE ChurnInv'
    OBVIOUS
  <2>1. CASE Floor
    BY <2>1, FloorStep
  <2>2. CASE FloorDone
    BY <2>2, FloorDoneStep
  <2>3. CASE Rest
    BY <2>3, RestStep
  <2>4. CASE RestDone
    BY <2>4, RestDoneStep
  <2>5. CASE UNCHANGED churnVars
    <3>1. /\ churnSeries' = churnSeries /\ target' = target /\ pass' = pass /\ churnNext' = churnNext
          /\ counts' = counts /\ remaining' = remaining
      BY <2>5 DEF churnVars
    <3> QED
      BY <3>1 DEF ChurnInv, ChurnTypes, FloorInv, RestInv, IsDue, IsFloor, Due, Total, SeriesTo, Metrics
  <2> QED
    BY <2>1, <2>2, <2>3, <2>4, <2>5 DEF ChurnNext
<1> QED
  BY <1>1, ChurnStart, PTL DEF ChurnSpec

\* For any number of metrics, of any number of series each, any target and any
\* rounding of the parts: the target is handed out, and every metric churns its
\* share give or take less than one series, and not more than it has.
THEOREM ChurnIsSpread == ChurnSpec => []ChurnSpread
<1>1. ChurnInv => ChurnSpread
  <2> SUFFICES ASSUME ChurnInv, pass = "done" PROVE ChurnSpread
    BY DEF ChurnSpread
  <2>1. /\ ChurnTypes /\ remaining = 0 /\ \A m \in Metrics : IsDue(m)
        /\ SumFunctionOnSet(counts, Metrics) + remaining = target
    BY DEF ChurnInv, RestInv
  <2>2. SumFunctionOnSet(counts, Metrics) = target
    <3>1. SumFunctionOnSet(counts, Metrics) \in Nat
      BY <2>1, MetricsFinite, SumTypes DEF ChurnTypes
    <3> QED
      BY <2>1, <3>1
  <2>3. ASSUME NEW m \in Metrics
        PROVE  /\ counts[m] * Total \in (Due(m) - Total)..(Due(m) + Total)
               /\ target < Total /\ churnSeries[m] > 0 => counts[m] <= churnSeries[m]
    <3> DEFINE c == counts[m]
               t == Total
               s == churnSeries[m]
               due == s * target
    <3>1. c \in Nat /\ t \in Nat \ {0} /\ s \in Nat /\ target \in Nat /\ due \in Nat
      BY <2>1, SeriesToFacts DEF ChurnTypes
    <3>2. \/ c * t <= due /\ due - t <= c * t
          \/ (c - 1) * t <= due /\ due - t <= (c - 1) * t
      BY <2>1 DEF IsDue, IsFloor, Due
    <3>3. Due(m) = due
      BY DEF Due
    <3> HIDE DEF c, t, s, due
    <3>4. (c - 1) * t = c * t - t /\ c * t \in Nat
      BY <3>1
    <3>5. c * t \in (due - t)..(due + t)
      BY <3>1, <3>2, <3>4
    <3>6. ASSUME target < t, s > 0 PROVE c <= s
      <4>1. due < s * t /\ s * t \in Nat
        <5>1. PICK d \in Nat \ {0} : t = target + d
          <6>1. t - target \in Nat \ {0} /\ t = target + (t - target)
            BY <3>1, <3>6
          <6> QED
            BY <6>1
        <5>2. s * t = s * target + s * d /\ s * d > 0 /\ s * t \in Nat /\ s * target \in Nat
          BY <3>1, <3>6, <5>1
        <5> QED
          BY <3>1, <5>2 DEF due
      <4>2. (c - 1) * t < s * t
        BY <3>1, <3>2, <3>4, <4>1
      <4>3. c - 1 < s
        BY <3>1, <4>2, ProductLess
      <4> QED
        BY <3>1, <4>3
    <3> QED
      BY <3>3, <3>5, <3>6 DEF c, t, s
  <2> QED
    BY <2>2, <2>3 DEF ChurnSpread, Due
<1> QED
  BY <1>1, ChurnInvariance, PTL

-----------------------------------------------------------------------------
(* The values.                                                               *)

\* The counter goes through so many values before it starts again, and the k-th
\* value of a series is that one of them.
Bounded == lower # None /\ lower >= 0 /\ upper # None
Period == (upper - lower) \div step + 1
Nth(k) == lower + ((k - 1) % Period) * step

FieldTypes ==
    /\ lower \in Int \cup {None} /\ upper \in Int \cup {None} /\ step \in Int
    /\ index \in Nat /\ epoch \in Nat
    /\ DOMAIN generators \subseteq AllSeries
    /\ \A s \in DOMAIN generators : generators[s] \in Int
    /\ sent \in [AllSeries -> Seq([value : Int \cup {None}, epoch : Nat])]

\* The value to come of a series is within the bounds.
SeriesInv(s) ==
    /\ lower # None => Current(s) = 0 \/ Current(s) >= lower
    /\ upper # None => Current(s) = 0 \/ Current(s) <= upper
    /\ Bounded => IF sent[s] = <<>> THEN Current(s) = 0 ELSE Current(s) = Nth(Len(sent[s]) + 1)

ValueOK(value, k) ==
    /\ lower = None \/ value >= lower
    /\ upper = None \/ value <= upper
    /\ Bounded => value = Nth(k)

FieldInv ==
    /\ FieldTypes
    /\ Validated => /\ ~panicked
                    /\ \A s \in AllSeries : SeriesInv(s)
                    /\ \A s \in AllSeries : \A k \in DOMAIN sent[s] : ValueOK(sent[s][k].value, k)

\* A whole number is what it is cut to.
LEMMA CutWhole ==
    ASSUME NEW x \in Int, Whole(x)
    PROVE  Cut(x) = x
<1>1. Unit \in Nat \ {0}
  BY GeneratorsAssumption
<1>2. CASE x >= 0
  <2>1. x = (x \div Unit) * Unit + (x % Unit)
    BY <1>1
  <2>2. (x \div Unit) * Unit \in Int
    BY <1>1
  <2> QED
    BY <1>2, <2>1, <2>2 DEF Cut, Whole
<1>3. CASE ~(x >= 0)
  <2> DEFINE q == x \div Unit
             c == 0 - q
  <2>1. q \in Int /\ x = q * Unit
    <3>1. q \in Int /\ x = q * Unit + (x % Unit)
      BY <1>1
    <3> HIDE DEF q
    <3>2. q * Unit \in Int
      BY <1>1, <3>1
    <3> QED
      BY <3>1, <3>2 DEF Whole
  <2> HIDE DEF q
  <2>2. c \in Nat /\ -x = c * Unit + 0
    <3>1. -x = c * Unit /\ c \in Int
      BY <1>1, <2>1
    <3>2. 0 * Unit < c * Unit
      BY <1>1, <1>3, <3>1
    <3>3. 0 < c
      BY <1>1, <3>1, <3>2, ProductLess
    <3> QED
      BY <3>1, <3>3
  <2> HIDE DEF c
  <2>3. 0 \in 0..(Unit - 1)
    BY <1>1
  <2>4. (c * Unit + 0) \div Unit = c
    BY <1>1, <2>2, <2>3, DivideOnce
  <2>5. Cut(x) = -(c * Unit)
    BY <1>3, <2>2, <2>4 DEF Cut
  <2> QED
    BY <1>1, <2>2, <2>5
<1> QED
  BY <1>2, <1>3

\* The value after the k-th: one step up, or the lower bound.
LEMMA NthNext ==
    ASSUME FieldTypes, Validated, Bounded, NEW k \in Nat \ {0}
    PROVE  /\ Nth(k) \in Int /\ lower <= Nth(k) /\ Nth(k) <= upper
           /\ Nth(1) = lower
           /\ Nth(k + 1) = IF Nth(k) + step > upper THEN lower ELSE Nth(k) + step
<1> DEFINE d == (upper - lower) \div step
           P == d + 1
           c == (k - 1) \div P
           j == (k - 1) % P
<1>1. /\ lower \in Int /\ upper \in Int /\ step \in Nat \ {0} /\ upper - lower \in Nat
      /\ k - 1 \in Nat
  BY DEF FieldTypes, Validated, Bounded
<1>2. d \in Nat /\ d * step <= upper - lower /\ upper - lower < d * step + step
  <2> DEFINE u == upper - lower
             r == u % step
  <2>1. u \in Nat /\ d = u \div step
    BY <1>1
  <2> HIDE DEF u
  <2>2. u \div step \in Nat /\ r \in 0..(step - 1) /\ u = (u \div step) * step + r
    BY <1>1, <2>1
  <2> HIDE DEF d, r
  <2>3. (u \div step) * step = d * step /\ d * step \in Int
    BY <1>1, <2>1, <2>2
  <2>4. d \in Nat /\ d * step <= u /\ u < d * step + step
    BY <1>1, <2>1, <2>2, <2>3
  <2> QED
    BY <2>4 DEF u
<1> HIDE DEF d
<1>3. P \in Nat \ {0}
  BY <1>2
<1> HIDE DEF P
<1>4. c \in Nat /\ j \in 0..(P - 1) /\ k - 1 = c * P + j
  BY <1>1, <1>3
<1> HIDE DEF c, j
<1>5. Nth(k) = lower + j * step /\ Period = P
  BY DEF Nth, Period, j, P, d
<1>6. j * step \in Nat /\ j * step <= d * step
  <2>1. j \in Nat /\ j <= d
    BY <1>2, <1>4 DEF P
  <2> QED
    BY <1>1, <1>2, <2>1, ProductAtMost
<1>7. Nth(1) = lower
  <2>1. (1 - 1) % P = 0
    <3>1. 0 \in 0..(P - 1) /\ 0 * P + 0 = 0
      BY <1>3
    <3>2. (0 * P + 0) % P = 0
      BY <1>3, <3>1, DivideOnce
    <3> QED
      BY <3>1, <3>2
  <2> QED
    BY <1>1, <1>5, <2>1 DEF Nth
<1>8. Nth(k + 1) = IF Nth(k) + step > upper THEN lower ELSE Nth(k) + step
  <2>1. Nth(k + 1) = lower + (k % P) * step
    <3>1. (k + 1) - 1 = k
      OBVIOUS
    <3> QED
      BY <1>5, <3>1 DEF Nth
  <2>2. CASE j = d
    <3>1. k = (c + 1) * P + 0 /\ c + 1 \in Nat /\ 0 \in 0..(P - 1)
      <4>1. k = c * P + d + 1 /\ c * P \in Nat
        BY <1>1, <1>2, <1>3, <1>4, <2>2
      <4>2. (c + 1) * P = c * P + P
        BY <1>3, <1>4
      <4> QED
        BY <1>2, <1>3, <1>4, <4>1, <4>2 DEF P
    <3>2. k % P = 0
      BY <1>3, <3>1, DivideOnce
    <3>3. Nth(k + 1) = lower
      BY <1>1, <2>1, <3>2
    <3>4. Nth(k) + step > upper
      BY <1>1, <1>2, <1>5, <1>6, <2>2
    <3> QED
      BY <3>3, <3>4
  <2>3. CASE j # d
    <3>1. k = c * P + (j + 1) /\ j + 1 \in 0..(P - 1)
      <4>1. c * P \in Nat
        BY <1>3, <1>4
      <4>2. j + 1 \in 0..(P - 1)
        BY <1>2, <1>4, <2>3 DEF P
      <4> HIDE DEF P
      <4> QED
        BY <1>1, <1>4, <4>1, <4>2
    <3>2. k % P = j + 1
      BY <1>3, <1>4, <3>1, DivideOnce
    <3>3. (j + 1) * step = j * step + step
      BY <1>1, <1>4
    <3>4. Nth(k + 1) = Nth(k) + step
      <4> DEFINE js == j * step
      <4>1. js \in Nat /\ Nth(k) = lower + js /\ Nth(k + 1) = lower + (js + step)
        BY <1>5, <1>6, <2>1, <3>2, <3>3
      <4> HIDE DEF js
      <4> QED
        BY <1>1, <4>1
    <3>5. ~(Nth(k) + step > upper)
      <4>1. j + 1 \in Nat /\ j + 1 <= d
        BY <1>2, <1>4, <2>3 DEF P
      <4>2. (j + 1) * step <= d * step /\ d * step \in Nat
        BY <1>1, <1>2, <4>1, ProductAtMost
      <4> DEFINE js == j * step
                 ds == d * step
      <4>3. js \in Nat /\ ds \in Nat /\ Nth(k) = lower + js /\ js + step <= ds /\ ds <= upper - lower
        BY <1>2, <1>5, <1>6, <3>3, <4>2
      <4> HIDE DEF js, ds
      <4> QED
        BY <1>1, <4>3
    <3> QED
      BY <3>4, <3>5
  <2> QED
    BY <2>2, <2>3
<1>9. Nth(k) \in Int /\ lower <= Nth(k) /\ Nth(k) <= upper
  <2> DEFINE js == j * step
             ds == d * step
  <2>1. js \in Nat /\ ds \in Nat /\ Nth(k) = lower + js /\ js <= ds /\ ds <= upper - lower
    BY <1>1, <1>2, <1>5, <1>6
  <2> HIDE DEF js, ds
  <2> QED
    BY <1>1, <2>1
<1> QED
  BY <1>7, <1>8, <1>9

LEMMA FieldStart == FieldInit => FieldInv
<1> SUFFICES ASSUME FieldInit
             PROVE  FieldInv
  OBVIOUS
<1>1. \A s \in AllSeries : sent[s] = <<>> /\ Current(s) = 0
  BY DEF FieldInit, Current
<1>2. FieldTypes
  <2>1. <<>> \in Seq([value : Int \cup {None}, epoch : Nat])
    OBVIOUS
  <2>2. sent \in [AllSeries -> Seq([value : Int \cup {None}, epoch : Nat])]
    BY <2>1 DEF FieldInit
  <2> QED
    BY <2>2, GeneratorsAssumption DEF FieldInit, FieldTypes
<1>3. \A s \in AllSeries : SeriesInv(s)
  BY <1>1 DEF SeriesInv
<1>4. \A s \in AllSeries : \A k \in DOMAIN sent[s] : ValueOK(sent[s][k].value, k)
  BY <1>1
<1> QED
  BY <1>2, <1>3, <1>4 DEF FieldInv, FieldInit

\* A step that leaves the series and the configuration alone.
LEMMA FieldStays ==
    ASSUME FieldInv, UNCHANGED <<config, generators, sent, panicked>>, index' \in Nat, epoch' \in Nat
    PROVE  FieldInv'
<1>1. /\ lower' = lower /\ upper' = upper /\ step' = step /\ generators' = generators
      /\ sent' = sent /\ panicked' = panicked
  BY DEF config
<1>2. /\ Validated' <=> Validated
      /\ \A s \in AllSeries : SeriesInv(s)' <=> SeriesInv(s)
      /\ \A s \in AllSeries : \A k \in DOMAIN sent[s] :
            ValueOK(sent[s][k].value, k)' <=> ValueOK(sent[s][k].value, k)
  BY <1>1 DEF Validated, Whole, SeriesInv, ValueOK, Bounded, Nth, Period, Current
<1>3. FieldTypes'
  BY <1>1 DEF FieldInv, FieldTypes
<1> QED
  BY <1>1, <1>2, <1>3 DEF FieldInv

\* What a series with bounds has next: its value is within them, and so is the
\* one its counter is left at.
LEMMA NextWithin ==
    ASSUME FieldTypes, Validated, NEW s \in AllSeries, SeriesInv(s), lower # None
    PROVE  /\ Value(s) \in Int /\ NextValue(s) = Value(s) + step /\ Cut(lower) = lower
           /\ ValueOK(Value(s), Len(sent[s]) + 1)
<1>1. /\ lower \in Int /\ step \in Int /\ step > 0 /\ Whole(lower) /\ upper \in Int \cup {None}
      /\ upper # None => lower <= upper
  BY DEF FieldTypes, Validated
<1>2. Current(s) \in Int
  BY DEF FieldTypes, Current
<1>3. Cut(lower) = lower
  BY <1>1, CutWhole
<1>4. Value(s) \in Int /\ NextValue(s) = Value(s) + step
  BY <1>1, <1>2, <1>3 DEF Value, NextValue
<1>5. lower <= Value(s) /\ (upper # None => Value(s) <= upper)
  BY <1>1, <1>2 DEF Value, AtStart, SeriesInv
<1>6. ASSUME Bounded
      PROVE  Value(s) = Nth(Len(sent[s]) + 1)
  <2> DEFINE n == Len(sent[s])
  <2>1. n \in Nat /\ (sent[s] = <<>> <=> n = 0)
    BY DEF FieldTypes
  <2> HIDE DEF n
  <2>2. Nth(1) = lower /\ lower <= Nth(n + 1)
    <3>1. n + 1 \in Nat \ {0}
      BY <2>1
    <3> QED
      BY <1>6, <3>1, NthNext
  <2>3. CASE sent[s] = <<>>
    <3>1. n + 1 = 1 /\ Current(s) = 0
      BY <1>6, <2>1, <2>3 DEF SeriesInv
    <3> QED
      BY <1>1, <2>2, <3>1 DEF Value, AtStart, n
  <2>4. CASE sent[s] # <<>>
    <3>1. Current(s) = Nth(n + 1)
      BY <1>6, <2>4 DEF SeriesInv, n
    <3>2. lower >= 0
      BY <1>6 DEF Bounded
    <3>3. Current(s) = 0 => lower = 0
      BY <1>1, <1>2, <2>2, <3>1, <3>2
    <3>4. Value(s) = Current(s)
      BY <3>3 DEF Value, AtStart
    <3> QED
      BY <3>1, <3>4 DEF n
  <2> QED
    BY <2>3, <2>4
<1>7. ValueOK(Value(s), Len(sent[s]) + 1)
  BY <1>1, <1>4, <1>5, <1>6 DEF ValueOK
<1> QED
  BY <1>3, <1>4, <1>7

LEMMA GenerateStep ==
    ASSUME FieldInv, Generate
    PROVE  FieldInv'
<1> SUFFICES ASSUME NEW s0, s0 = index
             PROVE  FieldInv'
  OBVIOUS
<1> DEFINE n == Len(sent[s0])
           record == [value |-> Value(s0), epoch |-> IF s0 < Churned THEN epoch ELSE 0]
           left == IF Exceeds(s0) THEN Cut(lower) ELSE NextValue(s0)
<1>1. /\ lower' = lower /\ upper' = upper /\ step' = step /\ epoch' = epoch /\ panicked' = panicked
      /\ index' = index + 1
      /\ generators' = [s \in DOMAIN generators \cup {s0} |-> IF s # s0 THEN generators[s] ELSE left]
      /\ sent' = [sent EXCEPT ![s0] = Append(@, record)]
  BY DEF Generate, config
<1>2. FieldTypes /\ s0 \in AllSeries
  <2>1. FieldTypes
    BY DEF FieldInv
  <2>2. s0 \in Nat /\ s0 < Series
    BY <2>1 DEF FieldTypes, Generate
  <2> QED
    BY <2>1, <2>2, GeneratorsAssumption DEF AllSeries
<1>3. Current(s0) \in Int /\ Value(s0) \in Int \cup {None} /\ left \in Int
  <2>1. Current(s0) \in Int
    BY <1>2 DEF FieldTypes, Current
  <2>2. \A x \in Int : Cut(x) \in Int
    BY GeneratorsAssumption DEF Cut
  <2>3. lower = None => ~Exceeds(s0) /\ ~AtStart(s0)
    BY DEF Generate, AtStart
  <2>4. CASE lower = None
    BY <1>2, <2>1, <2>3, <2>4 DEF FieldTypes, Value, NextValue
  <2>5. CASE lower # None
    <3>1. lower \in Int /\ step \in Int
      BY <1>2, <2>5 DEF FieldTypes
    <3> QED
      BY <2>1, <2>2, <3>1 DEF Value, NextValue
  <2> QED
    BY <2>4, <2>5
<1>4. record \in [value : Int \cup {None}, epoch : Nat]
  BY <1>2, <1>3 DEF FieldTypes
<1>5. /\ n \in Nat /\ sent[s0] \in Seq([value : Int \cup {None}, epoch : Nat])
      /\ sent'[s0] = Append(sent[s0], record) /\ Len(sent'[s0]) = n + 1
      /\ \A s \in AllSeries : s # s0 => sent'[s] = sent[s]
  <2>1. sent \in [AllSeries -> Seq([value : Int \cup {None}, epoch : Nat])]
    BY <1>2 DEF FieldTypes
  <2> HIDE DEF record
  <2>2. /\ sent[s0] \in Seq([value : Int \cup {None}, epoch : Nat])
        /\ sent'[s0] = Append(sent[s0], record)
        /\ \A s \in AllSeries : s # s0 => sent'[s] = sent[s]
    BY <1>1, <1>2, <2>1
  <2> QED
    BY <1>4, <2>2
<1>6. DOMAIN generators' \subseteq AllSeries /\ \A s \in DOMAIN generators' : generators'[s] \in Int
  <2> HIDE DEF left
  <2> QED
    BY <1>1, <1>2, <1>3 DEF FieldTypes
<1>7. /\ Current(s0)' = left
      /\ \A s \in AllSeries : s # s0 => Current(s)' = Current(s)
  <2> HIDE DEF left
  <2> QED
    BY <1>1 DEF Current
<1>8. FieldTypes'
  <2>1. sent' \in [AllSeries -> Seq([value : Int \cup {None}, epoch : Nat])]
    <3>1. sent \in [AllSeries -> Seq([value : Int \cup {None}, epoch : Nat])]
      BY <1>2 DEF FieldTypes
    <3>2. Append(sent[s0], record) \in Seq([value : Int \cup {None}, epoch : Nat])
      BY <1>4, <1>5
    <3> HIDE DEF record
    <3> QED
      BY <1>1, <1>2, <3>1, <3>2
  <2>2. index' \in Nat
    BY <1>1, <1>2 DEF FieldTypes
  <2> QED
    BY <1>1, <1>2, <1>6, <2>1, <2>2 DEF FieldTypes
<1>9. ASSUME Validated
      PROVE  /\ ~panicked'
             /\ \A s \in AllSeries : SeriesInv(s)'
             /\ \A s \in AllSeries : \A k \in DOMAIN sent'[s] : ValueOK(sent[s][k].value, k)'
  <2>1. /\ ~panicked
        /\ \A s \in AllSeries : SeriesInv(s)
        /\ \A s \in AllSeries : \A k \in DOMAIN sent[s] : ValueOK(sent[s][k].value, k)
    BY <1>9 DEF FieldInv
  <2>2. \A s \in AllSeries : s # s0 => SeriesInv(s)'
    BY <1>1, <1>5, <1>7, <2>1 DEF SeriesInv, Bounded, Nth, Period
  <2>3. ValueOK(Value(s0), n + 1)
    BY <1>2, <1>9, <2>1, NextWithin DEF Validated, ValueOK, Bounded
  <2>4. \A s \in AllSeries : \A k \in DOMAIN sent'[s] : ValueOK(sent[s][k].value, k)'
    <3>1. \A v, k : ValueOK(v, k) => lower = lower /\ (lower' = None \/ v >= lower') /\ (upper' = None \/ v <= upper')
                                     /\ (Bounded' => v = Nth(k)')
      BY <1>1 DEF ValueOK, Bounded, Nth, Period
    <3>2. \A s \in AllSeries : \A k \in DOMAIN sent'[s] : ValueOK(sent'[s][k].value, k)
      <4> TAKE s \in AllSeries
      <4>1. CASE s # s0
        BY <1>5, <2>1, <4>1
      <4>2. CASE s = s0
        <5> TAKE k \in DOMAIN sent'[s]
        <5>1. CASE k = n + 1
          <6>1. sent'[s0][k] = record
            BY <1>4, <1>5, <5>1
          <6>2. record.value = Value(s0)
            OBVIOUS
          <6> QED
            BY <2>3, <4>2, <5>1, <6>1, <6>2
        <5>2. CASE k # n + 1
          <6> HIDE DEF record
          <6>1. k \in DOMAIN sent[s0] /\ sent'[s0][k] = sent[s0][k]
            BY <1>4, <1>5, <4>2, <5>2
          <6> QED
            BY <1>2, <2>1, <4>2, <6>1
        <5> QED
          BY <5>1, <5>2
      <4> QED
        BY <4>1, <4>2
    <3> QED
      BY <3>1, <3>2 DEF ValueOK
  <2>5. SeriesInv(s0)'
    <3>1. CASE lower = None
      BY <1>1, <1>9, <3>1 DEF SeriesInv, Validated, Bounded
    <3>2. CASE lower # None
      <4>1. /\ Value(s0) \in Int /\ NextValue(s0) = Value(s0) + step /\ Cut(lower) = lower
        BY <1>2, <1>9, <2>1, <3>2, NextWithin
      <4>2. /\ lower \in Int /\ step \in Int /\ step > 0 /\ upper \in Int \cup {None}
            /\ upper # None => lower <= upper
        BY <1>2, <1>9, <3>2 DEF FieldTypes, Validated
      <4>3. left = IF upper # None /\ Value(s0) + step > upper THEN lower ELSE Value(s0) + step
        BY <4>1 DEF Exceeds
      <4>4. left >= lower /\ (upper # None => left <= upper)
        <5>1. Value(s0) >= lower
          BY <2>3, <3>2 DEF ValueOK
        <5> QED
          BY <4>1, <4>2, <4>3, <5>1
      <4>5. ASSUME Bounded
            PROVE  left = Nth(n + 2)
        <5>1. n + 1 \in Nat \ {0} /\ (n + 1) + 1 = n + 2
          BY <1>5
        <5>2. Nth(n + 2) = IF Nth(n + 1) + step > upper THEN lower ELSE Nth(n + 1) + step
          BY <1>2, <1>9, <4>5, <5>1, NthNext
        <5>3. Value(s0) = Nth(n + 1) /\ upper # None
          BY <2>3, <4>5 DEF ValueOK, Bounded
        <5> QED
          BY <4>3, <5>2, <5>3
      <4>6. Bounded' => left = Nth(Len(sent[s0]) + 1)' /\ sent'[s0] # <<>>
        <5>1. Len(sent'[s0]) + 1 = n + 2 /\ sent'[s0] # <<>>
          BY <1>4, <1>5
        <5>2. Bounded' => Bounded
          BY <1>1 DEF Bounded
        <5>3. Nth(n + 2) = lower + (((n + 2) - 1) % Period) * step
          BY DEF Nth
        <5>4. lower' + (((Len(sent'[s0]) + 1) - 1) % Period') * step' = Nth(n + 2)
          BY <1>1, <5>1 DEF Nth, Period
        <5> QED
          BY <4>5, <5>1, <5>2, <5>4 DEF Nth
      <4> QED
        BY <1>1, <1>7, <4>4, <4>6 DEF SeriesInv
    <3> QED
      BY <3>1, <3>2
  <2> QED
    BY <1>1, <2>1, <2>2, <2>4, <2>5
<1> QED
  BY <1>1, <1>8, <1>9 DEF FieldInv, Validated, Whole

\* The lower bound of a distribution the validation accepts is there when its
\* upper one is: the reset is never to one that is nil.
LEMMA FieldStep == FieldInv /\ [FieldNext]_fieldVars => FieldInv'
<1> SUFFICES ASSUME FieldInv, [FieldNext]_fieldVars
             PROVE  FieldInv'
  OBVIOUS
<1>1. index \in Nat /\ epoch \in Nat
  BY DEF FieldInv, FieldTypes
<1>2. CASE Generate
  BY <1>2, GenerateStep
<1>3. CASE Panic
  <2>1. /\ ~Validated /\ lower' = lower /\ upper' = upper /\ step' = step /\ generators' = generators
        /\ index' = index /\ epoch' = epoch /\ sent' = sent
    BY <1>3 DEF Panic, Exceeds, Validated, config
  <2>2. ~Validated'
    BY <2>1 DEF Validated, Whole
  <2>3. FieldTypes'
    BY <2>1 DEF FieldInv, FieldTypes
  <2> QED
    BY <2>2, <2>3 DEF FieldInv
<1>4. CASE NextWave
  <2>1. epoch' \in Nat /\ index' \in Nat
    BY <1>1, <1>4, GeneratorsAssumption DEF NextWave
  <2> QED
    BY <1>4, <2>1, FieldStays DEF NextWave
<1>5. CASE UNCHANGED fieldVars
  BY <1>1, <1>5, FieldStays DEF fieldVars
<1> QED
  BY <1>2, <1>3, <1>4, <1>5 DEF FieldNext

\* The counter of each series is always where the number of its waves says, for
\* any bounds the configuration may have and however the epochs go
\* (FileConfig.FieldGenerators, MonoInc.Next).
THEOREM FieldInvariance == FieldSpec => []FieldInv
<1> QED
  BY FieldStart, FieldStep, PTL DEF FieldSpec

\* A distribution that validateField accepts never makes Next panic, keeps every
\* value within its bounds, and gives each wave of a bounded counter the value
\* of its number.
THEOREM ValuesAreValid == FieldSpec => []ValidatedValues
<1>1. FieldInv => ValidatedValues
  BY DEF FieldInv, ValidatedValues, ValueOK, Bounded, Nth, Period
<1> QED
  BY <1>1, FieldInvariance, PTL

-----------------------------------------------------------------------------
(* config_modifier.                                                          *)

\* A file as ModifyFile leaves it, and as it is written.
ModifiedTags(file, ndv) == SetReplicas(file.name, Assign(file.tags), ndv)
Changed(file, ndv) == [name |-> file.name, tags |-> ModifiedTags(file, ndv)]
WrittenFile(file) == [name |-> file.name, tags |-> Serialized(file.tags)]

FilesFit ==
    /\ directory \in Directories
    /\ flagCounts \in FlagValues
    /\ modified \in 0..Len(directory)
    /\ written \in 0..Len(directory)
    /\ modifierPc \in {"reading", "modifying", "writing", "done", "failed"}
    /\ DOMAIN configs = DOMAIN directory /\ Len(configs) = Len(directory)

\* The pointers that remain in other tags than the count labels lead to numbers of
\* the files, so nothing is ever written to the variables of the flags.
FlagsKept == numbers = flagCounts

\* One number of distinct values for each file.
ModifiedAlone ==
    \A f \in DOMAIN directory :
        LET file == directory[f]
        IN  IF f > modified THEN configs[f] = file
            ELSE /\ AllGenerate(Assign(file.tags), flagCounts)
                 /\ \E ndv \in NDVs(file.name, Len(file.tags)) : configs[f] = Changed(file, ndv)

WrittenInv ==
    /\ modifierPc \in {"writing", "done"} \/ written > 0 => modified = Len(directory)
    /\ modifierPc = "done" => written = Len(directory)
    /\ \A file \in output :
          \E f \in 1..written : /\ file = WrittenFile(configs[f])
                                /\ \A g \in 1..written : g > f => configs[g].name # file.name
    /\ \A f \in 1..written : \E file \in output : file.name = configs[f].name

ModifierInv == FilesFit /\ FlagsKept /\ ModifiedAlone /\ WrittenInv

\* The files of a directory and their tags.
LEMMA DirectoryFacts ==
    ASSUME directory \in Directories
    PROVE  /\ Len(directory) \in Nat /\ DOMAIN directory = 1..Len(directory)
           /\ \A f \in DOMAIN directory :
                 LET file == directory[f]
                 IN  /\ IsFile(file)
                     /\ Len(file.tags) \in Nat /\ DOMAIN file.tags = 1..Len(file.tags)
                     /\ \A i \in DOMAIN file.tags : IsTag(file.tags[i])
<1>1. directory \in Seq(ToSet(directory)) /\ \A file \in ToSet(directory) : IsFile(file)
  BY ModifierAssumption
<1>2. \A f \in DOMAIN directory : IsFile(directory[f])
  BY <1>1 DEF ToSet
<1>3. ASSUME NEW f \in DOMAIN directory
      PROVE  /\ Len(directory[f].tags) \in Nat /\ DOMAIN directory[f].tags = 1..Len(directory[f].tags)
             /\ \A i \in DOMAIN directory[f].tags : IsTag(directory[f].tags[i])
  <2>1. directory[f].tags \in Seq(ToSet(directory[f].tags))
        /\ \A tag \in ToSet(directory[f].tags) : IsTag(tag)
    BY <1>2 DEF IsFile
  <2>2. \A i \in DOMAIN directory[f].tags : IsTag(directory[f].tags[i])
    BY <2>1 DEF ToSet
  <2> QED
    BY <2>1, <2>2
<1> QED
  BY <1>1, <1>2, <1>3

\* A tag that SetReplicas may change has no pointer to a flag.
LEMMA NoFlagChanged ==
    ASSUME NEW tag, IsTag(tag), NEW name, Modifies(name, Assigned(tag)), NEW l
    PROVE  Assigned(tag).dist # Replicas(Flag(l))
<1>1. tag = [label |-> tag.label, dist |-> tag.dist] /\ IsRead(tag.dist)
  BY DEF IsTag
<1>2. Assigned(tag).label = tag.label
  BY <1>1 DEF Assigned
<1>3. tag.label \notin CountLabels
  BY <1>2 DEF Modifies, QueryLabels
<1>4. CASE tag.label \in FixedLabels
  <2>1. Assigned(tag).dist = Constant(tag.label)
    BY <1>1, <1>3, <1>4 DEF Assigned
  <2> QED
    BY <2>1 DEF Constant, Replicas
<1>5. CASE tag.label \notin FixedLabels
  <2>1. Assigned(tag).dist = tag.dist
    BY <1>3, <1>5 DEF Assigned
  <2>2. \A n : Replicas(Own(n)) # Replicas(Flag(l))
    <3>1. \A n : Own(n) # Flag(l)
      BY DEF Own, Flag
    <3>2. \A p : Replicas(p).replica = p
      BY DEF Replicas
    <3> QED
      BY <3>1, <3>2
  <2>3. \A v : Constant(v) # Replicas(Flag(l)) /\ Weighted(v) # Replicas(Flag(l)) /\ Invalid # Replicas(Flag(l))
    BY DEF Constant, Weighted, Invalid, Replicas
  <2> QED
    BY <1>1, <2>1, <2>2, <2>3 DEF IsRead
<1> QED
  BY <1>4, <1>5

LEMMA FlagsStay ==
    ASSUME NEW file, IsFile(file), NEW ndv, flagCounts \in FlagValues, FlagsKept
    PROVE  SetFlags(file.name, Assign(file.tags), ndv) = numbers
<1> DEFINE taken == Assign(file.tags)
<1>1. /\ DOMAIN taken = DOMAIN file.tags
      /\ \A i \in DOMAIN taken : taken[i] = Assigned(file.tags[i]) /\ IsTag(file.tags[i])
  BY DEF Assign, IsFile, ToSet
<1> HIDE DEF taken
<1>2. \A l \in CountLabels, i \in DOMAIN taken : Modifies(file.name, taken[i]) => taken[i].dist # Replicas(Flag(l))
  BY <1>1, NoFlagChanged
<1>3. numbers \in [CountLabels -> Int]
  BY ModifierAssumption DEF FlagsKept
<1>4. SetFlags(file.name, taken, ndv) = [l \in CountLabels |-> numbers[l]]
  BY <1>2 DEF SetFlags
<1> QED
  BY <1>3, <1>4 DEF taken

LEMMA ModifierStarted == ModifierInit => ModifierInv
<1> SUFFICES ASSUME ModifierInit
             PROVE  ModifierInv
  OBVIOUS
<1>1. /\ directory \in Directories /\ flagCounts \in FlagValues /\ numbers = flagCounts
      /\ configs = directory /\ modified = 0 /\ written = 0 /\ output = {} /\ modifierPc = "reading"
  BY DEF ModifierInit, ModifierStart
<1>2. Len(directory) \in Nat /\ DOMAIN directory = 1..Len(directory)
  BY <1>1, DirectoryFacts
<1>3. FilesFit
  BY <1>1, <1>2 DEF FilesFit
<1>4. ModifiedAlone
  BY <1>1, <1>2 DEF ModifiedAlone
<1>5. WrittenInv
  <2>1. 1..written = {}
    BY <1>1
  <2> QED
    BY <1>1, <2>1 DEF WrittenInv
<1> QED
  BY <1>1, <1>3, <1>4, <1>5 DEF ModifierInv, FlagsKept

LEMMA ModifyFileStep ==
    ASSUME ModifierInv, ModifyFile
    PROVE  ModifierInv'
<1> DEFINE m == modified + 1
           file == directory[m]
           taken == Assign(file.tags)
<1>1. /\ FilesFit /\ FlagsKept /\ ModifiedAlone /\ WrittenInv
      /\ modifierPc = "modifying" /\ modifierPc' = modifierPc /\ modified < Len(configs) /\ modified' = m
      /\ directory' = directory /\ targetSeries' = targetSeries /\ flagCounts' = flagCounts
      /\ written' = written /\ output' = output
  BY DEF ModifierInv, ModifyFile, modifierInput
<1>2. /\ Len(directory) \in Nat /\ DOMAIN directory = 1..Len(directory) /\ modified \in Nat
      /\ m \in DOMAIN directory /\ IsFile(file) /\ DOMAIN configs = DOMAIN directory
      /\ DOMAIN file.tags = 1..Len(file.tags) /\ Len(file.tags) \in Nat
  BY <1>1, DirectoryFacts DEF FilesFit
<1>3. NextConfig = file /\ file = [name |-> file.name, tags |-> file.tags]
  BY <1>1, <1>2 DEF ModifiedAlone, NextConfig, IsFile
<1>4. Len(taken) = Len(file.tags)
  <2>1. DOMAIN taken = 1..Len(file.tags)
    BY <1>2 DEF Assign
  <2>2. taken = [i \in 1..Len(file.tags) |-> Assigned(file.tags[i])]
    BY <1>2 DEF Assign
  <2> DEFINE n == Len(file.tags)
             t == taken
  <2>3. n \in Nat /\ t = [i \in 1..n |-> Assigned(file.tags[i])]
    BY <1>2, <2>2
  <2> HIDE DEF n, t, taken, file
  <2>4. Len(t) = n
    BY <2>3
  <2> QED
    BY <2>4 DEF n, t
<1>5. PICK ndv \in NDVs(file.name, Len(file.tags)) :
         /\ AllGenerate(taken, flagCounts)
         /\ numbers' = SetFlags(file.name, taken, ndv)
         /\ configs' = [configs EXCEPT ![m].tags = SetReplicas(file.name, taken, ndv)]
  <2>1. numbers = flagCounts
    BY <1>1 DEF FlagsKept
  <2> HIDE DEF file
  <2> QED
    BY <1>3, <1>4, <2>1 DEF ModifyFile
<1>6. FlagsKept'
  BY <1>1, <1>2, <1>5, FlagsStay DEF FlagsKept, FilesFit
<1>7. /\ DOMAIN configs' = DOMAIN configs /\ configs'[m] = Changed(file, ndv)
      /\ \A f \in DOMAIN directory : f # m => configs'[f] = configs[f]
  <2>1. configs[m] = file
    BY <1>1, <1>2 DEF ModifiedAlone
  <2> DEFINE x == SetReplicas(file.name, taken, ndv)
  <2>2. configs' = [configs EXCEPT ![m] = [@ EXCEPT !.tags = x]]
    BY <1>5
  <2>3. [file EXCEPT !.tags = x] = [name |-> file.name, tags |-> x]
    <3> HIDE DEF x
    <3>1. \A y, z : [[name |-> y, tags |-> z] EXCEPT !.tags = x] = [name |-> y, tags |-> x]
      OBVIOUS
    <3> HIDE DEF file
    <3> QED
      BY <1>3, <3>1
  <2> HIDE DEF x, m
  <2>4. DOMAIN configs' = DOMAIN configs /\ configs'[m] = [file EXCEPT !.tags = x]
        /\ \A f \in DOMAIN directory : f # m => configs'[f] = configs[f]
    BY <1>2, <2>1, <2>2
  <2> QED
    BY <2>3, <2>4 DEF Changed, ModifiedTags, x
<1>8. Len(configs') = Len(directory)
  <2> DEFINE n == Len(directory)
  <2>1. n \in Nat /\ DOMAIN configs' = 1..n
    BY <1>2, <1>7
  <2> HIDE DEF n
  <2>2. Len(configs') = n
    BY <2>1
  <2> QED
    BY <2>2 DEF n
<1>9. FilesFit'
  BY <1>1, <1>2, <1>7, <1>8 DEF FilesFit
<1>10. ModifiedAlone'
  <2>1. \A name, n : NDVs(name, n)' = NDVs(name, n)
    BY <1>1 DEF NDVs
  <2>2. \A f \in DOMAIN directory :
           IF f > m THEN configs'[f] = directory[f]
           ELSE /\ AllGenerate(Assign(directory[f].tags), flagCounts)
                /\ \E k \in NDVs(directory[f].name, Len(directory[f].tags)) : configs'[f] = Changed(directory[f], k)
    <3> TAKE f \in DOMAIN directory
    <3>1. CASE f = m
      BY <1>2, <1>5, <1>7, <3>1
    <3>2. CASE f # m
      <4>1. configs'[f] = configs[f] /\ (f > m <=> f > modified)
        BY <1>2, <1>7, <3>2
      <4> QED
        BY <1>1, <4>1 DEF ModifiedAlone
    <3> QED
      BY <3>1, <3>2
  <2>3. Len(directory') = Len(directory) /\ \A f, k : Changed(f, k)' = Changed(f, k)
    BY <1>1 DEF Changed, ModifiedTags, SetReplicas
  <2> QED
    BY <1>1, <2>1, <2>2, <2>3 DEF ModifiedAlone
<1>11. WrittenInv'
  <2>1. written = 0 /\ 1..written = {}
    <3>1. written \in Nat /\ Len(configs) = Len(directory)
      BY <1>1, <1>2 DEF FilesFit
    <3>2. written > 0 => modified = Len(directory)
      BY <1>1 DEF WrittenInv
    <3>3. modified # Len(directory)
      <4>1. modified < Len(configs) /\ modified \in Nat
        BY <1>1, <1>2
      <4> QED
        BY <3>1, <4>1
    <3>4. written = 0
      BY <3>1, <3>2, <3>3
    <3> QED
      BY <3>4
  <2> QED
    BY <1>1, <2>1 DEF WrittenInv
<1> QED
  BY <1>6, <1>9, <1>10, <1>11 DEF ModifierInv

\* A step that leaves the files in memory and those written alone.
LEMMA ModifierStays ==
    ASSUME ModifierInv, UNCHANGED <<modifierInput, numbers, configs, modified, written, output>>,
           modifierPc' \in {"reading", "modifying", "writing", "done", "failed"},
           modifierPc' \in {"writing", "done"} => modified = Len(directory),
           modifierPc' = "done" => written = Len(directory)
    PROVE  ModifierInv'
<1>1. /\ directory' = directory /\ targetSeries' = targetSeries /\ flagCounts' = flagCounts
      /\ numbers' = numbers /\ configs' = configs /\ modified' = modified
      /\ written' = written /\ output' = output
  BY DEF modifierInput
<1>2. FilesFit' /\ FlagsKept'
  BY <1>1 DEF ModifierInv, FilesFit, FlagsKept
<1>3. ModifiedAlone'
  <2>1. /\ \A name, n : NDVs(name, n)' = NDVs(name, n)
        /\ \A f, k : Changed(f, k)' = Changed(f, k)
    BY <1>1 DEF NDVs, Changed, ModifiedTags, SetReplicas
  <2> QED
    BY <1>1, <2>1 DEF ModifierInv, ModifiedAlone
<1>4. WrittenInv'
  <2>1. \A f : WrittenFile(f)' = WrittenFile(f)
    BY <1>1 DEF WrittenFile, Serialized
  <2>2. WrittenInv
    BY DEF ModifierInv
  <2> QED
    BY <1>1, <2>1, <2>2 DEF WrittenInv
<1> QED
  BY <1>2, <1>3, <1>4 DEF ModifierInv

LEMMA WriteConfigStep ==
    ASSUME ModifierInv, WriteConfig
    PROVE  ModifierInv'
<1> DEFINE w == written + 1
           this == configs[w]
<1>1. /\ FilesFit /\ FlagsKept /\ ModifiedAlone /\ WrittenInv
      /\ modifierPc = "writing" /\ modifierPc' = modifierPc /\ written < Len(configs) /\ modified' = modified
      /\ directory' = directory /\ targetSeries' = targetSeries /\ flagCounts' = flagCounts
      /\ numbers' = numbers /\ configs' = configs /\ written' = w
      /\ output' = {file \in output : file.name # this.name} \cup {WrittenFile(this)}
  BY DEF ModifierInv, WriteConfig, modifierInput, WrittenFile
<1>2. /\ Len(directory) \in Nat /\ written \in Nat /\ Len(configs) = Len(directory)
      /\ w \in 0..Len(directory)
  BY <1>1, DirectoryFacts DEF FilesFit
<1>3. FilesFit' /\ FlagsKept'
  BY <1>1, <1>2 DEF FilesFit, FlagsKept
<1>4. ModifiedAlone'
  <2>1. /\ \A name, n : NDVs(name, n)' = NDVs(name, n)
        /\ \A f, k : Changed(f, k)' = Changed(f, k)
    BY <1>1 DEF NDVs, Changed, ModifiedTags, SetReplicas
  <2> QED
    BY <1>1, <2>1 DEF ModifiedAlone
<1>5. WrittenInv'
  <2>1. \A f : WrittenFile(f)' = WrittenFile(f) /\ WrittenFile(f).name = f.name
    BY <1>1 DEF WrittenFile, Serialized
  <2>2. modified' = Len(directory')
    BY <1>1 DEF WrittenInv
  <2>3. \A f : f \in 1..w <=> f \in 1..written \/ f = w
    BY <1>2
  <2>4. \A g \in 1..w : g > w => FALSE
    BY <1>2
  <2>5. ASSUME NEW file \in output'
        PROVE  \E f \in 1..w : /\ file = WrittenFile(configs[f])
                               /\ \A g \in 1..w : g > f => configs[g].name # file.name
    <3>1. CASE file = WrittenFile(this)
      <4>1. w \in 1..w
        BY <1>2
      <4> QED
        BY <2>4, <3>1, <4>1
    <3>2. CASE file \in output /\ file.name # this.name
      <4>1. PICK f \in 1..written : /\ file = WrittenFile(configs[f])
                                    /\ \A g \in 1..written : g > f => configs[g].name # file.name
        BY <1>1, <3>2 DEF WrittenInv
      <4>2. \A g \in 1..w : g > f => configs[g].name # file.name
        BY <2>3, <3>2, <4>1
      <4> QED
        BY <2>3, <4>1, <4>2
    <3> QED
      BY <1>1, <3>1, <3>2
  <2>6. ASSUME NEW f \in 1..w
        PROVE  \E file \in output' : file.name = configs[f].name
    <3>1. WrittenFile(this) \in output' /\ WrittenFile(this).name = this.name
      BY <1>1, <2>1
    <3>2. CASE configs[f].name = this.name
      BY <3>1, <3>2
    <3>3. CASE configs[f].name # this.name
      <4>1. f \in 1..written
        BY <2>3, <3>3
      <4>2. PICK file \in output : file.name = configs[f].name
        BY <1>1, <4>1 DEF WrittenInv
      <4> QED
        BY <1>1, <3>3, <4>2
    <3> QED
      BY <3>2, <3>3
  <2> HIDE DEF w, this
  <2>7. \A file \in output' :
           \E f \in 1..written' : /\ file = WrittenFile(configs[f])'
                                  /\ \A g \in 1..written' : g > f => configs'[g].name # file.name
    BY <1>1, <2>5 DEF WrittenFile, Serialized
  <2> QED
    BY <1>1, <2>2, <2>6, <2>7 DEF WrittenInv
<1> QED
  BY <1>3, <1>4, <1>5 DEF ModifierInv

LEMMA ModifierStep == ModifierInv /\ [ModifierNext]_modifierVars => ModifierInv'
<1> SUFFICES ASSUME ModifierInv, [ModifierNext]_modifierVars
             PROVE  ModifierInv'
  OBVIOUS
<1>1. /\ modifierPc \in {"reading", "modifying", "writing", "done", "failed"}
      /\ modifierPc \in {"writing", "done"} => modified = Len(directory)
      /\ modifierPc = "done" => written = Len(directory)
      /\ Len(configs) = Len(directory)
  BY DEF ModifierInv, FilesFit, WrittenInv
<1>2. CASE ReadConfigs
  BY <1>2, ModifierStays DEF ReadConfigs
<1>3. CASE ReadConfigsFails
  BY <1>3, ModifierStays DEF ReadConfigsFails
<1>4. CASE ModifyFile
  BY <1>4, ModifyFileStep
<1>5. CASE ModifyFails
  BY <1>5, ModifierStays DEF ModifyFails
<1>6. CASE MakeOutput
  BY <1>1, <1>6, ModifierStays DEF MakeOutput
<1>7. CASE WriteConfig
  BY <1>7, WriteConfigStep
<1>8. CASE WriteConfigFails
  BY <1>8, ModifierStays DEF WriteConfigFails
<1>9. CASE WriteEnds
  BY <1>1, <1>9, ModifierStays DEF WriteEnds
<1>10. CASE UNCHANGED modifierVars
  BY <1>1, <1>10, ModifierStays DEF modifierVars
<1> QED
  BY <1>2, <1>3, <1>4, <1>5, <1>6, <1>7, <1>8, <1>9, <1>10 DEF ModifierNext

\* However the files share the variables of the flags, what each of them is modified
\* to depends on it alone (ConfigModifier.run).
THEOREM ModifierInvariance == ModifierSpec => []ModifierInv
<1> QED
  BY ModifierStarted, ModifierStep, PTL DEF ModifierSpec

\* A tag that was modified, written.
LEMMA WrittenTag ==
    ASSUME FlagsKept, NEW tag, IsTag(tag), Generates(Assigned(tag).dist, flagCounts), NEW name, NEW ndv,
           NEW a, a = Assigned(tag),
           NEW b, b = IF Modifies(name, a) THEN SetOwn(SetPreset(a, ndv), ndv) ELSE a
    PROVE  [b EXCEPT !.dist = Dereferenced(@, numbers)]
              = [label |-> tag.label, dist |-> Expected(name, tag, ndv)]
<1> DEFINE l == tag.label
           d == tag.dist
<1>1. tag = [label |-> l, dist |-> d] /\ IsRead(d)
  BY DEF IsTag
<1>2. PICK e : a = [label |-> l, dist |-> e] /\ e = (IF l \in CountLabels THEN Replicas(Flag(l))
                                                     ELSE IF l \in FixedLabels THEN Constant(l) ELSE d)
  <2> HIDE DEF l, d
  <2>1. \A x : [[label |-> l, dist |-> d] EXCEPT !.dist = x] = [label |-> l, dist |-> x]
    OBVIOUS
  <2>2. tag.label = l
    BY DEF l
  <2> QED
    BY <1>1, <2>1, <2>2 DEF Assigned
<1>3. a.label = l /\ a.dist = e
  BY <1>2
<1>4. Modifies(name, a) <=> Modifies(name, tag)
  BY <1>3 DEF Modifies
<1> HIDE DEF l, d
<1>5. \A x : [[label |-> l, dist |-> e] EXCEPT !.dist = x] = [label |-> l, dist |-> x]
  OBVIOUS
<1>6. /\ \A p : Replicas(p).type = "replica_string" /\ Replicas(p).replica = p
      /\ \A v : Constant(v).type = "constant_string"
      /\ \A v : Weighted(v).type = "weighted_preset" /\ Weighted(v).values = v
      /\ Invalid.type = "invalid"
      /\ \A n : Own(n)[1] = "own" /\ Own(n)[2] = n
      /\ \A x : Flag(x)[1] = "flag" /\ Flag(x)[2] = x
  BY DEF Replicas, Constant, Weighted, Invalid, Own, Flag
<1>7. \A x : [[label |-> l, dist |-> x] EXCEPT !.dist = Dereferenced(@, numbers)]
                = [label |-> l, dist |-> Dereferenced(x, numbers)]
  OBVIOUS
<1> SUFFICES \E x : b = [label |-> l, dist |-> x] /\ Dereferenced(x, numbers) = Expected(name, tag, ndv)
  <2>1. tag.label = l
    BY DEF l
  <2> HIDE DEF Dereferenced
  <2> QED
    BY <1>7, <2>1
<1>8. /\ \A n : Dereferenced(Replicas(Own(n)), numbers) = Replicas(Own(n))
      /\ \A v : Dereferenced(Constant(v), numbers) = Constant(v)
      /\ \A v : Dereferenced(Weighted(v), numbers) = Weighted(v)
      /\ Dereferenced(Invalid, numbers) = Invalid
      /\ Dereferenced(Replicas(Flag(l)), numbers) = Replicas(Own(numbers[l]))
  BY <1>6 DEF Dereferenced, Number
<1>9. CASE l \in CountLabels
  <2>1. ~Modifies(name, a)
    BY <1>3, <1>9 DEF Modifies, QueryLabels
  <2>2. Expected(name, tag, ndv) = Replicas(Own(numbers[l]))
    BY <1>9 DEF Expected, FlagsKept, l
  <2> QED
    BY <1>2, <1>8, <1>9, <2>1, <2>2
<1>10. CASE l \notin CountLabels /\ l \in FixedLabels
  <2>1. SetOwn(SetPreset(a, ndv), ndv) = a
    BY <1>2, <1>3, <1>6, <1>10 DEF SetOwn, SetPreset
  <2>2. Expected(name, tag, ndv) = Constant(l)
    BY <1>10 DEF Expected, l
  <2>3. b = a
    BY <2>1
  <2> QED
    BY <1>2, <1>8, <1>10, <2>2, <2>3
<1>11. CASE l \notin CountLabels /\ l \notin FixedLabels /\ ~Modifies(name, a)
  <2>1. Expected(name, tag, ndv) = d
    BY <1>4, <1>11 DEF Expected, l, d
  <2>2. Dereferenced(d, numbers) = d
    BY <1>1, <1>8 DEF IsRead
  <2> QED
    BY <1>2, <1>11, <2>1, <2>2
<1>12. CASE l \notin CountLabels /\ l \notin FixedLabels /\ Modifies(name, a)
  <2>1. e = d /\ d.type # "invalid" /\ b = SetOwn(SetPreset(a, ndv), ndv)
    BY <1>2, <1>3, <1>12 DEF Generates
  <2>2. Expected(name, tag, ndv) =
           IF d.type = "constant_string" THEN d
           ELSE IF d.type = "replica_string" THEN Replicas(Own(ndv))
           ELSE Weighted([i \in 1..Min({ndv, Len(d.values)}) |-> <<l, i - 1>>])
    BY <1>4, <1>12 DEF Expected, l, d
  <2>3. CASE d = Constant(d.value)
    <3>1. b = a
      BY <1>3, <1>6, <2>1, <2>3 DEF SetOwn, SetPreset
    <3>2. d.type = "constant_string" /\ Dereferenced(d, numbers) = d
      BY <1>6, <1>8, <2>3
    <3> QED
      BY <1>2, <2>1, <2>2, <3>1, <3>2
  <2>4. CASE d = Replicas(Own(d.replica[2]))
    <3>1. d.type = "replica_string" /\ d.replica[1] = "own"
      BY <1>6, <2>4
    <3>2. SetPreset(a, ndv) = a
      BY <1>3, <2>1, <3>1 DEF SetPreset
    <3>3. b = [a EXCEPT !.dist.replica = Own(ndv)]
      BY <1>3, <2>1, <3>1, <3>2 DEF SetOwn
    <3>4. \A p, q : [[label |-> l, dist |-> Replicas(p)] EXCEPT !.dist.replica = q] = [label |-> l, dist |-> Replicas(q)]
      BY DEF Replicas
    <3>5. b = [label |-> l, dist |-> Replicas(Own(ndv))]
      BY <1>2, <2>1, <2>4, <3>3, <3>4
    <3> QED
      BY <1>8, <2>2, <3>1, <3>5
  <2>5. CASE d = Weighted(d.values)
    <3> DEFINE v == [i \in 1..Min({ndv, Len(d.values)}) |-> <<l, i - 1>>]
    <3>1. d.type = "weighted_preset"
      BY <1>6, <2>5
    <3>2. SetPreset(a, ndv) = [a EXCEPT !.dist.values = v]
      BY <1>3, <2>1, <3>1 DEF SetPreset
    <3>3. \A p, q : [[label |-> l, dist |-> Weighted(p)] EXCEPT !.dist.values = q] = [label |-> l, dist |-> Weighted(q)]
      BY DEF Weighted
    <3> HIDE DEF v
    <3>4. SetPreset(a, ndv) = [label |-> l, dist |-> Weighted(v)]
      BY <1>2, <2>1, <2>5, <3>2, <3>3
    <3>5. b = [label |-> l, dist |-> Weighted(v)]
      BY <1>6, <2>1, <3>4 DEF SetOwn
    <3>6. Expected(name, tag, ndv) = Weighted(v)
      BY <2>2, <3>1 DEF v
    <3> QED
      BY <1>8, <3>5, <3>6
  <2> QED
    BY <1>1, <1>6, <2>1, <2>3, <2>4, <2>5 DEF IsRead
<1> QED
  BY <1>9, <1>10, <1>11, <1>12

\* A file that was modified, written: each tag is what is expected of it.
LEMMA WrittenAlone ==
    ASSUME ModifierInv, NEW f \in DOMAIN directory, f <= modified
    PROVE  LET file == WrittenFile(configs[f])
           IN  /\ configs[f].name = directory[f].name /\ file.name = directory[f].name
               /\ Len(file.tags) = Len(directory[f].tags) /\ DOMAIN file.tags = DOMAIN directory[f].tags
               /\ \E ndv \in NDVs(directory[f].name, Len(directory[f].tags)) :
                     \A i \in DOMAIN file.tags :
                        file.tags[i] = [label |-> directory[f].tags[i].label,
                                        dist |-> Expected(directory[f].name, directory[f].tags[i], ndv)]
<1> DEFINE file == directory[f]
           old == file.tags
           n == Len(old)
<1>1. FlagsKept /\ ModifiedAlone /\ directory \in Directories /\ modified \in Nat /\ f \in Nat
  BY DirectoryFacts DEF ModifierInv, FilesFit
<1>2. n \in Nat /\ DOMAIN old = 1..n /\ \A i \in 1..n : IsTag(old[i])
  BY <1>1, DirectoryFacts
<1>3. PICK ndv \in NDVs(file.name, n) : configs[f] = Changed(file, ndv)
  BY <1>1 DEF ModifiedAlone
<1>4. AllGenerate(Assign(old), flagCounts)
  BY <1>1 DEF ModifiedAlone
<1> DEFINE taken == ModifiedTags(file, ndv)
           final == Serialized(taken)
<1>5. configs[f].name = file.name /\ configs[f].tags = taken
  BY <1>3 DEF Changed
<1>6. WrittenFile(configs[f]).name = file.name /\ WrittenFile(configs[f]).tags = final
  BY <1>5 DEF WrittenFile
<1>7. /\ DOMAIN taken = 1..n
      /\ \A i \in 1..n :
            taken[i] = IF Modifies(file.name, Assigned(old[i]))
                      THEN SetOwn(SetPreset(Assigned(old[i]), ndv), ndv) ELSE Assigned(old[i])
  BY <1>2 DEF ModifiedTags, SetReplicas, Assign
<1>8. \A i \in 1..n : Generates(Assigned(old[i]).dist, flagCounts)
  BY <1>2, <1>4 DEF AllGenerate, Assign
<1> HIDE DEF taken, old, n
<1>9. /\ final = [i \in 1..n |-> [taken[i] EXCEPT !.dist = Dereferenced(@, numbers)]]
      /\ DOMAIN final = 1..n /\ Len(final) = n
  <2>1. final = [i \in 1..n |-> [taken[i] EXCEPT !.dist = Dereferenced(@, numbers)]]
    BY <1>7 DEF Serialized
  <2> HIDE DEF final
  <2> QED
    BY <1>2, <2>1
<1>10. \A i \in 1..n : final[i] = [label |-> old[i].label, dist |-> Expected(file.name, old[i], ndv)]
  <2> TAKE i \in 1..n
  <2> DEFINE b == taken[i]
  <2>1. [b EXCEPT !.dist = Dereferenced(@, numbers)]
           = [label |-> old[i].label, dist |-> Expected(file.name, old[i], ndv)]
    <3>1. b = IF Modifies(file.name, Assigned(old[i]))
              THEN SetOwn(SetPreset(Assigned(old[i]), ndv), ndv) ELSE Assigned(old[i])
      BY <1>7
    <3> HIDE DEF b
    <3> QED
      BY <1>1, <1>2, <1>8, <3>1, WrittenTag
  <2> QED
    BY <1>9, <2>1
<1> HIDE DEF final
<1>11. /\ Len(final) = Len(old) /\ DOMAIN final = DOMAIN old
       /\ \E k \in NDVs(file.name, Len(old)) :
             \A i \in DOMAIN final :
                final[i] = [label |-> old[i].label, dist |-> Expected(file.name, old[i], k)]
  BY <1>2, <1>3, <1>9, <1>10 DEF n
<1> QED
  BY <1>5, <1>6, <1>11, Zenon DEF old

LEMMA UpTo ==
  ASSUME NEW n \in Nat, NEW w \in Nat, w <= n, NEW f \in 1..w
  PROVE  w > 0 /\ f \in 1..n /\ f \in Nat /\ f <= n
OBVIOUS

\* config_modifier writes each file as if it were the only one and its distributions
\* were values of its own, whatever the other files and the flags are; it writes
\* nothing before all of them could be modified, and in the end the last of each
\* name.
THEOREM FilesStayIndependent == ModifierSpec => []FilesIndependent
<1>1. ModifierInv => FilesIndependent
  <2> SUFFICES ASSUME ModifierInv
               PROVE  FilesIndependent
    OBVIOUS
  <2>1. directory \in Directories /\ written \in 0..Len(directory)
    BY DEF ModifierInv, FilesFit
  <2>2. Len(directory) \in Nat /\ DOMAIN directory = 1..Len(directory)
    BY <2>1, DirectoryFacts
  <2>3. written \in Nat /\ Len(directory) \in Nat /\ written <= Len(directory)
    BY <2>1, <2>2
  <2>4. modifierPc = "done" => written = Len(directory)
    BY DEF ModifierInv, WrittenInv
  <2>5. written > 0 => modified = Len(directory)
    BY DEF ModifierInv, WrittenInv
  <2>6. \A file \in output : \E f \in 1..written :
           /\ file = WrittenFile(configs[f])
           /\ \A g \in 1..written : g > f => configs[g].name # file.name
    BY DEF ModifierInv, WrittenInv
  <2>7. \A f \in 1..written : \E file \in output : file.name = configs[f].name
    BY DEF ModifierInv, WrittenInv
  <2>8. \A f \in 1..written : f \in DOMAIN directory /\ f <= modified /\ configs[f].name = directory[f].name
    <3>1. ASSUME NEW f \in 1..written
          PROVE  f \in DOMAIN directory /\ f <= modified
      <4>1. written > 0 /\ f \in 1..Len(directory) /\ f <= Len(directory)
        BY <2>3, UpTo
      <4> QED
        BY <2>5, <2>2, <4>1
    <3> QED
      BY <3>1, WrittenAlone
  <2>9. output # {} => modified = Len(directory)
    <3>1. ASSUME output # {}
          PROVE  written > 0
      <4>1. PICK f \in 1..written : TRUE
        BY <2>6, <3>1
      <4> QED
        BY <2>3, <4>1, UpTo
    <3> QED
      BY <2>5, <3>1
  <2>10. ASSUME NEW file \in output
        PROVE  \E f \in DOMAIN directory :
                  /\ directory[f].name = file.name /\ Len(directory[f].tags) = Len(file.tags)
                  /\ modifierPc = "done" => f = LastOf(file.name)
                  /\ \E ndv \in NDVs(file.name, Len(file.tags)) :
                        \A i \in DOMAIN file.tags :
                           file.tags[i] = [label |-> directory[f].tags[i].label,
                                           dist |-> Expected(file.name, directory[f].tags[i], ndv)]
    <3>1. PICK f \in 1..written : /\ file = WrittenFile(configs[f])
                                  /\ \A g \in 1..written : g > f => configs[g].name # file.name
      BY <2>6
    <3>2. f \in DOMAIN directory /\ f <= modified
      BY <2>8
    <3>3. /\ directory[f].name = file.name /\ Len(directory[f].tags) = Len(file.tags)
          /\ \E ndv \in NDVs(file.name, Len(file.tags)) :
                \A i \in DOMAIN file.tags :
                   file.tags[i] = [label |-> directory[f].tags[i].label,
                                   dist |-> Expected(file.name, directory[f].tags[i], ndv)]
      BY <3>1, <3>2, WrittenAlone
    <3>4. ASSUME modifierPc = "done"
          PROVE  f = LastOf(file.name)
      <4>1. \A g \in DOMAIN directory : g > f => directory[g].name # file.name
        BY <2>2, <2>4, <2>8, <3>1, <3>4
      <4>2. \A h \in DOMAIN directory :
               directory[h].name = file.name /\ (\A g \in DOMAIN directory : g > h => directory[g].name # file.name)
               => h = f
        <5> TAKE h \in DOMAIN directory
        <5> HAVE directory[h].name = file.name /\ \A g \in DOMAIN directory : g > h => directory[g].name # file.name
        <5>1. ~(h > f) /\ ~(f > h)
          BY <3>2, <3>3, <4>1
        <5>2. h \in Nat /\ f \in Nat
          <6>1. h \in 1..Len(directory) /\ f \in 1..Len(directory)
            BY <2>2, <3>2
          <6> QED
            BY <6>1
        <5> QED
          BY <5>1, <5>2
      <4> QED
        BY <3>2, <3>3, <4>1, <4>2 DEF LastOf
    <3> QED
      BY <3>2, <3>3, <3>4
  <2>11. modifierPc = "done" => {file.name : file \in output} = {directory[f].name : f \in DOMAIN directory}
    <3> SUFFICES ASSUME modifierPc = "done"
                 PROVE  {file.name : file \in output} = {directory[f].name : f \in DOMAIN directory}
      OBVIOUS
    <3>1. \A file \in output : \E f \in DOMAIN directory : directory[f].name = file.name
      BY <2>10
    <3>2. \A f \in DOMAIN directory : \E file \in output : file.name = directory[f].name
      BY <2>2, <2>4, <2>7, <2>8
    <3> QED
      BY <3>1, <3>2
  <2> QED
    BY <2>9, <2>10, <2>11 DEF FilesIndependent
<1> QED
  BY <1>1, ModifierInvariance, PTL

-----------------------------------------------------------------------------
(* samples: the walk of a directory of configurations.                       *)

MetricPlaces == Places({"metric"})
Unusables == Places({"unreadable", "reserved"})

WalkTypes ==
    /\ files \in Seq(Kinds)
    /\ tablePickCount \in Nat
    /\ at \in 0..Len(files)
    /\ fileConfigs \in Seq(Nat)
    /\ walkPc \in {"walk", "failed", "parsed"}

\* The result has every metric visited, in order.
AllVisited ==
    /\ ToSet(fileConfigs) = {i \in MetricPlaces : i <= at}
    /\ \A j, k \in DOMAIN fileConfigs : j < k => fileConfigs[j] < fileConfigs[k]

\* The walk goes on until the first entry it cannot use, the limit or the end.
EndsInTime ==
    /\ walkPc = "failed" => at \in Unusables /\ \A i \in Unusables : at <= i
    /\ walkPc # "failed" => \A i \in Unusables : at < i
    /\ walkPc = "walk" => Len(fileConfigs) <= tablePickCount
    /\ walkPc = "parsed" => \/ Len(fileConfigs) = tablePickCount + 1
                            \/ at = Len(files) /\ Len(fileConfigs) <= tablePickCount

WalkInv == WalkTypes /\ AllVisited /\ EndsInTime

LEMMA WalkStarted == WalkInit => WalkInv
<1> SUFFICES ASSUME WalkInit PROVE WalkInv
  OBVIOUS
<1>1. PICK n \in 0..MaxFiles : files \in [1..n -> Kinds]
  BY DEF WalkInit
<1>2. n \in Nat /\ MaxFiles \in Nat
  BY WalkAssumption
<1>3. files \in Seq(Kinds) /\ Len(files) = n /\ DOMAIN files = 1..n
  BY <1>1, <1>2
<1>4. tablePickCount \in Nat
  BY <1>2 DEF WalkInit
<1>5. WalkTypes
  BY <1>2, <1>3, <1>4 DEF WalkInit, WalkTypes
<1>6. MetricPlaces \subseteq 1..n /\ Unusables \subseteq 1..n
  BY <1>3 DEF MetricPlaces, Unusables, Places
<1>7. AllVisited
  <2>1. ToSet(fileConfigs) = {} /\ DOMAIN fileConfigs = {}
    BY DEF WalkInit, ToSet
  <2>2. \A i \in 1..n : ~ i <= at
    BY <1>2 DEF WalkInit
  <2>3. {i \in MetricPlaces : i <= at} = {}
    BY <1>6, <2>2
  <2> QED
    BY <2>1, <2>3 DEF AllVisited
<1>8. EndsInTime
  BY <1>2, <1>4, <1>6 DEF WalkInit, EndsInTime
<1> QED
  BY <1>5, <1>7, <1>8 DEF WalkInv

\* An entry visited is the next one, and what the files are stays.
LEMMA VisitFacts ==
    ASSUME WalkInv, NEW K, VisitEntry(K)
    PROVE  /\ MetricPlaces' = MetricPlaces /\ Unusables' = Unusables
           /\ walkPc = "walk" /\ at' = at + 1 /\ at \in Nat /\ at' \in 0..Len(files)
           /\ files' = files /\ tablePickCount' = tablePickCount
           /\ at' \in DOMAIN files /\ files[at'].kind \in K
           /\ \A i \in Unusables : at' <= i
           /\ MetricPlaces \subseteq Nat /\ Unusables \subseteq Nat
<1>1. /\ walkPc = "walk" /\ at' = at + 1 /\ at < Len(files) /\ files[at + 1].kind \in K
      /\ files' = files /\ tablePickCount' = tablePickCount
  BY DEF VisitEntry, input
<1>2. at \in 0..Len(files) /\ Len(files) \in Nat /\ DOMAIN files = 1..Len(files)
  BY DEF WalkInv, WalkTypes
<1>3. MetricPlaces' = MetricPlaces /\ Unusables' = Unusables
  BY <1>1 DEF MetricPlaces, Unusables, Places
<1>4. MetricPlaces \subseteq Nat /\ Unusables \subseteq Nat
  BY <1>2 DEF MetricPlaces, Unusables, Places
<1>5. \A i \in Unusables : at < i
  BY <1>1 DEF WalkInv, EndsInTime
<1> QED
  BY <1>1, <1>2, <1>3, <1>4, <1>5

\* An entry that is no metric adds nothing to the result.
LEMMA SkippedStays ==
    ASSUME WalkInv, NEW K, VisitEntry(K), "metric" \notin K, fileConfigs' = fileConfigs
    PROVE  AllVisited'
<1>1. at' \notin MetricPlaces
  BY VisitFacts DEF MetricPlaces, Places
<1>2. {i \in MetricPlaces : i <= at'} = {i \in MetricPlaces : i <= at}
  BY <1>1, VisitFacts
<1> QED
  BY <1>2, VisitFacts DEF WalkInv, AllVisited

LEMMA SkipStep == ASSUME WalkInv, Skip PROVE WalkInv'
<1>1. VisitEntry({"other", "broken"}) /\ UNCHANGED <<fileConfigs, walkPc>>
  BY DEF Skip
<1>2. AllVisited'
  BY <1>1, SkippedStays
<1>3. WalkTypes'
  BY <1>1, VisitFacts DEF WalkInv, WalkTypes
<1>4. at' \notin Unusables
  <2>1. files[at'].kind \in {"other", "broken"}
    BY <1>1, VisitFacts
  <2> QED
    BY <2>1 DEF Unusables, Places
<1>5. \A i \in Unusables : at' < i
  BY <1>1, <1>4, VisitFacts
<1>6. EndsInTime'
  BY <1>1, <1>5, VisitFacts DEF WalkInv, EndsInTime
<1> QED
  BY <1>2, <1>3, <1>6 DEF WalkInv

LEMMA FailStep == ASSUME WalkInv, Fail PROVE WalkInv'
<1>1. /\ VisitEntry({"unreadable", "reserved"})
      /\ fileConfigs' = fileConfigs /\ walkPc' = "failed"
  BY DEF Fail
<1>2. AllVisited'
  BY <1>1, SkippedStays
<1>3. WalkTypes'
  BY <1>1, VisitFacts DEF WalkInv, WalkTypes
<1>4. at' \in Unusables
  BY <1>1, VisitFacts DEF Unusables, Places
<1>5. EndsInTime'
  BY <1>1, <1>4, VisitFacts DEF EndsInTime
<1> QED
  BY <1>2, <1>3, <1>5 DEF WalkInv

LEMMA ParseStep == ASSUME WalkInv, Parse PROVE WalkInv'
<1>1. /\ VisitEntry({"metric"})
      /\ fileConfigs' = Append(fileConfigs, at')
      /\ walkPc' = IF Len(fileConfigs') > tablePickCount THEN "parsed" ELSE "walk"
  BY DEF Parse, VisitEntry
<1>2. fileConfigs \in Seq(Nat) /\ tablePickCount \in Nat /\ at' \in Nat
  BY <1>1, VisitFacts DEF WalkInv, WalkTypes
<1>3. /\ fileConfigs' \in Seq(Nat) /\ Len(fileConfigs) \in Nat
      /\ Len(fileConfigs') = Len(fileConfigs) + 1
      /\ DOMAIN fileConfigs = 1..Len(fileConfigs)
      /\ DOMAIN fileConfigs' = 1..(Len(fileConfigs) + 1)
      /\ \A k \in DOMAIN fileConfigs : fileConfigs'[k] = fileConfigs[k]
      /\ fileConfigs'[Len(fileConfigs) + 1] = at'
  BY <1>1, <1>2
<1>4. WalkTypes'
  BY <1>1, <1>2, <1>3, VisitFacts DEF WalkInv, WalkTypes
<1>5. at' \in MetricPlaces /\ at' \notin Unusables
  <2>1. files[at'].kind = "metric" /\ at' \in DOMAIN files
    BY <1>1, VisitFacts
  <2> QED
    BY <2>1 DEF MetricPlaces, Unusables, Places
<1>6. ToSet(fileConfigs') = {i \in MetricPlaces : i <= at'}
  <2>1. ToSet(fileConfigs') = ToSet(fileConfigs) \cup {at'}
    <3>1. ToSet(fileConfigs') = {fileConfigs'[k] : k \in 1..(Len(fileConfigs) + 1)}
      BY <1>3 DEF ToSet
    <3>2. ToSet(fileConfigs) = {fileConfigs[k] : k \in 1..Len(fileConfigs)}
      BY <1>3 DEF ToSet
    <3>3. ASSUME NEW k \in 1..(Len(fileConfigs) + 1)
          PROVE  \/ k \in 1..Len(fileConfigs) /\ fileConfigs'[k] = fileConfigs[k]
                 \/ fileConfigs'[k] = at'
      BY <1>3
    <3>4. ASSUME NEW k \in 1..Len(fileConfigs)
          PROVE  k \in 1..(Len(fileConfigs) + 1) /\ fileConfigs'[k] = fileConfigs[k]
      BY <1>3
    <3>5. Len(fileConfigs) + 1 \in 1..(Len(fileConfigs) + 1)
      BY <1>3
    <3> QED
      BY <1>3, <3>1, <3>2, <3>3, <3>4, <3>5, Zenon
  <2>2. ToSet(fileConfigs) = {i \in MetricPlaces : i <= at}
    BY DEF WalkInv, AllVisited
  <2>3. {i \in MetricPlaces : i <= at'} = {i \in MetricPlaces : i <= at} \cup {at'}
    BY <1>1, <1>5, VisitFacts
  <2> QED
    BY <2>1, <2>2, <2>3
<1>7. \A k \in DOMAIN fileConfigs : fileConfigs[k] < at'
  <2> SUFFICES ASSUME NEW k \in DOMAIN fileConfigs PROVE fileConfigs[k] < at'
    OBVIOUS
  <2>1. fileConfigs[k] \in ToSet(fileConfigs)
    BY DEF ToSet
  <2>2. fileConfigs[k] \in Nat /\ fileConfigs[k] <= at
    BY <2>1, <1>1, VisitFacts DEF WalkInv, AllVisited
  <2> QED
    BY <2>2, <1>1, VisitFacts
<1>8. ASSUME NEW j \in DOMAIN fileConfigs', NEW k \in DOMAIN fileConfigs', j < k
      PROVE  fileConfigs'[j] < fileConfigs'[k]
  <2>1. j \in DOMAIN fileConfigs /\ (k \in DOMAIN fileConfigs \/ k = Len(fileConfigs) + 1)
    BY <1>3, <1>8
  <2>2. CASE k \in DOMAIN fileConfigs
    <3>1. fileConfigs[j] < fileConfigs[k]
      BY <1>8, <2>1, <2>2 DEF WalkInv, AllVisited
    <3> QED
      BY <1>3, <2>1, <2>2, <3>1
  <2>3. CASE k = Len(fileConfigs) + 1
    BY <1>3, <1>7, <2>1, <2>3
  <2> QED
    BY <2>1, <2>2, <2>3
<1>9. AllVisited'
  BY <1>1, <1>6, <1>8, VisitFacts DEF AllVisited
<1>10. \A i \in Unusables : at' < i
  BY <1>1, <1>5, VisitFacts
<1>11. EndsInTime'
  <2>1. Len(fileConfigs) <= tablePickCount
    BY <1>1, VisitFacts DEF WalkInv, EndsInTime
  <2>2. walkPc' # "failed"
    BY <1>1
  <2>3. walkPc' = "walk" => Len(fileConfigs') <= tablePickCount
    BY <1>1, <1>2, <1>3
  <2>4. walkPc' = "parsed" => Len(fileConfigs') = tablePickCount + 1
    BY <1>1, <1>2, <1>3, <2>1
  <2> QED
    BY <1>1, <1>10, <2>2, <2>3, <2>4, VisitFacts DEF EndsInTime
<1> QED
  BY <1>4, <1>9, <1>11 DEF WalkInv

LEMMA WalkEndStep == ASSUME WalkInv, WalkEnd PROVE WalkInv'
<1>1. /\ UNCHANGED <<files, tablePickCount, at, fileConfigs>>
      /\ walkPc = "walk" /\ walkPc' = "parsed" /\ at = Len(files)
  BY DEF WalkEnd, input
<1>2. MetricPlaces' = MetricPlaces /\ Unusables' = Unusables
  BY <1>1 DEF MetricPlaces, Unusables, Places
<1> QED
  BY <1>1, <1>2 DEF WalkInv, WalkTypes, AllVisited, EndsInTime

LEMMA WalkStep == WalkInv /\ [WalkNext]_walkVars => WalkInv'
<1> SUFFICES ASSUME WalkInv, [WalkNext]_walkVars PROVE WalkInv'
  OBVIOUS
<1>1. CASE UNCHANGED walkVars
  <2>1. UNCHANGED <<files, tablePickCount, at, fileConfigs, walkPc>>
    BY <1>1 DEF walkVars, input
  <2>2. MetricPlaces' = MetricPlaces /\ Unusables' = Unusables
    BY <2>1 DEF MetricPlaces, Unusables, Places
  <2> QED
    BY <2>1, <2>2 DEF WalkInv, WalkTypes, AllVisited, EndsInTime
<1> QED
  BY <1>1, SkipStep, FailStep, ParseStep, WalkEndStep DEF WalkNext

\* The result has every metric up to where the walk is, and the walk goes on until
\* the first entry it cannot use, the limit or the end (parse.go).
THEOREM WalkInvariance == WalkSpec => []WalkInv
BY WalkStarted, WalkStep, PTL DEF WalkSpec

\* The result is the first metrics of the directory, all or one more than the limit,
\* and an entry that cannot be used fails the walk exactly if it lies before it.
THEOREM WalkTakesTheFirst == WalkSpec => []FirstMetrics
<1>1. WalkInv => FirstMetrics
  <2> SUFFICES ASSUME WalkInv PROVE FirstMetrics
    OBVIOUS
  <2>1. /\ at \in Nat /\ Len(files) \in Nat /\ at <= Len(files)
        /\ MetricPlaces \subseteq 1..Len(files) /\ Unusables \subseteq 1..Len(files)
    BY DEF WalkInv, WalkTypes, MetricPlaces, Unusables, Places
  <2>2. ToSet(fileConfigs) = {i \in MetricPlaces : i <= at}
    BY DEF WalkInv, AllVisited
  <2>3. ASSUME NEW i \in MetricPlaces \ ToSet(fileConfigs), NEW j \in ToSet(fileConfigs)
        PROVE  j < i
    <3>0. i \in MetricPlaces /\ j \in MetricPlaces
      BY <2>2
    <3>1. i \in Nat /\ j \in Nat
      BY <2>1, <3>0
    <3>2. ~ i <= at /\ j <= at
      BY <2>2
    <3> QED
      BY <2>1, <3>1, <3>2
  <2>4. ASSUME walkPc = "parsed", at = Len(files)
        PROVE  ToSet(fileConfigs) = MetricPlaces /\ Unusables = {}
    <3>1. \A i \in Unusables : at < i
      BY <2>4 DEF WalkInv, EndsInTime
    <3>2. \A i \in 1..Len(files) : i <= at /\ ~ at < i
      BY <2>1, <2>4
    <3> QED
      BY <2>1, <2>2, <3>1, <3>2
  <2> QED
    BY <2>2, <2>3, <2>4 DEF WalkInv, AllVisited, EndsInTime, FirstMetrics, MetricPlaces, Unusables
<1> QED
  BY <1>1, WalkInvariance, PTL

-----------------------------------------------------------------------------
(* samples: sequences of labels.                                             *)

InOrder(s) == \A j, k \in DOMAIN s : j < k => s[j].name < s[k].name

\* The lesser the name the lesser the rank, and so each rank is taken.
LEMMA SortedFacts ==
    ASSUME NEW s, IsSequence(s), \A i \in DOMAIN s : s[i].name \in Int,
           \A i, j \in DOMAIN s : s[i].name = s[j].name => i = j
    PROVE  /\ Sorted(s) \in Seq(ToSet(s)) /\ Len(Sorted(s)) = Len(s)
           /\ DOMAIN Sorted(s) = DOMAIN s
           /\ ToSet(Sorted(s)) = ToSet(s)
           /\ InOrder(Sorted(s))
<1> DEFINE n == Len(s)
           Below(k) == {j \in 1..n : s[j].name < s[k].name}
           place(i) == CHOOSE k \in 1..n : Rank(s, k) = i - 1
           t == Sorted(s)
<1>1. n \in Nat /\ DOMAIN s = 1..n
  BY DEF IsSequence
<1>2. \A k \in 1..n : Rank(s, k) = Cardinality(Below(k))
  BY <1>1 DEF Rank
<1>3. /\ IsFiniteSet(1..n) /\ Cardinality(1..n) = n
      /\ IsFiniteSet(0..(n - 1)) /\ Cardinality(0..(n - 1)) = n
  <2>1. IsFiniteSet(1..n) /\ Cardinality(1..n) = IF 1 > n THEN 0 ELSE n - 1 + 1
    BY <1>1, FS_Interval
  <2>2. IsFiniteSet(0..(n - 1)) /\ Cardinality(0..(n - 1)) = IF 0 > n - 1 THEN 0 ELSE (n - 1) - 0 + 1
    <3>1. 0 \in Int /\ n - 1 \in Int
      BY <1>1
    <3> QED
      BY <3>1, FS_Interval
  <2> QED
    BY <1>1, <2>1, <2>2
<1>4. \A k \in 1..n : Rank(s, k) \in 0..(n - 1)
  <2> SUFFICES ASSUME NEW k \in 1..n PROVE Rank(s, k) \in 0..(n - 1)
    OBVIOUS
  <2>1. Below(k) \subseteq (1..n) \ {k}
    BY <1>1
  <2>2. IsFiniteSet((1..n) \ {k}) /\ Cardinality((1..n) \ {k}) = n - 1
    BY <1>3, FS_RemoveElement
  <2> HIDE DEF Below
  <2>3. Cardinality(Below(k)) <= n - 1 /\ IsFiniteSet(Below(k))
    BY <2>1, <2>2, FS_Subset
  <2>4. Cardinality(Below(k)) \in Nat
    BY <2>3, FS_CardinalityType
  <2> QED
    BY <1>1, <1>2, <2>3, <2>4
<1>5. ASSUME NEW j \in 1..n, NEW k \in 1..n, s[j].name < s[k].name
      PROVE  Rank(s, j) < Rank(s, k)
  <2>1. j \notin Below(j)
    BY <1>1
  <2>2. Below(j) \cup {j} \subseteq Below(k) /\ Below(k) \subseteq 1..n /\ Below(j) \subseteq 1..n
    BY <1>1, <1>5
  <2> HIDE DEF Below
  <2>3. IsFiniteSet(Below(j)) /\ IsFiniteSet(Below(k))
    BY <1>3, <2>2, FS_Subset
  <2>4. Cardinality(Below(j) \cup {j}) = Cardinality(Below(j)) + 1
    BY <2>1, <2>3, FS_AddElement
  <2>5. Cardinality(Below(j) \cup {j}) <= Cardinality(Below(k))
    BY <2>2, <2>3, FS_Subset
  <2>6. Cardinality(Below(j)) \in Nat /\ Cardinality(Below(k)) \in Nat
    BY <2>3, FS_CardinalityType
  <2> QED
    BY <1>2, <2>4, <2>5, <2>6
<1>6. ASSUME NEW j \in 1..n, NEW k \in 1..n, Rank(s, j) <= Rank(s, k)
      PROVE  j = k \/ s[j].name < s[k].name
  <2>1. s[j].name \in Int /\ s[k].name \in Int /\ (s[j].name = s[k].name => j = k)
    BY <1>1
  <2>2. ~ Rank(s, k) < Rank(s, j)
    BY <1>1, <1>4, <1>6
  <2>3. ~ s[k].name < s[j].name
    BY <1>5, <2>2
  <2> QED
    BY <2>1, <2>3
<1>7. ASSUME NEW i \in 1..n PROVE \E k \in 1..n : Rank(s, k) = i - 1
  <2> DEFINE f == [k \in 1..n |-> Rank(s, k)]
  <2>1. f \in [1..n -> 0..(n - 1)]
    BY <1>4
  <2>2. \A j, k \in 1..n : Rank(s, j) = Rank(s, k) => j = k
    <3> SUFFICES ASSUME NEW j \in 1..n, NEW k \in 1..n, Rank(s, j) = Rank(s, k), j # k PROVE FALSE
      OBVIOUS
    <3>1. Rank(s, j) <= Rank(s, k) /\ Rank(s, k) <= Rank(s, j)
      BY <1>4
    <3>2. s[j].name < s[k].name /\ s[k].name < s[j].name
      BY <1>6, <3>1
    <3> QED
      BY <1>1, <3>2
  <2>3. f \in Injection(1..n, 0..(n - 1))
    BY <2>1, <2>2 DEF Injection, IsInjective
  <2> HIDE DEF f
  <2>4. f \in Surjection(1..n, 0..(n - 1))
    BY <1>3, <2>3, FS_Injection
  <2>5. i - 1 \in 0..(n - 1)
    BY <1>1
  <2>6. PICK k \in 1..n : f[k] = i - 1
    BY <2>4, <2>5 DEF Surjection
  <2> QED
    BY <2>6 DEF f
<1> HIDE DEF Below
<1>8. \A i \in 1..n : place(i) \in 1..n /\ Rank(s, place(i)) = i - 1
  BY <1>7
<1>9. DOMAIN t = 1..n /\ \A i \in 1..n : t[i] = s[place(i)]
  BY <1>1 DEF Sorted
<1> HIDE DEF place, t
<1>10. \A k \in 1..n : s[k] \in ToSet(s)
  BY <1>1 DEF ToSet
<1>11. t \in Seq(ToSet(s)) /\ Len(t) = n
  <2>1. t = [i \in 1..n |-> t[i]]
    BY <1>1, <1>9 DEF t, Sorted
  <2>2. \A i \in 1..n : t[i] \in ToSet(s)
    BY <1>8, <1>9, <1>10
  <2>3. t \in [1..n -> ToSet(s)]
    BY <2>1, <2>2
  <2> QED
    BY <1>1, <2>3
<1>12. ToSet(t) = ToSet(s)
  <2>1. ASSUME NEW k \in 1..n PROVE s[k] \in ToSet(t)
    <3>1. Rank(s, k) + 1 \in 1..n
      BY <1>1, <1>4
    <3>2. place(Rank(s, k) + 1) = k
      <4> DEFINE q == place(Rank(s, k) + 1)
      <4>1. q \in 1..n /\ Rank(s, q) = Rank(s, k)
        BY <1>4, <1>8, <3>1
      <4> HIDE DEF q
      <4>2. (q = k \/ s[q].name < s[k].name) /\ (q = k \/ s[k].name < s[q].name)
        BY <1>4, <1>6, <4>1
      <4>3. q = k
        BY <1>1, <4>1, <4>2
      <4> QED
        BY <4>3 DEF q
    <3>3. t[Rank(s, k) + 1] = s[k]
      BY <1>9, <3>1, <3>2
    <3> QED
      BY <1>9, <3>1, <3>3 DEF ToSet
  <2>2. ToSet(s) \subseteq ToSet(t)
    BY <1>1, <2>1 DEF ToSet
  <2>3. ToSet(t) \subseteq ToSet(s)
    BY <1>8, <1>9, <1>10 DEF ToSet
  <2> QED
    BY <2>2, <2>3
<1>13. InOrder(t)
  <2> SUFFICES ASSUME NEW i \in 1..n, NEW j \in 1..n, i < j PROVE t[i].name < t[j].name
    BY <1>9 DEF InOrder
  <2>1. Rank(s, place(i)) <= Rank(s, place(j)) /\ Rank(s, place(i)) # Rank(s, place(j))
    BY <1>1, <1>8, SMTT(30)
  <2>2. s[place(i)].name < s[place(j)].name
    BY <1>6, <1>8, <2>1
  <2> QED
    BY <1>9, <2>2
<1> QED
  BY <1>1, <1>9, <1>11, <1>12, <1>13 DEF t

\* Sequences of labels.
Labels(V) == [name : Int, value : V]

LEMMA SeqNames ==
    ASSUME NEW V, NEW s \in Seq(Labels(V)), NEW k \in 1..Len(s)
    PROVE  s[k] \in Labels(V) /\ s[k].name \in Int
<1>1. s[k] \in Labels(V)
  OBVIOUS
<1> QED
  BY <1>1 DEF Labels

LEMMA InOrderConcat ==
    ASSUME NEW V, NEW s \in Seq(Labels(V)), NEW t \in Seq(Labels(V)),
           InOrder(s), InOrder(t), \A a \in Range(s), b \in Range(t) : a.name < b.name
    PROVE  s \o t \in Seq(Labels(V)) /\ InOrder(s \o t) /\ Range(s \o t) = Range(s) \cup Range(t)
<1> DEFINE u == s \o t
           m == Len(s)
           n == Len(t)
<1>1. u \in Seq(Labels(V)) /\ Range(u) = Range(s) \cup Range(t) /\ Len(u) = m + n
  BY ConcatFacts
<1>2. m \in Nat /\ n \in Nat /\ DOMAIN s = 1..m /\ DOMAIN t = 1..n /\ DOMAIN u = 1..(m + n)
  BY <1>1
<1>3. /\ \A k \in 1..m : u[k] = s[k] /\ u[k] \in Range(s)
      /\ \A k \in (m + 1)..(m + n) : u[k] = t[k - m] /\ k - m \in 1..n /\ u[k] \in Range(t)
  <2>1. \A k \in 1..m : u[k] = s[k]
    BY <1>2
  <2>2. \A k \in (m + 1)..(m + n) : u[k] = t[k - m] /\ k - m \in 1..n
    BY <1>2
  <2> QED
    BY <1>2, <2>1, <2>2 DEF Range
<1> HIDE DEF u
<1>4. ASSUME NEW j \in 1..(m + n), NEW k \in 1..(m + n), j < k PROVE u[j].name < u[k].name
  <2>1. CASE k <= m
    <3>1. j \in 1..m /\ k \in 1..m
      BY <1>2, <1>4, <2>1
    <3>2. s[j].name < s[k].name
      BY <1>2, <1>4, <3>1 DEF InOrder
    <3> QED
      BY <1>3, <3>1, <3>2
  <2>2. CASE j <= m /\ m < k
    <3>1. j \in 1..m /\ k \in (m + 1)..(m + n)
      BY <1>2, <1>4, <2>2
    <3> QED
      BY <1>3, <3>1
  <2>3. CASE m < j
    <3>1. j \in (m + 1)..(m + n) /\ k \in (m + 1)..(m + n) /\ j - m < k - m
      BY <1>2, <1>4, <2>3
    <3>2. t[j - m].name < t[k - m].name
      BY <1>2, <1>3, <3>1 DEF InOrder
    <3> QED
      BY <1>3, <3>1, <3>2
  <2> QED
    BY <1>2, <1>4, <2>1, <2>2, <2>3
<1>5. InOrder(u)
  BY <1>2, <1>4 DEF InOrder
<1> QED
  BY <1>1, <1>5 DEF u

\* A label alone, and a part of a sequence.
LEMMA InOrderPart ==
    ASSUME NEW V, NEW s \in Seq(Labels(V)), InOrder(s), NEW a \in 1..(Len(s) + 1), NEW b \in 0..Len(s)
    PROVE  /\ SubSeq(s, a, b) \in Seq(Labels(V)) /\ InOrder(SubSeq(s, a, b))
           /\ Range(SubSeq(s, a, b)) = {s[i] : i \in a..b}
<1> DEFINE p == SubSeq(s, a, b)
           n == IF a <= b THEN b - a + 1 ELSE 0
<1>1. /\ Len(s) \in Nat /\ DOMAIN s = 1..Len(s) /\ n \in Nat
      /\ \A i \in 1..n : a + i - 1 \in a..b /\ a + i - 1 \in 1..Len(s)
      /\ \A i \in a..b : i - a + 1 \in 1..n /\ a + (i - a + 1) - 1 = i
  OBVIOUS
<1>2. p \in Seq(Labels(V)) /\ Len(p) = n /\ \A i \in 1..n : p[i] = s[a + i - 1]
  OBVIOUS
<1> HIDE DEF p
<1>3. DOMAIN p = 1..n
  BY <1>2
<1>4. InOrder(p)
  <2> SUFFICES ASSUME NEW j \in 1..n, NEW k \in 1..n, j < k PROVE p[j].name < p[k].name
    BY <1>3 DEF InOrder
  <2>1. a + j - 1 < a + k - 1
    BY <1>1
  <2>2. s[a + j - 1].name < s[a + k - 1].name
    BY <1>1, <2>1 DEF InOrder
  <2> QED
    BY <1>2, <2>2
<1> HIDE DEF n
<1>5. Range(p) = {s[i] : i \in a..b}
  <2>1. ASSUME NEW x \in Range(p) PROVE x \in {s[i] : i \in a..b}
    <3>1. PICK j \in 1..n : x = p[j]
      BY <1>3 DEF Range
    <3>2. x = s[a + j - 1] /\ a + j - 1 \in a..b
      BY <1>1, <1>2, <3>1
    <3> QED
      BY <3>2
  <2>2. ASSUME NEW i \in a..b PROVE s[i] \in Range(p)
    <3>1. p[i - a + 1] = s[i]
      BY <1>1, <1>2
    <3> QED
      BY <1>1, <1>3, <3>1 DEF Range
  <2> QED
    BY <2>1, <2>2
<1> QED
  BY <1>2, <1>4, <1>5 DEF p

LEMMA InOrderOne ==
    ASSUME NEW V, NEW l \in Labels(V)
    PROVE  <<l>> \in Seq(Labels(V)) /\ InOrder(<<l>>) /\ Range(<<l>>) = {l} /\ Len(<<l>>) = 1
<1>1. <<l>> \in Seq(Labels(V)) /\ Len(<<l>>) = 1 /\ DOMAIN <<l>> = 1..1 /\ <<l>>[1] = l
  OBVIOUS
<1> QED
  BY <1>1 DEF InOrder, Range

\* The labels with a value, in their order.
LEMMA PresentFacts ==
    ASSUME NEW V, NEW s \in Seq(Labels(V)), InOrder(s)
    PROVE  /\ Present(s) \in Seq(Labels(V)) /\ InOrder(Present(s))
           /\ Range(Present(s)) = {l \in Range(s) : l.value # Empty}
<1> DEFINE L == Labels(V)
           seqs == [i \in DOMAIN s |-> IF s[i].value = Empty THEN <<>> ELSE <<s[i]>>]
           n == Len(s)
           F(k) == FlattenTo(seqs, k)
           T == {k \in Nat : k <= n => /\ F(k) \in Seq(L) /\ InOrder(F(k))
                                       /\ Range(F(k)) \subseteq {s[i] : i \in 1..k}}
<1>1. n \in Nat /\ DOMAIN s = 1..n /\ \A i \in 1..n : s[i] \in L
  OBVIOUS
<1>2. \A i \in 1..n : /\ seqs[i] \in Seq(L) /\ InOrder(seqs[i])
                      /\ Range(seqs[i]) = IF s[i].value = Empty THEN {} ELSE {s[i]}
  <2> SUFFICES ASSUME NEW i \in 1..n
               PROVE  /\ seqs[i] \in Seq(L) /\ InOrder(seqs[i])
                      /\ Range(seqs[i]) = IF s[i].value = Empty THEN {} ELSE {s[i]}
    OBVIOUS
  <2>1. CASE s[i].value = Empty
    <3>1. seqs[i] = <<>> /\ <<>> \in Seq(L) /\ DOMAIN <<>> = {}
      BY <1>1, <2>1
    <3> QED
      BY <2>1, <3>1 DEF InOrder, Range
  <2>2. CASE s[i].value # Empty
    <3>1. seqs[i] = <<s[i]>> /\ s[i] \in Labels(V)
      BY <1>1, <2>2
    <3> QED
      BY <2>2, <3>1, InOrderOne
  <2> QED
    BY <2>1, <2>2
<1>3. seqs \in Seq(Seq(L)) /\ Len(seqs) = n
  <2>1. seqs \in [1..n -> Seq(L)]
    BY <1>1, <1>2
  <2> QED
    BY <1>1, <2>1
<1>4. Present(s) = FlattenSeq(seqs)
  BY DEF Present
<1> HIDE DEF seqs
<1>5. 0 \in T
  <2>1. F(0) = <<>>
    BY <1>3, FlattenEnds
  <2>2. <<>> \in Seq(L) /\ InOrder(<<>>) /\ Range(<<>>) = {}
    BY DEF InOrder, Range
  <2> QED
    BY <2>1, <2>2
<1>6. ASSUME NEW k \in Nat, k \in T PROVE k + 1 \in T
  <2> SUFFICES ASSUME k + 1 <= n
               PROVE  /\ F(k + 1) \in Seq(L) /\ InOrder(F(k + 1))
                      /\ Range(F(k + 1)) \subseteq {s[i] : i \in 1..(k + 1)}
    OBVIOUS
  <2>1. k < n /\ k <= n /\ k + 1 \in 1..n
    BY <1>1
  <2>2. F(k) \in Seq(L) /\ InOrder(F(k)) /\ Range(F(k)) \subseteq {s[i] : i \in 1..k}
    BY <1>6, <2>1
  <2>3. F(k + 1) = F(k) \o seqs[k + 1]
    BY <1>3, <2>1, FlattenNext
  <2>4. seqs[k + 1] \in Seq(L) /\ InOrder(seqs[k + 1]) /\ Range(seqs[k + 1]) \subseteq {s[k + 1]}
    BY <1>2, <2>1
  <2>5. ASSUME NEW a \in Range(F(k)), NEW b \in Range(seqs[k + 1]) PROVE a.name < b.name
    <3>1. PICK i \in 1..k : a = s[i]
      BY <2>2
    <3>2. b = s[k + 1]
      BY <2>4
    <3>3. i \in 1..n /\ i < k + 1
      BY <1>1, <2>1
    <3> QED
      BY <1>1, <2>1, <3>1, <3>2, <3>3 DEF InOrder
  <2> HIDE DEF F, T
  <2>6. /\ F(k + 1) \in Seq(L) /\ InOrder(F(k + 1))
        /\ Range(F(k + 1)) = Range(F(k)) \cup Range(seqs[k + 1])
    <3> DEFINE p == F(k)
               q == seqs[k + 1]
    <3>1. /\ p \in Seq(Labels(V)) /\ q \in Seq(Labels(V)) /\ InOrder(p) /\ InOrder(q)
          /\ \A a \in Range(p), b \in Range(q) : a.name < b.name
          /\ F(k + 1) = p \o q
      BY <2>2, <2>3, <2>4, <2>5
    <3> HIDE DEF p, q
    <3>2. /\ p \o q \in Seq(Labels(V)) /\ InOrder(p \o q)
          /\ Range(p \o q) = Range(p) \cup Range(q)
      <4>1. /\ p \in Seq(Labels(V)) /\ q \in Seq(Labels(V)) /\ InOrder(p) /\ InOrder(q)
            /\ \A a \in Range(p), b \in Range(q) : a.name < b.name
        BY <3>1
      <4> QED
        BY <4>1, InOrderConcat
    <3> QED
      BY <3>1, <3>2 DEF p, q
  <2>7. {s[i] : i \in 1..k} \subseteq {s[i] : i \in 1..(k + 1)} /\ s[k + 1] \in {s[i] : i \in 1..(k + 1)}
    <3>1. 1..k \subseteq 1..(k + 1) /\ k + 1 \in 1..(k + 1)
      OBVIOUS
    <3> QED
      BY <3>1
  <2> QED
    BY <2>2, <2>4, <2>6, <2>7
<1>7. n \in T
  <2> HIDE DEF T
  <2> QED
    BY <1>1, <1>5, <1>6, NumbersInduction
<1>8. F(n) = FlattenSeq(seqs)
  BY <1>3, FlattenEnds
<1>9. Range(FlattenSeq(seqs)) = {l \in Range(s) : l.value # Empty}
  <2>1. \A x : x \in Range(FlattenSeq(seqs)) <=> \E i \in 1..n : x \in Range(seqs[i])
    BY <1>3, FlattenMembers
  <2>2. \A i \in 1..n : \A x : x \in Range(seqs[i]) <=> x = s[i] /\ s[i].value # Empty
    BY <1>2
  <2>3. \A x : x \in Range(s) <=> \E i \in 1..n : x = s[i]
    BY <1>1 DEF Range
  <2>4. \A x : x \in Range(FlattenSeq(seqs)) <=> x \in Range(s) /\ x.value # Empty
    <3> SUFFICES ASSUME NEW x PROVE x \in Range(FlattenSeq(seqs)) <=> x \in Range(s) /\ x.value # Empty
      OBVIOUS
    <3>1. ASSUME x \in Range(FlattenSeq(seqs)) PROVE x \in Range(s) /\ x.value # Empty
      <4>1. PICK i \in 1..n : x \in Range(seqs[i])
        BY <2>1, <3>1
      <4>2. x = s[i] /\ s[i].value # Empty
        BY <2>2, <4>1
      <4> QED
        BY <2>3, <4>2
    <3>2. ASSUME x \in Range(s), x.value # Empty PROVE x \in Range(FlattenSeq(seqs))
      <4>1. PICK i \in 1..n : x = s[i]
        BY <2>3, <3>2
      <4>2. x \in Range(seqs[i])
        BY <2>2, <3>2, <4>1
      <4> QED
        BY <2>1, <4>2
    <3> QED
      BY <3>1, <3>2
  <2> QED
    BY <2>4
<1> QED
  BY <1>1, <1>4, <1>7, <1>8, <1>9

\* One more label in its place.
LEMMA InsertFacts ==
    ASSUME NEW V, NEW s \in Seq(Labels(V)), NEW i \in 1..(Len(s) + 1), NEW e \in Labels(V)
    PROVE  /\ InsertAt(s, i, e) \in Seq(Labels(V)) /\ Len(InsertAt(s, i, e)) = Len(s) + 1
           /\ \A j \in 1..(i - 1) : InsertAt(s, i, e)[j] = s[j]
           /\ InsertAt(s, i, e)[i] = e
           /\ \A j \in (i + 1)..(Len(s) + 1) : InsertAt(s, i, e)[j] = s[j - 1]
           /\ Range(InsertAt(s, i, e)) = Range(s) \cup {e}
<1> DEFINE L == Labels(V)
           n == Len(s)
           a == SubSeq(s, 1, i - 1)
           b == SubSeq(s, i, n)
           t == a \o <<e>> \o b
<1>1. n \in Nat /\ i \in Nat /\ 1 <= i /\ i <= n + 1 /\ DOMAIN s = 1..n
  OBVIOUS
<1>2. a \in Seq(L) /\ Len(a) = i - 1 /\ \A j \in 1..(i - 1) : a[j] = s[j]
  BY <1>1
<1>3. b \in Seq(L) /\ Len(b) = n - i + 1 /\ \A j \in 1..(n - i + 1) : b[j] = s[i + j - 1]
  BY <1>1
<1>4. InsertAt(s, i, e) = t
  BY DEF InsertAt
<1> HIDE DEF a, b
<1>5. /\ a \o <<e>> \in Seq(L) /\ Len(a \o <<e>>) = i
      /\ \A j \in 1..(i - 1) : (a \o <<e>>)[j] = a[j]
      /\ (a \o <<e>>)[i] = e
  BY <1>1, <1>2
<1> DEFINE c == a \o <<e>>
<1> HIDE DEF c
<1>6. t = c \o b
  BY DEF c
<1>7. t \in Seq(L) /\ Len(t) = n + 1
  <2>1. c \in Seq(L) /\ Len(c) = i
    BY <1>5 DEF c
  <2>2. c \o b \in Seq(L) /\ Len(c \o b) = i + (n - i + 1)
    <3>1. b \in Seq(L) /\ Len(b) = n - i + 1
      BY <1>3
    <3> HIDE DEF n
    <3>2. c \o b \in Seq(L) /\ Len(c \o b) = Len(c) + Len(b)
      BY <2>1, <3>1, SMTT(30)
    <3> QED
      BY <2>1, <3>1, <3>2
  <2>3. i + (n - i + 1) = n + 1
    BY <1>1
  <2> HIDE DEF t
  <2> QED
    BY <1>6, <2>2, <2>3
<1>8. /\ \A j \in 1..i : t[j] = c[j]
      /\ \A j \in (i + 1)..(n + 1) : t[j] = b[j - i] /\ j - i \in 1..(n - i + 1)
  <2>1. Len(c) = i /\ c \in Seq(L)
    BY <1>5 DEF c
  <2>2. \A j \in 1..i : t[j] = c[j]
    BY <1>1, <1>3, <1>6, <2>1
  <2>3. \A j \in (i + 1)..(n + 1) : j - i \in 1..(n - i + 1) /\ j \in 1..(n + 1) /\ ~ j <= i
    BY <1>1
  <2>4. \A j \in (i + 1)..(n + 1) : t[j] = b[j - i]
    BY <1>1, <1>3, <1>6, <2>1, <2>3
  <2> QED
    BY <2>2, <2>3, <2>4
<1> HIDE DEF t
<1>9. /\ \A j \in 1..(i - 1) : t[j] = s[j]
      /\ t[i] = e
      /\ \A j \in (i + 1)..(n + 1) : t[j] = s[j - 1]
  <2>1. \A j \in 1..(i - 1) : j \in 1..i /\ t[j] = c[j]
    BY <1>1, <1>8
  <2>2. \A j \in 1..(i - 1) : t[j] = s[j]
    BY <1>2, <1>5, <2>1 DEF c
  <2>3. t[i] = e
    BY <1>1, <1>5, <1>8 DEF c
  <2>4. \A j \in (i + 1)..(n + 1) : i + (j - i) - 1 = j - 1
    BY <1>1
  <2>5. \A j \in (i + 1)..(n + 1) : t[j] = s[j - 1]
    BY <1>3, <1>8, <2>4
  <2> QED
    BY <2>2, <2>3, <2>5
<1>10. Range(t) = Range(s) \cup {e}
  <2>1. DOMAIN t = 1..(n + 1)
    BY <1>7
  <2>2. ASSUME NEW j \in 1..(n + 1) PROVE t[j] \in Range(s) \cup {e}
    <3>1. CASE j < i
      <4>1. j \in 1..(i - 1) /\ j \in 1..n
        BY <1>1, <3>1
      <4> QED
        BY <1>1, <1>9, <4>1 DEF Range
    <3>2. CASE j = i
      BY <1>9, <3>2
    <3>3. CASE i < j
      <4>1. j \in (i + 1)..(n + 1) /\ j - 1 \in 1..n
        BY <1>1, <3>3
      <4> QED
        BY <1>1, <1>9, <4>1 DEF Range
    <3> QED
      BY <1>1, <3>1, <3>2, <3>3
  <2>3. ASSUME NEW k \in 1..n PROVE s[k] \in Range(t)
    <3>1. CASE k < i
      <4>1. k \in 1..(i - 1) /\ k \in 1..(n + 1)
        BY <1>1, <3>1
      <4> QED
        BY <1>9, <2>1, <4>1 DEF Range
    <3>2. CASE i <= k
      <4>1. k + 1 \in (i + 1)..(n + 1) /\ k + 1 \in 1..(n + 1) /\ (k + 1) - 1 = k
        BY <1>1, <3>2
      <4> QED
        BY <1>9, <2>1, <4>1 DEF Range
    <3> QED
      BY <1>1, <3>1, <3>2
  <2>4. e \in Range(t)
    BY <1>1, <1>9, <2>1 DEF Range
  <2>5. Range(t) \subseteq Range(s) \cup {e}
    BY <2>1, <2>2 DEF Range
  <2>6. Range(s) \subseteq Range(t)
    BY <1>1, <2>3 DEF Range
  <2> QED
    BY <2>4, <2>5, <2>6
<1> QED
  BY <1>4, <1>7, <1>9, <1>10

-----------------------------------------------------------------------------
(* samples: the label set of one combination.                                *)

\* All names before the place are lesser, and the one at it is not.
LEMMA PlaceFacts ==
    ASSUME NEW s, NEW n \in Nat, Len(s) = n, NEW from \in 1..(n + 1), NEW name \in Int,
           \A i \in 1..n : s[i].name \in Int
    PROVE  /\ PlaceFor(name, s, from) \in from..(n + 1)
           /\ \A i \in from..(PlaceFor(name, s, from) - 1) : s[i].name < name
           /\ PlaceFor(name, s, from) <= n => s[PlaceFor(name, s, from)].name >= name
<1> DEFINE I == {i \in from..(n + 1) : i <= n => s[i].name >= name}
           p == PlaceFor(name, s, from)
<1>1. p = Min(I)
  BY DEF PlaceFor
<1>2. I \in SUBSET (1..(n + 1)) /\ n + 1 \in I
  OBVIOUS
<1> HIDE DEF p
<1>3. p \in I /\ \A i \in I : p <= i
  <2> HIDE DEF I
  <2>1. n + 1 \in Nat
    OBVIOUS
  <2> QED
    BY <1>1, <1>2, <2>1, FirstPlace
<1>4. \A i \in from..(p - 1) : s[i].name < name
  <2> SUFFICES ASSUME NEW i \in from..(p - 1) PROVE s[i].name < name
    OBVIOUS
  <2>1. p \in from..(n + 1)
    BY <1>3
  <2>2. i \in from..(n + 1) /\ i <= n /\ i \in 1..n /\ ~ p <= i
    BY <2>1
  <2>3. ~ s[i].name >= name
    BY <1>3, <2>2
  <2> QED
    BY <2>2, <2>3
<1> QED
  BY <1>3, <1>4 DEF p

TagsOK ==
    /\ IsSequence(tags)
    /\ InOrder(tags)
    /\ \A i \in DOMAIN tags : /\ tags[i].name \in Int \ Reserved
                              /\ IsSequence(tags[i].values)
                              /\ tags[i].values # <<>>
                              /\ IsInjective(tags[i].values)

LEMMA NamesFacts == /\ MetricName \in Int /\ ChurnId \in Int /\ Replica \in Int
                    /\ MetricName < ChurnId /\ ChurnId < Replica /\ MetricName < Replica
<1>1. /\ MetricName \in Int /\ ChurnId \in Int /\ Replica \in Int
      /\ MetricName < ChurnId /\ ChurnId < Replica
  BY TagsAssumption DEF Reserved
<1> QED
  BY <1>1

LEMMA TagsFacts ==
    ASSUME TagsOK
    PROVE  /\ Len(tags) \in Nat /\ DOMAIN tags = 1..Len(tags)
           /\ \A i \in DOMAIN tags :
                 /\ tags[i].name \in Int /\ tags[i].name # MetricName
                 /\ tags[i].name # ChurnId /\ tags[i].name # Replica
                 /\ Len(tags[i].values) \in Nat \ {0}
                 /\ DOMAIN tags[i].values = 1..Len(tags[i].values)
                 /\ \A j \in DOMAIN tags : tags[i].name = tags[j].name => i = j
<1>1. Len(tags) \in Nat /\ DOMAIN tags = 1..Len(tags)
  BY DEF TagsOK, IsSequence
<1> SUFFICES ASSUME NEW i \in DOMAIN tags
             PROVE  /\ tags[i].name \in Int /\ tags[i].name # MetricName
                    /\ tags[i].name # ChurnId /\ tags[i].name # Replica
                    /\ Len(tags[i].values) \in Nat \ {0}
                    /\ DOMAIN tags[i].values = 1..Len(tags[i].values)
                    /\ \A j \in DOMAIN tags : tags[i].name = tags[j].name => i = j
  BY <1>1
<1>2. /\ tags[i].name \in Int /\ tags[i].name # MetricName
      /\ tags[i].name # ChurnId /\ tags[i].name # Replica
  BY DEF TagsOK, Reserved
<1>3. /\ Len(tags[i].values) \in Nat \ {0}
      /\ DOMAIN tags[i].values = 1..Len(tags[i].values)
  <2>1. tags[i].values \in Seq(ToSet(tags[i].values)) /\ tags[i].values # <<>>
    BY DEF TagsOK, IsSequence
  <2> HIDE DEF ToSet
  <2> QED
    BY <2>1
<1>4. ASSUME NEW j \in DOMAIN tags, tags[i].name = tags[j].name PROVE i = j
  <2>1. tags[j].name \in Int
    BY DEF TagsOK
  <2>2. ~ i < j /\ ~ j < i
    BY <1>2, <1>4, <2>1 DEF TagsOK, InOrder
  <2> QED
    BY <1>1, <2>2
<1> QED
  BY <1>2, <1>3, <1>4

\* Where the odometer can be, and the values of labels.
Odometer == {x \in [DOMAIN tags -> Nat] : \A i \in DOMAIN tags : x[i] \in 1..Len(tags[i].values)}
Values == Nat \cup UNION {ToSet(tags[i].values) : i \in DOMAIN tags}

TagLabel(x, i) == Label(tags[i].name, tags[i].values[x[i]])
LabelsOf(x, e, churn) ==
    {Label(MetricName, 0), Label(Replica, 0)}
    \cup {l \in {TagLabel(x, i) : i \in DOMAIN tags} : l.value # Empty}
    \cup (IF churn THEN {Label(ChurnId, e)} ELSE {})

LEMMA LabelFacts == ASSUME NEW n, NEW v PROVE Label(n, v).name = n /\ Label(n, v).value = v
BY DEF Label

LEMMA LabelType == ASSUME NEW n \in Int, NEW v \in Values PROVE Label(n, v) \in Labels(Values)
BY DEF Label, Labels

LEMMA TagLabelFacts ==
    ASSUME TagsOK, NEW x \in Odometer, NEW i \in DOMAIN tags
    PROVE  TagLabel(x, i) \in Labels(Values) /\ TagLabel(x, i).name = tags[i].name
<1>1. x[i] \in DOMAIN tags[i].values
  BY TagsFacts DEF Odometer
<1>2. tags[i].values[x[i]] \in Values
  BY <1>1 DEF Values, ToSet
<1> QED
  BY <1>2, TagsFacts, LabelType, LabelFacts DEF TagLabel

LEMMA TaggedFacts ==
    ASSUME TagsOK, indices \in Odometer
    PROVE  /\ Tagged \in Seq(Labels(Values)) /\ Len(Tagged) = Len(tags) /\ InOrder(Tagged)
           /\ \A i \in DOMAIN tags : Tagged[i] = TagLabel(indices, i)
<1>1. /\ DOMAIN Tagged = DOMAIN tags
      /\ \A i \in DOMAIN tags : /\ Tagged[i] = TagLabel(indices, i)
                                /\ Tagged[i] \in Labels(Values)
                                /\ Tagged[i].name = tags[i].name
  BY TagLabelFacts DEF Tagged, TagLabel
<1>2. Tagged \in [1..Len(tags) -> Labels(Values)]
  <2>1. Tagged = [i \in 1..Len(tags) |-> Tagged[i]]
    BY <1>1, TagsFacts DEF Tagged
  <2> QED
    BY <1>1, <2>1, TagsFacts
<1>3. Tagged \in Seq(Labels(Values)) /\ Len(Tagged) = Len(tags)
  BY <1>2, TagsFacts
<1> QED
  BY <1>1, <1>3 DEF TagsOK, InOrder

\* The metric's label, and after it the others in order.
Headed(p) ==
    /\ p \in Seq(Labels(Values)) /\ Len(p) \in Nat /\ Len(p) >= 2
    /\ p[1] = Label(MetricName, 0)
    /\ \A k \in 2..Len(p) : p[k].name # MetricName
    /\ \A j, k \in 2..Len(p) : j < k => p[j].name < p[k].name

LEMMA HeadFacts ==
    ASSUME NEW b \in Seq(Labels(Values)), InOrder(b), b # <<>>,
           \A l \in Range(b) : l.name # MetricName
    PROVE  LET p == <<Label(MetricName, 0)>> \o b
           IN  /\ Headed(p) /\ Range(p) = {Label(MetricName, 0)} \cup Range(b)
               /\ \A k \in 2..Len(p) : p[k] \in Range(b)
<1> DEFINE m == Label(MetricName, 0)
           n == Len(b)
           p == <<m>> \o b
<1>1. m \in Labels(Values)
  BY NamesFacts, LabelType DEF Values
<1>2. n \in Nat \ {0} /\ DOMAIN b = 1..n
  OBVIOUS
<1>3. <<m>> \in Seq(Labels(Values)) /\ Len(<<m>>) = 1 /\ Range(<<m>>) = {m}
  BY <1>1, InOrderOne
<1> HIDE DEF m
<1>4. p \in Seq(Labels(Values)) /\ Len(p) = n + 1 /\ Range(p) = {m} \cup Range(b)
  <2>1. /\ p \in Seq(Labels(Values)) /\ Len(p) = Len(<<m>>) + Len(b)
        /\ Range(p) = Range(<<m>>) \cup Range(b)
    <3> DEFINE h == <<m>>
    <3>1. h \in Seq(Labels(Values))
      BY <1>3
    <3> HIDE DEF h
    <3>2. /\ h \o b \in Seq(Labels(Values)) /\ Len(h \o b) = Len(h) + Len(b)
          /\ Range(h \o b) = Range(h) \cup Range(b)
      BY <3>1, ConcatFacts
    <3> QED
      BY <3>2 DEF h
  <2> QED
    BY <1>2, <1>3, <2>1
<1>5. p[1] = m /\ \A k \in 2..(n + 1) : p[k] = b[k - 1]
  BY <1>1, <1>2
<1> HIDE DEF p
<1>6. \A k \in 2..(n + 1) : k - 1 \in 1..n /\ p[k] \in Range(b)
  <2>1. \A k \in 2..(n + 1) : k - 1 \in 1..n
    BY <1>2
  <2> QED
    BY <1>2, <1>5, <2>1 DEF Range
<1>7. ASSUME NEW j \in 2..(n + 1), NEW k \in 2..(n + 1), j < k PROVE p[j].name < p[k].name
  <2>1. j - 1 < k - 1
    BY <1>7
  <2>2. b[j - 1].name < b[k - 1].name
    BY <1>2, <1>6, <2>1 DEF InOrder
  <2> QED
    BY <1>5, <2>2
<1>8. n + 1 \in Nat /\ n + 1 >= 2
  BY <1>2
<1>9. Headed(p)
  BY <1>4, <1>5, <1>6, <1>7, <1>8 DEF Headed, m
<1> QED
  BY <1>4, <1>6, <1>9 DEF p, m

LEMMA PlainFacts ==
    ASSUME TagsOK, indices \in Odometer
    PROVE  /\ Headed(Plain) /\ \A k \in 2..Len(Plain) : Plain[k].name # ChurnId
           /\ \A e : Range(Plain) = LabelsOf(indices, e, FALSE)
<1> DEFINE n == Len(tags)
           spot == PlaceFor(Replica, tags, 1)
           r == Label(Replica, 0)
           first == SubSeq(Tagged, 1, spot - 1)
           rest == SubSeq(Tagged, spot - 1 + 1, n)
           B == Present(first)
           C == Present(rest)
           V == Values
<1>1. n \in Nat /\ DOMAIN tags = 1..n
  BY TagsFacts
<1>2. /\ spot \in 1..(n + 1)
      /\ \A i \in 1..(spot - 1) : tags[i].name < Replica
      /\ spot <= n => tags[spot].name >= Replica
  <2>1. 1 \in 1..(n + 1) /\ Replica \in Int /\ \A i \in 1..n : tags[i].name \in Int
    BY <1>1, TagsFacts, NamesFacts
  <2> HIDE DEF n
  <2> QED
    BY <1>1, <2>1, PlaceFacts DEF n
<1>3. Plain = <<Label(MetricName, 0)>> \o (B \o <<r>> \o C)
  BY DEF Plain, InsertIndex
<1> HIDE DEF spot
<1>4. /\ Tagged \in Seq(Labels(V)) /\ Len(Tagged) = n /\ InOrder(Tagged)
      /\ \A i \in 1..n : Tagged[i] = TagLabel(indices, i) /\ Tagged[i].name = tags[i].name
  BY <1>1, TaggedFacts, TagLabelFacts
<1>5. spot - 1 \in 0..n /\ spot - 1 + 1 = spot /\ 1 \in 1..(n + 1)
  BY <1>1, <1>2
<1>6. /\ first \in Seq(Labels(V)) /\ InOrder(first) /\ Range(first) = {Tagged[i] : i \in 1..(spot - 1)}
      /\ rest \in Seq(Labels(V)) /\ InOrder(rest) /\ Range(rest) = {Tagged[i] : i \in spot..n}
  <2>1. n \in 0..n
    BY <1>1
  <2>2. /\ SubSeq(Tagged, 1, spot - 1) \in Seq(Labels(V)) /\ InOrder(SubSeq(Tagged, 1, spot - 1))
        /\ Range(SubSeq(Tagged, 1, spot - 1)) = {Tagged[i] : i \in 1..(spot - 1)}
    BY <1>4, <1>5, InOrderPart
  <2>3. /\ SubSeq(Tagged, spot, n) \in Seq(Labels(V)) /\ InOrder(SubSeq(Tagged, spot, n))
        /\ Range(SubSeq(Tagged, spot, n)) = {Tagged[i] : i \in spot..n}
    BY <1>2, <1>4, <2>1, InOrderPart
  <2> QED
    BY <1>5, <2>2, <2>3
<1>7. ASSUME NEW i \in spot..n PROVE i \in 1..n /\ tags[i].name > Replica
  <2>1. i \in 1..n /\ spot \in 1..n
    BY <1>1, <1>2
  <2>2. tags[spot].name >= Replica /\ tags[spot].name # Replica /\ tags[spot].name \in Int
    BY <1>1, <1>2, <2>1, TagsFacts
  <2>3. i = spot \/ tags[spot].name < tags[i].name
    BY <1>1, <2>1 DEF TagsOK, InOrder
  <2>4. tags[i].name \in Int
    BY <1>1, <2>1, TagsFacts
  <2> QED
    BY <2>1, <2>2, <2>3, <2>4, NamesFacts
<1>8. /\ B \in Seq(Labels(V)) /\ InOrder(B) /\ Range(B) = {l \in Range(first) : l.value # Empty}
      /\ C \in Seq(Labels(V)) /\ InOrder(C) /\ Range(C) = {l \in Range(rest) : l.value # Empty}
  <2> HIDE DEF first, rest
  <2> QED
    BY <1>6, PresentFacts
<1> HIDE DEF first, rest, B, C
<1>9. r \in Labels(V) /\ r.name = Replica
  BY NamesFacts, LabelType, LabelFacts DEF Values
<1>10. <<r>> \in Seq(Labels(V)) /\ InOrder(<<r>>) /\ Range(<<r>>) = {r}
  <2> HIDE DEF r
  <2> QED
    BY <1>9, InOrderOne
<1> HIDE DEF r
<1>11. \A l \in Range(B) : l.name < Replica
  <2> SUFFICES ASSUME NEW l \in Range(B) PROVE l.name < Replica
    OBVIOUS
  <2>1. PICK i \in 1..(spot - 1) : l = Tagged[i]
    BY <1>6, <1>8
  <2>2. i \in 1..n
    BY <1>1, <1>2
  <2> QED
    BY <1>2, <1>4, <2>1, <2>2
<1>12. \A l \in Range(C) : l.name > Replica
  <2> SUFFICES ASSUME NEW l \in Range(C) PROVE l.name > Replica
    OBVIOUS
  <2>1. PICK i \in spot..n : l = Tagged[i]
    BY <1>6, <1>8
  <2> QED
    BY <1>4, <1>7, <2>1
<1>13. B \o <<r>> \in Seq(Labels(V)) /\ InOrder(B \o <<r>>) /\ Range(B \o <<r>>) = Range(B) \cup {r}
  <2>1. \A a \in Range(B), b \in Range(<<r>>) : a.name < b.name
    BY <1>9, <1>10, <1>11
  <2> QED
    <3> DEFINE h == <<r>>
    <3>1. /\ h \in Seq(Labels(V)) /\ InOrder(h) /\ Range(h) = {r}
          /\ \A a \in Range(B), b \in Range(h) : a.name < b.name
      BY <1>10, <2>1
    <3> HIDE DEF h
    <3>2. B \o h \in Seq(Labels(V)) /\ InOrder(B \o h) /\ Range(B \o h) = Range(B) \cup Range(h)
      BY <1>8, <3>1, InOrderConcat
    <3> QED
      BY <3>1, <3>2 DEF h
<1> DEFINE body == B \o <<r>> \o C
<1>14. body \in Seq(Labels(V)) /\ InOrder(body) /\ Range(body) = Range(B) \cup {r} \cup Range(C)
  <2> DEFINE c == B \o <<r>>
  <2>1. \A a \in Range(c), b \in Range(C) : a.name < b.name
    <3> SUFFICES ASSUME NEW a \in Range(c), NEW b \in Range(C) PROVE a.name < b.name
      OBVIOUS
    <3>1. a.name \in Int /\ b.name \in Int
      <4>1. a \in Labels(V) /\ b \in Labels(V)
        BY <1>8, <1>13 DEF Range
      <4> QED
        BY <4>1 DEF Labels
    <3>2. a.name <= Replica
      <4>1. a = r \/ a \in Range(B)
        BY <1>13
      <4> QED
        BY <1>9, <1>11, <3>1, <4>1, NamesFacts
    <3>3. b.name > Replica
      BY <1>12
    <3> QED
      BY <3>1, <3>2, <3>3, NamesFacts
  <2>2. c \in Seq(Labels(V)) /\ InOrder(c) /\ Range(c) = Range(B) \cup {r}
    BY <1>13
  <2> HIDE DEF c
  <2>3. c \o C \in Seq(Labels(V)) /\ InOrder(c \o C) /\ Range(c \o C) = Range(c) \cup Range(C)
    BY <1>8, <2>1, <2>2, InOrderConcat
  <2> QED
    BY <2>2, <2>3 DEF c
<1> HIDE DEF body
<1>15. Range(body) = {r} \cup {l \in {TagLabel(indices, i) : i \in DOMAIN tags} : l.value # Empty}
  <2>1. 1..n = 1..(spot - 1) \cup spot..n
    BY <1>1, <1>2
  <2>2. {TagLabel(indices, i) : i \in DOMAIN tags} = Range(first) \cup Range(rest)
    BY <1>1, <1>4, <1>6, <2>1
  <2> QED
    BY <1>8, <1>14, <2>2
<1>16. \A l \in Range(body) : l.name # MetricName /\ l.name # ChurnId
  <2> SUFFICES ASSUME NEW l \in Range(body) PROVE l.name # MetricName /\ l.name # ChurnId
    OBVIOUS
  <2>1. CASE l = r
    BY <1>9, <2>1, NamesFacts
  <2>2. ASSUME NEW i \in DOMAIN tags, l = TagLabel(indices, i) PROVE l.name # MetricName /\ l.name # ChurnId
    BY <2>2, TagsFacts, TagLabelFacts
  <2> QED
    BY <1>15, <2>1, <2>2
<1>17. body # <<>>
  <2>1. Range(<<>>) = {} /\ r \in Range(body)
    BY <1>15 DEF Range
  <2> QED
    BY <2>1
<1>18. /\ Headed(Plain) /\ Range(Plain) = {Label(MetricName, 0)} \cup Range(body)
       /\ \A k \in 2..Len(Plain) : Plain[k] \in Range(body)
  <2>1. Plain = <<Label(MetricName, 0)>> \o body
    BY <1>3 DEF body
  <2> HIDE DEF Plain
  <2> QED
    BY <1>14, <1>16, <1>17, <2>1, HeadFacts
<1>19. \A e : Range(Plain) = LabelsOf(indices, e, FALSE)
  BY <1>15, <1>18 DEF LabelsOf, r
<1> QED
  BY <1>16, <1>18, <1>19

LEMMA ChurnedFacts ==
    ASSUME NEW p, Headed(p), \A k \in 2..Len(p) : p[k].name # ChurnId, churnEpoch \in Nat
    PROVE  /\ Headed(WithChurn(p))
           /\ Range(WithChurn(p)) = Range(p) \cup {Label(ChurnId, churnEpoch)}
<1> DEFINE n == Len(p)
           e == Label(ChurnId, churnEpoch)
           spot == ChurnPlace(p)
           q == WithChurn(p)
<1>1. /\ p \in Seq(Labels(Values)) /\ n \in Nat /\ n >= 2 /\ DOMAIN p = 1..n
      /\ p[1] = Label(MetricName, 0)
      /\ \A k \in 2..n : p[k].name # MetricName /\ p[k].name # ChurnId
      /\ \A j, k \in 2..n : j < k => p[j].name < p[k].name
  BY DEF Headed
<1>2. \A k \in 1..n : p[k].name \in Int
  BY <1>1, SeqNames
<1>3. /\ spot \in 2..(n + 1)
      /\ \A i \in 2..(spot - 1) : p[i].name < ChurnId
      /\ spot <= n => p[spot].name >= ChurnId
  <2>1. 2 \in 1..(n + 1) /\ ChurnId \in Int
    BY <1>1, NamesFacts
  <2>2. spot = PlaceFor(ChurnId, p, 2)
    BY DEF ChurnPlace
  <2> HIDE DEF spot
  <2> QED
    BY <1>1, <1>2, <2>1, <2>2, PlaceFacts
<1>4. ASSUME NEW i \in spot..n PROVE i \in 2..n /\ p[i].name > ChurnId
  <2>1. i \in 2..n /\ spot \in 2..n /\ spot \in 1..n /\ i \in 1..n /\ spot <= n
    BY <1>1, <1>3
  <2>2. p[spot].name >= ChurnId /\ p[spot].name # ChurnId
    BY <1>1, <1>3, <2>1
  <2>3. i = spot \/ p[spot].name < p[i].name
    BY <1>1, <2>1
  <2> QED
    BY <1>2, <2>1, <2>2, <2>3, NamesFacts
<1>5. e \in Labels(Values) /\ e.name = ChurnId
  BY NamesFacts, LabelType, LabelFacts DEF Values
<1>6. q = InsertAt(p, spot, e)
  BY DEF WithChurn
<1>7. spot \in 1..(n + 1)
  BY <1>3
<1> HIDE DEF spot, e
<1>8. /\ q \in Seq(Labels(Values)) /\ Len(q) = n + 1
      /\ \A j \in 1..(spot - 1) : q[j] = p[j]
      /\ q[spot] = e
      /\ \A j \in (spot + 1)..(n + 1) : q[j] = p[j - 1]
      /\ Range(q) = Range(p) \cup {e}
  <2>1. p \in Seq(Labels(Values)) /\ spot \in 1..(Len(p) + 1) /\ e \in Labels(Values)
    BY <1>1, <1>5, <1>7
  <2>2. /\ InsertAt(p, spot, e) \in Seq(Labels(Values)) /\ Len(InsertAt(p, spot, e)) = n + 1
        /\ \A j \in 1..(spot - 1) : InsertAt(p, spot, e)[j] = p[j]
        /\ InsertAt(p, spot, e)[spot] = e
        /\ \A j \in (spot + 1)..(n + 1) : InsertAt(p, spot, e)[j] = p[j - 1]
        /\ Range(InsertAt(p, spot, e)) = Range(p) \cup {e}
    BY <2>1, InsertFacts
  <2> HIDE DEF q, n
  <2> QED
    BY <1>6, <2>2
<1> HIDE DEF q
<1>9. \A j \in 2..(n + 1) : \/ j \in 2..(spot - 1) /\ j \in 2..n /\ q[j] = p[j]
                            \/ j = spot /\ q[j] = e
                            \/ j - 1 \in spot..n /\ j - 1 \in 2..n /\ q[j] = p[j - 1]
  <2> SUFFICES ASSUME NEW j \in 2..(n + 1)
               PROVE  \/ j \in 2..(spot - 1) /\ j \in 2..n /\ q[j] = p[j]
                      \/ j = spot /\ q[j] = e
                      \/ j - 1 \in spot..n /\ j - 1 \in 2..n /\ q[j] = p[j - 1]
    OBVIOUS
  <2>1. CASE j < spot
    <3>1. j \in 2..(spot - 1) /\ j \in 2..n /\ j \in 1..(spot - 1)
      BY <1>1, <1>3, <2>1
    <3> QED
      BY <1>8, <3>1
  <2>2. CASE j = spot
    BY <1>8, <2>2
  <2>3. CASE spot < j
    <3>1. j - 1 \in spot..n /\ j - 1 \in 2..n /\ j \in (spot + 1)..(n + 1)
      BY <1>1, <1>3, <2>3
    <3> QED
      BY <1>8, <3>1
  <2> QED
    BY <1>3, <2>1, <2>2, <2>3
<1>10. \A j \in 2..(n + 1) : q[j].name # MetricName
  <2> SUFFICES ASSUME NEW j \in 2..(n + 1) PROVE q[j].name # MetricName
    OBVIOUS
  <2> QED
    BY <1>1, <1>5, <1>9, NamesFacts
<1>11. ASSUME NEW j \in 2..(n + 1), NEW k \in 2..(n + 1), j < k PROVE q[j].name < q[k].name
  <2>1. CASE k < spot
    <3>1. j \in 2..(spot - 1) /\ k \in 2..(spot - 1) /\ j \in 2..n /\ k \in 2..n /\ j # spot /\ k # spot
      BY <1>1, <1>3, <1>11, <2>1
    <3>2. q[j] = p[j] /\ q[k] = p[k]
      <4>1. j \in 1..(spot - 1) /\ k \in 1..(spot - 1)
        BY <1>3, <3>1
      <4> QED
        BY <1>8, <4>1
    <3> QED
      BY <1>1, <1>11, <3>1, <3>2
  <2>2. CASE k = spot
    <3>1. j \in 2..(spot - 1) /\ j \in 1..(spot - 1)
      BY <1>3, <1>11, <2>2
    <3> QED
      BY <1>3, <1>5, <1>8, <2>2, <3>1
  <2>3. CASE spot < k
    <3>1. k - 1 \in spot..n /\ k \in (spot + 1)..(n + 1)
      BY <1>1, <1>3, <2>3
    <3>2. q[k] = p[k - 1] /\ k - 1 \in 2..n /\ p[k - 1].name > ChurnId
      BY <1>4, <1>8, <3>1
    <3>3. p[k - 1].name \in Int
      BY <1>1, <1>2, <3>2
    <3>4. CASE j < spot
      <4>1. j \in 1..(spot - 1) /\ j \in 2..(spot - 1) /\ j \in 1..n
        BY <1>1, <1>3, <3>4
      <4>2. q[j] = p[j] /\ p[j].name < ChurnId /\ p[j].name \in Int
        BY <1>2, <1>3, <1>8, <4>1
      <4> QED
        BY <3>2, <3>3, <4>2, NamesFacts
    <3>5. CASE j = spot
      BY <1>5, <1>8, <3>2, <3>3, <3>5, NamesFacts
    <3>6. CASE spot < j
      <4>1. j \in (spot + 1)..(n + 1) /\ j - 1 \in 2..n /\ j - 1 < k - 1
        BY <1>1, <1>3, <1>11, <3>6
      <4>2. q[j] = p[j - 1]
        BY <1>8, <4>1
      <4> QED
        BY <1>1, <3>2, <4>1, <4>2
    <3> QED
      BY <1>3, <3>4, <3>5, <3>6
  <2> QED
    BY <1>3, <2>1, <2>2, <2>3
<1>12. q[1] = p[1]
  <2>1. 1 \in 1..(spot - 1)
    BY <1>3
  <2> QED
    BY <1>8, <2>1
<1>13. n + 1 \in Nat /\ n + 1 >= 2
  BY <1>1
<1>14. Headed(q)
  BY <1>1, <1>8, <1>10, <1>11, <1>12, <1>13 DEF Headed
<1> QED
  BY <1>8, <1>14 DEF q, e

LEMMA OrderedFacts ==
    ASSUME NEW p, Headed(p)
    PROVE  /\ Ordered(p) \in Seq(Labels(Values)) /\ InOrder(Ordered(p))
           /\ ToSet(Ordered(p)) = Range(p)
<1> DEFINE n == Len(p)
<1>1. /\ p \in Seq(Labels(Values)) /\ n \in Nat /\ n >= 2 /\ DOMAIN p = 1..n
      /\ p[1].name = MetricName
      /\ \A k \in 2..n : p[k].name # MetricName
      /\ \A j, k \in 2..n : j < k => p[j].name < p[k].name
  BY LabelFacts DEF Headed
<1>2. \A k \in 1..n : p[k].name \in Int
  BY <1>1, SeqNames
<1>3. ToSet(p) = Range(p)
  BY DEF ToSet, Range
<1>4. ToSet(p) \subseteq Labels(Values) /\ \A k \in 1..n : p[k] \in ToSet(p)
  BY <1>1 DEF ToSet
<1>5. CASE p[2].name < MetricName
  <2>1. IsSequence(p)
    <3>1. p \in [1..n -> ToSet(p)]
      <4>1. p = [k \in 1..n |-> p[k]]
        BY <1>1
      <4> HIDE DEF n
      <4> QED
        BY <1>4, <4>1
    <3> QED
      BY <1>1, <3>1 DEF IsSequence
  <2>2. ASSUME NEW i \in 1..n, NEW j \in 1..n, i < j PROVE p[i].name # p[j].name
    <3>1. j \in 2..n
      BY <2>2
    <3>2. CASE i = 1
      BY <1>1, <3>1, <3>2
    <3>3. CASE i # 1
      <4>1. i \in 2..n /\ i \in 1..n /\ j \in 1..n
        BY <3>3
      <4>2. p[i].name < p[j].name
        BY <1>1, <2>2, <3>1, <4>1
      <4> QED
        BY <1>2, <4>1, <4>2
    <3> QED
      BY <3>2, <3>3
  <2>3. \A i, j \in 1..n : p[i].name = p[j].name => i = j
    <3> SUFFICES ASSUME NEW i \in 1..n, NEW j \in 1..n, p[i].name = p[j].name PROVE i = j
      OBVIOUS
    <3>1. ~ i < j /\ ~ j < i
      BY <2>2
    <3> QED
      BY <1>1, <3>1
  <2>4. /\ Sorted(p) \in Seq(ToSet(p)) /\ ToSet(Sorted(p)) = ToSet(p) /\ InOrder(Sorted(p))
    BY <1>1, <1>2, <2>1, <2>3, SortedFacts
  <2>5. Sorted(p) \in Seq(Labels(Values))
    <3> HIDE DEF n
    <3> DEFINE t == Sorted(p)
    <3>1. t \in Seq(ToSet(p))
      BY <2>4
    <3> HIDE DEF t
    <3>2. t \in Seq(Labels(Values))
      BY <1>4, <3>1
    <3> QED
      BY <3>2 DEF t
  <2> QED
    BY <1>3, <1>5, <2>4, <2>5 DEF Ordered
<1>6. CASE ~ p[2].name < MetricName
  <2>1. 2 \in 1..n /\ 2 \in 2..n
    BY <1>1
  <2>2. p[2].name > MetricName
    BY <1>1, <1>2, <1>6, <2>1, NamesFacts
  <2>3. ASSUME NEW i \in 1..n, NEW j \in 1..n, i < j PROVE p[i].name < p[j].name
    <3>1. j \in 2..n
      BY <2>3
    <3>2. CASE i = 1
      <4>1. j = 2 \/ p[2].name < p[j].name
        BY <1>1, <2>1, <3>1
      <4> QED
        BY <1>1, <1>2, <2>1, <2>2, <3>2, <4>1, NamesFacts
    <3>3. CASE i # 1
      <4>1. i \in 2..n
        BY <3>3
      <4> QED
        BY <1>1, <2>3, <3>1, <4>1
    <3> QED
      BY <3>2, <3>3
  <2>4. InOrder(p)
    BY <1>1, <2>3 DEF InOrder
  <2> QED
    BY <1>1, <1>3, <1>6, <2>4 DEF Ordered
<1> QED
  BY <1>5, <1>6

LEMMA BuildFacts ==
    ASSUME TagsOK, indices \in Odometer, churnEpoch \in Nat
    PROVE  /\ BuildSeriesLabels \in Seq(Labels(Values)) /\ InOrder(BuildSeriesLabels)
           /\ ToSet(BuildSeriesLabels) = LabelsOf(indices, churnEpoch, count < churned)
<1> DEFINE p == IF ShouldChurn THEN WithChurn(Plain) ELSE Plain
<1>1. Headed(Plain) /\ Range(Plain) = LabelsOf(indices, churnEpoch, FALSE)
  BY PlainFacts
<1>2. /\ Headed(WithChurn(Plain))
      /\ Range(WithChurn(Plain)) = LabelsOf(indices, churnEpoch, FALSE) \cup {Label(ChurnId, churnEpoch)}
  BY <1>1, PlainFacts, ChurnedFacts
<1>3. Headed(p) /\ Range(p) = LabelsOf(indices, churnEpoch, count < churned)
  BY <1>1, <1>2 DEF ShouldChurn, LabelsOf
<1>4. BuildSeriesLabels = Ordered(p)
  BY DEF BuildSeriesLabels
<1> HIDE DEF p
<1> QED
  BY <1>3, <1>4, OrderedFacts

-----------------------------------------------------------------------------
(* samples: the odometer, and what label sets tell apart.                    *)

AllLast(x) == \A i \in DOMAIN tags : AtLast(x, i)

LEMMA OdometerFacts ==
    ASSUME TagsOK, NEW x \in Odometer
    PROVE  \A i \in 1..Len(tags) : /\ x[i] \in Nat /\ 1 <= x[i] /\ x[i] <= Len(tags[i].values)
                                   /\ Len(tags[i].values) \in Nat
<1> SUFFICES ASSUME NEW i \in 1..Len(tags)
             PROVE  /\ x[i] \in Nat /\ 1 <= x[i] /\ x[i] <= Len(tags[i].values)
                    /\ Len(tags[i].values) \in Nat
  OBVIOUS
<1>1. i \in DOMAIN tags /\ Len(tags[i].values) \in Nat
  BY TagsFacts
<1>2. x[i] \in 1..Len(tags[i].values)
  BY <1>1 DEF Odometer
<1> QED
  BY <1>1, <1>2

\* The tag that goes on.
LEMMA FirstFree ==
    ASSUME TagsOK, NEW x, ~AllLast(x)
    PROVE  \E i \in 1..Len(tags) : ~AtLast(x, i) /\ \A j \in 1..(i - 1) : AtLast(x, j)
<1> DEFINE I == {i \in 1..Len(tags) : ~AtLast(x, i)}
<1>1. I \in SUBSET (1..Len(tags)) /\ I # {} /\ Len(tags) \in Nat
  BY TagsFacts DEF AllLast
<1> HIDE DEF I
<1>2. Min(I) \in I /\ \A i \in I : Min(I) <= i
  BY <1>1, FirstPlace
<1>3. PICK m \in I : \A i \in I : m <= i
  BY <1>2
<1>4. m \in 1..Len(tags) /\ ~AtLast(x, m)
  BY <1>3 DEF I
<1>5. ASSUME NEW j \in 1..(m - 1) PROVE AtLast(x, j)
  <2>1. j \in 1..Len(tags) /\ ~ m <= j
    BY <1>1, <1>4
  <2> QED
    BY <1>3, <2>1 DEF I
<1> QED
  BY <1>4, <1>5

LEMMA TurnAt ==
    ASSUME TagsOK, NEW x \in Odometer, NEW i \in 1..Len(tags)
    PROVE  /\ (\E j \in 1..(i - 1) : ~AtLast(x, j)) => Turn(x)[i] = x[i]
           /\ (\A j \in 1..(i - 1) : AtLast(x, j)) =>
                 Turn(x)[i] = IF AtLast(x, i) THEN 1 ELSE x[i] + 1
BY TagsFacts DEF Turn

LEMMA TurnFacts ==
    ASSUME TagsOK, NEW x \in Odometer
    PROVE  Turn(x) \in Odometer /\ (~AllLast(x) => Turn(x) # Zero(tags))
<1>1. ASSUME NEW i \in 1..Len(tags) PROVE Turn(x)[i] \in Nat /\ Turn(x)[i] \in 1..Len(tags[i].values)
  <2>1. /\ x[i] \in Nat /\ 1 <= x[i] /\ x[i] <= Len(tags[i].values) /\ Len(tags[i].values) \in Nat
        /\ ~AtLast(x, i) => x[i] # Len(tags[i].values)
    BY OdometerFacts DEF AtLast
  <2>2. Turn(x)[i] \in {x[i], 1} \/ (~AtLast(x, i) /\ Turn(x)[i] = x[i] + 1)
    BY TurnAt
  <2> QED
    BY <2>1, <2>2
<1>2. Turn(x) = [i \in DOMAIN tags |-> Turn(x)[i]]
  BY DEF Turn
<1>3. Turn(x) \in [DOMAIN tags -> Nat]
  BY <1>1, <1>2, TagsFacts
<1>4. Turn(x) \in Odometer
  BY <1>1, <1>3, TagsFacts DEF Odometer
<1>5. ASSUME ~AllLast(x) PROVE Turn(x) # Zero(tags)
  <2>1. PICK i \in 1..Len(tags) : ~AtLast(x, i) /\ \A j \in 1..(i - 1) : AtLast(x, j)
    BY <1>5, FirstFree
  <2>2. Turn(x)[i] = x[i] + 1 /\ x[i] \in Nat /\ 1 <= x[i]
    BY <2>1, TurnAt, OdometerFacts
  <2>3. Zero(tags)[i] = 1
    BY TagsFacts DEF Zero
  <2> QED
    BY <2>2, <2>3
<1> QED
  BY <1>4, <1>5

\* Two combinations that are followed by the same are the same.
LEMMA TurnInjective ==
    ASSUME TagsOK, NEW x \in Odometer, NEW y \in Odometer, ~AllLast(x), ~AllLast(y), Turn(x) = Turn(y)
    PROVE  x = y
<1>0. Len(tags) \in Nat /\ DOMAIN tags = 1..Len(tags)
  BY TagsFacts
<1>1. PICK i \in 1..Len(tags) : ~AtLast(x, i) /\ \A j \in 1..(i - 1) : AtLast(x, j)
  BY FirstFree
<1>2. PICK k \in 1..Len(tags) : ~AtLast(y, k) /\ \A j \in 1..(k - 1) : AtLast(y, j)
  BY FirstFree
<1>3. /\ Turn(x)[i] = x[i] + 1 /\ x[i] \in Nat /\ 1 <= x[i]
      /\ Turn(y)[k] = y[k] + 1 /\ y[k] \in Nat /\ 1 <= y[k]
  BY <1>1, <1>2, TurnAt, OdometerFacts
<1>4. ~ i < k
  <2> SUFFICES ASSUME i < k PROVE FALSE
    OBVIOUS
  <2>1. i \in 1..(k - 1) /\ \A j \in 1..(i - 1) : j \in 1..(k - 1)
    BY <1>0
  <2>2. Turn(y)[i] = 1
    BY <1>2, <2>1, TurnAt
  <2> QED
    BY <1>3, <2>2
<1>5. ~ k < i
  <2> SUFFICES ASSUME k < i PROVE FALSE
    OBVIOUS
  <2>1. k \in 1..(i - 1) /\ \A j \in 1..(k - 1) : j \in 1..(i - 1)
    BY <1>0
  <2>2. Turn(x)[k] = 1
    BY <1>1, <2>1, TurnAt
  <2> QED
    BY <1>3, <2>2
<1>6. i = k
  BY <1>0, <1>4, <1>5
<1>7. ASSUME NEW j \in 1..Len(tags) PROVE x[j] = y[j]
  <2>1. CASE j < i
    <3>1. j \in 1..(i - 1) /\ j \in 1..(k - 1)
      BY <1>0, <1>6, <2>1
    <3> QED
      BY <1>1, <1>2, <3>1 DEF AtLast
  <2>2. CASE j = i
    BY <1>3, <1>6, <2>2
  <2>3. CASE i < j
    <3>1. i \in 1..(j - 1)
      BY <1>0, <2>3
    <3>2. Turn(x)[j] = x[j] /\ Turn(y)[j] = y[j]
      BY <1>1, <1>2, <1>6, <3>1, TurnAt
    <3> QED
      BY <3>2
  <2> QED
    BY <1>0, <2>1, <2>2, <2>3
<1>8. x \in [1..Len(tags) -> Nat] /\ y \in [1..Len(tags) -> Nat]
  BY <1>0 DEF Odometer
<1> QED
  BY <1>7, <1>8

\* A tag's label in the one set is the tag's in the other.
LEMMA SameTag ==
    ASSUME TagsOK, NEW x \in Odometer, NEW y \in Odometer, NEW e, NEW f, NEW c, NEW d,
           LabelsOf(x, e, c) = LabelsOf(y, f, d), NEW i \in DOMAIN tags,
           tags[i].values[x[i]] # Empty
    PROVE  tags[i].values[x[i]] = tags[i].values[y[i]]
<1>1. TagLabel(x, i).value # Empty /\ TagLabel(x, i).name = tags[i].name
  BY LabelFacts DEF TagLabel
<1>2. TagLabel(x, i) \in LabelsOf(x, e, c)
  BY <1>1 DEF LabelsOf
<1>3. TagLabel(x, i) \in LabelsOf(y, f, d)
  BY <1>2
<1>4. /\ tags[i].name # MetricName /\ tags[i].name # ChurnId /\ tags[i].name # Replica
      /\ \A j \in DOMAIN tags : tags[i].name = tags[j].name => i = j
  BY TagsFacts
<1>5. \E j \in DOMAIN tags : TagLabel(x, i) = TagLabel(y, j)
  <2>1. /\ TagLabel(x, i) # Label(MetricName, 0) /\ TagLabel(x, i) # Label(Replica, 0)
        /\ TagLabel(x, i) # Label(ChurnId, f)
    BY <1>1, <1>4, LabelFacts
  <2> QED
    BY <1>3, <2>1 DEF LabelsOf
<1>6. PICK j \in DOMAIN tags : TagLabel(x, i) = TagLabel(y, j)
  BY <1>5
<1>7. TagLabel(y, j).name = tags[j].name /\ TagLabel(y, j).value = tags[j].values[y[j]]
  BY LabelFacts DEF TagLabel
<1>8. TagLabel(x, i).value = tags[i].values[x[i]]
  BY LabelFacts DEF TagLabel
<1>9. i = j
  BY <1>1, <1>4, <1>6, <1>7
<1> QED
  BY <1>6, <1>7, <1>8, <1>9

\* A label set is of one combination and, if it has a churn label, of one epoch.
LEMMA SetsTellApart ==
    ASSUME TagsOK, NEW x \in Odometer, NEW y \in Odometer, NEW e, NEW f,
           NEW c \in BOOLEAN, NEW d \in BOOLEAN, LabelsOf(x, e, c) = LabelsOf(y, f, d)
    PROVE  x = y /\ (c => e = f)
<1>1. ASSUME NEW i \in DOMAIN tags PROVE x[i] = y[i]
  <2>1. tags[i].values[x[i]] = tags[i].values[y[i]]
    <3>1. CASE tags[i].values[x[i]] # Empty
      BY <3>1, SameTag
    <3>2. CASE tags[i].values[y[i]] # Empty
      BY <3>2, SameTag
    <3> QED
      BY <3>1, <3>2
  <2>2. x[i] \in DOMAIN tags[i].values /\ y[i] \in DOMAIN tags[i].values
    BY TagsFacts DEF Odometer
  <2> QED
    BY <2>1, <2>2 DEF TagsOK, IsInjective
<1>2. x = y
  <2>1. x \in [DOMAIN tags -> Nat] /\ y \in [DOMAIN tags -> Nat]
    BY DEF Odometer
  <2> QED
    BY <1>1, <2>1
<1>3. ASSUME c PROVE e = f
  <2>1. Label(ChurnId, e) \in LabelsOf(x, e, c)
    BY <1>3 DEF LabelsOf
  <2>2. Label(ChurnId, e) \in LabelsOf(y, f, d)
    BY <2>1
  <2>3. Label(ChurnId, e) # Label(MetricName, 0) /\ Label(ChurnId, e) # Label(Replica, 0)
    BY LabelFacts, NamesFacts
  <2>4. \A i \in DOMAIN tags : Label(ChurnId, e) # TagLabel(y, i)
    BY LabelFacts, TagLabelFacts, TagsFacts
  <2>5. Label(ChurnId, e) = Label(ChurnId, f)
    BY <2>2, <2>3, <2>4 DEF LabelsOf
  <2> QED
    BY <2>5, LabelFacts
<1> QED
  BY <1>2, <1>3

-----------------------------------------------------------------------------
(* samples: the walk over the combinations.                                  *)

\* A combination is the first, or follows one that left at the place before.
Behind(x, position) ==
    \/ position = 0 /\ x = Zero(tags)
    \/ \E p \in emitted : position = p.position + 1 /\ ~AllLast(p.index) /\ x = Turn(p.index)

LabelTypes ==
    /\ TagsOK
    /\ churned \in Nat /\ churnEpoch \in Nat /\ count \in Nat
    /\ indices \in Odometer
    /\ done \in BOOLEAN

\* What left has the labels of its combination and epoch.
RightLabels ==
    \A a \in emitted : /\ a.index \in Odometer /\ a.position \in Nat /\ a.epoch \in Nat
                       /\ a.labels \in Seq(Labels(Values)) /\ InOrder(a.labels)
                       /\ ToSet(a.labels) = LabelsOf(a.index, a.epoch, a.position < churned)

\* A combination leaves in one place of the walk, whichever epoch it is.
OnePlaceEach ==
    /\ \A a \in emitted : Behind(a.index, a.position)
    /\ ~done => Behind(indices, count)
    /\ \A a, b \in emitted : a.index = b.index => a.position = b.position

LabelInv == LabelTypes /\ RightLabels /\ OnePlaceEach

LEMMA ZeroFacts == ASSUME TagsOK PROVE Zero(tags) \in Odometer
<1>1. \A i \in DOMAIN tags : 1 \in 1..Len(tags[i].values)
  <2> SUFFICES ASSUME NEW i \in DOMAIN tags PROVE 1 \in 1..Len(tags[i].values)
    OBVIOUS
  <2>1. Len(tags[i].values) \in Nat \ {0}
    BY TagsFacts
  <2> QED
    BY <2>1
<1> QED
  BY <1>1 DEF Zero, Odometer

LEMMA LabelsStarted == LabelInit => LabelInv
<1> SUFFICES ASSUME LabelInit PROVE LabelInv
  OBVIOUS
<1>1. PICK list \in TagLists : tags = Sorted(list)
  BY DEF LabelInit
<1>2. /\ IsSequence(list)
      /\ \A i \in DOMAIN list : /\ list[i].name \in Int \ Reserved
                                /\ IsSequence(list[i].values)
                                /\ list[i].values # <<>>
                                /\ IsInjective(list[i].values)
                                /\ \A j \in DOMAIN list : list[i].name = list[j].name => i = j
  BY TagsAssumption
<1>3. /\ tags \in Seq(ToSet(list)) /\ ToSet(tags) = ToSet(list) /\ InOrder(tags)
      /\ DOMAIN tags = DOMAIN list
  BY <1>1, <1>2, SortedFacts
<1>4. TagsOK
  <2>1. IsSequence(tags)
    BY <1>3 DEF IsSequence
  <2>2. ASSUME NEW i \in DOMAIN tags
        PROVE  /\ tags[i].name \in Int \ Reserved
               /\ IsSequence(tags[i].values)
               /\ tags[i].values # <<>>
               /\ IsInjective(tags[i].values)
    <3>1. tags[i] \in ToSet(list)
      BY <1>3, <2>2 DEF ToSet
    <3>2. PICK k \in DOMAIN list : tags[i] = list[k]
      BY <3>1 DEF ToSet
    <3> QED
      BY <1>2, <3>2
  <2> QED
    BY <1>3, <2>1, <2>2 DEF TagsOK
<1>5. churned \in Nat
  BY TagsAssumption DEF LabelInit
<1>6. LabelTypes
  BY <1>4, <1>5, ZeroFacts DEF LabelInit, LabelTypes
<1>7. RightLabels /\ OnePlaceEach
  BY DEF LabelInit, RightLabels, OnePlaceEach, Behind
<1> QED
  BY <1>6, <1>7 DEF LabelInv

\* What is left of a walk has a place of its own.
LEMMA PlaceOfIndex ==
    ASSUME LabelInv, NEW x \in Odometer, NEW n, Behind(x, n), NEW b \in emitted, b.index = x
    PROVE  b.position = n
<1>1. TagsOK /\ Behind(x, b.position)
  BY DEF LabelInv, LabelTypes, OnePlaceEach
<1>2. \A p \in emitted : ~AllLast(p.index) => Turn(p.index) # Zero(tags)
  BY <1>1, TurnFacts DEF LabelInv, RightLabels
<1>3. CASE b.position = 0 /\ x = Zero(tags)
  BY <1>2, <1>3 DEF Behind
<1>4. ASSUME NEW p \in emitted, b.position = p.position + 1, ~AllLast(p.index), x = Turn(p.index)
      PROVE  b.position = n
  <2>1. x # Zero(tags)
    BY <1>2, <1>4
  <2>2. PICK q \in emitted : n = q.position + 1 /\ ~AllLast(q.index) /\ x = Turn(q.index)
    BY <2>1 DEF Behind
  <2>3. p.index \in Odometer /\ q.index \in Odometer
    BY DEF LabelInv, RightLabels
  <2>4. p.index = q.index
    BY <1>1, <1>4, <2>2, <2>3, TurnInjective
  <2>5. p.position = q.position
    BY <2>4 DEF LabelInv, OnePlaceEach
  <2> QED
    BY <1>4, <2>2, <2>5
<1> QED
  BY <1>1, <1>3, <1>4 DEF Behind

LEMMA TagsStay ==
    ASSUME tags' = tags
    PROVE  /\ TagsOK' <=> TagsOK
           /\ Odometer' = Odometer /\ Values' = Values /\ Zero(tags)' = Zero(tags)
           /\ \A x, e, c : LabelsOf(x, e, c)' = LabelsOf(x, e, c)
           /\ \A x : Turn(x)' = Turn(x) /\ (AllLast(x)' <=> AllLast(x))
BY DEF TagsOK, IsSequence, InOrder, IsInjective, Odometer, Values, LabelsOf, TagLabel, Turn, AtLast,
       AllLast, Zero

\* With all that had left a combination stays behind it.
LEMMA BehindStays ==
    ASSUME tags' = tags, emitted \subseteq emitted', NEW x, NEW n, Behind(x, n)
    PROVE  Behind(x, n)'
<1>1. /\ Zero(tags)' = Zero(tags)
      /\ \A y : Turn(y)' = Turn(y) /\ (AllLast(y)' <=> AllLast(y))
  BY TagsStay
<1> QED
  BY <1>1 DEF Behind

LEMMA VisitStep == ASSUME LabelInv, Visit PROVE LabelInv'
<1> DEFINE r == [index |-> indices, position |-> count, epoch |-> churnEpoch,
                 labels |-> BuildSeriesLabels]
<1>1. /\ ~done /\ emitted' = emitted \cup {r}
      /\ count' = count + 1 /\ indices' = Turn(indices)
      /\ done' = AllLast(indices)
      /\ UNCHANGED <<tags, churned, churnEpoch>>
  BY DEF Visit, AllLast
<1>2. LabelTypes /\ RightLabels /\ OnePlaceEach
  BY DEF LabelInv
<1>3. /\ TagsOK' <=> TagsOK
      /\ Odometer' = Odometer /\ Values' = Values /\ Zero(tags)' = Zero(tags)
      /\ \A x, e, c : LabelsOf(x, e, c)' = LabelsOf(x, e, c)
      /\ \A x : Turn(x)' = Turn(x) /\ (AllLast(x)' <=> AllLast(x))
  BY <1>1, TagsStay
<1>4. LabelTypes'
  <2>1. Turn(indices) \in Odometer
    BY <1>2, TurnFacts DEF LabelTypes
  <2>2. AllLast(indices) \in BOOLEAN
    BY DEF AllLast
  <2> QED
    BY <1>1, <1>2, <1>3, <2>1, <2>2 DEF LabelTypes
<1>5. r.index = indices /\ r.position = count /\ r.epoch = churnEpoch /\ r.labels = BuildSeriesLabels
  OBVIOUS
<1> HIDE DEF r
<1>6. RightLabels'
  <2>1. /\ BuildSeriesLabels \in Seq(Labels(Values)) /\ InOrder(BuildSeriesLabels)
        /\ ToSet(BuildSeriesLabels) = LabelsOf(indices, churnEpoch, count < churned)
    BY <1>2, BuildFacts DEF LabelTypes
  <2>2. ASSUME NEW a \in emitted'
        PROVE  /\ a.index \in Odometer /\ a.position \in Nat /\ a.epoch \in Nat
               /\ a.labels \in Seq(Labels(Values)) /\ InOrder(a.labels)
               /\ ToSet(a.labels) = LabelsOf(a.index, a.epoch, a.position < churned)
    <3>1. CASE a = r
      BY <1>2, <1>5, <2>1, <3>1 DEF LabelTypes
    <3>2. CASE a \in emitted
      BY <1>2, <3>2 DEF RightLabels
    <3> QED
      BY <1>1, <3>1, <3>2
  <2>3. Labels(Values)' = Labels(Values)
    BY <1>3 DEF Labels
  <2> QED
    BY <1>1, <1>3, <2>2, <2>3 DEF RightLabels, InOrder
<1>7. OnePlaceEach'
  <2>1. emitted \subseteq emitted' /\ r \in emitted'
    BY <1>1
  <2>2. ASSUME NEW a \in emitted' PROVE Behind(a.index, a.position)
    BY <1>1, <1>2, <1>5 DEF OnePlaceEach
  <2>3. ASSUME NEW a \in emitted' PROVE Behind(a.index, a.position)'
    <3> SUFFICES ASSUME NEW x, x = a.index, NEW n, n = a.position PROVE Behind(x, n)'
      OBVIOUS
    <3>1. Behind(x, n)
      BY <2>2
    <3> QED
      BY <1>1, <2>1, <3>1, BehindStays
  <2>4. ~done' => Behind(indices, count)'
    <3> SUFFICES ASSUME ~done' PROVE Behind(indices, count)'
      OBVIOUS
    <3>1. ~AllLast(indices)
      BY <1>1
    <3>2. /\ count' = r.position + 1 /\ indices' = Turn(r.index)
          /\ ~AllLast(r.index)
      BY <1>1, <1>5, <3>1
    <3>3. \A x : Turn(x)' = Turn(x) /\ (AllLast(x)' <=> AllLast(x))
      BY <1>3
    <3>4. Behind(indices, count)' <=>
             \/ count' = 0 /\ indices' = Zero(tags)'
             \/ \E p \in emitted' : /\ count' = p.position + 1 /\ ~AllLast(p.index)
                                    /\ indices' = Turn(p.index)
      BY <3>3 DEF Behind
    <3> QED
      BY <2>1, <3>2, <3>4
  <2>5. ASSUME NEW b \in emitted, b.index = indices PROVE b.position = count
    BY <1>1, <1>2, <2>5, PlaceOfIndex DEF LabelTypes, OnePlaceEach
  <2>6. \A a, b \in emitted' : a.index = b.index => a.position = b.position
    <3> SUFFICES ASSUME NEW a \in emitted', NEW b \in emitted', a.index = b.index
                 PROVE  a.position = b.position
      OBVIOUS
    <3>1. (a \in emitted \/ a = r) /\ (b \in emitted \/ b = r)
      BY <1>1
    <3>2. CASE a \in emitted /\ b \in emitted
      BY <1>2, <3>2 DEF OnePlaceEach
    <3>3. CASE a = r /\ b \in emitted
      BY <1>5, <2>5, <3>3
    <3>4. CASE a \in emitted /\ b = r
      BY <1>5, <2>5, <3>4
    <3>5. CASE a = r /\ b = r
      BY <3>5
    <3> QED
      BY <3>1, <3>2, <3>3, <3>4, <3>5
  <2> QED
    BY <2>3, <2>4, <2>6 DEF OnePlaceEach
<1> QED
  BY <1>4, <1>6, <1>7 DEF LabelInv

LEMMA NextWalkStep == ASSUME LabelInv, NextWalk PROVE LabelInv'
<1>1. /\ UNCHANGED <<tags, churned, emitted>>
      /\ churnEpoch' = churnEpoch + 1 /\ indices' = Zero(tags) /\ count' = 0 /\ done' = FALSE
  BY DEF NextWalk
<1>2. LabelTypes /\ RightLabels /\ OnePlaceEach
  BY DEF LabelInv
<1>3. /\ TagsOK' <=> TagsOK
      /\ Odometer' = Odometer /\ Values' = Values /\ Zero(tags)' = Zero(tags)
      /\ \A x, e, c : LabelsOf(x, e, c)' = LabelsOf(x, e, c)
  BY <1>1, TagsStay
<1>4. LabelTypes'
  <2>1. Zero(tags) \in Odometer
    BY <1>2, ZeroFacts DEF LabelTypes
  <2>2. churnEpoch + 1 \in Nat
    BY <1>2 DEF LabelTypes
  <2> QED
    BY <1>1, <1>2, <1>3, <2>1, <2>2 DEF LabelTypes
<1>5. RightLabels'
  <2>1. Labels(Values)' = Labels(Values)
    BY <1>3 DEF Labels
  <2> QED
    BY <1>1, <1>2, <1>3, <2>1 DEF RightLabels, InOrder
<1>6. OnePlaceEach'
  <2>1. ASSUME NEW a \in emitted' PROVE Behind(a.index, a.position)'
    <3> SUFFICES ASSUME NEW x, x = a.index, NEW n, n = a.position PROVE Behind(x, n)'
      OBVIOUS
    <3>1. Behind(x, n)
      BY <1>1, <1>2 DEF OnePlaceEach
    <3> QED
      BY <1>1, <3>1, BehindStays
  <2>2. Behind(indices, count)'
    BY <1>1, <1>3 DEF Behind
  <2> QED
    BY <1>1, <1>2, <2>1, <2>2 DEF OnePlaceEach
<1> QED
  BY <1>4, <1>5, <1>6 DEF LabelInv

LEMMA LabelsStep == LabelInv /\ [LabelNext]_labelVars => LabelInv'
<1> SUFFICES ASSUME LabelInv, [LabelNext]_labelVars PROVE LabelInv'
  OBVIOUS
<1>1. CASE UNCHANGED labelVars
  <2>1. UNCHANGED <<tags, churned, churnEpoch, indices, count, done, emitted>>
    BY <1>1 DEF labelVars
  <2>2. /\ TagsOK' <=> TagsOK
        /\ Odometer' = Odometer /\ Values' = Values /\ Zero(tags)' = Zero(tags)
        /\ \A x, e, c : LabelsOf(x, e, c)' = LabelsOf(x, e, c)
        /\ \A x : Turn(x)' = Turn(x) /\ (AllLast(x)' <=> AllLast(x))
    BY <2>1, TagsStay
  <2>3. LabelTypes'
    BY <2>1, <2>2 DEF LabelInv, LabelTypes
  <2>4. RightLabels'
    <3>1. Labels(Values)' = Labels(Values)
      BY <2>2 DEF Labels
    <3> QED
      BY <2>1, <2>2, <3>1 DEF LabelInv, RightLabels, InOrder
  <2>5. OnePlaceEach'
    BY <2>1, <2>2 DEF LabelInv, OnePlaceEach, Behind
  <2> QED
    BY <2>3, <2>4, <2>5 DEF LabelInv
<1> QED
  BY <1>1, VisitStep, NextWalkStep DEF LabelNext

\* What left has the labels of its combination and epoch, in order, and a combination
\* has one place in the walk (stream.go, file_config_timeseries.go).
THEOREM LabelInvariance == LabelSpec => []LabelInv
BY LabelsStarted, LabelsStep, PTL DEF LabelSpec

\* The label sets tell the combinations apart and, of the churned series and of no
\* others, the epochs; and each is in the order of its names.
THEOREM SeriesAreIdentified == LabelSpec => []SeriesIdentity
<1>1. LabelInv => SeriesIdentity
  <2> SUFFICES ASSUME LabelInv PROVE SeriesIdentity
    OBVIOUS
  <2>1. TagsOK /\ churned \in Nat
    BY DEF LabelInv, LabelTypes
  <2>2. ASSUME NEW a \in emitted, NEW b \in emitted
        PROVE  ToSet(a.labels) = ToSet(b.labels) <=>
                  a.index = b.index /\ (a.epoch = b.epoch \/ a.position >= churned)
    <3>1. /\ a.index \in Odometer /\ a.position \in Nat
          /\ ToSet(a.labels) = LabelsOf(a.index, a.epoch, a.position < churned)
          /\ b.index \in Odometer /\ b.position \in Nat
          /\ ToSet(b.labels) = LabelsOf(b.index, b.epoch, b.position < churned)
      BY DEF LabelInv, RightLabels
    <3>2. a.position >= churned <=> ~ a.position < churned
      BY <2>1, <3>1
    <3>3. (a.position < churned) \in BOOLEAN /\ (b.position < churned) \in BOOLEAN
      OBVIOUS
    <3>4. ASSUME ToSet(a.labels) = ToSet(b.labels)
          PROVE  a.index = b.index /\ (a.epoch = b.epoch \/ a.position >= churned)
      <4>1. a.index = b.index /\ (a.position < churned => a.epoch = b.epoch)
        <5> DEFINE c == a.position < churned
                   d == b.position < churned
        <5>1. \A p \in BOOLEAN, q \in BOOLEAN :
                 LabelsOf(a.index, a.epoch, p) = LabelsOf(b.index, b.epoch, q) =>
                    a.index = b.index /\ (p => a.epoch = b.epoch)
          BY <2>1, <3>1, SetsTellApart
        <5>2. /\ c \in BOOLEAN /\ d \in BOOLEAN
              /\ LabelsOf(a.index, a.epoch, c) = LabelsOf(b.index, b.epoch, d)
          BY <3>1, <3>3, <3>4
        <5> HIDE DEF c, d
        <5>3. a.index = b.index /\ (c => a.epoch = b.epoch)
          BY <5>1, <5>2, Zenon
        <5> QED
          BY <5>3 DEF c
      <4> QED
        BY <3>2, <4>1
    <3>5. ASSUME a.index = b.index, a.epoch = b.epoch \/ a.position >= churned
          PROVE  ToSet(a.labels) = ToSet(b.labels)
      <4>1. a.position = b.position
        BY <3>5 DEF LabelInv, OnePlaceEach
      <4> QED
        BY <3>1, <3>2, <3>5, <4>1 DEF LabelsOf
    <3> QED
      BY <3>4, <3>5
  <2>3. ASSUME NEW a \in emitted, NEW i \in 1..(Len(a.labels) - 1)
        PROVE  a.labels[i].name < a.labels[i + 1].name
    <3>1. a.labels \in Seq(Labels(Values)) /\ InOrder(a.labels)
      BY DEF LabelInv, RightLabels
    <3>2. i \in DOMAIN a.labels /\ i + 1 \in DOMAIN a.labels /\ i < i + 1
      BY <3>1
    <3> QED
      BY <3>1, <3>2 DEF InOrder
  <2> QED
    BY <2>2, <2>3 DEF SeriesIdentity
<1> QED
  BY <1>1, LabelInvariance, PTL
=============================================================================
