----------------------------- MODULE FoldLemmas -----------------------------
(***************************************************************************)
(* Lemmas about two operators of the community modules that are defined by *)
(* recursive functions.                                                    *)
(*                                                                         *)
(* SumFunctionOnSet(f, S), the sum of the values of a function over a      *)
(* finite set, takes the elements of S away one at a time, in an order     *)
(* CHOOSE picks.  SumPick is that definition, and everything else follows  *)
(* from it, by least counterexamples on the number of elements.            *)
(*                                                                         *)
(* FlattenSeq(seqs) puts one sequence after another.  FlattenStep is its   *)
(* definition, of one more sequence; what follows from it does by          *)
(* NumbersInduction, an induction over a set of numbers.  A sequence cut   *)
(* into chunks and flattened is itself (ChunksFacts).                      *)
(*                                                                         *)
(* At the end there is the fact about division that closed forms need.     *)
(***************************************************************************)
EXTENDS Integers, Functions, SequencesExt, FiniteSetTheorems, SequenceTheorems,
        WellFoundedInduction, TLAPS

PickOf(S) == CHOOSE x \in S : TRUE

\* One unfolding of the recursive function, on the sets in D.
Unfolding(f, D, g) ==
    [s \in D |-> IF s = {} THEN 0 ELSE f[PickOf(s)] + g[s \ {PickOf(s)}]]

\* g is the recursive function of the definition, on all the subsets of S.
Unfolds(g, f, S) == g = Unfolding(f, SUBSET S, g)

-----------------------------------------------------------------------------

\* A set of natural numbers that is not empty has a least element.
LEMMA LeastOf ==
    ASSUME NEW T \in SUBSET Nat, T # {}
    PROVE  \E n \in T : \A m \in T : n <= m
<1> DEFINE Below == {ss \in Nat \X Nat : ss[1] < ss[2]}
<1>1. IsWellFoundedOn(Below, Nat)
  BY NatLessThanWellFounded, Zenon DEF OpToRel
<1>2. \E n \in T : \A m \in T : ~(<<m, n>> \in Below)
  <2> HIDE DEF Below
  <2> QED
    BY <1>1, WFMin, Zenon
<1>3. PICK n \in T : \A m \in T : ~(<<m, n>> \in Below)
  BY <1>2
<1>4. \A m \in T : ~(m < n)
  <2> TAKE m \in T
  <2>1. m \in Nat /\ n \in Nat /\ ~(<<m, n>> \in Below)
    BY <1>3
  <2> QED
    BY <2>1
<1>5. \A m \in T : m \in Nat /\ n \in Nat
  OBVIOUS
<1> HIDE DEF Below
<1> QED
  BY <1>4, <1>5

\* The least of a set of places.
LEMMA FirstPlace ==
    ASSUME NEW n \in Nat, NEW I \in SUBSET (1..n), I # {}
    PROVE  Min(I) \in I /\ \A i \in I : Min(I) <= i
<1>1. I \subseteq Nat
  OBVIOUS
<1>2. \E m \in I : \A i \in I : m <= i
  <2>1. PICK i \in I : TRUE
    OBVIOUS
  <2>2. i \in Nat
    BY <1>1
  <2> DEFINE P == {k \in Nat : k \in I}
  <2>3. P \in SUBSET Nat /\ P # {}
    BY <2>1, <2>2
  <2>4. PICK m \in P : \A k \in P : m <= k
    BY <2>3, LeastOf
  <2> QED
    BY <1>1, <2>4
<1> QED
  BY <1>2 DEF Min

\* What the definition of the operator says, before it is known that the
\* recursive function exists.
LEMMA SumIsChosen ==
    ASSUME NEW f, NEW S
    PROVE  SumFunctionOnSet(f, S) =
               (CHOOSE g : Unfolds(g, f, S))[S]
BY SMT DEF SumFunctionOnSet, FoldFunctionOnSet, MapThenFoldSet, Unfolds, Unfolding,
           PickOf

\* Taking away the picked element of a finite set leaves a smaller one.
LEMMA PickFacts ==
    ASSUME NEW S, IsFiniteSet(S), S # {}
    PROVE  /\ PickOf(S) \in S
           /\ IsFiniteSet(S \ {PickOf(S)})
           /\ Cardinality(S) \in Nat
           /\ Cardinality(S) > 0
           /\ Cardinality(S \ {PickOf(S)}) = Cardinality(S) - 1
<1>1. PickOf(S) \in S
  BY DEF PickOf
<1>2. IsFiniteSet(S \ {PickOf(S)})
      /\ Cardinality(S \ {PickOf(S)}) = Cardinality(S) - 1
  BY <1>1, FS_RemoveElement, Zenon
<1>3. Cardinality(S) \in Nat
  BY FS_CardinalityType
<1>4. Cardinality(S) # 0
  BY FS_EmptySet
<1> QED
  BY <1>1, <1>2, <1>3, <1>4

\* The recursive function exists.
LEMMA UnfoldingExists ==
    ASSUME NEW f, NEW S, IsFiniteSet(S)
    PROVE  \E g : Unfolds(g, f, S)
<1> DEFINE D(n) == {s \in SUBSET S : Cardinality(s) <= n}
           Bad  == {n \in Nat : ~ \E g : g = Unfolding(f, D(n), g)}
<1>1. \A s \in SUBSET S : IsFiniteSet(s) /\ Cardinality(s) \in Nat
                          /\ Cardinality(s) <= Cardinality(S)
  BY FS_Subset, FS_CardinalityType
<1>2. Bad = {}
  <2> SUFFICES ASSUME Bad # {} PROVE FALSE
    OBVIOUS
  <2>1. PICK n \in Bad : \A m \in Bad : n <= m
    BY LeastOf
  <2>2. CASE n = 0
    <3>1. D(0) = {{}}
      BY <1>1, FS_EmptySet
    <3>2. Unfolding(f, D(0), f) = Unfolding(f, D(0), Unfolding(f, D(0), f))
      BY <3>1 DEF Unfolding
    <3> QED
      BY <2>1, <2>2, <3>2
  <2>3. CASE n # 0
    <3>1. n - 1 \in Nat /\ n - 1 \notin Bad /\ n \in Nat
      <4>1. n \in Nat /\ \A m \in Bad : m \in Nat /\ n <= m
        BY <2>1
      <4> HIDE DEF Bad
      <4> QED
        BY <4>1, <2>3
    <3>2. PICK g : g = Unfolding(f, D(n - 1), g)
      BY <3>1
    <3> DEFINE h == Unfolding(f, D(n), g)
    <3>3. \A s \in D(n - 1) : s \in D(n) /\ h[s] = g[s]
      <4> SUFFICES ASSUME NEW s \in D(n - 1) PROVE s \in D(n) /\ h[s] = g[s]
        OBVIOUS
      <4>1. s \in D(n)
        BY <1>1, <3>1
      <4>2. g[s] = Unfolding(f, D(n - 1), g)[s]
        BY <3>2, Zenon
      <4> QED
        BY <4>1, <4>2 DEF Unfolding
    <3>4. \A s \in D(n) : s # {} => s \ {PickOf(s)} \in D(n - 1)
      <4> SUFFICES ASSUME NEW s \in D(n), s # {} PROVE s \ {PickOf(s)} \in D(n - 1)
        OBVIOUS
      <4>1. Cardinality(s \ {PickOf(s)}) = Cardinality(s) - 1 /\ Cardinality(s) \in Nat
        BY <1>1, PickFacts
      <4>2. Cardinality(s) <= n
        OBVIOUS
      <4> QED
        BY <4>1, <4>2, <3>1
    <3>5. h = Unfolding(f, D(n), h)
      <4> HIDE DEF D
      <4> QED
        BY <3>3, <3>4 DEF Unfolding
    <3> QED
      BY <2>1, <3>5
  <2> QED
    BY <2>2, <2>3
<1>3. D(Cardinality(S)) = SUBSET S
  BY <1>1
<1>4. Cardinality(S) \in Nat
  BY FS_CardinalityType
<1>5. \E g : g = Unfolding(f, D(Cardinality(S)), g)
  BY <1>2, <1>4
<1> QED
  BY <1>3, <1>5 DEF Unfolds

\* The recursive functions of two sets agree on a set both reach, and the
\* value depends on the summed function only through its values there.
LEMMA UnfoldingUnique ==
    ASSUME NEW S, NEW R, IsFiniteSet(S), IsFiniteSet(R), NEW f, NEW e,
           NEW g, Unfolds(g, f, S),
           NEW h, Unfolds(h, e, R),
           NEW T, T \subseteq S, T \subseteq R,
           \A x \in T : f[x] = e[x]
    PROVE  g[T] = h[T]
<1> DEFINE Bad == {n \in Nat : \E s \in SUBSET T : Cardinality(s) = n /\ g[s] # h[s]}
<1>1. \A s \in SUBSET T : IsFiniteSet(s) /\ Cardinality(s) \in Nat
  BY FS_Subset, FS_CardinalityType
<1>2. \A s \in SUBSET T :
          /\ g[s] = IF s = {} THEN 0 ELSE f[PickOf(s)] + g[s \ {PickOf(s)}]
          /\ h[s] = IF s = {} THEN 0 ELSE e[PickOf(s)] + h[s \ {PickOf(s)}]
  <2> SUFFICES ASSUME NEW s \in SUBSET T
               PROVE  /\ g[s] = IF s = {} THEN 0 ELSE f[PickOf(s)] + g[s \ {PickOf(s)}]
                      /\ h[s] = IF s = {} THEN 0 ELSE e[PickOf(s)] + h[s \ {PickOf(s)}]
    OBVIOUS
  <2>1. s \in SUBSET S /\ s \in SUBSET R
    OBVIOUS
  <2>2. g[s] = Unfolding(f, SUBSET S, g)[s] /\ h[s] = Unfolding(e, SUBSET R, h)[s]
    BY Zenon DEF Unfolds
  <2> QED
    BY <2>1, <2>2 DEF Unfolding
<1>3. Bad = {}
  <2> SUFFICES ASSUME Bad # {} PROVE FALSE
    OBVIOUS
  <2>1. PICK n \in Bad : \A m \in Bad : n <= m
    BY LeastOf
  <2>2. PICK s \in SUBSET T : Cardinality(s) = n /\ g[s] # h[s]
    OBVIOUS
  <2>3. s # {}
    BY <1>2, <2>2
  <2> DEFINE r == s \ {PickOf(s)}
  <2>4. r \in SUBSET T /\ PickOf(s) \in T /\ Cardinality(r) = n - 1 /\ n - 1 \in Nat
    BY <1>1, <2>2, <2>3, PickFacts
  <2>5. n - 1 \notin Bad
    BY <2>1, <2>4
  <2>6. g[r] = h[r]
    BY <2>4, <2>5
  <2> QED
    BY <1>2, <2>2, <2>3, <2>4, <2>6
<1>4. Cardinality(T) \in Nat
  BY <1>1
<1> QED
  BY <1>3, <1>4

-----------------------------------------------------------------------------

\* The sum is the value, at the whole set, of such a recursive function.
LEMMA SumIsReached ==
    ASSUME NEW f, NEW S, IsFiniteSet(S)
    PROVE  \E g : /\ Unfolds(g, f, S)
                  /\ SumFunctionOnSet(f, S) = g[S]
<1> DEFINE c == CHOOSE g : Unfolds(g, f, S)
<1>1. Unfolds(c, f, S)
  BY UnfoldingExists, Zenon
<1>2. SumFunctionOnSet(f, S) = c[S]
  BY SumIsChosen, Zenon
<1> QED
  BY <1>1, <1>2, Zenon

\* Nothing adds up to zero.
LEMMA SumEmpty ==
    ASSUME NEW f
    PROVE  SumFunctionOnSet(f, {}) = 0
<1>1. IsFiniteSet({})
  BY FS_EmptySet
<1>2. PICK g : Unfolds(g, f, {}) /\ SumFunctionOnSet(f, {}) = g[{}]
  BY <1>1, SumIsReached
<1>3. g[{}] = Unfolding(f, SUBSET {}, g)[{}]
  BY <1>2, Zenon DEF Unfolds
<1> QED
  BY <1>2, <1>3 DEF Unfolding

\* Two functions that agree on a set have the same sum over it.
LEMMA SumSame ==
    ASSUME NEW S, IsFiniteSet(S), NEW f, NEW e, \A x \in S : f[x] = e[x]
    PROVE  SumFunctionOnSet(f, S) = SumFunctionOnSet(e, S)
<1>1. PICK g : Unfolds(g, f, S) /\ SumFunctionOnSet(f, S) = g[S]
  BY SumIsReached
<1>2. PICK h : Unfolds(h, e, S) /\ SumFunctionOnSet(e, S) = h[S]
  BY SumIsReached
<1>3. g[S] = h[S]
  BY <1>1, <1>2, UnfoldingUnique
<1> QED
  BY <1>1, <1>2, <1>3

\* The definition: the value at the element CHOOSE picks, and the others.
LEMMA SumPick ==
    ASSUME NEW S, IsFiniteSet(S), S # {}, NEW f
    PROVE  SumFunctionOnSet(f, S) =
               f[PickOf(S)] + SumFunctionOnSet(f, S \ {PickOf(S)})
<1> DEFINE R == S \ {PickOf(S)}
<1>1. IsFiniteSet(R) /\ R \subseteq S
  BY PickFacts
<1> HIDE DEF R
<1>2. PICK g : Unfolds(g, f, S) /\ SumFunctionOnSet(f, S) = g[S]
  BY SumIsReached
<1>3. PICK h : Unfolds(h, f, R) /\ SumFunctionOnSet(f, R) = h[R]
  BY <1>1, SumIsReached
<1>4. g[R] = h[R]
  <2>1. \A x \in R : f[x] = f[x]
    OBVIOUS
  <2> QED
    BY <1>1, <1>2, <1>3, <2>1, UnfoldingUnique
<1>5. g[S] = f[PickOf(S)] + g[R]
  <2>1. g[S] = Unfolding(f, SUBSET S, g)[S]
    BY <1>2, Zenon DEF Unfolds
  <2> QED
    BY <2>1 DEF Unfolding, R
<1> QED
  BY <1>2, <1>3, <1>4, <1>5 DEF R

-----------------------------------------------------------------------------

\* Natural numbers and integers add up to one.
LEMMA SumTypes ==
    ASSUME NEW S, IsFiniteSet(S), NEW f, NEW Type, Type \in {Nat, Int},
           \A x \in S : f[x] \in Type
    PROVE  SumFunctionOnSet(f, S) \in Type
<1> DEFINE Bad == {n \in Nat : \E s \in SUBSET S :
                                   /\ Cardinality(s) = n
                                   /\ SumFunctionOnSet(f, s) \notin Type}
<1>1. \A s \in SUBSET S : IsFiniteSet(s) /\ Cardinality(s) \in Nat
  BY FS_Subset, FS_CardinalityType
<1>2. 0 \in Type /\ \A a, b \in Type : a + b \in Type
  <2>1. Type = Nat \/ Type = Int
    OBVIOUS
  <2> QED
    BY <2>1
<1>3. Bad = {}
  <2> SUFFICES ASSUME Bad # {} PROVE FALSE
    OBVIOUS
  <2>1. PICK n \in Bad : \A m \in Bad : n <= m
    BY LeastOf
  <2>2. PICK s \in SUBSET S : Cardinality(s) = n /\ SumFunctionOnSet(f, s) \notin Type
    OBVIOUS
  <2>3. s # {}
    BY <1>2, <2>2, SumEmpty
  <2> DEFINE r == s \ {PickOf(s)}
  <2>4. r \in SUBSET S /\ PickOf(s) \in S /\ Cardinality(r) = n - 1 /\ n - 1 \in Nat
    BY <1>1, <2>2, <2>3, PickFacts
  <2>5. n - 1 \notin Bad
    BY <2>1, <2>4
  <2>6. SumFunctionOnSet(f, r) \in Type
    BY <2>4, <2>5
  <2>7. SumFunctionOnSet(f, s) = f[PickOf(s)] + SumFunctionOnSet(f, r)
    BY <1>1, <2>2, <2>3, SumPick
  <2> QED
    BY <1>2, <2>2, <2>4, <2>6, <2>7
<1> QED
  BY <1>1, <1>3

\* Any element may be taken out first.
LEMMA SumSplit ==
    ASSUME NEW S, IsFiniteSet(S), NEW f, \A x \in S : f[x] \in Int,
           NEW a \in S
    PROVE  /\ SumFunctionOnSet(f, S) = f[a] + SumFunctionOnSet(f, S \ {a})
           /\ SumFunctionOnSet(f, S) \in Int
           /\ SumFunctionOnSet(f, S \ {a}) \in Int
<1> DEFINE Sum(s) == SumFunctionOnSet(f, s)
           Bad == {n \in Nat : \E s \in SUBSET S : \E x \in s :
                                   /\ Cardinality(s) = n
                                   /\ Sum(s) # f[x] + Sum(s \ {x})}
<1>1. \A s \in SUBSET S : IsFiniteSet(s) /\ Cardinality(s) \in Nat
  BY FS_Subset, FS_CardinalityType
<1>2. \A s \in SUBSET S : Sum(s) \in Int
  <2> TAKE s \in SUBSET S
  <2>1. IsFiniteSet(s) /\ \A x \in s : f[x] \in Int
    BY <1>1
  <2> QED
    BY <2>1, SumTypes
<1>3. \A s \in SUBSET S : s # {} => Sum(s) = f[PickOf(s)] + Sum(s \ {PickOf(s)})
  BY <1>1, SumPick
<1>4. Bad = {}
  <2> SUFFICES ASSUME Bad # {} PROVE FALSE
    OBVIOUS
  <2>1. PICK n \in Bad : \A m \in Bad : n <= m
    BY LeastOf
  <2>2. PICK s \in SUBSET S : Cardinality(s) = n /\ \E x \in s : Sum(s) # f[x] + Sum(s \ {x})
    BY <2>1, Zenon
  <2>3. PICK x \in s : Sum(s) # f[x] + Sum(s \ {x})
    BY <2>2
  <2> DEFINE p == PickOf(s)
             both == s \ {x, p}
  <2>4. p \in s /\ s # {}
    BY <2>2, PickFacts, <1>1
  <2>5. p # x
    BY <1>3, <2>2, <2>3
  <2>6. /\ s \ {x} \in SUBSET S /\ p \in s \ {x} /\ (s \ {x}) \ {p} = both
        /\ s \ {p} \in SUBSET S /\ x \in s \ {p} /\ (s \ {p}) \ {x} = both
        /\ both \in SUBSET S
    BY <2>4, <2>5
  <2>7. Cardinality(s \ {x}) = n - 1 /\ Cardinality(s \ {p}) = n - 1 /\ n - 1 \in Nat
    <3>1. /\ Cardinality(s \ {x}) = Cardinality(s) - 1
          /\ Cardinality(s \ {p}) = Cardinality(s) - 1
      BY <1>1, <2>4, FS_RemoveElement
    <3>2. Cardinality(s \ {x}) \in Nat
      BY <1>1, <2>6
    <3> QED
      BY <2>2, <3>1, <3>2
  <2>8. n - 1 \notin Bad
    <3>1. n \in Nat /\ \A m \in Bad : n <= m
      BY <2>1
    <3> HIDE DEF Bad
    <3> QED
      BY <3>1, <2>7
  <2>9. Sum(s \ {x}) = f[p] + Sum(both) /\ Sum(s \ {p}) = f[x] + Sum(both)
    <3>1. \A r \in SUBSET S : Cardinality(r) = n - 1 =>
              \A y \in r : Sum(r) = f[y] + Sum(r \ {y})
      BY <2>7, <2>8
    <3> HIDE DEF p, both, Sum, Bad
    <3>2. Sum(s \ {x}) = f[p] + Sum((s \ {x}) \ {p})
      BY <2>6, <2>7, <3>1
    <3>3. Sum(s \ {p}) = f[x] + Sum((s \ {p}) \ {x})
      BY <2>6, <2>7, <3>1
    <3> QED
      BY <2>6, <3>2, <3>3
  <2>10. Sum(s) = f[p] + Sum(s \ {p})
    BY <1>3, <2>4
  <2>11. f[p] \in Int /\ f[x] \in Int /\ Sum(both) \in Int
    BY <1>2, <2>4, <2>6
  <2> HIDE DEF p, both, Sum
  <2> QED
    BY <2>9, <2>10, <2>11, <2>3
<1>5. S \in SUBSET S /\ S \ {a} \in SUBSET S
  OBVIOUS
<1>6. Cardinality(S) \notin Bad /\ Cardinality(S) \in Nat
  BY <1>1, <1>4
<1>7. Sum(S) = f[a] + Sum(S \ {a})
  <2> HIDE DEF Sum
  <2> QED
    BY <1>5, <1>6
<1> QED
  BY <1>2, <1>5, <1>7

\* What changing the function at one place does to the sum.
LEMMA SumChange ==
    ASSUME NEW S, IsFiniteSet(S), NEW f, NEW e, NEW a \in S,
           \A x \in S : f[x] \in Int /\ e[x] \in Int,
           \A x \in S : x # a => e[x] = f[x]
    PROVE  /\ SumFunctionOnSet(f, S) \in Int
           /\ SumFunctionOnSet(e, S) = SumFunctionOnSet(f, S) + (e[a] - f[a])
<1>1. /\ SumFunctionOnSet(f, S) = f[a] + SumFunctionOnSet(f, S \ {a})
      /\ SumFunctionOnSet(f, S \ {a}) \in Int
  BY SumSplit
<1>2. SumFunctionOnSet(e, S) = e[a] + SumFunctionOnSet(e, S \ {a})
  BY SumSplit
<1>3. SumFunctionOnSet(e, S \ {a}) = SumFunctionOnSet(f, S \ {a})
  <2>1. IsFiniteSet(S \ {a}) /\ \A x \in S \ {a} : e[x] = f[x]
    BY FS_RemoveElement
  <2> QED
    BY <2>1, SumSame
<1>4. f[a] \in Int /\ e[a] \in Int
  OBVIOUS
<1> QED
  BY <1>1, <1>2, <1>3, <1>4

\* A smaller function has a smaller sum.
LEMMA SumMonotone ==
    ASSUME NEW S, IsFiniteSet(S), NEW f, NEW e,
           \A x \in S : f[x] \in Int /\ e[x] \in Int /\ f[x] <= e[x]
    PROVE  SumFunctionOnSet(f, S) <= SumFunctionOnSet(e, S)
<1> DEFINE Less(s) == SumFunctionOnSet(f, s) <= SumFunctionOnSet(e, s)
           Bad == {n \in Nat : \E s \in SUBSET S : Cardinality(s) = n /\ ~Less(s)}
<1>1. \A s \in SUBSET S : IsFiniteSet(s) /\ Cardinality(s) \in Nat
  BY FS_Subset, FS_CardinalityType
<1>2. Bad = {}
  <2> SUFFICES ASSUME Bad # {} PROVE FALSE
    OBVIOUS
  <2>1. PICK n \in Bad : \A m \in Bad : n <= m
    BY LeastOf
  <2>2. PICK s \in SUBSET S : Cardinality(s) = n /\ ~Less(s)
    BY <2>1, Zenon
  <2>3. s # {}
    BY <2>2, SumEmpty
  <2> DEFINE p == PickOf(s)
             r == s \ {p}
  <2>4. r \in SUBSET S /\ p \in s /\ Cardinality(r) = n - 1 /\ n - 1 \in Nat
    BY <1>1, <2>2, <2>3, PickFacts
  <2>5. Less(r)
    <3>1. n \in Nat /\ \A m \in Bad : n <= m
      BY <2>1
    <3>2. n - 1 \notin Bad
      <4> HIDE DEF Bad
      <4> QED
        BY <3>1, <2>4
    <3> HIDE DEF Less, r
    <3> QED
      BY <2>4, <3>2
  <2>6. \A x \in s : f[x] \in Int /\ e[x] \in Int
    OBVIOUS
  <2>7. /\ SumFunctionOnSet(f, s) = f[p] + SumFunctionOnSet(f, r)
        /\ SumFunctionOnSet(f, r) \in Int
        /\ SumFunctionOnSet(e, s) = e[p] + SumFunctionOnSet(e, r)
        /\ SumFunctionOnSet(e, r) \in Int
    BY <1>1, <2>4, <2>6, SumSplit
  <2>8. f[p] \in Int /\ e[p] \in Int /\ f[p] <= e[p]
    BY <2>4
  <2> QED
    BY <2>2, <2>5, <2>7, <2>8
<1> QED
  BY <1>1, <1>2

\* Zeros add up to zero.
LEMMA SumZero ==
    ASSUME NEW S, IsFiniteSet(S), NEW f, \A x \in S : f[x] = 0
    PROVE  SumFunctionOnSet(f, S) = 0
<1> DEFINE Bad == {n \in Nat : \E s \in SUBSET S :
                                   Cardinality(s) = n /\ SumFunctionOnSet(f, s) # 0}
<1>1. \A s \in SUBSET S : IsFiniteSet(s) /\ Cardinality(s) \in Nat
  BY FS_Subset, FS_CardinalityType
<1>2. Bad = {}
  <2> SUFFICES ASSUME Bad # {} PROVE FALSE
    OBVIOUS
  <2>1. PICK n \in Bad : \A m \in Bad : n <= m
    BY LeastOf
  <2>2. PICK s \in SUBSET S : Cardinality(s) = n /\ SumFunctionOnSet(f, s) # 0
    BY <2>1
  <2>3. s # {}
    BY <2>2, SumEmpty
  <2> DEFINE r == s \ {PickOf(s)}
  <2>4. r \in SUBSET S /\ PickOf(s) \in S /\ Cardinality(r) = n - 1 /\ n - 1 \in Nat
    BY <1>1, <2>2, <2>3, PickFacts
  <2>5. n - 1 \notin Bad
    BY <2>1, <2>4
  <2>6. SumFunctionOnSet(f, r) = 0
    BY <2>4, <2>5
  <2>7. SumFunctionOnSet(f, s) = f[PickOf(s)] + SumFunctionOnSet(f, r)
    BY <1>1, <2>2, <2>3, SumPick
  <2> QED
    BY <2>2, <2>4, <2>6, <2>7
<1> QED
  BY <1>1, <1>2

\* Induction over the subsets of a finite set, for a property that is given as
\* the set G of the subsets that have it.
LEMMA SubsetInduction ==
    ASSUME NEW S, IsFiniteSet(S), NEW G, {} \in G,
           \A s \in SUBSET S : \A a \in s : s \ {a} \in G => s \in G
    PROVE  S \in G
<1> DEFINE Bad == {n \in Nat : \E s \in SUBSET S : Cardinality(s) = n /\ s \notin G}
<1>1. \A s \in SUBSET S : IsFiniteSet(s) /\ Cardinality(s) \in Nat
  BY FS_Subset, FS_CardinalityType
<1>2. Bad = {}
  <2> SUFFICES ASSUME Bad # {} PROVE FALSE
    OBVIOUS
  <2>1. PICK n \in Bad : \A m \in Bad : n <= m
    BY LeastOf
  <2>2. PICK s \in SUBSET S : Cardinality(s) = n /\ s \notin G
    BY <2>1
  <2>3. PickOf(s) \in s /\ Cardinality(s \ {PickOf(s)}) = n - 1 /\ n - 1 \in Nat
    <3>1. s # {} /\ IsFiniteSet(s) /\ Cardinality(s) = n
      BY <1>1, <2>2
    <3>2. /\ PickOf(s) \in s /\ Cardinality(s) \in Nat /\ Cardinality(s) > 0
          /\ Cardinality(s \ {PickOf(s)}) = Cardinality(s) - 1
      BY <3>1, PickFacts
    <3> HIDE DEF Bad
    <3> QED
      BY <3>1, <3>2
  <2>4. s \ {PickOf(s)} \in SUBSET S /\ n - 1 \notin Bad
    BY <2>1, <2>3
  <2>5. s \ {PickOf(s)} \in G
    BY <2>3, <2>4
  <2> QED
    BY <2>2, <2>3, <2>5
<1> QED
  BY <1>1, <1>2

\* A sum is at most another one, if each positive summand is at most one of
\* the other's summands, and no two at the same.
LEMMA SumInjected ==
    ASSUME NEW S, IsFiniteSet(S), NEW T, IsFiniteSet(T), NEW f, NEW e, NEW h,
           \A x \in S : f[x] \in Int,
           \A y \in T : e[y] \in Nat,
           \A x \in S : f[x] > 0 => h[x] \in T /\ f[x] <= e[h[x]],
           \A x, y \in S : f[x] > 0 /\ f[y] > 0 /\ h[x] = h[y] => x = y
    PROVE  SumFunctionOnSet(f, S) <= SumFunctionOnSet(e, T)
<1> DEFINE Into(s, t) == \A x \in s : f[x] > 0 => h[x] \in t
           Less(s, t) == SumFunctionOnSet(f, s) <= SumFunctionOnSet(e, t)
           Good == {s \in SUBSET S : \A t \in SUBSET T : Into(s, t) => Less(s, t)}
<1>1. /\ \A s \in SUBSET S : IsFiniteSet(s) /\ \A x \in s : f[x] \in Int
      /\ \A t \in SUBSET T : IsFiniteSet(t) /\ \A y \in t : e[y] \in Nat /\ e[y] \in Int
  BY FS_Subset
<1>2. /\ \A s \in SUBSET S : SumFunctionOnSet(f, s) \in Int
      /\ \A t \in SUBSET T : SumFunctionOnSet(e, t) \in Nat
  BY <1>1, SumTypes
<1>3. {} \in Good
  <2> SUFFICES ASSUME NEW t \in SUBSET T PROVE Less({}, t)
    OBVIOUS
  <2>1. SumFunctionOnSet(f, {}) = 0 /\ SumFunctionOnSet(e, t) \in Nat
    BY <1>2, SumEmpty
  <2> QED
    BY <2>1
<1>4. ASSUME NEW s \in SUBSET S, NEW a \in s, s \ {a} \in Good
      PROVE  s \in Good
  <2> SUFFICES ASSUME NEW t \in SUBSET T, Into(s, t) PROVE Less(s, t)
    OBVIOUS
  <2> DEFINE r == s \ {a}
  <2>1. \A u \in SUBSET T : Into(r, u) => Less(r, u)
    BY <1>4
  <2>2. /\ SumFunctionOnSet(f, s) = f[a] + SumFunctionOnSet(f, r)
        /\ SumFunctionOnSet(f, r) \in Int /\ f[a] \in Int
    BY <1>1, SumSplit
  <2>3. CASE f[a] > 0
    <3> DEFINE b == h[a]
               u == t \ {b}
    <3>1. b \in t /\ b \in T /\ f[a] <= e[b]
      BY <2>3
    <3>2. Into(r, u) /\ u \in SUBSET T
      <4> SUFFICES ASSUME NEW x \in r, f[x] > 0 PROVE h[x] \in t /\ h[x] # b
        OBVIOUS
      <4> QED
        BY <2>3
    <3>3. Less(r, u)
      <4> HIDE DEF r, u, Into, Less
      <4> QED
        BY <2>1, <3>2
    <3>4. /\ SumFunctionOnSet(e, t) = e[b] + SumFunctionOnSet(e, u)
          /\ SumFunctionOnSet(e, u) \in Int /\ e[b] \in Int
      BY <1>1, <3>1, SumSplit
    <3> HIDE DEF b, u, r
    <3> QED
      BY <2>2, <3>1, <3>3, <3>4
  <2>4. CASE ~(f[a] > 0)
    <3>1. Into(r, t)
      OBVIOUS
    <3>2. Less(r, t)
      <4> HIDE DEF r, Into, Less
      <4> QED
        BY <2>1, <3>1
    <3>3. SumFunctionOnSet(e, t) \in Int
      BY <1>2
    <3> HIDE DEF r
    <3> QED
      BY <2>2, <2>4, <3>2, <3>3
  <2> QED
    BY <2>3, <2>4
<1>5. S \in Good
  <2> HIDE DEF Good
  <2> QED
    BY <1>3, <1>4, SubsetInduction
<1>6. Into(S, T)
  OBVIOUS
<1> QED
  BY <1>5, <1>6

-----------------------------------------------------------------------------
(* Sums over the positions of a sequence.                                    *)

\* Taking the last position out.
LEMMA SumLast ==
    ASSUME NEW n \in Nat, NEW f, \A i \in 1..(n + 1) : f[i] \in Int
    PROVE  /\ SumFunctionOnSet(f, 1..n) \in Int
           /\ SumFunctionOnSet(f, 1..(n + 1)) = SumFunctionOnSet(f, 1..n) + f[n + 1]
<1>1. /\ IsFiniteSet(1..(n + 1)) /\ n + 1 \in 1..(n + 1)
      /\ 1..(n + 1) \ {n + 1} = 1..n
  BY FS_Interval
<1>2. /\ SumFunctionOnSet(f, 1..(n + 1)) = f[n + 1] + SumFunctionOnSet(f, 1..n)
      /\ SumFunctionOnSet(f, 1..n) \in Int
  BY <1>1, SumSplit
<1>3. f[n + 1] \in Int
  BY <1>1
<1> QED
  BY <1>2, <1>3

\* Taking the first position out, when the others move down by one.
LEMMA SumFirst ==
    ASSUME NEW n \in Nat, NEW f, NEW e, \A i \in 1..(n + 1) : f[i] \in Int,
           \A i \in 1..n : e[i] = f[i + 1]
    PROVE  /\ SumFunctionOnSet(e, 1..n) \in Int
           /\ SumFunctionOnSet(f, 1..(n + 1)) = f[1] + SumFunctionOnSet(e, 1..n)
<1> DEFINE Good(k) == SumFunctionOnSet(f, 1..(k + 1)) = f[1] + SumFunctionOnSet(e, 1..k)
           Bad == {k \in Nat : k <= n /\ ~Good(k)}
<1>1. \A i \in 1..n : e[i] \in Int
  <2> TAKE i \in 1..n
  <2>1. i + 1 \in 1..(n + 1) /\ e[i] = f[i + 1]
    OBVIOUS
  <2>2. f[i + 1] \in Int
    BY <2>1
  <2> QED
    BY <2>1, <2>2
<1>2. \A k \in Nat : k <= n => SumFunctionOnSet(e, 1..k) \in Int
  <2> SUFFICES ASSUME NEW k \in Nat, k <= n PROVE SumFunctionOnSet(e, 1..k) \in Int
    OBVIOUS
  <2>1. IsFiniteSet(1..k) /\ \A i \in 1..k : e[i] \in Int
    <3>1. \A i \in 1..k : i \in 1..n
      OBVIOUS
    <3> QED
      BY <1>1, <3>1, FS_Interval
  <2> QED
    BY <2>1, SumTypes
<1>3. Bad = {}
  <2> SUFFICES ASSUME Bad # {} PROVE FALSE
    OBVIOUS
  <2>1. PICK k \in Bad : \A m \in Bad : k <= m
    BY LeastOf
  <2>2. k \in Nat /\ k <= n /\ ~Good(k)
    OBVIOUS
  <2>3. f[1] \in Int
    OBVIOUS
  <2>4. CASE k = 0
    <3>1. 1..k = {} /\ 0 \in Nat /\ 1..0 = {} /\ \A i \in 1..(0 + 1) : f[i] \in Int
      BY <2>4
    <3>2. SumFunctionOnSet(f, 1..(0 + 1)) = SumFunctionOnSet(f, 1..0) + f[0 + 1]
      BY <3>1, SumLast
    <3> QED
      BY <2>2, <2>3, <2>4, <3>1, <3>2, SumEmpty
  <2>5. CASE k # 0
    <3>1. k - 1 \in Nat /\ k - 1 <= n /\ (k - 1) + 1 = k /\ k \in 1..n
      BY <2>2, <2>5
    <3>2. Good(k - 1)
      <4>1. \A m \in Bad : k <= m
        BY <2>1
      <4>2. k - 1 \notin Bad
        <5> HIDE DEF Bad
        <5> QED
          BY <4>1, <3>1
      <4> HIDE DEF Good
      <4> QED
        BY <3>1, <4>2
    <3>3. /\ \A i \in 1..(k + 1) : f[i] \in Int
          /\ \A i \in 1..((k - 1) + 1) : e[i] \in Int
      <4>1. \A i \in 1..(k + 1) : i \in 1..(n + 1)
        BY <2>2
      <4>2. \A i \in 1..((k - 1) + 1) : i \in 1..n
        BY <2>2, <3>1
      <4> QED
        BY <1>1, <4>1, <4>2
    <3>4. /\ SumFunctionOnSet(f, 1..(k + 1)) = SumFunctionOnSet(f, 1..k) + f[k + 1]
          /\ SumFunctionOnSet(f, 1..k) \in Int
      BY <2>2, <3>3, SumLast
    <3>5. /\ SumFunctionOnSet(e, 1..((k - 1) + 1)) =
                 SumFunctionOnSet(e, 1..(k - 1)) + e[(k - 1) + 1]
          /\ SumFunctionOnSet(e, 1..(k - 1)) \in Int
      BY <3>1, <3>3, SumLast
    <3>6. e[k] = f[k + 1] /\ f[k + 1] \in Int
      BY <3>1, <3>3
    <3>7. SumFunctionOnSet(f, 1..k) = f[1] + SumFunctionOnSet(e, 1..(k - 1))
      BY <3>1, <3>2
    <3>8. SumFunctionOnSet(e, 1..k) = SumFunctionOnSet(e, 1..(k - 1)) + f[k + 1]
      BY <3>1, <3>5, <3>6
    <3>9. Good(k)
      BY <2>3, <3>4, <3>5, <3>6, <3>7, <3>8
    <3> QED
      BY <2>2, <3>9
  <2> QED
    BY <2>4, <2>5
<1>4. Good(n)
  BY <1>3
<1> QED
  BY <1>2, <1>4

-----------------------------------------------------------------------------
(* Sequences of sequences.                                                   *)

\* One unfolding of the recursive function of FlattenSeq(seqs), on the indices in D.
Glue(seqs, D, g) == [i \in D |-> IF i = 1 THEN seqs[i] ELSE g[i - 1] \o seqs[i]]
Glued(seqs, n, g) == g = Glue(seqs, 1..n, g)

AgreeTo(n, s, t) == \A i \in 1..n : s[i] = t[i]

LEMMA GluedAt ==
    ASSUME NEW seqs, NEW n \in Nat, NEW g, Glued(seqs, n, g), NEW i \in 1..n
    PROVE  g[i] = IF i = 1 THEN seqs[i] ELSE g[i - 1] \o seqs[i]
<1>1. g[i] = Glue(seqs, 1..n, g)[i]
  BY Zenon DEF Glued
<1>2. Glue(seqs, 1..n, g)[i] = IF i = 1 THEN seqs[i] ELSE g[i - 1] \o seqs[i]
  BY DEF Glue
<1> QED
  BY <1>1, <1>2, Zenon

\* A set of numbers with 0 that has n + 1 with n has all.
LEMMA NumbersInduction ==
    ASSUME NEW T, 0 \in T, \A n \in Nat : n \in T => n + 1 \in T
    PROVE  Nat \subseteq T
<1> SUFFICES ASSUME Nat \ T # {} PROVE FALSE
  OBVIOUS
<1>1. PICK n \in Nat \ T : \A m \in Nat \ T : n <= m
  <2> DEFINE U == Nat \ T
  <2>1. U \in SUBSET Nat /\ U # {}
    OBVIOUS
  <2> HIDE DEF U
  <2>2. \E n \in U : \A m \in U : n <= m
    BY <2>1, LeastOf
  <2> QED
    BY <2>2 DEF U
<1>2. n - 1 \in Nat
  BY <1>1
<1>3. n - 1 \in T
  BY <1>1, <1>2
<1> QED
  BY <1>1, <1>2, <1>3

\* The recursive function exists.
LEMMA GluedExists ==
    ASSUME NEW seqs, NEW m \in Nat
    PROVE  \E g : Glued(seqs, m, g)
<1> DEFINE T == {n \in Nat : \E g : Glued(seqs, n, g)}
<1>1. 0 \in T
  <2>1. Glue(seqs, 1..0, seqs) = Glue(seqs, 1..0, Glue(seqs, 1..0, seqs))
    BY DEF Glue
  <2> QED
    BY <2>1 DEF Glued
<1>2. ASSUME NEW n \in Nat, n \in T PROVE n + 1 \in T
  <2>1. PICK g : Glued(seqs, n, g)
    BY <1>2
  <2> DEFINE h == Glue(seqs, 1..(n + 1), g)
  <2>2. ASSUME NEW i \in 1..n PROVE h[i] = g[i]
    <3>1. g[i] = IF i = 1 THEN seqs[i] ELSE g[i - 1] \o seqs[i]
      BY <2>1, GluedAt
    <3>2. i \in 1..(n + 1)
      OBVIOUS
    <3> QED
      BY <3>1, <3>2 DEF Glue
  <2>3. \A i \in 1..(n + 1) : i # 1 => i - 1 \in 1..n
    OBVIOUS
  <2>4. h = Glue(seqs, 1..(n + 1), h)
    BY <2>2, <2>3 DEF Glue
  <2> QED
    BY <2>4 DEF Glued
<1> HIDE DEF T
<1>3. Nat \subseteq T
  BY <1>1, <1>2, NumbersInduction
<1> QED
  BY <1>3 DEF T

\* What it is of an index depends on the sequences up to there only.
LEMMA GluedUnique ==
    ASSUME NEW seqs, NEW more, NEW n \in Nat, NEW m \in Nat, n <= m,
           AgreeTo(n, seqs, more),
           NEW g, Glued(seqs, n, g), NEW h, Glued(more, m, h)
    PROVE  AgreeTo(n, g, h)
<1> USE DEF AgreeTo
<1> DEFINE T == {j \in Nat : j \in 1..n => h[j] = g[j]}
<1>1. 0 \in T
  OBVIOUS
<1>2. ASSUME NEW j \in Nat, j \in T PROVE j + 1 \in T
  <2> SUFFICES ASSUME j + 1 \in 1..n PROVE h[j + 1] = g[j + 1]
    OBVIOUS
  <2>1. g[j + 1] = IF j + 1 = 1 THEN seqs[j + 1] ELSE g[j + 1 - 1] \o seqs[j + 1]
    BY GluedAt
  <2>2. j + 1 \in 1..m
    OBVIOUS
  <2>3. h[j + 1] = IF j + 1 = 1 THEN more[j + 1] ELSE h[j + 1 - 1] \o more[j + 1]
    BY <2>2, GluedAt
  <2>4. j + 1 # 1 => h[j + 1 - 1] = g[j + 1 - 1]
    BY <1>2
  <2> QED
    BY <2>1, <2>3, <2>4
<1> HIDE DEF T
<1>3. Nat \subseteq T
  BY <1>1, <1>2, NumbersInduction
<1> QED
  BY <1>3 DEF T

LEMMA FlattenIsGlued ==
    ASSUME NEW seqs, Len(seqs) \in Nat, Len(seqs) # 0, NEW g, Glued(seqs, Len(seqs), g)
    PROVE  FlattenSeq(seqs) = g[Len(seqs)]
<1> DEFINE f == CHOOSE h : Glued(seqs, Len(seqs), h)
<1>1. FlattenSeq(seqs) = f[Len(seqs)]
  BY DEF FlattenSeq, Glued, Glue
<1>2. Glued(seqs, Len(seqs), f)
  BY GluedExists
<1> HIDE DEF f
<1>3. Len(seqs) \in 1..Len(seqs) /\ Len(seqs) <= Len(seqs) /\ \A i \in 1..Len(seqs) : seqs[i] = seqs[i]
  OBVIOUS
<1>4. AgreeTo(Len(seqs), seqs, seqs)
  BY DEF AgreeTo
<1>5. AgreeTo(Len(seqs), f, g)
  BY <1>2, <1>3, <1>4, GluedUnique
<1> QED
  BY <1>1, <1>3, <1>5 DEF AgreeTo

\* Nothing flattened is nothing.
LEMMA FlattenEmpty == FlattenSeq(<<>>) = <<>>
BY DEF FlattenSeq

\* The first n sequences flattened.
FlattenTo(seqs, n) == FlattenSeq(SubSeq(seqs, 1, n))

\* None of them, and all.
LEMMA FlattenEnds ==
    ASSUME NEW S, NEW seqs \in Seq(Seq(S))
    PROVE  FlattenTo(seqs, 0) = <<>> /\ FlattenTo(seqs, Len(seqs)) = FlattenSeq(seqs)
<1>1. SubSeq(seqs, 1, 0) = <<>> /\ SubSeq(seqs, 1, Len(seqs)) = seqs
  OBVIOUS
<1> QED
  BY <1>1, FlattenEmpty DEF FlattenTo

\* One more than n.
LEMMA FlattenStep ==
    ASSUME NEW S, NEW seqs \in Seq(Seq(S)), NEW n \in Nat, n < Len(seqs)
    PROVE  FlattenTo(seqs, n + 1) = IF n = 0 THEN seqs[1] ELSE FlattenTo(seqs, n) \o seqs[n + 1]
<1> DEFINE fewer == SubSeq(seqs, 1, n)
           more == SubSeq(seqs, 1, n + 1)
<1>1. /\ fewer \in Seq(Seq(S)) /\ Len(fewer) = n
      /\ more \in Seq(Seq(S)) /\ Len(more) = n + 1
      /\ \A i \in 1..n : more[i] = fewer[i]
      /\ more[n + 1] = seqs[n + 1]
  OBVIOUS
<1> HIDE DEF fewer, more
<1>0. n + 1 \in Nat /\ n + 1 # 0 /\ n <= n + 1 /\ n + 1 \in 1..(n + 1) /\ n + 1 - 1 = n
  OBVIOUS
<1>3. PICK h : Glued(more, n + 1, h)
  BY <1>0, GluedExists
<1>4. FlattenSeq(more) = h[n + 1]
  BY <1>0, <1>1, <1>3, FlattenIsGlued
<1>5. h[n + 1] = IF n = 0 THEN seqs[1] ELSE h[n] \o seqs[n + 1]
  <2>1. h[n + 1] = IF n + 1 = 1 THEN more[n + 1] ELSE h[n + 1 - 1] \o more[n + 1]
    BY <1>0, <1>3, GluedAt
  <2>2. n + 1 = 1 <=> n = 0
    OBVIOUS
  <2> QED
    BY <1>0, <1>1, <2>1, <2>2
<1>6. n # 0 => h[n] = FlattenSeq(fewer)
  <2> SUFFICES ASSUME n # 0 PROVE h[n] = FlattenSeq(fewer)
    OBVIOUS
  <2>1. PICK g : Glued(fewer, n, g)
    BY GluedExists
  <2>2. FlattenSeq(fewer) = g[n]
    BY <1>1, <2>1, FlattenIsGlued
  <2>3. n \in 1..n
    OBVIOUS
  <2>4. h[n] = g[n]
    <3>1. AgreeTo(n, fewer, more)
      BY <1>1 DEF AgreeTo
    <3>2. AgreeTo(n, g, h)
      BY <1>0, <1>3, <2>1, <3>1, GluedUnique
    <3> QED
      BY <2>3, <3>2 DEF AgreeTo
  <2> QED
    BY <2>2, <2>4
<1> QED
  BY <1>4, <1>5, <1>6 DEF FlattenTo, fewer, more

\* One sequence more.
LEMMA FlattenAppend ==
    ASSUME NEW S, NEW seqs \in Seq(Seq(S)), NEW s \in Seq(S)
    PROVE  /\ FlattenSeq(Append(seqs, s)) = FlattenSeq(seqs) \o s
<1> DEFINE n == Len(seqs)
           more == Append(seqs, s)
           Q == Seq(S)
<1>1. seqs \in Seq(Q) /\ s \in Q /\ n = Len(seqs)
  OBVIOUS
<1> HIDE DEF n, Q
<1>2. /\ more \in Seq(Q) /\ n \in Nat /\ Len(more) = n + 1 /\ more[n + 1] = s
      /\ SubSeq(more, 1, n) = seqs
      /\ n = 0 => seqs = <<>> /\ more[1] = s
  BY <1>1
<1> HIDE DEF more
<1>3. /\ FlattenTo(more, n + 1) = FlattenSeq(more)
      /\ FlattenTo(more, n + 1) = IF n = 0 THEN more[1] ELSE FlattenTo(more, n) \o more[n + 1]
  <2>1. FlattenTo(more, Len(more)) = FlattenSeq(more)
    BY <1>2, FlattenEnds DEF Q
  <2>2. n < Len(more)
    BY <1>2
  <2>3. FlattenTo(more, n + 1) = IF n = 0 THEN more[1] ELSE FlattenTo(more, n) \o more[n + 1]
    BY <1>2, <2>2, FlattenStep DEF Q
  <2> QED
    BY <1>2, <2>1, <2>3
<1>4. FlattenTo(more, n) = FlattenSeq(seqs)
  BY <1>2 DEF FlattenTo
<1>5. CASE n = 0
  <2>1. FlattenSeq(more) = s /\ FlattenSeq(seqs) = <<>>
    BY <1>2, <1>3, <1>5, FlattenEmpty
  <2>2. <<>> \o s = s
    OBVIOUS
  <2> QED
    BY <2>1, <2>2 DEF more
<1>6. CASE n # 0
  BY <1>2, <1>3, <1>4, <1>6 DEF more
<1> QED
  BY <1>5, <1>6

\* One sequence after another.
LEMMA ConcatFacts ==
    ASSUME NEW S, NEW s \in Seq(S), NEW t \in Seq(S)
    PROVE  /\ s \o t \in Seq(S)
           /\ Len(s \o t) = Len(s) + Len(t)
           /\ Range(s \o t) = Range(s) \cup Range(t)
           /\ IsInjective(s) /\ IsInjective(t) /\ Range(s) \cap Range(t) = {} => IsInjective(s \o t)
<1>1. s \o t \in Seq(S) /\ Len(s \o t) = Len(s) + Len(t) /\ Len(s) \in Nat /\ Len(t) \in Nat
  OBVIOUS
<1>2. \A i \in 1..(Len(s) + Len(t)) :
          (s \o t)[i] = IF i <= Len(s) THEN s[i] ELSE t[i - Len(s)]
  OBVIOUS
<1>3. DOMAIN s = 1..Len(s) /\ DOMAIN t = 1..Len(t) /\ DOMAIN (s \o t) = 1..(Len(s) + Len(t))
  BY <1>1
<1> DEFINE st == s \o t
           m == Len(s)
           n == Len(t)
<1> HIDE DEF st, m, n
<1>4. m \in Nat /\ n \in Nat /\ DOMAIN s = 1..m /\ DOMAIN t = 1..n /\ DOMAIN st = 1..(m + n)
      /\ \A i \in 1..(m + n) : st[i] = IF i <= m THEN s[i] ELSE t[i - m]
  BY <1>1, <1>2, <1>3 DEF st, m, n
<1>5. \A i \in 1..m : i \in 1..(m + n) /\ st[i] = s[i]
  BY <1>4
<1>6. \A j \in 1..n : m + j \in 1..(m + n) /\ st[m + j] = t[j]
  BY <1>4
<1>7. \A i \in 1..(m + n) : i \in 1..m \/ i - m \in 1..n
  BY <1>4
<1>8. Range(st) = Range(s) \cup Range(t)
  <2>1. Range(s) \subseteq Range(st)
    BY <1>4, <1>5 DEF Range
  <2>2. Range(t) \subseteq Range(st)
    BY <1>4, <1>6 DEF Range
  <2>3. Range(st) \subseteq Range(s) \cup Range(t)
    BY <1>4, <1>7, SMTT(30) DEF Range
  <2> QED
    BY <2>1, <2>2, <2>3
<1>9. ASSUME IsInjective(s), IsInjective(t), Range(s) \cap Range(t) = {}
      PROVE  IsInjective(st)
  <2> SUFFICES ASSUME NEW i \in 1..(m + n), NEW j \in 1..(m + n), st[i] = st[j]
               PROVE  i = j
    BY <1>4 DEF IsInjective
  <2>1. CASE i \in 1..m /\ j \in 1..m
    BY <1>4, <1>5, <1>9, <2>1 DEF IsInjective
  <2>2. CASE i \notin 1..m /\ j \notin 1..m
    <3>1. t[i - m] = t[j - m] /\ i - m \in 1..n /\ j - m \in 1..n
      BY <1>4, <1>7, <2>2
    <3>2. i - m = j - m
      BY <1>4, <1>9, <3>1 DEF IsInjective
    <3> QED
      BY <1>4, <3>2
  <2>3. CASE i \in 1..m /\ j \notin 1..m
    <3>1. st[i] = s[i] /\ st[j] = t[j - m] /\ j - m \in 1..n
      BY <1>4, <1>7, <2>3
    <3>2. st[i] \in Range(s) /\ st[j] \in Range(t)
      BY <1>4, <2>3, <3>1 DEF Range
    <3> QED
      BY <1>9, <3>2
  <2>4. CASE i \notin 1..m /\ j \in 1..m
    <3>1. st[j] = s[j] /\ st[i] = t[i - m] /\ i - m \in 1..n
      BY <1>4, <1>7, <2>4
    <3>2. st[j] \in Range(s) /\ st[i] \in Range(t)
      BY <1>4, <2>4, <3>1 DEF Range
    <3> QED
      BY <1>9, <3>2
  <2> QED
    BY <2>1, <2>2, <2>3, <2>4
<1> QED
  BY <1>1, <1>8, <1>9 DEF st

\* One element after another.
LEMMA ConcatAppend ==
    ASSUME NEW S, NEW s \in Seq(S), NEW t \in Seq(S), NEW e \in S
    PROVE  s \o Append(t, e) = Append(s \o t, e)
<1> DEFINE a == s \o Append(t, e)
           b == Append(s \o t, e)
           l == Len(s)
           n == Len(t)
<1>1. l \in Nat /\ n \in Nat
  OBVIOUS
<1>2. /\ a \in Seq(S) /\ Len(a) = l + (n + 1)
      /\ \A i \in 1..(l + (n + 1)) : a[i] = IF i <= l THEN s[i] ELSE Append(t, e)[i - l]
  OBVIOUS
<1>3. /\ b \in Seq(S) /\ Len(b) = (l + n) + 1 /\ b[(l + n) + 1] = e
      /\ \A i \in 1..(l + n) : b[i] = IF i <= l THEN s[i] ELSE t[i - l]
  OBVIOUS
<1>4. /\ \A j \in 1..n : Append(t, e)[j] = t[j]
      /\ Append(t, e)[n + 1] = e
  OBVIOUS
<1> HIDE DEF a, b, l, n
<1>5. \A i \in 1..(l + (n + 1)) : a[i] = b[i]
  <2> TAKE i \in 1..(l + (n + 1))
  <2>1. CASE i <= l
    BY <1>1, <1>2, <1>3, <2>1
  <2>2. CASE i > l /\ i <= l + n
    <3>1. i - l \in 1..n /\ i \in 1..(l + n)
      BY <1>1, <2>2
    <3> QED
      BY <1>1, <1>2, <1>3, <1>4, <2>2, <3>1
  <2>3. CASE i = l + (n + 1)
    <3>1. i - l = n + 1 /\ i = (l + n) + 1 /\ ~(i <= l)
      BY <1>1, <2>3
    <3> QED
      BY <1>2, <1>3, <1>4, <3>1
  <2> QED
    BY <1>1, <2>1, <2>2, <2>3
<1>6. Len(a) = Len(b)
  BY <1>1, <1>2, <1>3
<1>7. a = b
  BY <1>1, <1>2, <1>3, <1>5, <1>6
<1> QED
  BY <1>7 DEF a, b

\* What is in the flattened sequence.
LEMMA FlattenRange ==
    ASSUME NEW S, NEW seqs \in Seq(Seq(S))
    PROVE  /\ FlattenSeq(seqs) \in Seq(S)
           /\ Range(FlattenSeq(seqs)) = UNION {Range(seqs[i]) : i \in 1..Len(seqs)}
<1> DEFINE F(n) == FlattenTo(seqs, n)
           T == {n \in Nat : n <= Len(seqs) =>
                    F(n) \in Seq(S) /\ Range(F(n)) = UNION {Range(seqs[i]) : i \in 1..n}}
<1>0. Len(seqs) \in Nat /\ \A i \in 1..Len(seqs) : seqs[i] \in Seq(S)
  OBVIOUS
<1>1. 0 \in T
  <2>1. F(0) = <<>>
    BY FlattenEnds
  <2>2. Range(<<>>) = {}
    BY DEF Range
  <2>3. <<>> \in Seq(S) /\ 1..0 = {}
    OBVIOUS
  <2> HIDE DEF F
  <2> QED
    BY <2>1, <2>2, <2>3
<1>2. ASSUME NEW n \in Nat, n \in T PROVE n + 1 \in T
  <2> SUFFICES ASSUME n + 1 <= Len(seqs)
               PROVE  /\ F(n + 1) \in Seq(S)
                      /\ Range(F(n + 1)) = UNION {Range(seqs[i]) : i \in 1..(n + 1)}
    OBVIOUS
  <2>1. F(n) \in Seq(S) /\ Range(F(n)) = UNION {Range(seqs[i]) : i \in 1..n}
    BY <1>0, <1>2
  <2>2. F(n + 1) = IF n = 0 THEN seqs[1] ELSE F(n) \o seqs[n + 1]
    <3>1. n < Len(seqs)
      BY <1>0
    <3> QED
      BY <3>1, FlattenStep
  <2>3. seqs[n + 1] \in Seq(S)
    BY <1>0
  <2>4. 1..(n + 1) = 1..n \cup {n + 1}
    OBVIOUS
  <2>5. UNION {Range(seqs[i]) : i \in 1..(n + 1)} = (UNION {Range(seqs[i]) : i \in 1..n}) \cup Range(seqs[n + 1])
    BY <2>4
  <2> HIDE DEF F
  <2>6. CASE n = 0
    <3>1. 1..n = {} /\ n + 1 = 1
      BY <2>6
    <3> QED
      BY <2>2, <2>3, <2>5, <2>6, <3>1
  <2>7. CASE n # 0
    <3> DEFINE f == F(n)
               last == seqs[n + 1]
    <3>1. F(n + 1) = f \o last
      BY <2>2, <2>7
    <3>2. f \in Seq(S) /\ last \in Seq(S)
      BY <2>1, <2>3
    <3> HIDE DEF f, last
    <3>3. f \o last \in Seq(S) /\ Range(f \o last) = Range(f) \cup Range(last)
      BY <3>2, ConcatFacts
    <3>4. Range(F(n + 1)) = (UNION {Range(seqs[i]) : i \in 1..n}) \cup Range(seqs[n + 1])
      BY <2>1, <3>1, <3>3 DEF f, last
    <3> QED
      BY <2>5, <3>1, <3>3, <3>4
  <2> QED
    BY <2>6, <2>7
<1> HIDE DEF T
<1>3. Len(seqs) \in T
  BY <1>0, <1>1, <1>2, NumbersInduction
<1>4. F(Len(seqs)) = FlattenSeq(seqs)
  BY FlattenEnds
<1> QED
  BY <1>0, <1>3, <1>4 DEF T

\* Sequences without repetition, no two of which have an element in common, have
\* none when they are flattened either.
LEMMA FlattenInjective ==
    ASSUME NEW S, NEW seqs \in Seq(Seq(S)),
           \A i \in 1..Len(seqs) : IsInjective(seqs[i]),
           \A i, j \in 1..Len(seqs) : i # j => Range(seqs[i]) \cap Range(seqs[j]) = {}
    PROVE  IsInjective(FlattenSeq(seqs))
<1> DEFINE F(n) == FlattenTo(seqs, n)
           T == {n \in Nat : n <= Len(seqs) => IsInjective(F(n))}
<1>0. Len(seqs) \in Nat /\ \A i \in 1..Len(seqs) : seqs[i] \in Seq(S)
  OBVIOUS
<1>1. 0 \in T
  <2>1. F(0) = <<>>
    BY FlattenEnds
  <2>2. IsInjective(<<>>)
    BY DEF IsInjective
  <2>3. <<>> \in Seq(S) /\ 1..0 = {}
    OBVIOUS
  <2> HIDE DEF F
  <2> QED
    BY <2>1, <2>2, <2>3
<1>2. ASSUME NEW n \in Nat, n \in T PROVE n + 1 \in T
  <2> SUFFICES ASSUME n + 1 <= Len(seqs)
               PROVE  IsInjective(F(n + 1))
    OBVIOUS
  <2>1. n < Len(seqs) /\ n + 1 \in 1..Len(seqs) /\ n + 1 \in Nat
    BY <1>0
  <2>2. IsInjective(F(n))
    BY <1>0, <1>2, <2>1
  <2>3. F(n + 1) = IF n = 0 THEN seqs[1] ELSE F(n) \o seqs[n + 1]
    BY <2>1, FlattenStep
  <2>4. SubSeq(seqs, 1, n) \in Seq(Seq(S)) /\ Len(SubSeq(seqs, 1, n)) = n
        /\ \A i \in 1..n : SubSeq(seqs, 1, n)[i] = seqs[i]
    BY <2>1
  <2>5. F(n) \in Seq(S) /\ Range(F(n)) = UNION {Range(seqs[i]) : i \in 1..n}
    <3>1. F(n) \in Seq(S) /\ Range(F(n)) = UNION {Range(SubSeq(seqs, 1, n)[i]) : i \in 1..n}
      BY <2>4, FlattenRange DEF FlattenTo
    <3> QED
      BY <2>4, <3>1
  <2>6. seqs[n + 1] \in Seq(S) /\ IsInjective(seqs[n + 1])
    BY <1>0, <2>1
  <2>7. Range(F(n)) \cap Range(seqs[n + 1]) = {}
    <3>1. \A i \in 1..n : i \in 1..Len(seqs) /\ i # n + 1
      BY <1>0, <2>1
    <3>2. \A i \in 1..n : Range(seqs[i]) \cap Range(seqs[n + 1]) = {}
      BY <2>1, <3>1
    <3> QED
      BY <2>5, <3>2
  <2> HIDE DEF F
  <2>8. CASE n = 0
    BY <2>3, <2>6, <2>8
  <2>9. CASE n # 0
    <3> DEFINE f == F(n)
               last == seqs[n + 1]
    <3>1. F(n + 1) = f \o last
      BY <2>3, <2>9
    <3>2. f \in Seq(S) /\ last \in Seq(S) /\ IsInjective(f) /\ IsInjective(last)
          /\ Range(f) \cap Range(last) = {}
      BY <2>2, <2>5, <2>6, <2>7
    <3> HIDE DEF f, last
    <3>3. IsInjective(f \o last)
      BY <3>2, ConcatFacts
    <3> QED
      BY <3>1, <3>3
  <2> QED
    BY <2>8, <2>9
<1> HIDE DEF T
<1>3. Len(seqs) \in T
  BY <1>0, <1>1, <1>2, NumbersInduction
<1>4. F(Len(seqs)) = FlattenSeq(seqs)
  BY FlattenEnds
<1> QED
  BY <1>0, <1>3, <1>4 DEF T

\* The elements of the flattened sequence are those of the sequences.
LEMMA FlattenMembers ==
    ASSUME NEW S, NEW seqs \in Seq(Seq(S))
    PROVE  \A x : x \in Range(FlattenSeq(seqs)) <=> \E i \in 1..Len(seqs) : x \in Range(seqs[i])
<1>1. Range(FlattenSeq(seqs)) = UNION {Range(seqs[i]) : i \in 1..Len(seqs)}
  BY FlattenRange, Zenon
<1> QED
  BY <1>1

\* One sequence more.
LEMMA FlattenNext ==
    ASSUME NEW S, NEW seqs \in Seq(Seq(S)), NEW n \in Nat, n < Len(seqs)
    PROVE  FlattenTo(seqs, n + 1) = FlattenTo(seqs, n) \o seqs[n + 1]
<1>1. seqs[n + 1] \in Seq(S)
  BY DOMAIN seqs = 1..Len(seqs)
<1>2. CASE n = 0
  <2>1. FlattenTo(seqs, 0) = <<>>
    BY FlattenEnds
  <2>2. FlattenTo(seqs, n + 1) = seqs[1]
    BY <1>2, FlattenStep
  <2> QED
    BY <1>1, <1>2, <2>1, <2>2, ConcatEmptySeq
<1>3. CASE n # 0
  BY <1>3, FlattenStep
<1> QED
  BY <1>2, <1>3

\* What is flattened first is a prefix of what comes later.
LEMMA FlattenPrefix ==
    ASSUME NEW S, NEW seqs \in Seq(Seq(S)), NEW n \in Nat, NEW m \in Nat, n <= m, m <= Len(seqs)
    PROVE  /\ FlattenTo(seqs, n) \in Seq(S) /\ IsPrefix(FlattenTo(seqs, n), FlattenTo(seqs, m))
           /\ Len(FlattenTo(seqs, n)) <= Len(FlattenTo(seqs, m))
<1> DEFINE F(k) == FlattenTo(seqs, k)
           T == {k \in Nat : n <= k /\ k <= Len(seqs) =>
                                /\ F(n) \in Seq(S) /\ F(k) \in Seq(S) /\ IsPrefix(F(n), F(k))}
           U == {k \in Nat : k <= Len(seqs) => F(k) \in Seq(S)}
<1>1. Nat \subseteq U
  <2>1. 0 \in U
    <3>1. F(0) = <<>> /\ <<>> \in Seq(S)
      BY FlattenEnds
    <3> QED
      BY <3>1
  <2>2. ASSUME NEW k \in Nat, k \in U
        PROVE  k + 1 \in U
    <3> SUFFICES ASSUME k + 1 <= Len(seqs)
                 PROVE  F(k + 1) \in Seq(S)
      OBVIOUS
    <3>1. F(k) \in Seq(S) /\ seqs[k + 1] \in Seq(S)
      BY <2>2
    <3>2. F(k + 1) = F(k) \o seqs[k + 1]
      <4>1. k < Len(seqs)
        OBVIOUS
      <4> QED
        BY <4>1, FlattenNext
    <3> QED
      BY <3>1, <3>2, ConcatProperties
  <2> HIDE DEF U
  <2> QED
    BY <2>1, <2>2, NumbersInduction
<1>2. \A k \in Nat : k <= Len(seqs) => F(k) \in Seq(S)
  BY <1>1
<1> HIDE DEF F, U
<1>3. \A s \in Seq(S) : IsPrefix(s, s)
  BY DEF IsPrefix
<1>4. ASSUME NEW s \in Seq(S), NEW t \in Seq(S), NEW u \in Seq(S), IsPrefix(s, t)
      PROVE  IsPrefix(s, t \o u)
  <2> DEFINE tu == t \o u
  <2>1. /\ tu \in Seq(S) /\ Len(tu) = Len(t) + Len(u) /\ \A i \in 1..Len(t) : tu[i] = t[i]
    BY ConcatProperties
  <2> HIDE DEF tu
  <2>2. Len(s) \in Nat /\ Len(t) \in Nat /\ Len(u) \in Nat /\ Len(s) <= Len(t)
    BY <1>4 DEF IsPrefix
  <2>3. SubSeq(tu, 1, Len(s)) = SubSeq(t, 1, Len(s))
    BY <2>1, <2>2
  <2> QED
    BY <1>4, <2>1, <2>2, <2>3 DEF IsPrefix, tu
<1>5. 0 \in T
  <2>1. n <= 0 => n = 0
    OBVIOUS
  <2> QED
    BY <1>2, <1>3, <2>1
<1>6. ASSUME NEW k \in Nat, k \in T
      PROVE  k + 1 \in T
  <2> SUFFICES ASSUME n <= k + 1, k + 1 <= Len(seqs)
               PROVE  F(n) \in Seq(S) /\ F(k + 1) \in Seq(S) /\ IsPrefix(F(n), F(k + 1))
    OBVIOUS
  <2>1. F(n) \in Seq(S) /\ F(k + 1) \in Seq(S) /\ F(k) \in Seq(S)
    BY <1>2
  <2>2. CASE n = k + 1
    BY <1>3, <2>1, <2>2
  <2>3. CASE n <= k
    <3>1. IsPrefix(F(n), F(k))
      BY <1>6, <2>3
    <3>2. F(k + 1) = F(k) \o seqs[k + 1] /\ seqs[k + 1] \in Seq(S)
      BY FlattenNext DEF F
    <3> QED
      BY <1>4, <2>1, <3>1, <3>2
  <2> QED
    BY <2>2, <2>3
<1> HIDE DEF T
<1>7. m \in T
  BY <1>5, <1>6, NumbersInduction
<1> QED
  BY <1>7 DEF T, F, IsPrefix

\* Where the elements of the sequences are when they are put one after another.
LEMMA FlattenAt ==
    ASSUME NEW S, NEW seqs \in Seq(Seq(S)), NEW r \in 1..Len(seqs)
    PROVE  /\ FlattenSeq(seqs) \in Seq(S)
           /\ Len(FlattenTo(seqs, r - 1)) \in Nat /\ seqs[r] \in Seq(S)
           /\ Len(FlattenTo(seqs, r)) = Len(FlattenTo(seqs, r - 1)) + Len(seqs[r])
           /\ Len(FlattenTo(seqs, r)) <= Len(FlattenSeq(seqs))
           /\ \A k \in 1..Len(seqs[r]) : FlattenSeq(seqs)[Len(FlattenTo(seqs, r - 1)) + k] = seqs[r][k]
<1> DEFINE a == FlattenTo(seqs, r - 1)
           b == FlattenTo(seqs, r)
           all == FlattenSeq(seqs)
           p == seqs[r]
<1>0. Len(seqs) \in Nat /\ r \in Nat /\ r - 1 \in Nat /\ r - 1 < Len(seqs) /\ (r - 1) + 1 = r
      /\ r <= Len(seqs) /\ r - 1 <= r
  OBVIOUS
<1>1. p \in Seq(S)
  OBVIOUS
<1>2. b = a \o p
  <2>1. FlattenTo(seqs, (r - 1) + 1) = FlattenTo(seqs, r - 1) \o seqs[(r - 1) + 1]
    BY <1>0, FlattenNext
  <2> QED
    BY <1>0, <2>1
<1>3. a \in Seq(S)
  BY <1>0, FlattenPrefix
<1>4. b \in Seq(S) /\ IsPrefix(b, FlattenTo(seqs, Len(seqs)))
  BY <1>0, FlattenPrefix
<1>5. FlattenTo(seqs, Len(seqs)) = all
  BY FlattenEnds
<1>6. all \in Seq(S)
  <2>1. FlattenTo(seqs, Len(seqs)) \in Seq(S)
    <3>1. Len(seqs) <= Len(seqs)
      BY <1>0
    <3> QED
      BY <1>0, <3>1, FlattenPrefix
  <2> QED
    BY <1>5, <2>1
<1> HIDE DEF a, b, all, p
<1>7. Len(b) = Len(a) + Len(p) /\ \A k \in 1..Len(p) : b[Len(a) + k] = p[k]
  <2> DEFINE m == Len(a)
             n == Len(p)
  <2>1. m \in Nat /\ n \in Nat
    BY <1>1, <1>3
  <2>2. /\ Len(b) = m + n
        /\ \A i \in 1..(m + n) : b[i] = IF i <= m THEN a[i] ELSE p[i - m]
    BY <1>1, <1>2, <1>3, ConcatProperties
  <2> HIDE DEF m, n
  <2>3. \A k \in 1..n : b[m + k] = p[k]
    <3> TAKE k \in 1..n
    <3>1. m + k \in 1..(m + n) /\ ~(m + k <= m) /\ (m + k) - m = k
      BY <2>1
    <3> QED
      BY <2>2, <3>1
  <2> QED
    BY <2>2, <2>3 DEF m, n
<1>8. Len(b) <= Len(all) /\ \A i \in 1..Len(b) : all[i] = b[i]
  <2>1. IsPrefix(b, all)
    BY <1>4, <1>5
  <2>2. Len(b) <= Len(all) /\ SubSeq(b, 1, Len(b)) = SubSeq(all, 1, Len(b))
    BY <1>4, <1>6, <2>1 DEF IsPrefix
  <2>3. \A i \in 1..Len(b) : SubSeq(b, 1, Len(b))[i] = b[i] /\ SubSeq(all, 1, Len(b))[i] = all[i]
    BY <1>4, <1>6, <2>2
  <2> QED
    BY <2>2, <2>3
<1>9. \A k \in 1..Len(p) : all[Len(a) + k] = p[k]
  <2> TAKE k \in 1..Len(p)
  <2>1. Len(a) + k \in 1..Len(b)
    BY <1>1, <1>3, <1>7
  <2> QED
    BY <1>7, <1>8, <2>1
<1>10. Len(a) \in Nat
  BY <1>3
<1> QED
  BY <1>1, <1>6, <1>7, <1>8, <1>9, <1>10 DEF a, b, all, p

\* A sequence over a set is one over any larger set.
LEMMA WiderSeq ==
    ASSUME NEW T, NEW S, T \subseteq S, NEW v \in Seq(T)
    PROVE  v \in Seq(S)
<1>1. Len(v) \in Nat /\ v = [i \in 1..Len(v) |-> v[i]] /\ \A i \in 1..Len(v) : v[i] \in S
  OBVIOUS
<1> QED
  BY <1>1

\* Equal lengths but for the last.
LEMMA FlattenLength ==
    ASSUME NEW S, NEW seqs \in Seq(Seq(S)), NEW p \in Nat, NEW n \in Nat, n <= Len(seqs),
           \A i \in 1..n : Len(seqs[i]) = p
    PROVE  Len(FlattenTo(seqs, n)) = n * p
<1> DEFINE T == {k \in Nat : k <= n => Len(FlattenTo(seqs, k)) = k * p}
<1>1. 0 \in T
  BY FlattenEnds
<1>2. ASSUME NEW k \in Nat, k \in T
      PROVE  k + 1 \in T
  <2> SUFFICES ASSUME k + 1 <= n
               PROVE  Len(FlattenTo(seqs, k + 1)) = (k + 1) * p
    OBVIOUS
  <2>1. FlattenTo(seqs, k + 1) = FlattenTo(seqs, k) \o seqs[k + 1] /\ seqs[k + 1] \in Seq(S)
    BY FlattenNext, SMTT(30)
  <2>2. FlattenTo(seqs, k) \in Seq(S) /\ Len(FlattenTo(seqs, k)) = k * p
    BY <1>2, FlattenPrefix
  <2>3. Len(FlattenTo(seqs, k + 1)) = k * p + p
    BY <2>1, <2>2, ConcatProperties
  <2>4. (k + 1) * p = k * p + p
    OBVIOUS
  <2> QED
    BY <2>3, <2>4
<1> HIDE DEF T
<1>3. n \in T
  BY <1>1, <1>2, NumbersInduction
<1> QED
  BY <1>3 DEF T

-----------------------------------------------------------------------------
(* Chunks.                                                                   *)

\* The number of chunks of p elements for l, and the one that has the i-th.
LEMMA ChunkNumbers ==
    ASSUME NEW l \in Nat, NEW p \in Nat \ {0}, NEW n, n = (l + p - 1) \div p
    PROVE  /\ n \in Nat
           /\ l <= n * p
           /\ n # 0 => (n - 1) * p < l
           /\ \A i \in 1..l : \E c \in 1..n : (c - 1) * p < i /\ i <= c * p
<1>1. n \in Nat /\ n * p <= l + p - 1 /\ l + p - 1 < n * p + p
  OBVIOUS
<1>2. (n - 1) * p = n * p - p
  BY <1>1
<1>3. ASSUME NEW i \in 1..l
      PROVE  \E c \in 1..n : (c - 1) * p < i /\ i <= c * p
  <2> DEFINE d == (i - 1) \div p
  <2>1. d \in Nat /\ d * p <= i - 1 /\ i - 1 < d * p + p
    OBVIOUS
  <2> HIDE DEF d
  <2>2. (d + 1) * p = d * p + p /\ (d + 1) - 1 = d
    BY <2>1
  <2>3. d < n
    <3> SUFFICES ASSUME n <= d PROVE FALSE
      BY <1>1, <2>1
    <3>1. PICK k \in Nat : d = n + k
      <4>1. d - n \in Nat /\ d = n + (d - n)
        BY <1>1, <2>1
      <4> QED
        BY <4>1
    <3>2. d * p = n * p + k * p /\ k * p >= 0
      BY <1>1, <3>1
    <3> QED
      BY <1>1, <2>1, <3>2
  <2>4. PICK c \in 1..n : c = d + 1
    BY <1>1, <2>1, <2>3
  <2>5. (c - 1) * p < i /\ i <= c * p
    BY <2>1, <2>2, <2>4
  <2> QED
    BY <2>5
<1> QED
  BY <1>1, <1>2, <1>3

\* A sequence cut into chunks of p elements, the last one of what is left.
Chunks(s, p) ==
    LET n == (Len(s) + p - 1) \div p
    IN  [c \in 1..n |-> SubSeq(s, (c - 1) * p + 1, IF c = n THEN Len(s) ELSE c * p)]

\* A part of a sequence up to one place and that from there to the next.
LEMMA PartsJoin ==
    ASSUME NEW S, NEW s \in Seq(S), NEW a \in Nat, NEW b \in Nat, a <= b, b <= Len(s)
    PROVE  /\ SubSeq(s, 1, a) \o SubSeq(s, a + 1, b) = SubSeq(s, 1, b)
           /\ SubSeq(s, a + 1, b) \in Seq(S) /\ Len(SubSeq(s, a + 1, b)) = b - a
<1> DEFINE x == SubSeq(s, 1, a)
           y == SubSeq(s, a + 1, b)
           z == SubSeq(s, 1, b)
           xy == x \o y
<1>1. /\ x \in Seq(S) /\ Len(x) = a /\ \A i \in 1..a : x[i] = s[i]
      /\ y \in Seq(S) /\ Len(y) = b - a /\ \A i \in 1..(b - a) : y[i] = s[a + i]
      /\ z \in Seq(S) /\ Len(z) = b /\ \A i \in 1..b : z[i] = s[i]
  BY SMTT(30)
<1> HIDE DEF x, y, z
<1>2. xy \in Seq(S) /\ Len(xy) = b /\ \A i \in 1..b : xy[i] = IF i <= a THEN x[i] ELSE y[i - a]
  <2>1. /\ xy \in Seq(S) /\ Len(xy) = Len(x) + Len(y)
        /\ \A i \in 1..(Len(x) + Len(y)) : xy[i] = IF i <= Len(x) THEN x[i] ELSE y[i - Len(x)]
    <3>1. x \in Seq(S) /\ y \in Seq(S)
      BY <1>1
    <3> QED
      BY <3>1
  <2>2. Len(x) = a /\ Len(x) + Len(y) = b
    BY <1>1
  <2> HIDE DEF xy
  <2> QED
    BY <2>1, <2>2
<1> HIDE DEF xy
<1>3. \A i \in 1..b : xy[i] = z[i]
  <2> TAKE i \in 1..b
  <2>1. CASE i <= a
    BY <1>1, <1>2, <2>1, SMTT(30)
  <2>2. CASE i > a
    <3>1. i - a \in 1..(b - a) /\ a + (i - a) = i
      BY <2>2
    <3> QED
      BY <1>1, <1>2, <2>2, <3>1
  <2> QED
    BY <2>1, <2>2
<1>4. xy = z
  BY <1>1, <1>2, <1>3
<1> QED
  BY <1>1, <1>4 DEF x, y, z, xy

\* Chunks are full but for the last, and put together they are the sequence.
LEMMA ChunksFacts ==
    ASSUME NEW S, NEW s \in Seq(S), NEW p \in Nat \ {0}
    PROVE  /\ Chunks(s, p) \in Seq(Seq(S))
           /\ \A c \in 1..Len(Chunks(s, p)) : Len(Chunks(s, p)[c]) \in 1..p
           /\ FlattenSeq(Chunks(s, p)) = s
<1> DEFINE l == Len(s)
           n == (l + p - 1) \div p
           seqs == Chunks(s, p)
           hi(c) == IF c = n THEN l ELSE c * p
           Q == Seq(S)
<1>0. s \in Seq(S) /\ l \in Nat /\ l = Len(s)
  OBVIOUS
<1>1. seqs = [c \in 1..n |-> SubSeq(s, (c - 1) * p + 1, hi(c))]
  BY DEF Chunks
<1> HIDE DEF l, n, seqs, Q
<1>2. /\ n \in Nat
      /\ l <= n * p
      /\ n # 0 => (n - 1) * p < l
  BY <1>0, ChunkNumbers DEF n
<1>3. \A c \in 1..n : /\ c - 1 \in Nat /\ (c - 1) * p \in Nat /\ hi(c) \in Nat
                      /\ (c - 1) * p < hi(c) /\ hi(c) <= l /\ hi(c) - (c - 1) * p <= p
                      /\ c # n => hi(c) = c * p
  <2> SUFFICES ASSUME NEW c \in 1..n
               PROVE  /\ c - 1 \in Nat /\ (c - 1) * p \in Nat /\ hi(c) \in Nat
                      /\ (c - 1) * p < hi(c) /\ hi(c) <= l /\ hi(c) - (c - 1) * p <= p
                      /\ c # n => hi(c) = c * p
    OBVIOUS
  <2>1. c * p = (c - 1) * p + p /\ (c - 1) * p \in Nat /\ c \in Nat /\ c - 1 \in Nat
    <3>1. PICK d \in Nat : c = d + 1
      <4>1. c - 1 \in Nat /\ c = (c - 1) + 1
        BY <1>2
      <4> QED
        BY <4>1
    <3>2. c * p = d * p + p /\ d * p \in Nat /\ c - 1 = d
      BY <3>1
    <3> QED
      BY <3>1, <3>2
  <2>2. CASE c = n
    BY <1>0, <1>2, <2>1, <2>2
  <2>3. CASE c # n
    <3>1. PICK k \in Nat : n - 1 = c + k
      <4>1. n - 1 - c \in Nat /\ n - 1 = c + (n - 1 - c)
        BY <1>2, <2>1, <2>3
      <4> QED
        BY <4>1
    <3>2. (n - 1) * p = c * p + k * p /\ k * p \in Nat /\ c * p \in Nat
      BY <2>1, <3>1
    <3>3. c * p < l
      BY <1>0, <1>2, <2>1, <3>2
    <3> QED
      BY <1>0, <2>1, <2>3, <3>3
  <2> QED
    BY <2>2, <2>3
<1>4. \A c \in 1..n : /\ seqs[c] \in Q /\ Len(seqs[c]) \in 1..p
                      /\ SubSeq(s, 1, (c - 1) * p) \o seqs[c] = SubSeq(s, 1, hi(c))
  <2> TAKE c \in 1..n
  <2> DEFINE a == (c - 1) * p
             b == hi(c)
  <2>1. a \in Nat /\ b \in Nat /\ a < b /\ b <= Len(s) /\ b - a <= p
    BY <1>0, <1>3
  <2>2. seqs[c] = SubSeq(s, a + 1, b)
    BY <1>1
  <2> HIDE DEF a, b
  <2>3. a <= b /\ b - a \in 1..p
    BY <2>1
  <2>4. /\ SubSeq(s, 1, a) \o SubSeq(s, a + 1, b) = SubSeq(s, 1, b)
        /\ SubSeq(s, a + 1, b) \in Seq(S) /\ Len(SubSeq(s, a + 1, b)) = b - a
    BY <2>1, <2>3, PartsJoin
  <2> QED
    BY <2>2, <2>3, <2>4 DEF a, b, Q
<1>5. seqs \in Seq(Q) /\ Len(seqs) = n
  <2>1. seqs = [c \in 1..n |-> seqs[c]]
    BY <1>1
  <2>2. \A c \in 1..n : seqs[c] \in Q
    BY <1>4
  <2> HIDE DEF hi
  <2> QED
    BY <1>2, <2>1, <2>2
<1> DEFINE F(c) == FlattenTo(seqs, c)
           To(c) == IF c = 0 THEN 0 ELSE hi(c)
           T == {c \in Nat : c <= n => F(c) = SubSeq(s, 1, To(c))}
<1>6. 0 \in T
  <2>1. F(0) = <<>>
    BY <1>5, FlattenEnds DEF Q
  <2>2. SubSeq(s, 1, 0) = <<>>
    OBVIOUS
  <2> QED
    BY <2>1, <2>2
<1>7. ASSUME NEW c \in Nat, c \in T PROVE c + 1 \in T
  <2> SUFFICES ASSUME c + 1 <= n PROVE F(c + 1) = SubSeq(s, 1, hi(c + 1))
    OBVIOUS
  <2>1. c + 1 \in 1..n /\ c < Len(seqs) /\ c <= n /\ (c + 1) - 1 = c
    BY <1>2, <1>5
  <2>2. F(c + 1) = IF c = 0 THEN seqs[1] ELSE F(c) \o seqs[c + 1]
    BY <1>5, <2>1, FlattenStep DEF Q
  <2>3. SubSeq(s, 1, c * p) \o seqs[c + 1] = SubSeq(s, 1, hi(c + 1))
    <3>1. SubSeq(s, 1, ((c + 1) - 1) * p) \o seqs[c + 1] = SubSeq(s, 1, hi(c + 1))
      BY <1>4, <2>1
    <3> QED
      BY <2>1, <3>1
  <2>4. CASE c = 0
    <3>1. SubSeq(s, 1, 0) = <<>> /\ c * p = 0
      BY <2>4
    <3>2. <<>> \o seqs[c + 1] = seqs[c + 1]
      <4> DEFINE x == seqs[c + 1]
      <4>1. x \in Seq(S)
        BY <1>4, <2>1 DEF Q
      <4> HIDE DEF x
      <4>2. <<>> \o x = x
        BY <4>1
      <4> QED
        BY <4>2 DEF x
    <3>3. c + 1 = 1
      BY <2>4
    <3> HIDE DEF hi, F
    <3> QED
      BY <2>2, <2>3, <2>4, <3>1, <3>2, <3>3
  <2>5. CASE c # 0
    <3>1. c \in 1..n /\ c # n
      BY <1>2, <2>1, <2>5
    <3>2. hi(c) = c * p
      BY <1>3, <3>1
    <3>3. F(c) = SubSeq(s, 1, c * p)
      BY <1>7, <2>1, <2>5, <3>2
    <3> QED
      BY <2>2, <2>3, <2>5, <3>3
  <2> QED
    BY <2>4, <2>5
<1> HIDE DEF T
<1>8. F(n) = SubSeq(s, 1, To(n))
  <2>1. n \in T
    BY <1>2, <1>6, <1>7, NumbersInduction
  <2> QED
    BY <1>2, <2>1 DEF T
<1>9. To(n) = l
  <2>1. n = 0 => l = 0
    BY <1>0, <1>2
  <2> QED
    BY <2>1
<1>10. FlattenSeq(seqs) = s
  <2>1. F(n) = FlattenSeq(seqs)
    BY <1>5, FlattenEnds DEF Q
  <2>2. SubSeq(s, 1, l) = s
    BY <1>0
  <2> HIDE DEF F, To
  <2> QED
    BY <1>8, <1>9, <2>1, <2>2
<1>11. \A c \in 1..n : Len(seqs[c]) \in 1..p
  BY <1>4
<1> QED
  BY <1>5, <1>10, <1>11 DEF seqs, Q

-----------------------------------------------------------------------------
\* The one way to divide.
LEMMA DivideOnce ==
    ASSUME NEW b \in Nat \ {0}, NEW c \in Nat, NEW p \in 0..(b - 1)
    PROVE  (c * b + p) \div b = c /\ (c * b + p) % b = p
<1> DEFINE x == c * b
           k == x + p
           q == k \div b
           r == k % b
<1>1. x \in Nat /\ k \in Nat
  BY DEF x
<1> HIDE DEF x
<1>2. q \in Nat /\ r \in 0..(b - 1) /\ k = q * b + r
  <2> HIDE DEF k
  <2> QED
    BY <1>1
<1> HIDE DEF q, r
<1>3. CASE q >= c + 1
  <2>1. PICK d \in Nat : q = (c + 1) + d
    <3>1. q - (c + 1) \in Nat /\ q = (c + 1) + (q - (c + 1))
      BY <1>2, <1>3
    <3> QED
      BY <3>1
  <2>2. q * b = x + b + d * b /\ d * b \in Nat
    BY <2>1 DEF x
  <2> DEFINE db == d * b
             qb == q * b
  <2>3. qb = x + b + db /\ db \in Nat /\ k = qb + r
    BY <1>2, <2>2
  <2> HIDE DEF db, qb
  <2> QED
    BY <1>1, <1>2, <2>3
<1>4. CASE c >= q + 1
  <2>1. PICK d \in Nat : c = (q + 1) + d
    <3>1. c - (q + 1) \in Nat /\ c = (q + 1) + (c - (q + 1))
      BY <1>2, <1>4
    <3> QED
      BY <3>1
  <2>2. x = q * b + b + d * b /\ d * b \in Nat /\ q * b \in Nat
    BY <1>2, <2>1 DEF x
  <2> DEFINE db == d * b
             qb == q * b
  <2>3. x = qb + b + db /\ db \in Nat /\ k = qb + r /\ qb \in Nat
    BY <1>2, <2>2
  <2> HIDE DEF db, qb
  <2> QED
    BY <1>1, <1>2, <2>3
<1>5. CASE q = c
  <2>1. k = x + r
    BY <1>2, <1>5 DEF x
  <2>2. r = p
    BY <1>1, <1>2, <2>1
  <2> QED
    BY <1>5, <2>2 DEF q, r, x
<1> QED
  BY <1>2, <1>3, <1>4, <1>5
=============================================================================
