---------------------------- MODULE SumTheorems ----------------------------
(***************************************************************************)
(* Sums over finite sets.  MapThenSumSet folds through a local recursive   *)
(* function; these lemmas say that it exists and what it computes, by      *)
(* descent to a smallest set of which they would not hold.                 *)
(***************************************************************************)
EXTENDS Integers, FiniteSets, FiniteSetsExt, FiniteSetTheorems,
        WellFoundedInduction, TLAPS

\* Among the subsets of a finite set that are bad, one has no bad proper
\* subset.
LEMMA SmallestSet ==
  ASSUME NEW S, IsFiniteSet(S), NEW Bad \in SUBSET (SUBSET S), Bad # {}
  PROVE  \E T \in Bad : \A V \in Bad : V \subseteq T => V = T
<1>1. Bad \subseteq FiniteSubsetsOf(S)
  BY FS_FiniteSubsetsOfFinite
<1>2. PICK T \in Bad : \A V \in Bad : <<V, T>> \notin StrictSubsetOrdering(S)
  BY <1>1, FS_StrictSubsetOrderingWellFounded, WFMin
<1>3. \A V \in Bad : V \subseteq T => V = T
  BY <1>2 DEF StrictSubsetOrdering
<1> QED
  BY <1>2, <1>3

\* A set of numbers up to some bound has a least one.
LEMMA LeastOf ==
  ASSUME NEW n \in Nat, NEW K \in SUBSET (0..n), K # {}
  PROVE  \E m \in K : \A k \in K : m <= k
<1> DEFINE Bad == {T \in SUBSET (0..n) : \E k \in K : T = 0..k}
<1>1. \A k \in K : k \in 0..n /\ 0..k \in Bad
  OBVIOUS
<1>2. PICK S : S = 0..n /\ IsFiniteSet(S)
  BY FS_Interval
<1>3. PICK T \in Bad : \A V \in Bad : V \subseteq T => V = T
  <2>1. Bad \in SUBSET (SUBSET S)
    BY <1>2
  <2>2. Bad # {}
    BY <1>1
  <2>3. IsFiniteSet(S)
    BY <1>2
  <2> HIDE DEF Bad
  <2> QED
    BY <2>1, <2>2, <2>3, SmallestSet
<1>4. PICK m \in K : T = 0..m
  BY <1>3
<1>5. ASSUME NEW k \in K PROVE m <= k
  <2> SUFFICES ASSUME k < m PROVE FALSE
    BY <1>1, <1>4
  <2>1. 0..k \in Bad /\ 0..k \subseteq T
    BY <1>1, <1>4
  <2>2. 0..k = 0..m
    <3> HIDE DEF Bad
    <3> QED
      BY <1>3, <1>4, <2>1
  <2> QED
    BY <1>1, <2>2
<1> QED
  BY <1>5

\* The element of s that the fold takes first.
Chosen(s) == CHOOSE x \in s : TRUE

\* The element the fold takes next is one of the set.
LEMMA ChosenIn == \A s : s # {} => Chosen(s) \in s
  BY DEF Chosen

(***************************************************************************)
(* g is the function the fold defines on the subsets of S.                 *)
(***************************************************************************)
FoldOf(f, S, g) ==
  g = [s \in SUBSET S |-> IF s = {} THEN 0 ELSE f[Chosen(s)] + g[s \ {Chosen(s)}]]

\* The value of the fold at a set.
LEMMA FoldAt ==
  ASSUME NEW f, NEW S, NEW g, FoldOf(f, S, g), NEW s \in SUBSET S
  PROVE  g[s] = IF s = {} THEN 0 ELSE f[Chosen(s)] + g[s \ {Chosen(s)}]
  BY DEF FoldOf

\* Two such functions agree wherever both are defined.
LEMMA FoldsAgree ==
  ASSUME NEW f, NEW S, IsFiniteSet(S), NEW T, NEW g, FoldOf(f, S, g),
         NEW h, FoldOf(f, T, h)
  PROVE  \A s \in SUBSET S : s \subseteq T => g[s] = h[s]
<1> DEFINE Bad == {s \in SUBSET S : s \subseteq T /\ g[s] # h[s]}
<1> SUFFICES ASSUME Bad # {} PROVE FALSE
  OBVIOUS
<1>1. PICK s \in Bad : \A v \in Bad : v \subseteq s => v = s
  <2> HIDE DEF Bad
  <2>1. Bad \in SUBSET (SUBSET S)
    BY DEF Bad
  <2> QED
    BY <2>1, SmallestSet
<1>2. s \in SUBSET S /\ s \in SUBSET T
  OBVIOUS
<1>3. g[s] = IF s = {} THEN 0 ELSE f[Chosen(s)] + g[s \ {Chosen(s)}]
  BY <1>2, FoldAt
<1>4. h[s] = IF s = {} THEN 0 ELSE f[Chosen(s)] + h[s \ {Chosen(s)}]
  BY <1>2, FoldAt
<1>5. s # {} => s \ {Chosen(s)} \notin Bad
  BY <1>1, ChosenIn
<1>6. s # {} => g[s \ {Chosen(s)}] = h[s \ {Chosen(s)}]
  BY <1>2, <1>5
<1>7. g[s] = h[s]
  BY <1>3, <1>4, <1>6
<1> QED
  BY <1>1, <1>7

\* There is such a function for every finite set.
LEMMA FoldExists ==
  ASSUME NEW f, NEW S, IsFiniteSet(S)
  PROVE  \E g : FoldOf(f, S, g)
<1> DEFINE Bad == {T \in SUBSET S : ~ \E g : FoldOf(f, T, g)}
<1> SUFFICES ASSUME Bad # {} PROVE FALSE
  OBVIOUS
<1>1. PICK T \in Bad : \A V \in Bad : V \subseteq T => V = T
  <2> HIDE DEF Bad
  <2>1. Bad \in SUBSET (SUBSET S)
    BY DEF Bad
  <2> QED
    BY <2>1, SmallestSet
<1>2. T \in SUBSET S /\ IsFiniteSet(T) /\ ~ \E g : FoldOf(f, T, g)
  BY FS_Subset
<1>3. \A V \in SUBSET T : V # T => \E g : FoldOf(f, V, g)
  BY <1>1, <1>2
<1> HIDE DEF Bad
<1> DEFINE val(V) == (CHOOSE g : FoldOf(f, V, g))[V]
           G == [V \in SUBSET T |->
                   IF V = {} THEN 0 ELSE f[Chosen(V)] + val(V \ {Chosen(V)})]
<1>4. ASSUME NEW V \in SUBSET T, V # T PROVE val(V) = G[V]
  <2>1. FoldOf(f, V, CHOOSE g : FoldOf(f, V, g))
    BY <1>3, <1>4
  <2>2. val(V) = IF V = {} THEN 0
                 ELSE f[Chosen(V)] + (CHOOSE g : FoldOf(f, V, g))[V \ {Chosen(V)}]
    BY <2>1, FoldAt
  <2>3. CASE V # {}
    <3> DEFINE W == V \ {Chosen(V)}
    <3>1. W \in SUBSET T /\ W # T /\ W \in SUBSET V /\ W \subseteq W
      BY <1>4, <2>3, ChosenIn
    <3>2. FoldOf(f, W, CHOOSE g : FoldOf(f, W, g))
      BY <1>3, <3>1
    <3>3. IsFiniteSet(V)
      BY <1>2, FS_Subset
    <3>4. (CHOOSE g : FoldOf(f, V, g))[W] = (CHOOSE g : FoldOf(f, W, g))[W]
      <4> HIDE DEF W
      <4> QED
        BY <2>1, <3>1, <3>2, <3>3, FoldsAgree
    <3> QED
      BY <2>2, <2>3, <3>4
  <2>4. CASE V = {}
    BY <2>2, <2>4
  <2> QED
    BY <2>3, <2>4
<1>5. FoldOf(f, T, G)
  <2>1. ASSUME NEW V \in SUBSET T, V # {}
        PROVE  val(V \ {Chosen(V)}) = G[V \ {Chosen(V)}]
    <3>1. V \ {Chosen(V)} \in SUBSET T /\ V \ {Chosen(V)} # T
      BY <2>1, ChosenIn
    <3> HIDE DEF val, G
    <3> QED
      BY <1>4, <3>1
  <2>2. \A V \in SUBSET T : (IF V = {} THEN 0 ELSE f[Chosen(V)] + val(V \ {Chosen(V)}))
                          = (IF V = {} THEN 0 ELSE f[Chosen(V)] + G[V \ {Chosen(V)}])
    <3> HIDE DEF val, G
    <3> QED
      BY <2>1
  <2>3. G = [V \in SUBSET T |->
               IF V = {} THEN 0 ELSE f[Chosen(V)] + val(V \ {Chosen(V)})]
    OBVIOUS
  <2> HIDE DEF val, G
  <2>4. G = [V \in SUBSET T |->
               IF V = {} THEN 0 ELSE f[Chosen(V)] + G[V \ {Chosen(V)}]]
    BY <2>2, <2>3
  <2> QED
    BY <2>4 DEF FoldOf
<1> QED
  BY <1>2, <1>5

-----------------------------------------------------------------------------
(***************************************************************************)
(* The sum of the values f has on S.                                       *)
(***************************************************************************)
Total(f, S) == MapThenSumSet(LAMBDA x : f[x], S)

\* The sum over a set is the value there of the fold over any larger one.
LEMMA TotalFold ==
  ASSUME NEW f, NEW S, IsFiniteSet(S), NEW T \in SUBSET S, NEW g, FoldOf(f, S, g)
  PROVE  Total(f, T) = g[T]
<1>1. Total(f, T) = (CHOOSE h : FoldOf(f, T, h))[T]
  BY DEF Total, MapThenSumSet, MapThenFoldSet, FoldOf, Chosen
<1>2. IsFiniteSet(T)
  BY FS_Subset
<1>3. PICK h : FoldOf(f, T, h) /\ Total(f, T) = h[T]
  BY <1>1, <1>2, FoldExists
<1>4. h[T] = g[T]
  BY <1>2, <1>3, FoldsAgree
<1> QED
  BY <1>3, <1>4

\* The sum, element by element.
LEMMA TotalChosen ==
  ASSUME NEW f, NEW S, IsFiniteSet(S)
  PROVE  Total(f, S) = IF S = {} THEN 0 ELSE f[Chosen(S)] + Total(f, S \ {Chosen(S)})
<1>1. PICK g : FoldOf(f, S, g)
  BY FoldExists
<1>2. g[S] = IF S = {} THEN 0 ELSE f[Chosen(S)] + g[S \ {Chosen(S)}]
  BY <1>1, FoldAt
<1>3. Total(f, S) = g[S] /\ Total(f, S \ {Chosen(S)}) = g[S \ {Chosen(S)}]
  BY <1>1, TotalFold
<1> QED
  BY <1>2, <1>3

\* The empty sum.
LEMMA TotalEmpty == \A f : Total(f, {}) = 0
  BY TotalChosen, FS_EmptySet

(***************************************************************************)
(* A sum of integers is an integer, of naturals a natural number.          *)
(***************************************************************************)
LEMMA TotalType ==
  ASSUME NEW f, NEW S, IsFiniteSet(S), NEW D \in {Nat, Int}, \A x \in S : f[x] \in D
  PROVE  Total(f, S) \in D
<1> DEFINE Bad == {T \in SUBSET S : Total(f, T) \notin D}
<1> SUFFICES ASSUME Bad # {} PROVE FALSE
  OBVIOUS
<1>1. PICK T \in Bad : \A V \in Bad : V \subseteq T => V = T
  <2>1. Bad \in SUBSET (SUBSET S)
    OBVIOUS
  <2> HIDE DEF Bad
  <2> QED
    BY <2>1, SmallestSet
<1>2. T \in SUBSET S /\ IsFiniteSet(T)
  BY FS_Subset
<1>3. Total(f, T) = IF T = {} THEN 0 ELSE f[Chosen(T)] + Total(f, T \ {Chosen(T)})
  BY <1>2, TotalChosen
<1>4. CASE T = {}
  BY <1>3, <1>4
<1>5. CASE T # {}
  <2>1. Chosen(T) \in T /\ f[Chosen(T)] \in D
    BY <1>2, <1>5, ChosenIn
  <2>2. T \ {Chosen(T)} \notin Bad
    BY <1>1, <2>1
  <2>3. Total(f, T \ {Chosen(T)}) \in D
    BY <1>2, <2>2
  <2>4. Total(f, T) \in D
    BY <1>3, <1>5, <2>1, <2>3
  <2> QED
    BY <2>4
<1> QED
  BY <1>4, <1>5

(***************************************************************************)
(* Only the summands count.                                                *)
(***************************************************************************)
LEMMA TotalSame ==
  ASSUME NEW f, NEW h, NEW S, IsFiniteSet(S), \A x \in S : f[x] = h[x]
  PROVE  Total(f, S) = Total(h, S)
<1> DEFINE Bad == {T \in SUBSET S : Total(f, T) # Total(h, T)}
<1> SUFFICES ASSUME Bad # {} PROVE FALSE
  OBVIOUS
<1>1. PICK T \in Bad : \A V \in Bad : V \subseteq T => V = T
  <2>1. Bad \in SUBSET (SUBSET S)
    OBVIOUS
  <2> HIDE DEF Bad
  <2> QED
    BY <2>1, SmallestSet
<1>2. T \in SUBSET S /\ IsFiniteSet(T)
  BY FS_Subset
<1>3. /\ Total(f, T) = IF T = {} THEN 0 ELSE f[Chosen(T)] + Total(f, T \ {Chosen(T)})
      /\ Total(h, T) = IF T = {} THEN 0 ELSE h[Chosen(T)] + Total(h, T \ {Chosen(T)})
  BY <1>2, TotalChosen
<1>4. T # {}
  BY <1>3
<1>5. Chosen(T) \in T /\ f[Chosen(T)] = h[Chosen(T)]
  BY <1>2, <1>4, ChosenIn
<1>6. T \ {Chosen(T)} \notin Bad
  BY <1>1, <1>5
<1>7. Total(f, T \ {Chosen(T)}) = Total(h, T \ {Chosen(T)})
  BY <1>2, <1>6
<1> QED
  BY <1>3, <1>4, <1>5, <1>7

(***************************************************************************)
(* Any element can be taken out of the sum.                                *)
(***************************************************************************)
LEMMA TotalSplit ==
  ASSUME NEW f, NEW S, IsFiniteSet(S), \A y \in S : f[y] \in Int, NEW x \in S
  PROVE  Total(f, S) = f[x] + Total(f, S \ {x})
<1> DEFINE Splits(T) == \A y \in T : Total(f, T) = f[y] + Total(f, T \ {y})
           Bad == {T \in SUBSET S : ~Splits(T)}
<1> SUFFICES ASSUME Bad # {} PROVE FALSE
  OBVIOUS
<1>1. PICK T \in Bad : \A V \in Bad : V \subseteq T => V = T
  <2>1. Bad \in SUBSET (SUBSET S)
    OBVIOUS
  <2> HIDE DEF Bad
  <2> QED
    BY <2>1, SmallestSet
<1>2. T \in SUBSET S /\ IsFiniteSet(T)
  BY FS_Subset
<1>3. PICK y \in T : Total(f, T) # f[y] + Total(f, T \ {y})
  BY <1>1
<1>4. PICK c \in T : Total(f, T) = f[c] + Total(f, T \ {c})
  BY <1>2, <1>3, TotalChosen, ChosenIn
<1>5. c # y
  BY <1>3, <1>4
<1>6. Splits(T \ {c}) /\ Splits(T \ {y})
  BY <1>1, <1>2, <1>3, <1>4
<1> DEFINE rest == (T \ {c}) \ {y}
<1>7. /\ Total(f, T \ {c}) = f[y] + Total(f, rest)
      /\ Total(f, T \ {y}) = f[c] + Total(f, rest)
  <2>1. y \in T \ {c} /\ c \in T \ {y} /\ (T \ {y}) \ {c} = rest
    BY <1>3, <1>4, <1>5
  <2> HIDE DEF rest
  <2> QED
    BY <1>6, <2>1 DEF rest
<1>8. Total(f, rest) \in Int /\ f[c] \in Int /\ f[y] \in Int
  <2>1. rest \in SUBSET S /\ IsFiniteSet(rest) /\ c \in S /\ y \in S
    BY <1>2, FS_Subset
  <2> HIDE DEF rest
  <2>2. \A z \in rest : f[z] \in Int
    BY <2>1
  <2>3. Total(f, rest) \in Int
    BY <2>1, <2>2, TotalType
  <2> QED
    BY <2>1, <2>3
<1> HIDE DEF rest
<1> QED
  BY <1>3, <1>4, <1>7, <1>8

(***************************************************************************)
(* A new element adds itself to the sum.                                   *)
(***************************************************************************)
LEMMA TotalAdd ==
  ASSUME NEW f, NEW S, IsFiniteSet(S), NEW x, x \notin S,
         \A y \in S \cup {x} : f[y] \in Int
  PROVE  Total(f, S \cup {x}) = f[x] + Total(f, S)
<1>1. IsFiniteSet(S \cup {x}) /\ (S \cup {x}) \ {x} = S
  BY FS_AddElement
<1> QED
  BY <1>1, TotalSplit

\* A sum of zeros.
LEMMA TotalZero ==
  ASSUME NEW f, NEW S, IsFiniteSet(S), \A x \in S : f[x] = 0
  PROVE  Total(f, S) = 0
<1> DEFINE Bad == {T \in SUBSET S : Total(f, T) # 0}
<1> SUFFICES ASSUME Bad # {} PROVE FALSE
  OBVIOUS
<1>1. PICK T \in Bad : \A V \in Bad : V \subseteq T => V = T
  <2>1. Bad \in SUBSET (SUBSET S)
    OBVIOUS
  <2> HIDE DEF Bad
  <2> QED
    BY <2>1, SmallestSet
<1>2. T \in SUBSET S /\ IsFiniteSet(T)
  BY FS_Subset
<1>3. Total(f, T) = IF T = {} THEN 0 ELSE f[Chosen(T)] + Total(f, T \ {Chosen(T)})
  BY <1>2, TotalChosen
<1>4. T # {} /\ Chosen(T) \in T /\ f[Chosen(T)] = 0
  BY <1>2, <1>3, ChosenIn
<1>5. T \ {Chosen(T)} \notin Bad
  BY <1>1, <1>4
<1>6. Total(f, T \ {Chosen(T)}) = 0
  BY <1>2, <1>5
<1> QED
  BY <1>3, <1>4, <1>6

\* A change of one summand changes the sum by as much.
LEMMA TotalChange ==
  ASSUME NEW f, NEW h, NEW S, IsFiniteSet(S), NEW x \in S,
         \A y \in S : f[y] \in Int /\ h[y] \in Int,
         \A y \in S \ {x} : h[y] = f[y]
  PROVE  Total(h, S) = Total(f, S) + (h[x] - f[x])
<1>1. Total(f, S) = f[x] + Total(f, S \ {x}) /\ Total(h, S) = h[x] + Total(h, S \ {x})
  BY TotalSplit
<1>2. IsFiniteSet(S \ {x})
  BY FS_RemoveElement
<1>3. Total(h, S \ {x}) = Total(f, S \ {x})
  BY <1>2, TotalSame
<1>4. Total(f, S \ {x}) \in Int
  BY <1>2, TotalType
<1>5. f[x] \in Int /\ h[x] \in Int
  OBVIOUS
<1> QED
  BY <1>1, <1>3, <1>4, <1>5

(***************************************************************************)
(* Summing kind by kind sums everything.                                   *)
(***************************************************************************)
ByKind(f, S, kind, P) == [p \in P |-> Total(f, {x \in S : kind[x] = p})]

LEMMA TotalByKind ==
  ASSUME NEW f, NEW S, IsFiniteSet(S), \A x \in S : f[x] \in Int,
         NEW P, IsFiniteSet(P), NEW kind, \A x \in S : kind[x] \in P
  PROVE  Total(ByKind(f, S, kind, P), P) = Total(f, S)
<1> DEFINE Sums(T) == Total(ByKind(f, T, kind, P), P)
           Bad == {T \in SUBSET S : Sums(T) # Total(f, T)}
<1> SUFFICES ASSUME Bad # {} PROVE FALSE
  OBVIOUS
<1>1. PICK T \in Bad : \A V \in Bad : V \subseteq T => V = T
  <2>1. Bad \in SUBSET (SUBSET S)
    OBVIOUS
  <2> HIDE DEF Bad
  <2> QED
    BY <2>1, SmallestSet
<1>2. T \in SUBSET S /\ IsFiniteSet(T)
  BY FS_Subset
<1>3. T # {}
  <2> SUFFICES ASSUME T = {} PROVE FALSE
    OBVIOUS
  <2>1. \A p \in P : ByKind(f, T, kind, P)[p] = 0
    BY TotalEmpty DEF ByKind
  <2>2. Sums(T) = 0
    BY <2>1, TotalZero
  <2> QED
    BY <1>1, <2>2, TotalEmpty
<1>4. PICK c \in T : TRUE
  BY <1>3
<1> DEFINE R == T \ {c}
<1>5. c \in S /\ kind[c] \in P /\ c \notin R /\ R \in SUBSET S /\ R \cup {c} = T /\ R # T
  BY <1>2, <1>4
<1>6. IsFiniteSet(R)
  BY <1>5, FS_Subset
<1>7. Sums(R) = Total(f, R)
  BY <1>1, <1>5
<1> DEFINE g == ByKind(f, R, kind, P)
           h == ByKind(f, T, kind, P)
           Of(V, p) == {x \in V : kind[x] = p}
<1>8. \A V, p : V \in SUBSET S => IsFiniteSet(Of(V, p)) /\ Total(f, Of(V, p)) \in Int
  <2> SUFFICES ASSUME NEW V \in SUBSET S, NEW p
               PROVE  IsFiniteSet(Of(V, p)) /\ Total(f, Of(V, p)) \in Int
    OBVIOUS
  <2>1. Of(V, p) \in SUBSET S
    OBVIOUS
  <2>2. IsFiniteSet(Of(V, p)) /\ \A x \in Of(V, p) : f[x] \in Int
    BY <2>1, FS_Subset
  <2> HIDE DEF Of
  <2> QED
    BY <2>2, TotalType
<1>9. \A p \in P : /\ g[p] = Total(f, Of(R, p)) /\ h[p] = Total(f, Of(T, p))
                   /\ g[p] \in Int /\ h[p] \in Int
  <2>1. \A p \in P : g[p] = Total(f, Of(R, p)) /\ h[p] = Total(f, Of(T, p))
    BY DEF ByKind
  <2> HIDE DEF g, h, Of, R
  <2> QED
    BY <1>2, <1>5, <1>8, <2>1
<1>10. \A p \in P \ {kind[c]} : h[p] = g[p]
  <2>1. \A p \in P \ {kind[c]} : Of(R, p) = Of(T, p)
    OBVIOUS
  <2> HIDE DEF g, h, Of, R
  <2> QED
    BY <1>9, <2>1
<1>11. h[kind[c]] = g[kind[c]] + f[c]
  <2>1. Of(T, kind[c]) = Of(R, kind[c]) \cup {c} /\ c \notin Of(R, kind[c])
    BY <1>5
  <2>2. \A y \in Of(R, kind[c]) \cup {c} : f[y] \in Int
    BY <1>5
  <2>3. IsFiniteSet(Of(R, kind[c])) /\ f[c] \in Int
    BY <1>5, <1>8
  <2> HIDE DEF Of, R
  <2>4. Total(f, Of(R, kind[c]) \cup {c}) = f[c] + Total(f, Of(R, kind[c]))
    BY <2>1, <2>2, <2>3, TotalAdd
  <2>5. /\ g[kind[c]] = Total(f, Of(R, kind[c])) /\ h[kind[c]] = Total(f, Of(T, kind[c]))
        /\ g[kind[c]] \in Int
    <3> HIDE DEF g, h
    <3> QED
      BY <1>5, <1>9
  <2>6. h[kind[c]] = f[c] + g[kind[c]]
    <3> HIDE DEF g, h
    <3> QED
      BY <2>1, <2>4, <2>5
  <2> HIDE DEF g, h
  <2> QED
    BY <2>3, <2>5, <2>6
<1>12. Total(h, P) = Total(g, P) + (h[kind[c]] - g[kind[c]])
  <2> HIDE DEF g, h, Of, R
  <2> QED
    BY <1>5, <1>9, <1>10, TotalChange
<1>13. Total(f, T) = f[c] + Total(f, R)
  <2>1. \A y \in R \cup {c} : f[y] \in Int
    BY <1>5
  <2> HIDE DEF R
  <2> QED
    BY <1>5, <1>6, <2>1, TotalAdd
<1>14. Sums(T) = Total(f, T)
  <2>1. /\ Sums(T) = Total(h, P) /\ Total(g, P) = Total(f, R)
        /\ f[c] \in Int /\ g[kind[c]] \in Int /\ Total(f, R) \in Int
    <3>1. \A x \in R : f[x] \in Int
      BY <1>5
    <3>2. Total(f, R) \in Int
      <4> HIDE DEF R
      <4> QED
        BY <1>6, <3>1, TotalType
    <3> QED
      BY <1>5, <1>7, <1>9, <3>2
  <2> HIDE DEF g, h, R, Sums
  <2> QED
    BY <1>11, <1>12, <1>13, <2>1
<1> QED
  BY <1>1, <1>14

(***************************************************************************)
(* The sum of the differences of successive values.                        *)
(***************************************************************************)
LEMMA Telescope ==
  ASSUME NEW n \in Nat \ {0}, NEW at, \A i \in 1..n : at[i] \in Int,
         NEW f, \A i \in 1..n : f[i] = IF i < n THEN at[i + 1] - at[i] ELSE 0
  PROVE  Total(f, 1..n) = at[n] - at[1]
<1>1. \A i \in 1..n : f[i] \in Int
  <2>1. \A i \in 1..n : i < n => i + 1 \in 1..n
    OBVIOUS
  <2> QED
    BY <2>1
<1>2. \A k \in 0..n : /\ IsFiniteSet(1..k) /\ 1..k \subseteq 1..n
                      /\ Total(f, 1..k) \in Int
  <2> SUFFICES ASSUME NEW k \in 0..n
               PROVE  IsFiniteSet(1..k) /\ 1..k \subseteq 1..n /\ Total(f, 1..k) \in Int
    OBVIOUS
  <2>1. PICK S : S = 1..k /\ IsFiniteSet(S) /\ S \subseteq 1..n
    BY FS_Interval
  <2>2. Total(f, S) \in Int
    BY <1>1, <2>1, TotalType
  <2> QED
    BY <2>1, <2>2
<1>3. ASSUME NEW k \in 1..n PROVE Total(f, 1..k) = f[k] + Total(f, 1..(k - 1))
  <2>1. PICK S : S = 1..(k - 1) /\ S \cup {k} = 1..k /\ k \notin S
    OBVIOUS
  <2>2. IsFiniteSet(S) /\ S \cup {k} \subseteq 1..n
    BY <1>2, <2>1
  <2> QED
    BY <1>1, <2>1, <2>2, TotalAdd
<1> DEFINE Wrong == {k \in 0..(n - 1) : Total(f, 1..k) # at[k + 1] - at[1]}
<1>4. Wrong = {}
  <2> SUFFICES ASSUME Wrong # {} PROVE FALSE
    OBVIOUS
  <2>1. PICK k \in Wrong : \A j \in Wrong : k <= j
    <3>1. n - 1 \in Nat /\ Wrong \in SUBSET (0..(n - 1))
      OBVIOUS
    <3> HIDE DEF Wrong
    <3> QED
      BY <3>1, LeastOf
  <2>2. k # 0
    <3> SUFFICES ASSUME k = 0 PROVE FALSE
      OBVIOUS
    <3>1. 1..k = {} /\ at[1] \in Int
      OBVIOUS
    <3> QED
      BY <2>1, <3>1, TotalEmpty
  <2>3. k \in 1..n /\ k < n /\ k - 1 \in 0..(n - 1) /\ k - 1 \notin Wrong /\ k \in 0..n
    BY <2>1, <2>2
  <2>4. Total(f, 1..(k - 1)) = at[k] - at[1]
    BY <2>3
  <2>5. f[k] = at[k + 1] - at[k] /\ k + 1 \in 1..n /\ 1 \in 1..n
    BY <2>3
  <2>6. Total(f, 1..k) = at[k + 1] - at[1]
    BY <1>3, <2>3, <2>4, <2>5
  <2> QED
    BY <2>1, <2>6
<1>5. n \in 1..n /\ n - 1 \in 0..(n - 1) /\ n - 1 \in 0..n /\ (n - 1) + 1 = n /\ f[n] = 0
  OBVIOUS
<1>6. Total(f, 1..(n - 1)) = at[n] - at[1]
  BY <1>4, <1>5
<1> QED
  BY <1>2, <1>3, <1>5, <1>6
=============================================================================
