----------------------------- MODULE FiniteLemmas -----------------------------
(***************************************************************************)
(* What several of the proofs need of finite sets: sums and products over  *)
(* them, and the order of sets of numbers. What is said of all finite sets *)
(* is proved by taking a least set for which it is false.                  *)
(***************************************************************************)
EXTENDS Listing, Integers, FiniteSetsExt, FiniteSetTheorems, WellFoundedInduction, TLAPS

-----------------------------------------------------------------------------
\* Sums over finite sets.

\* A finite set of subsets of a finite set has a member with no other below it.
LEMMA SmallestExists ==
    ASSUME NEW S, IsFiniteSet(S), NEW B \in SUBSET (SUBSET S), B # {}
    PROVE  \E s \in B : \A t \in B : t \subseteq s => t = s
<1>1. IsWellFoundedOn(StrictSubsetOrdering(S), SUBSET S)
  BY FS_StrictSubsetOrderingWellFounded, FS_FiniteSubsetsOfFinite
<1>2. PICK s \in B : \A t \in B : ~ (<<t, s>> \in StrictSubsetOrdering(S))
  BY <1>1, WFMin
<1>3. ASSUME NEW t \in B, t \subseteq s, t # s
      PROVE  FALSE
  BY <1>2, <1>3 DEF StrictSubsetOrdering
<1> QED BY <1>3

Chosen(s) == CHOOSE x \in s : TRUE

\* One step of the sum of f over a set, or of the product of its members.
Combined(kind, f, x, rest) == IF kind = "product" THEN x * rest ELSE f[x] + rest
First(kind) == IF kind = "product" THEN 1 ELSE 0

\* F is the function that the sum of f over S, or the product of S, is computed by.
Folds(kind, f, S, F) ==
    F = [s \in SUBSET S |-> IF s = {} THEN First(kind)
                            ELSE Combined(kind, f, Chosen(s), F[s \ {Chosen(s)}])]

\* A fold of a set is the combination of a member with the fold of the rest.
LEMMA FoldsStep ==
    ASSUME NEW kind, NEW f, NEW S, NEW F, Folds(kind, f, S, F), NEW s \in SUBSET S
    PROVE  F[s] = IF s = {} THEN First(kind)
                  ELSE Combined(kind, f, Chosen(s), F[s \ {Chosen(s)}])
  BY DEF Folds

\* Two of them agree where both are defined.
LEMMA FoldsAgree ==
    ASSUME NEW kind, NEW f, NEW S, NEW T, NEW F, NEW G,
           Folds(kind, f, S, F), Folds(kind, f, T, G),
           IsFiniteSet(S), S \subseteq T
    PROVE  \A s \in SUBSET S : F[s] = G[s]
<1> DEFINE Bad == {s \in SUBSET S : F[s] # G[s]}
<1>1. SUFFICES ASSUME Bad # {} PROVE FALSE
  OBVIOUS
<1>2. PICK s \in Bad : \A t \in Bad : t \subseteq s => t = s
  <2>1. Bad \in SUBSET (SUBSET S)
    OBVIOUS
  <2> HIDE DEF Bad
  <2> QED BY <1>1, <2>1, SmallestExists
<1>3. s \in SUBSET S /\ s \in SUBSET T /\ F[s] # G[s]
  BY <1>2
<1>4. s # {}
  BY <1>3, FoldsStep
<1> DEFINE t == s \ {Chosen(s)}
<1>5. t \subseteq s /\ t # s /\ t \in SUBSET S
  BY <1>3, <1>4 DEF Chosen
<1>6. F[t] = G[t]
  BY <1>2, <1>5
<1>7. F[s] = Combined(kind, f, Chosen(s), F[t])
  BY <1>3, <1>4, FoldsStep
<1>8. G[s] = Combined(kind, f, Chosen(s), G[t])
  BY <1>3, <1>4, FoldsStep
<1> QED BY <1>3, <1>6, <1>7, <1>8

\* There is one for every finite set: the least set without one has one for each
\* of its proper subsets, and these are put together.
LEMMA FoldsExist ==
    ASSUME NEW kind, NEW f, NEW S, IsFiniteSet(S)
    PROVE  \E F : Folds(kind, f, S, F)
<1> DEFINE Bad == {T \in SUBSET S : ~\E F : Folds(kind, f, T, F)}
<1>1. SUFFICES ASSUME Bad # {} PROVE FALSE
  OBVIOUS
<1>2. PICK T \in Bad : \A t \in Bad : t \subseteq T => t = T
  <2>1. Bad \in SUBSET (SUBSET S)
    OBVIOUS
  <2> HIDE DEF Bad
  <2> QED BY <1>1, <2>1, SmallestExists
<1>3. /\ T \in SUBSET S
      /\ ~\E F : Folds(kind, f, T, F)
      /\ \A s \in SUBSET T : s # T => \E F : Folds(kind, f, s, F)
  BY <1>2
<1> HIDE DEF Bad
<1> DEFINE H == [s \in SUBSET T |-> CHOOSE F : Folds(kind, f, s, F)]
<1>4. \A s \in SUBSET T : s # T => Folds(kind, f, s, H[s])
  BY <1>3
<1> DEFINE F == [s \in SUBSET T |->
                    IF s = {} THEN First(kind)
                    ELSE Combined(kind, f, Chosen(s), H[s \ {Chosen(s)}][s \ {Chosen(s)}])]
<1> HIDE DEF H
<1>5. ASSUME NEW s \in SUBSET T, s # T
      PROVE  F[s] = H[s][s]
  <2>1. Folds(kind, f, s, H[s]) /\ s \in SUBSET s
    BY <1>4, <1>5
  <2>2. H[s][s] = IF s = {} THEN First(kind)
                  ELSE Combined(kind, f, Chosen(s), H[s][s \ {Chosen(s)}])
    BY <2>1, FoldsStep
  <2>3. CASE s = {}
    BY <2>2, <2>3
  <2>4. CASE s # {}
    <3> DEFINE t == s \ {Chosen(s)}
    <3>1. t \subseteq s /\ t \in SUBSET T /\ t # T /\ t \in SUBSET t
      BY <1>5, <2>4 DEF Chosen
    <3>2. IsFiniteSet(t)
      BY <1>3, <3>1, FS_Subset
    <3>3. Folds(kind, f, t, H[t])
      BY <1>4, <3>1
    <3>4. H[t][t] = H[s][t]
      BY <2>1, <3>1, <3>2, <3>3, FoldsAgree
    <3> QED BY <2>2, <2>4, <3>4
  <2> QED BY <2>3, <2>4
<1>6. Folds(kind, f, T, F)
  <2> DEFINE G == [s \in SUBSET T |-> IF s = {} THEN First(kind)
                        ELSE Combined(kind, f, Chosen(s), F[s \ {Chosen(s)}])]
  <2>1. ASSUME NEW s \in SUBSET T
        PROVE  F[s] = G[s]
    <3>1. CASE s = {}
      BY <3>1
    <3>2. CASE s # {}
      <4> DEFINE t == s \ {Chosen(s)}
      <4>1. t \in SUBSET T /\ t # T
        BY <3>2 DEF Chosen
      <4>2. F[t] = H[t][t]
        BY <1>5, <4>1
      <4>3. F[s] = Combined(kind, f, Chosen(s), H[t][t])
        BY <3>2
      <4>4. G[s] = Combined(kind, f, Chosen(s), F[t])
        BY <3>2
      <4> QED BY <4>2, <4>3, <4>4
    <3> QED BY <3>1, <3>2
  <2>2. F = G
    BY <2>1
  <2> QED BY <2>2 DEF Folds
<1> QED BY <1>3, <1>6

\* The operators of the library compute them.
LEMMA SumIsFold ==
    ASSUME NEW f, NEW S
    PROVE  SumFunctionOnSet(f, S) = (CHOOSE F : Folds("sum", f, S, F))[S]
  BY DEF SumFunctionOnSet, FoldFunctionOnSet, MapThenFoldSet, Folds, Combined, First, Chosen

\* So is the product.
LEMMA ProductIsFold ==
    ASSUME NEW f, NEW S
    PROVE  ProductSet(S) = (CHOOSE F : Folds("product", f, S, F))[S]
  BY DEF ProductSet, FoldSet, MapThenFoldSet, Folds, Combined, First, Chosen

\* The one that is chosen agrees with any other.
LEMMA FoldIsUnique ==
    ASSUME NEW kind, NEW f, NEW S, IsFiniteSet(S), NEW F, Folds(kind, f, S, F),
           NEW T \in SUBSET S
    PROVE  (CHOOSE G : Folds(kind, f, T, G))[T] = F[T]
<1> DEFINE G == CHOOSE G : Folds(kind, f, T, G)
<1>1. IsFiniteSet(T)
  BY FS_Subset
<1>2. Folds(kind, f, T, G)
  BY <1>1, FoldsExist
<1> HIDE DEF G
<1>3. G[T] = F[T]
  BY <1>1, <1>2, FoldsAgree
<1> QED BY <1>3 DEF G

\* The sum over no member is zero.
LEMMA SumOfNone == ASSUME NEW f PROVE SumFunctionOnSet(f, {}) = 0
<1>1. PICK F : Folds("sum", f, {}, F)
  BY FoldsExist, FS_EmptySet
<1>2. SumFunctionOnSet(f, {}) = F[{}]
  BY <1>1, SumIsFold, FoldIsUnique, FS_EmptySet
<1> QED BY <1>1, <1>2, FoldsStep DEF First

\* A sum is the value of one member and the sum of the rest.
LEMMA SumStep ==
    ASSUME NEW f, NEW S, IsFiniteSet(S), S # {}
    PROVE  SumFunctionOnSet(f, S) = f[Chosen(S)] + SumFunctionOnSet(f, S \ {Chosen(S)})
<1> DEFINE R == S \ {Chosen(S)}
<1>1. PICK F : Folds("sum", f, S, F)
  BY FoldsExist
<1>2. S \in SUBSET S /\ R \in SUBSET S
  OBVIOUS
<1>3. SumFunctionOnSet(f, S) = F[S]
  BY <1>1, <1>2, SumIsFold, FoldIsUnique
<1>4. SumFunctionOnSet(f, R) = F[R]
  <2>1. ASSUME NEW T \in SUBSET S
        PROVE  SumFunctionOnSet(f, T) = F[T]
    <3>1. (CHOOSE G : Folds("sum", f, T, G))[T] = F[T]
      BY <1>1, FoldIsUnique
    <3> QED BY <3>1, SumIsFold
  <2> QED BY <1>2, <2>1
<1>5. F[S] = Combined("sum", f, Chosen(S), F[R])
  <2>1. F[S] = IF S = {} THEN First("sum") ELSE Combined("sum", f, Chosen(S), F[S \ {Chosen(S)}])
    BY <1>1, <1>2, FoldsStep
  <2> QED BY <2>1
<1>6. F[S] = f[Chosen(S)] + F[R]
  BY <1>5 DEF Combined
<1> QED BY <1>3, <1>4, <1>6

\* The sum of integers is an integer.
LEMMA SumIsInt ==
    ASSUME NEW S, IsFiniteSet(S), NEW f, \A x \in S : f[x] \in Int
    PROVE  SumFunctionOnSet(f, S) \in Int
<1> DEFINE Bad == {T \in SUBSET S : SumFunctionOnSet(f, T) \notin Int}
<1>1. SUFFICES ASSUME Bad # {} PROVE FALSE
  OBVIOUS
<1>2. PICK T \in Bad : \A t \in Bad : t \subseteq T => t = T
  <2>1. Bad \in SUBSET (SUBSET S)
    OBVIOUS
  <2> HIDE DEF Bad
  <2> QED BY <1>1, <2>1, SmallestExists
<1>3. T # {} /\ IsFiniteSet(T)
  <2>1. SumFunctionOnSet(f, {}) = 0
    BY SumOfNone
  <2>2. T \in SUBSET S /\ SumFunctionOnSet(f, T) \notin Int
    BY <1>2
  <2>3. T # {}
    BY <2>1, <2>2
  <2> QED BY <2>2, <2>3, FS_Subset
<1> DEFINE c == Chosen(T)
           R == T \ {c}
<1>4. c \in T /\ R \subseteq T /\ R # T
  BY <1>3 DEF Chosen
<1>5. SumFunctionOnSet(f, R) \in Int
  BY <1>2, <1>4
<1>6. SumFunctionOnSet(f, T) = f[c] + SumFunctionOnSet(f, R)
  BY <1>3, SumStep
<1> HIDE DEF c, R
<1> QED BY <1>2, <1>4, <1>5, <1>6

\* A sum does not depend on the order.
LEMMA SumWithout ==
    ASSUME NEW S, IsFiniteSet(S), NEW f, \A x \in S : f[x] \in Int, NEW x \in S
    PROVE  SumFunctionOnSet(f, S) = f[x] + SumFunctionOnSet(f, S \ {x})
<1> DEFINE Fine(T) == \A y \in T : SumFunctionOnSet(f, T) = f[y] + SumFunctionOnSet(f, T \ {y})
           Bad == {T \in SUBSET S : ~Fine(T)}
<1>1. SUFFICES ASSUME Bad # {} PROVE FALSE
  OBVIOUS
<1>2. PICK T \in Bad : \A t \in Bad : t \subseteq T => t = T
  <2>1. Bad \in SUBSET (SUBSET S)
    OBVIOUS
  <2> HIDE DEF Bad
  <2> QED BY <1>1, <2>1, SmallestExists
<1>3. T \in SUBSET S /\ ~Fine(T) /\ \A t \in SUBSET S : t \subseteq T /\ t # T => Fine(t)
  BY <1>2
<1>4. PICK y \in T : SumFunctionOnSet(f, T) # f[y] + SumFunctionOnSet(f, T \ {y})
  BY <1>3
<1> DEFINE c == Chosen(T)
           B == T \ {c, y}
<1>5. c \in T /\ y \in T /\ IsFiniteSet(T)
  BY <1>3, <1>4, FS_Subset DEF Chosen
<1>6. SumFunctionOnSet(f, T) = f[c] + SumFunctionOnSet(f, T \ {c})
  BY <1>5, SumStep
<1> HIDE DEF Bad, c
<1>7. c # y
  BY <1>4, <1>6
<1>8. Fine(T \ {c}) /\ Fine(T \ {y})
  <2>1. T \ {c} \in SUBSET S /\ T \ {c} \subseteq T /\ T \ {c} # T
    BY <1>3, <1>5
  <2>2. T \ {y} \in SUBSET S /\ T \ {y} \subseteq T /\ T \ {y} # T
    BY <1>3, <1>5
  <2> HIDE DEF Fine
  <2> QED BY <1>3, <2>1, <2>2
<1>9. (T \ {c}) \ {y} = B /\ (T \ {y}) \ {c} = B /\ y \in T \ {c} /\ c \in T \ {y}
  BY <1>5, <1>7
<1>10. SumFunctionOnSet(f, T \ {c}) = f[y] + SumFunctionOnSet(f, B)
  BY <1>8, <1>9
<1>11. SumFunctionOnSet(f, T \ {y}) = f[c] + SumFunctionOnSet(f, B)
  BY <1>8, <1>9
<1>12. f[c] \in Int /\ f[y] \in Int /\ SumFunctionOnSet(f, B) \in Int
  <2>1. B \in SUBSET S /\ IsFiniteSet(B)
    BY <1>3, FS_Subset
  <2> QED BY <1>3, <1>5, <2>1, SumIsInt
<1> QED BY <1>4, <1>6, <1>10, <1>11, <1>12

\* A new member adds its value.
LEMMA SumWith ==
    ASSUME NEW S, IsFiniteSet(S), NEW x, x \notin S, NEW f, \A y \in S \cup {x} : f[y] \in Int
    PROVE  SumFunctionOnSet(f, S \cup {x}) = SumFunctionOnSet(f, S) + f[x]
<1>1. IsFiniteSet(S \cup {x}) /\ (S \cup {x}) \ {x} = S
  BY FS_AddElement
<1>2. SumFunctionOnSet(f, S \cup {x}) = f[x] + SumFunctionOnSet(f, S)
  BY <1>1, SumWithout
<1>3. SumFunctionOnSet(f, S) \in Int
  BY SumIsInt
<1> QED BY <1>2, <1>3

\* Functions that agree have the same sum.
LEMMA SumsOfEquals ==
    ASSUME NEW S, IsFiniteSet(S), NEW f, NEW g, \A x \in S : f[x] = g[x]
    PROVE  SumFunctionOnSet(f, S) = SumFunctionOnSet(g, S)
<1> DEFINE Bad == {T \in SUBSET S : SumFunctionOnSet(f, T) # SumFunctionOnSet(g, T)}
<1>1. SUFFICES ASSUME Bad # {} PROVE FALSE
  OBVIOUS
<1>2. PICK T \in Bad : \A t \in Bad : t \subseteq T => t = T
  <2>1. Bad \in SUBSET (SUBSET S)
    OBVIOUS
  <2> HIDE DEF Bad
  <2> QED BY <1>1, <2>1, SmallestExists
<1>3. T \in SUBSET S /\ IsFiniteSet(T) /\ SumFunctionOnSet(f, T) # SumFunctionOnSet(g, T)
  BY <1>2, FS_Subset
<1>4. T # {}
  <2>1. SumFunctionOnSet(f, {}) = 0 /\ SumFunctionOnSet(g, {}) = 0
    BY SumOfNone
  <2> QED BY <1>3, <2>1
<1> DEFINE R == T \ {Chosen(T)}
<1>5. Chosen(T) \in T /\ R \subseteq T /\ R # T
  BY <1>4 DEF Chosen
<1>6. SumFunctionOnSet(f, R) = SumFunctionOnSet(g, R)
  BY <1>2, <1>3, <1>5
<1>7. /\ SumFunctionOnSet(f, T) = f[Chosen(T)] + SumFunctionOnSet(f, R)
      /\ SumFunctionOnSet(g, T) = g[Chosen(T)] + SumFunctionOnSet(g, R)
  BY <1>3, <1>4, SumStep
<1>8. f[Chosen(T)] = g[Chosen(T)]
  BY <1>3, <1>5
<1> QED BY <1>3, <1>6, <1>7, <1>8

\* The sum of f + g is the sum of both.
LEMMA SumOfSums ==
    ASSUME NEW S, IsFiniteSet(S), NEW f, NEW g, NEW h,
           \A x \in S : f[x] \in Int /\ g[x] \in Int /\ h[x] = f[x] + g[x]
    PROVE  SumFunctionOnSet(h, S) = SumFunctionOnSet(f, S) + SumFunctionOnSet(g, S)
<1> DEFINE Sum(k, T) == SumFunctionOnSet(k, T)
           Bad == {T \in SUBSET S : Sum(h, T) # Sum(f, T) + Sum(g, T)}
<1>1. SUFFICES ASSUME Bad # {} PROVE FALSE
  OBVIOUS
<1>2. PICK T \in Bad : \A t \in Bad : t \subseteq T => t = T
  <2>1. Bad \in SUBSET (SUBSET S)
    OBVIOUS
  <2> HIDE DEF Bad
  <2> QED BY <1>1, <2>1, SmallestExists
<1>3. /\ T \in SUBSET S /\ Sum(h, T) # Sum(f, T) + Sum(g, T)
      /\ \A t \in SUBSET S : t \subseteq T /\ t # T => Sum(h, t) = Sum(f, t) + Sum(g, t)
  BY <1>2
<1> HIDE DEF Bad
<1>4. IsFiniteSet(T) /\ T # {}
  <2>1. Sum(h, {}) = 0 /\ Sum(f, {}) = 0 /\ Sum(g, {}) = 0
    BY SumOfNone
  <2>2. ASSUME T = {}
        PROVE  FALSE
    <3>1. Sum(h, T) = 0 /\ Sum(f, T) = 0 /\ Sum(g, T) = 0
      BY <2>1, <2>2
    <3> HIDE DEF Sum
    <3> QED BY <1>3, <3>1
  <2> QED BY <1>3, <2>2, FS_Subset
<1> DEFINE c == Chosen(T)
           R == T \ {c}
<1>5. c \in T /\ R \in SUBSET S /\ R \subseteq T /\ R # T /\ IsFiniteSet(R)
  BY <1>3, <1>4, FS_Subset DEF Chosen
<1>6. Sum(h, R) = Sum(f, R) + Sum(g, R)
  BY <1>3, <1>5
<1>7. Sum(h, T) = h[c] + Sum(h, R)
  BY <1>4, SumStep
<1>8. Sum(f, T) = f[c] + Sum(f, R)
  BY <1>4, SumStep
<1>9. Sum(g, T) = g[c] + Sum(g, R)
  BY <1>4, SumStep
<1>10. f[c] \in Int /\ g[c] \in Int /\ h[c] = f[c] + g[c]
  BY <1>3, <1>5
<1>11. Sum(f, R) \in Int /\ Sum(g, R) \in Int
  <2>1. \A x \in R : f[x] \in Int /\ g[x] \in Int
    BY <1>5
  <2> HIDE DEF R
  <2> QED BY <1>5, <2>1, SumIsInt
<1> HIDE DEF Sum, c, R
<1> QED BY <1>3, <1>6, <1>7, <1>8, <1>9, <1>10, <1>11

\* The sum of zeros is zero.
LEMMA SumOfZeros ==
    ASSUME NEW S, IsFiniteSet(S), NEW f, \A x \in S : f[x] = 0
    PROVE  SumFunctionOnSet(f, S) = 0
<1>1. SumFunctionOnSet(f, S) \in Int
  BY SumIsInt
<1>2. ASSUME NEW g, \A x \in S : g[x] = 0
      PROVE  SumFunctionOnSet(f, S) = SumFunctionOnSet(f, S) + SumFunctionOnSet(g, S)
  <2>1. \A x \in S : f[x] \in Int /\ g[x] \in Int /\ f[x] = f[x] + g[x]
    BY <1>2
  <2> QED BY <2>1, SumOfSums
<1> DEFINE z == [x \in S |-> 0]
<1>3. \A x \in S : z[x] = 0
  OBVIOUS
<1>4. \A x \in S : f[x] = z[x]
  OBVIOUS
<1> HIDE DEF z
<1>5. SumFunctionOnSet(f, S) = SumFunctionOnSet(f, S) + SumFunctionOnSet(z, S)
  BY <1>2, <1>3
<1>6. SumFunctionOnSet(f, S) = SumFunctionOnSet(z, S)
  BY <1>4, SumsOfEquals
<1> DEFINE n == SumFunctionOnSet(f, S)
<1>7. n \in Int /\ n = n + n
  BY <1>1, <1>5, <1>6
<1> HIDE DEF n
<1>8. n = 0
  BY <1>7
<1> QED BY <1>8 DEF n

\* What is zero outside of T need not be summed there.
LEMMA SumOverSubset ==
    ASSUME NEW S, IsFiniteSet(S), NEW T \in SUBSET S, NEW f,
           \A x \in S : f[x] \in Int, \A x \in S \ T : f[x] = 0
    PROVE  SumFunctionOnSet(f, S) = SumFunctionOnSet(f, T)
<1> DEFINE Sum(U) == SumFunctionOnSet(f, U)
           Bad == {U \in SUBSET S : T \subseteq U /\ Sum(U) # Sum(T)}
<1>1. SUFFICES ASSUME Bad # {} PROVE FALSE
  OBVIOUS
<1>2. PICK U \in Bad : \A t \in Bad : t \subseteq U => t = U
  <2>1. Bad \in SUBSET (SUBSET S)
    OBVIOUS
  <2> HIDE DEF Bad
  <2> QED BY <1>1, <2>1, SmallestExists
<1>3. U \in SUBSET S /\ T \subseteq U /\ Sum(U) # Sum(T) /\ IsFiniteSet(U)
  BY <1>2, FS_Subset
<1>4. PICK x \in U \ T : TRUE
  BY <1>3
<1>5. Sum(U \ {x}) = Sum(T)
  <2>1. U \ {x} \in SUBSET S /\ T \subseteq U \ {x} /\ U \ {x} \subseteq U /\ U \ {x} # U
    BY <1>3, <1>4
  <2> QED BY <1>2, <2>1
<1>6. Sum(U) = f[x] + Sum(U \ {x})
  BY <1>3, <1>4, SumWithout
<1>7. f[x] = 0 /\ Sum(T) \in Int
  BY <1>3, <1>4, FS_Subset, SumIsInt
<1> HIDE DEF Sum
<1> QED BY <1>3, <1>5, <1>6, <1>7

\* Where every value is at most another, so is the sum.
LEMMA SumsCompare ==
    ASSUME NEW S, IsFiniteSet(S), NEW f, NEW g,
           \A x \in S : f[x] \in Int /\ g[x] \in Int /\ f[x] <= g[x]
    PROVE  SumFunctionOnSet(f, S) <= SumFunctionOnSet(g, S)
<1> DEFINE Bad == {T \in SUBSET S : ~ (SumFunctionOnSet(f, T) <= SumFunctionOnSet(g, T))}
<1>1. SUFFICES ASSUME Bad # {} PROVE FALSE
  OBVIOUS
<1>2. PICK T \in Bad : \A t \in Bad : t \subseteq T => t = T
  <2>1. Bad \in SUBSET (SUBSET S)
    OBVIOUS
  <2> HIDE DEF Bad
  <2> QED BY <1>1, <2>1, SmallestExists
<1>3. /\ T \in SUBSET S /\ IsFiniteSet(T)
      /\ ~ (SumFunctionOnSet(f, T) <= SumFunctionOnSet(g, T))
  BY <1>2, FS_Subset
<1>4. T # {}
  <2>1. SumFunctionOnSet(f, {}) = 0 /\ SumFunctionOnSet(g, {}) = 0
    BY SumOfNone
  <2> QED BY <1>3, <2>1
<1> DEFINE R == T \ {Chosen(T)}
<1>5. Chosen(T) \in T /\ R \in SUBSET S /\ R \subseteq T /\ R # T /\ IsFiniteSet(R)
  BY <1>3, <1>4, FS_Subset DEF Chosen
<1>6. SumFunctionOnSet(f, R) <= SumFunctionOnSet(g, R)
  BY <1>2, <1>5
<1>7. /\ SumFunctionOnSet(f, T) = f[Chosen(T)] + SumFunctionOnSet(f, R)
      /\ SumFunctionOnSet(g, T) = g[Chosen(T)] + SumFunctionOnSet(g, R)
  BY <1>3, <1>4, SumStep
<1>8. f[Chosen(T)] \in Int /\ g[Chosen(T)] \in Int /\ f[Chosen(T)] <= g[Chosen(T)]
  BY <1>3, <1>5
<1>9. SumFunctionOnSet(f, R) \in Int /\ SumFunctionOnSet(g, R) \in Int
  <2>1. \A x \in R : f[x] \in Int /\ g[x] \in Int
    BY <1>5
  <2> HIDE DEF R
  <2> QED BY <1>5, <2>1, SumIsInt
<1> HIDE DEF R
<1> QED BY <1>3, <1>6, <1>7, <1>8, <1>9

\* Then the sums are the same only if all the values are.
LEMMA SumsDiffer ==
    ASSUME NEW S, IsFiniteSet(S), NEW f, NEW g,
           \A x \in S : f[x] \in Int /\ g[x] \in Int /\ f[x] <= g[x],
           NEW c \in S, f[c] < g[c]
    PROVE  SumFunctionOnSet(f, S) < SumFunctionOnSet(g, S)
<1> DEFINE R == S \ {c}
<1>1. IsFiniteSet(R) /\ \A x \in R : f[x] \in Int /\ g[x] \in Int /\ f[x] <= g[x]
  BY FS_Subset
<1>2. /\ SumFunctionOnSet(f, S) = f[c] + SumFunctionOnSet(f, R)
      /\ SumFunctionOnSet(g, S) = g[c] + SumFunctionOnSet(g, R)
  BY SumWithout
<1> HIDE DEF R
<1>3. SumFunctionOnSet(f, R) <= SumFunctionOnSet(g, R)
  BY <1>1, SumsCompare
<1>4. SumFunctionOnSet(f, R) \in Int /\ SumFunctionOnSet(g, R) \in Int
  BY <1>1, SumIsInt
<1>5. f[c] \in Int /\ g[c] \in Int
  OBVIOUS
<1> QED BY <1>2, <1>3, <1>4, <1>5

-----------------------------------------------------------------------------
\* Products and quotients.

\* A product of naturals is one.
LEMMA ProductIsNat == ASSUME NEW a \in Nat, NEW b \in Nat PROVE a * b \in Nat
  OBVIOUS

\* The product of no factor is one.
LEMMA ProductOfNone == ProductSet({}) = 1
<1>1. PICK F : Folds("product", {}, {}, F)
  BY FoldsExist, FS_EmptySet
<1>2. ProductSet({}) = F[{}]
  BY <1>1, ProductIsFold, FoldIsUnique, FS_EmptySet
<1> QED BY <1>1, <1>2, FoldsStep DEF First

\* A product is one of its factors times the rest.
LEMMA ProductStep ==
    ASSUME NEW S, IsFiniteSet(S), S # {}
    PROVE  ProductSet(S) = Chosen(S) * ProductSet(S \ {Chosen(S)})
<1> DEFINE R == S \ {Chosen(S)}
<1>1. PICK F : Folds("product", {}, S, F)
  BY FoldsExist
<1>2. S \in SUBSET S /\ R \in SUBSET S
  OBVIOUS
<1>3. ASSUME NEW T \in SUBSET S
      PROVE  ProductSet(T) = F[T]
  <2>1. (CHOOSE G : Folds("product", {}, T, G))[T] = F[T]
    BY <1>1, FoldIsUnique
  <2> QED BY <2>1, ProductIsFold
<1>4. F[S] = Combined("product", {}, Chosen(S), F[R])
  <2>1. F[S] = IF S = {} THEN First("product")
               ELSE Combined("product", {}, Chosen(S), F[S \ {Chosen(S)}])
    BY <1>1, <1>2, FoldsStep
  <2> QED BY <2>1
<1>5. F[S] = Chosen(S) * F[R]
  BY <1>4 DEF Combined
<1>6. ProductSet(S) = F[S] /\ ProductSet(R) = F[R]
  BY <1>2, <1>3
<1> QED BY <1>5, <1>6

\* What division leaves is less than the divisor.
LEMMA DivBounds ==
    ASSUME NEW a \in Int, NEW b \in Nat \ {0}
    PROVE  a \div b \in Int /\ b * (a \div b) <= a /\ a < b * (a \div b) + b
  OBVIOUS

-----------------------------------------------------------------------------
\* Sets of numbers.

\* A set of natural numbers that has a member has a least one.
LEMMA LeastOf ==
    ASSUME NEW S \in SUBSET Nat, S # {}
    PROVE  \E m \in S : \A n \in S : m <= n
<1> DEFINE below == {0 .. n : n \in S}
<1>1. below \subseteq FiniteSubsetsOf(Nat) /\ below # {}
  <2>1. ASSUME NEW n \in S
        PROVE  IsFiniteSet(0 .. n) /\ 0 .. n \subseteq Nat
    BY FS_Interval
  <2> QED BY <2>1 DEF FiniteSubsetsOf
<1>2. PICK x \in below : \A y \in below : ~ (<<y, x>> \in StrictSubsetOrdering(Nat))
  BY <1>1, FS_StrictSubsetOrderingWellFounded, WFMin
<1>3. PICK m \in S : x = 0 .. m
  BY <1>2
<1>4. ASSUME NEW n \in S, n < m
      PROVE  FALSE
  <2>1. 0 .. n \subseteq 0 .. m /\ 0 .. n # 0 .. m
    <3>1. m \in 0 .. m /\ m \notin 0 .. n
      BY <1>4
    <3>2. \A k \in 0 .. n : k \in 0 .. m
      BY <1>4
    <3> QED BY <3>1, <3>2
  <2>2. <<0 .. n, 0 .. m>> \in StrictSubsetOrdering(Nat)
    BY <2>1 DEF StrictSubsetOrdering
  <2> QED BY <1>2, <1>3, <2>2
<1>5. \A n \in S : m <= n
  BY <1>4
<1> QED BY <1>5

\* How many of these numbers are not above p.
Rank(P, p) == Cardinality({q \in P : q <= p})

\* In a finite set of numbers the n-th has rank n, and every one has a rank.
LEMMA NthHasRank ==
    ASSUME NEW P \in SUBSET Nat, IsFiniteSet(P)
    PROVE  /\ Cardinality(P) \in Nat
           /\ \A n \in 1 .. Cardinality(P) : Nth(P, n) \in P /\ Rank(P, Nth(P, n)) = n
           /\ \A p \in P : Rank(P, p) \in 1 .. Cardinality(P) /\ Nth(P, Rank(P, p)) = p
<1> DEFINE below(p) == {q \in P : q <= p}
           rank == [p \in P |-> Cardinality(below(p))]
           k == Cardinality(P)
<1>1. k \in Nat
  BY FS_CardinalityType
<1>2. ASSUME NEW p \in P
      PROVE  rank[p] \in 1 .. k
  <2>1. below(p) \subseteq P /\ IsFiniteSet(below(p)) /\ Cardinality(below(p)) <= k
    BY FS_Subset
  <2>2. p \in below(p)
    OBVIOUS
  <2> HIDE DEF below, k
  <2>3. Cardinality(below(p)) \in Nat /\ Cardinality(below(p)) # 0
    BY <2>1, <2>2, FS_CardinalityType, FS_EmptySet
  <2> QED BY <1>1, <2>1, <2>3
<1>3. ASSUME NEW p \in P, NEW q \in P, p < q
      PROVE  rank[p] # rank[q]
  <2>0. P \subseteq Nat /\ p \in Nat /\ q \in Nat
    OBVIOUS
  <2>1. below(p) \subseteq below(q)
    <3>1. \A x \in P : x \in Nat /\ (x <= p => x <= q)
      BY <1>3, <2>0
    <3> QED BY <3>1
  <2>3. q <= q /\ ~(q <= p)
    BY <1>3, <2>0
  <2>4. q \in below(q) /\ q \notin below(p)
    BY <2>3
  <2>2. IsFiniteSet(below(q))
    <3>1. below(q) \subseteq P
      OBVIOUS
    <3> QED BY <3>1, FS_Subset
  <2> HIDE DEF below
  <2>5. Cardinality(below(p)) # Cardinality(below(q))
    BY <2>1, <2>2, <2>4, FS_Subset
  <2> QED BY <2>5
<1>4. rank \in Injection(P, 1 .. k)
  <2>1. rank \in [P -> 1 .. k]
    BY <1>2
  <2>2. \A p, q \in P : rank[p] = rank[q] => p = q
    BY <1>3
  <2> HIDE DEF rank, k
  <2> QED BY <2>1, <2>2 DEF Injection, IsInjective
<1>5. IsFiniteSet(1 .. k) /\ Cardinality(1 .. k) = k
  <2> HIDE DEF k
  <2> QED BY <1>1, FS_Interval
<1>6. rank \in Surjection(P, 1 .. k)
  <2> HIDE DEF rank
  <2> QED BY <1>4, <1>5, FS_Injection
<1>7. \A n \in 1 .. k : \E p \in P : rank[p] = n
  <2> HIDE DEF rank, k
  <2> QED BY <1>6 DEF Surjection
<1>8. ASSUME NEW n \in 1 .. k
      PROVE  Nth(P, n) \in P /\ rank[Nth(P, n)] = n
  <2>1. \E p \in P : Cardinality({q \in P : q <= p}) = n
    BY <1>7
  <2> QED BY <2>1 DEF Nth
<1>9. ASSUME NEW p \in P
      PROVE  Nth(P, rank[p]) = p
  <2>1. rank[p] \in 1 .. k
    BY <1>2
  <2>2. Nth(P, rank[p]) \in P /\ rank[Nth(P, rank[p])] = rank[p]
    BY <1>8, <2>1
  <2> HIDE DEF rank
  <2> QED BY <1>4, <2>2 DEF Injection, IsInjective
<1>10. \A p \in P : Rank(P, p) = rank[p]
  BY DEF Rank
<1> HIDE DEF rank
<1> QED BY <1>1, <1>2, <1>8, <1>9, <1>10

\* The members of a finite set of numbers are its first, second, and so on.
LEMMA NthOfFinite ==
    ASSUME NEW P \in SUBSET Nat, IsFiniteSet(P)
    PROVE  /\ Cardinality(P) \in Nat
           /\ \A n \in 1 .. Cardinality(P) : Nth(P, n) \in P
           /\ \A p \in P : \E n \in 1 .. Cardinality(P) : Nth(P, n) = p
  BY NthHasRank

\* The n-th is not above a number when at least n of them are not.
LEMMA NthIsNotAbove ==
    ASSUME NEW P \in SUBSET Nat, IsFiniteSet(P), NEW at \in Nat, NEW n \in 1 .. Cardinality(P)
    PROVE  Nth(P, n) <= at <=> n <= Rank(P, at)
<1>1. Nth(P, n) \in P /\ Rank(P, Nth(P, n)) = n /\ n \in Nat /\ P \subseteq Nat
  BY NthHasRank
<1>2. ASSUME NEW p \in Nat, NEW q \in Nat, p <= q
      PROVE  Rank(P, p) <= Rank(P, q)
  <2>1. \A x \in P : x \in Nat /\ (x <= p => x <= q)
    BY <1>1, <1>2
  <2>2. {x \in P : x <= p} \subseteq {x \in P : x <= q} /\ IsFiniteSet({x \in P : x <= q})
    BY <2>1, FS_Subset
  <2> QED BY <2>2, FS_Subset DEF Rank
<1>3. CASE Nth(P, n) <= at
  BY <1>1, <1>2, <1>3
<1>4. ASSUME at < Nth(P, n), n <= Rank(P, at)
      PROVE  FALSE
  <2> DEFINE lower == {x \in P : x <= at}
             upTo == {x \in P : x <= Nth(P, n)}
  <2>1. lower \subseteq upTo /\ Nth(P, n) \in upTo /\ Nth(P, n) \notin lower
    <3> DEFINE p == Nth(P, n)
    <3>1. p \in P /\ p \in Nat /\ at < p /\ \A x \in P : x \in Nat
      BY <1>1, <1>4
    <3> HIDE DEF p
    <3>2. \A x \in P : x <= at => x <= p
      BY <3>1
    <3>3. ~ (p <= at) /\ p <= p
      BY <3>1
    <3> QED BY <3>1, <3>2, <3>3 DEF p
  <2>2. IsFiniteSet(upTo) /\ Cardinality(lower) = Rank(P, at) /\ Cardinality(upTo) = n
    BY <1>1, FS_Subset DEF Rank
  <2> HIDE DEF lower, upTo
  <2>3. Cardinality(lower) <= Cardinality(upTo) /\ Cardinality(lower) # Cardinality(upTo)
    BY <2>1, <2>2, FS_Subset
  <2>4. Cardinality(lower) \in Nat
    BY <2>1, <2>2, FS_Subset, FS_CardinalityType
  <2> QED BY <1>1, <1>4, <2>2, <2>3, <2>4
<1>5. Nth(P, n) \in Nat
  BY <1>1
<1> QED BY <1>3, <1>4, <1>5
===============================================================================
