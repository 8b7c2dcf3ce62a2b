---------------------------- MODULE SumTheorems ----------------------------
(***************************************************************************)
(* Sums over finite sets of integers: what SumFunctionOnSet of the         *)
(* community modules gives for the empty set, for a set with an element    *)
(* more or less, for the difference of two sets and for a changed value.   *)
(* The models sum an order's units, a customer's points or an invoice's    *)
(* lines that way, and so do the proofs about them.                        *)
(*                                                                         *)
(* The sum is the value of a recursive function the library chooses, so    *)
(* each fact is shown by looking at a minimal set for which it fails       *)
(* (MinimalSubset), which is what an induction over finite sets does.      *)
(***************************************************************************)
EXTENDS Integers, FiniteSetsExt, FiniteSetTheorems, TLAPS

\* The element the fold takes out of a set next.
Pick(s) == CHOOSE x \in s : TRUE

\* The equation the recursive function of the fold satisfies.
IsSum(f, S, g) ==
    g = [s \in SUBSET S |-> IF s = {} THEN 0 ELSE f[Pick(s)] + g[s \ {Pick(s)}]]

\* The sum is the value at S of a function that satisfies the equation.
LEMMA SumUnfold ==
    ASSUME NEW f, NEW S
    PROVE  SumFunctionOnSet(f, S) = (CHOOSE g : IsSum(f, S, g))[S]
  BY DEF SumFunctionOnSet, FoldFunctionOnSet, MapThenFoldSet, IsSum, Pick

\* Some member of a nonempty set of subsets of a finite set contains no other.
LEMMA MinimalSubset ==
    ASSUME NEW S, IsFiniteSet(S), NEW T, T \subseteq SUBSET S, T # {}
    PROVE  \E x \in T : \A y \in T : y \subseteq x => y = x
  <1>1. IsWellFoundedOn(StrictSubsetOrdering(S), SUBSET S)
    BY FS_StrictSubsetOrderingWellFounded, FS_FiniteSubsetsOfFinite
  <1>2. \E x \in T : \A y \in T : ~(<<y, x>> \in StrictSubsetOrdering(S))
    BY <1>1, WFMin
  <1>3. QED
    BY <1>2 DEF StrictSubsetOrdering

\* There is an element to take out of a set that is not empty.
LEMMA PickElement ==
    ASSUME NEW s, s # {}
    PROVE  Pick(s) \in s
  BY DEF Pick

\* The equation at one set.
LEMMA SumValue ==
    ASSUME NEW f, NEW S, NEW g, IsSum(f, S, g), NEW s \in SUBSET S
    PROVE  g[s] = IF s = {} THEN 0 ELSE f[Pick(s)] + g[s \ {Pick(s)}]
  BY DEF IsSum

\* Two functions that satisfy the equation agree where both are defined.
LEMMA SumsAgree ==
    ASSUME NEW f, NEW S, IsFiniteSet(S), NEW R, IsFiniteSet(R),
           NEW g, IsSum(f, S, g), NEW h, IsSum(f, R, h),
           NEW T, T \subseteq S, T \subseteq R
    PROVE  g[T] = h[T]
  <1> DEFINE Bad == {s \in SUBSET T : g[s] # h[s]}
  <1> SUFFICES ASSUME Bad # {} PROVE FALSE
    OBVIOUS
  <1>1. PICK s \in Bad : \A y \in Bad : y \subseteq s => y = s
    <2>1. Bad \subseteq SUBSET S
      OBVIOUS
    <2> HIDE DEF Bad
    <2>2. QED
      BY <2>1, MinimalSubset
  <1>2. /\ g[s] = IF s = {} THEN 0 ELSE f[Pick(s)] + g[s \ {Pick(s)}]
        /\ h[s] = IF s = {} THEN 0 ELSE f[Pick(s)] + h[s \ {Pick(s)}]
    <2>1. s \in SUBSET S /\ s \in SUBSET R
      OBVIOUS
    <2>2. QED
      BY <2>1, SumValue
  <1>3. s # {} => s \ {Pick(s)} \notin Bad
    BY <1>1, PickElement
  <1>4. QED
    BY <1>2, <1>3

\* There is a function that satisfies the equation.
LEMMA SumExists ==
    ASSUME NEW f, NEW S, IsFiniteSet(S)
    PROVE  \E g : IsSum(f, S, g)
  <1> DEFINE Bad == {T \in SUBSET S : ~\E g : IsSum(f, T, g)}
  <1> SUFFICES ASSUME Bad # {} PROVE FALSE
    OBVIOUS
  <1>1. PICK T \in Bad : \A y \in Bad : y \subseteq T => y = T
    <2>1. Bad \subseteq SUBSET S
      OBVIOUS
    <2> HIDE DEF Bad
    <2>2. QED
      BY <2>1, MinimalSubset
  <1> DEFINE G(s) == CHOOSE g : IsSum(f, s, g)
             g == [s \in SUBSET T |->
                    IF s = {} THEN 0 ELSE f[Pick(s)] + G(s \ {Pick(s)})[s \ {Pick(s)}]]
  <1> HIDE DEF Bad
  <1>2. ASSUME NEW s \in SUBSET T, s # T
        PROVE  IsSum(f, s, G(s))
    BY <1>2, <1>1 DEF Bad
  <1>3. \A s \in SUBSET T : IsFiniteSet(s)
    BY <1>1, FS_Subset DEF Bad
  <1> HIDE DEF G
  <1>4. ASSUME NEW s \in SUBSET T, s # T
        PROVE  g[s] = G(s)[s]
    <2>1. CASE s = {}
      BY <2>1, <1>2, <1>4, SumValue
    <2>2. CASE s # {}
      <3> DEFINE u == s \ {Pick(s)}
      <3>1. u \subseteq s /\ u # T /\ u \in SUBSET T
        BY <2>2, PickElement
      <3>2. g[s] = f[Pick(s)] + G(u)[u]
        BY <2>2
      <3>3. G(s)[s] = f[Pick(s)] + G(s)[u]
        BY <2>2, <1>2, <1>4, SumValue
      <3>4. G(s)[u] = G(u)[u]
        <4>1. IsSum(f, s, G(s)) /\ IsSum(f, u, G(u)) /\ IsFiniteSet(s) /\ IsFiniteSet(u)
          BY <1>2, <1>3, <1>4, <3>1
        <4> HIDE DEF u
        <4>2. QED
          BY <4>1, <3>1, SumsAgree
      <3>5. QED
        BY <3>2, <3>3, <3>4
    <2>3. QED
      BY <2>1, <2>2
  <1>5. ASSUME NEW s \in SUBSET T, s # {}
        PROVE  g[s] = f[Pick(s)] + g[s \ {Pick(s)}]
    <2> DEFINE u == s \ {Pick(s)}
    <2>1. u \in SUBSET T /\ u # T
      BY <1>5, PickElement
    <2>2. g[s] = f[Pick(s)] + G(u)[u]
      BY <1>5
    <2>3. QED
      BY <2>1, <2>2, <1>4
  <1>6. IsSum(f, T, g)
    <2>1. g = [s \in SUBSET T |-> g[s]]
      OBVIOUS
    <2>2. ASSUME NEW s \in SUBSET T
          PROVE  g[s] = IF s = {} THEN 0 ELSE f[Pick(s)] + g[s \ {Pick(s)}]
      BY <1>5
    <2> HIDE DEF g
    <2>3. QED
      BY <2>1, <2>2 DEF IsSum
  <1>7. QED
    BY <1>1, <1>6 DEF Bad

\* The sum over the empty set.
LEMMA SumEmpty ==
    ASSUME NEW f
    PROVE  SumFunctionOnSet(f, {}) = 0
  <1>1. \E g : IsSum(f, {}, g)
    BY SumExists, FS_EmptySet
  <1>2. QED
    BY <1>1, SumUnfold, SumValue

\* The element the fold takes out first is added to the sum of the others.
LEMMA SumPick ==
    ASSUME NEW f, NEW S, IsFiniteSet(S), S # {}
    PROVE  SumFunctionOnSet(f, S) = f[Pick(S)] + SumFunctionOnSet(f, S \ {Pick(S)})
  <1> DEFINE T == S \ {Pick(S)}
             g == CHOOSE h : IsSum(f, S, h)
             k == CHOOSE h : IsSum(f, T, h)
  <1>1. IsFiniteSet(T)
    BY FS_RemoveElement
  <1>2. IsSum(f, S, g) /\ IsSum(f, T, k)
    BY <1>1, SumExists
  <1>3. SumFunctionOnSet(f, S) = g[S] /\ SumFunctionOnSet(f, T) = k[T]
    BY SumUnfold
  <1> HIDE DEF g, k
  <1>4. g[S] = f[Pick(S)] + g[T]
    BY <1>2, SumValue
  <1>5. g[T] = k[T]
    <2>1. T \subseteq S /\ T \subseteq T
      OBVIOUS
    <2> HIDE DEF T
    <2>2. \A U : U \subseteq S /\ U \subseteq T => g[U] = k[U]
      BY <1>1, <1>2, SumsAgree
    <2>3. QED
      BY <2>1, <2>2
  <1>6. QED
    BY <1>3, <1>4, <1>5

\* A sum of integers is an integer.
LEMMA SumType ==
    ASSUME NEW f, NEW S, IsFiniteSet(S), \A x \in S : f[x] \in Int
    PROVE  SumFunctionOnSet(f, S) \in Int
  <1> DEFINE Bad == {T \in SUBSET S : SumFunctionOnSet(f, T) \notin Int}
  <1> SUFFICES ASSUME Bad # {} PROVE FALSE
    OBVIOUS
  <1>1. PICK T \in Bad : \A y \in Bad : y \subseteq T => y = T
    <2>1. Bad \subseteq SUBSET S
      OBVIOUS
    <2> HIDE DEF Bad
    <2>2. QED
      BY <2>1, MinimalSubset
  <1>2. T # {}
    BY SumEmpty
  <1>3. Pick(T) \in T
    BY <1>2, PickElement
  <1>4. T \ {Pick(T)} \notin Bad
    BY <1>1, <1>3
  <1>5. IsFiniteSet(T)
    BY FS_Subset
  <1>6. SumFunctionOnSet(f, T) = f[Pick(T)] + SumFunctionOnSet(f, T \ {Pick(T)})
    BY <1>2, <1>5, SumPick
  <1>7. QED
    BY <1>3, <1>4, <1>6

\* Any element may be taken out first.
LEMMA SumRemove ==
    ASSUME NEW f, NEW S, IsFiniteSet(S), \A x \in S : f[x] \in Int, NEW a \in S
    PROVE  SumFunctionOnSet(f, S) = f[a] + SumFunctionOnSet(f, S \ {a})
  <1> DEFINE Sum(T) == SumFunctionOnSet(f, T)
             Bad == {T \in SUBSET S : \E x \in T : Sum(T) # f[x] + Sum(T \ {x})}
  <1> SUFFICES ASSUME Bad # {} PROVE FALSE
    OBVIOUS
  <1>1. PICK T \in Bad : \A y \in Bad : y \subseteq T => y = T
    <2>1. Bad \subseteq SUBSET S
      OBVIOUS
    <2> HIDE DEF Bad
    <2>2. QED
      BY <2>1, MinimalSubset
  <1>2. PICK x \in T : Sum(T) # f[x] + Sum(T \ {x})
    OBVIOUS
  <1> DEFINE p == Pick(T)
             u == T \ {x, p}
  <1>3. p \in T
    BY PickElement
  <1>4. \A V \in SUBSET T : IsFiniteSet(V) /\ Sum(V) \in Int
    BY FS_Subset, SumType
  <1>5. Sum(T) = f[p] + Sum(T \ {p})
    BY <1>4, SumPick
  <1> HIDE DEF Sum, p
  <1>6. x # p
    BY <1>2, <1>5
  <1>7. T \ {p} \notin Bad /\ T \ {x} \notin Bad
    BY <1>1, <1>3
  <1>8. Sum(T \ {p}) = f[x] + Sum(u)
    <2>1. (T \ {p}) \ {x} = u /\ x \in T \ {p} /\ T \ {p} \in SUBSET S
      BY <1>6
    <2>2. QED
      BY <2>1, <1>7
  <1>9. Sum(T \ {x}) = f[p] + Sum(u)
    <2>1. (T \ {x}) \ {p} = u /\ p \in T \ {x} /\ T \ {x} \in SUBSET S
      BY <1>3, <1>6
    <2>2. QED
      BY <2>1, <1>7
  <1>10. f[x] \in Int /\ f[p] \in Int /\ Sum(u) \in Int
    BY <1>3, <1>4
  <1>11. QED
    BY <1>2, <1>5, <1>8, <1>9, <1>10

\* One element.
LEMMA SumOfOne ==
    ASSUME NEW f, NEW a, f[a] \in Int
    PROVE  SumFunctionOnSet(f, {a}) = f[a]
  <1>1. {a} \ {a} = {} /\ IsFiniteSet({a})
    BY FS_Singleton
  <1>2. SumFunctionOnSet(f, {a}) = f[a] + SumFunctionOnSet(f, {})
    BY <1>1, SumRemove
  <1> QED
    BY <1>2, SumEmpty

\* An element more.
LEMMA SumAdd ==
    ASSUME NEW f, NEW S, IsFiniteSet(S), NEW a, a \notin S, \A x \in S \cup {a} : f[x] \in Int
    PROVE  SumFunctionOnSet(f, S \cup {a}) = SumFunctionOnSet(f, S) + f[a]
  <1>1. (S \cup {a}) \ {a} = S /\ IsFiniteSet(S \cup {a})
    BY FS_AddElement
  <1>2. SumFunctionOnSet(f, S) \in Int
    BY SumType
  <1>3. SumFunctionOnSet(f, S \cup {a}) = f[a] + SumFunctionOnSet(f, S)
    BY <1>1, SumRemove
  <1>4. QED
    BY <1>2, <1>3

\* Only the values on the set matter.
LEMMA SumSame ==
    ASSUME NEW f, NEW g, NEW S, IsFiniteSet(S), \A x \in S : f[x] = g[x]
    PROVE  SumFunctionOnSet(f, S) = SumFunctionOnSet(g, S)
  <1> DEFINE Bad == {T \in SUBSET S : SumFunctionOnSet(f, T) # SumFunctionOnSet(g, T)}
  <1> SUFFICES ASSUME Bad # {} PROVE FALSE
    OBVIOUS
  <1>1. PICK T \in Bad : \A y \in Bad : y \subseteq T => y = T
    <2>1. Bad \subseteq SUBSET S
      OBVIOUS
    <2> HIDE DEF Bad
    <2>2. QED
      BY <2>1, MinimalSubset
  <1>2. T # {}
    BY SumEmpty
  <1>3. Pick(T) \in T
    BY <1>2, PickElement
  <1>4. T \ {Pick(T)} \notin Bad
    BY <1>1, <1>3
  <1>5. IsFiniteSet(T)
    BY FS_Subset
  <1>6. /\ SumFunctionOnSet(f, T) = f[Pick(T)] + SumFunctionOnSet(f, T \ {Pick(T)})
        /\ SumFunctionOnSet(g, T) = g[Pick(T)] + SumFunctionOnSet(g, T \ {Pick(T)})
    BY <1>2, <1>5, SumPick
  <1>7. QED
    BY <1>3, <1>4, <1>6

\* The sum over what is left when a part is taken out.
LEMMA SumDifference ==
    ASSUME NEW f, NEW S, IsFiniteSet(S), \A x \in S : f[x] \in Int, NEW D \in SUBSET S
    PROVE  SumFunctionOnSet(f, S \ D) = SumFunctionOnSet(f, S) - SumFunctionOnSet(f, D)
  <1> DEFINE Sum(T) == SumFunctionOnSet(f, T)
             Bad == {T \in SUBSET S : Sum(S \ T) # Sum(S) - Sum(T)}
  <1> SUFFICES ASSUME Bad # {} PROVE FALSE
    OBVIOUS
  <1>1. PICK T \in Bad : \A y \in Bad : y \subseteq T => y = T
    <2>1. Bad \subseteq SUBSET S
      OBVIOUS
    <2> HIDE DEF Bad
    <2>2. QED
      BY <2>1, MinimalSubset
  <1>2. \A V \in SUBSET S : IsFiniteSet(V) /\ Sum(V) \in Int
    BY FS_Subset, SumType
  <1>3. T # {}
    <2>1. Sum({}) = 0 /\ Sum(S) \in Int
      BY <1>2, SumEmpty
    <2>2. Sum(S \ T) # Sum(S) - Sum(T)
      BY <1>1
    <2>3. ASSUME T = {} PROVE S \ T = S
      BY <2>3
    <2> HIDE DEF Sum
    <2>4. QED
      BY <2>1, <2>2, <2>3
  <1>4. PICK a \in T : TRUE
    BY <1>3
  <1> DEFINE U == T \ {a}
  <1>5. Sum(S \ U) = Sum(S) - Sum(U)
    BY <1>1, <1>4
  <1>6. Sum(T) = f[a] + Sum(U)
    <2>1. IsFiniteSet(T) /\ \A x \in T : f[x] \in Int
      BY <1>2
    <2>2. QED
      BY <1>4, <2>1, SumRemove
  <1>7. Sum(S \ U) = Sum(S \ T) + f[a]
    <2>1. S \ U = (S \ T) \cup {a} /\ a \notin S \ T /\ IsFiniteSet(S \ T)
      BY <1>2, <1>4
    <2>2. \A x \in (S \ T) \cup {a} : f[x] \in Int
      BY <1>4
    <2>3. QED
      BY <2>1, <2>2, SumAdd
  <1>8. Sum(S) \in Int /\ Sum(T) \in Int /\ Sum(U) \in Int /\ Sum(S \ T) \in Int /\ f[a] \in Int
    BY <1>2, <1>4
  <1>9. Sum(S \ T) # Sum(S) - Sum(T)
    BY <1>1
  <1> HIDE DEF Sum, U
  <1>10. QED
    BY <1>5, <1>6, <1>7, <1>8, <1>9

\* The value at one element changes.
LEMMA SumUpdate ==
    ASSUME NEW f, NEW g, NEW S, IsFiniteSet(S), NEW a \in S,
           \A x \in S : f[x] \in Int /\ g[x] \in Int,
           \A x \in S \ {a} : f[x] = g[x]
    PROVE  SumFunctionOnSet(g, S) = SumFunctionOnSet(f, S) + (g[a] - f[a])
  <1>1. IsFiniteSet(S \ {a})
    BY FS_RemoveElement
  <1>2. SumFunctionOnSet(f, S \ {a}) = SumFunctionOnSet(g, S \ {a})
    BY <1>1, SumSame
  <1>3. SumFunctionOnSet(f, S \ {a}) \in Int
    BY <1>1, SumType
  <1>4. SumFunctionOnSet(f, S) = f[a] + SumFunctionOnSet(f, S \ {a})
    BY SumRemove
  <1>5. SumFunctionOnSet(g, S) = g[a] + SumFunctionOnSet(g, S \ {a})
    BY SumRemove
  <1>6. QED
    BY <1>2, <1>3, <1>4, <1>5

\* What an element adds to the sum over a set: its value if it is in the set.
ValueIn(f, A, x) == IF x \in A THEN f[x] ELSE 0

LEMMA SumWithout ==
    ASSUME NEW f, NEW A, NEW T, IsFiniteSet(A \cap T), \A y \in A \cap T : f[y] \in Int,
           NEW x \in T
    PROVE  SumFunctionOnSet(f, A \cap T)
             = SumFunctionOnSet(f, A \cap (T \ {x})) + ValueIn(f, A, x)
  <1> DEFINE C == A \cap T
             D == A \cap (T \ {x})
  <1>1. D = C \ {x} /\ (x \in C <=> x \in A) /\ IsFiniteSet(C) /\ \A y \in C : f[y] \in Int
    OBVIOUS
  <1> HIDE DEF C, D
  <1>2. SumFunctionOnSet(f, D) \in Int
    <2>1. IsFiniteSet(D) /\ \A y \in D : f[y] \in Int
      BY <1>1, FS_Subset
    <2> QED
      BY <2>1, SumType
  <1>3. CASE x \in C
    <2>1. SumFunctionOnSet(f, C) = f[x] + SumFunctionOnSet(f, D)
      BY <1>1, <1>3, SumRemove
    <2>2. f[x] \in Int
      BY <1>1, <1>3
    <2>3. SumFunctionOnSet(f, C) = SumFunctionOnSet(f, D) + IF x \in A THEN f[x] ELSE 0
      BY <1>1, <1>2, <1>3, <2>1, <2>2
    <2> QED
      BY <2>3 DEF C, D, ValueIn
  <1>4. CASE x \notin C
    <2>1. C = D
      BY <1>1, <1>4
    <2>2. (IF x \in A THEN f[x] ELSE 0) = 0
      BY <1>1, <1>4
    <2> DEFINE n == SumFunctionOnSet(f, D)
    <2>3. SumFunctionOnSet(f, C) = n /\ n \in Int
      BY <1>2, <2>1
    <2> HIDE DEF n
    <2>4. SumFunctionOnSet(f, C) = n + IF x \in A THEN f[x] ELSE 0
      BY <2>2, <2>3
    <2> QED
      BY <2>4 DEF C, D, n, ValueIn
  <1> QED
    BY <1>3, <1>4

\* Element by element no more on the one side than on the other, where an
\* element that is left out counts as nothing.
LEMMA SumCompare ==
    ASSUME NEW S, IsFiniteSet(S), NEW A \in SUBSET S, NEW B \in SUBSET S, NEW f, NEW g,
           \A x \in S : f[x] \in Int /\ g[x] \in Int,
           \A x \in S : ValueIn(f, A, x) <= ValueIn(g, B, x)
    PROVE  SumFunctionOnSet(f, A) <= SumFunctionOnSet(g, B)
  <1> DEFINE F(T) == SumFunctionOnSet(f, A \cap T)
             G(T) == SumFunctionOnSet(g, B \cap T)
             Bad == {T \in SUBSET S : ~(F(T) <= G(T))}
  <1>1. SUFFICES ASSUME Bad # {} PROVE FALSE
    <2>1. F(S) <= G(S)
      BY <1>1
    <2>2. A \cap S = A /\ B \cap S = B
      OBVIOUS
    <2> QED
      BY <2>1, <2>2
  <1>2. PICK T \in Bad : \A y \in Bad : y \subseteq T => y = T
    <2>1. Bad \subseteq SUBSET S
      OBVIOUS
    <2> HIDE DEF Bad
    <2> QED
      BY <1>1, <2>1, MinimalSubset
  <1>3. T # {}
    <2>1. A \cap {} = {} /\ B \cap {} = {}
      OBVIOUS
    <2>2. F({}) = 0 /\ G({}) = 0
      BY <2>1, SumEmpty
    <2> HIDE DEF F, G
    <2> QED
      BY <2>2
  <1>4. PICK x \in T : TRUE
    BY <1>3
  <1> DEFINE u == T \ {x}
  <1>5. F(u) <= G(u)
    <2>1. u \in SUBSET S /\ u # T /\ u \subseteq T
      BY <1>4
    <2> HIDE DEF u, F, G
    <2> QED
      BY <1>2, <2>1
  <1>6. \A V \in SUBSET S : IsFiniteSet(A \cap V) /\ IsFiniteSet(B \cap V)
    BY FS_Subset
  <1>7. F(T) \in Int /\ F(u) \in Int /\ G(T) \in Int /\ G(u) \in Int
    <2>1. \A V \in SUBSET S : F(V) \in Int /\ G(V) \in Int
      BY <1>6, SumType
    <2> QED
      BY <2>1
  <1>8. /\ \A y \in A \cap T : f[y] \in Int
        /\ \A y \in B \cap T : g[y] \in Int
        /\ IsFiniteSet(A \cap T) /\ IsFiniteSet(B \cap T)
    BY <1>6
  <1>9. /\ F(T) = F(u) + ValueIn(f, A, x)
        /\ G(T) = G(u) + ValueIn(g, B, x)
    <2>1. x \in T
      OBVIOUS
    <2> HIDE DEF Bad
    <2>2. F(T) = F(u) + ValueIn(f, A, x)
      BY <1>8, <2>1, SumWithout
    <2>3. G(T) = G(u) + ValueIn(g, B, x)
      BY <1>8, <2>1, SumWithout
    <2> QED
      BY <2>2, <2>3
  <1>10. /\ ValueIn(f, A, x) \in Int /\ ValueIn(g, B, x) \in Int
         /\ ValueIn(f, A, x) <= ValueIn(g, B, x)
    BY DEF ValueIn
  <1>11. ~(F(T) <= G(T))
    OBVIOUS
  <1> HIDE DEF F, G
  <1> QED
    BY <1>5, <1>7, <1>9, <1>10, <1>11

\* A sum of natural numbers is one.
LEMMA SumNat ==
    ASSUME NEW f, NEW S, IsFiniteSet(S), \A x \in S : f[x] \in Nat
    PROVE  SumFunctionOnSet(f, S) \in Nat
  <1>1. SumFunctionOnSet(f, {}) <= SumFunctionOnSet(f, S)
    BY SumCompare DEF ValueIn
  <1> QED
    BY <1>1, SumEmpty, SumType

\* Induction over the subsets of a finite set, for a set P of them.
LEMMA SubsetInduction ==
    ASSUME NEW S, IsFiniteSet(S), NEW P, {} \in P,
           \A T \in SUBSET S : \A x \in T : T \ {x} \in P => T \in P
    PROVE  S \in P
  <1> DEFINE Bad == {T \in SUBSET S : T \notin P}
  <1> SUFFICES ASSUME Bad # {} PROVE FALSE
    OBVIOUS
  <1>1. PICK T \in Bad : \A y \in Bad : y \subseteq T => y = T
    <2>1. Bad \subseteq SUBSET S
      OBVIOUS
    <2> HIDE DEF Bad
    <2> QED
      BY <2>1, MinimalSubset
  <1>2. PICK x \in T : TRUE
    OBVIOUS
  <1>3. T \ {x} \in SUBSET S /\ T \ {x} # T /\ T \ {x} \subseteq T
    BY <1>2
  <1>4. T \ {x} \in P
    BY <1>1, <1>3
  <1> QED
    BY <1>2, <1>4

\* Nothings add up to nothing.
LEMMA SumZero ==
    ASSUME NEW f, NEW S, IsFiniteSet(S), \A x \in S : f[x] = 0
    PROVE  SumFunctionOnSet(f, S) = 0
  <1>1. /\ SumFunctionOnSet(f, {}) <= SumFunctionOnSet(f, S)
        /\ SumFunctionOnSet(f, S) <= SumFunctionOnSet(f, {})
    BY SumCompare DEF ValueIn
  <1> QED
    BY <1>1, SumEmpty, SumType

\* The sum of sums.
LEMMA SumPlus ==
    ASSUME NEW f, NEW g, NEW h, NEW S, IsFiniteSet(S),
           \A x \in S : f[x] \in Int /\ g[x] \in Int /\ h[x] = f[x] + g[x]
    PROVE  SumFunctionOnSet(h, S) = SumFunctionOnSet(f, S) + SumFunctionOnSet(g, S)
  <1> DEFINE P == {T \in SUBSET S :
                     SumFunctionOnSet(h, T) = SumFunctionOnSet(f, T) + SumFunctionOnSet(g, T)}
  <1>1. {} \in P
    BY SumEmpty
  <1>2. ASSUME NEW T \in SUBSET S, NEW x \in T, T \ {x} \in P PROVE T \in P
    <2>1. IsFiniteSet(T) /\ IsFiniteSet(T \ {x})
      BY FS_Subset
    <2>2. /\ SumFunctionOnSet(f, T) = f[x] + SumFunctionOnSet(f, T \ {x})
          /\ SumFunctionOnSet(g, T) = g[x] + SumFunctionOnSet(g, T \ {x})
          /\ SumFunctionOnSet(h, T) = h[x] + SumFunctionOnSet(h, T \ {x})
      BY <2>1, SumRemove
    <2>3. SumFunctionOnSet(f, T \ {x}) \in Int /\ SumFunctionOnSet(g, T \ {x}) \in Int
      BY <2>1, SumType
    <2> QED
      BY <1>2, <2>2, <2>3
  <1> HIDE DEF P
  <1>3. S \in P
    BY <1>1, <1>2, SubsetInduction
  <1> QED
    BY <1>3 DEF P

\* The difference of sums.
LEMMA SumMinus ==
    ASSUME NEW f, NEW g, NEW h, NEW S, IsFiniteSet(S),
           \A x \in S : f[x] \in Int /\ g[x] \in Int /\ h[x] = f[x] - g[x]
    PROVE  SumFunctionOnSet(h, S) = SumFunctionOnSet(f, S) - SumFunctionOnSet(g, S)
  <1>1. \A x \in S : h[x] \in Int /\ g[x] \in Int /\ f[x] = h[x] + g[x]
    OBVIOUS
  <1>2. SumFunctionOnSet(f, S) = SumFunctionOnSet(h, S) + SumFunctionOnSet(g, S)
    BY <1>1, SumPlus
  <1>3. SumFunctionOnSet(h, S) \in Int /\ SumFunctionOnSet(g, S) \in Int
    BY <1>1, SumType
  <1> QED
    BY <1>2, <1>3

LEMMA Distributes ==
    ASSUME NEW a \in Int, NEW b \in Int, NEW c \in Int
    PROVE  c * (a + b) = c * a + c * b
  OBVIOUS

\* A common factor.
LEMMA SumTimes ==
    ASSUME NEW f, NEW h, NEW S, IsFiniteSet(S), NEW c \in Int,
           \A x \in S : f[x] \in Int /\ h[x] = c * f[x]
    PROVE  SumFunctionOnSet(h, S) = c * SumFunctionOnSet(f, S)
  <1> DEFINE P == {T \in SUBSET S : SumFunctionOnSet(h, T) = c * SumFunctionOnSet(f, T)}
  <1>1. {} \in P
    BY SumEmpty
  <1>2. ASSUME NEW T \in SUBSET S, NEW x \in T, T \ {x} \in P PROVE T \in P
    <2>1. IsFiniteSet(T) /\ IsFiniteSet(T \ {x})
      BY FS_Subset
    <2>2. c * f[x] \in Int
      OBVIOUS
    <2>3. /\ SumFunctionOnSet(f, T) = f[x] + SumFunctionOnSet(f, T \ {x})
          /\ SumFunctionOnSet(h, T) = h[x] + SumFunctionOnSet(h, T \ {x})
      BY <2>1, SumRemove
    <2>4. SumFunctionOnSet(f, T \ {x}) \in Int
      BY <2>1, SumType
    <2>5. c * (f[x] + SumFunctionOnSet(f, T \ {x})) = c * f[x] + c * SumFunctionOnSet(f, T \ {x})
      BY <2>4, Distributes
    <2>6. SumFunctionOnSet(h, T \ {x}) = c * SumFunctionOnSet(f, T \ {x})
      BY <1>2
    <2> QED
      BY <2>3, <2>5, <2>6
  <1> HIDE DEF P
  <1>3. S \in P
    BY <1>1, <1>2, SubsetInduction
  <1> QED
    BY <1>3 DEF P

\* A set's elements counted one by one.
LEMMA SumOfOnes ==
    ASSUME NEW f, NEW S, IsFiniteSet(S), \A x \in S : f[x] = 1
    PROVE  SumFunctionOnSet(f, S) = Cardinality(S)
  <1> DEFINE P == {T \in SUBSET S : SumFunctionOnSet(f, T) = Cardinality(T)}
  <1>1. {} \in P
    BY SumEmpty, FS_EmptySet
  <1>2. ASSUME NEW T \in SUBSET S, NEW x \in T, T \ {x} \in P PROVE T \in P
    <2>1. IsFiniteSet(T)
      BY FS_Subset
    <2>2. Cardinality(T \ {x}) = Cardinality(T) - 1 /\ Cardinality(T) \in Nat
      BY <2>1, FS_RemoveElement, FS_CardinalityType
    <2>3. SumFunctionOnSet(f, T) = f[x] + SumFunctionOnSet(f, T \ {x})
      BY <2>1, SumRemove
    <2> QED
      BY <1>2, <2>2, <2>3
  <1> HIDE DEF P
  <1>3. S \in P
    BY <1>1, <1>2, SubsetInduction
  <1> QED
    BY <1>3 DEF P

\* The keys of a finite set's elements.
LEMMA FiniteImage ==
    ASSUME NEW S, IsFiniteSet(S), NEW f
    PROVE  IsFiniteSet({f[x] : x \in S})
  <1> DEFINE T == {f[x] : x \in S}
             g == [x \in S |-> f[x]]
  <1>1. g \in Surjection(S, T)
    BY DEF Surjection
  <1> HIDE DEF g, T
  <1>2. IsFiniteSet(T)
    BY <1>1, FS_Surjection
  <1> QED
    BY <1>2 DEF T

\* Column by column or all at once: the elements of S are sorted by their key, h
\* is each key's sum.
LEMMA SumByKey ==
    ASSUME NEW f, NEW S, IsFiniteSet(S), \A x \in S : f[x] \in Int,
           NEW K, IsFiniteSet(K), NEW key, \A x \in S : key[x] \in K,
           NEW h, \A k \in K : h[k] = SumFunctionOnSet(f, {x \in S : key[x] = k})
    PROVE  SumFunctionOnSet(h, K) = SumFunctionOnSet(f, S)
  <1> DEFINE Column(T) == [k \in K |-> SumFunctionOnSet(f, {x \in T : key[x] = k})]
             P == {T \in SUBSET S : SumFunctionOnSet(Column(T), K) = SumFunctionOnSet(f, T)}
  <1>1. \A T \in SUBSET S : /\ IsFiniteSet(T) /\ SumFunctionOnSet(f, T) \in Int
                            /\ \A k \in K : Column(T)[k] \in Int
    <2>1. SUFFICES ASSUME NEW T \in SUBSET S, NEW k \in K
                   PROVE  /\ IsFiniteSet(T) /\ SumFunctionOnSet(f, T) \in Int
                          /\ Column(T)[k] \in Int
      BY FS_Subset, SumType
    <2>2. IsFiniteSet(T) /\ IsFiniteSet({x \in T : key[x] = k})
      BY FS_Subset
    <2> QED
      BY <2>2, SumType
  <1>2. {} \in P
    <2>1. \A k \in K : {x \in {} : key[x] = k} = {}
      OBVIOUS
    <2>2. \A k \in K : Column({})[k] = 0
      BY <2>1, SumEmpty
    <2> HIDE DEF Column
    <2>3. SumFunctionOnSet(Column({}), K) = 0
      BY <2>2, SumZero
    <2> QED
      BY <2>3, SumEmpty
  <1>3. ASSUME NEW T \in SUBSET S, NEW a \in T, T \ {a} \in P PROVE T \in P
    <2>1. T \ {a} \in SUBSET S /\ a \in S /\ key[a] \in K
      OBVIOUS
    <2>2. \A k \in K \ {key[a]} : Column(T)[k] = Column(T \ {a})[k]
      <3>1. \A k \in K \ {key[a]} : {x \in T : key[x] = k} = {x \in T \ {a} : key[x] = k}
        OBVIOUS
      <3> QED
        BY <3>1
    <2>3. Column(T)[key[a]] = f[a] + Column(T \ {a})[key[a]]
      <3> DEFINE C == {x \in T : key[x] = key[a]}
      <3>1. C \subseteq S /\ a \in C /\ C \ {a} = {x \in T \ {a} : key[x] = key[a]}
        OBVIOUS
      <3>2. SumFunctionOnSet(f, C) = f[a] + SumFunctionOnSet(f, C \ {a})
        <4>1. IsFiniteSet(C) /\ \A x \in C : f[x] \in Int
          BY <3>1, FS_Subset
        <4> HIDE DEF C
        <4> QED
          BY <3>1, <4>1, SumRemove
      <3> QED
        BY <2>1, <3>1, <3>2
    <2>4. SumFunctionOnSet(f, T) = f[a] + SumFunctionOnSet(f, T \ {a})
      BY <1>1, SumRemove
    <2>5. SumFunctionOnSet(Column(T \ {a}), K) = SumFunctionOnSet(f, T \ {a})
      BY <1>3
    <2>6. \A k \in K : Column(T \ {a})[k] \in Int /\ Column(T)[k] \in Int
      BY <1>1, <2>1
    <2>7. f[a] \in Int /\ SumFunctionOnSet(f, T \ {a}) \in Int
      BY <1>1, <2>1
    <2> DEFINE new == Column(T)
               old == Column(T \ {a})
               k == key[a]
    <2>8. /\ k \in K /\ \A x \in K : old[x] \in Int /\ new[x] \in Int
          /\ \A x \in K \ {k} : old[x] = new[x]
          /\ new[k] = f[a] + old[k]
          /\ SumFunctionOnSet(old, K) = SumFunctionOnSet(f, T \ {a})
      BY <2>1, <2>2, <2>3, <2>5, <2>6
    <2> HIDE DEF new, old, k
    <2>9. SumFunctionOnSet(new, K) = SumFunctionOnSet(old, K) + (new[k] - old[k])
      BY <2>8, SumUpdate
    <2>10. SumFunctionOnSet(new, K) = SumFunctionOnSet(f, T)
      BY <2>4, <2>7, <2>8, <2>9
    <2> QED
      BY <2>10 DEF new
  <1>4. SumFunctionOnSet(Column(S), K) = SumFunctionOnSet(f, S)
    <2> HIDE DEF P
    <2>1. S \in P
      BY <1>2, <1>3, SubsetInduction
    <2> QED
      BY <2>1 DEF P
  <1>5. \A k \in K : h[k] = Column(S)[k]
    OBVIOUS
  <1> HIDE DEF Column
  <1> QED
    BY <1>4, <1>5, SumSame

\* The same with the columns named.
LEMMA SumByColumn ==
    ASSUME NEW f, NEW S, IsFiniteSet(S), \A x \in S : f[x] \in Int,
           NEW K, IsFiniteSet(K), NEW key, \A x \in S : key[x] \in K,
           NEW col, \A k \in K : /\ col[k] \in SUBSET S
                                 /\ \A x \in S : x \in col[k] <=> key[x] = k,
           NEW h, \A k \in K : h[k] = SumFunctionOnSet(f, col[k])
    PROVE  SumFunctionOnSet(h, K) = SumFunctionOnSet(f, S)
  <1> DEFINE g == [k \in K |-> SumFunctionOnSet(f, {x \in S : key[x] = k})]
  <1>1. \A k \in K : col[k] = {x \in S : key[x] = k}
    OBVIOUS
  <1>2. \A k \in K : h[k] = g[k]
    BY <1>1
  <1>3. \A k \in K : g[k] = SumFunctionOnSet(f, {x \in S : key[x] = k})
    OBVIOUS
  <1> HIDE DEF g
  <1>4. SumFunctionOnSet(g, K) = SumFunctionOnSet(f, S)
    BY <1>3, SumByKey
  <1> QED
    BY <1>2, <1>4, SumSame
=============================================================================
