----------------------------- MODULE SumTheorems -----------------------------
(***************************************************************************)
(* What a sum over a finite set is: MapThenSumSet of the community modules *)
(* for the values of a function; and the greatest element of a finite set. *)
(* The library has an induction over finite sets, but about an operator;   *)
(* here the sets for which a fact fails are a set of sets, and the strict  *)
(* subset ordering has no minimal element in it.                           *)
(***************************************************************************)
EXTENDS Integers, FiniteSetsExt, FiniteSetTheorems, TLAPS

SumOf(f, S) == MapThenSumSet(LAMBDA x : f[x], S)

Pick(s) == CHOOSE x \in s : TRUE
IsSum(f, T, g) ==
    g = [s \in SUBSET T |-> IF s = {} THEN 0 ELSE f[Pick(s)] + g[s \ {Pick(s)}]]
PartialSums(f, T) == CHOOSE g : IsSum(f, T, g)

\* The sum is the value of the function that the fold defines.
LEMMA SumIsFold ==
    ASSUME NEW f, NEW S
    PROVE  SumOf(f, S) = PartialSums(f, S)[S]
BY DEF SumOf, MapThenSumSet, MapThenFoldSet, IsSum, Pick, PartialSums

\* A set of finite sets that is not empty has a minimal member.
LEMMA MinimalSubset ==
    ASSUME NEW S, IsFiniteSet(S), NEW T \in SUBSET SUBSET S, T # {}
    PROVE  \E x \in T : \A y \in T : y \subseteq x => y = x
<1>1. IsWellFoundedOn(StrictSubsetOrdering(S), SUBSET S)
  BY FS_StrictSubsetOrderingWellFounded, FS_FiniteSubsetsOfFinite
<1>2. PICK x \in T : \A y \in T : ~ (<<y, x>> \in StrictSubsetOrdering(S))
  BY <1>1, WFMin
<1>3. \A y \in T : y \subseteq x => y = x
  BY <1>2 DEF StrictSubsetOrdering
<1> QED BY <1>3

LEMMA SumIsUnique ==
    ASSUME NEW f, NEW T, NEW U, NEW g, NEW h, IsSum(f, T, g), IsSum(f, U, h),
           NEW S, IsFiniteSet(S), S \subseteq T, S \subseteq U
    PROVE  g[S] = h[S]
<1> DEFINE Bad == {s \in SUBSET S : g[s] # h[s]}
<1>1. SUFFICES ASSUME Bad # {} PROVE FALSE
  OBVIOUS
<1>2. PICK s \in Bad : \A y \in Bad : y \subseteq s => y = s
  <2>1. Bad \in SUBSET SUBSET S
    OBVIOUS
  <2> HIDE DEF Bad
  <2> QED BY <1>1, <2>1, MinimalSubset
<1>3. CASE s = {}
  <2>1. g[s] = 0 /\ h[s] = 0
    BY <1>3 DEF IsSum
  <2> QED BY <2>1, <1>2
<1>4. CASE s # {}
  <2>1. Pick(s) \in s
    BY <1>4 DEF Pick
  <2>2. g[s] = f[Pick(s)] + g[s \ {Pick(s)}] /\ h[s] = f[Pick(s)] + h[s \ {Pick(s)}]
    BY <1>4, <1>2 DEF IsSum
  <2>3. s \ {Pick(s)} \notin Bad
    BY <2>1, <1>2
  <2>4. g[s \ {Pick(s)}] = h[s \ {Pick(s)}]
    BY <2>3, <1>2
  <2> QED BY <2>2, <2>4, <1>2
<1> QED BY <1>3, <1>4

\* The fold of a finite set is defined.
LEMMA SumExists ==
    ASSUME NEW f, NEW S, IsFiniteSet(S)
    PROVE  IsSum(f, S, PartialSums(f, S))
<1> DEFINE Bad == {T \in SUBSET S : ~ \E g : IsSum(f, T, g)}
<1>1. SUFFICES Bad = {}
  <2>1. \E g : IsSum(f, S, g)
    BY <1>1
  <2> QED BY <2>1 DEF PartialSums
<1>2. SUFFICES ASSUME Bad # {} PROVE FALSE
  OBVIOUS
<1>3. PICK T \in Bad : \A y \in Bad : y \subseteq T => y = T
  <2>1. Bad \in SUBSET SUBSET S
    OBVIOUS
  <2> HIDE DEF Bad
  <2> QED BY <1>2, <2>1, MinimalSubset
<1> DEFINE G(s) == PartialSums(f, s)
           h == [s \in SUBSET T |-> IF s = {} THEN 0
                                    ELSE f[Pick(s)] + G(s \ {Pick(s)})[s \ {Pick(s)}]]
<1>4. ASSUME NEW U \in SUBSET T, U # T
      PROVE  IsSum(f, U, G(U)) /\ IsFiniteSet(U)
  <2>1. U \in SUBSET S /\ U \notin Bad
    BY <1>3, <1>4
  <2>2. \E g : IsSum(f, U, g)
    BY <2>1
  <2> QED BY <2>1, <2>2, FS_Subset DEF PartialSums
<1>5. ASSUME NEW s \in SUBSET T, s # T
      PROVE  h[s] = G(s)[s]
  <2>1. CASE s = {}
    BY <1>4, <1>5, <2>1 DEF IsSum
  <2>2. CASE s # {}
    <3> DEFINE u == s \ {Pick(s)}
    <3>1. Pick(s) \in s
      BY <2>2 DEF Pick
    <3>2. u \in SUBSET T /\ u # T /\ u \subseteq s
      BY <3>1, <1>5
    <3>3. G(s)[s] = f[Pick(s)] + G(s)[u]
      BY <1>4, <1>5, <2>2 DEF IsSum
    <3>4. IsSum(f, s, G(s)) /\ IsSum(f, u, G(u)) /\ IsFiniteSet(u)
      BY <1>4, <1>5, <3>2
    <3>5. G(s)[u] = G(u)[u]
      BY <3>4, <3>2, SumIsUnique
    <3> QED BY <3>3, <3>5, <2>2
  <2> QED BY <2>1, <2>2
<1>6. IsSum(f, T, h)
  <2>1. ASSUME NEW s \in SUBSET T, s # {}
        PROVE  h[s] = f[Pick(s)] + h[s \ {Pick(s)}]
    <3>1. Pick(s) \in s
      BY <2>1 DEF Pick
    <3>2. h[s] = f[Pick(s)] + G(s \ {Pick(s)})[s \ {Pick(s)}]
      BY <2>1
    <3>3. s \ {Pick(s)} \in SUBSET T /\ s \ {Pick(s)} # T
      BY <3>1
    <3> QED BY <3>2, <3>3, <1>5
  <2>2. h = [s \in SUBSET T |-> IF s = {} THEN 0 ELSE f[Pick(s)] + h[s \ {Pick(s)}]]
    BY <2>1
  <2> QED BY <2>2 DEF IsSum
<1> QED BY <1>6, <1>3

-----------------------------------------------------------------------------
(* What the other proofs use.                                              *)

LEMMA SumStep ==
    ASSUME NEW f, NEW S, IsFiniteSet(S)
    PROVE  /\ SumOf(f, {}) = 0
           /\ S # {} => SumOf(f, S) = f[Pick(S)] + SumOf(f, S \ {Pick(S)})
<1>1. IsSum(f, {}, PartialSums(f, {}))
  BY SumExists, FS_EmptySet
<1>2. SumOf(f, {}) = 0
  BY <1>1, SumIsFold DEF IsSum
<1>3. ASSUME S # {} PROVE SumOf(f, S) = f[Pick(S)] + SumOf(f, S \ {Pick(S)})
  <2> DEFINE U == S \ {Pick(S)}
             G(s) == PartialSums(f, s)
  <2>1. IsSum(f, S, G(S))
    BY SumExists
  <2>2. G(S)[S] = f[Pick(S)] + G(S)[U]
    BY <2>1, <1>3 DEF IsSum
  <2>3. IsFiniteSet(U) /\ U \subseteq S
    BY FS_RemoveElement
  <2>4. IsSum(f, U, G(U))
    BY <2>3, SumExists
  <2> HIDE DEF U, G
  <2>5. G(S)[U] = G(U)[U]
    BY <2>1, <2>3, <2>4, SumIsUnique
  <2>6. SumOf(f, S) = G(S)[S] /\ SumOf(f, U) = G(U)[U]
    BY SumIsFold DEF G
  <2> QED BY <2>2, <2>5, <2>6 DEF U
<1> QED BY <1>2, <1>3

\* Sums of integers are integers, those of naturals are naturals.
LEMMA SumType ==
    ASSUME NEW f, NEW S, IsFiniteSet(S), \A x \in S : f[x] \in Int
    PROVE  /\ SumOf(f, S) \in Int
           /\ (\A x \in S : f[x] >= 0) => SumOf(f, S) >= 0
<1> DEFINE Good(s) == /\ SumOf(f, s) \in Int
                      /\ (\A x \in s : f[x] >= 0) => SumOf(f, s) >= 0
           Bad == {s \in SUBSET S : ~ Good(s)}
<1>1. SUFFICES ASSUME Bad # {} PROVE FALSE
  OBVIOUS
<1>2. PICK s \in Bad : \A y \in Bad : y \subseteq s => y = s
  <2>1. Bad \in SUBSET SUBSET S
    OBVIOUS
  <2> HIDE DEF Bad
  <2> QED BY <1>1, <2>1, MinimalSubset
<1>3. IsFiniteSet(s)
  BY <1>2, FS_Subset
<1>4. CASE s = {}
  <2>1. SumOf(f, {}) = 0
    BY FS_EmptySet, SumStep
  <2>2. Good({})
    BY <2>1
  <2> QED BY <2>2, <1>2, <1>4
<1>5. CASE s # {}
  <2> DEFINE u == s \ {Pick(s)}
  <2>1. Pick(s) \in s
    BY <1>5 DEF Pick
  <2>2. Good(u)
    BY <1>2, <2>1
  <2>3. SumOf(f, s) = f[Pick(s)] + SumOf(f, u)
    BY <1>3, <1>5, SumStep
  <2>4. f[Pick(s)] \in Int
    BY <2>1, <1>2
  <2>5. Good(s)
    BY <2>1, <2>2, <2>3, <2>4
  <2> QED BY <2>5, <1>2
<1> QED BY <1>4, <1>5

\* Any member can be taken out first.
LEMMA SumRemove ==
    ASSUME NEW f, NEW S, IsFiniteSet(S), \A x \in S : f[x] \in Int, NEW a \in S
    PROVE  SumOf(f, S) = f[a] + SumOf(f, S \ {a})
<1> DEFINE Good(s) == \A b \in s : SumOf(f, s) = f[b] + SumOf(f, s \ {b})
           Bad == {s \in SUBSET S : ~ Good(s)}
<1>1. SUFFICES ASSUME Bad # {} PROVE FALSE
  <2>1. S \notin Bad
    BY <1>1
  <2> QED BY <2>1
<1>2. PICK s \in Bad : \A y \in Bad : y \subseteq s => y = s
  <2>1. Bad \in SUBSET SUBSET S
    OBVIOUS
  <2> HIDE DEF Bad
  <2> QED BY <1>1, <2>1, MinimalSubset
<1>3. IsFiniteSet(s)
  BY <1>2, FS_Subset
<1>4. PICK b \in s : SumOf(f, s) # f[b] + SumOf(f, s \ {b})
  BY <1>2
<1> DEFINE p == Pick(s)
<1>5. p \in s
  BY <1>4 DEF Pick
<1>6. SumOf(f, s) = f[p] + SumOf(f, s \ {p})
  BY <1>3, <1>4, SumStep
<1>7. p # b
  BY <1>4, <1>6
<1>8. Good(s \ {p}) /\ Good(s \ {b})
  BY <1>2, <1>4, <1>5
<1>9. /\ SumOf(f, s \ {p}) = f[b] + SumOf(f, (s \ {p}) \ {b})
      /\ SumOf(f, s \ {b}) = f[p] + SumOf(f, (s \ {b}) \ {p})
  BY <1>4, <1>5, <1>7, <1>8
<1>10. (s \ {p}) \ {b} = (s \ {b}) \ {p}
  OBVIOUS
<1>11. f[p] \in Int /\ f[b] \in Int /\ SumOf(f, (s \ {b}) \ {p}) \in Int
  <2>1. (s \ {b}) \ {p} \in SUBSET S /\ p \in S /\ b \in S
    BY <1>2, <1>4, <1>5
  <2>2. IsFiniteSet((s \ {b}) \ {p})
    BY <2>1, FS_Subset
  <2> QED BY <2>1, <2>2, SumType
<1> HIDE DEF p
<1>12. f[p] + (f[b] + SumOf(f, (s \ {b}) \ {p})) = f[b] + (f[p] + SumOf(f, (s \ {b}) \ {p}))
  BY <1>11
<1> QED BY <1>4, <1>6, <1>9, <1>10, <1>12

LEMMA SumAdd ==
    ASSUME NEW f, NEW S, IsFiniteSet(S), NEW a, a \notin S,
           \A x \in S \cup {a} : f[x] \in Int
    PROVE  SumOf(f, S \cup {a}) = f[a] + SumOf(f, S)
<1>1. IsFiniteSet(S \cup {a})
  BY FS_AddElement
<1>2. (S \cup {a}) \ {a} = S
  OBVIOUS
<1> QED BY <1>1, <1>2, SumRemove, a \in S \cup {a}

\* A sum depends on what the function has in the set.
LEMMA SumSame ==
    ASSUME NEW f, NEW g, NEW S, IsFiniteSet(S), \A x \in S : f[x] = g[x]
    PROVE  SumOf(f, S) = SumOf(g, S)
<1> DEFINE Good(s) == SumOf(f, s) = SumOf(g, s)
           Bad == {s \in SUBSET S : ~ Good(s)}
<1>1. SUFFICES ASSUME Bad # {} PROVE FALSE
  OBVIOUS
<1>2. PICK s \in Bad : \A y \in Bad : y \subseteq s => y = s
  <2>1. Bad \in SUBSET SUBSET S
    OBVIOUS
  <2> HIDE DEF Bad
  <2> QED BY <1>1, <2>1, MinimalSubset
<1>3. IsFiniteSet(s)
  BY <1>2, FS_Subset
<1>4. CASE s = {}
  BY <1>2, <1>3, <1>4, SumStep
<1>5. CASE s # {}
  <2>1. Pick(s) \in s
    BY <1>5 DEF Pick
  <2>2. Good(s \ {Pick(s)})
    BY <1>2, <2>1
  <2>3. SumOf(f, s) = f[Pick(s)] + SumOf(f, s \ {Pick(s)})
    BY <1>3, <1>5, SumStep
  <2>4. SumOf(g, s) = g[Pick(s)] + SumOf(g, s \ {Pick(s)})
    BY <1>3, <1>5, SumStep
  <2> QED BY <2>1, <2>2, <2>3, <2>4, <1>2
<1> QED BY <1>4, <1>5

\* Where one value changes, the sum changes by as much.
LEMMA SumChange ==
    ASSUME NEW f, NEW g, NEW S, IsFiniteSet(S), \A x \in S : f[x] \in Int /\ g[x] \in Int,
           NEW a \in S, \A x \in S \ {a} : g[x] = f[x]
    PROVE  SumOf(g, S) = SumOf(f, S) + (g[a] - f[a])
<1>1. IsFiniteSet(S \ {a})
  BY FS_RemoveElement
<1>2. SumOf(g, S \ {a}) = SumOf(f, S \ {a})
  BY <1>1, SumSame
<1>3. SumOf(f, S \ {a}) \in Int
  BY <1>1, SumType
<1>4. SumOf(g, S) = g[a] + SumOf(g, S \ {a}) /\ SumOf(f, S) = f[a] + SumOf(f, S \ {a})
  BY SumRemove
<1> QED BY <1>2, <1>3, <1>4

\* Sums of sums, and of values with the other sign or none.
LEMMA SumPlus ==
    ASSUME NEW f, NEW g, NEW h, NEW S, IsFiniteSet(S),
           \A x \in S : f[x] \in Int /\ g[x] \in Int /\ h[x] = f[x] + g[x]
    PROVE  SumOf(h, S) = SumOf(f, S) + SumOf(g, S)
<1> DEFINE Good(s) == SumOf(h, s) = SumOf(f, s) + SumOf(g, s)
           Bad == {s \in SUBSET S : ~ Good(s)}
<1>1. SUFFICES ASSUME Bad # {} PROVE FALSE
  OBVIOUS
<1>2. PICK s \in Bad : \A y \in Bad : y \subseteq s => y = s
  <2>1. Bad \in SUBSET SUBSET S
    OBVIOUS
  <2> HIDE DEF Bad
  <2> QED BY <1>1, <2>1, MinimalSubset
<1>3. IsFiniteSet(s)
  BY <1>2, FS_Subset
<1>4. CASE s = {}
  <2>1. SumOf(f, {}) = 0 /\ SumOf(g, {}) = 0 /\ SumOf(h, {}) = 0
    BY FS_EmptySet, SumStep
  <2>2. Good({})
    BY <2>1
  <2> QED BY <2>2, <1>2, <1>4
<1>5. CASE s # {}
  <2> DEFINE u == s \ {Pick(s)}
  <2>1. Pick(s) \in s /\ Pick(s) \in S
    BY <1>2, <1>5 DEF Pick
  <2>2. Good(u)
    BY <1>2, <2>1
  <2>3. /\ SumOf(f, s) = f[Pick(s)] + SumOf(f, u) /\ SumOf(g, s) = g[Pick(s)] + SumOf(g, u)
        /\ SumOf(h, s) = h[Pick(s)] + SumOf(h, u)
    BY <1>3, <1>5, SumStep
  <2>4. SumOf(f, u) \in Int /\ SumOf(g, u) \in Int
    <3>1. IsFiniteSet(u) /\ u \subseteq S
      BY <1>2, <1>3, FS_RemoveElement
    <3> QED BY <3>1, SumType
  <2> QED BY <2>1, <2>2, <2>3, <2>4, <1>2
<1> QED BY <1>4, <1>5

LEMMA DoubleOfItself == \A n \in Int : n = n + n => n = 0
OBVIOUS

LEMMA SumZero ==
    ASSUME NEW f, NEW S, IsFiniteSet(S), \A x \in S : f[x] = 0
    PROVE  SumOf(f, S) = 0
<1>1. \A x \in S : f[x] \in Int /\ f[x] = f[x] + f[x]
  OBVIOUS
<1>2. SumOf(f, S) = SumOf(f, S) + SumOf(f, S)
  BY <1>1, SumPlus
<1>3. SumOf(f, S) \in Int
  BY <1>1, SumType
<1> QED BY <1>2, <1>3, DoubleOfItself

LEMMA SumScale ==
    ASSUME NEW f, NEW g, NEW S, IsFiniteSet(S), NEW c \in {-1, 0, 1},
           \A x \in S : f[x] \in Int /\ g[x] = c * f[x]
    PROVE  SumOf(g, S) = c * SumOf(f, S)
<1>1. SumOf(f, S) \in Int
  BY SumType
<1>2. CASE c = 1
  <2>1. \A x \in S : g[x] = f[x]
    BY <1>2
  <2>2. SumOf(g, S) = SumOf(f, S)
    BY <2>1, SumSame
  <2> QED BY <1>1, <1>2, <2>2
<1>3. PICK z : z = [x \in S |-> 0]
  OBVIOUS
<1>4. SumOf(z, S) = 0
  <2>1. \A x \in S : z[x] = 0
    BY <1>3
  <2> QED BY <2>1, SumZero
<1>5. CASE c = 0
  <2>1. \A x \in S : g[x] = z[x]
    BY <1>3, <1>5
  <2>2. SumOf(g, S) = SumOf(z, S)
    BY <2>1, SumSame
  <2> QED BY <1>1, <1>4, <1>5, <2>2
<1>6. CASE c = -1
  <2>1. \A x \in S : f[x] \in Int /\ g[x] \in Int /\ z[x] = f[x] + g[x]
    BY <1>3, <1>6
  <2>2. SumOf(z, S) = SumOf(f, S) + SumOf(g, S)
    BY <2>1, SumPlus
  <2>3. SumOf(g, S) \in Int
    BY <2>1, SumType
  <2> QED BY <1>1, <1>4, <1>6, <2>2, <2>3
<1> QED BY <1>2, <1>5, <1>6

\* Larger values have a larger sum.
LEMMA SumMonotonic ==
    ASSUME NEW f, NEW g, NEW S, IsFiniteSet(S),
           \A x \in S : f[x] \in Int /\ g[x] \in Int /\ f[x] <= g[x]
    PROVE  SumOf(f, S) <= SumOf(g, S)
<1> DEFINE Good(s) == SumOf(f, s) <= SumOf(g, s)
           Bad == {s \in SUBSET S : ~ Good(s)}
<1>1. SUFFICES ASSUME Bad # {} PROVE FALSE
  OBVIOUS
<1>2. PICK s \in Bad : \A y \in Bad : y \subseteq s => y = s
  <2>1. Bad \in SUBSET SUBSET S
    OBVIOUS
  <2> HIDE DEF Bad
  <2> QED BY <1>1, <2>1, MinimalSubset
<1>3. IsFiniteSet(s)
  BY <1>2, FS_Subset
<1>4. CASE s = {}
  <2>1. SumOf(f, {}) = 0 /\ SumOf(g, {}) = 0
    BY FS_EmptySet, SumStep
  <2>2. Good({})
    BY <2>1
  <2> QED BY <2>2, <1>2, <1>4
<1>5. CASE s # {}
  <2> DEFINE u == s \ {Pick(s)}
  <2>1. Pick(s) \in s /\ Pick(s) \in S
    BY <1>2, <1>5 DEF Pick
  <2>2. Good(u)
    BY <1>2, <2>1
  <2>3. SumOf(f, s) = f[Pick(s)] + SumOf(f, u) /\ SumOf(g, s) = g[Pick(s)] + SumOf(g, u)
    BY <1>3, <1>5, SumStep
  <2>4. SumOf(f, u) \in Int /\ SumOf(g, u) \in Int
    <3>1. IsFiniteSet(u) /\ u \subseteq S
      BY <1>2, <1>3, FS_RemoveElement
    <3> QED BY <3>1, SumType
  <2> QED BY <2>1, <2>2, <2>3, <2>4, <1>2
<1> QED BY <1>4, <1>5

\* Sets without a common member.
LEMMA SumUnion ==
    ASSUME NEW f, NEW S, NEW T, IsFiniteSet(S), IsFiniteSet(T), S \cap T = {},
           \A x \in S \cup T : f[x] \in Int
    PROVE  SumOf(f, S \cup T) = SumOf(f, S) + SumOf(f, T)
<1> DEFINE Good(s) == SumOf(f, S \cup s) = SumOf(f, S) + SumOf(f, s)
           Bad == {s \in SUBSET T : ~ Good(s)}
<1>1. SUFFICES ASSUME Bad # {} PROVE FALSE
  OBVIOUS
<1>2. PICK s \in Bad : \A y \in Bad : y \subseteq s => y = s
  <2>1. Bad \in SUBSET SUBSET T
    OBVIOUS
  <2> HIDE DEF Bad
  <2> QED BY <1>1, <2>1, MinimalSubset
<1>3. IsFiniteSet(s) /\ SumOf(f, S) \in Int
  BY <1>2, FS_Subset, SumType
<1>4. CASE s = {}
  <2>1. S \cup {} = S /\ SumOf(f, {}) = 0
    BY FS_EmptySet, SumStep
  <2>2. Good({})
    BY <2>1, <1>3
  <2> QED BY <2>2, <1>2, <1>4
<1>5. CASE s # {}
  <2>1. PICK a \in s : TRUE
    BY <1>5
  <2> DEFINE u == s \ {a}
  <2>2. Good(u)
    BY <1>2, <2>1
  <2>3. IsFiniteSet(u) /\ IsFiniteSet(S \cup s) /\ (S \cup s) \ {a} = S \cup u
    <3>1. a \notin S
      BY <1>2, <2>1
    <3>2. (S \cup s) \ {a} = S \cup u
      BY <3>1
    <3>3. IsFiniteSet(u)
      BY <1>3, FS_RemoveElement
    <3>4. IsFiniteSet(S \cup s)
      BY <1>3, FS_Union
    <3> QED BY <3>2, <3>3, <3>4
  <2>4. SumOf(f, s) = f[a] + SumOf(f, u)
    <3>1. \A x \in s : f[x] \in Int
      BY <1>2
    <3> QED BY <3>1, <1>3, <2>1, SumRemove
  <2>5. SumOf(f, S \cup s) = f[a] + SumOf(f, (S \cup s) \ {a})
    BY <1>2, <2>1, <2>3, SumRemove
  <2>6. SumOf(f, u) \in Int /\ f[a] \in Int
    BY <1>2, <2>1, <2>3, SumType
  <2> QED BY <2>2, <2>3, <2>4, <2>5, <2>6, <1>2, <1>3
<1> QED BY <1>4, <1>5

-----------------------------------------------------------------------------
(* The greatest element of a finite set.                                   *)

\* Among sets that belong to the members of a finite set one is minimal.
LEMMA MinimalPart ==
    ASSUME NEW S, IsFiniteSet(S), S # {}, NEW part \in [S -> SUBSET S]
    PROVE  \E x \in S : \A y \in S : part[y] \subseteq part[x] => part[y] = part[x]
<1> DEFINE T == {part[x] : x \in S}
<1>1. T \in SUBSET SUBSET S /\ T # {}
  OBVIOUS
<1>2. PICK U \in T : \A V \in T : V \subseteq U => V = U
  <2> HIDE DEF T
  <2> QED BY <1>1, MinimalSubset
<1> QED BY <1>2

\* A strict order on a finite set has a maximal element.
LEMMA FiniteHasMaximal ==
    ASSUME NEW S, IsFiniteSet(S), S # {}, NEW R,
           \A x, y, z \in S : << x, y >> \in R /\ << y, z >> \in R => << x, z >> \in R,
           \A x \in S : << x, x >> \notin R
    PROVE  \E x \in S : \A y \in S : << x, y >> \notin R
<1> DEFINE Above(x) == {y \in S : << x, y >> \in R}
           above == [x \in S |-> Above(x)]
<1>1. above \in [S -> SUBSET S]
  OBVIOUS
<1>2. PICK x \in S : \A y \in S : above[y] \subseteq above[x] => above[y] = above[x]
  <2> HIDE DEF above
  <2> QED BY <1>1, MinimalPart
<1>3. ASSUME NEW y \in S, << x, y >> \in R PROVE FALSE
  <2>1. Above(y) \subseteq Above(x) /\ y \in Above(x) /\ y \notin Above(y)
    BY <1>3
  <2>2. above[x] = Above(x) /\ above[y] = Above(y)
    OBVIOUS
  <2> HIDE DEF Above, above
  <2> QED BY <2>1, <2>2, <1>2
<1> QED BY <1>3

\* A finite set of integers has a maximum, the one that Max chooses.
LEMMA FiniteHasMax ==
    ASSUME NEW S, IsFiniteSet(S), S # {}, S \subseteq Int
    PROVE  Max(S) \in S /\ \A y \in S : y <= Max(S)
<1>1. PICK R : R = {p \in S \X S : p[1] < p[2]}
  OBVIOUS
<1>2. \A x, y \in S : << x, y >> \in R <=> x < y
  BY <1>1
<1>3. \A x, y, z \in S : << x, y >> \in R /\ << y, z >> \in R => << x, z >> \in R
  <2>1. \A x, y, z \in Int : x < y /\ y < z => x < z
    OBVIOUS
  <2> QED BY <1>2, <2>1
<1>4. \A x \in S : << x, x >> \notin R
  <2>1. \A x \in Int : ~ (x < x)
    OBVIOUS
  <2> QED BY <1>2, <2>1
<1>5. PICK x \in S : \A y \in S : << x, y >> \notin R
  <2> HIDE <1>1
  <2> QED BY <1>3, <1>4, FiniteHasMaximal, Zenon
<1>6. \A y \in S : x \in Int /\ y \in Int /\ ~ (x < y)
  BY <1>2, <1>5
<1>7. \A y \in S : x >= y
  BY <1>6
<1>8. Max(S) \in S /\ \A y \in S : Max(S) >= y
  BY <1>7 DEF Max
<1>9. \A y \in S : Max(S) \in Int /\ y \in Int
  BY <1>8
<1> QED BY <1>8, <1>9

LEMMA FiniteHasMin ==
    ASSUME NEW S, IsFiniteSet(S), S # {}, S \subseteq Int
    PROVE  Min(S) \in S /\ \A y \in S : Min(S) <= y
<1>1. PICK R : R = {p \in S \X S : p[2] < p[1]}
  OBVIOUS
<1>2. \A x, y \in S : << x, y >> \in R <=> y < x
  BY <1>1
<1>3. \A x, y, z \in S : << x, y >> \in R /\ << y, z >> \in R => << x, z >> \in R
  <2>1. \A x, y, z \in Int : y < x /\ z < y => z < x
    OBVIOUS
  <2> QED BY <1>2, <2>1
<1>4. \A x \in S : << x, x >> \notin R
  <2>1. \A x \in Int : ~ (x < x)
    OBVIOUS
  <2> QED BY <1>2, <2>1
<1>5. PICK x \in S : \A y \in S : << x, y >> \notin R
  <2> HIDE <1>1
  <2> QED BY <1>3, <1>4, FiniteHasMaximal, Zenon
<1>6. \A y \in S : x \in Int /\ y \in Int /\ ~ (y < x)
  BY <1>2, <1>5
<1>7. \A y \in S : x <= y
  BY <1>6
<1> QED BY <1>7 DEF Min
==============================================================================
