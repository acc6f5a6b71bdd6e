------------------------- MODULE Collections_proofs -------------------------
(***************************************************************************)
(* What the operators on collections that the models share are equal to:   *)
(* how a sum over a finite set changes with the set and with the summand,  *)
(* and what a selection from a sequence keeps.  The lemmas on sums are by  *)
(* well-founded induction, carried out on the smallest set for which one   *)
(* fails: StrictSubsetOrdering is well-founded on finite sets, so such a   *)
(* set exists (SmallestSet), and removing an element of it gives a smaller *)
(* one.  Those on sequences are likewise on the shortest one.              *)
(***************************************************************************)
EXTENDS Integers, Sums, Selections, SequencesExt, FiniteSetTheorems, SequenceTheorems,
        WellFoundedInduction, TLAPS

Pick(s) == CHOOSE x \in s : TRUE

IsSum(f, S, iter) ==
    iter = [s \in SUBSET S |-> IF s = {} THEN 0 ELSE f[Pick(s)] + iter[s \ {Pick(s)}]]

LEMMA SumUnfolds ==
  ASSUME NEW f, NEW S
  PROVE  SumOf(f, S) = (CHOOSE iter : IsSum(f, S, iter))[S]
  BY DEF SumOf, IsSum, MapThenSumSet, MapThenFoldSet, Pick

LEMMA SmallestSet ==
  ASSUME NEW S, IsFiniteSet(S), NEW B, B \subseteq SUBSET S, B # {}
  PROVE  \E T \in B : \A U \in B : U \subseteq T => U = T
<1>. DEFINE R == StrictSubsetOrdering(S)
<1>1. IsWellFoundedOn(R, FiniteSubsetsOf(S)) /\ FiniteSubsetsOf(S) = SUBSET S
  BY FS_StrictSubsetOrderingWellFounded, FS_FiniteSubsetsOfFinite
<1>. HIDE DEF R
<1>2. PICK T \in B : \A U \in B : <<U, T>> \notin R
  BY <1>1, WFMin
<1>3. ASSUME NEW U \in B, U \subseteq T PROVE U = T
  BY <1>2, <1>3 DEF R, StrictSubsetOrdering
<1>. QED
  BY <1>3

LEMMA PickIn ==
  ASSUME NEW s, s # {}
  PROVE  Pick(s) \in s
  BY DEF Pick

LEMMA SumsAgree ==
  ASSUME NEW f, NEW A, NEW B, NEW g, NEW h, IsFiniteSet(A), IsSum(f, A, g), IsSum(f, B, h),
         NEW s, s \subseteq A, s \subseteq B
  PROVE  g[s] = h[s]
<1>. DEFINE C == {t \in SUBSET A : t \subseteq B /\ g[t] # h[t]}
<1>. SUFFICES ASSUME C # {} PROVE FALSE
  OBVIOUS
<1>1. PICK t \in C : \A u \in C : u \subseteq t => u = t
  <2>. HIDE DEF C
  <2>1. C \subseteq SUBSET A
    BY DEF C
  <2>. QED
    BY <2>1, SmallestSet
<1>. DEFINE r == t \ {Pick(t)}
<1>2. t # {} => g[r] = h[r]
  BY <1>1, PickIn
<1>. HIDE DEF r, C
<1>3. /\ g[t] = IF t = {} THEN 0 ELSE f[Pick(t)] + g[r]
      /\ h[t] = IF t = {} THEN 0 ELSE f[Pick(t)] + h[r]
  BY DEF IsSum, r, C
<1>. QED
  BY <1>2, <1>3 DEF C

LEMMA SumExists ==
  ASSUME NEW f, NEW S, IsFiniteSet(S)
  PROVE  \E g : IsSum(f, S, g)
<1>. DEFINE C == {T \in SUBSET S : ~ \E g : IsSum(f, T, g)}
<1>. SUFFICES ASSUME C # {} PROVE FALSE
  OBVIOUS
<1>1. PICK T \in C : \A u \in C : u \subseteq T => u = T
  <2>. HIDE DEF C
  <2>1. C \subseteq SUBSET S
    BY DEF C
  <2>. QED
    BY <2>1, SmallestSet
<1>. DEFINE v(s) == (CHOOSE g : IsSum(f, s, g))[s]
           g == [s \in SUBSET T |-> IF s = {} THEN 0 ELSE f[Pick(s)] + v(s \ {Pick(s)})]
<1>2. ASSUME NEW s \in SUBSET T, s # T PROVE IsSum(f, s, CHOOSE h : IsSum(f, s, h))
  <2>1. s \notin C /\ s \in SUBSET S
    BY <1>1, <1>2
  <2>2. \E h : IsSum(f, s, h)
    BY <2>1
  <2>. QED
    BY <2>2, Zenon
<1>3. ASSUME NEW s \in SUBSET T, s # T, s # {} PROVE v(s) = f[Pick(s)] + v(s \ {Pick(s)})
  <2>. DEFINE r == s \ {Pick(s)}
             hs == CHOOSE h : IsSum(f, s, h)
             hr == CHOOSE h : IsSum(f, r, h)
  <2>1. r \in SUBSET T /\ r # T /\ r \subseteq s
    BY <1>3, PickIn
  <2>2. IsSum(f, s, hs) /\ IsSum(f, r, hr)
    <3>. HIDE DEF r, hs, hr
    <3>1. IsSum(f, s, hs)
      BY <1>3, <1>2 DEF hs
    <3>2. IsSum(f, r, hr)
      BY <2>1, <1>2 DEF hr
    <3>. QED
      BY <3>1, <3>2
  <2>3. IsFiniteSet(s)
    BY FS_Subset, <1>1
  <2>. HIDE DEF hs, hr
  <2>4. hs[r] = hr[r]
    <3>. HIDE DEF r
    <3>. QED
      BY <2>1, <2>2, <2>3, SumsAgree
  <2>5. hs[s] = f[Pick(s)] + hs[r]
    BY <2>2, <1>3 DEF IsSum
  <2>. QED
    BY <2>4, <2>5 DEF hs, hr
<1>4. ASSUME NEW s \in SUBSET T, s # T PROVE v(s) = g[s]
  <2>1. CASE s = {}
    <3>. DEFINE h == CHOOSE h : IsSum(f, s, h)
    <3>1. IsSum(f, s, h)
      BY <1>2, <1>4, Zenon
    <3>. HIDE DEF h
    <3>2. h[s] = 0
      BY <3>1, <2>1 DEF IsSum
    <3>. QED
      BY <2>1, <3>2 DEF h
  <2>2. CASE s # {}
    <3>. HIDE DEF v
    <3>. QED
      BY <1>3, <1>4, <2>2
  <2>. QED
    BY <2>1, <2>2
<1>5. IsSum(f, T, g)
  <2>1. ASSUME NEW s \in SUBSET T, s # {} PROVE v(s \ {Pick(s)}) = g[s \ {Pick(s)}]
    <3>1. s \ {Pick(s)} \in SUBSET T /\ s \ {Pick(s)} # T
      BY <2>1, PickIn
    <3>. HIDE DEF v, g
    <3>. QED
      BY <3>1, <1>4
  <2>. HIDE DEF v
  <2>. QED
    BY <2>1 DEF IsSum
<1>. QED
  BY <1>1, <1>5

LEMMA SumEmpty ==
  ASSUME NEW f
  PROVE  SumOf(f, {}) = 0
<1>. DEFINE h == CHOOSE g : IsSum(f, {}, g)
<1>1. IsSum(f, {}, h)
  BY SumExists, FS_EmptySet, Zenon
<1>. HIDE DEF h
<1>2. h[{}] = 0
  BY <1>1 DEF IsSum
<1>. QED
  BY <1>2, SumUnfolds DEF h

LEMMA SumStep ==
  ASSUME NEW f, NEW S, IsFiniteSet(S), S # {}
  PROVE  /\ Pick(S) \in S /\ S \ {Pick(S)} # S /\ IsFiniteSet(S \ {Pick(S)})
         /\ SumOf(f, S) = f[Pick(S)] + SumOf(f, S \ {Pick(S)})
<1>. DEFINE r == S \ {Pick(S)}
           h == CHOOSE g : IsSum(f, S, g)
           k == CHOOSE g : IsSum(f, r, g)
<1>1. Pick(S) \in S /\ r # S /\ r \subseteq S /\ IsFiniteSet(r)
  BY PickIn, FS_RemoveElement
<1>2. IsSum(f, S, h)
  BY SumExists, Zenon
<1>3. IsSum(f, r, k)
  <2>. HIDE DEF r
  <2>. QED
    BY <1>1, SumExists, Zenon
<1>. HIDE DEF h, k
<1>4. h[S] = f[Pick(S)] + h[r]
  BY <1>2 DEF IsSum
<1>5. h[r] = k[r]
  <2>. HIDE DEF r
  <2>. QED
    BY <1>1, <1>2, <1>3, SumsAgree
<1>6. SumOf(f, S) = h[S] /\ SumOf(f, r) = k[r]
  BY SumUnfolds DEF h, k
<1>. HIDE DEF r
<1>. QED
  BY <1>1, <1>4, <1>5, <1>6 DEF r

LEMMA SumInt ==
  ASSUME NEW f, NEW S, IsFiniteSet(S), \A x \in S : f[x] \in Int
  PROVE  SumOf(f, S) \in Int
<1>. DEFINE C == {T \in SUBSET S : SumOf(f, T) \notin Int}
<1>. SUFFICES ASSUME C # {} PROVE FALSE
  OBVIOUS
<1>1. PICK T \in C : \A u \in C : u \subseteq T => u = T
  <2>. HIDE DEF C
  <2>1. C \subseteq SUBSET S
    BY DEF C
  <2>. QED
    BY <2>1, SmallestSet
<1>2. T # {} /\ IsFiniteSet(T)
  <2>1. SumOf(f, T) \notin Int
    BY <1>1
  <2>2. 0 \in Int
    OBVIOUS
  <2>3. T # {}
    BY <2>1, <2>2, SumEmpty, Zenon
  <2>. QED
    BY <1>1, <2>3, FS_Subset
<1>3. SumOf(f, T \ {Pick(T)}) \in Int /\ f[Pick(T)] \in Int
  BY <1>1, <1>2, SumStep
<1>4. SumOf(f, T) \in Int
  BY <1>2, <1>3, SumStep
<1>. QED
  BY <1>1, <1>4

LEMMA SumRemove ==
  ASSUME NEW f, NEW S, IsFiniteSet(S), \A x \in S : f[x] \in Int, NEW x \in S
  PROVE  SumOf(f, S) = f[x] + SumOf(f, S \ {x})
<1>. DEFINE C == {T \in SUBSET S : \E y \in T : SumOf(f, T) # f[y] + SumOf(f, T \ {y})}
<1>. SUFFICES ASSUME C # {} PROVE FALSE
  OBVIOUS
<1>1. PICK T \in C : \A u \in C : u \subseteq T => u = T
  <2>. HIDE DEF C
  <2>1. C \subseteq SUBSET S
    BY DEF C
  <2>. QED
    BY <2>1, SmallestSet
<1>2. PICK y \in T : SumOf(f, T) # f[y] + SumOf(f, T \ {y})
  BY <1>1
<1>. DEFINE c == Pick(T)
           r == (T \ {c}) \ {y}
<1>3. IsFiniteSet(T) /\ T \in SUBSET S /\ T # {}
  BY <1>1, <1>2, FS_Subset
<1>4. c \in T /\ SumOf(f, T) = f[c] + SumOf(f, T \ {c})
  BY <1>3, SumStep
<1>. HIDE DEF c
<1>5. y # c
  BY <1>2, <1>4
<1>6. SumOf(f, T \ {c}) = f[y] + SumOf(f, r)
  BY <1>1, <1>2, <1>4, <1>5
<1>7. (T \ {y}) \ {c} = r
  OBVIOUS
<1>8. SumOf(f, T \ {y}) = f[c] + SumOf(f, r)
  BY <1>1, <1>2, <1>4, <1>5, <1>7
<1>9. SumOf(f, r) \in Int /\ f[c] \in Int /\ f[y] \in Int
  BY <1>2, <1>3, <1>4, FS_Subset, SumInt
<1>. QED
  BY <1>2, <1>4, <1>6, <1>8, <1>9

LEMMA SumSame ==
  ASSUME NEW f, NEW g, NEW S, IsFiniteSet(S), \A x \in S : f[x] = g[x]
  PROVE  SumOf(f, S) = SumOf(g, S)
<1>. DEFINE C == {T \in SUBSET S : SumOf(f, T) # SumOf(g, T)}
<1>. SUFFICES ASSUME C # {} PROVE FALSE
  OBVIOUS
<1>1. PICK T \in C : \A u \in C : u \subseteq T => u = T
  <2>. HIDE DEF C
  <2>1. C \subseteq SUBSET S
    BY DEF C
  <2>. QED
    BY <2>1, SmallestSet
<1>2. T # {} /\ IsFiniteSet(T)
  <2>1. SumOf(f, {}) = SumOf(g, {})
    BY SumEmpty
  <2>2. T # {}
    BY <1>1, <2>1
  <2>. QED
    BY <1>1, <2>2, FS_Subset
<1>3. /\ SumOf(f, T \ {Pick(T)}) = SumOf(g, T \ {Pick(T)})
      /\ f[Pick(T)] = g[Pick(T)]
  BY <1>1, <1>2, SumStep
<1>4. SumOf(f, T) = SumOf(g, T)
  BY <1>2, <1>3, SumStep
<1>. QED
  BY <1>1, <1>4

LEMMA SumAdd ==
  ASSUME NEW f, NEW g, NEW h, NEW S, IsFiniteSet(S),
         \A x \in S : f[x] \in Int /\ g[x] \in Int /\ h[x] = f[x] + g[x]
  PROVE  SumOf(h, S) = SumOf(f, S) + SumOf(g, S)
<1>. DEFINE C == {T \in SUBSET S : SumOf(h, T) # SumOf(f, T) + SumOf(g, T)}
<1>. SUFFICES ASSUME C # {} PROVE FALSE
  OBVIOUS
<1>1. PICK T \in C : \A u \in C : u \subseteq T => u = T
  <2>. HIDE DEF C
  <2>1. C \subseteq SUBSET S
    BY DEF C
  <2>. QED
    BY <2>1, SmallestSet
<1>2. T # {} /\ IsFiniteSet(T)
  <2>1. SumOf(h, T) # SumOf(f, T) + SumOf(g, T)
    BY <1>1
  <2>2. SumOf(h, {}) = SumOf(f, {}) + SumOf(g, {})
    BY SumEmpty
  <2>3. T # {}
    BY <2>1, <2>2, Zenon
  <2>. QED
    BY <1>1, <2>3, FS_Subset
<1>. DEFINE c == Pick(T)
           r == T \ {c}
<1>3. c \in S /\ r \in SUBSET S /\ r # T /\ r \subseteq T /\ IsFiniteSet(r)
  BY <1>1, <1>2, SumStep
<1>4. SumOf(f, r) \in Int /\ SumOf(g, r) \in Int
  BY <1>3, SumInt
<1>5. SumOf(h, r) = SumOf(f, r) + SumOf(g, r)
  BY <1>1, <1>3
<1>6. /\ SumOf(f, T) = f[c] + SumOf(f, r) /\ SumOf(g, T) = g[c] + SumOf(g, r)
      /\ SumOf(h, T) = h[c] + SumOf(h, r)
  BY <1>2, SumStep
<1>. HIDE DEF c, r
<1>7. SumOf(h, T) = SumOf(f, T) + SumOf(g, T)
  BY <1>3, <1>4, <1>5, <1>6
<1>. QED
  BY <1>1, <1>7

LEMMA SumInsert ==
  ASSUME NEW f, NEW S, IsFiniteSet(S), \A y \in S : f[y] \in Int,
         NEW x, x \notin S, f[x] \in Int, NEW T, T = S \cup {x}
  PROVE  SumOf(f, T) = SumOf(f, S) + f[x]
<1>1. IsFiniteSet(T) /\ x \in T /\ T \ {x} = S /\ \A y \in T : f[y] \in Int
  BY FS_AddElement
<1>2. SumOf(f, S) \in Int
  BY SumInt
<1>3. SumOf(f, T) = f[x] + SumOf(f, T \ {x})
  BY <1>1, SumRemove
<1>4. SumOf(f, T) = f[x] + SumOf(f, S)
  BY <1>1, <1>3
<1>. QED
  BY <1>2, <1>4

LEMMA SumChange ==
  ASSUME NEW f, NEW g, NEW S, IsFiniteSet(S),
         \A y \in S : f[y] \in Int /\ g[y] \in Int,
         NEW x \in S, \A y \in S : y # x => f[y] = g[y]
  PROVE  SumOf(g, S) = SumOf(f, S) - f[x] + g[x]
<1>1. IsFiniteSet(S \ {x})
  BY FS_RemoveElement
<1>2. SumOf(f, S \ {x}) = SumOf(g, S \ {x}) /\ SumOf(f, S \ {x}) \in Int
  BY <1>1, SumSame, SumInt
<1>3. SumOf(f, S) = f[x] + SumOf(f, S \ {x}) /\ SumOf(g, S) = g[x] + SumOf(g, S \ {x})
  BY SumRemove
<1>. QED
  BY <1>2, <1>3

\* The summand may change too, outside the set.
LEMMA SumGrows ==
  ASSUME NEW f, NEW g, NEW S, NEW T, NEW x, IsFiniteSet(S), x \notin S, T = S \cup {x},
         g[x] \in Int, \A y \in S : f[y] \in Int, \A y \in S : g[y] = f[y]
  PROVE  SumOf(g, T) = SumOf(f, S) + g[x]
<1>1. SumOf(g, S) = SumOf(f, S)
  BY SumSame
<1>2. \A y \in S : g[y] \in Int
  OBVIOUS
<1>3. SumOf(g, T) = SumOf(g, S) + g[x]
  BY <1>2, SumInsert
<1>. QED
  BY <1>1, <1>3

\* A sum over a subset, of a summand that is zero elsewhere.
LEMMA SumFilter ==
  ASSUME NEW f, NEW g, NEW S, NEW T, IsFiniteSet(S), T \subseteq S,
         \A x \in T : f[x] \in Int /\ g[x] = f[x], \A x \in S : x \notin T => f[x] = 0
  PROVE  SumOf(g, T) = SumOf(f, S)
<1>. DEFINE C == {U \in SUBSET S : SumOf(g, T \cap U) # SumOf(f, U)}
<1>. SUFFICES ASSUME C # {} PROVE FALSE
  <2>1. T \cap S = T
    OBVIOUS
  <2>. QED
    BY <2>1
<1>1. PICK U \in C : \A V \in C : V \subseteq U => V = U
  <2>. HIDE DEF C
  <2>1. C \subseteq SUBSET S
    BY DEF C
  <2>. QED
    BY <2>1, SmallestSet
<1>2. U \subseteq S /\ IsFiniteSet(U) /\ SumOf(g, T \cap U) # SumOf(f, U)
  <2>1. U \subseteq S /\ SumOf(g, T \cap U) # SumOf(f, U)
    BY <1>1
  <2>. QED
    BY <2>1, FS_Subset
<1>3. U # {}
  <2>1. SumOf(f, {}) = 0 /\ SumOf(g, {}) = 0
    BY SumEmpty
  <2>2. U = {} => T \cap U = {}
    OBVIOUS
  <2>. HIDE DEF C
  <2>. QED
    BY <1>2, <2>1, <2>2
<1>4. PICK x \in U : TRUE
  BY <1>3
<1>. DEFINE V == U \ {x}
<1>5. SumOf(g, T \cap V) = SumOf(f, V)
  <2>1. V \in SUBSET S /\ V \subseteq U /\ V # U
    BY <1>2, <1>4
  <2>2. V \notin C
    <3>. HIDE DEF C, V
    <3>. QED
      BY <1>1, <2>1
  <2>. QED
    BY <2>1, <2>2
<1>6. \A y \in S : f[y] \in Int
  OBVIOUS
<1>7. SumOf(f, U) = f[x] + SumOf(f, V) /\ SumOf(f, V) \in Int /\ f[x] \in Int
  <2>1. IsFiniteSet(V) /\ \A y \in U : f[y] \in Int
    BY <1>2, <1>6, FS_Subset
  <2>. QED
    BY <1>2, <1>4, <1>6, <2>1, SumRemove, SumInt
<1>8. CASE x \in T
  <2>1. IsFiniteSet(T \cap U) /\ x \in T \cap U /\ \A y \in T \cap U : g[y] \in Int
    BY <1>2, <1>4, <1>8, FS_Subset
  <2>2. SumOf(g, T \cap U) = g[x] + SumOf(g, (T \cap U) \ {x})
    BY <2>1, SumRemove
  <2>3. (T \cap U) \ {x} = T \cap V
    OBVIOUS
  <2>. HIDE DEF C, V
  <2>. QED
    BY <1>2, <1>5, <1>7, <1>8, <2>2, <2>3
<1>9. CASE x \notin T
  <2>1. T \cap U = T \cap V /\ f[x] = 0
    BY <1>2, <1>4, <1>9
  <2>. HIDE DEF C, V
  <2>. QED
    BY <1>2, <1>5, <1>7, <2>1
<1>. QED
  BY <1>8, <1>9

LEMMA SumZero ==
  ASSUME NEW f, NEW S, IsFiniteSet(S), \A x \in S : f[x] = 0
  PROVE  SumOf(f, S) = 0
<1>1. PICK T : T = {}
  OBVIOUS
<1>2. SumOf(f, T) = SumOf(f, S)
  <2>1. /\ T \subseteq S
        /\ \A x \in T : f[x] \in Int /\ f[x] = f[x]
        /\ \A x \in S : x \notin T => f[x] = 0
    BY <1>1
  <2>. QED
    BY <2>1, SumFilter
<1>. QED
  BY <1>1, <1>2, SumEmpty

\* The sum of f over every class of U, a class being the elements of one value.
ClassSums(f, g, U, T) == [y \in T |-> SumOf(f, {x \in U : g[x] = y})]

LEMMA ClassSumInt ==
  ASSUME NEW f, NEW g, NEW U, NEW T, NEW y \in T, IsFiniteSet(U), \A x \in U : f[x] \in Int
  PROVE  ClassSums(f, g, U, T)[y] \in Int
<1>1. PICK A : A = {x \in U : g[x] = y}
  OBVIOUS
<1>2. IsFiniteSet(A) /\ \A x \in A : f[x] \in Int
  BY <1>1, FS_Subset
<1>3. SumOf(f, A) \in Int
  BY <1>2, SumInt
<1>. QED
  BY <1>1, <1>3 DEF ClassSums

LEMMA ClassSumStep ==
  ASSUME NEW f, NEW g, NEW U, NEW T, NEW x \in U, NEW V, IsFiniteSet(T), IsFiniteSet(U),
         V = U \ {x}, \A z \in U : f[z] \in Int /\ g[z] \in T,
         SumOf(ClassSums(f, g, V, T), T) = SumOf(f, V)
  PROVE  SumOf(ClassSums(f, g, U, T), T) = SumOf(f, U)
<1>1. PICK A, B : A = {z \in U : g[z] = g[x]} /\ B = {z \in V : g[z] = g[x]}
  OBVIOUS
<1>2. x \in A /\ B = A \ {x} /\ A \subseteq U
  BY <1>1
<1>3. IsFiniteSet(A) /\ \A z \in A : f[z] \in Int
  BY <1>2, FS_Subset
<1>4. SumOf(f, A) = f[x] + SumOf(f, B)
  BY <1>2, <1>3, SumRemove
<1>5. IsFiniteSet(V) /\ \A z \in V : f[z] \in Int
  BY FS_Subset
<1>6. SumOf(f, U) = f[x] + SumOf(f, V)
  BY SumRemove
<1>7. SumOf(f, V) \in Int
  BY <1>5, SumInt
<1>8. PICK p, q : p = ClassSums(f, g, V, T) /\ q = ClassSums(f, g, U, T)
  OBVIOUS
<1>9. \A y \in T : p[y] \in Int /\ q[y] \in Int
  BY <1>5, <1>8, ClassSumInt
<1>10. \A y \in T : y # g[x] => p[y] = q[y]
  <2>1. ASSUME NEW y \in T, y # g[x]
        PROVE  {z \in V : g[z] = y} = {z \in U : g[z] = y}
    BY <2>1
  <2>2. ASSUME NEW y \in T, y # g[x]
        PROVE  p[y] = q[y]
    BY <1>8, <2>1, <2>2 DEF ClassSums
  <2>. QED
    BY <2>2
<1>11. p[g[x]] = SumOf(f, B) /\ q[g[x]] = SumOf(f, A) /\ g[x] \in T
  BY <1>1, <1>8 DEF ClassSums
<1>12. SumOf(q, T) = SumOf(p, T) - p[g[x]] + q[g[x]]
  BY <1>9, <1>10, <1>11, SumChange
<1>13. SumOf(p, T) = SumOf(f, V)
  BY <1>8
<1>14. f[x] \in Int /\ p[g[x]] \in Int
  BY <1>9, <1>11
<1>15. SumOf(q, T) = SumOf(f, U)
  BY <1>4, <1>6, <1>7, <1>11, <1>12, <1>13, <1>14
<1>. QED
  BY <1>8, <1>15

\* The sum over a set is the sum, over the values of a function on it, of the
\* sums over the elements that have the value.
LEMMA SumPartition ==
  ASSUME NEW f, NEW g, NEW h, NEW S, NEW T, IsFiniteSet(S), IsFiniteSet(T),
         \A x \in S : f[x] \in Int /\ g[x] \in T,
         \A y \in T : h[y] = SumOf(f, {x \in S : g[x] = y})
  PROVE  SumOf(h, T) = SumOf(f, S)
<1>. DEFINE C == {U \in SUBSET S : SumOf(ClassSums(f, g, U, T), T) # SumOf(f, U)}
<1>1. SumOf(h, T) = SumOf(ClassSums(f, g, S, T), T)
  <2>1. PICK k : k = ClassSums(f, g, S, T)
    OBVIOUS
  <2>2. \A y \in T : h[y] = k[y]
    BY <2>1 DEF ClassSums
  <2>3. SumOf(h, T) = SumOf(k, T)
    BY <2>2, SumSame
  <2>. QED
    BY <2>1, <2>3
<1>. SUFFICES ASSUME C # {} PROVE FALSE
  BY <1>1
<1>2. PICK U \in C : \A V \in C : V \subseteq U => V = U
  <2>1. C \subseteq SUBSET S
    OBVIOUS
  <2>. HIDE DEF C
  <2>. QED
    BY <2>1, SmallestSet
<1>3. U \subseteq S /\ SumOf(ClassSums(f, g, U, T), T) # SumOf(f, U)
  BY <1>2
<1>4. IsFiniteSet(U)
  BY <1>3, FS_Subset
<1>5. U # {}
  <2>1. PICK E : E = {}
    OBVIOUS
  <2>2. SumOf(f, E) = 0
    BY <2>1, SumEmpty
  <2>3. PICK k : k = ClassSums(f, g, E, T)
    OBVIOUS
  <2>4. \A y \in T : k[y] = 0
    <3>1. \A y \in T : {z \in E : g[z] = y} = {}
      BY <2>1
    <3>. QED
      BY <2>3, <3>1, SumEmpty DEF ClassSums
  <2>5. SumOf(k, T) = 0
    BY <2>4, SumZero
  <2>. HIDE DEF C
  <2>. QED
    BY <1>3, <2>1, <2>2, <2>3, <2>5
<1>6. PICK x \in U : TRUE
  BY <1>5
<1>7. PICK V : V = U \ {x}
  OBVIOUS
<1>8. V \in SUBSET S /\ V \subseteq U /\ V # U
  BY <1>3, <1>6, <1>7
<1>9. V \notin C
  <2>. HIDE DEF C
  <2>. QED
    BY <1>2, <1>8
<1>10. SumOf(ClassSums(f, g, V, T), T) = SumOf(f, V)
  BY <1>8, <1>9
<1>11. \A z \in U : f[z] \in Int /\ g[z] \in T
  BY <1>3
<1>. HIDE DEF C
<1>12. SumOf(ClassSums(f, g, U, T), T) = SumOf(f, U)
  BY <1>4, <1>6, <1>7, <1>10, <1>11, ClassSumStep
<1>. QED
  BY <1>3, <1>12

\* A sum of natural numbers is one.
LEMMA SumNat ==
  ASSUME NEW f, NEW S, IsFiniteSet(S), \A x \in S : f[x] \in Nat
  PROVE  SumOf(f, S) \in Nat
<1>. DEFINE C == {U \in SUBSET S : SumOf(f, U) \notin Nat}
<1>. SUFFICES ASSUME C # {} PROVE FALSE
  OBVIOUS
<1>1. PICK U \in C : \A V \in C : V \subseteq U => V = U
  <2>. HIDE DEF C
  <2>1. C \subseteq SUBSET S
    BY DEF C
  <2>. QED
    BY <2>1, SmallestSet
<1>2. U \subseteq S /\ IsFiniteSet(U) /\ SumOf(f, U) \notin Nat
  <2>1. U \subseteq S /\ SumOf(f, U) \notin Nat
    BY <1>1
  <2>. QED
    BY <2>1, FS_Subset
<1>3. U # {}
  BY <1>2, SumEmpty
<1>. DEFINE V == U \ {Pick(U)}
<1>4. Pick(U) \in U /\ V # U /\ SumOf(f, U) = f[Pick(U)] + SumOf(f, V)
  BY <1>2, <1>3, SumStep
<1>5. SumOf(f, V) \in Nat
  <2>1. V \in SUBSET S /\ V \subseteq U /\ V # U
    BY <1>2, <1>4
  <2>2. V \notin C
    <3>. HIDE DEF C, V
    <3>. QED
      BY <1>1, <2>1
  <2>. QED
    BY <2>1, <2>2
<1>6. f[Pick(U)] \in Nat
  BY <1>2, <1>4
<1>. HIDE DEF C, V
<1>. QED
  BY <1>2, <1>4, <1>5, <1>6

\* A sum is the sum over a part of the set and the sum over the rest.
LEMMA SumSplit ==
  ASSUME NEW f, NEW S, NEW T, IsFiniteSet(S), T \subseteq S, \A x \in S : f[x] \in Int
  PROVE  /\ SumOf(f, S) = SumOf(f, T) + SumOf(f, S \ T)
         /\ SumOf(f, T) \in Int /\ SumOf(f, S \ T) \in Int
<1>. DEFINE g == [x \in S |-> IF x \in T THEN f[x] ELSE 0]
            h == [x \in S |-> IF x \in T THEN 0 ELSE f[x]]
<1>1. \A x \in S : g[x] \in Int /\ h[x] \in Int /\ f[x] = g[x] + h[x]
  OBVIOUS
<1>2. \A x \in T : g[x] = f[x]
  OBVIOUS
<1>3. \A x \in S : x \notin T => g[x] = 0 /\ h[x] = f[x]
  OBVIOUS
<1>4. \A x \in S : x \in T => h[x] = 0
  OBVIOUS
<1>. HIDE DEF g, h
<1>5. SumOf(f, S) = SumOf(g, S) + SumOf(h, S)
  BY <1>1, SumAdd
<1>6. SumOf(f, T) = SumOf(g, S)
  BY <1>1, <1>2, <1>3, SumFilter
<1>. DEFINE R == S \ T
<1>7. R \subseteq S /\ (\A x \in R : h[x] \in Int /\ f[x] = h[x]) /\ \A x \in S : x \notin R => h[x] = 0
  BY <1>1, <1>3, <1>4
<1>8. SumOf(f, R) = SumOf(h, S)
  <2>. HIDE DEF R
  <2>. QED
    BY <1>7, SumFilter
<1>9. SumOf(g, S) \in Int /\ SumOf(h, S) \in Int
  BY <1>1, SumInt
<1>. QED
  BY <1>5, <1>6, <1>8, <1>9

LEMMA SumSubset ==
  ASSUME NEW f, NEW S, NEW T, IsFiniteSet(S), T \subseteq S, \A x \in S : f[x] \in Nat
  PROVE  SumOf(f, T) <= SumOf(f, S) /\ SumOf(f, T) \in Nat /\ SumOf(f, S) \in Nat
<1>1. IsFiniteSet(T) /\ IsFiniteSet(S \ T)
  BY FS_Subset
<1>2. SumOf(f, T) \in Nat /\ SumOf(f, S) \in Nat /\ SumOf(f, S \ T) \in Nat
  BY <1>1, SumNat
<1>3. SumOf(f, S) = SumOf(f, T) + SumOf(f, S \ T)
  BY SumSplit
<1>. QED
  BY <1>2, <1>3

\* What adds up to less than the least summand is nothing.
LEMMA SumSmall ==
  ASSUME NEW f, NEW S, IsFiniteSet(S), NEW least \in Nat,
         \A x \in S : f[x] \in Nat /\ f[x] >= least, SumOf(f, S) < least
  PROVE  S = {}
<1>. SUFFICES ASSUME NEW x \in S PROVE FALSE
  OBVIOUS
<1>1. IsFiniteSet(S \ {x}) /\ SumOf(f, S) = f[x] + SumOf(f, S \ {x})
  BY SumRemove, FS_Subset
<1>2. SumOf(f, S \ {x}) \in Nat
  BY <1>1, SumNat
<1>. QED
  BY <1>1, <1>2

-----------------------------------------------------------------------------
(* Selections.                                                             *)

LEMMA LeastNat ==
  ASSUME NEW B, B \subseteq Nat, B # {}
  PROVE  \E n \in B : \A m \in B : n <= m
<1>1. PICK b \in B : TRUE
  OBVIOUS
<1>. DEFINE C == {i \in SUBSET (0..b) : \E n \in B : n <= b /\ i = 0..n}
<1>2. PICK i \in C : \A j \in C : j \subseteq i => j = i
  <2>1. C \subseteq SUBSET (0..b)
    OBVIOUS
  <2>2. C # {}
    <3>1. 0..b \in C
      BY <1>1
    <3>. QED
      BY <3>1
  <2>. DEFINE S == 0..b
  <2>3. IsFiniteSet(S)
    BY FS_Interval
  <2>4. C \subseteq SUBSET S
    BY <2>1
  <2>. HIDE DEF C, S
  <2>. QED
    BY <2>2, <2>3, <2>4, SmallestSet
<1>3. PICK n \in B : n <= b /\ i = 0..n
  OBVIOUS
<1>4. ASSUME NEW m \in B, m < n
      PROVE  FALSE
  <2>1. 0..m \in C /\ 0..m \subseteq i
    BY <1>3, <1>4
  <2>2. 0..m = 0..n
    <3>. HIDE DEF C
    <3>. QED
      BY <1>2, <1>3, <2>1
  <2>. QED
    BY <1>4, <2>2
<1>. QED
  BY <1>4

\* Induction over sequences, for a set of them.
LEMMA SequencesAll ==
  ASSUME NEW T, NEW B, B \subseteq Seq(T), <<>> \notin B,
         \A s \in Seq(T), x \in T : Append(s, x) \in B => s \in B
  PROVE  B = {}
<1>. SUFFICES ASSUME B # {} PROVE FALSE
  OBVIOUS
<1>. DEFINE L == {n \in Nat : \E s \in B : Len(s) = n}
<1>1. PICK n \in L : \A m \in L : n <= m
  <2>1. \A s \in B : Len(s) \in Nat
    BY LenProperties
  <2>2. L \subseteq Nat /\ L # {}
    BY <2>1
  <2>. HIDE DEF L
  <2>. QED
    BY <2>2, LeastNat
<1>2. PICK s \in B : Len(s) = n
  OBVIOUS
<1>3. s \in Seq(T) /\ s # <<>>
  OBVIOUS
<1>4. PICK r \in Seq(T), x \in T : s = Append(r, x)
  BY <1>3, SequenceEmptyOrAppend
<1>5. r \in B /\ Len(r) = n - 1 /\ n \in Nat
  BY <1>2, <1>4
<1>6. Len(r) \in L
  BY <1>5
<1>. QED
  BY <1>1, <1>5, <1>6

Taken(s, S, f) ==
    f = [n \in 0..Len(s) |->
           IF n = 0 THEN <<>>
           ELSE IF s[n] \in S THEN Append(f[n - 1], s[n]) ELSE f[n - 1]]

LEMMA SelectionUnfolds ==
  ASSUME NEW s, NEW S
  PROVE  OnlyIn(s, S) = (CHOOSE f : Taken(s, S, f))[Len(s)]
  BY DEF OnlyIn, Taken

LEMMA SelectionExists ==
  ASSUME NEW T, NEW S, NEW s \in Seq(T)
  PROVE  \E f : Taken(s, S, f)
<1>. DEFINE B == {r \in Seq(T) : ~ \E f : Taken(r, S, f)}
<1>1. <<>> \notin B
  <2>1. Taken(<<>>, S, [n \in 0..0 |-> <<>>])
    BY DEF Taken
  <2>. QED
    BY <2>1
<1>2. ASSUME NEW r \in Seq(T), NEW x \in T, r \notin B
      PROVE  Append(r, x) \notin B
  <2>. DEFINE q == Append(r, x)
  <2>1. PICK f : Taken(r, S, f)
    BY <1>2
  <2>2. q \in Seq(T) /\ Len(q) = Len(r) + 1 /\ \A n \in 1..Len(r) : q[n] = r[n]
    OBVIOUS
  <2>. HIDE DEF q
  <2>. DEFINE last == IF q[Len(q)] \in S THEN Append(f[Len(r)], q[Len(q)]) ELSE f[Len(r)]
              g == [n \in 0..Len(q) |-> IF n = Len(q) THEN last ELSE f[n]]
  <2>3. ASSUME NEW n \in 0..Len(q)
        PROVE  g[n] = IF n = 0 THEN <<>>
                      ELSE IF q[n] \in S THEN Append(g[n - 1], q[n]) ELSE g[n - 1]
    <3>1. CASE n = Len(q)
      BY <2>2, <3>1
    <3>2. CASE n # Len(q)
      <4>1. n \in 0..Len(r) /\ Len(r) \in Nat
        BY <2>2, <3>2
      <4>2. f[n] = IF n = 0 THEN <<>>
                   ELSE IF r[n] \in S THEN Append(f[n - 1], r[n]) ELSE f[n - 1]
        BY <2>1, <4>1 DEF Taken
      <4>3. g[n] = f[n] /\ (n # 0 => g[n - 1] = f[n - 1] /\ q[n] = r[n])
        BY <2>2, <3>2, <4>1
      <4>. HIDE DEF g
      <4>. QED
        BY <4>2, <4>3
    <3>. QED
      BY <3>1, <3>2
  <2>4. Taken(q, S, g)
    <3>1. g = [n \in 0..Len(q) |-> g[n]]
      OBVIOUS
    <3>. HIDE DEF g
    <3>. QED
      BY <2>3, <3>1 DEF Taken
  <2>. QED
    BY <2>4 DEF q
<1>. HIDE DEF B
<1>3. B = {}
  <2>1. B \subseteq Seq(T)
    BY DEF B
  <2>. QED
    BY <1>1, <1>2, <2>1, SequencesAll
<1>. QED
  BY <1>3 DEF B

LEMMA TakenAgree ==
  ASSUME NEW T, NEW S, NEW s \in Seq(T), NEW x \in T, NEW f, NEW g,
         Taken(s, S, f), Taken(Append(s, x), S, g), NEW n \in 0..Len(s)
  PROVE  f[n] = g[n]
<1>. DEFINE q == Append(s, x)
            B == {i \in 0..Len(s) : f[i] # g[i]}
<1>1. q \in Seq(T) /\ Len(q) = Len(s) + 1 /\ \A i \in 1..Len(s) : q[i] = s[i]
  OBVIOUS
<1>. HIDE DEF q
<1>2. ASSUME NEW i \in 0..Len(s)
      PROVE  /\ f[i] = IF i = 0 THEN <<>>
                       ELSE IF s[i] \in S THEN Append(f[i - 1], s[i]) ELSE f[i - 1]
             /\ g[i] = IF i = 0 THEN <<>>
                       ELSE IF q[i] \in S THEN Append(g[i - 1], q[i]) ELSE g[i - 1]
  <2>1. i \in 0..Len(q)
    BY <1>1
  <2>2. Taken(q, S, g)
    BY DEF q
  <2>. QED
    BY <2>1, <2>2 DEF Taken
<1>. SUFFICES ASSUME B # {} PROVE FALSE
  OBVIOUS
<1>3. PICK i \in B : \A j \in B : i <= j
  <2>1. B \subseteq Nat
    OBVIOUS
  <2>. HIDE DEF B
  <2>. QED
    BY <2>1, LeastNat
<1>4. i \in 0..Len(s) /\ f[i] # g[i]
  OBVIOUS
<1>5. CASE i = 0
  BY <1>2, <1>4, <1>5
<1>6. CASE i # 0
  <2>1. i - 1 \in 0..Len(s) /\ i - 1 \notin B
    BY <1>3, <1>6
  <2>2. f[i - 1] = g[i - 1] /\ q[i] = s[i]
    BY <1>1, <1>4, <1>6, <2>1
  <2>. HIDE DEF B
  <2>. QED
    BY <1>2, <1>4, <1>6, <2>2
<1>. QED
  BY <1>5, <1>6

LEMMA SelectEmpty ==
  ASSUME NEW S
  PROVE  OnlyIn(<<>>, S) = <<>>
<1>. DEFINE f == CHOOSE f : Taken(<<>>, S, f)
<1>1. Taken(<<>>, S, [n \in 0..0 |-> <<>>])
  BY DEF Taken
<1>2. Taken(<<>>, S, f)
  BY <1>1, Zenon
<1>. HIDE DEF f
<1>3. f[0] = <<>>
  BY <1>2 DEF Taken
<1>. QED
  BY <1>3, SelectionUnfolds DEF f

LEMMA SelectAppend ==
  ASSUME NEW T, NEW S, NEW s \in Seq(T), NEW x \in T
  PROVE  OnlyIn(Append(s, x), S) = IF x \in S THEN Append(OnlyIn(s, S), x) ELSE OnlyIn(s, S)
<1>. DEFINE q == Append(s, x)
            f == CHOOSE f : Taken(s, S, f)
            g == CHOOSE g : Taken(q, S, g)
<1>1. q \in Seq(T) /\ Len(q) = Len(s) + 1 /\ q[Len(q)] = x
  OBVIOUS
<1>. HIDE DEF q
<1>2. Taken(s, S, f) /\ Taken(q, S, g)
  <2>1. \E h : Taken(s, S, h)
    BY SelectionExists
  <2>2. \E h : Taken(q, S, h)
    BY <1>1, SelectionExists
  <2>. QED
    BY <2>1, <2>2, Zenon
<1>3. OnlyIn(s, S) = f[Len(s)] /\ OnlyIn(q, S) = g[Len(q)]
  BY SelectionUnfolds
<1>. HIDE DEF f, g
<1>4. f[Len(s)] = g[Len(s)]
  <2>1. Taken(Append(s, x), S, g)
    BY <1>2 DEF q
  <2>. QED
    BY <1>2, <2>1, TakenAgree
<1>5. g[Len(q)] = IF q[Len(q)] \in S THEN Append(g[Len(q) - 1], q[Len(q)]) ELSE g[Len(q) - 1]
  <2>1. Len(q) \in 0..Len(q) /\ Len(q) # 0
    BY <1>1
  <2>. QED
    BY <1>2, <2>1 DEF Taken
<1>. QED
  BY <1>1, <1>3, <1>4, <1>5 DEF q

LEMMA SelectType ==
  ASSUME NEW T, NEW S, NEW s \in Seq(T), NEW U, U = T \cap S
  PROVE  OnlyIn(s, S) \in Seq(U) /\ OnlyIn(s, S) \in Seq(T)
<1>. DEFINE B == {r \in Seq(T) : OnlyIn(r, S) \notin Seq(U)}
<1>1. <<>> \notin B
  <2>1. OnlyIn(<<>>, S) \in Seq(U)
    BY SelectEmpty, EmptySeq
  <2>. QED
    BY <2>1
<1>2. ASSUME NEW r \in Seq(T), NEW x \in T, r \notin B
      PROVE  Append(r, x) \notin B
  <2>. DEFINE a == OnlyIn(r, S)
  <2>1. a \in Seq(U)
    BY <1>2
  <2>2. OnlyIn(Append(r, x), S) = IF x \in S THEN Append(a, x) ELSE a
    BY SelectAppend
  <2>. HIDE DEF a
  <2>3. x \in S => Append(a, x) \in Seq(U)
    BY <2>1
  <2>4. OnlyIn(Append(r, x), S) \in Seq(U)
    BY <2>1, <2>2, <2>3
  <2>. QED
    BY <2>4
<1>3. B = {}
  <2>1. B \subseteq Seq(T)
    OBVIOUS
  <2>. HIDE DEF B
  <2>. QED
    BY <1>1, <1>2, <2>1, SequencesAll
<1>4. OnlyIn(s, S) \in Seq(U)
  BY <1>3
<1>. QED
  BY <1>4, SeqMonotonic

LEMMA SelectConcat ==
  ASSUME NEW T, NEW S, NEW s \in Seq(T), NEW t \in Seq(T)
  PROVE  OnlyIn(s \o t, S) = OnlyIn(s, S) \o OnlyIn(t, S)
<1>. DEFINE B == {r \in Seq(T) : OnlyIn(s \o r, S) # OnlyIn(s, S) \o OnlyIn(r, S)}
<1>1. \A r \in Seq(T) : OnlyIn(r, S) \in Seq(T)
  BY SelectType
<1>2. <<>> \notin B
  <2>1. s \o <<>> = s /\ OnlyIn(s, S) \o <<>> = OnlyIn(s, S)
    BY <1>1, ConcatEmptySeq
  <2>. QED
    BY <2>1, SelectEmpty
<1>3. ASSUME NEW r \in Seq(T), NEW x \in T, r \notin B
      PROVE  Append(r, x) \notin B
  <2>. DEFINE a == OnlyIn(s, S)
              b == OnlyIn(r, S)
              q == Append(r, x)
              sr == s \o r
  <2>1. OnlyIn(sr, S) = a \o b
    BY <1>3
  <2>2. a \in Seq(T) /\ b \in Seq(T) /\ sr \in Seq(T) /\ q \in Seq(T)
    BY <1>1
  <2>3. s \o q = Append(sr, x)
    <3>1. q = r \o <<x>> /\ <<x>> \in Seq(T)
      BY AppendIsConcat
    <3>2. Append(sr, x) = sr \o <<x>>
      <4>. HIDE DEF sr
      <4>. QED
        BY <2>2, AppendIsConcat
    <3>3. (s \o r) \o <<x>> = s \o (r \o <<x>>)
      BY <3>1, ConcatAssociative
    <3>. QED
      BY <3>1, <3>2, <3>3
  <2>4. OnlyIn(Append(sr, x), S) = IF x \in S THEN Append(a \o b, x) ELSE a \o b
    <3>1. \A u \in Seq(T) : OnlyIn(Append(u, x), S) =
                               IF x \in S THEN Append(OnlyIn(u, S), x) ELSE OnlyIn(u, S)
      BY SelectAppend
    <3>. HIDE DEF sr, a, b
    <3>. QED
      BY <2>1, <2>2, <3>1, Zenon
  <2>5. OnlyIn(q, S) = IF x \in S THEN Append(b, x) ELSE b
    BY SelectAppend
  <2>6. a \o Append(b, x) = Append(a \o b, x)
    <3>. HIDE DEF a, b
    <3>. QED
      BY <2>2
  <2>7. OnlyIn(s \o q, S) = a \o OnlyIn(q, S)
    <3>. HIDE DEF a, b, q, sr
    <3>. QED
      BY <2>3, <2>4, <2>5, <2>6
  <2>. QED
    BY <2>2, <2>7
<1>4. B = {}
  <2>1. B \subseteq Seq(T)
    OBVIOUS
  <2>. HIDE DEF B
  <2>. QED
    BY <1>2, <1>3, <2>1, SequencesAll
<1>. QED
  BY <1>4

LEMMA SelectHead ==
  ASSUME NEW T, NEW S, NEW s \in Seq(T), s # <<>>
  PROVE  OnlyIn(s, S) = IF Head(s) \in S THEN <<Head(s)>> \o OnlyIn(Tail(s), S)
                                         ELSE OnlyIn(Tail(s), S)
<1>. DEFINE h == Head(s)
            t == Tail(s)
<1>1. h \in T /\ t \in Seq(T) /\ s = <<h>> \o t
  OBVIOUS
<1>2. <<h>> \in Seq(T) /\ <<h>> = Append(<<>>, h) /\ <<>> \in Seq(T)
  BY <1>1
<1>3. OnlyIn(t, S) \in Seq(T)
  BY <1>1, SelectType
<1>. HIDE DEF h, t
<1>4. OnlyIn(<<h>>, S) = IF h \in S THEN <<h>> ELSE <<>>
  <2>1. OnlyIn(Append(<<>>, h), S) = IF h \in S THEN Append(OnlyIn(<<>>, S), h)
                                     ELSE OnlyIn(<<>>, S)
    <3>1. \A u \in Seq(T), y \in T :
             OnlyIn(Append(u, y), S) = IF y \in S THEN Append(OnlyIn(u, S), y) ELSE OnlyIn(u, S)
      BY SelectAppend
    <3>. QED
      BY <1>1, <1>2, <3>1, Zenon
  <2>. QED
    BY <1>2, <2>1, SelectEmpty
<1>5. OnlyIn(s, S) = OnlyIn(<<h>>, S) \o OnlyIn(t, S)
  BY <1>1, <1>2, SelectConcat
<1>6. <<>> \o OnlyIn(t, S) = OnlyIn(t, S)
  BY <1>3, ConcatEmptySeq
<1>. QED
  BY <1>4, <1>5, <1>6 DEF h, t

LEMMA SelectNone ==
  ASSUME NEW T, NEW S, NEW s \in Seq(T), \A i \in 1..Len(s) : s[i] \notin S
  PROVE  OnlyIn(s, S) = <<>>
<1>. DEFINE U == {x \in T : x \notin S}
            B == {r \in Seq(U) : OnlyIn(r, S) # <<>>}
<1>1. s \in Seq(U)
  <2>1. \A i \in 1..Len(s) : s[i] \in U
    OBVIOUS
  <2>2. s \in [1..Len(s) -> U] /\ Len(s) \in Nat
    BY <2>1, LenProperties
  <2>. HIDE DEF U
  <2>. QED
    BY <2>2, SeqDef
<1>2. <<>> \notin B
  BY SelectEmpty
<1>3. ASSUME NEW r \in Seq(U), NEW x \in U, r \notin B
      PROVE  Append(r, x) \notin B
  <2>1. OnlyIn(Append(r, x), S) = IF x \in S THEN Append(OnlyIn(r, S), x) ELSE OnlyIn(r, S)
    <3>. HIDE DEF U
    <3>. QED
      BY SelectAppend
  <2>. QED
    BY <1>3, <2>1
<1>4. B = {}
  <2>1. B \subseteq Seq(U)
    OBVIOUS
  <2>. HIDE DEF B, U
  <2>. QED
    BY <1>2, <1>3, <2>1, SequencesAll
<1>. QED
  BY <1>1, <1>4

\* If just one place of a sequence is in the set, it is what is selected.
LEMMA SelectOne ==
  ASSUME NEW T, NEW S, NEW s \in Seq(T), NEW i \in 1..Len(s), s[i] \in S,
         \A j \in 1..Len(s) : s[j] \in S => j = i
  PROVE  OnlyIn(s, S) = <<s[i]>>
<1>. DEFINE a == SubSeq(s, 1, i - 1)
            b == SubSeq(s, i + 1, Len(s))
            x == s[i]
<1>1. /\ a \in Seq(T) /\ Len(a) = i - 1 /\ \A j \in 1..i - 1 : a[j] = s[j]
      /\ b \in Seq(T) /\ Len(b) = Len(s) - i /\ \A j \in 1..Len(s) - i : b[j] = s[i + j]
      /\ x \in T /\ Len(s) \in Nat /\ i \in 1..Len(s)
  OBVIOUS
<1>2. Append(a, x) \in Seq(T) /\ s = Append(a, x) \o b
  <2>. DEFINE u == Append(a, x)
  <2>1. /\ u \in Seq(T) /\ Len(u) = i /\ u[i] = x
        /\ \A j \in 1..i - 1 : u[j] = s[j]
    <3>. HIDE DEF a, x
    <3>. QED
      BY <1>1
  <2>. HIDE DEF a, b, u
  <2>2. u \o b \in Seq(T) /\ Len(u \o b) = Len(s)
    <3>1. u \o b \in Seq(T) /\ Len(u \o b) = Len(u) + Len(b)
      BY <1>1, <2>1, ConcatProperties
    <3>. QED
      BY <1>1, <2>1, <3>1
  <2>3. ASSUME NEW j \in 1..Len(s)
        PROVE  (u \o b)[j] = s[j]
    <3>1. (u \o b)[j] = IF j <= i THEN u[j] ELSE b[j - i]
      BY <1>1, <2>1, ConcatProperties
    <3>2. CASE j < i
      BY <1>1, <2>1, <3>1, <3>2
    <3>3. CASE j = i
      BY <1>1, <2>1, <3>1, <3>3 DEF x
    <3>4. CASE j > i
      <4>1. j - i \in 1..Len(s) - i /\ i + (j - i) = j
        BY <1>1, <3>4
      <4>. QED
        BY <1>1, <3>1, <3>4, <4>1
    <3>5. j < i \/ j = i \/ j > i
      BY <1>1
    <3>. QED
      BY <3>2, <3>3, <3>4, <3>5
  <2>4. s = u \o b
    BY <2>2, <2>3, SeqEqual
  <2>. QED
    BY <2>1, <2>4 DEF u
<1>3. OnlyIn(a, S) = <<>>
  <2>1. ASSUME NEW j \in 1..Len(a)
        PROVE  a[j] \notin S
    <3>. HIDE DEF a, b, x
    <3>1. j \in 1..Len(s) /\ j # i /\ a[j] = s[j]
      BY <1>1
    <3>. QED
      BY <3>1
  <2>. HIDE DEF a
  <2>. QED
    BY <1>1, <2>1, SelectNone
<1>4. OnlyIn(b, S) = <<>>
  <2>1. ASSUME NEW j \in 1..Len(b)
        PROVE  b[j] \notin S
    <3>. HIDE DEF a, b, x
    <3>1. i + j \in 1..Len(s) /\ i + j # i /\ b[j] = s[i + j]
      BY <1>1
    <3>. QED
      BY <3>1
  <2>. HIDE DEF b
  <2>. QED
    BY <1>1, <2>1, SelectNone
<1>. HIDE DEF a, b
<1>5. OnlyIn(Append(a, x), S) = <<x>>
  <2>1. OnlyIn(Append(a, x), S) = Append(OnlyIn(a, S), x)
    BY <1>1, SelectAppend
  <2>. QED
    BY <1>3, <2>1
<1>6. OnlyIn(s, S) = <<x>> \o <<>>
  <2>. DEFINE u == Append(a, x)
  <2>. HIDE DEF u, x
  <2>1. OnlyIn(u \o b, S) = OnlyIn(u, S) \o OnlyIn(b, S)
    <3>1. \A p, q \in Seq(T) : OnlyIn(p \o q, S) = OnlyIn(p, S) \o OnlyIn(q, S)
      BY SelectConcat
    <3>2. u \in Seq(T) /\ b \in Seq(T)
      BY <1>1, <1>2 DEF u
    <3>. QED
      BY <3>1, <3>2, Zenon
  <2>. QED
    BY <1>2, <1>4, <1>5, <2>1 DEF u
<1>. QED
  BY <1>1, <1>6

\* Of a sequence without repetition, the elements of the set are selected,
\* without repetition.
LEMMA SelectDistinct ==
  ASSUME NEW T, NEW S, NEW s \in Seq(T), \A i, j \in 1..Len(s) : s[i] = s[j] => i = j,
         NEW q, q = OnlyIn(s, S)
  PROVE  /\ \A i, j \in 1..Len(q) : q[i] = q[j] => i = j
         /\ \A x \in T : (\E i \in 1..Len(q) : q[i] = x) <=> x \in S /\ \E i \in 1..Len(s) : s[i] = x
<1>. DEFINE D(r) == \A i, j \in 1..Len(r) : r[i] = r[j] => i = j
            M(r, x) == \E i \in 1..Len(r) : r[i] = x
            P(r) == /\ D(OnlyIn(r, S))
                    /\ \A x \in T : M(OnlyIn(r, S), x) <=> x \in S /\ M(r, x)
            B == {r \in Seq(T) : D(r) /\ ~P(r)}
<1>1. <<>> \notin B
  <2>1. D(<<>>) /\ (\A x \in T : ~M(<<>>, x)) /\ OnlyIn(<<>>, S) = <<>>
    BY SelectEmpty
  <2>2. P(<<>>)
    <3>. HIDE DEF D, M
    <3>. QED
      BY <2>1
  <2>. QED
    BY <2>2
<1>2. ASSUME NEW r \in Seq(T), NEW x \in T
      PROVE  /\ Len(Append(r, x)) = Len(r) + 1 /\ Len(r) \in Nat /\ Append(r, x)[Len(r) + 1] = x
             /\ \A i \in 1..Len(r) : Append(r, x)[i] = r[i]
             /\ \A y : M(Append(r, x), y) <=> y = x \/ M(r, y)
             /\ D(Append(r, x)) <=> D(r) /\ ~M(r, x)
  <2>. DEFINE u == Append(r, x)
  <2>1. /\ Len(u) = Len(r) + 1 /\ Len(r) \in Nat /\ u[Len(r) + 1] = x
        /\ \A i \in 1..Len(r) : u[i] = r[i]
    OBVIOUS
  <2>. HIDE DEF u
  <2>2. \A i : i \in 1..Len(u) <=> i \in 1..Len(r) \/ i = Len(r) + 1
    BY <2>1
  <2>3. ASSUME NEW y
        PROVE  M(u, y) <=> y = x \/ M(r, y)
    BY <2>1, <2>2
  <2>4. D(u) <=> D(r) /\ ~M(r, x)
    BY <2>1, <2>2, SMTT(30)
  <2>. QED
    BY <2>1, <2>3, <2>4 DEF u
<1>3. ASSUME NEW r \in Seq(T), NEW x \in T, r \notin B
      PROVE  Append(r, x) \notin B
  <2>. DEFINE u == Append(r, x)
  <2>. SUFFICES ASSUME D(u) PROVE P(u)
    OBVIOUS
  <2>1. D(r) /\ ~M(r, x) /\ u \in Seq(T)
    <3>1. u \in Seq(T)
      OBVIOUS
    <3>. HIDE DEF D, M
    <3>. QED
      BY <1>2, <3>1
  <2>2. P(r)
    BY <1>3, <2>1
  <2>3. OnlyIn(u, S) = IF x \in S THEN Append(OnlyIn(r, S), x) ELSE OnlyIn(r, S)
    BY SelectAppend
  <2>4. OnlyIn(r, S) \in Seq(T)
    BY SelectType
  <2>5. \A y : M(u, y) <=> y = x \/ M(r, y)
    BY <1>2
  <2>6. /\ \A y : M(Append(OnlyIn(r, S), x), y) <=> y = x \/ M(OnlyIn(r, S), y)
        /\ D(Append(OnlyIn(r, S), x)) <=> D(OnlyIn(r, S)) /\ ~M(OnlyIn(r, S), x)
    <3>. HIDE DEF D, M
    <3>. QED
      BY <1>2, <2>4
  <2>. HIDE DEF D, M, u
  <2>7. CASE x \in S
    BY <2>1, <2>2, <2>3, <2>5, <2>6, <2>7
  <2>8. CASE x \notin S
    BY <2>1, <2>2, <2>3, <2>5, <2>8
  <2>. QED
    BY <2>7, <2>8
<1>4. B = {}
  <2>1. B \subseteq Seq(T)
    OBVIOUS
  <2>. HIDE DEF B
  <2>. QED
    BY <1>1, <1>3, <2>1, SequencesAll
<1>. QED
  BY <1>4

\* Short sequences put together.
LEMMA PairThenOne ==
  ASSUME NEW V, NEW x \in V, NEW y \in V, NEW z \in V
  PROVE  /\ <<x>> \o <<y>> = <<x, y>>
         /\ <<x, y>> \o <<z>> = <<x, y, z>>
<1>1. <<x>> \o <<y>> = <<x, y>>
  <2>. DEFINE a == <<x>>
              b == <<y>>
              c == <<x, y>>
  <2>1. a \in Seq(V) /\ b \in Seq(V) /\ c \in Seq(V) /\ Len(a) = 1 /\ Len(b) = 1 /\ Len(c) = 2
        /\ a[1] = x /\ b[1] = y /\ c[1] = x /\ c[2] = y
    OBVIOUS
  <2>. HIDE DEF a, b, c
  <2>2. /\ a \o b \in Seq(V) /\ Len(a \o b) = Len(a) + Len(b)
        /\ \A i \in 1..Len(a) + Len(b) :
             (a \o b)[i] = IF i <= Len(a) THEN a[i] ELSE b[i - Len(a)]
    BY <2>1, ConcatProperties
  <2>3. /\ a \o b \in Seq(V) /\ Len(a \o b) = 2
        /\ (a \o b)[1] = c[1] /\ (a \o b)[2] = c[2]
    BY <2>1, <2>2
  <2>4. \A i \in 1..2 : (a \o b)[i] = c[i]
    BY <2>3
  <2>5. a \o b = c
    BY <2>1, <2>3, <2>4, SeqEqual
  <2>. QED
    BY <2>5 DEF a, b, c
<1>2. <<x, y>> \o <<z>> = <<x, y, z>>
  <2>. DEFINE a == <<x, y>>
              b == <<z>>
              c == <<x, y, z>>
  <2>1. a \in Seq(V) /\ b \in Seq(V) /\ c \in Seq(V) /\ Len(a) = 2 /\ Len(b) = 1 /\ Len(c) = 3
        /\ a[1] = x /\ a[2] = y /\ b[1] = z /\ c[1] = x /\ c[2] = y /\ c[3] = z
    OBVIOUS
  <2>. HIDE DEF a, b, c
  <2>2. /\ a \o b \in Seq(V) /\ Len(a \o b) = Len(a) + Len(b)
        /\ \A i \in 1..Len(a) + Len(b) :
             (a \o b)[i] = IF i <= Len(a) THEN a[i] ELSE b[i - Len(a)]
    BY <2>1, ConcatProperties
  <2>3. /\ a \o b \in Seq(V) /\ Len(a \o b) = 3
        /\ (a \o b)[1] = c[1] /\ (a \o b)[2] = c[2] /\ (a \o b)[3] = c[3]
    BY <2>1, <2>2
  <2>4. \A i \in 1..3 : (a \o b)[i] = c[i]
    BY <2>3
  <2>5. a \o b = c
    BY <2>1, <2>3, <2>4, SeqEqual
  <2>. QED
    BY <2>5 DEF a, b, c
<1>. QED
  BY <1>1, <1>2

\* Of a sequence without its n-th element, all elements are of the sequence.
LEMMA RemovedKeeps ==
    ASSUME NEW T, NEW s \in Seq(T), NEW n \in 1..Len(s), NEW r, r = RemoveAt(s, n)
    PROVE  /\ r \in Seq(T)
           /\ \A i \in 1..Len(r) : \E j \in 1..Len(s) : r[i] = s[j]
<1>. DEFINE a == SubSeq(s, 1, n - 1)
            b == SubSeq(s, n + 1, Len(s))
<1>1. /\ a \in Seq(T) /\ Len(a) = n - 1 /\ \A i \in 1..n - 1 : a[i] = s[i]
      /\ b \in Seq(T) /\ Len(b) = Len(s) - n /\ \A i \in 1..Len(s) - n : b[i] = s[n + i]
      /\ Len(s) \in Nat /\ n \in 1..Len(s)
  OBVIOUS
<1>2. r = a \o b
  BY DEF RemoveAt
<1>. HIDE DEF a, b
<1>3. /\ a \o b \in Seq(T) /\ Len(a \o b) = Len(a) + Len(b)
      /\ \A i \in 1..Len(a) + Len(b) : (a \o b)[i] = IF i <= Len(a) THEN a[i] ELSE b[i - Len(a)]
  BY <1>1, ConcatProperties
<1>4. ASSUME NEW i \in 1..Len(a \o b)
      PROVE  \E j \in 1..Len(s) : (a \o b)[i] = s[j]
  <2>1. CASE i <= n - 1
    <3>1. (a \o b)[i] = s[i] /\ i \in 1..Len(s)
      BY <1>1, <1>3, <2>1
    <3>. QED
      BY <3>1
  <2>2. CASE i > n - 1
    <3>1. i - (n - 1) \in 1..Len(s) - n
      BY <1>1, <1>3, <2>2
    <3>2. (a \o b)[i] = s[n + (i - (n - 1))] /\ n + (i - (n - 1)) \in 1..Len(s)
      BY <1>1, <1>3, <2>2, <3>1
    <3>. QED
      BY <3>2
  <2>. QED
    BY <1>1, <1>3, <2>1, <2>2
<1>. QED
  BY <1>2, <1>3, <1>4
=============================================================================
