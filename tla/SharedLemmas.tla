---------------------------- MODULE SharedLemmas ----------------------------
(***************************************************************************)
(* What the proofs of several components rest on: sums over finite sets,   *)
(* how chained journal rows are put together, and what the low-stock       *)
(* trigger does to alert rows.                                             *)
(***************************************************************************)
EXTENDS Journal, LowStockTrigger, FiniteSetsExt,
        SequenceTheorems, FiniteSetTheorems, WellFoundedInduction, TLAPS

-----------------------------------------------------------------------------
\* Sums over finite sets

\* The element that a fold over the set s takes first, and the table of the sums over
\* all subsets that it computes.
FirstOf(s) == CHOOSE x \in s : TRUE
SumStep(f, it, s) == IF s = {} THEN 0 ELSE f[FirstOf(s)] + it[s \ {FirstOf(s)}]
SumTable(f, S, it) == it = [s \in SUBSET S |-> SumStep(f, it, s)]

\* Induction over finite sets: among the subsets of a finite set that have a property,
\* one is smallest.
LEMMA Smallest ==
    ASSUME NEW S, IsFiniteSet(S), NEW B, B \subseteq SUBSET S, B # {}
    PROVE  \E x \in B : \A y \in B : y \subseteq x => y = x
  <1>1. IsWellFoundedOn(StrictSubsetOrdering(S), SUBSET S)
    BY FS_StrictSubsetOrderingWellFounded, FS_FiniteSubsetsOfFinite
  <1>2. PICK x \in B : \A y \in B : ~ (<<y, x>> \in StrictSubsetOrdering(S))
    BY <1>1, WFMin
  <1>3. ASSUME NEW y \in B, y \subseteq x, y # x PROVE FALSE
    <2>1. <<y, x>> \in (SUBSET S) \X (SUBSET S)
      BY <1>2
    <2> QED
      BY <1>2, <1>3, <2>1 DEF StrictSubsetOrdering
  <1> QED
    BY <1>2, <1>3

\* A set that has elements has a first one.
LEMMA FirstOfIn == ASSUME NEW s, s # {} PROVE FirstOf(s) \in s
  BY DEF FirstOf

\* The tables of two sets agree on what both of them list.
LEMMA TablesAgree ==
    ASSUME NEW f, NEW S, IsFiniteSet(S), NEW T \in SUBSET S, NEW i, NEW j,
           SumTable(f, S, i), SumTable(f, T, j)
    PROVE  \A s \in SUBSET T : i[s] = j[s]
  <1> DEFINE B == {s \in SUBSET T : i[s] # j[s]}
  <1> SUFFICES ASSUME B # {} PROVE FALSE
    OBVIOUS
  <1>0. B \subseteq SUBSET S
    OBVIOUS
  <1>1. PICK x \in B : \A y \in B : y \subseteq x => y = x
    <2> HIDE DEF B
    <2> QED
      BY <1>0, Smallest
  <1>2. /\ i[x] = SumStep(f, i, x) /\ j[x] = SumStep(f, j, x) /\ x \in SUBSET T
    BY <1>1 DEF SumTable
  <1>3. x # {}
    BY <1>1, <1>2 DEF SumStep
  <1>4. FirstOf(x) \in x
    BY <1>3, FirstOfIn
  <1>5. x \ {FirstOf(x)} \in SUBSET T /\ x \ {FirstOf(x)} \notin B
    BY <1>1, <1>4
  <1>6. i[x \ {FirstOf(x)}] = j[x \ {FirstOf(x)}]
    BY <1>5
  <1> QED
    BY <1>1, <1>2, <1>3, <1>6 DEF SumStep

\* A finite set has a table.
LEMMA TableExists ==
    ASSUME NEW f, NEW S, IsFiniteSet(S)
    PROVE  \E it : SumTable(f, S, it)
  <1> DEFINE B == {T \in SUBSET S : ~ \E it : SumTable(f, T, it)}
  <1> SUFFICES B = {}
    OBVIOUS
  <1> SUFFICES ASSUME B # {} PROVE FALSE
    OBVIOUS
  <1>0. B \subseteq SUBSET S
    OBVIOUS
  <1>1. PICK T \in B : \A y \in B : y \subseteq T => y = T
    <2> HIDE DEF B
    <2> QED
      BY <1>0, Smallest
  <1>2. \A s \in SUBSET T : s # T => \E it : SumTable(f, s, it)
    BY <1>1
  <1> DEFINE tab(s) == CHOOSE it : SumTable(f, s, it)
             g  == [s \in SUBSET T |-> tab(s)[s]]
             it == [s \in SUBSET T |-> IF s = T THEN SumStep(f, g, T) ELSE g[s]]
  <1>3. \A s \in SUBSET T : s # T => SumTable(f, s, tab(s))
    BY <1>2
  <1> HIDE DEF tab
  <1>4. ASSUME NEW s \in SUBSET T PROVE it[s] = SumStep(f, it, s)
    <2>1. CASE s = {}
      <3>1. s # T => g[s] = tab(s)[s] /\ tab(s)[s] = SumStep(f, tab(s), s)
        BY <1>3 DEF SumTable
      <3> QED
        BY <2>1, <3>1 DEF SumStep
    <2>2. CASE s # {}
      <3> DEFINE r == s \ {FirstOf(s)}
      <3>1. FirstOf(s) \in s
        BY <2>2, FirstOfIn
      <3>2. r \in SUBSET T /\ r # T /\ r \in SUBSET s /\ r # s
        BY <3>1
      <3>3. it[r] = g[r] /\ g[r] = tab(r)[r]
        BY <3>2
      <3>4. CASE s = T
        <4>1. it[s] = SumStep(f, g, s)
          BY <3>4
        <4> QED
          BY <2>2, <3>3, <4>1 DEF SumStep
      <3>5. CASE s # T
        <4>1. it[s] = tab(s)[s]
          BY <3>5
        <4>2. SumTable(f, s, tab(s)) /\ SumTable(f, r, tab(r))
          BY <1>3, <3>2, <3>5
        <4>3. tab(s)[s] = SumStep(f, tab(s), s)
          BY <4>2 DEF SumTable
        <4>4. IsFiniteSet(s)
          BY <1>1, FS_Subset
        <4>5. tab(s)[r] = tab(r)[r]
          <5> HIDE DEF r
          <5> QED
            BY <3>2, <4>2, <4>4, TablesAgree
        <4> QED
          BY <2>2, <3>3, <4>1, <4>3, <4>5 DEF SumStep
      <3> QED
        BY <3>4, <3>5
    <2> QED
      BY <2>1, <2>2
  <1>5. SumTable(f, T, it)
    <2>1. it = [s \in SUBSET T |-> it[s]]
      OBVIOUS
    <2> HIDE DEF it
    <2> QED
      BY <1>4, <2>1 DEF SumTable
  <1> QED
    BY <1>1, <1>5

\* The sum is what the table lists for the set.
LEMMA SumDef ==
    ASSUME NEW f, NEW S
    PROVE  SumFunctionOnSet(f, S) = (CHOOSE it : SumTable(f, S, it))[S]
  BY DEF SumFunctionOnSet, FoldFunctionOnSet, MapThenFoldSet, SumTable, SumStep, FirstOf

\* A sum is the value at the first element and the sum of the others.
LEMMA SumSteps ==
    ASSUME NEW f, NEW S, IsFiniteSet(S)
    PROVE  /\ SumFunctionOnSet(f, {}) = 0
           /\ S # {} => SumFunctionOnSet(f, S)
                          = f[FirstOf(S)] + SumFunctionOnSet(f, S \ {FirstOf(S)})
  <1> DEFINE tab(T) == CHOOSE it : SumTable(f, T, it)
  <1>1. \A T : IsFiniteSet(T) => SumTable(f, T, tab(T))
    BY TableExists
  <1>2. \A T : SumFunctionOnSet(f, T) = tab(T)[T]
    BY SumDef
  <1> HIDE DEF tab
  <1>3. tab({})[{}] = SumStep(f, tab({}), {})
    BY <1>1, FS_EmptySet DEF SumTable
  <1>4. ASSUME S # {} PROVE tab(S)[S] = f[FirstOf(S)] + tab(S \ {FirstOf(S)})[S \ {FirstOf(S)}]
    <2> DEFINE r == S \ {FirstOf(S)}
    <2>1. r \in SUBSET S /\ IsFiniteSet(r)
      BY FS_Subset
    <2>2. tab(S)[r] = tab(r)[r]
      <3> HIDE DEF r
      <3> QED
        BY <1>1, <2>1, TablesAgree
    <2>3. tab(S)[S] = SumStep(f, tab(S), S)
      BY <1>1 DEF SumTable
    <2> QED
      BY <1>4, <2>2, <2>3 DEF SumStep
  <1> QED
    BY <1>2, <1>3, <1>4 DEF SumStep

\* There is nothing to add up in the empty set.
LEMMA SumEmpty == ASSUME NEW f PROVE SumFunctionOnSet(f, {}) = 0
  BY FS_EmptySet, SumSteps

\* A sum of integers is an integer.
LEMMA SumType ==
    ASSUME NEW f, NEW S, IsFiniteSet(S), \A x \in S : f[x] \in Int
    PROVE  SumFunctionOnSet(f, S) \in Int
  <1> DEFINE B == {T \in SUBSET S : SumFunctionOnSet(f, T) \notin Int}
  <1> SUFFICES ASSUME B # {} PROVE FALSE
    OBVIOUS
  <1>0. B \subseteq SUBSET S
    OBVIOUS
  <1>1. PICK T \in B : \A y \in B : y \subseteq T => y = T
    <2> HIDE DEF B
    <2> QED
      BY <1>0, Smallest
  <1>2. IsFiniteSet(T)
    BY <1>1, FS_Subset
  <1>3. T # {}
    <2>1. SumFunctionOnSet(f, {}) \in Int
      BY SumEmpty
    <2>2. SumFunctionOnSet(f, T) \notin Int
      BY <1>1
    <2> QED
      BY <2>1, <2>2
  <1>4. FirstOf(T) \in T
    BY <1>3, FirstOfIn
  <1>5. SumFunctionOnSet(f, T \ {FirstOf(T)}) \in Int
    BY <1>1, <1>4
  <1> QED
    BY <1>1, <1>2, <1>3, <1>4, <1>5, SumSteps

\* Any element can be the first: the sum does not depend on the order.
LEMMA SumRemove ==
    ASSUME NEW f, NEW S, IsFiniteSet(S), \A x \in S : f[x] \in Int, NEW x \in S
    PROVE  SumFunctionOnSet(f, S) = f[x] + SumFunctionOnSet(f, S \ {x})
  <1> DEFINE B == {T \in SUBSET S : \E z \in T : SumFunctionOnSet(f, T)
                                                  # f[z] + SumFunctionOnSet(f, T \ {z})}
  <1> SUFFICES ASSUME B # {} PROVE FALSE
    OBVIOUS
  <1>0. B \subseteq SUBSET S
    OBVIOUS
  <1>1. PICK T \in B : \A y \in B : y \subseteq T => y = T
    <2> HIDE DEF B
    <2> QED
      BY <1>0, Smallest
  <1>2. PICK z \in T : SumFunctionOnSet(f, T) # f[z] + SumFunctionOnSet(f, T \ {z})
    BY <1>1
  <1> DEFINE p == FirstOf(T)
  <1>3. /\ IsFiniteSet(T) /\ T # {} /\ p \in T /\ T \in SUBSET S
    BY <1>1, <1>2, FirstOfIn, FS_Subset
  <1>4. SumFunctionOnSet(f, T) = f[p] + SumFunctionOnSet(f, T \ {p})
    BY <1>3, SumSteps
  <1> HIDE DEF p
  <1>5. p # z
    BY <1>2, <1>4
  <1>6. SumFunctionOnSet(f, T \ {p}) = f[z] + SumFunctionOnSet(f, (T \ {p}) \ {z})
    <2>1. T \ {p} \in SUBSET S /\ T \ {p} \notin B /\ z \in T \ {p}
      BY <1>1, <1>2, <1>3, <1>5
    <2> QED
      BY <2>1
  <1>7. SumFunctionOnSet(f, T \ {z}) = f[p] + SumFunctionOnSet(f, (T \ {z}) \ {p})
    <2>1. T \ {z} \in SUBSET S /\ T \ {z} \notin B /\ p \in T \ {z}
      BY <1>1, <1>2, <1>3, <1>5
    <2> QED
      BY <2>1
  <1>8. (T \ {p}) \ {z} = (T \ {z}) \ {p}
    OBVIOUS
  <1>9. /\ f[p] \in Int /\ f[z] \in Int
        /\ SumFunctionOnSet(f, (T \ {z}) \ {p}) \in Int
    <2>1. IsFiniteSet((T \ {z}) \ {p})
      BY <1>3, FS_Subset
    <2> QED
      BY <1>2, <1>3, <2>1, SumType
  <1> DEFINE a == SumFunctionOnSet(f, (T \ {z}) \ {p})
             u == f[p]
             v == f[z]
  <1>10. /\ u \in Int /\ v \in Int /\ a \in Int
         /\ SumFunctionOnSet(f, T) = u + (v + a)
         /\ SumFunctionOnSet(f, T) # v + (u + a)
    BY <1>2, <1>4, <1>6, <1>7, <1>8, <1>9
  <1> HIDE DEF a, u, v
  <1> QED
    BY <1>10

\* A sum grows by the value at an element that is added.
LEMMA SumAdd ==
    ASSUME NEW f, NEW S, IsFiniteSet(S), NEW x, x \notin S,
           \A y \in S \cup {x} : f[y] \in Int
    PROVE  SumFunctionOnSet(f, S \cup {x}) = f[x] + SumFunctionOnSet(f, S)
  <1>1. IsFiniteSet(S \cup {x})
    BY FS_AddElement
  <1>2. (S \cup {x}) \ {x} = S
    OBVIOUS
  <1> QED
    BY <1>1, <1>2, SumRemove

\* A sum depends on nothing but the values at the elements of the set.
LEMMA SumSame ==
    ASSUME NEW f, NEW g, NEW S, IsFiniteSet(S),
           \A x \in S : f[x] = g[x]
    PROVE  SumFunctionOnSet(f, S) = SumFunctionOnSet(g, S)
  <1> DEFINE B == {T \in SUBSET S : SumFunctionOnSet(f, T) # SumFunctionOnSet(g, T)}
  <1> SUFFICES ASSUME B # {} PROVE FALSE
    OBVIOUS
  <1>0. B \subseteq SUBSET S
    OBVIOUS
  <1>1. PICK T \in B : \A y \in B : y \subseteq T => y = T
    <2> HIDE DEF B
    <2> QED
      BY <1>0, Smallest
  <1>2. IsFiniteSet(T) /\ T \subseteq S
    BY <1>1, FS_Subset
  <1>3. SumFunctionOnSet(f, T) # SumFunctionOnSet(g, T)
    BY <1>1
  <1>4. T # {}
    <2>1. SumFunctionOnSet(f, {}) = SumFunctionOnSet(g, {})
      BY FS_EmptySet, SumSteps
    <2> QED
      BY <1>3, <2>1
  <1>5. FirstOf(T) \in T
    BY <1>4, FirstOfIn
  <1>6. f[FirstOf(T)] = g[FirstOf(T)]
    BY <1>2, <1>5
  <1>7. SumFunctionOnSet(f, T \ {FirstOf(T)}) = SumFunctionOnSet(g, T \ {FirstOf(T)})
    BY <1>1, <1>5
  <1>8. /\ SumFunctionOnSet(f, T) = f[FirstOf(T)] + SumFunctionOnSet(f, T \ {FirstOf(T)})
        /\ SumFunctionOnSet(g, T) = g[FirstOf(T)] + SumFunctionOnSet(g, T \ {FirstOf(T)})
    BY <1>2, <1>4, SumSteps
  <1> QED
    BY <1>3, <1>6, <1>7, <1>8

\* A change at one element changes the sum by as much.
LEMMA SumChange ==
    ASSUME NEW f, NEW g, NEW S, IsFiniteSet(S), NEW x \in S,
           \A y \in S : f[y] \in Int /\ g[y] \in Int,
           \A y \in S \ {x} : f[y] = g[y]
    PROVE  SumFunctionOnSet(g, S) = SumFunctionOnSet(f, S) + (g[x] - f[x])
  <1> DEFINE R == S \ {x}
  <1>1. IsFiniteSet(R)
    BY FS_Subset
  <1>2. SumFunctionOnSet(f, S) = f[x] + SumFunctionOnSet(f, R)
    BY SumRemove
  <1>3. SumFunctionOnSet(g, S) = g[x] + SumFunctionOnSet(g, R)
    BY SumRemove
  <1>4. SumFunctionOnSet(f, R) = SumFunctionOnSet(g, R)
    <2>1. \A y \in R : f[y] = g[y]
      OBVIOUS
    <2> HIDE DEF R
    <2> QED
      BY <1>1, <2>1, SumSame
  <1>5. SumFunctionOnSet(f, R) \in Int
    <2>1. \A y \in R : f[y] \in Int
      OBVIOUS
    <2> HIDE DEF R
    <2> QED
      BY <1>1, <2>1, SumType
  <1> DEFINE a == SumFunctionOnSet(f, R)
             u == f[x]
             v == g[x]
  <1>6. /\ u \in Int /\ v \in Int /\ a \in Int
        /\ SumFunctionOnSet(f, S) = u + a
        /\ SumFunctionOnSet(g, S) = v + a
    BY <1>2, <1>3, <1>4, <1>5
  <1>7. SumFunctionOnSet(g, S) = SumFunctionOnSet(f, S) + (v - u)
    <2> HIDE DEF a, u, v
    <2> QED
      BY <1>6
  <1> QED
    BY <1>7

\* The sum of multiples of a number is a multiple of it.
LEMMA SumMultiple ==
    ASSUME NEW f, NEW S, IsFiniteSet(S), NEW m \in Int,
           \A x \in S : \E k \in Int : f[x] = k * m
    PROVE  \E k \in Int : SumFunctionOnSet(f, S) = k * m
  <1> DEFINE B == {T \in SUBSET S : ~ \E k \in Int : SumFunctionOnSet(f, T) = k * m}
  <1> SUFFICES ASSUME B # {} PROVE FALSE
    OBVIOUS
  <1>0. B \subseteq SUBSET S
    OBVIOUS
  <1>1. PICK T \in B : \A y \in B : y \subseteq T => y = T
    <2> HIDE DEF B
    <2> QED
      BY <1>0, Smallest
  <1>2. IsFiniteSet(T) /\ T \subseteq S
    BY <1>1, FS_Subset
  <1>3. ~ \E k \in Int : SumFunctionOnSet(f, T) = k * m
    BY <1>1
  <1>4. T # {}
    <2>1. SumFunctionOnSet(f, {}) = 0
      BY FS_EmptySet, SumSteps
    <2>2. 0 \in Int /\ 0 = 0 * m
      OBVIOUS
    <2> QED
      BY <1>3, <2>1, <2>2
  <1>5. FirstOf(T) \in T
    BY <1>4, FirstOfIn
  <1>6. PICK i \in Int : f[FirstOf(T)] = i * m
    BY <1>2, <1>5
  <1>7. PICK j \in Int : SumFunctionOnSet(f, T \ {FirstOf(T)}) = j * m
    BY <1>1, <1>5
  <1>8. SumFunctionOnSet(f, T) = f[FirstOf(T)] + SumFunctionOnSet(f, T \ {FirstOf(T)})
    BY <1>2, <1>4, SumSteps
  <1>9. i * m + j * m = (i + j) * m /\ i + j \in Int
    OBVIOUS
  <1> QED
    BY <1>3, <1>6, <1>7, <1>8, <1>9

\* Multiples of a number add up to the multiple of what they are multiples by.
LEMMA SumScaled ==
    ASSUME NEW f, NEW g, NEW S, IsFiniteSet(S), NEW m \in Int,
           \A x \in S : f[x] \in Int /\ g[x] = m * f[x]
    PROVE  SumFunctionOnSet(g, S) = m * SumFunctionOnSet(f, S)
  <1> DEFINE B == {T \in SUBSET S : SumFunctionOnSet(g, T) # m * SumFunctionOnSet(f, T)}
  <1> SUFFICES ASSUME B # {} PROVE FALSE
    OBVIOUS
  <1>0. B \subseteq SUBSET S
    OBVIOUS
  <1>1. PICK T \in B : \A y \in B : y \subseteq T => y = T
    <2> HIDE DEF B
    <2> QED
      BY <1>0, Smallest
  <1>2. IsFiniteSet(T) /\ T \subseteq S
    BY <1>1, FS_Subset
  <1>3. SumFunctionOnSet(g, T) # m * SumFunctionOnSet(f, T)
    BY <1>1
  <1>4. T # {}
    <2>1. SumFunctionOnSet(f, {}) = 0 /\ SumFunctionOnSet(g, {}) = 0
      BY FS_EmptySet, SumSteps
    <2>2. m * 0 = 0
      OBVIOUS
    <2> QED
      BY <1>3, <2>1, <2>2
  <1> DEFINE x == FirstOf(T)
             i == f[x]
             j == SumFunctionOnSet(f, T \ {x})
  <1>5. x \in T
    BY <1>4, FirstOfIn
  <1>6. IsFiniteSet(T \ {x}) /\ T \ {x} \subseteq S
    BY <1>2, FS_Subset
  <1>7. i \in Int /\ j \in Int
    <2>1. \A y \in T \ {x} : f[y] \in Int
      BY <1>6
    <2> QED
      BY <1>2, <1>5, <1>6, <2>1, SumType
  <1>8. SumFunctionOnSet(g, T \ {x}) = m * j
    BY <1>1, <1>5, <1>6
  <1>9. /\ SumFunctionOnSet(f, T) = i + j
        /\ SumFunctionOnSet(g, T) = g[x] + SumFunctionOnSet(g, T \ {x})
    BY <1>2, <1>4, SumSteps
  <1>10. g[x] = m * i
    BY <1>2, <1>5
  <1> HIDE DEF x, i, j
  <1>11. m * i + m * j = m * (i + j)
    BY <1>7
  <1> QED
    BY <1>3, <1>8, <1>9, <1>10, <1>11

\* The sum of numbers that are not negative is not negative.
LEMMA SumNat ==
    ASSUME NEW f, NEW S, IsFiniteSet(S), \A x \in S : f[x] \in Nat
    PROVE  SumFunctionOnSet(f, S) \in Nat
  <1> DEFINE B == {T \in SUBSET S : SumFunctionOnSet(f, T) \notin Nat}
  <1> SUFFICES ASSUME B # {} PROVE FALSE
    OBVIOUS
  <1>0. B \subseteq SUBSET S
    OBVIOUS
  <1>1. PICK T \in B : \A y \in B : y \subseteq T => y = T
    <2> HIDE DEF B
    <2> QED
      BY <1>0, Smallest
  <1>2. IsFiniteSet(T) /\ T \subseteq S
    BY <1>1, FS_Subset
  <1>3. SumFunctionOnSet(f, T) \notin Nat
    BY <1>1
  <1>4. T # {}
    <2>1. SumFunctionOnSet(f, {}) \in Nat
      BY SumEmpty
    <2> QED
      BY <1>3, <2>1
  <1>5. FirstOf(T) \in T
    BY <1>4, FirstOfIn
  <1>6. f[FirstOf(T)] \in Nat /\ SumFunctionOnSet(f, T \ {FirstOf(T)}) \in Nat
    BY <1>1, <1>2, <1>5
  <1>7. SumFunctionOnSet(f, T) = f[FirstOf(T)] + SumFunctionOnSet(f, T \ {FirstOf(T)})
    BY <1>2, <1>4, SumSteps
  <1> QED
    BY <1>3, <1>6, <1>7

\* The sum over two sets that have nothing in common.
LEMMA SumUnion ==
    ASSUME NEW f, NEW S, NEW R, IsFiniteSet(S), IsFiniteSet(R), S \cap R = {},
           \A x \in S \cup R : f[x] \in Int
    PROVE  SumFunctionOnSet(f, S \cup R) = SumFunctionOnSet(f, S) + SumFunctionOnSet(f, R)
  <1> DEFINE B == {T \in SUBSET R : SumFunctionOnSet(f, S \cup T)
                                      # SumFunctionOnSet(f, S) + SumFunctionOnSet(f, T)}
  <1> SUFFICES ASSUME B # {} PROVE FALSE
    OBVIOUS
  <1>0. B \subseteq SUBSET R
    OBVIOUS
  <1>1. PICK T \in B : \A y \in B : y \subseteq T => y = T
    <2> HIDE DEF B
    <2> QED
      BY <1>0, Smallest
  <1>2. IsFiniteSet(T) /\ T \subseteq R
    BY <1>1, FS_Subset
  <1>3. SumFunctionOnSet(f, S \cup T) # SumFunctionOnSet(f, S) + SumFunctionOnSet(f, T)
    BY <1>1
  <1>4. SumFunctionOnSet(f, S) \in Int
    BY SumType
  <1>5. T # {}
    <2>1. SumFunctionOnSet(f, {}) = 0
      BY SumEmpty
    <2>2. S \cup {} = S
      OBVIOUS
    <2>3. ASSUME T = {} PROVE FALSE
      <3>1. SumFunctionOnSet(f, S \cup {}) # SumFunctionOnSet(f, S) + SumFunctionOnSet(f, {})
        BY <1>3, <2>3
      <3>2. SumFunctionOnSet(f, S) # SumFunctionOnSet(f, S) + 0
        BY <2>1, <2>2, <3>1
      <3> QED
        BY <1>4, <3>2
    <2> QED
      BY <2>3
  <1>6. PICK x : x \in T
    BY <1>5
  <1> DEFINE r == T \ {x}
             W == S \cup r
  <1>7. /\ SumFunctionOnSet(f, S \cup r) = SumFunctionOnSet(f, S) + SumFunctionOnSet(f, r)
        /\ IsFiniteSet(r) /\ x \notin r /\ r \cup {x} = T
        /\ r \subseteq R /\ IsFiniteSet(W) /\ x \notin W /\ W \cup {x} = S \cup T
    <2>1. r \in SUBSET R /\ r \notin B
      BY <1>1, <1>2, <1>6
    <2>2. x \notin r /\ r \cup {x} = T /\ x \notin W /\ W \cup {x} = S \cup T
      BY <1>2, <1>6
    <2>3. IsFiniteSet(r)
      BY <1>2, FS_Subset
    <2>4. IsFiniteSet(W)
      <3> HIDE DEF r
      <3> QED
        BY <2>3, FS_Union
    <2> QED
      BY <2>1, <2>2, <2>3, <2>4
  <1>8. /\ \A y \in r \cup {x} : f[y] \in Int
        /\ \A y \in W \cup {x} : f[y] \in Int
    BY <1>2, <1>7
  <1> HIDE DEF r
  <1>9. SumFunctionOnSet(f, T) = f[x] + SumFunctionOnSet(f, r)
    BY <1>7, <1>8, SumAdd
  <1>10. SumFunctionOnSet(f, W \cup {x}) = f[x] + SumFunctionOnSet(f, W)
    <2> HIDE DEF W
    <2> QED
      BY <1>7, <1>8, SumAdd
  <1>11. f[x] \in Int /\ SumFunctionOnSet(f, r) \in Int
    BY <1>7, <1>8, SumType
  <1> DEFINE a == SumFunctionOnSet(f, S)
             b == SumFunctionOnSet(f, r)
             u == f[x]
  <1>12. /\ a \in Int /\ b \in Int /\ u \in Int
         /\ SumFunctionOnSet(f, T) = u + b
         /\ SumFunctionOnSet(f, S \cup T) = u + (a + b)
    BY <1>4, <1>7, <1>9, <1>10, <1>11
  <1>13. SumFunctionOnSet(f, S \cup T) # a + SumFunctionOnSet(f, T)
    BY <1>3
  <1> HIDE DEF a, b, u
  <1> QED
    BY <1>12, <1>13

\* h pairs the elements of S and R one to one, and the values f and g there agree.
Paired(f, g, S, R, h) ==
    /\ IsFiniteSet(S) /\ IsFiniteSet(R)
    /\ \A x \in S : f[x] \in Int /\ g[h[x]] = f[x]
    /\ \A x, y \in S : h[x] = h[y] => x = y
    /\ R = {h[x] : x \in S}

\* Sums of the same values over two sets that are paired one to one.
LEMMA SumPaired ==
    ASSUME NEW f, NEW g, NEW S, NEW R, NEW h, Paired(f, g, S, R, h)
    PROVE  SumFunctionOnSet(g, R) = SumFunctionOnSet(f, S)
  <1> USE DEF Paired
  <1> DEFINE img(T) == {h[x] : x \in T}
             B == {T \in SUBSET S : SumFunctionOnSet(g, img(T)) # SumFunctionOnSet(f, T)}
  <1> SUFFICES ASSUME B # {} PROVE FALSE
    <2>1. R = img(S)
      OBVIOUS
    <2> QED
      BY <2>1
  <1>0. B \subseteq SUBSET S
    OBVIOUS
  <1>1. PICK T \in B : \A y \in B : y \subseteq T => y = T
    <2> HIDE DEF B
    <2> QED
      BY <1>0, Smallest
  <1>2. IsFiniteSet(T) /\ T \subseteq S
    BY <1>1, FS_Subset
  <1>3. SumFunctionOnSet(g, img(T)) # SumFunctionOnSet(f, T)
    BY <1>1
  <1>4. T # {}
    <2>1. ASSUME T = {} PROVE FALSE
      <3>1. img(T) = {}
        BY <2>1
      <3> HIDE DEF img
      <3> QED
        BY <1>3, <2>1, <3>1, SumEmpty
    <2> QED
      BY <2>1
  <1>5. PICK x : x \in T
    BY <1>4
  <1> DEFINE r == T \ {x}
  <1>6. r \in SUBSET S /\ r \notin B
    BY <1>1, <1>2, <1>5
  <1>7. SumFunctionOnSet(g, img(r)) = SumFunctionOnSet(f, r)
    BY <1>6
  <1>8. img(T) = img(r) \cup {h[x]} /\ h[x] \notin img(r)
    BY <1>2, <1>5
  <1>9. /\ IsFiniteSet(r) /\ IsFiniteSet(img(r)) /\ x \notin r /\ T = r \cup {x}
        /\ \A y \in T : f[y] \in Int
        /\ \A z \in img(T) : g[z] \in Int
        /\ g[h[x]] = f[x]
    <2>1. IsFiniteSet(r) /\ x \notin r /\ T = r \cup {x}
      BY <1>2, <1>5, FS_Subset
    <2>2. img(r) \subseteq R
      BY <1>2
    <2>3. IsFiniteSet(img(r))
      <3> HIDE DEF img
      <3> QED
        BY <2>2, FS_Subset
    <2>4. \A y \in T : f[y] \in Int /\ g[h[y]] = f[y]
      BY <1>2
    <2> QED
      BY <2>1, <2>3, <2>4, <1>5
  <1>10. SumFunctionOnSet(f, T) = f[x] + SumFunctionOnSet(f, r)
    <2> HIDE DEF r
    <2> QED
      BY <1>9, SumAdd
  <1>11. SumFunctionOnSet(g, img(T)) = g[h[x]] + SumFunctionOnSet(g, img(r))
    <2> DEFINE I == img(r)
               z == h[x]
    <2>1. IsFiniteSet(I) /\ z \notin I /\ \A y \in I \cup {z} : g[y] \in Int
      BY <1>8, <1>9
    <2>2. SumFunctionOnSet(g, I \cup {z}) = g[z] + SumFunctionOnSet(g, I)
      <3> HIDE DEF I, z
      <3> QED
        BY <2>1, SumAdd
    <2> QED
      BY <1>8, <2>2
  <1> QED
    BY <1>3, <1>7, <1>9, <1>10, <1>11

-----------------------------------------------------------------------------
\* Journal rows and alert rows

\* No rows lead from a quantity to itself.
LEMMA ChainedEmpty == \A b : Chained(b, <<>>, b)
  BY DEF Chained

\* A session or a transaction that logs a movement from the quantity its rows
\* have led to goes on with the chain.
LEMMA ChainedAppend ==
  ASSUME NEW b \in Nat, NEW rows \in Seq(Row), NEW e \in Nat, NEW row \in Row,
         Chained(b, rows, e), row.before = e, row.after = row.before + row.change
  PROVE  Chained(b, Append(rows, row), row.after)
<1> DEFINE longer == Append(rows, row)
<1>1. /\ longer \in Seq(Row) /\ longer # <<>> /\ Len(longer) = Len(rows) + 1
      /\ \A i \in 1 .. Len(rows) : longer[i] = rows[i]
      /\ longer[Len(rows) + 1] = row
  BY AppendProperties
<1>2. Len(rows) \in Nat /\ DOMAIN rows = 1 .. Len(rows) /\ DOMAIN longer = 1 .. Len(longer)
  BY <1>1, LenProperties
<1>3. ASSUME NEW i \in DOMAIN longer
      PROVE  /\ longer[i].after = longer[i].before + longer[i].change
             /\ longer[i].before = IF i = 1 THEN b ELSE longer[i - 1].after
  <2>1. CASE i \in 1 .. Len(rows)
    <3>1. longer[i] = rows[i] /\ (i # 1 => longer[i - 1] = rows[i - 1])
      BY <1>1, <1>2, <2>1
    <3> QED
      BY <3>1, <1>2, <2>1 DEF Chained
  <2>2. CASE i = Len(rows) + 1
    <3>1. longer[i] = row
      BY <1>1, <2>2
    <3>2. CASE Len(rows) = 0
      <4>1. rows = <<>> /\ i = 1
        BY <3>2, <2>2, EmptySeq
      <4> QED
        BY <3>1, <4>1 DEF Chained
    <3>3. CASE Len(rows) # 0
      <4>1. i # 1 /\ i - 1 = Len(rows) /\ Len(rows) \in 1 .. Len(rows)
        BY <3>3, <2>2, <1>2
      <4>2. longer[i - 1] = rows[Len(rows)]
        BY <4>1, <1>1
      <4>3. rows # <<>>
        BY <3>3, EmptySeq
      <4> QED
        BY <3>1, <4>1, <4>2, <4>3 DEF Chained
    <3> QED
      BY <1>2, <3>2, <3>3
  <2> QED
    BY <1>1, <1>2, <2>1, <2>2
<1> QED
  BY <1>1, <1>3 DEF Chained

\* Rows from b to m and rows from m to e, one after the other, lead from b to e.
LEMMA ChainedConcat ==
  ASSUME NEW b, NEW m, NEW e, NEW first \in Seq(Row), NEW second \in Seq(Row),
         Chained(b, first, m), Chained(m, second, e)
  PROVE  Chained(b, first \o second, e)
<1> DEFINE both == first \o second
<1>1. /\ both \in Seq(Row) /\ Len(both) = Len(first) + Len(second)
      /\ \A i \in 1 .. Len(first) + Len(second) :
            both[i] = IF i <= Len(first) THEN first[i] ELSE second[i - Len(first)]
  BY ConcatProperties
<1>2. /\ Len(first) \in Nat /\ DOMAIN first = 1 .. Len(first)
      /\ Len(second) \in Nat /\ DOMAIN second = 1 .. Len(second)
      /\ DOMAIN both = 1 .. Len(first) + Len(second)
  BY <1>1, LenProperties
<1>3. /\ first = <<>> <=> Len(first) = 0
      /\ second = <<>> <=> Len(second) = 0
      /\ both = <<>> <=> Len(first) + Len(second) = 0
  BY <1>1, <1>2, EmptySeq
<1>4. ASSUME NEW i \in DOMAIN both
      PROVE  /\ both[i].after = both[i].before + both[i].change
             /\ both[i].before = IF i = 1 THEN b ELSE both[i - 1].after
  <2>1. CASE i <= Len(first)
    <3>1. i \in DOMAIN first /\ both[i] = first[i] /\ (i # 1 => both[i - 1] = first[i - 1])
      BY <1>1, <1>2, <2>1
    <3> QED
      BY <3>1 DEF Chained
  <2>2. CASE i > Len(first)
    <3> DEFINE k == i - Len(first)
    <3>1. k \in DOMAIN second /\ both[i] = second[k] /\ (k # 1 => both[i - 1] = second[k - 1])
      BY <1>1, <1>2, <2>2
    <3>2. k = 1 => both[i].before = m
      BY <3>1 DEF Chained
    <3>3. k = 1 /\ i # 1 => m = both[i - 1].after
      BY <1>1, <1>2, <1>3, <2>2 DEF Chained
    <3>4. i = 1 => m = b /\ k = 1
      BY <1>2, <1>3, <2>2 DEF Chained
    <3>5. k # 1 => i # 1 /\ second[k].before = second[k - 1].after
      BY <3>1, <3>4 DEF Chained
    <3>6. second[k].after = second[k].before + second[k].change
      BY <3>1 DEF Chained
    <3> QED
      BY <3>1, <3>2, <3>3, <3>4, <3>5, <3>6
  <2> QED
    BY <1>2, <2>1, <2>2
<1>5. e = IF both = <<>> THEN b ELSE both[Len(both)].after
  <2>1. CASE second = <<>>
    <3>1. e = m /\ Len(both) = Len(first)
      BY <1>1, <1>2, <1>3, <2>1 DEF Chained
    <3>2. Len(first) # 0 => both[Len(both)] = first[Len(first)]
      BY <3>1, <1>1, <1>2
    <3> QED
      BY <1>2, <1>3, <3>1, <3>2, <2>1 DEF Chained
  <2>2. CASE second # <<>>
    <3>1. both # <<>> /\ both[Len(both)] = second[Len(second)]
      BY <1>1, <1>2, <1>3, <2>2
    <3> QED
      BY <3>1, <2>2 DEF Chained
  <2> QED
    BY <2>1, <2>2
<1> QED
  BY <1>4, <1>5 DEF Chained

\* A journal that grows by rows that lead on from its end goes on leading from b.
LEMMA ChainedGrows ==
  ASSUME NEW b, NEW m, NEW e, NEW old \in Seq(Row), NEW new \in Seq(Row), NEW rows,
         rows = SubSeq(new, Len(old) + 1, Len(new)), new = old \o rows,
         Chained(b, old, m), Chained(m, rows, e)
  PROVE  Chained(b, new, e)
<1>1. Len(old) \in Nat /\ Len(new) \in Nat /\ \A i \in 1 .. Len(new) : new[i] \in Row
  BY LenProperties, ElementOfSeq
<1>2. rows \in Seq(Row)
  BY <1>1, SubSeqProperties
<1> QED
  BY <1>2, ChainedConcat

\* What a step appends to a journal is what comes after the old rows.
LEMMA AppendedRows ==
  ASSUME NEW old \in Seq(Row), NEW rows \in Seq(Row)
  PROVE  SubSeq(old \o rows, Len(old) + 1, Len(old \o rows)) = rows
<1>1. Len(old) \in Nat /\ Len(rows) \in Nat /\ Len(old \o rows) = Len(old) + Len(rows)
  BY LenProperties, ConcatProperties
<1>2. CASE rows = <<>>
  <2>1. Len(rows) = 0
    BY <1>2, EmptySeq
  <2> QED
    BY <1>1, <1>2, <2>1, SubSeqEmpty
<1>3. CASE rows # <<>>
  <2>1. Len(rows) # 0
    BY <1>3, EmptySeq
  <2>2. SubSeq(old \o rows, Len(old) + 1, Len(old) + Len(rows)) = SubSeq(rows, 1, Len(rows))
    BY <1>1, <2>1, SubSeqOfConcat2
  <2> QED
    BY <1>1, <2>2, SubSeqFull
<1> QED
  BY <1>2, <1>3

\* The trigger keeps the alerts of a product a sequence of flags.
LEMMA AfterUpdateType ==
  ASSUME NEW rows \in Seq(BOOLEAN), NEW old, NEW new, NEW threshold
  PROVE  /\ AfterUpdate(rows, old, new, threshold) \in Seq(BOOLEAN)
         /\ Notified(rows, old, new, threshold) \in Nat
<1>1. DOMAIN rows = 1 .. Len(rows) /\ Len(rows) \in Nat
  BY LenProperties
<1>2. [a \in 1 .. Len(rows) |-> FALSE] \in Seq(BOOLEAN)
  BY <1>1, SeqDef
<1>3. Append(rows, TRUE) \in Seq(BOOLEAN)
  BY AppendProperties
<1> QED
  BY <1>1, <1>2, <1>3 DEF AfterUpdate, Raised, Notified

-----------------------------------------------------------------------------
\* What journal rows have moved

\* The rows that count are finitely many, and what they moved is a number.
LEMMA MovedType ==
  ASSUME NEW rows \in Seq(Row), NEW kinds
  PROVE  /\ IsFiniteSet({i \in DOMAIN rows : rows[i].kind \in kinds})
         /\ \A i \in DOMAIN rows : rows[i].change \in Int
         /\ UnitsMoved(rows, kinds) \in Int
<1> DEFINE S == {i \in DOMAIN rows : rows[i].kind \in kinds}
           f == [i \in DOMAIN rows |-> rows[i].change]
<1>1. DOMAIN rows = 1 .. Len(rows) /\ Len(rows) \in Nat
  BY LenProperties
<1>2. IsFiniteSet(DOMAIN rows)
  BY <1>1, FS_Interval
<1>3. IsFiniteSet(S)
  BY <1>2, FS_Subset
<1>4. ASSUME NEW i \in DOMAIN rows PROVE rows[i].change \in Int
  <2>1. rows[i] \in Row
    BY <1>1, ElementOfSeq
  <2> QED
    BY <2>1 DEF Row
<1>5. \A i \in S : f[i] \in Int
  BY <1>4
<1>6. SumFunctionOnSet(f, S) \in Int
  <2> HIDE DEF f, S
  <2> QED
    BY <1>3, <1>5, SumType
<1> QED
  BY <1>3, <1>4, <1>6 DEF UnitsMoved

\* Rows of other kinds do not count.
LEMMA MovedNone ==
  ASSUME NEW rows, NEW kinds, \A i \in DOMAIN rows : rows[i].kind \notin kinds
  PROVE  UnitsMoved(rows, kinds) = 0
<1>1. {i \in DOMAIN rows : rows[i].kind \in kinds} = {}
  OBVIOUS
<1> QED
  BY <1>1, SumEmpty DEF UnitsMoved

\* What rows of some kinds and of some others have moved adds up.
LEMMA MovedUnion ==
  ASSUME NEW rows \in Seq(Row), NEW kinds, NEW more, kinds \cap more = {}
  PROVE  UnitsMoved(rows, kinds \cup more) = UnitsMoved(rows, kinds) + UnitsMoved(rows, more)
<1> DEFINE S == {i \in DOMAIN rows : rows[i].kind \in kinds}
           R == {i \in DOMAIN rows : rows[i].kind \in more}
           f == [i \in DOMAIN rows |-> rows[i].change]
<1>1. {i \in DOMAIN rows : rows[i].kind \in kinds \cup more} = S \cup R /\ S \cap R = {}
  OBVIOUS
<1>2. IsFiniteSet(S) /\ IsFiniteSet(R) /\ \A i \in S \cup R : f[i] \in Int
  BY MovedType
<1> HIDE DEF S, R, f
<1>3. SumFunctionOnSet(f, S \cup R) = SumFunctionOnSet(f, S) + SumFunctionOnSet(f, R)
  BY <1>1, <1>2, SumUnion
<1> QED
  BY <1>1, <1>3 DEF UnitsMoved, S, R, f

\* A row adds its change, if it is of the kinds that count.
LEMMA MovedAppend ==
  ASSUME NEW rows \in Seq(Row), NEW row \in Row, NEW kinds
  PROVE  UnitsMoved(Append(rows, row), kinds)
           = UnitsMoved(rows, kinds) + (IF row.kind \in kinds THEN row.change ELSE 0)
<1> DEFINE n   == Len(rows) + 1
           new == Append(rows, row)
           S   == {i \in DOMAIN rows : rows[i].kind \in kinds}
           T   == {i \in DOMAIN new : new[i].kind \in kinds}
           f   == [i \in DOMAIN rows |-> rows[i].change]
           g   == [i \in DOMAIN new |-> new[i].change]
<1>1. /\ new \in Seq(Row) /\ Len(new) = n /\ new[n] = row
      /\ \A i \in 1 .. Len(rows) : new[i] = rows[i]
  BY AppendProperties
<1>2. /\ DOMAIN rows = 1 .. Len(rows) /\ Len(rows) \in Nat
      /\ DOMAIN new = 1 .. n
  BY <1>1, LenProperties
<1>3. /\ IsFiniteSet(S) /\ \A i \in DOMAIN rows : rows[i].change \in Int
      /\ SumFunctionOnSet(f, S) \in Int
  BY MovedType DEF UnitsMoved
<1>4. row.change \in Int
  BY DEF Row
<1> HIDE DEF new
<1>5. /\ \A i \in S : g[i] = f[i] /\ g[i] \in Int
      /\ g[n] = row.change /\ n \notin S
  BY <1>1, <1>2, <1>3
<1>6. T = IF row.kind \in kinds THEN S \cup {n} ELSE S
  BY <1>1, <1>2
<1>7. SumFunctionOnSet(g, S) = SumFunctionOnSet(f, S)
  <2> HIDE DEF f, g, S
  <2> QED
    BY <1>3, <1>5, SumSame
<1>8. SumFunctionOnSet(g, S \cup {n}) = row.change + SumFunctionOnSet(g, S)
  <2>1. \A y \in S \cup {n} : g[y] \in Int
    BY <1>4, <1>5
  <2> HIDE DEF f, g, S, n
  <2>2. SumFunctionOnSet(g, S \cup {n}) = g[n] + SumFunctionOnSet(g, S)
    BY <1>3, <1>5, <2>1, SumAdd
  <2> QED
    BY <1>5, <2>2
<1>9. /\ UnitsMoved(rows, kinds) = SumFunctionOnSet(f, S)
      /\ UnitsMoved(new, kinds) = SumFunctionOnSet(g, T)
  BY DEF UnitsMoved
<1>10. UnitsMoved(new, kinds) = UnitsMoved(rows, kinds)
                             + (IF row.kind \in kinds THEN row.change ELSE 0)
  <2> HIDE DEF f, g, S, T, n
  <2> QED
    BY <1>3, <1>4, <1>6, <1>7, <1>8, <1>9
<1> QED
  BY <1>10 DEF new

\* What two lists of rows move together.
LEMMA MovedConcat ==
  ASSUME NEW rows \in Seq(Row), NEW more \in Seq(Row), NEW kinds
  PROVE  UnitsMoved(rows \o more, kinds) = UnitsMoved(rows, kinds) + UnitsMoved(more, kinds)
<1> DEFINE n   == Len(rows)
           all == rows \o more
           S   == {i \in DOMAIN rows : rows[i].kind \in kinds}
           R   == {i \in DOMAIN more : more[i].kind \in kinds}
           T   == {i \in DOMAIN all : all[i].kind \in kinds}
           h   == [i \in R |-> n + i]
           H   == {h[i] : i \in R}
           f   == [i \in DOMAIN rows |-> rows[i].change]
           e   == [i \in DOMAIN more |-> more[i].change]
           g   == [i \in DOMAIN all |-> all[i].change]
<1>1. /\ all \in Seq(Row) /\ Len(all) = n + Len(more)
      /\ \A i \in 1 .. n : all[i] = rows[i]
      /\ \A i \in 1 .. Len(more) : all[n + i] = more[i]
  BY ConcatProperties
<1>2. /\ DOMAIN rows = 1 .. n /\ n \in Nat
      /\ DOMAIN more = 1 .. Len(more) /\ Len(more) \in Nat
      /\ DOMAIN all = 1 .. n + Len(more)
  BY <1>1, LenProperties
<1>3. /\ IsFiniteSet(S) /\ \A i \in DOMAIN rows : rows[i].change \in Int
      /\ SumFunctionOnSet(f, S) \in Int
  BY MovedType DEF UnitsMoved
<1>4. /\ IsFiniteSet(R) /\ \A i \in DOMAIN more : more[i].change \in Int
      /\ SumFunctionOnSet(e, R) \in Int
  BY MovedType DEF UnitsMoved
<1> HIDE DEF all
<1>5. \A i \in S : g[i] = f[i] /\ g[i] \in Int
  BY <1>1, <1>2, <1>3
<1>6. \A i \in R : e[i] \in Int /\ h[i] = n + i /\ g[h[i]] = e[i]
  BY <1>1, <1>2, <1>4
<1>7. \A i, j \in R : h[i] = h[j] => i = j
  BY <1>2, <1>6
<1>8. T = S \cup H /\ S \cap H = {}
  <2>0. \A i \in R : n + i \in T
    BY <1>1, <1>2
  <2>1. S \subseteq T /\ H \subseteq T
    <3>1. S \subseteq T
      BY <1>1, <1>2
    <3>2. \A i \in R : h[i] \in T
      BY <1>6, <2>0
    <3> HIDE DEF R, h, T
    <3> QED
      BY <3>1, <3>2
  <2>2. ASSUME NEW i \in T, i \notin S PROVE i \in H
    <3>1. i - n \in R
      BY <1>1, <1>2, <2>2
    <3>2. h[i - n] = i
      BY <1>2, <3>1
    <3> QED
      BY <3>1, <3>2
  <2>3. S \cap H = {}
    <3>1. \A i \in R : h[i] \notin S
      BY <1>2, <1>6
    <3> HIDE DEF R, h, S
    <3> QED
      BY <3>1
  <2> QED
    BY <2>1, <2>2, <2>3
<1>9. IsFiniteSet(T) /\ IsFiniteSet(H)
  <2>1. IsFiniteSet(T)
    BY <1>1, MovedType
  <2> QED
    BY <1>8, <2>1, FS_Subset
<1>10. \A x \in T : g[x] \in Int
  <2>1. \A i \in R : g[h[i]] \in Int
    BY <1>6
  <2> HIDE DEF R, h, g, S, T
  <2> QED
    BY <1>5, <1>8, <2>1
<1>11. /\ UnitsMoved(rows, kinds) = SumFunctionOnSet(f, S)
       /\ UnitsMoved(more, kinds) = SumFunctionOnSet(e, R)
       /\ UnitsMoved(all, kinds) = SumFunctionOnSet(g, T)
  BY DEF UnitsMoved
<1>12. H = {h[x] : x \in R}
  OBVIOUS
<1>13. SumFunctionOnSet(g, S) = SumFunctionOnSet(f, S)
  <2> HIDE DEF f, g, S
  <2> QED
    BY <1>3, <1>5, SumSame
<1>14. SumFunctionOnSet(g, H) = SumFunctionOnSet(e, R)
  <2> HIDE DEF e, g, R, h, H
  <2>1. Paired(e, g, R, H, h)
    BY <1>4, <1>6, <1>7, <1>9, <1>12 DEF Paired
  <2> QED
    BY <2>1, SumPaired
<1>15. SumFunctionOnSet(g, S \cup H) = SumFunctionOnSet(g, S) + SumFunctionOnSet(g, H)
  <2> HIDE DEF f, g, S, R, h, H, T
  <2> QED
    BY <1>3, <1>8, <1>9, <1>10, SumUnion
<1>16. UnitsMoved(all, kinds) = UnitsMoved(rows, kinds) + UnitsMoved(more, kinds)
  <2> HIDE DEF f, g, e, S, R, h, H, T
  <2> QED
    BY <1>8, <1>11, <1>13, <1>14, <1>15
<1> QED
  BY <1>16 DEF all

\* The sum of two sums over one set.
LEMMA SumPlus ==
    ASSUME NEW f, NEW g, NEW h, NEW S, IsFiniteSet(S),
           \A x \in S : f[x] \in Int /\ g[x] \in Int /\ h[x] = f[x] + g[x]
    PROVE  SumFunctionOnSet(h, S) = SumFunctionOnSet(f, S) + SumFunctionOnSet(g, S)
  <1> DEFINE B == {T \in SUBSET S : SumFunctionOnSet(h, T)
                                      # SumFunctionOnSet(f, T) + SumFunctionOnSet(g, T)}
  <1> SUFFICES ASSUME B # {} PROVE FALSE
    OBVIOUS
  <1>0. B \subseteq SUBSET S
    OBVIOUS
  <1>1. PICK T \in B : \A y \in B : y \subseteq T => y = T
    <2> HIDE DEF B
    <2> QED
      BY <1>0, Smallest
  <1>2. IsFiniteSet(T) /\ T \subseteq S
    BY <1>1, FS_Subset
  <1>3. SumFunctionOnSet(h, T) # SumFunctionOnSet(f, T) + SumFunctionOnSet(g, T)
    BY <1>1
  <1>4. T # {}
    <2>1. /\ SumFunctionOnSet(f, {}) = 0 /\ SumFunctionOnSet(g, {}) = 0
          /\ SumFunctionOnSet(h, {}) = 0
      BY SumEmpty
    <2>2. 0 = 0 + 0
      OBVIOUS
    <2>3. SumFunctionOnSet(h, {}) = SumFunctionOnSet(f, {}) + SumFunctionOnSet(g, {})
      BY <2>1, <2>2
    <2> QED
      BY <1>3, <2>3
  <1>5. FirstOf(T) \in T
    BY <1>4, FirstOfIn
  <1> DEFINE x == FirstOf(T)
             R == T \ {x}
  <1>6. f[x] \in Int /\ g[x] \in Int /\ h[x] = f[x] + g[x]
    BY <1>2, <1>5
  <1>7. SumFunctionOnSet(h, R) = SumFunctionOnSet(f, R) + SumFunctionOnSet(g, R)
    BY <1>1, <1>5
  <1>8. /\ SumFunctionOnSet(f, T) = f[x] + SumFunctionOnSet(f, R)
        /\ SumFunctionOnSet(g, T) = g[x] + SumFunctionOnSet(g, R)
        /\ SumFunctionOnSet(h, T) = h[x] + SumFunctionOnSet(h, R)
    BY <1>2, <1>4, SumSteps
  <1>9. IsFiniteSet(R) /\ \A y \in R : f[y] \in Int /\ g[y] \in Int
    BY <1>2, FS_Subset
  <1>10. SumFunctionOnSet(f, R) \in Int /\ SumFunctionOnSet(g, R) \in Int
    <2> HIDE DEF R
    <2> QED
      BY <1>9, SumType
  <1> HIDE DEF x, R
  <1> QED
    BY <1>3, <1>6, <1>7, <1>8, <1>10

\* The sum of numbers of which none counts.
LEMMA SumZeros ==
    ASSUME NEW f, NEW S, IsFiniteSet(S), \A x \in S : f[x] = 0
    PROVE  SumFunctionOnSet(f, S) = 0
  <1>1. \A x \in S : \E k \in Int : f[x] = k * 0
    OBVIOUS
  <1>2. 0 \in Int
    OBVIOUS
  <1>3. \E k \in Int : SumFunctionOnSet(f, S) = k * 0
    BY <1>1, <1>2, SumMultiple
  <1> QED
    BY <1>3

\* The pairs of n with the elements of L.
PairsWith(n, L) == {<<n, k>> : k \in L}

\* Finitely many elements make finitely many pairs.
LEMMA PairsAreFinite ==
    ASSUME NEW n, NEW L, IsFiniteSet(L)
    PROVE  IsFiniteSet(PairsWith(n, L))
  <1>1. IsFiniteSet({n} \X L)
    BY FS_Singleton, FS_Product
  <1>2. PairsWith(n, L) \subseteq {n} \X L
    BY DEF PairsWith
  <1> QED
    BY <1>1, <1>2, FS_Subset

\* The values g on the pairs of n with L are the values e on L.
LEMMA SumOfPairs ==
    ASSUME NEW n, NEW L, NEW e, NEW g, IsFiniteSet(L),
           \A k \in L : e[k] \in Int /\ g[<<n, k>>] = e[k]
    PROVE  SumFunctionOnSet(g, PairsWith(n, L)) = SumFunctionOnSet(e, L)
  <1> DEFINE h == [k \in L |-> <<n, k>>]
             N == PairsWith(n, L)
  <1>1. \A k \in L : h[k] = <<n, k>>
    OBVIOUS
  <1>2. N = {h[k] : k \in L}
    BY DEF PairsWith
  <1>3. \A x, y \in L : h[x] = h[y] => x = y
    OBVIOUS
  <1>4. IsFiniteSet(N)
    BY PairsAreFinite
  <1>5. Paired(e, g, L, N, h)
    <2> HIDE DEF h, N
    <2> QED
      BY <1>1, <1>2, <1>3, <1>4 DEF Paired
  <1> HIDE DEF h, N
  <1>6. SumFunctionOnSet(g, N) = SumFunctionOnSet(e, L)
    BY <1>5, SumPaired
  <1> QED
    BY <1>6 DEF N

\* g has the values of f on I, and those of e on the pairs of n with L.
Extends(f, I, g, n, e, L) ==
    /\ IsFiniteSet(I) /\ IsFiniteSet(L) /\ I \cap PairsWith(n, L) = {}
    /\ \A i \in I : f[i] \in Int /\ g[i] = f[i]
    /\ \A k \in L : e[k] \in Int /\ g[<<n, k>>] = e[k]

\* The sum after a group of new elements has been added.
LEMMA SumExtends ==
    ASSUME NEW f, NEW I, NEW g, NEW n, NEW e, NEW L, Extends(f, I, g, n, e, L)
    PROVE  SumFunctionOnSet(g, I \cup PairsWith(n, L))
             = SumFunctionOnSet(f, I) + SumFunctionOnSet(e, L)
  <1> DEFINE N == PairsWith(n, L)
  <1>1. /\ IsFiniteSet(I) /\ IsFiniteSet(L) /\ I \cap N = {}
        /\ \A i \in I : f[i] \in Int /\ g[i] = f[i]
        /\ \A k \in L : e[k] \in Int /\ g[<<n, k>>] = e[k]
    BY DEF Extends
  <1>2. IsFiniteSet(N)
    BY <1>1, PairsAreFinite
  <1>3. \A i \in I \cup N : g[i] \in Int
    BY <1>1 DEF PairsWith
  <1>4. SumFunctionOnSet(g, N) = SumFunctionOnSet(e, L)
    BY <1>1, SumOfPairs
  <1> HIDE DEF N
  <1>5. SumFunctionOnSet(g, I) = SumFunctionOnSet(f, I)
    BY <1>1, SumSame
  <1>6. SumFunctionOnSet(g, I \cup N) = SumFunctionOnSet(g, I) + SumFunctionOnSet(g, N)
    BY <1>1, <1>2, <1>3, SumUnion
  <1> QED
    BY <1>4, <1>5, <1>6 DEF N

\* g is f on I, with the values e on L added at the pairs of n with L.
Adds(f, g, I, n, e, L) ==
    /\ IsFiniteSet(I) /\ IsFiniteSet(L) /\ PairsWith(n, L) \subseteq I
    /\ \A i \in I : f[i] \in Int /\ (i \notin PairsWith(n, L) => g[i] = f[i])
    /\ \A k \in L : e[k] \in Int /\ g[<<n, k>>] = f[<<n, k>>] + e[k]

\* The sum after a group of elements has grown.
LEMMA SumAdds ==
    ASSUME NEW f, NEW g, NEW I, NEW n, NEW e, NEW L, Adds(f, g, I, n, e, L)
    PROVE  SumFunctionOnSet(g, I) = SumFunctionOnSet(f, I) + SumFunctionOnSet(e, L)
  <1> DEFINE N == PairsWith(n, L)
             R == I \ N
             d == [i \in N |-> e[i[2]]]
  <1>1. /\ IsFiniteSet(I) /\ IsFiniteSet(L) /\ N \subseteq I
        /\ \A i \in I : f[i] \in Int /\ (i \notin N => g[i] = f[i])
        /\ \A k \in L : e[k] \in Int /\ g[<<n, k>>] = f[<<n, k>>] + e[k]
    BY DEF Adds
  <1>2. \A i \in N : i[2] \in L /\ i = <<n, i[2]>>
    BY DEF PairsWith
  <1>3. \A k \in L : <<n, k>> \in N
    BY DEF PairsWith
  <1>4. \A i \in N : f[i] \in Int /\ d[i] \in Int /\ g[i] = f[i] + d[i]
    BY <1>1, <1>2
  <1>5. \A k \in L : e[k] \in Int /\ d[<<n, k>>] = e[k]
    BY <1>1, <1>3
  <1>6. SumFunctionOnSet(d, N) = SumFunctionOnSet(e, L)
    <2> HIDE DEF d
    <2> QED
      BY <1>1, <1>5, SumOfPairs
  <1> HIDE DEF N, d
  <1>7. IsFiniteSet(R) /\ IsFiniteSet(N) /\ R \cap N = {} /\ R \cup N = I
    BY <1>1, FS_Subset
  <1>8. SumFunctionOnSet(g, N) = SumFunctionOnSet(f, N) + SumFunctionOnSet(d, N)
    BY <1>4, <1>7, SumPlus
  <1>9. /\ \A i \in R : f[i] = g[i] /\ f[i] \in Int
        /\ \A i \in R \cup N : f[i] \in Int
        /\ \A i \in R \cup N : g[i] \in Int
    BY <1>1, <1>4
  <1> HIDE DEF R
  <1>10. SumFunctionOnSet(f, R) = SumFunctionOnSet(g, R)
    BY <1>7, <1>9, SumSame
  <1>11. SumFunctionOnSet(f, R \cup N) = SumFunctionOnSet(f, R) + SumFunctionOnSet(f, N)
    BY <1>7, <1>9, SumUnion
  <1>12. SumFunctionOnSet(g, R \cup N) = SumFunctionOnSet(g, R) + SumFunctionOnSet(g, N)
    BY <1>7, <1>9, SumUnion
  <1>13. /\ SumFunctionOnSet(f, R) \in Int /\ SumFunctionOnSet(f, N) \in Int
         /\ SumFunctionOnSet(d, N) \in Int
    BY <1>4, <1>7, <1>9, SumType
  <1>14. /\ SumFunctionOnSet(f, I) = SumFunctionOnSet(f, R) + SumFunctionOnSet(f, N)
         /\ SumFunctionOnSet(g, I) = SumFunctionOnSet(g, R) + SumFunctionOnSet(g, N)
    BY <1>7, <1>11, <1>12
  <1> DEFINE a == SumFunctionOnSet(f, R)
             b == SumFunctionOnSet(f, N)
             c == SumFunctionOnSet(d, N)
  <1>15. /\ a \in Int /\ b \in Int /\ c \in Int
         /\ SumFunctionOnSet(f, I) = a + b
         /\ SumFunctionOnSet(g, I) = a + (b + c)
         /\ SumFunctionOnSet(e, L) = c
    BY <1>6, <1>8, <1>10, <1>13, <1>14
  <1> HIDE DEF a, b, c
  <1> QED
    BY <1>15
=============================================================================
