------------------------------ MODULE SumLemmas ------------------------------
(***************************************************************************)
(* Induction over sets, stated with sets of numbers and sets of subsets in *)
(* place of predicates, and with it what sums over finite sets are: that   *)
(* the recursion behind SumFunctionOnSet defines a function, that elements *)
(* can be taken out in any order, and what a change of one or two summands *)
(* does to the sum.  Last, a budget that what is done and what is left to  *)
(* do share.                                                               *)
(***************************************************************************)
EXTENDS FiniteSetTheorems, TLAPS

\* A set of numbers that holds 0 and, with each of its members, the next one,
\* holds every natural number.
LEMMA NatSetInduction ==
    ASSUME NEW P, 0 \in P, \A n \in Nat : n \in P => n + 1 \in P
    PROVE  \A n \in Nat : n \in P
<1> SUFFICES ASSUME NEW k \in Nat, k \notin P PROVE FALSE
  OBVIOUS
<1> DEFINE Missing == {n \in Nat : n \notin P}
           Less == OpToRel(<, Nat)
<1>1. Missing \subseteq Nat /\ Missing # {}
  OBVIOUS
<1>2. IsWellFoundedOn(Less, Nat)
  BY NatLessThanWellFounded
<1>3. \E n \in Missing : \A m \in Missing : ~ (<<m, n>> \in Less)
  <2> HIDE DEF Missing, Less
  <2>1. QED BY <1>1, <1>2, WFMin
<1>4. PICK n \in Missing : \A m \in Missing : ~ (<<m, n>> \in Less)
  BY <1>3
<1>5. n - 1 \in Nat /\ n - 1 < n /\ (n - 1) + 1 = n
  <2>1. n \in Nat /\ n # 0
    BY <1>4
  <2> HIDE DEF Missing
  <2>2. QED BY <2>1
<1>6. n - 1 \in Missing
  BY <1>4, <1>5
<1>7. <<n - 1, n>> \in Less
  BY <1>4, <1>5 DEF OpToRel
<1>8. QED BY <1>4, <1>6, <1>7

\* A set of subsets that holds the empty set, and each set that it holds
\* whenever it holds all that lack one element of it, holds every subset.
LEMMA SetInduction ==
    ASSUME NEW S, IsFiniteSet(S), NEW F, {} \in F,
           \A T \in SUBSET S : T # {} /\ (\A x \in T : T \ {x} \in F) => T \in F
    PROVE  \A T \in SUBSET S : T \in F
<1> SUFFICES ASSUME NEW U \in SUBSET S, U \notin F PROVE FALSE
  OBVIOUS
<1> DEFINE Missing == {T \in SUBSET S : T \notin F}
<1>1. Missing \subseteq SUBSET S /\ Missing # {}
  OBVIOUS
<1>2. IsWellFoundedOn(StrictSubsetOrdering(S), SUBSET S)
  <2>1. FiniteSubsetsOf(S) = SUBSET S
    BY FS_FiniteSubsetsOfFinite
  <2>2. IsWellFoundedOn(StrictSubsetOrdering(S), FiniteSubsetsOf(S))
    BY FS_StrictSubsetOrderingWellFounded
  <2>3. QED BY <2>1, <2>2
<1>3. \E T \in Missing : \A V \in Missing : ~ (<<V, T>> \in StrictSubsetOrdering(S))
  <2> HIDE DEF Missing
  <2>1. QED BY <1>1, <1>2, WFMin
<1>4. PICK T \in Missing : \A V \in Missing : ~ (<<V, T>> \in StrictSubsetOrdering(S))
  BY <1>3
<1>5. PICK x \in T : T \ {x} \notin F
  BY <1>4
<1>6. T \ {x} \in Missing
  BY <1>4, <1>5
<1>7. <<T \ {x}, T>> \in StrictSubsetOrdering(S)
  BY <1>4, <1>5 DEF StrictSubsetOrdering
<1>8. QED BY <1>4, <1>6, <1>7

\* A set of natural numbers that is not empty has a least element.
LEMMA LeastExists ==
    ASSUME NEW S, S \subseteq Nat, S # {}
    PROVE  \E n \in S : \A m \in S : n <= m
<1> DEFINE Less == OpToRel(<, Nat)
<1>1. PICK n \in S : \A m \in S : ~ (<<m, n>> \in Less)
  <2>1. IsWellFoundedOn(Less, Nat)
    BY NatLessThanWellFounded
  <2> HIDE DEF Less
  <2>2. QED BY <2>1, WFMin
<1>2. ASSUME NEW m \in S PROVE n <= m
  <2>1. ~ (<<m, n>> \in Less)
    BY <1>1
  <2>2. n \in Nat /\ m \in Nat
    OBVIOUS
  <2>3. ~ (m < n)
    BY <2>1, <2>2 DEF OpToRel
  <2>4. QED BY <2>2, <2>3
<1>3. QED BY <1>2

-----------------------------------------------------------------------------
\* The element SumFunctionOnSet takes out of a set, and the equation it solves.
Chosen(s) == CHOOSE x \in s : TRUE
Sums(f, g, S) ==
    g = [s \in SUBSET S |-> IF s = {} THEN 0 ELSE f[Chosen(s)] + g[s \ {Chosen(s)}]]

LEMMA ChosenIn == \A s : s # {} => Chosen(s) \in s
BY DEF Chosen

\* Two solutions agree where both are defined.
LEMMA SumsAgree ==
    ASSUME NEW S, IsFiniteSet(S), NEW T \in SUBSET S, NEW U \in SUBSET S, NEW f, NEW g, NEW h,
           Sums(f, g, T), Sums(f, h, U)
    PROVE  \A s \in SUBSET (T \cap U) : g[s] = h[s]
<1> DEFINE F == {s \in SUBSET S : s \subseteq T \cap U => g[s] = h[s]}
<1>1. {} \in F
  BY DEF Sums
<1>2. ASSUME NEW s \in SUBSET S, s # {}, \A x \in s : s \ {x} \in F
      PROVE  s \in F
  <2>1. CASE s \subseteq T \cap U
    <3>1. Chosen(s) \in s
      BY <1>2, ChosenIn
    <3>2. g[s \ {Chosen(s)}] = h[s \ {Chosen(s)}]
      BY <1>2, <2>1, <3>1
    <3>3. g[s] = f[Chosen(s)] + g[s \ {Chosen(s)}]
      BY <1>2, <2>1 DEF Sums
    <3>4. h[s] = f[Chosen(s)] + h[s \ {Chosen(s)}]
      BY <1>2, <2>1 DEF Sums
    <3>5. QED BY <3>2, <3>3, <3>4
  <2>2. QED BY <2>1
<1>3. \A s \in SUBSET S : s \in F
  <2> HIDE DEF F
  <2>1. QED BY <1>1, <1>2, SetInduction
<1>4. QED BY <1>3

\* There is a solution.
LEMMA SumsExist ==
    ASSUME NEW S, IsFiniteSet(S), NEW f
    PROVE  \A T \in SUBSET S : \E g : Sums(f, g, T)
<1> DEFINE F == {T \in SUBSET S : \A U \in SUBSET T : \E g : Sums(f, g, U)}
<1>1. {} \in F
  <2>1. Sums(f, [s \in SUBSET {} |-> 0], {})
    BY DEF Sums
  <2>2. \A U \in SUBSET {} : U = {}
    OBVIOUS
  <2>3. QED BY <2>1, <2>2
<1>2. ASSUME NEW T \in SUBSET S, T # {}, \A x \in T : T \ {x} \in F
      PROVE  T \in F
  <2> DEFINE Of(s) == CHOOSE g : Sums(f, g, s)
             c == Chosen(T)
             g == [s \in SUBSET T |-> IF s = T THEN f[c] + Of(T \ {c})[T \ {c}] ELSE Of(s)[s]]
  <2>1. c \in T
    BY <1>2, ChosenIn
  <2>2. \A s \in SUBSET T : s # T => \E h : Sums(f, h, s)
    <3>1. SUFFICES ASSUME NEW s \in SUBSET T, s # T PROVE \E h : Sums(f, h, s)
      OBVIOUS
    <3>2. PICK x \in T : s \subseteq T \ {x}
      BY <3>1
    <3>3. QED BY <1>2, <3>2
  <2>3. \A s \in SUBSET T : s # T => Sums(f, Of(s), s)
    BY <2>2
  <2>4. \A s \in SUBSET T : g[s] = IF s = {} THEN 0 ELSE f[Chosen(s)] + g[s \ {Chosen(s)}]
    <3>1. SUFFICES ASSUME NEW s \in SUBSET T
                   PROVE  g[s] = IF s = {} THEN 0 ELSE f[Chosen(s)] + g[s \ {Chosen(s)}]
      OBVIOUS
    <3>2. CASE s = T
      BY <1>2, <2>1, <3>2
    <3>3. CASE s # T /\ s = {}
      <4>1. Sums(f, Of(s), s) /\ g[s] = Of(s)[s]
        BY <2>3, <3>3
      <4>2. Of(s)[s] = 0
        <5> HIDE DEF Of
        <5>1. QED BY <3>3, <4>1 DEF Sums
      <4>3. QED BY <3>3, <4>1, <4>2
    <3>4. CASE s # T /\ s # {}
      <4> DEFINE r == s \ {Chosen(s)}
      <4>1. Chosen(s) \in s /\ r \in SUBSET T /\ r # T /\ r \subseteq s
        BY <3>4, ChosenIn
      <4>2. Sums(f, Of(s), s) /\ Sums(f, Of(r), r)
        BY <2>3, <3>4, <4>1
      <4>3. g[s] = Of(s)[s] /\ g[r] = Of(r)[r]
        BY <3>4, <4>1
      <4>4. Of(s)[r] = Of(r)[r]
        <5> HIDE DEF Of, r
        <5>1. s \in SUBSET S /\ r \in SUBSET S /\ r \in SUBSET (s \cap r)
          BY <4>1
        <5>2. QED BY <4>2, <5>1, SumsAgree
      <4>5. Of(s)[s] = f[Chosen(s)] + Of(s)[r]
        <5> HIDE DEF Of
        <5>1. QED BY <3>4, <4>2 DEF Sums
      <4>6. QED BY <3>4, <4>3, <4>4, <4>5
    <3>5. QED BY <3>2, <3>3, <3>4
  <2>5. Sums(f, g, T)
    <3> DEFINE e(s) == IF s = {} THEN 0 ELSE f[Chosen(s)] + g[s \ {Chosen(s)}]
               h == [s \in SUBSET T |-> e(s)]
    <3>1. \A s \in SUBSET T : g[s] = e(s)
      BY <2>4
    <3>2. g = h
      <4>1. g = [s \in SUBSET T |-> g[s]]
        OBVIOUS
      <4> HIDE DEF g, e
      <4>2. QED BY <3>1, <4>1
    <3>3. QED BY <3>2 DEF Sums
  <2>6. \E h : Sums(f, h, T)
    <3> HIDE DEF g
    <3>1. QED BY <2>5
  <2>7. QED BY <2>2, <2>6
<1>3. \A T \in SUBSET S : T \in F
  <2> HIDE DEF F
  <2>1. QED BY <1>1, <1>2, SetInduction
<1>4. QED BY <1>3

\* So SumFunctionOnSet is a solution, at the whole set.
LEMMA SumIsSolution ==
    ASSUME NEW S, IsFiniteSet(S), NEW f
    PROVE  \E g : Sums(f, g, S) /\ SumFunctionOnSet(f, S) = g[S]
<1> DEFINE g == CHOOSE h : Sums(f, h, S)
<1>1. Sums(f, g, S)
  BY SumsExist
<1>2. SumFunctionOnSet(f, S) = g[S]
  BY DEF SumFunctionOnSet, FoldFunctionOnSet, MapThenFoldSet, Sums, Chosen
<1>3. QED BY <1>1, <1>2

\* The empty sum, and a sum with one summand taken out: the one that is chosen
\* first, and then any.
LEMMA SumEmpty == \A f : SumFunctionOnSet(f, {}) = 0
<1> SUFFICES ASSUME NEW f PROVE SumFunctionOnSet(f, {}) = 0
  OBVIOUS
<1>1. PICK g : Sums(f, g, {}) /\ SumFunctionOnSet(f, {}) = g[{}]
  BY SumIsSolution, FS_EmptySet
<1>2. QED BY <1>1 DEF Sums

LEMMA SumChosen ==
    ASSUME NEW S, IsFiniteSet(S), S # {}, NEW f
    PROVE  SumFunctionOnSet(f, S) = f[Chosen(S)] + SumFunctionOnSet(f, S \ {Chosen(S)})
<1> DEFINE r == S \ {Chosen(S)}
<1>1. IsFiniteSet(r) /\ r \in SUBSET S /\ r \in SUBSET (S \cap r)
  BY FS_RemoveElement
<1>2. PICK g : Sums(f, g, S) /\ SumFunctionOnSet(f, S) = g[S]
  BY SumIsSolution
<1>3. PICK h : Sums(f, h, r) /\ SumFunctionOnSet(f, r) = h[r]
  BY <1>1, SumIsSolution
<1>4. g[r] = h[r]
  <2> HIDE DEF r
  <2>1. QED BY <1>1, <1>2, <1>3, SumsAgree
<1>5. g[S] = f[Chosen(S)] + g[r]
  BY <1>2 DEF Sums
<1>6. QED BY <1>2, <1>3, <1>4, <1>5

\* A sum of integers is an integer, of naturals a natural.
LEMMA SumInt ==
    ASSUME NEW S, IsFiniteSet(S), NEW f, \A x \in S : f[x] \in Int
    PROVE  \A T \in SUBSET S : SumFunctionOnSet(f, T) \in Int
<1> DEFINE F == {T \in SUBSET S : SumFunctionOnSet(f, T) \in Int}
<1>1. {} \in F
  BY SumEmpty
<1>2. ASSUME NEW T \in SUBSET S, T # {}, \A x \in T : T \ {x} \in F
      PROVE  T \in F
  <2>1. Chosen(T) \in T /\ IsFiniteSet(T)
    BY <1>2, ChosenIn, FS_Subset
  <2>2. SumFunctionOnSet(f, T) = f[Chosen(T)] + SumFunctionOnSet(f, T \ {Chosen(T)})
    BY <1>2, <2>1, SumChosen
  <2>3. SumFunctionOnSet(f, T \ {Chosen(T)}) \in Int /\ f[Chosen(T)] \in Int
    BY <1>2, <2>1
  <2>4. QED BY <2>2, <2>3
<1>3. \A T \in SUBSET S : T \in F
  <2> HIDE DEF F
  <2>1. QED BY <1>1, <1>2, SetInduction
<1>4. QED BY <1>3

LEMMA SumRemove ==
    ASSUME NEW S, IsFiniteSet(S), NEW f, \A x \in S : f[x] \in Int
    PROVE  \A T \in SUBSET S : \A x \in T :
               SumFunctionOnSet(f, T) = f[x] + SumFunctionOnSet(f, T \ {x})
<1> DEFINE F == {T \in SUBSET S : \A x \in T :
                    SumFunctionOnSet(f, T) = f[x] + SumFunctionOnSet(f, T \ {x})}
<1>1. {} \in F
  OBVIOUS
<1>2. ASSUME NEW T \in SUBSET S, T # {}, \A x \in T : T \ {x} \in F
      PROVE  T \in F
  <2> DEFINE c == Chosen(T)
  <2>1. c \in T /\ IsFiniteSet(T)
    BY <1>2, ChosenIn, FS_Subset
  <2>2. SumFunctionOnSet(f, T) = f[c] + SumFunctionOnSet(f, T \ {c})
    BY <1>2, <2>1, SumChosen
  <2>3. SUFFICES ASSUME NEW x \in T, x # c
                 PROVE  SumFunctionOnSet(f, T) = f[x] + SumFunctionOnSet(f, T \ {x})
    BY <2>2
  <2> HIDE DEF c
  <2>4. SumFunctionOnSet(f, T \ {c}) = f[x] + SumFunctionOnSet(f, (T \ {c}) \ {x})
    BY <1>2, <2>1, <2>3
  <2>5. SumFunctionOnSet(f, T \ {x}) = f[c] + SumFunctionOnSet(f, (T \ {x}) \ {c})
    BY <1>2, <2>1, <2>3
  <2>6. (T \ {c}) \ {x} = (T \ {x}) \ {c}
    OBVIOUS
  <2>7. f[c] \in Int /\ f[x] \in Int /\ SumFunctionOnSet(f, (T \ {c}) \ {x}) \in Int
    BY <2>1, <2>3, SumInt
  <2> DEFINE rest == SumFunctionOnSet(f, (T \ {c}) \ {x})
  <2>8. /\ SumFunctionOnSet(f, T) = f[c] + (f[x] + rest)
        /\ SumFunctionOnSet(f, T \ {x}) = f[c] + rest
    BY <2>2, <2>4, <2>5, <2>6
  <2> HIDE DEF rest
  <2>9. rest \in Int
    BY <2>7 DEF rest
  <2>10. QED BY <2>7, <2>8, <2>9
<1>3. \A T \in SUBSET S : T \in F
  <2> HIDE DEF F
  <2>1. QED BY <1>1, <1>2, SetInduction
<1>4. QED BY <1>3

\* Two functions that agree on a set have the same sum over it.
LEMMA SumSame ==
    ASSUME NEW S, IsFiniteSet(S), NEW f, NEW g, \A x \in S : f[x] = g[x]
    PROVE  \A T \in SUBSET S : SumFunctionOnSet(f, T) = SumFunctionOnSet(g, T)
<1> DEFINE F == {T \in SUBSET S : SumFunctionOnSet(f, T) = SumFunctionOnSet(g, T)}
<1>1. {} \in F
  BY SumEmpty
<1>2. ASSUME NEW T \in SUBSET S, T # {}, \A x \in T : T \ {x} \in F
      PROVE  T \in F
  <2>1. Chosen(T) \in T /\ IsFiniteSet(T)
    BY <1>2, ChosenIn, FS_Subset
  <2>2. /\ SumFunctionOnSet(f, T) = f[Chosen(T)] + SumFunctionOnSet(f, T \ {Chosen(T)})
        /\ SumFunctionOnSet(g, T) = g[Chosen(T)] + SumFunctionOnSet(g, T \ {Chosen(T)})
    BY <1>2, <2>1, SumChosen
  <2>3. SumFunctionOnSet(f, T \ {Chosen(T)}) = SumFunctionOnSet(g, T \ {Chosen(T)})
    BY <1>2, <2>1
  <2>4. QED BY <2>1, <2>2, <2>3
<1>3. \A T \in SUBSET S : T \in F
  <2> HIDE DEF F
  <2>1. QED BY <1>1, <1>2, SetInduction
<1>4. QED BY <1>3

\* A change of one summand changes the sum by as much.
LEMMA SumChange ==
    ASSUME NEW S, IsFiniteSet(S), NEW f, NEW g, NEW x \in S,
           \A y \in S : f[y] \in Int /\ g[y] \in Int,
           \A y \in S \ {x} : g[y] = f[y]
    PROVE  /\ SumFunctionOnSet(f, S) \in Int
           /\ SumFunctionOnSet(g, S) = SumFunctionOnSet(f, S) + (g[x] - f[x])
<1> DEFINE r == S \ {x}
<1>1. IsFiniteSet(r) /\ S \in SUBSET S /\ r \in SUBSET S
  BY FS_RemoveElement
<1>2. SumFunctionOnSet(f, S) = f[x] + SumFunctionOnSet(f, r)
  BY <1>1, SumRemove
<1>3. SumFunctionOnSet(g, S) = g[x] + SumFunctionOnSet(g, r)
  BY <1>1, SumRemove
<1>4. SumFunctionOnSet(g, r) = SumFunctionOnSet(f, r)
  <2>1. \A y \in r : g[y] = f[y]
    OBVIOUS
  <2> HIDE DEF r
  <2>2. QED BY <1>1, <2>1, SumSame
<1>5. SumFunctionOnSet(f, r) \in Int /\ f[x] \in Int /\ g[x] \in Int
  <2>1. \A T \in SUBSET S : SumFunctionOnSet(f, T) \in Int
    BY SumInt
  <2>2. QED BY <1>1, <2>1
<1> HIDE DEF r
<1> DEFINE a == SumFunctionOnSet(f, r)
<1>6. SumFunctionOnSet(f, S) = f[x] + a /\ SumFunctionOnSet(g, S) = g[x] + a /\ a \in Int
  BY <1>2, <1>3, <1>4, <1>5
<1> HIDE DEF a
<1>7. QED BY <1>5, <1>6

\* A sum over one element more, and over one element.
LEMMA SumAdd ==
    ASSUME NEW S, IsFiniteSet(S), NEW x, x \notin S, NEW f,
           \A y \in S \cup {x} : f[y] \in Int
    PROVE  /\ SumFunctionOnSet(f, S) \in Int
           /\ SumFunctionOnSet(f, S \cup {x}) = SumFunctionOnSet(f, S) + f[x]
<1> DEFINE T == S \cup {x}
<1>1. IsFiniteSet(T) /\ T \ {x} = S /\ T \in SUBSET T /\ S \in SUBSET T /\ x \in T
  BY FS_AddElement
<1>2. SumFunctionOnSet(f, T) = f[x] + SumFunctionOnSet(f, T \ {x})
  <2>1. \A y \in T : f[y] \in Int
    OBVIOUS
  <2> HIDE DEF T
  <2>2. QED BY <1>1, <2>1, SumRemove
<1>3. SumFunctionOnSet(f, S) \in Int /\ f[x] \in Int
  <2>1. \A y \in T : f[y] \in Int
    OBVIOUS
  <2> HIDE DEF T
  <2>2. QED BY <1>1, <2>1, SumInt
<1> DEFINE a == SumFunctionOnSet(f, S)
<1>4. SumFunctionOnSet(f, S \cup {x}) = f[x] + a /\ a \in Int /\ f[x] \in Int
  BY <1>1, <1>2, <1>3
<1> HIDE DEF a
<1>5. f[x] + a = a + f[x]
  BY <1>4
<1>6. QED BY <1>4, <1>5 DEF a

\* Summands that are nothing add up to nothing, and summands of at most b to at
\* most b for each.
LEMMA SumZero ==
    ASSUME NEW S, IsFiniteSet(S), NEW f, \A x \in S : f[x] = 0
    PROVE  SumFunctionOnSet(f, S) = 0
<1> DEFINE F == {T \in SUBSET S : SumFunctionOnSet(f, T) = 0}
<1>1. {} \in F
  BY SumEmpty
<1>2. ASSUME NEW T \in SUBSET S, T # {}, \A x \in T : T \ {x} \in F
      PROVE  T \in F
  <2>1. Chosen(T) \in T /\ IsFiniteSet(T)
    BY <1>2, ChosenIn, FS_Subset
  <2>2. SumFunctionOnSet(f, T) = f[Chosen(T)] + SumFunctionOnSet(f, T \ {Chosen(T)})
    BY <1>2, <2>1, SumChosen
  <2>3. SumFunctionOnSet(f, T \ {Chosen(T)}) = 0 /\ f[Chosen(T)] = 0
    BY <1>2, <2>1
  <2>4. QED BY <2>2, <2>3
<1>3. \A T \in SUBSET S : T \in F
  <2> HIDE DEF F
  <2>1. QED BY <1>1, <1>2, SetInduction
<1>4. QED BY <1>3

LEMMA SumNat ==
    ASSUME NEW S, IsFiniteSet(S), NEW f, \A x \in S : f[x] \in Nat
    PROVE  \A T \in SUBSET S : SumFunctionOnSet(f, T) \in Nat
<1> DEFINE F == {T \in SUBSET S : SumFunctionOnSet(f, T) \in Nat}
<1>1. {} \in F
  BY SumEmpty
<1>2. ASSUME NEW T \in SUBSET S, T # {}, \A x \in T : T \ {x} \in F
      PROVE  T \in F
  <2>1. Chosen(T) \in T /\ IsFiniteSet(T)
    BY <1>2, ChosenIn, FS_Subset
  <2>2. SumFunctionOnSet(f, T) = f[Chosen(T)] + SumFunctionOnSet(f, T \ {Chosen(T)})
    BY <1>2, <2>1, SumChosen
  <2>3. SumFunctionOnSet(f, T \ {Chosen(T)}) \in Nat /\ f[Chosen(T)] \in Nat
    BY <1>2, <2>1
  <2>4. QED BY <2>2, <2>3
<1>3. \A T \in SUBSET S : T \in F
  <2> HIDE DEF F
  <2>1. QED BY <1>1, <1>2, SetInduction
<1>4. QED BY <1>3

LEMMA SumBounded ==
    ASSUME NEW S, IsFiniteSet(S), NEW b \in Nat, NEW f,
           \A x \in S : f[x] \in Int /\ f[x] <= b
    PROVE  \A T \in SUBSET S : SumFunctionOnSet(f, T) <= Cardinality(T) * b
<1> DEFINE F == {T \in SUBSET S : SumFunctionOnSet(f, T) <= Cardinality(T) * b}
<1>1. {} \in F
  <2>1. 0 <= 0 * b
    OBVIOUS
  <2>2. QED BY <2>1, SumEmpty, FS_EmptySet
<1>2. ASSUME NEW T \in SUBSET S, T # {}, \A x \in T : T \ {x} \in F
      PROVE  T \in F
  <2> DEFINE r == T \ {Chosen(T)}
             a == SumFunctionOnSet(f, r)
             n == Cardinality(r)
  <2>1. Chosen(T) \in T /\ IsFiniteSet(T) /\ r \in SUBSET S
    BY <1>2, ChosenIn, FS_Subset
  <2>2. SumFunctionOnSet(f, T) = f[Chosen(T)] + a
    BY <1>2, <2>1, SumChosen
  <2>3. a <= n * b /\ f[Chosen(T)] \in Int /\ f[Chosen(T)] <= b
    BY <1>2, <2>1
  <2>4. a \in Int
    BY <2>1, SumInt
  <2>5. n \in Nat /\ Cardinality(T) = n + 1
    <3>1. IsFiniteSet(r) /\ n = Cardinality(T) - 1
      BY <2>1, FS_RemoveElement
    <3>2. n \in Nat /\ Cardinality(T) \in Nat
      BY <2>1, <3>1, FS_CardinalityType
    <3> HIDE DEF n
    <3>3. QED BY <3>1, <3>2
  <2> HIDE DEF a, n
  <2>6. (n + 1) * b = n * b + b /\ n * b \in Int
    BY <2>5
  <2>7. QED BY <2>2, <2>3, <2>4, <2>5, <2>6
<1>3. \A T \in SUBSET S : T \in F
  <2> HIDE DEF F
  <2>1. QED BY <1>1, <1>2, SetInduction
<1>4. QED BY <1>3

\* A finite set of numbers that is not empty has a largest element.
LEMMA LargestExists ==
    ASSUME NEW S, IsFiniteSet(S), S # {}, \A x \in S : x \in Int
    PROVE  \E x \in S : \A y \in S : x >= y
<1> DEFINE F == {T \in SUBSET S : T # {} => \E x \in T : \A y \in T : x >= y}
<1>1. {} \in F
  OBVIOUS
<1>2. ASSUME NEW T \in SUBSET S, T # {}, \A x \in T : T \ {x} \in F
      PROVE  T \in F
  <2>1. PICK x \in T : TRUE
    BY <1>2
  <2>2. CASE T \ {x} = {}
    <3>1. \A y \in T : y = x
      BY <2>1, <2>2
    <3>2. QED BY <2>1, <3>1
  <2>3. CASE T \ {x} # {}
    <3>1. PICK z \in T \ {x} : \A y \in T \ {x} : z >= y
      BY <1>2, <2>1, <2>3
    <3>2. CASE x >= z
      <4>1. \A y \in T : x >= y
        BY <2>1, <3>1, <3>2
      <4>2. QED BY <2>1, <4>1
    <3>3. CASE ~(x >= z)
      <4>1. \A y \in T : z >= y
        BY <2>1, <3>1, <3>3
      <4>2. QED BY <3>1, <4>1
    <3>4. QED BY <3>2, <3>3
  <2>4. QED BY <2>2, <2>3
<1>3. \A T \in SUBSET S : T \in F
  <2> HIDE DEF F
  <2>1. QED BY <1>1, <1>2, SetInduction
<1>4. QED BY <1>3

\* x of the members of S are done with, T are left, within a budget of b.
LEMMA FewerLeft ==
    ASSUME NEW U, IsFiniteSet(U), NEW S \in SUBSET U, NEW T \in SUBSET S,
           NEW x \in Nat, NEW y \in Nat, NEW b \in Nat, x + Cardinality(S) <= b,
           y = x \/ (y = x + 1 /\ \E r \in S : r \notin T)
    PROVE  y + Cardinality(T) <= b
<1>1. IsFiniteSet(S) /\ Cardinality(S) \in Nat
  BY FS_Subset, FS_CardinalityType
<1>2. IsFiniteSet(T) /\ Cardinality(T) \in Nat /\ Cardinality(T) <= Cardinality(S)
  BY <1>1, FS_Subset, FS_CardinalityType
<1>3. CASE y = x
  BY <1>1, <1>2, <1>3
<1>4. CASE y = x + 1 /\ \E r \in S : r \notin T
  <2>1. PICK r \in S : r \notin T
    BY <1>4
  <2>2. T \in SUBSET (S \ {r})
    BY <2>1
  <2>3. IsFiniteSet(S \ {r}) /\ Cardinality(S \ {r}) = Cardinality(S) - 1
    BY <1>1, <2>1, FS_RemoveElement
  <2>4. Cardinality(T) <= Cardinality(S) - 1
    BY <2>2, <2>3, FS_Subset
  <2>5. QED BY <1>1, <1>2, <1>4, <2>4
<1>5. QED BY <1>3, <1>4

\* One more may join them when the budget grows by one.
LEMMA OneMoreLeft ==
    ASSUME NEW U, IsFiniteSet(U), NEW r \in U, NEW S \in SUBSET U, NEW T \in SUBSET (S \cup {r}),
           NEW x \in Nat, NEW b \in Nat, x + Cardinality(S) <= b
    PROVE  x + Cardinality(T) <= b + 1
<1>1. IsFiniteSet(S) /\ Cardinality(S) \in Nat
  BY FS_Subset, FS_CardinalityType
<1>2. /\ IsFiniteSet(S \cup {r})
      /\ \/ Cardinality(S \cup {r}) = Cardinality(S) + 1
         \/ Cardinality(S \cup {r}) = Cardinality(S)
  BY <1>1, FS_AddElement
<1>3. Cardinality(T) \in Nat /\ Cardinality(T) <= Cardinality(S \cup {r})
  BY <1>2, FS_Subset, FS_CardinalityType
<1>4. QED BY <1>1, <1>2, <1>3
=============================================================================
