----------------------------- MODULE SumTheorems -----------------------------
(***************************************************************************)
(* Facts about SumFunctionOnSet, the sum of a function over a finite set,  *)
(* for the proofs about what the heap table promises.  The sum is defined  *)
(* by recursion on an element CHOOSE picks; that it is well defined, and   *)
(* that the choice does not matter, is proved by induction on finite sets. *)
(***************************************************************************)
EXTENDS Integers, Functions, FiniteSetTheorems, WellFoundedInduction, TLAPS

\* Induction over the subsets of a finite set, with a set in the place of a
\* predicate: a set that holds every T that it holds all of T \ {x}, holds S.
LEMMA FiniteInduction ==
    ASSUME NEW S, IsFiniteSet(S), NEW Good,
           \A T \in SUBSET S : (\A x \in T : T \ {x} \in Good) => T \in Good
    PROVE  S \in Good
<1> DEFINE Bad == {T \in SUBSET S : T \notin Good}
           R == StrictSubsetOrdering(S)
<1>1. SUFFICES ASSUME S \notin Good PROVE FALSE
    OBVIOUS
<1>2. IsWellFoundedOn(R, FiniteSubsetsOf(S))
    BY FS_StrictSubsetOrderingWellFounded
<1>3. Bad \subseteq FiniteSubsetsOf(S) /\ Bad # {}
    BY <1>1, FS_Subset DEF FiniteSubsetsOf
<1>4. PICK T \in Bad : \A U \in Bad : <<U, T>> \notin R
  <2> HIDE DEF Bad, R
  <2> QED
    BY <1>2, <1>3, WFMin
<1>5. ASSUME NEW x \in T PROVE T \ {x} \in Good
  <2>1. T \in SUBSET S /\ T \ {x} \in SUBSET S /\ T \ {x} # T
    BY <1>5
  <2>2. <<T \ {x}, T>> \in R
    BY <2>1 DEF StrictSubsetOrdering
  <2> QED
    BY <1>4, <2>1, <2>2
<1> QED
    BY <1>4, <1>5

-----------------------------------------------------------------------------
\* The element that a sum adds first.
Chosen(s) == CHOOSE x \in s : TRUE

\* The element added first is one of the set.
LEMMA ChosenIn == \A s : s # {} => Chosen(s) \in s
BY DEF Chosen

\* g sums f over every subset of S.
IsSums(g, f, S) ==
    g = [s \in SUBSET S |-> IF s = {} THEN 0 ELSE f[Chosen(s)] + g[s \ {Chosen(s)}]]

\* The library's sum over S is the value at S of such a function.
LEMMA SumIsOfSums == \A f, S : SumFunctionOnSet(f, S) = (CHOOSE g : IsSums(g, f, S))[S]
BY DEF SumFunctionOnSet, FoldFunctionOnSet, MapThenFoldSet, IsSums, Chosen

\* Its value at a subset, unfolded once.
LEMMA SumsUnfold ==
    ASSUME NEW g, NEW f, NEW S, IsSums(g, f, S), NEW U \in SUBSET S
    PROVE  g[U] = IF U = {} THEN 0 ELSE f[Chosen(U)] + g[U \ {Chosen(U)}]
BY DEF IsSums

\* Two such functions agree where both are defined.
LEMMA SumsAgree ==
    ASSUME NEW f, NEW S, NEW T, IsFiniteSet(T), T \subseteq S, NEW g, NEW h, IsSums(g, f, S), IsSums(h, f, T)
    PROVE  h[T] = g[T]
<1> DEFINE Good == {U \in SUBSET T : h[U] = g[U]}
<1>1. ASSUME NEW U \in SUBSET T, \A x \in U : U \ {x} \in Good PROVE U \in Good
  <2>1. /\ h[U] = IF U = {} THEN 0 ELSE f[Chosen(U)] + h[U \ {Chosen(U)}]
        /\ g[U] = IF U = {} THEN 0 ELSE f[Chosen(U)] + g[U \ {Chosen(U)}]
      BY DEF IsSums
  <2> QED
      BY <1>1, <2>1, ChosenIn
<1> HIDE DEF Good
<1>2. T \in Good
    BY <1>1, FiniteInduction
<1> QED
    BY <1>2 DEF Good

\* There is such a function, for every finite S.
LEMMA SumsExist ==
    ASSUME NEW f, NEW S, IsFiniteSet(S)
    PROVE  \E g : IsSums(g, f, S)
<1> DEFINE Good == {T \in SUBSET S : \A U \in SUBSET T : \E g : IsSums(g, f, U)}
           Of(T) == CHOOSE g : IsSums(g, f, T)
<1>1. ASSUME NEW T \in SUBSET S, \A x \in T : T \ {x} \in Good PROVE T \in Good
  <2> DEFINE Less(s) == s \ {Chosen(s)}
             Value(s) == IF s = {} THEN 0 ELSE f[Chosen(s)] + Of(Less(s))[Less(s)]
             g == [s \in SUBSET T |-> Value(s)]
  <2>1. ASSUME NEW U \in SUBSET T, U # T PROVE IsFiniteSet(U) /\ IsSums(Of(U), f, U)
    <3>1. PICK x \in T : x \notin U
      BY <2>1
    <3>2. U \subseteq T \ {x} /\ T \ {x} \in Good
      BY <1>1, <3>1
    <3>3. \E h : IsSums(h, f, U)
      BY <3>2
    <3> QED
      BY <3>3, FS_Subset
  <2>2. ASSUME NEW U \in SUBSET T, U # T PROVE Of(U)[U] = Value(U)
    <3>1. Of(U)[U] = IF U = {} THEN 0 ELSE f[Chosen(U)] + Of(U)[Less(U)]
      <4>1. IsSums(Of(U), f, U) /\ U \in SUBSET U
        BY <2>1, <2>2
      <4> HIDE DEF Of
      <4> QED
        BY <4>1, SumsUnfold
    <3>2. U # {} => Of(U)[Less(U)] = Of(Less(U))[Less(U)]
      <4>1. ASSUME U # {} PROVE Less(U) \in SUBSET T /\ Less(U) # T /\ Less(U) \subseteq U
        BY <2>2, <4>1, ChosenIn
      <4> HIDE DEF Of, Less
      <4> QED
        BY <2>1, <2>2, <4>1, SumsAgree
    <3> QED
      BY <3>1, <3>2
  <2>3. ASSUME NEW s \in SUBSET T, s # {} PROVE g[Less(s)] = Of(Less(s))[Less(s)]
    <3>1. Less(s) \in SUBSET T /\ Less(s) # T
      BY <2>3, ChosenIn
    <3> HIDE DEF Of, Less, Value
    <3> QED
      BY <2>2, <3>1
  <2>4. IsSums(g, f, T)
    <3>1. g = [s \in SUBSET T |-> IF s = {} THEN 0 ELSE f[Chosen(s)] + g[s \ {Chosen(s)}]]
      <4>1. \A s \in SUBSET T : Value(s) = IF s = {} THEN 0 ELSE f[Chosen(s)] + g[Less(s)]
        <5> HIDE DEF g, Of, Less
        <5> QED
          BY <2>3
      <4> HIDE DEF Value
      <4> QED
        BY <4>1
    <3> HIDE DEF g
    <3> QED
      BY <3>1 DEF IsSums
  <2>5. ASSUME NEW U \in SUBSET T PROVE \E h : IsSums(h, f, U)
    <3>1. CASE U = T
      BY <2>4, <3>1
    <3>2. CASE U # T
      BY <2>1, <3>2
    <3> QED
      BY <3>1, <3>2
  <2> QED
    BY <2>5
<1> HIDE DEF Good
<1>2. S \in Good
    BY <1>1, FiniteInduction
<1> QED
    BY <1>2 DEF Good

-----------------------------------------------------------------------------
(* Sums over a finite set                                                  *)

\* The empty sum.
LEMMA TotalEmpty == \A f : SumFunctionOnSet(f, {}) = 0
<1> SUFFICES ASSUME NEW f PROVE SumFunctionOnSet(f, {}) = 0
    OBVIOUS
<1> DEFINE g == CHOOSE g : IsSums(g, f, {})
<1>1. IsSums(g, f, {})
    BY SumsExist, FS_EmptySet
<1>2. g[{}] = 0
  <2> HIDE DEF g
  <2> QED
    BY <1>1 DEF IsSums
<1> QED
    BY <1>2, SumIsOfSums

\* A sum is what it adds first and the sum of the rest.
LEMMA TotalChosen ==
    ASSUME NEW f, NEW S, IsFiniteSet(S), S # {}
    PROVE  SumFunctionOnSet(f, S) = f[Chosen(S)] + SumFunctionOnSet(f, S \ {Chosen(S)})
<1> DEFINE T == S \ {Chosen(S)}
           g == CHOOSE g : IsSums(g, f, S)
           h == CHOOSE h : IsSums(h, f, T)
<1>1. IsFiniteSet(T) /\ T \subseteq S
    BY FS_Subset
<1>2. IsSums(g, f, S)
    BY SumsExist
<1>3. IsSums(h, f, T)
  <2> HIDE DEF T
  <2> QED
    BY <1>1, SumsExist
<1>4. h[T] = g[T]
  <2> HIDE DEF g, h, T
  <2> QED
    BY <1>1, <1>2, <1>3, SumsAgree
<1>5. g[S] = f[Chosen(S)] + g[T]
  <2> HIDE DEF g
  <2> QED
    BY <1>2 DEF IsSums
<1> QED
  <2>1. SumFunctionOnSet(f, S) = g[S] /\ SumFunctionOnSet(f, T) = h[T]
    BY SumIsOfSums
  <2> HIDE DEF g, h, T
  <2>2. SumFunctionOnSet(f, S) = f[Chosen(S)] + SumFunctionOnSet(f, T)
    BY <1>4, <1>5, <2>1
  <2> QED
    BY <2>2 DEF T

\* The order in which a sum adds does not matter: any element can be taken out.
LEMMA TotalTakeOut ==
    ASSUME NEW S, IsFiniteSet(S), NEW f, \A x \in S : f[x] \in Int
    PROVE  /\ SumFunctionOnSet(f, S) \in Int
           /\ \A x \in S : SumFunctionOnSet(f, S) = f[x] + SumFunctionOnSet(f, S \ {x})
<1> DEFINE Sum(T) == SumFunctionOnSet(f, T)
           Good == {T \in SUBSET S :
                      Sum(T) \in Int /\ \A x \in T : Sum(T \ {x}) \in Int /\ Sum(T) = f[x] + Sum(T \ {x})}
<1>1. ASSUME NEW T \in SUBSET S, \A x \in T : T \ {x} \in Good PROVE T \in Good
  <2>1. CASE T = {}
    BY <2>1, TotalEmpty
  <2>2. CASE T # {}
    <3> DEFINE c == Chosen(T)
    <3>1. c \in T /\ f[c] \in Int /\ Sum(T) = f[c] + Sum(T \ {c}) /\ Sum(T \ {c}) \in Int
      <4>1. c \in T /\ IsFiniteSet(T)
        BY <2>2, ChosenIn, FS_Subset
      <4> QED
        BY <1>1, <2>2, <4>1, TotalChosen
    <3>2. ASSUME NEW x \in T PROVE Sum(T \ {x}) \in Int /\ Sum(T) = f[x] + Sum(T \ {x})
      <4>1. CASE x = c
        BY <3>1, <4>1
      <4>2. CASE x # c
        <5>1. /\ x \in T \ {c} /\ c \in T \ {x} /\ f[x] \in Int
              /\ (T \ {c}) \ {x} = (T \ {x}) \ {c}
          BY <3>1, <3>2, <4>2
        <5>2. T \ {c} \in Good /\ T \ {x} \in Good
          BY <1>1, <3>1, <3>2
        <5> DEFINE R == Sum((T \ {c}) \ {x})
        <5>3. R \in Int /\ Sum(T \ {c}) = f[x] + R
          BY <5>1, <5>2
        <5>4. Sum(T \ {x}) = f[c] + R /\ Sum(T \ {x}) \in Int
          BY <5>1, <5>2
        <5> HIDE DEF R, Sum, c
        <5> QED
          BY <3>1, <5>1, <5>3, <5>4
      <4> QED
        BY <4>1, <4>2
    <3> QED
      BY <3>1, <3>2
  <2> QED
    BY <2>1, <2>2
<1> HIDE DEF Good
<1>2. S \in Good
    BY <1>1, FiniteInduction
<1> QED
    BY <1>2 DEF Good

\* Sums look only at the elements they add.
LEMMA TotalExtensional ==
    ASSUME NEW S, IsFiniteSet(S), NEW f, NEW g, \A x \in S : f[x] = g[x]
    PROVE  SumFunctionOnSet(f, S) = SumFunctionOnSet(g, S)
<1> DEFINE Good == {T \in SUBSET S : SumFunctionOnSet(f, T) = SumFunctionOnSet(g, T)}
<1>1. ASSUME NEW T \in SUBSET S, \A x \in T : T \ {x} \in Good PROVE T \in Good
  <2>1. CASE T = {}
    BY <2>1, TotalEmpty
  <2>2. CASE T # {}
    <3>1. Chosen(T) \in T /\ IsFiniteSet(T)
      BY <2>2, ChosenIn, FS_Subset
    <3>2. /\ SumFunctionOnSet(f, T) = f[Chosen(T)] + SumFunctionOnSet(f, T \ {Chosen(T)})
          /\ SumFunctionOnSet(g, T) = g[Chosen(T)] + SumFunctionOnSet(g, T \ {Chosen(T)})
      BY <2>2, <3>1, TotalChosen
    <3> QED
      BY <1>1, <3>1, <3>2
  <2> QED
    BY <2>1, <2>2
<1> HIDE DEF Good
<1>2. S \in Good
    BY <1>1, FiniteInduction
<1> QED
    BY <1>2 DEF Good

\* A sum of no less at each element is no less.
LEMMA TotalMonotonic ==
    ASSUME NEW S, IsFiniteSet(S), NEW f, NEW g,
           \A x \in S : f[x] \in Int /\ g[x] \in Int /\ f[x] <= g[x]
    PROVE  SumFunctionOnSet(f, S) <= SumFunctionOnSet(g, S)
<1> DEFINE Good == {T \in SUBSET S : SumFunctionOnSet(f, T) <= SumFunctionOnSet(g, T)}
<1>1. ASSUME NEW T \in SUBSET S, \A x \in T : T \ {x} \in Good PROVE T \in Good
  <2>1. CASE T = {}
    BY <2>1, TotalEmpty
  <2>2. CASE T # {}
    <3>1. PICK x \in T : TRUE
      BY <2>2
    <3>2. IsFiniteSet(T) /\ IsFiniteSet(T \ {x})
      BY FS_Subset
    <3>3. /\ SumFunctionOnSet(f, T) = f[x] + SumFunctionOnSet(f, T \ {x})
          /\ SumFunctionOnSet(g, T) = g[x] + SumFunctionOnSet(g, T \ {x})
          /\ SumFunctionOnSet(f, T \ {x}) \in Int /\ SumFunctionOnSet(g, T \ {x}) \in Int
      BY <3>1, <3>2, TotalTakeOut
    <3> QED
      BY <1>1, <3>1, <3>3
  <2> QED
    BY <2>1, <2>2
<1> HIDE DEF Good
<1>2. S \in Good
    BY <1>1, FiniteInduction
<1> QED
    BY <1>2 DEF Good

\* What changing one element does to a sum.
LEMMA TotalChange ==
    ASSUME NEW S, IsFiniteSet(S), NEW f, NEW g, NEW x \in S,
           \A y \in S : f[y] \in Int /\ g[y] \in Int,
           \A y \in S \ {x} : g[y] = f[y]
    PROVE  SumFunctionOnSet(g, S) = SumFunctionOnSet(f, S) - f[x] + g[x]
<1>1. IsFiniteSet(S \ {x})
    BY FS_Subset
<1>2. /\ SumFunctionOnSet(f, S) = f[x] + SumFunctionOnSet(f, S \ {x})
      /\ SumFunctionOnSet(g, S) = g[x] + SumFunctionOnSet(g, S \ {x})
      /\ SumFunctionOnSet(f, S \ {x}) \in Int
    BY <1>1, TotalTakeOut
<1>3. SumFunctionOnSet(f, S \ {x}) = SumFunctionOnSet(g, S \ {x})
    BY <1>1, TotalExtensional
<1> QED
    BY <1>2, <1>3

\* Nothing adds up to nothing.
LEMMA TotalZero ==
    ASSUME NEW S, IsFiniteSet(S), NEW f, \A x \in S : f[x] = 0
    PROVE  SumFunctionOnSet(f, S) = 0
<1> DEFINE Good == {T \in SUBSET S : SumFunctionOnSet(f, T) = 0}
<1>1. ASSUME NEW T \in SUBSET S, \A x \in T : T \ {x} \in Good PROVE T \in Good
  <2>1. CASE T = {}
    BY <2>1, TotalEmpty
  <2>2. CASE T # {}
    <3>1. Chosen(T) \in T /\ IsFiniteSet(T)
      BY <2>2, ChosenIn, FS_Subset
    <3>2. SumFunctionOnSet(f, T) = f[Chosen(T)] + SumFunctionOnSet(f, T \ {Chosen(T)})
      BY <2>2, <3>1, TotalChosen
    <3> QED
      BY <1>1, <3>1, <3>2
  <2> QED
    BY <2>1, <2>2
<1> HIDE DEF Good
<1>2. S \in Good
    BY <1>1, FiniteInduction
<1> QED
    BY <1>2 DEF Good
=============================================================================
