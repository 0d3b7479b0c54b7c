-------------------------- MODULE FiniteSumTheorems --------------------------
(***************************************************************************)
(* Facts about SumOf.  SumOf unfolds to a function defined by recursion    *)
(* over the subsets of a set.  Induction over those subsets is done with a *)
(* minimal counterexample, which the well-foundedness of strict inclusion  *)
(* provides, so that no theorem with an operator parameter is needed.      *)
(***************************************************************************)
EXTENDS FiniteSums, FiniteSetTheorems, TLAPS

-----------------------------------------------------------------------------
(* Induction over finite sets.                                             *)

\* A nonempty family of subsets of a finite set has a minimal member.
LEMMA MinimalSubset ==
  ASSUME NEW S, IsFiniteSet(S), NEW Family, Family \subseteq SUBSET S, Family # {}
  PROVE  \E T \in Family : \A U \in Family : U \subseteq T => U = T
<1>1. IsWellFoundedOn(StrictSubsetOrdering(S), SUBSET S)
  BY FS_StrictSubsetOrderingWellFounded, FS_FiniteSubsetsOfFinite
<1>2. PICK T \in Family : \A U \in Family : ~ (<<U, T>> \in StrictSubsetOrdering(S))
  BY <1>1, WFMin
<1>3. \A U \in Family : U \subseteq T => U = T
  BY <1>2 DEF StrictSubsetOrdering
<1>. QED  BY <1>3

\* Finite sets of integers.
Positions(S) == IsFiniteSet(S) /\ S \subseteq Int

\* Part of a finite set of integers is one.
LEMMA SubPositions ==
  ASSUME NEW S, Positions(S)
  PROVE  IsFiniteSet(S) /\ \A T \in SUBSET S : Positions(T)
BY FS_Subset DEF Positions

\* A nonempty finite set of integers has a maximum, which Max chooses.
LEMMA MaxOfFinite ==
  ASSUME NEW S, Positions(S), S # {}
  PROVE  Max(S) \in S /\ \A y \in S : Max(S) >= y
<1>. DEFINE Top(x, T) == x \in T /\ \A y \in T : x >= y
            Bad == {T \in SUBSET S : T # {} /\ ~ \E x : Top(x, T)}
<1>1. Bad = {}
  <2>. SUFFICES ASSUME Bad # {} PROVE FALSE
    OBVIOUS
  <2>1. PICK T \in Bad : \A V \in Bad : V \subseteq T => V = T
    <3>1. Bad \subseteq SUBSET S /\ IsFiniteSet(S)
      BY SubPositions
    <3>. HIDE DEF Bad
    <3>. QED  BY <3>1, MinimalSubset
  <2>2. PICK z \in T : TRUE
    BY <2>1
  <2>3. T \ {z} \notin Bad
    BY <2>1, <2>2
  <2>4. T \subseteq Int
    BY DEF Positions
  <2>5. CASE T \ {z} = {}
    <3>1. Top(z, T)
      BY <2>2, <2>4, <2>5
    <3>. QED  BY <2>1, <3>1
  <2>6. CASE T \ {z} # {}
    <3>1. PICK x : Top(x, T \ {z})
      BY <2>1, <2>3, <2>6
    <3>2. x \in Int /\ z \in Int /\ \A y \in T : y \in Int
      BY <2>2, <2>4, <3>1
    <3>3. IF x >= z THEN Top(x, T) ELSE Top(z, T)
      <4>. HIDE DEF Bad
      <4>. QED  BY <2>2, <3>1, <3>2
    <3>. QED  BY <2>1, <3>3
  <2>. QED  BY <2>5, <2>6
<1>2. \E x \in S : \A y \in S : x >= y
  BY <1>1
<1>. QED  BY <1>2 DEF Max

\* A nonempty set of numbers up to n has a least one.
LEMMA LeastOf ==
  ASSUME NEW n \in Nat, NEW S, S \subseteq 0..n, S # {}
  PROVE  \E k \in S : \A j \in S : k <= j
<1>. DEFINE Family == {0..k : k \in S}
<1>1. PICK T \in Family : \A U \in Family : U \subseteq T => U = T
  <2>. DEFINE D == 0..n
  <2>1. IsFiniteSet(D)
    BY FS_Interval
  <2>2. \A k \in S : 0..k \subseteq D
    OBVIOUS
  <2>3. Family \subseteq SUBSET D /\ Family # {}
    <3>. HIDE DEF D
    <3>. QED  BY <2>2
  <2>. HIDE DEF Family, D
  <2>. QED  BY <2>1, <2>3, MinimalSubset
<1>2. PICK k \in S : T = 0..k
  OBVIOUS
<1>3. ASSUME NEW j \in S PROVE k <= j
  <2>1. j \in 0..n /\ k \in 0..n
    OBVIOUS
  <2>2. CASE ~ (k <= j)
    <3>1. 0..j \subseteq 0..k
      BY <2>1, <2>2
    <3>2. 0..j \in Family
      OBVIOUS
    <3>3. 0..j = 0..k
      BY <1>1, <1>2, <3>1, <3>2
    <3>. HIDE DEF Family
    <3>4. k \in 0..k
      BY <2>1
    <3>. QED  BY <2>1, <2>2, <3>3, <3>4
  <2>. QED  BY <2>2
<1>. QED  BY <1>3

-----------------------------------------------------------------------------
(* The recursive function behind SumOf.                                    *)

Picked(T) == CHOOSE x \in T : TRUE

SumsOver(g, f, S) ==
  g = [T \in SUBSET S |-> IF T = {} THEN 0 ELSE f[Picked(T)] + g[T \ {Picked(T)}]]

\* The equation of such a function, element by element.
LEMMA SumsStep ==
  ASSUME NEW f, NEW S, NEW g, SumsOver(g, f, S)
  PROVE  /\ g[{}] = 0
         /\ \A T \in SUBSET S : T # {} => g[T] = f[Picked(T)] + g[T \ {Picked(T)}]
BY DEF SumsOver

\* What SumOf stands for.
LEMMA SumOfDef ==
  ASSUME NEW f, NEW S
  PROVE  SumOf(f, S) = (CHOOSE g : SumsOver(g, f, S))[S]
BY DEF SumOf, MapThenSumSet, MapThenFoldSet, SumsOver, Picked

\* Two such functions agree where both are defined.
LEMMA SumsAgree ==
  ASSUME NEW f, NEW S, NEW R, NEW g, NEW h, SumsOver(g, f, S), SumsOver(h, f, R),
         NEW U, IsFiniteSet(U), U \subseteq S, U \subseteq R
  PROVE  g[U] = h[U]
<1>. DEFINE Bad == {T \in SUBSET U : g[T] # h[T]}
<1>. SUFFICES ASSUME Bad # {} PROVE FALSE
  OBVIOUS
<1>1. PICK T \in Bad : \A V \in Bad : V \subseteq T => V = T
  <2>1. Bad \subseteq SUBSET U
    OBVIOUS
  <2>. HIDE DEF Bad
  <2>. QED  BY <2>1, MinimalSubset
<1>2. T # {}
  BY DEF SumsOver
<1>3. Picked(T) \in T
  BY <1>2 DEF Picked
<1>4. T \ {Picked(T)} \notin Bad
  BY <1>1, <1>3
<1>5. g[T \ {Picked(T)}] = h[T \ {Picked(T)}]
  BY <1>4
<1>6. /\ g[T] = f[Picked(T)] + g[T \ {Picked(T)}]
      /\ h[T] = f[Picked(T)] + h[T \ {Picked(T)}]
  BY <1>2 DEF SumsOver
<1>. QED  BY <1>1, <1>5, <1>6

\* Such a function exists over every finite set.
LEMMA SumsExist ==
  ASSUME NEW f, NEW S, IsFiniteSet(S)
  PROVE  \E g : SumsOver(g, f, S)
<1>. DEFINE Bad == {T \in SUBSET S : ~ \E g : SumsOver(g, f, T)}
<1>. SUFFICES ASSUME Bad # {} PROVE FALSE
  OBVIOUS
<1>1. PICK U \in Bad : \A V \in Bad : V \subseteq U => V = U
  <2>1. Bad \subseteq SUBSET S
    OBVIOUS
  <2>. HIDE DEF Bad
  <2>. QED  BY <2>1, MinimalSubset
<1>. DEFINE G(V) == CHOOSE g : SumsOver(g, f, V)
            Below(T) == T \ {Picked(T)}
            h == [T \in SUBSET U |-> IF T = {} THEN 0
                                     ELSE f[Picked(T)] + G(Below(T))[Below(T)]]
<1>2. \A T \in SUBSET U : T # {} => Picked(T) \in T
  BY DEF Picked
<1>3. \A T \in SUBSET U : T # U => SumsOver(G(T), f, T)
  BY <1>1
<1>4. \A T \in SUBSET U : IsFiniteSet(T)
  BY FS_Subset
<1>5. ASSUME NEW T \in SUBSET U, T # {}
      PROVE  h[Below(T)] = G(Below(T))[Below(T)]
  <2>. DEFINE V == Below(T)
  <2>1. V \in SUBSET U /\ V # U
    BY <1>2, <1>5
  <2>2. SumsOver(G(V), f, V)
    BY <1>3, <2>1
  <2>3. CASE V = {}
    BY <2>1, <2>2, <2>3 DEF SumsOver
  <2>4. CASE V # {}
    <3>1. Picked(V) \in V /\ Below(V) \in SUBSET U /\ Below(V) # U
      BY <1>2, <2>1, <2>4
    <3>2. SumsOver(G(Below(V)), f, Below(V))
      BY <1>3, <3>1
    <3>3. G(V)[Below(V)] = G(Below(V))[Below(V)]
      <4>1. IsFiniteSet(Below(V)) /\ Below(V) \subseteq V
        BY <1>4, <3>1
      <4>. HIDE DEF G, Below
      <4>. QED  BY SumsAgree, <2>2, <3>2, <4>1
    <3>4. G(V)[V] = f[Picked(V)] + G(V)[Below(V)]
      BY <2>2, <2>4 DEF SumsOver
    <3>5. h[V] = f[Picked(V)] + G(Below(V))[Below(V)]
      BY <2>1, <2>4
    <3>. QED  BY <3>3, <3>4, <3>5
  <2>. QED  BY <2>3, <2>4
<1>6. SumsOver(h, f, U)
  <2>1. ASSUME NEW T \in SUBSET U
        PROVE  (IF T = {} THEN 0 ELSE f[Picked(T)] + G(Below(T))[Below(T)])
                = (IF T = {} THEN 0 ELSE f[Picked(T)] + h[Below(T)])
    <3>. HIDE DEF G, Below, h
    <3>. QED  BY <1>5
  <2>2. h = [T \in SUBSET U |-> IF T = {} THEN 0 ELSE f[Picked(T)] + h[Below(T)]]
    <3>1. \A T \in SUBSET U :
             h[T] = IF T = {} THEN 0 ELSE f[Picked(T)] + G(Below(T))[Below(T)]
      OBVIOUS
    <3>2. h = [T \in SUBSET U |-> h[T]]
      OBVIOUS
    <3>. HIDE DEF G, Below, h
    <3>. QED  BY <2>1, <3>1, <3>2
  <2>. QED  BY <2>2 DEF SumsOver
<1>. QED  BY <1>1, <1>6

\* The recursion, one element at a time.
LEMMA SumUnfolds ==
  ASSUME NEW f, NEW S, IsFiniteSet(S)
  PROVE  /\ SumOf(f, {}) = 0
         /\ S # {} => /\ Picked(S) \in S
                      /\ SumOf(f, S) = f[Picked(S)] + SumOf(f, S \ {Picked(S)})
<1>. DEFINE G(V) == CHOOSE g : SumsOver(g, f, V)
            R == S \ {Picked(S)}
<1>1. \A V : IsFiniteSet(V) => SumsOver(G(V), f, V)
  BY SumsExist
<1>2. IsFiniteSet({}) /\ IsFiniteSet(R)
  BY FS_EmptySet, FS_RemoveElement
<1>3. \A V : SumOf(f, V) = G(V)[V]
  BY SumOfDef
<1>4. SumOf(f, {}) = 0
  <2>1. SumsOver(G({}), f, {}) /\ SumOf(f, {}) = G({})[{}]
    BY <1>1, <1>2, <1>3
  <2>. HIDE DEF G
  <2>. QED  BY <2>1, SumsStep
<1>5. ASSUME S # {}
      PROVE  Picked(S) \in S /\ SumOf(f, S) = f[Picked(S)] + SumOf(f, R)
  <2>1. Picked(S) \in S
    BY <1>5 DEF Picked
  <2>2. G(S)[S] = f[Picked(S)] + G(S)[R]
    <3>1. SumsOver(G(S), f, S)
      BY <1>1
    <3>. HIDE DEF G
    <3>. QED  BY <1>5, <3>1, SumsStep
  <2>3. G(S)[R] = G(R)[R]
    <3>1. SumsOver(G(S), f, S) /\ SumsOver(G(R), f, R) /\ R \subseteq S
      BY <1>1, <1>2
    <3>. HIDE DEF G, R
    <3>. QED  BY <1>2, <3>1, SumsAgree
  <2>. QED  BY <1>3, <2>1, <2>2, <2>3
<1>. QED  BY <1>4, <1>5

-----------------------------------------------------------------------------
(* What a sum is, and what one more element adds to it.                    *)

\* A sum of integers is an integer.
LEMMA SumInt ==
  ASSUME NEW S, IsFiniteSet(S), NEW f, \A x \in S : f[x] \in Int
  PROVE  SumOf(f, S) \in Int
<1>. DEFINE Bad == {T \in SUBSET S : SumOf(f, T) \notin Int}
<1>. SUFFICES ASSUME Bad # {} PROVE FALSE
  OBVIOUS
<1>1. PICK T \in Bad : \A V \in Bad : V \subseteq T => V = T
  <2>1. Bad \subseteq SUBSET S
    OBVIOUS
  <2>. HIDE DEF Bad
  <2>. QED  BY <2>1, MinimalSubset
<1>2. IsFiniteSet(T)
  BY FS_Subset
<1>3. CASE T = {}
  <2>1. SumOf(f, {}) = 0
    BY SumUnfolds, FS_EmptySet
  <2>. QED  BY <1>1, <1>3, <2>1
<1>4. CASE T # {}
  <2>1. /\ Picked(T) \in T
        /\ SumOf(f, T) = f[Picked(T)] + SumOf(f, T \ {Picked(T)})
    BY <1>2, <1>4, SumUnfolds
  <2>2. SumOf(f, T \ {Picked(T)}) \in Int
    BY <1>1, <2>1
  <2>. QED  BY <1>1, <2>1, <2>2
<1>. QED  BY <1>3, <1>4

\* An element that is not in the set adds its value, whichever the recursion picks first.
LEMMA SumAdd ==
  ASSUME NEW S, IsFiniteSet(S), NEW a, a \notin S,
         NEW f, f[a] \in Int, \A x \in S : f[x] \in Int
  PROVE  SumOf(f, S \cup {a}) = SumOf(f, S) + f[a]
<1>. DEFINE D == S \cup {a}
            Bad == {T \in SUBSET D : \E x \in D \ T : SumOf(f, T \cup {x}) # SumOf(f, T) + f[x]}
<1>. SUFFICES ASSUME Bad # {} PROVE FALSE
  OBVIOUS
<1>0. IsFiniteSet(D) /\ \A x \in D : f[x] \in Int
  BY FS_AddElement
<1>1. PICK T \in Bad : \A V \in Bad : V \subseteq T => V = T
  <2>1. Bad \subseteq SUBSET D
    OBVIOUS
  <2>. HIDE DEF Bad, D
  <2>. QED  BY <1>0, <2>1, MinimalSubset
<1>2. PICK x \in D \ T : SumOf(f, T \cup {x}) # SumOf(f, T) + f[x]
  BY <1>1
<1>. DEFINE E == T \cup {x}
            y == Picked(E)
<1>3. IsFiniteSet(T) /\ IsFiniteSet(E) /\ E # {} /\ E \subseteq D
  BY <1>0, <1>1, <1>2, FS_Subset
<1>4. y \in E /\ SumOf(f, E) = f[y] + SumOf(f, E \ {y})
  BY <1>3, SumUnfolds
<1>5. \A V \in SUBSET D : SumOf(f, V) \in Int
  BY <1>0, FS_Subset, SumInt
<1>6. CASE y = x
  <2>1. E \ {x} = T
    BY <1>2
  <2>2. f[x] \in Int /\ SumOf(f, T) \in Int
    BY <1>0, <1>1, <1>2, <1>5
  <2>3. SumOf(f, E) = f[x] + SumOf(f, T)
    BY <1>4, <1>6, <2>1
  <2>. HIDE DEF D, Bad, y
  <2>. QED  BY <1>2, <2>2, <2>3
<1>7. CASE y # x
  <2>. DEFINE V == T \ {y}
  <2>1. y \in T /\ E \ {y} = V \cup {x} /\ V \cup {y} = T
    BY <1>4, <1>7
  <2>2. V \in SUBSET D /\ V # T /\ V \subseteq T /\ x \in D \ V /\ y \in D \ V
    BY <1>1, <1>2, <2>1
  <2>3. V \notin Bad
    BY <1>1, <2>2
  <2>4. /\ SumOf(f, V \cup {x}) = SumOf(f, V) + f[x]
        /\ SumOf(f, V \cup {y}) = SumOf(f, V) + f[y]
    BY <2>2, <2>3
  <2>5. f[x] \in Int /\ f[y] \in Int /\ SumOf(f, V) \in Int
    BY <1>0, <1>5, <2>2
  <2>6. SumOf(f, E) = f[y] + SumOf(f, V \cup {x}) /\ SumOf(f, T) = SumOf(f, V) + f[y]
    BY <1>4, <2>1, <2>4
  <2>. HIDE DEF D, Bad, y, V
  <2>. QED  BY <1>2, <2>4, <2>5, <2>6
<1>. QED  BY <1>6, <1>7

\* Nothing adds up to nothing.
LEMMA SumEmpty ==
  ASSUME NEW f
  PROVE  SumOf(f, {}) = 0
BY SumUnfolds, FS_EmptySet

\* Taking an element out takes its value away.
LEMMA SumRemove ==
  ASSUME NEW S, IsFiniteSet(S), NEW a \in S, NEW f, \A x \in S : f[x] \in Int
  PROVE  SumOf(f, S \ {a}) = SumOf(f, S) - f[a]
<1>1. IsFiniteSet(S \ {a}) /\ (S \ {a}) \cup {a} = S
  BY FS_RemoveElement
<1>2. SumOf(f, S) = SumOf(f, S \ {a}) + f[a]
  BY <1>1, SumAdd
<1>3. SumOf(f, S \ {a}) \in Int
  BY <1>1, SumInt
<1>. QED  BY <1>2, <1>3

\* One term.
LEMMA SumSingle ==
  ASSUME NEW a, NEW f, f[a] \in Int
  PROVE  SumOf(f, {a}) = f[a]
<1>1. SumOf(f, {} \cup {a}) = SumOf(f, {}) + f[a]
  BY FS_EmptySet, SumAdd
<1>2. {} \cup {a} = {a}
  OBVIOUS
<1>. QED  BY <1>1, <1>2, SumEmpty

-----------------------------------------------------------------------------
(* Comparing sums.                                                         *)

\* Sums compare as their terms do.
LEMMA SumCompare ==
  ASSUME NEW S, IsFiniteSet(S), NEW f, NEW g,
         \A x \in S : f[x] \in Int /\ g[x] \in Int /\ f[x] <= g[x]
  PROVE  SumOf(f, S) <= SumOf(g, S)
<1>. DEFINE Bad == {T \in SUBSET S : ~ (SumOf(f, T) <= SumOf(g, T))}
<1>. SUFFICES ASSUME Bad # {} PROVE FALSE
  OBVIOUS
<1>1. PICK T \in Bad : \A V \in Bad : V \subseteq T => V = T
  <2>1. Bad \subseteq SUBSET S
    OBVIOUS
  <2>. HIDE DEF Bad
  <2>. QED  BY <2>1, MinimalSubset
<1>2. IsFiniteSet(T) /\ \A V \in SUBSET S : IsFiniteSet(V)
  BY FS_Subset
<1>3. T # {}
  <2>. SUFFICES ASSUME T = {} PROVE FALSE
    OBVIOUS
  <2>1. SumOf(f, T) = 0 /\ SumOf(g, T) = 0
    BY SumEmpty
  <2>2. ~ (SumOf(f, T) <= SumOf(g, T))
    BY <1>1
  <2>. QED  BY <2>1, <2>2
<1>4. PICK a \in T : TRUE
  BY <1>3
<1>5. T \ {a} \in SUBSET S /\ T \ {a} # T
  BY <1>1, <1>4
<1>6. SumOf(f, T \ {a}) <= SumOf(g, T \ {a})
  BY <1>1, <1>5
<1>7. /\ SumOf(f, T \ {a}) = SumOf(f, T) - f[a]
      /\ SumOf(g, T \ {a}) = SumOf(g, T) - g[a]
  BY <1>1, <1>2, <1>4, SumRemove
<1>8. SumOf(f, T) \in Int /\ SumOf(g, T) \in Int
  BY <1>1, <1>2, SumInt
<1>9. ~ (SumOf(f, T) <= SumOf(g, T)) /\ f[a] \in Int /\ g[a] \in Int /\ f[a] <= g[a]
  BY <1>1, <1>4
<1>. QED
  <2>. HIDE DEF Bad
  <2>. QED  BY <1>6, <1>7, <1>8, <1>9

\* Functions that agree on a set have the same sum over it.
LEMMA SumSame ==
  ASSUME NEW S, IsFiniteSet(S), NEW f, NEW g,
         \A x \in S : f[x] \in Int /\ f[x] = g[x]
  PROVE  SumOf(f, S) = SumOf(g, S)
<1>1. SumOf(f, S) <= SumOf(g, S) /\ SumOf(g, S) <= SumOf(f, S)
  BY SumCompare
<1>2. SumOf(f, S) \in Int /\ SumOf(g, S) \in Int
  BY SumInt
<1>. QED  BY <1>1, <1>2

\* Two parts of a set that do not meet.
LEMMA SumDisjoint ==
  ASSUME NEW S, NEW R, IsFiniteSet(S), IsFiniteSet(R), S \cap R = {},
         NEW f, \A x \in S \cup R : f[x] \in Int
  PROVE  SumOf(f, S \cup R) = SumOf(f, S) + SumOf(f, R)
<1>. DEFINE Bad == {T \in SUBSET R : SumOf(f, S \cup T) # SumOf(f, S) + SumOf(f, T)}
<1>. SUFFICES ASSUME Bad # {} PROVE FALSE
  OBVIOUS
<1>1. PICK T \in Bad : \A V \in Bad : V \subseteq T => V = T
  <2>1. Bad \subseteq SUBSET R
    OBVIOUS
  <2>. HIDE DEF Bad
  <2>. QED  BY <2>1, MinimalSubset
<1>2. SumOf(f, S) \in Int
  BY SumInt
<1>3. T # {}
  <2>. SUFFICES ASSUME T = {} PROVE FALSE
    OBVIOUS
  <2>1. SumOf(f, T) = 0 /\ S \cup T = S
    BY SumEmpty
  <2>2. SumOf(f, S \cup T) # SumOf(f, S) + SumOf(f, T)
    BY <1>1
  <2>. HIDE DEF Bad
  <2>. QED  BY <1>2, <2>1, <2>2
<1>4. PICK a \in T : TRUE
  BY <1>3
<1>. DEFINE V == T \ {a}
<1>5. V \in SUBSET R /\ V # T /\ V \subseteq T /\ a \in R /\ a \notin S
  BY <1>1, <1>4
<1>6. SumOf(f, S \cup V) = SumOf(f, S) + SumOf(f, V)
  BY <1>1, <1>5
<1>7. IsFiniteSet(V) /\ IsFiniteSet(S \cup V)
  BY <1>5, FS_Subset, FS_Union
<1>8. /\ V \cup {a} = T /\ (S \cup V) \cup {a} = S \cup T
      /\ a \notin V /\ a \notin S \cup V
      /\ f[a] \in Int /\ \A x \in S \cup V : f[x] \in Int
  BY <1>1, <1>4, <1>5
<1>9. SumOf(f, T) = SumOf(f, V) + f[a] /\ SumOf(f, S \cup T) = SumOf(f, S \cup V) + f[a]
  <2>. HIDE DEF V
  <2>1. SumOf(f, V \cup {a}) = SumOf(f, V) + f[a]
    BY <1>7, <1>8, SumAdd
  <2>2. SumOf(f, (S \cup V) \cup {a}) = SumOf(f, S \cup V) + f[a]
    BY <1>7, <1>8, SumAdd
  <2>. QED  BY <1>8, <2>1, <2>2
<1>10. SumOf(f, V) \in Int /\ SumOf(f, S \cup V) \in Int
  BY <1>7, <1>8, SumInt
<1>11. SumOf(f, S \cup T) # SumOf(f, S) + SumOf(f, T)
  BY <1>1
<1>. QED
  <2>. HIDE DEF Bad, V
  <2>. QED  BY <1>2, <1>6, <1>8, <1>9, <1>10, <1>11

\* A sum of natural numbers is one, and grows with the set.
LEMMA SumNat ==
  ASSUME NEW S, IsFiniteSet(S), NEW f, \A x \in S : f[x] \in Nat
  PROVE  SumOf(f, S) \in Nat
<1>. DEFINE Bad == {T \in SUBSET S : SumOf(f, T) \notin Nat}
<1>. SUFFICES ASSUME Bad # {} PROVE FALSE
  OBVIOUS
<1>1. PICK T \in Bad : \A V \in Bad : V \subseteq T => V = T
  <2>1. Bad \subseteq SUBSET S
    OBVIOUS
  <2>. HIDE DEF Bad
  <2>. QED  BY <2>1, MinimalSubset
<1>2. T # {}
  <2>. SUFFICES ASSUME T = {} PROVE FALSE
    OBVIOUS
  <2>1. SumOf(f, T) = 0
    BY SumEmpty
  <2>. QED  BY <1>1, <2>1
<1>3. IsFiniteSet(T)
  BY FS_Subset
<1>4. PICK a \in T : TRUE
  BY <1>2
<1>5. SumOf(f, T \ {a}) \in Nat /\ f[a] \in Nat /\ SumOf(f, T) \notin Nat
  BY <1>1, <1>4
<1>6. SumOf(f, T \ {a}) = SumOf(f, T) - f[a] /\ SumOf(f, T) \in Int
  <2>1. a \in T /\ \A x \in T : f[x] \in Int
    BY <1>1, <1>4
  <2>. HIDE DEF Bad
  <2>. QED  BY <1>3, <2>1, SumRemove, SumInt
<1>. QED
  <2>. HIDE DEF Bad
  <2>. QED  BY <1>5, <1>6

\* Part of a set of natural numbers adds up to no more than all of it.
LEMMA SumSubset ==
  ASSUME NEW S, IsFiniteSet(S), NEW T, T \subseteq S, NEW f, \A x \in S : f[x] \in Nat
  PROVE  SumOf(f, T) <= SumOf(f, S)
<1>. DEFINE R == S \ T
<1>1. IsFiniteSet(T) /\ IsFiniteSet(R) /\ T \cap R = {} /\ T \cup R = S
  BY FS_Subset
<1>2. SumOf(f, T) \in Nat /\ SumOf(f, R) \in Nat
  BY <1>1, SumNat
<1>3. SumOf(f, T \cup R) = SumOf(f, T) + SumOf(f, R)
  <2>1. \A x \in T \cup R : f[x] \in Int
    BY <1>1
  <2>. HIDE DEF R
  <2>. QED  BY <1>1, <2>1, SumDisjoint
<1>. QED
  <2>1. SumOf(f, S) = SumOf(f, T) + SumOf(f, R)
    BY <1>1, <1>3
  <2>. HIDE DEF R
  <2>. QED  BY <1>2, <2>1

\* Fewer and smaller terms: every term of one set is at most every term of another
\* set that has at least as many.
LEMMA SumDominated ==
  ASSUME NEW A, NEW B, IsFiniteSet(A), IsFiniteSet(B), Cardinality(A) <= Cardinality(B),
         NEW f, \A x \in A \cup B : f[x] \in Nat, \A x \in A, y \in B : f[x] <= f[y]
  PROVE  SumOf(f, A) <= SumOf(f, B)
<1>. DEFINE Larger(T, V) == Cardinality(T) <= Cardinality(V) /\ ~ (SumOf(f, T) <= SumOf(f, V))
            Bad == {T \in SUBSET A : \E V \in SUBSET B : Larger(T, V)}
<1>. SUFFICES ASSUME Bad # {} PROVE FALSE
  OBVIOUS
<1>1. PICK T \in Bad : \A U \in Bad : U \subseteq T => U = T
  <2>1. Bad \subseteq SUBSET A
    OBVIOUS
  <2>. HIDE DEF Bad
  <2>. QED  BY <2>1, MinimalSubset
<1>2. PICK V \in SUBSET B : Larger(T, V)
  BY <1>1
<1>3. /\ T \in SUBSET A /\ IsFiniteSet(T) /\ IsFiniteSet(V)
      /\ \A x \in T : f[x] \in Nat
      /\ \A x \in V : f[x] \in Nat
  BY <1>1, <1>2, FS_Subset
<1>4. SumOf(f, T) \in Nat /\ SumOf(f, V) \in Nat
  BY <1>3, SumNat
<1>5. Cardinality(T) \in Nat /\ Cardinality(V) \in Nat
  BY <1>3, FS_CardinalityType
<1>6. T # {}
  <2>. SUFFICES ASSUME T = {} PROVE FALSE
    OBVIOUS
  <2>1. SumOf(f, T) = 0
    BY SumEmpty
  <2>. HIDE DEF Bad
  <2>. QED  BY <1>2, <1>4, <2>1
<1>7. V # {}
  <2>1. Cardinality(T) # 0 /\ Cardinality(T) <= Cardinality(V)
    BY <1>2, <1>3, <1>6, FS_EmptySet
  <2>2. Cardinality({}) = 0
    BY FS_EmptySet
  <2>. QED  BY <1>5, <2>1, <2>2
<1>8. PICK a \in T, b \in V : TRUE
  BY <1>6, <1>7
<1>9. /\ SumOf(f, T \ {a}) = SumOf(f, T) - f[a]
      /\ SumOf(f, V \ {b}) = SumOf(f, V) - f[b]
  <2>. HIDE DEF Bad, Larger
  <2>1. (\A x \in T : f[x] \in Int) /\ (\A x \in V : f[x] \in Int)
    BY <1>3
  <2>. QED  BY <1>3, <1>8, <2>1, SumRemove
<1>10. /\ Cardinality(T \ {a}) = Cardinality(T) - 1
       /\ Cardinality(V \ {b}) = Cardinality(V) - 1
  BY <1>3, <1>8, FS_RemoveElement
<1>11. T \ {a} \notin Bad
  BY <1>1, <1>3, <1>8
<1>12. ~ Larger(T \ {a}, V \ {b})
  BY <1>2, <1>3, <1>11
<1>13. SumOf(f, T \ {a}) <= SumOf(f, V \ {b})
  <2>1. Cardinality(T \ {a}) <= Cardinality(V \ {b})
    <3>. HIDE DEF Bad
    <3>. QED  BY <1>2, <1>5, <1>10
  <2>. QED  BY <1>12, <2>1
<1>14. f[a] \in Nat /\ f[b] \in Nat /\ f[a] <= f[b]
  BY <1>2, <1>3, <1>8
<1>. QED
  <2>1. ~ (SumOf(f, T) <= SumOf(f, V))
    BY <1>2
  <2>. HIDE DEF Bad, Larger
  <2>. QED  BY <1>4, <1>9, <1>13, <1>14, <2>1

\* Changing one value changes the sum by the difference.
LEMMA SumChange ==
  ASSUME NEW S, IsFiniteSet(S), NEW a \in S, NEW f, NEW g,
         \A x \in S : f[x] \in Int /\ g[x] \in Int /\ (x # a => f[x] = g[x])
  PROVE  SumOf(g, S) = SumOf(f, S) - f[a] + g[a]
<1>1. /\ SumOf(f, S \ {a}) = SumOf(f, S) - f[a]
      /\ SumOf(g, S \ {a}) = SumOf(g, S) - g[a]
  BY SumRemove
<1>2. SumOf(f, S \ {a}) = SumOf(g, S \ {a})
  <2>1. IsFiniteSet(S \ {a}) /\ \A x \in S \ {a} : f[x] \in Int /\ f[x] = g[x]
    BY FS_RemoveElement
  <2>. QED  BY <2>1, SumSame
<1>3. SumOf(f, S) \in Int /\ SumOf(g, S) \in Int /\ f[a] \in Int /\ g[a] \in Int
  BY SumInt
<1>. QED  BY <1>1, <1>2, <1>3

\* The sum of two functions.
LEMMA SumPlus ==
  ASSUME NEW S, IsFiniteSet(S), NEW f, NEW g, NEW h,
         \A x \in S : f[x] \in Int /\ g[x] \in Int /\ h[x] = f[x] + g[x]
  PROVE  SumOf(h, S) = SumOf(f, S) + SumOf(g, S)
<1>. DEFINE Bad == {T \in SUBSET S : SumOf(h, T) # SumOf(f, T) + SumOf(g, T)}
<1>. SUFFICES ASSUME Bad # {} PROVE FALSE
  OBVIOUS
<1>1. PICK T \in Bad : \A V \in Bad : V \subseteq T => V = T
  <2>1. Bad \subseteq SUBSET S
    OBVIOUS
  <2>. HIDE DEF Bad
  <2>. QED  BY <2>1, MinimalSubset
<1>2. IsFiniteSet(T) /\ \A V \in SUBSET S : IsFiniteSet(V)
  BY FS_Subset
<1>3. T # {}
  <2>. SUFFICES ASSUME T = {} PROVE FALSE
    OBVIOUS
  <2>1. SumOf(f, T) = 0 /\ SumOf(g, T) = 0 /\ SumOf(h, T) = 0
    BY SumEmpty
  <2>2. SumOf(h, T) # SumOf(f, T) + SumOf(g, T)
    BY <1>1
  <2>. QED  BY <2>1, <2>2
<1>4. PICK a \in T : TRUE
  BY <1>3
<1>5. T \ {a} \in SUBSET S /\ T \ {a} # T
  BY <1>1, <1>4
<1>6. SumOf(h, T \ {a}) = SumOf(f, T \ {a}) + SumOf(g, T \ {a})
  BY <1>1, <1>5
<1>7. \A x \in T : f[x] \in Int /\ g[x] \in Int /\ h[x] \in Int /\ h[x] = f[x] + g[x]
  BY <1>1
<1>8. /\ SumOf(f, T \ {a}) = SumOf(f, T) - f[a]
      /\ SumOf(g, T \ {a}) = SumOf(g, T) - g[a]
      /\ SumOf(h, T \ {a}) = SumOf(h, T) - h[a]
  <2>. HIDE DEF Bad
  <2>. QED  BY <1>2, <1>4, <1>7, SumRemove
<1>9. SumOf(f, T) \in Int /\ SumOf(g, T) \in Int /\ SumOf(h, T) \in Int
  <2>. HIDE DEF Bad
  <2>. QED  BY <1>2, <1>7, SumInt
<1>10. SumOf(h, T) # SumOf(f, T) + SumOf(g, T)
  BY <1>1
<1>11. f[a] \in Int /\ g[a] \in Int /\ h[a] = f[a] + g[a]
  <2>. HIDE DEF Bad
  <2>. QED  BY <1>4, <1>7
<1>. HIDE DEF Bad
<1>12. PICK F, G, H, u, v, w :
         /\ F = SumOf(f, T) /\ G = SumOf(g, T) /\ H = SumOf(h, T)
         /\ u = f[a] /\ v = g[a] /\ w = h[a]
  OBVIOUS
<1>13. F \in Int /\ G \in Int /\ H \in Int /\ u \in Int /\ v \in Int /\ w = u + v
  BY <1>9, <1>11, <1>12
<1>14. H - w = (F - u) + (G - v)
  BY <1>6, <1>8, <1>12
<1>15. H = F + G
  BY <1>13, <1>14
<1>. QED  BY <1>10, <1>12, <1>15

\* Values that are zero off a part do not count.
LEMMA SumPart ==
  ASSUME NEW S, IsFiniteSet(S), NEW T, T \subseteq S, NEW f, NEW g,
         \A x \in S : f[x] \in Int,
         \A x \in T : g[x] = f[x],
         \A x \in S \ T : f[x] = 0
  PROVE  SumOf(g, T) = SumOf(f, S)
<1>. DEFINE R == S \ T
<1>1. IsFiniteSet(T) /\ IsFiniteSet(R) /\ T \cap R = {} /\ T \cup R = S
  BY FS_Subset
<1>2. SumOf(f, T \cup R) = SumOf(f, T) + SumOf(f, R)
  <2>1. \A x \in T \cup R : f[x] \in Int
    BY <1>1
  <2>. HIDE DEF R
  <2>. QED  BY <1>1, <2>1, SumDisjoint
<1>3. SumOf(f, R) = 0
  <2>. DEFINE z == [x \in R |-> 0]
              Bad == {V \in SUBSET R : SumOf(f, V) # 0}
  <2>. SUFFICES ASSUME Bad # {} PROVE FALSE
    <3>1. R \in SUBSET R
      OBVIOUS
    <3>. QED  BY <3>1
  <2>1. PICK V \in Bad : \A W \in Bad : W \subseteq V => W = V
    <3>1. Bad \subseteq SUBSET R
      OBVIOUS
    <3>. HIDE DEF Bad
    <3>. QED  BY <1>1, <3>1, MinimalSubset
  <2>2. SumOf(f, V) # 0 /\ V \subseteq R
    BY <2>1
  <2>3. V # {}
    BY <2>2, SumEmpty
  <2>4. PICK a \in V : TRUE
    BY <2>3
  <2>5. SumOf(f, V \ {a}) = 0
    BY <2>1, <2>4
  <2>6. IsFiniteSet(V) /\ \A x \in V : f[x] = 0 /\ f[x] \in Int
    <3>1. IsFiniteSet(V)
      BY <1>1, <2>2, FS_Subset
    <3>. QED  BY <2>2, <3>1
  <2>. HIDE DEF Bad, R
  <2>7. SumOf(f, V \ {a}) = SumOf(f, V) - f[a] /\ SumOf(f, V) \in Int
    BY <2>4, <2>6, SumRemove, SumInt
  <2>. QED  BY <2>2, <2>4, <2>5, <2>6, <2>7
<1>4. SumOf(g, T) = SumOf(f, T) /\ SumOf(f, T) \in Int
  <2>1. \A x \in T : f[x] \in Int /\ g[x] \in Int /\ g[x] = f[x]
    OBVIOUS
  <2>. HIDE DEF R
  <2>. QED  BY <1>1, <2>1, SumSame, SumInt
<1>5. SumOf(f, S) = SumOf(f, T) + SumOf(f, R)
  <2>. HIDE DEF R
  <2>. QED  BY <1>1, <1>2
<1>. HIDE DEF R
<1>. QED  BY <1>3, <1>4, <1>5

\* Counting is adding ones.
LEMMA SumOnes ==
  ASSUME NEW S, IsFiniteSet(S), NEW f, \A x \in S : f[x] = 1
  PROVE  SumOf(f, S) = Cardinality(S)
<1>. DEFINE Bad == {T \in SUBSET S : SumOf(f, T) # Cardinality(T)}
<1>. SUFFICES ASSUME Bad # {} PROVE FALSE
  <2>1. S \in SUBSET S
    OBVIOUS
  <2>. QED  BY <2>1
<1>1. PICK T \in Bad : \A V \in Bad : V \subseteq T => V = T
  <2>1. Bad \subseteq SUBSET S
    OBVIOUS
  <2>. HIDE DEF Bad
  <2>. QED  BY <2>1, MinimalSubset
<1>2. SumOf(f, T) # Cardinality(T) /\ T \subseteq S
  BY <1>1
<1>3. T # {}
  BY <1>2, SumEmpty, FS_EmptySet
<1>4. PICK a \in T : TRUE
  BY <1>3
<1>5. SumOf(f, T \ {a}) = Cardinality(T \ {a})
  BY <1>1, <1>4
<1>6. IsFiniteSet(T) /\ \A x \in T : f[x] \in Int /\ f[x] = 1
  <2>1. IsFiniteSet(T)
    BY <1>2, FS_Subset
  <2>. QED  BY <1>2, <2>1
<1>. HIDE DEF Bad
<1>7. SumOf(f, T \ {a}) = SumOf(f, T) - f[a] /\ SumOf(f, T) \in Int
  BY <1>4, <1>6, SumRemove, SumInt
<1>8. Cardinality(T \ {a}) = Cardinality(T) - 1 /\ Cardinality(T) \in Nat
  BY <1>4, <1>6, FS_RemoveElement, FS_CardinalityType
<1>. QED  BY <1>2, <1>4, <1>5, <1>6, <1>7, <1>8

\* A common factor.
LEMMA SumScaled ==
  ASSUME NEW S, IsFiniteSet(S), NEW c \in Int, NEW f, NEW g,
         \A x \in S : f[x] \in Int /\ g[x] = c * f[x]
  PROVE  SumOf(g, S) = c * SumOf(f, S)
<1>. DEFINE Bad == {T \in SUBSET S : SumOf(g, T) # c * SumOf(f, T)}
<1>. SUFFICES ASSUME Bad # {} PROVE FALSE
  <2>1. S \in SUBSET S
    OBVIOUS
  <2>. QED  BY <2>1
<1>1. PICK T \in Bad : \A V \in Bad : V \subseteq T => V = T
  <2>1. Bad \subseteq SUBSET S
    OBVIOUS
  <2>. HIDE DEF Bad
  <2>. QED  BY <2>1, MinimalSubset
<1>2. IsFiniteSet(T) /\ T \subseteq S
  BY <1>1, FS_Subset
<1>3. T # {}
  <2>. SUFFICES ASSUME T = {} PROVE FALSE
    OBVIOUS
  <2>1. SumOf(f, T) = 0 /\ SumOf(g, T) = 0
    BY SumEmpty
  <2>2. SumOf(g, T) # c * SumOf(f, T)
    BY <1>1
  <2>. HIDE DEF Bad
  <2>. QED  BY <2>1, <2>2
<1>4. PICK a \in T : TRUE
  BY <1>3
<1>5. SumOf(g, T \ {a}) = c * SumOf(f, T \ {a})
  <2>1. T \ {a} \in SUBSET S /\ T \ {a} # T /\ T \ {a} \subseteq T
    BY <1>2, <1>4
  <2>. QED  BY <1>1, <2>1
<1>6. f[a] \in Int /\ g[a] = c * f[a] /\ \A x \in T : f[x] \in Int /\ g[x] \in Int
  <2>1. \A k \in Int : c * k \in Int
    OBVIOUS
  <2>. QED  BY <1>2, <1>4, <2>1
<1>7. /\ SumOf(f, T \ {a}) = SumOf(f, T) - f[a]
      /\ SumOf(g, T \ {a}) = SumOf(g, T) - g[a]
  BY <1>2, <1>4, <1>6, SumRemove
<1>8. SumOf(f, T) \in Int /\ SumOf(g, T) \in Int
  BY <1>2, <1>6, SumInt
<1>. PICK F \in Int : F = SumOf(f, T)
  BY <1>8
<1>. PICK G \in Int : G = SumOf(g, T)
  BY <1>8
<1>. PICK k \in Int : k = f[a]
  BY <1>6
<1>9. G - c * k = c * (F - k) /\ G # c * F
  <2>1. SumOf(g, T) # c * SumOf(f, T)
    BY <1>1
  <2>. HIDE DEF Bad
  <2>. QED  BY <1>5, <1>6, <1>7, <2>1
<1>. QED
  <2>. HIDE DEF Bad
  <2>. PICK p \in Int : p = c * F
    OBVIOUS
  <2>. PICK q \in Int : q = c * k
    OBVIOUS
  <2>1. c * (F - k) = p - q
    OBVIOUS
  <2>2. G - q = p - q /\ G # p
    BY <1>9, <2>1
  <2>3. \A x, y, z \in Int : x - y = z - y => x = z
    OBVIOUS
  <2>. QED  BY <2>2, <2>3

\* R is the names of the members of S, no two of which have one name.
Names(name, S, R) ==
  /\ \A x, y \in S : name[x] = name[y] => x = y
  /\ \A x \in S : name[x] \in R
  /\ \A n \in R : \E x \in S : n = name[x]

\* A sum over the names of things is the sum over the things, when no two have one name.
LEMMA SumRenamed ==
  ASSUME NEW S, IsFiniteSet(S), NEW name, NEW R, Names(name, S, R),
         NEW f, NEW g, \A x \in S : f[name[x]] \in Int /\ g[x] = f[name[x]]
  PROVE  IsFiniteSet(R) /\ SumOf(f, R) = SumOf(g, S)
<1>. DEFINE NamesOf(T) == {name[x] : x \in T}
            Good(T) == IsFiniteSet(NamesOf(T)) /\ SumOf(f, NamesOf(T)) = SumOf(g, T)
            Bad == {T \in SUBSET S : ~Good(T)}
<1>. SUFFICES ASSUME Bad # {} PROVE FALSE
  <2>1. S \in SUBSET S /\ R = NamesOf(S)
    BY DEF Names
  <2>. QED  BY <2>1
<1>1. PICK T \in Bad : \A V \in Bad : V \subseteq T => V = T
  <2>1. Bad \subseteq SUBSET S
    OBVIOUS
  <2>. HIDE DEF Bad
  <2>. QED  BY <2>1, MinimalSubset
<1>2. IsFiniteSet(T) /\ T \subseteq S /\ ~Good(T)
  BY <1>1, FS_Subset
<1>3. T # {}
  <2>. SUFFICES ASSUME T = {} PROVE FALSE
    OBVIOUS
  <2>1. NamesOf(T) = {}
    OBVIOUS
  <2>2. SumOf(f, {}) = 0 /\ SumOf(g, T) = 0 /\ IsFiniteSet({})
    BY SumEmpty, FS_EmptySet
  <2>. QED  BY <1>2, <2>1, <2>2
<1>4. PICK a \in T : TRUE
  BY <1>3
<1>. DEFINE V == T \ {a}
<1>5. Good(V) /\ IsFiniteSet(V)
  <2>1. V \in SUBSET S /\ V # T /\ V \subseteq T
    BY <1>2, <1>4
  <2>2. V \notin Bad
    BY <1>1, <2>1
  <2>. QED  BY <1>2, <2>1, <2>2, FS_Subset
<1>6. NamesOf(T) = NamesOf(V) \cup {name[a]} /\ name[a] \notin NamesOf(V)
  BY <1>2, <1>4 DEF Names
<1>7. /\ \A n \in NamesOf(V) : f[n] \in Int
      /\ f[name[a]] \in Int /\ g[a] = f[name[a]]
      /\ \A x \in V : g[x] \in Int
  BY <1>2, <1>4
<1>8. V \cup {a} = T /\ a \notin V
  BY <1>4
<1>9. SumOf(g, T) = SumOf(g, V) + g[a]
  <2>1. g[a] \in Int
    BY <1>7
  <2>. HIDE DEF V, NamesOf, Bad, Good
  <2>2. SumOf(g, V \cup {a}) = SumOf(g, V) + g[a]
    BY <1>5, <1>7, <1>8, <2>1, SumAdd
  <2>. QED  BY <1>8, <2>2
<1>10. PICK N : N = NamesOf(V)
  OBVIOUS
<1>11. PICK top : top = name[a]
  OBVIOUS
<1>12. IsFiniteSet(N) /\ SumOf(f, N) = SumOf(g, V)
  BY <1>5, <1>10
<1>13. top \notin N /\ f[top] \in Int /\ \A n \in N : f[n] \in Int
  BY <1>6, <1>7, <1>10, <1>11
<1>14. SumOf(f, N \cup {top}) = SumOf(f, N) + f[top]
  <2>. HIDE DEF V, NamesOf, Bad, Good
  <2>. QED  BY <1>12, <1>13, SumAdd
<1>15. IsFiniteSet(N \cup {top})
  <2>. HIDE DEF V, NamesOf, Bad, Good
  <2>. QED  BY <1>12, FS_AddElement
<1>16. NamesOf(T) = N \cup {top}
  BY <1>6, <1>10, <1>11
<1>. QED
  <2>. HIDE DEF V, NamesOf, Bad
  <2>. QED  BY <1>2, <1>7, <1>9, <1>11, <1>12, <1>14, <1>15, <1>16
=============================================================================
