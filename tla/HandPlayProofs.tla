---------------------------- MODULE HandPlayProofs ----------------------------
(***************************************************************************)
(* Proofs about HandRules, HandPlay and HandStats for any table, blinds,   *)
(* stacks, seeds and showdown orders.  First what a sum over seats or pots *)
(* is, then the settlement (the pots hold what was put in), then the       *)
(* betting (who may still act, and what the seats have put in), then the   *)
(* hand, then what the replay of a stream of events computes, and last     *)
(* what the two projections of a hand's statistics count.                  *)
(***************************************************************************)
EXTENDS HandStats, FiniteSetTheorems, NaturalsInduction, WellFoundedInduction, TLAPS

(***************************************************************************)
(* Sums over a finite set.                                                 *)
(***************************************************************************)
LEMMA LeastSubset ==
    ASSUME NEW S, IsFiniteSet(S), NEW B, B \subseteq SUBSET S, B # {}
    PROVE  \E T \in B : \A U \in B : ~(U \subseteq T /\ U # T)
<1>1. IsWellFoundedOn(StrictSubsetOrdering(S), SUBSET S)
  BY FS_StrictSubsetOrderingWellFounded, FS_FiniteSubsetsOfFinite
<1>2. \E T \in B : \A U \in B : ~(<<U, T>> \in StrictSubsetOrdering(S))
  BY <1>1, WFMin, Zenon
<1>3. PICK T \in B : \A U \in B : ~(<<U, T>> \in StrictSubsetOrdering(S))
  BY <1>2
<1>4. ASSUME NEW U \in B, U \subseteq T, U # T PROVE FALSE
  <2>1. <<U, T>> \in StrictSubsetOrdering(S)
    BY <1>4 DEF StrictSubsetOrdering
  <2>2. QED
    BY <2>1, <1>3
<1>5. QED
  BY <1>4

LEMMA SubsetInduction ==
    ASSUME NEW S, IsFiniteSet(S), NEW A,
           \A T \in SUBSET S : (\A U \in SUBSET T : U # T => U \in A) => T \in A
    PROVE  SUBSET S \subseteq A
<1> DEFINE B == {T \in SUBSET S : T \notin A}
<1>1. SUFFICES ASSUME ~(SUBSET S \subseteq A) PROVE FALSE
  OBVIOUS
<1>2. B \subseteq SUBSET S /\ B # {}
  BY <1>1
<1>3. PICK T \in B : \A U \in B : ~(U \subseteq T /\ U # T)
  <2> HIDE DEF B
  <2>1. QED
    BY <1>2, LeastSubset
<1>4. QED
  BY <1>3

Pick(S) == CHOOSE x \in S : TRUE
IsSum(f, S, g) == g = [s \in SUBSET S |-> IF s = {} THEN 0 ELSE f[Pick(s)] + g[s \ {Pick(s)}]]

LEMMA PickIn == ASSUME NEW S, S # {} PROVE Pick(S) \in S
  BY DEF Pick

LEMMA SumUnfold ==
    ASSUME NEW f, NEW S
    PROVE  SumFunctionOnSet(f, S) = (CHOOSE g : IsSum(f, S, g))[S]
  BY DEF SumFunctionOnSet, FoldFunctionOnSet, MapThenFoldSet, IsSum, Pick

LEMMA SumAgree ==
    ASSUME NEW f, NEW S, NEW T, NEW g, NEW h, IsFiniteSet(S), T \subseteq S,
           IsSum(f, S, g), IsSum(f, T, h)
    PROVE  g[T] = h[T]
<1> DEFINE A == {U \in SUBSET T : g[U] = h[U]}
<1>1. IsFiniteSet(T)
  BY FS_Subset
<1>2. ASSUME NEW U \in SUBSET T, \A V \in SUBSET U : V # U => V \in A
      PROVE  U \in A
  <2>1. CASE U = {}
    BY <2>1 DEF IsSum
  <2>2. CASE U # {}
    <3>1. Pick(U) \in U
      BY <2>2, PickIn
    <3>2. U \ {Pick(U)} \in A
      BY <3>1, <1>2
    <3>3. g[U] = f[Pick(U)] + g[U \ {Pick(U)}] /\ h[U] = f[Pick(U)] + h[U \ {Pick(U)}]
      BY <2>2 DEF IsSum
    <3>4. QED
      BY <3>2, <3>3
  <2>3. QED
    BY <2>1, <2>2
<1>3. SUBSET T \subseteq A
  <2> HIDE DEF A
  <2>1. QED
    BY <1>1, <1>2, SubsetInduction
<1>4. QED
  BY <1>3

LEMMA SumExists ==
    ASSUME NEW f, NEW S, IsFiniteSet(S)
    PROVE  \E g : IsSum(f, S, g)
<1> DEFINE A == {U \in SUBSET S : \E g : IsSum(f, U, g)}
<1>1. ASSUME NEW T \in SUBSET S, \A U \in SUBSET T : U # T => U \in A
      PROVE  T \in A
  <2> DEFINE G == [U \in SUBSET T |-> CHOOSE g : IsSum(f, U, g)]
             V(s) == IF s = {} THEN 0 ELSE f[Pick(s)] + G[s \ {Pick(s)}][s \ {Pick(s)}]
             h == [s \in SUBSET T |-> V(s)]
  <2>1. ASSUME NEW U \in SUBSET T, U # T PROVE IsSum(f, U, G[U])
    <3>1. \E g : IsSum(f, U, g)
      BY <2>1, <1>1
    <3>2. IsSum(f, U, CHOOSE g : IsSum(f, U, g))
      BY <3>1
    <3>3. QED
      BY <3>2
  <2>2. ASSUME NEW s \in SUBSET T, s # T PROVE h[s] = G[s][s]
    <3>1. IsSum(f, s, G[s]) /\ IsFiniteSet(s)
      BY <2>1, <2>2, FS_Subset
    <3>2. CASE s = {}
      BY <3>1, <3>2 DEF IsSum
    <3>3. CASE s # {}
      <4> DEFINE r == s \ {Pick(s)}
      <4>1. Pick(s) \in s /\ r \in SUBSET s /\ r \in SUBSET T /\ r # T
        BY <3>3, PickIn
      <4>2. IsSum(f, r, G[r])
        BY <4>1, <2>1
      <4>3. G[s][r] = G[r][r]
        <5>1. IsFiniteSet(s) /\ r \subseteq s
          BY <3>1
        <5>2. IsSum(f, s, G[s]) /\ IsSum(f, r, G[r])
          BY <3>1, <4>2
        <5> HIDE DEF r, G
        <5>3. QED
          BY <5>1, <5>2, SumAgree
      <4>4. G[s][s] = f[Pick(s)] + G[s][r]
        <5> HIDE DEF G
        <5>1. QED
          BY <3>1, <3>3 DEF IsSum
      <4>5. QED
        BY <4>3, <4>4, <3>3
    <3>4. QED
      BY <3>2, <3>3
  <2>3. h = [s \in SUBSET T |-> IF s = {} THEN 0 ELSE f[Pick(s)] + h[s \ {Pick(s)}]]
    <3>1. ASSUME NEW s \in SUBSET T, s # {}
          PROVE  V(s) = f[Pick(s)] + h[s \ {Pick(s)}]
      <4>1. Pick(s) \in s /\ s \ {Pick(s)} \in SUBSET T /\ s \ {Pick(s)} # T
        BY <3>1, PickIn
      <4>2. h[s \ {Pick(s)}] = G[s \ {Pick(s)}][s \ {Pick(s)}]
        <5> HIDE DEF h, G
        <5>1. QED
          BY <4>1, <2>2
      <4>3. QED
        BY <4>2, <3>1
    <3>2. ASSUME NEW s \in SUBSET T
          PROVE  V(s) = IF s = {} THEN 0 ELSE f[Pick(s)] + h[s \ {Pick(s)}]
      <4>1. s = {} => V(s) = 0
        OBVIOUS
      <4> HIDE DEF V, h
      <4>2. QED
        BY <3>1, <4>1
    <3>3. h = [s \in SUBSET T |-> V(s)]
      OBVIOUS
    <3>4. QED
      <4> HIDE DEF V, h
      <4>1. QED
        BY <3>2, <3>3
  <2>4. IsSum(f, T, h)
    <3> HIDE DEF h
    <3>1. QED
      BY <2>3 DEF IsSum
  <2>5. QED
    <3> HIDE DEF h
    <3>1. QED
      BY <2>4
<1>2. SUBSET S \subseteq A
  <2> HIDE DEF A
  <2>1. QED
    BY <1>1, SubsetInduction
<1>3. QED
  BY <1>2

LEMMA SumDef ==
    ASSUME NEW f, NEW S, IsFiniteSet(S)
    PROVE  /\ S = {} => SumFunctionOnSet(f, S) = 0
           /\ S # {} => SumFunctionOnSet(f, S) = f[Pick(S)] + SumFunctionOnSet(f, S \ {Pick(S)})
<1> DEFINE g(s) == CHOOSE h : IsSum(f, s, h)
<1>1. ASSUME NEW T \in SUBSET S PROVE IsFiniteSet(T) /\ IsSum(f, T, g(T)) /\ SumFunctionOnSet(f, T) = g(T)[T]
  <2>1. IsFiniteSet(T)
    BY FS_Subset
  <2>2. \E h : IsSum(f, T, h)
    BY <2>1, SumExists
  <2>3. IsSum(f, T, CHOOSE h : IsSum(f, T, h))
    BY <2>2
  <2>4. QED
    BY <2>1, <2>3, SumUnfold
<1> HIDE DEF g
<1>2. IsSum(f, S, g(S))
  BY <1>1
<1>3. CASE S = {}
  BY <1>1, <1>2, <1>3 DEF IsSum
<1>4. CASE S # {}
  <2> DEFINE r == S \ {Pick(S)}
  <2>1. r \in SUBSET S
    OBVIOUS
  <2>2. g(S)[r] = g(r)[r]
    <3>1. IsSum(f, S, g(S)) /\ IsSum(f, r, g(r))
      BY <1>2, <2>1, <1>1
    <3> HIDE DEF r
    <3>2. QED
      BY <2>1, <3>1, SumAgree
  <2>3. g(S)[S] = f[Pick(S)] + g(S)[r]
    BY <1>2, <1>4 DEF IsSum
  <2>4. QED
    BY <2>1, <2>2, <2>3, <1>1, <1>4
<1>5. QED
  BY <1>3, <1>4

IntOn(f, S) == \A s \in S : f[s] \in Int

LEMMA SumInt ==
    ASSUME NEW f, NEW S, IsFiniteSet(S), IntOn(f, S)
    PROVE  SumFunctionOnSet(f, S) \in Int
<1> DEFINE A == {U \in SUBSET S : SumFunctionOnSet(f, U) \in Int}
<1>1. ASSUME NEW T \in SUBSET S, \A U \in SUBSET T : U # T => U \in A
      PROVE  T \in A
  <2>1. IsFiniteSet(T)
    BY FS_Subset
  <2>2. CASE T = {}
    <3>1. SumFunctionOnSet(f, T) = 0
      BY <2>1, <2>2, SumDef
    <3>2. QED
      BY <3>1
  <2>3. CASE T # {}
    <3>1. Pick(T) \in T /\ T \ {Pick(T)} \in A
      BY <2>3, PickIn, <1>1
    <3>2. SumFunctionOnSet(f, T) = f[Pick(T)] + SumFunctionOnSet(f, T \ {Pick(T)})
      BY <2>1, <2>3, SumDef
    <3>3. QED
      BY <3>1, <3>2 DEF IntOn
  <2>4. QED
    BY <2>2, <2>3
<1>2. SUBSET S \subseteq A
  <2> HIDE DEF A
  <2>1. QED
    BY <1>1, SubsetInduction
<1>3. QED
  BY <1>2

\* A sum may be taken apart at any element, not only at the one CHOOSE picks.
LEMMA SumTake ==
    ASSUME NEW f, NEW S, IsFiniteSet(S), IntOn(f, S), NEW x \in S
    PROVE  SumFunctionOnSet(f, S) = f[x] + SumFunctionOnSet(f, S \ {x})
<1> DEFINE Sm(U) == SumFunctionOnSet(f, U)
           A == {U \in SUBSET S : \A y \in U : Sm(U) = f[y] + Sm(U \ {y})}
<1>0. \A U \in SUBSET S : IsFiniteSet(U) /\ Sm(U) \in Int
  BY FS_Subset, SumInt DEF IntOn
<1>1. ASSUME NEW T \in SUBSET S, \A U \in SUBSET T : U # T => U \in A
      PROVE  T \in A
  <2> SUFFICES ASSUME NEW y \in T PROVE Sm(T) = f[y] + Sm(T \ {y})
    OBVIOUS
  <2> DEFINE c == Pick(T)
  <2>1. c \in T /\ Sm(T) = f[c] + Sm(T \ {c})
    BY <1>0, SumDef, PickIn
  <2>2. CASE y # c
    <3>1. T \ {c} \in A /\ T \ {y} \in A
      BY <2>1, <1>1
    <3>2. Sm(T \ {c}) = f[y] + Sm((T \ {c}) \ {y}) /\ Sm(T \ {y}) = f[c] + Sm((T \ {y}) \ {c})
      BY <3>1, <2>1, <2>2
    <3>3. (T \ {c}) \ {y} = (T \ {y}) \ {c}
      OBVIOUS
    <3>4. f[c] \in Int /\ f[y] \in Int /\ Sm((T \ {y}) \ {c}) \in Int
      BY <2>1, <1>0 DEF IntOn
    <3>5. Sm(T) = f[c] + (f[y] + Sm((T \ {y}) \ {c})) /\ Sm(T \ {y}) = f[c] + Sm((T \ {y}) \ {c})
      BY <2>1, <3>2, <3>3
    <3> HIDE DEF Sm, c
    <3>6. QED
      BY <3>4, <3>5
  <2>3. QED
    BY <2>1, <2>2
<1>2. SUBSET S \subseteq A
  <2> HIDE DEF A
  <2>1. QED
    BY <1>1, SubsetInduction
<1>3. QED
  BY <1>2

LEMMA SumTakes ==
    ASSUME NEW f, NEW L, IsFiniteSet(L), IntOn(f, L)
    PROVE  \A S \in SUBSET L : \A x \in S :
              SumFunctionOnSet(f, S) = f[x] + SumFunctionOnSet(f, S \ {x})
<1>1. ASSUME NEW S \in SUBSET L, NEW x \in S
      PROVE  SumFunctionOnSet(f, S) = f[x] + SumFunctionOnSet(f, S \ {x})
  <2>1. IsFiniteSet(S) /\ IntOn(f, S)
    BY FS_Subset DEF IntOn
  <2>2. QED
    BY <2>1, SumTake
<1>2. QED
  BY <1>1

LEMMA SumEmpty == ASSUME NEW f PROVE SumFunctionOnSet(f, {}) = 0
  BY SumDef, FS_EmptySet

\* Induction on the terms of a sum.
LEMMA SumInduction ==
    ASSUME NEW S, IsFiniteSet(S), NEW A, {} \in A,
           \A T \in SUBSET S : \A x \in T : T \ {x} \in A => T \in A
    PROVE  S \in A
<1>1. ASSUME NEW T \in SUBSET S, \A U \in SUBSET T : U # T => U \in A
      PROVE  T \in A
  <2>1. CASE T = {}
    BY <2>1
  <2>2. ASSUME NEW x \in T PROVE T \in A
    <3>1. T \ {x} \in SUBSET T /\ T \ {x} # T
      OBVIOUS
    <3>2. T \ {x} \in A
      BY <3>1, <1>1
    <3>3. QED
      BY <3>2
  <2>3. QED
    BY <2>1, <2>2
<1>2. QED
  BY <1>1, SubsetInduction

\* Two functions whose terms are related by f = g + h.
LEMMA SumPlus ==
    ASSUME NEW f, NEW g, NEW h, NEW S, IsFiniteSet(S), IntOn(g, S), IntOn(h, S),
           \A s \in S : f[s] = g[s] + h[s]
    PROVE  SumFunctionOnSet(f, S) = SumFunctionOnSet(g, S) + SumFunctionOnSet(h, S)
<1> DEFINE F(T) == SumFunctionOnSet(f, T)
           G(T) == SumFunctionOnSet(g, T)
           H(T) == SumFunctionOnSet(h, T)
           A == {T \in SUBSET S : F(T) = G(T) + H(T)}
<1>1. {} \in A
  BY SumEmpty
<1>2. ASSUME NEW T \in SUBSET S, NEW x \in T, T \ {x} \in A PROVE T \in A
  <2>1. IsFiniteSet(T) /\ IsFiniteSet(T \ {x})
    BY FS_Subset
  <2>2. IntOn(f, T) /\ IntOn(g, T) /\ IntOn(h, T) /\ IntOn(g, T \ {x}) /\ IntOn(h, T \ {x})
    BY DEF IntOn
  <2>3. G(T \ {x}) \in Int /\ H(T \ {x}) \in Int /\ g[x] \in Int /\ h[x] \in Int
    BY <2>1, <2>2, SumInt DEF IntOn
  <2>4. F(T) = f[x] + F(T \ {x}) /\ G(T) = g[x] + G(T \ {x}) /\ H(T) = h[x] + H(T \ {x})
    BY <2>1, <2>2, SumTake
  <2>5. F(T \ {x}) = G(T \ {x}) + H(T \ {x}) /\ f[x] = g[x] + h[x]
    BY <1>2
  <2>6. F(T) = G(T) + H(T)
    <3> HIDE DEF F, G, H
    <3>1. QED
      BY <2>3, <2>4, <2>5
  <2>7. QED
    BY <2>6
<1>3. S \in A
  <2> HIDE DEF A
  <2>1. QED
    BY <1>1, <1>2, SumInduction
<1>4. QED
  BY <1>3

\* Functions that agree have the same sum; a larger one has a larger sum.
LEMMA SumMonotone ==
    ASSUME NEW f, NEW g, NEW S, IsFiniteSet(S), IntOn(f, S), IntOn(g, S),
           \A s \in S : f[s] <= g[s]
    PROVE  SumFunctionOnSet(f, S) <= SumFunctionOnSet(g, S)
<1> DEFINE F(T) == SumFunctionOnSet(f, T)
           G(T) == SumFunctionOnSet(g, T)
           A == {T \in SUBSET S : F(T) <= G(T)}
<1>1. {} \in A
  BY SumEmpty
<1>2. ASSUME NEW T \in SUBSET S, NEW x \in T, T \ {x} \in A PROVE T \in A
  <2>1. IsFiniteSet(T) /\ IsFiniteSet(T \ {x})
    BY FS_Subset
  <2>2. IntOn(f, T) /\ IntOn(g, T) /\ IntOn(f, T \ {x}) /\ IntOn(g, T \ {x})
    BY DEF IntOn
  <2>3. F(T \ {x}) \in Int /\ G(T \ {x}) \in Int /\ f[x] \in Int /\ g[x] \in Int
    BY <2>1, <2>2, SumInt DEF IntOn
  <2>4. F(T) = f[x] + F(T \ {x}) /\ G(T) = g[x] + G(T \ {x})
    BY <2>1, <2>2, SumTake
  <2>5. F(T \ {x}) <= G(T \ {x}) /\ f[x] <= g[x]
    BY <1>2
  <2>6. F(T) <= G(T)
    <3> HIDE DEF F, G
    <3>1. QED
      BY <2>3, <2>4, <2>5
  <2>7. QED
    BY <2>6
<1>3. S \in A
  <2> HIDE DEF A
  <2>1. QED
    BY <1>1, <1>2, SumInduction
<1>4. QED
  BY <1>3

LEMMA SumSame ==
    ASSUME NEW f, NEW g, NEW S, IsFiniteSet(S), IntOn(f, S), \A s \in S : f[s] = g[s]
    PROVE  SumFunctionOnSet(f, S) = SumFunctionOnSet(g, S)
<1>1. IntOn(g, S) /\ \A s \in S : f[s] <= g[s] /\ g[s] <= f[s]
  BY DEF IntOn
<1>2. SumFunctionOnSet(f, S) <= SumFunctionOnSet(g, S) /\ SumFunctionOnSet(g, S) <= SumFunctionOnSet(f, S)
  BY <1>1, SumMonotone
<1>3. SumFunctionOnSet(f, S) \in Int /\ SumFunctionOnSet(g, S) \in Int
  BY <1>1, SumInt
<1>4. QED
  BY <1>2, <1>3

LEMMA SumFrom ==
    ASSUME NEW f, NEW g, NEW S, NEW x \in S, IsFiniteSet(S), IntOn(f, S), IntOn(g, S),
           \A s \in S \ {x} : f[s] = g[s]
    PROVE  SumFunctionOnSet(f, S) = SumFunctionOnSet(g, S) + (f[x] - g[x])
<1>1. IsFiniteSet(S \ {x}) /\ IntOn(f, S \ {x}) /\ IntOn(g, S \ {x})
  BY FS_Subset DEF IntOn
<1>2. SumFunctionOnSet(f, S \ {x}) = SumFunctionOnSet(g, S \ {x})
  BY <1>1, SumSame
<1>3. /\ SumFunctionOnSet(f, S) = f[x] + SumFunctionOnSet(f, S \ {x})
      /\ SumFunctionOnSet(g, S) = g[x] + SumFunctionOnSet(g, S \ {x})
  BY SumTake
<1>4. SumFunctionOnSet(g, S \ {x}) \in Int /\ f[x] \in Int /\ g[x] \in Int
  BY <1>1, SumInt DEF IntOn
<1>5. QED
  BY <1>2, <1>3, <1>4

LEMMA SumZero ==
    ASSUME NEW f, NEW S, IsFiniteSet(S), \A s \in S : f[s] = 0
    PROVE  SumFunctionOnSet(f, S) = 0
<1> DEFINE A == {T \in SUBSET S : SumFunctionOnSet(f, T) = 0}
<1>1. {} \in A
  BY SumEmpty
<1>2. ASSUME NEW T \in SUBSET S, NEW x \in T, T \ {x} \in A PROVE T \in A
  <2>1. IsFiniteSet(T) /\ IntOn(f, T)
    BY FS_Subset DEF IntOn
  <2>2. SumFunctionOnSet(f, T) = f[x] + SumFunctionOnSet(f, T \ {x})
    BY <2>1, SumTake
  <2>3. QED
    BY <2>2, <1>2
<1>3. S \in A
  <2> HIDE DEF A
  <2>1. QED
    BY <1>1, <1>2, SumInduction
<1>4. QED
  BY <1>3

\* Part of a sum of naturals is at most the whole.
LEMMA SumPart ==
    ASSUME NEW f, NEW S, NEW T, IsFiniteSet(S), T \subseteq S, \A s \in S : f[s] \in Nat
    PROVE  0 <= SumFunctionOnSet(f, T) /\ SumFunctionOnSet(f, T) <= SumFunctionOnSet(f, S)
<1> DEFINE g == [s \in S |-> IF s \in T THEN f[s] ELSE 0]
           G(U) == SumFunctionOnSet(g, U)
           A == {U \in SUBSET S : /\ 0 <= SumFunctionOnSet(f, U \cap T)
                                  /\ SumFunctionOnSet(f, U \cap T) <= SumFunctionOnSet(f, U)}
<1>1. {} \in A
  <2>1. {} \cap T = {}
    OBVIOUS
  <2>2. QED
    BY <2>1, SumEmpty
<1>2. ASSUME NEW U \in SUBSET S, NEW x \in U, U \ {x} \in A PROVE U \in A
  <2> DEFINE V == U \ {x}
  <2>1. IsFiniteSet(U) /\ IsFiniteSet(V) /\ IsFiniteSet(U \cap T) /\ IsFiniteSet(V \cap T)
    BY FS_Subset
  <2>2. IntOn(f, U) /\ IntOn(f, V) /\ IntOn(f, U \cap T) /\ IntOn(f, V \cap T)
    BY DEF IntOn
  <2>3. SumFunctionOnSet(f, V) \in Int /\ SumFunctionOnSet(f, V \cap T) \in Int /\ f[x] \in Nat
    BY <2>1, <2>2, SumInt
  <2>4. SumFunctionOnSet(f, U) = f[x] + SumFunctionOnSet(f, V)
    BY <2>1, <2>2, SumTake
  <2>5. 0 <= SumFunctionOnSet(f, V \cap T) /\ SumFunctionOnSet(f, V \cap T) <= SumFunctionOnSet(f, V)
    BY <1>2
  <2>6. CASE x \in T
    <3>1. (U \cap T) \ {x} = V \cap T /\ x \in U \cap T
      BY <2>6
    <3>2. SumFunctionOnSet(f, U \cap T) = f[x] + SumFunctionOnSet(f, V \cap T)
      BY <2>1, <2>2, <3>1, SumTake
    <3>3. 0 <= SumFunctionOnSet(f, U \cap T) /\ SumFunctionOnSet(f, U \cap T) <= SumFunctionOnSet(f, U)
      <4> HIDE DEF V
      <4>1. QED
        BY <2>3, <2>4, <2>5, <3>2
    <3>4. QED
      BY <3>3
  <2>7. CASE x \notin T
    <3>1. U \cap T = V \cap T
      BY <2>7
    <3>2. 0 <= SumFunctionOnSet(f, U \cap T) /\ SumFunctionOnSet(f, U \cap T) <= SumFunctionOnSet(f, U)
      <4> HIDE DEF V
      <4>1. QED
        BY <2>3, <2>4, <2>5, <3>1
    <3>3. QED
      BY <3>2
  <2>8. QED
    BY <2>6, <2>7
<1>3. S \in A
  <2> HIDE DEF A
  <2>1. QED
    BY <1>1, <1>2, SumInduction
<1>4. S \cap T = T
  OBVIOUS
<1>5. QED
  BY <1>3, <1>4

\* Adding up per owner adds up everything.
Part(a, g, L, s) == SumFunctionOnSet(a, {l \in L : g[l] = s})

LEMMA SumByOwner ==
    ASSUME NEW S, NEW L, NEW a, NEW g, NEW w, IsFiniteSet(S), IsFiniteSet(L), IntOn(a, L),
           \A l \in L : g[l] \in S, \A s \in S : w[s] = Part(a, g, L, s)
    PROVE  SumFunctionOnSet(w, S) = SumFunctionOnSet(a, L)
<1> DEFINE W(T) == [s \in S |-> Part(a, g, T, s)]
           A == {T \in SUBSET L : SumFunctionOnSet(W(T), S) = SumFunctionOnSet(a, T)}
<1>0. ASSUME NEW T \in SUBSET L PROVE IsFiniteSet(T) /\ IntOn(a, T) /\ IntOn(W(T), S)
  <2>1. IsFiniteSet(T) /\ IntOn(a, T)
    BY FS_Subset DEF IntOn
  <2>2. ASSUME NEW s \in S PROVE Part(a, g, T, s) \in Int
    <3> DEFINE U == {l \in T : g[l] = s}
    <3>1. IsFiniteSet(U) /\ IntOn(a, U)
      BY <2>1, FS_Subset DEF IntOn
    <3>2. QED
      BY <3>1, SumInt DEF Part
  <2>3. QED
    BY <2>1, <2>2 DEF IntOn
<1>1. {} \in A
  <2>1. ASSUME NEW s \in S PROVE Part(a, g, {}, s) = 0
    <3>1. {l \in {} : g[l] = s} = {}
      OBVIOUS
    <3>2. QED
      BY <3>1, SumEmpty DEF Part
  <2>2. SumFunctionOnSet(W({}), S) = 0
    BY <2>1, SumZero
  <2>3. QED
    BY <2>2, SumEmpty
<1>2. ASSUME NEW T \in SUBSET L, NEW x \in T, T \ {x} \in A PROVE T \in A
  <2> DEFINE V == T \ {x}
             o == g[x]
  <2>1. V \in SUBSET L /\ o \in S
    OBVIOUS
  <2>2. ASSUME NEW s \in S, s # o PROVE Part(a, g, T, s) = Part(a, g, V, s)
    <3>1. {l \in T : g[l] = s} = {l \in V : g[l] = s}
      BY <2>2
    <3>2. QED
      BY <3>1 DEF Part
  <2>3. Part(a, g, T, o) = a[x] + Part(a, g, V, o)
    <3> DEFINE U == {l \in T : g[l] = o}
    <3>1. IsFiniteSet(U) /\ IntOn(a, U) /\ x \in U
      BY <1>0, FS_Subset DEF IntOn
    <3>2. U \ {x} = {l \in V : g[l] = o}
      OBVIOUS
    <3>3. SumFunctionOnSet(a, U) = a[x] + SumFunctionOnSet(a, U \ {x})
      <4> HIDE DEF U
      <4>1. QED
        BY <3>1, SumTake
    <3>4. QED
      BY <3>2, <3>3 DEF Part
  <2>4. SumFunctionOnSet(W(T), S) = SumFunctionOnSet(W(V), S) + (W(T)[o] - W(V)[o])
    <3>1. IntOn(W(T), S) /\ IntOn(W(V), S)
      BY <1>0, <2>1
    <3>2. \A s \in S \ {o} : W(T)[s] = W(V)[s]
      BY <2>2
    <3> HIDE DEF W, o, V
    <3>3. QED
      BY <2>1, <3>1, <3>2, SumFrom
  <2>5. W(T)[o] = a[x] + W(V)[o] /\ a[x] \in Int /\ W(V)[o] \in Int
    <3>1. W(T)[o] = a[x] + W(V)[o]
      BY <2>1, <2>3
    <3>2. IntOn(W(V), S) /\ IntOn(a, T)
      BY <1>0, <2>1
    <3> HIDE DEF W, V, o
    <3>3. QED
      BY <3>1, <3>2, <2>1 DEF IntOn
  <2>6. SumFunctionOnSet(W(V), S) = SumFunctionOnSet(a, V)
    BY <1>2
  <2>7. SumFunctionOnSet(a, T) = a[x] + SumFunctionOnSet(a, V) /\ SumFunctionOnSet(a, V) \in Int
    <3>1. IsFiniteSet(T) /\ IntOn(a, T) /\ IsFiniteSet(V) /\ IntOn(a, V)
      BY <1>0, <2>1
    <3>2. QED
      BY <3>1, SumTake, SumInt
  <2>8. SumFunctionOnSet(W(T), S) = SumFunctionOnSet(a, T)
    <3> HIDE DEF W, V, o
    <3>1. QED
      BY <2>4, <2>5, <2>6, <2>7
  <2>9. QED
    BY <2>8
<1>3. L \in A
  <2> HIDE DEF A
  <2>1. QED
    BY <1>1, <1>2, SumInduction
<1>4. SumFunctionOnSet(w, S) = SumFunctionOnSet(W(L), S)
  <2>1. IntOn(W(L), S) /\ \A s \in S : W(L)[s] = w[s]
    BY <1>0
  <2> HIDE DEF W
  <2>2. QED
    BY <2>1, SumSame
<1>5. QED
  BY <1>3, <1>4

LEMMA MaxIn ==
    ASSUME NEW S, IsFiniteSet(S), S # {}, \A x \in S : x \in Int
    PROVE  Max(S) \in S /\ \A y \in S : Max(S) >= y
<1> DEFINE A == {T \in SUBSET S : T # {} => \E x \in T : \A y \in T : x >= y}
<1>1. {} \in A
  OBVIOUS
<1>2. ASSUME NEW T \in SUBSET S, NEW x \in T, T \ {x} \in A PROVE T \in A
  <2>1. CASE T \ {x} = {}
    <3>1. T = {x}
      BY <2>1
    <3>2. QED
      BY <3>1
  <2>2. CASE T \ {x} # {}
    <3>1. PICK m \in T \ {x} : \A y \in T \ {x} : m >= y
      BY <2>2, <1>2
    <3>2. m \in Int /\ x \in Int /\ \A y \in T : y \in Int
      OBVIOUS
    <3>3. CASE m >= x
      BY <3>1, <3>3
    <3>4. CASE x > m
      <4>1. \A y \in T : x >= y
        BY <3>1, <3>2, <3>4
      <4>2. QED
        BY <4>1
    <3>5. QED
      BY <3>2, <3>3, <3>4
  <2>3. QED
    BY <2>1, <2>2
<1>3. S \in A
  <2> HIDE DEF A
  <2>1. QED
    BY <1>1, <1>2, SumInduction
<1>4. \E x \in S : \A y \in S : x >= y
  BY <1>3
<1>5. QED
  BY <1>4 DEF Max

LEMMA ImageFinite ==
    ASSUME NEW f, NEW S, IsFiniteSet(S)
    PROVE  IsFiniteSet({f[x] : x \in S})
<1> DEFINE A == {T \in SUBSET S : IsFiniteSet({f[x] : x \in T})}
<1>1. {} \in A
  <2>1. {f[x] : x \in {}} = {}
    OBVIOUS
  <2>2. QED
    BY <2>1, FS_EmptySet
<1>2. ASSUME NEW T \in SUBSET S, NEW x \in T, T \ {x} \in A PROVE T \in A
  <2>1. {f[y] : y \in T} = {f[y] : y \in T \ {x}} \cup {f[x]}
    OBVIOUS
  <2>2. IsFiniteSet({f[y] : y \in T \ {x}})
    BY <1>2
  <2>3. IsFiniteSet({f[y] : y \in T \ {x}} \cup {f[x]})
    BY <2>2, FS_AddElement
  <2>4. QED
    BY <2>1, <2>3
<1>3. S \in A
  <2> HIDE DEF A
  <2>1. QED
    BY <1>1, <1>2, SumInduction
<1>4. QED
  BY <1>3

FactsOK(f) ==
    /\ f.button \in f.active /\ f.active \subseteq Seats /\ f.stacks \in [Seats -> Nat]
    /\ Cardinality(f.active) >= 2 /\ \A s \in f.active : f.stacks[s] >= BigBlind
PaidBy(f, st, s) == f.stacks[s] - st.stack[s]
TopLives(f, st) == \E w \in st.live : \A s \in f.active : PaidBy(f, st, s) <= PaidBy(f, st, w)

LEMMA SeatsFinite == IsFiniteSet(Seats) /\ \A S \in SUBSET Seats : IsFiniteSet(S)
<1>1. IsFiniteSet(Seats)
  BY HandRulesAssumption, FS_Interval DEF Seats
<1>2. QED
  BY <1>1, FS_Subset

\* Of finitely many seats, one is ranked highest.
LEMMA BestExists ==
    ASSUME NEW E, IsFiniteSet(E), E # {}, NEW r, IntOn(r, E)
    PROVE  \E s \in E : \A t \in E : r[s] >= r[t]
<1> DEFINE R == {r[s] : s \in E}
<1>1. IsFiniteSet(R)
  BY ImageFinite
<1>2. R # {} /\ \A x \in R : x \in Int
  BY DEF IntOn
<1>3. Max(R) \in R /\ \A y \in R : Max(R) >= y
  <2> HIDE DEF R
  <2>1. QED
    BY <1>1, <1>2, MaxIn
<1>4. PICK s \in E : Max(R) = r[s]
  BY <1>3
<1>5. \A t \in E : r[s] >= r[t]
  BY <1>3, <1>4
<1>6. QED
  BY <1>5

(***************************************************************************)
(* Pots.                                                                   *)
(***************************************************************************)
Caps(P, A, v) == SumFunctionOnSet([s \in A |-> Least(P[s], v)], A)
Under(L, l) == Max({0} \cup {m \in L : m < l})

LEMMA LeastFacts ==
    ASSUME NEW a \in Int, NEW b \in Int
    PROVE  /\ Least(a, b) \in Int /\ Least(a, b) <= a /\ Least(a, b) <= b
           /\ Least(a, b) = a \/ Least(a, b) = b
           /\ a <= b => Least(a, b) = a
           /\ b <= a => Least(a, b) = b
  BY DEF Least

LEMMA CapsInt ==
    ASSUME NEW A, IsFiniteSet(A), NEW P \in [A -> Nat], NEW v \in Nat
    PROVE  Caps(P, A, v) \in Int /\ IntOn([s \in A |-> Least(P[s], v)], A)
<1>1. IntOn([s \in A |-> Least(P[s], v)], A)
  BY LeastFacts DEF IntOn
<1>2. QED
  BY <1>1, SumInt DEF Caps

LEMMA CapStep ==
    ASSUME NEW A, IsFiniteSet(A), NEW P \in [A -> Nat], NEW u \in Nat, NEW l \in Nat, u <= l
    PROVE  /\ SumFunction([s \in A |-> Least(P[s], l) - Least(P[s], u)]) = Caps(P, A, l) - Caps(P, A, u)
           /\ Caps(P, A, u) <= Caps(P, A, l)
<1> DEFINE f == [s \in A |-> Least(P[s], l)]
           g == [s \in A |-> Least(P[s], u)]
           d == [s \in A |-> Least(P[s], l) - Least(P[s], u)]
<1>1. /\ IntOn(f, A) /\ IntOn(g, A) /\ IntOn(d, A)
      /\ \A s \in A : f[s] = g[s] + d[s] /\ g[s] <= f[s]
  <2>1. ASSUME NEW s \in A PROVE f[s] \in Int /\ g[s] \in Int /\ d[s] \in Int /\ f[s] = g[s] + d[s] /\ g[s] <= f[s]
    <3>1. P[s] \in Int
      OBVIOUS
    <3>2. QED
      BY <3>1 DEF Least
  <2>2. QED
    BY <2>1 DEF IntOn
<1>2. SumFunctionOnSet(f, A) = SumFunctionOnSet(g, A) + SumFunctionOnSet(d, A)
  <2> HIDE DEF f, g, d
  <2>1. QED
    BY <1>1, SumPlus
<1>3. SumFunctionOnSet(g, A) <= SumFunctionOnSet(f, A)
  <2> HIDE DEF f, g, d
  <2>1. QED
    BY <1>1, SumMonotone
<1>4. SumFunctionOnSet(d, A) \in Int /\ SumFunctionOnSet(g, A) \in Int
  <2> HIDE DEF f, g, d
  <2>1. QED
    BY <1>1, SumInt
<1>5. DOMAIN d = A
  OBVIOUS
<1>6. SumFunction(d) = SumFunctionOnSet(d, A)
  BY <1>5 DEF SumFunction
<1>7. Caps(P, A, l) = SumFunctionOnSet(f, A) /\ Caps(P, A, u) = SumFunctionOnSet(g, A)
  BY DEF Caps
<1>8. SumFunction(d) = SumFunctionOnSet(f, A) - SumFunctionOnSet(g, A)
  <2> HIDE DEF f, g, d
  <2>1. QED
    BY <1>2, <1>4, <1>6
<1>9. QED
  BY <1>3, <1>7, <1>8

LEMMA CapsZero ==
    ASSUME NEW A, IsFiniteSet(A), NEW P \in [A -> Nat]
    PROVE  Caps(P, A, 0) = 0
<1>1. \A s \in A : [t \in A |-> Least(P[t], 0)][s] = 0
  BY DEF Least
<1>2. QED
  BY <1>1, SumZero DEF Caps

LEMMA CapsAll ==
    ASSUME NEW A, IsFiniteSet(A), NEW P \in [A -> Nat], NEW v \in Nat, \A s \in A : P[s] <= v
    PROVE  Caps(P, A, v) = SumFunctionOnSet(P, A)
<1>1. \A s \in A : P[s] = [t \in A |-> Least(P[t], v)][s]
  BY DEF Least
<1>2. IntOn(P, A)
  BY DEF IntOn
<1>3. QED
  BY <1>1, <1>2, SumSame DEF Caps

LEMMA MaxWithZero ==
    ASSUME NEW T, IsFiniteSet(T), T \subseteq Nat
    PROVE  /\ Max({0} \cup T) \in Nat /\ Max({0} \cup T) \in {0} \cup T
           /\ \A y \in T : y <= Max({0} \cup T)
<1> DEFINE S == {0} \cup T
<1>1. IsFiniteSet(S)
  <2>1. IsFiniteSet(T \cup {0})
    BY FS_AddElement
  <2>2. S = T \cup {0}
    OBVIOUS
  <2>3. QED
    BY <2>1, <2>2
<1>2. S # {} /\ S \subseteq Nat /\ \A x \in S : x \in Int
  OBVIOUS
<1>3. Max(S) \in S /\ \A y \in S : Max(S) >= y
  <2> HIDE DEF S
  <2>1. QED
    BY <1>1, <1>2, MaxIn
<1>4. Max(S) \in Nat
  <2> HIDE DEF S
  <2>1. QED
    BY <1>2, <1>3
<1>5. \A y \in T : y \in S /\ y \in Nat
  OBVIOUS
<1>6. \A y \in T : y <= Max(S)
  <2> HIDE DEF S
  <2>1. QED
    BY <1>3, <1>4, <1>5
<1>7. QED
  BY <1>3, <1>4, <1>6

LEMMA UnderFacts ==
    ASSUME NEW L, IsFiniteSet(L), L \subseteq Nat, NEW l \in L
    PROVE  /\ Under(L, l) \in Nat /\ Under(L, l) <= l
           /\ \A m \in L : m < l => m <= Under(L, l)
<1> DEFINE T == {m \in L : m < l}
<1>1. IsFiniteSet(T) /\ T \subseteq Nat /\ l \in Nat
  BY FS_Subset
<1>2. /\ Max({0} \cup T) \in Nat /\ Max({0} \cup T) \in {0} \cup T
      /\ \A y \in T : y <= Max({0} \cup T)
  <2> HIDE DEF T
  <2>1. QED
    BY <1>1, MaxWithZero
<1>3. Under(L, l) = Max({0} \cup T)
  BY DEF Under
<1>4. Max({0} \cup T) <= l
  BY <1>1, <1>2
<1>5. QED
  BY <1>2, <1>3, <1>4

\* The pots up to a level hold what everybody put in up to that level.
Initial(T, L) == \A l \in T : \A m \in L : m < l => m \in T

Layered(amt, P, A, L) == \A l \in L : amt[l] = Caps(P, A, l) - Caps(P, A, Under(L, l))
AddsUp(amt, P, A, L) ==
    \A T \in SUBSET L : Initial(T, L) => SumFunctionOnSet(amt, T) = Caps(P, A, Max({0} \cup T))

LEMMA PotsAddUp ==
    ASSUME NEW A, IsFiniteSet(A), NEW P, P \in [A -> Nat], NEW L, IsFiniteSet(L), L \subseteq Nat,
           NEW amt, Layered(amt, P, A, L)
    PROVE  AddsUp(amt, P, A, L)
<1> DEFINE B == {U \in SUBSET L : Initial(U, L) =>
                    SumFunctionOnSet(amt, U) = Caps(P, A, Max({0} \cup U))}
<1>0. IntOn(amt, L)
  <2>1. ASSUME NEW l \in L PROVE amt[l] \in Int
    <3>1. Under(L, l) \in Nat /\ l \in Nat
      BY UnderFacts
    <3>2. Caps(P, A, l) \in Int /\ Caps(P, A, Under(L, l)) \in Int
      BY <3>1, CapsInt
    <3>3. QED
      BY <3>2 DEF Layered
  <2>2. QED
    BY <2>1 DEF IntOn
<1>t. \A U \in SUBSET L : \A x \in U :
            SumFunctionOnSet(amt, U) = amt[x] + SumFunctionOnSet(amt, U \ {x})
  <2>1. IsFiniteSet(L)
    OBVIOUS
  <2>2. QED
    BY ONLY <2>1, <1>0, SumTakes, Zenon
<1>1. ASSUME NEW U \in SUBSET L, \A V \in SUBSET U : V # U => V \in B PROVE U \in B
  <2> SUFFICES ASSUME Initial(U, L)
               PROVE  SumFunctionOnSet(amt, U) = Caps(P, A, Max({0} \cup U))
    OBVIOUS
  <2>1. CASE U = {}
    <3>1. SumFunctionOnSet(amt, U) = 0
      BY <2>1, SumEmpty
    <3>2. Max({0} \cup U) \in {0} \cup U
      BY <2>1, FS_EmptySet, MaxWithZero
    <3>3. Max({0} \cup U) = 0
      BY <2>1, <3>2
    <3>4. QED
      BY <3>1, <3>3, CapsZero
  <2>2. CASE U # {}
    <3> DEFINE l == Max(U)
               V == U \ {l}
    <3>1. IsFiniteSet(U) /\ \A x \in U : x \in Nat
      BY FS_Subset
    <3>2. l \in U /\ \A y \in U : l >= y
      <4>1. \A x \in U : x \in Int
        BY <3>1
      <4>2. QED
        BY <3>1, <4>1, <2>2, MaxIn
    <3>3. Initial(V, L)
      <4> SUFFICES ASSUME NEW k \in V, NEW m \in L, m < k PROVE m \in V
        BY DEF Initial
      <4>1. k <= l /\ k \in Nat /\ l \in Nat /\ m \in Nat /\ m \in U
        BY <3>1, <3>2 DEF Initial
      <4>2. m # l
        BY <4>1
      <4>3. QED
        BY <4>1, <4>2
    <3>4. SumFunctionOnSet(amt, V) = Caps(P, A, Max({0} \cup V))
      <4>1. V \in B
        BY <1>1, <3>2
      <4>2. QED
        BY <4>1, <3>3
    <3>5. {m \in L : m < l} = V
      <4>1. ASSUME NEW m \in L, m < l PROVE m \in V
        <5>1. m \in U
          BY <3>2, <4>1 DEF Initial
        <5>2. l \in Nat /\ m \in Nat
          BY <3>1, <3>2
        <5>3. m # l
          BY <5>2, <4>1
        <5>4. QED
          BY <5>1, <5>3
      <4>2. ASSUME NEW m \in V PROVE m \in L /\ m < l
        <5>1. m \in U /\ m \in Nat /\ l \in Nat /\ m <= l /\ m # l
          BY <3>1, <3>2
        <5>2. QED
          BY <5>1
      <4> HIDE DEF l, V
      <4>3. QED
        BY <4>1, <4>2
    <3>6. Max({0} \cup V) = Under(L, l)
      BY <3>5 DEF Under
    <3>7. SumFunctionOnSet(amt, U) = amt[l] + SumFunctionOnSet(amt, V)
      <4>1. \A x \in U : SumFunctionOnSet(amt, U) = amt[x] + SumFunctionOnSet(amt, U \ {x})
        BY <1>t
      <4>2. QED
        BY <3>2, <4>1
    <3>8. /\ amt[l] = Caps(P, A, l) - Caps(P, A, Under(L, l))
          /\ Caps(P, A, l) \in Int /\ Caps(P, A, Under(L, l)) \in Int
      <4>1. l \in L /\ l \in Nat /\ Under(L, l) \in Nat
        BY <3>2, UnderFacts
      <4>2. amt[l] = Caps(P, A, l) - Caps(P, A, Under(L, l))
        BY <4>1 DEF Layered
      <4> HIDE DEF l
      <4>3. QED
        BY <4>1, <4>2, CapsInt
    <3>9. Max({0} \cup U) = l
      <4>1. PICK m : m = Max({0} \cup U)
        OBVIOUS
      <4>2. m \in Nat /\ (m = 0 \/ m \in U) /\ \A y \in U : y <= m
        BY <3>1, <4>1, MaxWithZero
      <4>3. l \in Nat /\ l <= m
        BY <3>1, <3>2, <4>2
      <4>4. m \in U => m <= l
        BY <3>2, <4>2, <4>3
      <4>5. QED
        <5> HIDE DEF l
        <5>1. QED
          BY <4>1, <4>2, <4>3, <4>4
    <3>10. SumFunctionOnSet(amt, U) = Caps(P, A, l)
      <4> HIDE DEF l, V
      <4>1. QED
        BY <3>4, <3>6, <3>7, <3>8
    <3>11. QED
      BY <3>9, <3>10
  <2>3. QED
    BY <2>1, <2>2
<1>2. SUBSET L \subseteq B
  <2> HIDE DEF B
  <2>1. QED
    BY <1>1, SubsetInduction
<1>3. QED
  BY <1>2 DEF AddsUp

\* What a settlement starts from: chips only ever left a stack.
Settleable(f, st) ==
    /\ f.active \subseteq Seats /\ st.live \subseteq f.active /\ st.live # {}
    /\ \A s \in f.active : /\ f.stacks[s] \in Nat /\ st.stack[s] \in Nat
                           /\ st.stack[s] <= f.stacks[s]

PaidIn(f, st) == [s \in f.active |-> f.stacks[s] - st.stack[s]]
Levels(f, st) == PotLevels(PaidIn(f, st), st.live)
PotAmounts(pots) == [l \in DOMAIN pots |-> pots[l].amount]
Owners(pots) == [l \in DOMAIN pots |-> pots[l].seat]

LEMMA PaidFacts ==
    ASSUME NEW f, NEW st, Settleable(f, st)
    PROVE  /\ PaidIn(f, st) \in [f.active -> Nat] /\ IsFiniteSet(f.active)
           /\ IsFiniteSet(Levels(f, st)) /\ Levels(f, st) \subseteq Nat
           /\ \A s \in st.live : PaidIn(f, st)[s] \in Levels(f, st)
<1>1. ASSUME NEW s \in f.active PROVE f.stacks[s] - st.stack[s] \in Nat
  BY DEF Settleable
<1>2. PaidIn(f, st) \in [f.active -> Nat]
  BY <1>1 DEF PaidIn
<1>3. IsFiniteSet(f.active) /\ IsFiniteSet(st.live)
  BY SeatsFinite, FS_Subset DEF Settleable
<1>4. Levels(f, st) = {PaidIn(f, st)[s] : s \in st.live}
  BY DEF Levels, PotLevels
<1>5. IsFiniteSet(Levels(f, st))
  BY <1>3, <1>4, ImageFinite
<1>6. Levels(f, st) \subseteq Nat
  BY <1>2, <1>4 DEF Settleable
<1>7. QED
  BY <1>2, <1>3, <1>4, <1>5, <1>6

\* Every pot goes to a live seat that paid for it, and holds one layer of what
\* everybody put in.
LEMMA PotsRight ==
    ASSUME NEW f, NEW st, NEW d \in Seeds, Settleable(f, st)
    PROVE  LET pots == PotsPushed(f, st, d)
               P == PaidIn(f, st)
               L == Levels(f, st)
           IN  /\ DOMAIN pots = L
               /\ \A l \in L :
                     /\ pots[l].seat \in st.live /\ l <= P[pots[l].seat]
                     /\ pots[l].amount = Caps(P, f.active, l) - Caps(P, f.active, Under(L, l))
                     /\ pots[l].amount \in Nat
<1> DEFINE P == PaidIn(f, st)
           L == Levels(f, st)
           Best(l) == CHOOSE s \in Entitled(P, st.live, l) :
                        \A t \in Entitled(P, st.live, l) : Strength[d][s] >= Strength[d][t]
           Amt(l) == SumFunction([s \in f.active |-> Least(P[s], l) - Least(P[s], Under(L, l))])
<1>1. PotsPushed(f, st, d) = [l \in L |-> [seat |-> Best(l), amount |-> Amt(l)]]
  BY DEF PotsPushed, PaidIn, Levels, Under
<1>2. ASSUME NEW l \in L PROVE Best(l) \in st.live /\ l <= P[Best(l)]
  <2> DEFINE E == Entitled(P, st.live, l)
             r == [s \in Seats |-> Strength[d][s]]
  <2>1. E \subseteq st.live /\ st.live \subseteq Seats /\ IsFiniteSet(E)
    BY SeatsFinite DEF Entitled, Settleable
  <2>2. PICK s \in st.live : l = P[s]
    BY DEF Levels, PotLevels
  <2>3. P[s] \in Nat
    BY PaidFacts DEF Settleable
  <2>4. E # {}
    BY <2>2, <2>3 DEF Entitled
  <2>5. \A s1 \in Seats : Strength[d][s1] \in Nat
    BY HandRulesAssumption DEF Seats
  <2>6. IntOn(r, E)
    BY <2>1, <2>5 DEF IntOn
  <2>7. \E s1 \in E : \A t \in E : r[s1] >= r[t]
    <3> HIDE DEF E, r
    <3>1. QED
      BY <2>1, <2>4, <2>6, BestExists
  <2>8. \E s1 \in E : \A t \in E : Strength[d][s1] >= Strength[d][t]
    BY <2>1, <2>7
  <2>9. Best(l) \in E
    BY <2>8
  <2>10. QED
    BY <2>9 DEF Entitled
<1>3. ASSUME NEW l \in L
      PROVE  /\ Amt(l) = Caps(P, f.active, l) - Caps(P, f.active, Under(L, l))
             /\ Amt(l) \in Nat
  <2>1. P \in [f.active -> Nat] /\ IsFiniteSet(f.active) /\ IsFiniteSet(L) /\ L \subseteq Nat /\ l \in Nat
    BY PaidFacts
  <2>2. Under(L, l) \in Nat /\ Under(L, l) <= l
    <3> HIDE DEF L
    <3>1. QED
      BY <2>1, UnderFacts
  <2>3. /\ Amt(l) = Caps(P, f.active, l) - Caps(P, f.active, Under(L, l))
        /\ Caps(P, f.active, Under(L, l)) <= Caps(P, f.active, l)
    <3> HIDE DEF P, L
    <3>1. QED
      BY <2>1, <2>2, CapStep
  <2>4. Caps(P, f.active, Under(L, l)) \in Int /\ Caps(P, f.active, l) \in Int
    <3> HIDE DEF P, L
    <3>1. QED
      BY <2>1, <2>2, CapsInt
  <2>5. QED
    <3> HIDE DEF P, L, Amt
    <3>1. QED
      BY <2>3, <2>4
<1> HIDE DEF P, L, Best, Amt
<1>4. /\ DOMAIN PotsPushed(f, st, d) = L
      /\ \A l \in L : PotsPushed(f, st, d)[l].seat = Best(l) /\ PotsPushed(f, st, d)[l].amount = Amt(l)
  BY <1>1
<1>5. QED
  BY <1>2, <1>3, <1>4 DEF P, L

LEMMA PayoutIsPart ==
    ASSUME NEW f, NEW st, NEW d \in Seeds, Settleable(f, st), NEW s \in f.active
    PROVE  LET pots == PotsPushed(f, st, d)
           IN  /\ Payouts(f, st, d)[s] = Part(PotAmounts(pots), Owners(pots), Levels(f, st), s)
               /\ Payouts(f, st, d)[s] \in Nat
               /\ 0 <= Payouts(f, st, d)[s]
<1> DEFINE pots == PotsPushed(f, st, d)
           L == Levels(f, st)
           a == PotAmounts(pots)
           W == {l \in L : Owners(pots)[l] = s}
           b == [l \in {m \in DOMAIN pots : pots[m].seat = s} |-> pots[l].amount]
<1>1. DOMAIN pots = L /\ \A l \in L : pots[l].amount \in Nat
  BY PotsRight
<1>2. Payouts(f, st, d)[s] = SumFunction(b)
  BY DEF Payouts, PayoutOf
<1>3. DOMAIN b = W /\ (\A l \in W : b[l] = a[l]) /\ \A l \in L : a[l] \in Nat
  BY <1>1 DEF PotAmounts, Owners
<1>4. IsFiniteSet(L) /\ W \subseteq L /\ IsFiniteSet(W)
  BY PaidFacts, FS_Subset
<1> HIDE DEF pots, L, a, W, b
<1>5. IntOn(b, W) /\ IntOn(a, W)
  BY <1>3, <1>4 DEF IntOn
<1>6. SumFunction(b) = SumFunctionOnSet(a, W)
  BY <1>3, <1>4, <1>5, SumSame DEF SumFunction
<1>7. 0 <= SumFunctionOnSet(a, W) /\ SumFunctionOnSet(a, W) \in Int
  BY <1>3, <1>4, <1>5, SumPart, SumInt
<1>8. SumFunctionOnSet(a, W) = Part(a, Owners(pots), L, s)
  BY DEF Part, W
<1>9. QED
  BY <1>2, <1>6, <1>7, <1>8 DEF pots, a, L

\* The payouts are what the pots hold.
LEMMA PayoutsAddUp ==
    ASSUME NEW f, NEW st, NEW d \in Seeds, Settleable(f, st), TopLives(f, st)
    PROVE  /\ SumFunctionOnSet(Payouts(f, st, d), f.active) = SumFunctionOnSet(PaidIn(f, st), f.active)
           /\ Payouts(f, st, d) \in [f.active -> Nat]
<1> DEFINE pots == PotsPushed(f, st, d)
           P == PaidIn(f, st)
           L == Levels(f, st)
           a == PotAmounts(pots)
           g == Owners(pots)
           w == Payouts(f, st, d)
           A == f.active
<1>1. /\ P \in [A -> Nat] /\ IsFiniteSet(A) /\ IsFiniteSet(L) /\ L \subseteq Nat
      /\ \A s \in st.live : P[s] \in L
  BY PaidFacts
<1>2. /\ DOMAIN pots = L
      /\ \A l \in L : /\ pots[l].seat \in st.live
                      /\ pots[l].amount = Caps(P, A, l) - Caps(P, A, Under(L, l))
                      /\ pots[l].amount \in Nat
  BY PotsRight
<1>3. \A l \in L : a[l] = Caps(P, A, l) - Caps(P, A, Under(L, l)) /\ a[l] \in Nat /\ g[l] \in A
  BY <1>2 DEF PotAmounts, Owners, Settleable
<1>4. \A s \in A : w[s] = Part(a, g, L, s) /\ w[s] \in Nat
  BY PayoutIsPart
<1>5. \A s \in A : P[s] <= Max({0} \cup L) /\ Max({0} \cup L) \in Nat
  <2>1. PICK t \in st.live : \A s \in A : f.stacks[s] - st.stack[s] <= f.stacks[t] - st.stack[t]
    BY DEF TopLives, PaidBy
  <2>2. t \in A /\ \A s \in A : P[s] <= P[t]
    BY <2>1 DEF PaidIn, Settleable
  <2>3. P[t] \in L /\ \A s \in A : P[s] \in Nat
    BY <1>1
  <2>4. Max({0} \cup L) \in Nat /\ \A y \in L : y <= Max({0} \cup L)
    <3> HIDE DEF L
    <3>1. QED
      BY <1>1, MaxWithZero
  <2> HIDE DEF P, L
  <2>5. QED
    BY <2>2, <2>3, <2>4
<1>6. w = [s \in A |-> w[s]]
  BY DEF Payouts
<1> HIDE DEF pots, P, L, a, g, w, A
<1>7. SumFunctionOnSet(w, A) = SumFunctionOnSet(a, L)
  <2>1. IntOn(a, L)
    BY <1>3 DEF IntOn
  <2>2. \A l \in L : g[l] \in A
    BY <1>3
  <2>3. \A s \in A : w[s] = Part(a, g, L, s)
    BY <1>4
  <2>4. IsFiniteSet(A)
    BY <1>1
  <2>5. IsFiniteSet(L)
    BY <1>1
  <2>6. QED
    BY ONLY <2>1, <2>2, <2>3, <2>4, <2>5, SumByOwner
<1>8. SumFunctionOnSet(a, L) = Caps(P, A, Max({0} \cup L))
  <2>1. Initial(L, L)
    BY DEF Initial
  <2>2. Layered(a, P, A, L)
    BY <1>3 DEF Layered
  <2>3. IsFiniteSet(A) /\ P \in [A -> Nat] /\ IsFiniteSet(L) /\ L \subseteq Nat /\ L \subseteq L
    BY <1>1
  <2>4. AddsUp(a, P, A, L)
    BY ONLY <2>2, <2>3, PotsAddUp
  <2>5. QED
    BY <2>1, <2>4 DEF AddsUp
<1>9. Caps(P, A, Max({0} \cup L)) = SumFunctionOnSet(P, A)
  <2>1. CASE A = {}
    BY <2>1, SumEmpty DEF Caps
  <2>2. CASE A # {}
    BY <1>1, <1>5, <2>2, CapsAll
  <2>3. QED
    BY <2>1, <2>2
<1>10. w \in [A -> Nat]
  BY <1>4, <1>6
<1>11. QED
  BY <1>7, <1>8, <1>9, <1>10 DEF w, A, P

\* Chips are conserved by a settlement.
LEMMA SettledConserves ==
    ASSUME NEW f, NEW st, NEW d \in Seeds, Settleable(f, st), TopLives(f, st)
    PROVE  /\ SumFunction(SettledFrom(f, st, d).stacks) = SumFunctionOnSet(f.stacks, f.active)
           /\ SettledFrom(f, st, d).stacks \in [f.active -> Nat]
<1> DEFINE A == f.active
           P == PaidIn(f, st)
           w == Payouts(f, st, d)
           k == [s \in A |-> st.stack[s]]
           e == [s \in A |-> st.stack[s] + w[s]]
           o == [s \in A |-> f.stacks[s]]
<1>1. /\ SumFunctionOnSet(w, A) = SumFunctionOnSet(P, A) /\ w \in [A -> Nat]
  BY PayoutsAddUp
<1>2. P \in [A -> Nat] /\ IsFiniteSet(A)
  BY PaidFacts
<1>3. \A s \in A : /\ k[s] \in Nat /\ o[s] \in Nat /\ w[s] \in Nat /\ P[s] \in Nat
                   /\ e[s] = k[s] + w[s] /\ o[s] = k[s] + P[s]
  <2>1. ASSUME NEW s \in A PROVE o[s] = k[s] + P[s] /\ k[s] \in Nat /\ o[s] \in Nat
    BY DEF PaidIn, Settleable
  <2>2. QED
    BY <1>1, <1>2, <2>1
<1>4. SettledFrom(f, st, d).stacks = e /\ DOMAIN e = A
  BY DEF SettledFrom
<1>5. \A s \in A : o[s] = f.stacks[s]
  OBVIOUS
<1>6. e \in [A -> Nat]
  <2>1. ASSUME NEW s \in A PROVE st.stack[s] + w[s] \in Nat
    <3>1. k[s] \in Nat /\ w[s] \in Nat /\ e[s] = k[s] + w[s] /\ e[s] = st.stack[s] + w[s]
      BY <1>3
    <3> HIDE DEF k, w, e
    <3>2. QED
      BY <3>1
  <2>2. QED
    BY <2>1
<1> HIDE DEF A, P, w, k, e, o
<1>7. IntOn(k, A) /\ IntOn(w, A) /\ IntOn(P, A) /\ IntOn(o, A)
  BY <1>3 DEF IntOn
<1>8. /\ SumFunctionOnSet(e, A) = SumFunctionOnSet(k, A) + SumFunctionOnSet(w, A)
      /\ SumFunctionOnSet(o, A) = SumFunctionOnSet(k, A) + SumFunctionOnSet(P, A)
  BY <1>2, <1>3, <1>7, SumPlus
<1>9. SumFunctionOnSet(o, A) = SumFunctionOnSet(f.stacks, A)
  BY <1>2, <1>5, <1>7, SumSame
<1>10. SumFunction(e) = SumFunctionOnSet(f.stacks, A)
  BY <1>1, <1>4, <1>8, <1>9 DEF SumFunction
<1>11. QED
  BY <1>4, <1>6, <1>10 DEF A

\* Nobody wins more than everyone's chips up to their own; a folded seat wins
\* nothing.
LEMMA PayoutsFair ==
    ASSUME NEW f, NEW st, NEW d \in Seeds, Settleable(f, st), NEW s \in f.active
    PROVE  /\ Payouts(f, st, d)[s] <= Caps(PaidIn(f, st), f.active, PaidIn(f, st)[s])
           /\ s \notin st.live => Payouts(f, st, d)[s] = 0
<1> DEFINE pots == PotsPushed(f, st, d)
           P == PaidIn(f, st)
           L == Levels(f, st)
           a == PotAmounts(pots)
           g == Owners(pots)
           A == f.active
           W == {l \in L : g[l] = s}
           T == {l \in L : l <= P[s]}
<1>1. /\ P \in [A -> Nat] /\ IsFiniteSet(A) /\ IsFiniteSet(L) /\ L \subseteq Nat
      /\ (s \in st.live => P[s] \in L) /\ P[s] \in Nat
  BY PaidFacts
<1>2. /\ DOMAIN pots = L
      /\ \A l \in L : /\ pots[l].seat \in st.live /\ l <= P[pots[l].seat]
                      /\ pots[l].amount = Caps(P, A, l) - Caps(P, A, Under(L, l))
                      /\ pots[l].amount \in Nat
  BY PotsRight
<1>3. /\ \A l \in L : a[l] = Caps(P, A, l) - Caps(P, A, Under(L, l)) /\ a[l] \in Nat
      /\ \A l \in L : g[l] \in st.live /\ l <= P[g[l]]
  BY <1>2 DEF PotAmounts, Owners
<1>4. Payouts(f, st, d)[s] = SumFunctionOnSet(a, W)
  BY PayoutIsPart DEF Part
<1>5. W \subseteq T /\ T \subseteq L
  BY <1>3
<1>6. s \notin st.live => W = {}
  BY <1>3
<1>7. Caps(P, A, P[s]) \in Int /\ 0 <= Caps(P, A, P[s])
  <2>1. 0 <= P[s] /\ 0 \in Nat
    BY <1>1
  <2> HIDE DEF P, A
  <2>2. Caps(P, A, 0) <= Caps(P, A, P[s]) /\ Caps(P, A, 0) = 0 /\ Caps(P, A, P[s]) \in Int
    BY <1>1, <2>1, CapStep, CapsZero, CapsInt
  <2>3. QED
    BY <2>2
<1>8. CASE s \notin st.live
  BY <1>4, <1>6, <1>7, <1>8, SumEmpty
<1>9. CASE s \in st.live
  <2>1. Initial(T, L)
    <3>1. ASSUME NEW l \in T, NEW m \in L, m < l PROVE m \in T
      <4>1. m \in Nat /\ l \in Nat /\ l <= P[s] /\ P[s] \in Nat
        BY <1>1
      <4>2. m <= P[s]
        BY <4>1, <3>1
      <4>3. QED
        BY <4>2
    <3>2. QED
      BY <3>1 DEF Initial
  <2>2. IsFiniteSet(T) /\ T \subseteq Nat /\ P[s] \in T
    BY <1>1, <1>9, FS_Subset
  <2>3. \A y \in T : y <= P[s]
    OBVIOUS
  <2> HIDE DEF pots, P, L, a, g, A, W, T
  <2>4. SumFunctionOnSet(a, T) = Caps(P, A, Max({0} \cup T))
    <3>1. Layered(a, P, A, L)
      BY <1>3 DEF Layered
    <3>2. IsFiniteSet(A) /\ P \in [A -> Nat] /\ IsFiniteSet(L) /\ L \subseteq Nat /\ T \subseteq L
      BY <1>1, <1>5
    <3>3. AddsUp(a, P, A, L)
      BY ONLY <3>1, <3>2, PotsAddUp
    <3>4. QED
      BY <1>5, <2>1, <3>3 DEF AddsUp
  <2>5. Max({0} \cup T) = P[s]
    <3>1. PICK m : m = Max({0} \cup T)
      OBVIOUS
    <3>2. m \in Nat /\ (m = 0 \/ m \in T) /\ \A y \in T : y <= m
      BY <2>2, <3>1, MaxWithZero
    <3>3. m <= P[s] /\ P[s] <= m
      BY <2>2, <2>3, <3>2, <1>1
    <3>4. QED
      BY <1>1, <3>1, <3>2, <3>3
  <2>6. SumFunctionOnSet(a, W) <= SumFunctionOnSet(a, T)
    <3>1. \A l \in T : a[l] \in Nat
      BY <1>3, <1>5
    <3>2. QED
      BY <1>5, <2>2, <3>1, SumPart
  <2>7. QED
    BY <1>4, <1>9, <2>4, <2>5, <2>6 DEF P, A
<1>10. QED
  BY <1>8, <1>9

\* The seats ahead of a seat, going round the table.
LEMMA ModFacts ==
    ASSUME NEW n \in Nat \ {0}, NEW a \in Int
    PROVE  /\ a \in 0 .. n - 1 => a % n = a
           /\ a \in -n .. -1 => a % n = a + n
  OBVIOUS

LEMMA AheadIs ==
    ASSUME NEW s \in Seats, NEW t \in Seats
    PROVE  /\ Ahead(s, t) \in Seats
           /\ t > s => Ahead(s, t) = t - s - 1
           /\ t <= s => Ahead(s, t) = t - s - 1 + NSeats
<1>1. NSeats \in Nat \ {0} /\ s \in Int /\ t \in Int /\ 0 <= s /\ s < NSeats /\ 0 <= t /\ t < NSeats
  BY HandRulesAssumption DEF Seats
<1>2. CASE t > s
  <2>1. t - s - 1 \in 0 .. NSeats - 1 /\ t - s - 1 \in Int
    BY <1>1, <1>2
  <2>2. (t - s - 1) % NSeats = t - s - 1
    BY ONLY <1>1, <2>1, ModFacts, Zenon
  <2>3. QED
    BY <1>1, <1>2, <2>1, <2>2 DEF Ahead, Seats
<1>3. CASE t <= s
  <2>1. t - s - 1 \in -NSeats .. -1 /\ t - s - 1 \in Int
    BY <1>1, <1>3
  <2>2. (t - s - 1) % NSeats = t - s - 1 + NSeats
    BY ONLY <1>1, <2>1, ModFacts, Zenon
  <2>3. QED
    BY <1>1, <1>3, <2>1, <2>2 DEF Ahead, Seats
<1>4. QED
  BY <1>1, <1>2, <1>3

\* Two seats are not equally far ahead, a seat itself is the furthest, and whoever
\* is further ahead of s than t is still ahead of t.
LEMMA AheadFacts ==
    ASSUME NEW s \in Seats
    PROVE  /\ \A t \in Seats : Ahead(s, t) \in Nat /\ (t # s => Ahead(s, t) < Ahead(s, s))
           /\ \A t, u \in Seats : Ahead(s, t) = Ahead(s, u) => t = u
           /\ \A t, u \in Seats : Ahead(s, t) < Ahead(s, u) =>
                                    Ahead(t, u) = Ahead(s, u) - Ahead(s, t) - 1
<1>1. NSeats \in Nat \ {0} /\ \A x \in Seats : x \in Int /\ 0 <= x /\ x < NSeats
  BY HandRulesAssumption DEF Seats
<1>2. \A x, y \in Seats : /\ y > x => Ahead(x, y) = y - x - 1
                          /\ y <= x => Ahead(x, y) = y - x - 1 + NSeats
  BY AheadIs
<1>3. ASSUME NEW t \in Seats PROVE Ahead(s, t) \in Nat /\ (t # s => Ahead(s, t) < Ahead(s, s))
  BY <1>1, <1>2
<1>4. ASSUME NEW t \in Seats, NEW u \in Seats PROVE Ahead(s, t) = Ahead(s, u) => t = u
  BY <1>1, <1>2
<1>5. ASSUME NEW t \in Seats, NEW u \in Seats, Ahead(s, t) < Ahead(s, u)
      PROVE  Ahead(t, u) = Ahead(s, u) - Ahead(s, t) - 1
  BY <1>1, <1>2, <1>5
<1>6. QED
  BY <1>3, <1>4, <1>5

\* Of finitely many seats, one is ranked lowest.
LEMMA LeastExists ==
    ASSUME NEW E, IsFiniteSet(E), E # {}, NEW r, IntOn(r, E)
    PROVE  \E s \in E : \A t \in E : r[s] <= r[t]
<1> DEFINE q == [s \in E |-> -r[s]]
<1>1. IntOn(q, E) /\ \A s \in E : q[s] = -r[s] /\ r[s] \in Int
  BY DEF IntOn
<1>2. PICK s \in E : \A t \in E : q[s] >= q[t]
  <2> HIDE DEF q
  <2>1. QED
    BY <1>1, BestExists
<1>3. \A t \in E : r[s] <= r[t]
  <2> HIDE DEF q
  <2>1. QED
    BY <1>1, <1>2
<1>4. QED
  BY <1>3

LEMMA FirstAfterFacts ==
    ASSUME NEW s \in Seats, NEW S, S \subseteq Seats, S # {}
    PROVE  FirstAfter(s, S) \in S /\ \A u \in S : Ahead(s, FirstAfter(s, S)) <= Ahead(s, u)
<1> DEFINE r == [t \in S |-> Ahead(s, t)]
<1>1. IntOn(r, S) /\ IsFiniteSet(S)
  BY AheadFacts, SeatsFinite DEF IntOn
<1>2. \E t \in S : \A u \in S : r[t] <= r[u]
  <2> HIDE DEF r
  <2>1. QED
    BY <1>1, LeastExists
<1>3. \E t \in S : \A u \in S : Ahead(s, t) <= Ahead(s, u)
  BY <1>2
<1>4. QED
  BY <1>3 DEF FirstAfter

\* The highest bet of the street.
LEMMA MaxBet ==
    ASSUME NEW A, IsFiniteSet(A), A # {}, NEW bet, bet \in [A -> Nat]
    PROVE  /\ Max(Range(bet)) \in Nat
           /\ \A s \in A : bet[s] <= Max(Range(bet))
           /\ \E s \in A : bet[s] = Max(Range(bet))
<1>1. Range(bet) = {bet[s] : s \in A}
  BY DEF Range
<1>2. IsFiniteSet(Range(bet)) /\ Range(bet) # {} /\ \A x \in Range(bet) : x \in Int
  <2>1. IsFiniteSet({bet[s] : s \in A})
    BY ImageFinite
  <2>2. QED
    BY <1>1, <2>1
<1>3. Max(Range(bet)) \in Range(bet) /\ \A y \in Range(bet) : Max(Range(bet)) >= y
  BY <1>2, MaxIn
<1>4. PICK m : m = Max(Range(bet))
  OBVIOUS
<1>5. PICK s \in A : bet[s] = m
  BY <1>1, <1>3, <1>4
<1>6. \A t \in A : m >= bet[t]
  BY <1>1, <1>3, <1>4
<1>7. m \in Nat
  BY <1>5
<1>8. \A t \in A : bet[t] <= m
  BY <1>6, <1>7
<1>9. QED
  BY <1>4, <1>5, <1>7, <1>8

LEMMA MaxBetIs ==
    ASSUME NEW A, IsFiniteSet(A), NEW bet, bet \in [A -> Nat], NEW t \in A, \A s \in A : bet[s] <= bet[t]
    PROVE  Max(Range(bet)) = bet[t]
<1>1. PICK m : m = Max(Range(bet))
  OBVIOUS
<1>2. m \in Nat /\ (\A s \in A : bet[s] <= m) /\ \E s \in A : bet[s] = m
  BY <1>1, MaxBet
<1>3. QED
  BY <1>1, <1>2

\* Counting seats.
LEMMA CountFacts ==
    ASSUME NEW S, IsFiniteSet(S)
    PROVE  /\ Cardinality(S) \in Nat
           /\ Cardinality(S) > 1 <=> \E s, t \in S : s # t
           /\ Cardinality(S) > 1 => \A s : \E t \in S : t # s
           /\ Cardinality(S) > 0 <=> S # {}
           /\ Cardinality(S) = 1 <=> \E s : S = {s}
<1>1. Cardinality(S) \in Nat /\ (Cardinality(S) = 0 <=> S = {}) /\ (Cardinality(S) = 1 <=> \E s : S = {s})
  BY FS_CardinalityType, FS_EmptySet, FS_Singleton
<1>2. S # {} /\ ~(\E s : S = {s}) <=> \E s, t \in S : s # t
  OBVIOUS
<1>3. S # {} /\ ~(\E s : S = {s}) => \A s : \E t \in S : t # s
  OBVIOUS
<1>4. Cardinality(S) > 1 <=> ~(Cardinality(S) = 0) /\ ~(Cardinality(S) = 1)
  BY <1>1
<1>5. Cardinality(S) > 0 <=> ~(Cardinality(S) = 0)
  BY <1>1
<1>6. QED
  BY <1>1, <1>2, <1>3, <1>4, <1>5

Earlier(f, st, s) == PaidBy(f, st, s) - st.bet[s]
States(f) == [street : 0 .. River, button : Seats, live : SUBSET Seats, stack : [f.active -> Nat],
              bet : [f.active -> Nat], toAct : SUBSET Seats, last : Seats, step : Nat \ {0}]
StateOK(f, st) ==
    /\ st \in States(f)
    /\ st.live \subseteq f.active /\ st.live # {} /\ st.toAct \subseteq WithChips(st)
BaseOK(f, st, b) ==
    \A s \in f.active :
        /\ 0 <= Earlier(f, st, s) /\ Earlier(f, st, s) <= b
        /\ s \in WithChips(st) \/ st.bet[s] > 0 => Earlier(f, st, s) = b
Matched(st) == Cardinality(st.live) > 1 => \A s \in WithChips(st) \ st.toAct : st.bet[s] = TopBet(st)
Unopened(st, s) == TopBet(st) = 0 /\ \E u \in WithChips(st) : u # s
Called(st, s) == TopBet(st) > 0 /\ \E w \in st.live \ st.toAct : st.bet[w] = TopBet(st)
LastToSpeak(st, s) ==
    /\ st.live \ {s} \subseteq st.toAct
    /\ \A t \in st.live \ {s} : /\ st.bet[t] < TopBet(st) /\ TopBet(st) <= AllInTo(st, t)
                                /\ Ahead(st.last, t) < Ahead(st.last, s)
Optional(st) ==
    \A s \in st.toAct : st.bet[s] = TopBet(st) =>
        Unopened(st, s) \/ Called(st, s) \/ LastToSpeak(st, s)
HandInv(f, st) ==
    /\ FactsOK(f) /\ StateOK(f, st)
    /\ \E b \in Nat : BaseOK(f, st, b)
    /\ Matched(st) /\ TopLives(f, st) /\ Optional(st)

(***************************************************************************)
(* What the invariant says of the chips on a street.                       *)
(***************************************************************************)
LEMMA StateFacts ==
    ASSUME NEW f, NEW st, FactsOK(f), StateOK(f, st)
    PROVE  /\ f.active \subseteq Seats /\ IsFiniteSet(f.active) /\ f.active # {}
           /\ IsFiniteSet(st.live) /\ IsFiniteSet(st.toAct) /\ IsFiniteSet(WithChips(st))
           /\ \A s \in f.active : f.stacks[s] \in Nat /\ st.stack[s] \in Nat /\ st.bet[s] \in Nat
           /\ TopBet(st) \in Nat
           /\ \A s \in f.active : st.bet[s] <= TopBet(st)
           /\ \E s \in f.active : st.bet[s] = TopBet(st)
<1>1. f.active \subseteq Seats /\ f.active # {} /\ \A s \in f.active : f.stacks[s] \in Nat
  BY DEF FactsOK
<1>2. st.bet \in [f.active -> Nat] /\ st.stack \in [f.active -> Nat] /\ st.live \subseteq Seats /\ st.toAct \subseteq Seats
  BY DEF StateOK, States
<1>3. IsFiniteSet(f.active) /\ IsFiniteSet(st.live) /\ IsFiniteSet(st.toAct) /\ IsFiniteSet(WithChips(st))
  BY <1>1, <1>2, SeatsFinite DEF WithChips
<1>4. /\ Max(Range(st.bet)) \in Nat
      /\ \A s \in f.active : st.bet[s] <= Max(Range(st.bet))
      /\ \E s \in f.active : st.bet[s] = Max(Range(st.bet))
  BY <1>1, <1>2, <1>3, MaxBet
<1>5. QED
  BY <1>1, <1>2, <1>3, <1>4 DEF TopBet

\* While somebody has chips, the most anyone paid is the base plus the top bet.
LEMMA MostPaid ==
    ASSUME NEW f, NEW st, FactsOK(f), StateOK(f, st), NEW b \in Nat, BaseOK(f, st, b), WithChips(st) # {}
    PROVE  /\ \A s \in f.active : /\ PaidBy(f, st, s) \in Nat
                                  /\ PaidBy(f, st, s) <= b + TopBet(st)
                                  /\ s \in WithChips(st) => PaidBy(f, st, s) = b + st.bet[s]
           /\ \E s \in f.active : PaidBy(f, st, s) = b + TopBet(st)
<1>1. /\ \A s \in f.active : f.stacks[s] \in Nat /\ st.stack[s] \in Nat /\ st.bet[s] \in Nat /\ st.bet[s] <= TopBet(st)
      /\ TopBet(st) \in Nat
      /\ WithChips(st) \subseteq f.active
  BY StateFacts DEF StateOK, WithChips
<1>2. ASSUME NEW s \in f.active
      PROVE  /\ PaidBy(f, st, s) \in Nat /\ PaidBy(f, st, s) <= b + TopBet(st)
             /\ s \in WithChips(st) \/ st.bet[s] > 0 => PaidBy(f, st, s) = b + st.bet[s]
  <2>1. PaidBy(f, st, s) \in Int
    BY <1>1 DEF PaidBy
  <2>2. /\ 0 <= PaidBy(f, st, s) - st.bet[s] /\ PaidBy(f, st, s) - st.bet[s] <= b
        /\ s \in WithChips(st) \/ st.bet[s] > 0 => PaidBy(f, st, s) - st.bet[s] = b
    BY DEF BaseOK, Earlier
  <2>3. st.bet[s] \in Nat /\ st.bet[s] <= TopBet(st) /\ TopBet(st) \in Nat
    BY <1>1
  <2>4. QED
    BY <2>1, <2>2, <2>3
<1>3. \E s \in f.active : PaidBy(f, st, s) = b + TopBet(st)
  <2>1. PICK s \in f.active : st.bet[s] = TopBet(st)
    BY StateFacts
  <2>2. CASE TopBet(st) > 0
    BY <1>2, <2>1, <2>2
  <2>3. CASE TopBet(st) = 0
    <3>1. PICK t \in WithChips(st) : TRUE
      OBVIOUS
    <3>2. st.bet[t] = 0 /\ PaidBy(f, st, t) = b + st.bet[t] /\ t \in f.active
      BY <1>1, <1>2, <2>3, <3>1
    <3>3. QED
      BY <3>2, <2>3
  <2>4. QED
    BY <1>1, <2>2, <2>3
<1>4. QED
  BY <1>2, <1>3

(***************************************************************************)
(* A legal intent.                                                         *)
(***************************************************************************)
IntentOK(i) == i.action \in Actions /\ i.amount \in Nat
Stays(st, i) == i.action # "fold"
NewBet(st, i) == st.bet[i.seat] + Added(st, i)

LEMMA LegalMove ==
    ASSUME NEW f, NEW st, FactsOK(f), StateOK(f, st), NEW i, IntentOK(i),
           Actor(st) = i.seat, i.seat # NoSeat, Legal(st, i)
    PROVE  /\ Cardinality(st.live) > 1
           /\ i.seat \in st.toAct /\ i.seat \in st.live /\ i.seat \in f.active /\ st.stack[i.seat] > 0
           /\ \A u \in st.toAct : Ahead(st.last, i.seat) <= Ahead(st.last, u)
           /\ Added(st, i) \in Nat /\ Added(st, i) <= st.stack[i.seat]
           /\ i.action = "fold" => Added(st, i) = 0
           /\ i.action # "fold" => \/ NewBet(st, i) = TopBet(st)
                                   \/ NewBet(st, i) < TopBet(st) /\ Added(st, i) = st.stack[i.seat]
                                   \/ NewBet(st, i) > TopBet(st)
<1> DEFINE a == i.seat
           x == Added(st, i)
           T == TopBet(st)
           k == st.stack[a]
           e == st.bet[a]
<1>1. InProgress(st) /\ st.toAct # {} /\ a = FirstAfter(st.last, st.toAct)
  BY DEF Actor
<1>2. st.last \in Seats /\ st.toAct \subseteq Seats /\ st.step \in Nat \ {0}
  BY DEF StateOK, States
<1>3. a \in st.toAct /\ \A u \in st.toAct : Ahead(st.last, a) <= Ahead(st.last, u)
  BY <1>1, <1>2, FirstAfterFacts
<1>4. a \in st.live /\ a \in f.active /\ k > 0
  BY <1>3 DEF StateOK, WithChips
<1>5. k \in Nat /\ e \in Nat /\ T \in Nat /\ e <= T
  BY <1>4, StateFacts
<1>6. CallCost(st, a) = Least(T - e, k) /\ CallCost(st, a) \in Nat
      /\ (CallCost(st, a) = T - e \/ CallCost(st, a) = k) /\ CallCost(st, a) <= k /\ CallCost(st, a) <= T - e
  <2>1. CallCost(st, a) = Least(T - e, k)
    BY DEF CallCost
  <2> HIDE DEF T, e, k
  <2>2. QED
    BY <1>5, <2>1 DEF Least
<1>7. ASSUME NEW y, y \in RaiseTo(st, a) PROVE y \in Int /\ y > T /\ y <= e + k
  <2>1. AllInTo(st, a) = e + k
    BY DEF AllInTo
  <2>2. AllInTo(st, a) > T /\ y \in Least(T + st.step, AllInTo(st, a)) .. AllInTo(st, a)
    BY <1>7 DEF RaiseTo
  <2> HIDE DEF T, e, k
  <2>3. QED
    BY <1>2, <1>5, <2>1, <2>2 DEF Least
<1>8. x \in Nat /\ x <= k /\ (i.action = "fold" => x = 0)
      /\ (i.action # "fold" => e + x = T \/ (e + x < T /\ x = k) \/ e + x > T)
  <2>1. i.amount \in Nat
    BY DEF IntentOK
  <2>2. CASE i.action = "fold"
    <3>1. x = 0
      BY <2>2 DEF Added
    <3>2. QED
      BY <2>2, <3>1, <1>5
  <2>3. CASE i.action = "check"
    <3>1. x = 0 /\ CallCost(st, a) = 0
      BY <2>3 DEF Added, Legal
    <3>2. e + x = T
      BY <3>1, <1>4, <1>5, <1>6
    <3>3. QED
      BY <2>3, <3>1, <3>2, <1>5
  <2>4. CASE i.action = "call"
    <3>1. x = CallCost(st, a)
      BY <2>4 DEF Added, Legal
    <3>2. e + x = T \/ (e + x < T /\ x = k)
      <4> HIDE DEF x, T, e, k
      <4>1. QED
        BY <3>1, <1>5, <1>6
    <3>3. QED
      BY <2>4, <3>1, <3>2, <1>5, <1>6
  <2>5. CASE i.action = "bet"
    <3>1. x = i.amount /\ e + x \in RaiseTo(st, a)
      BY <2>5 DEF Added, Legal
    <3>2. e + x > T /\ e + x <= e + k
      BY <3>1, <1>7
    <3>3. QED
      BY <2>5, <3>1, <3>2, <2>1, <1>5
  <2>6. CASE i.action = "raise"
    <3>1. x = i.amount - e /\ i.amount \in RaiseTo(st, a)
      BY <2>6 DEF Added, Legal
    <3>2. i.amount > T /\ i.amount <= e + k
      BY <3>1, <1>7
    <3>3. x \in Nat /\ x <= k /\ e + x > T
      <4> HIDE DEF x, T, e, k
      <4>1. QED
        BY <3>1, <3>2, <2>1, <1>5
    <3>4. QED
      BY <2>6, <3>3
  <2>7. QED
    BY <2>2, <2>3, <2>4, <2>5, <2>6 DEF IntentOK, Actions
<1>9. Cardinality(st.live) > 1
  BY <1>1 DEF InProgress
<1>10. QED
  BY <1>3, <1>4, <1>8, <1>9 DEF NewBet

(***************************************************************************)
(* The state after a legal intent.                                         *)
(***************************************************************************)
StackAfter(st, i) == [st.stack EXCEPT ![i.seat] = @ - Added(st, i)]
BetAfter(st, i) == [st.bet EXCEPT ![i.seat] = @ + Added(st, i)]
Raised(st, i) == BetAfter(st, i)[i.seat] > TopBet(st)
LiveAfter(st, i) == IF i.action = "fold" THEN st.live \ {i.seat} ELSE st.live
WaitAfter(st, i) == Waiting(st, i.seat, LiveAfter(st, i), StackAfter(st, i), Raised(st, i))
StillRich(st, i) == {t \in LiveAfter(st, i) : StackAfter(st, i)[t] > 0}
OwingAfter(st, i) == {t \in WaitAfter(st, i) : BetAfter(st, i)[t] < Max(Range(BetAfter(st, i)))}
ClosedAfter(st, i) ==
    \/ Cardinality(LiveAfter(st, i)) = 1
    \/ OwingAfter(st, i) = {} /\ Cardinality(StillRich(st, i)) <= 1

IsActed(st, i, n) ==
    /\ n.street = st.street /\ n.button = st.button /\ n.live = LiveAfter(st, i)
    /\ n.stack = StackAfter(st, i) /\ n.bet = BetAfter(st, i)
    /\ n.toAct = IF ClosedAfter(st, i) THEN {} ELSE WaitAfter(st, i)
    /\ n.last = i.seat
    /\ n.step = IF Raised(st, i) THEN Max({st.step, BetAfter(st, i)[i.seat] - TopBet(st)}) ELSE st.step
    /\ n = [street |-> n.street, button |-> n.button, live |-> n.live, stack |-> n.stack,
            bet |-> n.bet, toAct |-> n.toAct, last |-> n.last, step |-> n.step]

LEMMA ActedIs ==
    ASSUME NEW f, NEW st, StateOK(f, st), NEW i
    PROVE  IsActed(st, i, Acted(st, i))
<1>3. Acted(st, i) = [st EXCEPT !.stack = StackAfter(st, i), !.bet = BetAfter(st, i), !.live = LiveAfter(st, i),
                                !.last = i.seat,
                                !.toAct = IF ClosedAfter(st, i) THEN {} ELSE WaitAfter(st, i),
                                !.step = IF Raised(st, i) THEN Max({@, BetAfter(st, i)[i.seat] - TopBet(st)}) ELSE @]
  BY Zenon DEF Acted, StackAfter, BetAfter, LiveAfter, WaitAfter, ClosedAfter, OwingAfter, StillRich, Raised
<1>4. DOMAIN st = {"street", "button", "live", "stack", "bet", "toAct", "last", "step"}
  BY DEF StateOK, States
<1>5. QED
  BY <1>3, <1>4 DEF IsActed

LEMMA MaxOfTwo == ASSUME NEW a \in Int, NEW b \in Int PROVE Max({a, b}) \in {a, b} /\ Max({a, b}) >= a
<1>1. IsFiniteSet({a, b})
  <2>1. IsFiniteSet({a} \cup {b})
    BY FS_Singleton, FS_AddElement
  <2>2. {a} \cup {b} = {a, b}
    OBVIOUS
  <2>3. QED
    BY <2>1, <2>2
<1>2. QED
  BY <1>1, MaxIn

\* What every part of the invariant needs of it.
LEMMA AfterFacts ==
    ASSUME NEW f, NEW st, FactsOK(f), StateOK(f, st), NEW i, IntentOK(i),
           Actor(st) = i.seat, i.seat # NoSeat, Legal(st, i)
    PROVE  /\ StackAfter(st, i) \in [f.active -> Nat] /\ BetAfter(st, i) \in [f.active -> Nat]
           /\ \A s \in f.active : s # i.seat => StackAfter(st, i)[s] = st.stack[s] /\ BetAfter(st, i)[s] = st.bet[s]
           /\ StackAfter(st, i)[i.seat] = st.stack[i.seat] - Added(st, i)
           /\ BetAfter(st, i)[i.seat] = NewBet(st, i)
           /\ LiveAfter(st, i) \subseteq st.live /\ LiveAfter(st, i) # {}
           /\ \A s \in st.live : s # i.seat \/ i.action # "fold" => s \in LiveAfter(st, i)
           /\ i.action = "fold" => i.seat \notin LiveAfter(st, i) /\ ~Raised(st, i)
           /\ WaitAfter(st, i) \subseteq LiveAfter(st, i)
           /\ \A t \in WaitAfter(st, i) : StackAfter(st, i)[t] > 0 /\ t # i.seat
           /\ \A t \in LiveAfter(st, i) : t # i.seat /\ StackAfter(st, i)[t] > 0 /\ (Raised(st, i) \/ t \in st.toAct)
                                            => t \in WaitAfter(st, i)
           /\ ~Raised(st, i) => WaitAfter(st, i) \subseteq st.toAct
           /\ Raised(st, i) <=> NewBet(st, i) > TopBet(st)
           /\ Max(Range(BetAfter(st, i))) = IF Raised(st, i) THEN NewBet(st, i) ELSE TopBet(st)
<1> DEFINE a == i.seat
           x == Added(st, i)
<1>1. /\ Cardinality(st.live) > 1
      /\ a \in st.toAct /\ a \in st.live /\ a \in f.active /\ st.stack[a] > 0
      /\ x \in Nat /\ x <= st.stack[a]
      /\ i.action = "fold" => x = 0
  BY LegalMove
<1>2. st.stack \in [f.active -> Nat] /\ st.bet \in [f.active -> Nat]
  BY DEF StateOK, States
<1>3. /\ StackAfter(st, i)[a] = st.stack[a] - x /\ BetAfter(st, i)[a] = st.bet[a] + x
      /\ \A s \in f.active : s # a => StackAfter(st, i)[s] = st.stack[s] /\ BetAfter(st, i)[s] = st.bet[s]
      /\ DOMAIN StackAfter(st, i) = f.active /\ DOMAIN BetAfter(st, i) = f.active
  BY <1>1, <1>2 DEF StackAfter, BetAfter
<1>4. StackAfter(st, i) \in [f.active -> Nat] /\ BetAfter(st, i) \in [f.active -> Nat]
  <2>1. st.stack[a] \in Nat /\ st.bet[a] \in Nat
    BY <1>1, <1>2
  <2>2. st.stack[a] - x \in Nat /\ st.bet[a] + x \in Nat
    <3> HIDE DEF x
    <3>1. QED
      BY <1>1, <2>1
  <2>3. QED
    BY <1>1, <1>2, <2>2 DEF StackAfter, BetAfter
<1>5. NewBet(st, i) = st.bet[a] + x /\ (Raised(st, i) <=> NewBet(st, i) > TopBet(st))
  BY <1>3 DEF NewBet, Raised
<1>6. /\ \A s \in f.active : st.bet[s] \in Nat /\ st.bet[s] <= TopBet(st)
      /\ \E s \in f.active : st.bet[s] = TopBet(st)
      /\ TopBet(st) \in Nat /\ IsFiniteSet(f.active) /\ IsFiniteSet(st.live) /\ st.live \subseteq f.active
  BY StateFacts DEF StateOK
<1>7. i.action = "fold" => ~Raised(st, i)
  <2>1. CASE i.action = "fold"
    <3>1. NewBet(st, i) = st.bet[a] + 0
      BY <1>1, <1>5, <2>1
    <3>2. QED
      BY <1>1, <1>5, <1>6, <3>1
  <2>2. QED
    BY <2>1
<1>8. LiveAfter(st, i) # {}
  <2>1. \E t \in st.live : t # a
    BY <1>1, <1>6, CountFacts
  <2>2. QED
    BY <2>1, <1>1 DEF LiveAfter
<1>9. Max(Range(BetAfter(st, i))) = IF Raised(st, i) THEN NewBet(st, i) ELSE TopBet(st)
  <2>1. NewBet(st, i) \in Nat
    BY <1>1, <1>4, <1>3, <1>5
  <2>2. CASE Raised(st, i)
    <3>1. \A s \in f.active : BetAfter(st, i)[s] <= BetAfter(st, i)[a]
      <4>1. TopBet(st) < NewBet(st, i)
        BY <2>2, <2>1, <1>5, <1>6
      <4>2. \A s \in f.active : s # a => BetAfter(st, i)[s] \in Nat /\ BetAfter(st, i)[s] <= TopBet(st)
        BY <1>3, <1>6
      <4>3. QED
        BY <4>1, <4>2, <1>3, <1>5, <1>6, <2>1
    <3>2. QED
      BY <3>1, <1>1, <1>3, <1>4, <1>5, <1>6, <2>2, MaxBetIs
  <2>3. CASE ~Raised(st, i)
    <3>1. NewBet(st, i) <= TopBet(st)
      BY <2>1, <2>3, <1>5, <1>6
    <3>2. \A s \in f.active : BetAfter(st, i)[s] <= TopBet(st)
      BY <3>1, <1>3, <1>5, <1>6
    <3>3. PICK w \in f.active : st.bet[w] = TopBet(st)
      BY <1>6
    <3>4. BetAfter(st, i)[w] = TopBet(st)
      <4>1. CASE w # a
        BY <4>1, <3>3, <1>3
      <4>2. CASE w = a
        <5>1. st.bet[a] = TopBet(st) /\ st.bet[a] + x <= TopBet(st) /\ BetAfter(st, i)[a] = st.bet[a] + x
          BY <4>2, <3>3, <3>1, <1>3, <1>5
        <5>2. BetAfter(st, i)[a] = TopBet(st)
          <6> HIDE DEF x
          <6>1. QED
            BY <5>1, <1>1, <1>6
        <5>3. QED
          BY <5>2, <4>2
      <4>3. QED
        BY <4>1, <4>2
    <3>5. \A s \in f.active : BetAfter(st, i)[s] <= BetAfter(st, i)[w]
      BY <3>2, <3>4
    <3>6. QED
      BY <3>4, <3>5, <2>3, <1>4, <1>6, MaxBetIs
  <2>4. QED
    BY <2>2, <2>3
<1>10. /\ LiveAfter(st, i) \subseteq st.live
       /\ \A s \in st.live : s # i.seat \/ i.action # "fold" => s \in LiveAfter(st, i)
       /\ i.action = "fold" => i.seat \notin LiveAfter(st, i)
  BY DEF LiveAfter
<1>11. /\ WaitAfter(st, i) \subseteq LiveAfter(st, i)
       /\ \A t \in WaitAfter(st, i) : StackAfter(st, i)[t] > 0 /\ t # i.seat
       /\ \A t \in LiveAfter(st, i) : t # i.seat /\ StackAfter(st, i)[t] > 0 /\ (Raised(st, i) \/ t \in st.toAct)
                                            => t \in WaitAfter(st, i)
       /\ ~Raised(st, i) => WaitAfter(st, i) \subseteq st.toAct
  BY DEF WaitAfter, Waiting
<1>12. QED
  BY <1>3, <1>4, <1>5, <1>7, <1>8, <1>9, <1>10, <1>11

LEMMA ActedOK ==
    ASSUME NEW f, NEW st, FactsOK(f), StateOK(f, st), NEW i, IntentOK(i),
           Actor(st) = i.seat, i.seat # NoSeat, Legal(st, i)
    PROVE  /\ StateOK(f, Acted(st, i))
           /\ WithChips(Acted(st, i)) = StillRich(st, i)
           /\ TopBet(Acted(st, i)) = Max(Range(BetAfter(st, i)))
<1> DEFINE n == Acted(st, i)
<1>1. /\ n.street = st.street /\ n.button = st.button /\ n.last = i.seat
      /\ n.live = LiveAfter(st, i) /\ n.stack = StackAfter(st, i) /\ n.bet = BetAfter(st, i)
      /\ n.toAct \in {{}, WaitAfter(st, i)}
      /\ n.step = IF Raised(st, i) THEN Max({st.step, BetAfter(st, i)[i.seat] - TopBet(st)}) ELSE st.step
      /\ n = [street |-> n.street, button |-> n.button, live |-> n.live, stack |-> n.stack,
              bet |-> n.bet, toAct |-> n.toAct, last |-> n.last, step |-> n.step]
  BY ActedIs DEF IsActed
<1>2. /\ st.street \in 0 .. River /\ st.button \in Seats /\ st.live \subseteq Seats /\ st.toAct \subseteq Seats
      /\ st.step \in Nat \ {0} /\ st.live \subseteq f.active /\ f.active \subseteq Seats
  BY StateFacts DEF StateOK, States
<1>3. i.seat \in f.active
  BY LegalMove
<1>4. n.step \in Nat \ {0}
  <2>1. BetAfter(st, i)[i.seat] \in Nat /\ TopBet(st) \in Nat /\ (Raised(st, i) <=> BetAfter(st, i)[i.seat] > TopBet(st))
    BY <1>3, AfterFacts, StateFacts DEF Raised
  <2>2. PICK e : e = BetAfter(st, i)[i.seat] - TopBet(st)
    OBVIOUS
  <2>3. e \in Int
    BY <2>1, <2>2
  <2>4. Max({st.step, e}) \in {st.step, e} /\ Max({st.step, e}) >= st.step
    BY <1>2, <2>3, MaxOfTwo
  <2>5. Max({st.step, e}) \in Nat \ {0}
    BY <2>3, <2>4, <1>2
  <2>6. QED
    BY <1>1, <1>2, <2>2, <2>5
<1>5. n.live \subseteq f.active /\ n.live \subseteq Seats /\ n.live # {} /\ n.toAct \subseteq n.live
      /\ \A t \in n.toAct : n.stack[t] > 0
  BY <1>1, <1>2, AfterFacts
<1>6. n.stack \in [f.active -> Nat] /\ n.bet \in [f.active -> Nat]
  BY <1>1, AfterFacts
<1>7. WithChips(n) = StillRich(st, i) /\ TopBet(n) = Max(Range(BetAfter(st, i)))
  BY <1>1 DEF WithChips, StillRich, TopBet
<1>8. n.street \in 0 .. River /\ n.button \in Seats /\ n.toAct \in SUBSET Seats /\ n.last \in Seats /\ n.live \in SUBSET Seats
  BY <1>1, <1>2, <1>3, <1>5
<1> HIDE DEF n
<1>9. n \in States(f)
  BY <1>1, <1>4, <1>5, <1>6, <1>8 DEF States
<1>10. n.toAct \subseteq WithChips(n)
  BY <1>5 DEF WithChips
<1>11. QED
  BY <1>5, <1>7, <1>9, <1>10 DEF StateOK, n

\* Chips that leave a stack go onto the street's bet.
LEMMA ActedBase ==
    ASSUME NEW f, NEW st, FactsOK(f), StateOK(f, st), NEW i, IntentOK(i),
           Actor(st) = i.seat, i.seat # NoSeat, Legal(st, i), NEW b \in Nat, BaseOK(f, st, b)
    PROVE  BaseOK(f, Acted(st, i), b)
<1> DEFINE n == Acted(st, i)
<1>1. n.stack = StackAfter(st, i) /\ n.bet = BetAfter(st, i) /\ WithChips(n) = StillRich(st, i)
  <2>1. IsActed(st, i, n)
    BY ActedIs
  <2>2. WithChips(n) = StillRich(st, i)
    BY ActedOK
  <2> HIDE DEF n
  <2>3. QED
    BY <2>1, <2>2 DEF IsActed
<1>2. i.seat \in WithChips(st) /\ i.seat \in f.active
  BY LegalMove DEF WithChips
<1>3. ASSUME NEW s \in f.active PROVE Earlier(f, n, s) = Earlier(f, st, s)
  <2>1. CASE s # i.seat
    BY <2>1, <1>1, AfterFacts DEF Earlier, PaidBy
  <2>2. CASE s = i.seat
    <3>1. n.stack[s] = st.stack[s] - Added(st, i) /\ n.bet[s] = st.bet[s] + Added(st, i)
      BY <2>2, <1>1, AfterFacts DEF NewBet
    <3>2. Added(st, i) \in Nat /\ st.stack[s] \in Nat /\ st.bet[s] \in Nat /\ f.stacks[s] \in Nat
      BY LegalMove, StateFacts
    <3>3. (f.stacks[s] - n.stack[s]) - n.bet[s] = (f.stacks[s] - st.stack[s]) - st.bet[s]
      <4> HIDE DEF n
      <4>1. QED
        BY <3>1, <3>2
    <3>4. QED
      BY <3>3 DEF Earlier, PaidBy
  <2>3. QED
    BY <2>1, <2>2
<1>4. ASSUME NEW s \in f.active, s \in WithChips(n) \/ n.bet[s] > 0
      PROVE  s \in WithChips(st) \/ st.bet[s] > 0
  <2>1. CASE s = i.seat
    BY <2>1, <1>2
  <2>2. CASE s # i.seat
    <3>1. n.stack[s] = st.stack[s] /\ n.bet[s] = st.bet[s]
      BY <2>2, <1>1, AfterFacts
    <3>2. LiveAfter(st, i) \subseteq st.live
      BY AfterFacts
    <3>3. QED
      BY <1>1, <1>4, <3>1, <3>2 DEF StillRich, WithChips
  <2>3. QED
    BY <2>1, <2>2
<1> HIDE DEF n
<1>5. QED
  BY <1>3, <1>4 DEF BaseOK, n

\* Whoever has chips and owes nothing has matched the top bet.
LEMMA ActedMatched ==
    ASSUME NEW f, NEW st, FactsOK(f), StateOK(f, st), NEW i, IntentOK(i),
           Actor(st) = i.seat, i.seat # NoSeat, Legal(st, i), Matched(st)
    PROVE  Matched(Acted(st, i))
<1> DEFINE n == Acted(st, i)
           T == Max(Range(BetAfter(st, i)))
<1>1. /\ n.live = LiveAfter(st, i) /\ n.stack = StackAfter(st, i) /\ n.bet = BetAfter(st, i)
      /\ n.toAct = IF ClosedAfter(st, i) THEN {} ELSE WaitAfter(st, i)
      /\ WithChips(n) = StillRich(st, i) /\ TopBet(n) = T
  <2>1. WithChips(n) = StillRich(st, i) /\ TopBet(n) = T
    BY ActedOK
  <2>2. IsActed(st, i, n)
    BY ActedIs
  <2> HIDE DEF n, T
  <2>3. QED
    BY <2>1, <2>2 DEF IsActed
<1>2. SUFFICES ASSUME Cardinality(n.live) > 1, NEW s \in WithChips(n) \ n.toAct
               PROVE  BetAfter(st, i)[s] = T
  BY <1>1 DEF Matched
<1>3. s \in LiveAfter(st, i) /\ StackAfter(st, i)[s] > 0 /\ s \in f.active
  <2>1. s \in LiveAfter(st, i) /\ StackAfter(st, i)[s] > 0
    BY <1>1 DEF StillRich
  <2>2. LiveAfter(st, i) \subseteq f.active
    BY AfterFacts DEF StateOK
  <2>3. QED
    BY <2>1, <2>2
<1>4. CASE s \in WaitAfter(st, i)
  <2>1. ClosedAfter(st, i)
    BY <1>1, <1>2, <1>4
  <2>2. ~(Cardinality(LiveAfter(st, i)) = 1)
    BY <1>1, <1>2
  <2>3. OwingAfter(st, i) = {}
    BY <2>1, <2>2 DEF ClosedAfter
  <2>4. ~(BetAfter(st, i)[s] < T)
    BY <2>3, <1>4 DEF OwingAfter
  <2>5. BetAfter(st, i)[s] \in Nat /\ BetAfter(st, i)[s] <= T /\ T \in Nat
    <3>1. BetAfter(st, i) \in [f.active -> Nat] /\ IsFiniteSet(f.active) /\ f.active # {}
      BY AfterFacts, StateFacts
    <3>2. QED
      BY <1>3, <3>1, MaxBet
  <2>6. QED
    <3> HIDE DEF T
    <3>1. QED
      BY <2>4, <2>5
<1>5. CASE s = i.seat
  <2>1. i.action # "fold"
    BY <1>3, <1>5, AfterFacts
  <2>2. \/ NewBet(st, i) = TopBet(st)
        \/ NewBet(st, i) < TopBet(st) /\ Added(st, i) = st.stack[i.seat]
        \/ NewBet(st, i) > TopBet(st)
    BY <2>1, LegalMove
  <2>3. StackAfter(st, i)[s] = st.stack[s] - Added(st, i) /\ st.stack[s] \in Nat
    BY <1>3, <1>5, AfterFacts, StateFacts
  <2>4. ~(Added(st, i) = st.stack[i.seat])
    BY <2>3, <1>3, <1>5
  <2>5. BetAfter(st, i)[s] = NewBet(st, i) /\ T = (IF Raised(st, i) THEN NewBet(st, i) ELSE TopBet(st))
        /\ (Raised(st, i) <=> NewBet(st, i) > TopBet(st))
    BY <1>5, AfterFacts
  <2>6. TopBet(st) \in Nat
    BY StateFacts
  <2> HIDE DEF T
  <2>7. QED
    BY <2>2, <2>4, <2>5, <2>6
<1>6. CASE s # i.seat /\ s \notin WaitAfter(st, i)
  <2>1. ~Raised(st, i) /\ s \notin st.toAct
    BY <1>3, <1>6, AfterFacts
  <2>2. StackAfter(st, i)[s] = st.stack[s] /\ BetAfter(st, i)[s] = st.bet[s] /\ LiveAfter(st, i) \subseteq st.live
    BY <1>3, <1>6, AfterFacts
  <2>3. s \in WithChips(st)
    BY <1>3, <2>2 DEF WithChips
  <2>4. Cardinality(st.live) > 1
    BY LegalMove
  <2>5. st.bet[s] = TopBet(st)
    BY <2>1, <2>3, <2>4 DEF Matched
  <2>6. T = TopBet(st)
    BY <2>1, AfterFacts
  <2>7. QED
    BY <2>2, <2>5, <2>6
<1>7. QED
  BY <1>4, <1>5, <1>6

\* Nobody who folds leaves a bet on the table that no live seat covers.
LEMMA ActedTopLives ==
    ASSUME NEW f, NEW st, HandInv(f, st), NEW i, IntentOK(i),
           Actor(st) = i.seat, i.seat # NoSeat, Legal(st, i)
    PROVE  TopLives(f, Acted(st, i))
<1> DEFINE n == Acted(st, i)
           a == i.seat
           T == TopBet(st)
<1>0. FactsOK(f) /\ StateOK(f, st) /\ Optional(st)
  BY DEF HandInv
<1>1. PICK b \in Nat : BaseOK(f, st, b)
  BY DEF HandInv
<1>2. /\ n.live = LiveAfter(st, i) /\ n.stack = StackAfter(st, i)
  BY <1>0, ActedIs DEF IsActed
<1>3. /\ a \in st.toAct /\ a \in st.live /\ a \in f.active /\ a \in WithChips(st) /\ Cardinality(st.live) > 1
      /\ \A u \in st.toAct : Ahead(st.last, a) <= Ahead(st.last, u)
      /\ Added(st, i) \in Nat /\ st.stack[a] \in Nat /\ f.stacks[a] \in Nat /\ st.bet[a] \in Nat
  BY <1>0, LegalMove, StateFacts DEF WithChips
<1>4. /\ \A s \in f.active : /\ PaidBy(f, st, s) \in Nat /\ PaidBy(f, st, s) <= b + T
                             /\ s \in WithChips(st) => PaidBy(f, st, s) = b + st.bet[s]
      /\ \E s \in f.active : PaidBy(f, st, s) = b + T
      /\ T \in Nat /\ st.live \subseteq f.active
  BY <1>0, <1>1, <1>3, MostPaid, StateFacts DEF StateOK
<1>5. /\ \A s \in f.active : s # a => PaidBy(f, n, s) = PaidBy(f, st, s)
      /\ PaidBy(f, n, a) = b + NewBet(st, i)
      /\ \A s \in st.live : s # a \/ i.action # "fold" => s \in n.live
  <2>1. \A s \in f.active : s # a => PaidBy(f, n, s) = PaidBy(f, st, s)
    BY <1>0, <1>2, AfterFacts DEF PaidBy
  <2>2. PaidBy(f, n, a) = PaidBy(f, st, a) + Added(st, i)
    <3>1. n.stack[a] = st.stack[a] - Added(st, i)
      BY <1>0, <1>2, AfterFacts
    <3>2. f.stacks[a] - n.stack[a] = (f.stacks[a] - st.stack[a]) + Added(st, i)
      <4> HIDE DEF n, a
      <4>1. QED
        BY <3>1, <1>3
    <3>3. QED
      BY <3>2 DEF PaidBy
  <2>3. PaidBy(f, st, a) = b + st.bet[a]
    BY <1>3, <1>4
  <2>4. PaidBy(f, n, a) = b + NewBet(st, i)
    <3>1. NewBet(st, i) = st.bet[a] + Added(st, i)
      BY DEF NewBet
    <3> HIDE DEF n, a
    <3>2. QED
      BY <2>2, <2>3, <3>1, <1>3
  <2>5. \A s \in st.live : s # a \/ i.action # "fold" => s \in n.live
    BY <1>0, <1>2, AfterFacts
  <2>6. QED
    BY <2>1, <2>4, <2>5
<1>6. PICK w \in st.live : \A s \in f.active : PaidBy(f, st, s) <= PaidBy(f, st, w)
  BY DEF HandInv, TopLives
<1>7. PaidBy(f, st, w) = b + T /\ w \in f.active
  <2>1. b + T <= PaidBy(f, st, w)
    BY <1>4, <1>6
  <2>2. PaidBy(f, st, w) <= b + T /\ PaidBy(f, st, w) \in Nat /\ w \in f.active
    BY <1>4
  <2>3. QED
    BY <2>1, <2>2, <1>4
<1>8. CASE i.action = "fold"
  <2>1. NewBet(st, i) = st.bet[a]
    <3>1. Added(st, i) = 0
      BY <1>0, <1>8, LegalMove
    <3>2. QED
      BY <3>1, <1>3 DEF NewBet
  <2>2. PaidBy(f, n, a) = PaidBy(f, st, a) /\ st.bet[a] <= T
    BY <1>0, <1>3, <1>4, <1>5, <2>1, StateFacts
  <2>3. \A s \in f.active : PaidBy(f, n, s) = PaidBy(f, st, s)
    BY <1>5, <2>2
  <2>4. \E v \in st.live : v # a /\ PaidBy(f, st, v) = b + T
    <3>1. CASE w # a
      BY <3>1, <1>7
    <3>2. CASE w = a
      <4>1. st.bet[a] = T
        <5>1. b + st.bet[a] = b + T
          BY <3>2, <1>7, <1>3, <1>4
        <5> HIDE DEF a, T
        <5>2. QED
          BY <5>1, <1>3, <1>4
      <4>2. Unopened(st, a) \/ Called(st, a) \/ LastToSpeak(st, a)
        BY <1>0, <1>3, <4>1 DEF Optional
      <4>3. CASE Unopened(st, a)
        <5>1. PICK u \in WithChips(st) : u # a
          BY <4>3 DEF Unopened
        <5>2. u \in st.live /\ u \in f.active /\ T = 0
          BY <4>3, <1>4 DEF Unopened, WithChips
        <5>3. st.bet[u] = 0
          <6>1. st.bet[u] \in Nat /\ st.bet[u] <= T
            BY <1>0, <5>2, StateFacts
          <6>2. QED
            BY <6>1, <5>2
        <5>4. PaidBy(f, st, u) = b + T
          BY <5>1, <5>2, <5>3, <1>4
        <5>5. QED
          BY <5>1, <5>2, <5>4
      <4>4. CASE Called(st, a)
        <5>1. PICK v \in st.live \ st.toAct : st.bet[v] = T
          BY <4>4 DEF Called
        <5>2. T > 0 /\ v \in f.active /\ v # a
          BY <4>4, <1>3, <1>4 DEF Called
        <5>3. Earlier(f, st, v) = b
          BY <1>1, <5>1, <5>2 DEF BaseOK
        <5>4. PaidBy(f, st, v) = b + T
          <6>1. PaidBy(f, st, v) - T = b /\ PaidBy(f, st, v) \in Nat
            BY <5>1, <5>2, <5>3, <1>4 DEF Earlier
          <6>2. QED
            BY <6>1, <1>4
        <5>5. QED
          BY <5>1, <5>2, <5>4
      <4>5. CASE LastToSpeak(st, a)
        <5>1. PICK u \in st.live : u # a
          BY <1>0, <1>3, StateFacts, CountFacts
        <5>2. u \in st.toAct /\ Ahead(st.last, u) < Ahead(st.last, a)
          BY <4>5, <5>1 DEF LastToSpeak
        <5>3. Ahead(st.last, u) \in Nat /\ Ahead(st.last, a) \in Nat /\ Ahead(st.last, a) <= Ahead(st.last, u)
          <6>1. st.last \in Seats /\ u \in Seats /\ a \in Seats
            BY <1>0, <1>3, <5>2 DEF StateOK, States
          <6>2. QED
            BY <6>1, <5>2, <1>3, AheadFacts
        <5>4. QED
          <6> HIDE DEF a
          <6>1. QED
            BY <5>2, <5>3
      <4>6. QED
        BY <4>2, <4>3, <4>4, <4>5
    <3>3. QED
      BY <3>1, <3>2
  <2>5. PICK v \in st.live : v # a /\ PaidBy(f, st, v) = b + T
    BY <2>4
  <2>6. v \in n.live /\ v \in f.active
    BY <1>4, <1>5, <2>5
  <2>7. \A s \in f.active : PaidBy(f, n, s) <= PaidBy(f, n, v)
    BY <2>3, <2>5, <2>6, <1>4
  <2>8. QED
    BY <2>6, <2>7 DEF TopLives
<1>9. CASE i.action # "fold"
  <2>1. a \in n.live /\ w \in n.live
    BY <1>3, <1>5, <1>9
  <2>2. NewBet(st, i) \in Nat
    BY <1>3 DEF NewBet
  <2>3. CASE NewBet(st, i) > T
    <3>1. \A s \in f.active : PaidBy(f, n, s) <= PaidBy(f, n, a)
      <4>1. ASSUME NEW s \in f.active, s # a PROVE PaidBy(f, n, s) <= PaidBy(f, n, a)
        <5>1. PaidBy(f, n, s) \in Nat /\ PaidBy(f, n, s) <= b + T /\ PaidBy(f, n, a) = b + NewBet(st, i)
          BY <1>4, <1>5, <4>1
        <5> HIDE DEF n, T, a
        <5>2. QED
          BY <5>1, <2>2, <2>3, <1>4
      <4>2. PaidBy(f, n, a) <= PaidBy(f, n, a)
        BY <1>5, <2>2
      <4>3. QED
        BY <4>1, <4>2
    <3>2. QED
      BY <2>1, <3>1 DEF TopLives
  <2>4. CASE NewBet(st, i) <= T
    <3>1. PaidBy(f, n, w) = b + T
      <4>1. CASE w # a
        BY <4>1, <1>5, <1>7
      <4>2. CASE w = a
        <5>1. PaidBy(f, st, a) = b + st.bet[a] /\ PaidBy(f, st, a) = b + T
          BY <4>2, <1>7, <1>3, <1>4
        <5>2. NewBet(st, i) = st.bet[a] + Added(st, i)
          BY DEF NewBet
        <5>3. NewBet(st, i) = T
          <6> HIDE DEF a, T
          <6>1. QED
            BY <5>1, <5>2, <1>3, <1>4, <2>4
        <5>4. QED
          BY <5>3, <4>2, <1>5
      <4>3. QED
        BY <4>1, <4>2
    <3>2. \A s \in f.active : PaidBy(f, n, s) <= PaidBy(f, n, w)
      <4>1. ASSUME NEW s \in f.active PROVE PaidBy(f, n, s) <= b + T
        <5>1. CASE s # a
          BY <5>1, <1>4, <1>5
        <5>2. CASE s = a
          <6>1. PaidBy(f, n, a) = b + NewBet(st, i)
            BY <1>5
          <6>2. PaidBy(f, n, a) <= b + T
            <7> HIDE DEF a, T, n
            <7>1. QED
              BY <6>1, <2>2, <2>4, <1>4
          <6>3. QED
            BY <6>2, <5>2
        <5>3. QED
          BY <5>1, <5>2
      <4>2. QED
        BY <4>1, <3>1
    <3>3. QED
      BY <2>1, <3>2 DEF TopLives
  <2>5. QED
    <3> HIDE DEF T
    <3>1. QED
      BY <2>2, <2>3, <2>4, <1>4
<1>10. QED
  BY <1>8, <1>9

\* A seat that has matched the top bet and still may act is never the only one that
\* covers it.
LEMMA ActedOptional ==
    ASSUME NEW f, NEW st, HandInv(f, st), NEW i, IntentOK(i),
           Actor(st) = i.seat, i.seat # NoSeat, Legal(st, i)
    PROVE  Optional(Acted(st, i))
<1> DEFINE n == Acted(st, i)
           a == i.seat
           T == TopBet(st)
<1>0. FactsOK(f) /\ StateOK(f, st) /\ Optional(st)
  BY DEF HandInv
<1>1. /\ n.live = LiveAfter(st, i) /\ n.stack = StackAfter(st, i) /\ n.bet = BetAfter(st, i) /\ n.last = a
      /\ n.toAct = (IF ClosedAfter(st, i) THEN {} ELSE WaitAfter(st, i))
      /\ WithChips(n) = StillRich(st, i) /\ TopBet(n) = Max(Range(BetAfter(st, i)))
  <2>1. WithChips(n) = StillRich(st, i) /\ TopBet(n) = Max(Range(BetAfter(st, i)))
    BY <1>0, ActedOK
  <2>2. IsActed(st, i, n)
    BY <1>0, ActedIs
  <2> HIDE DEF n
  <2>3. QED
    BY <2>1, <2>2 DEF IsActed
<1>2. SUFFICES ASSUME NEW s \in n.toAct, n.bet[s] = TopBet(n)
               PROVE  Unopened(n, s) \/ Called(n, s) \/ LastToSpeak(n, s)
  BY DEF Optional
<1>3. ~ClosedAfter(st, i) /\ n.toAct = WaitAfter(st, i) /\ s \in WaitAfter(st, i)
  BY <1>1, <1>2
<1>4. /\ a \in st.toAct /\ a \in st.live /\ a \in f.active /\ a \in WithChips(st)
      /\ \A u \in st.toAct : Ahead(st.last, a) <= Ahead(st.last, u)
      /\ Added(st, i) \in Nat /\ st.stack[a] \in Nat /\ st.bet[a] \in Nat
      /\ T \in Nat /\ st.live \subseteq f.active
      /\ \A u \in f.active : st.bet[u] \in Nat /\ st.bet[u] <= T /\ st.stack[u] \in Nat
      /\ IsFiniteSet(st.live)
  BY <1>0, LegalMove, StateFacts DEF WithChips, StateOK
<1>5. /\ s # a /\ s \in LiveAfter(st, i) /\ LiveAfter(st, i) \subseteq st.live
      /\ \A u \in f.active : u # a => StackAfter(st, i)[u] = st.stack[u] /\ BetAfter(st, i)[u] = st.bet[u]
      /\ BetAfter(st, i)[a] = NewBet(st, i)
      /\ StackAfter(st, i)[a] = st.stack[a] - Added(st, i)
      /\ \A t \in st.live : t # a \/ i.action # "fold" => t \in LiveAfter(st, i)
      /\ i.action = "fold" => a \notin LiveAfter(st, i) /\ ~Raised(st, i)
      /\ (Raised(st, i) <=> NewBet(st, i) > T)
      /\ Max(Range(BetAfter(st, i))) = (IF Raised(st, i) THEN NewBet(st, i) ELSE T)
      /\ ~Raised(st, i) => WaitAfter(st, i) \subseteq st.toAct
      /\ \A t \in LiveAfter(st, i) : t # a /\ StackAfter(st, i)[t] > 0 /\ (Raised(st, i) \/ t \in st.toAct)
                                            => t \in WaitAfter(st, i)
      /\ \A t \in WaitAfter(st, i) : t # a
  BY <1>0, <1>3, AfterFacts
<1>6. s \in f.active /\ n.bet[s] = st.bet[s]
  BY <1>1, <1>4, <1>5
<1>7. ~Raised(st, i)
  <2>1. CASE Raised(st, i)
    <3>1. st.bet[s] = NewBet(st, i) /\ NewBet(st, i) > T /\ st.bet[s] <= T /\ NewBet(st, i) \in Nat
      BY <2>1, <1>1, <1>2, <1>4, <1>5, <1>6 DEF NewBet
    <3>2. QED
      BY <3>1, <1>4
  <2>2. QED
    BY <2>1
<1>8. TopBet(n) = T /\ st.bet[s] = T /\ s \in st.toAct /\ WaitAfter(st, i) \subseteq st.toAct
  BY <1>1, <1>2, <1>3, <1>5, <1>6, <1>7
<1>9. Unopened(st, s) \/ Called(st, s) \/ LastToSpeak(st, s)
  BY <1>0, <1>8 DEF Optional
<1>10. CASE Unopened(st, s)
  <2>1. T = 0
    BY <1>10 DEF Unopened
  <2>2. OwingAfter(st, i) = {}
    <3>1. ASSUME NEW t \in WaitAfter(st, i) PROVE ~(BetAfter(st, i)[t] < Max(Range(BetAfter(st, i))))
      <4>1. t \in f.active /\ t # a
        BY <1>0, <1>4, <1>5, <1>8, <3>1 DEF StateOK, WithChips
      <4>2. BetAfter(st, i)[t] \in Nat /\ Max(Range(BetAfter(st, i))) = 0
        BY <4>1, <1>4, <1>5, <1>7, <2>1
      <4>3. QED
        BY <4>2
    <3>2. QED
      BY <3>1 DEF OwingAfter
  <2>3. IsFiniteSet(StillRich(st, i)) /\ ~(Cardinality(StillRich(st, i)) <= 1)
    <3>1. StillRich(st, i) \subseteq st.live
      BY <1>5 DEF StillRich
    <3>2. QED
      BY <3>1, <2>2, <1>3, <1>4, FS_Subset DEF ClosedAfter
  <2>4. Cardinality(StillRich(st, i)) > 1
    BY <2>3, CountFacts
  <2>5. \E u \in WithChips(n) : u # s
    BY <1>1, <2>3, <2>4, CountFacts
  <2>6. QED
    BY <1>8, <2>1, <2>5 DEF Unopened
<1>11. CASE Called(st, s)
  <2>1. PICK w \in st.live \ st.toAct : st.bet[w] = T
    BY <1>11 DEF Called
  <2>2. w # a /\ w \in f.active /\ T > 0
    BY <1>4, <1>11, <2>1 DEF Called
  <2>3. w \in n.live \ n.toAct /\ n.bet[w] = T
    BY <1>1, <1>3, <1>5, <1>8, <2>1, <2>2
  <2>4. QED
    BY <1>8, <2>2, <2>3 DEF Called
<1>12. CASE LastToSpeak(st, s)
  <2>1. /\ st.live \ {s} \subseteq st.toAct /\ st.bet[a] < T /\ T <= AllInTo(st, a)
        /\ \A t \in st.live \ {s} : /\ st.bet[t] < T /\ T <= AllInTo(st, t)
                                    /\ Ahead(st.last, t) < Ahead(st.last, s)
    BY <1>4, <1>5, <1>12 DEF LastToSpeak
  <2>2. CASE i.action = "fold"
    <3>1. ASSUME NEW t \in n.live \ {s}
          PROVE  t \in n.toAct /\ n.bet[t] < TopBet(n) /\ TopBet(n) <= AllInTo(n, t) /\ Ahead(n.last, t) < Ahead(n.last, s)
      <4>1. t \in st.live \ {s} /\ t # a /\ t \in f.active /\ t \in st.toAct
        BY <3>1, <2>1, <2>2, <1>1, <1>4, <1>5
      <4>2. n.stack[t] = st.stack[t] /\ n.bet[t] = st.bet[t]
        BY <4>1, <1>1, <1>5
      <4>3. st.stack[t] > 0
        BY <4>1, <1>0 DEF StateOK, WithChips
      <4>4. t \in n.toAct
        <5>1. t \in LiveAfter(st, i) /\ StackAfter(st, i)[t] > 0
          BY <3>1, <4>2, <4>3, <1>1
        <5>2. QED
          BY <5>1, <4>1, <1>3, <1>5
      <4>5. n.bet[t] < TopBet(n) /\ TopBet(n) <= AllInTo(n, t)
        BY <4>1, <4>2, <2>1, <1>8 DEF AllInTo
      <4>6. Ahead(a, t) < Ahead(a, s)
        <5>1. st.last \in Seats /\ t \in Seats /\ a \in Seats /\ s \in Seats
          BY <1>0, <1>4, <1>6, <4>1 DEF StateOK, States, FactsOK
        <5>2. Ahead(st.last, t) < Ahead(st.last, s) /\ Ahead(st.last, a) <= Ahead(st.last, t)
          BY <2>1, <4>1, <1>4
        <5>3. /\ Ahead(st.last, t) \in Nat /\ Ahead(st.last, s) \in Nat /\ Ahead(st.last, a) \in Nat
              /\ Ahead(st.last, a) # Ahead(st.last, t)
          BY <5>1, <4>1, AheadFacts
        <5> HIDE DEF a
        <5>4. Ahead(st.last, a) < Ahead(st.last, t) /\ Ahead(st.last, a) < Ahead(st.last, s)
          BY <5>2, <5>3
        <5>5. /\ Ahead(a, t) = Ahead(st.last, t) - Ahead(st.last, a) - 1
              /\ Ahead(a, s) = Ahead(st.last, s) - Ahead(st.last, a) - 1
          BY <5>1, <5>4, AheadFacts
        <5>6. QED
          BY <5>2, <5>3, <5>5
      <4>7. QED
        BY <4>4, <4>5, <4>6, <1>1
    <3> HIDE DEF n
    <3>2. LastToSpeak(n, s)
      BY <3>1 DEF LastToSpeak
    <3>3. QED
      BY <3>2 DEF n
  <2>3. CASE i.action # "fold"
    <3>1. NewBet(st, i) = T
      <4>1. \/ NewBet(st, i) = T
            \/ NewBet(st, i) < T /\ Added(st, i) = st.stack[a]
            \/ NewBet(st, i) > T
        BY <1>0, <2>3, LegalMove
      <4>2. NewBet(st, i) = st.bet[a] + Added(st, i) /\ AllInTo(st, a) = st.bet[a] + st.stack[a]
        BY DEF NewBet, AllInTo
      <4>3. T <= AllInTo(st, a) /\ ~(NewBet(st, i) > T)
        BY <2>1, <1>5, <1>7
      <4> HIDE DEF a, T
      <4>4. QED
        BY <4>1, <4>2, <4>3, <1>4
    <3>2. a \in n.live \ n.toAct /\ n.bet[a] = T
      BY <3>1, <2>3, <1>1, <1>3, <1>4, <1>5
    <3>3. T > 0
      <4>1. st.bet[a] < T /\ st.bet[a] \in Nat
        BY <2>1, <1>4
      <4> HIDE DEF a, T
      <4>2. QED
        BY <4>1, <1>4
    <3>4. QED
      BY <1>8, <3>2, <3>3 DEF Called
  <2>4. QED
    BY <2>2, <2>3
<1>13. QED
  BY <1>9, <1>10, <1>11, <1>12

LEMMA ActedInv ==
    ASSUME NEW f, NEW st, HandInv(f, st), NEW i, IntentOK(i),
           Actor(st) = i.seat, i.seat # NoSeat, Legal(st, i)
    PROVE  HandInv(f, Acted(st, i))
<1>1. FactsOK(f) /\ StateOK(f, st) /\ Matched(st)
  BY DEF HandInv
<1>2. PICK b \in Nat : BaseOK(f, st, b)
  BY DEF HandInv
<1>3. StateOK(f, Acted(st, i))
  BY <1>1, ActedOK
<1>4. BaseOK(f, Acted(st, i), b)
  BY <1>1, <1>2, ActedBase
<1>5. Matched(Acted(st, i))
  BY <1>1, ActedMatched
<1>6. TopLives(f, Acted(st, i)) /\ Optional(Acted(st, i))
  BY ActedTopLives, ActedOptional
<1>7. QED
  BY <1>1, <1>3, <1>4, <1>5, <1>6 DEF HandInv

(***************************************************************************)
(* The next street, and the opening.                                       *)
(***************************************************************************)
LEMMA ZeroTop ==
    ASSUME NEW A, IsFiniteSet(A), A # {}, NEW e, e \in [A -> Nat], \A s \in A : e[s] = 0
    PROVE  Max(Range(e)) = 0
<1>1. PICK t \in A : TRUE
  OBVIOUS
<1>2. \A s \in A : e[s] <= e[t]
  OBVIOUS
<1>3. QED
  BY <1>1, <1>2, MaxBetIs

Dealable(st) == InProgress(st) /\ Actor(st) = NoSeat /\ st.street < River

LEMMA DealtInv ==
    ASSUME NEW f, NEW st, HandInv(f, st), Dealable(st)
    PROVE  HandInv(f, Dealt(st))
<1> DEFINE n == Dealt(st)
           z == [s \in f.active |-> 0]
           T == TopBet(st)
<1>0. FactsOK(f) /\ StateOK(f, st) /\ Matched(st) /\ TopLives(f, st)
  BY DEF HandInv
<1>1. PICK b \in Nat : BaseOK(f, st, b)
  BY DEF HandInv
<1>2. /\ st \in States(f) /\ DOMAIN st = {"street", "button", "live", "stack", "bet", "toAct", "last", "step"}
      /\ DOMAIN st.bet = f.active
  BY <1>0 DEF StateOK, States
<1>3. /\ n.street = st.street + 1 /\ n.button = st.button /\ n.live = st.live /\ n.stack = st.stack
      /\ n.bet = z /\ n.last = st.button /\ n.step = BigBlind
      /\ n.toAct = (IF Cardinality(WithChips(st)) > 1 THEN WithChips(st) ELSE {})
      /\ n = [street |-> n.street, button |-> n.button, live |-> n.live, stack |-> n.stack,
              bet |-> n.bet, toAct |-> n.toAct, last |-> n.last, step |-> n.step]
  <2>1. n = [st EXCEPT !.street = st.street + 1, !.last = st.button, !.step = BigBlind,
                       !.bet = [s \in DOMAIN st.bet |-> 0],
                       !.toAct = IF Cardinality(WithChips(st)) > 1 THEN WithChips(st) ELSE {}]
    BY DEF Dealt
  <2>2. [s \in DOMAIN st.bet |-> 0] = z
    BY <1>2
  <2> HIDE DEF n, z
  <2>3. QED
    BY <1>2, <2>1, <2>2
<1>4. WithChips(n) = WithChips(st) /\ z \in [f.active -> Nat] /\ \A s \in f.active : z[s] = 0
  BY <1>3 DEF WithChips
<1>5. IsFiniteSet(f.active) /\ f.active # {} /\ IsFiniteSet(WithChips(st)) /\ f.active \subseteq Seats
      /\ st.live \subseteq f.active /\ T \in Nat
  BY <1>0, StateFacts DEF StateOK
<1>6. TopBet(n) = 0
  BY <1>3, <1>4, <1>5, ZeroTop DEF TopBet
<1>7. Cardinality(st.live) > 1 /\ st.toAct = {}
  <2>1. InProgress(st) /\ (st.toAct # {} => Actor(st) \in Seats)
    <3>1. CASE st.toAct # {}
      <4>1. Actor(st) = FirstAfter(st.last, st.toAct)
        BY <3>1 DEF Actor, Dealable
      <4>2. FirstAfter(st.last, st.toAct) \in st.toAct /\ st.toAct \subseteq Seats
        BY <3>1, <1>2, FirstAfterFacts DEF States
      <4>3. QED
        BY <4>1, <4>2 DEF Dealable
    <3>2. QED
      BY <3>1 DEF Dealable
  <2>2. NoSeat \notin Seats
    BY HandRulesAssumption DEF Seats
  <2>3. QED
    BY <2>1, <2>2 DEF Dealable, InProgress
<1>8. StateOK(f, n)
  <2>1. n.street \in 0 .. River
    BY <1>2, <1>3 DEF States, River, Dealable
  <2>2. BigBlind \in Nat \ {0}
    BY HandRulesAssumption
  <2>3. WithChips(st) \subseteq Seats
    BY <1>5 DEF WithChips
  <2>4. n.toAct \subseteq WithChips(n)
    BY <1>3, <1>4
  <2>5. n.toAct \in SUBSET Seats
    BY <1>3, <2>3
  <2> HIDE DEF n, z
  <2>6. n \in States(f)
    BY <1>2, <1>3, <1>4, <2>1, <2>2, <2>5 DEF States
  <2>7. n.live \subseteq f.active /\ n.live # {}
    BY <1>0, <1>3 DEF StateOK
  <2>8. QED
    BY <2>4, <2>6, <2>7 DEF StateOK
<1>9. BaseOK(f, n, b + T)
  <2>1. ASSUME NEW s \in f.active
        PROVE  /\ 0 <= Earlier(f, n, s) /\ Earlier(f, n, s) <= b + T
               /\ s \in WithChips(n) \/ n.bet[s] > 0 => Earlier(f, n, s) = b + T
    <3>1. f.stacks[s] \in Nat /\ st.stack[s] \in Nat /\ st.bet[s] \in Nat /\ st.bet[s] <= T
      BY <1>0, StateFacts
    <3>2. Earlier(f, n, s) = (f.stacks[s] - st.stack[s]) - 0 /\ n.bet[s] = 0
      BY <1>3 DEF Earlier, PaidBy
    <3>3. 0 <= (f.stacks[s] - st.stack[s]) - st.bet[s] /\ (f.stacks[s] - st.stack[s]) - st.bet[s] <= b
      BY <1>1 DEF BaseOK, Earlier, PaidBy
    <3>4. s \in WithChips(st) => (f.stacks[s] - st.stack[s]) - st.bet[s] = b /\ st.bet[s] = T
      BY <1>0, <1>1, <1>7 DEF BaseOK, Earlier, PaidBy, Matched
    <3> HIDE DEF n, T
    <3>5. 0 <= Earlier(f, n, s) /\ Earlier(f, n, s) <= b + T
      BY <1>5, <3>1, <3>2, <3>3
    <3>6. s \in WithChips(n) => Earlier(f, n, s) = b + T
      BY <1>4, <1>5, <3>1, <3>2, <3>4
    <3>7. ~(n.bet[s] > 0)
      BY <3>2
    <3>8. QED
      BY <3>5, <3>6, <3>7
  <2> HIDE DEF n, T
  <2>2. QED
    BY <2>1 DEF BaseOK
<1>10. Matched(n)
  <2>1. ASSUME NEW s \in WithChips(n) \ n.toAct PROVE n.bet[s] = TopBet(n)
    BY <1>3, <1>4, <1>5, <1>6 DEF WithChips
  <2> HIDE DEF n
  <2>2. QED
    BY <2>1 DEF Matched
<1>11. TopLives(f, n)
  BY <1>0, <1>3 DEF TopLives, PaidBy
<1>12. Optional(n)
  <2>1. ASSUME NEW s \in n.toAct PROVE Unopened(n, s)
    <3>1. Cardinality(WithChips(st)) > 1
      BY <1>3, <2>1
    <3>2. \E u \in WithChips(st) : u # s
      BY <1>5, <3>1, CountFacts
    <3>3. QED
      BY <3>2, <1>4, <1>6 DEF Unopened
  <2> HIDE DEF n
  <2>2. QED
    BY <2>1 DEF Optional
<1>13. b + T \in Nat
  BY <1>5
<1> HIDE DEF n, T
<1>14. HandInv(f, n)
  BY <1>0, <1>8, <1>9, <1>10, <1>11, <1>12, <1>13 DEF HandInv
<1>15. QED
  BY <1>14 DEF n

LEMMA BlindSeats ==
    ASSUME NEW f, FactsOK(f)
    PROVE  /\ SmallBlindSeat(f) \in f.active /\ BigBlindSeat(f) \in f.active
           /\ SmallBlindSeat(f) # BigBlindSeat(f)
           /\ Posted(f, BigBlindSeat(f)) = BigBlind
           /\ Posted(f, SmallBlindSeat(f)) = SmallBlind
           /\ \A s \in f.active \ {SmallBlindSeat(f), BigBlindSeat(f)} : Posted(f, s) = 0
<1> DEFINE p == SmallBlindSeat(f)
           q == BigBlindSeat(f)
<1>1. f.button \in f.active /\ f.active \subseteq Seats /\ f.active # {} /\ IsFiniteSet(f.active) /\ Cardinality(f.active) > 1
  <2>1. f.button \in f.active /\ f.active \subseteq Seats /\ Cardinality(f.active) >= 2
    BY DEF FactsOK
  <2>2. IsFiniteSet(f.active)
    BY <2>1, SeatsFinite
  <2>3. Cardinality(f.active) \in Nat
    BY <2>2, CountFacts
  <2>4. QED
    BY <2>1, <2>2, <2>3
<1>2. p \in f.active
  BY <1>1, FirstAfterFacts DEF SmallBlindSeat
<1>3. q \in f.active /\ \A u \in f.active : Ahead(p, q) <= Ahead(p, u)
  BY <1>1, <1>2, FirstAfterFacts DEF BigBlindSeat
<1>4. p # q
  <2>1. PICK t \in f.active : t # p
    BY <1>1, CountFacts
  <2>2. p \in Seats /\ t \in Seats /\ q \in Seats
    BY <1>1, <1>2, <1>3
  <2>3. Ahead(p, t) < Ahead(p, p) /\ Ahead(p, t) \in Nat /\ Ahead(p, p) \in Nat /\ Ahead(p, q) \in Nat
    BY <2>1, <2>2, AheadFacts
  <2>4. Ahead(p, q) <= Ahead(p, t)
    BY <1>3
  <2> HIDE DEF p, q
  <2>5. QED
    BY <2>3, <2>4
<1>5. /\ SmallBlind \in Nat \ {0} /\ BigBlind \in Nat /\ SmallBlind < BigBlind
      /\ f.stacks[p] \in Nat /\ f.stacks[p] >= BigBlind /\ f.stacks[q] \in Nat /\ f.stacks[q] >= BigBlind
  <2>1. \A s \in f.active : f.stacks[s] \in Nat /\ f.stacks[s] >= BigBlind
    BY <1>1 DEF FactsOK
  <2>2. QED
    BY <2>1, <1>2, <1>3, HandRulesAssumption
<1>6. Posted(f, p) = Least(SmallBlind, f.stacks[p])
  BY <1>4 DEF Posted
<1>7. Posted(f, q) = Least(BigBlind, f.stacks[q])
  BY <1>4 DEF Posted
<1>8. \A s \in f.active \ {p, q} : Posted(f, s) = 0
  BY DEF Posted
<1> HIDE DEF p, q
<1>9. Posted(f, p) = SmallBlind /\ Posted(f, q) = BigBlind
  BY <1>5, <1>6, <1>7 DEF Least
<1>10. QED
  BY <1>2, <1>3, <1>4, <1>8, <1>9 DEF p, q

LEMMA OpenedInv ==
    ASSUME NEW f, FactsOK(f)
    PROVE  HandInv(f, Opened(f))
<1> DEFINE n == Opened(f)
           p == SmallBlindSeat(f)
           q == BigBlindSeat(f)
<1>1. /\ p \in f.active /\ q \in f.active /\ p # q
      /\ Posted(f, q) = BigBlind /\ Posted(f, p) = SmallBlind
      /\ \A s \in f.active \ {p, q} : Posted(f, s) = 0
  BY BlindSeats
<1>2. /\ f.active \subseteq Seats /\ IsFiniteSet(f.active) /\ f.active # {} /\ f.button \in Seats
      /\ \A s \in f.active : f.stacks[s] \in Nat /\ f.stacks[s] >= BigBlind
      /\ SmallBlind \in Nat \ {0} /\ BigBlind \in Nat \ {0} /\ SmallBlind < BigBlind
  BY SeatsFinite, HandRulesAssumption DEF FactsOK
<1>3. ASSUME NEW s \in f.active
      PROVE  /\ Posted(f, s) \in Nat /\ Posted(f, s) <= BigBlind
             /\ f.stacks[s] - Posted(f, s) \in Nat /\ f.stacks[s] \in Nat /\ f.stacks[s] >= BigBlind
             /\ s # q => Posted(f, s) < BigBlind /\ f.stacks[s] > Posted(f, s)
  <2>1. Posted(f, s) \in Nat /\ Posted(f, s) <= BigBlind /\ (s # q => Posted(f, s) < BigBlind)
    <3>1. CASE s = p
      BY <3>1, <1>1, <1>2
    <3>2. CASE s = q
      BY <3>2, <1>1, <1>2
    <3>3. CASE s \notin {p, q}
      BY <3>3, <1>1, <1>2
    <3>4. QED
      BY <3>1, <3>2, <3>3
  <2>2. f.stacks[s] \in Nat /\ f.stacks[s] >= BigBlind /\ BigBlind \in Nat
    BY <1>2
  <2>3. QED
    BY <2>1, <2>2
<1>4. /\ n.street = 0 /\ n.button = f.button /\ n.live = f.active
      /\ n.stack = [s \in f.active |-> f.stacks[s] - Posted(f, s)]
      /\ n.bet = [s \in f.active |-> Posted(f, s)]
      /\ n.toAct = {s \in f.active : f.stacks[s] > Posted(f, s)}
      /\ n.last = q /\ n.step = BigBlind
      /\ n = [street |-> n.street, button |-> n.button, live |-> n.live, stack |-> n.stack,
              bet |-> n.bet, toAct |-> n.toAct, last |-> n.last, step |-> n.step]
  BY DEF Opened
<1>5. n.stack \in [f.active -> Nat] /\ n.bet \in [f.active -> Nat]
  BY <1>3, <1>4
<1>6. TopBet(n) = BigBlind
  <2>1. \A s \in f.active : n.bet[s] <= n.bet[q] /\ n.bet[q] = BigBlind
    BY <1>1, <1>3, <1>4
  <2>2. Max(Range(n.bet)) = n.bet[q]
    <3> HIDE DEF n, q
    <3>1. QED
      BY <1>1, <1>2, <1>5, <2>1, MaxBetIs
  <2>3. QED
    BY <1>1, <2>1, <2>2 DEF TopBet
<1>7. WithChips(n) = n.toAct
  <2>1. ASSUME NEW s \in f.active PROVE n.stack[s] > 0 <=> f.stacks[s] > Posted(f, s)
    <3>1. n.stack[s] = f.stacks[s] - Posted(f, s)
      BY <1>4
    <3>2. Posted(f, s) \in Nat /\ f.stacks[s] \in Nat
      BY <1>3
    <3> HIDE DEF n
    <3>3. QED
      BY <3>1, <3>2
  <2>2. WithChips(n) = {s \in f.active : n.stack[s] > 0}
    BY <1>4 DEF WithChips
  <2>3. QED
    BY <1>4, <2>1, <2>2
<1>8. StateOK(f, n)
  <2>1. 0 \in 0 .. River
    BY DEF River
  <2>2. n.live \in SUBSET Seats /\ n.toAct \in SUBSET Seats /\ q \in Seats /\ n.live # {}
    BY <1>1, <1>2, <1>4
  <2> HIDE DEF n, q
  <2>3. n \in States(f)
    BY <1>2, <1>4, <1>5, <2>1, <2>2 DEF States
  <2>4. QED
    BY <1>4, <1>7, <2>2, <2>3 DEF StateOK
<1>9. BaseOK(f, n, 0)
  <2>1. ASSUME NEW s \in f.active PROVE Earlier(f, n, s) = 0
    <3>1. Earlier(f, n, s) = (f.stacks[s] - (f.stacks[s] - Posted(f, s))) - Posted(f, s)
      BY <1>4 DEF Earlier, PaidBy
    <3>2. Posted(f, s) \in Nat /\ f.stacks[s] \in Nat
      BY <1>3
    <3> HIDE DEF n
    <3>3. QED
      BY <3>1, <3>2
  <2> HIDE DEF n
  <2>2. QED
    BY <2>1 DEF BaseOK
<1>10. Matched(n)
  <2> HIDE DEF n
  <2>1. QED
    BY <1>7 DEF Matched
<1>11. TopLives(f, n)
  <2>1. ASSUME NEW s \in f.active PROVE PaidBy(f, n, s) = Posted(f, s)
    <3>1. PaidBy(f, n, s) = f.stacks[s] - (f.stacks[s] - Posted(f, s))
      BY <1>4 DEF PaidBy
    <3>2. Posted(f, s) \in Nat /\ f.stacks[s] \in Nat
      BY <1>3
    <3> HIDE DEF n
    <3>3. QED
      BY <3>1, <3>2
  <2>2. \A s \in f.active : PaidBy(f, n, s) <= PaidBy(f, n, q)
    BY <1>1, <1>3, <2>1
  <2>3. q \in n.live
    BY <1>1, <1>4
  <2> HIDE DEF n, q
  <2>4. QED
    BY <2>2, <2>3 DEF TopLives
<1>12. Optional(n)
  <2>1. ASSUME NEW s \in n.toAct, n.bet[s] = TopBet(n) PROVE LastToSpeak(n, s)
    <3>1. s = q
      <4>1. s \in f.active /\ n.bet[s] = Posted(f, s)
        BY <1>4
      <4>2. Posted(f, s) = BigBlind
        BY <4>1, <2>1, <1>6
      <4>3. ~(Posted(f, s) < BigBlind)
        BY <4>2, <1>2
      <4>4. QED
        BY <4>1, <4>3, <1>3
    <3>2. ASSUME NEW t \in n.live \ {s}
          PROVE  /\ t \in n.toAct /\ n.bet[t] < TopBet(n) /\ TopBet(n) <= AllInTo(n, t)
                 /\ Ahead(n.last, t) < Ahead(n.last, s)
      <4>1. t \in f.active /\ t # q
        BY <3>1, <3>2, <1>4
      <4>2. f.stacks[t] > Posted(f, t) /\ Posted(f, t) < BigBlind /\ Posted(f, t) \in Nat
            /\ f.stacks[t] \in Nat /\ f.stacks[t] >= BigBlind
        BY <4>1, <1>3
      <4>3. t \in n.toAct /\ n.bet[t] < TopBet(n)
        BY <4>1, <4>2, <1>4, <1>6
      <4>4. TopBet(n) <= AllInTo(n, t)
        <5>1. AllInTo(n, t) = Posted(f, t) + (f.stacks[t] - Posted(f, t))
          BY <4>1, <1>4 DEF AllInTo
        <5> HIDE DEF n
        <5>2. QED
          BY <5>1, <4>2, <1>2, <1>6
      <4>5. Ahead(q, t) < Ahead(q, q)
        <5>1. q \in Seats /\ t \in Seats
          BY <1>1, <1>2, <4>1
        <5> HIDE DEF q
        <5>2. QED
          BY <5>1, <4>1, AheadFacts
      <4>6. QED
        BY <4>3, <4>4, <4>5, <3>1, <1>4
    <3> HIDE DEF n
    <3>3. QED
      BY <3>2 DEF LastToSpeak
  <2> HIDE DEF n
  <2>2. QED
    BY <2>1 DEF Optional
<1> HIDE DEF n
<1>13. HandInv(f, n)
  BY <1>8, <1>9, <1>10, <1>11, <1>12 DEF HandInv
<1>14. QED
  BY <1>13 DEF n

(***************************************************************************)
(* What the invariant gives.                                               *)
(***************************************************************************)
LEMMA InvSettles ==
    ASSUME NEW f, NEW st, HandInv(f, st)
    PROVE  Settleable(f, st) /\ TopLives(f, st)
<1>1. FactsOK(f) /\ StateOK(f, st) /\ TopLives(f, st)
  BY DEF HandInv
<1>2. PICK b \in Nat : BaseOK(f, st, b)
  BY DEF HandInv
<1>3. ASSUME NEW s \in f.active
      PROVE  f.stacks[s] \in Nat /\ st.stack[s] \in Nat /\ st.stack[s] <= f.stacks[s]
  <2>1. f.stacks[s] \in Nat /\ st.stack[s] \in Nat /\ st.bet[s] \in Nat
    BY <1>1, StateFacts
  <2>2. 0 <= (f.stacks[s] - st.stack[s]) - st.bet[s]
    BY <1>2 DEF BaseOK, Earlier, PaidBy
  <2>3. QED
    BY <2>1, <2>2
<1>4. QED
  BY <1>1, <1>3, StateFacts DEF Settleable, StateOK

LEMMA InvActor ==
    ASSUME NEW f, NEW st, HandInv(f, st)
    PROVE  /\ InProgress(st) /\ Actor(st) = NoSeat =>
                 \A s \in st.live : st.stack[s] > 0 => st.bet[s] = TopBet(st)
           /\ Actor(st) # NoSeat => Actor(st) \in WithChips(st)
<1>1. FactsOK(f) /\ StateOK(f, st) /\ Matched(st)
  BY DEF HandInv
<1>2. st.last \in Seats /\ st.toAct \subseteq Seats /\ st.toAct \subseteq WithChips(st)
  BY <1>1 DEF StateOK, States
<1>3. InProgress(st) /\ st.toAct # {} => Actor(st) \in st.toAct
  BY <1>2, FirstAfterFacts DEF Actor
<1>4. NoSeat \notin Seats
  BY HandRulesAssumption DEF Seats
<1>5. InProgress(st) => Cardinality(st.live) > 1
  BY DEF InProgress
<1>6. InProgress(st) /\ Actor(st) = NoSeat => st.toAct = {}
  BY <1>2, <1>3, <1>4
<1>7. Actor(st) # NoSeat => InProgress(st) /\ st.toAct # {}
  BY DEF Actor
<1>8. QED
  BY <1>1, <1>2, <1>3, <1>5, <1>6, <1>7 DEF Matched, WithChips

LEMMA CapsOfPaid ==
    ASSUME NEW f, NEW st, NEW v
    PROVE  Caps(PaidIn(f, st), f.active, v)
             = SumFunction([t \in f.active |-> Least(f.stacks[t] - st.stack[t], v)])
<1>1. [t \in f.active |-> Least(PaidIn(f, st)[t], v)] = [t \in f.active |-> Least(f.stacks[t] - st.stack[t], v)]
  BY DEF PaidIn
<1>2. DOMAIN [t \in f.active |-> Least(f.stacks[t] - st.stack[t], v)] = f.active
  OBVIOUS
<1>3. QED
  BY <1>1, <1>2 DEF Caps, SumFunction

PayoutsSplit(f, st, d) ==
    \A s \in f.active :
        LET won == Payouts(f, st, d)[s]
        IN  /\ won <= SumFunction([t \in f.active |-> Least(f.stacks[t] - st.stack[t], f.stacks[s] - st.stack[s])])
            /\ s \notin st.live => won = 0

LEMMA InvSplits ==
    ASSUME NEW f, NEW st, HandInv(f, st), NEW d \in Seeds
    PROVE  PayoutsSplit(f, st, d)
<1>1. Settleable(f, st)
  BY InvSettles
<1>2. SUFFICES ASSUME NEW s \in f.active
               PROVE  /\ Payouts(f, st, d)[s]
                           <= SumFunction([t \in f.active |-> Least(f.stacks[t] - st.stack[t], f.stacks[s] - st.stack[s])])
                      /\ s \notin st.live => Payouts(f, st, d)[s] = 0
  BY DEF PayoutsSplit
<1>3. /\ Payouts(f, st, d)[s] <= Caps(PaidIn(f, st), f.active, PaidIn(f, st)[s])
      /\ s \notin st.live => Payouts(f, st, d)[s] = 0
  BY <1>1, PayoutsFair
<1>4. PaidIn(f, st)[s] = f.stacks[s] - st.stack[s]
  BY DEF PaidIn
<1>5. QED
  BY <1>3, <1>4, CapsOfPaid

(***************************************************************************)
(* The hand.                                                               *)
(***************************************************************************)
Playing == HandInv(facts, table) /\ seed \in Seeds

LEMMA HandInit == PlayInit => Playing
<1>1. SUFFICES ASSUME PlayInit PROVE Playing
  OBVIOUS
<1>2. PICK f : f = facts
  OBVIOUS
<1>3. FactsOK(f)
  <2>1. f \in [button : Buttons, stacks : [Seats -> StackSizes], active : SUBSET Seats]
        /\ f.button \in f.active /\ Cardinality(f.active) >= 2
    BY <1>1, <1>2 DEF PlayInit
  <2>2. f.stacks \in [Seats -> StackSizes] /\ f.active \subseteq Seats
    BY <2>1
  <2>3. f.stacks \in [Seats -> Nat] /\ \A s \in f.active : f.stacks[s] >= BigBlind
    BY <2>2, HandPlayAssumption
  <2>4. QED
    BY <2>1, <2>2, <2>3 DEF FactsOK
<1>4. HandInv(f, Opened(f))
  BY <1>3, OpenedInv
<1>5. QED
  BY <1>1, <1>2, <1>4 DEF PlayInit, Playing

LEMMA HandStep == Playing /\ [PlayNext]_handVars => Playing'
<1>1. SUFFICES ASSUME Playing, [PlayNext]_handVars PROVE Playing'
  OBVIOUS
<1>2. PICK f : f = facts
  OBVIOUS
<1>3. PICK st : st = table
  OBVIOUS
<1>4. HandInv(f, st) /\ seed \in Seeds
  BY <1>1, <1>2, <1>3 DEF Playing
<1>5. ASSUME NEW i \in Intents, Act(i) PROVE Playing'
  <2>1. /\ Actor(st) = i.seat /\ Legal(st, i) /\ table' = Acted(st, i)
        /\ facts' = f /\ seed' = seed
    BY <1>2, <1>3, <1>5 DEF Act
  <2>2. IntentOK(i) /\ i.seat # NoSeat
    BY HandRulesAssumption, HandPlayAssumption DEF Intents, IntentOK, Seats
  <2>3. HandInv(f, Acted(st, i))
    BY <1>4, <2>1, <2>2, ActedInv
  <2>4. QED
    BY <1>4, <2>1, <2>3 DEF Playing
<1>6. CASE Deal
  <2>1. Dealable(st) /\ table' = Dealt(st) /\ facts' = f /\ seed' = seed
    BY <1>2, <1>3, <1>6 DEF Deal, Dealable
  <2>2. HandInv(f, Dealt(st))
    BY <1>4, <2>1, DealtInv
  <2>3. QED
    BY <1>4, <2>1, <2>2 DEF Playing
<1>7. CASE UNCHANGED handVars
  BY <1>1, <1>7 DEF Playing, handVars
<1>8. QED
  BY <1>1, <1>5, <1>6, <1>7 DEF PlayNext, Over

LEMMA HandGives == Playing => HandSound
<1>1. SUFFICES ASSUME Playing PROVE HandSound
  OBVIOUS
<1>2. PICK f : f = facts
  OBVIOUS
<1>3. PICK st : st = table
  OBVIOUS
<1>4. PICK d \in Seeds : d = seed
  BY <1>1 DEF Playing
<1>5. HandInv(f, st)
  BY <1>1, <1>2, <1>3 DEF Playing
<1>6. Settleable(f, st) /\ TopLives(f, st)
  BY <1>5, InvSettles
<1>7. SumFunction(SettledFrom(f, st, d).stacks) = SumFunctionOnSet(f.stacks, f.active)
  BY <1>6, SettledConserves
<1>8. ChipsConserved
  BY <1>2, <1>3, <1>4, <1>7 DEF ChipsConserved
<1>9. PayoutsSplit(f, st, d)
  BY <1>5, InvSplits
<1>10. SidePotsFair
  BY <1>2, <1>3, <1>4, <1>9 DEF SidePotsFair, PayoutsSplit, Paid
<1>11. /\ InProgress(st) /\ Actor(st) = NoSeat =>
            \A s \in st.live : st.stack[s] > 0 => st.bet[s] = TopBet(st)
       /\ Actor(st) # NoSeat => Actor(st) \in WithChips(st)
  BY <1>5, InvActor
<1>12. BettingClosesMatched
  BY <1>3, <1>11 DEF BettingClosesMatched
<1>13. ASSUME Actor(st) # NoSeat
       PROVE  \E a \in {"check", "call"} : Legal(st, [seat |-> Actor(st), action |-> a, amount |-> CallCost(st, Actor(st))])
  <2> DEFINE c == CallCost(st, Actor(st))
  <2>1. Actor(st) \in f.active /\ FactsOK(f) /\ StateOK(f, st)
    BY <1>5, <1>11, <1>13 DEF HandInv, StateOK, WithChips
  <2>2. c \in Nat
    <3>1. st.bet[Actor(st)] \in Nat /\ st.stack[Actor(st)] \in Nat /\ TopBet(st) \in Nat /\ st.bet[Actor(st)] <= TopBet(st)
      BY <2>1, StateFacts
    <3>2. QED
      BY <3>1 DEF CallCost, Least
  <2>3. CASE c = 0
    <3>1. Legal(st, [seat |-> Actor(st), action |-> "check", amount |-> c])
      BY <2>3 DEF Legal
    <3>2. QED
      BY <3>1
  <2>4. CASE c > 0
    <3>1. Legal(st, [seat |-> Actor(st), action |-> "call", amount |-> c])
      BY <2>4 DEF Legal
    <3>2. QED
      BY <3>1
  <2>5. QED
    BY <2>2, <2>3, <2>4
<1>14. ActorCanContinue
  BY <1>3, <1>11, <1>13 DEF ActorCanContinue
<1>15. QED
  BY <1>8, <1>10, <1>12, <1>14 DEF HandSound

\* Every hand played by the rules conserves its chips, splits its pots fairly,
\* closes betting only when it is matched, and never leaves the actor without a
\* way to stay in.
THEOREM HandsStaySound == PlaySpec => []HandSound
<1>1. Playing /\ [PlayNext]_handVars => Playing'
  BY HandStep
<1>2. QED
  BY HandInit, <1>1, HandGives, PTL DEF PlaySpec

(***************************************************************************)
(* Replaying a stream of events.                                           *)
(***************************************************************************)
LEMMA NumbersFrom ==
    ASSUME NEW A, 0 \in A, \A n \in Nat : n \in A => n + 1 \in A
    PROVE  Nat \subseteq A
<1> DEFINE T == {n \in Nat : n \notin A}
           R == {ss \in Nat \X Nat : ss[1] < ss[2]}
<1>1. SUFFICES ASSUME T # {} PROVE FALSE
  OBVIOUS
<1>2. IsWellFoundedOn(R, Nat)
  BY NatLessThanWellFounded, Zenon DEF OpToRel
<1>3. PICK n \in T : \A m \in T : ~(<<m, n>> \in R)
  <2> HIDE DEF R
  <2>1. T \subseteq Nat
    OBVIOUS
  <2> HIDE DEF T
  <2>2. QED
    BY <1>1, <1>2, <2>1, WFMin, Zenon
<1>4. n \in Nat /\ n \notin A /\ n # 0
  BY <1>3
<1>5. n - 1 \in Nat /\ (n - 1) + 1 = n /\ n - 1 < n
  BY <1>4
<1>6. n - 1 \notin A
  BY <1>4, <1>5
<1>7. n - 1 \in T /\ <<n - 1, n>> \in R
  BY <1>4, <1>5, <1>6
<1>8. QED
  BY <1>3, <1>7

\* The states a replay goes through, one after each event.
After(es, g, i) == IF i = 1 THEN Opened(Facts(es)) ELSE Applied(g[i - 1], es[i].payload)
IsTrace(es, n, g) == g = [i \in 1 .. n |-> After(es, g, i)]
Trace(es) == CHOOSE g : IsTrace(es, Len(es), g)

LEMMA StateIsTraced == ASSUME NEW es PROVE StateOf(es) = Trace(es)[Len(es)]
<1> DEFINE Is(g) == g = [i \in 1 .. Len(es) |->
                            IF i = 1 THEN Opened(Facts(es))
                            ELSE CHOOSE st \in {Applied(before, es[i].payload) : before \in {g[i - 1]}} : TRUE]
<1>1. StateOf(es) = (CHOOSE g : Is(g))[Len(es)]
  BY DEF StateOf
<1>2. ASSUME NEW g, NEW i
      PROVE  (CHOOSE st \in {Applied(before, es[i].payload) : before \in {g[i - 1]}} : TRUE)
               = Applied(g[i - 1], es[i].payload)
  <2>1. {Applied(before, es[i].payload) : before \in {g[i - 1]}} = {Applied(g[i - 1], es[i].payload)}
    OBVIOUS
  <2>2. QED
    BY <2>1
<1>3. ASSUME NEW g PROVE Is(g) <=> IsTrace(es, Len(es), g)
  BY <1>2 DEF IsTrace, After
<1>4. (CHOOSE g : Is(g)) = CHOOSE g : IsTrace(es, Len(es), g)
  <2> HIDE DEF Is
  <2>1. QED
    BY <1>3
<1>5. QED
  BY <1>1, <1>4 DEF Trace

LEMMA TraceExists ==
    ASSUME NEW es, NEW n \in Nat
    PROVE  \E g : IsTrace(es, n, g)
<1> DEFINE A == {k \in Nat : \E g : IsTrace(es, k, g)}
<1>1. 0 \in A
  <2>1. 1 .. 0 = {}
    OBVIOUS
  <2> DEFINE g == [i \in 1 .. 0 |-> 0]
  <2>2. g = [i \in 1 .. 0 |-> After(es, g, i)]
    BY <2>1
  <2>3. IsTrace(es, 0, g)
    BY <2>2 DEF IsTrace
  <2>4. QED
    BY <2>3
<1>2. ASSUME NEW k \in Nat, k \in A PROVE k + 1 \in A
  <2>1. PICK g : IsTrace(es, k, g)
    BY <1>2
  <2> DEFINE h == [i \in 1 .. k + 1 |-> IF i = k + 1 THEN After(es, g, i) ELSE g[i]]
  <2>2. ASSUME NEW i \in 1 .. k + 1 PROVE h[i] = After(es, g, i)
    <3>1. CASE i = k + 1
      BY <3>1
    <3>2. CASE i # k + 1
      <4>1. i \in 1 .. k /\ h[i] = g[i]
        BY <3>2
      <4>2. g[i] = After(es, g, i)
        BY <2>1, <4>1 DEF IsTrace
      <4>3. QED
        BY <4>1, <4>2
    <3>3. QED
      BY <3>1, <3>2
  <2>3. ASSUME NEW i \in 1 .. k + 1 PROVE After(es, g, i) = After(es, h, i)
    <3>1. CASE i = 1
      BY <3>1 DEF After
    <3>2. CASE i # 1
      <4>1. i - 1 \in 1 .. k + 1 /\ i - 1 # k + 1
        BY <3>2
      <4>2. h[i - 1] = g[i - 1]
        BY <4>1
      <4> HIDE DEF h
      <4>3. QED
        BY <3>2, <4>2 DEF After
    <3>3. QED
      BY <3>1, <3>2
  <2>4. h = [i \in 1 .. k + 1 |-> h[i]]
    OBVIOUS
  <2> HIDE DEF h
  <2>5. IsTrace(es, k + 1, h)
    BY <2>2, <2>3, <2>4 DEF IsTrace
  <2>6. QED
    BY <2>5
<1>3. n \in A
  <2> HIDE DEF A
  <2>1. Nat \subseteq A
    BY <1>1, <1>2, NumbersFrom
  <2>2. QED
    BY <2>1
<1>4. QED
  BY <1>3

LEMMA TraceFacts ==
    ASSUME NEW es, Len(es) \in Nat
    PROVE  \A i \in 1 .. Len(es) : Trace(es)[i] = After(es, Trace(es), i)
<1>1. IsTrace(es, Len(es), Trace(es))
  <2>1. \E g : IsTrace(es, Len(es), g)
    BY TraceExists
  <2>2. QED
    BY <2>1 DEF Trace
<1>2. QED
  BY <1>1 DEF IsTrace

\* A replay of a stream that goes on starts as the replay of its beginning.
LEMMA TraceOfBeginning ==
    ASSUME NEW es, NEW ds, Len(es) \in Nat, Len(ds) \in Nat, Len(ds) <= Len(es),
           \A i \in 1 .. Len(ds) : es[i] = ds[i]
    PROVE  \A i \in 1 .. Len(ds) : Trace(es)[i] = Trace(ds)[i]
<1> DEFINE A == {i \in Nat : i \in 1 .. Len(ds) => Trace(es)[i] = Trace(ds)[i]}
<1>1. 0 \in A
  OBVIOUS
<1>2. ASSUME NEW k \in Nat, k \in A PROVE k + 1 \in A
  <2>1. SUFFICES ASSUME k + 1 \in 1 .. Len(ds) PROVE Trace(es)[k + 1] = Trace(ds)[k + 1]
    OBVIOUS
  <2>2. k + 1 \in 1 .. Len(es) /\ 1 \in 1 .. Len(ds)
    BY <2>1
  <2>3. /\ Trace(es)[k + 1] = After(es, Trace(es), k + 1)
        /\ Trace(ds)[k + 1] = After(ds, Trace(ds), k + 1)
    BY <2>1, <2>2, TraceFacts
  <2>4. es[k + 1] = ds[k + 1] /\ es[1] = ds[1]
    BY <2>1, <2>2
  <2>5. CASE k = 0
    BY <2>3, <2>4, <2>5 DEF After, Facts
  <2>6. CASE k # 0
    <3>1. k \in 1 .. Len(ds) /\ (k + 1) - 1 = k /\ k + 1 # 1
      BY <2>1, <2>6
    <3>2. Trace(es)[k] = Trace(ds)[k]
      BY <1>2, <3>1
    <3>3. QED
      BY <2>3, <2>4, <3>1, <3>2 DEF After
  <2>7. QED
    BY <2>5, <2>6
<1>3. Nat \subseteq A
  <2> HIDE DEF A
  <2>1. QED
    BY <1>1, <1>2, NumbersFrom
<1>4. QED
  BY <1>3

\* The state of a stream of one event, and the state after one more event.
LEMMA StateOfFirst ==
    ASSUME NEW es, Len(es) = 1
    PROVE  StateOf(es) = Opened(Facts(es))
<1>1. Len(es) \in Nat /\ 1 \in 1 .. Len(es)
  OBVIOUS
<1>2. Trace(es)[1] = After(es, Trace(es), 1)
  BY <1>1, TraceFacts
<1>3. QED
  BY <1>2, StateIsTraced DEF After

LEMMA StateOfNext ==
    ASSUME NEW es, NEW ds, Len(ds) \in Nat \ {0}, Len(es) = Len(ds) + 1,
           \A i \in 1 .. Len(ds) : es[i] = ds[i]
    PROVE  StateOf(es) = Applied(StateOf(ds), es[Len(es)].payload)
<1>1. Len(es) \in Nat /\ Len(ds) <= Len(es) /\ Len(es) - 1 = Len(ds) /\ Len(es) # 1
      /\ Len(es) \in 1 .. Len(es) /\ Len(ds) \in 1 .. Len(ds)
  OBVIOUS
<1>2. Trace(es)[Len(es)] = After(es, Trace(es), Len(es))
  BY <1>1, TraceFacts
<1>3. Trace(es)[Len(ds)] = Trace(ds)[Len(ds)]
  BY <1>1, TraceOfBeginning
<1>4. QED
  BY <1>1, <1>2, <1>3, StateIsTraced DEF After
(***************************************************************************)
(* The statistics of a hand: the replay's one pass over the actions.       *)
(***************************************************************************)
CountedTo(es, g, k) == IF k = 0 THEN Fresh ELSE Counted(g[k - 1], es[k])
IsPass(es, n, g) == g = [k \in 0 .. n |-> CountedTo(es, g, k)]
Tallies(es) == CHOOSE g : IsPass(es, Len(es), g)

LEMMA PassIsTallied == ASSUME NEW es PROVE Pass(es) = Tallies(es)[Len(es)]
<1> DEFINE Is(g) == g = [n \in 0 .. Len(es) |-> IF n = 0 THEN Fresh ELSE Counted(g[n - 1], es[n])]
<1>1. Pass(es) = (CHOOSE g : Is(g))[Len(es)]
  BY Zenon DEF Pass
<1>2. ASSUME NEW g PROVE Is(g) <=> IsPass(es, Len(es), g)
  BY Zenon DEF IsPass, CountedTo
<1>3. (CHOOSE g : Is(g)) = CHOOSE g : IsPass(es, Len(es), g)
  <2> HIDE DEF Is
  <2>1. QED
    BY <1>2
<1>4. QED
  BY <1>1, <1>3 DEF Tallies

LEMMA TalliesExist ==
    ASSUME NEW es, NEW n \in Nat
    PROVE  \E g : IsPass(es, n, g)
<1> DEFINE A == {k \in Nat : \E g : IsPass(es, k, g)}
<1>1. 0 \in A
  <2> DEFINE g == [k \in 0 .. 0 |-> Fresh]
  <2>1. \A k \in 0 .. 0 : k = 0
    OBVIOUS
  <2>2. g = [k \in 0 .. 0 |-> CountedTo(es, g, k)]
    BY <2>1 DEF CountedTo
  <2>3. IsPass(es, 0, g)
    BY <2>2 DEF IsPass
  <2>4. QED
    BY <2>3
<1>2. ASSUME NEW k \in Nat, k \in A PROVE k + 1 \in A
  <2>1. PICK g : IsPass(es, k, g)
    BY <1>2
  <2> DEFINE h == [i \in 0 .. k + 1 |-> IF i = k + 1 THEN CountedTo(es, g, i) ELSE g[i]]
  <2>2. ASSUME NEW i \in 0 .. k + 1 PROVE h[i] = CountedTo(es, g, i)
    <3>1. CASE i = k + 1
      BY <3>1
    <3>2. CASE i # k + 1
      <4>1. i \in 0 .. k /\ h[i] = g[i]
        BY <3>2
      <4>2. g[i] = CountedTo(es, g, i)
        BY <2>1, <4>1 DEF IsPass
      <4>3. QED
        BY <4>1, <4>2
    <3>3. QED
      BY <3>1, <3>2
  <2>3. ASSUME NEW i \in 0 .. k + 1 PROVE CountedTo(es, g, i) = CountedTo(es, h, i)
    <3>1. CASE i = 0
      BY <3>1 DEF CountedTo
    <3>2. CASE i # 0
      <4>1. i - 1 \in 0 .. k + 1 /\ i - 1 # k + 1
        BY <3>2
      <4>2. h[i - 1] = g[i - 1]
        BY <4>1
      <4> HIDE DEF h
      <4>3. QED
        BY <3>2, <4>2 DEF CountedTo
    <3>3. QED
      BY <3>1, <3>2
  <2>4. h = [i \in 0 .. k + 1 |-> h[i]]
    OBVIOUS
  <2> HIDE DEF h
  <2>5. IsPass(es, k + 1, h)
    BY <2>2, <2>3, <2>4 DEF IsPass
  <2>6. QED
    BY <2>5
<1>3. n \in A
  <2> HIDE DEF A
  <2>1. Nat \subseteq A
    BY <1>1, <1>2, NumbersFrom
  <2>2. QED
    BY <2>1
<1>4. QED
  BY <1>3

LEMMA TalliesAre ==
    ASSUME NEW es, Len(es) \in Nat
    PROVE  \A k \in 0 .. Len(es) : Tallies(es)[k] = CountedTo(es, Tallies(es), k)
<1>1. IsPass(es, Len(es), Tallies(es))
  <2>1. \E g : IsPass(es, Len(es), g)
    BY TalliesExist
  <2>2. QED
    BY <2>1 DEF Tallies
<1>2. QED
  BY <1>1 DEF IsPass

LEMMA TalliesOfBeginning ==
    ASSUME NEW es, NEW ds, Len(es) \in Nat, Len(ds) \in Nat, Len(ds) <= Len(es),
           \A k \in 1 .. Len(ds) : es[k] = ds[k]
    PROVE  \A k \in 0 .. Len(ds) : Tallies(es)[k] = Tallies(ds)[k]
<1> DEFINE A == {k \in Nat : k \in 0 .. Len(ds) => Tallies(es)[k] = Tallies(ds)[k]}
<1>1. 0 \in A
  <2>1. Tallies(es)[0] = CountedTo(es, Tallies(es), 0) /\ Tallies(ds)[0] = CountedTo(ds, Tallies(ds), 0)
    BY TalliesAre
  <2>2. QED
    BY <2>1 DEF CountedTo
<1>2. ASSUME NEW k \in Nat, k \in A PROVE k + 1 \in A
  <2>1. SUFFICES ASSUME k + 1 \in 0 .. Len(ds) PROVE Tallies(es)[k + 1] = Tallies(ds)[k + 1]
    OBVIOUS
  <2>2. k + 1 \in 0 .. Len(es) /\ k + 1 \in 1 .. Len(ds) /\ k \in 0 .. Len(ds)
        /\ (k + 1) - 1 = k /\ k + 1 # 0
    BY <2>1
  <2>3. /\ Tallies(es)[k + 1] = CountedTo(es, Tallies(es), k + 1)
        /\ Tallies(ds)[k + 1] = CountedTo(ds, Tallies(ds), k + 1)
    BY <2>1, <2>2, TalliesAre
  <2>4. es[k + 1] = ds[k + 1] /\ Tallies(es)[k] = Tallies(ds)[k]
    BY <1>2, <2>2
  <2>5. QED
    BY <2>2, <2>3, <2>4 DEF CountedTo
<1>3. Nat \subseteq A
  <2> HIDE DEF A
  <2>1. QED
    BY <1>1, <1>2, NumbersFrom
<1>4. QED
  BY <1>3

\* No action is counted as nothing, and one more action is counted on top.
LEMMA PassOfNone == Pass(<<>>) = Fresh
<1> DEFINE es == <<>>
<1>1. Len(es) = 0
  OBVIOUS
<1> HIDE DEF es
<1>2. Len(es) \in Nat /\ Len(es) \in 0 .. Len(es)
  BY <1>1
<1>3. Tallies(es)[Len(es)] = CountedTo(es, Tallies(es), Len(es))
  BY <1>2, TalliesAre
<1>4. Pass(es) = Fresh
  BY <1>1, <1>3, PassIsTallied DEF CountedTo
<1>5. QED
  BY <1>4 DEF es

LEMMA PassOfNext ==
    ASSUME NEW S, NEW es \in Seq(S), NEW a \in S
    PROVE  Pass(Append(es, a)) = Counted(Pass(es), a)
<1>1. PICK ns : ns = Append(es, a)
  OBVIOUS
<1>2. /\ Len(es) \in Nat /\ Len(ns) = Len(es) + 1 /\ ns[Len(ns)] = a
      /\ \A k \in 1 .. Len(es) : ns[k] = es[k]
  BY <1>1
<1>3. /\ Len(ns) \in Nat /\ Len(es) <= Len(ns) /\ Len(ns) - 1 = Len(es) /\ Len(ns) # 0
      /\ Len(ns) \in 0 .. Len(ns) /\ Len(es) \in 0 .. Len(es)
  BY <1>2
<1>4. Tallies(ns)[Len(ns)] = CountedTo(ns, Tallies(ns), Len(ns))
  BY <1>3, TalliesAre
<1>5. Tallies(ns)[Len(es)] = Tallies(es)[Len(es)]
  BY <1>2, <1>3, TalliesOfBeginning
<1>6. QED
  BY <1>1, <1>2, <1>3, <1>4, <1>5, PassIsTallied DEF CountedTo

(***************************************************************************)
(* The statistics of a hand: what the replay has counted after every       *)
(* action.                                                                 *)
(***************************************************************************)
LEMMA MinIn ==
    ASSUME NEW S, S \subseteq Nat, S # {}
    PROVE  Min(S) \in S /\ \A k \in S : Min(S) <= k
<1>1. SUFFICES ASSUME \A m \in S : \E k \in S : ~(m <= k) PROVE FALSE
  BY DEF Min
<1> DEFINE C == {n \in Nat : \A k \in S : k > n}
<1>2. 0 \in C
  <2>1. 0 \notin S
    BY <1>1
  <2>2. QED
    BY <2>1
<1>3. ASSUME NEW n \in Nat, n \in C PROVE n + 1 \in C
  <2>1. \A k \in S : k \in Nat /\ k >= n + 1
    BY <1>3
  <2>2. n + 1 \notin S
    BY <1>1, <2>1
  <2>3. \A k \in S : k > n + 1
    BY <2>1, <2>2
  <2>4. QED
    BY <2>3
<1>4. Nat \subseteq C
  <2> HIDE DEF C
  <2>1. QED
    BY <1>2, <1>3, NumbersFrom
<1>5. PICK k \in S : TRUE
  OBVIOUS
<1>6. k \in Nat /\ k \in C
  BY <1>4, <1>5
<1>7. QED
  BY <1>5, <1>6

\* An action as the projections see it.
Entry(f) == [seat : f.active, street : 0 .. River, action : Actions]
Opens(a) == a.street = 0 /\ a.action \in {"bet", "raise"}
Enters(a) == a.street = 0 /\ a.action \in {"call", "bet", "raise"}

\* Raise i has one raise before it and not two.
Second(i) == /\ \E j \in Raises : j < i
             /\ ~\E j, k \in Raises : j < k /\ k < i

\* The replay's counters are the session's sets; its counter of raises is exact
\* up to two; its three-bettors are some of the session's, and it misses no
\* second raise.
Tallied ==
    /\ taken \in Seq(Entry(facts))
    /\ Replayed.acted = SeatsOf(DOMAIN taken)
    /\ Replayed.vpip = Voluntary
    /\ Replayed.pfr = SeatsOf(Raises)
    /\ Replayed.threeBet \subseteq ThreeBets
    /\ \A i \in Raises : Second(i) => taken[i].seat \in Replayed.threeBet
    /\ Replayed.raises \in Nat
    /\ Raises = {} <=> Replayed.raises = 0
    /\ Replayed.raises = 1 => \A i, j \in Raises : i = j
    /\ Replayed.raises >= 2 => \E i, j \in Raises : i < j

\* Who raised first before the flop owes no decision until somebody raised again.
OpenerWaits ==
    table.street = 0 /\ Replayed.raises = 1 => \A i \in Raises : taken[i].seat \notin table.toAct

LEMMA CountedIs ==
    ASSUME NEW acc, NEW a
    PROVE  /\ Counted(acc, a).acted = acc.acted \union {a.seat}
           /\ Counted(acc, a).vpip = IF Enters(a) THEN acc.vpip \union {a.seat} ELSE acc.vpip
           /\ Counted(acc, a).pfr = IF Opens(a) THEN acc.pfr \union {a.seat} ELSE acc.pfr
           /\ Counted(acc, a).threeBet = IF Opens(a) /\ acc.raises + 1 = 2
                                         THEN acc.threeBet \union {a.seat} ELSE acc.threeBet
           /\ Counted(acc, a).raises = IF Opens(a) THEN acc.raises + 1 ELSE acc.raises
BY DEF Counted, Opens, Enters

\* One more action, by a seat that did not make the only raise so far.
LEMMA TalliedNext ==
    ASSUME Tallied, UNCHANGED facts, NEW a \in Entry(facts), taken' = Append(taken, a),
           Opens(a) /\ Replayed.raises = 1 => \A i \in Raises : taken[i].seat # a.seat
    PROVE  /\ Tallied'
           /\ Replayed' = Counted(Replayed, a)
           /\ Raises' = IF Opens(a) THEN Raises \cup {Len(taken) + 1} ELSE Raises
           /\ \A i \in Raises : taken'[i] = taken[i]
           /\ taken'[Len(taken) + 1] = a
<1>0. PICK n : n = Len(taken) + 1
  OBVIOUS
<1>1. taken \in Seq(Entry(facts)) /\ Len(taken) \in Nat /\ DOMAIN taken = 1 .. Len(taken)
  BY DEF Tallied
<1>2. /\ taken' \in Seq(Entry(facts)) /\ Len(taken') = n /\ DOMAIN taken' = 1 .. n
      /\ taken'[n] = a /\ \A i \in DOMAIN taken : taken'[i] = taken[i]
  BY <1>0, <1>1
<1>3. DOMAIN taken' = DOMAIN taken \cup {n} /\ n \notin DOMAIN taken /\ n \in Nat
      /\ (\A i \in DOMAIN taken : i \in Nat /\ i < n)
  BY <1>0, <1>1, <1>2
<1>4. Replayed' = Counted(Replayed, a)
  <2>1. Pass(taken') = Counted(Pass(taken), a)
    BY <1>1, PassOfNext
  <2>2. QED
    BY <2>1 DEF Replayed
<1>5. Raises' = IF Opens(a) THEN Raises \cup {n} ELSE Raises
  BY <1>2, <1>3 DEF Raises, Preflop, IsRaise, Opens
<1>6. Raises \subseteq DOMAIN taken
  BY DEF Raises, Preflop
<1>7. Replayed'.acted = SeatsOf(DOMAIN taken)'
  <2>1. SeatsOf(DOMAIN taken)' = SeatsOf(DOMAIN taken) \cup {a.seat}
    BY <1>2, <1>3 DEF SeatsOf
  <2>2. Replayed.acted = SeatsOf(DOMAIN taken)
    BY DEF Tallied
  <2>3. Replayed'.acted = Replayed.acted \union {a.seat}
    BY <1>4, CountedIs
  <2>4. QED
    BY <2>1, <2>2, <2>3, Zenon
<1>8. Replayed'.vpip = Voluntary'
  <2>1. Voluntary' = IF Enters(a) THEN Voluntary \cup {a.seat} ELSE Voluntary
    BY <1>2, <1>3 DEF Voluntary, SeatsOf, Preflop, Enters
  <2>2. QED
    BY <1>4, <2>1, CountedIs DEF Tallied
<1>9. Replayed'.pfr = SeatsOf(Raises)'
  <2>1. SeatsOf(Raises)' = IF Opens(a) THEN SeatsOf(Raises) \cup {a.seat} ELSE SeatsOf(Raises)
    BY <1>2, <1>5, <1>6 DEF SeatsOf
  <2>2. QED
    BY <1>4, <2>1, CountedIs DEF Tallied
<1>10. ASSUME Raises # {}
       PROVE  /\ Open \in Raises /\ Open' = Open /\ Open < n /\ taken'[Open] = taken[Open] /\ Raises' # {}
  <2>1. Raises \subseteq Nat /\ Raises' \subseteq Nat /\ Raises' # {}
    BY <1>3, <1>5, <1>6, <1>10
  <2>2. Open \in Raises /\ \A k \in Raises : Open <= k
    BY <2>1, <1>10, MinIn DEF Open
  <2>3. Open' \in Raises' /\ \A k \in Raises' : Open' <= k
    BY <2>1, MinIn DEF Open
  <2>4. Open \in Nat /\ Open' \in Nat /\ Open < n /\ n \in Nat
    BY <1>3, <1>6, <2>1, <2>2, <2>3
  <2>5. Open' # n
    BY <1>5, <2>2, <2>3, <2>4
  <2>6. Open' \in Raises /\ Open \in Raises'
    BY <1>5, <2>2, <2>3, <2>5
  <2>7. Open' = Open
    BY <2>2, <2>3, <2>4, <2>6
  <2>8. QED
    BY <1>2, <1>6, <2>1, <2>2, <2>4, <2>7
<1>11. ThreeBets \subseteq ThreeBets'
  <2>1. CASE Raises = {}
    BY <2>1 DEF ThreeBets, AfterOpen, SeatsOf
  <2>2. CASE Raises # {}
    <3>1. \A i \in AfterOpen : i \in AfterOpen' /\ i \in DOMAIN taken
      BY <1>2, <1>3, <1>10, <2>2 DEF AfterOpen, Preflop
    <3>2. QED
      BY <1>2, <3>1 DEF ThreeBets, SeatsOf, IsRaise
  <2>3. QED
    BY <2>1, <2>2
<1>12. Replayed.raises \in Nat /\ (Raises = {} <=> Replayed.raises = 0)
  BY DEF Tallied
<1>13. ASSUME Opens(a), Replayed.raises = 1 PROVE a.seat \in ThreeBets'
  <2>1. Raises # {}
    BY <1>12, <1>13
  <2>2. Open \in Raises /\ Open' = Open /\ Open < n /\ taken'[Open] = taken[Open] /\ Raises' # {}
    BY <1>10, <2>1
  <2>3. taken'[Open'].seat # a.seat
    BY <1>13, <2>2
  <2>4. n \in AfterOpen'
    BY <1>2, <1>3, <1>13, <2>2, <2>3 DEF AfterOpen, Preflop, Opens
  <2>5. IsRaise(n)'
    BY <1>2, <1>13 DEF IsRaise, Opens
  <2>6. QED
    BY <1>2, <2>4, <2>5 DEF ThreeBets, SeatsOf
<1>14. Replayed'.threeBet \subseteq ThreeBets'
  <2>1. Replayed.threeBet \subseteq ThreeBets
    BY DEF Tallied
  <2>2. CASE Opens(a) /\ Replayed.raises + 1 = 2
    <3>1. Replayed'.threeBet = Replayed.threeBet \union {a.seat}
      BY <1>4, <2>2, CountedIs
    <3>2. Replayed.raises = 1
      BY <1>12, <2>2
    <3>3. QED
      BY <1>11, <1>13, <2>1, <2>2, <3>1, <3>2
  <2>3. CASE ~(Opens(a) /\ Replayed.raises + 1 = 2)
    <3>1. Replayed'.threeBet = Replayed.threeBet
      BY <1>4, <2>3, CountedIs
    <3>2. QED
      BY <1>11, <2>1, <3>1
  <2>4. QED
    BY <2>2, <2>3
<1>15. Replayed'.raises = IF Opens(a) THEN Replayed.raises + 1 ELSE Replayed.raises
  BY <1>4, CountedIs
<1>16. /\ Replayed'.raises \in Nat
       /\ Raises' = {} <=> Replayed'.raises = 0
       /\ Replayed'.raises = 1 => \A i, j \in Raises' : i = j
       /\ Replayed'.raises >= 2 => \E i, j \in Raises' : i < j
  <2>1. CASE Opens(a)
    <3>1. Replayed'.raises = Replayed.raises + 1 /\ Raises' = Raises \cup {n}
      BY <1>5, <1>15, <2>1
    <3>2. Replayed'.raises = 1 => Raises = {}
      BY <1>12, <3>1
    <3>3. ASSUME Replayed'.raises >= 2 PROVE \E i, j \in Raises' : i < j
      <4>1. PICK i \in Raises : TRUE
        BY <1>12, <3>1, <3>3
      <4>2. i < n /\ i \in Raises' /\ n \in Raises'
        BY <1>3, <1>6, <3>1
      <4>3. QED
        BY <4>2
    <3>4. QED
      BY <1>12, <3>1, <3>2, <3>3
  <2>2. CASE ~Opens(a)
    <3>1. Replayed'.raises = Replayed.raises /\ Raises' = Raises
      BY <1>5, <1>15, <2>2
    <3>2. QED
      BY <3>1 DEF Tallied
  <2>3. QED
    BY <2>1, <2>2
<1>17. (\A i \in Raises : Second(i) => taken[i].seat \in Replayed.threeBet)'
  <2>1. SUFFICES ASSUME NEW i \in Raises', Second(i)'
                 PROVE  taken'[i].seat \in Replayed'.threeBet
    OBVIOUS
  <2>2. Replayed'.threeBet = IF Opens(a) /\ Replayed.raises + 1 = 2
                             THEN Replayed.threeBet \union {a.seat} ELSE Replayed.threeBet
    BY <1>4, CountedIs
  <2>3. CASE i \in Raises
    <3>1. i \in Nat /\ i < n /\ taken'[i] = taken[i]
      BY <1>2, <1>3, <1>6, <2>3
    <3>2. Raises \subseteq Raises' /\ \A j \in Raises' : j < i => j \in Raises
      BY <1>3, <1>5, <3>1
    <3>3. Second(i)
      BY <2>1, <3>2 DEF Second
    <3>4. QED
      BY <2>2, <2>3, <3>1, <3>3 DEF Tallied
  <2>4. CASE i \notin Raises
    <3>1. Opens(a) /\ i = n /\ Raises \subseteq Raises'
      BY <1>5, <2>1, <2>4
    <3>2. \A j \in Raises : j \in Nat /\ j < n
      BY <1>3, <1>6
    <3>3. Raises # {}
      BY <1>3, <1>5, <2>1, <3>1 DEF Second
    <3>4. ~\E j, k \in Raises : j < k
      BY <2>1, <3>1, <3>2 DEF Second
    <3>5. Replayed.raises = 1
      BY <1>12, <3>3, <3>4 DEF Tallied
    <3>6. Replayed'.threeBet = Replayed.threeBet \union {a.seat}
      BY <2>2, <3>1, <3>5
    <3>7. QED
      BY <1>2, <3>1, <3>6
  <2>5. QED
    BY <2>3, <2>4
<1>18. (taken \in Seq(Entry(facts)))'
  BY <1>2
<1>19. Tallied'
  BY <1>7, <1>8, <1>9, <1>14, <1>16, <1>17, <1>18 DEF Tallied
<1>20. QED
  BY <1>0, <1>2, <1>4, <1>5, <1>6, <1>19

\* A fold, a check and a call leave the top bet as it is.
LEMMA PassiveMove ==
    ASSUME NEW f, NEW st, FactsOK(f), StateOK(f, st), NEW i, IntentOK(i),
           Actor(st) = i.seat, i.seat # NoSeat, Legal(st, i), i.action \in {"fold", "check", "call"}
    PROVE  ~Raised(st, i)
<1>1. /\ i.seat \in f.active /\ st.stack[i.seat] \in Nat /\ st.bet[i.seat] \in Nat /\ TopBet(st) \in Nat
      /\ st.bet[i.seat] <= TopBet(st)
  BY LegalMove, StateFacts
<1>2. BetAfter(st, i)[i.seat] = st.bet[i.seat] + Added(st, i)
  BY <1>1 DEF BetAfter, StateOK, States
<1>3. CallCost(st, i.seat) \in Nat /\ CallCost(st, i.seat) <= TopBet(st) - st.bet[i.seat]
  <2>1. PICK r : r = TopBet(st) - st.bet[i.seat]
    OBVIOUS
  <2>2. r \in Nat /\ CallCost(st, i.seat) = Least(r, st.stack[i.seat])
    BY <1>1, <2>1 DEF CallCost
  <2>3. QED
    BY <1>1, <2>1, <2>2 DEF Least
<1>4. Added(st, i) = 0 \/ Added(st, i) = CallCost(st, i.seat)
  BY DEF Added, Legal
<1>5. QED
  BY <1>1, <1>2, <1>3, <1>4 DEF Raised

Counting == Playing /\ Tallied /\ OpenerWaits

LEMMA CountingInit == StatsInit => Counting
<1>1. SUFFICES ASSUME StatsInit PROVE Counting
  OBVIOUS
<1>2. Playing /\ taken = <<>>
  BY <1>1, HandInit DEF StatsInit
<1>3. Replayed = Fresh
  BY <1>2, PassOfNone DEF Replayed
<1>4. DOMAIN taken = {} /\ taken \in Seq(Entry(facts))
  BY <1>2
<1>5. Raises = {} /\ Voluntary = {} /\ SeatsOf(DOMAIN taken) = {} /\ SeatsOf(Raises) = {}
  BY <1>4 DEF Raises, Preflop, Voluntary, SeatsOf
<1>6. Tallied
  BY <1>3, <1>4, <1>5 DEF Tallied, Fresh
<1>7. OpenerWaits
  BY <1>5 DEF OpenerWaits
<1>8. QED
  BY <1>2, <1>6, <1>7 DEF Counting

LEMMA CountingStep == Counting /\ [StatsNext]_statsVars => Counting'
<1>1. SUFFICES ASSUME Counting, [StatsNext]_statsVars PROVE Counting'
  OBVIOUS
<1>2. PICK f : f = facts
  OBVIOUS
<1>3. PICK st : st = table
  OBVIOUS
<1>4. FactsOK(f) /\ StateOK(f, st) /\ Playing /\ Tallied /\ OpenerWaits
  BY <1>1, <1>2, <1>3 DEF Counting, Playing, HandInv
<1>5. Playing'
  BY <1>1, <1>4, HandStep DEF StatsNext, statsVars, PlayNext, handVars
<1>6. ASSUME NEW i \in Intents, Act(i), taken' = Append(taken, Taken(i)) PROVE Counting'
  <2>1. /\ Actor(st) = i.seat /\ Legal(st, i) /\ table' = Acted(st, i)
        /\ UNCHANGED facts
    BY <1>3, <1>6 DEF Act
  <2>2. IntentOK(i) /\ i.seat # NoSeat
    BY HandRulesAssumption, HandPlayAssumption DEF Intents, IntentOK, Seats
  <2>3. /\ i.seat \in st.toAct /\ i.seat \in f.active
        /\ i.action # "fold" => \/ NewBet(st, i) = TopBet(st)
                                \/ NewBet(st, i) < TopBet(st) /\ Added(st, i) = st.stack[i.seat]
                                \/ NewBet(st, i) > TopBet(st)
    BY <1>4, <2>1, <2>2, LegalMove
  <2>4. PICK a : a = Taken(i)
    OBVIOUS
  <2>5. a = [seat |-> i.seat, street |-> st.street, action |-> i.action]
    BY <1>3, <2>4 DEF Taken
  <2>6. a \in Entry(facts) /\ a.seat = i.seat /\ a.street = st.street /\ a.action = i.action
    <3>1. st.street \in 0 .. River /\ i.action \in Actions
      BY <1>4, <2>2 DEF StateOK, States, IntentOK
    <3>2. QED
      BY <1>2, <2>3, <2>5, <3>1 DEF Entry
  <2>7. Opens(a) /\ Replayed.raises = 1 => \A j \in Raises : taken[j].seat # a.seat
    BY <1>3, <1>4, <2>3, <2>6 DEF OpenerWaits, Opens
  <2>8. taken' = Append(taken, a)
    BY <1>6, <2>4
  <2>9. /\ Tallied' /\ Replayed' = Counted(Replayed, a)
        /\ Raises' = IF Opens(a) THEN Raises \cup {Len(taken) + 1} ELSE Raises
        /\ \A j \in Raises : taken'[j] = taken[j]
        /\ taken'[Len(taken) + 1] = a
    BY <1>4, <2>1, <2>6, <2>7, <2>8, TalliedNext
  <2>10. IsActed(st, i, table')
    BY <1>4, <2>1, ActedIs
  <2>11. table'.street = st.street /\ i.seat \notin table'.toAct
    BY <2>10 DEF IsActed, WaitAfter, Waiting
  <2>12. ASSUME ~Opens(a), st.street = 0 PROVE table'.toAct \subseteq st.toAct
    <3>1. i.action \in {"fold", "check", "call"}
      BY <2>2, <2>6, <2>12 DEF IntentOK, Actions, Opens
    <3>2. ~Raised(st, i)
      BY <1>4, <2>1, <2>2, <2>3, <3>1, PassiveMove
    <3>3. QED
      BY <2>10, <3>2 DEF IsActed, WaitAfter, Waiting
  <2>13. OpenerWaits'
    <3>1. SUFFICES ASSUME table'.street = 0, Replayed'.raises = 1, NEW j \in Raises'
                   PROVE  taken'[j].seat \notin table'.toAct
      BY DEF OpenerWaits
    <3>2. Replayed.raises \in Nat /\ (Raises = {} <=> Replayed.raises = 0)
      BY <1>4 DEF Tallied
    <3>3. Replayed'.raises = IF Opens(a) THEN Replayed.raises + 1 ELSE Replayed.raises
      BY <2>9, CountedIs
    <3>4. CASE Opens(a)
      <4>1. Raises = {}
        BY <3>1, <3>2, <3>3, <3>4
      <4>2. j = Len(taken) + 1
        BY <2>9, <3>4, <4>1
      <4>3. QED
        BY <2>6, <2>9, <2>11, <4>2
    <3>5. CASE ~Opens(a)
      <4>1. j \in Raises /\ Replayed.raises = 1 /\ st.street = 0
        BY <2>9, <2>11, <3>1, <3>3, <3>5
      <4>2. taken[j].seat \notin st.toAct
        BY <1>3, <1>4, <4>1 DEF OpenerWaits
      <4>3. QED
        BY <2>9, <2>12, <3>5, <4>1, <4>2
    <3>6. QED
      BY <3>4, <3>5
  <2>14. QED
    BY <1>5, <2>9, <2>13 DEF Counting
<1>7. ASSUME UNCHANGED <<taken, facts>>, table'.street = 0 => UNCHANGED table PROVE Counting'
  <2>1. Replayed' = Replayed /\ Raises' = Raises
    BY <1>7 DEF Replayed, Raises, Preflop, IsRaise
  <2>2. /\ SeatsOf(DOMAIN taken)' = SeatsOf(DOMAIN taken) /\ Voluntary' = Voluntary
        /\ SeatsOf(Raises)' = SeatsOf(Raises)
    BY <1>7 DEF SeatsOf, Voluntary, Raises, Preflop, IsRaise
  <2>3. ThreeBets' = ThreeBets
    BY <1>7 DEF ThreeBets, SeatsOf, AfterOpen, Open, Raises, Preflop, IsRaise
  <2>4. \A i : Second(i)' <=> Second(i)
    BY <2>1 DEF Second
  <2>5. Tallied'
    BY <1>4, <1>7, <2>1, <2>2, <2>3, <2>4 DEF Tallied
  <2>6. OpenerWaits'
    BY <1>4, <1>7, <2>1 DEF OpenerWaits
  <2>7. QED
    BY <1>5, <2>5, <2>6 DEF Counting
<1>8. CASE Deal /\ UNCHANGED taken
  <2>1. Dealable(st) /\ table' = Dealt(st) /\ facts' = f
    BY <1>2, <1>3, <1>8 DEF Deal, Dealable
  <2>2. st.street \in Nat /\ DOMAIN st = {"street", "button", "live", "stack", "bet", "toAct", "last", "step"}
    BY <1>4 DEF StateOK, States, River
  <2>3. table'.street = st.street + 1
    BY <2>1, <2>2 DEF Dealt
  <2>4. QED
    BY <1>2, <1>7, <1>8, <2>1, <2>2, <2>3
<1>9. CASE UNCHANGED statsVars
  BY <1>7, <1>9 DEF statsVars
<1>10. CASE Over /\ UNCHANGED taken
  BY <1>7, <1>10 DEF Over, handVars
<1>11. QED
  BY <1>1, <1>6, <1>8, <1>9, <1>10 DEF StatsNext

LEMMA CountingGives == Counting => StatsSound
<1>1. SUFFICES ASSUME Counting PROVE StatsSound
  OBVIOUS
<1>2. Tallied
  BY <1>1 DEF Counting
<1>3. \A i \in DOMAIN taken : taken[i].seat \in facts.active
  <2>1. \A i \in DOMAIN taken : taken[i] \in Entry(facts)
    BY <1>2 DEF Tallied
  <2>2. QED
    BY <2>1 DEF Entry
<1>4. RatesInRange
  <2>1. SUFFICES ASSUME NEW s \in Seats
                 PROVE  /\ s \in ThreeBets => s \in Opportunities
                        /\ s \in Opportunities => s \in SeatsOf(DOMAIN taken)
                        /\ s \in SeatsOf(Raises) => s \in Voluntary
                        /\ s \in Voluntary => s \in SeatsOf(DOMAIN taken)
                        /\ s \in SeatsOf(DOMAIN taken) => s \in facts.active
    BY DEF RatesInRange, Counts
  <2>2. QED
    BY <1>3 DEF ThreeBets, Opportunities, AfterOpen, Preflop, SeatsOf, Raises, Voluntary, IsRaise
<1>5. ASSUME NEW s
      PROVE  s \in ThreeBets <=> s \in Replayed.threeBet \union SeatsOf(FourBets)
  <2>1. Replayed.threeBet \subseteq ThreeBets
    BY <1>2 DEF Tallied
  <2>2. SeatsOf(FourBets) \subseteq ThreeBets
    BY DEF FourBets, ThreeBets, SeatsOf
  <2>3. ASSUME s \in ThreeBets PROVE s \in Replayed.threeBet \union SeatsOf(FourBets)
    <3>1. PICK i \in AfterOpen : IsRaise(i) /\ s = taken[i].seat
      BY <2>3 DEF ThreeBets, SeatsOf
    <3>2. i \in Raises /\ Raises # {} /\ Open < i
      BY <3>1 DEF AfterOpen, Raises
    <3>3. CASE \E j, k \in Raises : j < k /\ k < i
      BY <3>1, <3>3 DEF FourBets, SeatsOf
    <3>4. CASE ~\E j, k \in Raises : j < k /\ k < i
      <4>1. Raises \subseteq Nat
        BY <1>2 DEF Tallied, Raises, Preflop
      <4>2. Open \in Raises
        BY <3>2, <4>1, MinIn DEF Open
      <4>3. Second(i)
        BY <3>2, <3>4, <4>2 DEF Second
      <4>4. QED
        BY <1>2, <3>1, <3>2, <4>3 DEF Tallied
    <3>5. QED
      BY <3>3, <3>4
  <2>4. QED
    BY <2>1, <2>2, <2>3
<1>6. ProjectionsAgree
  BY <1>2, <1>5 DEF ProjectionsAgree, Counts, Tallied
<1>7. QED
  BY <1>4, <1>6 DEF StatsSound

\* Whatever hand is played, the session's statistics of it are in range, and they
\* agree with the replay's: on who played, who put chips in and who raised, and
\* on who three-bet in everything but the raises after the second, which only
\* the session counts (session_stats.py:147, replay.py's counter).
THEOREM StatsStaySound == StatsSpec => []StatsSound
<1>1. Counting /\ [StatsNext]_statsVars => Counting'
  BY CountingStep
<1>2. QED
  BY CountingInit, <1>1, CountingGives, PTL DEF StatsSpec
==============================================================================
