-------------------------------- MODULE Sums --------------------------------
(***************************************************************************)
(* What `SumFunctionOnSet` of the community modules computes, for every    *)
(* function and every finite set: the facts the proofs about cached totals *)
(* rest on.                                                                *)
(*                                                                         *)
(* The sum is a recursive function over the subsets of its set.  That such *)
(* a function exists is shown layer by layer (Layered), and what holds of  *)
(* it by taking a smallest set of which it does not hold (SmallestSet).    *)
(***************************************************************************)
EXTENDS Integers, FiniteSets, Functions, TLAPS, FiniteSetTheorems,
        WellFoundedInduction

(* A set of subsets of a finite set has one of which it holds no part.     *)
LEMMA SmallestSet ==
  ASSUME NEW S, IsFiniteSet(S), NEW T \in SUBSET (SUBSET S), T # {}
  PROVE  \E U \in T : \A V \in T : V \subseteq U => V = U
<1>1. T \subseteq FiniteSubsetsOf(S)
  BY FS_FiniteSubsetsOfFinite
<1>2. PICK U \in T : \A V \in T : ~ (<<V, U>> \in StrictSubsetOrdering(S))
  BY <1>1, FS_StrictSubsetOrderingWellFounded, WFMin
<1> QED
  BY <1>2 DEF StrictSubsetOrdering

(* The element a sum takes first.                                          *)
Pick(s) == CHOOSE x \in s : TRUE

(* What the recursion of a sum or of a product asks of a function g over   *)
(* the sets in D.                                                          *)
Joined(product, a, b) == IF product THEN a * b ELSE a + b

Builds(g, f, D, product) ==
  g = [s \in D |-> IF s = {} THEN (IF product THEN 1 ELSE 0)
                   ELSE Joined(product, f[Pick(s)], g[s \ {Pick(s)}])]

Layer(S, n) == {s \in SUBSET S : Cardinality(s) <= n}

LEMMA Layered ==
  ASSUME NEW f, NEW S, IsFiniteSet(S), NEW product
  PROVE  \E g : Builds(g, f, SUBSET S, product)
<1> DEFINE Bad == {U \in SUBSET S : ~ \E g : Builds(g, f, Layer(S, Cardinality(U)), product)}
<1>1. SUFFICES ASSUME Bad # {} PROVE FALSE
  <2>1. \E g : Builds(g, f, Layer(S, Cardinality(S)), product)
    BY <1>1
  <2>2. Layer(S, Cardinality(S)) = SUBSET S
    BY FS_Subset DEF Layer
  <2> QED
    BY <2>1, <2>2
<1>2. PICK U \in Bad : \A V \in Bad : V \subseteq U => V = U
  <2>1. Bad \in SUBSET (SUBSET S)
    OBVIOUS
  <2> HIDE DEF Bad
  <2> QED
    BY <1>1, <2>1, SmallestSet
<1>3. IsFiniteSet(U) /\ U \subseteq S /\ Cardinality(U) \in Nat
  BY FS_Subset, FS_CardinalityType
<1>4. \A s \in SUBSET S : IsFiniteSet(s) /\ Cardinality(s) \in Nat
  BY FS_Subset, FS_CardinalityType
<1>5. CASE U = {}
  <2>1. Layer(S, Cardinality(U)) = {{}}
    BY <1>4, <1>5, FS_EmptySet DEF Layer
  <2>2. Builds([s \in {{}} |-> IF product THEN 1 ELSE 0], f, {{}}, product)
    BY DEF Builds
  <2> QED
    BY <2>1, <2>2
<1>6. CASE U # {}
  <2>1. PICK x \in U : TRUE
    BY <1>6
  <2> DEFINE W == U \ {x}
             n == Cardinality(W)
  <2>2. W \in SUBSET S /\ W \notin Bad /\ n \in Nat /\ Cardinality(U) = n + 1
    <3>1. W \in SUBSET S /\ W \notin Bad
      BY <1>2, <1>3, <2>1
    <3>2. n = Cardinality(U) - 1
      BY <1>3, <2>1, FS_RemoveElement
    <3>3. n \in Nat
      BY <1>3, <2>1, FS_RemoveElement, FS_CardinalityType
    <3> HIDE DEF n
    <3> QED
      BY <1>3, <3>1, <3>2, <3>3
  <2>3. PICK g : Builds(g, f, Layer(S, n), product)
    BY <2>2
  <2> DEFINE h == [s \in Layer(S, n + 1) |->
                     IF s = {} THEN (IF product THEN 1 ELSE 0)
                     ELSE Joined(product, f[Pick(s)], g[s \ {Pick(s)}])]
  <2>4. ASSUME NEW s \in Layer(S, n + 1), s # {}
        PROVE  s \ {Pick(s)} \in Layer(S, n)
    <3>1. Pick(s) \in s
      BY <2>4 DEF Pick
    <3>2. IsFiniteSet(s) /\ Cardinality(s) <= n + 1 /\ Cardinality(s) \in Nat /\ s \subseteq S
      BY <1>4 DEF Layer
    <3>3. Cardinality(s \ {Pick(s)}) = Cardinality(s) - 1
      BY <3>1, <3>2, FS_RemoveElement
    <3> HIDE DEF n
    <3> QED
      BY <2>2, <3>2, <3>3 DEF Layer
  <2>5. ASSUME NEW s \in Layer(S, n) PROVE h[s] = g[s]
    <3>1. s \in Layer(S, n + 1)
      <4> HIDE DEF n
      <4> QED BY <1>4, <2>2 DEF Layer
    <3>2. g[s] = IF s = {} THEN (IF product THEN 1 ELSE 0)
                     ELSE Joined(product, f[Pick(s)], g[s \ {Pick(s)}])
      <4> HIDE DEF n
      <4> QED BY <2>3 DEF Builds
    <3> HIDE DEF n
    <3> QED
      BY <3>1, <3>2
  <2>6. Builds(h, f, Layer(S, n + 1), product)
    <3>1. \A s \in Layer(S, n + 1) : s # {} => g[s \ {Pick(s)}] = h[s \ {Pick(s)}]
      <4> HIDE DEF h, n
      <4> QED BY <2>4, <2>5
    <3>2. h = [s \in Layer(S, n + 1) |->
                 IF s = {} THEN (IF product THEN 1 ELSE 0)
                     ELSE Joined(product, f[Pick(s)], h[s \ {Pick(s)}])]
      <4> DEFINE h2 == h
      <4>1. h2 = [s \in Layer(S, n + 1) |->
                     IF s = {} THEN (IF product THEN 1 ELSE 0)
                     ELSE Joined(product, f[Pick(s)], g[s \ {Pick(s)}])]
        OBVIOUS
      <4>2. \A s \in Layer(S, n + 1) : s # {} => g[s \ {Pick(s)}] = h2[s \ {Pick(s)}]
        BY <3>1
      <4> HIDE DEF h2, n
      <4>3. h2 = [s \in Layer(S, n + 1) |->
                 IF s = {} THEN (IF product THEN 1 ELSE 0)
                     ELSE Joined(product, f[Pick(s)], h2[s \ {Pick(s)}])]
        BY <4>1, <4>2
      <4> USE DEF h2
      <4> QED BY <4>3
    <3> HIDE DEF h
    <3> QED
      BY <3>2 DEF Builds
  <2> HIDE DEF h, n
  <2> QED
    BY <2>2, <2>6
<1> QED
  BY <1>5, <1>6

(* What the sum's recursion asks.                                          *)
Adds(g, f, D) ==
  g = [s \in D |-> IF s = {} THEN 0 ELSE f[Pick(s)] + g[s \ {Pick(s)}]]

Tally(f, S) == CHOOSE g : Adds(g, f, SUBSET S)

LEMMA SumIsTally ==
  ASSUME NEW f, NEW S
  PROVE  SumFunctionOnSet(f, S) = Tally(f, S)[S]
BY DEF SumFunctionOnSet, FoldFunctionOnSet, MapThenFoldSet, Tally, Adds, Pick

LEMMA TallyAdds ==
  ASSUME NEW f, NEW S, IsFiniteSet(S)
  PROVE  Adds(Tally(f, S), f, SUBSET S)
<1>1. PICK g : Builds(g, f, SUBSET S, FALSE)
  BY Layered
<1>2. Adds(g, f, SUBSET S)
  BY <1>1 DEF Builds, Adds, Joined
<1> QED
  BY <1>2 DEF Tally

(* Over which set the recursion was begun does not matter.                 *)
LEMMA TallySame ==
  ASSUME NEW f, NEW S, IsFiniteSet(S), NEW T \in SUBSET S
  PROVE  Tally(f, S)[T] = SumFunctionOnSet(f, T)
<1> DEFINE Bad == {U \in SUBSET S :
                     ~ \A V \in SUBSET S : U \subseteq V => Tally(f, V)[U] = Tally(f, S)[U]}
<1>1. SUFFICES ASSUME Bad # {} PROVE FALSE
  BY <1>1, SumIsTally
<1>2. PICK U \in Bad : \A V \in Bad : V \subseteq U => V = U
  <2>1. Bad \in SUBSET (SUBSET S)
    OBVIOUS
  <2> HIDE DEF Bad
  <2> QED
    BY <1>1, <2>1, SmallestSet
<1>3. PICK V \in SUBSET S : U \subseteq V /\ Tally(f, V)[U] # Tally(f, S)[U]
  BY <1>2
<1>4. Adds(Tally(f, V), f, SUBSET V) /\ Adds(Tally(f, S), f, SUBSET S)
  BY FS_Subset, TallyAdds
<1>5. U # {}
  BY <1>2, <1>3, <1>4 DEF Adds
<1>6. Pick(U) \in U
  BY <1>5 DEF Pick
<1> DEFINE W == U \ {Pick(U)}
<1>7. W \in SUBSET S /\ W \notin Bad /\ W \subseteq V
  BY <1>2, <1>3, <1>6
<1>8. Tally(f, V)[W] = Tally(f, S)[W]
  BY <1>7
<1>9. Tally(f, V)[U] = f[Pick(U)] + Tally(f, V)[W]
  BY <1>3, <1>4, <1>5 DEF Adds
<1>10. Tally(f, S)[U] = f[Pick(U)] + Tally(f, S)[W]
  BY <1>2, <1>4, <1>5 DEF Adds
<1> QED
  BY <1>3, <1>8, <1>9, <1>10

LEMMA SumEmpty ==
  ASSUME NEW f
  PROVE  SumFunctionOnSet(f, {}) = 0
<1>1. Adds(Tally(f, {}), f, SUBSET {})
  BY TallyAdds, FS_EmptySet
<1>2. Tally(f, {})[{}] = 0
  BY <1>1 DEF Adds
<1> QED
  BY <1>2, SumIsTally

LEMMA SumFirst ==
  ASSUME NEW f, NEW S, IsFiniteSet(S), S # {}
  PROVE  /\ Pick(S) \in S
         /\ SumFunctionOnSet(f, S) = f[Pick(S)] + SumFunctionOnSet(f, S \ {Pick(S)})
<1>1. Pick(S) \in S
  BY DEF Pick
<1>2. Tally(f, S)[S] = f[Pick(S)] + Tally(f, S)[S \ {Pick(S)}]
  <2>1. Adds(Tally(f, S), f, SUBSET S)
    BY TallyAdds
  <2> QED
    BY <2>1 DEF Adds
<1> QED
  BY <1>1, <1>2, SumIsTally, TallySame

-----------------------------------------------------------------------------
(* A sum of integers is an integer, one of naturals a natural.             *)
LEMMA SumInt ==
  ASSUME NEW f, NEW S, IsFiniteSet(S), \A x \in S : f[x] \in Int
  PROVE  SumFunctionOnSet(f, S) \in Int
<1> DEFINE Bad == {U \in SUBSET S : SumFunctionOnSet(f, U) \notin Int}
<1>1. SUFFICES ASSUME Bad # {} PROVE FALSE
  BY <1>1
<1>2. PICK U \in Bad : \A V \in Bad : V \subseteq U => V = U
  <2>1. Bad \in SUBSET (SUBSET S)
    OBVIOUS
  <2> HIDE DEF Bad
  <2> QED
    BY <1>1, <2>1, SmallestSet
<1>3. IsFiniteSet(U) /\ U # {}
  <2>1. SumFunctionOnSet(f, {}) = 0
    BY SumEmpty
  <2>2. U # {}
    <3> SUFFICES ASSUME U = {} PROVE FALSE
      OBVIOUS
    <3> QED
      BY <2>1
  <2>3. U \in SUBSET S
    BY <1>2
  <2> HIDE DEF Bad
  <2> QED
    BY <2>2, <2>3, FS_Subset
<1>4. Pick(U) \in U /\ SumFunctionOnSet(f, U) = f[Pick(U)] + SumFunctionOnSet(f, U \ {Pick(U)})
  BY <1>3, SumFirst
<1>5. SumFunctionOnSet(f, U \ {Pick(U)}) \in Int
  BY <1>2, <1>4
<1> QED
  BY <1>2, <1>4, <1>5

LEMMA SumNat ==
  ASSUME NEW f, NEW S, IsFiniteSet(S), \A x \in S : f[x] \in Nat
  PROVE  SumFunctionOnSet(f, S) \in Nat
<1> DEFINE Bad == {U \in SUBSET S : SumFunctionOnSet(f, U) \notin Nat}
<1>1. SUFFICES ASSUME Bad # {} PROVE FALSE
  BY <1>1
<1>2. PICK U \in Bad : \A V \in Bad : V \subseteq U => V = U
  <2>1. Bad \in SUBSET (SUBSET S)
    OBVIOUS
  <2> HIDE DEF Bad
  <2> QED
    BY <1>1, <2>1, SmallestSet
<1>3. IsFiniteSet(U) /\ U # {}
  <2>1. SumFunctionOnSet(f, {}) = 0
    BY SumEmpty
  <2>2. U # {}
    <3> SUFFICES ASSUME U = {} PROVE FALSE
      OBVIOUS
    <3> QED
      BY <2>1
  <2>3. U \in SUBSET S
    BY <1>2
  <2> HIDE DEF Bad
  <2> QED
    BY <2>2, <2>3, FS_Subset
<1>4. Pick(U) \in U /\ SumFunctionOnSet(f, U) = f[Pick(U)] + SumFunctionOnSet(f, U \ {Pick(U)})
  BY <1>3, SumFirst
<1>5. SumFunctionOnSet(f, U \ {Pick(U)}) \in Nat
  BY <1>2, <1>4
<1> QED
  BY <1>2, <1>4, <1>5

(* The order in which they are added does not matter.                      *)
LEMMA SumRemove ==
  ASSUME NEW f, NEW S, IsFiniteSet(S), \A x \in S : f[x] \in Int, NEW y \in S
  PROVE  SumFunctionOnSet(f, S) = f[y] + SumFunctionOnSet(f, S \ {y})
<1> DEFINE Bad == {U \in SUBSET S :
                     \E x \in U : SumFunctionOnSet(f, U) # f[x] + SumFunctionOnSet(f, U \ {x})}
<1>1. SUFFICES ASSUME Bad # {} PROVE FALSE
  BY <1>1
<1>2. PICK U \in Bad : \A V \in Bad : V \subseteq U => V = U
  <2>1. Bad \in SUBSET (SUBSET S)
    OBVIOUS
  <2> HIDE DEF Bad
  <2> QED
    BY <1>1, <2>1, SmallestSet
<1>3. PICK x \in U : SumFunctionOnSet(f, U) # f[x] + SumFunctionOnSet(f, U \ {x})
  BY <1>2
<1> DEFINE c == Pick(U)
           V == U \ {c}
           W == U \ {x}
<1>4. IsFiniteSet(U) /\ IsFiniteSet(V) /\ IsFiniteSet(W)
  BY <1>2, FS_Subset
<1>5. c \in U /\ SumFunctionOnSet(f, U) = f[c] + SumFunctionOnSet(f, V)
  BY <1>3, <1>4, SumFirst
<1>6. x # c
  BY <1>3, <1>5
<1>7. V \notin Bad /\ W \notin Bad /\ x \in V /\ c \in W /\ V \ {x} = W \ {c}
  BY <1>2, <1>3, <1>5, <1>6
<1>8. SumFunctionOnSet(f, V) = f[x] + SumFunctionOnSet(f, V \ {x})
  BY <1>2, <1>7
<1>9. SumFunctionOnSet(f, W) = f[c] + SumFunctionOnSet(f, V \ {x})
  BY <1>2, <1>7
<1>10. f[c] \in Int /\ f[x] \in Int /\ SumFunctionOnSet(f, V \ {x}) \in Int
  <2>1. V \ {x} \in SUBSET S
    BY <1>2
  <2> HIDE DEF V
  <2>2. SumFunctionOnSet(f, V \ {x}) \in Int
    BY <2>1, FS_Subset, SumInt
  <2> QED
    BY <1>2, <1>3, <1>5, <2>2
<1> HIDE DEF c, V, W
<1>11. SumFunctionOnSet(f, U) = f[x] + SumFunctionOnSet(f, W)
  BY <1>5, <1>8, <1>9, <1>10
<1> QED
  BY <1>3, <1>11 DEF W

(* Functions that agree on the set have one sum.                           *)
LEMMA SumSame ==
  ASSUME NEW f, NEW g, NEW S, IsFiniteSet(S), \A x \in S : f[x] = g[x]
  PROVE  SumFunctionOnSet(f, S) = SumFunctionOnSet(g, S)
<1> DEFINE Bad == {U \in SUBSET S : SumFunctionOnSet(f, U) # SumFunctionOnSet(g, U)}
<1>1. SUFFICES ASSUME Bad # {} PROVE FALSE
  BY <1>1
<1>2. PICK U \in Bad : \A V \in Bad : V \subseteq U => V = U
  <2>1. Bad \in SUBSET (SUBSET S)
    OBVIOUS
  <2> HIDE DEF Bad
  <2> QED
    BY <1>1, <2>1, SmallestSet
<1>3. IsFiniteSet(U) /\ U # {}
  BY <1>2, FS_Subset, SumEmpty
<1>4. /\ Pick(U) \in U
      /\ SumFunctionOnSet(f, U) = f[Pick(U)] + SumFunctionOnSet(f, U \ {Pick(U)})
      /\ SumFunctionOnSet(g, U) = g[Pick(U)] + SumFunctionOnSet(g, U \ {Pick(U)})
  BY <1>3, SumFirst
<1>5. SumFunctionOnSet(f, U \ {Pick(U)}) = SumFunctionOnSet(g, U \ {Pick(U)})
  BY <1>2, <1>4
<1> QED
  BY <1>2, <1>4, <1>5

(* Functions that differ at one place: the sum differs by as much.         *)
LEMMA SumUpdate ==
  ASSUME NEW f, NEW g, NEW S, IsFiniteSet(S), NEW y \in S,
         \A x \in S : f[x] \in Int /\ g[x] \in Int,
         \A x \in S \ {y} : g[x] = f[x]
  PROVE  SumFunctionOnSet(g, S) = SumFunctionOnSet(f, S) - f[y] + g[y]
<1>1. IsFiniteSet(S \ {y})
  BY FS_Subset
<1>2. SumFunctionOnSet(g, S \ {y}) = SumFunctionOnSet(f, S \ {y})
  BY <1>1, SumSame
<1>3. SumFunctionOnSet(f, S \ {y}) \in Int
  BY <1>1, SumInt
<1>4. SumFunctionOnSet(f, S) = f[y] + SumFunctionOnSet(f, S \ {y})
  BY SumRemove
<1>5. SumFunctionOnSet(g, S) = g[y] + SumFunctionOnSet(g, S \ {y})
  BY SumRemove
<1> QED
  BY <1>2, <1>3, <1>4, <1>5

(* One more member.                                                        *)
LEMMA SumAdd ==
  ASSUME NEW f, NEW S, IsFiniteSet(S), NEW y, y \notin S,
         \A x \in S \cup {y} : f[x] \in Int
  PROVE  SumFunctionOnSet(f, S \cup {y}) = SumFunctionOnSet(f, S) + f[y]
<1>1. IsFiniteSet(S \cup {y}) /\ (S \cup {y}) \ {y} = S
  BY FS_AddElement
<1>2. SumFunctionOnSet(f, S) \in Int
  BY SumInt
<1>3. SumFunctionOnSet(f, S \cup {y}) = f[y] + SumFunctionOnSet(f, (S \cup {y}) \ {y})
  BY <1>1, SumRemove
<1>4. SumFunctionOnSet(f, S \cup {y}) = f[y] + SumFunctionOnSet(f, S)
  BY <1>1, <1>3
<1>5. f[y] \in Int
  OBVIOUS
<1> QED
  BY <1>2, <1>4, <1>5

(* Nothing adds up to nothing.                                             *)
LEMMA SumZero ==
  ASSUME NEW f, NEW S, IsFiniteSet(S), \A x \in S : f[x] = 0
  PROVE  SumFunctionOnSet(f, S) = 0
<1> DEFINE Bad == {U \in SUBSET S : SumFunctionOnSet(f, U) # 0}
<1>1. SUFFICES ASSUME Bad # {} PROVE FALSE
  BY <1>1
<1>2. PICK U \in Bad : \A V \in Bad : V \subseteq U => V = U
  <2>1. Bad \in SUBSET (SUBSET S)
    OBVIOUS
  <2> HIDE DEF Bad
  <2> QED
    BY <1>1, <2>1, SmallestSet
<1>3. IsFiniteSet(U) /\ U # {}
  <2>1. SumFunctionOnSet(f, {}) = 0
    BY SumEmpty
  <2>2. U # {}
    <3> SUFFICES ASSUME U = {} PROVE FALSE
      OBVIOUS
    <3> QED
      BY <2>1
  <2>3. U \in SUBSET S
    BY <1>2
  <2> HIDE DEF Bad
  <2> QED
    BY <2>2, <2>3, FS_Subset
<1>4. Pick(U) \in U /\ SumFunctionOnSet(f, U) = f[Pick(U)] + SumFunctionOnSet(f, U \ {Pick(U)})
  BY <1>3, SumFirst
<1>5. SumFunctionOnSet(f, U \ {Pick(U)}) = 0
  BY <1>2, <1>4
<1> QED
  BY <1>2, <1>4, <1>5

(* No part of a sum of naturals exceeds it.                                *)
LEMMA SumPart ==
  ASSUME NEW f, NEW S, IsFiniteSet(S), \A x \in S : f[x] \in Nat, NEW y \in S
  PROVE  f[y] <= SumFunctionOnSet(f, S)
<1>1. IsFiniteSet(S \ {y})
  BY FS_Subset
<1>2. SumFunctionOnSet(f, S \ {y}) \in Nat
  BY <1>1, SumNat
<1>3. SumFunctionOnSet(f, S) = f[y] + SumFunctionOnSet(f, S \ {y})
  BY SumRemove
<1> QED
  BY <1>2, <1>3

(* What is added place by place is added in the sum.                       *)
LEMMA SumPlus ==
  ASSUME NEW f, NEW g, NEW h, NEW S, IsFiniteSet(S),
         \A x \in S : f[x] \in Int /\ g[x] \in Int /\ h[x] = f[x] + g[x]
  PROVE  SumFunctionOnSet(h, S) = SumFunctionOnSet(f, S) + SumFunctionOnSet(g, S)
<1> DEFINE Bad == {U \in SUBSET S :
                     SumFunctionOnSet(h, U) # SumFunctionOnSet(f, U) + SumFunctionOnSet(g, U)}
<1>1. SUFFICES ASSUME Bad # {} PROVE FALSE
  BY <1>1
<1>2. PICK U \in Bad : \A V \in Bad : V \subseteq U => V = U
  <2>1. Bad \in SUBSET (SUBSET S)
    OBVIOUS
  <2> HIDE DEF Bad
  <2> QED
    BY <1>1, <2>1, SmallestSet
<1>3. IsFiniteSet(U) /\ U # {}
  <2>1. /\ SumFunctionOnSet(f, {}) = 0
        /\ SumFunctionOnSet(g, {}) = 0
        /\ SumFunctionOnSet(h, {}) = 0
    BY SumEmpty
  <2>2. U # {}
    <3> SUFFICES ASSUME U = {} PROVE FALSE
      OBVIOUS
    <3> QED
      BY <2>1
  <2>3. U \in SUBSET S
    BY <1>2
  <2> HIDE DEF Bad
  <2> QED
    BY <2>2, <2>3, FS_Subset
<1> DEFINE c == Pick(U)
           V == U \ {c}
<1>4. /\ c \in U
      /\ SumFunctionOnSet(f, U) = f[c] + SumFunctionOnSet(f, V)
      /\ SumFunctionOnSet(g, U) = g[c] + SumFunctionOnSet(g, V)
      /\ SumFunctionOnSet(h, U) = h[c] + SumFunctionOnSet(h, V)
  BY <1>3, SumFirst
<1>5. SumFunctionOnSet(h, V) = SumFunctionOnSet(f, V) + SumFunctionOnSet(g, V)
  BY <1>2, <1>4
<1>6. SumFunctionOnSet(f, V) \in Int /\ SumFunctionOnSet(g, V) \in Int
  <2>1. V \in SUBSET S
    BY <1>2
  <2> HIDE DEF V
  <2> QED
    BY <2>1, FS_Subset, SumInt
<1>7. f[c] \in Int /\ g[c] \in Int /\ h[c] = f[c] + g[c]
  BY <1>2, <1>4
<1> HIDE DEF c, V
<1>8. SumFunctionOnSet(h, U) = SumFunctionOnSet(f, U) + SumFunctionOnSet(g, U)
  BY <1>4, <1>5, <1>6, <1>7
<1> QED
  BY <1>2, <1>8

-----------------------------------------------------------------------------
(* A product of positive numbers is one.                                   *)
LEMMA ProductPositive ==
  ASSUME NEW f, NEW S, IsFiniteSet(S), \A x \in S : f[x] \in Nat \ {0}
  PROVE  FoldFunctionOnSet(LAMBDA a, b : a * b, 1, f, S) \in Nat \ {0}
<1> DEFINE Times(g) == g = [s \in SUBSET S |->
                              IF s = {} THEN 1 ELSE f[Pick(s)] * g[s \ {Pick(s)}]]
           G == CHOOSE g : Times(g)
<1>1. FoldFunctionOnSet(LAMBDA a, b : a * b, 1, f, S) = G[S]
  BY DEF FoldFunctionOnSet, MapThenFoldSet, Pick
<1>2. Times(G)
  <2>1. PICK g : Builds(g, f, SUBSET S, TRUE)
    BY Layered
  <2>2. Times(g)
    BY <2>1 DEF Builds, Joined
  <2> HIDE DEF Times
  <2> QED
    BY <2>2
<1>3. /\ G[{}] = 1
      /\ \A s \in SUBSET S : s # {} => G[s] = f[Pick(s)] * G[s \ {Pick(s)}]
  <2> HIDE DEF G
  <2>1. G = [s \in SUBSET S |->
               IF s = {} THEN 1 ELSE f[Pick(s)] * G[s \ {Pick(s)}]]
    BY <1>2
  <2> QED
    BY <2>1
<1> HIDE DEF G, Times
<1> DEFINE Bad == {U \in SUBSET S : G[U] \notin Nat \ {0}}
<1>4. SUFFICES ASSUME Bad # {} PROVE FALSE
  BY <1>1, <1>4
<1>5. PICK U \in Bad : \A V \in Bad : V \subseteq U => V = U
  <2>1. Bad \in SUBSET (SUBSET S)
    OBVIOUS
  <2> HIDE DEF Bad
  <2> QED
    BY <1>4, <2>1, SmallestSet
<1>6. U # {} /\ U \in SUBSET S
  <2>1. U \in SUBSET S /\ G[U] \notin Nat \ {0}
    BY <1>5
  <2>2. U # {}
    <3> SUFFICES ASSUME U = {} PROVE FALSE
      OBVIOUS
    <3>1. G[U] = 1
      BY <1>3
    <3> QED
      BY <2>1, <3>1
  <2> QED
    BY <2>1, <2>2
<1>7. Pick(U) \in U
  BY <1>6 DEF Pick
<1>8. G[U \ {Pick(U)}] \in Nat \ {0}
  BY <1>5, <1>7
<1>9. G[U] = f[Pick(U)] * G[U \ {Pick(U)}]
  BY <1>3, <1>6
<1>10. f[Pick(U)] \in Nat \ {0}
  BY <1>6, <1>7
<1>11. \A m, n \in Nat \ {0} : m * n \in Nat \ {0}
  OBVIOUS
<1> QED
  BY <1>5, <1>8, <1>9, <1>10, <1>11

(* One member more, of a function that agrees on the others.               *)
LEMMA SumMore ==
  ASSUME NEW f, NEW g, NEW S, IsFiniteSet(S), NEW k, k \notin S, g[k] \in Int,
         \A x \in S : f[x] = g[x] /\ f[x] \in Int
  PROVE  SumFunctionOnSet(g, S \cup {k}) = SumFunctionOnSet(f, S) + g[k]
<1>1. SumFunctionOnSet(f, S) = SumFunctionOnSet(g, S)
  BY SumSame
<1>2. SumFunctionOnSet(g, S \cup {k}) = SumFunctionOnSet(g, S) + g[k]
  BY SumAdd
<1> QED
  BY <1>1, <1>2
=============================================================================
