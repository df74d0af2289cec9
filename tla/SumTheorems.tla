------------------------------ MODULE SumTheorems ------------------------------
(***************************************************************************)
(* Facts about SumFunctionOnSet: the sum over a finite set is a number, is *)
(* what any element adds to the sum over the rest, and so does not depend  *)
(* on the order in which the elements are taken.                           *)
(*                                                                         *)
(* A fold is a function defined by recursion on the subsets of its set:    *)
(* Adds says what it satisfies.  That one exists, and only one, is shown   *)
(* on the smallest set for which it would fail.                            *)
(***************************************************************************)
EXTENDS Integers, Functions, FiniteSetTheorems, TLAPS

\* Of sets of elements of a finite set, one includes no other.
LEMMA SmallestOf ==
  ASSUME NEW S, IsFiniteSet(S), NEW F, F \subseteq SUBSET S, F # {}
  PROVE  \E A \in F : \A B \in F : B \subseteq A => B = A
<1>1. F \subseteq FiniteSubsetsOf(S)
  BY FS_Subset DEF FiniteSubsetsOf
<1>2. \E A \in F : \A B \in F : <<B, A>> \notin StrictSubsetOrdering(S)
  BY <1>1, FS_StrictSubsetOrderingWellFounded, WFMin
<1> QED
  BY <1>2 DEF StrictSubsetOrdering

-----------------------------------------------------------------------------
(* The recursion *)

Some(s) == CHOOSE x \in s : TRUE

Adds(f, S, g) ==
  g = [s \in SUBSET S |-> IF s = {} THEN 0 ELSE f[Some(s)] + g[s \ {Some(s)}]]

\* A sum is what such a function gives for the whole set.
LEMMA SumIs ==
  ASSUME NEW f, NEW S
  PROVE  SumFunctionOnSet(f, S) = (CHOOSE g : Adds(f, S, g))[S]
BY DEF SumFunctionOnSet, FoldFunctionOnSet, MapThenFoldSet, Adds, Some

\* The element taken is one of the set.
LEMMA SomeIn == \A s : s # {} => Some(s) \in s
BY DEF Some

\* The recursion, at one subset.
LEMMA AddsAt ==
  ASSUME NEW f, NEW S, NEW g, Adds(f, S, g), NEW s \in SUBSET S
  PROVE  g[s] = IF s = {} THEN 0 ELSE f[Some(s)] + g[s \ {Some(s)}]
BY DEF Adds

\* On the subsets of both, two such functions agree.
LEMMA AddsAgree ==
  ASSUME NEW f, NEW S, IsFiniteSet(S), NEW T, NEW g, NEW h, Adds(f, S, g), Adds(f, T, h),
         NEW s \in SUBSET S, s \in SUBSET T
  PROVE  g[s] = h[s]
<1> DEFINE F == {t \in SUBSET S : t \in SUBSET T /\ g[t] # h[t]}
<1> SUFFICES ASSUME F # {} PROVE FALSE
  OBVIOUS
<1>1. PICK t \in F : \A u \in F : u \subseteq t => u = t
  <2> F \subseteq SUBSET S
    OBVIOUS
  <2> HIDE DEF F
  <2> QED
    BY SmallestOf
<1>2. t # {}
  BY AddsAt
<1>3. Some(t) \in t /\ t \ {Some(t)} \in SUBSET S /\ t \ {Some(t)} \in SUBSET T
  BY <1>2, SomeIn
<1>4. g[t \ {Some(t)}] = h[t \ {Some(t)}]
  BY <1>1, <1>3
<1>5. t \in SUBSET S /\ t \in SUBSET T
  BY <1>1
<1> HIDE DEF F
<1>6. g[t] = f[Some(t)] + g[t \ {Some(t)}]
  BY <1>2, <1>5, AddsAt
<1>7. h[t] = f[Some(t)] + h[t \ {Some(t)}]
  BY <1>2, <1>5, AddsAt
<1> QED
  BY <1>1, <1>4, <1>6, <1>7 DEF F

\* Every finite set has such a function.
LEMMA AddsExists ==
  ASSUME NEW f, NEW S, IsFiniteSet(S)
  PROVE  \E g : Adds(f, S, g)
<1> DEFINE F == {t \in SUBSET S : ~\E g : Adds(f, t, g)}
<1> SUFFICES ASSUME F # {} PROVE FALSE
  OBVIOUS
<1>1. PICK t \in F : \A u \in F : u \subseteq t => u = t
  <2> F \subseteq SUBSET S
    OBVIOUS
  <2> HIDE DEF F
  <2> QED
    BY SmallestOf
<1> DEFINE p == Some(t)
           of == [u \in SUBSET t |-> CHOOSE g : Adds(f, u, g)]
           h == [u \in SUBSET t |-> IF u = {} THEN 0 ELSE IF u = t THEN f[p] + (of[t \ {p}])[t \ {p}] ELSE (of[u])[u]]
<1>2. \A u \in SUBSET t : u # t => Adds(f, u, of[u])
  <2> TAKE u \in SUBSET t
  <2>1. u # t => \E g : Adds(f, u, g)
    BY <1>1
  <2> QED
    BY <2>1
<1>3. (~\E g : Adds(f, t, g)) /\ \A u \in SUBSET t : IsFiniteSet(u)
  BY <1>1, FS_Subset
<1>4. p \in t \/ t = {}
  BY SomeIn
<1>5. ASSUME NEW u \in SUBSET t, u # {}
      PROVE  h[u] = f[Some(u)] + h[u \ {Some(u)}]
  <2> DEFINE q == Some(u)
             v == u \ {q}
  <2>1. q \in u /\ v \in SUBSET t /\ v # t /\ v \in SUBSET u /\ v # u
    BY <1>5, SomeIn
  <2>2. h[v] = (of[v])[v]
    <3>1. CASE v = {}
      <4>1. (of[v])[v] = 0
        BY <1>2, <2>1, <3>1, AddsAt
      <4> QED
        BY <2>1, <3>1, <4>1
    <3>2. CASE v # {}
      BY <2>1, <3>2
    <3> QED
      BY <3>1, <3>2
  <2>3. CASE u = t
    BY <1>5, <2>2, <2>3
  <2>4. CASE u # t
    <3>1. h[u] = (of[u])[u]
      BY <1>5, <2>4
    <3> HIDE DEF of, h
    <3>2. Adds(f, u, of[u]) /\ IsFiniteSet(u)
      <4>1. Adds(f, u, of[u])
        BY <1>2, <2>4
      <4>2. IsFiniteSet(u)
        BY <1>3
      <4> QED
        BY <4>1, <4>2
    <3>3. Adds(f, v, of[v])
      <4> HIDE DEF v
      <4> QED
        BY <1>2, <2>1
    <3>4. (of[u])[u] = f[q] + (of[u])[v]
      BY <1>5, <3>2, AddsAt
    <3>5. (of[u])[v] = (of[v])[v]
      BY <2>1, <3>2, <3>3, AddsAgree
    <3> QED
      BY <2>2, <3>1, <3>4, <3>5
  <2> QED
    BY <2>3, <2>4
<1>6. h[{}] = 0 /\ h = [u \in SUBSET t |-> h[u]]
  OBVIOUS
<1> HIDE DEF h
<1>7. Adds(f, t, h)
  <2>1. \A u \in SUBSET t : h[u] = IF u = {} THEN 0 ELSE f[Some(u)] + h[u \ {Some(u)}]
    BY <1>5, <1>6
  <2> QED
    BY <1>6, <2>1 DEF Adds
<1> QED
  BY <1>3, <1>7

-----------------------------------------------------------------------------
(* Sums *)

\* Nothing adds up to zero.
LEMMA SumEmpty == \A f : SumFunctionOnSet(f, {}) = 0
<1> TAKE f
<1>1. PICK g : Adds(f, {}, g)
  BY AddsExists, FS_EmptySet
<1>2. Adds(f, {}, CHOOSE h : Adds(f, {}, h))
  BY <1>1
<1> DEFINE c == CHOOSE h : Adds(f, {}, h)
<1>3. SumFunctionOnSet(f, {}) = c[{}]
  BY SumIs
<1> HIDE DEF c
<1>4. c[{}] = 0
  <2>1. Adds(f, {}, c)
    BY <1>2 DEF c
  <2> QED
    BY <2>1, AddsAt
<1> QED
  BY <1>3, <1>4

\* A sum is one element and the sum of the others.
LEMMA SumRecursion ==
  ASSUME NEW f, NEW S, IsFiniteSet(S), S # {}
  PROVE  SumFunctionOnSet(f, S) = f[Some(S)] + SumFunctionOnSet(f, S \ {Some(S)})
<1> DEFINE T == S \ {Some(S)}
           g == CHOOSE h : Adds(f, S, h)
           r == CHOOSE h : Adds(f, T, h)
<1>1. SumFunctionOnSet(f, S) = g[S] /\ SumFunctionOnSet(f, T) = r[T]
  BY SumIs
<1>2. IsFiniteSet(T) /\ T \in SUBSET S
  BY FS_Subset
<1>3. Adds(f, S, g)
  BY AddsExists
<1>4. Adds(f, T, r)
  <2> HIDE DEF T
  <2> QED
    BY <1>2, AddsExists
<1> HIDE DEF g, r
<1>5. g[S] = f[Some(S)] + g[T]
  BY <1>3, AddsAt
<1>6. g[T] = r[T]
  <2>1. PICK u : u = T
    OBVIOUS
  <2> HIDE DEF T
  <2>2. u \in SUBSET S /\ u \in SUBSET u /\ Adds(f, u, r)
    BY <1>2, <1>4, <2>1
  <2>3. g[u] = r[u]
    BY <1>3, <2>2, AddsAgree
  <2> QED
    BY <2>1, <2>3
<1> QED
  BY <1>1, <1>5, <1>6

\* A sum of numbers is a number.
THEOREM SumNat ==
  ASSUME NEW f, NEW S, IsFiniteSet(S), \A x \in S : f[x] \in Nat
  PROVE  SumFunctionOnSet(f, S) \in Nat
<1> DEFINE F == {t \in SUBSET S : SumFunctionOnSet(f, t) \notin Nat}
<1> SUFFICES ASSUME F # {} PROVE FALSE
  OBVIOUS
<1>1. PICK t \in F : \A u \in F : u \subseteq t => u = t
  <2> F \subseteq SUBSET S
    OBVIOUS
  <2> HIDE DEF F
  <2> QED
    BY SmallestOf
<1>2. t \in SUBSET S /\ SumFunctionOnSet(f, t) \notin Nat /\ IsFiniteSet(t)
  BY <1>1, FS_Subset
<1>3. t # {}
  BY <1>2, SumEmpty
<1>4. PICK u : u = t \ {Some(t)}
  OBVIOUS
<1>5. Some(t) \in t /\ u \subseteq t /\ u # t /\ u \in SUBSET S
  BY <1>2, <1>3, <1>4, SomeIn
<1>6. SumFunctionOnSet(f, u) \in Nat
  BY <1>1, <1>5
<1>7. SumFunctionOnSet(f, t) = f[Some(t)] + SumFunctionOnSet(f, u)
  BY <1>2, <1>3, <1>4, SumRecursion
<1> QED
  BY <1>2, <1>5, <1>6, <1>7

\* Any element may be added last.
THEOREM SumTake ==
  ASSUME NEW f, NEW S, IsFiniteSet(S), \A x \in S : f[x] \in Nat, NEW y \in S
  PROVE  SumFunctionOnSet(f, S) = f[y] + SumFunctionOnSet(f, S \ {y})
<1> DEFINE F == {t \in SUBSET S : \E z \in t : SumFunctionOnSet(f, t) # f[z] + SumFunctionOnSet(f, t \ {z})}
<1> SUFFICES ASSUME F # {} PROVE FALSE
  OBVIOUS
<1>1. PICK t \in F : \A u \in F : u \subseteq t => u = t
  <2> F \subseteq SUBSET S
    OBVIOUS
  <2> HIDE DEF F
  <2> QED
    BY SmallestOf
<1>2. PICK z \in t : SumFunctionOnSet(f, t) # f[z] + SumFunctionOnSet(f, t \ {z})
  BY <1>1
<1>3. t \in SUBSET S /\ IsFiniteSet(t) /\ t # {}
  BY <1>1, <1>2, FS_Subset
<1>4. PICK p, u, v, x :
        p = Some(t) /\ u = t \ {p} /\ v = t \ {z} /\ x = u \ {z}
  OBVIOUS
<1>5. p \in t /\ u \in SUBSET S /\ v \in SUBSET S /\ x \in SUBSET S
  BY <1>3, <1>4, SomeIn
<1>6. /\ SumFunctionOnSet(f, u) \in Nat /\ SumFunctionOnSet(f, v) \in Nat
      /\ SumFunctionOnSet(f, x) \in Nat /\ f[p] \in Nat /\ f[z] \in Nat
  <2>1. \A q \in SUBSET S : SumFunctionOnSet(f, q) \in Nat
    BY FS_Subset, SumNat
  <2> QED
    BY <1>3, <1>5, <2>1
<1>7. SumFunctionOnSet(f, t) = f[p] + SumFunctionOnSet(f, u)
  BY <1>3, <1>4, SumRecursion
<1>8. z # p
  BY <1>2, <1>4, <1>7
<1>9. SumFunctionOnSet(f, u) = f[z] + SumFunctionOnSet(f, x)
  <2>1. u \notin F /\ z \in u
    BY <1>1, <1>4, <1>5, <1>8
  <2> QED
    BY <1>4, <1>5, <2>1
<1>10. SumFunctionOnSet(f, v) = f[p] + SumFunctionOnSet(f, x)
  <2>1. v \notin F /\ p \in v /\ v \ {p} = x
    BY <1>1, <1>4, <1>5, <1>8
  <2> QED
    BY <1>5, <2>1
<1> QED
  BY <1>2, <1>4, <1>6, <1>7, <1>9, <1>10

\* The sum depends on the values in the set only, and grows with them.
THEOREM SumMonotonic ==
  ASSUME NEW f, NEW g, NEW S, IsFiniteSet(S),
         \A x \in S : f[x] \in Nat /\ g[x] \in Nat /\ f[x] <= g[x]
  PROVE  SumFunctionOnSet(f, S) <= SumFunctionOnSet(g, S)
<1> DEFINE F == {t \in SUBSET S : ~(SumFunctionOnSet(f, t) <= SumFunctionOnSet(g, t))}
<1> SUFFICES ASSUME F # {} PROVE FALSE
  OBVIOUS
<1>1. PICK t \in F : \A u \in F : u \subseteq t => u = t
  <2> F \subseteq SUBSET S
    OBVIOUS
  <2> HIDE DEF F
  <2> QED
    BY SmallestOf
<1>2. t \in SUBSET S /\ ~(SumFunctionOnSet(f, t) <= SumFunctionOnSet(g, t)) /\ IsFiniteSet(t)
  BY <1>1, FS_Subset
<1>3. t # {}
  <2>1. SumFunctionOnSet(f, {}) <= SumFunctionOnSet(g, {})
    BY SumEmpty
  <2> QED
    BY <1>2, <2>1
<1>4. PICK p, u : p = Some(t) /\ u = t \ {Some(t)}
  OBVIOUS
<1>5. p \in t /\ u \subseteq t /\ u # t /\ u \in SUBSET S /\ IsFiniteSet(u)
  BY <1>2, <1>3, <1>4, SomeIn, FS_Subset
<1>6. SumFunctionOnSet(f, u) <= SumFunctionOnSet(g, u)
  BY <1>1, <1>5
<1>7. SumFunctionOnSet(f, u) \in Nat /\ SumFunctionOnSet(g, u) \in Nat
  BY <1>5, SumNat
<1>8. SumFunctionOnSet(f, t) = f[p] + SumFunctionOnSet(f, u)
  BY <1>2, <1>3, <1>4, SumRecursion
<1>9. SumFunctionOnSet(g, t) = g[p] + SumFunctionOnSet(g, u)
  BY <1>2, <1>3, <1>4, SumRecursion
<1>10. f[p] \in Nat /\ g[p] \in Nat /\ f[p] <= g[p]
  BY <1>2, <1>5
<1> QED
  BY <1>2, <1>6, <1>7, <1>8, <1>9, <1>10

\* Two functions with the same values in the set have the same sum.
THEOREM SumEqual ==
  ASSUME NEW f, NEW g, NEW S, IsFiniteSet(S), \A x \in S : f[x] \in Nat /\ f[x] = g[x]
  PROVE  SumFunctionOnSet(f, S) = SumFunctionOnSet(g, S)
<1>1. SumFunctionOnSet(f, S) <= SumFunctionOnSet(g, S)
  BY SumMonotonic
<1>2. SumFunctionOnSet(g, S) <= SumFunctionOnSet(f, S)
  BY SumMonotonic
<1>3. SumFunctionOnSet(f, S) \in Nat /\ SumFunctionOnSet(g, S) \in Nat
  BY SumNat
<1> QED
  BY <1>1, <1>2, <1>3

\* Sums add up: of two functions, and over two parts of a set.
THEOREM SumPlus ==
  ASSUME NEW f, NEW g, NEW h, NEW S, IsFiniteSet(S),
         \A x \in S : f[x] \in Nat /\ g[x] \in Nat /\ h[x] = f[x] + g[x]
  PROVE  SumFunctionOnSet(h, S) = SumFunctionOnSet(f, S) + SumFunctionOnSet(g, S)
<1> DEFINE F == {t \in SUBSET S : SumFunctionOnSet(h, t) # SumFunctionOnSet(f, t) + SumFunctionOnSet(g, t)}
<1> SUFFICES ASSUME F # {} PROVE FALSE
  OBVIOUS
<1>1. PICK t \in F : \A u \in F : u \subseteq t => u = t
  <2> F \subseteq SUBSET S
    OBVIOUS
  <2> HIDE DEF F
  <2> QED
    BY SmallestOf
<1>2. t \in SUBSET S /\ SumFunctionOnSet(h, t) # SumFunctionOnSet(f, t) + SumFunctionOnSet(g, t) /\ IsFiniteSet(t)
  BY <1>1, FS_Subset
<1>3. t # {}
  <2>1. SumFunctionOnSet(h, {}) = SumFunctionOnSet(f, {}) + SumFunctionOnSet(g, {})
    BY SumEmpty
  <2> QED
    BY <1>2, <2>1
<1>4. PICK p, u : p = Some(t) /\ u = t \ {Some(t)}
  OBVIOUS
<1>5. p \in t /\ u \subseteq t /\ u # t /\ u \in SUBSET S /\ IsFiniteSet(u)
  BY <1>2, <1>3, <1>4, SomeIn, FS_Subset
<1>6. SumFunctionOnSet(h, u) = SumFunctionOnSet(f, u) + SumFunctionOnSet(g, u)
  BY <1>1, <1>5
<1>7. SumFunctionOnSet(f, u) \in Nat /\ SumFunctionOnSet(g, u) \in Nat
  BY <1>5, SumNat
<1>8. SumFunctionOnSet(f, t) = f[p] + SumFunctionOnSet(f, u)
  BY <1>2, <1>3, <1>4, SumRecursion
<1>9. SumFunctionOnSet(g, t) = g[p] + SumFunctionOnSet(g, u)
  BY <1>2, <1>3, <1>4, SumRecursion
<1>10. SumFunctionOnSet(h, t) = h[p] + SumFunctionOnSet(h, u)
  BY <1>2, <1>3, <1>4, SumRecursion
<1>11. f[p] \in Nat /\ g[p] \in Nat /\ h[p] = f[p] + g[p]
  BY <1>2, <1>5
<1> QED
  BY <1>2, <1>6, <1>7, <1>8, <1>9, <1>10, <1>11

\* Zeros add up to zero.
LEMMA SumZero ==
  ASSUME NEW f, NEW S, IsFiniteSet(S), \A x \in S : f[x] = 0
  PROVE  SumFunctionOnSet(f, S) = 0
<1> DEFINE F == {t \in SUBSET S : SumFunctionOnSet(f, t) # 0}
<1> SUFFICES ASSUME F # {} PROVE FALSE
  OBVIOUS
<1>1. PICK t \in F : \A u \in F : u \subseteq t => u = t
  <2> F \subseteq SUBSET S
    OBVIOUS
  <2> HIDE DEF F
  <2> QED
    BY SmallestOf
<1>2. t \in SUBSET S /\ SumFunctionOnSet(f, t) # 0 /\ IsFiniteSet(t) /\ t # {}
  BY <1>1, FS_Subset, SumEmpty
<1>3. PICK p, u : p = Some(t) /\ u = t \ {Some(t)}
  OBVIOUS
<1>4. p \in t /\ u \subseteq t /\ u # t /\ u \in SUBSET S
  BY <1>2, <1>3, SomeIn
<1>5. SumFunctionOnSet(f, u) = 0 /\ f[p] = 0
  BY <1>1, <1>2, <1>4
<1>6. SumFunctionOnSet(f, t) = f[p] + SumFunctionOnSet(f, u)
  BY <1>2, <1>3, SumRecursion
<1> QED
  BY <1>2, <1>5, <1>6

\* What is zero adds nothing.
THEOREM SumZeros ==
  ASSUME NEW f, NEW S, IsFiniteSet(S), NEW T \in SUBSET S,
         \A x \in S : f[x] \in Nat, \A x \in S \ T : f[x] = 0
  PROVE  SumFunctionOnSet(f, S) = SumFunctionOnSet(f, T)
<1> DEFINE F == {t \in SUBSET S : SumFunctionOnSet(f, t) # SumFunctionOnSet(f, t \cap T)}
<1>0. F = {} => SumFunctionOnSet(f, S) = SumFunctionOnSet(f, T)
  <2>1. S \cap T = T /\ S \in SUBSET S
    OBVIOUS
  <2>2. S \notin F => SumFunctionOnSet(f, S) = SumFunctionOnSet(f, S \cap T)
    BY <2>1
  <2> QED
    BY <2>1, <2>2
<1> SUFFICES ASSUME F # {} PROVE FALSE
  BY <1>0
<1>1. PICK t \in F : \A u \in F : u \subseteq t => u = t
  <2> F \subseteq SUBSET S
    OBVIOUS
  <2> HIDE DEF F
  <2> QED
    BY SmallestOf
<1>2. t \in SUBSET S /\ SumFunctionOnSet(f, t) # SumFunctionOnSet(f, t \cap T) /\ IsFiniteSet(t)
  BY <1>1, FS_Subset
<1>3. t # {}
  <2>1. {} \cap T = {}
    OBVIOUS
  <2> QED
    BY <1>2, <2>1
<1>4. PICK p, u, v, x : p = Some(t) /\ u = t \ {Some(t)} /\ v = t \cap T /\ x = u \cap T
  OBVIOUS
<1>5. p \in t /\ u \subseteq t /\ u # t /\ u \in SUBSET S
  BY <1>2, <1>3, <1>4, SomeIn
<1>6. SumFunctionOnSet(f, u) = SumFunctionOnSet(f, x)
  BY <1>1, <1>4, <1>5
<1>7. /\ IsFiniteSet(v) /\ v \in SUBSET S /\ x \in SUBSET S
      /\ SumFunctionOnSet(f, x) \in Nat /\ f[p] \in Nat
  <2>1. x \in SUBSET S /\ v \in SUBSET S /\ p \in S
    BY <1>2, <1>4, <1>5
  <2>2. IsFiniteSet(x) /\ IsFiniteSet(v)
    BY <2>1, FS_Subset
  <2> QED
    BY <2>1, <2>2, SumNat
<1>8. SumFunctionOnSet(f, t) = f[p] + SumFunctionOnSet(f, u)
  BY <1>2, <1>3, <1>4, SumRecursion
<1>9. CASE p \in T
  <2>1. p \in v /\ v \ {p} = x
    BY <1>4, <1>5, <1>9
  <2>2. \A y \in v : f[y] \in Nat
    BY <1>7
  <2>3. SumFunctionOnSet(f, v) = f[p] + SumFunctionOnSet(f, v \ {p})
    BY <1>7, <2>1, <2>2, SumTake
  <2> QED
    BY <1>2, <1>4, <1>6, <1>8, <2>1, <2>3
<1>10. CASE p \notin T
  <2>1. v = x /\ f[p] = 0
    BY <1>2, <1>4, <1>5, <1>10
  <2>2. SumFunctionOnSet(f, t) = SumFunctionOnSet(f, x)
    BY <1>6, <1>7, <1>8, <2>1
  <2>3. SumFunctionOnSet(f, t) # SumFunctionOnSet(f, v)
    BY <1>2, <1>4
  <2> QED
    BY <2>1, <2>2, <2>3
<1> QED
  BY <1>9, <1>10

\* A set is the sum of its parts.
THEOREM SumSplit ==
  ASSUME NEW f, NEW S, IsFiniteSet(S), NEW T \in SUBSET S, \A x \in S : f[x] \in Nat
  PROVE  SumFunctionOnSet(f, S) = SumFunctionOnSet(f, T) + SumFunctionOnSet(f, S \ T)
<1> DEFINE a == [x \in S |-> IF x \in T THEN f[x] ELSE 0]
           b == [x \in S |-> IF x \in T THEN 0 ELSE f[x]]
<1>1. \A x \in S : a[x] \in Nat /\ b[x] \in Nat /\ f[x] = a[x] + b[x]
  OBVIOUS
<1>2. /\ \A x \in S \ T : a[x] = 0
      /\ \A x \in S \ (S \ T) : b[x] = 0
      /\ \A x \in T : f[x] \in Nat /\ f[x] = a[x]
      /\ \A x \in S \ T : f[x] \in Nat /\ f[x] = b[x]
  OBVIOUS
<1>3. IsFiniteSet(T) /\ IsFiniteSet(S \ T) /\ S \ T \in SUBSET S
  BY FS_Subset
<1> HIDE DEF a, b
<1>4. SumFunctionOnSet(f, S) = SumFunctionOnSet(a, S) + SumFunctionOnSet(b, S)
  BY <1>1, SumPlus
<1>5. SumFunctionOnSet(a, S) = SumFunctionOnSet(a, T)
  BY <1>1, <1>2, SumZeros
<1>6. SumFunctionOnSet(b, S) = SumFunctionOnSet(b, S \ T)
  <2>1. PICK U : U = S \ T
    OBVIOUS
  <2> QED
    BY <1>1, <1>2, <1>3, <2>1, SumZeros
<1>7. SumFunctionOnSet(a, T) = SumFunctionOnSet(f, T)
  BY <1>2, <1>3, SumEqual
<1>8. SumFunctionOnSet(b, S \ T) = SumFunctionOnSet(f, S \ T)
  <2>1. PICK U : U = S \ T
    OBVIOUS
  <2> QED
    BY <1>2, <1>3, <2>1, SumEqual
<1> QED
  BY <1>4, <1>5, <1>6, <1>7, <1>8

\* When one value changes, the sum changes by as much.
THEOREM SumChange ==
  ASSUME NEW f, NEW g, NEW S, IsFiniteSet(S), NEW y \in S,
         \A x \in S : f[x] \in Nat /\ g[x] \in Nat, \A x \in S \ {y} : g[x] = f[x]
  PROVE  SumFunctionOnSet(g, S) + f[y] = SumFunctionOnSet(f, S) + g[y]
<1>1. PICK T : T = S \ {y}
  OBVIOUS
<1>2. IsFiniteSet(T) /\ \A x \in T : f[x] \in Nat /\ g[x] \in Nat /\ f[x] = g[x]
  BY <1>1, FS_Subset
<1>3. SumFunctionOnSet(f, S) = f[y] + SumFunctionOnSet(f, T)
  BY <1>1, SumTake
<1>4. SumFunctionOnSet(g, S) = g[y] + SumFunctionOnSet(g, T)
  BY <1>1, SumTake
<1>5. SumFunctionOnSet(f, T) = SumFunctionOnSet(g, T)
  BY <1>2, SumEqual
<1>6. SumFunctionOnSet(f, T) \in Nat
  BY <1>2, SumNat
<1> QED
  BY <1>3, <1>4, <1>5, <1>6

\* What one element gives another leaves the sum as it is.
THEOREM SumMove ==
  ASSUME NEW f, NEW g, NEW S, IsFiniteSet(S), NEW x \in S, NEW y \in S, x # y, NEW n \in Nat,
         \A z \in S : f[z] \in Nat /\ g[z] \in Nat, \A z \in S \ {x, y} : g[z] = f[z],
         g[x] = f[x] + n, f[y] = g[y] + n
  PROVE  SumFunctionOnSet(g, S) = SumFunctionOnSet(f, S)
<1>1. PICK h : h = [z \in S |-> IF z = x THEN f[x] ELSE g[z]]
  OBVIOUS
<1>2. /\ \A z \in S : h[z] \in Nat
      /\ h[x] = f[x] /\ h[y] = g[y]
      /\ \A z \in S \ {y} : h[z] = f[z]
      /\ \A z \in S \ {x} : g[z] = h[z]
  BY <1>1
<1>3. SumFunctionOnSet(h, S) + f[y] = SumFunctionOnSet(f, S) + h[y]
  BY <1>2, SumChange
<1>4. SumFunctionOnSet(g, S) + h[x] = SumFunctionOnSet(h, S) + g[x]
  BY <1>2, SumChange
<1>5. /\ SumFunctionOnSet(f, S) \in Nat
      /\ SumFunctionOnSet(g, S) \in Nat
      /\ SumFunctionOnSet(h, S) \in Nat
  BY <1>2, SumNat
<1>6. f[x] \in Nat /\ g[y] \in Nat
  OBVIOUS
<1> QED
  BY <1>2, <1>3, <1>4, <1>5, <1>6
=============================================================================
