------------------------------ MODULE SumProofs ------------------------------
(* What the proofs need to know of SumFunctionOnSet, the sum of f[x] over    *)
(* the elements of a finite set: its value on the empty set, what one        *)
(* element more adds, its type, its order.                                   *)
(*                                                                           *)
(* The sum is the value of a recursive function on the subsets of the set.   *)
(* That the function exists, and everything else here, is shown by           *)
(* considering a smallest set for which it fails (SmallestSubset).           *)
EXTENDS FiniteSetsExt, FiniteSetTheorems, TLAPS

Some(s) == CHOOSE x \in s : TRUE

\* g adds up f over each subset of S.
Adds(f, S, g) ==
    g = [s \in SUBSET S |->
           IF s = {} THEN 0 ELSE f[Some(s)] + g[s \ {Some(s)}]]

Adder(f, S) == CHOOSE g : Adds(f, S, g)

-----------------------------------------------------------------------------

(* Among the subsets of a finite set that share a defect one is smallest.    *)
LEMMA SmallestSubset ==
    ASSUME NEW S, IsFiniteSet(S), NEW B, B \subseteq SUBSET S, B # {}
    PROVE  \E T \in B : \A U \in B : U \subseteq T => U = T
<1> DEFINE R == StrictSubsetOrdering(S)
<1>1. IsWellFoundedOn(R, FiniteSubsetsOf(S))
    BY FS_StrictSubsetOrderingWellFounded
<1>2. B \subseteq FiniteSubsetsOf(S)
    BY FS_FiniteSubsetsOfFinite
<1> HIDE DEF R
<1>3. PICK T \in B : \A U \in B : ~(<<U, T>> \in R)
    BY <1>1, <1>2, WFMin
<1>4. ASSUME NEW U \in B, U \subseteq T, U # T
      PROVE  FALSE
    BY <1>3, <1>4 DEF R, StrictSubsetOrdering
<1>5. QED
    BY <1>4

LEMMA SomeInSet == ASSUME NEW s, s # {} PROVE Some(s) \in s
BY DEF Some

(* Two functions that add up f agree on the subsets both are defined for.    *)
LEMMA AddersAgree ==
    ASSUME NEW f, NEW S, NEW U, IsFiniteSet(U), U \subseteq S,
           NEW g, Adds(f, S, g), NEW h, Adds(f, U, h),
           NEW w, w \subseteq U
    PROVE  g[w] = h[w]
<1> DEFINE B == {v \in SUBSET U : g[v] # h[v]}
<1> SUFFICES ASSUME B # {} PROVE FALSE
    OBVIOUS
<1>1. PICK T \in B : \A V \in B : V \subseteq T => V = T
  <2> B \subseteq SUBSET U
      OBVIOUS
  <2> HIDE DEF B
  <2> QED
      BY SmallestSubset
<1>2. /\ g[T] = IF T = {} THEN 0 ELSE f[Some(T)] + g[T \ {Some(T)}]
      /\ h[T] = IF T = {} THEN 0 ELSE f[Some(T)] + h[T \ {Some(T)}]
    BY DEF Adds
<1>3. T # {}
    BY <1>2
<1>4. Some(T) \in T
    BY <1>3, SomeInSet
<1>5. g[T \ {Some(T)}] = h[T \ {Some(T)}]
    BY <1>1, <1>4
<1>6. QED
    BY <1>2, <1>3, <1>5

(* There is a function that adds up f over every subset of a finite set.     *)
LEMMA AdderExists ==
    ASSUME NEW f, NEW S, IsFiniteSet(S)
    PROVE  \E g : Adds(f, S, g)
<1> DEFINE B == {v \in SUBSET S : ~ \E g : Adds(f, v, g)}
<1> SUFFICES ASSUME B # {} PROVE FALSE
    OBVIOUS
<1>1. PICK T \in B : \A V \in B : V \subseteq T => V = T
  <2> B \subseteq SUBSET S
      OBVIOUS
  <2> HIDE DEF B
  <2> QED
      BY SmallestSubset
<1>2. ASSUME NEW u, u \subseteq T, u # T
      PROVE  Adds(f, u, Adder(f, u))
  <2>1. \E g : Adds(f, u, g)
      BY <1>1, <1>2
  <2>2. QED
      BY <2>1 DEF Adder
<1> DEFINE Rest(s) == s \ {Some(s)}
           g == [s \in SUBSET T |->
                   IF s = {} THEN 0 ELSE f[Some(s)] + Adder(f, Rest(s))[Rest(s)]]
<1>3. ASSUME NEW s \in SUBSET T, s # {}
      PROVE  g[Rest(s)] = Adder(f, Rest(s))[Rest(s)]
  <2> DEFINE u == Rest(s)
  <2>1. u \subseteq T /\ u # T
      BY <1>3, SomeInSet
  <2>2. Adds(f, u, Adder(f, u))
      BY <1>2, <2>1
  <2>3. Adder(f, u)[u] = IF u = {} THEN 0 ELSE f[Some(u)] + Adder(f, u)[Rest(u)]
      BY <2>2 DEF Adds
  <2>4. CASE u = {}
      BY <2>1, <2>3, <2>4
  <2>5. CASE u # {}
    <3>1. Rest(u) \subseteq u /\ Rest(u) \subseteq T /\ Rest(u) # T
        BY <2>1
    <3>2. Adds(f, Rest(u), Adder(f, Rest(u)))
        BY <1>2, <3>1
    <3>3. IsFiniteSet(u)
        BY <2>1, FS_Subset
    <3>4. IsFiniteSet(Rest(u))
        BY <3>1, <3>3, FS_Subset
    <3> HIDE DEF u, Rest
    <3>5. Adder(f, u)[Rest(u)] = Adder(f, Rest(u))[Rest(u)]
        BY <2>2, <3>1, <3>2, <3>4, AddersAgree
    <3>6. g[u] = f[Some(u)] + Adder(f, Rest(u))[Rest(u)]
        BY <2>1, <2>5
    <3>7. QED
        BY <2>3, <2>5, <3>5, <3>6 DEF u
  <2>6. QED
      BY <2>4, <2>5
<1>4. Adds(f, T, g)
    BY <1>3 DEF Adds
<1>5. QED
    BY <1>1, <1>4

-----------------------------------------------------------------------------

LEMMA SumOfAdder ==
    ASSUME NEW f, NEW S
    PROVE  SumFunctionOnSet(f, S) = Adder(f, S)[S]
BY DEF SumFunctionOnSet, FoldFunctionOnSet, MapThenFoldSet, Adder, Adds, Some

(* The equation of the sum.                                                  *)
LEMMA SumEquation ==
    ASSUME NEW f, NEW S, IsFiniteSet(S)
    PROVE  SumFunctionOnSet(f, S) =
             IF S = {} THEN 0
             ELSE f[Some(S)] + SumFunctionOnSet(f, S \ {Some(S)})
<1> DEFINE U == S \ {Some(S)}
<1>1. IsFiniteSet(U) /\ U \subseteq S
    BY FS_Subset
<1>2. Adds(f, S, Adder(f, S)) /\ Adds(f, U, Adder(f, U))
  <2>1. \A T : IsFiniteSet(T) => Adds(f, T, Adder(f, T))
      BY AdderExists DEF Adder
  <2>2. QED
      BY <1>1, <2>1
<1>3. Adder(f, S)[S] = IF S = {} THEN 0 ELSE f[Some(S)] + Adder(f, S)[U]
    BY <1>2 DEF Adds
<1> HIDE DEF U
<1>4. Adder(f, S)[U] = Adder(f, U)[U]
    BY <1>1, <1>2, AddersAgree
<1>5. QED
    BY <1>3, <1>4, SumOfAdder DEF U

LEMMA SumOfNothing ==
    ASSUME NEW f
    PROVE  SumFunctionOnSet(f, {}) = 0
BY SumEquation, FS_EmptySet

(* A sum of integers is an integer.                                          *)
LEMMA SumIsInt ==
    ASSUME NEW f, NEW S, IsFiniteSet(S), \A x \in S : f[x] \in Int
    PROVE  SumFunctionOnSet(f, S) \in Int
<1> DEFINE Sum(T) == SumFunctionOnSet(f, T)
           B == {T \in SUBSET S : Sum(T) \notin Int}
<1> SUFFICES ASSUME B # {} PROVE FALSE
    OBVIOUS
<1>1. PICK T \in B : \A V \in B : V \subseteq T => V = T
  <2> B \subseteq SUBSET S
      OBVIOUS
  <2> HIDE DEF B
  <2> QED
      BY SmallestSubset
<1>2. IsFiniteSet(T)
    BY FS_Subset
<1>3. Sum(T) = IF T = {} THEN 0 ELSE f[Some(T)] + Sum(T \ {Some(T)})
    BY <1>2, SumEquation
<1>4. T # {}
    BY <1>3
<1>5. Some(T) \in T
    BY <1>4, SomeInSet
<1>6. Sum(T \ {Some(T)}) \in Int
    BY <1>1, <1>5
<1>7. f[Some(T)] \in Int
    BY <1>5
<1>8. QED
    BY <1>3, <1>4, <1>6, <1>7

(* Any element may be taken out of a sum, not only the one CHOOSE takes.     *)
LEMMA SumWithout ==
    ASSUME NEW f, NEW S, IsFiniteSet(S), \A x \in S : f[x] \in Int, NEW x \in S
    PROVE  SumFunctionOnSet(f, S) = f[x] + SumFunctionOnSet(f, S \ {x})
<1> DEFINE Sum(T) == SumFunctionOnSet(f, T)
           B == {T \in SUBSET S : \E y \in T : Sum(T) # f[y] + Sum(T \ {y})}
<1> SUFFICES ASSUME B # {} PROVE FALSE
    OBVIOUS
<1>1. PICK T \in B : \A V \in B : V \subseteq T => V = T
  <2> B \subseteq SUBSET S
      OBVIOUS
  <2> HIDE DEF B
  <2> QED
      BY SmallestSubset
<1>2. PICK y \in T : Sum(T) # f[y] + Sum(T \ {y})
    OBVIOUS
<1> DEFINE z == Some(T)
           Ty == T \ {y}
           Tz == T \ {z}
           Tyz == T \ {y, z}
<1>3. z \in T
    BY SomeInSet
<1>4. IsFiniteSet(T) /\ Tyz \subseteq S
    BY FS_Subset
<1>5. Sum(T) = f[z] + Sum(Tz)
    BY <1>3, <1>4, SumEquation
<1>6. y # z
    BY <1>2, <1>5
<1>7. Sum(Tz) = f[y] + Sum(Tyz)
  <2>1. Tz \notin B /\ Tz \subseteq S
      BY <1>1, <1>3
  <2>2. y \in Tz /\ Tz \ {y} = Tyz
      BY <1>6
  <2>3. QED
      BY <2>1, <2>2
<1>8. Sum(Ty) = f[z] + Sum(Tyz)
  <2>1. Ty \notin B /\ Ty \subseteq S
      BY <1>1
  <2>2. z \in Ty /\ Ty \ {z} = Tyz
      BY <1>3, <1>6
  <2>3. QED
      BY <2>1, <2>2
<1>9. Sum(Tyz) \in Int /\ f[y] \in Int /\ f[z] \in Int
  <2>1. IsFiniteSet(Tyz) /\ \A v \in Tyz : f[v] \in Int
      BY <1>4, FS_Subset
  <2> HIDE DEF Tyz
  <2>2. QED
      BY <1>3, <2>1, SumIsInt
<1> HIDE DEF Sum, Ty, Tz, Tyz
<1>10. QED
    BY <1>2, <1>5, <1>7, <1>8, <1>9 DEF Ty

(* One element more.                                                         *)
LEMMA SumWith ==
    ASSUME NEW f, NEW S, IsFiniteSet(S), NEW x, x \notin S,
           \A y \in S \cup {x} : f[y] \in Int
    PROVE  SumFunctionOnSet(f, S \cup {x}) = SumFunctionOnSet(f, S) + f[x]
<1>1. IsFiniteSet(S \cup {x})
    BY FS_AddElement
<1>2. (S \cup {x}) \ {x} = S
    OBVIOUS
<1>3. SumFunctionOnSet(f, S \cup {x}) = f[x] + SumFunctionOnSet(f, S)
    BY <1>1, <1>2, SumWithout
<1>4. SumFunctionOnSet(f, S) \in Int /\ f[x] \in Int
    BY SumIsInt
<1>5. QED
    BY <1>3, <1>4

(* The sum depends on what is added up and on nothing else.                  *)
LEMMA SumSame ==
    ASSUME NEW f, NEW g, NEW S, IsFiniteSet(S), \A x \in S : f[x] = g[x]
    PROVE  SumFunctionOnSet(f, S) = SumFunctionOnSet(g, S)
<1> DEFINE B == {T \in SUBSET S : SumFunctionOnSet(f, T) # SumFunctionOnSet(g, T)}
<1> SUFFICES ASSUME B # {} PROVE FALSE
    OBVIOUS
<1>1. PICK T \in B : \A V \in B : V \subseteq T => V = T
  <2> B \subseteq SUBSET S
      OBVIOUS
  <2> HIDE DEF B
  <2> QED
      BY SmallestSubset
<1>2. IsFiniteSet(T)
    BY FS_Subset
<1>3. T # {}
    BY SumOfNothing
<1>4. Some(T) \in T
    BY <1>3, SomeInSet
<1>5. SumFunctionOnSet(f, T \ {Some(T)}) = SumFunctionOnSet(g, T \ {Some(T)})
    BY <1>1, <1>4
<1>6. f[Some(T)] = g[Some(T)]
    BY <1>4
<1>7. QED
    BY <1>2, <1>3, <1>5, <1>6, SumEquation

(* Numbers that are not negative add up to more over more elements.          *)
LEMMA SumOfSubset ==
    ASSUME NEW f, NEW S, IsFiniteSet(S), \A x \in S : f[x] \in Nat,
           NEW U, U \subseteq S
    PROVE  /\ SumFunctionOnSet(f, U) \in Nat
           /\ SumFunctionOnSet(f, U) <= SumFunctionOnSet(f, S)
<1> DEFINE Sum(T) == SumFunctionOnSet(f, T)
<1>1. \A T \in SUBSET S : IsFiniteSet(T) /\ Sum(T) \in Int
  <2> SUFFICES ASSUME NEW T \in SUBSET S PROVE IsFiniteSet(T) /\ Sum(T) \in Int
      OBVIOUS
  <2>1. IsFiniteSet(T)
      BY FS_Subset
  <2>2. \A x \in T : f[x] \in Int
      OBVIOUS
  <2>3. QED
      BY <2>1, <2>2, SumIsInt
<1>2. \A T \in SUBSET S : \A x \in T : Sum(T) = f[x] + Sum(T \ {x})
  <2> SUFFICES ASSUME NEW T \in SUBSET S, NEW x \in T
               PROVE  Sum(T) = f[x] + Sum(T \ {x})
      OBVIOUS
  <2>1. IsFiniteSet(T) /\ \A y \in T : f[y] \in Int
      BY <1>1
  <2>2. QED
      BY <2>1, SumWithout
<1>3. \A T \in SUBSET S : \A V \in SUBSET T : Sum(V) <= Sum(T)
  <2> DEFINE B == {T \in SUBSET S : \E V \in SUBSET T : Sum(V) > Sum(T)}
  <2> SUFFICES ASSUME B # {} PROVE FALSE
      BY <1>1
  <2>1. PICK T \in B : \A V \in B : V \subseteq T => V = T
    <3> B \subseteq SUBSET S
        OBVIOUS
    <3> HIDE DEF B
    <3> QED
        BY SmallestSubset
  <2>2. PICK V \in SUBSET T : Sum(V) > Sum(T)
      OBVIOUS
  <2>3. V # T
      BY <1>1, <2>2
  <2>4. PICK x \in T : x \notin V
      BY <2>3
  <2>5. T \ {x} \notin B /\ T \ {x} \in SUBSET S /\ V \in SUBSET (T \ {x})
      BY <2>1, <2>4
  <2>6. ~(Sum(V) > Sum(T \ {x}))
      BY <2>5
  <2>7. Sum(T) = f[x] + Sum(T \ {x}) /\ f[x] \in Nat
      BY <1>2, <2>4
  <2>8. Sum(T) \in Int /\ Sum(V) \in Int /\ Sum(T \ {x}) \in Int
      BY <1>1, <2>2, <2>5
  <2> HIDE DEF Sum
  <2>9. QED
      BY <2>2, <2>6, <2>7, <2>8
<1>4. Sum({}) = 0
    BY SumOfNothing
<1>5. Sum({}) <= Sum(U) /\ Sum(U) <= Sum(S) /\ Sum(U) \in Int
    BY <1>1, <1>3
<1> HIDE DEF Sum
<1>6. Sum(U) \in Nat /\ Sum(U) <= Sum(S)
    BY <1>4, <1>5
<1>7. QED
    BY <1>6 DEF Sum
=============================================================================
