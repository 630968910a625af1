---------------------------- MODULE SumTheorems ----------------------------
(***************************************************************************)
(* What SumFunctionOnSet of the community modules computes on a finite     *)
(* set.  It is a recursive function, so these facts need induction; the    *)
(* induction principles are stated with a set in place of a predicate.     *)
(***************************************************************************)
EXTENDS Integers, FiniteSetsExt, FiniteSetTheorems, WellFoundedInduction, TLAPS

Below == {p \in Nat \X Nat : p[1] < p[2]}

\* The order of the natural numbers has no infinite descent.
LEMMA BelowWellFounded == IsWellFoundedOn(Below, Nat)
<1>1. Below = OpToRel(<, Nat)
  BY DEF OpToRel, Below
<1>2. IsWellFoundedOn(OpToRel(<, Nat), Nat)
  BY NatLessThanWellFounded, Zenon
<1> QED BY <1>1, <1>2, Zenon

\* A nonempty set of natural numbers has a least element.
LEMMA LeastNatural ==
  ASSUME NEW T \in SUBSET Nat, T # {}
  PROVE  \E m \in T : \A k \in T : m =< k
<1>1. PICK m \in T : \A k \in T : ~(<<k, m>> \in Below)
  BY WFMin, BelowWellFounded
<1>2. ASSUME NEW k \in T PROVE m =< k
  <2>1. m \in Nat /\ k \in Nat
    OBVIOUS
  <2>2. k < m => <<k, m>> \in Below
    BY <2>1 DEF Below
  <2> QED BY <1>1, <2>1, <2>2
<1> QED BY <1>2

\* Induction over the natural numbers.
LEMMA NumberInduction ==
  ASSUME NEW D, 0 \in D, \A n \in Nat : n \in D => n + 1 \in D
  PROVE  Nat \subseteq D
<1> DEFINE T == {n \in Nat : n \notin D}
<1>1. ASSUME T # {} PROVE FALSE
  <2>1. PICK m \in T : \A k \in T : m =< k
    BY <1>1, LeastNatural
  <2>2. m \in Nat /\ m # 0 /\ m - 1 \in Nat /\ m - 1 \notin T
    BY <2>1
  <2>3. m - 1 \in D
    BY <2>2
  <2>4. (m - 1) + 1 \in D
    BY <2>2, <2>3
  <2> QED BY <2>1, <2>2, <2>4
<1> QED BY <1>1

\* Induction over the subsets of a finite set.
LEMMA SubsetInduction ==
  ASSUME NEW S, IsFiniteSet(S), NEW D, {} \in D,
         \A s \in SUBSET S : s # {} /\ (\A x \in s : s \ {x} \in D) => s \in D
  PROVE  SUBSET S \subseteq D
<1> DEFINE C(s) == Cardinality(s)
           E == {n \in Nat : \A s \in SUBSET S : C(s) =< n => s \in D}
<1>1. \A s \in SUBSET S : IsFiniteSet(s) /\ C(s) \in Nat
  BY FS_Subset, FS_CardinalityType
<1>2. \A s \in SUBSET S : C(s) = 0 => s = {}
  BY <1>1, FS_EmptySet
<1>3. 0 \in E
  BY <1>1, <1>2
<1>4. ASSUME NEW n \in Nat, n \in E PROVE n + 1 \in E
  <2>1. ASSUME NEW s \in SUBSET S, C(s) =< n + 1 PROVE s \in D
    <3>1. CASE s = {}
      BY <3>1
    <3>2. CASE s # {}
      <4>1. ASSUME NEW x \in s PROVE s \ {x} \in D
        <5>1. s \ {x} \in SUBSET S /\ C(s \ {x}) = C(s) - 1
          BY <1>1, FS_RemoveElement
        <5>2. C(s \ {x}) =< n
          BY <1>1, <2>1, <5>1
        <5> QED BY <1>4, <5>1, <5>2
      <4> QED BY <3>2, <4>1
    <3> QED BY <3>1, <3>2
  <2> HIDE DEF C
  <2> QED BY <2>1
<1> HIDE DEF E
<1>5. Nat \subseteq E
  BY <1>3, <1>4, NumberInduction
<1>6. ASSUME NEW s \in SUBSET S PROVE s \in D
  <2>1. C(s) \in Nat /\ C(s) \in E
    BY <1>1, <1>5
  <2> QED BY <2>1 DEF E
<1> QED BY <1>6

----------------------------------------------------------------------------
(* The recursion behind SumFunctionOnSet. *)

Pick(s) == CHOOSE x \in s : TRUE
SumOn(f, g, D) == g = [s \in D |-> IF s = {} THEN 0 ELSE f[Pick(s)] + g[s \ {Pick(s)}]]

\* The element the recursion takes out belongs to the set.
LEMMA PickIn == ASSUME NEW s, s # {} PROVE Pick(s) \in s
  BY DEF Pick

\* SumFunctionOnSet is this recursion.
LEMMA SumIsRecursive ==
  ASSUME NEW f, NEW S
  PROVE  SumFunctionOnSet(f, S) = (CHOOSE g : SumOn(f, g, SUBSET S))[S]
  BY DEF SumFunctionOnSet, FoldFunctionOnSet, MapThenFoldSet, SumOn, Pick

\* The recursion has a solution.
LEMMA SumExists ==
  ASSUME NEW f, NEW S, IsFiniteSet(S)
  PROVE  \E g : SumOn(f, g, SUBSET S)
<1> DEFINE Layer(n) == {s \in SUBSET S : Cardinality(s) =< n}
           E == {n \in Nat : \E g : SumOn(f, g, Layer(n))}
<1>1. \A s \in SUBSET S : IsFiniteSet(s) /\ Cardinality(s) \in Nat
  BY FS_Subset, FS_CardinalityType
<1>2. \A s \in SUBSET S : Cardinality(s) = 0 => s = {}
  BY <1>1, FS_EmptySet
<1>3. 0 \in E
  <2>1. \A s \in Layer(0) : s = {}
    BY <1>1, <1>2
  <2>2. SumOn(f, [s \in Layer(0) |-> 0], Layer(0))
    BY <2>1 DEF SumOn
  <2> QED BY <2>2
<1>4. ASSUME NEW n \in Nat, n \in E PROVE n + 1 \in E
  <2>1. PICK g : SumOn(f, g, Layer(n))
    BY <1>4
  <2> DEFINE h == [s \in Layer(n + 1) |-> IF s = {} THEN 0 ELSE f[Pick(s)] + g[s \ {Pick(s)}]]
  <2>2. ASSUME NEW s \in Layer(n) PROVE s \in Layer(n + 1) /\ h[s] = g[s]
    <3>1. s \in Layer(n + 1)
      BY <1>1
    <3>2. g[s] = IF s = {} THEN 0 ELSE f[Pick(s)] + g[s \ {Pick(s)}]
      BY <2>1 DEF SumOn
    <3> QED BY <3>1, <3>2
  <2>3. ASSUME NEW s \in Layer(n + 1), s # {} PROVE s \ {Pick(s)} \in Layer(n)
    <3>1. Pick(s) \in s
      BY <2>3, PickIn
    <3>2. Cardinality(s \ {Pick(s)}) = Cardinality(s) - 1
      BY <1>1, <3>1, FS_RemoveElement
    <3> QED BY <1>1, <2>3, <3>2
  <2>4. ASSUME NEW s \in Layer(n + 1)
        PROVE  h[s] = IF s = {} THEN 0 ELSE f[Pick(s)] + h[s \ {Pick(s)}]
    <3>1. CASE s = {}
      BY <3>1
    <3>2. CASE s # {}
      <4>1. h[s \ {Pick(s)}] = g[s \ {Pick(s)}]
        BY <2>2, <2>3, <3>2
      <4> QED BY <3>2, <4>1
    <3> QED BY <3>1, <3>2
  <2>5. h = [s \in Layer(n + 1) |-> h[s]]
    OBVIOUS
  <2> HIDE DEF h, Layer
  <2>6. SumOn(f, h, Layer(n + 1))
    BY <2>4, <2>5 DEF SumOn
  <2> QED BY <2>6
<1> HIDE DEF E
<1>5. Nat \subseteq E
  BY <1>3, <1>4, NumberInduction
<1>6. Cardinality(S) \in E
  BY <1>1, <1>5
<1>7. PICK g : SumOn(f, g, Layer(Cardinality(S)))
  BY <1>6 DEF E
<1>8. Layer(Cardinality(S)) = SUBSET S
  BY FS_Subset
<1> QED BY <1>7, <1>8

\* g sums f up over every subset of S.
Sums(f, g, S) == SumOn(f, g, SUBSET S)

\* SumFunctionOnSet reads its value off a solution of the recursion.
LEMMA SumDefined ==
  ASSUME NEW f, NEW S, IsFiniteSet(S)
  PROVE  \E g : Sums(f, g, S) /\ SumFunctionOnSet(f, S) = g[S]
<1> DEFINE g == CHOOSE g : SumOn(f, g, SUBSET S)
<1>1. SumOn(f, g, SUBSET S)
  BY SumExists
<1> QED BY <1>1, SumIsRecursive DEF Sums

\* A solution satisfies the recursion at every subset.
LEMMA SumsAt ==
  ASSUME NEW f, NEW S, NEW g, Sums(f, g, S), NEW s \in SUBSET S
  PROVE  g[s] = IF s = {} THEN 0 ELSE f[Pick(s)] + g[s \ {Pick(s)}]
  BY DEF Sums, SumOn

\* The solution is the same whatever larger set it is solved on.
LEMMA SumUnique ==
  ASSUME NEW f, NEW S, IsFiniteSet(S), NEW g, Sums(f, g, S),
         NEW T, T \subseteq S, NEW h, Sums(f, h, T)
  PROVE  g[T] = h[T]
<1> DEFINE D == {s \in SUBSET T : g[s] = h[s]}
<1>1. IsFiniteSet(T)
  BY FS_Subset
<1>2. \A s \in SUBSET T : /\ g[s] = IF s = {} THEN 0 ELSE f[Pick(s)] + g[s \ {Pick(s)}]
                          /\ h[s] = IF s = {} THEN 0 ELSE f[Pick(s)] + h[s \ {Pick(s)}]
  BY SumsAt
<1>3. {} \in D
  BY <1>2
<1>4. ASSUME NEW s \in SUBSET T, s # {}, \A x \in s : s \ {x} \in D PROVE s \in D
  <2>1. s \ {Pick(s)} \in D
    BY <1>4, PickIn
  <2> QED BY <1>2, <1>4, <2>1
<1> HIDE DEF D
<1>5. SUBSET T \subseteq D
  BY <1>1, <1>3, <1>4, SubsetInduction
<1>6. T \in D
  BY <1>5
<1> QED BY <1>6 DEF D

----------------------------------------------------------------------------
(* Sums. *)

\* The empty sum is 0.
LEMMA SumEmpty == ASSUME NEW f PROVE SumFunctionOnSet(f, {}) = 0
<1>1. PICK g : Sums(f, g, {}) /\ SumFunctionOnSet(f, {}) = g[{}]
  BY SumDefined, FS_EmptySet
<1> QED BY <1>1, SumsAt

\* The recursion, for SumFunctionOnSet itself.
LEMMA SumPick ==
  ASSUME NEW f, NEW S, IsFiniteSet(S), S # {}
  PROVE  SumFunctionOnSet(f, S) = f[Pick(S)] + SumFunctionOnSet(f, S \ {Pick(S)})
<1> DEFINE T == S \ {Pick(S)}
<1>1. PICK g : Sums(f, g, S) /\ SumFunctionOnSet(f, S) = g[S]
  BY SumDefined
<1>2. T \subseteq S /\ IsFiniteSet(T)
  BY FS_Subset
<1>3. PICK h : Sums(f, h, T) /\ SumFunctionOnSet(f, T) = h[T]
  BY <1>2, SumDefined
<1>4. g[S] = f[Pick(S)] + g[T]
  BY <1>1, SumsAt
<1> HIDE DEF T
<1>5. g[T] = h[T]
  BY <1>1, <1>2, <1>3, SumUnique
<1> QED BY <1>1, <1>3, <1>4, <1>5 DEF T

\* A sum of integers is an integer.
LEMMA SumInt ==
  ASSUME NEW f, NEW S, IsFiniteSet(S), \A x \in S : f[x] \in Int
  PROVE  SumFunctionOnSet(f, S) \in Int
<1> DEFINE D == {s \in SUBSET S : SumFunctionOnSet(f, s) \in Int}
<1>1. {} \in D
  BY SumEmpty
<1>2. ASSUME NEW s \in SUBSET S, s # {}, \A x \in s : s \ {x} \in D PROVE s \in D
  <2>1. Pick(s) \in s /\ IsFiniteSet(s)
    BY <1>2, PickIn, FS_Subset
  <2>2. SumFunctionOnSet(f, s) = f[Pick(s)] + SumFunctionOnSet(f, s \ {Pick(s)})
    BY <1>2, <2>1, SumPick
  <2> QED BY <1>2, <2>1, <2>2
<1> HIDE DEF D
<1>3. S \in D
  BY <1>1, <1>2, SubsetInduction
<1> QED BY <1>3 DEF D

\* A sum depends only on the values it adds up.
LEMMA SumSame ==
  ASSUME NEW f, NEW g, NEW S, IsFiniteSet(S), \A x \in S : f[x] = g[x]
  PROVE  SumFunctionOnSet(f, S) = SumFunctionOnSet(g, S)
<1> DEFINE D == {s \in SUBSET S : SumFunctionOnSet(f, s) = SumFunctionOnSet(g, s)}
<1>1. {} \in D
  BY SumEmpty
<1>2. ASSUME NEW s \in SUBSET S, s # {}, \A x \in s : s \ {x} \in D PROVE s \in D
  <2>1. Pick(s) \in s /\ IsFiniteSet(s)
    BY <1>2, PickIn, FS_Subset
  <2>2. /\ SumFunctionOnSet(f, s) = f[Pick(s)] + SumFunctionOnSet(f, s \ {Pick(s)})
        /\ SumFunctionOnSet(g, s) = g[Pick(s)] + SumFunctionOnSet(g, s \ {Pick(s)})
    BY <1>2, <2>1, SumPick
  <2> QED BY <1>2, <2>1, <2>2
<1> HIDE DEF D
<1>3. S \in D
  BY <1>1, <1>2, SubsetInduction
<1> QED BY <1>3 DEF D

\* Any element may be taken out of a sum.
LEMMA SumRemove ==
  ASSUME NEW f, NEW S, IsFiniteSet(S), \A x \in S : f[x] \in Int, NEW y \in S
  PROVE  SumFunctionOnSet(f, S) = f[y] + SumFunctionOnSet(f, S \ {y})
<1> DEFINE D == {s \in SUBSET S : \A z \in s : SumFunctionOnSet(f, s) = f[z] + SumFunctionOnSet(f, s \ {z})}
<1>1. {} \in D
  OBVIOUS
<1>2. ASSUME NEW s \in SUBSET S, s # {}, \A x \in s : s \ {x} \in D PROVE s \in D
  <2> DEFINE p == Pick(s)
  <2>1. p \in s /\ IsFiniteSet(s)
    BY <1>2, PickIn, FS_Subset
  <2>2. SumFunctionOnSet(f, s) = f[p] + SumFunctionOnSet(f, s \ {p})
    BY <1>2, <2>1, SumPick
  <2> HIDE DEF p
  <2>3. ASSUME NEW z \in s, z # p PROVE SumFunctionOnSet(f, s) = f[z] + SumFunctionOnSet(f, s \ {z})
    <3>1. s \ {p} \in D /\ s \ {z} \in D
      BY <1>2, <2>1
    <3>2. SumFunctionOnSet(f, s \ {p}) = f[z] + SumFunctionOnSet(f, (s \ {p}) \ {z})
      BY <2>3, <3>1
    <3>3. SumFunctionOnSet(f, s \ {z}) = f[p] + SumFunctionOnSet(f, (s \ {z}) \ {p})
      BY <2>1, <2>3, <3>1
    <3>4. (s \ {p}) \ {z} = (s \ {z}) \ {p}
      OBVIOUS
    <3>5. SumFunctionOnSet(f, (s \ {p}) \ {z}) \in Int
      <4>1. IsFiniteSet((s \ {p}) \ {z})
        BY <2>1, FS_RemoveElement
      <4> QED BY <4>1, SumInt
    <3>6. f[z] \in Int /\ f[p] \in Int
      BY <2>1, <2>3
    <3> DEFINE r == SumFunctionOnSet(f, (s \ {p}) \ {z})
    <3>7. SumFunctionOnSet(f, s \ {p}) = f[z] + r /\ SumFunctionOnSet(f, s \ {z}) = f[p] + r /\ r \in Int
      BY <3>2, <3>3, <3>4, <3>5
    <3> HIDE DEF r
    <3>8. SumFunctionOnSet(f, s) = f[p] + (f[z] + r)
      BY <2>2, <3>7
    <3>9. f[p] + (f[z] + r) = f[z] + (f[p] + r)
      BY <3>6, <3>7
    <3> QED BY <3>7, <3>8, <3>9, Zenon
  <2> QED BY <2>2, <2>3
<1> HIDE DEF D
<1>3. S \in D
  BY <1>1, <1>2, SubsetInduction
<1> QED BY <1>3 DEF D

\* ... or added to it.
LEMMA SumAdd ==
  ASSUME NEW f, NEW S, IsFiniteSet(S), NEW y, y \notin S, \A x \in S \cup {y} : f[x] \in Int
  PROVE  SumFunctionOnSet(f, S \cup {y}) = SumFunctionOnSet(f, S) + f[y]
<1>1. IsFiniteSet(S \cup {y}) /\ (S \cup {y}) \ {y} = S
  BY FS_AddElement
<1>2. SumFunctionOnSet(f, S \cup {y}) = f[y] + SumFunctionOnSet(f, S)
  BY <1>1, SumRemove
<1>3. SumFunctionOnSet(f, S) \in Int /\ f[y] \in Int
  BY SumInt
<1> QED BY <1>2, <1>3

\* A sum of natural numbers is one.
LEMMA SumNat ==
  ASSUME NEW f, NEW S, IsFiniteSet(S), \A x \in S : f[x] \in Nat
  PROVE  SumFunctionOnSet(f, S) \in Nat
<1> DEFINE D == {s \in SUBSET S : SumFunctionOnSet(f, s) \in Nat}
<1>1. {} \in D
  BY SumEmpty
<1>2. ASSUME NEW s \in SUBSET S, s # {}, \A x \in s : s \ {x} \in D PROVE s \in D
  <2>1. Pick(s) \in s /\ IsFiniteSet(s)
    BY <1>2, PickIn, FS_Subset
  <2>2. SumFunctionOnSet(f, s) = f[Pick(s)] + SumFunctionOnSet(f, s \ {Pick(s)})
    BY <1>2, <2>1, SumPick
  <2> QED BY <1>2, <2>1, <2>2
<1> HIDE DEF D
<1>3. S \in D
  BY <1>1, <1>2, SubsetInduction
<1> QED BY <1>3 DEF D

\* One summand is at most the sum of natural numbers it belongs to.
LEMMA SumCovers ==
  ASSUME NEW f, NEW S, IsFiniteSet(S), \A x \in S : f[x] \in Nat, NEW y \in S
  PROVE  f[y] =< SumFunctionOnSet(f, S)
<1>1. SumFunctionOnSet(f, S) = f[y] + SumFunctionOnSet(f, S \ {y})
  BY SumRemove
<1>2. SumFunctionOnSet(f, S \ {y}) \in Nat
  BY FS_RemoveElement, SumNat
<1> QED BY <1>1, <1>2

\* A sum of natural numbers over fewer elements is no larger.
LEMMA SumSubset ==
  ASSUME NEW f, NEW S, IsFiniteSet(S), \A x \in S : f[x] \in Nat, NEW T, T \subseteq S
  PROVE  SumFunctionOnSet(f, T) =< SumFunctionOnSet(f, S)
<1> DEFINE D == {s \in SUBSET S : SumFunctionOnSet(f, s \cap T) =< SumFunctionOnSet(f, s)}
<1>1. {} \in D
  <2>1. {} \cap T = {}
    OBVIOUS
  <2> QED BY <2>1, SumEmpty
<1>2. ASSUME NEW s \in SUBSET S, s # {}, \A x \in s : s \ {x} \in D PROVE s \in D
  <2>1. PICK p \in s : TRUE
    BY <1>2
  <2>2. IsFiniteSet(s) /\ IsFiniteSet(s \cap T) /\ IsFiniteSet(s \ {p}) /\ IsFiniteSet((s \ {p}) \cap T)
    BY FS_Subset
  <2>3. /\ f[p] \in Nat /\ SumFunctionOnSet(f, s \ {p}) \in Nat
        /\ SumFunctionOnSet(f, (s \ {p}) \cap T) \in Nat
    BY <2>2, SumNat
  <2>4. SumFunctionOnSet(f, s) = f[p] + SumFunctionOnSet(f, s \ {p})
    BY <2>2, SumRemove
  <2>5. SumFunctionOnSet(f, (s \ {p}) \cap T) =< SumFunctionOnSet(f, s \ {p})
    BY <1>2
  <2>6. CASE p \in T
    <3>1. p \in s \cap T /\ (s \cap T) \ {p} = (s \ {p}) \cap T
      BY <2>6
    <3>2. SumFunctionOnSet(f, s \cap T) = f[p] + SumFunctionOnSet(f, (s \cap T) \ {p})
      BY <2>2, <3>1, SumRemove
    <3>3. SumFunctionOnSet(f, s \cap T) = f[p] + SumFunctionOnSet(f, (s \ {p}) \cap T)
      BY <3>1, <3>2, Zenon
    <3> QED BY <2>3, <2>4, <2>5, <3>3
  <2>7. CASE p \notin T
    <3>1. s \cap T = (s \ {p}) \cap T
      BY <2>7
    <3>2. SumFunctionOnSet(f, s \cap T) = SumFunctionOnSet(f, (s \ {p}) \cap T)
      BY <3>1, Zenon
    <3> QED BY <2>3, <2>4, <2>5, <3>2
  <2> QED BY <2>6, <2>7
<1> HIDE DEF D
<1>3. S \in D
  BY <1>1, <1>2, SubsetInduction
<1>4. S \cap T = T
  OBVIOUS
<1> QED BY <1>3, <1>4 DEF D

\* One summand changes.
LEMMA SumUpdate ==
  ASSUME NEW f, NEW g, NEW S, IsFiniteSet(S), \A x \in S : f[x] \in Int /\ g[x] \in Int, NEW y \in S,
         \A x \in S : x # y => g[x] = f[x]
  PROVE  SumFunctionOnSet(g, S) = SumFunctionOnSet(f, S) - f[y] + g[y]
<1>1. SumFunctionOnSet(f, S) = f[y] + SumFunctionOnSet(f, S \ {y})
  BY SumRemove
<1>2. SumFunctionOnSet(g, S) = g[y] + SumFunctionOnSet(g, S \ {y})
  BY SumRemove
<1>3. IsFiniteSet(S \ {y}) /\ \A x \in S \ {y} : g[x] = f[x]
  BY FS_RemoveElement
<1>4. SumFunctionOnSet(g, S \ {y}) = SumFunctionOnSet(f, S \ {y})
  BY <1>3, SumSame
<1>5. SumFunctionOnSet(f, S \ {y}) \in Int /\ f[y] \in Int /\ g[y] \in Int
  BY <1>3, SumInt
<1> QED BY <1>1, <1>2, <1>4, <1>5

\* Sums are added term by term.
LEMMA SumPlus ==
  ASSUME NEW f, NEW g, NEW h, NEW S, IsFiniteSet(S),
         \A x \in S : f[x] \in Int /\ g[x] \in Int /\ h[x] = f[x] + g[x]
  PROVE  SumFunctionOnSet(h, S) = SumFunctionOnSet(f, S) + SumFunctionOnSet(g, S)
<1> DEFINE D == {s \in SUBSET S : SumFunctionOnSet(h, s) = SumFunctionOnSet(f, s) + SumFunctionOnSet(g, s)}
<1>1. {} \in D
  BY SumEmpty
<1>2. ASSUME NEW s \in SUBSET S, s # {}, \A x \in s : s \ {x} \in D PROVE s \in D
  <2> DEFINE p == Pick(s)
             T == s \ {p}
  <2>1. p \in s /\ IsFiniteSet(s) /\ IsFiniteSet(T)
    BY <1>2, PickIn, FS_Subset
  <2>2. /\ SumFunctionOnSet(f, s) = f[p] + SumFunctionOnSet(f, T)
        /\ SumFunctionOnSet(g, s) = g[p] + SumFunctionOnSet(g, T)
        /\ SumFunctionOnSet(h, s) = h[p] + SumFunctionOnSet(h, T)
    BY <1>2, <2>1, SumPick
  <2>3. SumFunctionOnSet(h, T) = SumFunctionOnSet(f, T) + SumFunctionOnSet(g, T)
    BY <1>2, <2>1
  <2>4. f[p] \in Int /\ g[p] \in Int /\ h[p] = f[p] + g[p]
    BY <2>1
  <2>5. \A x \in T : f[x] \in Int /\ g[x] \in Int
    OBVIOUS
  <2> HIDE DEF p, T
  <2>6. SumFunctionOnSet(f, T) \in Int /\ SumFunctionOnSet(g, T) \in Int
    BY <2>1, <2>5, SumInt
  <2>7. SumFunctionOnSet(h, s) = SumFunctionOnSet(f, s) + SumFunctionOnSet(g, s)
    BY <2>2, <2>3, <2>4, <2>6
  <2> QED BY <2>7
<1> HIDE DEF D
<1>3. SUBSET S \subseteq D
  BY <1>1, <1>2, SubsetInduction
<1>4. S \in D
  BY <1>3
<1> QED BY <1>4 DEF D

\* Larger summands have no smaller sum.
LEMMA SumBelow ==
  ASSUME NEW f, NEW g, NEW S, IsFiniteSet(S), \A x \in S : f[x] \in Nat /\ g[x] \in Nat /\ f[x] =< g[x]
  PROVE  SumFunctionOnSet(f, S) =< SumFunctionOnSet(g, S)
<1> DEFINE d == [x \in S |-> g[x] - f[x]]
<1>1. \A x \in S : d[x] \in Nat /\ f[x] \in Int /\ d[x] \in Int /\ g[x] = f[x] + d[x]
  OBVIOUS
<1> HIDE DEF d
<1>2. SumFunctionOnSet(g, S) = SumFunctionOnSet(f, S) + SumFunctionOnSet(d, S)
  BY <1>1, SumPlus
<1>3. SumFunctionOnSet(d, S) \in Nat /\ SumFunctionOnSet(f, S) \in Nat
  BY <1>1, SumNat
<1> QED BY <1>2, <1>3

\* Nothing adds up to nothing.
LEMMA SumZero ==
  ASSUME NEW f, NEW S, IsFiniteSet(S), \A x \in S : f[x] = 0
  PROVE  SumFunctionOnSet(f, S) = 0
<1>1. \A x \in S : f[x] \in Int /\ f[x] = f[x] + f[x]
  OBVIOUS
<1>2. SumFunctionOnSet(f, S) = SumFunctionOnSet(f, S) + SumFunctionOnSet(f, S)
  BY <1>1, SumPlus
<1>3. SumFunctionOnSet(f, S) \in Int
  BY <1>1, SumInt
<1>4. \A z \in Int : z = z + z => z = 0
  OBVIOUS
<1> QED BY <1>2, <1>3, <1>4

\* Elements that count nothing may be added.
LEMMA SumExtend ==
  ASSUME NEW f, NEW g, NEW S, IsFiniteSet(S), NEW T, T \subseteq S, \A x \in T : f[x] \in Int /\ g[x] = f[x],
         \A x \in S : x \notin T => g[x] = 0
  PROVE  SumFunctionOnSet(g, S) = SumFunctionOnSet(f, T)
<1> DEFINE D == {s \in SUBSET S : SumFunctionOnSet(g, s) = SumFunctionOnSet(f, s \cap T)}
<1>1. {} \in D
  <2>1. {} \cap T = {}
    OBVIOUS
  <2> QED BY <2>1, SumEmpty
<1>2. ASSUME NEW s \in SUBSET S, s # {}, \A x \in s : s \ {x} \in D PROVE s \in D
  <2>1. PICK p \in s : TRUE
    BY <1>2
  <2>2. IsFiniteSet(s) /\ IsFiniteSet(s \cap T) /\ IsFiniteSet(s \ {p}) /\ IsFiniteSet((s \ {p}) \cap T)
    BY FS_Subset
  <2>3. /\ g[p] \in Int /\ \A x \in s : g[x] \in Int
        /\ SumFunctionOnSet(f, (s \ {p}) \cap T) \in Int
    BY <2>2, SumInt
  <2>4. SumFunctionOnSet(g, s) = g[p] + SumFunctionOnSet(g, s \ {p})
    BY <2>2, <2>3, SumRemove
  <2>5. SumFunctionOnSet(g, s \ {p}) = SumFunctionOnSet(f, (s \ {p}) \cap T)
    BY <1>2
  <2>6. CASE p \in T
    <3>1. p \in s \cap T /\ (s \cap T) \ {p} = (s \ {p}) \cap T /\ \A x \in s \cap T : f[x] \in Int
      BY <2>6
    <3>2. SumFunctionOnSet(f, s \cap T) = f[p] + SumFunctionOnSet(f, (s \cap T) \ {p})
      BY <2>2, <3>1, SumRemove
    <3>3. SumFunctionOnSet(f, s \cap T) = f[p] + SumFunctionOnSet(f, (s \ {p}) \cap T) /\ g[p] = f[p]
      BY <2>6, <3>1, <3>2, Zenon
    <3> QED BY <2>3, <2>4, <2>5, <3>3
  <2>7. CASE p \notin T
    <3>1. s \cap T = (s \ {p}) \cap T /\ g[p] = 0
      BY <2>7
    <3>2. SumFunctionOnSet(f, s \cap T) = SumFunctionOnSet(f, (s \ {p}) \cap T)
      BY <3>1, Zenon
    <3> QED BY <2>3, <2>4, <2>5, <3>1, <3>2
  <2> QED BY <2>6, <2>7
<1> HIDE DEF D
<1>3. S \in D
  BY <1>1, <1>2, SubsetInduction
<1>4. S \cap T = T
  OBVIOUS
<1> QED BY <1>3, <1>4 DEF D

\* One element takes what others give, and the sum stays.
LEMMA SumMoved ==
  ASSUME NEW f, NEW g, NEW q, NEW S, IsFiniteSet(S), NEW T, T \subseteq S, NEW b \in S, b \notin T,
         \A x \in S : f[x] \in Int /\ g[x] \in Int, \A x \in T : q[x] \in Int /\ g[x] = f[x] - q[x],
         g[b] = f[b] + SumFunctionOnSet(q, T), \A x \in S : x \notin T /\ x # b => g[x] = f[x]
  PROVE  SumFunctionOnSet(g, S) = SumFunctionOnSet(f, S)
<1> DEFINE t == SumFunctionOnSet(q, T)
           given == [x \in S |-> IF x \in T THEN q[x] ELSE 0]
           taken == [x \in S |-> IF x = b THEN t ELSE 0]
           none == [x \in S |-> 0]
           both == [x \in S |-> g[x] + given[x]]
<1>1. t \in Int
  BY FS_Subset, SumInt
<1>2. SumFunctionOnSet(given, S) = t
  <2>1. \A x \in T : q[x] \in Int /\ given[x] = q[x]
    OBVIOUS
  <2>2. \A x \in S : x \notin T => given[x] = 0
    OBVIOUS
  <2> HIDE DEF given
  <2> QED BY <2>1, <2>2, SumExtend
<1>3. SumFunctionOnSet(taken, S) = t
  <2>1. \A x \in S : none[x] = 0 /\ (x # b => taken[x] = none[x])
    OBVIOUS
  <2>2. taken[b] = t
    OBVIOUS
  <2>3. SumFunctionOnSet(none, S) = 0
    <3> HIDE DEF none
    <3> QED BY <2>1, SumZero
  <2>4. \A x \in S : none[x] \in Int /\ taken[x] \in Int
    BY <1>1
  <2> HIDE DEF none, taken, t
  <2>5. SumFunctionOnSet(taken, S) = SumFunctionOnSet(none, S) - none[b] + taken[b]
    BY <2>1, <2>4, SumUpdate
  <2> QED BY <1>1, <2>1, <2>2, <2>3, <2>5
<1>4. \A x \in S : /\ given[x] \in Int /\ taken[x] \in Int
                   /\ both[x] = g[x] + given[x] /\ both[x] = f[x] + taken[x]
  BY <1>1
<1> HIDE DEF given, taken, both, none, t
<1>5. SumFunctionOnSet(both, S) = SumFunctionOnSet(g, S) + SumFunctionOnSet(given, S)
  BY <1>4, SumPlus
<1>6. SumFunctionOnSet(both, S) = SumFunctionOnSet(f, S) + SumFunctionOnSet(taken, S)
  BY <1>4, SumPlus
<1>7. SumFunctionOnSet(f, S) \in Int /\ SumFunctionOnSet(g, S) \in Int
  BY SumInt
<1>8. SumFunctionOnSet(g, S) + t = SumFunctionOnSet(f, S) + t
  BY <1>2, <1>3, <1>5, <1>6, Zenon
<1>9. \A x, y, z \in Int : x + z = y + z => x = y
  OBVIOUS
<1> QED BY <1>1, <1>7, <1>8, <1>9
============================================================================
