------------------------ MODULE ForceDistributionProofs ------------------------
(***************************************************************************)
(* Proofs about ForceDistribution, for every number of actuators, all      *)
(* tables, samples, limits and delays that DistributionAssumption admits.  *)
(***************************************************************************)
EXTENDS ForceDistribution, FiniteSetTheorems, WellFoundedInduction, TLAPS

-----------------------------------------------------------------------------
(* Sums over finite sets. *)

\* What the recursive function behind Sum is, for any set.
First(s) == CHOOSE i \in s : TRUE
Sums(axis, forces, S, g) ==
    g = [s \in SUBSET S |-> IF s = {} THEN 0 ELSE forces[<<axis, First(s)>>] + g[s \ {First(s)}]]

\* A property that holds of a finite set if it holds of all smaller ones holds of all: no set of
\* finite sets, those that lack the property, is without a least one.
LEMMA LeastFiniteSet ==
  ASSUME NEW S, NEW T \in SUBSET FiniteSubsetsOf(S), T # {}
  PROVE  \E U \in T : \A x \in U : U \ {x} \notin T
<1>1. IsWellFoundedOn(StrictSubsetOrdering(S), FiniteSubsetsOf(S))
  BY FS_StrictSubsetOrderingWellFounded
<1>2. PICK U \in T : \A V \in T : ~(<<V, U>> \in StrictSubsetOrdering(S))
  BY <1>1, WFMin
<1>3. ASSUME NEW x \in U
      PROVE  <<U \ {x}, U>> \in StrictSubsetOrdering(S)
  BY FS_RemoveElement DEF FiniteSubsetsOf, StrictSubsetOrdering
<1> QED BY <1>2, <1>3

LEMMA FirstFacts ==
  ASSUME NEW s, s # {}
  PROVE  First(s) \in s
BY DEF First

\* Two such functions agree on the finite sets both are defined on.
LEMMA SumsAgree ==
  ASSUME NEW axis, NEW forces, NEW S, NEW R, NEW g, NEW h,
         Sums(axis, forces, S, g), Sums(axis, forces, R, h),
         NEW U \in SUBSET S, U \in SUBSET R, IsFiniteSet(U)
  PROVE  g[U] = h[U]
<1> DEFINE T == {V \in FiniteSubsetsOf(U) : g[V] # h[V]}
<1>1. SUFFICES ASSUME T # {} PROVE FALSE
  <2>1. U \in FiniteSubsetsOf(U)
    BY DEF FiniteSubsetsOf
  <2> QED BY <2>1
<1>2. PICK V \in T : \A x \in V : V \ {x} \notin T
  <2>1. T \in SUBSET FiniteSubsetsOf(U)
    OBVIOUS
  <2> HIDE DEF T
  <2> QED BY <1>1, <2>1, LeastFiniteSet
<1>3. V \in SUBSET U /\ IsFiniteSet(V) /\ g[V] # h[V]
  BY DEF FiniteSubsetsOf
<1>4. V \in SUBSET S /\ V \in SUBSET R
  BY <1>3
<1>5. CASE V = {}
  BY <1>3, <1>4, <1>5 DEF Sums
<1>6. CASE V # {}
  <2> DEFINE W == V \ {First(V)}
  <2>1. First(V) \in V
    BY <1>6, FirstFacts
  <2>2. W \in FiniteSubsetsOf(U)
    BY <1>3, FS_RemoveElement DEF FiniteSubsetsOf
  <2>3. g[W] = h[W]
    BY <1>2, <2>1, <2>2
  <2>4. g[V] = forces[<<axis, First(V)>>] + g[W]
    BY <1>4, <1>6 DEF Sums
  <2>5. h[V] = forces[<<axis, First(V)>>] + h[W]
    BY <1>4, <1>6 DEF Sums
  <2> QED BY <1>3, <2>3, <2>4, <2>5
<1> QED BY <1>5, <1>6

\* There is one for every finite set.
LEMMA SumsExist ==
  ASSUME NEW axis, NEW forces, NEW S, IsFiniteSet(S)
  PROVE  \E g : Sums(axis, forces, S, g)
<1> DEFINE T == {V \in FiniteSubsetsOf(S) : ~\E g : Sums(axis, forces, V, g)}
<1>1. SUFFICES ASSUME T # {} PROVE FALSE
  <2>1. S \in FiniteSubsetsOf(S)
    BY DEF FiniteSubsetsOf
  <2> QED BY <2>1
<1>2. PICK U \in T : \A x \in U : U \ {x} \notin T
  <2>1. T \in SUBSET FiniteSubsetsOf(S)
    OBVIOUS
  <2> HIDE DEF T
  <2> QED BY <1>1, <2>1, LeastFiniteSet
<1>3. U \in SUBSET S /\ IsFiniteSet(U) /\ ~\E g : Sums(axis, forces, U, g)
  BY DEF FiniteSubsetsOf
<1>4. \A x \in U : \E g : Sums(axis, forces, U \ {x}, g)
  <2>1. \A x \in U : U \ {x} \in FiniteSubsetsOf(S)
    BY <1>3, FS_RemoveElement DEF FiniteSubsetsOf
  <2> QED BY <1>2, <2>1
<1> DEFINE g(x) == CHOOSE h : Sums(axis, forces, U \ {x}, h)
           Rest(t) == g(CHOOSE x \in U : x \notin t)[t]
           G == [s \in SUBSET U |-> IF s = {} THEN 0 ELSE forces[<<axis, First(s)>>] + Rest(s \ {First(s)})]
<1>5. \A x \in U : Sums(axis, forces, U \ {x}, g(x))
  BY <1>4
<1>6. ASSUME NEW t \in SUBSET U, t # U
      PROVE  \E x \in U : x \notin t /\ Rest(t) = g(x)[t]
  <2>1. \E x \in U : x \notin t
    BY <1>6
  <2> QED BY <2>1
<1>7. ASSUME NEW t \in SUBSET U, t # U
      PROVE  Rest(t) = G[t]
  <2>1. PICK x \in U : x \notin t /\ Rest(t) = g(x)[t]
    BY <1>7, <1>6
  <2>2. Sums(axis, forces, U \ {x}, g(x)) /\ t \in SUBSET (U \ {x})
    BY <1>5, <2>1
  <2> HIDE DEF g, Rest
  <2>3. CASE t = {}
    BY <2>1, <2>2, <2>3 DEF Sums
  <2>4. CASE t # {}
    <3> DEFINE w == t \ {First(t)}
    <3>1. First(t) \in t
      BY <2>4, FirstFacts
    <3>2. g(x)[t] = forces[<<axis, First(t)>>] + g(x)[w]
      BY <2>2, <2>4 DEF Sums
    <3>3. w \in SUBSET U /\ w # U /\ w \in SUBSET (U \ {x}) /\ IsFiniteSet(w)
      BY <1>3, <2>2, <3>1, FS_Subset
    <3>4. PICK y \in U : y \notin w /\ Rest(w) = g(y)[w]
      BY <1>6, <3>3
    <3>5. Sums(axis, forces, U \ {y}, g(y)) /\ w \in SUBSET (U \ {y})
      BY <1>5, <3>3, <3>4
    <3>6. g(x)[w] = g(y)[w]
      <4> HIDE DEF w
      <4> QED BY <2>2, <3>3, <3>5, SumsAgree
    <3>7. G[t] = forces[<<axis, First(t)>>] + Rest(w)
      BY <2>4
    <3> QED BY <2>1, <3>2, <3>4, <3>6, <3>7
  <2> QED BY <2>3, <2>4
<1>8. ASSUME NEW s \in SUBSET U, s # {}
      PROVE  Rest(s \ {First(s)}) = G[s \ {First(s)}]
  <2>1. First(s) \in s
    BY <1>8, FirstFacts
  <2>2. s \ {First(s)} \in SUBSET U /\ s \ {First(s)} # U
    BY <2>1
  <2> HIDE DEF G, Rest
  <2> QED BY <1>7, <2>2
<1>9. G = [s \in SUBSET U |-> IF s = {} THEN 0 ELSE forces[<<axis, First(s)>>] + G[s \ {First(s)}]]
  <2>1. G = [s \in SUBSET U |-> IF s = {} THEN 0 ELSE forces[<<axis, First(s)>>] + Rest(s \ {First(s)})]
    OBVIOUS
  <2> HIDE DEF G, Rest
  <2> QED BY <1>8, <2>1
<1> HIDE DEF G
<1> QED BY <1>3, <1>9 DEF Sums

\* The sum of numbers is a number.
LEMMA SumType ==
  ASSUME NEW axis, NEW forces, NEW S, IsFiniteSet(S), \A i \in S : forces[<<axis, i>>] \in Int
  PROVE  Sum(axis, forces, S) \in Int
<1>1. PICK g : Sums(axis, forces, S, g) /\ Sum(axis, forces, S) = g[S]
  <2>1. PICK h : Sums(axis, forces, S, h)
    BY SumsExist
  <2> QED BY <2>1 DEF Sums, Sum, First, MapThenSumSet, MapThenFoldSet
<1> DEFINE T == {V \in FiniteSubsetsOf(S) : g[V] \notin Int}
<1>2. SUFFICES ASSUME T # {} PROVE FALSE
  <2>1. S \in FiniteSubsetsOf(S)
    BY DEF FiniteSubsetsOf
  <2> QED BY <1>1, <2>1
<1>3. PICK V \in T : \A x \in V : V \ {x} \notin T
  <2>1. T \in SUBSET FiniteSubsetsOf(S)
    OBVIOUS
  <2> HIDE DEF T
  <2> QED BY <1>2, <2>1, LeastFiniteSet
<1>4. V \in SUBSET S /\ IsFiniteSet(V) /\ g[V] \notin Int
  BY DEF FiniteSubsetsOf
<1>5. CASE V = {}
  BY <1>1, <1>4, <1>5 DEF Sums
<1>6. CASE V # {}
  <2>1. First(V) \in V
    BY <1>6, FirstFacts
  <2>2. V \ {First(V)} \in FiniteSubsetsOf(S)
    BY <1>4, FS_RemoveElement DEF FiniteSubsetsOf
  <2>3. g[V \ {First(V)}] \in Int
    BY <1>3, <2>1, <2>2
  <2>4. g[V] = forces[<<axis, First(V)>>] + g[V \ {First(V)}]
    BY <1>1, <1>4, <1>6 DEF Sums
  <2>5. forces[<<axis, First(V)>>] \in Int
    BY <1>4, <2>1
  <2> QED BY <1>4, <2>3, <2>4, <2>5
<1> QED BY <1>5, <1>6

\* The sum is that function's value, whatever larger set the function is for.
LEMMA SumIsTheirs ==
  ASSUME NEW axis, NEW forces, NEW R, NEW g, Sums(axis, forces, R, g), NEW S \in SUBSET R, IsFiniteSet(S)
  PROVE  Sum(axis, forces, S) = g[S]
<1>1. PICK h : Sums(axis, forces, S, h) /\ Sum(axis, forces, S) = h[S]
  <2>1. \E k : Sums(axis, forces, S, k)
    BY SumsExist
  <2> QED BY <2>1 DEF Sums, Sum, First, MapThenSumSet, MapThenFoldSet
<1> QED BY <1>1, SumsAgree

LEMMA SumFirst ==
  ASSUME NEW axis, NEW forces, NEW S, IsFiniteSet(S)
  PROVE  /\ S = {} => Sum(axis, forces, S) = 0
         /\ S # {} => Sum(axis, forces, S) = forces[<<axis, First(S)>>] + Sum(axis, forces, S \ {First(S)})
<1>1. PICK g : Sums(axis, forces, S, g)
  BY SumsExist
<1>2. Sum(axis, forces, S) = g[S] /\ Sum(axis, forces, S \ {First(S)}) = g[S \ {First(S)}]
  <2>1. S \in SUBSET S /\ S \ {First(S)} \in SUBSET S /\ IsFiniteSet(S \ {First(S)})
    BY FS_RemoveElement
  <2> QED BY <1>1, <2>1, SumIsTheirs
<1> QED BY <1>1, <1>2 DEF Sums

\* It does not matter which number is added first.
LEMMA SumOfOneAndTheOthers ==
  ASSUME NEW axis, NEW forces, NEW S, IsFiniteSet(S), \A i \in S : forces[<<axis, i>>] \in Int, NEW x \in S
  PROVE  Sum(axis, forces, S) = forces[<<axis, x>>] + Sum(axis, forces, S \ {x})
<1> DEFINE f(i) == forces[<<axis, i>>]
           sum(V) == Sum(axis, forces, V)
           T == {V \in FiniteSubsetsOf(S) : \E y \in V : sum(V) # f(y) + sum(V \ {y})}
<1>1. SUFFICES ASSUME T # {} PROVE FALSE
  <2>1. S \in FiniteSubsetsOf(S)
    BY DEF FiniteSubsetsOf
  <2> QED BY <2>1
<1>2. PICK V \in T : \A y \in V : V \ {y} \notin T
  <2>1. T \in SUBSET FiniteSubsetsOf(S)
    OBVIOUS
  <2> HIDE DEF T
  <2> QED BY <1>1, <2>1, LeastFiniteSet
<1>3. V \in SUBSET S /\ IsFiniteSet(V)
  BY DEF FiniteSubsetsOf
<1>4. PICK y \in V : sum(V) # f(y) + sum(V \ {y})
  BY <1>2
<1>5. ASSUME NEW u \in V, NEW v \in V \ {u}
      PROVE  sum(V \ {u}) = f(v) + sum((V \ {u}) \ {v})
  <2>1. V \ {u} \in FiniteSubsetsOf(S)
    BY <1>3, FS_RemoveElement DEF FiniteSubsetsOf
  <2> HIDE DEF sum, f
  <2> QED BY <1>2, <2>1
<1> DEFINE first == First(V)
<1>6. first \in V /\ sum(V) = f(first) + sum(V \ {first})
  BY <1>3, SumFirst, FirstFacts
<1>7. first # y
  <2> HIDE DEF sum, f, first
  <2> QED BY <1>4, <1>6
<1>8. sum(V \ {first}) = f(y) + sum((V \ {first}) \ {y})
  <2> HIDE DEF sum, f, first
  <2> QED BY <1>5, <1>6, <1>7
<1>9. sum(V \ {y}) = f(first) + sum((V \ {y}) \ {first})
  <2> HIDE DEF sum, f, first
  <2> QED BY <1>5, <1>6, <1>7
<1>10. sum((V \ {first}) \ {y}) = sum((V \ {y}) \ {first})
  <2>1. (V \ {first}) \ {y} = (V \ {y}) \ {first}
    OBVIOUS
  <2> QED BY ONLY <2>1, Zenon
<1>11. f(first) \in Int /\ f(y) \in Int /\ sum((V \ {y}) \ {first}) \in Int
  <2>1. IsFiniteSet((V \ {y}) \ {first}) /\ \A i \in (V \ {y}) \ {first} : forces[<<axis, i>>] \in Int
    BY <1>3, FS_RemoveElement
  <2>2. f(first) \in Int /\ f(y) \in Int
    <3> HIDE DEF first
    <3> QED BY <1>3, <1>6
  <2> QED BY <2>1, <2>2, SumType
<1> HIDE DEF sum, f, first
<1> QED BY <1>4, <1>6, <1>8, <1>9, <1>10, <1>11

\* A sum over two sets that have nothing in common.
LEMMA SumOfBoth ==
  ASSUME NEW axis, NEW forces, NEW S, NEW R \in SUBSET S, IsFiniteSet(S), \A i \in S : forces[<<axis, i>>] \in Int
  PROVE  Sum(axis, forces, S) = Sum(axis, forces, R) + Sum(axis, forces, S \ R)
<1> DEFINE sum(V) == Sum(axis, forces, V)
           T == {V \in FiniteSubsetsOf(R) : sum(V \union (S \ R)) # sum(V) + sum(S \ R)}
<1>0. IsFiniteSet(R) /\ IsFiniteSet(S \ R) /\ sum(S \ R) \in Int
  BY FS_Subset, SumType
<1>1. SUFFICES ASSUME T # {} PROVE FALSE
  <2>1. R \in FiniteSubsetsOf(R) /\ R \union (S \ R) = S
    BY <1>0 DEF FiniteSubsetsOf
  <2> HIDE DEF sum
  <2>2. sum(R \union (S \ R)) = sum(R) + sum(S \ R)
    BY <1>1, <2>1
  <2> QED BY <2>1, <2>2 DEF sum
<1>2. PICK V \in T : \A y \in V : V \ {y} \notin T
  <2>1. T \in SUBSET FiniteSubsetsOf(R)
    OBVIOUS
  <2> HIDE DEF T
  <2> QED BY <1>1, <2>1, LeastFiniteSet
<1>3. V \in SUBSET R /\ IsFiniteSet(V) /\ sum(V \union (S \ R)) # sum(V) + sum(S \ R)
  BY DEF FiniteSubsetsOf
<1>4. CASE V = {}
  <2>1. sum(V) = 0
    BY <1>3, <1>4, SumFirst
  <2>2. sum(V \union (S \ R)) = sum(S \ R)
    <3>1. V \union (S \ R) = S \ R
      BY <1>4
    <3> QED BY ONLY <3>1, Zenon
  <2> HIDE DEF sum
  <2> QED BY <1>0, <1>3, <2>1, <2>2
<1>5. ASSUME NEW x \in V PROVE FALSE
  <2> DEFINE W == V \ {x}
  <2>1. W \in FiniteSubsetsOf(R)
    BY <1>3, FS_RemoveElement DEF FiniteSubsetsOf
  <2>2. sum(W \union (S \ R)) = sum(W) + sum(S \ R)
    <3> HIDE DEF sum
    <3> QED BY <1>2, <2>1
  <2>3. sum(V) = forces[<<axis, x>>] + sum(W)
    BY <1>3, SumOfOneAndTheOthers
  <2>4. IsFiniteSet(V \union (S \ R)) /\ x \in V \union (S \ R) /\ (V \union (S \ R)) \ {x} = W \union (S \ R)
        /\ \A i \in V \union (S \ R) : forces[<<axis, i>>] \in Int
    BY <1>0, <1>3, FS_Union
  <2>5. sum(V \union (S \ R)) = forces[<<axis, x>>] + sum(W \union (S \ R))
    <3> HIDE DEF W
    <3>1. sum(V \union (S \ R)) = forces[<<axis, x>>] + sum((V \union (S \ R)) \ {x})
      BY <2>4, SumOfOneAndTheOthers
    <3> QED BY <2>4, <3>1, Zenon
  <2>6. sum(W) \in Int /\ forces[<<axis, x>>] \in Int
    BY <1>3, FS_RemoveElement, SumType
  <2> HIDE DEF sum, W
  <2> QED BY <1>0, <1>3, <2>2, <2>3, <2>4, <2>5, <2>6
<1> QED BY <1>4, <1>5

\* What is added to each is added as many times as there are.
LEMMA SumOfRaised ==
  ASSUME NEW axis, NEW forces, NEW raised, NEW k \in Int, NEW S, IsFiniteSet(S),
         \A i \in S : forces[<<axis, i>>] \in Int /\ raised[<<axis, i>>] = forces[<<axis, i>>] + k
  PROVE  Sum(axis, raised, S) = Sum(axis, forces, S) + Cardinality(S) * k
<1> DEFINE T == {V \in FiniteSubsetsOf(S) :
                    Sum(axis, raised, V) # Sum(axis, forces, V) + Cardinality(V) * k}
<1>1. SUFFICES ASSUME T # {} PROVE FALSE
  <2>1. S \in FiniteSubsetsOf(S)
    BY DEF FiniteSubsetsOf
  <2> QED BY <2>1
<1>2. PICK V \in T : \A y \in V : V \ {y} \notin T
  <2>1. T \in SUBSET FiniteSubsetsOf(S)
    OBVIOUS
  <2> HIDE DEF T
  <2> QED BY <1>1, <2>1, LeastFiniteSet
<1>3. V \in SUBSET S /\ IsFiniteSet(V) /\ Sum(axis, raised, V) # Sum(axis, forces, V) + Cardinality(V) * k
  BY DEF FiniteSubsetsOf
<1>4. CASE V = {}
  <2>1. Sum(axis, raised, V) = 0 /\ Sum(axis, forces, V) = 0 /\ Cardinality(V) = 0
    BY <1>4, SumFirst, FS_EmptySet
  <2> QED BY <1>3, <2>1
<1>5. CASE V # {}
  <2> DEFINE x == First(V)
             W == V \ {x}
  <2>1. x \in V
    BY <1>5, FirstFacts
  <2>2. W \in FiniteSubsetsOf(S) /\ W \in SUBSET S /\ IsFiniteSet(W)
    BY <1>3, FS_RemoveElement DEF FiniteSubsetsOf
  <2>3. Sum(axis, raised, W) = Sum(axis, forces, W) + Cardinality(W) * k
    BY <1>2, <2>1, <2>2
  <2>4. Sum(axis, raised, V) = raised[<<axis, x>>] + Sum(axis, raised, W)
        /\ Sum(axis, forces, V) = forces[<<axis, x>>] + Sum(axis, forces, W)
    BY <1>3, <1>5, SumFirst
  <2>5. Cardinality(V) \in Nat /\ Cardinality(W) = Cardinality(V) - 1
    BY <1>3, <2>1, FS_RemoveElement, FS_CardinalityType
  <2>6. Sum(axis, forces, W) \in Int
    BY <2>2, SumType
  <2>7. x \in S
    BY <1>3, <2>1
  <2>8. forces[<<axis, x>>] \in Int /\ raised[<<axis, x>>] = forces[<<axis, x>>] + k
    <3> HIDE DEF x
    <3> QED BY <2>7
  <2> DEFINE n == Cardinality(V)
  <2>9. (n - 1) * k + k = n * k
    <3> HIDE DEF n
    <3> QED BY <2>5, SMTT(30) DEF n
  <2>10. n * k \in Int /\ (n - 1) * k \in Int
    BY <2>5
  <2> HIDE DEF x, W
  <2> QED BY <1>3, <2>3, <2>4, <2>5, <2>6, <2>8, <2>9, <2>10
<1> QED BY <1>4, <1>5

\* As many numbers of a limited size make a sum of a limited size.
LEMMA SumOfLimited ==
  ASSUME NEW axis, NEW forces, NEW limit \in Nat, NEW S, IsFiniteSet(S),
         \A i \in S : forces[<<axis, i>>] \in -limit .. limit
  PROVE  Sum(axis, forces, S) \in -(Cardinality(S) * limit) .. Cardinality(S) * limit
<1> DEFINE T == {V \in FiniteSubsetsOf(S) :
                    Sum(axis, forces, V) \notin -(Cardinality(V) * limit) .. Cardinality(V) * limit}
<1>1. SUFFICES ASSUME T # {} PROVE FALSE
  <2>1. S \in FiniteSubsetsOf(S)
    BY DEF FiniteSubsetsOf
  <2> QED BY <2>1
<1>2. PICK V \in T : \A y \in V : V \ {y} \notin T
  <2>1. T \in SUBSET FiniteSubsetsOf(S)
    OBVIOUS
  <2> HIDE DEF T
  <2> QED BY <1>1, <2>1, LeastFiniteSet
<1>3. V \in SUBSET S /\ IsFiniteSet(V)
      /\ Sum(axis, forces, V) \notin -(Cardinality(V) * limit) .. Cardinality(V) * limit
  BY DEF FiniteSubsetsOf
<1>4. CASE V = {}
  <2>1. Sum(axis, forces, V) = 0 /\ Cardinality(V) = 0
    BY <1>4, SumFirst, FS_EmptySet
  <2>2. 0 * limit = 0
    OBVIOUS
  <2> QED BY <1>3, <2>1, <2>2
<1>5. CASE V # {}
  <2> DEFINE x == First(V)
             W == V \ {x}
             n == Cardinality(V)
  <2>1. x \in V
    BY <1>5, FirstFacts
  <2>2. W \in FiniteSubsetsOf(S) /\ W \in SUBSET S /\ IsFiniteSet(W)
    BY <1>3, FS_RemoveElement DEF FiniteSubsetsOf
  <2>3. Sum(axis, forces, W) \in -(Cardinality(W) * limit) .. Cardinality(W) * limit
    BY <1>2, <2>1, <2>2
  <2>4. Sum(axis, forces, V) = forces[<<axis, x>>] + Sum(axis, forces, W)
    BY <1>3, <1>5, SumFirst
  <2>5. n \in Nat /\ Cardinality(W) = n - 1
    BY <1>3, <2>1, FS_RemoveElement, FS_CardinalityType
  <2>6. x \in S
    BY <1>3, <2>1
  <2>7. forces[<<axis, x>>] \in -limit .. limit
    <3> HIDE DEF x
    <3> QED BY <2>6
  <2>8. (n - 1) * limit + limit = n * limit
    <3> HIDE DEF n
    <3> QED BY <2>5, SMTT(30) DEF n
  <2>9. n * limit \in Int /\ (n - 1) * limit \in Int
    BY <2>5
  <2> HIDE DEF x, W
  <2>10. Sum(axis, forces, V) \in -(n * limit) .. n * limit
    <3> HIDE DEF n
    <3> QED BY <2>3, <2>4, <2>5, <2>7, <2>8, <2>9
  <2> QED BY <1>3, <2>10
<1> QED BY <1>4, <1>5

-----------------------------------------------------------------------------
(* Places. *)

LEMMA ConstantFacts ==
  /\ Actuators \in Nat /\ Actuators > 0
  /\ MaxRateOfChange \in Nat /\ MaxRateOfChange > 0 /\ MaxDelay \in Nat /\ MaxDelay > 0
  /\ ForceLimit \in Nat /\ AppliedLimit \in Nat /\ CylinderLimit \in Nat /\ SettleTime \in Nat
  /\ MaxDisabled \in Nat /\ MaxChanges \in Nat
BY DistributionAssumption

\* An actuator has an index on the axes it acts on, and -1 on the others.
LEMMA IndexFacts ==
  ASSUME NEW axis \in Axes, NEW a \in FAs
  PROVE  /\ On(axis) \in SUBSET FAs
         /\ a \in On(axis) => Index[axis][a] \in 0 .. Actuators /\ <<axis, Index[axis][a]>> \in Places
         /\ a \notin On(axis) => Index[axis][a] = -1
<1>1. On(axis) \in SUBSET FAs
  BY DEF On
<1>2. IsFiniteSet(FAs) /\ Cardinality(FAs) = Actuators
  BY ConstantFacts, FS_Interval DEF FAs
<1> DEFINE before == {b \in On(axis) : b < a}
<1>3. Cardinality(before) \in 0 .. Actuators
  <2>1. before \in SUBSET FAs
    BY <1>1
  <2>2. IsFiniteSet(before) /\ Cardinality(before) <= Cardinality(FAs)
    BY <1>2, <2>1, FS_Subset
  <2>3. Cardinality(before) \in Nat
    BY <2>2, FS_CardinalityType
  <2> QED BY <1>2, <2>2, <2>3, ConstantFacts
<1>4. Index[axis][a] = IF a \in On(axis) THEN Cardinality(before) ELSE -1
  BY DEF Index
<1>5. a \in On(axis) => <<axis, Index[axis][a]>> \in Places
  BY DEF Places
<1> HIDE DEF before
<1> QED BY <1>1, <1>3, <1>4, <1>5

LEMMA PlaceFacts ==
  ASSUME NEW p \in Places
  PROVE  /\ p = <<p[1], p[2]>> /\ p[1] \in Axes /\ p[2] \in 0 .. Actuators
         /\ ActuatorAt[p] \in On(p[1]) /\ ActuatorAt[p] \in FAs /\ Index[p[1]][ActuatorAt[p]] = p[2]
<1>0. PICK axis \in Axes : p \in {<<axis, Index[axis][a]>> : a \in On(axis)}
  BY DEF Places
<1>1. PICK a \in On(axis) : p = <<axis, Index[axis][a]>>
  BY <1>0
<1>2. a \in FAs /\ Index[axis][a] \in 0 .. Actuators
  BY IndexFacts DEF On
<1>3. p = <<p[1], p[2]>> /\ p[1] = axis /\ p[2] = Index[axis][a]
  BY <1>1
<1>4. ActuatorAt[p] \in On(p[1]) /\ Index[p[1]][ActuatorAt[p]] = p[2]
  BY <1>1, <1>3 DEF ActuatorAt
<1>5. ActuatorAt[p] \in FAs
  BY <1>3, <1>4 DEF On
<1> QED BY <1>2, <1>3, <1>4, <1>5

LEMMA PlacesFinite == IsFiniteSet(Places) /\ Places # {}
<1>1. IsFiniteSet(Axes)
  <2>1. IsFiniteSet({} \union {"x"})
    BY FS_EmptySet, FS_AddElement
  <2>2. IsFiniteSet({} \union {"x"} \union {"y"})
    BY <2>1, FS_AddElement
  <2>3. IsFiniteSet({} \union {"x"} \union {"y"} \union {"z"})
    BY <2>2, FS_AddElement
  <2>4. Axes = {} \union {"x"} \union {"y"} \union {"z"}
    BY DEF Axes
  <2> QED BY <2>3, <2>4
<1>2. IsFiniteSet(0 .. Actuators)
  BY ConstantFacts, FS_Interval
<1>3. IsFiniteSet(Axes \X (0 .. Actuators))
  BY <1>1, <1>2, FS_Product
<1>4. Places \in SUBSET (Axes \X (0 .. Actuators))
  BY PlaceFacts
<1>5. 0 \in FAs /\ "z" \in Axes /\ On("z") = FAs
  BY ConstantFacts DEF FAs, Axes, On
<1>6. <<"z", Index["z"][0]>> \in Places
  BY <1>5, IndexFacts
<1> QED BY <1>3, <1>4, <1>6, FS_Subset

LEMMA AtFacts ==
  ASSUME NEW forces \in Forces, NEW axis \in Axes, NEW a \in FAs
  PROVE  At(forces, axis, a) \in Int
BY IndexFacts DEF At, Forces

\* The largest of finitely many numbers.
LEMMA LargestAt ==
  ASSUME NEW S, IsFiniteSet(S), S # {}, NEW w \in [S -> Int]
  PROVE  \E x \in S : \A y \in S : w[x] >= w[y]
<1> DEFINE T == {V \in FiniteSubsetsOf(S) : V # {} /\ ~\E x \in V : \A y \in V : w[x] >= w[y]}
<1>1. SUFFICES ASSUME T # {} PROVE FALSE
  <2>1. S \in FiniteSubsetsOf(S)
    BY DEF FiniteSubsetsOf
  <2> QED BY <2>1
<1>2. PICK V \in T : \A x \in V : V \ {x} \notin T
  <2>1. T \in SUBSET FiniteSubsetsOf(S)
    OBVIOUS
  <2> HIDE DEF T
  <2> QED BY <1>1, <2>1, LeastFiniteSet
<1>3. V \in SUBSET S /\ IsFiniteSet(V) /\ V # {} /\ ~\E x \in V : \A y \in V : w[x] >= w[y]
  BY DEF FiniteSubsetsOf
<1>4. PICK x \in V : V \ {x} \notin T
  BY <1>2, <1>3
<1> DEFINE U == V \ {x}
<1>5. U = {} \/ \E m \in U : \A y \in U : w[m] >= w[y]
  <2>1. U \in FiniteSubsetsOf(S)
    BY <1>3, FS_RemoveElement DEF FiniteSubsetsOf
  <2> QED BY <1>4, <2>1
<1>6. \A y \in V : w[y] \in Int
  BY <1>3
<1>7. CASE U = {}
  BY <1>3, <1>6, <1>7
<1>8. CASE \E m \in U : \A y \in U : w[m] >= w[y]
  <2>1. PICK m \in U : \A y \in U : w[m] >= w[y]
    BY <1>8
  <2>2. CASE w[m] >= w[x]
    BY <1>3, <2>1, <2>2
  <2>3. CASE ~(w[m] >= w[x])
    BY <1>3, <1>6, <2>1, <2>3
  <2> QED BY <2>2, <2>3
<1> QED BY <1>5, <1>7, <1>8

-----------------------------------------------------------------------------
(* Ramps and limits. *)

\* The part of a distance that is covered when the largest takes one step.
Part(n, largest) == IF n < 0 THEN -((-n * MaxRateOfChange) \div largest)
                             ELSE (n * MaxRateOfChange) \div largest

\* Parts of distances are rounded down: never does that leave more than the largest has left.
LEMMA DivisionFacts ==
  ASSUME NEW n \in Nat, NEW largest \in Nat, NEW step \in Nat \ {0}, step < largest, n <= largest
  PROVE  LET k == (n * step) \div largest IN
         k \in Nat /\ k <= n /\ n - k <= largest - step /\ (n = largest => k = step)
<1> DEFINE k == (n * step) \div largest
           product == n * step
<1>1. product \in Nat
  OBVIOUS
<1>2. k \in Nat /\ k * largest <= product /\ product < (k + 1) * largest
  <2>1. k = product \div largest
    OBVIOUS
  <2> HIDE DEF product, k
  <2> QED BY <1>1, <2>1, SMTT(30)
<1>3. product <= n * largest
  BY SMTT(30)
<1>4. k <= n
  <2> HIDE DEF k, product
  <2>1. SUFFICES ASSUME k >= n + 1 PROVE FALSE
    BY <1>2
  <2>2. k * largest >= (n + 1) * largest
    BY <1>2, <2>1, SMTT(30)
  <2>3. (n + 1) * largest = n * largest + largest
    BY SMTT(30)
  <2>4. k * largest \in Int /\ (n + 1) * largest \in Int /\ n * largest \in Int
    BY <1>2
  <2> QED BY ONLY <1>1, <1>2, <1>3, <2>2, <2>3, <2>4, largest \in Nat
<1>5. n - k <= largest - step
  <2> DEFINE d == largest - n
  <2>1. d \in Nat /\ product = largest * step - d * step /\ d * step <= d * largest
    BY SMTT(30)
  <2>2. SUFFICES ASSUME k + 1 <= step - d PROVE FALSE
    <3> HIDE DEF k
    <3> QED BY <1>2
  <2> HIDE DEF k, product, d
  <2>3. (k + 1) * largest <= (step - d) * largest
    BY <1>2, <2>1, <2>2, SMTT(30)
  <2>4. (step - d) * largest = largest * step - d * largest
    BY <2>1, SMTT(30)
  <2> QED BY <1>1, <1>2, <2>1, <2>3, <2>4, SMTT(30)
<1>6. n = largest => k = step
  <2>1. SUFFICES ASSUME n = largest PROVE k = step
    OBVIOUS
  <2> QED BY <2>1, SMTT(30)
<1> HIDE DEF k, product
<1> QED BY <1>2, <1>4, <1>5, <1>6 DEF k

LEMMA PartFacts ==
  ASSUME NEW n \in Int, NEW largest \in Nat, largest > MaxRateOfChange, n \in -largest .. largest
  PROVE  /\ Part(n, largest) \in Int
         /\ n >= 0 => Part(n, largest) \in 0 .. n
         /\ n <= 0 => Part(n, largest) \in n .. 0
         /\ n - Part(n, largest) \in -(largest - MaxRateOfChange) .. largest - MaxRateOfChange
         /\ Abs(n) = largest => Part(n, largest) # 0
<1>1. MaxRateOfChange \in Nat \ {0}
  BY ConstantFacts
<1>2. CASE n < 0
  <2> DEFINE m == -n
             k == (m * MaxRateOfChange) \div largest
  <2>1. m \in Nat /\ m <= largest
    BY <1>2
  <2> HIDE DEF m
  <2>2. k \in Nat /\ k <= m /\ m - k <= largest - MaxRateOfChange /\ (m = largest => k = MaxRateOfChange)
    BY <1>1, <2>1, DivisionFacts
  <2>3. Part(n, largest) = -k
    <3>1. -n * MaxRateOfChange = m * MaxRateOfChange
      BY <1>1 DEF m
    <3>2. Part(n, largest) = -((-n * MaxRateOfChange) \div largest)
      BY <1>2 DEF Part
    <3> QED BY <3>1, <3>2
  <2> HIDE DEF k
  <2> QED BY <1>1, <1>2, <2>1, <2>2, <2>3 DEF m, Abs
<1>3. CASE n >= 0
  <2> DEFINE k == (n * MaxRateOfChange) \div largest
  <2>1. n \in Nat /\ n <= largest
    BY <1>3
  <2>2. k \in Nat /\ k <= n /\ n - k <= largest - MaxRateOfChange /\ (n = largest => k = MaxRateOfChange)
    BY <1>1, <2>1, DivisionFacts
  <2>3. Part(n, largest) = k
    BY <1>3 DEF Part
  <2> HIDE DEF k
  <2> QED BY <1>1, <1>3, <2>1, <2>2, <2>3 DEF Abs
<1> QED BY <1>2, <1>3

\* A ramp whose largest distance is more than a step covers part of every distance.
LEMMA ApproachSteps ==
  ASSUME NEW f, f.target \in Forces, f.current \in Forces
  PROVE  \E largest \in Nat :
            /\ \A p \in Places : f.target[p] - f.current[p] \in -largest .. largest
            /\ \E p \in Places : Abs(f.target[p] - f.current[p]) = largest
            /\ Approach(f) = IF f.target # f.current /\ largest > MaxRateOfChange
                             THEN [p \in Places |-> f.current[p] + Part(f.target[p] - f.current[p], largest)]
                             ELSE f.target
<1> DEFINE offset == [p \in Places |-> f.target[p] - f.current[p]]
           sizes == {Abs(offset[p]) : p \in Places}
           largest == Max(sizes)
<1>1. \A p \in Places : f.target[p] \in Int /\ f.current[p] \in Int
  BY DEF Forces
<1>2. \A p \in Places : offset[p] \in Int /\ Abs(offset[p]) \in Nat
  BY <1>1 DEF Abs
<1>3. PICK x \in Places : \A y \in Places : Abs(offset[x]) >= Abs(offset[y])
  <2> DEFINE w == [p \in Places |-> Abs(offset[p])]
  <2>1. w \in [Places -> Int]
    BY <1>2
  <2>2. \E p \in Places : \A y \in Places : w[p] >= w[y]
    <3> HIDE DEF w
    <3> QED BY <2>1, PlacesFinite, LargestAt
  <2> QED BY <2>2
<1>4. largest \in sizes /\ \A n \in sizes : largest >= n
  <2>1. \E m \in sizes : \A n \in sizes : m >= n
    BY <1>3
  <2> HIDE DEF sizes
  <2> QED BY <2>1 DEF Max
<1>5. largest = Abs(offset[x]) /\ largest \in Nat
  <2> HIDE DEF largest
  <2>1. \A n \in sizes : n \in Nat
    BY <1>2
  <2>2. Abs(offset[x]) \in sizes /\ \A n \in sizes : Abs(offset[x]) >= n
    BY <1>3
  <2> HIDE DEF sizes, offset
  <2> QED BY <1>4, <2>1, <2>2
<1>6. Approach(f) = IF f.target # f.current /\ largest > MaxRateOfChange
                    THEN [p \in Places |-> f.current[p] + Part(offset[p], largest)]
                    ELSE f.target
  BY DEF Approach, Part
<1>7. \A p \in Places : offset[p] \in -largest .. largest
  <2> HIDE DEF largest, offset
  <2> QED BY <1>2, <1>3, <1>5 DEF Abs
<1> HIDE DEF largest
<1> QED BY <1>5, <1>6, <1>7

\* A ramp takes numbers to numbers, and stays where it is only at its target.
LEMMA ApproachFacts ==
  ASSUME NEW f, f.target \in Forces, f.current \in Forces
  PROVE  /\ Approach(f) \in Forces
         /\ Approach(f) = f.current => f.current = f.target
<1>1. PICK largest \in Nat :
            /\ \A p \in Places : f.target[p] - f.current[p] \in -largest .. largest
            /\ \E p \in Places : Abs(f.target[p] - f.current[p]) = largest
            /\ Approach(f) = IF f.target # f.current /\ largest > MaxRateOfChange
                             THEN [p \in Places |-> f.current[p] + Part(f.target[p] - f.current[p], largest)]
                             ELSE f.target
  BY ApproachSteps
<1>2. CASE ~(f.target # f.current /\ largest > MaxRateOfChange)
  BY <1>1, <1>2
<1>3. CASE f.target # f.current /\ largest > MaxRateOfChange
  <2>1. Approach(f) = [p \in Places |-> f.current[p] + Part(f.target[p] - f.current[p], largest)]
    BY <1>1, <1>3
  <2>2. \A p \in Places : f.target[p] \in Int /\ f.current[p] \in Int
    BY DEF Forces
  <2>3. \A p \in Places : Part(f.target[p] - f.current[p], largest) \in Int
    BY <1>1, <1>3, <2>2, PartFacts
  <2>4. Approach(f) \in Forces
    BY <2>1, <2>2, <2>3 DEF Forces
  <2>5. PICK x \in Places : Abs(f.target[x] - f.current[x]) = largest
    BY <1>1
  <2>6. Part(f.target[x] - f.current[x], largest) # 0
    BY <1>1, <1>3, <2>2, <2>5, PartFacts
  <2>7. Approach(f)[x] # f.current[x]
    BY <2>1, <2>2, <2>3, <2>6
  <2> QED BY <2>4, <2>7
<1> QED BY <1>2, <1>3

\* Every update brings all forces a step closer, the last one to the target, and none leaves the
\* range of those it lies between.
Within(forces, limit) == \A p \in Places : forces[p] \in -limit .. limit
Apart(forces, others, distance) == \A p \in Places : forces[p] - others[p] \in -distance .. distance
Less(distance) == IF distance <= MaxRateOfChange THEN 0 ELSE distance - MaxRateOfChange

LEMMA ApproachCloses ==
  ASSUME NEW f, f.target \in Forces, f.current \in Forces, NEW limit \in Nat, NEW distance \in Nat,
         Within(f.target, limit), Within(f.current, limit), Apart(f.target, f.current, distance)
  PROVE  /\ Within(Approach(f), limit)
         /\ Apart(f.target, Approach(f), Less(distance))
<1>1. PICK largest \in Nat :
            /\ \A p \in Places : f.target[p] - f.current[p] \in -largest .. largest
            /\ \E p \in Places : Abs(f.target[p] - f.current[p]) = largest
            /\ Approach(f) = IF f.target # f.current /\ largest > MaxRateOfChange
                             THEN [p \in Places |-> f.current[p] + Part(f.target[p] - f.current[p], largest)]
                             ELSE f.target
  BY ApproachSteps
<1>2. \A p \in Places : f.target[p] \in Int /\ f.current[p] \in Int
  BY DEF Forces
<1>3. largest <= distance
  <2>1. PICK x \in Places : Abs(f.target[x] - f.current[x]) = largest
    BY <1>1
  <2>2. f.target[x] - f.current[x] \in -distance .. distance
    BY DEF Apart
  <2> QED BY <1>2, <2>1, <2>2 DEF Abs
<1>4. Less(distance) \in Nat
  BY ConstantFacts DEF Less
<1>5. CASE ~(f.target # f.current /\ largest > MaxRateOfChange)
  <2>1. Approach(f) = f.target
    BY <1>1, <1>5
  <2>2. ASSUME NEW p \in Places PROVE f.target[p] - Approach(f)[p] \in -Less(distance) .. Less(distance)
    BY <1>2, <1>4, <2>1
  <2> QED BY <2>1, <2>2 DEF Apart
<1>6. CASE f.target # f.current /\ largest > MaxRateOfChange
  <2>1. ASSUME NEW p \in Places
        PROVE  /\ Approach(f)[p] \in -limit .. limit
               /\ f.target[p] - Approach(f)[p] \in -Less(distance) .. Less(distance)
    <3> DEFINE n == f.target[p] - f.current[p]
               part == Part(n, largest)
    <3>1. n \in Int /\ n \in -largest .. largest
      BY <1>1, <1>2
    <3>2. /\ part \in Int /\ (n >= 0 => part \in 0 .. n) /\ (n <= 0 => part \in n .. 0)
          /\ n - part \in -(largest - MaxRateOfChange) .. largest - MaxRateOfChange
      <4> HIDE DEF n
      <4> QED BY <1>6, <3>1, PartFacts
    <3>3. Approach(f)[p] = f.current[p] + part
      BY <1>1, <1>6
    <3>4. f.target[p] \in -limit .. limit /\ f.current[p] \in -limit .. limit
      BY DEF Within
    <3>5. Less(distance) = distance - MaxRateOfChange
      BY <1>3, <1>6, ConstantFacts DEF Less
    <3> HIDE DEF part
    <3>6. Approach(f)[p] \in -limit .. limit
      BY <3>2, <3>3, <3>4
    <3>7. f.target[p] - Approach(f)[p] = n - part
      BY <1>2, <3>2, <3>3
    <3>8. n - part \in -Less(distance) .. Less(distance)
      <4> HIDE DEF n
      <4> QED BY <1>3, <3>1, <3>2, <3>5, ConstantFacts
    <3> QED BY <3>6, <3>7, <3>8
  <2> QED BY <2>1 DEF Within, Apart
<1> QED BY <1>5, <1>6

\* What is left of a distance after some updates.
Left(distance, updates) ==
    IF distance <= updates * MaxRateOfChange THEN 0 ELSE distance - updates * MaxRateOfChange

LEMMA LeftFacts ==
  ASSUME NEW distance \in Nat, NEW n \in Nat
  PROVE  /\ Left(distance, n) \in Nat /\ Left(distance, 0) = distance
         /\ Less(Left(distance, n)) = Left(distance, n + 1) /\ Less(0) = 0
         /\ Ramp(distance) \in Nat /\ (distance > 0 => Ramp(distance) > 0)
         /\ n >= Ramp(distance) => Left(distance, n) = 0
<1> DEFINE M == MaxRateOfChange
           covered == n * M
           r == Ramp(distance)
<1>1. M \in Nat /\ M > 0
  BY ConstantFacts
<1>2. covered \in Nat /\ (n + 1) * M = covered + M /\ 0 * M = 0
  BY <1>1, SMTT(30)
<1>3. Left(distance, n) = IF distance <= covered THEN 0 ELSE distance - covered
  BY DEF Left
<1>4. Left(distance, n + 1) = IF distance <= covered + M THEN 0 ELSE distance - (covered + M)
  BY <1>2 DEF Left
<1>5. Left(distance, 0) = distance
  BY <1>2 DEF Left
<1>6. r \in Int /\ r * M <= distance + M - 1 /\ distance + M - 1 < (r + 1) * M
  <2>1. r = (distance + M - 1) \div M
    BY DEF Ramp
  <2> HIDE DEF r, M
  <2> QED BY <1>1, <2>1, SMTT(30)
<1>7. r * M >= distance /\ r >= 0 /\ (distance > 0 => r > 0)
  <2> HIDE DEF r, M
  <2>1. (r + 1) * M = r * M + M /\ r * M \in Int
    BY <1>1, <1>6, SMTT(30)
  <2>2. r * M >= distance
    BY <1>1, <1>6, <2>1
  <2>3. r < 0 => r * M < 0
    BY <1>1, <1>6, SMTT(30)
  <2>4. r = 0 => r * M = 0
    BY <1>1
  <2>5. r >= 0
    BY <1>6, <2>1, <2>2, <2>3
  <2>6. distance > 0 => r # 0
    BY <2>1, <2>2, <2>4
  <2> QED BY <1>6, <2>2, <2>5, <2>6
<1>8. n >= r => covered >= distance
  <2> HIDE DEF r, M
  <2>1. n >= r => n * M >= r * M
    BY <1>1, <1>6, SMTT(30)
  <2>2. n * M \in Int /\ r * M \in Int
    BY <1>1, <1>6
  <2> QED BY <1>7, <2>1, <2>2
<1>9. Less(Left(distance, n)) = Left(distance, n + 1) /\ Less(0) = 0
  <2>1. \A k : Less(k) = IF k <= M THEN 0 ELSE k - M
    BY DEF Less
  <2> HIDE DEF covered, M
  <2> QED BY <1>1, <1>2, <1>3, <1>4, <2>1
<1> HIDE DEF r, covered, M
<1>10. Left(distance, n) \in Nat
  BY <1>2, <1>3
<1> QED BY <1>2, <1>3, <1>5, <1>6, <1>7, <1>8, <1>9, <1>10 DEF r

LEMMA CoercedFacts ==
  ASSUME NEW forces \in Forces, NEW limit \in Nat
  PROVE  Coerced(forces, limit) \in Forces /\ Within(Coerced(forces, limit), limit)
<1> DEFINE coerced == [p \in Places |-> Coerce(-limit, limit, forces[p])]
<1>1. \A p \in Places : coerced[p] \in -limit .. limit
  BY DEF Coerce, Forces
<1>2. coerced \in Forces
  BY <1>1 DEF Forces
<1>3. Coerced(forces, limit) = coerced
  BY DEF Coerced
<1> HIDE DEF coerced
<1> QED BY <1>1, <1>2, <1>3 DEF Within

\* A component goes one step towards its target.
LEMMA PostUpdateFacts ==
  ASSUME NEW f \in ForceKinds, NEW target \in Forces, NEW limit \in Nat
  PROVE  LET g == PostUpdateActions(f, target, limit) IN
         /\ g \in ForceKinds /\ g.target = target
         /\ g.current = f.current => g.current = target
         /\ ClippedAt(g) = {} => g.applied = g.current
         /\ g.applied = Coerced(g.current, limit) /\ Within(g.applied, limit)
<1> DEFINE h == [f EXCEPT !.target = target]
           g == PostUpdateActions(f, target, limit)
<1>1. h.target = target /\ h.current = f.current /\ f.current \in Forces
  BY DEF ForceKinds
<1>2. Approach(h) \in Forces /\ (Approach(h) = f.current => f.current = target)
  <2> HIDE DEF h
  <2> QED BY <1>1, ApproachFacts
<1>3. /\ g = [target |-> target, current |-> Approach(h), applied |-> Coerced(Approach(h), limit)]
  BY DEF PostUpdateActions
<1>4. Coerced(Approach(h), limit) \in Forces /\ Within(Coerced(Approach(h), limit), limit)
  <2> HIDE DEF h
  <2> QED BY <1>2, CoercedFacts
<1>5. g \in ForceKinds /\ g.target = target /\ g.current = Approach(h)
      /\ g.applied = Coerced(Approach(h), limit)
  <2> HIDE DEF h
  <2> QED BY <1>2, <1>3, <1>4 DEF ForceKinds
<1>6. ClippedAt(g) = {} => g.applied = g.current
  <2> HIDE DEF g
  <2>1. SUFFICES ASSUME ClippedAt(g) = {} PROVE g.applied = g.current
    OBVIOUS
  <2>2. \A p \in Places : g.current[p] = g.applied[p]
    BY <2>1 DEF ClippedAt
  <2>3. g.current \in [Places -> Int] /\ g.applied \in [Places -> Int]
    BY <1>5 DEF ForceKinds, Forces
  <2> QED BY <2>2, <2>3
<1> HIDE DEF g, h
<1> QED BY <1>2, <1>4, <1>5, <1>6 DEF g

\* By that step it is closer, and it stays where it is when it has arrived.
LEMMA PostUpdateCloses ==
  ASSUME NEW f \in ForceKinds, NEW target \in Forces, NEW limit \in Nat, NEW range \in Nat, NEW distance \in Nat,
         Within(target, range), Within(f.current, range), Apart(target, f.current, distance)
  PROVE  LET g == PostUpdateActions(f, target, limit) IN
         Within(g.current, range) /\ Apart(target, g.current, Less(distance))
<1> DEFINE h == [f EXCEPT !.target = target]
<1>1. h.target = target /\ h.current = f.current /\ f.current \in Forces
  BY DEF ForceKinds
<1>2. PostUpdateActions(f, target, limit).current = Approach(h)
  BY DEF PostUpdateActions
<1> HIDE DEF h
<1> QED BY <1>1, <1>2, ApproachCloses

LEMMA PostUpdateRests ==
  ASSUME NEW f \in ForceKinds, NEW limit \in Nat, Apart(f.target, f.current, 0),
         f.applied = Coerced(f.current, limit)
  PROVE  PostUpdateActions(f, f.target, limit) = f
<1>1. f.target \in Forces /\ f.current \in Forces
  BY DEF ForceKinds
<1>2. f.target = f.current
  <2>1. ASSUME NEW p \in Places PROVE f.target[p] = f.current[p]
    <3>1. f.target[p] \in Int /\ f.current[p] \in Int
      BY <1>1 DEF Forces
    <3>2. PICK zero \in Int : zero = 0
      OBVIOUS
    <3>3. f.target[p] - f.current[p] \in -zero .. zero
      BY <3>2, Zenon DEF Apart
    <3> QED BY <3>1, <3>2, <3>3
  <2> QED BY <1>1, <2>1 DEF Forces
<1> DEFINE h == [f EXCEPT !.target = f.target]
<1>3. h.target = f.target /\ h.current = f.current
  BY DEF ForceKinds
<1>4. Approach(h) = f.current
  <2> HIDE DEF h
  <2> QED BY <1>2, <1>3 DEF Approach
<1>5. PostUpdateActions(f, f.target, limit)
      = [target |-> f.target, current |-> f.current, applied |-> Coerced(f.current, limit)]
  <2>1. PostUpdateActions(f, f.target, limit)
        = [target |-> f.target, current |-> Approach(h), applied |-> Coerced(Approach(h), limit)]
    BY DEF PostUpdateActions
  <2> HIDE DEF h
  <2> QED BY <1>4, <2>1
<1>6. f = [target |-> f.target, current |-> f.current, applied |-> f.applied]
  BY DEF ForceKinds
<1> HIDE DEF h
<1> QED BY <1>5, <1>6

-----------------------------------------------------------------------------
(* The spread over the actuators of a quadrant. *)

\* An axis of a quadrant that has actuators keeps an enabled one.
NotAllDisabled ==
    \A axis \in Axes, q \in Quadrants :
        Quadrant[axis][q] = {} \/ Quadrant[axis][q] \ {Index[axis][a] : a \in disabled} # {}

\* The actuators that share an axis and a quadrant with a place, those of them that are disabled,
\* the indices compared with theirs, and how many remain.
QuadrantOf(p) == Row[ActuatorAt[p]].quadrant
Sharing(p) == Quadrant[p[1]][QuadrantOf(p)]
Skipped(p) == {a \in disabled : Row[a].quadrant = QuadrantOf(p)}
Off(p) == {Index[p[1]][a] : a \in Skipped(p)} \ {-1}
Remaining(p) == Cardinality(Sharing(p)) - Cardinality(Off(p))
Own(forces, p) == IF p[2] \in Off(p) THEN 0 ELSE forces[p]
Share(forces, p) == IF p[2] \in Skipped(p) \/ Off(p) = {} THEN 0 ELSE Sum(p[1], forces, Off(p)) \div Remaining(p)

LEMMA SpreadIs ==
  ASSUME NEW forces
  PROVE  ApplyForcesByComponents(forces) = [p \in Places |-> Own(forces, p) + Share(forces, p)]
<1>1. \A p \in Places : p = <<p[1], p[2]>>
  BY PlaceFacts
<1> QED BY <1>1, Zenon DEF ApplyForcesByComponents, Own, Share, Off, Skipped, Remaining, Sharing, QuadrantOf

\* Some of those that share the force of disabled actuators always remain.
LEMMA SharingFacts ==
  ASSUME NEW p \in Places, disabled \subseteq FAs, NotAllDisabled
  PROVE  /\ IsFiniteSet(Sharing(p)) /\ \A i \in Sharing(p) : <<p[1], i>> \in Places
         /\ Off(p) \subseteq Sharing(p) /\ IsFiniteSet(Off(p)) /\ Cardinality(Off(p)) <= Cardinality(disabled)
         /\ Remaining(p) \in Nat \ {0}
<1>1. QuadrantOf(p) \in Quadrants /\ p[1] \in Axes /\ p[2] \in Sharing(p)
  <2>1. ActuatorAt[p] \in On(p[1]) /\ ActuatorAt[p] \in FAs /\ Index[p[1]][ActuatorAt[p]] = p[2] /\ p[1] \in Axes
    BY PlaceFacts
  <2>2. QuadrantOf(p) \in Quadrants
    BY <2>1 DEF Quadrants, QuadrantOf
  <2> QED BY <2>1, <2>2 DEF Quadrant, Sharing, QuadrantOf
<1>2. Sharing(p) = {Index[p[1]][a] : a \in {b \in On(p[1]) : Row[b].quadrant = QuadrantOf(p)}}
  BY <1>1 DEF Quadrant, Sharing
<1>3. ASSUME NEW i \in Sharing(p) PROVE i \in 0 .. Actuators /\ <<p[1], i>> \in Places
  <2>1. PICK a \in On(p[1]) : i = Index[p[1]][a]
    BY <1>2
  <2>2. a \in FAs
    BY DEF On
  <2> QED BY <1>1, <2>1, <2>2, IndexFacts
<1>4. IsFiniteSet(Sharing(p))
  <2>1. IsFiniteSet(0 .. Actuators)
    BY ConstantFacts, FS_Interval
  <2>2. Sharing(p) \subseteq 0 .. Actuators
    BY <1>3
  <2> QED BY <2>1, <2>2, FS_Subset
<1>5. Off(p) \subseteq Sharing(p)
  <2>1. ASSUME NEW a \in Skipped(p), Index[p[1]][a] # -1
        PROVE  Index[p[1]][a] \in Sharing(p)
    <3>1. a \in FAs /\ Row[a].quadrant = QuadrantOf(p)
      BY DEF Skipped
    <3>2. a \in On(p[1])
      BY <1>1, <2>1, <3>1, IndexFacts
    <3> QED BY <1>2, <3>1, <3>2
  <2> QED BY <2>1 DEF Off
<1>6. Off(p) # Sharing(p)
  <2>1. Sharing(p) \ {Index[p[1]][a] : a \in disabled} # {}
    BY <1>1 DEF NotAllDisabled, Sharing
  <2>2. Off(p) \subseteq {Index[p[1]][a] : a \in disabled}
    BY DEF Off, Skipped
  <2> QED BY <2>1, <2>2
<1>7. Cardinality(Off(p)) <= Cardinality(Sharing(p)) /\ Cardinality(Off(p)) # Cardinality(Sharing(p))
      /\ IsFiniteSet(Off(p))
  BY <1>4, <1>5, <1>6, FS_Subset
<1>8. Remaining(p) \in Nat \ {0}
  BY <1>4, <1>7, FS_CardinalityType DEF Remaining
<1>9. Cardinality(Off(p)) <= Cardinality(disabled)
  <2> DEFINE those == {a \in Skipped(p) : Index[p[1]][a] # -1}
             f == [a \in those |-> Index[p[1]][a]]
  <2>1. IsFiniteSet(disabled)
    <3>1. IsFiniteSet(FAs)
      BY ConstantFacts, FS_Interval DEF FAs
    <3> QED BY <3>1, FS_Subset
  <2>2. those \in SUBSET disabled
    BY DEF Skipped
  <2>3. IsFiniteSet(those) /\ Cardinality(those) <= Cardinality(disabled)
    <3> HIDE DEF those
    <3> QED BY <2>1, <2>2, FS_Subset
  <2>4. f \in Surjection(those, Off(p))
    <3>1. f \in [those -> Off(p)]
      BY DEF Off
    <3>2. \A i \in Off(p) : \E a \in those : f[a] = i
      BY DEF Off
    <3> HIDE DEF those, f
    <3> QED BY <3>1, <3>2 DEF Surjection
  <2>5. Cardinality(Off(p)) <= Cardinality(those)
    <3> HIDE DEF those, f
    <3> QED BY <2>3, <2>4, FS_Surjection
  <2>6. Cardinality(Off(p)) \in Nat /\ Cardinality(those) \in Nat /\ Cardinality(disabled) \in Nat
    <3> HIDE DEF those
    <3> QED BY <1>7, <2>1, <2>3, FS_CardinalityType
  <2> HIDE DEF those, f
  <2> QED BY <2>3, <2>5, <2>6
<1> QED BY <1>3, <1>4, <1>5, <1>7, <1>8, <1>9

LEMMA SpreadFacts ==
  ASSUME NEW forces \in Forces, disabled \subseteq FAs, NotAllDisabled
  PROVE  /\ ApplyForcesByComponents(forces) \in Forces
         /\ disabled = {} => ApplyForcesByComponents(forces) = forces
<1>1. ASSUME NEW p \in Places
      PROVE  Own(forces, p) \in Int /\ Share(forces, p) \in Int
  <2>1. \A i \in Off(p) : forces[<<p[1], i>>] \in Int
    BY SharingFacts DEF Forces
  <2>2. Sum(p[1], forces, Off(p)) \in Int
    BY <2>1, SharingFacts, SumType
  <2>3. Remaining(p) \in Nat \ {0}
    BY SharingFacts
  <2>4. Share(forces, p) \in Int
    BY <2>2, <2>3 DEF Share
  <2>5. Own(forces, p) \in Int
    BY DEF Own, Forces
  <2> QED BY <2>4, <2>5
<1>2. ApplyForcesByComponents(forces) \in Forces
  BY <1>1, SpreadIs DEF Forces
<1>3. ASSUME disabled = {}
      PROVE  ApplyForcesByComponents(forces) = forces
  <2>1. \A p \in Places : Off(p) = {}
    BY <1>3 DEF Off, Skipped
  <2>2. \A p \in Places : Own(forces, p) = forces[p] /\ Share(forces, p) = 0
    BY <2>1 DEF Own, Share
  <2>3. \A p \in Places : forces[p] + 0 = forces[p]
    BY DEF Forces
  <2> QED BY <2>2, <2>3, SpreadIs DEF Forces
<1> QED BY <1>2, <1>3

\* A disabled actuator's force is one more for those that take it.
LEMMA SpreadIsLimited ==
  ASSUME NEW forces \in Forces, disabled \subseteq FAs, NotAllDisabled, Cardinality(disabled) <= MaxDisabled,
         Within(forces, ForceLimit)
  PROVE  Within(ApplyForcesByComponents(forces), LargestSum)
<1> SUFFICES ASSUME NEW p \in Places
             PROVE  Own(forces, p) + Share(forces, p) \in -LargestSum .. LargestSum
  BY SpreadIs DEF Within
<1> DEFINE n == Cardinality(Off(p))
           shared == Sum(p[1], forces, Off(p))
           bound == MaxDisabled * ForceLimit
<1>1. n \in Nat /\ n <= MaxDisabled
  <2>1. IsFiniteSet(disabled)
    <3>1. IsFiniteSet(FAs)
      BY ConstantFacts, FS_Interval DEF FAs
    <3> QED BY <3>1, FS_Subset
  <2> QED BY <2>1, SharingFacts, FS_CardinalityType, ConstantFacts
<1>2. shared \in -(n * ForceLimit) .. n * ForceLimit
  <2>1. \A i \in Off(p) : forces[<<p[1], i>>] \in -ForceLimit .. ForceLimit
    BY SharingFacts DEF Within
  <2> QED BY <2>1, SharingFacts, SumOfLimited, ConstantFacts
<1>3. bound \in Nat /\ n * ForceLimit \in Nat /\ n * ForceLimit <= bound
  <2> HIDE DEF n
  <2> QED BY <1>1, ConstantFacts, SMTT(30)
<1>4. LargestSum = bound + ForceLimit
  BY ConstantFacts DEF LargestSum
<1>5. shared \in -bound .. bound
  <2> HIDE DEF n, shared, bound
  <2> QED BY <1>2, <1>3
<1>6. Share(forces, p) \in -bound .. bound
  <2> DEFINE r == Remaining(p)
  <2>1. r \in Nat \ {0}
    BY SharingFacts
  <2>2. shared \div r \in -bound .. bound
    <3> HIDE DEF shared, bound, r
    <3>1. shared \div r \in Int /\ (shared \div r) * r <= shared /\ shared < (shared \div r + 1) * r
      BY <1>3, <1>5, <2>1, SMTT(30)
    <3>2. shared \div r <= bound
      BY <1>3, <1>5, <2>1, <3>1, SMTT(30)
    <3>3. shared \div r >= -bound
      BY <1>3, <1>5, <2>1, <3>1, SMTT(30)
    <3> QED BY <1>3, <3>1, <3>2, <3>3
  <2>3. Share(forces, p) = 0 \/ Share(forces, p) = shared \div r
    BY DEF Share
  <2> HIDE DEF shared, bound, r
  <2> QED BY <1>3, <2>2, <2>3
<1>7. Own(forces, p) \in -ForceLimit .. ForceLimit
  BY ConstantFacts DEF Own, Within
<1> HIDE DEF bound, n, shared
<1> QED BY <1>3, <1>4, <1>6, <1>7, ConstantFacts

-----------------------------------------------------------------------------
(* What is meant for a quadrant. *)

\* Every actuator acts along z, where its index is its own.
LEMMA AlongZ ==
  ASSUME NEW a \in FAs
  PROVE  Index["z"][a] = a /\ <<"z", a>> \in Places /\ ActuatorAt[<<"z", a>>] = a
<1>1. "z" \in Axes /\ On("z") = FAs
  BY DEF Axes, On
<1>2. \A b \in FAs : Index["z"][b] = b
  <2> SUFFICES ASSUME NEW b \in FAs PROVE Index["z"][b] = b
    OBVIOUS
  <2>1. Index["z"][b] = Cardinality({c \in FAs : c < b})
    BY <1>1 DEF Index
  <2>2. b \in Int /\ b >= 0 /\ {c \in FAs : c < b} = 0 .. b - 1
    BY ConstantFacts DEF FAs
  <2>3. Cardinality(0 .. b - 1) = b
    BY <2>2, FS_Interval
  <2> QED BY <2>1, <2>2, <2>3
<1>3. <<"z", a>> \in Places
  BY <1>1, <1>2, IndexFacts
<1>4. ActuatorAt[<<"z", a>>] \in FAs /\ Index["z"][ActuatorAt[<<"z", a>>]] = a
  BY <1>3, PlaceFacts
<1> QED BY <1>2, <1>3, <1>4

\* The enabled actuators of a quadrant exert the z force that was meant for all of them.
LEMMA QuadrantKeepsZ ==
  ASSUME NEW forces \in Forces, disabled \subseteq FAs, NotAllDisabled, NEW q \in Quadrants
  PROVE  Sum("z", ApplyForcesByComponents(forces), Quadrant["z"][q]) + Undivided(forces, q)
         = Sum("z", forces, Quadrant["z"][q])
<1> DEFINE all == Quadrant["z"][q]
           off == {a \in disabled : Row[a].quadrant = q}
           spread == ApplyForcesByComponents(forces)
           shared == Sum("z", forces, off)
           rest == all \ off
           n == Cardinality(rest)
<1> SUFFICES Sum("z", spread, all) + Undivided(forces, q) = Sum("z", forces, all)
  OBVIOUS
<1>1. all = {a \in FAs : Row[a].quadrant = q}
  <2>1. "z" \in Axes /\ On("z") = FAs
    BY DEF Axes, On
  <2> DEFINE those == {a \in FAs : Row[a].quadrant = q}
  <2>2. all = {Index["z"][a] : a \in those}
    BY <2>1 DEF Quadrant
  <2>3. \A a \in those : Index["z"][a] = a
    BY AlongZ
  <2> HIDE DEF those, all
  <2>4. all = those
    BY <2>2, <2>3
  <2> QED BY <2>4 DEF those, all
<1>2. off \subseteq all /\ IsFiniteSet(all) /\ IsFiniteSet(off) /\ IsFiniteSet(rest)
  <2>1. IsFiniteSet(FAs)
    BY ConstantFacts, FS_Interval DEF FAs
  <2>2. off \subseteq all /\ all \subseteq FAs
    BY <1>1
  <2> HIDE DEF all, off
  <2> QED BY <2>1, <2>2, FS_Subset
<1>3. ASSUME NEW a \in all
      PROVE  /\ <<"z", a>> \in Places /\ Sharing(<<"z", a>>) = all
             /\ Skipped(<<"z", a>>) = off /\ Off(<<"z", a>>) = off
  <2>1. a \in FAs /\ Row[a].quadrant = q
    BY <1>1
  <2>2. <<"z", a>> \in Places /\ QuadrantOf(<<"z", a>>) = q
    BY <2>1, AlongZ DEF QuadrantOf
  <2>3. Skipped(<<"z", a>>) = off
    BY <2>2 DEF Skipped
  <2>4. {Index["z"][b] : b \in off} = off
    BY AlongZ
  <2>5. -1 \notin off
    BY DEF FAs
  <2> QED BY <2>2, <2>3, <2>4, <2>5 DEF Off, Sharing
<1>4. ASSUME NEW a \in all
      PROVE  /\ forces[<<"z", a>>] \in Int /\ spread[<<"z", a>>] \in Int
             /\ spread[<<"z", a>>] = IF a \in off THEN 0
                                     ELSE forces[<<"z", a>>] + IF off = {} THEN 0 ELSE shared \div n
  <2>1. <<"z", a>> \in Places /\ Skipped(<<"z", a>>) = off /\ Off(<<"z", a>>) = off
        /\ Sharing(<<"z", a>>) = all
    BY <1>3
  <2>2. spread[<<"z", a>>] = Own(forces, <<"z", a>>) + Share(forces, <<"z", a>>)
    BY <2>1, SpreadIs
  <2>3. Remaining(<<"z", a>>) = n
    <3>1. n = Cardinality(all) - Cardinality(all \intersect off)
      <4> HIDE DEF all, off
      <4> QED BY <1>2, FS_Difference
    <3>2. all \intersect off = off
      BY <1>2
    <3> HIDE DEF all, off, n
    <3> QED BY <2>1, <3>1, <3>2 DEF Remaining
  <2>4. forces[<<"z", a>>] \in Int /\ spread[<<"z", a>>] \in Int
    BY <2>1, SpreadFacts DEF Forces
  <2> HIDE DEF all, off, n, spread
  <2>5. Own(forces, <<"z", a>>) = IF a \in off THEN 0 ELSE forces[<<"z", a>>]
    BY <2>1 DEF Own
  <2>6. Share(forces, <<"z", a>>) = IF a \in off \/ off = {} THEN 0 ELSE shared \div n
    BY <2>1, <2>3 DEF Share
  <2> QED BY <2>2, <2>4, <2>5, <2>6
<1>5. shared \in Int /\ Sum("z", forces, rest) \in Int
      /\ Sum("z", forces, all) = shared + Sum("z", forces, rest)
      /\ Sum("z", spread, all) = Sum("z", spread, off) + Sum("z", spread, rest)
  <2>1. \A i \in all : forces[<<"z", i>>] \in Int /\ spread[<<"z", i>>] \in Int
    BY <1>4
  <2> HIDE DEF all, off, spread
  <2>2. Sum("z", forces, all) = Sum("z", forces, off) + Sum("z", forces, all \ off)
    BY <1>2, <2>1, SumOfBoth
  <2>3. Sum("z", spread, all) = Sum("z", spread, off) + Sum("z", spread, all \ off)
    BY <1>2, <2>1, SumOfBoth
  <2>4. Sum("z", forces, off) \in Int /\ Sum("z", forces, rest) \in Int
    BY <1>2, <2>1, SumType
  <2> QED BY <2>2, <2>3, <2>4
<1>6. CASE off = {}
  <2>1. Undivided(forces, q) = 0
    BY <1>6 DEF Undivided
  <2>2. \A i \in all : forces[<<"z", i>>] \in Int /\ spread[<<"z", i>>] = forces[<<"z", i>>] + 0
    <3> HIDE DEF all, off, spread
    <3> QED BY <1>4, <1>6
  <2>3. Sum("z", spread, all) = Sum("z", forces, all) + Cardinality(all) * 0
    <3> HIDE DEF all, spread
    <3> QED BY <1>2, <2>2, SumOfRaised
  <2>4. Cardinality(all) \in Nat /\ Sum("z", forces, all) \in Int
    <3> HIDE DEF all
    <3> QED BY <1>2, <2>2, FS_CardinalityType, SumType
  <2> HIDE DEF all, spread
  <2> QED BY <2>1, <2>3, <2>4
<1>7. CASE off # {}
  <2> DEFINE share == shared \div n
  <2>1. Undivided(forces, q) = shared % n
    BY <1>7 DEF Undivided
  <2>2. n \in Nat \ {0}
    <3>1. all \ {Index["z"][a] : a \in disabled} # {}
      <4>1. "z" \in Axes /\ all # {}
        BY <1>2, <1>7 DEF Axes
      <4> QED BY <4>1 DEF NotAllDisabled
    <3>2. off \subseteq {Index["z"][a] : a \in disabled}
      BY AlongZ
    <3>3. rest # {}
      <4> HIDE DEF all, off
      <4> QED BY <3>1, <3>2
    <3> HIDE DEF rest
    <3> QED BY <1>2, <3>3, FS_CardinalityType, FS_EmptySet
  <2>3. share \in Int /\ shared % n \in Int /\ shared = n * share + (shared % n)
    <3> HIDE DEF shared, n
    <3> QED BY <1>5, <2>2, SMTT(30)
  <2>4. Sum("z", spread, off) = 0
    <3>1. ASSUME NEW i \in off PROVE spread[<<"z", i>>] = 0
      <4>1. i \in all
        BY <1>2
      <4> HIDE DEF all, off, spread, shared, n
      <4> QED BY <1>4, <4>1
    <3> HIDE DEF off, spread
    <3>2. PICK zero \in Nat : zero = 0
      OBVIOUS
    <3>3. \A i \in off : spread[<<"z", i>>] \in -zero .. zero
      <4>1. 0 \in -zero .. zero
        BY <3>2
      <4> QED BY <3>1, <4>1, Zenon
    <3>4. Sum("z", spread, off) \in -(Cardinality(off) * zero) .. Cardinality(off) * zero
      BY <1>2, <3>3, SumOfLimited
    <3>5. Cardinality(off) \in Nat
      BY <1>2, FS_CardinalityType
    <3> QED BY <3>2, <3>4, <3>5
  <2>5. Sum("z", spread, rest) = Sum("z", forces, rest) + n * share
    <3>1. \A i \in rest : forces[<<"z", i>>] \in Int /\ spread[<<"z", i>>] = forces[<<"z", i>>] + share
      <4> HIDE DEF all, off, spread, shared, n
      <4> QED BY <1>4, <1>7
    <3> HIDE DEF rest, spread, share
    <3> QED BY <1>2, <2>3, <3>1, SumOfRaised
  <2>6. n * share \in Int
    <3> HIDE DEF n, share
    <3> QED BY <2>2, <2>3
  <2> HIDE DEF all, off, spread, shared, rest, n, share
  <2> QED BY <1>5, <2>1, <2>3, <2>4, <2>5, <2>6
<1> QED BY <1>6, <1>7

-----------------------------------------------------------------------------
(* The cylinders and back. *)

\* What the cylinders exert by their set points is what the set points were made of.
LEMMA ConversionsAgree ==
  ASSUME NEW forces \in Forces, NEW a \in FAs
  PROVE  LET felt == ToMirror(a, ForcesToSetpoints(forces)[a]) IN
         /\ felt.z = At(forces, "z", a)
         /\ AxisOf(a) # "NA" => felt.lateral = At(forces, AxisOf(a), a)
<1> DEFINE z == At(forces, "z", a)
           side == At(forces, AxisOf(a), a)
           c == ForcesToSetpoints(forces)[a]
           orientation == Row[a].orientation
<1>1. z \in Int
  BY AtFacts DEF Axes
<1>2. c = [primary |-> z - Lateral(a, forces), secondary |-> Lateral(a, forces)]
  BY DEF ForcesToSetpoints
<1>3. CASE orientation \in {"PositiveX", "PositiveY"}
  <2>1. AxisOf(a) \in Axes
    BY <1>3 DEF AxisOf, Axes
  <2>2. side \in Int
    BY <2>1, AtFacts
  <2>3. Lateral(a, forces) = side
    BY <1>3 DEF Lateral
  <2>4. ToMirror(a, c) = DAAPositive(c)
    BY <1>3 DEF ToMirror
  <2> HIDE DEF z, side, c
  <2> QED BY <1>1, <1>2, <2>2, <2>3, <2>4 DEF DAAPositive, z, side, c
<1>4. CASE orientation \in {"NegativeX", "NegativeY"}
  <2>1. AxisOf(a) \in Axes
    BY <1>4 DEF AxisOf, Axes
  <2>2. side \in Int
    BY <2>1, AtFacts
  <2>3. Lateral(a, forces) = -side
    BY <1>4 DEF Lateral
  <2>4. ToMirror(a, c) = DAANegative(c)
    BY <1>4 DEF ToMirror
  <2> HIDE DEF z, side, c
  <2> QED BY <1>1, <1>2, <2>2, <2>3, <2>4 DEF DAANegative, z, side, c
<1>5. CASE orientation \notin {"PositiveX", "PositiveY", "NegativeX", "NegativeY"}
  <2>1. AxisOf(a) = "NA"
    BY <1>5 DEF AxisOf
  <2>3. Lateral(a, forces) = 0
    BY <1>5 DEF Lateral
  <2>4. ToMirror(a, c) = SAA(c)
    BY <1>5 DEF ToMirror
  <2> HIDE DEF z, c
  <2> QED BY <1>1, <1>2, <2>1, <2>3, <2>4 DEF SAA, z, c
<1> QED BY <1>3, <1>4, <1>5


-----------------------------------------------------------------------------
(* Invariance. *)

\* A clipped force that differs from what was published has not been held back for longer
\* than the delay: the count since the last publication is ahead of the count of updates
\* that found the forces unchanged.
HeldBack == sent # final.current => sinceSent > still \/ sinceSent = MaxDelay

\* What is published and the set points follow from where the ramps are; after an update, the
\* ramps go to what is asked for now.
InStep ==
    /\ component.applied = Coerced(component.current, ForceLimit)
    /\ final.applied = Coerced(final.current, AppliedLimit)
    /\ cylinders = [a \in FAs |-> ClipCylinder(ForcesToSetpoints(final.applied)[a])]
    /\ settled > 0 => /\ component.target = Demand
                      /\ final.target = ApplyForcesByComponents(component.applied)

\* No ramp is, or goes, further than the largest force of the tables or the largest sum.
InRange ==
    /\ Within(component.target, LargestForce) /\ Within(component.current, LargestForce)
    /\ Within(component.applied, ForceLimit)
    /\ Within(final.target, LargestSum) /\ Within(final.current, LargestSum)

\* With every update since the last change the component's ramp has one step less to its end, and
\* when it has been there long enough so has the ramp of the sum.
RampTime == Ramp(2 * LargestForce)
Closer ==
    /\ Apart(Demand, component.current, Left(2 * LargestForce, settled))
    /\ settled >= RampTime => Apart(final.target, final.current, Left(2 * LargestSum, settled - RampTime))

Inductive ==
    /\ TypeOK /\ NotAllDisabled /\ Cardinality(disabled) <= MaxDisabled
    /\ InStep /\ InRange /\ Closer
    /\ HeldBack /\ ClippedForcesArePublished /\ ForcesArrive /\ QuadrantForcesArrive

LEMMA CapFacts ==
  ASSUME NEW m \in Nat, NEW n \in Nat
  PROVE  Min({m, n}) = IF m <= n THEN m ELSE n
BY DEF Min

LEMMA ZeroFacts == ZeroForces \in Forces /\ NoForces \in ForceKinds
BY DEF ZeroForces, Forces, NoForces, ForceKinds

\* The bounds leave time for both ramps.
LEMMA TimeFacts ==
  /\ LargestForce \in Nat /\ LargestForce > 0 /\ LargestSum \in Nat
  /\ RampTime \in Nat /\ RampTime > 0 /\ Ramp(2 * LargestSum) \in Nat
  /\ SettleTime > RampTime + Ramp(2 * LargestSum)
<1>1. LargestForce \in Nat /\ LargestForce > 0 /\ SettleTime > RampTime + Ramp(2 * LargestSum)
  BY SettleAssumption DEF RampTime
<1>2. LargestSum \in Nat
  BY ConstantFacts DEF LargestSum
<1> DEFINE m == 2 * LargestForce
           n == 2 * LargestSum
<1>3. m \in Nat /\ m > 0 /\ n \in Nat
  BY <1>1, <1>2
<1>4. Ramp(m) \in Nat /\ Ramp(m) > 0 /\ Ramp(n) \in Nat
  <2> HIDE DEF m, n
  <2> QED BY <1>3, LeftFacts
<1> QED BY <1>1, <1>2, <1>4 DEF RampTime

\* What the tables or a command ask for are numbers, within the range of the largest.
LEMMA TableFacts ==
  ASSUME NEW w \in Watched, NEW v \in Samples[w], NEW percent \in Ratios
  PROVE  /\ w # "single" => Tabled(w, v, percent) \in Forces /\ Within(Tabled(w, v, percent), LargestForce)
         /\ w = "single" => v.force \in -LargestForce .. LargestForce
<1>1. CASE w # "single"
  <2>1. Tabled(w, v, percent) \in Forces
    BY <1>1, DistributionAssumption
  <2>2. \A p \in Places : Abs(Tabled(w, v, percent)[p]) <= LargestForce
    BY <1>1, SettleAssumption
  <2>3. ASSUME NEW f \in Forces, \A p \in Places : Abs(f[p]) <= LargestForce
        PROVE  Within(f, LargestForce)
    BY <2>3, TimeFacts DEF Forces, Within, Abs
  <2> QED BY <1>1, <2>1, <2>2, <2>3
<1>2. CASE w = "single"
  <2>1. v.force \in Int /\ Abs(v.force) <= LargestForce
    BY <1>2, DistributionAssumption, SettleAssumption
  <2> QED BY <1>2, <2>1, TimeFacts DEF Abs
<1> QED BY <1>1, <1>2

LEMMA TargetFacts ==
  ASSUME TypeOK, Within(component.target, LargestForce), NEW v \in Samples[watched]
  PROVE  Target(watched, v, ratio) \in Forces /\ Within(Target(watched, v, ratio), LargestForce)
<1>1. component.target \in Forces /\ watched \in Watched /\ ratio \in Ratios
  BY DEF TypeOK, ForceKinds
<1>2. CASE watched = "single"
  <2>1. v.force \in -LargestForce .. LargestForce
    BY <1>1, <1>2, TableFacts
  <2>2. ActuatorOffset(v) \in Forces /\ Within(ActuatorOffset(v), LargestForce)
    <3> DEFINE g == [component.target EXCEPT ![<<v.axis, v.index>>] = v.force]
    <3>1. \A p \in Places : g[p] = v.force \/ g[p] = component.target[p]
      BY <1>1 DEF Forces
    <3>2. \A p \in Places : component.target[p] \in -LargestForce .. LargestForce
      BY DEF Within
    <3>3. DOMAIN g = Places /\ g = [p \in Places |-> g[p]]
      BY <1>1 DEF Forces
    <3> HIDE DEF g
    <3>4. \A p \in Places : g[p] \in -LargestForce .. LargestForce
      BY <2>1, <3>1, <3>2
    <3>5. -LargestForce .. LargestForce \subseteq Int
      BY TimeFacts
    <3>6. g \in Forces /\ Within(g, LargestForce)
      BY <3>3, <3>4, <3>5 DEF Forces, Within
    <3> QED BY <3>6 DEF g, ActuatorOffset
  <2> QED BY <1>2, <2>2 DEF Target
<1>3. CASE watched # "single"
  BY <1>1, <1>3, TableFacts DEF Target
<1> QED BY <1>2, <1>3

LEMMA DemandFacts ==
  ASSUME TypeOK, Within(component.target, LargestForce)
  PROVE  Demand \in Forces /\ Within(Demand, LargestForce)
<1>1. CASE watched \in SampledByUpdate
  <2>1. sample \in Samples[watched]
    BY DEF TypeOK
  <2> QED BY <1>1, <2>1, TargetFacts DEF Demand
<1>2. CASE watched \notin SampledByUpdate
  BY <1>2 DEF Demand, TypeOK, ForceKinds
<1> QED BY <1>1, <1>2

LEMMA DemandKeepsRange ==
  ASSUME TypeOK', Within(component'.target, LargestForce)
  PROVE  Demand' \in Forces /\ Within(Demand', LargestForce)
<1>1. component'.target \in Forces /\ watched' \in Watched /\ ratio' \in Ratios /\ sample' \in Samples[watched']
  BY DEF TypeOK, ForceKinds
<1>2. CASE watched' \in SampledByUpdate
  <2>1. Demand' = Tabled(watched', sample', ratio') /\ watched' # "single"
    BY <1>2 DEF Demand, Target, SampledByUpdate
  <2> QED BY <1>1, <2>1, TableFacts
<1>3. CASE watched' \notin SampledByUpdate
  BY <1>1, <1>3 DEF Demand
<1> QED BY <1>2, <1>3

\* Two forces of a range are no further apart than its ends.
LEMMA RangeFacts ==
  ASSUME NEW f \in Forces, NEW g \in Forces, NEW limit \in Nat, Within(f, limit), Within(g, limit)
  PROVE  Apart(f, g, 2 * limit)
<1>1. ASSUME NEW p \in Places PROVE f[p] - g[p] \in -(2 * limit) .. 2 * limit
  <2>1. f[p] \in -limit .. limit /\ g[p] \in -limit .. limit
    BY DEF Within
  <2> QED BY <2>1
<1> QED BY <1>1 DEF Apart

LEMMA Initially == Init => Inductive
<1> SUFFICES ASSUME Init PROVE Inductive
  OBVIOUS
<1>1. TypeOK
  <2>1. component \in ForceKinds /\ final \in ForceKinds
    BY ZeroFacts DEF Init
  <2>2. sinceSent \in 0 .. MaxDelay /\ settled \in 0 .. SettleTime /\ still \in 0 .. MaxDelay
        /\ changes \in 0 .. MaxChanges
    BY ConstantFacts DEF Init
  <2>3. unsent \in BOOLEAN
    BY DEF Init
  <2>4. disabled \subseteq FAs /\ warned \subseteq FAs /\ limited \subseteq FAs
    BY DEF Init
  <2>5. watched \in Watched /\ sample \in Samples[watched] /\ ratio \in Ratios
    BY DEF Init
  <2> QED BY <2>1, <2>2, <2>3, <2>4, <2>5 DEF TypeOK
<1>2. NotAllDisabled /\ Cardinality(disabled) <= MaxDisabled
  BY FS_EmptySet, ConstantFacts DEF Init, NotAllDisabled
<1>3. HeldBack /\ ClippedForcesArePublished /\ ForcesArrive
  BY ConstantFacts DEF Init, HeldBack, ClippedForcesArePublished, ForcesArrive
<1>4. QuadrantForcesArrive
  BY TimeFacts DEF Init, QuadrantForcesArrive
<1>5. InRange
  BY TimeFacts, ConstantFacts DEF Init, InRange, NoForces, ZeroForces, Within
<1>6. InStep
  <2>1. \A limit \in Nat : Coerced(ZeroForces, limit) = ZeroForces
    <3> SUFFICES ASSUME NEW limit \in Nat PROVE Coerced(ZeroForces, limit) = ZeroForces
      OBVIOUS
    <3>1. \A p \in Places : Coerce(-limit, limit, ZeroForces[p]) = 0
      BY DEF Coerce, ZeroForces
    <3>2. [p \in Places |-> Coerce(-limit, limit, ZeroForces[p])] = ZeroForces
      BY <3>1 DEF ZeroForces
    <3> QED BY <3>2 DEF Coerced
  <2>2. ASSUME NEW a \in FAs
        PROVE  ClipCylinder(ForcesToSetpoints(ZeroForces)[a]) = [primary |-> 0, secondary |-> 0]
    <3>1. \A axis \in Axes : At(ZeroForces, axis, a) = 0
      BY IndexFacts DEF At, ZeroForces
    <3>2. Lateral(a, ZeroForces) = 0
      <4>1. Row[a].orientation \in {"PositiveX", "PositiveY", "NegativeX", "NegativeY"} => AxisOf(a) \in Axes
        BY DEF AxisOf, Axes
      <4> QED BY <3>1, <4>1 DEF Lateral
    <3>3. ForcesToSetpoints(ZeroForces)[a] = [primary |-> 0, secondary |-> 0]
      BY <3>1, <3>2 DEF ForcesToSetpoints, Axes
    <3>4. Coerce(-CylinderLimit, CylinderLimit, 0) = 0
      BY ConstantFacts DEF Coerce
    <3> QED BY <3>3, <3>4 DEF ClipCylinder
  <2>3. cylinders = [a \in FAs |-> ClipCylinder(ForcesToSetpoints(final.applied)[a])]
    BY <2>2 DEF Init, NoForces, NoCylinders
  <2> QED BY <2>1, <2>3, ConstantFacts DEF Init, InStep, NoForces
<1>7. Closer
  <2>1. Demand \in Forces /\ Within(Demand, LargestForce)
    BY <1>1, <1>5, DemandFacts DEF InRange
  <2>2. component.current \in Forces
    BY <1>1 DEF TypeOK, ForceKinds
  <2>3. Apart(Demand, component.current, 2 * LargestForce)
    BY <1>5, <2>1, <2>2, RangeFacts, TimeFacts DEF InRange
  <2>4. Left(2 * LargestForce, 0) = 2 * LargestForce
    BY LeftFacts, TimeFacts
  <2> QED BY <2>3, <2>4, TimeFacts DEF Init, Closer
<1> QED BY <1>1, <1>2, <1>3, <1>4, <1>5, <1>6, <1>7 DEF Inductive

\* After a change the forces have yet to arrive, with their ramps where they were; what is
\* published, and the count of updates that found them unchanged, stay.
LEMMA ChangeKeepsInductive ==
  ASSUME Inductive, Change, TypeOK', NotAllDisabled', (Cardinality(disabled) <= MaxDisabled)',
         Within(component'.target, LargestForce),
         Demand' \in Forces, Within(Demand', LargestForce),
         component'.current = component.current, component'.applied = component.applied,
         UNCHANGED <<final, warned, cylinders, sent, sinceSent>>
  PROVE  Inductive'
<1>1. still' = still /\ settled' = 0
  BY DEF Change
<1>2. HeldBack' /\ ClippedForcesArePublished'
  BY <1>1 DEF Inductive, HeldBack, ClippedForcesArePublished
<1>3. ForcesArrive'
  BY <1>1 DEF ForcesArrive
<1>4. QuadrantForcesArrive'
  BY <1>1, TimeFacts DEF QuadrantForcesArrive
<1>5. InRange'
  BY DEF Inductive, InRange
<1>6. InStep'
  <2>1. component'.applied = Coerced(component'.current, ForceLimit)
        /\ final'.applied = Coerced(final'.current, AppliedLimit)
        /\ cylinders' = [a \in FAs |-> ClipCylinder(ForcesToSetpoints(final'.applied)[a])]
    BY DEF Inductive, InStep
  <2>2. ~(settled' > 0)
    BY <1>1
  <2> QED BY <2>1, <2>2 DEF InStep
<1>7. Closer'
  <2>1. component'.current \in Forces /\ Within(component'.current, LargestForce)
    BY <1>5 DEF TypeOK, ForceKinds, InRange
  <2>2. Apart(Demand', component'.current, 2 * LargestForce)
    BY <2>1, RangeFacts, TimeFacts
  <2>3. Left(2 * LargestForce, 0) = 2 * LargestForce
    <3>1. 2 * LargestForce \in Nat /\ 0 \in Nat
      BY TimeFacts
    <3> QED BY <3>1, LeftFacts
  <2>4. ~(settled' >= RampTime)
    BY <1>1, TimeFacts
  <2> QED BY <1>1, <2>2, <2>3, <2>4 DEF Closer
<1> QED BY <1>2, <1>3, <1>4, <1>5, <1>6, <1>7 DEF Inductive

LEMMA SampleKeepsInductive ==
  ASSUME Inductive, Sample
  PROVE  Inductive'
<1> USE DEF Sample
<1>1. TypeOK /\ Within(component.target, LargestForce)
  BY DEF Inductive, InRange
<1>2. Target(watched, sample', ratio) \in Forces /\ Within(Target(watched, sample', ratio), LargestForce)
  BY <1>1, TargetFacts
<1>3. component' \in ForceKinds /\ Within(component'.target, LargestForce)
      /\ component'.current = component.current /\ component'.applied = component.applied
      /\ (watched \notin SampledByUpdate => component'.target = Target(watched, sample', ratio))
  <2>1. component \in ForceKinds
    BY <1>1 DEF TypeOK
  <2>2. CASE watched \in SampledByUpdate
    BY <1>1, <2>1, <2>2
  <2>3. CASE watched \notin SampledByUpdate
    <3>1. component' = [component EXCEPT !.target = Target(watched, sample', ratio)]
      BY <2>3
    <3> QED BY <1>2, <2>1, <3>1 DEF ForceKinds
  <2> QED BY <2>2, <2>3
<1>4. changes' \in 0 .. MaxChanges /\ settled' \in 0 .. SettleTime /\ still' = still
  BY <1>1, ConstantFacts DEF TypeOK, Change
<1>5. TypeOK'
  BY <1>1, <1>3, <1>4 DEF TypeOK
<1>6. NotAllDisabled' /\ (Cardinality(disabled) <= MaxDisabled)'
  BY DEF Inductive, NotAllDisabled
<1>7. Demand' \in Forces /\ Within(Demand', LargestForce)
  BY <1>3, <1>5, DemandKeepsRange
<1> QED BY <1>3, <1>5, <1>6, <1>7, ChangeKeepsInductive

LEMMA SupportKeepsInductive ==
  ASSUME Inductive, Support
  PROVE  Inductive'
<1> USE DEF Support, outputs
<1>1. changes' \in 0 .. MaxChanges /\ settled' \in 0 .. SettleTime /\ still' = still
  BY ConstantFacts DEF Inductive, TypeOK, Change
<1>2. TypeOK'
  BY <1>1 DEF Inductive, TypeOK
<1>3. NotAllDisabled' /\ (Cardinality(disabled) <= MaxDisabled)'
  BY DEF Inductive, NotAllDisabled
<1>4. Within(component'.target, LargestForce)
  BY DEF Inductive, InRange
<1>5. Demand' \in Forces /\ Within(Demand', LargestForce)
  BY <1>2, <1>4, DemandKeepsRange
<1> QED BY <1>2, <1>3, <1>4, <1>5, ChangeKeepsInductive

LEMMA SwitchKeepsInductive ==
  ASSUME Inductive, Switch
  PROVE  Inductive'
<1> USE DEF Switch, outputs
<1>1. changes' \in 0 .. MaxChanges /\ settled' \in 0 .. SettleTime /\ still' = still
  BY ConstantFacts DEF Inductive, TypeOK, Change
<1>2. disabled' \subseteq FAs
  BY DEF Inductive, TypeOK
<1>3. TypeOK'
  BY <1>1, <1>2 DEF Inductive, TypeOK
<1>4. NotAllDisabled' /\ (Cardinality(disabled) <= MaxDisabled)'
  BY DEF NotAllDisabled
<1>5. Within(component'.target, LargestForce)
  BY DEF Inductive, InRange
<1>6. Demand' \in Forces /\ Within(Demand', LargestForce)
  BY <1>3, <1>5, DemandKeepsRange
<1> QED BY <1>3, <1>4, <1>5, <1>6, ChangeKeepsInductive

-----------------------------------------------------------------------------
(* An update. *)

\* It sends the component to what is asked for and the sum to what the component's forces spread
\* to: its forces are numbers, and what finds itself unchanged is where it was sent.
LEMMA UpdateForcesFacts ==
  ASSUME Inductive, UpdateForces, UNCHANGED <<watched, sample, ratio, disabled>>
  PROVE  LET spread == ApplyForcesByComponents(component'.applied) IN
         /\ component' \in ForceKinds /\ final' \in ForceKinds /\ warned' \subseteq FAs
         /\ Demand \in Forces /\ Within(Demand, LargestForce) /\ Demand' = Demand
         /\ component' = PostUpdateActions(component, Demand, ForceLimit) /\ component'.target = Demand
         /\ component'.applied = Coerced(component'.current, ForceLimit) /\ Within(component'.applied, ForceLimit)
         /\ component'.applied \in Forces /\ spread \in Forces /\ (disabled = {} => spread = component'.applied)
         /\ Within(spread, LargestSum)
         /\ final' = PostUpdateActions(final, spread, AppliedLimit) /\ final'.target = spread
         /\ final'.applied = Coerced(final'.current, AppliedLimit)
         /\ component' = component /\ ClippedAt(component') = {} => component'.applied = Demand
         /\ final' = final /\ ClippedAt(final') = {} => final'.applied = spread
<1> DEFINE target == IF watched \in SampledByUpdate THEN Target(watched, sample, ratio) ELSE component.target
           spread == ApplyForcesByComponents(component'.applied)
<1>1. component \in ForceKinds /\ final \in ForceKinds /\ disabled \subseteq FAs /\ NotAllDisabled
      /\ Cardinality(disabled) <= MaxDisabled
  BY DEF Inductive, TypeOK
<1>2. target = Demand
  BY DEF Demand
<1>3. Demand \in Forces /\ Within(Demand, LargestForce)
  BY DemandFacts DEF Inductive, InRange
<1>4. component' = PostUpdateActions(component, Demand, ForceLimit)
      /\ final' = PostUpdateActions(final, spread, AppliedLimit) /\ warned' = ClippedAt(final')
  <2>1. component' = PostUpdateActions(component, target, ForceLimit)
        /\ final' = PostUpdateActions(final, spread, AppliedLimit) /\ warned' = ClippedAt(final')
    BY DEF UpdateForces
  <2> HIDE DEF target, spread
  <2> QED BY <1>2, <2>1
<1>5. component' \in ForceKinds /\ component'.target = Demand
      /\ (component'.current = component.current => component'.current = Demand)
      /\ (ClippedAt(component') = {} => component'.applied = component'.current)
      /\ component'.applied = Coerced(component'.current, ForceLimit) /\ Within(component'.applied, ForceLimit)
  BY <1>1, <1>3, <1>4, ConstantFacts, PostUpdateFacts
<1>6. component'.applied \in Forces
  BY <1>5 DEF ForceKinds
<1>7. spread \in Forces /\ (disabled = {} => spread = component'.applied) /\ Within(spread, LargestSum)
  BY <1>1, <1>5, <1>6, SpreadFacts, SpreadIsLimited
<1>8. final' \in ForceKinds /\ final'.target = spread
      /\ (final'.current = final.current => final'.current = spread)
      /\ (ClippedAt(final') = {} => final'.applied = final'.current)
      /\ final'.applied = Coerced(final'.current, AppliedLimit)
  <2> HIDE DEF spread
  <2> QED BY <1>1, <1>4, <1>7, ConstantFacts, PostUpdateFacts
<1>9. warned' \subseteq FAs
  BY <1>4, PlaceFacts DEF ClippedAt
<1>10. Demand' = Demand
  <2>1. CASE watched \in SampledByUpdate
    <3>1. watched # "single"
      BY <2>1 DEF SampledByUpdate
    <3> QED BY <2>1, <3>1 DEF Demand, Target
  <2>2. CASE watched \notin SampledByUpdate
    BY <1>5, <2>2 DEF Demand
  <2> QED BY <2>1, <2>2
<1> HIDE DEF target, spread
<1> QED BY <1>3, <1>4, <1>5, <1>6, <1>7, <1>8, <1>9, <1>10 DEF spread

\* What the safety controller is told of clipped forces.
LEMMA NotificationFacts ==
  ASSUME NEW c, NEW f, NEW moments, NEW cut, NEW uneven,
         Notifications(c, f, moments, cut, uneven)
             \intersect {"ComponentClipping", "ForceClipping", "SafetyLimit"} = {}
  PROVE  ClippedAt(c) = {} /\ ClippedAt(f) = {} /\ cut = {}
<1> DEFINE Checks == [ComponentClipping |-> ClippedAt(c) # {},
                      ActiveOpticNetForce |-> watched = "active" /\ ActiveOpticNetForce(ForcesAndMoments(c.applied)),
                      ForceClipping |-> ClippedAt(f) # {},
                      SafetyLimit |-> cut # {},
                      MomentLimit |-> CheckMirrorMoments(moments),
                      NearNeighborCheck |-> \E a \in Enabled : uneven[a],
                      MagnitudeLimit |-> CheckMirrorWeight(f.applied),
                      FarNeighborCheck |-> CheckFarNeighbors(f.applied, moments)]
<1>1. {"ComponentClipping", "ForceClipping", "SafetyLimit"} \subseteq DOMAIN Checks
  OBVIOUS
<1>2. Checks.ComponentClipping = (ClippedAt(c) # {}) /\ Checks.ForceClipping = (ClippedAt(f) # {})
      /\ Checks.SafetyLimit = (cut # {})
  OBVIOUS
<1>3. Notifications(c, f, moments, cut, uneven) = {check \in DOMAIN Checks : Checks[check]}
  BY DEF Notifications
<1> HIDE DEF Checks
<1>4. ~Checks.ComponentClipping /\ ~Checks.ForceClipping /\ ~Checks.SafetyLimit
  BY <1>1, <1>3
<1> QED BY <1>2, <1>4

\* The published forces keep up.
LEMMA PublishedForces ==
  ASSUME Inductive, Update
  PROVE  HeldBack' /\ ClippedForcesArePublished' /\ sinceSent' \in 0 .. MaxDelay
         /\ unsent' \in BOOLEAN /\ still' \in 0 .. MaxDelay
<1> DEFINE kept == component' = component /\ final' = final /\ cylinders' = cylinders
<1>1. still \in 0 .. MaxDelay /\ sinceSent \in 0 .. MaxDelay /\ unsent \in BOOLEAN
  BY DEF Inductive, TypeOK
<1>2. MaxDelay \in Nat /\ MaxDelay > 0
  BY ConstantFacts
<1>3. still' = IF kept THEN Min({still + 1, MaxDelay}) ELSE 0
  BY DEF Update
<1>4. Min({still + 1, MaxDelay}) = (IF still + 1 <= MaxDelay THEN still + 1 ELSE MaxDelay)
      /\ Min({sinceSent + 1, MaxDelay}) = (IF sinceSent + 1 <= MaxDelay THEN sinceSent + 1 ELSE MaxDelay)
  BY <1>1, <1>2, CapFacts
<1>5. still' \in 0 .. MaxDelay
  BY <1>1, <1>2, <1>3, <1>4
<1>6. HeldBack
  BY DEF Inductive
<1>7. IF warned' = {} THEN UNCHANGED <<sent, unsent>> /\ sinceSent' = Min({sinceSent + 1, MaxDelay})
                      ELSE CheckChanges(final'.current)
  BY DEF Update, UpdateForces
<1>8. kept => final'.current = final.current
  OBVIOUS
<1> HIDE DEF kept
<1>9. CASE sent' = final'.current /\ sinceSent' = 1 /\ unsent' = FALSE
  <2>1. HeldBack' /\ ClippedForcesArePublished'
    BY <1>9 DEF HeldBack, ClippedForcesArePublished
  <2>2. sinceSent' \in 0 .. MaxDelay
    BY <1>2, <1>9
  <2>3. unsent' \in BOOLEAN
    BY <1>9
  <2> QED BY <1>5, <2>1, <2>2, <2>3
<1>10. CASE sent' = sent /\ sinceSent' = Min({sinceSent + 1, MaxDelay}) /\ unsent' \in BOOLEAN
            /\ (warned' # {} => sent = final'.current \/ sinceSent < MaxDelay)
  <2>1. sinceSent' \in 0 .. MaxDelay
    BY <1>1, <1>2, <1>4, <1>10
  <2>2. HeldBack'
    <3> SUFFICES ASSUME sent # final'.current PROVE sinceSent' > still' \/ sinceSent' = MaxDelay
      BY <1>10 DEF HeldBack
    <3>1. CASE kept
      <4>1. sinceSent > still \/ sinceSent = MaxDelay
        BY <1>6, <1>8, <3>1 DEF HeldBack
      <4> QED BY <1>1, <1>2, <1>3, <1>4, <1>10, <3>1, <4>1
    <3>2. CASE ~kept
      BY <1>1, <1>2, <1>3, <1>4, <1>10, <3>2
    <3> QED BY <3>1, <3>2
  <2>3. ClippedForcesArePublished'
    <3> SUFFICES ASSUME still' = MaxDelay, warned' # {}, sent # final'.current PROVE FALSE
      BY <1>10 DEF ClippedForcesArePublished
    <3>1. kept /\ sinceSent < MaxDelay
      BY <1>2, <1>3, <1>10
    <3>2. sinceSent > still
      BY <1>1, <1>2, <1>6, <1>8, <3>1 DEF HeldBack
    <3> QED BY <1>1, <1>2, <1>3, <1>4, <3>1, <3>2
  <2> QED BY <1>5, <1>10, <2>1, <2>2, <2>3
<1>11. CASE warned' = {}
  BY <1>1, <1>7, <1>10, <1>11
<1>12. CASE warned' # {}
  <2>1. CheckChanges(final'.current)
    BY <1>7, <1>12
  <2>2. \/ sent' = final'.current /\ sinceSent' = 1 /\ unsent' = FALSE
        \/ /\ ~((sent # final'.current \/ unsent) /\ sinceSent >= MaxDelay)
           /\ unsent' = (unsent \/ sent # final'.current) /\ sent' = sent
           /\ sinceSent' = Min({sinceSent + 1, MaxDelay})
    <3> HIDE DEF Min
    <3> QED BY <2>1, Zenon DEF CheckChanges
  <2>3. sinceSent >= MaxDelay \/ sinceSent < MaxDelay
    BY <1>1, <1>2
  <2>4. unsent' \in BOOLEAN
    BY <2>2, Zenon
  <2> QED BY <1>9, <1>10, <2>2, <2>3, <2>4
<1> QED BY <1>11, <1>12

\* After the time for the component's ramp the component rests.
LEMMA ComponentRests ==
  ASSUME Inductive, Update, settled >= RampTime
  PROVE  component' = component /\ ApplyForcesByComponents(component'.applied) = final.target
<1>1. component \in ForceKinds /\ settled \in Nat /\ settled > 0
  BY TimeFacts, ConstantFacts DEF Inductive, TypeOK
<1>2. component.target = Demand /\ final.target = ApplyForcesByComponents(component.applied)
      /\ component.applied = Coerced(component.current, ForceLimit)
  BY <1>1 DEF Inductive, InStep
<1>3. component' = PostUpdateActions(component, Demand, ForceLimit)
  BY UpdateForcesFacts DEF Update, inputs
<1>4. Left(2 * LargestForce, settled) = 0
  <2> DEFINE m == 2 * LargestForce
  <2>1. m \in Nat /\ settled >= Ramp(m)
    BY TimeFacts DEF RampTime
  <2> HIDE DEF m
  <2>2. Left(m, settled) = 0
    BY <1>1, <2>1, LeftFacts
  <2> QED BY <2>2 DEF m
<1>5. Apart(component.target, component.current, 0)
  BY <1>2, <1>4 DEF Inductive, Closer
<1>6. PostUpdateActions(component, component.target, ForceLimit) = component
  BY <1>1, <1>2, <1>5, ConstantFacts, PostUpdateRests
<1> QED BY <1>2, <1>3, <1>6

\* Counts that an update increases, unless they are at their bound, with no distance left there.
LEMMA CountFacts ==
  ASSUME Inductive, Update
  PROVE  /\ settled \in Nat /\ settled' \in 0 .. SettleTime
         /\ settled' = settled + 1 \/ (settled' = settled /\ settled = SettleTime)
         /\ settled' > 0
         /\ Less(Left(2 * LargestForce, settled)) = Left(2 * LargestForce, settled')
         /\ settled >= RampTime => Less(Left(2 * LargestSum, settled - RampTime))
                                   = Left(2 * LargestSum, settled' - RampTime)
         /\ settled < RampTime /\ settled' >= RampTime => settled' = RampTime
<1>1. settled \in 0 .. SettleTime /\ settled' = Min({settled + 1, SettleTime})
  BY DEF Inductive, TypeOK, Update
<1>2. settled' = IF settled + 1 <= SettleTime THEN settled + 1 ELSE SettleTime
  <2>1. settled + 1 \in Nat /\ SettleTime \in Nat
    BY <1>1, ConstantFacts
  <2> QED BY <1>1, <2>1, CapFacts
<1>3. /\ settled \in Nat /\ settled' \in 0 .. SettleTime /\ settled' > 0
      /\ settled' = settled + 1 \/ (settled' = settled /\ settled = SettleTime)
      /\ settled < RampTime /\ settled' >= RampTime => settled' = RampTime
  <2> DEFINE rest == Ramp(2 * LargestSum)
  <2>1. rest \in Nat /\ SettleTime \in Nat /\ RampTime \in Nat /\ SettleTime > RampTime + rest
    BY TimeFacts, ConstantFacts
  <2> HIDE DEF rest
  <2> QED BY <1>1, <1>2, <2>1
<1> DEFINE m == 2 * LargestForce
           n == 2 * LargestSum
           count == settled - RampTime
           next == settled' - RampTime
<1>4. m \in Nat /\ n \in Nat
  BY TimeFacts
<1>5. settled = SettleTime => settled >= Ramp(m) /\ count >= Ramp(n)
  <2>1. Ramp(n) \in Nat /\ SettleTime \in Nat /\ RampTime \in Nat /\ SettleTime > RampTime + Ramp(n)
    BY TimeFacts, ConstantFacts
  <2>2. Ramp(m) = RampTime
    BY DEF RampTime
  <2> HIDE DEF m, n
  <2> QED BY <2>1, <2>2
<1>6. settled >= RampTime => /\ count \in Nat
                             /\ next = count + 1 \/ (next = count /\ settled = SettleTime)
  <2>1. RampTime \in Nat
    BY TimeFacts
  <2>2. settled >= RampTime => count \in Nat
    BY <1>3, <2>1
  <2>3. settled' = settled + 1 => next = count + 1
    BY <1>3, <2>1
  <2>4. settled' = settled => next = count
    OBVIOUS
  <2> QED BY <1>3, <2>2, <2>3, <2>4
<1> HIDE DEF m, n, count, next
<1>7. Less(Left(m, settled)) = Left(m, settled')
  <2>1. Less(Left(m, settled)) = Left(m, settled + 1) /\ Less(0) = 0
        /\ (settled >= Ramp(m) => Left(m, settled) = 0)
    BY <1>3, <1>4, LeftFacts
  <2> QED BY <1>3, <1>5, <2>1
<1>8. settled >= RampTime => Less(Left(n, count)) = Left(n, next)
  <2> SUFFICES ASSUME settled >= RampTime PROVE Less(Left(n, count)) = Left(n, next)
    OBVIOUS
  <2>1. Less(Left(n, count)) = Left(n, count + 1) /\ Less(0) = 0
        /\ (count >= Ramp(n) => Left(n, count) = 0)
    BY <1>4, <1>6, LeftFacts
  <2> QED BY <1>5, <1>6, <2>1
<1> QED BY <1>3, <1>7, <1>8 DEF m, n, count, next

\* After the time for both ramps, everything does.
LEMMA EverythingRests ==
  ASSUME Inductive, Update, settled' = SettleTime
  PROVE  still' > 0
<1>1. settled \in Nat /\ settled >= RampTime + Ramp(2 * LargestSum)
  BY CountFacts, TimeFacts
<1>2. settled >= RampTime /\ settled - RampTime \in Nat /\ settled - RampTime >= Ramp(2 * LargestSum)
  BY <1>1, TimeFacts
<1>3. component' = component /\ ApplyForcesByComponents(component'.applied) = final.target
  BY <1>2, ComponentRests
<1>4. final' = final
  <2>1. final \in ForceKinds /\ final.applied = Coerced(final.current, AppliedLimit)
    BY DEF Inductive, TypeOK, InStep
  <2>2. Left(2 * LargestSum, settled - RampTime) = 0
    <3> DEFINE m == 2 * LargestSum
               n == settled - RampTime
    <3>1. m \in Nat /\ n \in Nat /\ n >= Ramp(m)
      BY <1>2, TimeFacts
    <3> HIDE DEF m, n
    <3>2. Left(m, n) = 0
      BY <3>1, LeftFacts
    <3> QED BY <3>2 DEF m, n
  <2>3. Apart(final.target, final.current, 0)
    BY <1>2, <2>2 DEF Inductive, Closer
  <2>4. final' = PostUpdateActions(final, ApplyForcesByComponents(component'.applied), AppliedLimit)
    BY DEF Update, UpdateForces
  <2> QED BY <1>3, <2>1, <2>3, <2>4, ConstantFacts, PostUpdateRests
<1>5. cylinders' = cylinders
  <2>1. cylinders' = [a \in FAs |-> ClipCylinder(ForcesToSetpoints(final'.applied)[a])]
    BY DEF Update, Setpoints
  <2> QED BY <1>4, <2>1 DEF Inductive, InStep
<1>6. still' = Min({still + 1, MaxDelay})
  BY <1>3, <1>4, <1>5 DEF Update
<1>7. still \in 0 .. MaxDelay
  BY DEF Inductive, TypeOK
<1>8. Min({still + 1, MaxDelay}) = IF still + 1 <= MaxDelay THEN still + 1 ELSE MaxDelay
  BY <1>7, ConstantFacts, CapFacts
<1> HIDE DEF Min
<1> QED BY <1>6, <1>7, <1>8, ConstantFacts

\* An update takes both ramps a step further.
LEMMA UpdateKeepsRamps ==
  ASSUME Inductive, Update
  PROVE  InStep' /\ InRange' /\ Closer'
<1> DEFINE spread == ApplyForcesByComponents(component'.applied)
<1>1. UNCHANGED <<watched, sample, ratio, disabled>>
  BY DEF Update, inputs
<1>2. component \in ForceKinds /\ final \in ForceKinds
  BY DEF Inductive, TypeOK
<1>3. /\ Demand \in Forces /\ Within(Demand, LargestForce) /\ Demand' = Demand
      /\ component' = PostUpdateActions(component, Demand, ForceLimit) /\ component'.target = Demand
      /\ component'.applied = Coerced(component'.current, ForceLimit) /\ Within(component'.applied, ForceLimit)
      /\ spread \in Forces /\ Within(spread, LargestSum)
      /\ final' = PostUpdateActions(final, spread, AppliedLimit) /\ final'.target = spread
      /\ final'.applied = Coerced(final'.current, AppliedLimit) /\ final' \in ForceKinds
  BY <1>1, UpdateForcesFacts DEF Update
<1>4. spread = ApplyForcesByComponents(component.applied)'
  BY <1>1 DEF ApplyForcesByComponents
<1> HIDE DEF spread
<1>5. InStep'
  <2>1. cylinders' = [a \in FAs |-> ClipCylinder(ForcesToSetpoints(final'.applied)[a])]
    BY DEF Update, Setpoints
  <2>2. component'.target = Demand' /\ final'.target = ApplyForcesByComponents(component.applied)'
    BY <1>3, <1>4
  <2> QED BY <1>3, <2>1, <2>2 DEF InStep
<1>6. /\ Within(component.current, LargestForce) /\ Within(final.current, LargestSum)
      /\ Apart(Demand, component.current, Left(2 * LargestForce, settled))
      /\ settled >= RampTime => Apart(final.target, final.current, Left(2 * LargestSum, settled - RampTime))
  BY DEF Inductive, InRange, Closer
<1>7. Within(component'.current, LargestForce)
      /\ Apart(Demand, component'.current, Less(Left(2 * LargestForce, settled)))
  <2> DEFINE distance == Left(2 * LargestForce, settled)
  <2>1. distance \in Nat
    <3> DEFINE m == 2 * LargestForce
    <3>1. m \in Nat /\ settled \in Nat
      BY TimeFacts, CountFacts
    <3> HIDE DEF m
    <3>2. Left(m, settled) \in Nat
      BY <3>1, LeftFacts
    <3> QED BY <3>2 DEF m
  <2>2. Apart(Demand, component.current, distance)
    BY <1>6
  <2> HIDE DEF distance
  <2>3. Within(component'.current, LargestForce) /\ Apart(Demand, component'.current, Less(distance))
    BY <1>2, <1>3, <1>6, <2>1, <2>2, ConstantFacts, TimeFacts, PostUpdateCloses
  <2> QED BY <2>3 DEF distance
<1>8. \A distance \in Nat : Apart(spread, final.current, distance)
          => Within(final'.current, LargestSum) /\ Apart(spread, final'.current, Less(distance))
  BY <1>2, <1>3, <1>6, ConstantFacts, TimeFacts, PostUpdateCloses
<1>9. Within(final'.current, LargestSum)
  <2>1. final.current \in Forces /\ 2 * LargestSum \in Nat
    BY <1>2, TimeFacts DEF ForceKinds
  <2>2. Apart(spread, final.current, 2 * LargestSum)
    BY <1>3, <1>6, <2>1, TimeFacts, RangeFacts
  <2> QED BY <1>8, <2>1, <2>2
<1>10. InRange'
  BY <1>3, <1>7, <1>9 DEF InRange
<1>11. Closer'
  <2>1. Apart(Demand', component'.current, Left(2 * LargestForce, settled'))
    BY <1>3, <1>7, CountFacts
  <2>2. ASSUME settled' >= RampTime
        PROVE  Apart(final'.target, final'.current, Left(2 * LargestSum, settled' - RampTime))
    <3>1. CASE settled >= RampTime
      <4> DEFINE distance == Left(2 * LargestSum, settled - RampTime)
      <4>1. distance \in Nat
        <5> DEFINE m == 2 * LargestSum
                   n == settled - RampTime
        <5>1. m \in Nat /\ n \in Nat
          BY <3>1, TimeFacts, CountFacts
        <5> HIDE DEF m, n
        <5>2. Left(m, n) \in Nat
          BY <5>1, LeftFacts
        <5> QED BY <5>2 DEF m, n
      <4>2. spread = final.target
        BY <3>1, ComponentRests DEF spread
      <4>3. Apart(spread, final.current, distance)
        BY <1>6, <3>1, <4>2
      <4>4. Less(distance) = Left(2 * LargestSum, settled' - RampTime)
        BY <3>1, CountFacts
      <4> HIDE DEF distance
      <4> QED BY <1>3, <1>8, <4>1, <4>3, <4>4
    <3>2. CASE settled < RampTime
      <4>1. settled' = RampTime
        BY <2>2, <3>2, CountFacts
      <4>2. Left(2 * LargestSum, settled' - RampTime) = 2 * LargestSum
        <5> DEFINE m == 2 * LargestSum
        <5>1. m \in Nat /\ 0 \in Nat /\ settled' - RampTime = 0
          BY <4>1, TimeFacts
        <5> HIDE DEF m
        <5>2. Left(m, 0) = m
          BY <5>1, LeftFacts
        <5> QED BY <5>1, <5>2 DEF m
      <4>3. final'.current \in Forces
        BY <1>3 DEF ForceKinds
      <4>4. Apart(spread, final'.current, 2 * LargestSum)
        BY <1>3, <1>9, <4>3, TimeFacts, RangeFacts
      <4> QED BY <1>3, <4>2, <4>4
    <3> QED BY <3>1, <3>2, CountFacts, TimeFacts
  <2> QED BY <2>1, <2>2 DEF Closer
<1> QED BY <1>5, <1>10, <1>11

\* Forces that rest have arrived, at their actuators and in their quadrants.
LEMMA RestingForces ==
  ASSUME Inductive, Update, still' > 0, Unlimited'
  PROVE  /\ component' = component /\ final' = final /\ cylinders' = cylinders
         /\ UNCHANGED <<watched, sample, ratio, disabled>> /\ limited' = {}
         /\ Demand' \in Forces /\ final'.applied = ApplyForcesByComponents(Demand')
         /\ disabled = {} => final'.applied = Demand'
<1>1. component' = component /\ final' = final /\ cylinders' = cylinders
      /\ UNCHANGED <<watched, sample, ratio, disabled>>
  BY DEF Update, inputs
<1>2. ClippedAt(component') = {} /\ ClippedAt(final') = {} /\ limited' = {}
  <2>1. PICK moments : notified' = Notifications(component', final', moments, limited', near')
    BY DEF Update, ProcessAppliedForces
  <2>2. Notifications(component', final', moments, limited', near')
            \intersect {"ComponentClipping", "ForceClipping", "SafetyLimit"} = {}
    BY <2>1 DEF Unlimited
  <2> QED BY <2>2, NotificationFacts
<1> DEFINE spread == ApplyForcesByComponents(component'.applied)
<1>3. /\ component' = component /\ ClippedAt(component') = {} => component'.applied = Demand
      /\ final' = final /\ ClippedAt(final') = {} => final'.applied = spread
      /\ disabled = {} => spread = component'.applied
      /\ Demand \in Forces /\ Demand' = Demand
  BY <1>1, UpdateForcesFacts DEF Update
<1>4. component'.applied = Demand' /\ final'.applied = spread
  <2> HIDE DEF spread
  <2> QED BY <1>1, <1>2, <1>3
<1>5. spread = ApplyForcesByComponents(Demand')
  BY <1>4
<1> HIDE DEF spread
<1> QED BY <1>1, <1>2, <1>3, <1>4, <1>5

LEMMA UpdateArrives ==
  ASSUME Inductive, Update
  PROVE  ForcesArrive'
<1> SUFFICES ASSUME still' > 0, disabled' = {}, Unlimited'
             PROVE  Arrived'
  BY DEF ForcesArrive
<1>1. final'.applied = Demand' /\ Demand' \in Forces /\ cylinders' = cylinders /\ limited' = {} /\ disabled = {}
  BY RestingForces
<1>2. ASSUME NEW a \in FAs
      PROVE  measured'[a] = ForcesToSetpoints(Demand')[a]
  <2>1. cylinders'[a] = ForcesToSetpoints(final'.applied)[a]
    BY <1>1 DEF Update, Setpoints
  <2>2. measured'[a] = cylinders[a]
    BY <1>1 DEF Update, Exchange, Enabled
  <2> QED BY <1>1, <2>1, <2>2
<1>3. ASSUME NEW a \in FAs
      PROVE  /\ ToMirror(a, measured'[a]).z = At(Demand', "z", a)
             /\ AxisOf(a) # "NA" => ToMirror(a, measured'[a]).lateral = At(Demand', AxisOf(a), a)
  BY <1>1, <1>2, ConversionsAgree
<1> QED BY <1>3 DEF Arrived

LEMMA UpdateServesQuadrants ==
  ASSUME Inductive, Update
  PROVE  QuadrantForcesArrive'
<1>1. settled' = SettleTime => still' > 0
  BY EverythingRests
<1>2. ASSUME still' > 0, Unlimited', NEW q \in Quadrants
      PROVE  Sum("z", final'.applied, Quadrant["z"][q]) + Undivided(Demand, q)'
             = Sum("z", Demand', Quadrant["z"][q])
  <2>1. Demand' \in Forces /\ final'.applied = ApplyForcesByComponents(Demand') /\ disabled' = disabled
    BY <1>2, RestingForces
  <2>2. Undivided(Demand, q)' = Undivided(Demand', q)
    BY <2>1 DEF Undivided
  <2>3. disabled \subseteq FAs /\ NotAllDisabled
    BY DEF Inductive, TypeOK
  <2>4. Sum("z", ApplyForcesByComponents(Demand'), Quadrant["z"][q]) + Undivided(Demand', q)
        = Sum("z", Demand', Quadrant["z"][q])
    BY <2>1, <2>3, QuadrantKeepsZ
  <2> QED BY <2>1, <2>2, <2>4
<1> QED BY <1>1, <1>2 DEF QuadrantForcesArrive

LEMMA UpdateKeepsInductive ==
  ASSUME Inductive, Update
  PROVE  Inductive'
<1>1. component' \in ForceKinds /\ final' \in ForceKinds /\ warned' \subseteq FAs
  BY UpdateForcesFacts DEF Update, inputs
<1>2. settled' \in 0 .. SettleTime
  BY CountFacts
<1>3. limited' \subseteq FAs
  BY DEF Update, Setpoints
<1>4. UNCHANGED <<watched, sample, ratio, disabled, changes>>
  BY DEF Update, inputs
<1>5. TypeOK'
  BY <1>1, <1>2, <1>3, <1>4, PublishedForces DEF Inductive, TypeOK
<1>6. NotAllDisabled' /\ (Cardinality(disabled) <= MaxDisabled)'
  BY <1>4 DEF Inductive, NotAllDisabled
<1> QED BY <1>5, <1>6, PublishedForces, UpdateKeepsRamps, UpdateArrives, UpdateServesQuadrants DEF Inductive

LEMMA StepKeepsInductive == Inductive /\ [Next]_vars => Inductive'
<1> SUFFICES ASSUME Inductive, [Next]_vars PROVE Inductive'
  OBVIOUS
<1>1. CASE UNCHANGED vars
  <2> USE <1>1 DEF vars
  <2>1. Demand' = Demand
    BY DEF Demand, Target, ActuatorOffset
  <2>2. TypeOK' /\ NotAllDisabled' /\ (Cardinality(disabled) <= MaxDisabled)'
    BY DEF Inductive, TypeOK, NotAllDisabled
  <2>3. HeldBack' /\ ClippedForcesArePublished'
    BY DEF Inductive, HeldBack, ClippedForcesArePublished
  <2>4. ForcesArrive'
    BY <2>1 DEF Inductive, ForcesArrive, Arrived, Unlimited
  <2>5. QuadrantForcesArrive'
    BY <2>1 DEF Inductive, QuadrantForcesArrive, Unlimited, Undivided
  <2>6. ApplyForcesByComponents(component.applied)' = ApplyForcesByComponents(component.applied)
    BY DEF ApplyForcesByComponents
  <2>7. InStep'
    BY <2>1, <2>6 DEF Inductive, InStep
  <2>8. InRange' /\ Closer'
    BY <2>1 DEF Inductive, InRange, Closer
  <2> QED BY <2>2, <2>3, <2>4, <2>5, <2>7, <2>8 DEF Inductive
<1> QED BY <1>1, SampleKeepsInductive, SupportKeepsInductive, SwitchKeepsInductive,
           UpdateKeepsInductive DEF Next

\* Every force, set point and count is of its kind and within its range, no quadrant is without
\* an actuator, both ramps come closer by every update, and publication is never further behind
\* than its delay, in every execution.
THEOREM InductiveInvariant == Spec => []Inductive
<1> QED BY Initially, StepKeepsInductive, PTL DEF Spec

\* What the tables ask of an actuator is what it reports once an update finds nothing to do,
\* unless a limit clips it or an actuator is disabled: the indices of axes and actuators, both
\* ramps and the conversions to cylinders and back agree, whatever the tables are.
THEOREM ForcesReachTheirActuators == Spec => []ForcesArrive
<1>1. Inductive => ForcesArrive
  BY DEF Inductive
<1> QED BY <1>1, InductiveInvariant, PTL

\* Both ramps, one after the other, end within the time that SettleAssumption leaves them, and
\* then every quadrant gets the z force meant for it, whichever of its actuators are disabled.
THEOREM ForcesReachTheirQuadrants == Spec => []QuadrantForcesArrive
<1>1. Inductive => QuadrantForcesArrive
  BY DEF Inductive
<1> QED BY <1>1, InductiveInvariant, PTL

\* Clipped forces that have not changed for the whole delay have been published, whatever
\* changes were held back before.
THEOREM ClippedForcesAreKnown == Spec => []ClippedForcesArePublished
<1>1. Inductive => ClippedForcesArePublished
  BY DEF Inductive
<1> QED BY <1>1, InductiveInvariant, PTL

=============================================================================
