---------------------------- MODULE WeightLemmas ----------------------------
(***************************************************************************)
(* What adding an element to a set, removing one, or changing one value of *)
(* a function does to Total(S, f).  The ledgers' proofs rest on these.     *)
(***************************************************************************)
EXTENDS Holds, FunctionTheorems, FiniteSetTheorems, TLAPS

(* An element contributes exactly n units.                                 *)
LEMMA UnitsOfCount ==
    ASSUME NEW x, NEW n \in Nat
    PROVE  IsFiniteSet(UnitsOf(x, n)) /\ Cardinality(UnitsOf(x, n)) = n
<1>1. IsFiniteSet({x}) /\ Cardinality({x}) = 1
  BY FS_Singleton
<1>2. IsFiniteSet(1 .. n) /\ Cardinality(1 .. n) = n
  BY FS_Interval
<1>3. /\ IsFiniteSet({x} \X (1 .. n))
      /\ Cardinality({x} \X (1 .. n)) = Cardinality({x}) * Cardinality(1 .. n)
  BY <1>1, <1>2, FS_Product
<1>4. Cardinality({x} \X (1 .. n)) = n
  BY <1>1, <1>2, <1>3
<1>5. QED
  BY <1>3, <1>4 DEF UnitsOf

(* A finite set with natural weights has finitely many units.              *)
LEMMA UnitsFinite ==
    ASSUME NEW S, IsFiniteSet(S), NEW f, \A x \in S : f[x] \in Nat
    PROVE  IsFiniteSet(Units(S, f)) /\ Total(S, f) \in Nat
<1> DEFINE T == {UnitsOf(x, f[x]) : x \in S}
           g == [x \in S |-> UnitsOf(x, f[x])]
<1>1. g \in Surjection(S, T)
  BY DEF Surjection
<1>2. IsFiniteSet(T)
  BY <1>1, FS_Surjection
<1>3. \A u \in T : IsFiniteSet(u)
  BY UnitsOfCount
<1>4. IsFiniteSet(UNION T)
  BY <1>2, <1>3, FS_UNION
<1>5. IsFiniteSet(Units(S, f))
  BY <1>4 DEF Units
<1>6. QED
  BY <1>5, FS_CardinalityType DEF Total

(* Two functions that agree on S have the same total over S.               *)
LEMMA TotalSame ==
    ASSUME NEW S, NEW f, NEW g, \A x \in S : f[x] = g[x]
    PROVE  Total(S, f) = Total(S, g)
<1>1. Units(S, f) = Units(S, g)
  BY DEF Units
<1>2. QED
  BY <1>1 DEF Total

(* The total over the empty set is zero.                                   *)
LEMMA TotalEmpty == ASSUME NEW f PROVE Total({}, f) = 0
<1>1. Units({}, f) = {}
  BY DEF Units
<1>2. QED
  BY <1>1, FS_EmptySet DEF Total

(* A new element adds its weight.                                          *)
LEMMA TotalAdd ==
    ASSUME NEW S, IsFiniteSet(S), NEW x, x \notin S,
           NEW f, \A y \in S \cup {x} : f[y] \in Nat
    PROVE  Total(S \cup {x}, f) = Total(S, f) + f[x]
<1>1. IsFiniteSet(Units(S, f)) /\ Total(S, f) \in Nat
  BY UnitsFinite
<1>2. IsFiniteSet(UnitsOf(x, f[x])) /\ Cardinality(UnitsOf(x, f[x])) = f[x]
  BY UnitsOfCount
<1>3. Units(S \cup {x}, f) = Units(S, f) \cup UnitsOf(x, f[x])
  BY DEF Units
<1>4. Units(S, f) \cap UnitsOf(x, f[x]) = {}
  BY DEF Units, UnitsOf
<1>5. Cardinality(Units(S, f) \cap UnitsOf(x, f[x])) = 0
  BY <1>4, FS_EmptySet
<1>6. Cardinality(Units(S, f) \cup UnitsOf(x, f[x]))
        = Cardinality(Units(S, f)) + Cardinality(UnitsOf(x, f[x])) - 0
  BY <1>1, <1>2, <1>5, FS_Union
<1>7. Total(S \cup {x}, f) = Cardinality(Units(S, f) \cup UnitsOf(x, f[x]))
  BY <1>3, Zenon DEF Total
<1>8. f[x] \in Nat
  OBVIOUS
<1>9. Total(S \cup {x}, f) = Total(S, f) + f[x] - 0
  BY <1>2, <1>6, <1>7, Zenon DEF Total
<1>10. QED
  BY <1>1, <1>8, <1>9

(* Removing an element removes its weight.                                 *)
LEMMA TotalRemove ==
    ASSUME NEW S, IsFiniteSet(S), NEW x \in S,
           NEW f, \A y \in S : f[y] \in Nat
    PROVE  /\ Total(S \ {x}, f) = Total(S, f) - f[x]
           /\ Total(S, f) >= f[x]
           /\ Total(S \ {x}, f) \in Nat
<1> DEFINE R == S \ {x}
<1>1. IsFiniteSet(R) /\ x \notin R /\ R \cup {x} = S
  BY FS_RemoveElement
<1>2. Total(R \cup {x}, f) = Total(R, f) + f[x]
  BY <1>1, TotalAdd
<1>3. Total(R, f) \in Nat
  BY <1>1, UnitsFinite
<1>4. Total(S, f) = Total(R, f) + f[x]
  BY <1>1, <1>2, Zenon
<1>5. f[x] \in Nat
  OBVIOUS
<1>6. /\ Total(R, f) = Total(S, f) - f[x]
      /\ Total(S, f) >= f[x]
  <2> HIDE DEF R
  <2>1. QED BY <1>3, <1>4, <1>5
<1>7. QED
  BY <1>3, <1>6

(* Raising the weight of one element raises the total by as much.          *)
LEMMA TotalRaise ==
    ASSUME NEW S, IsFiniteSet(S), NEW x \in S, NEW n \in Nat,
           NEW f, NEW g, \A y \in S : f[y] \in Nat,
           \A y \in S \ {x} : g[y] = f[y], g[x] = f[x] + n
    PROVE  Total(S, g) = Total(S, f) + n
<1>1. \A y \in S : g[y] \in Nat
  OBVIOUS
<1>2. Total(S \ {x}, f) = Total(S, f) - f[x] /\ Total(S \ {x}, f) \in Nat
  BY TotalRemove
<1>3. Total(S \ {x}, g) = Total(S, g) - g[x] /\ Total(S \ {x}, g) \in Nat
  BY <1>1, TotalRemove
<1>4. Total(S \ {x}, g) = Total(S \ {x}, f)
  BY TotalSame
<1>5. Total(S, f) \in Nat /\ Total(S, g) \in Nat
  BY <1>1, UnitsFinite
<1>6. QED
  BY <1>2, <1>3, <1>4, <1>5

(* A total splits along any subset.                                        *)
LEMMA TotalSplit ==
    ASSUME NEW S, IsFiniteSet(S), NEW A \in SUBSET S,
           NEW f, \A x \in S : f[x] \in Nat
    PROVE  /\ Total(S, f) = Total(A, f) + Total(S \ A, f)
           /\ Total(A, f) \in Nat /\ Total(S \ A, f) \in Nat
<1>1. IsFiniteSet(A) /\ IsFiniteSet(S \ A)
  BY FS_Subset
<1>2. /\ IsFiniteSet(Units(A, f)) /\ Total(A, f) \in Nat
      /\ IsFiniteSet(Units(S \ A, f)) /\ Total(S \ A, f) \in Nat
  BY <1>1, UnitsFinite
<1>3. Units(S, f) = Units(A, f) \cup Units(S \ A, f)
  BY DEF Units
<1>4. Units(A, f) \cap Units(S \ A, f) = {}
  BY DEF Units, UnitsOf
<1>5. Cardinality(Units(A, f) \cap Units(S \ A, f)) = 0
  BY <1>4, FS_EmptySet
<1>6. Cardinality(Units(A, f) \cup Units(S \ A, f))
        = Cardinality(Units(A, f)) + Cardinality(Units(S \ A, f)) - 0
  BY <1>2, <1>5, FS_Union
<1>7. Total(S, f) = Total(A, f) + Total(S \ A, f) - 0
  BY <1>3, <1>6, Zenon DEF Total
<1>8. QED
  BY <1>2, <1>7

(* A larger weight everywhere makes a larger total.                        *)
LEMMA TotalMono ==
    ASSUME NEW S, IsFiniteSet(S), NEW f, NEW g,
           \A x \in S : f[x] \in Nat /\ g[x] \in Nat /\ f[x] <= g[x]
    PROVE  Total(S, f) <= Total(S, g)
<1>1. IsFiniteSet(Units(S, g))
  BY UnitsFinite
<1>2. Units(S, f) \subseteq Units(S, g)
  <2>1. \A x \in S : 1 .. f[x] \subseteq 1 .. g[x]
    OBVIOUS
  <2> QED  BY <2>1 DEF Units, UnitsOf
<1>3. QED
  BY <1>1, <1>2, FS_Subset DEF Total

(* A constant weight is counted once for each element.                     *)
LEMMA TotalConst ==
    ASSUME NEW S, IsFiniteSet(S), NEW k \in Nat
    PROVE  Total(S, [x \in S |-> k]) = Cardinality(S) * k
<1>1. Units(S, [x \in S |-> k]) = S \X (1 .. k)
  BY DEF Units, UnitsOf
<1>2. IsFiniteSet(1 .. k) /\ Cardinality(1 .. k) = k
  BY FS_Interval
<1>3. Cardinality(S \X (1 .. k)) = Cardinality(S) * Cardinality(1 .. k)
  BY <1>2, FS_Product
<1>4. QED
  BY <1>1, <1>2, <1>3 DEF Total

(* The total of a sum is the sum of the totals: the units of g follow      *)
(* those of f.                                                             *)
LEMMA TotalSum ==
    ASSUME NEW S, IsFiniteSet(S), NEW f, NEW g,
           \A x \in S : f[x] \in Nat /\ g[x] \in Nat
    PROVE  Total(S, [x \in S |-> f[x] + g[x]]) = Total(S, f) + Total(S, g)
<1> DEFINE h == [x \in S |-> f[x] + g[x]]
           shift == [u \in Units(S, g) |-> <<u[1], f[u[1]] + u[2]>>]
           Moved == {shift[u] : u \in Units(S, g)}
<1>1. /\ IsFiniteSet(Units(S, f)) /\ Total(S, f) \in Nat
      /\ IsFiniteSet(Units(S, g)) /\ Total(S, g) \in Nat
  BY UnitsFinite
<1>2. \A u \in Units(S, g) :
        u = <<u[1], u[2]>> /\ u[1] \in S /\ u[2] \in 1 .. g[u[1]]
  BY DEF Units, UnitsOf
<1>3. \A u \in Units(S, f) :
        u = <<u[1], u[2]>> /\ u[1] \in S /\ u[2] \in 1 .. f[u[1]]
  BY DEF Units, UnitsOf
<1>4. \A u, v \in Units(S, g) : shift[u] = shift[v] => u = v
  <2> SUFFICES ASSUME NEW u \in Units(S, g), NEW v \in Units(S, g),
                      shift[u] = shift[v]
               PROVE  u = v
    OBVIOUS
  <2>1. u[1] = v[1] /\ f[u[1]] + u[2] = f[v[1]] + v[2]
    OBVIOUS
  <2>2. u[2] \in Nat /\ v[2] \in Nat /\ f[u[1]] \in Nat
    BY <1>2
  <2>3. u[2] = v[2]
    BY <2>1, <2>2
  <2> QED  BY <1>2, <2>1, <2>3
<1>5. shift \in Bijection(Units(S, g), Moved)
  BY <1>4 DEF Bijection, Injection, Surjection, IsInjective
<1>6. IsFiniteSet(Moved) /\ Cardinality(Moved) = Cardinality(Units(S, g))
  <2>1. ExistsBijection(Units(S, g), Moved)
    BY <1>5 DEF ExistsBijection
  <2> QED  BY <1>1, <2>1, FS_Bijection
<1>7. Units(S, f) \cap Moved = {}
  <2> SUFFICES \A u \in Units(S, g) : shift[u] \notin Units(S, f)
    OBVIOUS
  <2> SUFFICES ASSUME NEW u \in Units(S, g), shift[u] \in Units(S, f)
               PROVE  FALSE
    OBVIOUS
  <2>1. shift[u][1] = u[1] /\ shift[u][2] = f[u[1]] + u[2]
    OBVIOUS
  <2>2. f[u[1]] + u[2] \in 1 .. f[u[1]]
    BY <1>3, <2>1
  <2>3. u[2] >= 1 /\ u[2] \in Nat /\ f[u[1]] \in Nat
    BY <1>2
  <2> QED  BY <2>2, <2>3
<1>8. Units(S, h) = Units(S, f) \cup Moved
  <2>1. \A x \in S : \A i \in 1 .. f[x] + g[x] : <<x, i>> \in Units(S, f) \cup Moved
    <3> SUFFICES ASSUME NEW x \in S, NEW i \in 1 .. f[x] + g[x], ~(i <= f[x])
                 PROVE  <<x, i>> \in Moved
      <4>1. \A x \in S : \A i \in 1 .. f[x] + g[x] : i <= f[x] => <<x, i>> \in Units(S, f)
        BY DEF Units, UnitsOf
      <4> QED  BY <4>1
    <3>1. i - f[x] \in 1 .. g[x] /\ f[x] + (i - f[x]) = i
      OBVIOUS
    <3>2. <<x, i - f[x]>> \in Units(S, g)
      BY <3>1 DEF Units, UnitsOf
    <3>3. shift[<<x, i - f[x]>>] = <<x, i>>
      BY <3>1, <3>2
    <3> QED  BY <3>2, <3>3
  <2>2. Units(S, h) \subseteq Units(S, f) \cup Moved
    <3>1. \A u \in Units(S, h) : \E x \in S : \E i \in 1 .. f[x] + g[x] : u = <<x, i>>
      BY DEF Units, UnitsOf
    <3> QED  BY <2>1, <3>1
  <2>3. \A x \in S : \A i \in 1 .. f[x] + g[x] : <<x, i>> \in Units(S, h)
    BY DEF Units, UnitsOf
  <2>4. Units(S, f) \subseteq Units(S, h)
    <3>1. \A u \in Units(S, f) : u[2] \in 1 .. f[u[1]] + g[u[1]]
      BY <1>3
    <3> QED  BY <1>3, <2>3, <3>1
  <2>5. Moved \subseteq Units(S, h)
    <3>1. \A u \in Units(S, g) : f[u[1]] + u[2] \in 1 .. f[u[1]] + g[u[1]]
      BY <1>2
    <3> QED  BY <1>2, <2>3, <3>1
  <2> QED  BY <2>2, <2>4, <2>5
<1>9. Cardinality(Units(S, f) \cap Moved) = 0
  BY <1>7, FS_EmptySet
<1>10. Cardinality(Units(S, f) \cup Moved)
         = Cardinality(Units(S, f)) + Cardinality(Moved) - 0
  BY <1>1, <1>6, <1>9, FS_Union
<1>11. Total(S, h) = Total(S, f) + Total(S, g) - 0
  BY <1>6, <1>8, <1>10, Zenon DEF Total
<1> HIDE DEF h
<1>12. Total(S, h) = Total(S, f) + Total(S, g)
  BY <1>1, <1>11
<1> QED  BY <1>12 DEF h
=============================================================================
