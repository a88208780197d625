---------------------------- MODULE PlanningProofs ----------------------------
(***************************************************************************)
(* Proofs about Planning, for all plans, tasks, sessions and sizes: what a *)
(* turn is shown of its plan, and what complete_step does to the files.    *)
(***************************************************************************)
EXTENDS Planning, FiniteSetTheorems, WellFoundedInduction, TLAPS

(***************************************************************************)
(* The prompt.  The layers that are left after n drops are those of rank n *)
(* or more, in the order offered; the size of distinct layers is a sum     *)
(* that knows no order.                                                    *)
(***************************************************************************)

(* The least number principle.                                              *)
LEMMA LeastExists ==
  ASSUME NEW S, S \subseteq Nat, S # {}
  PROVE  \E x \in S : \A y \in S : x <= y
<1> DEFINE R == OpToRel(<, Nat)
<1>1. IsWellFoundedOn(R, Nat)
  BY NatLessThanWellFounded
<1>2. \A x, y \in Nat : y < x => <<y, x>> \in R
  BY DEF OpToRel
<1> HIDE DEF R
<1>3. PICK x \in S : \A y \in S : ~(<<y, x>> \in R)
  BY <1>1, WFMin
<1>4. \A y \in S : ~(y < x)
  BY <1>2, <1>3
<1> QED BY <1>4

Distinct(layers) ==
  /\ layers \in Seq(Layers)
  /\ \A i, j \in DOMAIN layers : layers[i] = layers[j] => i = j

-----------------------------------------------------------------------------
(* The size of distinct layers is the sum over the five there can be.       *)

Share(l, L) == IF l \in L THEN Sizes[l] ELSE 0
Weight(L) == Share("planning", L) + Share("knowledge", L) + Share("plan", L)
               + Share("findings", L) + Share("task", L)

LEMMA WeightFacts ==
  /\ Weight({}) = 0
  /\ \A L : Weight(L) \in Nat
  /\ \A L \in SUBSET Layers : \A l \in Layers \ L : Weight(L \cup {l}) = Sizes[l] + Weight(L)
<1>1. \A l \in Layers : Sizes[l] \in Nat
  BY SizesAssumption
<1>2. \A L : \A l \in Layers : Share(l, L) \in Nat
  BY <1>1 DEF Share
<1>3. \A L : Weight(L) \in Nat
  BY <1>2 DEF Weight, Layers
<1>4. \A l : Share(l, {}) = 0
  BY DEF Share
<1>5. Weight({}) = 0
  BY <1>4 DEF Weight
<1>6. ASSUME NEW L \in SUBSET Layers, NEW l \in Layers \ L
      PROVE  Weight(L \cup {l}) = Sizes[l] + Weight(L)
  <2>1. \A k \in Layers \ {l} : Share(k, L \cup {l}) = Share(k, L)
    BY DEF Share
  <2>2. Share(l, L \cup {l}) = Sizes[l] /\ Share(l, L) = 0
    BY DEF Share
  <2>3. \A k \in Layers : Share(k, L) \in Nat /\ Share(k, L \cup {l}) \in Nat
    BY <1>2
  <2>4. Sizes[l] \in Nat
    BY <1>1
  <2> DEFINE Added(k) == IF k = l THEN Sizes[l] ELSE 0
             M == L \cup {l}
  <2>5. \A k \in Layers : Share(k, M) = Share(k, L) + Added(k) /\ Added(k) \in Nat
    BY <2>1, <2>2, <2>3, <2>4
  <2>6. Added("planning") + Added("knowledge") + Added("plan") + Added("findings") + Added("task") = Sizes[l]
    BY <2>4 DEF Layers
  <2> HIDE DEF Added, M
  <2>7. \A k \in Layers : Share(k, M) = Share(k, L) + Added(k) /\ Added(k) \in Nat /\ Share(k, L) \in Nat
    BY <2>3, <2>5
  <2>8. /\ "planning" \in Layers /\ "knowledge" \in Layers /\ "plan" \in Layers
        /\ "findings" \in Layers /\ "task" \in Layers
    BY DEF Layers
  <2>9. Weight(M) = Sizes[l] + Weight(L)
    BY <2>4, <2>6, <2>7, <2>8 DEF Weight
  <2> QED BY <2>9 DEF M
<1> QED BY <1>3, <1>5, <1>6

LEMMA CharsAre ==
  ASSUME NEW layers, Distinct(layers)
  PROVE  Chars(layers) = Weight(ToSet(layers))
<1> DEFINE D == DOMAIN layers
           Of(s) == {layers[i] : i \in s}
           pick(s) == CHOOSE x \in s : TRUE
           Sums(h) == h = [s \in SUBSET D |-> IF s = {} THEN 0
                                             ELSE Sizes[layers[pick(s)]] + h[s \ {pick(s)}]]
           w == [s \in SUBSET D |-> Weight(Of(s))]
           f == CHOOSE h : Sums(h)
<1>1. D = 1..Len(layers) /\ Len(layers) \in Nat /\ \A i \in D : layers[i] \in Layers
  BY DEF Distinct
<1>2. ASSUME NEW s \in SUBSET D, NEW x \in s
      PROVE  Weight(Of(s)) = Sizes[layers[x]] + Weight(Of(s \ {x}))
  <2>1. Of(s) = Of(s \ {x}) \cup {layers[x]}
    OBVIOUS
  <2>2. layers[x] \notin Of(s \ {x})
    BY DEF Distinct
  <2>3. Of(s \ {x}) \in SUBSET Layers /\ layers[x] \in Layers
    BY <1>1
  <2> HIDE DEF Of
  <2> QED BY <2>1, <2>2, <2>3, WeightFacts
<1>3. \A s \in SUBSET D : s # {} => pick(s) \in s
  OBVIOUS
<1>4. Of({}) = {}
  OBVIOUS
<1>5. Of(D) = ToSet(layers)
  BY DEF ToSet
<1>6. Chars(layers) = f[D]
  BY DEF Chars, MapThenSumSet, MapThenFoldSet
<1> HIDE DEF Of, pick
<1>7. Sums(w)
  <2>1. \A s \in SUBSET D : w[s] = Weight(Of(s))
    OBVIOUS
  <2>2. \A s \in SUBSET D : w[s] = IF s = {} THEN 0 ELSE Sizes[layers[pick(s)]] + w[s \ {pick(s)}]
    <3> SUFFICES ASSUME NEW s \in SUBSET D
                 PROVE  w[s] = IF s = {} THEN 0 ELSE Sizes[layers[pick(s)]] + w[s \ {pick(s)}]
      OBVIOUS
    <3>1. s = {} => w[s] = 0
      BY <1>4, <2>1, WeightFacts
    <3>2. ASSUME s # {} PROVE w[s] = Sizes[layers[pick(s)]] + w[s \ {pick(s)}]
      <4>1. pick(s) \in s /\ s \ {pick(s)} \in SUBSET D
        BY <1>3, <3>2
      <4> HIDE DEF w
      <4> QED BY <1>2, <2>1, <4>1
    <3> QED BY <3>1, <3>2
  <2>3. w = [s \in SUBSET D |-> w[s]]
    OBVIOUS
  <2> HIDE DEF w
  <2> QED BY <2>2, <2>3
<1>8. Sums(f)
  <2> HIDE DEF w, Sums
  <2> QED BY <1>7
<1>9. \A s \in SUBSET D : f[s] = IF s = {} THEN 0 ELSE Sizes[layers[pick(s)]] + f[s \ {pick(s)}]
  <2> HIDE DEF f
  <2> QED BY <1>8
<1>10. \A s \in SUBSET D : w[s] = IF s = {} THEN 0 ELSE Sizes[layers[pick(s)]] + w[s \ {pick(s)}]
  <2> HIDE DEF w
  <2> QED BY <1>7
<1>11. \A s \in SUBSET D : IsFiniteSet(s) /\ Cardinality(s) \in Nat
  <2>1. IsFiniteSet(D)
    BY <1>1, FS_Interval
  <2> QED BY <2>1, FS_Subset, FS_CardinalityType
<1> HIDE DEF f, w
<1>12. ASSUME NEW s0 \in SUBSET D, f[s0] # w[s0] PROVE FALSE
  <2> DEFINE Wrong == {Cardinality(s) : s \in {t \in SUBSET D : f[t] # w[t]}}
  <2>1. Wrong \subseteq Nat /\ Wrong # {}
    BY <1>11, <1>12
  <2>2. PICK n \in Wrong : \A m \in Wrong : n <= m
    BY <2>1, LeastExists
  <2>3. PICK s \in SUBSET D : f[s] # w[s] /\ Cardinality(s) = n
    BY <2>2
  <2>4. s # {}
    BY <1>9, <1>10, <2>3
  <2>5. pick(s) \in s /\ s \ {pick(s)} \in SUBSET D
    BY <1>3, <2>4
  <2>6. f[s \ {pick(s)}] # w[s \ {pick(s)}]
    BY <1>9, <1>10, <2>3, <2>4
  <2>7. Cardinality(s \ {pick(s)}) = n - 1 /\ n \in Nat
    BY <1>11, <2>3, <2>5, FS_RemoveElement
  <2>8. Cardinality(s \ {pick(s)}) \in Wrong
    BY <2>5, <2>6
  <2> HIDE DEF Wrong
  <2>9. n <= n - 1
    BY <2>2, <2>7, <2>8
  <2> QED BY <2>7, <2>9
<1>13. f[D] = w[D]
  BY <1>12
<1> QED BY <1>5, <1>6, <1>13 DEF w

-----------------------------------------------------------------------------
(* The order of the drops: allocate() in terms of what is kept after n.     *)

LEMMA Numbers ==
  ASSUME NEW N \in Nat, NEW n \in 0..N
  PROVE  /\ IsFiniteSet(1..N) /\ Cardinality(1..N) = N
         /\ IsFiniteSet(n..(N - 1)) /\ Cardinality(n..(N - 1)) = N - n
<1>1. \A a, b \in Int : IsFiniteSet(a..b) /\ Cardinality(a..b) = IF a > b THEN 0 ELSE b - a + 1
  BY FS_Interval
<1>2. IsFiniteSet(1..N) /\ Cardinality(1..N) = IF 1 > N THEN 0 ELSE N - 1 + 1
  BY <1>1
<1>3. IsFiniteSet(n..(N - 1)) /\ Cardinality(n..(N - 1)) = IF n > N - 1 THEN 0 ELSE N - 1 - n + 1
  BY <1>1
<1> QED BY <1>2, <1>3

Rank(layers) == [i \in DOMAIN layers |-> Cardinality({j \in DOMAIN layers : DropsBefore(layers, j, i)})]
Kept(layers, n) == {i \in DOMAIN layers : Rank(layers)[i] >= n}
UpTo(K, i) == {j \in 1..i : j \in K}
RestOf(layers, n) ==
  [m \in 1..(Len(layers) - n) |->
     layers[CHOOSE i \in DOMAIN layers :
              Rank(layers)[i] >= n /\ Cardinality({j \in 1..i : Rank(layers)[j] >= n}) = m]]
Enough(layers, n) == Chars(RestOf(layers, n)) <= MaxChars \/ Len(layers) - n <= 1

LEMMA AllocateIs ==
  ASSUME NEW layers
  PROVE  Allocate(layers) = RestOf(layers, Min({n \in 0..Len(layers) : Enough(layers, n)}))
BY DEF Allocate, RestOf, Enough, Rank

(* Ranks number the layers from 0 in the order in which they are dropped.   *)
LEMMA RankFacts ==
  ASSUME NEW layers \in Seq(Layers)
  PROVE  /\ \A i \in DOMAIN layers : Rank(layers)[i] \in 0..(Len(layers) - 1)
         /\ \A i, j \in DOMAIN layers : DropsBefore(layers, i, j) => Rank(layers)[i] < Rank(layers)[j]
         /\ \A i, j \in DOMAIN layers : i # j => Rank(layers)[i] # Rank(layers)[j]
         /\ \A r \in 0..(Len(layers) - 1) : \E i \in DOMAIN layers : Rank(layers)[i] = r
<1> DEFINE D == DOMAIN layers
           N == Len(layers)
           Before(i) == {j \in D : DropsBefore(layers, j, i)}
           r == Rank(layers)
<1>1. D = 1..N /\ N \in Nat /\ IsFiniteSet(D) /\ Cardinality(D) = N
  BY Numbers
<1>2. \A i \in D : Priority[layers[i]] \in Nat
  BY DEF Priority, Layers
<1>3. /\ \A i \in D : ~DropsBefore(layers, i, i)
      /\ \A i, j \in D : i # j => DropsBefore(layers, i, j) \/ DropsBefore(layers, j, i)
      /\ \A i, j, k \in D : DropsBefore(layers, i, j) /\ DropsBefore(layers, j, k) => DropsBefore(layers, i, k)
  BY <1>1, <1>2 DEF DropsBefore
<1>4. \A i \in D : r[i] = Cardinality(Before(i))
  BY DEF Rank
<1>5. \A i \in D : IsFiniteSet(Before(i)) /\ Cardinality(Before(i)) \in Nat
  BY <1>1, FS_Subset, FS_CardinalityType
<1>6. ASSUME NEW i \in D, NEW j \in D, DropsBefore(layers, i, j) PROVE r[i] < r[j]
  <2>1. Before(i) \in SUBSET Before(j) /\ i \in Before(j) /\ i \notin Before(i)
    BY <1>3, <1>6
  <2> HIDE DEF Before
  <2>2. Cardinality(Before(i)) <= Cardinality(Before(j)) /\ Cardinality(Before(i)) # Cardinality(Before(j))
    BY <1>5, <2>1, FS_Subset
  <2> QED BY <1>4, <1>5, <2>2
<1>7. ASSUME NEW i \in D PROVE r[i] \in 0..(N - 1)
  <2>1. Before(i) \in SUBSET D /\ i \notin Before(i)
    BY <1>3
  <2> HIDE DEF Before
  <2>2. Cardinality(Before(i)) <= N /\ Cardinality(Before(i)) # N
    BY <1>1, <2>1, FS_Subset
  <2> QED BY <1>1, <1>4, <1>5, <2>2
<1> HIDE DEF Before
<1>8. \A i, j \in D : i # j => r[i] # r[j]
  <2> SUFFICES ASSUME NEW i \in D, NEW j \in D, i # j PROVE r[i] # r[j]
    OBVIOUS
  <2>1. r[i] < r[j] \/ r[j] < r[i]
    BY <1>3, <1>6
  <2>2. r[i] \in Int /\ r[j] \in Int
    BY <1>1, <1>7
  <2> HIDE DEF r
  <2> QED BY <2>1, <2>2
<1>9. \A n \in 0..(N - 1) : \E i \in D : r[i] = n
  <2>1. r = [i \in D |-> r[i]]
    BY DEF Rank
  <2> HIDE DEF r
  <2>2. r \in Injection(D, 0..(N - 1))
    BY <1>7, <1>8, <2>1 DEF Injection, IsInjective
  <2>3. IsFiniteSet(0..(N - 1)) /\ Cardinality(0..(N - 1)) = N
    BY <1>1, Numbers
  <2>4. r \in Surjection(D, 0..(N - 1))
    BY <1>1, <2>2, <2>3, FS_Injection
  <2> QED BY <2>4 DEF Surjection
<1> QED BY <1>6, <1>7, <1>8, <1>9

LEMMA KeptFacts ==
  ASSUME NEW layers \in Seq(Layers), NEW n \in 0..Len(layers)
  PROVE  Cardinality(Kept(layers, n)) = Len(layers) - n
<1> DEFINE K == Kept(layers, n)
           N == Len(layers)
           r == Rank(layers)
           f == [i \in K |-> r[i]]
<1>1. N \in Nat /\ DOMAIN layers = 1..N /\ IsFiniteSet(DOMAIN layers)
  BY Numbers
<1>2. K \in SUBSET DOMAIN layers /\ IsFiniteSet(K)
  BY <1>1, FS_Subset DEF Kept
<1>3. \A i \in DOMAIN layers : i \in K <=> r[i] >= n
  BY DEF Kept
<1> HIDE DEF K, r
<1>4. /\ \A i \in DOMAIN layers : r[i] \in 0..(N - 1)
      /\ \A i, j \in DOMAIN layers : i # j => r[i] # r[j]
      /\ \A q \in 0..(N - 1) : \E i \in DOMAIN layers : r[i] = q
  BY RankFacts DEF r
<1>5. \A i \in K : f[i] \in n..(N - 1)
  BY <1>1, <1>2, <1>3, <1>4
<1>6. f \in Injection(K, n..(N - 1))
  BY <1>2, <1>4, <1>5 DEF Injection, IsInjective
<1>7. f \in Surjection(K, n..(N - 1))
  <2>1. \A q \in n..(N - 1) : \E i \in K : f[i] = q
    <3> SUFFICES ASSUME NEW q \in n..(N - 1) PROVE \E i \in K : f[i] = q
      OBVIOUS
    <3>1. PICK i \in DOMAIN layers : r[i] = q
      BY <1>1, <1>4
    <3>2. i \in K
      BY <1>3, <3>1
    <3> QED BY <3>1, <3>2
  <2>2. f \in [K -> n..(N - 1)]
    BY <1>5
  <2> QED BY <2>1, <2>2 DEF Surjection
<1>8. Cardinality(n..(N - 1)) = N - n
  BY <1>1, Numbers
<1> QED BY <1>2, <1>6, <1>7, <1>8, FS_Surjection DEF K

(* The places of a set of numbers are numbered from the lowest.             *)
LEMMA CountFacts ==
  ASSUME NEW N \in Nat, NEW K \in SUBSET (1..N)
  PROVE  /\ \A i \in 1..N : Cardinality(UpTo(K, i)) \in Nat
         /\ \A i, j \in K : i < j => Cardinality(UpTo(K, i)) < Cardinality(UpTo(K, j))
         /\ \A i \in K : Cardinality(UpTo(K, i)) \in 1..Cardinality(K)
         /\ \A m \in 1..Cardinality(K) : \E i \in K : Cardinality(UpTo(K, i)) = m
<1> DEFINE c(i) == Cardinality(UpTo(K, i))
<1>1. IsFiniteSet(1..N) /\ IsFiniteSet(K) /\ Cardinality(K) \in Nat
  <2>1. IsFiniteSet(1..N)
    BY Numbers
  <2> QED BY <2>1, FS_Subset, FS_CardinalityType
<1>2. \A i \in 0..N : UpTo(K, i) \in SUBSET K /\ IsFiniteSet(UpTo(K, i)) /\ c(i) \in Nat
  BY <1>1, FS_Subset, FS_CardinalityType DEF UpTo
<1>3. ASSUME NEW i \in K, NEW j \in K, i < j PROVE c(i) < c(j)
  <2>1. UpTo(K, i) \in SUBSET UpTo(K, j) /\ j \in UpTo(K, j) /\ j \notin UpTo(K, i)
    BY <1>3 DEF UpTo
  <2>2. i \in 0..N /\ j \in 0..N
    OBVIOUS
  <2>3. c(i) <= c(j) /\ c(i) # c(j)
    BY <1>2, <2>1, <2>2, FS_Subset
  <2> QED BY <1>2, <2>2, <2>3
<1>4. UpTo(K, 0) = {} /\ UpTo(K, N) = K
  <2>1. 1..0 = {} /\ \A j \in K : j \in 1..N
    OBVIOUS
  <2> QED BY <2>1 DEF UpTo
<1>5. \A i \in 1..N : UpTo(K, i) = IF i \in K THEN UpTo(K, i - 1) \cup {i} ELSE UpTo(K, i - 1)
  BY DEF UpTo
<1>6. \A i \in 1..N : c(i) = IF i \in K THEN c(i - 1) + 1 ELSE c(i - 1)
  <2> SUFFICES ASSUME NEW i \in 1..N PROVE c(i) = IF i \in K THEN c(i - 1) + 1 ELSE c(i - 1)
    OBVIOUS
  <2>1. i - 1 \in 0..N /\ i \notin UpTo(K, i - 1)
    BY DEF UpTo
  <2> QED BY <1>2, <1>5, <2>1, FS_AddElement
<1>7. c(0) = 0 /\ c(N) = Cardinality(K)
  BY <1>4, FS_EmptySet
<1>8. ASSUME NEW i \in K PROVE c(i) \in 1..Cardinality(K)
  <2>1. i \in 1..N /\ i \in 0..N /\ i - 1 \in 0..N
    OBVIOUS
  <2>2. c(i) = c(i - 1) + 1 /\ c(i - 1) \in Nat
    BY <1>2, <1>6, <2>1
  <2>3. c(i) <= Cardinality(K)
    BY <1>1, <1>2, <2>1, FS_Subset
  <2> HIDE DEF c
  <2> QED BY <1>1, <2>2, <2>3
<1> HIDE DEF c
<1>9. ASSUME NEW m \in 1..Cardinality(K) PROVE \E i \in K : c(i) = m
  <2> DEFINE Reached == {i \in 1..N : c(i) >= m}
  <2>1. N # 0
    BY <1>1, <1>7
  <2>2. N \in Reached
    BY <1>1, <1>7, <2>1
  <2>3. PICK i \in Reached : \A j \in Reached : i <= j
    <3>1. Reached \subseteq Nat /\ Reached # {}
      BY <2>2
    <3> HIDE DEF Reached
    <3> QED BY <3>1, LeastExists
  <2>4. i \in 1..N /\ i - 1 \in 0..N /\ c(i) >= m
    BY <2>3
  <2>5. c(i - 1) < m
    <3>1. CASE i = 1
      BY <1>1, <1>7, <3>1
    <3>2. CASE i # 1
      <4>1. i - 1 \in 1..N /\ i - 1 \notin Reached
        BY <2>3, <2>4, <3>2
      <4> QED BY <1>1, <1>2, <4>1
    <3> QED BY <3>1, <3>2
  <2>6. i \in K /\ c(i) = c(i - 1) + 1
    BY <1>1, <1>2, <1>6, <2>4, <2>5
  <2> QED BY <1>1, <1>2, <2>4, <2>5, <2>6
<1>10. \A i \in 1..N : c(i) \in Nat
  BY <1>2
<1> QED BY <1>3, <1>8, <1>9, <1>10 DEF c

(* What is left after n drops is what has a rank of n or more, as offered.  *)
LEMMA RestFacts ==
  ASSUME NEW layers \in Seq(Layers), NEW n \in 0..Len(layers)
  PROVE  /\ RestOf(layers, n) \in Seq(Layers) /\ Len(RestOf(layers, n)) = Len(layers) - n
         /\ ToSet(RestOf(layers, n)) = {layers[i] : i \in Kept(layers, n)}
         /\ \E p \in [1..(Len(layers) - n) -> Kept(layers, n)] :
              /\ \A m \in 1..(Len(layers) - n) : RestOf(layers, n)[m] = layers[p[m]]
              /\ \A l, m \in 1..(Len(layers) - n) : l < m => p[l] < p[m]
<1> DEFINE D == DOMAIN layers
           N == Len(layers)
           K == Kept(layers, n)
           R == RestOf(layers, n)
           c(i) == Cardinality(UpTo(K, i))
           At(m) == CHOOSE i \in D : Rank(layers)[i] >= n /\ Cardinality({j \in 1..i : Rank(layers)[j] >= n}) = m
           p == [m \in 1..(N - n) |-> At(m)]
<1>1. N \in Nat /\ D = 1..N /\ K \in SUBSET (1..N) /\ Cardinality(K) = N - n
  BY KeptFacts DEF Kept
<1>0. N - n \in Nat /\ \A i \in K : i \in Nat /\ layers[i] \in Layers
  <2>1. \A i \in 1..N : i \in Nat /\ layers[i] \in Layers
    BY <1>1
  <2> HIDE DEF K
  <2>2. N - n \in Nat
    BY <1>1
  <2> QED BY <1>1, <2>1, <2>2
<1>2. \A i \in D : {j \in 1..i : Rank(layers)[j] >= n} = UpTo(K, i) /\ (i \in K <=> Rank(layers)[i] >= n)
  BY <1>1 DEF Kept, UpTo
<1>3. R = [m \in 1..(N - n) |-> layers[p[m]]]
  BY DEF RestOf
<1> HIDE DEF K, R
<1>4. /\ \A i, j \in K : i < j => c(i) < c(j)
      /\ \A i \in K : c(i) \in 1..(N - n)
      /\ \A m \in 1..(N - n) : \E i \in K : c(i) = m
  BY <1>1, CountFacts
<1>5. \A m \in 1..(N - n) : p[m] \in K /\ c(p[m]) = m
  <2> SUFFICES ASSUME NEW m \in 1..(N - n) PROVE p[m] \in K /\ c(p[m]) = m
    OBVIOUS
  <2>1. \E i \in D : Rank(layers)[i] >= n /\ Cardinality({j \in 1..i : Rank(layers)[j] >= n}) = m
    BY <1>1, <1>2, <1>4
  <2>2. /\ p[m] \in D /\ Rank(layers)[p[m]] >= n
        /\ Cardinality({j \in 1..p[m] : Rank(layers)[j] >= n}) = m
    BY <2>1
  <2> HIDE DEF p
  <2> QED BY <1>2, <2>2
<1>6. DOMAIN p = 1..(N - n) /\ p = [m \in 1..(N - n) |-> p[m]]
  <2> HIDE DEF At
  <2> QED OBVIOUS
<1> HIDE DEF p
<1>7. p \in [1..(N - n) -> K]
  BY <1>5, <1>6
<1>8. \A i, j \in K : c(i) = c(j) => i = j
  <2> SUFFICES ASSUME NEW i \in K, NEW j \in K, c(i) = c(j) PROVE i = j
    OBVIOUS
  <2>1. i \in Nat /\ j \in Nat /\ c(i) \in Nat
    BY <1>1, <1>4
  <2>2. ~(i < j) /\ ~(j < i)
    <3> HIDE DEF c
    <3> QED BY <1>4, <2>1
  <2> QED BY <2>1, <2>2
<1> HIDE DEF c
<1>9. \A i \in K : \E m \in 1..(N - n) : p[m] = i
  BY <1>4, <1>5, <1>8
<1>10. ASSUME NEW l \in 1..(N - n), NEW m \in 1..(N - n), l < m PROVE p[l] < p[m]
  <2>1. p[l] \in K /\ p[m] \in K /\ c(p[l]) = l /\ c(p[m]) = m
    BY <1>5
  <2>2. p[l] \in Nat /\ p[m] \in Nat /\ l \in Nat /\ m \in Nat
    <3>1. p[l] \in Nat /\ p[m] \in Nat
      BY <1>0, <2>1
    <3>2. \A i \in 1..(N - n) : i \in Nat
      BY <1>0
    <3> QED BY <3>1, <3>2
  <2>3. ~(p[m] < p[l]) /\ p[m] # p[l]
    BY <1>4, <1>10, <2>1, <2>2
  <2> QED BY <2>2, <2>3
<1>11. \A m \in 1..(N - n) : R[m] = layers[p[m]]
  BY <1>3
<1>12. R \in Seq(Layers) /\ Len(R) = N - n /\ DOMAIN R = 1..(N - n)
  <2>1. N - n \in Nat /\ \A m \in 1..(N - n) : layers[p[m]] \in Layers
    BY <1>0, <1>5
  <2> QED BY <1>3, <2>1
<1>13. ToSet(R) = {layers[i] : i \in K}
  <2>1. ToSet(R) = {R[m] : m \in 1..(N - n)}
    BY <1>12 DEF ToSet
  <2>2. \A m \in 1..(N - n) : R[m] = layers[p[m]] /\ p[m] \in K
    BY <1>5, <1>11
  <2> QED BY <1>9, <2>1, <2>2
<1> QED BY <1>7, <1>10, <1>11, <1>12, <1>13 DEF K, R

(* The layers that are kept are distinct, and the dropped are the others.   *)
LEMMA RestDistinct ==
  ASSUME NEW layers, Distinct(layers), NEW n \in 0..Len(layers)
  PROVE  /\ Distinct(RestOf(layers, n))
         /\ \A i \in DOMAIN layers : layers[i] \in ToSet(RestOf(layers, n)) <=> Rank(layers)[i] >= n
         /\ Chars(RestOf(layers, n)) = Weight({layers[i] : i \in Kept(layers, n)})
<1> DEFINE N == Len(layers)
           R == RestOf(layers, n)
<1>1. layers \in Seq(Layers) /\ \A i, j \in DOMAIN layers : layers[i] = layers[j] => i = j
  BY DEF Distinct
<1>2. /\ R \in Seq(Layers) /\ Len(R) = N - n
      /\ ToSet(R) = {layers[i] : i \in Kept(layers, n)}
  BY <1>1, RestFacts
<1>3. PICK p \in [1..(N - n) -> Kept(layers, n)] :
              /\ \A m \in 1..(N - n) : R[m] = layers[p[m]]
              /\ \A l, m \in 1..(N - n) : l < m => p[l] < p[m]
  BY <1>1, RestFacts
<1> HIDE DEF R
<1>4. Kept(layers, n) \subseteq DOMAIN layers /\ DOMAIN layers \subseteq Nat
  BY <1>1 DEF Kept
<1>5. ASSUME NEW l \in DOMAIN R, NEW m \in DOMAIN R, R[l] = R[m] PROVE l = m
  <2>1. l \in 1..(N - n) /\ m \in 1..(N - n)
    BY <1>2
  <2>2. p[l] \in DOMAIN layers /\ p[m] \in DOMAIN layers /\ p[l] \in Nat
    BY <1>3, <1>4, <2>1
  <2>4. layers[p[l]] = layers[p[m]]
    BY <1>3, <1>5, <2>1
  <2>5. p[l] = p[m]
    BY <1>1, <2>2, <2>4
  <2>3. ~(l < m) /\ ~(m < l)
    BY <1>3, <2>1, <2>2, <2>5
  <2> QED BY <2>1, <2>3
<1>6. Distinct(R)
  BY <1>2, <1>5 DEF Distinct
<1>7. \A i \in DOMAIN layers : layers[i] \in ToSet(R) <=> Rank(layers)[i] >= n
  BY <1>1, <1>2 DEF Kept
<1>8. Chars(R) = Weight({layers[i] : i \in Kept(layers, n)})
  BY <1>2, <1>6, CharsAre
<1> QED BY <1>6, <1>7, <1>8 DEF R

LEMMA MinFacts ==
  ASSUME NEW S, S \subseteq Nat, S # {}
  PROVE  Min(S) \in S /\ \A y \in S : Min(S) <= y
BY LeastExists DEF Min

(* How many layers allocate() drops: the least number that is enough, and   *)
(* one layer at least is left of any.                                       *)
LEMMA DropsFacts ==
  ASSUME NEW layers, Distinct(layers)
  PROVE  \E n \in 0..Len(layers) :
           /\ Allocate(layers) = RestOf(layers, n)
           /\ Chars(RestOf(layers, n)) <= MaxChars \/ Len(RestOf(layers, n)) = 1
           /\ n > 0 => Chars(RestOf(layers, n - 1)) > MaxChars
<1> DEFINE N == Len(layers)
           S == {n \in 0..N : Enough(layers, n)}
           n == Min(S)
<1>1. layers \in Seq(Layers) /\ N \in Nat
  BY DEF Distinct
<1>2. N \in S
  BY <1>1 DEF Enough
<1>3. S \subseteq Nat /\ S # {}
  BY <1>1, <1>2
<1>4. n \in S /\ \A m \in S : n <= m
  <2> HIDE DEF S
  <2> QED BY <1>3, MinFacts
<1> HIDE DEF n
<1>5. n \in 0..N /\ Enough(layers, n)
  BY <1>4
<1>6. Allocate(layers) = RestOf(layers, n)
  BY AllocateIs DEF n
<1>7. Len(RestOf(layers, n)) = N - n
  BY <1>1, <1>5, RestFacts
<1>8. MaxChars \in Nat /\ \A m \in 0..N : Chars(RestOf(layers, m)) \in Nat
  BY RestDistinct, WeightFacts, PlanningAssumption
<1>9. ASSUME ~(Chars(RestOf(layers, n)) <= MaxChars) PROVE N - n = 1
  <2>1. N - n <= 1
    BY <1>5, <1>9 DEF Enough
  <2>2. CASE N = 0
    <3>1. Kept(layers, n) = {}
      BY <1>1, <2>2 DEF Kept
    <3>2. {layers[i] : i \in Kept(layers, n)} = {}
      BY <3>1
    <3>3. Chars(RestOf(layers, n)) = 0
      <4>1. Chars(RestOf(layers, n)) = Weight({layers[i] : i \in Kept(layers, n)})
        BY <1>5, RestDistinct
      <4> QED BY <3>2, <4>1, WeightFacts
    <3> QED BY <1>8, <1>9, <3>3
  <2>3. CASE N # 0
    <3>1. N - 1 \in S
      BY <1>1, <2>3 DEF Enough
    <3> QED BY <1>1, <1>4, <1>5, <2>1, <3>1
  <2> QED BY <2>2, <2>3
<1>10. ASSUME n > 0 PROVE Chars(RestOf(layers, n - 1)) > MaxChars
  <2>1. n - 1 \in 0..N /\ n - 1 \notin S
    BY <1>1, <1>4, <1>5, <1>10
  <2>2. ~Enough(layers, n - 1)
    BY <2>1
  <2> QED BY <1>8, <2>1, <2>2 DEF Enough
<1> QED BY <1>5, <1>6, <1>7, <1>9, <1>10

(* What allocate() makes of distinct layers is what PromptFits asks for.    *)
Fitted(offered, shown) ==
  LET dropped == ToSet(offered) \ ToSet(shown)
  IN  /\ Chars(shown) <= MaxChars \/ Len(shown) = 1
      /\ ToSet(shown) \subseteq ToSet(offered) /\ InOrder(shown, offered)
      /\ \A x \in ToSet(shown), y \in dropped : Priority[x] <= Priority[y]
      /\ dropped # {} => \E y \in dropped : /\ \A z \in dropped : Priority[y] <= Priority[z]
                                           /\ Chars(Append(shown, y)) > MaxChars

LEMMA AllocateFits ==
  ASSUME NEW layers, Distinct(layers)
  PROVE  Fitted(layers, Allocate(layers))
<1> DEFINE N == Len(layers)
           D == DOMAIN layers
           r == Rank(layers)
<1>1. PICK n \in 0..N :
        /\ Allocate(layers) = RestOf(layers, n)
        /\ Chars(RestOf(layers, n)) <= MaxChars \/ Len(RestOf(layers, n)) = 1
        /\ n > 0 => Chars(RestOf(layers, n - 1)) > MaxChars
  BY DropsFacts
<1> DEFINE R == RestOf(layers, n)
           K == Kept(layers, n)
           dropped == ToSet(layers) \ ToSet(R)
<1>2. /\ layers \in Seq(Layers) /\ N \in Nat /\ D = 1..N
      /\ \A i, j \in D : layers[i] = layers[j] => i = j
      /\ ToSet(layers) = {layers[i] : i \in D}
  BY DEF Distinct, ToSet
<1>3. /\ R \in Seq(Layers) /\ Len(R) = N - n /\ ToSet(R) = {layers[i] : i \in K}
      /\ \E p \in [1..(N - n) -> K] :
              /\ \A m \in 1..(N - n) : R[m] = layers[p[m]]
              /\ \A l, m \in 1..(N - n) : l < m => p[l] < p[m]
  BY <1>2, RestFacts
<1>4. K \subseteq D /\ \A i \in D : i \in K <=> r[i] >= n
  BY DEF Kept
<1>5. /\ Distinct(R)
      /\ \A i \in D : layers[i] \in ToSet(R) <=> r[i] >= n
  BY RestDistinct
<1>6. /\ \A i \in D : r[i] \in 0..(N - 1)
      /\ \A i, j \in D : DropsBefore(layers, i, j) => r[i] < r[j]
      /\ \A q \in 0..(N - 1) : \E i \in D : r[i] = q
  BY <1>2, RankFacts
<1> HIDE DEF R, K, r
<1>7. ToSet(R) \subseteq ToSet(layers)
  BY <1>2, <1>3, <1>4
<1>8. InOrder(R, layers)
  <2>1. PICK p \in [1..(N - n) -> K] :
              /\ \A m \in 1..(N - n) : R[m] = layers[p[m]]
              /\ \A l, m \in 1..(N - n) : l < m => p[l] < p[m]
    BY <1>3
  <2>2. DOMAIN R = 1..(N - n)
    BY <1>3
  <2> SUFFICES ASSUME NEW i \in 1..(N - n), NEW j \in 1..(N - n), i < j
               PROVE  \E k, l \in D : k < l /\ layers[k] = R[i] /\ layers[l] = R[j]
    BY <2>2 DEF InOrder
  <2>3. p[i] \in D /\ p[j] \in D /\ p[i] < p[j] /\ layers[p[i]] = R[i] /\ layers[p[j]] = R[j]
    BY <1>4, <2>1
  <2> QED BY <2>3
<1>9. \A i \in D : Priority[layers[i]] \in Nat
  BY <1>2 DEF Priority, Layers
<1>10. \A i, j \in D : r[i] <= r[j] => Priority[layers[j]] <= Priority[layers[i]]
  <2> SUFFICES ASSUME NEW i \in D, NEW j \in D, r[i] <= r[j] PROVE Priority[layers[j]] <= Priority[layers[i]]
    OBVIOUS
  <2>1. r[i] \in Int /\ r[j] \in Int
    BY <1>2, <1>6
  <2>2. ~(r[j] < r[i])
    BY <2>1
  <2>3. ~DropsBefore(layers, j, i)
    BY <1>6, <2>2
  <2> QED BY <1>9, <2>3 DEF DropsBefore
<1>11. \A y \in dropped : \E i \in D : y = layers[i] /\ r[i] < n
  <2> SUFFICES ASSUME NEW y \in dropped PROVE \E i \in D : y = layers[i] /\ r[i] < n
    OBVIOUS
  <2>1. PICK i \in D : y = layers[i]
    BY <1>2
  <2>2. ~(r[i] >= n) /\ r[i] \in Int
    BY <1>2, <1>5, <1>6, <2>1
  <2> QED BY <2>1, <2>2
<1>12. ASSUME NEW x \in ToSet(R), NEW y \in dropped PROVE Priority[x] <= Priority[y]
  <2>1. PICK j \in D : y = layers[j] /\ r[j] < n
    BY <1>11
  <2>2. PICK i \in D : x = layers[i] /\ r[i] >= n
    BY <1>3, <1>4
  <2>3. r[i] \in Int /\ r[j] \in Int
    BY <1>2, <1>6
  <2> QED BY <1>10, <2>1, <2>2, <2>3
<1>13. ASSUME dropped # {}
       PROVE  \E y \in dropped : /\ \A z \in dropped : Priority[y] <= Priority[z]
                                 /\ Chars(Append(R, y)) > MaxChars
  <2>1. n > 0
    <3>1. PICK y \in dropped : TRUE
      BY <1>13
    <3>2. PICK i \in D : r[i] < n
      BY <1>11
    <3> QED BY <1>2, <1>6, <3>2
  <2>2. n - 1 \in 0..(N - 1) /\ n - 1 \in 0..N
    BY <1>2, <2>1
  <2>3. PICK i \in D : r[i] = n - 1
    BY <1>6, <2>2
  <2> DEFINE y == layers[i]
  <2>4. y \in dropped /\ y \in Layers
    BY <1>2, <1>5, <2>3
  <2>5. ASSUME NEW z \in dropped PROVE Priority[y] <= Priority[z]
    <3>1. PICK j \in D : z = layers[j] /\ r[j] < n
      BY <1>11
    <3>2. r[j] <= r[i]
      BY <1>2, <1>6, <2>3, <3>1
    <3> QED BY <1>10, <3>1, <3>2
  <2> DEFINE A == Append(R, y)
  <2>6. Kept(layers, n - 1) = K \cup {i}
    <3>1. \A j \in D : r[j] >= n - 1 <=> r[j] >= n \/ r[j] = n - 1
      BY <1>2, <1>6
    <3>2. \A j \in D : r[j] = n - 1 <=> j = i
      BY <1>2, <2>3, RankFacts DEF r
    <3>3. Kept(layers, n - 1) = {j \in D : r[j] >= n - 1}
      BY DEF Kept, r
    <3> QED BY <1>4, <3>1, <3>2, <3>3
  <2>7. Chars(RestOf(layers, n - 1)) = Weight(ToSet(R) \cup {y})
    <3>1. {layers[j] : j \in K \cup {i}} = ToSet(R) \cup {y}
      BY <1>3
    <3> QED BY <2>2, <2>6, <3>1, RestDistinct
  <2>8. /\ A \in Seq(Layers) /\ Len(A) = Len(R) + 1 /\ DOMAIN A = 1..(Len(R) + 1) /\ A[Len(R) + 1] = y
        /\ DOMAIN R = 1..Len(R) /\ Len(R) \in Nat /\ \A m \in 1..Len(R) : A[m] = R[m]
    <3>1. R \in Seq(Layers) /\ y \in Layers
      BY <1>3, <2>4
    <3> HIDE DEF y
    <3> QED BY <3>1
  <2>9. ToSet(A) = ToSet(R) \cup {y}
    <3>1. ToSet(A) = {A[m] : m \in 1..(Len(R) + 1)} /\ ToSet(R) = {R[m] : m \in 1..Len(R)}
      BY <2>8 DEF ToSet
    <3>2. \A m \in 1..(Len(R) + 1) : m \in 1..Len(R) \/ m = Len(R) + 1
      BY <2>8
    <3>3. \A m \in 1..Len(R) : m \in 1..(Len(R) + 1)
      BY <2>8
    <3>4. Len(R) + 1 \in 1..(Len(R) + 1)
      BY <2>8
    <3> HIDE DEF A, y
    <3> QED BY <2>8, <3>1, <3>2, <3>3, <3>4
  <2>10. \A m \in 1..Len(R) : R[m] # y
    BY <2>4, <2>8 DEF ToSet
  <2>11. Distinct(A)
    <3> SUFFICES ASSUME NEW l \in 1..(Len(R) + 1), NEW m \in 1..(Len(R) + 1), A[l] = A[m] PROVE l = m
      BY <2>8 DEF Distinct
    <3>1. (l \in 1..Len(R) \/ l = Len(R) + 1) /\ (m \in 1..Len(R) \/ m = Len(R) + 1)
      BY <2>8
    <3>2. \A a, b \in 1..Len(R) : R[a] = R[b] => a = b
      BY <1>5, <2>8 DEF Distinct
    <3> HIDE DEF A, y
    <3> QED BY <2>8, <2>10, <3>1, <3>2
  <2>12. Chars(A) > MaxChars
    BY <1>1, <2>1, <2>7, <2>9, <2>11, CharsAre
  <2> QED BY <2>4, <2>5, <2>12
<1>14. Chars(R) <= MaxChars \/ Len(R) = 1
  BY <1>1 DEF R
<1>15. Allocate(layers) = R
  BY <1>1 DEF R
<1> QED BY <1>7, <1>8, <1>12, <1>13, <1>14, <1>15 DEF Fitted

LEMMA JoinDistinct ==
  ASSUME NEW a, NEW b, Distinct(a), Distinct(b), ToSet(a) \cap ToSet(b) = {}
  PROVE  Distinct(a \o b) /\ ToSet(a \o b) = ToSet(a) \cup ToSet(b)
<1> DEFINE c == a \o b
           M == Len(a)
           N == Len(b)
<1>1. /\ a \in Seq(Layers) /\ b \in Seq(Layers) /\ M \in Nat /\ N \in Nat
      /\ DOMAIN a = 1..M /\ DOMAIN b = 1..N
      /\ \A i, j \in 1..M : a[i] = a[j] => i = j
      /\ \A i, j \in 1..N : b[i] = b[j] => i = j
  BY DEF Distinct
<1>2. /\ c \in Seq(Layers) /\ Len(c) = M + N /\ DOMAIN c = 1..(M + N)
      /\ \A i \in 1..M : c[i] = a[i]
      /\ \A i \in 1..N : c[M + i] = b[i]
  BY <1>1
<1>3. ToSet(a) = {a[i] : i \in 1..M} /\ ToSet(b) = {b[i] : i \in 1..N} /\ ToSet(c) = {c[i] : i \in 1..(M + N)}
  BY <1>1, <1>2 DEF ToSet
<1> HIDE DEF c, M, N
<1>4. \A i \in 1..(M + N) : i \in 1..M \/ (i - M \in 1..N /\ i = M + (i - M) /\ i \in Int)
  BY <1>1
<1>5. \A i \in 1..(M + N) :
        (i \in 1..M /\ c[i] = a[i]) \/ (i \notin 1..M /\ i - M \in 1..N /\ c[i] = b[i - M])
  <2> SUFFICES ASSUME NEW i \in 1..(M + N), i \notin 1..M PROVE i - M \in 1..N /\ c[i] = b[i - M]
    BY <1>2
  <2>1. i - M \in 1..N /\ i = M + (i - M)
    BY <1>4
  <2>2. c[M + (i - M)] = b[i - M]
    BY <1>2, <2>1
  <2> QED BY <2>1, <2>2
<1>6. \A i \in 1..M, j \in 1..N : a[i] # b[j]
  BY <1>3
<1>7. ASSUME NEW i \in 1..(M + N), NEW j \in 1..(M + N), c[i] = c[j] PROVE i = j
  <2>1. CASE i \in 1..M
    BY <1>1, <1>5, <1>6, <1>7, <2>1
  <2>2. CASE i \notin 1..M
    <3>1. i - M \in 1..N /\ j - M \in 1..N /\ b[i - M] = b[j - M]
      BY <1>5, <1>6, <1>7, <2>2
    <3>2. i - M = j - M
      BY <1>1, <3>1
    <3> QED BY <1>1, <3>2
  <2> QED BY <2>1, <2>2
<1>8. ToSet(c) = ToSet(a) \cup ToSet(b)
  <2>1. \A i \in 1..M : i \in 1..(M + N)
    BY <1>1
  <2>2. \A i \in 1..N : M + i \in 1..(M + N)
    BY <1>1
  <2> QED BY <1>2, <1>3, <1>5, <2>1, <2>2
<1>9. Distinct(c)
  BY <1>2, <1>7 DEF Distinct
<1> QED BY <1>8, <1>9 DEF c

Option(l) == {<<>>, <<l>>}
LEMMA OptionDistinct ==
  ASSUME NEW l \in Layers, NEW a \in Option(l)
  PROVE  Distinct(a) /\ ToSet(a) \subseteq {l}
<1>1. CASE a = <<>>
  BY <1>1 DEF Distinct, ToSet
<1>2. CASE a = <<l>>
  <2>1. a \in Seq(Layers) /\ DOMAIN a = {1} /\ a[1] = l
    BY <1>2
  <2> QED BY <2>1 DEF Distinct, ToSet
<1> QED BY <1>1, <1>2 DEF Option

(* The layers a resolver offers are distinct.                               *)
LEMMA OfferedDistinct ==
  ASSUME NEW area
  PROVE  Distinct(Offered(area))
<1> DEFINE k == Knowledge(Project(area))
           p == <<"plan">>
           f == FindingsLayer(OpenPlan)
           t == CurrentTask(OpenPlan)
           g == IF Guide THEN <<"planning">> ELSE <<>>
<1>1. k \in Option("knowledge") /\ f \in Option("findings") /\ t \in Option("task")
      /\ g \in Option("planning") /\ p \in Option("plan")
  BY DEF Knowledge, FindingsLayer, CurrentTask, Option
<1>2. Offered(area) = g \o k \/ Offered(area) = ((k \o p) \o f) \o t
  BY DEF Offered
<1> HIDE DEF k, p, f, t, g
<1>3. {"knowledge", "findings", "task", "planning", "plan"} \subseteq Layers
  BY DEF Layers
<1>4. /\ Distinct(k) /\ ToSet(k) \subseteq {"knowledge"}
      /\ Distinct(f) /\ ToSet(f) \subseteq {"findings"}
      /\ Distinct(t) /\ ToSet(t) \subseteq {"task"}
      /\ Distinct(g) /\ ToSet(g) \subseteq {"planning"}
      /\ Distinct(p) /\ ToSet(p) \subseteq {"plan"}
  BY <1>1, <1>3, OptionDistinct
<1>5. Distinct(g \o k)
  BY <1>4, JoinDistinct
<1>6. Distinct(k \o p) /\ ToSet(k \o p) \subseteq {"knowledge", "plan"}
  BY <1>4, JoinDistinct
<1>7. Distinct((k \o p) \o f) /\ ToSet((k \o p) \o f) \subseteq {"knowledge", "plan", "findings"}
  <2> DEFINE q == k \o p
  <2>1. Distinct(q) /\ ToSet(q) \subseteq {"knowledge", "plan"}
    BY <1>6
  <2> HIDE DEF q
  <2>2. Distinct(q \o f) /\ ToSet(q \o f) \subseteq {"knowledge", "plan", "findings"}
    BY <1>4, <2>1, JoinDistinct
  <2> QED BY <2>2 DEF q
<1>8. Distinct(((k \o p) \o f) \o t)
  <2> DEFINE q == (k \o p) \o f
  <2>1. Distinct(q) /\ ToSet(q) \subseteq {"knowledge", "plan", "findings"}
    BY <1>7
  <2> HIDE DEF q
  <2>2. Distinct(q \o t)
    BY <1>4, <2>1, JoinDistinct
  <2> QED BY <2>2 DEF q
<1> QED BY <1>2, <1>5, <1>8

LEMMA NothingOffered == Distinct(<<>>) /\ Allocate(<<>>) = <<>>
<1>1. Distinct(<<>>)
  BY DEF Distinct
<1>2. PICK n \in 0..Len(<<>>) : Allocate(<<>>) = RestOf(<<>>, n)
  BY <1>1, DropsFacts
<1>3. n = 0
  BY <1>2
<1>4. RestOf(<<>>, 0) \in Seq(Layers) /\ Len(RestOf(<<>>, 0)) = 0
  <2>1. <<>> \in Seq(Layers) /\ 0 \in 0..Len(<<>>) /\ Len(<<>>) - 0 = 0
    OBVIOUS
  <2> QED BY <2>1, RestFacts
<1> QED BY <1>1, <1>2, <1>3, <1>4

-----------------------------------------------------------------------------
Fields == {"pc", "provider", "offered", "shown", "step", "note", "hangs", "content", "closed"}

(* A session's record keeps its fields, a verify command belongs to a step, *)
(* and what is shown is what allocate() makes of what is offered.           *)
PromptOK(s) == Distinct(s.offered) /\ s.shown = Allocate(s.offered)
SessionOK(s) ==
  /\ s = [f \in Fields |-> s[f]]
  /\ s.pc \in {"idle", "input", "ask", "spawn", "verify", "result"}
  /\ s.pc \in {"spawn", "verify"} => s.step[1] \in Plans /\ s.step[2] \in Tasks
  /\ PromptOK(s)
SessionInv ==
  /\ sess = [a \in Agents |-> sess[a]]
  /\ \A a \in Agents : SessionOK(sess[a])

-----------------------------------------------------------------------------
(* The sessions.                                                            *)

LEMMA Updated ==
  ASSUME SessionInv, NEW a \in Agents, NEW s, SessionOK(s), sess' = [sess EXCEPT ![a] = s]
  PROVE  SessionInv'
<1>1. sess'[a] = s /\ \A b \in Agents \ {a} : sess'[b] = sess[b]
  BY DEF SessionInv
<1>2. sess' = [b \in Agents |-> sess'[b]]
  BY DEF SessionInv
<1>3. \A b \in Agents : SessionOK(sess'[b])
  BY <1>1 DEF SessionInv
<1> QED BY <1>1, <1>2, <1>3 DEF SessionInv

LEMMA RestingOK == SessionOK(Resting)
BY NothingOffered DEF SessionOK, PromptOK, Resting, Fields

(* What the handlers make of the session of a step.                         *)
LEMMA AnswerFacts ==
  ASSUME SessionInv, NEW a \in Agents, Answer(a)
  PROVE  SessionInv'
<1> DEFINE s == [sess[a] EXCEPT !.pc = "result", !.step = NoStep, !.note = FALSE, !.hangs = FALSE]
<1>1. SessionOK(s)
  BY DEF SessionInv, SessionOK, PromptOK, Fields
<1>2. sess' = [sess EXCEPT ![a] = s]
  BY DEF Answer, SessionInv
<1> HIDE DEF s
<1> QED BY <1>1, <1>2, Updated

LEMMA EndFacts ==
  ASSUME SessionInv, NEW a \in Agents, TurnEnds(a)
  PROVE  SessionInv'
BY RestingOK, Updated DEF TurnEnds

LEMMA StartFacts ==
  ASSUME SessionInv, NEW a \in Agents, StartTurn(a)
  PROVE  SessionInv'
<1>1. CASE UNCHANGED sess
  BY <1>1 DEF StartTurn, SessionInv
<1>2. CASE ~UNCHANGED sess
  <2>1. PICK offered \in {Offered(area) : area \in Areas} \cup {<<>>} :
          sess' = [sess EXCEPT ![a] = [Resting EXCEPT !.pc = "input", !.provider = wired,
                     !.offered = offered, !.shown = Allocate(offered)]]
    BY <1>2 DEF StartTurn
  <2> DEFINE s == [Resting EXCEPT !.pc = "input", !.provider = wired,
                     !.offered = offered, !.shown = Allocate(offered)]
  <2>2. SessionOK(s)
    <3>1. Distinct(offered)
      BY OfferedDistinct, NothingOffered
    <3> QED BY <3>1 DEF SessionOK, PromptOK, Resting, Fields
  <2> HIDE DEF s
  <2>3. sess' = [sess EXCEPT ![a] = s]
    BY <2>1 DEF s
  <2> QED BY <2>2, <2>3, Updated DEF StartTurn
<1> QED BY <1>1, <1>2

LEMMA InputFacts ==
  ASSUME SessionInv, NEW a \in Agents, QueueInput(a)
  PROVE  SessionInv'
<1>1. CASE StampRaises(a)
  BY <1>1, EndFacts DEF QueueInput
<1>2. CASE ~StampRaises(a)
  <2> DEFINE s == [sess[a] EXCEPT !.pc = "ask", !.content = <<Item(Frame)>>, !.offered = <<>>, !.shown = <<>>]
  <2>1. SessionOK(s)
    BY NothingOffered DEF SessionInv, SessionOK, PromptOK, Fields
  <2>2. sess' = [sess EXCEPT ![a] = s]
    BY <1>2 DEF QueueInput, SessionInv
  <2> HIDE DEF s
  <2> QED BY <2>1, <2>2, Updated DEF QueueInput
<1> QED BY <1>1, <1>2

LEMMA ResultFacts ==
  ASSUME SessionInv, NEW a \in Agents, QueueResult(a)
  PROVE  SessionInv'
<1>1. CASE StampRaises(a) \/ BurnRaises(sess[a].content, sess[a].closed)
  BY <1>1, EndFacts DEF QueueResult
<1>2. CASE ~(StampRaises(a) \/ BurnRaises(sess[a].content, sess[a].closed))
  <2> DEFINE s == [sess[a] EXCEPT !.pc = "ask", !.closed = {}, !.content = Burned(sess[a].content, sess[a].closed)]
  <2>1. SessionOK(s)
    BY DEF SessionInv, SessionOK, PromptOK, Fields
  <2>2. sess' = [sess EXCEPT ![a] = s]
    BY <1>2 DEF QueueResult, SessionInv
  <2> HIDE DEF s
  <2> QED BY <2>1, <2>2, Updated DEF QueueResult
<1> QED BY <1>1, <1>2

LEMMA CallFacts ==
  ASSUME SessionInv, NEW a \in Agents, CallTool(a)
  PROVE  SessionInv'
<1>1. PICK p \in Plans, k \in Tasks, note \in BOOLEAN :
        \/ TurnEnds(a)
        \/ Answer(a)
        \/ sess' = [sess EXCEPT ![a] = [@ EXCEPT !.pc = "spawn", !.step = <<p, k>>, !.note = note]]
  BY Zenon DEF CallTool
<1>2. CASE TurnEnds(a) \/ Answer(a)
  BY <1>2, EndFacts, AnswerFacts
<1>3. CASE sess' = [sess EXCEPT ![a] = [@ EXCEPT !.pc = "spawn", !.step = <<p, k>>, !.note = note]]
  <2> DEFINE s == [sess[a] EXCEPT !.pc = "spawn", !.step = <<p, k>>, !.note = note]
  <2>1. SessionOK(s)
    BY DEF SessionInv, SessionOK, PromptOK, Fields
  <2>2. sess' = [sess EXCEPT ![a] = s]
    BY <1>3 DEF SessionInv
  <2> HIDE DEF s
  <2> QED BY <2>1, <2>2, Updated
<1> QED BY <1>1, <1>2, <1>3

LEMMA SpawnFacts ==
  ASSUME SessionInv, NEW a \in Agents, Spawned(a)
  PROVE  SessionInv'
<1>1. PICK hangs \in BOOLEAN : sess' = [sess EXCEPT ![a] = [@ EXCEPT !.pc = "verify", !.hangs = hangs]]
  BY DEF Spawned
<1> DEFINE s == [sess[a] EXCEPT !.pc = "verify", !.hangs = hangs]
<1>2. sess[a].pc = "spawn"
  BY DEF Spawned
<1>3. SessionOK(s)
  BY <1>2 DEF SessionInv, SessionOK, PromptOK, Fields
<1>4. sess' = [sess EXCEPT ![a] = s]
  BY <1>1 DEF SessionInv
<1> HIDE DEF s
<1> QED BY <1>3, <1>4, Updated

LEMMA SuccessFacts ==
  ASSUME SessionInv, NEW a \in Agents, VerifySucceeds(a)
  PROVE  SessionInv'
<1> DEFINE p == sess[a].step[1]
           k == sess[a].step[2]
<1>1. CASE FlipRaises(task[p][k])
  BY <1>1, AnswerFacts DEF VerifySucceeds
<1>2. CASE ~FlipRaises(task[p][k])
  <2>1. PICK closed :
          sess' = [sess EXCEPT ![a] = [@ EXCEPT
                     !.pc = "result", !.step = NoStep, !.note = FALSE, !.closed = closed]]
    BY <1>2 DEF VerifySucceeds
  <2> DEFINE s == [sess[a] EXCEPT !.pc = "result", !.step = NoStep, !.note = FALSE, !.closed = closed]
  <2>2. SessionOK(s)
    BY DEF SessionInv, SessionOK, PromptOK, Fields
  <2>3. sess' = [sess EXCEPT ![a] = s]
    BY <2>1 DEF SessionInv
  <2> HIDE DEF s
  <2> QED BY <2>2, <2>3, Updated DEF VerifySucceeds
<1> QED BY <1>1, <1>2

LEMMA WorkStep ==
  ASSUME SessionInv, NEW a \in Agents, Work(a) \/ Cancel(a)
  PROVE  SessionInv'
<1>1. CASE Finish(a) \/ Cancel(a)
  BY <1>1, EndFacts DEF Finish, Cancel
<1>2. CASE SpawnFails(a) \/ VerifyFails(a) \/ VerifyTimesOut(a)
  BY <1>2, AnswerFacts DEF SpawnFails, VerifyFails, VerifyTimesOut
<1> QED BY <1>1, <1>2, StartFacts, InputFacts, ResultFacts, CallFacts, SpawnFacts, SuccessFacts DEF Work

LEMMA SessionsInvariant == Spec => []SessionInv
<1>1. Init => SessionInv
  BY RestingOK DEF Init, SessionInv
<1>2. SessionInv /\ [Next]_vars => SessionInv'
  <2> SUFFICES ASSUME SessionInv, [Next]_vars PROVE SessionInv'
    OBVIOUS
  <2>1. CASE UNCHANGED sess
    BY <2>1 DEF SessionInv
  <2>2. CASE \E a \in Agents : Work(a) \/ Cancel(a)
    BY <2>2, WorkStep
  <2>3. ASSUME NEW p \in Plans, EditPlan(p) \/ \E k \in Tasks : EditTask(p, k) PROVE UNCHANGED sess
    BY <2>3 DEF EditPlan, EditTask
  <2>4. Reload \/ UNCHANGED vars => UNCHANGED sess
    BY DEF Reload, vars
  <2> QED BY <2>1, <2>2, <2>3, <2>4 DEF Next
<1> QED BY <1>1, <1>2, PTL DEF Spec

(* What a turn is shown of its plan fits the budget unless one layer exceeds *)
(* it alone; a layer gave way only to more protected ones, and none gave way *)
(* needlessly: LayerBudget's promise, for layers and budgets of any size.    *)
THEOREM PromptAlwaysFits == Spec => []PromptFits
<1>1. ASSUME SessionInv PROVE PromptFits
  <2>1. \A a \in Agents : Fitted(sess[a].offered, sess[a].shown)
    BY <1>1, AllocateFits DEF SessionInv, SessionOK, PromptOK
  <2> QED BY <2>1 DEF PromptFits, Fitted
<1> QED BY <1>1, SessionsInvariant, PTL

-----------------------------------------------------------------------------
(* The files.                                                               *)

Statuses == {"pending", "done", "broken"}
Tables(S) == [Plans -> [Tasks -> S]]

(* A file that is pending has been flipped less often than it became so.    *)
FilesInv ==
  /\ task \in Tables(Statuses) /\ periods \in Tables(Nat) /\ flipped \in Tables(Nat)
  /\ findings \in [Plans -> Seq(Tasks)] /\ entries = findings
  /\ \A p \in Plans, k \in Tasks :
       /\ flipped[p][k] <= periods[p][k]
       /\ task[p][k] = "pending" => flipped[p][k] < periods[p][k]

LEMMA TableFacts ==
  ASSUME NEW S, NEW t \in Tables(S), NEW p \in Plans, NEW k \in Tasks, NEW v \in S
  PROVE  /\ [t EXCEPT ![p][k] = v] \in Tables(S)
         /\ [t EXCEPT ![p][k] = v][p][k] = v
         /\ \A q \in Plans, l \in Tasks : q # p \/ l # k => [t EXCEPT ![p][k] = v][q][l] = t[q][l]
         /\ \A q \in Plans, l \in Tasks : t[q][l] \in S
BY DEF Tables

LEMMA TableUpdated ==
  ASSUME NEW S, NEW t \in Tables(S), NEW p \in Plans, NEW k \in Tasks, NEW v \in S
  PROVE  [t EXCEPT ![p][k] = v] \in Tables(S)
BY DEF Tables

(* An entry added to the findings of a plan, or written over them.          *)
LEMMA EntryFacts ==
  ASSUME NEW S, NEW s \in Seq(S), NEW k \in S
  PROVE  /\ AppendFindings(s, k, TRUE) = Append(s, k) /\ AppendFindings(s, k, FALSE) = <<k>>
         /\ Append(s, k) \in Seq(S) /\ <<k>> \in Seq(S)
<1> DEFINE one == <<k>>
<1>1. one \in Seq(S) /\ Len(one) = 1 /\ one[1] = k
  OBVIOUS
<1>2. s \o one = Append(s, k)
  OBVIOUS
<1>3. <<>> \o one = one
  OBVIOUS
<1> QED BY <1>1, <1>2, <1>3 DEF AppendFindings

(* A completion flips a pending file once, and leaves a broken one alone.   *)
LEMMA CompletionStep ==
  ASSUME SessionInv, FilesInv, NEW a \in Agents, VerifySucceeds(a)
  PROVE  FilesInv'
<1> DEFINE p == sess[a].step[1]
           k == sess[a].step[2]
<1>1. p \in Plans /\ k \in Tasks
  BY DEF VerifySucceeds, SessionInv, SessionOK
<1>2. CASE FlipRaises(task[p][k])
  BY <1>2 DEF VerifySucceeds, FilesInv, files, history
<1>3. CASE ~FlipRaises(task[p][k])
  <2> DEFINE old == task[p][k]
             n == flipped[p][k] + (IF old = "broken" THEN 0 ELSE 1)
  <2>1. /\ task' = [task EXCEPT ![p][k] = FlippedStatus(old)]
        /\ flipped' = [flipped EXCEPT ![p][k] = n] /\ periods' = periods
    BY <1>1, <1>3 DEF VerifySucceeds, FilesInv, Tables
  <2>2. old \in {"pending", "broken"} /\ flipped[p][k] \in Nat /\ n \in Nat
    <3>1. old \in Statuses /\ flipped[p][k] \in Nat
      BY <1>1 DEF FilesInv, Tables
    <3>2. old # "done"
      BY <1>3 DEF FlipRaises
    <3>3. old \in {"pending", "broken"}
      BY <3>1, <3>2 DEF Statuses
    <3> HIDE DEF old, p, k
    <3> QED BY <3>1, <3>3
  <2>3. FlippedStatus(old) = (IF old = "broken" THEN "broken" ELSE "done")
    <3> HIDE DEF old, n, p, k
    <3> QED BY <2>2 DEF FlippedStatus, ParsedStatus
  <2>4. \/ UNCHANGED <<findings, entries>>
        \/ findings' = [findings EXCEPT ![p] = Append(@, k)] /\ entries' = [entries EXCEPT ![p] = Append(@, k)]
        \/ findings' = [findings EXCEPT ![p] = <<k>>] /\ entries' = [entries EXCEPT ![p] = <<k>>]
    <3>1. PICK fault \in {"none", "unreadable", "write fails"} :
            IF ~sess[a].note \/ fault = "write fails" THEN UNCHANGED <<findings, entries>>
            ELSE /\ findings' = [findings EXCEPT ![p] = AppendFindings(@, k, fault = "none")]
                 /\ entries' = [entries EXCEPT ![p] = IF fault = "none" THEN Append(@, k) ELSE <<k>>]
      BY <1>3 DEF VerifySucceeds
    <3>2. findings[p] \in Seq(Tasks)
      BY <1>1 DEF FilesInv
    <3>3. /\ AppendFindings(findings[p], k, TRUE) = Append(findings[p], k)
          /\ AppendFindings(findings[p], k, FALSE) = <<k>>
      <4> HIDE DEF p, k
      <4> QED BY <1>1, <3>2, EntryFacts, Zenon
    <3> HIDE DEF p, k, old, n
    <3>4. CASE fault = "none"
      BY <3>1, <3>3, <3>4
    <3>5. CASE fault # "none"
      BY <3>1, <3>3, <3>5
    <3> QED BY <3>4, <3>5
  <2> HIDE DEF p, k
  <2>5. findings' \in [Plans -> Seq(Tasks)] /\ entries' = findings'
    <3>1. findings \in [Plans -> Seq(Tasks)] /\ entries = findings
      BY DEF FilesInv
    <3>2. Append(findings[p], k) \in Seq(Tasks) /\ <<k>> \in Seq(Tasks)
      <4>1. findings[p] \in Seq(Tasks)
        BY <1>1, <3>1
      <4> QED BY <1>1, <4>1, EntryFacts, Zenon
    <3>3. \A s \in Seq(Tasks) : [findings EXCEPT ![p] = s] \in [Plans -> Seq(Tasks)]
      BY <1>1, <3>1
    <3> QED BY <1>1, <2>4, <3>1, <3>2, <3>3
  <2>6. /\ task' \in Tables(Statuses) /\ flipped' \in Tables(Nat) /\ periods' \in Tables(Nat)
        /\ task'[p][k] = FlippedStatus(old) /\ flipped'[p][k] = n
        /\ \A q \in Plans, l \in Tasks : q # p \/ l # k => task'[q][l] = task[q][l] /\ flipped'[q][l] = flipped[q][l]
    <3>1. FlippedStatus(old) \in Statuses /\ task \in Tables(Statuses) /\ flipped \in Tables(Nat)
          /\ periods \in Tables(Nat)
      BY <2>3 DEF Statuses, FilesInv
    <3> HIDE DEF old, n
    <3>2. task'[p][k] = FlippedStatus(old) /\ flipped'[p][k] = n
      <4>1. task'[p][k] = FlippedStatus(old)
        BY <1>1, <2>1, <3>1, TableFacts
      <4>2. flipped'[p][k] = n
        <5>1. flipped' = [flipped EXCEPT ![p][k] = n] /\ flipped \in Tables(Nat) /\ n \in Nat
          BY <2>1, <2>2, <3>1
        <5> QED BY <1>1, <5>1, TableFacts
      <4> QED BY <4>1, <4>2
    <3>3. task' \in Tables(Statuses) /\ flipped' \in Tables(Nat)
      BY <1>1, <2>1, <2>2, <3>1, TableUpdated, Zenon
    <3>4. \A q \in Plans, l \in Tasks : q # p \/ l # k => task'[q][l] = task[q][l]
      BY <1>1, <2>1, <3>1, TableFacts
    <3>5. \A q \in Plans, l \in Tasks : q # p \/ l # k => flipped'[q][l] = flipped[q][l]
      BY <1>1, <2>1, <2>2, <3>1, TableFacts
    <3> QED BY <2>1, <3>1, <3>2, <3>3, <3>4, <3>5
  <2>7. n = flipped[p][k] + (IF old = "broken" THEN 0 ELSE 1)
    OBVIOUS
  <2> HIDE DEF old, n
  <2>8. \A q \in Plans, l \in Tasks :
          /\ flipped'[q][l] <= periods'[q][l]
          /\ task'[q][l] = "pending" => flipped'[q][l] < periods'[q][l]
    <3> SUFFICES ASSUME NEW q \in Plans, NEW l \in Tasks
                 PROVE  /\ flipped'[q][l] <= periods'[q][l]
                        /\ task'[q][l] = "pending" => flipped'[q][l] < periods'[q][l]
      OBVIOUS
    <3>1. /\ flipped[q][l] <= periods[q][l] /\ flipped[q][l] \in Nat /\ periods[q][l] \in Nat
          /\ task[q][l] = "pending" => flipped[q][l] < periods[q][l]
      BY DEF FilesInv, Tables
    <3>2. CASE q = p /\ l = k
      <4>1. flipped'[q][l] = n /\ task'[q][l] = FlippedStatus(old) /\ periods'[q][l] = periods[p][k]
        BY <2>1, <2>6, <3>2
      <4>2. task'[q][l] # "pending"
        BY <2>3, <4>1
      <4>3. n <= periods[p][k]
        <5>1. flipped[p][k] <= periods[p][k] /\ flipped[p][k] \in Nat /\ periods[p][k] \in Nat
              /\ (old = "pending" => flipped[p][k] < periods[p][k])
          BY <3>1, <3>2 DEF old
        <5> QED BY <2>2, <2>7, <5>1
      <4>4. flipped'[q][l] <= periods'[q][l]
        BY <4>1, <4>3
      <4> QED BY <4>2, <4>4
    <3>3. CASE q # p \/ l # k
      BY <2>1, <2>6, <3>1, <3>3
    <3> QED BY <3>2, <3>3
  <2> QED BY <2>5, <2>6, <2>8 DEF FilesInv
<1> QED BY <1>2, <1>3

(* An edit may make a file pending again.                                   *)
LEMMA EditStep ==
  ASSUME FilesInv, NEW p \in Plans, NEW k \in Tasks, EditTask(p, k)
  PROVE  FilesInv'
<1>1. PICK status \in Statuses \ {task[p][k]} :
        /\ task' = [task EXCEPT ![p][k] = status]
        /\ periods' = [periods EXCEPT ![p][k] = @ + (IF status = "pending" THEN 1 ELSE 0)]
  BY DEF EditTask, Statuses
<1> DEFINE n == periods[p][k] + (IF status = "pending" THEN 1 ELSE 0)
<1>2. /\ task \in Tables(Statuses) /\ periods \in Tables(Nat) /\ flipped \in Tables(Nat)
      /\ periods[p][k] \in Nat /\ n \in Nat
  BY DEF FilesInv, Tables
<1>3. periods' = [periods EXCEPT ![p][k] = n]
  BY <1>1, <1>2 DEF Tables
<1> HIDE DEF n
<1>4. /\ task' \in Tables(Statuses) /\ periods' \in Tables(Nat)
      /\ task'[p][k] = status /\ periods'[p][k] = n
      /\ \A q \in Plans, l \in Tasks : q # p \/ l # k => task'[q][l] = task[q][l] /\ periods'[q][l] = periods[q][l]
  <2>1. task' \in Tables(Statuses) /\ periods' \in Tables(Nat)
    <3>1. status \in Statuses
      BY <1>1
    <3>2. task' \in Tables(Statuses)
      BY <1>1, <1>2, <3>1, TableUpdated
    <3>3. periods' \in Tables(Nat)
      BY <1>2, <1>3, TableUpdated
    <3> QED BY <3>2, <3>3
  <2>2. task'[p][k] = status /\ periods'[p][k] = n
    <3>1. task'[p][k] = status
      BY <1>1, <1>2, TableFacts
    <3>2. periods'[p][k] = n
      BY <1>2, <1>3, TableFacts
    <3> QED BY <3>1, <3>2
  <2>3. \A q \in Plans, l \in Tasks : q # p \/ l # k => task'[q][l] = task[q][l]
    BY <1>1, <1>2, TableFacts
  <2>4. \A q \in Plans, l \in Tasks : q # p \/ l # k => periods'[q][l] = periods[q][l]
    BY <1>2, <1>3, TableFacts
  <2> QED BY <2>1, <2>2, <2>3, <2>4
<1>5. \A q \in Plans, l \in Tasks :
        /\ flipped[q][l] <= periods'[q][l]
        /\ task'[q][l] = "pending" => flipped[q][l] < periods'[q][l]
  <2> SUFFICES ASSUME NEW q \in Plans, NEW l \in Tasks
               PROVE  /\ flipped[q][l] <= periods'[q][l]
                      /\ task'[q][l] = "pending" => flipped[q][l] < periods'[q][l]
    OBVIOUS
  <2>1. /\ flipped[q][l] <= periods[q][l] /\ flipped[q][l] \in Nat /\ periods[q][l] \in Nat
        /\ task[q][l] = "pending" => flipped[q][l] < periods[q][l]
    BY DEF FilesInv, Tables
  <2>2. CASE q = p /\ l = k
    BY <1>4, <2>1, <2>2 DEF n
  <2>3. CASE q # p \/ l # k
    BY <1>4, <2>1, <2>3
  <2> QED BY <2>2, <2>3
<1> QED BY <1>2, <1>4, <1>5 DEF EditTask, FilesInv

LEMMA FilesInvariant == Spec => []FilesInv
<1>1. Init => FilesInv
  BY DEF Init, FilesInv, Tables, Statuses
<1>2. SessionInv /\ FilesInv /\ [Next]_vars => FilesInv'
  <2> SUFFICES ASSUME SessionInv, FilesInv, [Next]_vars PROVE FilesInv'
    OBVIOUS
  <2>1. CASE UNCHANGED <<task, findings, periods, flipped, entries>>
    BY <2>1 DEF FilesInv
  <2>2. ASSUME NEW a \in Agents, Work(a) \/ Cancel(a)
        PROVE  VerifySucceeds(a) \/ UNCHANGED <<task, findings, periods, flipped, entries>>
    BY <2>2 DEF Work, StartTurn, QueueInput, Finish, CallTool, Spawned, SpawnFails, VerifyFails,
                VerifyTimesOut, QueueResult, Cancel, files, history
  <2>3. ASSUME NEW p \in Plans, EditPlan(p) PROVE UNCHANGED <<task, findings, periods, flipped, entries>>
    BY <2>3 DEF EditPlan, history
  <2>4. Reload \/ UNCHANGED vars => UNCHANGED <<task, findings, periods, flipped, entries>>
    BY DEF Reload, vars, files, history
  <2> QED BY <2>1, <2>2, <2>3, <2>4, CompletionStep, EditStep DEF Next
<1> QED BY <1>1, <1>2, SessionsInvariant, PTL DEF Spec

(* However many sessions verify the same step at once, and whatever is       *)
(* edited meanwhile, a task is flipped at most once for every time it became *)
(* pending, and _findings.md has one entry of every completion that had any. *)
THEOREM StepsAreCompletedOnce == Spec => []StepsCompleteOnce
<1>1. FilesInv => StepsCompleteOnce
  BY DEF FilesInv, StepsCompleteOnce
<1> QED BY <1>1, FilesInvariant, PTL

===============================================================================
