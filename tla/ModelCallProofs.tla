---------------------------- MODULE ModelCallProofs ----------------------------
(***************************************************************************)
(* Proofs about ModelCall, for all models, limits and requests: what cuts   *)
(* leave of a request, what SR2 gets of a stream, and what the log says.    *)
(***************************************************************************)
EXTENDS ModelCall, WellFoundedInduction, FiniteSetTheorems, SequenceTheorems, TLAPS

-----------------------------------------------------------------------------
(* Numbers and sequences.                                                   *)

(* The least number principle, and with it Min, Max and induction.          *)
LEMMA LeastExists ==
  ASSUME NEW S, S \subseteq Nat, S # {}
  PROVE  \E x \in S : \A y \in S : x <= y
<1> DEFINE R == OpToRel(<, Nat)
<1>1. IsWellFoundedOn(R, Nat)
  BY NatLessThanWellFounded
<1>2. \A x, y \in Nat : y < x => <<y, x>> \in R
  BY DEF OpToRel
<1> HIDE DEF R
<1>3. PICK x \in S : \A y \in S : ~(<<y, x>> \in R)
  BY <1>1, WFMin
<1>4. \A y \in S : ~(y < x)
  BY <1>2, <1>3
<1> QED BY <1>4

LEMMA MinFacts ==
  ASSUME NEW S, S \subseteq Nat, S # {}
  PROVE  Min(S) \in S /\ \A y \in S : Min(S) <= y
BY LeastExists DEF Min

LEMMA MaxFacts ==
  ASSUME NEW S, NEW n \in Nat, S \subseteq 0..n, S # {}
  PROVE  Max(S) \in S /\ \A y \in S : Max(S) >= y
<1> DEFINE T == {n - x : x \in S}
<1>1. T \subseteq Nat /\ T # {}
  <2>1. \A x \in S : n - x \in Nat
    OBVIOUS
  <2> QED BY <2>1
<1>2. PICK t \in T : \A y \in T : t <= y
  BY <1>1, LeastExists
<1>3. PICK x \in S : t = n - x
  OBVIOUS
<1>4. \A y \in S : x >= y
  BY <1>2, <1>3
<1> QED BY <1>4 DEF Max

(* A sequence of sequences, flattened.                                      *)
LEMMA FlattenFacts ==
  ASSUME NEW S, NEW ss \in Seq(Seq(S)), ss # <<>>
  PROVE  FlattenSeq(ss) \in Seq(S) /\ (ss[Len(ss)] # <<>> => FlattenSeq(ss) # <<>>)
<1> DEFINE n == Len(ss)
           Def(f, m) == f = [i \in 1..m |-> IF i = 1 THEN ss[i] ELSE f[i - 1] \o ss[i]]
           D == {m \in 1..n : \A f : ~Def(f, m)}
<1>1. n \in Nat /\ n > 0 /\ \A i \in 1..n : ss[i] \in Seq(S)
  OBVIOUS
<1> HIDE DEF n
<1>2. \A m \in 1..n : \E f : Def(f, m)
  <2> HIDE DEF Def
  <2> SUFFICES ASSUME D # {} PROVE FALSE
    OBVIOUS
  <2>1. PICK m \in D : \A y \in D : m <= y
    <3>1. D \subseteq 1..n
      OBVIOUS
    <3> HIDE DEF D
    <3>2. D \subseteq Nat
      BY <1>1, <3>1
    <3> QED BY LeastExists, <3>2
  <2>2. m \in 1..n /\ \A f : ~Def(f, m)
    OBVIOUS
  <2>3. m # 1
    <3>1. Def([i \in 1..1 |-> ss[i]], 1)
      BY DEF Def
    <3> QED BY <3>1, <2>2
  <2>4. m \in Nat /\ m - 1 \in 1..n /\ ~(m <= m - 1)
    BY <1>1, <2>2, <2>3
  <2>5. PICK f : Def(f, m - 1)
    BY <2>1, <2>4
  <2> DEFINE g == [i \in 1..m |-> IF i < m THEN f[i] ELSE f[m - 1] \o ss[m]]
  <2>6. \A i \in 1..(m - 1) : f[i] = IF i = 1 THEN ss[i] ELSE f[i - 1] \o ss[i]
    BY <2>5 DEF Def
  <2>7. /\ g[m] = f[m - 1] \o ss[m]
        /\ \A i \in 1..(m - 1) : g[i] = f[i]
    <3>1. m \in 1..m /\ ~(m < m) /\ \A i \in 1..(m - 1) : i \in 1..m /\ i < m
      BY <2>4
    <3> QED BY <3>1
  <2>8. g = [i \in 1..m |-> g[i]]
    OBVIOUS
  <2> HIDE DEF g
  <2>9. \A i \in 1..m : g[i] = IF i = 1 THEN ss[i] ELSE g[i - 1] \o ss[i]
    <3> TAKE i \in 1..m
    <3>1. i \in Nat /\ (i # 1 => i - 1 \in 1..(m - 1)) /\ (i # m => i \in 1..(m - 1))
      BY <2>4
    <3>2. CASE i = m
      BY <2>3, <2>7, <3>1, <3>2
    <3>3. CASE i # m
      BY <2>6, <2>7, <3>1, <3>3
    <3> QED BY <3>2, <3>3
  <2>10. Def(g, m)
    BY <2>8, <2>9 DEF Def
  <2> QED BY <2>2, <2>10
<1> DEFINE h == CHOOSE h : Def(h, n)
<1>3. Def(h, n)
  <2>1. n \in 1..n
    BY <1>1
  <2> HIDE DEF Def
  <2> QED BY <1>2, <2>1
<1>4. FlattenSeq(ss) = h[n]
  BY <1>1 DEF FlattenSeq, n
<1> HIDE DEF h
<1>5. \A m \in 1..n : h[m] = IF m = 1 THEN ss[m] ELSE h[m - 1] \o ss[m]
  BY <1>3
<1> HIDE DEF Def
<1> DEFINE B == {m \in 1..n : h[m] \notin Seq(S)}
<1>6. \A m \in 1..n : h[m] \in Seq(S)
  <2> SUFFICES ASSUME B # {} PROVE FALSE
    OBVIOUS
  <2>1. PICK m \in B : \A y \in B : m <= y
    <3>1. B \subseteq 1..n
      OBVIOUS
    <3> HIDE DEF B
    <3>2. B \subseteq Nat
      BY <1>1, <3>1
    <3> QED BY LeastExists, <3>2
  <2>2. m \in 1..n /\ h[m] \notin Seq(S)
    OBVIOUS
  <2>3. m # 1
    BY <1>1, <1>5, <2>2
  <2>4. m \in Nat /\ m - 1 \in 1..n /\ ~(m <= m - 1)
    BY <1>1, <2>2, <2>3
  <2>5. h[m - 1] \in Seq(S)
    BY <2>1, <2>4
  <2>6. h[m] = h[m - 1] \o ss[m] /\ ss[m] \in Seq(S)
    BY <1>1, <1>5, <2>2, <2>3
  <2> HIDE DEF B
  <2> QED BY <2>2, <2>5, <2>6
<1>7. n \in 1..n /\ h[n] \in Seq(S)
  BY <1>1, <1>6
<1>8. ss[n] # <<>> => h[n] # <<>>
  <2>1. CASE n = 1
    BY <1>5, <1>7, <2>1
  <2>2. CASE n # 1
    <3>1. n - 1 \in 1..n
      BY <1>1, <2>2
    <3>2. h[n - 1] \in Seq(S) /\ h[n] = h[n - 1] \o ss[n] /\ ss[n] \in Seq(S)
      BY <1>1, <1>5, <1>6, <1>7, <2>2, <3>1
    <3> HIDE DEF B
    <3> QED BY <3>2
  <2> QED BY <2>1, <2>2
<1> QED BY <1>4, <1>7, <1>8 DEF n

-----------------------------------------------------------------------------
(* The request on the wire.                                                 *)

Roles == {"system", "user", "assistant", "call", "tool"}
IsWire(w) == w \in Seq(Roles) /\ Len(w) > 1 /\ w[1] = "system"

LEMMA WireIsWire ==
  ASSUME NEW request \in Requests
  PROVE  IsWire(Wire(request))
<1> DEFINE parts == [i \in DOMAIN request |-> OnWire(request[i])]
<1>1. request \in Seq(Messages) /\ request # <<>>
  BY ModelCallAssumption
<1>2. \A m \in Messages : OnWire(m) \in Seq(Roles) /\ OnWire(m) # <<>>
  <2> TAKE m \in Messages
  <2>1. m.type \in {"user", "assistant", "call", "results"} /\ m.n \in Nat /\ m.n > 0
    BY DEF Messages
  <2>2. CASE m.type = "results"
    BY <2>1, <2>2 DEF OnWire, Roles
  <2>3. CASE m.type # "results"
    BY <2>1, <2>3 DEF OnWire, Roles
  <2> QED BY <2>2, <2>3
<1>3. /\ parts \in Seq(Seq(Roles)) /\ Len(parts) = Len(request) /\ Len(request) \in 1..Len(request)
      /\ parts[Len(request)] = OnWire(request[Len(request)])
      /\ request[Len(request)] \in Messages
  <2>1. /\ Len(request) \in Nat /\ Len(request) > 0 /\ DOMAIN request = 1..Len(request)
        /\ \A i \in 1..Len(request) : request[i] \in Messages
    BY <1>1
  <2>2. \A i \in 1..Len(request) : OnWire(request[i]) \in Seq(Roles)
    BY <1>2, <2>1
  <2>3. parts \in [1..Len(request) -> Seq(Roles)]
    BY <2>1, <2>2
  <2>4. parts \in Seq(Seq(Roles)) /\ Len(parts) = Len(request)
    <3> HIDE DEF parts
    <3> QED BY <2>1, <2>3
  <2> QED BY <2>1, <2>4
<1> HIDE DEF parts
<1>4. parts # <<>> /\ parts[Len(parts)] # <<>>
  BY <1>1, <1>2, <1>3
<1>5. FlattenSeq(parts) \in Seq(Roles) /\ FlattenSeq(parts) # <<>>
  BY <1>3, <1>4, FlattenFacts
<1> DEFINE system == <<"system">>
<1>6. system \in Seq(Roles) /\ Len(system) = 1 /\ system[1] = "system"
  BY DEF Roles
<1> HIDE DEF system
<1>7. \A s \in Seq(Roles) : s # <<>> => IsWire(system \o s)
  <2> TAKE s \in Seq(Roles)
  <2> HAVE s # <<>>
  <2>1. Len(s) \in Nat /\ Len(s) > 0
    OBVIOUS
  <2>2. /\ system \o s \in Seq(Roles) /\ Len(system \o s) = Len(system) + Len(s)
        /\ \A i \in 1..(Len(system) + Len(s)) :
              (system \o s)[i] = IF i <= Len(system) THEN system[i] ELSE s[i - Len(system)]
    BY <1>6, ConcatProperties
  <2> QED BY <1>6, <2>1, <2>2 DEF IsWire
<1>8. Wire(request) = system \o FlattenSeq(parts)
  BY DEF Wire, parts, system
<1> QED BY <1>5, <1>7, <1>8

(* Where kept messages may begin, without the maximum: m is the last that   *)
(* is no result.                                                            *)
LEMMA StartsFacts ==
  ASSUME NEW w, IsWire(w)
  PROVE  \E m \in 2..Len(w) :
           /\ m = 2 \/ w[m] # "tool"
           /\ \A j \in (m + 1)..Len(w) : w[j] = "tool"
           /\ Starts(w) = {s \in 2..Len(w) : s = 2 \/ w[s] # "tool" \/ (s = Len(w) /\ w[m] # "call")}
<1> DEFINE n == Len(w)
           heads == {2} \union {i \in 2..n : w[i] # "tool"}
           m == Max(heads)
<1>1. n \in Nat /\ n > 1 /\ First(w) = 2
  BY DEF IsWire, First
<1>2. heads \subseteq 0..n /\ heads # {}
  BY <1>1
<1>3. m \in heads /\ \A y \in heads : m >= y
  <2> HIDE DEF heads
  <2> QED BY <1>1, <1>2, MaxFacts
<1>4. Starts(w) = heads \union (IF w[m] = "call" THEN {} ELSE {n})
  BY <1>1 DEF Starts
<1> HIDE DEF m, n
<1>5. m \in 2..n /\ (m = 2 \/ w[m] # "tool")
  BY <1>1, <1>3
<1>6. \A j \in (m + 1)..n : w[j] = "tool"
  BY <1>1, <1>3, <1>5
<1>7. Starts(w) = {s \in 2..n : s = 2 \/ w[s] # "tool" \/ (s = n /\ w[m] # "call")}
  BY <1>1, <1>4
<1> QED BY <1>5, <1>6, <1>7 DEF n

LEMMA FromFacts ==
  ASSUME NEW w, IsWire(w), NEW s \in 2..Len(w)
  PROVE  /\ IsWire(From(w, s)) /\ Len(From(w, s)) = Len(w) - s + 2
         /\ \A i \in 2..(Len(w) - s + 2) : From(w, s)[i] = w[i + s - 2]
<1> DEFINE head == SubSeq(w, 1, 1)
           rest == SubSeq(w, s, Len(w))
<1>1. w \in Seq(Roles) /\ Len(w) \in Nat /\ Len(w) > 1 /\ w[1] = "system" /\ From(w, s) = head \o rest
  BY DEF IsWire, From, First
<1>2. head \in Seq(Roles) /\ Len(head) = 1 /\ head[1] = "system"
  BY <1>1
<1>3. /\ rest \in Seq(Roles) /\ Len(rest) = Len(w) - s + 1
      /\ \A i \in 1..(Len(w) - s + 1) : rest[i] = w[i + s - 1]
  BY <1>1
<1> HIDE DEF head, rest
<1>4. /\ head \o rest \in Seq(Roles) /\ Len(head \o rest) = Len(rest) + 1
      /\ (head \o rest)[1] = "system"
      /\ \A i \in 2..(Len(rest) + 1) : (head \o rest)[i] = rest[i - 1]
  <2>1. /\ head \o rest \in Seq(Roles) /\ Len(head \o rest) = Len(head) + Len(rest)
        /\ \A i \in 1..(Len(head) + Len(rest)) :
              (head \o rest)[i] = IF i <= Len(head) THEN head[i] ELSE rest[i - Len(head)]
    BY <1>2, <1>3, ConcatProperties
  <2>2. Len(head) = 1 /\ Len(rest) \in Nat
    BY <1>1, <1>2, <1>3
  <2> QED BY <1>2, <2>1, <2>2
<1>5. \A i \in 2..(Len(w) - s + 2) : (head \o rest)[i] = w[i + s - 2]
  <2> TAKE i \in 2..(Len(w) - s + 2)
  <2>1. i - 1 \in 1..(Len(w) - s + 1) /\ (i - 1) + s - 1 = i + s - 2 /\ i \in 2..(Len(rest) + 1)
    BY <1>1, <1>3
  <2> QED BY <1>3, <1>4, <2>1
<1> QED BY <1>1, <1>3, <1>4, <1>5 DEF IsWire

(* A cut of a cut is a cut.                                                 *)
LEMMA CutTwice ==
  ASSUME NEW w, IsWire(w), NEW s \in Starts(w), NEW t \in Starts(From(w, s))
  PROVE  s + t - 2 \in Starts(w) /\ From(From(w, s), t) = From(w, s + t - 2)
<1> DEFINE x == From(w, s)
           n == Len(w)
           l == Len(x)
           u == s + t - 2
<1>1. PICK m \in 2..n :
        /\ m = 2 \/ w[m] # "tool"
        /\ \A j \in (m + 1)..n : w[j] = "tool"
        /\ Starts(w) = {a \in 2..n : a = 2 \/ w[a] # "tool" \/ (a = n /\ w[m] # "call")}
  BY StartsFacts
<1>2. s \in 2..n /\ (s = 2 \/ w[s] # "tool" \/ (s = n /\ w[m] # "call"))
  BY <1>1
<1>3. IsWire(x) /\ l = n - s + 2 /\ \A i \in 2..l : x[i] = w[i + s - 2]
  BY <1>2, FromFacts
<1>4. PICK k \in 2..l :
        /\ k = 2 \/ x[k] # "tool"
        /\ \A j \in (k + 1)..l : x[j] = "tool"
        /\ Starts(x) = {a \in 2..l : a = 2 \/ x[a] # "tool" \/ (a = l /\ x[k] # "call")}
  BY <1>3, StartsFacts
<1>5. t \in 2..l /\ (t = 2 \/ x[t] # "tool" \/ (t = l /\ x[k] # "call"))
  BY <1>4
<1>6. n \in Nat /\ n > 1 /\ w \in Seq(Roles)
  BY DEF IsWire
<1> HIDE DEF x, n, l
<1>7. u \in 2..n /\ x[t] = w[u]
  BY <1>2, <1>3, <1>5, <1>6
<1>8. u = 2 \/ w[u] # "tool" \/ (u = n /\ w[m] # "call")
  <2>1. CASE t = 2
    BY <1>2, <1>6, <2>1
  <2>2. CASE x[t] # "tool"
    BY <1>7, <2>2
  <2>3. CASE t = l /\ x[k] # "call" /\ x[t] = "tool" /\ t # 2
    <3>1. u = n /\ l > 2
      BY <1>2, <1>3, <1>5, <1>6, <2>3
    <3>2. x[k] = w[k + s - 2] /\ k + s - 2 \in 2..n /\ \A j \in (k + s - 1)..n : w[j] = "tool"
      <4>1. k + s - 2 \in 2..n
        BY <1>2, <1>3, <1>4, <1>6
      <4>2. \A j \in (k + s - 1)..n : w[j] = "tool"
        <5> TAKE j \in (k + s - 1)..n
        <5>1. j - s + 2 \in (k + 1)..l /\ j - s + 2 \in 2..l /\ (j - s + 2) + s - 2 = j
          BY <1>2, <1>3, <1>4, <1>6
        <5> QED BY <1>3, <1>4, <5>1
      <4> QED BY <1>3, <1>4, <4>1, <4>2
    <3>3. CASE x[k] # "tool"
      <4>1. m = k + s - 2
        BY <1>1, <1>2, <1>4, <1>6, <3>2, <3>3
      <4> QED BY <2>3, <3>1, <3>2, <4>1
    <3>4. CASE x[k] = "tool"
      <4>1. k = 2 /\ w[s] = "tool"
        <5>1. k = 2 /\ 2 + s - 2 = s
          BY <1>2, <1>4, <1>6, <3>4
        <5> QED BY <3>2, <3>4, <5>1
      <4>2. CASE s = 2
        <5>1. \A j \in 2..n : w[j] = "tool"
          BY <1>6, <3>2, <4>1, <4>2
        <5> QED BY <1>1, <3>1, <5>1
      <4>3. CASE s = n
        BY <1>3, <1>6, <3>1, <4>3
      <4> QED BY <1>2, <4>1, <4>2, <4>3
    <3> QED BY <3>3, <3>4
  <2> QED BY <1>5, <2>1, <2>2, <2>3
<1>9. From(x, t) = From(w, u)
  <2>1. /\ IsWire(From(x, t)) /\ Len(From(x, t)) = l - t + 2
        /\ \A i \in 2..(l - t + 2) : From(x, t)[i] = x[i + t - 2]
    BY <1>3, <1>5, FromFacts DEF l
  <2>2. /\ IsWire(From(w, u)) /\ Len(From(w, u)) = n - u + 2
        /\ \A i \in 2..(n - u + 2) : From(w, u)[i] = w[i + u - 2]
    <3> HIDE DEF u
    <3> QED BY <1>7, FromFacts DEF n
  <2>3. l - t + 2 = n - u + 2
    BY <1>2, <1>3, <1>5, <1>6
  <2>4. \A i \in 1..(n - u + 2) : From(x, t)[i] = From(w, u)[i]
    <3> TAKE i \in 1..(n - u + 2)
    <3>1. CASE i = 1
      BY <2>1, <2>2, <3>1 DEF IsWire
    <3>2. CASE i # 1
      <4>1. i \in 2..(n - u + 2) /\ i + t - 2 \in 2..l /\ (i + t - 2) + s - 2 = i + u - 2
        BY <1>2, <1>3, <1>5, <1>6, <3>2
      <4> HIDE DEF u
      <4> QED BY <1>3, <2>1, <2>2, <2>3, <4>1
    <3> QED BY <3>1, <3>2
  <2> HIDE DEF u
  <2>5. From(x, t) \in Seq(Roles) /\ From(w, u) \in Seq(Roles) /\ Len(From(x, t)) = Len(From(w, u))
    BY <2>1, <2>2, <2>3 DEF IsWire
  <2> QED BY <2>2, <2>4, <2>5, SeqEqual
<1> QED BY <1>1, <1>7, <1>8, <1>9 DEF x, n, u

(* What a cut keeps: the system prompt, the end, and the pairs.             *)
LEMMA CutKeeps ==
  ASSUME NEW w, IsWire(w), NEW s \in Starts(w)
  PROVE  LET x == From(w, s)
         IN  /\ x[1] = "system" /\ Last(x) = Last(w)
             /\ IsSuffix(Tail(x), w)
             /\ Paired(w) => Paired(x)
<1> DEFINE x == From(w, s)
           n == Len(w)
           l == Len(x)
<1>1. PICK m \in 2..n :
        /\ m = 2 \/ w[m] # "tool"
        /\ \A j \in (m + 1)..n : w[j] = "tool"
        /\ Starts(w) = {a \in 2..n : a = 2 \/ w[a] # "tool" \/ (a = n /\ w[m] # "call")}
  BY StartsFacts
<1>2. s \in 2..n /\ (s = 2 \/ w[s] # "tool" \/ (s = n /\ w[m] # "call"))
  BY <1>1
<1>3. IsWire(x) /\ l = n - s + 2 /\ \A i \in 2..l : x[i] = w[i + s - 2]
  BY <1>2, FromFacts
<1>4. n \in Nat /\ n > 1 /\ w \in Seq(Roles) /\ w[1] = "system" /\ x \in Seq(Roles) /\ x[1] = "system"
  BY <1>3 DEF IsWire
<1> HIDE DEF x
<1>5. DOMAIN w = 1..n /\ DOMAIN x = 1..l
  BY <1>4
<1> HIDE DEF n, l
<1>6. Last(x) = Last(w)
  <2>1. l \in 2..l /\ l + s - 2 = n
    BY <1>2, <1>3, <1>4
  <2> QED BY <1>3, <2>1 DEF Last, l, n
<1>7. IsSuffix(Tail(x), w)
  <2> DEFINE y == Tail(x)
             ry == Reverse(y)
             rw == Reverse(w)
  <2>1. /\ y \in Seq(Roles) /\ Len(y) = l - 1
        /\ \A i \in 1..(l - 1) : y[i] = x[i + 1]
    <3>1. x # <<>> /\ x \in Seq(Roles)
      BY <1>2, <1>3, <1>4 DEF l
    <3> QED BY <3>1, HeadTailProperties DEF l
  <2> HIDE DEF y
  <2>2. /\ ry \in Seq(Roles) /\ Len(ry) = l - 1
        /\ \A i \in 1..(l - 1) : ry[i] = y[l - i]
    <3>1. l - 1 \in Nat
      BY <1>2, <1>3, <1>4
    <3>2. \A i \in 1..(l - 1) : (Len(y) - i) + 1 = l - i /\ l - i \in 1..(l - 1) /\ y[l - i] \in Roles
      <4> TAKE i \in 1..(l - 1)
      <4>1. (Len(y) - i) + 1 = l - i /\ l - i \in 1..(l - 1) /\ l - i \in 1..Len(y)
        BY <1>2, <1>3, <1>4, <2>1, <3>1
      <4>2. y[l - i] \in Roles
        BY <2>1, <4>1, ElementOfSeq
      <4> QED BY <4>1, <4>2
    <3>3. ry = [i \in 1..(l - 1) |-> y[(Len(y) - i) + 1]]
      BY <2>1 DEF Reverse
    <3>4. \A i \in 1..(l - 1) : ry[i] = y[l - i]
      BY <3>2, <3>3
    <3>5. ry \in [1..(l - 1) -> Roles]
      BY <3>2, <3>3
    <3> HIDE DEF ry
    <3> QED BY <3>1, <3>4, <3>5
  <2>3. /\ rw \in Seq(Roles) /\ Len(rw) = n
        /\ \A i \in 1..n : rw[i] = w[n + 1 - i]
    <3>1. \A i \in 1..n : (Len(w) - i) + 1 = n + 1 - i /\ n + 1 - i \in 1..n /\ w[n + 1 - i] \in Roles
      BY <1>4 DEF n
    <3>2. rw = [i \in 1..n |-> w[(Len(w) - i) + 1]]
      BY DEF Reverse, n
    <3>3. \A i \in 1..n : rw[i] = w[n + 1 - i]
      BY <3>1, <3>2
    <3>4. rw \in [1..n -> Roles]
      <4>1. \A i \in 1..n : w[(Len(w) - i) + 1] \in Roles
        BY <3>1
      <4> QED BY <3>2, <4>1
    <3> HIDE DEF rw
    <3> QED BY <1>4, <3>3, <3>4
  <2>4. \A i \in 1..(l - 1) : ry[i] = rw[i]
    <3> TAKE i \in 1..(l - 1)
    <3>1. /\ l - i \in 1..(l - 1) /\ (l - i) + 1 \in 2..l /\ ((l - i) + 1) + s - 2 = n + 1 - i /\ i \in 1..n
      BY <1>2, <1>3, <1>4
    <3>2. ry[i] = y[l - i] /\ rw[i] = w[n + 1 - i]
      BY <2>2, <2>3, <3>1
    <3>3. y[l - i] = x[(l - i) + 1]
      BY <2>1, <3>1
    <3>4. x[(l - i) + 1] = w[n + 1 - i]
      BY <1>3, <3>1
    <3> QED BY <3>2, <3>3, <3>4
  <2> HIDE DEF ry, rw
  <2>5. l - 1 <= n /\ l - 1 \in Nat
    BY <1>2, <1>3, <1>4
  <2>6. SubSeq(ry, 1, l - 1) = SubSeq(rw, 1, l - 1)
    <3>1. \A i \in 1..(l - 1) : i \in 1..n
      BY <1>4, <2>5
    <3>2. /\ SubSeq(ry, 1, l - 1) = [i \in 1..(l - 1) |-> ry[i]]
          /\ SubSeq(rw, 1, l - 1) = [i \in 1..(l - 1) |-> rw[i]]
      BY <2>2, <2>3, <2>5, <3>1
    <3> QED BY <2>4, <3>2
  <2>7. IsPrefix(ry, rw)
    BY <2>2, <2>3, <2>5, <2>6 DEF IsPrefix
  <2> QED BY <2>7 DEF IsSuffix, y, ry, rw
<1>8. ASSUME Paired(w) PROVE Paired(x)
  <2>1. /\ \A i \in 1..n : w[i] = "tool" => i > 1 /\ w[i - 1] \in {"tool", "call"}
        /\ \A i \in 1..n : w[i] = "call" => i < n /\ w[i + 1] = "tool"
    BY <1>5, <1>8 DEF Paired, n
  <2>2. ASSUME NEW i \in 1..l, x[i] = "tool" PROVE i > 1 /\ x[i - 1] \in {"tool", "call"}
    <3>1. i # 1
      BY <1>4, <2>2
    <3>2. CASE i = 2
      <4>1. 2 \in 2..l /\ 2 + s - 2 = s /\ s - 1 \in 1..n /\ s \in 1..n
        BY <1>2, <1>3, <1>4
      <4>2. w[s] = "tool"
        BY <1>3, <2>2, <3>2, <4>1
      <4>3. w[s - 1] \in {"tool", "call"} /\ s # 2
        BY <1>4, <2>1, <4>1, <4>2
      <4>4. s = n /\ w[m] # "call"
        BY <1>2, <4>2, <4>3
      <4>5. m # n
        <5>1. m = n => m = 2
          BY <1>1, <4>2, <4>4
        <5> QED BY <4>3, <4>4, <5>1
      <4>6. m + 1 \in (m + 1)..n /\ m + 1 \in 1..n /\ (m + 1) - 1 = m
        BY <1>1, <1>4, <4>5
      <4>7. w[m] \in {"tool", "call"}
        BY <1>1, <2>1, <4>6
      <4>8. m = 2 /\ w[2] = "tool"
        BY <1>1, <4>4, <4>7
      <4>9. 2 \in 1..n /\ 2 - 1 = 1
        BY <1>4
      <4> QED BY <1>4, <2>1, <4>8, <4>9
    <3>3. CASE i > 2
      <4>1. /\ i \in 2..l /\ i - 1 \in 2..l /\ (i - 1) + s - 2 = (i + s - 2) - 1 /\ i + s - 2 \in 1..n
        BY <1>2, <1>3, <1>4, <3>3
      <4> QED BY <1>3, <2>1, <2>2, <3>3, <4>1
    <3> QED BY <3>1, <3>2, <3>3
  <2>3. ASSUME NEW i \in 1..l, x[i] = "call" PROVE i < l /\ x[i + 1] = "tool"
    <3>1. i # 1
      BY <1>4, <2>3
    <3>2. i \in 2..l /\ i + s - 2 \in 1..n /\ (i + s - 2) + 1 = (i + 1) + s - 2
      BY <1>2, <1>3, <1>4, <3>1
    <3>3. i + s - 2 < n /\ w[(i + s - 2) + 1] = "tool"
      BY <1>3, <2>1, <2>3, <3>2
    <3>4. i < l /\ i + 1 \in 2..l
      BY <1>2, <1>3, <1>4, <3>2, <3>3
    <3> QED BY <1>3, <3>2, <3>3, <3>4
  <2> QED BY <1>5, <2>2, <2>3 DEF Paired, l
<1> QED BY <1>4, <1>6, <1>7, <1>8 DEF x

(* Neither cut begins where none may.                                       *)
LEMMA FitIsACut ==
  ASSUME NEW w, IsWire(w), NEW limit
  PROVE  \E s \in Starts(w) : Fit(w, limit) = From(w, s)
<1>1. PICK m \in 2..Len(w) :
        Starts(w) = {a \in 2..Len(w) : a = 2 \/ w[a] # "tool" \/ (a = Len(w) /\ w[m] # "call")}
  BY StartsFacts
<1>2. Len(w) \in Nat /\ Len(w) > 1
  BY DEF IsWire
<1>3. Starts(w) \subseteq 0..Len(w) /\ 2 \in Starts(w)
  BY <1>1, <1>2
<1> DEFINE fitting == {s \in Starts(w) : limit = 0 \/ Len(From(w, s)) <= limit}
<1>4. fitting \subseteq Starts(w) /\ Fit(w, limit) = From(w, IF fitting = {} THEN Max(Starts(w)) ELSE Min(fitting))
  BY DEF Fit
<1> HIDE DEF fitting
<1>5. Max(Starts(w)) \in Starts(w)
  BY <1>2, <1>3, MaxFacts
<1>6. fitting # {} => Min(fitting) \in fitting
  <2>1. fitting \subseteq Nat
    BY <1>2, <1>3, <1>4
  <2> QED BY <2>1, MinFacts
<1> QED BY <1>4, <1>5, <1>6

LEMMA ShedIsACut ==
  ASSUME NEW w, IsWire(w), CanShed(w)
  PROVE  \E s \in Starts(w) : Shed(w) = From(w, s)
<1>1. PICK m \in 2..Len(w) :
        Starts(w) = {a \in 2..Len(w) : a = 2 \/ w[a] # "tool" \/ (a = Len(w) /\ w[m] # "call")}
  BY StartsFacts
<1>2. Len(w) \in Nat /\ First(w) = 2
  BY DEF IsWire, First
<1> DEFINE later == Starts(w) \ {First(w)}
<1>3. later \subseteq Nat /\ Shed(w) = From(w, Min(later))
  BY <1>1, <1>2 DEF Shed
<1>4. later # {}
  <2> SUFFICES ASSUME Starts(w) \subseteq {2} PROVE FALSE
    BY <1>2
  <2>1. IsFiniteSet({2}) /\ Cardinality({2}) = 1
    BY FS_Singleton
  <2>2. IsFiniteSet(Starts(w)) /\ Cardinality(Starts(w)) <= 1
    BY <2>1, FS_Subset
  <2>3. Cardinality(Starts(w)) \in Nat
    BY <2>2, FS_CardinalityType
  <2> QED BY <2>2, <2>3 DEF CanShed
<1> HIDE DEF later
<1>5. Min(later) \in later
  BY <1>3, <1>4, MinFacts
<1> QED BY <1>3, <1>5 DEF later

-----------------------------------------------------------------------------
(* The invariant.                                                           *)

Fields == {"pc", "kind", "request", "retries", "attempt", "inner", "wire", "sheds",
           "elapsed", "quiet", "chunks", "tools", "buffered"}
Events == [type : {"chunk", "tool_use", "end"}, by : Targets, attempt : Nat]

CallOK(c) ==
  /\ c = [f \in Fields |-> c[f]]
  /\ c.pc \in {"idle", "connect", "stream", "backoff", "yield"}
  /\ c.inner \in Targets /\ c.attempt \in Nat /\ c.retries \in Nat /\ c.attempt <= c.retries
  /\ c.sheds \in 0..MaxSheds /\ c.tools \subseteq 1..MaxTools
(* What is sent is a cut of the request.                                    *)
CutOK(c) ==
  c.pc # "idle" => /\ c.request \in Requests
                   /\ \E s \in Starts(Wire(c.request)) : c.wire = From(Wire(c.request), s)

Whole(s) ==
  /\ \A i, j \in DOMAIN s : s[i].by = s[j].by /\ s[i].attempt = s[j].attempt
  /\ \A i \in DOMAIN s : s[i].type = "end" => i = Len(s)
(* What an attempt has sent so far.                                         *)
Partial(c) ==
  /\ c.buffered \in Seq(Events)
  /\ \A i \in DOMAIN c.buffered : /\ c.buffered[i].by = c.inner /\ c.buffered[i].attempt = c.attempt
                                  /\ c.buffered[i].type # "end"
SeenOK(c, got) ==
  /\ got \in Seq(Events)
  /\ c.pc \in {"connect", "stream", "backoff"} => got = <<>>
  /\ c.pc \in {"connect", "stream"} => Partial(c)
  /\ c.pc = "yield" => /\ c.buffered \in Seq(Events) /\ c.buffered # <<>>
                       /\ Whole(got \o c.buffered)
  /\ c.pc = "idle" => Whole(got)

(* The sweep spares a locked log, and a log that cannot be written no longer *)
(* has to follow the call.                                                   *)
LogOK(l, attempting) ==
  /\ l \in Logs /\ (l.locked => l.exists)
  /\ Writable(l) => ~l.unpaired /\ l.open = attempting

Inv ==
  /\ target \in Targets
  /\ CallOK(call) /\ CutOK(call) /\ SeenOK(call, received)
  /\ LogOK(log, InAttempt)

LEMMA EmptyIsWhole == <<>> \in Seq(Events) /\ Whole(<<>>)
BY DEF Whole

LEMMA IdleFacts ==
  ASSUME target \in Targets
  PROVE  /\ CallOK(Idle) /\ CutOK(Idle) /\ Idle.pc = "idle" /\ Idle.attempt = 0
         /\ \A got \in Seq(Events) : Whole(got) => SeenOK(Idle, got)
<1>1. /\ Idle = [f \in Fields |-> Idle[f]]
      /\ Idle.pc = "idle" /\ Idle.attempt = 0 /\ Idle.retries = 0 /\ Idle.sheds = 0 /\ Idle.tools = {}
  BY DEF Idle, Fields
<1>2. Idle.inner \in Targets
  BY DEF Idle
<1>3. 0 \in 0..MaxSheds
  BY ModelCallAssumption
<1>4. CallOK(Idle)
  BY <1>1, <1>2, <1>3 DEF CallOK
<1> QED BY <1>1, <1>4 DEF CutOK, SeenOK

(* An attempt sends a cut of the request, and has nothing in its buffer.    *)
LEMMA AttemptFacts ==
  ASSUME target \in Targets, NEW c, CallOK(c), c.request \in Requests
  PROVE  /\ CallOK(Attempt(c)) /\ CutOK(Attempt(c)) /\ SeenOK(Attempt(c), <<>>)
         /\ Attempt(c).pc = "connect"
<1> DEFINE a == Attempt(c)
<1>1. c = [f \in Fields |-> c[f]]
  BY DEF CallOK
<1>2. /\ a = [f \in Fields |-> a[f]]
      /\ a.pc = "connect" /\ a.inner = target /\ a.sheds = 0 /\ a.tools = {} /\ a.buffered = <<>>
      /\ a.attempt = c.attempt /\ a.retries = c.retries /\ a.request = c.request
      /\ a.wire = Fit(Wire(c.request), Config[target].contextLimit)
  BY <1>1 DEF Attempt, Retained, Fields
<1> HIDE DEF a
<1>3. 0 \in 0..MaxSheds
  BY ModelCallAssumption
<1>4. CallOK(a)
  BY <1>2, <1>3 DEF CallOK
<1>5. CutOK(a)
  <2> DEFINE w == Wire(c.request)
             limit == Config[target].contextLimit
  <2>1. IsWire(w)
    BY WireIsWire
  <2> HIDE DEF w, limit
  <2>2. \E s \in Starts(w) : Fit(w, limit) = From(w, s)
    BY <2>1, FitIsACut
  <2> QED BY <1>2, <2>2 DEF CutOK, w, limit
<1>6. SeenOK(a, <<>>)
  <2>1. <<>> \in Seq(Events) /\ Len(<<>>) = 0 /\ DOMAIN <<>> = {}
    OBVIOUS
  <2>2. Partial(a)
    BY <1>2, <2>1 DEF Partial
  <2> QED BY <1>2, <2>1, <2>2 DEF SeenOK
<1> QED BY <1>2, <1>4, <1>5, <1>6 DEF a

LEMMA NewLogOK == NewLog \in Logs /\ LogOK(NewLog, FALSE)
<1>1. NewLog \in Logs
  <2> DEFINE names == {"exists", "locked", "stale", "failed", "open", "unpaired"}
  <2>1. NewLog = [f \in names |-> NewLog[f]]
    BY DEF NewLog
  <2>2. \A f \in names : NewLog[f] \in BOOLEAN
    <3>1. /\ NewLog["exists"] = TRUE /\ NewLog["locked"] = TRUE /\ NewLog["stale"] = FALSE
          /\ NewLog["failed"] = FALSE /\ NewLog["open"] = FALSE /\ NewLog["unpaired"] = FALSE
      BY DEF NewLog
    <3> HIDE DEF NewLog
    <3> QED BY <3>1
  <2> QED BY <2>1, <2>2 DEF Logs
<1>2. NewLog.locked /\ NewLog.exists /\ ~NewLog.unpaired /\ NewLog.open = FALSE
  BY DEF NewLog
<1> QED BY <1>1, <1>2 DEF LogOK

(* A record that says what the call does next keeps the log in step.        *)
LEMMA RecordFacts ==
  ASSUME NEW attempting \in BOOLEAN, LogOK(log, attempting), NEW event,
         (event = "model.start") = ~attempting, Record(event)
  PROVE  LogOK(log', ~attempting)
<1>1. CASE ~Writable(log)
  BY <1>1 DEF Record, Logged, LogOK
<1>2. CASE Writable(log)
  <2> DEFINE starts == event = "model.start"
  <2>1. log \in Logs /\ log.exists /\ ~log.unpaired /\ log.open = attempting
    BY <1>2 DEF LogOK, Writable
  <2>2. log' = [log EXCEPT !.stale = FALSE, !.open = starts, !.unpaired = @ \/ (log.open = starts)]
    BY <1>2 DEF Record, Logged
  <2>3. starts = ~attempting /\ starts \in BOOLEAN
    OBVIOUS
  <2> HIDE DEF starts
  <2>4. /\ log' \in Logs /\ log'.exists = log.exists /\ log'.open = starts
        /\ log'.unpaired = (log.unpaired \/ (log.open = starts))
    BY <2>1, <2>2, <2>3 DEF Logs
  <2> QED BY <2>1, <2>3, <2>4 DEF LogOK
<1> QED BY <1>1, <1>2

-----------------------------------------------------------------------------
(* The steps.                                                               *)

(* The call is over and SR2 keeps what it got.                              *)
LEMMA RaiseFacts ==
  ASSUME Inv, Raise, UNCHANGED received, Whole(received)
  PROVE  CallOK(call') /\ CutOK(call') /\ SeenOK(call', received') /\ ~InAttempt'
BY IdleFacts DEF Inv, Raise, SeenOK, InAttempt

LEMMA NothingSeen ==
  ASSUME Inv, InAttempt \/ call.pc = "backoff"
  PROVE  received = <<>> /\ Whole(received)
BY EmptyIsWhole DEF Inv, SeenOK, InAttempt

LEMMA WholePrefix ==
  ASSUME NEW s \in Seq(Events), NEW t \in Seq(Events), Whole(s \o t)
  PROVE  Whole(s)
<1>1. /\ s \o t \in Seq(Events) /\ Len(s \o t) = Len(s) + Len(t)
      /\ \A i \in 1..Len(s) : (s \o t)[i] = s[i]
      /\ DOMAIN (s \o t) = 1..(Len(s) + Len(t)) /\ DOMAIN s = 1..Len(s)
      /\ Len(s) \in Nat /\ Len(t) \in Nat
  OBVIOUS
<1> DEFINE u == s \o t
<1> HIDE DEF u
<1>2. \A i \in 1..Len(s) : u[i] = s[i] /\ i \in DOMAIN u
  BY <1>1 DEF u
<1>3. \A i, j \in DOMAIN s : s[i].by = s[j].by /\ s[i].attempt = s[j].attempt
  BY <1>1, <1>2 DEF Whole, u
<1>4. ASSUME NEW i \in DOMAIN s, s[i].type = "end" PROVE i = Len(s)
  <2>1. i = Len(s) + Len(t)
    BY <1>1, <1>2, <1>4 DEF Whole, u
  <2>2. i \in 1..Len(s) /\ Len(s) \in Nat /\ Len(t) \in Nat
    BY <1>1
  <2> QED BY <2>1, <2>2
<1> QED BY <1>3, <1>4 DEF Whole

LEMMA LogIs ==
  ASSUME LogOK(log, InAttempt)
  PROVE  (InAttempt => LogOK(log, TRUE)) /\ (~InAttempt => LogOK(log, FALSE))
BY DEF LogOK

LEMMA StartStep ==
  ASSUME Inv, StartCall PROVE Inv'
<1>1. PICK request \in Requests, kind \in {"stream", "complete"} :
        call' = Attempt([Idle EXCEPT !.kind = kind, !.request = request, !.retries = Config[target].retries])
  BY DEF StartCall
<1> DEFINE c == [Idle EXCEPT !.kind = kind, !.request = request, !.retries = Config[target].retries]
<1>2. target \in Targets /\ Config[target].retries \in Nat
  BY ModelCallAssumption DEF Inv, Settings
<1>3. CallOK(c) /\ c.request \in Requests
  <2>1. CallOK(Idle) /\ Idle.attempt = 0 /\ Idle.pc = "idle"
    BY <1>2, IdleFacts
  <2>2. /\ c = [f \in Fields |-> c[f]] /\ c.request = request
        /\ c.pc = "idle" /\ c.inner = Idle.inner /\ c.attempt = 0 /\ c.retries = Config[target].retries
        /\ c.sheds = Idle.sheds /\ c.tools = Idle.tools
    BY <2>1 DEF CallOK, Fields
  <2> HIDE DEF c
  <2> QED BY <1>2, <2>1, <2>2 DEF CallOK
<1> HIDE DEF c
<1>4. call' = Attempt(c)
  BY <1>1 DEF c
<1>5. CallOK(call') /\ CutOK(call') /\ SeenOK(call', received') /\ InAttempt'
  BY <1>2, <1>3, <1>4, AttemptFacts DEF StartCall, InAttempt
<1>6. LogOK(log', InAttempt')
  <2>1. LogOK(log, FALSE)
    BY LogIs DEF Inv, StartCall, InAttempt
  <2> QED BY <1>5, <2>1, RecordFacts DEF StartCall
<1> QED BY <1>2, <1>5, <1>6 DEF Inv, StartCall

LEMMA RetryStep ==
  ASSUME Inv, Retry PROVE Inv'
<1>1. received = <<>> /\ call.request \in Requests /\ target \in Targets /\ CallOK(call) /\ ~InAttempt
  BY NothingSeen DEF Inv, Retry, CutOK, InAttempt
<1>2. CallOK(call') /\ CutOK(call') /\ SeenOK(call', received') /\ InAttempt'
  BY <1>1, AttemptFacts DEF Retry, InAttempt
<1>3. LogOK(log', InAttempt')
  <2>1. LogOK(log, FALSE)
    BY <1>1, LogIs DEF Inv
  <2> QED BY <1>2, <2>1, RecordFacts DEF Retry
<1> QED BY <1>1, <1>2, <1>3 DEF Inv, Retry

(* The attempt ends with a record of it.                                    *)
LEMMA EndingFacts ==
  ASSUME Inv, InAttempt, NEW event, event # "model.start", Record(event), ~InAttempt'
  PROVE  LogOK(log', InAttempt')
<1>1. LogOK(log, TRUE)
  BY LogIs DEF Inv
<1>2. LogOK(log', ~TRUE)
  BY <1>1, RecordFacts
<1>3. Writable(log') => ~log'.unpaired /\ log'.open = FALSE
  BY <1>2 DEF LogOK
<1>4. (InAttempt') = FALSE
  OBVIOUS
<1> QED BY <1>2, <1>3, <1>4 DEF LogOK

LEMMA AbortStep ==
  ASSUME Inv, InAttempt, Raise, Record("model.error"), UNCHANGED <<target, received>>
  PROVE  Inv'
BY NothingSeen, RaiseFacts, EndingFacts DEF Inv

LEMMA TransportStep ==
  ASSUME Inv, TransportFails PROVE Inv'
<1>1. CASE ~Retries
  BY <1>1, AbortStep DEF TransportFails
<1>2. CASE Retries
  <2>1. call' = [call EXCEPT !.pc = "backoff", !.attempt = call.attempt + 1] /\ call.attempt < call.retries
    BY <1>2 DEF TransportFails, Retries, NextAttempt
  <2>2. CallOK(call) /\ CutOK(call) /\ call.pc # "idle" /\ received = <<>>
    BY NothingSeen DEF Inv, TransportFails, InAttempt
  <2>3. /\ call' = [f \in Fields |-> call'[f]] /\ call'.pc = "backoff" /\ call'.attempt = call.attempt + 1
        /\ \A f \in Fields \ {"pc", "attempt"} : call'[f] = call[f]
    BY <2>1, <2>2 DEF CallOK, Fields
  <2>4. CallOK(call') /\ CutOK(call')
    <3>1. call.attempt + 1 \in Nat /\ call.attempt + 1 <= call.retries
      BY <2>1, <2>2 DEF CallOK
    <3>2. CallOK(call')
      BY <2>2, <2>3, <3>1 DEF CallOK, Fields
    <3>3. CutOK(call')
      BY <2>2, <2>3 DEF CutOK, Fields
    <3> QED BY <3>2, <3>3
  <2>5. SeenOK(call', received') /\ ~InAttempt'
    BY <2>2, <2>3, EmptyIsWhole DEF SeenOK, InAttempt, TransportFails
  <2>6. LogOK(log', InAttempt')
    BY <2>5, EndingFacts DEF TransportFails
  <2> QED BY <2>4, <2>5, <2>6 DEF Inv, TransportFails
<1> QED BY <1>1, <1>2

LEMMA OverflowStep ==
  ASSUME Inv, Overflow PROVE Inv'
<1>1. CASE ~(call.sheds < MaxSheds /\ CanShed(call.wire))
  BY <1>1, AbortStep DEF Overflow, InAttempt
<1>2. CASE call.sheds < MaxSheds /\ CanShed(call.wire)
  <2>1. /\ call' = [call EXCEPT !.wire = Shed(call.wire), !.sheds = call.sheds + 1]
        /\ UNCHANGED <<target, received, log>> /\ call.pc = "connect"
    BY <1>2 DEF Overflow
  <2>2. CallOK(call) /\ CutOK(call) /\ SeenOK(call, received)
    BY DEF Inv
  <2>3. /\ call' = [f \in Fields |-> call'[f]]
        /\ call'.wire = Shed(call.wire) /\ call'.sheds = call.sheds + 1
        /\ \A f \in Fields \ {"wire", "sheds"} : call'[f] = call[f]
    BY <2>1, <2>2 DEF CallOK, Fields
  <2>4. call.sheds + 1 \in 0..MaxSheds
    BY <1>2, <2>2, ModelCallAssumption DEF CallOK
  <2>5. CallOK(call')
    BY <2>2, <2>3, <2>4 DEF CallOK, Fields
  <2>6. CutOK(call')
    <3> DEFINE w == Wire(call.request)
    <3>1. PICK s \in Starts(w) : call.wire = From(w, s)
      BY <2>1, <2>2 DEF CutOK
    <3>2. call.request \in Requests /\ IsWire(w)
      BY <2>1, <2>2, WireIsWire DEF CutOK
    <3> HIDE DEF w
    <3>3. s \in 2..Len(w)
      BY <3>2, StartsFacts
    <3>4. IsWire(call.wire)
      BY <3>1, <3>2, <3>3, FromFacts
    <3>5. PICK t \in Starts(call.wire) : Shed(call.wire) = From(call.wire, t)
      BY <1>2, <3>4, ShedIsACut
    <3>6. s + t - 2 \in Starts(w) /\ From(call.wire, t) = From(w, s + t - 2)
      BY <3>1, <3>2, <3>5, CutTwice
    <3> QED BY <2>3, <3>2, <3>5, <3>6 DEF CutOK, Fields, w
  <2>7. SeenOK(call', received') /\ InAttempt' = InAttempt
    BY <2>1, <2>2, <2>3 DEF SeenOK, Partial, InAttempt, Fields
  <2> QED BY <2>1, <2>5, <2>6, <2>7 DEF Inv
<1> QED BY <1>1, <1>2

(* What stays the same while an attempt goes on.                            *)
LEMMA AttemptGoesOn ==
  ASSUME Inv, InAttempt, CallOK(call'), CutOK(call'), Partial(call'), call'.pc \in {"connect", "stream"},
         UNCHANGED <<target, received, log>>
  PROVE  Inv'
<1>1. received = <<>> /\ received \in Seq(Events)
  BY NothingSeen DEF Inv, SeenOK
<1>2. SeenOK(call', received')
  BY <1>1 DEF SeenOK
<1>3. InAttempt' = InAttempt
  BY DEF InAttempt
<1> QED BY <1>2, <1>3 DEF Inv

LEMMA Sending ==
  ASSUME Inv, InAttempt
  PROVE  /\ call = [f \in Fields |-> call[f]] /\ CallOK(call) /\ CutOK(call) /\ Partial(call)
         /\ call.pc \in {"connect", "stream"}
BY DEF Inv, InAttempt, SeenOK, CallOK

LEMMA QuietStep ==
  ASSUME Inv, Accepted \/ Tick \/ ToolDelta PROVE Inv'
<1>1. InAttempt
  BY DEF Accepted, Tick, ToolDelta, Arrives, InAttempt
<1>2. /\ call = [f \in Fields |-> call[f]] /\ CallOK(call) /\ CutOK(call) /\ Partial(call)
      /\ call.pc \in {"connect", "stream"}
  BY <1>1, Sending
<1>3. /\ call' = [f \in Fields |-> call'[f]] /\ call'.pc \in {"connect", "stream"}
      /\ call'.tools \subseteq 1..MaxTools
      /\ \A f \in Fields \ {"pc", "elapsed", "quiet", "chunks", "tools"} : call'[f] = call[f]
  <2>1. CASE Accepted
    BY <1>2, <2>1 DEF Accepted, CallOK, Fields
  <2>2. CASE Tick
    BY <1>2, <2>2 DEF Tick, CallOK, Fields
  <2>3. CASE ToolDelta
    <3>1. PICK index \in 1..MaxTools :
            call' = [call EXCEPT !.chunks = call.chunks + 1, !.tools = call.tools \union {index}]
      BY <2>3 DEF ToolDelta
    <3>2. call.tools \union {index} \subseteq 1..MaxTools
      BY <1>2 DEF CallOK
    <3> DEFINE tools == call.tools \union {index}
    <3> HIDE DEF tools
    <3>3. tools \subseteq 1..MaxTools /\ call' = [call EXCEPT !.chunks = call.chunks + 1, !.tools = tools]
      BY <3>1, <3>2 DEF tools
    <3> QED BY <1>2, <3>3 DEF Fields
  <2> QED BY <2>1, <2>2, <2>3
<1>4. CallOK(call')
  BY <1>2, <1>3 DEF CallOK, Fields
<1>5. CutOK(call') /\ Partial(call')
  <2>1. CutOK(call')
    BY <1>2, <1>3 DEF CutOK, Fields
  <2>2. /\ call'.buffered = call.buffered
        /\ call'.inner = call.inner /\ call'.attempt = call.attempt
    BY <1>3 DEF Fields
  <2>3. Partial(call')
    BY <1>2, <2>2 DEF Partial
  <2> QED BY <2>1, <2>3
<1>6. UNCHANGED <<target, received, log>>
  BY DEF Accepted, Tick, ToolDelta
<1> QED BY <1>1, <1>3, <1>4, <1>5, <1>6, AttemptGoesOn

LEMMA ChunkStep ==
  ASSUME Inv, Chunk PROVE Inv'
<1>1. InAttempt
  BY DEF Chunk, Arrives, InAttempt
<1>2. /\ call = [f \in Fields |-> call[f]] /\ CallOK(call) /\ CutOK(call) /\ Partial(call)
      /\ call.pc \in {"connect", "stream"}
  BY <1>1, Sending
<1> DEFINE e == StreamEvent("chunk")
<1>3. e \in Events /\ e.by = call.inner /\ e.attempt = call.attempt /\ e.type = "chunk"
  BY <1>2 DEF StreamEvent, Events, CallOK
<1>4. /\ call' = [f \in Fields |-> call'[f]] /\ call'.buffered = Append(call.buffered, e)
      /\ \A f \in Fields \ {"quiet", "chunks", "buffered"} : call'[f] = call[f]
  BY <1>2 DEF Chunk, Fields
<1> HIDE DEF e
<1>5. CallOK(call') /\ call'.pc \in {"connect", "stream"}
  BY <1>2, <1>4 DEF CallOK, Fields
<1>6. CutOK(call')
  BY <1>2, <1>4 DEF CutOK, Fields
<1>7. Partial(call')
  <2>1. \A s \in Seq(Events) :
          (\A i \in DOMAIN s : s[i].by = call.inner /\ s[i].attempt = call.attempt /\ s[i].type # "end")
          => /\ Append(s, e) \in Seq(Events)
             /\ \A i \in DOMAIN Append(s, e) : /\ Append(s, e)[i].by = call.inner
                                               /\ Append(s, e)[i].attempt = call.attempt
                                               /\ Append(s, e)[i].type # "end"
    <3> TAKE s \in Seq(Events)
    <3> DEFINE u == Append(s, e)
    <3>1. /\ u \in Seq(Events) /\ DOMAIN s = 1..Len(s) /\ Len(s) \in Nat /\ DOMAIN u = 1..(Len(s) + 1)
          /\ \A i \in 1..Len(s) : u[i] = s[i]
          /\ u[Len(s) + 1] = e
      BY <1>3
    <3> HIDE DEF u
    <3>2. \A i \in DOMAIN u : u[i] = e \/ (i \in DOMAIN s /\ u[i] = s[i])
      BY <3>1
    <3>3. u \in Seq(Events) /\ u = Append(s, e)
      BY <3>1 DEF u
    <3> QED BY <1>3, <3>2, <3>3
  <2>2. call'.inner = call.inner /\ call'.attempt = call.attempt
    BY <1>4 DEF Fields
  <2> DEFINE u == call'.buffered
  <2>3. /\ call.buffered \in Seq(Events)
        /\ \A i \in DOMAIN call.buffered : /\ call.buffered[i].by = call.inner
                                           /\ call.buffered[i].attempt = call.attempt
                                           /\ call.buffered[i].type # "end"
    BY <1>2 DEF Partial
  <2>4. /\ u \in Seq(Events)
        /\ \A i \in DOMAIN u : /\ u[i].by = call.inner /\ u[i].attempt = call.attempt
                              /\ u[i].type # "end"
    BY <1>4, <2>1, <2>3
  <2> QED BY <2>2, <2>4 DEF Partial
<1> QED BY <1>1, <1>5, <1>6, <1>7, AttemptGoesOn DEF Chunk

(* Only the whole stream of one attempt is handed on.                       *)
LEMMA StreamEndsStep ==
  ASSUME Inv, StreamEnds PROVE Inv'
<1>1. InAttempt
  BY DEF StreamEnds, InAttempt
<1>2. /\ call = [f \in Fields |-> call[f]] /\ CallOK(call) /\ CutOK(call) /\ Partial(call)
      /\ call.pc \in {"connect", "stream"} /\ received = <<>> /\ received \in Seq(Events)
  BY <1>1, Sending, NothingSeen DEF Inv, SeenOK
<1> DEFINE n == Cardinality(call.tools)
           uses == [i \in 1..n |-> StreamEvent("tool_use")]
           end == <<StreamEvent("end")>>
           b == call.buffered
           all == b \o uses \o end
<1>3. n \in Nat
  <2>1. IsFiniteSet(1..MaxTools)
    <3>1. 1 \in Int /\ MaxTools \in Int
      BY ModelCallAssumption
    <3> QED BY <3>1, FS_Interval
  <2>2. call.tools \in SUBSET (1..MaxTools)
    BY <1>2 DEF CallOK
  <2> QED BY <2>1, <2>2, FS_Subset, FS_CardinalityType
<1>4. /\ call' = [f \in Fields |-> call'[f]] /\ call'.pc = "yield" /\ call'.buffered = all
      /\ \A f \in Fields \ {"pc", "buffered"} : call'[f] = call[f]
  BY <1>2 DEF StreamEnds, Fields
<1>5. CallOK(call')
  BY <1>2, <1>4 DEF CallOK, Fields
<1>6. CutOK(call')
  BY <1>2, <1>4 DEF CutOK, Fields
<1> DEFINE Ours(e) == e.by = call.inner /\ e.attempt = call.attempt
<1>7. all \in Seq(Events) /\ all # <<>> /\ Whole(all)
  <2>1. /\ StreamEvent("tool_use") \in Events /\ Ours(StreamEvent("tool_use"))
        /\ StreamEvent("tool_use").type # "end"
        /\ StreamEvent("end") \in Events /\ Ours(StreamEvent("end"))
    BY <1>2 DEF StreamEvent, Events, CallOK
  <2>2. /\ b \in Seq(Events) /\ \A i \in 1..Len(b) : Ours(b[i]) /\ b[i].type # "end"
    BY <1>2 DEF Partial
  <2> HIDE DEF n, b
  <2>3. /\ uses \in Seq(Events) /\ Len(uses) = n
        /\ \A i \in 1..n : Ours(uses[i]) /\ uses[i].type # "end"
    BY <1>3, <2>1
  <2>4. end \in Seq(Events) /\ Len(end) = 1 /\ Ours(end[1])
    BY <2>1
  <2> DEFINE most == b \o uses
  <2> HIDE DEF uses, end, Ours
  <2>5. /\ most \in Seq(Events) /\ Len(most) = Len(b) + n
        /\ \A i \in 1..(Len(b) + n) : Ours(most[i]) /\ most[i].type # "end"
    <3>1. /\ most \in Seq(Events) /\ Len(most) = Len(b) + Len(uses)
          /\ \A i \in 1..(Len(b) + Len(uses)) : most[i] = IF i <= Len(b) THEN b[i] ELSE uses[i - Len(b)]
      BY <2>2, <2>3, ConcatProperties
    <3>2. Len(b) \in Nat
      BY <2>2
    <3> HIDE DEF most
    <3>3. ASSUME NEW i \in 1..(Len(b) + n) PROVE Ours(most[i]) /\ most[i].type # "end"
      <4>1. CASE i <= Len(b)
        BY <2>2, <2>3, <3>1, <3>2, <4>1
      <4>2. CASE i > Len(b)
        <5>1. i - Len(b) \in 1..n /\ most[i] = uses[i - Len(b)]
          BY <1>3, <2>3, <3>1, <3>2, <4>2
        <5> QED BY <2>3, <5>1
      <4> QED BY <3>2, <4>1, <4>2
    <3> QED BY <2>3, <3>1, <3>3
  <2>6. /\ all \in Seq(Events) /\ Len(all) = Len(most) + Len(end)
        /\ \A i \in 1..(Len(most) + Len(end)) : all[i] = IF i <= Len(most) THEN most[i] ELSE end[i - Len(most)]
    BY <2>4, <2>5, ConcatProperties
  <2>7. Len(most) \in Nat
    BY <2>5
  <2> HIDE DEF all, most
  <2>8. \A i \in 1..Len(all) : Ours(all[i]) /\ (all[i].type = "end" => i = Len(all))
    <3> TAKE i \in 1..Len(all)
    <3>1. CASE i <= Len(most)
      BY <2>4, <2>5, <2>6, <2>7, <3>1
    <3>2. CASE i > Len(most)
      <4>1. i = Len(all) /\ all[i] = end[1]
        BY <2>4, <2>6, <2>7, <3>2
      <4> QED BY <2>4, <4>1
    <3> QED BY <2>7, <3>1, <3>2
  <2>9. all # <<>> /\ DOMAIN all = 1..Len(all)
    BY <2>4, <2>6, <2>7
  <2> QED BY <2>6, <2>8, <2>9 DEF Whole, Ours
<1> HIDE DEF all
<1>8. SeenOK(call', received')
  <2>1. received \o all = all
    BY <1>2, <1>7
  <2> QED BY <1>2, <1>4, <1>7, <2>1 DEF SeenOK, StreamEnds
<1>9. ~InAttempt'
  BY <1>4 DEF InAttempt
<1>10. LogOK(log', InAttempt')
  BY <1>1, <1>9, EndingFacts DEF StreamEnds
<1> QED BY <1>5, <1>6, <1>8, <1>10 DEF Inv, StreamEnds

LEMMA CompletesStep ==
  ASSUME Inv, Completes PROVE Inv'
<1>1. InAttempt /\ call' = Idle /\ UNCHANGED target /\ target \in Targets
  BY DEF Completes, InAttempt, Inv
<1>2. CallOK(call)
  BY DEF Inv
<1> DEFINE e == StreamEvent("end")
           got == <<e>>
<1>3. e \in Events
  BY <1>2 DEF StreamEvent, Events, CallOK
<1> HIDE DEF e
<1>4. got \in Seq(Events) /\ Whole(got)
  <2>1. got \in Seq(Events) /\ DOMAIN got = {1} /\ Len(got) = 1
    BY <1>3
  <2> HIDE DEF got
  <2> QED BY <2>1 DEF Whole
<1>5. received' = got
  BY DEF Completes, e
<1> HIDE DEF got
<1>6. CallOK(call') /\ CutOK(call') /\ SeenOK(call', received') /\ ~InAttempt'
  BY <1>1, <1>4, <1>5, IdleFacts DEF InAttempt
<1>7. LogOK(log', InAttempt')
  BY <1>1, <1>6, EndingFacts DEF Completes
<1> QED BY <1>1, <1>6, <1>7 DEF Inv

LEMMA HeadMoves ==
  ASSUME NEW S, NEW s \in Seq(S), NEW t \in Seq(S), t # <<>>
  PROVE  /\ Append(s, Head(t)) \in Seq(S) /\ Tail(t) \in Seq(S)
         /\ Append(s, Head(t)) \o Tail(t) = s \o t
         /\ (Len(t) = 1 => Append(s, Head(t)) = s \o t) /\ (Len(t) # 1 => Tail(t) # <<>>)
<1> DEFINE a == Append(s, Head(t))
           r == Tail(t)
           u == a \o r
           v == s \o t
<1>1. /\ Len(s) \in Nat /\ Len(t) \in Nat /\ Len(t) > 0 /\ Head(t) = t[1] /\ t[1] \in S
      /\ r \in Seq(S) /\ Len(r) = Len(t) - 1 /\ \A i \in 1..(Len(t) - 1) : r[i] = t[i + 1]
  BY HeadTailProperties
<1>2. /\ a \in Seq(S) /\ Len(a) = Len(s) + 1 /\ a[Len(s) + 1] = t[1]
      /\ \A i \in 1..Len(s) : a[i] = s[i]
  BY <1>1
<1> HIDE DEF a, r
<1>3. /\ u \in Seq(S) /\ Len(u) = Len(a) + Len(r)
      /\ \A i \in 1..(Len(a) + Len(r)) : u[i] = IF i <= Len(a) THEN a[i] ELSE r[i - Len(a)]
  BY <1>1, <1>2, ConcatProperties
<1>4. /\ v \in Seq(S) /\ Len(v) = Len(s) + Len(t)
      /\ \A i \in 1..(Len(s) + Len(t)) : v[i] = IF i <= Len(s) THEN s[i] ELSE t[i - Len(s)]
  BY ConcatProperties
<1> HIDE DEF u, v
<1>5. \A i \in 1..(Len(s) + 1) : v[i] = a[i]
  <2> TAKE i \in 1..(Len(s) + 1)
  <2>1. CASE i <= Len(s)
    BY <1>1, <1>2, <1>4, <2>1
  <2>2. CASE i = Len(s) + 1
    <3>1. Len(s) + 1 \in 1..(Len(s) + Len(t)) /\ ~(Len(s) + 1 <= Len(s)) /\ (Len(s) + 1) - Len(s) = 1
      BY <1>1
    <3>2. v[Len(s) + 1] = t[(Len(s) + 1) - Len(s)]
      BY <1>4, <3>1
    <3> QED BY <1>2, <2>2, <3>1, <3>2
  <2> QED BY <1>1, <2>1, <2>2
<1>6. \A i \in 1..(Len(s) + Len(t)) : u[i] = v[i]
  <2> TAKE i \in 1..(Len(s) + Len(t))
  <2>1. CASE i <= Len(s) + 1
    <3>1. u[i] = a[i]
      <4>1. i \in 1..(Len(a) + Len(r)) /\ i <= Len(a)
        BY <1>1, <1>2, <2>1
      <4> QED BY <1>3, <4>1
    <3>2. v[i] = a[i]
      <4>1. i \in 1..(Len(s) + 1)
        BY <1>1, <2>1
      <4> QED BY <1>5, <4>1
    <3> QED BY <3>1, <3>2
  <2>2. CASE i > Len(s) + 1
    <3>1. i - Len(a) \in 1..(Len(t) - 1) /\ (i - Len(a)) + 1 = i - Len(s)
      BY <1>1, <1>2, <2>2
    <3>2. u[i] = r[i - Len(a)]
      <4>1. i \in 1..(Len(a) + Len(r)) /\ ~(i <= Len(a))
        BY <1>1, <1>2, <2>2
      <4> QED BY <1>3, <4>1
    <3>3. v[i] = t[i - Len(s)]
      <4>1. ~(i <= Len(s))
        BY <1>1, <2>2
      <4> QED BY <1>4, <4>1
    <3>4. r[i - Len(a)] = t[(i - Len(a)) + 1]
      BY <1>1, <3>1
    <3> QED BY <3>1, <3>2, <3>3, <3>4
  <2> QED BY <1>1, <2>1, <2>2
<1>7. u = v
  <2>1. Len(u) = Len(s) + Len(t) /\ Len(v) = Len(s) + Len(t)
    BY <1>1, <1>2, <1>3, <1>4
  <2> QED BY <1>3, <1>4, <1>6, <2>1, SeqEqual
<1>8. ASSUME Len(t) = 1 PROVE a = v
  <2>1. Len(v) = Len(a) /\ \A i \in 1..Len(a) : v[i] = a[i]
    BY <1>1, <1>2, <1>4, <1>5, <1>8
  <2> QED BY <1>2, <1>4, <2>1, SeqEqual
<1>9. Len(t) # 1 => r # <<>>
  BY <1>1
<1> QED BY <1>1, <1>2, <1>7, <1>8, <1>9 DEF a, r, u, v

(* SR2 reads on: what is read and what is left make up the same stream.     *)
LEMMA YieldStep ==
  ASSUME Inv, Yield PROVE Inv'
<1> DEFINE b == call.buffered
           got == Append(received, Head(b))
<1>1. /\ call = [f \in Fields |-> call[f]] /\ CallOK(call) /\ CutOK(call) /\ call.pc = "yield"
      /\ received \in Seq(Events) /\ b \in Seq(Events) /\ b # <<>> /\ Whole(received \o b)
      /\ target \in Targets /\ ~InAttempt
  BY DEF Inv, Yield, SeenOK, CallOK, InAttempt
<1>2. /\ got \in Seq(Events) /\ Tail(b) \in Seq(Events)
      /\ got \o Tail(b) = received \o b
      /\ (Len(b) = 1 => got = received \o b) /\ (Len(b) # 1 => Tail(b) # <<>>)
  <2> HIDE DEF b
  <2> QED BY <1>1, HeadMoves
<1>3. received' = got /\ UNCHANGED <<target, log>>
  BY DEF Yield
<1>4. CASE Len(b) = 1
  <2>1. call' = Idle
    BY <1>4 DEF Yield
  <2>2. Whole(got)
    BY <1>1, <1>2, <1>4
  <2> HIDE DEF got
  <2>3. CallOK(call') /\ CutOK(call') /\ SeenOK(call', received') /\ ~InAttempt'
    BY <1>1, <1>2, <1>3, <2>1, <2>2, IdleFacts DEF InAttempt
  <2>4. LogOK(log', InAttempt')
    <3>1. (InAttempt) = FALSE /\ (InAttempt') = FALSE /\ log' = log
      BY <1>1, <1>3, <2>3
    <3> QED BY <3>1 DEF Inv, LogOK
  <2> QED BY <1>1, <1>3, <2>3, <2>4 DEF Inv
<1>5. CASE Len(b) # 1
  <2> DEFINE rest == Tail(b)
  <2>1. call' = [call EXCEPT !.buffered = rest]
    BY <1>5 DEF Yield
  <2> HIDE DEF rest, got
  <2>2. /\ call' = [f \in Fields |-> call'[f]] /\ call'.buffered = rest
        /\ \A f \in Fields \ {"buffered"} : call'[f] = call[f]
    BY <1>1, <2>1 DEF Fields
  <2>3. CallOK(call')
    BY <1>1, <2>2 DEF CallOK, Fields
  <2>4. CutOK(call')
    BY <1>1, <2>2 DEF CutOK, Fields
  <2>5. rest \in Seq(Events) /\ rest # <<>> /\ Whole(got \o rest) /\ got \in Seq(Events)
    BY <1>1, <1>2, <1>5 DEF rest
  <2>6. SeenOK(call', received') /\ InAttempt' = InAttempt
    BY <1>1, <1>3, <2>2, <2>5 DEF SeenOK, InAttempt, Fields
  <2> QED BY <1>1, <1>3, <2>3, <2>4, <2>6 DEF Inv
<1> QED BY <1>4, <1>5

LEMMA CancelStep ==
  ASSUME Inv, Cancel PROVE Inv'
<1>1. /\ CallOK(call) /\ SeenOK(call, received) /\ received \in Seq(Events)
      /\ Raise /\ UNCHANGED <<target, received>>
  BY DEF Inv, Cancel, SeenOK, Raise
<1>2. Whole(received)
  <2>1. CASE call.pc = "yield"
    BY <1>1, <2>1, WholePrefix DEF SeenOK
  <2>2. CASE call.pc # "yield"
    BY <1>1, <2>2, EmptyIsWhole DEF SeenOK, CallOK
  <2> QED BY <2>1, <2>2
<1>3. CallOK(call') /\ CutOK(call') /\ SeenOK(call', received') /\ ~InAttempt'
  BY <1>1, <1>2, RaiseFacts
<1>4. LogOK(log', InAttempt')
  <2>1. CASE InAttempt
    <3>1. PICK event \in {"model.cancel", "model.error"} : Record(event)
      BY <2>1 DEF Cancel
    <3> QED BY <1>3, <2>1, <3>1, EndingFacts
  <2>2. CASE ~InAttempt
    <3>1. (InAttempt) = FALSE /\ (InAttempt') = FALSE /\ log' = log
      BY <1>3, <2>2 DEF Cancel
    <3> QED BY <3>1 DEF Inv, LogOK
  <2> QED BY <2>1, <2>2
<1> QED BY <1>1, <1>3, <1>4 DEF Inv

(* What happens to the log beside the call.                                 *)
LEMMA LogStep ==
  ASSUME Inv, LogWriteFails \/ CloseLog \/ ADayPasses \/ Sweep PROVE Inv'
<1>1. UNCHANGED <<target, call, received>> /\ log \in Logs /\ (log.locked => log.exists)
      /\ (Writable(log) => ~log.unpaired /\ log.open = InAttempt)
  BY DEF LogWriteFails, CloseLog, ADayPasses, Sweep, Inv, LogOK
<1>2. LogOK(log', InAttempt)
  <2>1. CASE LogWriteFails
    BY <1>1, <2>1 DEF LogWriteFails, LogFailed, Logs, LogOK, Writable
  <2>2. CASE CloseLog
    <3>1. log' = [NewLog EXCEPT !.exists = log.exists, !.stale = log.stale, !.locked = FALSE]
      BY <2>2 DEF CloseLog, Closed
    <3>2. log.exists \in BOOLEAN /\ log.stale \in BOOLEAN /\ NewLog \in Logs
      BY <1>1, NewLogOK DEF Logs, LogOK
    <3>3. log' \in Logs /\ log'.locked = FALSE
      BY <3>1, <3>2 DEF Logs
    <3> QED BY <3>3 DEF LogOK, Writable
  <2>3. CASE ADayPasses
    BY <1>1, <2>3 DEF ADayPasses, DayOld, Logs, LogOK, Writable
  <2>4. CASE Sweep
    BY <1>1, <2>4 DEF Sweep, Sweepable, Logs, LogOK, Writable
  <2> QED BY <2>1, <2>2, <2>3, <2>4
<1>3. InAttempt' = InAttempt
  BY <1>1 DEF InAttempt
<1> QED BY <1>1, <1>2, <1>3 DEF Inv

LEMMA CrashStep ==
  ASSUME Inv, Crash PROVE Inv'
<1>1. target' \in Targets /\ call' = Idle /\ received' = <<>> /\ log' = NewLog /\ target' = target
  BY DEF Inv, Crash
<1>2. CallOK(call') /\ CutOK(call') /\ SeenOK(call', received') /\ ~InAttempt'
  BY <1>1, IdleFacts, EmptyIsWhole DEF InAttempt
<1>3. LogOK(log', InAttempt')
  <2>1. (InAttempt') = FALSE
    BY <1>2
  <2> QED BY <1>1, <2>1, NewLogOK DEF LogOK
<1> QED BY <1>1, <1>2, <1>3 DEF Inv

LEMMA Invariant == Spec => []Inv
<1>1. Init => Inv
  <2> SUFFICES ASSUME Init PROVE Inv
    OBVIOUS
  <2>1. CallOK(call) /\ CutOK(call) /\ SeenOK(call, received) /\ ~InAttempt
    BY IdleFacts, EmptyIsWhole DEF Init, InAttempt
  <2>2. LogOK(log, InAttempt)
    <3>1. (InAttempt) = FALSE
      BY <2>1
    <3> QED BY <3>1, NewLogOK DEF Init, LogOK
  <2> QED BY <2>1, <2>2 DEF Init, Inv
<1>2. Inv /\ [Next]_vars => Inv'
  <2> SUFFICES ASSUME Inv, [Next]_vars PROVE Inv'
    OBVIOUS
  <2>1. CASE OtherError \/ GuardAborts
    BY <2>1, AbortStep DEF OtherError, GuardAborts
  <2>2. CASE StartCall \/ Retry \/ TransportFails \/ Overflow
    BY <2>2, StartStep, RetryStep, TransportStep, OverflowStep
  <2>3. CASE Accepted \/ Tick \/ ToolDelta \/ Chunk \/ StreamEnds \/ Completes \/ Yield
    BY <2>3, QuietStep, ChunkStep, StreamEndsStep, CompletesStep, YieldStep
  <2>4. CASE Cancel \/ LogWriteFails \/ CloseLog \/ ADayPasses \/ Sweep \/ Crash
    BY <2>4, CancelStep, LogStep, CrashStep
  <2>5. CASE Retarget
    BY <2>5 DEF Retarget, Inv, InAttempt
  <2>6. CASE UNCHANGED vars
    BY <2>6 DEF vars, Inv, InAttempt
  <2> QED BY <2>1, <2>2, <2>3, <2>4, <2>5, <2>6 DEF Next, Around
<1> QED BY <1>1, <1>2, PTL DEF Spec

-----------------------------------------------------------------------------
(* The call, the model and the log have the values the code gives them.     *)
THEOREM TypeCorrect == Spec => []TypeOK
<1>1. Inv => TypeOK
  BY ModelCallAssumption DEF Inv, CallOK, LogOK, TypeOK
<1> QED BY <1>1, Invariant, PTL

(* However often a stream is retried and wherever LiveLLM is pointed         *)
(* meanwhile, what SR2 gets is one attempt of one model, from its start.     *)
THEOREM AnswersAreWhole == Spec => []AttemptIsWhole
<1>1. Inv => AttemptIsWhole
  <2> SUFFICES ASSUME Inv PROVE AttemptIsWhole
    OBVIOUS
  <2> DEFINE seen == received \o (IF call.pc = "yield" THEN call.buffered ELSE <<>>)
  <2>1. SeenOK(call, received) /\ CallOK(call) /\ received \in Seq(Events)
    BY DEF Inv, SeenOK
  <2>2. Whole(seen)
    <3>1. CASE call.pc = "yield"
      BY <2>1, <3>1 DEF SeenOK
    <3>2. CASE call.pc # "yield"
      <4>1. seen = received
        BY <2>1, <3>2
      <4>2. Whole(received)
        BY <2>1, <3>2, EmptyIsWhole DEF SeenOK, CallOK
      <4> QED BY <4>1, <4>2
    <3> QED BY <3>1, <3>2
  <2>3. InAttempt \/ call.pc = "backoff" => received = <<>>
    BY NothingSeen
  <2> QED BY <2>2, <2>3 DEF AttemptIsWhole, Whole
<1> QED BY <1>1, Invariant, PTL

(* Every cut of a request, before it is sent or after it was rejected, keeps *)
(* its system prompt, its end, and every call with its results.              *)
THEOREM CutsKeepPairs == Spec => []RequestStaysPaired
<1>1. Inv => RequestStaysPaired
  <2> SUFFICES ASSUME Inv, call.pc # "idle"
               PROVE  LET full == Wire(call.request)
                      IN  /\ call.wire[1] = "system" /\ Last(call.wire) = Last(full)
                          /\ IsSuffix(Tail(call.wire), full)
                          /\ Paired(full) => Paired(call.wire)
    BY DEF RequestStaysPaired
  <2> DEFINE full == Wire(call.request)
  <2>1. IsWire(full) /\ \E s \in Starts(full) : call.wire = From(full, s)
    BY WireIsWire DEF Inv, CutOK
  <2> HIDE DEF full
  <2>2. /\ call.wire[1] = "system" /\ Last(call.wire) = Last(full)
        /\ IsSuffix(Tail(call.wire), full)
        /\ Paired(full) => Paired(call.wire)
    BY <2>1, CutKeeps
  <2> QED BY <2>2 DEF full
<1> QED BY <1>1, Invariant, PTL

(* No retry, abort, cancellation, crash, sweep or failed write leaves a log  *)
(* that is still written without the start and the end of every attempt.     *)
THEOREM LogKeepsStep == Spec => []LogFollowsCall
<1>1. Inv => LogFollowsCall
  BY DEF Inv, LogOK, LogFollowsCall, Writable
<1> QED BY <1>1, Invariant, PTL

===============================================================================
