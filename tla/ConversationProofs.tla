--------------------------- MODULE ConversationProofs ---------------------------
(***************************************************************************)
(* Proofs about Conversation, for all layers, texts and bounds: what turns *)
(* leave in the archive and in the ledger, across failing writes, crashes  *)
(* and restarts.                                                           *)
(***************************************************************************)
EXTENDS Conversation, WellFoundedInduction, FiniteSetTheorems, SequenceTheorems, TLAPS

-----------------------------------------------------------------------------
(* Numbers.                                                                 *)

(* The least number principle, and with it induction.                       *)
LEMMA LeastExists ==
  ASSUME NEW S, S \subseteq Nat, S # {}
  PROVE  \E x \in S : \A y \in S : x <= y
<1> DEFINE R == OpToRel(<, Nat)
<1>1. IsWellFoundedOn(R, Nat)
  BY NatLessThanWellFounded
<1>2. \A x, y \in Nat : y < x => <<y, x>> \in R
  BY DEF OpToRel
<1> HIDE DEF R
<1>3. PICK x \in S : \A y \in S : ~(<<y, x>> \in R)
  BY <1>1, WFMin
<1>4. \A y \in S : ~(y < x)
  BY <1>2, <1>3
<1> QED BY <1>4

LEMMA MinFacts ==
  ASSUME NEW S, S \subseteq Nat, S # {}
  PROVE  Min(S) \in S /\ \A y \in S : Min(S) <= y
BY LeastExists DEF Min

LEMMA MaxFacts ==
  ASSUME NEW S, NEW n \in Nat, S \subseteq 0..n, S # {}
  PROVE  Max(S) \in S /\ \A y \in S : Max(S) >= y
<1> DEFINE T == {n - x : x \in S}
<1>1. T \subseteq Nat /\ T # {}
  <2>1. \A x \in S : n - x \in Nat
    OBVIOUS
  <2> QED BY <2>1
<1>2. PICK t \in T : \A y \in T : t <= y
  BY <1>1, LeastExists
<1>3. PICK x \in S : t = n - x
  OBVIOUS
<1>4. \A y \in S : x >= y
  BY <1>2, <1>3
<1> QED BY <1>4 DEF Max

-----------------------------------------------------------------------------
(* Sequences.                                                               *)

IsSeq(s) == \E S : s \in Seq(S)

LEMMA SeqFacts ==
  ASSUME NEW s, IsSeq(s)
  PROVE  Len(s) \in Nat /\ DOMAIN s = 1..Len(s)
BY LenProperties DEF IsSeq

LEMMA ConcatFacts ==
  ASSUME NEW s, IsSeq(s), NEW t, IsSeq(t)
  PROVE  /\ IsSeq(s \o t) /\ Len(s \o t) = Len(s) + Len(t)
         /\ \A k \in 1..Len(s) : (s \o t)[k] = s[k]
         /\ \A k \in 1..Len(t) : (s \o t)[Len(s) + k] = t[k]
<1>1. PICK S : s \in Seq(S)
  BY DEF IsSeq
<1>2. PICK T : t \in Seq(T)
  BY DEF IsSeq
<1> DEFINE U == S \cup T
<1>3. s \in Seq(U) /\ t \in Seq(U)
  BY <1>1, <1>2, SeqMonotonic
<1> HIDE DEF U
<1>4. Len(s) \in Nat /\ Len(t) \in Nat
  BY <1>3, LenProperties
<1>5. /\ s \o t \in Seq(U) /\ Len(s \o t) = Len(s) + Len(t)
      /\ \A k \in 1..(Len(s) + Len(t)) : (s \o t)[k] = IF k <= Len(s) THEN s[k] ELSE t[k - Len(s)]
  BY <1>3, ConcatProperties
<1> DEFINE m == Len(s)
           n == Len(t)
           r == s \o t
<1>6. m \in Nat /\ n \in Nat /\ \A k \in 1..(m + n) : r[k] = IF k <= m THEN s[k] ELSE t[k - m]
  BY <1>4, <1>5
<1>7. r \in Seq(U) /\ Len(r) = m + n
  BY <1>5
<1> HIDE DEF m, n, r
<1>8. \A k \in 1..m : r[k] = s[k]
  BY <1>6
<1>9. \A k \in 1..n : r[m + k] = t[k]
  <2> TAKE k \in 1..n
  <2>1. m + k \in 1..(m + n) /\ ~(m + k <= m) /\ (m + k) - m = k
    BY <1>6
  <2> QED BY <1>6, <2>1
<1> QED BY <1>7, <1>8, <1>9 DEF IsSeq, m, n, r

LEMMA SeqOfFew ==
  /\ IsSeq(<<>>) /\ SetToSeq({}) = <<>>
  /\ \A x : IsSeq(<<x>>) /\ SetToSeq({x}) = <<x>>
<1>1. IsSeq(<<>>)
  <2>1. <<>> \in Seq({})
    OBVIOUS
  <2> QED BY <2>1 DEF IsSeq
<1>2. SetToSeq({}) = <<>>
  <2>1. Cardinality({}) = 0 /\ 1..0 = {}
    BY FS_EmptySet
  <2>2. \A f \in [{} -> {}] : f = <<>>
    OBVIOUS
  <2>3. \E f \in [1..Cardinality({}) -> {}] : IsInjective(f)
    <3>1. <<>> \in [{} -> {}] /\ IsInjective(<<>>)
      BY DEF IsInjective
    <3> QED BY <2>1, <3>1
  <2> QED BY <2>1, <2>2, <2>3 DEF SetToSeq
<1>3. ASSUME NEW x PROVE IsSeq(<<x>>) /\ SetToSeq({x}) = <<x>>
  <2>1. <<x>> \in Seq({x})
    OBVIOUS
  <2>2. Cardinality({x}) = 1 /\ 1..1 = {1}
    BY FS_Singleton
  <2>3. \A f \in [{1} -> {x}] : f = <<x>>
    OBVIOUS
  <2>4. <<x>> \in [{1} -> {x}] /\ IsInjective(<<x>>)
    BY DEF IsInjective
  <2>5. SetToSeq({x}) = <<x>>
    BY <2>2, <2>3, <2>4 DEF SetToSeq
  <2> QED BY <2>1, <2>5 DEF IsSeq
<1> QED BY <1>1, <1>2, <1>3

-----------------------------------------------------------------------------
(* The archive.                                                             *)

Authorities == {"user", "agent_tentative"}
Entries == [turn : Nat, seq : Nat, source : Nat, authority : Authorities, text : Texts]

(* Written one after the other: each entry follows all the earlier ones by   *)
(* turn and number, and names the one before it as its source.               *)
Ordered(s) == \A j, k \in DOMAIN s : j < k => Before(s[j], s[k])
Linked(s) == \A k \in DOMAIN s : s[k].source = k - 1

(* A new instance continues from the entry that was written last.           *)
LEMMA LastIsLast ==
  ASSUME NEW s \in Seq(Entries), Ordered(s), s # <<>>
  PROVE  LastEntry(s) = Len(s)
<1> DEFINE n == Len(s)
           Newest(id) == \A k \in DOMAIN s : ~Before(s[id], s[k])
<1>1. n \in DOMAIN s /\ DOMAIN s = 1..n /\ n \in Nat
  OBVIOUS
<1>2. \A k \in 1..n : s[k].turn \in Int /\ s[k].seq \in Nat
  <2>1. \A k \in 1..n : s[k] \in Entries
    OBVIOUS
  <2> QED BY <2>1 DEF Entries
<1> HIDE DEF n
<1>3. Newest(n)
  <2> TAKE k \in DOMAIN s
  <2>1. CASE k = n
    BY <1>1, <1>2, <2>1 DEF Before
  <2>2. CASE k < n
    <3>1. Before(s[k], s[n])
      BY <1>1, <2>2 DEF Ordered
    <3> QED BY <1>1, <1>2, <3>1 DEF Before
  <2> QED BY <1>1, <2>1, <2>2
<1>4. \A id \in DOMAIN s : Newest(id) => id = n
  <2> SUFFICES ASSUME NEW id \in DOMAIN s, Newest(id), id # n PROVE FALSE
    OBVIOUS
  <2>1. id < n
    BY <1>1
  <2> QED BY <1>1, <2>1 DEF Ordered
<1> HIDE DEF Newest
<1>5. LastEntry(s) = CHOOSE id \in DOMAIN s : Newest(id)
  BY DEF LastEntry, Newest
<1> QED BY <1>1, <1>3, <1>4, <1>5 DEF n

(* Following the sources from an entry reaches all the entries before it.   *)
LEMMA LineageIsWhole ==
  ASSUME NEW s \in Seq(Entries), Linked(s), NEW id \in 0..Len(s)
  PROVE  Lineage(s, id) = 1..id
<1> DEFINE n == Len(s)
           Def(f) == f = [k \in 0..n |-> IF k = 0 THEN {} ELSE {k} \cup f[s[k].source]]
           reach == CHOOSE f : Def(f)
           D == {m \in 0..n : reach[m] # 1..m}
<1>1. n \in Nat /\ \A k \in 1..n : k \in DOMAIN s /\ s[k].source = k - 1
  BY DEF Linked
<1>2. Lineage(s, id) = reach[id]
  BY DEF Lineage
<1> HIDE DEF n
<1>3. Def([k \in 0..n |-> 1..k])
  <2> DEFINE g == [k \in 0..n |-> 1..k]
  <2>1. \A k \in 0..n : g[k] = IF k = 0 THEN {} ELSE {k} \cup g[s[k].source]
    <3> TAKE k \in 0..n
    <3>1. CASE k = 0
      BY <1>1, <3>1
    <3>2. CASE k # 0
      <4>1. k \in 1..n /\ k - 1 \in 0..n /\ 1..k = {k} \cup 1..(k - 1)
        BY <1>1, <3>2
      <4> QED BY <1>1, <3>2, <4>1
    <3> QED BY <3>1, <3>2
  <2>2. g = [k \in 0..n |-> g[k]]
    OBVIOUS
  <2> HIDE DEF g
  <2> QED BY <2>1, <2>2 DEF g
<1>4. Def(reach)
  <2> HIDE DEF Def
  <2> QED BY <1>3
<1> HIDE DEF reach
<1>5. \A k \in 0..n : reach[k] = IF k = 0 THEN {} ELSE {k} \cup reach[s[k].source]
  BY <1>4
<1> HIDE DEF Def
<1>6. D = {}
  <2> SUFFICES ASSUME D # {} PROVE FALSE
    OBVIOUS
  <2>1. PICK m \in D : \A y \in D : m <= y
    <3>1. D \subseteq 0..n
      OBVIOUS
    <3> HIDE DEF D
    <3>2. D \subseteq Nat
      BY <1>1, <3>1
    <3> QED BY LeastExists, <3>2
  <2>2. m \in 0..n /\ reach[m] # 1..m
    OBVIOUS
  <2>3. m # 0
    <3>1. 1..0 = {}
      OBVIOUS
    <3> QED BY <1>5, <2>2, <3>1
  <2>4. m \in 1..n /\ m - 1 \in 0..n /\ ~(m <= m - 1) /\ 1..m = {m} \cup 1..(m - 1)
    BY <1>1, <2>2, <2>3
  <2>5. reach[m - 1] = 1..(m - 1)
    BY <2>1, <2>4
  <2> HIDE DEF D
  <2> QED BY <1>1, <1>5, <2>2, <2>3, <2>4, <2>5
<1> QED BY <1>2, <1>6 DEF n

(* The n-th of the entries from a to b, when they are counted from a.       *)
Segment(a, b) == [n \in 1..(b - a) |-> a + n]

(* The entries of a turn are read in the order they were written in.        *)
LEMMA TurnReadsBack ==
  ASSUME NEW s \in Seq(Entries), Ordered(s), NEW t, NEW a \in 0..Len(s),
         \A k \in DOMAIN s : s[k].turn = t <=> k > a
  PROVE  ReadTurn(s, t) = Segment(a, Len(s))
<1> DEFINE n == Len(s)
           wanted == {id \in DOMAIN s : s[id].turn = t}
           ahead(id) == {k \in wanted : \/ s[k].seq < s[id].seq
                                        \/ s[k].seq = s[id].seq /\ k < id}
<1>1. n \in Nat /\ a \in Nat /\ a <= n /\ DOMAIN s = 1..n
  OBVIOUS
<1>2. \A k \in 1..n : s[k].turn \in Int /\ s[k].seq \in Nat
  <2>1. \A k \in 1..n : s[k] \in Entries
    OBVIOUS
  <2> QED BY <2>1 DEF Entries
<1>3. ReadTurn(s, t) = [i \in 1..Cardinality(wanted) |->
                          CHOOSE id \in wanted : Cardinality(ahead(id)) = i - 1]
  BY DEF ReadTurn
<1> HIDE DEF n
<1>4. wanted = (a + 1)..n
  BY <1>1
<1>5. Cardinality(wanted) = n - a
  <2>1. a + 1 \in Int /\ n \in Int /\ (IF a + 1 > n THEN 0 ELSE n - (a + 1) + 1) = n - a
    BY <1>1
  <2> HIDE DEF wanted
  <2> QED BY <1>4, <2>1, FS_Interval
<1>6. \A id \in wanted : Cardinality(ahead(id)) = id - a - 1
  <2> TAKE id \in wanted
  <2>1. id \in 1..n /\ id > a /\ s[id].turn = t
    BY <1>1
  <2>2. \A k \in wanted : k < id => s[k].seq < s[id].seq
    <3> TAKE k \in wanted
    <3> HAVE k < id
    <3>1. k \in 1..n /\ s[k].turn = t
      BY <1>1
    <3>2. Before(s[k], s[id])
      BY <1>1, <2>1, <3>1 DEF Ordered
    <3> QED BY <1>2, <2>1, <3>1, <3>2 DEF Before
  <2>3. \A k \in wanted : k > id => s[id].seq < s[k].seq
    <3> TAKE k \in wanted
    <3> HAVE k > id
    <3>1. k \in 1..n /\ s[k].turn = t
      BY <1>1
    <3>2. Before(s[id], s[k])
      BY <1>1, <2>1, <3>1 DEF Ordered
    <3> QED BY <1>2, <2>1, <3>1, <3>2 DEF Before
  <2>4. wanted \subseteq 1..n
    BY <1>1
  <2> HIDE DEF wanted
  <2>5. ahead(id) = (a + 1)..(id - 1)
    <3>1. \A k \in wanted : k \in ahead(id) <=> k < id
      <4> TAKE k \in wanted
      <4>1. k \in 1..n /\ s[k].seq \in Nat /\ s[id].seq \in Nat
        BY <1>2, <2>1, <2>4
      <4> QED BY <1>1, <2>1, <2>2, <2>3, <4>1
    <3>2. ahead(id) \subseteq wanted
      OBVIOUS
    <3>3. \A k \in wanted : k < id <=> k \in (a + 1)..(id - 1)
      BY <1>1, <1>4, <2>1
    <3>4. (a + 1)..(id - 1) \subseteq wanted
      BY <1>1, <1>4, <2>1
    <3> HIDE DEF ahead
    <3> QED BY <3>1, <3>2, <3>3, <3>4
  <2>6. a + 1 \in Int /\ id - 1 \in Int /\ (IF a + 1 > id - 1 THEN 0 ELSE id - 1 - (a + 1) + 1) = id - a - 1
    BY <1>1, <2>1
  <2> HIDE DEF ahead
  <2> QED BY <2>5, <2>6, FS_Interval
<1> HIDE DEF wanted, ahead
<1>7. \A i \in 1..(n - a) : (CHOOSE id \in wanted : Cardinality(ahead(id)) = i - 1) = a + i
  <2> TAKE i \in 1..(n - a)
  <2>1. a + i \in wanted /\ Cardinality(ahead(a + i)) = i - 1
    <3>1. a + i \in wanted /\ (a + i) - a - 1 = i - 1
      BY <1>1, <1>4
    <3> QED BY <1>6, <3>1
  <2>2. \A id \in wanted : Cardinality(ahead(id)) = i - 1 => id = a + i
    <3> TAKE id \in wanted
    <3>1. id \in Int
      BY <1>1, <1>4
    <3> QED BY <1>1, <1>6, <3>1
  <2> QED BY <2>1, <2>2
<1> QED BY <1>3, <1>5, <1>7 DEF Segment, n

Archivists == [turn : Int, seq : Nat, prev : Nat]

(* The archivist stands at the end of the archive: what it writes next comes *)
(* after everything there is.                                                *)
AtEnd(a, s) ==
  /\ s \in Seq(Entries) /\ a \in Archivists
  /\ Ordered(s) /\ Linked(s) /\ a.prev = Len(s)
  /\ \A k \in DOMAIN s : s[k].turn = a.turn => s[k].seq < a.seq
UpTo(s, t) == \A k \in DOMAIN s : s[k].turn <= t

(* The entries of turn t are the last ones, and ids lists them.             *)
Tells(ids, s, t) ==
  \E a \in 0..Len(s) : ids = Segment(a, Len(s)) /\ \A k \in DOMAIN s : s[k].turn = t <=> k > a

(* One successful write, wherever the archivist stands.                     *)
LEMMA WriteFacts ==
  ASSUME NEW s \in Seq(Entries), NEW a \in Archivists, a.turn \in Nat,
         NEW who \in Authorities, NEW text \in Texts
  PROVE  LET a2 == AfterArchive(a, s, TRUE)
             s2 == Archived(a, s, who, text, TRUE)
         IN  /\ a2 \in Archivists /\ a2.turn = a.turn /\ a2.prev = Len(s) + 1 /\ a2.seq = a.seq + 1
             /\ s2 \in Seq(Entries) /\ Len(s2) = Len(s) + 1
             /\ \A k \in 1..Len(s) : s2[k] = s[k]
             /\ s2[Len(s) + 1] = ArchiveEntry(a, who, text)
             /\ ArchiveEntry(a, who, text) \in Entries
<1> DEFINE n == Len(s)
           e == ArchiveEntry(a, who, text)
           s2 == Append(s, e)
           a2 == [a EXCEPT !.prev = n + 1, !.seq = @ + 1]
<1>1. n \in Nat
  OBVIOUS
<1>2. a.turn \in Int /\ a.seq \in Nat /\ a.prev \in Nat
  BY DEF Archivists
<1>3. e \in Entries
  BY <1>2 DEF ArchiveEntry, Entries
<1> HIDE DEF n
<1>4. /\ a2 \in Archivists /\ a2.turn = a.turn /\ a2.prev = n + 1 /\ a2.seq = a.seq + 1
  <2>1. a2.turn = a.turn /\ a2.prev = n + 1 /\ a2.seq = a.seq + 1
    BY DEF Archivists
  <2>2. a2 = [f \in {"turn", "seq", "prev"} |-> a2[f]]
    BY DEF Archivists
  <2> HIDE DEF a2
  <2>3. a2 \in Archivists
    BY <1>1, <1>2, <2>1, <2>2 DEF Archivists
  <2> QED BY <2>1, <2>3
<1> HIDE DEF e
<1>5. /\ s2 \in Seq(Entries) /\ Len(s2) = n + 1
      /\ s2[n + 1] = e /\ \A k \in 1..n : s2[k] = s[k]
  BY <1>3, AppendProperties DEF n
<1>6. Archived(a, s, who, text, TRUE) = s2 /\ AfterArchive(a, s, TRUE) = a2
  BY DEF Archived, AfterArchive, e, n
<1> HIDE DEF s2, a2
<1> QED BY <1>3, <1>4, <1>5, <1>6 DEF n, e

LEMMA WriteOne ==
  ASSUME NEW s, NEW a, AtEnd(a, s), a.turn \in Nat, UpTo(s, a.turn),
         NEW who \in Authorities, NEW text \in Texts
  PROVE  LET a2 == AfterArchive(a, s, TRUE)
             s2 == Archived(a, s, who, text, TRUE)
         IN  /\ AtEnd(a2, s2) /\ UpTo(s2, a.turn)
             /\ \A ids : Tells(ids, s, a.turn) => Tells(Append(ids, Len(s) + 1), s2, a.turn)
<1> DEFINE n == Len(s)
           s2 == Archived(a, s, who, text, TRUE)
           a2 == AfterArchive(a, s, TRUE)
           e == s2[n + 1]
<1>1. s \in Seq(Entries) /\ a \in Archivists /\ n \in Nat /\ DOMAIN s = 1..n /\ a.prev = n
  BY DEF AtEnd
<1>2. e \in Entries /\ e.turn = a.turn /\ e.seq = a.seq /\ e.source = n
  <2>1. e = ArchiveEntry(a, who, text) /\ ArchiveEntry(a, who, text) \in Entries
    BY <1>1, WriteFacts
  <2> HIDE DEF e
  <2> QED BY <1>1, <2>1 DEF ArchiveEntry
<1>3. /\ a2 \in Archivists /\ a2.turn = a.turn /\ a2.prev = n + 1 /\ a2.seq = a.seq + 1
      /\ a.seq \in Nat
  BY <1>1, WriteFacts DEF Archivists
<1>4. s2 \in Seq(Entries) /\ Len(s2) = n + 1 /\ \A k \in 1..n : s2[k] = s[k]
  BY <1>1, WriteFacts
<1>5. /\ s2 \in Seq(Entries) /\ Len(s2) = n + 1 /\ DOMAIN s2 = 1..(n + 1)
      /\ s2[n + 1] = e /\ \A k \in 1..n : s2[k] = s[k]
  <2> HIDE DEF s2, n
  <2> QED BY <1>1, <1>4
<1> HIDE DEF n, s2, a2, e
<1>6. \A k \in 1..n : /\ s[k].turn \in Nat /\ s[k].seq \in Nat /\ s[k].turn <= a.turn
                      /\ s[k].turn = a.turn => s[k].seq < a.seq
  <2>1. \A k \in 1..n : s[k] \in Entries
    BY <1>1 DEF n
  <2> QED BY <1>1, <2>1 DEF Entries, UpTo, AtEnd
<1>7. Ordered(s2)
  <2> SUFFICES ASSUME NEW j \in 1..(n + 1), NEW k \in 1..(n + 1), j < k
               PROVE  Before(s2[j], s2[k])
    BY <1>5 DEF Ordered
  <2>1. CASE k = n + 1
    <3>1. j \in 1..n
      BY <1>1, <2>1
    <3> QED BY <1>2, <1>3, <1>5, <1>6, <2>1, <3>1 DEF Before
  <2>2. CASE k # n + 1
    <3>1. j \in 1..n /\ k \in 1..n
      BY <1>1, <2>2
    <3> QED BY <1>1, <1>5, <3>1 DEF AtEnd, Ordered
  <2> QED BY <2>1, <2>2
<1>8. Linked(s2)
  <2>1. \A k \in 1..(n + 1) : k = n + 1 \/ k \in 1..n
    BY <1>1
  <2>2. \A k \in 1..n : s[k].source = k - 1
    BY <1>1 DEF AtEnd, Linked
  <2> QED BY <1>1, <1>2, <1>5, <2>1, <2>2 DEF Linked
<1>9. AtEnd(a2, s2) /\ UpTo(s2, a.turn)
  <2>1. \A k \in 1..(n + 1) : k = n + 1 \/ k \in 1..n
    BY <1>1
  <2>2. \A k \in 1..(n + 1) : s2[k].turn <= a.turn /\ (s2[k].turn = a.turn => s2[k].seq < a2.seq)
    <3> TAKE k \in 1..(n + 1)
    <3>1. CASE k = n + 1
      BY <1>2, <1>3, <1>5, <3>1
    <3>2. CASE k \in 1..n
      BY <1>3, <1>5, <1>6, <3>2
    <3> QED BY <2>1, <3>1, <3>2
  <2> QED BY <1>3, <1>5, <1>7, <1>8, <2>2 DEF AtEnd, UpTo
<1>10. ASSUME NEW ids, Tells(ids, s, a.turn)
       PROVE  Tells(Append(ids, n + 1), s2, a.turn)
  <2>1. PICK c \in 0..n : ids = Segment(c, n) /\ \A k \in 1..n : s[k].turn = a.turn <=> k > c
    BY <1>1, <1>10 DEF Tells, n
  <2>2. Append(ids, n + 1) = Segment(c, n + 1)
    <3> DEFINE m == n - c
    <3>1. m \in Nat /\ c + (m + 1) = n + 1 /\ n + 1 - c = m + 1 /\ c \in Nat
      BY <1>1
    <3>2. ids \in Seq(Nat) /\ Len(ids) = m /\ \A i \in 1..m : ids[i] = c + i
      BY <1>1, <2>1, <3>1 DEF Segment
    <3>3. Segment(c, n + 1) \in Seq(Nat) /\ Len(Segment(c, n + 1)) = m + 1
      BY <3>1 DEF Segment
    <3>4. \A i \in 1..(m + 1) : Segment(c, n + 1)[i] = c + i
      BY <3>1 DEF Segment
    <3> HIDE DEF m
    <3>5. n + 1 \in Nat
      BY <1>1
    <3>6. /\ Append(ids, n + 1) \in Seq(Nat) /\ Len(Append(ids, n + 1)) = m + 1
          /\ Append(ids, n + 1)[m + 1] = n + 1
          /\ \A i \in 1..m : Append(ids, n + 1)[i] = ids[i]
      BY <3>2, <3>5, AppendProperties
    <3>7. \A i \in 1..(m + 1) : Append(ids, n + 1)[i] = Segment(c, n + 1)[i]
      <4>1. \A i \in 1..(m + 1) : i = m + 1 \/ i \in 1..m
        BY <3>1
      <4> QED BY <3>1, <3>2, <3>4, <3>6, <4>1
    <3> QED BY <3>3, <3>6, <3>7, SeqEqual
  <2>3. \A k \in 1..(n + 1) : s2[k].turn = a.turn <=> k > c
    <3>1. \A k \in 1..(n + 1) : k = n + 1 \/ k \in 1..n
      BY <1>1
    <3>2. n + 1 > c
      BY <1>1
    <3> QED BY <1>2, <1>5, <2>1, <3>1, <3>2
  <2>4. c \in 0..(n + 1)
    BY <1>1
  <2> QED BY <1>5, <2>2, <2>3, <2>4 DEF Tells
<1> QED BY <1>9, <1>10 DEF n, s2, a2

(* Also where turn numbers repeat, each entry of a turn is read once.       *)
LEMMA TurnReadsOnce ==
  ASSUME NEW s \in Seq(Entries), NEW t
  PROVE  /\ IsSeq(ReadTurn(s, t))
         /\ \A i \in 1..Len(ReadTurn(s, t)) :
              ReadTurn(s, t)[i] \in DOMAIN s /\ s[ReadTurn(s, t)[i]].turn = t
         /\ \A i, j \in 1..Len(ReadTurn(s, t)) : ReadTurn(s, t)[i] = ReadTurn(s, t)[j] => i = j
<1> DEFINE n == Len(s)
           wanted == {id \in DOMAIN s : s[id].turn = t}
           Sooner(x, y) == s[x].seq < s[y].seq \/ (s[x].seq = s[y].seq /\ x < y)
           ahead(id) == {k \in wanted : \/ s[k].seq < s[id].seq
                                        \/ s[k].seq = s[id].seq /\ k < id}
           N == Cardinality(wanted)
           rank(id) == Cardinality(ahead(id))
           ids == [i \in 1..N |-> CHOOSE id \in wanted : Cardinality(ahead(id)) = i - 1]
<1>1. n \in Nat /\ DOMAIN s = 1..n
  OBVIOUS
<1>2. \A k \in wanted : k \in 1..n /\ s[k].seq \in Nat
  <2>1. \A k \in 1..n : s[k] \in Entries
    OBVIOUS
  <2> QED BY <1>1, <2>1 DEF Entries
<1>3. ReadTurn(s, t) = ids
  BY DEF ReadTurn
<1>4. IsFiniteSet(wanted) /\ N \in Nat
  <2>1. IsFiniteSet(1..n) /\ wanted \in SUBSET (1..n)
    BY <1>1, FS_Interval
  <2> HIDE DEF wanted
  <2> QED BY <2>1, FS_Subset, FS_CardinalityType
<1>5. \A k, id \in wanted : k \in ahead(id) <=> Sooner(k, id)
  OBVIOUS
<1>6. \A id \in wanted : ahead(id) \subseteq wanted
  OBVIOUS
<1>7. \A id \in wanted : id \in DOMAIN s /\ s[id].turn = t
  OBVIOUS
<1> HIDE DEF n, wanted, ahead
<1>8. \A x, y, z \in wanted : /\ ~Sooner(x, x)
                              /\ x # y => Sooner(x, y) \/ Sooner(y, x)
                              /\ Sooner(x, y) /\ Sooner(y, z) => Sooner(x, z)
  BY <1>1, <1>2
<1> HIDE DEF Sooner
<1>9. \A id \in wanted : IsFiniteSet(ahead(id)) /\ rank(id) \in Nat /\ rank(id) < N
  <2> TAKE id \in wanted
  <2>1. ahead(id) \in SUBSET wanted /\ ahead(id) # wanted
    BY <1>5, <1>6, <1>8
  <2>2. IsFiniteSet(ahead(id)) /\ rank(id) <= N /\ rank(id) # N
    BY <1>4, <2>1, FS_Subset
  <2>3. rank(id) \in Nat
    BY <2>2, FS_CardinalityType
  <2> HIDE DEF N, rank
  <2> QED BY <1>4, <2>2, <2>3
<1>10. \A x, y \in wanted : Sooner(x, y) => rank(x) # rank(y)
  <2> TAKE x, y \in wanted
  <2> HAVE Sooner(x, y)
  <2>1. \A k \in wanted : k \in ahead(x) => k \in ahead(y)
    <3> TAKE k \in wanted
    <3> HAVE k \in ahead(x)
    <3>1. Sooner(k, x)
      BY <1>5
    <3>2. Sooner(k, y)
      BY <1>8, <3>1
    <3> QED BY <1>5, <3>2
  <2>2. x \in ahead(y) /\ x \notin ahead(x)
    BY <1>5, <1>8
  <2>3. ahead(x) \in SUBSET ahead(y) /\ ahead(x) # ahead(y)
    BY <1>6, <2>1, <2>2
  <2> QED BY <1>9, <2>3, FS_Subset
<1>11. \A i \in 1..N : \E id \in wanted : rank(id) = i - 1
  <2> DEFINE f == [id \in wanted |-> rank(id) + 1]
  <2>1. f \in [wanted -> 1..N]
    <3>1. \A id \in wanted : rank(id) + 1 \in 1..N
      <4> HIDE DEF N, rank
      <4> QED BY <1>4, <1>9
    <3> QED BY <3>1
  <2>2. \A x, y \in wanted : f[x] = f[y] => x = y
    <3> TAKE x, y \in wanted
    <3> HAVE f[x] = f[y]
    <3>1. rank(x) \in Nat /\ rank(y) \in Nat /\ rank(x) + 1 = rank(y) + 1
      BY <1>9
    <3>2. rank(x) = rank(y)
      <4> HIDE DEF rank
      <4> QED BY <3>1
    <3> QED BY <1>8, <1>10, <3>2
  <2>3. IsFiniteSet(1..N) /\ Cardinality(1..N) = N
    <3> HIDE DEF N
    <3>1. (IF 1 > N THEN 0 ELSE N - 1 + 1) = N
      BY <1>4
    <3> QED BY <1>4, <3>1, FS_Interval
  <2> HIDE DEF f
  <2>4. f \in Injection(wanted, 1..N)
    BY <2>1, <2>2 DEF Injection, IsInjective
  <2>5. f \in Surjection(wanted, 1..N)
    BY <2>3, <2>4, FS_Injection
  <2>6. \A i \in 1..N : \E id \in wanted : f[id] = i
    BY <2>5 DEF Surjection
  <2> TAKE i \in 1..N
  <2>7. PICK id \in wanted : f[id] = i
    BY <2>6
  <2>8. rank(id) + 1 = i /\ rank(id) \in Nat
    BY <1>9, <2>7 DEF f
  <2>9. rank(id) = i - 1
    <3> HIDE DEF rank
    <3> QED BY <2>8
  <2> QED BY <2>9
<1>12. \A i \in 1..N : ids[i] \in wanted /\ rank(ids[i]) = i - 1
  <2> TAKE i \in 1..N
  <2>1. \E id \in wanted : Cardinality(ahead(id)) = i - 1
    BY <1>11
  <2> DEFINE c == CHOOSE id \in wanted : Cardinality(ahead(id)) = i - 1
  <2>2. ids[i] = c
    OBVIOUS
  <2>3. c \in wanted /\ Cardinality(ahead(c)) = i - 1
    BY <2>1
  <2> HIDE DEF c, ids
  <2> QED BY <2>2, <2>3
<1>13. ids \in Seq(wanted) /\ Len(ids) = N
  <2>1. ids = [i \in 1..N |-> ids[i]]
    OBVIOUS
  <2> HIDE DEF ids, N
  <2>2. ids \in [1..N -> wanted]
    BY <1>12, <2>1
  <2> QED BY <1>4, <2>2
<1> HIDE DEF ids
<1>14. \A i, j \in 1..N : ids[i] = ids[j] => i = j
  <2> TAKE i, j \in 1..N
  <2> HAVE ids[i] = ids[j]
  <2>1. rank(ids[i]) = i - 1 /\ rank(ids[j]) = j - 1 /\ rank(ids[i]) = rank(ids[j])
    BY <1>12
  <2> HIDE DEF N, rank
  <2> QED BY <1>4, <2>1
<1> QED BY <1>3, <1>7, <1>12, <1>13, <1>14 DEF IsSeq

(* There is a newest entry also where turn numbers repeat.                  *)
LEMMA SomeEntryIsNewest ==
  ASSUME NEW s \in Seq(Entries), s # <<>>
  PROVE  LastEntry(s) \in DOMAIN s
<1> DEFINE n == Len(s)
           Newest(id, m) == \A k \in 1..m : ~Before(s[id], s[k])
           D == {m \in 1..n : ~\E id \in 1..n : Newest(id, m)}
<1>1. n \in Nat /\ DOMAIN s = 1..n /\ 1 \in 1..n /\ n \in 1..n
  OBVIOUS
<1>2. \A k \in 1..n : s[k].turn \in Nat /\ s[k].seq \in Nat
  <2>1. \A k \in 1..n : s[k] \in Entries
    OBVIOUS
  <2> QED BY <2>1 DEF Entries
<1> HIDE DEF n
<1>3. \A x, y, z \in 1..n : /\ ~Before(s[x], s[x])
                            /\ Before(s[x], s[y]) /\ Before(s[y], s[z]) => Before(s[x], s[z])
  BY <1>1, <1>2 DEF Before
<1>4. D = {}
  <2> SUFFICES ASSUME D # {} PROVE FALSE
    OBVIOUS
  <2>1. PICK m \in D : \A y \in D : m <= y
    <3>1. D \subseteq 1..n
      OBVIOUS
    <3> HIDE DEF D
    <3>2. D \subseteq Nat
      BY <1>1, <3>1
    <3> QED BY LeastExists, <3>2
  <2>2. m \in 1..n /\ \A id \in 1..n : ~Newest(id, m)
    OBVIOUS
  <2>3. m # 1
    <3>1. \A k \in 1..1 : k = 1
      OBVIOUS
    <3>2. Newest(1, 1)
      BY <1>1, <1>3, <3>1
    <3> QED BY <1>1, <2>2, <3>2
  <2>4. m - 1 \in 1..n /\ ~(m <= m - 1) /\ \A k \in 1..m : k = m \/ k \in 1..(m - 1)
    BY <1>1, <2>2, <2>3
  <2>5. PICK id \in 1..n : Newest(id, m - 1)
    BY <2>1, <2>4
  <2> HIDE DEF D
  <2>6. \A k \in 1..m : k \in 1..n
    BY <1>1, <2>2
  <2>7. CASE Before(s[id], s[m])
    <3>1. Newest(m, m)
      <4> SUFFICES ASSUME NEW k \in 1..m, Before(s[m], s[k]) PROVE FALSE
        OBVIOUS
      <4>1. k \in 1..n
        BY <2>6
      <4>2. CASE k = m
        BY <1>3, <2>2, <4>2
      <4>3. CASE k \in 1..(m - 1)
        <5>1. Before(s[id], s[k])
          BY <1>3, <2>2, <2>7, <4>1
        <5> QED BY <2>5, <4>3, <5>1
      <4> QED BY <2>4, <4>2, <4>3
    <3> QED BY <2>2, <3>1
  <2>8. CASE ~Before(s[id], s[m])
    <3>1. Newest(id, m)
      BY <2>4, <2>5, <2>8
    <3> QED BY <2>2, <3>1
  <2> QED BY <2>7, <2>8
<1>5. PICK id \in 1..n : Newest(id, n)
  BY <1>1, <1>4
<1>6. \E x \in DOMAIN s : \A k \in DOMAIN s : ~Before(s[x], s[k])
  BY <1>1, <1>5
<1> QED BY <1>6 DEF LastEntry

-----------------------------------------------------------------------------
(* Ledgers and their views.                                                 *)

Events == {"formed", "verified", "suppressed", "unsuppressed"}

(* The record k replaces an earlier one of its subject; a correction of      *)
(* nothing recorded names the subject of an earlier claim.                   *)
ReplacedIn(L, k, old) == \E j \in 1..(k - 1) : L[j].id = old /\ L[j].subject = L[k].subject
NamedIn(L, k, old) ==
  /\ old[1] = "claim" /\ L[k].subject = <<"correction", {L[k].provenance}>>
  /\ \E j \in 1..(k - 1) : L[j].subject = old

(* What every ledger of the system is: ids are unique and tell where a       *)
(* record comes from, and what a record supersedes comes before it.          *)
Sound(L) ==
  /\ IsSeq(L)
  /\ \A k \in DOMAIN L : L[k].event \in Events /\ L[k].id = <<L[k].event, L[k].provenance>>
  /\ \A j, k \in DOMAIN L : L[j].id = L[k].id => j = k
  /\ \A k \in DOMAIN L : \A old \in L[k].supersedes : ReplacedIn(L, k, old) \/ NamedIn(L, k, old)

(* Where a record's id is superseded, a record is: no id is a subject's.    *)
LEMMA IdsAreReplaced ==
  ASSUME NEW L, Sound(L), NEW i \in DOMAIN L, NEW k \in DOMAIN L, L[i].id \in L[k].supersedes
  PROVE  ReplacedIn(L, k, L[i].id) /\ L[i].id[1] # "claim"
<1>1. L[i].id = <<L[i].event, L[i].provenance>> /\ L[i].event \in Events
  BY DEF Sound
<1>2. L[i].id[1] # "claim"
  BY <1>1 DEF Events
<1>3. ReplacedIn(L, k, L[i].id) \/ NamedIn(L, k, L[i].id)
  BY DEF Sound
<1> QED BY <1>2, <1>3 DEF NamedIn

(* The tail of a chain is not replaced: nothing of its subject comes later. *)
LEMMA TailStands ==
  ASSUME NEW L, Sound(L), NEW subject \in SubjectsIn(L)
  PROVE  /\ Max(ChainOf(L, subject)) \in Standing(L, subject)
         /\ \A k \in ChainOf(L, subject) : k <= Max(ChainOf(L, subject))
<1> DEFINE chain == ChainOf(L, subject)
           tail == Max(chain)
           n == Len(L)
<1>1. n \in Nat /\ DOMAIN L = 1..n
  BY SeqFacts DEF Sound
<1>2. chain \subseteq 1..n /\ chain # {}
  BY <1>1 DEF ChainOf, SubjectsIn
<1> HIDE DEF n, chain
<1>3. chain \subseteq 0..n
  BY <1>1, <1>2
<1>4. tail \in chain /\ \A k \in chain : tail >= k
  BY <1>1, <1>2, <1>3, MaxFacts
<1> HIDE DEF tail
<1>5. L[tail].id \notin SupersededIds(L)
  <2> SUFFICES ASSUME NEW k \in 1..n, L[tail].id \in L[k].supersedes PROVE FALSE
    BY <1>1 DEF SupersededIds
  <2>0. tail \in 1..n
    BY <1>2, <1>4
  <2>1. PICK j \in 1..(k - 1) : L[j].id = L[tail].id /\ L[j].subject = L[k].subject
    BY <1>1, <2>0, IdsAreReplaced DEF ReplacedIn
  <2>2. j \in 1..n /\ tail \in 1..n /\ j < k
    BY <1>1, <1>2, <1>4
  <2>3. j = tail
    BY <1>1, <2>1, <2>2 DEF Sound
  <2>4. k \in chain
    BY <1>1, <1>4, <2>1, <2>3 DEF chain, ChainOf
  <2> QED BY <1>4, <2>2, <2>3, <2>4
<1>6. tail \in Standing(L, subject)
  BY <1>4, <1>5 DEF Standing, chain
<1>7. \A k \in chain : k <= tail
  BY <1>1, <1>2, <1>4
<1> QED BY <1>6, <1>7 DEF tail, chain

(* The current record of a subject is of that subject and not replaced.     *)
LEMMA CurrentStands ==
  ASSUME NEW L, Sound(L), NEW subject \in SubjectsIn(L)
  PROVE  \E j \in Standing(L, subject) : ViewOf(L, subject).current = L[j]
<1> DEFINE live == LiveIn(L, subject)
           tail == Max(ChainOf(L, subject))
<1>1. ViewOf(L, subject).current = IF live = {} THEN L[tail] ELSE L[Max(live)]
  BY DEF ViewOf
<1>2. tail \in Standing(L, subject)
  BY TailStands
<1>3. live # {} => Max(live) \in Standing(L, subject)
  <2>1. Len(L) \in Nat /\ DOMAIN L = 1..Len(L)
    BY SeqFacts DEF Sound
  <2>2. live \subseteq Standing(L, subject) /\ Standing(L, subject) \subseteq 1..Len(L)
    BY <2>1 DEF LiveIn, Standing, ChainOf
  <2> HIDE DEF live
  <2>3. live \subseteq 0..Len(L)
    BY <2>1, <2>2
  <2> QED BY <2>1, <2>2, <2>3, MaxFacts
<1> HIDE DEF live, tail
<1> QED BY <1>1, <1>2, <1>3

(* A subject is suppressed when its chain is at the end of the ledger.      *)
LEMMA SuppressedIffEnd ==
  ASSUME NEW L, Sound(L), NEW subject \in SubjectsIn(L)
  PROVE  ViewOf(L, subject).status = "suppressed" <=> SuppressedBy(L, subject, Len(L))
<1> DEFINE live == LiveIn(L, subject)
           tail == Max(ChainOf(L, subject))
           n == Len(L)
<1>1. n \in Nat /\ DOMAIN L = 1..n
  BY SeqFacts DEF Sound
<1>2. /\ tail \in Standing(L, subject)
      /\ \A k \in Standing(L, subject) : k <= tail
      /\ Standing(L, subject) \subseteq 1..n
  BY <1>1, TailStands DEF Standing, ChainOf
<1>3. PICK c \in Standing(L, subject) : ViewOf(L, subject).current = L[c]
  BY CurrentStands
<1>4. L[tail].event \in Events /\ L[c].event \in Events
  BY <1>1, <1>2 DEF Sound
<1>5. ViewOf(L, subject).status =
        (IF live # {} /\ L[tail].event = "superseded" THEN "superseded"
         ELSE IF SuppressedBy(L, subject, n) \/ (live # {} /\ L[tail].event = "suppressed")
         THEN "suppressed"
         ELSE IF ViewOf(L, subject).current.event \in {"dormant", "superseded"}
         THEN ViewOf(L, subject).current.event
         ELSE "active")
  BY DEF ViewOf
<1> HIDE DEF live, tail, n
<1>6. L[tail].event = "suppressed" => SuppressedBy(L, subject, n)
  <2> HAVE L[tail].event = "suppressed"
  <2>1. tail <= n /\ \A j \in Standing(L, subject) : j \in tail..n => j = tail
    BY <1>1, <1>2
  <2> QED BY <1>2, <2>1 DEF SuppressedBy
<1> QED BY <1>3, <1>4, <1>5, <1>6 DEF Events, n

-----------------------------------------------------------------------------
(* What is made of an entry.                                                *)

LEMMA SubjectsFinite ==
  ASSUME NEW L, IsSeq(L)
  PROVE  IsFiniteSet(SubjectsIn(L))
<1> DEFINE f == [k \in 1..Len(L) |-> L[k].subject]
<1>1. Len(L) \in Nat /\ DOMAIN L = 1..Len(L)
  BY SeqFacts
<1>2. SubjectsIn(L) = {f[k] : k \in 1..Len(L)}
  BY <1>1 DEF SubjectsIn
<1>3. f \in [1..Len(L) -> SubjectsIn(L)]
  BY <1>2
<1> HIDE DEF f
<1>4. f \in Surjection(1..Len(L), SubjectsIn(L))
  BY <1>2, <1>3 DEF Surjection
<1>5. IsFiniteSet(1..Len(L))
  BY <1>1, FS_Interval
<1> QED BY <1>4, <1>5, FS_Surjection

(* The first recorded of some subjects has one current record.              *)
LEMMA FirstFacts ==
  ASSUME NEW L, Sound(L), NEW S, S \subseteq SubjectsIn(L), S # {}
  PROVE  \E s \in S : \E r : First(L, S) = {r} /\ r.subject = s
<1> DEFINE of == {j \in DOMAIN L : L[j].subject \in S}
           k == Min(of)
<1>1. Len(L) \in Nat /\ DOMAIN L = 1..Len(L)
  BY SeqFacts DEF Sound
<1>2. of # {} /\ of \subseteq Nat
  BY <1>1 DEF SubjectsIn
<1>3. First(L, S) = {ViewOf(L, L[k].subject).current}
  BY DEF First
<1> HIDE DEF of
<1>4. k \in of
  BY <1>2, MinFacts
<1> HIDE DEF k
<1>5. k \in DOMAIN L /\ L[k].subject \in S
  BY <1>4 DEF of
<1> DEFINE s == L[k].subject
<1>6. s \in S /\ s \in SubjectsIn(L)
  BY <1>5
<1>7. First(L, S) = {ViewOf(L, s).current}
  BY <1>3
<1> HIDE DEF s
<1>8. PICK j \in Standing(L, s) : ViewOf(L, s).current = L[j]
  BY <1>6, CurrentStands
<1>9. L[j].subject = s
  BY <1>8 DEF Standing, ChainOf
<1> QED BY <1>6, <1>7, <1>8, <1>9

(* A text is matched with the record of one subject, if any.                *)
LEMMA MatchFacts ==
  ASSUME NEW L, Sound(L), NEW text \in Texts
  PROVE  \/ MatchRecord(L, text) = {}
         \/ \E s \in SubjectsIn(L) : /\ \E r \in MatchRecord(L, text) : TRUE
                                     /\ \A r \in MatchRecord(L, text) : r.subject = s
<1> DEFINE outright == {s \in SubjectsIn(L) : Begins(text.token, s)}
<1>0. CASE outright # {}
  <2>1. MatchRecord(L, text) = First(L, outright)
    BY <1>0 DEF MatchRecord
  <2>2. outright \subseteq SubjectsIn(L)
    OBVIOUS
  <2> HIDE DEF outright
  <2>3. PICK s \in outright : \E r : First(L, outright) = {r} /\ r.subject = s
    BY <1>0, <2>2, FirstFacts
  <2> QED BY <2>1, <2>2, <2>3
<1> SUFFICES ASSUME outright = {}, Unambiguous(L, text) # {}
             PROVE  \E s \in SubjectsIn(L) : /\ \E r \in MatchRecord(L, text) : TRUE
                                             /\ \A r \in MatchRecord(L, text) : r.subject = s
  <2>1. outright = {} /\ Unambiguous(L, text) = {} => MatchRecord(L, text) = {}
    BY DEF MatchRecord
  <2> HIDE DEF outright
  <2> QED BY <1>0, <2>1
<1> DEFINE w == Min(Unambiguous(L, text))
           hits == Hits(L, w)
           named == {r.subject : r \in hits}
<1>1. w \in Unambiguous(L, text)
  <2>1. Unambiguous(L, text) \subseteq Nat
    <3>1. Unambiguous(L, text) \subseteq text.about /\ text.about \subseteq Words
      BY DEF Unambiguous, Texts
    <3> QED BY <3>1, WordsAssumption
  <2> QED BY <2>1, MinFacts
<1>2. Cardinality(named) = 1 /\ MatchRecord(L, text) = hits
  BY <1>1 DEF Unambiguous, MatchRecord
<1>3. \A r \in hits : r.subject \in SubjectsIn(L)
  <2> TAKE r \in hits
  <2>1. PICK s \in SubjectsIn(L) : r = ComputeViews(L)[s].current
    BY DEF Hits, CurrentRecords
  <2>2. r = ViewOf(L, s).current
    BY <2>1 DEF ComputeViews
  <2>3. PICK j \in Standing(L, s) : r = L[j]
    BY <2>2, CurrentStands
  <2> QED BY <2>3 DEF Standing, ChainOf
<1>4. named \in SUBSET SubjectsIn(L) /\ IsFiniteSet(SubjectsIn(L))
  BY <1>3, SubjectsFinite DEF Sound
<1> HIDE DEF hits
<1>5. PICK s : named = {s}
  <2> HIDE DEF named
  <2> QED BY <1>2, <1>4, FS_Subset, FS_Singleton
<1>6. s \in SubjectsIn(L)
  BY <1>4, <1>5
<1>7. (\E r \in hits : TRUE) /\ \A r \in hits : r.subject = s
  BY <1>5
<1> QED BY <1>2, <1>6, <1>7

(* A record made of entry id: it may replace the current record of its       *)
(* subject or, when it begins one, name a claim's, and nothing else.         *)
Derived(r, id, L) ==
  /\ r.id = <<r.event, id>> /\ r.provenance = id /\ r.event \in {"formed", "verified"}
  /\ \A x : r.subject = <<"correction", {x}>> => x = id \/ r.subject \in SubjectsIn(L)
  /\ \/ r.supersedes = {}
     \/ \E j \in DOMAIN L : /\ L[j].subject = r.subject /\ r.supersedes = {L[j].id}
                            /\ L[j].id \notin SupersededIds(L)
     \/ \E s \in SubjectsIn(L) : /\ s[1] = "claim" /\ r.supersedes = {s}
                                 /\ r.subject = <<"correction", {id}>>

IsStatement(entry) == entry.authority = "user" /\ entry.text.phrase # "confirmation"

LEMMA EntryFacts ==
  ASSUME NEW L, Sound(L), NEW C, NEW id, NEW entry \in Entries,
         \A c \in DOMAIN C : C[c].subject = <<"correction", {id}>> => C[c].subject \in SubjectsIn(L)
  PROVE  \/ ConsolidateEntry(L, C, id, entry) = {} /\ ~IsStatement(entry)
         \/ \E r : /\ ConsolidateEntry(L, C, id, entry) = {r} /\ Derived(r, id, L)
                   /\ r.supersedes # {} => entry.authority = "user"
<1> DEFINE text == entry.text
<1>1. entry.authority \in Authorities /\ text \in Texts
  BY DEF Entries
<1> HIDE DEF text
<1>2. CASE entry.authority = "user" /\ text.phrase = "confirmation"
  <2>1. ConsolidateEntry(L, C, id, entry) = Verification(L, id, text) /\ ~IsStatement(entry)
    BY <1>2 DEF ConsolidateEntry, IsStatement, text
  <2>2. CASE MatchRecord(L, text) = {}
    BY <2>1, <2>2 DEF Verification
  <2>3. CASE MatchRecord(L, text) # {}
    <3>1. PICK s \in SubjectsIn(L) : /\ \E r \in MatchRecord(L, text) : TRUE
                                     /\ \A r \in MatchRecord(L, text) : r.subject = s
      BY <1>1, <2>3, MatchFacts
    <3> DEFINE v == RecordOf("verified", id, "project_fact", text, s, "verified", {})
    <3>2. Verification(L, id, text) = {v}
      BY <3>1 DEF Verification
    <3>3. v.id = <<"verified", id>> /\ v.event = "verified" /\ v.provenance = id /\ v.subject = s /\ v.supersedes = {}
      BY DEF RecordOf
    <3> HIDE DEF v
    <3>4. Derived(v, id, L)
      BY <3>3 DEF Derived
    <3> QED BY <2>1, <3>2, <3>3, <3>4
  <2> QED BY <2>2, <2>3
<1>3. CASE ~(entry.authority = "user" /\ text.phrase = "confirmation")
  <2> DEFINE kind == KindOf(entry.authority, text)
             subject == IF kind = "correction" THEN CorrectedSubject(L, id, text)
                        ELSE SubjectOf(kind, id, text)
             old == IF kind = "correction" THEN CurrentId(L, C, subject) ELSE {}
             r == Formed(L, C, id, kind, text, entry.authority)
  <2>1. ConsolidateEntry(L, C, id, entry) = {r}
    BY <1>3 DEF ConsolidateEntry, text
  <2>2. /\ r.id = <<"formed", id>> /\ r.event = "formed" /\ r.provenance = id
        /\ r.subject = subject /\ r.supersedes = old
    BY DEF Formed, RecordOf
  <2>3. kind \in {"correction", "constraint", "project_fact", "episode"} /\ (kind = "correction" => entry.authority = "user")
    BY <1>1 DEF KindOf, MatchKind, FallbackKind, EvidenceAuthorities, Authorities
  <2> HIDE DEF kind, r
  <2>4. CASE kind # "correction"
    <3>1. \A x : subject = <<"correction", {x}>> => FALSE
      BY <2>3, <2>4 DEF SubjectOf
    <3> HIDE DEF subject
    <3>2. Derived(r, id, L)
      BY <2>2, <2>4, <3>1 DEF Derived
    <3> QED BY <2>1, <2>2, <2>4, <3>2
  <2>5. CASE kind = "correction" /\ MatchRecord(L, text) # {}
    <3>1. PICK s \in SubjectsIn(L) : /\ \E m \in MatchRecord(L, text) : TRUE
                                     /\ \A m \in MatchRecord(L, text) : m.subject = s
      BY <1>1, <2>5, MatchFacts
    <3>2. subject = s
      BY <2>5, <3>1 DEF CorrectedSubject
    <3> HIDE DEF subject
    <3>3. old = {ViewOf(L, s).current.id}
      BY <2>5, <3>2 DEF CurrentId
    <3>4. PICK j \in Standing(L, s) : ViewOf(L, s).current = L[j]
      BY CurrentStands
    <3>5. j \in DOMAIN L /\ L[j].subject = s /\ L[j].id \notin SupersededIds(L) /\ old = {L[j].id}
      BY <3>3, <3>4 DEF Standing, ChainOf
    <3> HIDE DEF old
    <3>6. Derived(r, id, L)
      BY <2>2, <3>2, <3>5 DEF Derived
    <3> QED BY <2>1, <2>3, <2>5, <3>6
  <2>6. CASE kind = "correction" /\ MatchRecord(L, text) = {}
    <3>1. subject = <<"correction", {id}>>
      BY <2>6 DEF CorrectedSubject, SubjectOf
    <3> HIDE DEF subject
    <3>2. \/ old = {}
          \/ \E j \in DOMAIN L : L[j].subject = subject /\ old = {L[j].id} /\ L[j].id \notin SupersededIds(L)
          \/ \E s \in SubjectsIn(L) : s[1] = "claim" /\ old = {s}
      <4>1. CASE subject \in SubjectsIn(L)
        <5>1. old = {ViewOf(L, subject).current.id}
          BY <2>6, <4>1 DEF CurrentId
        <5>2. PICK j \in Standing(L, subject) : ViewOf(L, subject).current = L[j]
          BY <4>1, CurrentStands
        <5>3. j \in DOMAIN L /\ L[j].subject = subject /\ L[j].id \notin SupersededIds(L) /\ old = {L[j].id}
          BY <5>1, <5>2 DEF Standing, ChainOf
        <5> QED BY <5>3
      <4>2. CASE subject \notin SubjectsIn(L)
        <5>1. Standing(C, subject) = {}
          BY <3>1, <4>2 DEF Standing, ChainOf
        <5> DEFINE joined == {s \in SubjectsIn(L) : Joins(s, subject)}
        <5>2. old = {m.subject : m \in First(L, joined)}
          BY <2>6, <4>2, <5>1 DEF CurrentId, CachedCurrent, MatchSubject
        <5>3. \A s \in joined : s[1] = "claim"
          <6>1. subject[1] # "claim"
            BY <3>1
          <6> QED BY <6>1 DEF Joins
        <5>4. joined \subseteq SubjectsIn(L)
          OBVIOUS
        <5> HIDE DEF joined, old
        <5>5. CASE joined = {}
          BY <5>2, <5>5 DEF First
        <5>6. CASE joined # {}
          <6>1. PICK s \in joined : \E m : First(L, joined) = {m} /\ m.subject = s
            BY <5>4, <5>6, FirstFacts
          <6>2. old = {s}
            BY <5>2, <6>1
          <6> QED BY <5>3, <5>4, <6>2
        <5> QED BY <5>5, <5>6
      <4> QED BY <4>1, <4>2
    <3> HIDE DEF old
    <3>3. \A x : subject = <<"correction", {x}>> => x = id
      BY <3>1
    <3>4. Derived(r, id, L)
      BY <2>2, <3>1, <3>2, <3>3 DEF Derived
    <3> QED BY <2>1, <2>3, <2>6, <3>4
  <2> QED BY <2>4, <2>5, <2>6
<1> QED BY <1>2, <1>3

-----------------------------------------------------------------------------
(* What is made of a turn.                                                  *)

(* Entries of a turn, each once, none of which the cache knows a correction *)
(* of that the ledger lacks.                                                *)
Fresh(L, C, S, ids) ==
  /\ Sound(L) /\ IsSeq(C) /\ S \in Seq(Entries) /\ IsSeq(ids)
  /\ \A i \in 1..Len(ids) : ids[i] \in DOMAIN S
  /\ \A i, j \in 1..Len(ids) : ids[i] = ids[j] => i = j
  /\ \A i \in 1..Len(ids) : \A c \in DOMAIN C :
       C[c].subject = <<"correction", {ids[i]}>> => C[c].subject \in SubjectsIn(L)

(* The records q are those of the first m entries: at most one of each, and *)
(* one of each statement.                                                   *)
Derives(q, m, L, S, ids) ==
  /\ IsSeq(q)
  /\ \A k \in DOMAIN q : \E i \in 1..m : /\ Derived(q[k], ids[i], L)
                                         /\ q[k].supersedes # {} => S[ids[i]].authority = "user"
  /\ \A j, k \in DOMAIN q : q[j].provenance = q[k].provenance => j = k
  /\ \A i \in 1..m : IsStatement(S[ids[i]]) => \E k \in DOMAIN q : q[k].provenance = ids[i]

LEMMA DerivesStep ==
  ASSUME NEW L, NEW C, NEW S, NEW ids, Fresh(L, C, S, ids), NEW m \in 1..Len(ids),
         NEW q, Derives(q, m - 1, L, S, ids)
  PROVE  Derives(q \o SetToSeq(ConsolidateEntry(L, C \o q, ids[m], S[ids[m]])), m, L, S, ids)
<1> DEFINE made == ConsolidateEntry(L, C \o q, ids[m], S[ids[m]])
           id == ids[m]
<1>1. Len(ids) \in Nat /\ m \in Nat /\ m - 1 \in Nat /\ 1..(m - 1) \subseteq 1..m /\ 1..m \subseteq 1..Len(ids)
  BY SeqFacts DEF Fresh
<1>2. id \in DOMAIN S /\ S[id] \in Entries
  BY DEF Fresh
<1>3. IsSeq(C) /\ IsSeq(q) /\ IsSeq(C \o q)
  BY ConcatFacts DEF Fresh, Derives
<1>4. \A c \in DOMAIN (C \o q) :
        (C \o q)[c].subject = <<"correction", {id}>> => (C \o q)[c].subject \in SubjectsIn(L)
  <2> DEFINE all == C \o q
  <2>1. /\ Len(all) = Len(C) + Len(q) /\ Len(C) \in Nat /\ Len(q) \in Nat
        /\ DOMAIN all = 1..(Len(C) + Len(q)) /\ DOMAIN C = 1..Len(C) /\ DOMAIN q = 1..Len(q)
        /\ \A k \in 1..Len(C) : all[k] = C[k]
        /\ \A k \in 1..Len(q) : all[Len(C) + k] = q[k]
    BY <1>3, ConcatFacts, SeqFacts
  <2> HIDE DEF all
  <2> SUFFICES ASSUME NEW c \in 1..(Len(C) + Len(q)), all[c].subject = <<"correction", {id}>>
               PROVE  all[c].subject \in SubjectsIn(L)
    BY <2>1 DEF all
  <2>2. CASE c \in 1..Len(C)
    BY <2>1, <2>2 DEF Fresh
  <2>3. CASE c \notin 1..Len(C)
    <3> DEFINE k == c - Len(C)
    <3>1. k \in 1..Len(q) /\ c = Len(C) + k
      BY <2>1, <2>3
    <3> HIDE DEF k
    <3>2. all[c] = q[k]
      BY <2>1, <3>1
    <3>3. PICK i \in 1..(m - 1) : Derived(q[k], ids[i], L)
      BY <2>1, <3>1 DEF Derives
    <3>4. ids[i] # id
      BY <1>1 DEF Fresh
    <3> QED BY <3>2, <3>3, <3>4 DEF Derived
  <2> QED BY <2>2, <2>3
<1>5. \/ made = {} /\ ~IsStatement(S[id])
      \/ \E r : /\ made = {r} /\ Derived(r, id, L)
                /\ r.supersedes # {} => S[id].authority = "user"
  <2> DEFINE all == C \o q
             entry == S[id]
  <2>1. Sound(L)
    BY DEF Fresh
  <2>2. \A c \in DOMAIN all : all[c].subject = <<"correction", {id}>> => all[c].subject \in SubjectsIn(L)
    BY <1>4
  <2>3. made = ConsolidateEntry(L, all, id, entry) /\ entry \in Entries
    BY <1>2
  <2> HIDE DEF all, entry, id, made
  <2>4. \/ ConsolidateEntry(L, all, id, entry) = {} /\ ~IsStatement(entry)
        \/ \E r : /\ ConsolidateEntry(L, all, id, entry) = {r} /\ Derived(r, id, L)
                  /\ r.supersedes # {} => entry.authority = "user"
    BY <2>1, <2>2, <2>3, EntryFacts
  <2> QED BY <2>3, <2>4 DEF entry
<1> HIDE DEF made
<1>6. CASE made = {} /\ ~IsStatement(S[id])
  <2>1. SetToSeq(made) = <<>>
    BY <1>6, SeqOfFew
  <2>2. q \o <<>> = q
    BY <1>3, ConcatEmptySeq DEF IsSeq
  <2>3. \A i \in 1..m : i = m \/ i \in 1..(m - 1)
    BY <1>1
  <2>4. Derives(q, m, L, S, ids)
    BY <1>1, <1>6, <2>3 DEF Derives
  <2> QED BY <2>1, <2>2, <2>4 DEF made
<1>7. ASSUME NEW r, made = {r}, Derived(r, id, L), r.supersedes # {} => S[id].authority = "user"
      PROVE  Derives(q \o SetToSeq(made), m, L, S, ids)
  <2> DEFINE q2 == q \o <<r>>
             n == Len(q)
  <2>1. SetToSeq(made) = <<r>> /\ IsSeq(<<r>>) /\ Len(<<r>>) = 1 /\ <<r>>[1] = r
    BY <1>7, SeqOfFew
  <2>2. n \in Nat /\ DOMAIN q = 1..n
    BY <1>3, SeqFacts
  <2>3. /\ IsSeq(q2) /\ Len(q2) = n + 1 /\ \A k \in 1..n : q2[k] = q[k]
        /\ \A k \in 1..1 : q2[n + k] = r
    BY <1>3, <2>1, ConcatFacts
  <2>4. DOMAIN q2 = 1..(n + 1) /\ q2[n + 1] = r
    BY <2>3, SeqFacts
  <2> HIDE DEF q2, n
  <2>5. \A k \in 1..(n + 1) : k = n + 1 \/ k \in 1..n
    BY <2>2
  <2>6. r.provenance = id /\ \A k \in 1..n : q[k].provenance # id
    <3>1. r.provenance = id
      BY <1>7 DEF Derived
    <3>2. ASSUME NEW k \in 1..n PROVE q[k].provenance # id
      <4>1. PICK i \in 1..(m - 1) : Derived(q[k], ids[i], L)
        BY <2>2 DEF Derives
      <4>2. ids[i] # id /\ q[k].provenance = ids[i]
        BY <1>1, <4>1 DEF Fresh, Derived
      <4> QED BY <4>2
    <3> QED BY <3>1, <3>2
  <2>7. \A k \in 1..(n + 1) : \E i \in 1..m : /\ Derived(q2[k], ids[i], L)
                                              /\ q2[k].supersedes # {} => S[ids[i]].authority = "user"
    <3> TAKE k \in 1..(n + 1)
    <3>1. CASE k = n + 1
      BY <1>1, <1>7, <2>4, <3>1
    <3>2. CASE k \in 1..n
      <4>1. PICK i \in 1..(m - 1) : /\ Derived(q[k], ids[i], L)
                                    /\ q[k].supersedes # {} => S[ids[i]].authority = "user"
        BY <2>2, <3>2 DEF Derives
      <4> QED BY <1>1, <2>3, <3>2, <4>1
    <3> QED BY <2>5, <3>1, <3>2
  <2>8. \A j, k \in 1..(n + 1) : q2[j].provenance = q2[k].provenance => j = k
    <3> TAKE j, k \in 1..(n + 1)
    <3>1. CASE j \in 1..n /\ k \in 1..n
      BY <2>2, <2>3, <3>1 DEF Derives
    <3>2. CASE j = n + 1 \/ k = n + 1
      BY <2>3, <2>4, <2>5, <2>6, <3>2
    <3> QED BY <2>5, <3>1, <3>2
  <2>9. \A i \in 1..m : IsStatement(S[ids[i]]) => \E k \in 1..(n + 1) : q2[k].provenance = ids[i]
    <3> TAKE i \in 1..m
    <3> HAVE IsStatement(S[ids[i]])
    <3>1. CASE i = m
      <4>1. n + 1 \in 1..(n + 1)
        BY <2>2
      <4> QED BY <2>4, <2>6, <3>1, <4>1
    <3>2. CASE i # m
      <4>1. i \in 1..(m - 1)
        BY <1>1, <3>2
      <4>2. PICK k \in 1..n : q[k].provenance = ids[i]
        BY <2>2, <4>1 DEF Derives
      <4>3. k \in 1..(n + 1)
        BY <2>2
      <4> QED BY <2>3, <4>2, <4>3
    <3> QED BY <3>1, <3>2
  <2>10. Derives(q2, m, L, S, ids)
    BY <2>3, <2>4, <2>7, <2>8, <2>9 DEF Derives
  <2>11. q \o SetToSeq(made) = q2
    BY <2>1 DEF q2
  <2> QED BY <2>10, <2>11
<1> QED BY <1>5, <1>6, <1>7 DEF made, id

LEMMA ConsolidateFacts ==
  ASSUME NEW L, NEW C, NEW S, NEW ids, Fresh(L, C, S, ids)
  PROVE  Derives(Consolidate(L, C, S, ids), Len(ids), L, S, ids)
<1> DEFINE N == Len(ids)
           Next1(q, n) == q \o SetToSeq(ConsolidateEntry(L, C \o q, ids[n], S[ids[n]]))
           Def(f, m) == f = [n \in 0..m |->
                               IF n = 0 THEN <<>>
                               ELSE f[n - 1] \o SetToSeq(ConsolidateEntry(L, C \o f[n - 1],
                                                                         ids[n], S[ids[n]]))]
           h == CHOOSE f : Def(f, N)
           D == {m \in 0..N : \A f : ~Def(f, m)}
           B == {m \in 0..N : ~Derives(h[m], m, L, S, ids)}
<1>1. N \in Nat
  BY SeqFacts DEF Fresh
<1>2. Consolidate(L, C, S, ids) = h[N]
  BY DEF Consolidate
<1>3. \A f, m : Def(f, m) <=> f = [n \in 0..m |-> IF n = 0 THEN <<>> ELSE Next1(f[n - 1], n)]
  OBVIOUS
<1>4. \A q, n : n \in 1..N /\ Derives(q, n - 1, L, S, ids) => Derives(Next1(q, n), n, L, S, ids)
  BY DerivesStep
<1> HIDE DEF Next1, N, Def
<1>5. D = {}
  <2> SUFFICES ASSUME D # {} PROVE FALSE
    OBVIOUS
  <2>1. PICK m \in D : \A y \in D : m <= y
    <3>1. D \subseteq 0..N
      OBVIOUS
    <3> HIDE DEF D
    <3>2. D \subseteq Nat
      BY <1>1, <3>1
    <3> QED BY LeastExists, <3>2
  <2>2. m \in 0..N /\ \A f : ~Def(f, m)
    OBVIOUS
  <2>3. m # 0
    <3> DEFINE g == [n \in 0..0 |-> <<>>]
    <3>1. g = [n \in 0..0 |-> g[n]]
      OBVIOUS
    <3>2. \A n \in 0..0 : n = 0 /\ g[n] = <<>>
      OBVIOUS
    <3> HIDE DEF g
    <3>3. g = [n \in 0..0 |-> IF n = 0 THEN <<>> ELSE Next1(g[n - 1], n)]
      BY <3>1, <3>2
    <3>4. Def(g, 0)
      BY <1>3, <3>3
    <3> QED BY <3>4, <2>2
  <2>4. m \in Nat /\ m > 0 /\ m - 1 \in 0..N /\ ~(m <= m - 1)
    BY <1>1, <2>2, <2>3
  <2>5. PICK f : Def(f, m - 1)
    BY <2>1, <2>4
  <2> DEFINE g == [n \in 0..m |-> IF n < m THEN f[n] ELSE Next1(f[m - 1], m)]
  <2>6. \A n \in 0..(m - 1) : f[n] = IF n = 0 THEN <<>> ELSE Next1(f[n - 1], n)
    BY <1>3, <2>5
  <2>7. g[m] = Next1(f[m - 1], m) /\ \A n \in 0..(m - 1) : g[n] = f[n]
    <3>1. m \in 0..m /\ ~(m < m) /\ \A n \in 0..(m - 1) : n \in 0..m /\ n < m
      BY <2>4
    <3> QED BY <3>1
  <2>8. g = [n \in 0..m |-> g[n]]
    OBVIOUS
  <2> HIDE DEF g, D
  <2>9. \A n \in 0..m : g[n] = IF n = 0 THEN <<>> ELSE Next1(g[n - 1], n)
    <3> TAKE n \in 0..m
    <3>1. n \in Nat /\ (n # 0 => n - 1 \in 0..(m - 1)) /\ (n # m => n \in 0..(m - 1))
      BY <2>4
    <3>2. CASE n = m
      BY <2>3, <2>7, <3>1, <3>2
    <3>3. CASE n # m
      BY <2>6, <2>7, <3>1, <3>3
    <3> QED BY <3>2, <3>3
  <2>10. Def(g, m)
    BY <1>3, <2>8, <2>9
  <2> QED BY <2>2, <2>10
<1>6. Def(h, N)
  <2>1. N \in 0..N
    BY <1>1
  <2> QED BY <1>5, <2>1
<1> HIDE DEF h, D
<1>7. \A n \in 0..N : h[n] = IF n = 0 THEN <<>> ELSE Next1(h[n - 1], n)
  BY <1>3, <1>6
<1>8. B = {}
  <2> SUFFICES ASSUME B # {} PROVE FALSE
    OBVIOUS
  <2>1. PICK m \in B : \A y \in B : m <= y
    <3>1. B \subseteq 0..N
      OBVIOUS
    <3> HIDE DEF B
    <3>2. B \subseteq Nat
      BY <1>1, <3>1
    <3> QED BY LeastExists, <3>2
  <2>2. m \in 0..N /\ ~Derives(h[m], m, L, S, ids)
    OBVIOUS
  <2>3. m # 0
    <3>1. Derives(<<>>, 0, L, S, ids)
      BY SeqOfFew DEF Derives
    <3>2. 0 \in 0..N
      BY <1>1
    <3> QED BY <1>7, <2>2, <3>1, <3>2
  <2>4. m \in 1..N /\ m - 1 \in 0..N /\ ~(m <= m - 1)
    BY <1>1, <2>2, <2>3
  <2>5. Derives(h[m - 1], m - 1, L, S, ids)
    BY <2>1, <2>4
  <2> HIDE DEF B
  <2>6. h[m] = Next1(h[m - 1], m)
    BY <1>7, <2>2, <2>3
  <2> QED BY <1>4, <2>2, <2>4, <2>5, <2>6
<1>9. N \in 0..N
  BY <1>1
<1> QED BY <1>2, <1>8, <1>9 DEF N

-----------------------------------------------------------------------------
(* Where a turn stands.                                                     *)

(* The user's input is not archived yet; it is, and the answer may follow;  *)
(* the turn's archive is still being written or to be consolidated.         *)
Starting == pc = "input" \/ (pc = "running" /\ run.next = "input")
Acting == \/ pc \in {"compile", "ask", "finish"}
          \/ pc = "running" /\ run.next \in {"compile", "ask", "finish"}
Reading == Acting \/ pp = "pending"
InTurn == Starting \/ Reading

ControlInv ==
  /\ pc \in PCs /\ pp \in {"none", "pending"}
  /\ pc = "running" => run.next \in {"input", "compile", "ask", "finish"}
  /\ pp = "pending" => pc = "idle"
  /\ "next" \in DOMAIN run /\ "text" \in DOMAIN turn /\ turn.text \in Texts
  /\ "forgets" \in DOMAIN spent /\ spent.forgets \in Nat

(* The steps that touch neither the archive nor the ledger.                 *)
Quiet == ProcessLayer \/ BatchRejected \/ ComponentFails \/ EndCycle \/ CompileRequest
         \/ LlmRaises \/ Finish

USE DEF vars, pipeVars, archVars, factVars, pastVars

LEMMA TextsExist == NoText \in Texts
BY DEF NoText, Texts, Phrases

LEMMA QuietSteps ==
  ASSUME ControlInv, Quiet
  PROVE  /\ ControlInv'
         /\ (Starting' => Starting) /\ (Acting' => Acting) /\ (Reading' => Reading)
         /\ UNCHANGED <<turnSeq, arch, store, written, ledger, cache, owed, forked>>
         /\ spent'.forgets = spent.forgets
<1> USE TextsExist DEF ControlInv, PCs, Starting, Acting, Reading
<1> DEFINE Same == UNCHANGED <<turnSeq, arch, store, written, ledger, cache, owed, forked>>
<1>1. CASE ProcessLayer
  BY <1>1 DEF ProcessLayer
<1>2. CASE BatchRejected
  BY <1>2 DEF BatchRejected, TurnRaises, Fault, NoRun, NoTurn
<1>3. CASE ComponentFails
  BY <1>3 DEF ComponentFails, TurnRaises, Fault, NoRun, NoTurn
<1>4. CASE EndCycle
  <2>1. pc = "running" /\ UNCHANGED <<turn, pp, spent, turnSeq, arch, store, written, ledger, cache, owed, forked>>
    BY <1>4 DEF EndCycle
  <2>2. CASE Settled
    <3>1. pc' = run.next /\ run' = NoRun
      BY <1>4, <2>2 DEF EndCycle
    <3> QED BY <2>1, <3>1 DEF NoRun
  <2>3. CASE ~Settled
    <3>1. pc' = pc /\ "next" \in DOMAIN run' /\ run'.next = run.next
      BY <1>4, <2>3 DEF EndCycle
    <3> QED BY <2>1, <3>1
  <2> QED BY <2>2, <2>3
<1>5. CASE CompileRequest
  BY <1>5 DEF CompileRequest
<1>6. CASE LlmRaises
  BY <1>6 DEF LlmRaises, TurnRaises, Fault, NoRun, NoTurn
<1>7. CASE Finish
  BY <1>7 DEF Finish, NoTurn
<1> QED BY <1>1, <1>2, <1>3, <1>4, <1>5, <1>6, <1>7 DEF Quiet

LEMMA LoudSteps ==
  ASSUME ControlInv
  PROVE  /\ StartTurn => /\ ControlInv' /\ Starting' /\ ~Reading' /\ ~InTurn
                         /\ turnSeq' = turnSeq + 1 /\ spent'.forgets = spent.forgets
         /\ QueueInput => /\ ControlInv' /\ Starting /\ ~Reading /\ Acting' /\ ~Starting'
                          /\ spent'.forgets = spent.forgets
         /\ ToolIteration \/ Answer => /\ ControlInv' /\ Acting /\ ~Starting /\ Acting' /\ ~Starting'
                                       /\ spent'.forgets = spent.forgets
         /\ PostProcess => /\ ControlInv' /\ Reading /\ ~Starting /\ ~InTurn'
                           /\ spent'.forgets = spent.forgets
         /\ Forget => /\ ControlInv' /\ ~InTurn /\ ~InTurn' /\ spent'.forgets = spent.forgets + 1
         /\ Restart => /\ ControlInv' /\ ~InTurn' /\ spent'.forgets = spent.forgets
<1> USE TextsExist DEF ControlInv, PCs, Starting, Acting, Reading, InTurn
<1>1. ASSUME StartTurn
      PROVE  /\ ControlInv' /\ Starting' /\ ~Reading' /\ ~InTurn
             /\ turnSeq' = turnSeq + 1 /\ spent'.forgets = spent.forgets
  <2>1. PICK text \in Says, area \in Areas : turn' = [NoTurn EXCEPT !.text = text, !.area = area]
    BY <1>1 DEF StartTurn
  <2>2. "text" \in DOMAIN turn' /\ turn'.text = text /\ text \in Texts
    BY <2>1, ConversationAssumption DEF NoTurn
  <2>3. /\ pc = "idle" /\ pp = "none" /\ pp' = pp /\ turnSeq' = turnSeq + 1
        /\ run' = RunThen("input") /\ pc' = "running" /\ spent' = [spent EXCEPT !.calls = @ + 1]
    BY <1>1 DEF StartTurn
  <2> QED BY <2>2, <2>3 DEF RunThen
<1>2. ASSUME QueueInput
      PROVE  /\ ControlInv' /\ Starting /\ ~Reading /\ Acting' /\ ~Starting'
             /\ spent'.forgets = spent.forgets
  BY <1>2 DEF QueueInput, RunThen, Fault
<1>3. ASSUME ToolIteration
      PROVE  /\ ControlInv' /\ Acting /\ ~Starting /\ Acting' /\ ~Starting'
             /\ spent'.forgets = spent.forgets
  BY <1>3 DEF ToolIteration, RunThen, Fault
<1>4. ASSUME Answer
      PROVE  /\ ControlInv' /\ Acting /\ ~Starting /\ Acting' /\ ~Starting'
             /\ spent'.forgets = spent.forgets
  BY <1>4 DEF Answer, RunThen, Fault
<1>5. ASSUME PostProcess
      PROVE  /\ ControlInv' /\ Reading /\ ~Starting /\ ~InTurn'
             /\ spent'.forgets = spent.forgets
  BY <1>5 DEF PostProcess, Fault
<1>6. ASSUME Forget
      PROVE  ControlInv' /\ ~InTurn /\ ~InTurn' /\ spent'.forgets = spent.forgets + 1
  BY <1>6 DEF Forget
<1>7. ASSUME Restart
      PROVE  ControlInv' /\ ~InTurn' /\ spent'.forgets = spent.forgets
  BY <1>7 DEF Restart, Fault, NoRun, NoTurn
<1> HIDE DEF ControlInv, Starting, Acting, Reading, InTurn
<1> QED BY <1>1, <1>2, <1>3, <1>4, <1>5, <1>6, <1>7

-----------------------------------------------------------------------------
(* The archive is well formed.                                              *)

TypeInv ==
  /\ store \in Seq(Entries) /\ arch \in Archivists
  /\ turnSeq \in Int /\ turnSeq >= -1 /\ (InTurn => turnSeq \in Nat)
  /\ Reading => arch.turn = turnSeq

(* Entries are never taken back or changed.                                 *)
Grows == \A k \in DOMAIN store : k \in DOMAIN store' /\ store'[k] = store[k]

LEMMA OneWrite ==
  ASSUME NEW s \in Seq(Entries), NEW a \in Archivists, a.turn \in Nat,
         NEW who \in Authorities, NEW text \in Texts, NEW ok \in BOOLEAN
  PROVE  LET s2 == Archived(a, s, who, text, ok)
         IN  /\ AfterArchive(a, s, ok) \in Archivists /\ AfterArchive(a, s, ok).turn = a.turn
             /\ s2 \in Seq(Entries) /\ \A k \in DOMAIN s : k \in DOMAIN s2 /\ s2[k] = s[k]
<1>1. CASE ok
  <2> DEFINE n == Len(s)
             s2 == Archived(a, s, who, text, TRUE)
  <2>1. s2 \in Seq(Entries) /\ Len(s2) = n + 1 /\ \A k \in 1..n : s2[k] = s[k]
    BY WriteFacts
  <2>2. AfterArchive(a, s, TRUE) \in Archivists /\ AfterArchive(a, s, TRUE).turn = a.turn
    BY WriteFacts
  <2>3. n \in Nat /\ DOMAIN s = 1..n
    OBVIOUS
  <2> HIDE DEF s2, n
  <2>4. DOMAIN s2 = 1..(n + 1)
    BY <2>1
  <2>5. \A k \in DOMAIN s : k \in DOMAIN s2 /\ s2[k] = s[k]
    BY <2>1, <2>3, <2>4
  <2>6. ok = TRUE
    BY <1>1
  <2> QED BY <2>1, <2>2, <2>5, <2>6 DEF s2
<1>2. CASE ~ok
  BY <1>2 DEF Archived, AfterArchive
<1> QED BY <1>1, <1>2

(* The two entries of a tool iteration are two writes in a row.             *)
LEMMA ToolWrites ==
  ASSUME ToolIteration
  PROVE  \E called, answered \in BOOLEAN :
           LET a1 == AfterArchive(arch, store, called)
               s1 == Archived(arch, store, "agent_tentative", NoText, called)
           IN  /\ arch' = AfterArchive(a1, s1, answered)
               /\ store' = Archived(a1, s1, "agent_tentative", NoText, answered)
               /\ written' = Wrote(Wrote(written, store, called), s1, answered)
BY DEF ToolIteration

LEMMA TypeStep ==
  ASSUME ControlInv, TypeInv, [Next]_vars
  PROVE  TypeInv' /\ Grows
<1>0. "agent_tentative" \in Authorities /\ "user" \in Authorities /\ NoText \in Texts /\ turn.text \in Texts
  BY TextsExist DEF Authorities, ControlInv
<1>1. CASE Quiet
  BY <1>1, QuietSteps DEF TypeInv, Grows, InTurn
<1>2. CASE StartTurn
  <2>1. ~Reading' /\ turnSeq' = turnSeq + 1
    BY <1>2, LoudSteps
  <2>2. arch' = arch /\ store' = store
    BY <1>2 DEF StartTurn
  <2> QED BY <2>1, <2>2 DEF TypeInv, Grows
<1>3. CASE QueueInput
  <2> DEFINE a == [arch EXCEPT !.turn = turnSeq]
  <2>1. Starting /\ turnSeq' = turnSeq
    BY <1>3, LoudSteps DEF QueueInput
  <2>2. PICK ok \in BOOLEAN : arch' = AfterArchive(a, store, ok) /\ store' = Archived(a, store, "user", turn.text, ok)
    BY <1>3 DEF QueueInput, Archive
  <2>3. a.turn = turnSeq /\ turnSeq \in Nat /\ a \in Archivists /\ store \in Seq(Entries)
    BY <2>1 DEF TypeInv, InTurn, Archivists
  <2> HIDE DEF a
  <2>4. /\ arch' \in Archivists /\ arch'.turn = turnSeq
        /\ store' \in Seq(Entries) /\ Grows
    BY <1>0, <2>2, <2>3, OneWrite DEF Grows
  <2> QED BY <2>1, <2>3, <2>4 DEF TypeInv
<1>4. CASE ToolIteration
  <2>0. PICK called, answered \in BOOLEAN :
          LET x == AfterArchive(arch, store, called)
              s == Archived(arch, store, "agent_tentative", NoText, called)
          IN  /\ arch' = AfterArchive(x, s, answered)
              /\ store' = Archived(x, s, "agent_tentative", NoText, answered)
    BY <1>4, ToolWrites
  <2> DEFINE a1 == AfterArchive(arch, store, called)
             s1 == Archived(arch, store, "agent_tentative", NoText, called)
             a2 == AfterArchive(a1, s1, answered)
             s2 == Archived(a1, s1, "agent_tentative", NoText, answered)
  <2>1. Acting /\ turnSeq' = turnSeq
    BY <1>4, LoudSteps DEF ToolIteration
  <2>2. arch.turn = turnSeq /\ turnSeq \in Nat /\ arch \in Archivists /\ store \in Seq(Entries)
    BY <2>1 DEF TypeInv, InTurn, Reading
  <2>3. called \in BOOLEAN /\ answered \in BOOLEAN
    BY <2>0
  <2>4. /\ a1 \in Archivists /\ a1.turn = turnSeq /\ s1 \in Seq(Entries)
        /\ \A k \in DOMAIN store : k \in DOMAIN s1 /\ s1[k] = store[k]
    <3>1. arch.turn \in Nat /\ arch \in Archivists /\ store \in Seq(Entries)
      BY <2>2
    <3>2. /\ a1 \in Archivists /\ a1.turn = arch.turn /\ s1 \in Seq(Entries)
          /\ \A k \in DOMAIN store : k \in DOMAIN s1 /\ s1[k] = store[k]
      BY <1>0, <2>3, <3>1, OneWrite
    <3> HIDE DEF a1, s1
    <3> QED BY <2>2, <3>2
  <2>5. arch' = a2 /\ store' = s2
    BY <2>0
  <2> HIDE DEF a1, s1
  <2>6. a1.turn \in Nat /\ a1 \in Archivists /\ s1 \in Seq(Entries)
    BY <2>2, <2>4
  <2>7. /\ a2 \in Archivists /\ a2.turn = a1.turn /\ s2 \in Seq(Entries)
        /\ \A k \in DOMAIN s1 : k \in DOMAIN s2 /\ s2[k] = s1[k]
    BY <1>0, <2>3, <2>6, OneWrite
  <2> HIDE DEF a2, s2
  <2> QED BY <2>1, <2>2, <2>4, <2>5, <2>7 DEF TypeInv, Grows
<1>5. CASE Answer
  <2>1. Acting /\ turnSeq' = turnSeq
    BY <1>5, LoudSteps DEF Answer
  <2>2. PICK text \in Replies, ok \in BOOLEAN :
          arch' = AfterArchive(arch, store, ok) /\ store' = Archived(arch, store, "agent_tentative", text, ok)
    BY <1>5 DEF Answer, Archive
  <2>3. arch.turn = turnSeq /\ turnSeq \in Nat /\ arch \in Archivists /\ store \in Seq(Entries) /\ text \in Texts
    BY <2>1, ConversationAssumption DEF TypeInv, InTurn, Reading
  <2>4. /\ arch' \in Archivists /\ arch'.turn = turnSeq
        /\ store' \in Seq(Entries) /\ Grows
    BY <1>0, <2>2, <2>3, OneWrite DEF Grows
  <2> QED BY <2>1, <2>3, <2>4 DEF TypeInv
<1>6. CASE PostProcess
  <2>1. ~InTurn' /\ turnSeq' = turnSeq /\ arch' = arch /\ store' = store
    BY <1>6, LoudSteps DEF PostProcess
  <2> QED BY <2>1 DEF TypeInv, Grows, InTurn
<1>7. CASE Forget
  <2>1. ~InTurn' /\ turnSeq' = turnSeq /\ arch' = arch /\ store' = store
    BY <1>7, LoudSteps DEF Forget
  <2> QED BY <2>1 DEF TypeInv, Grows, InTurn
<1>8. CASE Restart
  <2>1. ~InTurn' /\ store' = store /\ store \in Seq(Entries)
    BY <1>8, LoudSteps DEF Restart, TypeInv
  <2>2. PICK continued \in BOOLEAN :
          /\ arch' = IF continued THEN Continued(NewArchivist, store) ELSE NewArchivist
          /\ turnSeq' = IF continued THEN ContinuedTurn(-1, store) ELSE -1
    BY <1>8 DEF Restart
  <2>3. NewArchivist \in Archivists
    BY DEF NewArchivist, Archivists
  <2>4. CASE ~continued \/ store = <<>>
    <3>1. arch' = NewArchivist /\ turnSeq' = -1
      BY <2>2, <2>4 DEF Continued, ContinuedTurn
    <3> QED BY <2>1, <2>3, <3>1 DEF TypeInv, Grows, InTurn
  <2>5. CASE continued /\ store # <<>>
    <3>1. LastEntry(store) \in DOMAIN store /\ DOMAIN store = 1..Len(store) /\ Len(store) \in Nat
      BY <2>1, <2>5, SomeEntryIsNewest
    <3>2. store[LastEntry(store)] \in Entries
      BY <2>1, <3>1
    <3>3. turnSeq' = store[LastEntry(store)].turn /\ arch' = [NewArchivist EXCEPT !.prev = LastEntry(store)]
      BY <2>2, <2>5 DEF Continued, ContinuedTurn
    <3>4. turnSeq' \in Nat
      BY <3>2, <3>3 DEF Entries
    <3>5. arch' \in Archivists
      BY <3>1, <3>3 DEF NewArchivist, Archivists
    <3> QED BY <2>1, <3>4, <3>5 DEF TypeInv, Grows, InTurn
  <2> QED BY <2>4, <2>5
<1>9. CASE UNCHANGED vars
  BY <1>9 DEF TypeInv, Grows, InTurn, Reading, Starting, Acting
<1> QED BY <1>1, <1>2, <1>3, <1>4, <1>5, <1>6, <1>7, <1>8, <1>9 DEF Next, RunStep, TurnStep, Quiet

-----------------------------------------------------------------------------
(* Unless a continuation read failed, the archive is in order and the       *)
(* entries of the current turn are its end.                                 *)

(* The user speaks once in a turn, and first.                               *)
OneUser(s) == \A j, k \in DOMAIN s : j < k /\ s[j].turn = s[k].turn => s[k].authority # "user"

OrderInv == ~forked =>
  /\ AtEnd(arch, store) /\ UpTo(store, turnSeq) /\ OneUser(store)
  /\ Starting => UpTo(store, turnSeq - 1)
  /\ Reading => Tells(written, store, turnSeq)

(* A write into the turn, which is the user's only at its beginning.        *)
LEMMA WriteInOrder ==
  ASSUME NEW s, NEW a, NEW ids, AtEnd(a, s), a.turn \in Nat, UpTo(s, a.turn), OneUser(s),
         Tells(ids, s, a.turn), NEW who \in Authorities, NEW text \in Texts,
         who = "user" => \A k \in DOMAIN s : s[k].turn # a.turn
  PROVE  LET a2 == AfterArchive(a, s, TRUE)
             s2 == Archived(a, s, who, text, TRUE)
         IN  /\ AtEnd(a2, s2) /\ a2.turn = a.turn /\ UpTo(s2, a.turn) /\ OneUser(s2)
             /\ Tells(Append(ids, Len(s) + 1), s2, a.turn)
             /\ Len(s2) = Len(s) + 1
<1> DEFINE n == Len(s)
           s2 == Archived(a, s, who, text, TRUE)
           a2 == AfterArchive(a, s, TRUE)
<1>1. s \in Seq(Entries) /\ a \in Archivists /\ n \in Nat /\ DOMAIN s = 1..n
  BY DEF AtEnd
<1>2. AtEnd(a2, s2) /\ UpTo(s2, a.turn) /\ Tells(Append(ids, n + 1), s2, a.turn)
  BY WriteOne
<1>3. s2 \in Seq(Entries) /\ Len(s2) = n + 1 /\ (\A k \in 1..n : s2[k] = s[k]) /\ a2.turn = a.turn
  BY <1>1, WriteFacts
<1>4. s2[n + 1] = ArchiveEntry(a, who, text)
  BY <1>1, WriteFacts
<1> HIDE DEF n, s2, a2
<1>5. DOMAIN s2 = 1..(n + 1) /\ s2[n + 1].turn = a.turn /\ s2[n + 1].authority = who
  <2>1. DOMAIN s2 = 1..(n + 1)
    BY <1>3
  <2>2. s2[n + 1].turn = a.turn /\ s2[n + 1].authority = who
    BY <1>4 DEF ArchiveEntry
  <2> QED BY <2>1, <2>2
<1>6. OneUser(s2)
  <2> SUFFICES ASSUME NEW j \in 1..(n + 1), NEW k \in 1..(n + 1), j < k, s2[j].turn = s2[k].turn
               PROVE  s2[k].authority # "user"
    BY <1>5 DEF OneUser
  <2>1. j \in 1..n
    BY <1>1
  <2>2. CASE k = n + 1
    BY <1>1, <1>3, <1>5, <2>1, <2>2
  <2>3. CASE k # n + 1
    <3>1. k \in 1..n
      BY <1>1, <2>3
    <3> QED BY <1>1, <1>3, <2>1, <3>1 DEF OneUser
  <2> QED BY <2>2, <2>3
<1> QED BY <1>2, <1>3, <1>6 DEF n, s2, a2

(* One that may fail.                                                       *)
LEMMA MayWriteInOrder ==
  ASSUME NEW s, NEW a, NEW ids, AtEnd(a, s), a.turn \in Nat, UpTo(s, a.turn), OneUser(s),
         Tells(ids, s, a.turn), NEW who \in Authorities, NEW text \in Texts,
         who = "user" => \A k \in DOMAIN s : s[k].turn # a.turn, NEW ok \in BOOLEAN
  PROVE  LET a2 == AfterArchive(a, s, ok)
             s2 == Archived(a, s, who, text, ok)
         IN  /\ AtEnd(a2, s2) /\ a2.turn = a.turn /\ UpTo(s2, a.turn) /\ OneUser(s2)
             /\ Tells(Wrote(ids, s, ok), s2, a.turn)
<1>1. CASE ok = TRUE
  <2> DEFINE a2 == AfterArchive(a, s, TRUE)
             s2 == Archived(a, s, who, text, TRUE)
  <2>1. /\ AtEnd(a2, s2) /\ a2.turn = a.turn /\ UpTo(s2, a.turn) /\ OneUser(s2)
        /\ Tells(Append(ids, Len(s) + 1), s2, a.turn)
    BY WriteInOrder
  <2>2. Wrote(ids, s, ok) = Append(ids, Len(s) + 1)
    BY <1>1 DEF Wrote
  <2> HIDE DEF a2, s2
  <2> QED BY <1>1, <2>1, <2>2 DEF a2, s2
<1>2. CASE ok = FALSE
  <2>1. AfterArchive(a, s, ok) = a /\ Archived(a, s, who, text, ok) = s /\ Wrote(ids, s, ok) = ids
    BY <1>2 DEF AfterArchive, Archived, Wrote
  <2> QED BY <2>1
<1> QED BY <1>1, <1>2

LEMMA OrderStep ==
  ASSUME ControlInv, TypeInv, OrderInv, [Next]_vars
  PROVE  OrderInv'
<1> SUFFICES ASSUME ~forked'
             PROVE  /\ AtEnd(arch', store') /\ UpTo(store', turnSeq') /\ OneUser(store')
                    /\ Starting' => UpTo(store', turnSeq' - 1)
                    /\ Reading' => Tells(written', store', turnSeq')
  BY DEF OrderInv
<1>0. "agent_tentative" \in Authorities /\ "user" \in Authorities /\ NoText \in Texts /\ turn.text \in Texts
  BY TextsExist DEF Authorities, ControlInv
<1>1. CASE Quiet
  BY <1>1, QuietSteps DEF OrderInv
<1>2. CASE StartTurn
  <2>1. Starting' /\ ~Reading' /\ turnSeq' = turnSeq + 1 /\ turnSeq \in Int /\ turnSeq' - 1 = turnSeq
    BY <1>2, LoudSteps DEF TypeInv
  <2>2. UNCHANGED <<arch, store, written, forked>>
    BY <1>2 DEF StartTurn
  <2>3. AtEnd(arch, store) /\ UpTo(store, turnSeq) /\ OneUser(store) /\ store \in Seq(Entries)
    BY <2>2 DEF OrderInv, TypeInv
  <2>4. UpTo(store, turnSeq + 1)
    <3>1. \A k \in DOMAIN store : store[k].turn \in Nat
      <4>1. \A k \in DOMAIN store : store[k] \in Entries
        BY <2>3
      <4> QED BY <4>1 DEF Entries
    <3> QED BY <2>1, <2>3, <3>1 DEF UpTo
  <2> QED BY <2>1, <2>2, <2>3, <2>4
<1>3. CASE QueueInput
  <2> DEFINE a == [arch EXCEPT !.turn = turnSeq]
             none == <<>>
  <2>1. Starting /\ ~Starting' /\ turnSeq' = turnSeq /\ turnSeq \in Nat /\ forked' = forked
    BY <1>3, LoudSteps DEF QueueInput, TypeInv, InTurn
  <2>2. PICK ok \in BOOLEAN : /\ arch' = AfterArchive(a, store, ok)
                              /\ store' = Archived(a, store, "user", turn.text, ok)
                              /\ written' = Wrote(none, store, ok)
    BY <1>3 DEF QueueInput, Archive
  <2>3. /\ AtEnd(arch, store) /\ UpTo(store, turnSeq) /\ OneUser(store) /\ UpTo(store, turnSeq - 1)
        /\ store \in Seq(Entries) /\ arch \in Archivists
    BY <2>1 DEF OrderInv, TypeInv
  <2>4. \A k \in DOMAIN store : store[k].turn \in Nat /\ store[k].turn # turnSeq
    <3>1. \A k \in DOMAIN store : store[k] \in Entries
      BY <2>3
    <3> QED BY <2>1, <2>3, <3>1 DEF Entries, UpTo
  <2>5. a.turn = turnSeq /\ a \in Archivists /\ a.prev = arch.prev
    BY <2>1, <2>3 DEF Archivists
  <2> HIDE DEF a
  <2>6. AtEnd(a, store)
    BY <2>3, <2>4, <2>5 DEF AtEnd
  <2>7. Tells(none, store, turnSeq)
    <3>1. Len(store) \in Nat /\ DOMAIN store = 1..Len(store)
      BY <2>3
    <3>2. Segment(Len(store), Len(store)) = <<>>
      <4>1. 1..(Len(store) - Len(store)) = {}
        BY <3>1
      <4> QED BY <4>1 DEF Segment
    <3>3. Len(store) \in 0..Len(store) /\ \A k \in DOMAIN store : ~(k > Len(store))
      BY <3>1
    <3> QED BY <2>4, <3>2, <3>3 DEF Tells
  <2> HIDE DEF none
  <2>8. a.turn \in Nat /\ UpTo(store, a.turn) /\ Tells(none, store, a.turn) /\ \A k \in DOMAIN store : store[k].turn # a.turn
    BY <2>1, <2>3, <2>4, <2>5, <2>7
  <2> DEFINE a2 == AfterArchive(a, store, ok)
             s2 == Archived(a, store, "user", turn.text, ok)
  <2>9. /\ AtEnd(a2, s2) /\ UpTo(s2, a.turn) /\ OneUser(s2)
        /\ Tells(Wrote(none, store, ok), s2, a.turn)
    BY <1>0, <2>3, <2>6, <2>8, MayWriteInOrder
  <2>10. arch' = a2 /\ store' = s2 /\ written' = Wrote(none, store, ok)
    BY <2>2
  <2> HIDE DEF a2, s2
  <2> QED BY <2>1, <2>5, <2>9, <2>10
<1>4. CASE ToolIteration
  <2>0. PICK called, answered \in BOOLEAN :
          LET x == AfterArchive(arch, store, called)
              s == Archived(arch, store, "agent_tentative", NoText, called)
          IN  /\ arch' = AfterArchive(x, s, answered)
              /\ store' = Archived(x, s, "agent_tentative", NoText, answered)
              /\ written' = Wrote(Wrote(written, store, called), s, answered)
    BY <1>4, ToolWrites
  <2> DEFINE a1 == AfterArchive(arch, store, called)
             s1 == Archived(arch, store, "agent_tentative", NoText, called)
             w1 == Wrote(written, store, called)
             a2 == AfterArchive(a1, s1, answered)
             s2 == Archived(a1, s1, "agent_tentative", NoText, answered)
             w2 == Wrote(w1, s1, answered)
  <2>1. Acting /\ ~Starting' /\ turnSeq' = turnSeq /\ forked' = forked
    BY <1>4, LoudSteps DEF ToolIteration
  <2>2. arch.turn = turnSeq /\ turnSeq \in Nat
    BY <2>1 DEF TypeInv, InTurn, Reading
  <2>3. AtEnd(arch, store) /\ UpTo(store, arch.turn) /\ OneUser(store) /\ Tells(written, store, arch.turn)
    BY <2>1, <2>2 DEF OrderInv, Reading
  <2>4. /\ AtEnd(a1, s1) /\ a1.turn = arch.turn /\ UpTo(s1, arch.turn) /\ OneUser(s1)
        /\ Tells(w1, s1, arch.turn)
    BY <1>0, <2>0, <2>2, <2>3, MayWriteInOrder
  <2>5. arch' = a2 /\ store' = s2 /\ written' = w2
    BY <2>0
  <2> HIDE DEF a1, s1, w1
  <2>6. a1.turn \in Nat /\ UpTo(s1, a1.turn) /\ Tells(w1, s1, a1.turn)
    BY <2>2, <2>4
  <2>7. /\ AtEnd(a2, s2) /\ UpTo(s2, a1.turn) /\ OneUser(s2)
        /\ Tells(w2, s2, a1.turn)
    BY <1>0, <2>4, <2>6, MayWriteInOrder
  <2> HIDE DEF a2, s2, w2
  <2> QED BY <2>1, <2>2, <2>4, <2>5, <2>7
<1>5. CASE Answer
  <2>1. Acting /\ ~Starting' /\ turnSeq' = turnSeq /\ forked' = forked
    BY <1>5, LoudSteps DEF Answer
  <2>2. PICK text \in Replies, ok \in BOOLEAN :
          /\ arch' = AfterArchive(arch, store, ok)
          /\ store' = Archived(arch, store, "agent_tentative", text, ok)
          /\ written' = Wrote(written, store, ok)
    BY <1>5 DEF Answer, Archive
  <2>3. arch.turn = turnSeq /\ turnSeq \in Nat /\ text \in Texts
    BY <2>1, ConversationAssumption DEF TypeInv, InTurn, Reading
  <2>4. AtEnd(arch, store) /\ UpTo(store, arch.turn) /\ OneUser(store) /\ Tells(written, store, arch.turn)
    BY <2>1, <2>3 DEF OrderInv, Reading
  <2> DEFINE a2 == AfterArchive(arch, store, ok)
             s2 == Archived(arch, store, "agent_tentative", text, ok)
             w2 == Wrote(written, store, ok)
  <2>5. /\ AtEnd(a2, s2) /\ UpTo(s2, arch.turn) /\ OneUser(s2) /\ Tells(w2, s2, arch.turn)
    BY <1>0, <2>3, <2>4, MayWriteInOrder
  <2>6. arch' = a2 /\ store' = s2 /\ written' = w2
    BY <2>2
  <2> HIDE DEF a2, s2, w2
  <2> QED BY <2>1, <2>3, <2>5, <2>6
<1>6. CASE PostProcess
  <2>1. ~InTurn' /\ UNCHANGED <<turnSeq, arch, store, forked>>
    BY <1>6, LoudSteps DEF PostProcess
  <2> QED BY <2>1 DEF OrderInv, InTurn
<1>7. CASE Forget
  <2>1. ~InTurn' /\ UNCHANGED <<turnSeq, arch, store, forked>>
    BY <1>7, LoudSteps DEF Forget
  <2> QED BY <2>1 DEF OrderInv, InTurn
<1>8. CASE Restart
  <2>1. ~InTurn' /\ store' = store
    BY <1>8, LoudSteps DEF Restart
  <2>2. PICK continued \in BOOLEAN :
          /\ arch' = IF continued THEN Continued(NewArchivist, store) ELSE NewArchivist
          /\ turnSeq' = IF continued THEN ContinuedTurn(-1, store) ELSE -1
          /\ forked' = (forked \/ (~continued /\ store # <<>>))
    BY <1>8 DEF Restart
  <2>3. AtEnd(arch, store) /\ OneUser(store)
    BY <2>2 DEF OrderInv
  <2>4. store \in Seq(Entries) /\ Ordered(store) /\ Linked(store) /\ DOMAIN store = 1..Len(store) /\ Len(store) \in Nat
    BY <2>3 DEF AtEnd
  <2>5. \A k \in DOMAIN store : store[k].turn \in Nat /\ store[k].seq \in Nat
    <3>1. \A k \in DOMAIN store : store[k] \in Entries
      BY <2>4
    <3> QED BY <3>1 DEF Entries
  <2>6. arch' = [turn |-> -1, seq |-> 0, prev |-> Len(store)] /\ UpTo(store, turnSeq')
    <3>1. CASE store = <<>>
      <4>1. arch' = NewArchivist /\ Len(store) = 0 /\ DOMAIN store = {}
        BY <2>2, <3>1 DEF Continued
      <4> QED BY <4>1 DEF NewArchivist, UpTo
    <3>2. CASE store # <<>>
      <4>1. continued /\ LastEntry(store) = Len(store) /\ Len(store) \in DOMAIN store
        <5>1. continued
          BY <2>2, <3>2
        <5>2. LastEntry(store) = Len(store)
          BY <2>4, <3>2, LastIsLast
        <5>3. Len(store) \in DOMAIN store
          BY <2>4, <3>2
        <5> QED BY <5>1, <5>2, <5>3
      <4>2. turnSeq' = store[Len(store)].turn /\ arch' = [NewArchivist EXCEPT !.prev = Len(store)]
        BY <2>2, <3>2, <4>1 DEF Continued, ContinuedTurn
      <4>3. ASSUME NEW k \in DOMAIN store PROVE store[k].turn <= store[Len(store)].turn
        <5>1. CASE k = Len(store)
          BY <2>5, <5>1
        <5>2. CASE k # Len(store)
          <6>1. k < Len(store)
            BY <2>4, <5>2
          <6>2. Before(store[k], store[Len(store)])
            BY <4>1, <6>1, <2>4 DEF Ordered
          <6> QED BY <2>5, <4>1, <6>2 DEF Before
        <5> QED BY <5>1, <5>2
      <4> QED BY <4>2, <4>3 DEF NewArchivist, UpTo
    <3> QED BY <3>1, <3>2
  <2>7. AtEnd(arch', store)
    <3>1. arch' \in Archivists /\ arch'.prev = Len(store) /\ arch'.turn = -1
      BY <2>4, <2>6 DEF Archivists
    <3>2. \A k \in DOMAIN store : store[k].turn # -1
      BY <2>5
    <3> QED BY <2>4, <3>1, <3>2 DEF AtEnd
  <2> QED BY <2>1, <2>3, <2>6, <2>7 DEF InTurn
<1>9. CASE UNCHANGED vars
  BY <1>9 DEF OrderInv, Reading, Starting, Acting
<1> QED BY <1>1, <1>2, <1>3, <1>4, <1>5, <1>6, <1>7, <1>8, <1>9 DEF Next, RunStep, TurnStep, Quiet

-----------------------------------------------------------------------------
(* Records of a turn in the ledger.                                         *)

LEMMA PrefixFacts ==
  ASSUME NEW q, IsSeq(q), NEW n \in 0..Len(q)
  PROVE  /\ IsSeq(SubSeq(q, 1, n)) /\ Len(SubSeq(q, 1, n)) = n
         /\ \A k \in 1..n : SubSeq(q, 1, n)[k] = q[k]
<1>1. PICK S : q \in Seq(S)
  BY DEF IsSeq
<1>2. Len(q) \in Nat /\ \A i \in 1..Len(q) : q[i] \in S
  BY <1>1
<1>3. n \in Nat /\ n \in Int /\ 1 \in Int /\ 1..n \subseteq 1..Len(q) /\ (IF 1 <= n THEN n - 1 + 1 ELSE 0) = n
      /\ n - 1 + 1 = n /\ \A i \in 1..n : 1 + i - 1 = i
  BY <1>2
<1>4. /\ SubSeq(q, 1, n) \in Seq(S)
      /\ Len(SubSeq(q, 1, n)) = IF 1 <= n THEN n - 1 + 1 ELSE 0
      /\ \A i \in 1..(n - 1 + 1) : SubSeq(q, 1, n)[i] = q[1 + i - 1]
  <2>1. \A i \in 1..n : q[i] \in S
    BY <1>2, <1>3
  <2> QED BY <1>3, <2>1, SubSeqProperties
<1> DEFINE r == SubSeq(q, 1, n)
<1> HIDE DEF r
<1>5. r \in Seq(S) /\ Len(r) = n /\ \A k \in 1..n : r[k] = q[k]
  <2>1. r \in Seq(S) /\ Len(r) = n
    BY <1>3, <1>4 DEF r
  <2>2. \A i \in 1..(n - 1 + 1) : r[i] = q[1 + i - 1]
    BY <1>4 DEF r
  <2>3. \A k \in 1..n : r[k] = q[k]
    BY <1>3, <2>2
  <2> QED BY <2>1, <2>3
<1> QED BY <1>5 DEF r, IsSeq

(* Appending some first records of a turn, none of them refused.            *)
LEMMA AppendRecords ==
  ASSUME NEW L, Sound(L), NEW q, NEW m, NEW S, NEW ids, Derives(q, m, L, S, ids),
         NEW n \in 0..Len(q), \A k \in 1..n : Appendable(L, q[k])
  PROVE  LET L2 == L \o SubSeq(q, 1, n)
         IN  /\ Sound(L2) /\ Len(L2) = Len(L) + n
             /\ \A k \in 1..Len(L) : L2[k] = L[k]
             /\ \A k \in 1..n : L2[Len(L) + k] = q[k]
<1> DEFINE b == Len(L)
           r == SubSeq(q, 1, n)
           L2 == L \o r
<1>1. b \in Nat /\ DOMAIN L = 1..b /\ IsSeq(L)
  BY SeqFacts DEF Sound
<1>2. IsSeq(q) /\ Len(q) \in Nat /\ DOMAIN q = 1..Len(q) /\ n \in Nat /\ 1..n \subseteq DOMAIN q
  <2>1. IsSeq(q)
    BY DEF Derives
  <2>2. Len(q) \in Nat /\ DOMAIN q = 1..Len(q)
    BY <2>1, SeqFacts
  <2> QED BY <2>1, <2>2
<1>3. IsSeq(r) /\ Len(r) = n /\ \A k \in 1..n : r[k] = q[k]
  BY <1>2, PrefixFacts
<1> HIDE DEF r
<1>4. /\ IsSeq(L2) /\ Len(L2) = b + n /\ (\A k \in 1..b : L2[k] = L[k])
      /\ \A k \in 1..n : L2[b + k] = r[k]
  BY <1>1, <1>3, ConcatFacts
<1>5. DOMAIN L2 = 1..(b + n)
  BY <1>4, SeqFacts
<1> HIDE DEF b, L2
<1>6. \A k \in 1..(b + n) : k \in 1..b \/ \E i \in 1..n : k = b + i
  <2> TAKE k \in 1..(b + n)
  <2>1. k \in 1..b \/ (k - b \in 1..n /\ k = b + (k - b))
    BY <1>1, <1>2
  <2> QED BY <2>1
<1>7. \A k \in 1..n : /\ L2[b + k] = q[k] /\ b + k \in 1..(b + n) /\ b + k > b
                      /\ q[k].event \in Events /\ q[k].id = <<q[k].event, q[k].provenance>>
                      /\ \/ q[k].supersedes = {}
                         \/ \E j \in 1..b : L[j].subject = q[k].subject /\ q[k].supersedes = {L[j].id}
                         \/ \E j \in 1..b : /\ q[k].supersedes = {L[j].subject} /\ L[j].subject[1] = "claim"
                                             /\ q[k].subject = <<"correction", {q[k].provenance}>>
  <2> TAKE k \in 1..n
  <2>1. L2[b + k] = q[k] /\ k \in DOMAIN q
    BY <1>2, <1>3, <1>4
  <2>2. b + k \in 1..(b + n) /\ b + k > b
    BY <1>1, <1>2
  <2>3. PICK i \in 1..m : Derived(q[k], ids[i], L)
    BY <2>1 DEF Derives
  <2>4. q[k].id = <<q[k].event, q[k].provenance>> /\ q[k].event \in Events
    BY <2>3 DEF Derived, Events
  <2>5. \/ q[k].supersedes = {}
        \/ \E j \in 1..b : L[j].subject = q[k].subject /\ q[k].supersedes = {L[j].id}
        \/ \E j \in 1..b : /\ q[k].supersedes = {L[j].subject} /\ L[j].subject[1] = "claim"
                            /\ q[k].subject = <<"correction", {q[k].provenance}>>
    BY <1>1, <2>3 DEF Derived, SubjectsIn
  <2> QED BY <2>1, <2>2, <2>4, <2>5
<1>8. \A k \in 1..(b + n) : L2[k].event \in Events /\ L2[k].id = <<L2[k].event, L2[k].provenance>>
  <2> TAKE k \in 1..(b + n)
  <2>1. CASE k \in 1..b
    BY <1>1, <1>4, <2>1 DEF Sound
  <2>2. CASE \E i \in 1..n : k = b + i
    BY <1>7, <2>2
  <2> QED BY <1>6, <2>1, <2>2
<1>9. \A j, k \in 1..(b + n) : L2[j].id = L2[k].id => j = k
  <2>1. \A j, k \in 1..b : L2[j].id = L2[k].id => j = k
    BY <1>1, <1>4 DEF Sound
  <2>2. \A j \in 1..b, i \in 1..n : L2[j].id # L2[b + i].id
    <3> TAKE j \in 1..b, i \in 1..n
    <3>1. L2[j] = L[j] /\ L2[b + i] = q[i]
      BY <1>4, <1>7
    <3>2. L[j].id # q[i].id
      BY <1>1 DEF Appendable
    <3> QED BY <3>1, <3>2
  <2>3. \A i, k \in 1..n : L2[b + i].id = L2[b + k].id => i = k
    <3> TAKE i, k \in 1..n
    <3> HAVE L2[b + i].id = L2[b + k].id
    <3>1. q[i].provenance = q[k].provenance
      BY <1>7
    <3> QED BY <1>2, <3>1 DEF Derives
  <2> TAKE j, k \in 1..(b + n)
  <2> HAVE L2[j].id = L2[k].id
  <2>4. CASE j \in 1..b /\ k \in 1..b
    BY <2>1, <2>4
  <2>5. CASE j \in 1..b /\ \E i \in 1..n : k = b + i
    BY <2>2, <2>5
  <2>6. CASE k \in 1..b /\ \E i \in 1..n : j = b + i
    BY <2>2, <2>6
  <2>7. CASE (\E i \in 1..n : j = b + i) /\ (\E i \in 1..n : k = b + i)
    BY <2>3, <2>7
  <2> QED BY <1>6, <2>4, <2>5, <2>6, <2>7
<1>10. \A k \in 1..(b + n) : \A old \in L2[k].supersedes : ReplacedIn(L2, k, old) \/ NamedIn(L2, k, old)
  <2> TAKE k \in 1..(b + n)
  <2> TAKE old \in L2[k].supersedes
  <2>1. CASE k \in 1..b
    <3>1. ReplacedIn(L, k, old) \/ NamedIn(L, k, old)
      BY <1>1, <1>4, <2>1 DEF Sound
    <3>2. \A j \in 1..(k - 1) : L2[j] = L[j]
      BY <1>1, <1>4, <2>1
    <3> QED BY <1>4, <2>1, <3>1, <3>2 DEF ReplacedIn, NamedIn
  <2>2. CASE \E i \in 1..n : k = b + i
    <3>1. PICK i \in 1..n : k = b + i
      BY <2>2
    <3>2. L2[k] = q[i] /\ old \in q[i].supersedes
      BY <1>7, <3>1
    <3>3. \A j \in 1..b : j \in 1..(k - 1) /\ L2[j] = L[j]
      BY <1>1, <1>2, <1>4, <3>1
    <3>4. CASE \E j \in 1..b : L[j].subject = q[i].subject /\ q[i].supersedes = {L[j].id}
      BY <3>2, <3>3, <3>4 DEF ReplacedIn
    <3>5. CASE \E j \in 1..b : /\ q[i].supersedes = {L[j].subject} /\ L[j].subject[1] = "claim"
                               /\ q[i].subject = <<"correction", {q[i].provenance}>>
      BY <3>2, <3>3, <3>5 DEF NamedIn
    <3> QED BY <1>7, <3>2, <3>4, <3>5
  <2> QED BY <1>6, <2>1, <2>2
<1>11. Sound(L2)
  BY <1>4, <1>5, <1>8, <1>9, <1>10 DEF Sound
<1>12. \A k \in 1..n : L2[b + k] = q[k]
  BY <1>7
<1> QED BY <1>4, <1>11, <1>12 DEF b, L2, r

-----------------------------------------------------------------------------
(* The ledger.                                                              *)

(* A correction that names itself is known to the cache before the ledger   *)
(* only when its turn is over.                                              *)
CacheInv ==
  /\ IsSeq(cache)
  /\ \A c \in DOMAIN cache : \A x : cache[c].subject = <<"correction", {x}>> =>
       \/ cache[c].subject \in SubjectsIn(ledger)
       \/ /\ x \in DOMAIN store /\ store[x].turn <= turnSeq
          /\ InTurn => store[x].turn < turnSeq

(* The operator's events are numbered apart from the entries.               *)
LedgerInv ==
  /\ Sound(ledger)
  /\ \A k \in DOMAIN ledger :
       \/ ledger[k].provenance \in DOMAIN store
       \/ ledger[k].provenance \in Int /\ ledger[k].provenance < 0 /\ -ledger[k].provenance <= spent.forgets

NewToLedger == \A k \in DOMAIN ledger : ledger[k].provenance \in DOMAIN store =>
                 store[ledger[k].provenance].turn # turnSeq
ReplacedOnce(L) ==
  \A j, k \in DOMAIN L : \A old \in L[j].supersedes : old \in L[k].supersedes /\ old[1] # "claim" => j = k
Told(ids, L) == \A id \in ids : \E k \in DOMAIN L : L[k].provenance = id

(* Unless a continuation read failed, nothing of the current turn is in the *)
(* ledger, no record is replaced twice and no statement is missing.         *)
FactsInv == ~forked => (InTurn => NewToLedger) /\ ReplacedOnce(ledger) /\ Told(owed, ledger)

LEMMA LedgerKept ==
  ASSUME TypeInv, TypeInv', Grows, CacheInv, LedgerInv, FactsInv, InTurn' => InTurn,
         UNCHANGED <<ledger, cache, turnSeq, owed, forked>>, spent'.forgets = spent.forgets
  PROVE  CacheInv' /\ LedgerInv' /\ FactsInv'
<1>1. CacheInv'
  <2> SUFFICES ASSUME NEW c \in DOMAIN cache, NEW x, cache[c].subject = <<"correction", {x}>>
               PROVE  \/ cache[c].subject \in SubjectsIn(ledger)
                      \/ /\ x \in DOMAIN store' /\ store'[x].turn <= turnSeq
                         /\ InTurn' => store'[x].turn < turnSeq
    BY DEF CacheInv
  <2>1. \/ cache[c].subject \in SubjectsIn(ledger)
        \/ /\ x \in DOMAIN store /\ store[x].turn <= turnSeq
           /\ InTurn => store[x].turn < turnSeq
    BY DEF CacheInv
  <2> QED BY <2>1 DEF Grows
<1>2. LedgerInv'
  BY DEF LedgerInv, Grows
<1>3. FactsInv'
  <2> SUFFICES ASSUME ~forked PROVE (InTurn' => NewToLedger') /\ ReplacedOnce(ledger) /\ Told(owed, ledger)
    BY DEF FactsInv
  <2>1. ASSUME InTurn', NEW k \in DOMAIN ledger, ledger[k].provenance \in DOMAIN store'
        PROVE  store'[ledger[k].provenance].turn # turnSeq
    <3>1. DOMAIN store' = 1..Len(store') /\ Len(store') \in Nat
      BY DEF TypeInv
    <3>2. ledger[k].provenance \in DOMAIN store
      BY <2>1, <3>1 DEF LedgerInv
    <3>3. store[ledger[k].provenance].turn # turnSeq
      BY <2>1, <3>2 DEF FactsInv, NewToLedger
    <3> QED BY <3>2, <3>3 DEF Grows
  <2>2. InTurn' => NewToLedger'
    BY <2>1 DEF NewToLedger
  <2> QED BY <2>2 DEF FactsInv
<1> QED BY <1>1, <1>2, <1>3

LEMMA PrefixChosen ==
  ASSUME PostProcess, NEW ids, ids = ReadTurn(store, arch.turn),
         NEW records, records = Consolidate(ledger, cache, store, ids), Len(records) \in Nat
  PROVE  \E n \in 0..Len(records) :
           /\ \A k \in 1..n : Appendable(ledger, records[k])
           /\ ledger' = ledger \o SubSeq(records, 1, n)
           /\ cache' = cache \o records
           /\ \/ owed' = owed
              \/ /\ owed' = owed \cup {id \in Range(written) : /\ store[id].authority = "user"
                                                              /\ store[id].text.phrase # "confirmation"}
                 /\ (\A k \in 1..Len(records) : Appendable(ledger, records[k])) => n = Len(records)
<1> DEFINE ok == AppendedPrefixes(records)
           most == Max(ok)
           said == {id \in Range(written) : /\ store[id].authority = "user"
                                            /\ store[id].text.phrase # "confirmation"}
<1>1. PICK n \in {most} \cup (IF spent.faults < MaxFaults THEN 0..most ELSE {}) :
         /\ ledger' = ledger \o SubSeq(records, 1, n)
         /\ cache' = cache \o records
         /\ owed' = owed \cup IF n < most THEN {} ELSE said
  BY DEF PostProcess
<1> HIDE DEF said
<1>2. ok \subseteq 0..Len(records) /\ 0 \in ok
  <2>1. 0 \in 0..Len(records) /\ 1..0 = {}
    OBVIOUS
  <2> QED BY <2>1 DEF AppendedPrefixes
<1>3. most \in ok /\ \A m \in ok : most >= m
  <2> HIDE DEF ok
  <2>1. ok # {}
    BY <1>2
  <2> QED BY <1>2, <2>1, MaxFacts
<1>4. most \in 0..Len(records) /\ \A k \in 1..most : Appendable(ledger, records[k])
  BY <1>3 DEF AppendedPrefixes
<1>5. (\A k \in 1..Len(records) : Appendable(ledger, records[k])) => most = Len(records)
  <2> HAVE \A k \in 1..Len(records) : Appendable(ledger, records[k])
  <2>1. Len(records) \in ok
    BY DEF AppendedPrefixes
  <2> HIDE DEF ok
  <2>2. most >= Len(records)
    BY <1>3, <2>1
  <2> QED BY <1>4, <2>2
<1> HIDE DEF most, ok
<1>6. n \in 0..most
  BY <1>1, <1>4
<1>7. n \in 0..Len(records) /\ 1..n \subseteq 1..most
  BY <1>4, <1>6
<1>8. CASE n < most
  BY <1>1, <1>4, <1>7, <1>8
<1>9. CASE ~(n < most)
  <2>1. n = most
    BY <1>4, <1>6, <1>9
  <2> QED BY <1>1, <1>4, <1>5, <1>7, <1>9, <2>1 DEF said
<1> QED BY <1>8, <1>9

(* The archive is read fresh: the cache holds no correction of this turn.   *)
LEMMA TurnIsFresh ==
  ASSUME TypeInv, CacheInv, LedgerInv, Reading
  PROVE  Fresh(ledger, cache, store, ReadTurn(store, arch.turn))
<1> DEFINE ids == ReadTurn(store, arch.turn)
<1>1. store \in Seq(Entries) /\ arch.turn = turnSeq /\ turnSeq \in Nat
  BY DEF TypeInv, InTurn
<1>2. /\ IsSeq(ids)
      /\ \A i \in 1..Len(ids) : ids[i] \in DOMAIN store /\ store[ids[i]].turn = turnSeq
      /\ \A i, j \in 1..Len(ids) : ids[i] = ids[j] => i = j
  BY <1>1, TurnReadsOnce
<1> HIDE DEF ids
<1>3. ASSUME NEW i \in 1..Len(ids), NEW c \in DOMAIN cache, cache[c].subject = <<"correction", {ids[i]}>>
      PROVE  cache[c].subject \in SubjectsIn(ledger)
  <2>1. \/ cache[c].subject \in SubjectsIn(ledger)
        \/ store[ids[i]].turn < turnSeq
    BY <1>3 DEF CacheInv, InTurn
  <2>2. ~(store[ids[i]].turn < turnSeq)
    BY <1>1, <1>2
  <2> QED BY <2>1, <2>2
<1> QED BY <1>1, <1>2, <1>3 DEF Fresh, ids, CacheInv, LedgerInv

(* What a turn has written is what is read back of it.                      *)
LEMMA WrittenReadsBack ==
  ASSUME TypeInv, OrderInv, ~forked, Reading
  PROVE  ReadTurn(store, arch.turn) = written
<1>1. arch.turn = turnSeq /\ store \in Seq(Entries) /\ Ordered(store) /\ Tells(written, store, turnSeq)
  BY DEF TypeInv, OrderInv, AtEnd
<1>2. PICK a \in 0..Len(store) : written = Segment(a, Len(store)) /\ \A k \in DOMAIN store : store[k].turn = turnSeq <=> k > a
  BY <1>1 DEF Tells
<1> QED BY <1>1, <1>2, TurnReadsBack

LEMMA PostProcessStep ==
  ASSUME ControlInv, TypeInv, OrderInv, CacheInv, LedgerInv, FactsInv, PostProcess
  PROVE  CacheInv' /\ LedgerInv' /\ FactsInv'
<1> DEFINE ids == ReadTurn(store, arch.turn)
           q == Consolidate(ledger, cache, store, ids)
           b == Len(ledger)
           N == Len(q)
<1>1. Reading /\ ~InTurn' /\ UNCHANGED <<store, turnSeq, forked, written>> /\ spent'.forgets = spent.forgets
  BY LoudSteps DEF PostProcess
<1>2. arch.turn = turnSeq /\ turnSeq \in Nat /\ store \in Seq(Entries)
  BY <1>1 DEF TypeInv, InTurn
<1>3. Fresh(ledger, cache, store, ids)
  BY <1>1, TurnIsFresh
<1>4. \A i \in 1..Len(ids) : ids[i] \in DOMAIN store /\ store[ids[i]].turn = turnSeq
  BY <1>2, TurnReadsOnce
<1>5. ~forked => ids = written
  BY <1>1, WrittenReadsBack
<1> HIDE DEF ids
<1>6. Derives(q, Len(ids), ledger, store, ids)
  BY <1>3, ConsolidateFacts
<1>7. N \in Nat /\ IsSeq(q) /\ DOMAIN q = 1..N
  BY <1>6, SeqFacts DEF Derives
<1>8. PICK n \in 0..N :
        /\ \A k \in 1..n : Appendable(ledger, q[k])
        /\ ledger' = ledger \o SubSeq(q, 1, n)
        /\ cache' = cache \o q
        /\ \/ owed' = owed
           \/ /\ owed' = owed \cup {id \in Range(written) : /\ store[id].authority = "user"
                                                           /\ store[id].text.phrase # "confirmation"}
              /\ (\A k \in 1..N : Appendable(ledger, q[k])) => n = N
  <2> HIDE DEF q
  <2> QED BY <1>7, PrefixChosen DEF ids, q
<1> HIDE DEF q
<1>9. Sound(ledger) /\ IsSeq(ledger) /\ b \in Nat /\ DOMAIN ledger = 1..b /\ IsSeq(cache)
  BY SeqFacts DEF LedgerInv, Sound, CacheInv
<1>10. /\ Sound(ledger') /\ Len(ledger') = b + n
       /\ \A k \in 1..b : ledger'[k] = ledger[k]
       /\ \A k \in 1..n : ledger'[b + k] = q[k]
  BY <1>6, <1>8, <1>9, AppendRecords
<1>11. DOMAIN ledger' = 1..(b + n)
  BY <1>10, SeqFacts DEF Sound
<1> HIDE DEF b, N
<1>12. \A k \in 1..(b + n) : k \in 1..b \/ \E i \in 1..n : k = b + i
  <2> TAKE k \in 1..(b + n)
  <2>1. k \in 1..b \/ (k - b \in 1..n /\ k = b + (k - b))
    BY <1>7, <1>9
  <2> QED BY <2>1
<1>13. /\ \A k \in 1..b : k \in 1..(b + n)
       /\ \A k \in 1..n : b + k \in 1..(b + n) /\ k \in 1..N
  BY <1>7, <1>9
<1>14. SubjectsIn(ledger) \subseteq SubjectsIn(ledger')
  BY <1>9, <1>10, <1>11, <1>13 DEF SubjectsIn
<1>15. \A k \in 1..N : \E i \in 1..Len(ids) : Derived(q[k], ids[i], ledger) /\ (q[k].supersedes # {} => store[ids[i]].authority = "user")
  BY <1>6, <1>7 DEF Derives
<1>16. CacheInv'
  <2> DEFINE m == Len(cache)
  <2>1. /\ IsSeq(cache') /\ Len(cache') = m + N /\ m \in Nat /\ DOMAIN cache = 1..m /\ DOMAIN cache' = 1..(m + N)
        /\ \A c \in 1..m : cache'[c] = cache[c]
        /\ \A c \in 1..N : cache'[m + c] = q[c]
    BY <1>7, <1>8, <1>9, ConcatFacts, SeqFacts DEF N
  <2> HIDE DEF m
  <2> SUFFICES ASSUME NEW c \in 1..(m + N), NEW x, cache'[c].subject = <<"correction", {x}>>
               PROVE  \/ cache'[c].subject \in SubjectsIn(ledger')
                      \/ x \in DOMAIN store /\ store[x].turn <= turnSeq
    BY <1>1, <2>1 DEF CacheInv
  <2>2. CASE c \in 1..m
    BY <1>14, <2>1, <2>2 DEF CacheInv
  <2>3. CASE c \notin 1..m
    <3> DEFINE k == c - m
    <3>1. k \in 1..N /\ c = m + k
      BY <1>7, <2>1, <2>3
    <3> HIDE DEF k
    <3>2. PICK i \in 1..Len(ids) : Derived(q[k], ids[i], ledger)
      BY <1>15, <3>1
    <3>3. cache'[c] = q[k]
      BY <2>1, <3>1
    <3>4. x = ids[i] \/ cache'[c].subject \in SubjectsIn(ledger)
      BY <3>2, <3>3 DEF Derived
    <3> QED BY <1>2, <1>4, <1>14, <3>4
  <2> QED BY <2>2, <2>3
<1>17. LedgerInv'
  <2> SUFFICES ASSUME NEW k \in 1..(b + n)
               PROVE  \/ ledger'[k].provenance \in DOMAIN store
                      \/ /\ ledger'[k].provenance \in Int /\ ledger'[k].provenance < 0
                         /\ -ledger'[k].provenance <= spent.forgets
    BY <1>1, <1>10, <1>11 DEF LedgerInv
  <2>1. CASE k \in 1..b
    BY <1>9, <1>10, <2>1 DEF LedgerInv
  <2>2. CASE \E i \in 1..n : k = b + i
    <3>1. PICK j \in 1..n : k = b + j
      BY <2>2
    <3>2. PICK i \in 1..Len(ids) : Derived(q[j], ids[i], ledger)
      BY <1>13, <1>15
    <3>3. ledger'[k].provenance = ids[i]
      BY <1>10, <3>1, <3>2 DEF Derived
    <3> QED BY <1>4, <3>3
  <2> QED BY <1>12, <2>1, <2>2
<1>18. ASSUME ~forked PROVE ReplacedOnce(ledger')
  <2> SUFFICES ASSUME NEW j \in 1..(b + n), NEW k \in 1..(b + n), NEW old,
                      old \in ledger'[j].supersedes, old \in ledger'[k].supersedes, old[1] # "claim"
               PROVE  j = k
    BY <1>11 DEF ReplacedOnce
  <2>1. CASE j \in 1..b /\ k \in 1..b
    BY <1>9, <1>10, <1>18, <2>1 DEF FactsInv, ReplacedOnce
  <2>2. \A x \in 1..b, i \in 1..n : old \in ledger[x].supersedes => old \notin q[i].supersedes
    <3> TAKE x \in 1..b, i \in 1..n
    <3> HAVE old \in ledger[x].supersedes
    <3>1. old \in SupersededIds(ledger)
      BY <1>9 DEF SupersededIds
    <3>2. PICK y \in 1..Len(ids) : Derived(q[i], ids[y], ledger)
      BY <1>13, <1>15
    <3> QED BY <3>1, <3>2 DEF Derived
  <2>3. \A x, y \in 1..n : q[x].supersedes # {} /\ q[y].supersedes # {} => x = y
    <3> TAKE x, y \in 1..n
    <3> HAVE q[x].supersedes # {} /\ q[y].supersedes # {}
    <3>1. PICK i \in 1..Len(ids) : Derived(q[x], ids[i], ledger) /\ store[ids[i]].authority = "user"
      BY <1>13, <1>15
    <3>2. PICK e \in 1..Len(ids) : Derived(q[y], ids[e], ledger) /\ store[ids[e]].authority = "user"
      BY <1>13, <1>15
    <3> DEFINE v == ids[i]
               w == ids[e]
    <3>3. /\ v \in DOMAIN store /\ w \in DOMAIN store /\ store[v].turn = store[w].turn
          /\ store[v].authority = "user" /\ store[w].authority = "user"
      BY <1>4, <3>1, <3>2
    <3>4. v \in Int /\ w \in Int
      BY <1>2, <3>3
    <3>5. q[x].provenance = v /\ q[y].provenance = w
      BY <3>1, <3>2 DEF Derived
    <3> HIDE DEF v, w
    <3>6. OneUser(store)
      BY <1>18 DEF OrderInv
    <3>7. ~(v < w) /\ ~(w < v)
      BY <3>3, <3>6 DEF OneUser
    <3>8. v = w
      BY <3>4, <3>7
    <3>9. \A j1, j2 \in 1..N : q[j1].provenance = q[j2].provenance => j1 = j2
      BY <1>6, <1>7 DEF Derives
    <3> QED BY <1>13, <3>5, <3>8, <3>9
  <2>4. CASE j \in 1..b /\ \E i \in 1..n : k = b + i
    BY <1>10, <2>2, <2>4
  <2>5. CASE k \in 1..b /\ \E i \in 1..n : j = b + i
    BY <1>10, <2>2, <2>5
  <2>6. CASE (\E i \in 1..n : j = b + i) /\ (\E i \in 1..n : k = b + i)
    BY <1>10, <2>3, <2>6
  <2> QED BY <1>12, <2>1, <2>4, <2>5, <2>6
<1>19. ASSUME ~forked PROVE Told(owed', ledger')
  <2>1. Told(owed, ledger')
    BY <1>9, <1>10, <1>11, <1>13, <1>19 DEF FactsInv, Told
  <2>2. ASSUME NEW i \in 1..Len(ids), IsStatement(store[ids[i]]),
               (\A k \in 1..N : Appendable(ledger, q[k])) => n = N
        PROVE  \E k \in DOMAIN ledger' : ledger'[k].provenance = ids[i]
    <3>1. ASSUME NEW k \in 1..N PROVE Appendable(ledger, q[k])
      <4>1. PICK e \in 1..Len(ids) : Derived(q[k], ids[e], ledger)
        BY <1>15
      <4>2. ASSUME NEW j \in 1..b PROVE ledger[j].provenance # ids[e]
        BY <1>1, <1>4, <1>9, <1>19 DEF FactsInv, NewToLedger, InTurn
      <4>3. ASSUME NEW j \in 1..b PROVE ledger[j].id # q[k].id
        <5>1. ledger[j].id = <<ledger[j].event, ledger[j].provenance>> /\ q[k].id = <<q[k].event, ids[e]>>
          BY <1>9, <4>1 DEF Sound, Derived
        <5> QED BY <4>2, <5>1
      <4> QED BY <1>9, <4>3 DEF Appendable
    <3>2. n = N
      BY <2>2, <3>1
    <3>3. PICK k \in 1..N : q[k].provenance = ids[i]
      BY <1>6, <1>7, <2>2 DEF Derives
    <3>4. ledger'[b + k] = q[k] /\ b + k \in DOMAIN ledger'
      BY <1>10, <1>11, <1>13, <3>2
    <3> QED BY <3>3, <3>4
  <2>3. CASE owed' = owed
    BY <2>1, <2>3
  <2>4. CASE /\ owed' = owed \cup {id \in Range(written) : /\ store[id].authority = "user"
                                                           /\ store[id].text.phrase # "confirmation"}
             /\ (\A k \in 1..N : Appendable(ledger, q[k])) => n = N
    <3>1. ASSUME NEW id \in Range(written), store[id].authority = "user", store[id].text.phrase # "confirmation"
          PROVE  \E k \in DOMAIN ledger' : ledger'[k].provenance = id
      <4>1. PICK i \in DOMAIN ids : id = ids[i]
        BY <1>5, <1>19 DEF Range
      <4>2. i \in 1..Len(ids) /\ IsStatement(store[ids[i]])
        BY <1>3, <3>1, <4>1, SeqFacts DEF Fresh, IsStatement
      <4> QED BY <2>2, <2>4, <4>1, <4>2
    <3> QED BY <2>1, <2>4, <3>1 DEF Told
  <2> QED BY <1>8, <2>3, <2>4
<1>20. FactsInv'
  BY <1>1, <1>18, <1>19 DEF FactsInv
<1> QED BY <1>16, <1>17, <1>20

LEMMA ForgetStep ==
  ASSUME ControlInv, TypeInv, CacheInv, LedgerInv, FactsInv, Forget
  PROVE  CacheInv' /\ LedgerInv' /\ FactsInv'
<1> DEFINE b == Len(ledger)
           f == spent.forgets
<1>1. ~InTurn /\ ~InTurn' /\ UNCHANGED <<store, turnSeq, forked, cache, owed>> /\ spent'.forgets = f + 1 /\ f \in Nat
  BY LoudSteps DEF Forget, ControlInv
<1>2. PICK r : /\ ledger' = Append(ledger, r) /\ r.event \in Events /\ r.id = <<r.event, -(f + 1)>>
               /\ r.provenance = -(f + 1) /\ r.supersedes = {}
  <2>1. PICK subject \in SubjectsIn(ledger), event \in {"suppressed", "unsuppressed"} :
          ledger' = Append(ledger, RecordOf(event, -(f + 1), ViewOf(ledger, subject).current.kind,
                                            ViewOf(ledger, subject).current.text, subject, "user", {}))
    BY DEF Forget
  <2> QED BY <2>1 DEF RecordOf, Events
<1>3. Sound(ledger) /\ IsSeq(ledger) /\ b \in Nat /\ DOMAIN ledger = 1..b
  BY SeqFacts DEF LedgerInv, Sound
<1>4. /\ IsSeq(ledger') /\ DOMAIN ledger' = 1..(b + 1)
      /\ ledger'[b + 1] = r /\ \A k \in 1..b : ledger'[k] = ledger[k]
  <2>1. PICK S : ledger \in Seq(S)
    BY <1>3 DEF IsSeq
  <2>2. ledger \in Seq(S \cup {r}) /\ r \in S \cup {r}
    BY <2>1, SeqMonotonic
  <2>3. /\ ledger' \in Seq(S \cup {r}) /\ Len(ledger') = b + 1
        /\ ledger'[b + 1] = r /\ \A k \in 1..b : ledger'[k] = ledger[k]
    BY <1>2, <2>2, AppendProperties
  <2> QED BY <2>3, SeqFacts DEF IsSeq
<1> HIDE DEF b, f
<1>5. \A k \in 1..(b + 1) : k = b + 1 \/ k \in 1..b
  BY <1>3
<1>6. \A k \in 1..b : k \in 1..(b + 1)
  BY <1>3
<1>7. \A k \in 1..b : ledger[k].id # r.id
  <2> TAKE k \in 1..b
  <2>1. ledger[k].id = <<ledger[k].event, ledger[k].provenance>>
    BY <1>3 DEF Sound
  <2>2. ledger[k].provenance # -(f + 1)
    <3>1. CASE ledger[k].provenance \in DOMAIN store
      <4>1. DOMAIN store = 1..Len(store) /\ Len(store) \in Nat
        BY DEF TypeInv
      <4> QED BY <1>1, <3>1, <4>1
    <3>2. CASE ledger[k].provenance \notin DOMAIN store
      BY <1>1, <1>3, <3>2 DEF LedgerInv, f
    <3> QED BY <3>1, <3>2
  <2> QED BY <1>2, <2>1, <2>2
<1>8. Sound(ledger')
  <2>1. \A k \in 1..(b + 1) : ledger'[k].event \in Events /\ ledger'[k].id = <<ledger'[k].event, ledger'[k].provenance>>
    BY <1>2, <1>3, <1>4, <1>5 DEF Sound
  <2>2. \A j, k \in 1..(b + 1) : ledger'[j].id = ledger'[k].id => j = k
    <3>1. \A j, k \in 1..b : ledger[j].id = ledger[k].id => j = k
      BY <1>3 DEF Sound
    <3> QED BY <1>4, <1>5, <1>7, <3>1
  <2>3. \A k \in 1..(b + 1) : \A old \in ledger'[k].supersedes :
          ReplacedIn(ledger', k, old) \/ NamedIn(ledger', k, old)
    <3> TAKE k \in 1..(b + 1)
    <3> TAKE old \in ledger'[k].supersedes
    <3>1. k \in 1..b
      BY <1>2, <1>4, <1>5
    <3>2. ReplacedIn(ledger, k, old) \/ NamedIn(ledger, k, old)
      BY <1>3, <1>4, <3>1 DEF Sound
    <3>3. \A j \in 1..(k - 1) : ledger'[j] = ledger[j]
      BY <1>3, <1>4, <3>1
    <3> QED BY <1>4, <3>1, <3>2, <3>3 DEF ReplacedIn, NamedIn
  <2> QED BY <1>4, <2>1, <2>2, <2>3 DEF Sound
<1>9. LedgerInv'
  <2> SUFFICES ASSUME NEW k \in 1..(b + 1)
               PROVE  \/ ledger'[k].provenance \in DOMAIN store
                      \/ /\ ledger'[k].provenance \in Int /\ ledger'[k].provenance < 0
                         /\ -ledger'[k].provenance <= f + 1
    BY <1>1, <1>4, <1>8 DEF LedgerInv
  <2>1. CASE k = b + 1
    BY <1>1, <1>2, <1>4, <2>1
  <2>2. CASE k \in 1..b
    BY <1>1, <1>3, <1>4, <2>2 DEF LedgerInv, f
  <2> QED BY <1>5, <2>1, <2>2
<1>10. CacheInv'
  <2>1. SubjectsIn(ledger) \subseteq SubjectsIn(ledger')
    BY <1>3, <1>4, <1>6 DEF SubjectsIn
  <2> QED BY <1>1, <2>1 DEF CacheInv
<1>11. FactsInv'
  <2> SUFFICES ASSUME ~forked PROVE ReplacedOnce(ledger') /\ Told(owed, ledger')
    BY <1>1 DEF FactsInv
  <2>1. ReplacedOnce(ledger) /\ Told(owed, ledger)
    BY DEF FactsInv
  <2>2. ReplacedOnce(ledger')
    BY <1>2, <1>3, <1>4, <1>5, <2>1 DEF ReplacedOnce
  <2>3. Told(owed, ledger')
    BY <1>3, <1>4, <1>6, <2>1 DEF Told
  <2> QED BY <2>2, <2>3
<1> QED BY <1>9, <1>10, <1>11

IInv == ControlInv /\ TypeInv /\ OrderInv /\ CacheInv /\ LedgerInv /\ FactsInv

LEMMA Initially == Init => IInv
<1> SUFFICES ASSUME Init PROVE IInv
  OBVIOUS
<1>1. ControlInv /\ ~Starting /\ ~Acting /\ ~Reading /\ ~InTurn
  BY TextsExist DEF Init, ControlInv, PCs, NoRun, NoTurn, Starting, Acting, Reading, InTurn
<1>2. TypeInv
  BY <1>1 DEF Init, TypeInv, NewArchivist, Archivists
<1>3. OrderInv
  BY <1>1, <1>2 DEF Init, OrderInv, AtEnd, Ordered, Linked, UpTo, OneUser, TypeInv, NewArchivist
<1>4. CacheInv
  BY SeqOfFew DEF Init, CacheInv
<1>5. LedgerInv
  BY SeqOfFew DEF Init, LedgerInv, Sound
<1>6. FactsInv
  BY <1>1 DEF Init, FactsInv, ReplacedOnce, Told
<1> QED BY <1>1, <1>2, <1>3, <1>4, <1>5, <1>6 DEF IInv

LEMMA Step == IInv /\ [Next]_vars => IInv'
<1> SUFFICES ASSUME ControlInv, TypeInv, OrderInv, CacheInv, LedgerInv, FactsInv, [Next]_vars
             PROVE  IInv'
  BY DEF IInv
<1>1. ControlInv'
  <2>1. CASE UNCHANGED vars
    BY <2>1 DEF ControlInv
  <2> QED BY <2>1, QuietSteps, LoudSteps DEF Next, RunStep, TurnStep, Quiet
<1>2. TypeInv' /\ Grows
  BY TypeStep
<1>3. OrderInv'
  BY OrderStep
<1>4. CacheInv' /\ LedgerInv' /\ FactsInv'
  <2>1. CASE Quiet
    <3>1. InTurn' => InTurn
      BY <2>1, QuietSteps DEF InTurn
    <3>2. UNCHANGED <<ledger, cache, turnSeq, owed, forked>> /\ spent'.forgets = spent.forgets
      BY <2>1, QuietSteps
    <3> QED BY <1>2, <3>1, <3>2, LedgerKept
  <2>2. CASE QueueInput \/ ToolIteration \/ Answer
    <3>1. InTurn /\ spent'.forgets = spent.forgets
      BY <2>2, LoudSteps DEF InTurn, Reading
    <3>2. UNCHANGED <<ledger, cache, turnSeq, owed, forked>>
      BY <2>2 DEF QueueInput, ToolIteration, Answer
    <3> QED BY <1>2, <3>1, <3>2, LedgerKept
  <2>3. CASE StartTurn
    <3>1. ~InTurn /\ turnSeq' = turnSeq + 1 /\ spent'.forgets = spent.forgets
      BY <2>3, LoudSteps
    <3>2. UNCHANGED <<store, ledger, cache, owed, forked>>
      BY <2>3 DEF StartTurn
    <3>3. turnSeq \in Int /\ \A k \in DOMAIN store : store[k].turn \in Nat
      <4>1. \A k \in DOMAIN store : store[k] \in Entries
        BY DEF TypeInv
      <4> QED BY <4>1 DEF TypeInv, Entries
    <3>4. CacheInv'
      BY <3>1, <3>2, <3>3 DEF CacheInv
    <3>5. LedgerInv'
      BY <3>1, <3>2 DEF LedgerInv
    <3>6. ~forked => NewToLedger'
      BY <3>1, <3>2, <3>3 DEF OrderInv, UpTo, NewToLedger
    <3> QED BY <3>2, <3>4, <3>5, <3>6 DEF FactsInv
  <2>4. CASE PostProcess
    BY <2>4, PostProcessStep
  <2>5. CASE Forget
    BY <2>5, ForgetStep
  <2>6. CASE Restart
    <3>1. ~InTurn' /\ spent'.forgets = spent.forgets
      BY <2>6, LoudSteps
    <3>2. UNCHANGED <<store, ledger, owed>> /\ cache' = <<>> /\ (~forked' => ~forked)
      BY <2>6 DEF Restart
    <3>3. CacheInv'
      BY <3>2, SeqOfFew DEF CacheInv
    <3>4. LedgerInv'
      BY <3>1, <3>2 DEF LedgerInv
    <3> QED BY <3>1, <3>2, <3>3, <3>4 DEF FactsInv
  <2>7. CASE UNCHANGED vars
    <3>1. InTurn' => InTurn
      BY <2>7 DEF InTurn, Reading, Starting, Acting
    <3> QED BY <1>2, <2>7, <3>1, LedgerKept
  <2> QED BY <2>1, <2>2, <2>3, <2>4, <2>5, <2>6, <2>7 DEF Next, RunStep, TurnStep, Quiet
<1> QED BY <1>1, <1>2, <1>3, <1>4 DEF IInv

(* Control, archive, cache and ledger stay within the inductive invariant:  *)
(* entries are written behind one another, and the ledger's ids are unique  *)
(* and tell where each record comes from (orchestrator.py, consolidation.py).*)
THEOREM Inductive == Spec => []IInv
BY Initially, Step, PTL DEF Spec

(* Unless a continuation read failed, the archive of a turn reads back as   *)
(* the entries written in it, in order, and the newest entry's lineage      *)
(* reaches all entries of the session, across failing writes, crashes and   *)
(* restarts (orchestrator.py archive, continue_archive; provenance.py).     *)
THEOREM ArchiveReadsBackAlways == Spec => []ArchiveReadsBack
<1>1. IInv => ArchiveReadsBack
  <2> SUFFICES ASSUME TypeInv, OrderInv, ~forked
               PROVE  /\ pp = "pending" => ReadTurn(store, arch.turn) = written
                      /\ store # <<>> => Lineage(store, Len(store)) = DOMAIN store
    BY DEF IInv, ArchiveReadsBack
  <2>1. pp = "pending" => ReadTurn(store, arch.turn) = written
    BY WrittenReadsBack DEF Reading
  <2>2. store \in Seq(Entries) /\ Linked(store)
    BY DEF TypeInv, OrderInv, AtEnd
  <2>3. Len(store) \in 0..Len(store) /\ DOMAIN store = 1..Len(store)
    BY <2>2
  <2>4. Lineage(store, Len(store)) = DOMAIN store
    BY <2>2, <2>3, LineageIsWhole
  <2> QED BY <2>1, <2>4
<1> QED BY <1>1, Inductive, PTL

(* Unless a continuation read failed, what the user stated in a turn whose  *)
(* post_process met no fault is in the ledger: the archive is read as it    *)
(* was written, every statement in it yields a record, and none of the      *)
(* records is refused (orchestrator.py _consolidate_completed_turn).        *)
THEOREM StatementsAlwaysReachTheLedger == Spec => []StatementsReachTheLedger
<1>1. IInv => StatementsReachTheLedger
  BY DEF IInv, FactsInv, Told, StatementsReachTheLedger
<1> QED BY <1>1, Inductive, PTL

(* A correction of something recorded replaces an earlier record of its own *)
(* subject, and unless a continuation read failed no record is replaced     *)
(* twice; only one that begins a subject may name another subject in place  *)
(* of a record (consolidation.py _match_current_record, _subject_current_id; *)
(* store.py compute_views).                                                 *)
THEOREM CorrectionsNeverFork == Spec => []CorrectionsDoNotFork
<1>1. IInv => CorrectionsDoNotFork
  <2> SUFFICES ASSUME IInv, NEW k \in DOMAIN ledger, NEW old \in ledger[k].supersedes
               PROVE  \/ NamesSubject(k, old)
                      \/ /\ ReplacesOwn(k, old)
                         /\ forked \/ \A j \in DOMAIN ledger : old \in ledger[j].supersedes => j = k
    BY DEF CorrectionsDoNotFork
  <2>1. Sound(ledger) /\ (~forked => ReplacedOnce(ledger))
    BY DEF IInv, LedgerInv, FactsInv
  <2>2. ReplacedIn(ledger, k, old) \/ NamedIn(ledger, k, old)
    BY <2>1 DEF Sound
  <2>3. CASE NamedIn(ledger, k, old)
    BY <2>3 DEF NamedIn, NamesSubject
  <2>4. CASE ReplacedIn(ledger, k, old)
    <3>1. PICK i \in 1..(k - 1) : ledger[i].id = old
      BY <2>4 DEF ReplacedIn
    <3>2. i \in DOMAIN ledger
      <4>1. DOMAIN ledger = 1..Len(ledger) /\ Len(ledger) \in Nat
        BY <2>1, SeqFacts DEF Sound
      <4> QED BY <3>1, <4>1
    <3>3. old[1] # "claim"
      BY <2>1, <3>1, <3>2, IdsAreReplaced
    <3> QED BY <2>1, <2>4, <3>3 DEF ReplacedIn, ReplacesOwn, ReplacedOnce
  <2> QED BY <2>2, <2>3, <2>4
<1> QED BY <1>1, Inductive, PTL

(* What a profile without rules lets through is what is not suppressed.     *)
LEMMA RetrievableIff ==
  ASSUME NEW L, Sound(L), NEW s
  PROVE  s \in Retrievable(L) <=> s \in SubjectsIn(L) /\ ~SuppressedBy(L, s, Len(L))
<1> DEFINE profile == [rules |-> {}, default |-> "allow"]
           views == ComputeViews(L)
<1>1. DOMAIN views = SubjectsIn(L) /\ \A x \in SubjectsIn(L) : views[x] = ViewOf(L, x)
  BY DEF ComputeViews
<1>2. \A view : Allowed(profile, view) <=> view.status # "suppressed"
  BY DEF Allowed, Matches, DefaultDecides
<1> HIDE DEF profile, views
<1>3. s \in Retrievable(L) <=> s \in SubjectsIn(L) /\ ViewOf(L, s).status # "suppressed"
  BY <1>1, <1>2 DEF Retrievable, FilterAllowed, profile, views
<1> QED BY <1>3, SuppressedIffEnd

LEMMA OnlyTheOperatorUndoes ==
  ASSUME NEW L, Sound(L), NEW L2, Sound(L2), Len(L) <= Len(L2),
         \A k \in 1..Len(L) : L2[k] = L[k],
         NEW s \in SubjectsIn(L), s \notin Retrievable(L), s \in Retrievable(L2)
  PROVE  \E k \in (Len(L) + 1)..Len(L2) :
           /\ L2[k].subject = s
           /\ \/ L2[k].event = "unsuppressed"
              \/ \E old \in L2[k].supersedes : old[1] = "suppressed"
<1> DEFINE b == Len(L)
           n == Len(L2)
<1>1. b \in Nat /\ n \in Nat /\ DOMAIN L = 1..b /\ DOMAIN L2 = 1..n
  BY SeqFacts DEF Sound
<1>2. SuppressedBy(L, s, b) /\ ~SuppressedBy(L2, s, n)
  BY RetrievableIff
<1> HIDE DEF b, n
<1>3. b <= n /\ \A k \in 1..b : k \in 1..n /\ L2[k] = L[k]
  BY <1>1 DEF b, n
<1>4. \A k \in 1..n : k \in 1..b \/ k \in (b + 1)..n
  BY <1>1
<1>5. PICK k \in Standing(L, s) :
        /\ k <= b /\ L[k].event = "suppressed"
        /\ \A j \in Standing(L, s) : j \in k..b => L[j].event # "unsuppressed"
  BY <1>2 DEF SuppressedBy
<1>6. k \in 1..b /\ L[k].subject = s /\ L2[k] = L[k] /\ k \in 1..n
  BY <1>1, <1>3, <1>5 DEF Standing, ChainOf
<1>7. CASE k \notin Standing(L2, s)
  <2>1. L2[k].id \in SupersededIds(L2)
    BY <1>1, <1>6, <1>7 DEF Standing, ChainOf
  <2>2. PICK m \in 1..n : L2[k].id \in L2[m].supersedes
    BY <1>1, <2>1 DEF SupersededIds
  <2>3. PICK j \in 1..(m - 1) : L2[j].id = L2[k].id /\ L2[j].subject = L2[m].subject
    BY <1>1, <1>6, <2>2, IdsAreReplaced DEF ReplacedIn
  <2>4. j = k
    <3>1. j \in 1..n
      BY <1>1, <2>2
    <3> QED BY <1>1, <1>6, <2>3, <3>1 DEF Sound
  <2>5. m \notin 1..b
    <3> SUFFICES ASSUME m \in 1..b PROVE FALSE
      OBVIOUS
    <3>1. L[k].id \in SupersededIds(L)
      BY <1>1, <1>3, <1>6, <2>2 DEF SupersededIds
    <3> QED BY <1>5, <3>1 DEF Standing
  <2>6. L2[k].id[1] = "suppressed"
    <3>1. L2[k].id = <<L2[k].event, L2[k].provenance>> /\ L2[k].event = "suppressed"
      BY <1>1, <1>5, <1>6 DEF Sound
    <3> QED BY <3>1
  <2>7. m \in (b + 1)..n /\ L2[m].subject = s
    BY <1>4, <1>6, <2>2, <2>3, <2>4, <2>5
  <2> QED BY <2>2, <2>6, <2>7 DEF b, n
<1>8. CASE k \in Standing(L2, s)
  <2>1. PICK j \in Standing(L2, s) : j \in k..n /\ L2[j].event = "unsuppressed"
    <3>1. k <= n /\ L2[k].event = "suppressed"
      BY <1>1, <1>5, <1>6
    <3> QED BY <1>2, <1>8, <3>1 DEF SuppressedBy
  <2>2. j \in 1..n /\ L2[j].subject = s /\ L2[j].id \notin SupersededIds(L2)
    BY <1>1, <2>1 DEF Standing, ChainOf
  <2>3. j \notin 1..b
    <3> SUFFICES ASSUME j \in 1..b PROVE FALSE
      OBVIOUS
    <3>1. L[j].id \notin SupersededIds(L)
      <4> SUFFICES ASSUME NEW m \in 1..b, L[j].id \in L[m].supersedes PROVE FALSE
        BY <1>1 DEF SupersededIds
      <4>1. L2[j].id \in L2[m].supersedes /\ m \in 1..n
        BY <1>3
      <4> QED BY <1>1, <2>2, <4>1 DEF SupersededIds
    <3>2. j \in Standing(L, s)
      BY <1>1, <1>3, <2>2, <3>1 DEF Standing, ChainOf
    <3>3. j \in k..b
      BY <1>1, <1>6, <2>1
    <3> QED BY <1>3, <1>5, <2>1, <3>2, <3>3
  <2> QED BY <1>4, <2>1, <2>2, <2>3 DEF b, n
<1> QED BY <1>7, <1>8

LEMMA LedgerGrows ==
  ASSUME IInv, [Next]_vars
  PROVE  ledger' = ledger \/ (Len(ledger) <= Len(ledger') /\ \A k \in 1..Len(ledger) : ledger'[k] = ledger[k])
<1>1. IsSeq(ledger)
  BY DEF IInv, LedgerInv, Sound
<1>2. CASE PostProcess
  <2> DEFINE q == Consolidate(ledger, cache, store, ReadTurn(store, arch.turn))
  <2>1. Reading
    BY <1>2, LoudSteps DEF IInv
  <2>2. IsSeq(q)
    BY <2>1, TurnIsFresh, ConsolidateFacts DEF IInv, Derives
  <2>3. Len(q) \in Nat
    BY <2>2, SeqFacts
  <2>4. PICK n \in 0..Len(q) : ledger' = ledger \o SubSeq(q, 1, n)
    <3> HIDE DEF q
    <3> QED BY <1>2, <2>3, PrefixChosen DEF q
  <2> HIDE DEF q
  <2>5. IsSeq(SubSeq(q, 1, n)) /\ Len(SubSeq(q, 1, n)) = n
    BY <2>2, PrefixFacts
  <2> DEFINE r == SubSeq(q, 1, n)
  <2>6. Len(ledger \o r) = Len(ledger) + Len(r) /\ \A k \in 1..Len(ledger) : (ledger \o r)[k] = ledger[k]
    BY <1>1, <2>5, ConcatFacts
  <2>7. Len(ledger) \in Nat /\ n \in Nat
    BY <1>1, <2>3, SeqFacts
  <2> HIDE DEF r
  <2>8. Len(r) = n /\ ledger' = ledger \o r
    BY <2>4, <2>5 DEF r
  <2> QED BY <2>6, <2>7, <2>8
<1>3. CASE Forget
  <2>1. PICK r : ledger' = Append(ledger, r)
    BY <1>3 DEF Forget
  <2>2. PICK S : ledger \in Seq(S)
    BY <1>1 DEF IsSeq
  <2>3. ledger \in Seq(S \cup {r}) /\ r \in S \cup {r} /\ Len(ledger) \in Nat
    BY <2>2, SeqMonotonic
  <2> QED BY <2>1, <2>3, AppendProperties
<1>4. CASE ~PostProcess /\ ~Forget
  BY <1>4 DEF Next, RunStep, TurnStep, ProcessLayer, BatchRejected, ComponentFails, EndCycle, StartTurn,
              QueueInput, CompileRequest, ToolIteration, LlmRaises, Answer, Finish, Restart
<1> QED BY <1>2, <1>3, <1>4

(* A forgotten subject stays out of retrieval, whatever is stated or        *)
(* echoed: only an unsuppression or a record that replaces the suppression  *)
(* itself brings it back (store.py compute_views, policy.py).               *)
THEOREM TheForgottenStayForgotten == Spec => ForgottenStaysForgotten
<1> DEFINE Undone == \A s \in (SubjectsIn(ledger) \ Retrievable(ledger)) \cap Retrievable(ledger') :
                       \E k \in (Len(ledger) + 1)..Len(ledger') :
                         /\ ledger'[k].subject = s
                         /\ \/ ledger'[k].event = "unsuppressed"
                            \/ \E old \in ledger'[k].supersedes : old[1] = "suppressed"
<1>1. IInv /\ [Next]_vars => [Undone]_vars
  <2> SUFFICES ASSUME IInv, [Next]_vars PROVE Undone
    OBVIOUS
  <2>1. Sound(ledger) /\ Sound(ledger')
    BY Step DEF IInv, LedgerInv
  <2>2. CASE ledger' = ledger
    BY <2>2
  <2>3. CASE Len(ledger) <= Len(ledger') /\ \A k \in 1..Len(ledger) : ledger'[k] = ledger[k]
    BY <2>1, <2>3, OnlyTheOperatorUndoes
  <2> QED BY <2>2, <2>3, LedgerGrows
<1>2. Spec => [][Undone]_vars
  BY <1>1, Inductive, PTL DEF Spec
<1> QED BY <1>2 DEF ForgottenStaysForgotten
=============================================================================
