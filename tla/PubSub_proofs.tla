----------------------------- MODULE PubSub_proofs -----------------------------
(***************************************************************************)
(* Proofs about PubSub, for all ids: as long as operator< has been an      *)
(* order on the subscribers present, the sets keep it and searches find.   *)
(***************************************************************************)
EXTENDS PubSub, SequenceTheorems, WellFoundedInduction, FiniteSetTheorems, TLAPS

-----------------------------------------------------------------------------
(* Folds over finite sets.                                                 *)

\* Induction on the natural numbers, from their well-ordering.
LEMMA Induction ==
  ASSUME NEW G \in SUBSET Nat, 0 \in G, \A n \in G : n + 1 \in G
  PROVE  G = Nat
<1> SUFFICES ASSUME Nat \ G # {} PROVE FALSE
  OBVIOUS
<1>1. PICK n \in Nat \ G : \A m \in Nat \ G : ~ (<<m, n>> \in OpToRel(<, Nat))
  <2>1. Nat \ G \subseteq Nat
    OBVIOUS
  <2>2. QED
    BY <2>1, NatLessThanWellFounded, WFMin, Zenon
<1>2. \A m \in Nat \ G : ~ (m < n)
  BY <1>1 DEF OpToRel
<1>3. n # 0 /\ n - 1 \in Nat /\ n - 1 < n
  OBVIOUS
<1>4. n - 1 \in G /\ (n - 1) + 1 = n
  BY <1>2, <1>3
<1>5. QED
  BY <1>4

\* c chooses an element of every set; G contains the empty set, and a set whenever it
\* contains that set without the element c chooses; f has the values that the steps F,
\* in the order c chooses, give it.
Chooses(c, S) == \A s \in SUBSET S : s # {} => c[s] \in s
Inductive(G, S, c) ==
  {} \in G /\ \A s \in SUBSET S : s # {} /\ s \ {c[s]} \in G => s \in G
IsFold(f, S, c, base, F) ==
  \A s \in SUBSET S : f[s] = IF s = {} THEN base ELSE F[<<c[s], f[s \ {c[s]}]>>]

LEMMA SetInduction ==
  ASSUME NEW S, IsFiniteSet(S), NEW c, Chooses(c, S), NEW G, Inductive(G, S, c)
  PROVE  S \in G
<1> DEFINE N == {n \in Nat : \A s \in SUBSET S : Cardinality(s) = n => s \in G}
<1>1. \A s \in SUBSET S : IsFiniteSet(s) /\ Cardinality(s) \in Nat
  BY FS_Subset, FS_CardinalityType
<1>2. 0 \in N
  BY <1>1, FS_EmptySet DEF Inductive
<1>3. ASSUME NEW n \in N
      PROVE  n + 1 \in N
  <2>1. ASSUME NEW s \in SUBSET S, Cardinality(s) = n + 1
        PROVE  s \in G
    <3>1. Cardinality(s) # 0 /\ IsFiniteSet(s)
      BY <1>1, <2>1
    <3>2. s # {}
      BY <3>1, FS_EmptySet
    <3>3. c[s] \in s /\ s \ {c[s]} \in SUBSET S
      BY <3>2 DEF Chooses
    <3>4. Cardinality(s \ {c[s]}) = Cardinality(s) - 1
      BY <3>1, <3>3, FS_RemoveElement
    <3>5. Cardinality(s \ {c[s]}) = n
      BY <2>1, <3>4
    <3>6. QED
      BY <3>2, <3>3, <3>5 DEF Inductive
  <2>2. QED
    BY <2>1
<1>4. N = Nat
  <2>1. N \in SUBSET Nat
    OBVIOUS
  <2> HIDE DEF N
  <2>2. QED
    BY <1>2, <1>3, <2>1, Induction
<1>5. QED
  BY <1>1, <1>4

\* A fold over a finite set exists: what the CHOOSE in the folds of the library is of.
LEMMA FoldExists ==
  ASSUME NEW S, IsFiniteSet(S),
         NEW c, Chooses(c, S),
         NEW V, NEW base \in V, NEW F \in [S \X V -> V]
  PROVE  \E f \in [SUBSET S -> V] : IsFold(f, S, c, base, F)
<1> DEFINE Value(f, s) == IF s = {} THEN base ELSE F[<<c[s], f[s \ {c[s]}]>>]
           Fold(f, n) == \A s \in SUBSET S : Cardinality(s) <= n => f[s] = Value(f, s)
           N == {n \in Nat : \E f \in [SUBSET S -> V] : Fold(f, n)}
<1>1. \A s \in SUBSET S : IsFiniteSet(s) /\ Cardinality(s) \in Nat
  BY FS_Subset, FS_CardinalityType
<1>2. ASSUME NEW s \in SUBSET S, s # {}
      PROVE  /\ c[s] \in S /\ s \ {c[s]} \in SUBSET S
             /\ Cardinality(s \ {c[s]}) = Cardinality(s) - 1
  <2>1. c[s] \in s
    BY <1>2 DEF Chooses
  <2>2. QED
    BY <1>1, <2>1, FS_RemoveElement
<1>3. ASSUME NEW f \in [SUBSET S -> V], NEW s \in SUBSET S
      PROVE  Value(f, s) \in V
  BY <1>2
<1>4. 0 \in N
  <2>1. PICK f : f = [s \in SUBSET S |-> base]
    OBVIOUS
  <2>2. \A s \in SUBSET S : Cardinality(s) <= 0 => s = {}
    BY <1>1, FS_EmptySet
  <2>3. f \in [SUBSET S -> V] /\ Fold(f, 0)
    BY <2>1, <2>2
  <2>4. QED
    BY <2>3
<1>5. ASSUME NEW n \in N
      PROVE  n + 1 \in N
  <2>1. PICK f \in [SUBSET S -> V] : Fold(f, n)
    OBVIOUS
  <2>2. PICK g : g = [s \in SUBSET S |-> Value(f, s)]
    OBVIOUS
  <2>3. g \in [SUBSET S -> V]
    BY <1>3, <2>2
  <2>4. \A s \in SUBSET S : Cardinality(s) <= n => g[s] = f[s]
    BY <2>1, <2>2
  <2>5. ASSUME NEW s \in SUBSET S, Cardinality(s) <= n + 1
        PROVE  g[s] = Value(g, s)
    <3>1. CASE s = {}
      BY <2>2, <3>1
    <3>2. CASE s # {}
      <4>1. Cardinality(s \ {c[s]}) <= n /\ s \ {c[s]} \in SUBSET S
        BY <1>1, <1>2, <2>5, <3>2
      <4>2. g[s \ {c[s]}] = f[s \ {c[s]}]
        BY <2>4, <4>1
      <4>3. QED
        BY <2>2, <3>2, <4>2
    <3>3. QED
      BY <3>1, <3>2
  <2>6. Fold(g, n + 1)
    BY <2>5
  <2> HIDE DEF Fold
  <2>7. QED
    BY <2>3, <2>6
<1>6. N = Nat
  <2>1. N \in SUBSET Nat
    OBVIOUS
  <2> HIDE DEF N
  <2>2. QED
    BY <1>4, <1>5, <2>1, Induction
<1>7. Cardinality(S) \in N
  BY <1>1, <1>6
<1>8. PICK f \in [SUBSET S -> V] : Fold(f, Cardinality(S))
  BY <1>7
<1>9. \A s \in SUBSET S : Cardinality(s) <= Cardinality(S)
  BY FS_Subset
<1>10. QED
  BY <1>8, <1>9 DEF IsFold

-----------------------------------------------------------------------------
(* Subscribers and their order.                                            *)

Sorted(s) == \A i, j \in 1 .. Len(s) : i < j => Less(s[i], s[j])

LEMMA SubscriberCases ==
  ASSUME NEW s \in Subscribers
  PROVE  /\ (s.type = 0 /\ s.id \in ClientIds) \/ (s.type = 1 /\ s.id \in ListenerIds)
         /\ s.id \in Nat
         /\ \A r \in Subscribers : r.type = s.type /\ r.id = s.id => r = s
<1>1. \A r \in Subscribers :
        \/ \E i \in ClientIds : r = [type |-> 0, id |-> i]
        \/ \E i \in ListenerIds : r = [type |-> 1, id |-> i]
  BY DEF Subscribers, Clients, Client, Listener
<1>2. QED
  BY <1>1, PubSubAssumption

\* Whatever the ids, nobody is less than himself, and of two, one is less.
LEMMA LessDecides ==
  ASSUME NEW r \in Subscribers, NEW s \in Subscribers
  PROVE  /\ ~Less(r, r)
         /\ r = s \/ Less(r, s) \/ Less(s, r)
  BY SubscriberCases DEF Less

LEMMA LessOrders ==
  ASSUME NEW S \in SUBSET Subscribers, Ordered(S), NEW r \in S, NEW s \in S, NEW t \in S
  PROVE  /\ ~ (Less(r, s) /\ Less(s, r))
         /\ Less(r, s) /\ Less(s, t) => Less(r, t)
<1>1. \A x \in S : x \in Clients <=> x.type = 0
  BY DEF Subscribers, Clients, Client, Listener
<1>2. \A c, l \in S : c.type = 0 /\ l.type # 0 => c.id <= l.id
  BY <1>1 DEF Ordered
<1>3. \A x \in S : x.id \in Nat /\ (x.type = 0 \/ x.type = 1)
  BY SubscriberCases
<1>4. QED
  BY <1>2, <1>3 DEF Less

LEMMA FewerAreOrdered ==
  ASSUME NEW S, NEW T \in SUBSET S, Ordered(S)
  PROVE  Ordered(T)
  BY DEF Ordered

-----------------------------------------------------------------------------
(* Sequences.                                                              *)

\* r is s with k inserted after place p; r is s without its place p; r is a, then b.
IsInserted(r, s, p, k) ==
  /\ r \in Seq(Subscribers) /\ Len(r) = Len(s) + 1
  /\ \A i \in 1 .. p : r[i] = s[i]
  /\ r[p + 1] = k
  /\ \A i \in p + 1 .. Len(s) : r[i + 1] = s[i]
  /\ ToSet(r) = ToSet(s) \cup {k}

IsRemoved(r, s, p) ==
  /\ r \in Seq(Subscribers) /\ Len(r) = Len(s) - 1
  /\ \A i \in 1 .. p - 1 : r[i] = s[i]
  /\ \A i \in p .. Len(s) - 1 : r[i] = s[i + 1]
  /\ \A i \in 1 .. Len(s) : i # p => s[i] \in ToSet(r)
  /\ \A x \in ToSet(r) : \E i \in 1 .. Len(s) : i # p /\ s[i] = x

IsConcat(r, a, b) ==
  /\ r \in Seq(Subscribers) /\ Len(r) = Len(a) + Len(b)
  /\ \A i \in 1 .. Len(a) + Len(b) : r[i] = IF i <= Len(a) THEN a[i] ELSE b[i - Len(a)]

LEMMA Concat ==
  ASSUME NEW a \in Seq(Subscribers), NEW b \in Seq(Subscribers)
  PROVE  IsConcat(a \o b, a, b)
  BY ConcatProperties DEF IsConcat

LEMMA InsertAtFacts ==
  ASSUME NEW s \in Seq(Subscribers), NEW p \in 0 .. Len(s), NEW k \in Subscribers,
         NEW r, r = InsertAt(s, p + 1, k)
  PROVE  IsInserted(r, s, p, k)
<1>1. Len(s) \in Nat /\ p \in Nat /\ p <= Len(s) /\ \A i \in 1 .. Len(s) : s[i] \in Subscribers
  BY LenProperties, ElementOfSeq
<1>2. PICK a : a = SubSeq(s, 1, p)
  OBVIOUS
<1>3. a \in Seq(Subscribers) /\ Len(a) = p /\ \A i \in 1 .. p : a[i] = s[i]
  <2>1. 1 \in Int /\ p \in Int /\ \A i \in 1 .. p : s[i] \in Subscribers
    BY <1>1
  <2>2. /\ a \in Seq(Subscribers) /\ Len(a) = IF 1 <= p THEN p - 1 + 1 ELSE 0
        /\ \A i \in 1 .. p - 1 + 1 : a[i] = s[1 + i - 1]
    BY <1>2, <2>1, SubSeqProperties
  <2>3. QED
    BY <1>1, <2>2
<1>4. PICK b : b = SubSeq(s, p + 1, Len(s))
  OBVIOUS
<1>5. b \in Seq(Subscribers) /\ Len(b) = Len(s) - p /\ \A i \in 1 .. Len(s) - p : b[i] = s[p + i]
  <2>1. p + 1 \in Int /\ Len(s) \in Int /\ \A i \in p + 1 .. Len(s) : s[i] \in Subscribers
    BY <1>1
  <2>2. /\ b \in Seq(Subscribers) /\ Len(b) = IF p + 1 <= Len(s) THEN Len(s) - (p + 1) + 1 ELSE 0
        /\ \A i \in 1 .. Len(s) - (p + 1) + 1 : b[i] = s[(p + 1) + i - 1]
    BY <1>4, <2>1, SubSeqProperties
  <2>3. QED
    BY <1>1, <2>2
<1>6. PICK e : e = <<k>>
  OBVIOUS
<1>7. e \in Seq(Subscribers) /\ Len(e) = 1 /\ e[1] = k
  BY <1>6
<1>8. PICK ae : ae = a \o e
  OBVIOUS
<1>9. /\ ae \in Seq(Subscribers) /\ Len(ae) = p + 1
      /\ (\A i \in 1 .. p : ae[i] = s[i]) /\ ae[p + 1] = k
  <2>1. /\ ae \in Seq(Subscribers) /\ Len(ae) = Len(a) + Len(e)
        /\ \A i \in 1 .. Len(a) + Len(e) :
             ae[i] = IF i <= Len(a) THEN a[i] ELSE e[i - Len(a)]
    <3>1. IsConcat(ae, a, e)
      BY <1>3, <1>7, <1>8, Concat
    <3>2. QED
      BY <3>1 DEF IsConcat
  <2>2. QED
    BY <1>1, <1>3, <1>7, <2>1
<1>10. r \in Seq(Subscribers) /\ Len(r) = Len(s) + 1 /\ \A i \in 1 .. Len(s) + 1 :
         r[i] = IF i <= p THEN s[i] ELSE IF i = p + 1 THEN k ELSE s[i - 1]
  <2>1. r = ae \o b
    <3>1. (p + 1) - 1 = p
      BY <1>1
    <3>2. QED
      BY <1>2, <1>4, <1>6, <1>8, <3>1, Zenon DEF InsertAt
  <2>2. ae \in Seq(Subscribers) /\ b \in Seq(Subscribers)
    BY <1>5, <1>9
  <2>3. /\ r \in Seq(Subscribers) /\ Len(r) = Len(ae) + Len(b)
        /\ \A i \in 1 .. Len(ae) + Len(b) :
             r[i] = IF i <= Len(ae) THEN ae[i] ELSE b[i - Len(ae)]
    <3>1. IsConcat(r, ae, b)
      BY <2>1, <2>2, Concat
    <3>2. QED
      BY <3>1 DEF IsConcat
  <2>4. Len(ae) = p + 1 /\ Len(b) = Len(s) - p
    BY <1>5, <1>9
  <2>5. Len(r) = Len(s) + 1
    BY <1>1, <2>3, <2>4
  <2>6. ASSUME NEW i \in 1 .. Len(s) + 1
        PROVE  r[i] = IF i <= p THEN s[i] ELSE IF i = p + 1 THEN k ELSE s[i - 1]
    <3>1. i \in 1 .. Len(ae) + Len(b)
      BY <1>1, <2>4
    <3>2. r[i] = IF i <= p + 1 THEN ae[i] ELSE b[i - (p + 1)]
      BY <2>3, <2>4, <3>1
    <3>3. CASE i <= p
      <4>1. i <= p + 1 /\ i \in 1 .. p
        BY <1>1, <3>3
      <4>2. ae[i] = s[i]
        BY <1>9, <4>1
      <4>3. QED
        BY <3>2, <3>3, <4>1, <4>2
    <3>4. CASE i = p + 1
      <4>1. i <= p + 1 /\ ~ (i <= p)
        BY <1>1, <3>4
      <4>2. ae[i] = k
        BY <1>9, <3>4
      <4>3. QED
        BY <3>2, <3>4, <4>1, <4>2
    <3>5. CASE i > p + 1
      <4>1. /\ ~ (i <= p + 1) /\ ~ (i <= p) /\ i # p + 1
            /\ i - (p + 1) \in 1 .. Len(s) - p /\ p + (i - (p + 1)) = i - 1
        BY <1>1, <3>5
      <4>2. b[i - (p + 1)] = s[i - 1]
        BY <1>5, <4>1
      <4>3. QED
        BY <3>2, <4>1, <4>2
    <3>6. QED
      BY <1>1, <3>3, <3>4, <3>5
  <2>7. QED
    BY <2>3, <2>5, <2>6
<1>11. /\ \A i \in 1 .. p : r[i] = s[i]
       /\ r[p + 1] = k
       /\ \A i \in p + 1 .. Len(s) : r[i + 1] = s[i]
  <2>1. \A i \in 1 .. p : i \in 1 .. Len(s) + 1 /\ i <= p
    BY <1>1
  <2>2. p + 1 \in 1 .. Len(s) + 1 /\ ~ (p + 1 <= p)
    BY <1>1
  <2>3. \A i \in p + 1 .. Len(s) :
          /\ i + 1 \in 1 .. Len(s) + 1 /\ ~ (i + 1 <= p) /\ i + 1 # p + 1
          /\ (i + 1) - 1 = i
    BY <1>1
  <2>4. QED
    BY <1>10, <2>1, <2>2, <2>3
<1>12. ToSet(r) = ToSet(s) \cup {k}
  <2>1. DOMAIN r = 1 .. Len(s) + 1 /\ DOMAIN s = 1 .. Len(s)
    BY <1>10, LenProperties
  <2>2. ASSUME NEW i \in 1 .. Len(s) + 1
        PROVE  r[i] = k \/ \E j \in 1 .. Len(s) : r[i] = s[j]
    <3>1. (i <= p /\ i \in 1 .. Len(s)) \/ i = p + 1
          \/ (~ (i <= p) /\ i # p + 1 /\ i - 1 \in 1 .. Len(s))
      BY <1>1
    <3>2. QED
      BY <1>10, <3>1
  <2>3. ASSUME NEW j \in 1 .. Len(s)
        PROVE  \E i \in 1 .. Len(s) + 1 : r[i] = s[j]
    <3>1. CASE j <= p
      BY <1>1, <1>11, <3>1
    <3>2. CASE j > p
      <4>1. j \in p + 1 .. Len(s) /\ j + 1 \in 1 .. Len(s) + 1
        BY <1>1, <3>2
      <4>2. QED
        BY <1>11, <4>1
    <3>3. QED
      BY <1>1, <3>1, <3>2
  <2>4. p + 1 \in 1 .. Len(s) + 1
    BY <1>1
  <2>5. ToSet(r) = {r[i] : i \in 1 .. Len(s) + 1} /\ ToSet(s) = {s[i] : i \in 1 .. Len(s)}
    BY <2>1 DEF ToSet
  <2>6. \A x \in ToSet(r) : x \in ToSet(s) \cup {k}
    BY <2>2, <2>5
  <2>7. \A x \in ToSet(s) \cup {k} : x \in ToSet(r)
    BY <1>11, <2>3, <2>4, <2>5
  <2>8. QED
    BY <2>6, <2>7
<1>13. QED
  BY <1>10, <1>11, <1>12 DEF IsInserted

LEMMA RemoveAtFacts ==
  ASSUME NEW s \in Seq(Subscribers), NEW p \in 1 .. Len(s), NEW r, r = RemoveAt(s, p)
  PROVE  IsRemoved(r, s, p)
<1>1. /\ Len(s) \in Nat /\ p \in Nat \ {0} /\ p <= Len(s)
      /\ \A i \in 1 .. Len(s) : s[i] \in Subscribers
  BY LenProperties, ElementOfSeq
<1>2. PICK a : a = SubSeq(s, 1, p - 1)
  OBVIOUS
<1>3. a \in Seq(Subscribers) /\ Len(a) = p - 1 /\ \A i \in 1 .. p - 1 : a[i] = s[i]
  <2>1. 1 \in Int /\ p - 1 \in Int /\ \A i \in 1 .. p - 1 : s[i] \in Subscribers
    BY <1>1
  <2>2. /\ a \in Seq(Subscribers) /\ Len(a) = IF 1 <= p - 1 THEN p - 1 - 1 + 1 ELSE 0
        /\ \A i \in 1 .. p - 1 - 1 + 1 : a[i] = s[1 + i - 1]
    BY <1>2, <2>1, SubSeqProperties
  <2>3. QED
    BY <1>1, <2>2
<1>4. PICK b : b = SubSeq(s, p + 1, Len(s))
  OBVIOUS
<1>5. b \in Seq(Subscribers) /\ Len(b) = Len(s) - p /\ \A i \in 1 .. Len(s) - p : b[i] = s[p + i]
  <2>1. p + 1 \in Int /\ Len(s) \in Int /\ \A i \in p + 1 .. Len(s) : s[i] \in Subscribers
    BY <1>1
  <2>2. /\ b \in Seq(Subscribers) /\ Len(b) = IF p + 1 <= Len(s) THEN Len(s) - (p + 1) + 1 ELSE 0
        /\ \A i \in 1 .. Len(s) - (p + 1) + 1 : b[i] = s[(p + 1) + i - 1]
    BY <1>4, <2>1, SubSeqProperties
  <2>3. QED
    BY <1>1, <2>2
<1>6. r \in Seq(Subscribers) /\ Len(r) = Len(s) - 1 /\ \A i \in 1 .. Len(s) - 1 :
        r[i] = IF i < p THEN s[i] ELSE s[i + 1]
  <2>1. r = a \o b
    BY <1>2, <1>4, Zenon DEF RemoveAt
  <2>2. a \in Seq(Subscribers) /\ b \in Seq(Subscribers)
    BY <1>3, <1>5
  <2>3. /\ r \in Seq(Subscribers) /\ Len(r) = Len(a) + Len(b)
        /\ \A i \in 1 .. Len(a) + Len(b) :
             r[i] = IF i <= Len(a) THEN a[i] ELSE b[i - Len(a)]
    <3>1. IsConcat(r, a, b)
      BY <2>1, <2>2, Concat
    <3>2. QED
      BY <3>1 DEF IsConcat
  <2>4. Len(a) = p - 1 /\ Len(b) = Len(s) - p
    BY <1>3, <1>5
  <2>5. Len(r) = Len(s) - 1
    BY <1>1, <2>3, <2>4
  <2>6. ASSUME NEW i \in 1 .. Len(s) - 1
        PROVE  r[i] = IF i < p THEN s[i] ELSE s[i + 1]
    <3>1. i \in 1 .. Len(a) + Len(b)
      BY <1>1, <2>4
    <3>2. r[i] = IF i <= p - 1 THEN a[i] ELSE b[i - (p - 1)]
      BY <2>3, <2>4, <3>1
    <3>3. CASE i < p
      <4>1. i <= p - 1 /\ i \in 1 .. p - 1
        BY <1>1, <3>3
      <4>2. a[i] = s[i]
        BY <1>3, <4>1
      <4>3. QED
        BY <3>2, <3>3, <4>1, <4>2
    <3>4. CASE ~ (i < p)
      <4>1. /\ ~ (i <= p - 1)
            /\ i - (p - 1) \in 1 .. Len(s) - p /\ p + (i - (p - 1)) = i + 1
        BY <1>1, <3>4
      <4>2. b[i - (p - 1)] = s[i + 1]
        BY <1>5, <4>1
      <4>3. QED
        BY <3>2, <3>4, <4>1, <4>2
    <3>5. QED
      BY <3>3, <3>4
  <2>7. QED
    BY <2>3, <2>5, <2>6
<1>7. /\ \A i \in 1 .. p - 1 : r[i] = s[i]
      /\ \A i \in p .. Len(s) - 1 : r[i] = s[i + 1]
  <2>1. \A i \in 1 .. p - 1 : i \in 1 .. Len(s) - 1 /\ i < p
    BY <1>1
  <2>2. \A i \in p .. Len(s) - 1 : i \in 1 .. Len(s) - 1 /\ ~ (i < p)
    BY <1>1
  <2>3. QED
    BY <1>6, <2>1, <2>2
<1>8. DOMAIN r = 1 .. Len(s) - 1
  BY <1>6, LenProperties
<1>9. ASSUME NEW i \in 1 .. Len(s), i # p
      PROVE  \E j \in 1 .. Len(s) - 1 : r[j] = s[i]
  <2>1. CASE i < p
    BY <1>1, <1>7, <2>1
  <2>2. CASE i > p
    <3>1. i - 1 \in p .. Len(s) - 1 /\ i - 1 \in 1 .. Len(s) - 1 /\ (i - 1) + 1 = i
      BY <1>1, <2>2
    <3>2. QED
      BY <1>7, <3>1
  <2>3. QED
    BY <1>1, <1>9, <2>1, <2>2
<1>10. ASSUME NEW j \in 1 .. Len(s) - 1
       PROVE  \E i \in 1 .. Len(s) : i # p /\ s[i] = r[j]
  BY <1>1, <1>6
<1>11. ToSet(r) = {r[j] : j \in 1 .. Len(s) - 1}
  BY <1>8 DEF ToSet
<1>12. \A i \in 1 .. Len(s) : i # p => s[i] \in ToSet(r)
  BY <1>9, <1>11
<1>13. \A x \in ToSet(r) : \E i \in 1 .. Len(s) : i # p /\ s[i] = x
  BY <1>10, <1>11
<1>14. QED
  BY <1>6, <1>7, <1>12, <1>13 DEF IsRemoved

-----------------------------------------------------------------------------
(* std::set<Subscriber>                                                    *)

LEMMA ElementsOf ==
  ASSUME NEW s \in Seq(Subscribers)
  PROVE  /\ ToSet(s) \subseteq Subscribers
         /\ \A i \in 1 .. Len(s) : s[i] \in ToSet(s)
  BY DEF ToSet

\* Inserting loses nobody, and finds room for the new one, whatever the ids.
LEMMA InsertedFacts ==
  ASSUME NEW s \in Seq(Subscribers), NEW k \in Subscribers, NEW r \in Inserted(s, k)
  PROVE  /\ r \in Seq(Subscribers)
         /\ ToSet(r) = ToSet(s) \cup {k}
         /\ Ordered(ToSet(s) \cup {k}) /\ Sorted(s) => Sorted(r)
<1>1. PICK p \in 0 .. Len(s) :
        /\ p > 0 => ~Less(k, s[p])
        /\ p < Len(s) => Less(k, s[p + 1])
        /\ r = IF p = 0 \/ Less(s[p], k) THEN InsertAt(s, p + 1, k) ELSE s
  BY DEF Inserted
<1>2. CASE p = 0 \/ Less(s[p], k)
  <2>1. r = InsertAt(s, p + 1, k)
    BY <1>1, <1>2
  <2>2. /\ r \in Seq(Subscribers) /\ Len(r) = Len(s) + 1
        /\ \A i \in 1 .. p : r[i] = s[i]
        /\ r[p + 1] = k
        /\ \A i \in p + 1 .. Len(s) : r[i + 1] = s[i]
        /\ ToSet(r) = ToSet(s) \cup {k}
    <3>1. IsInserted(r, s, p, k)
      BY <2>1, InsertAtFacts
    <3>2. QED
      BY <3>1 DEF IsInserted
  <2>3. ASSUME Ordered(ToSet(s) \cup {k}), Sorted(s)
        PROVE  Sorted(r)
    <3>0. PICK S \in SUBSET Subscribers :
            Ordered(S) /\ k \in S /\ \A i \in 1 .. Len(s) : s[i] \in S
      BY <2>3, ElementsOf
    <3>1. \A i \in 1 .. p : Less(s[i], k)
      <4>1. ASSUME NEW i \in 1 .. p, i # p
            PROVE  Less(s[i], s[p])
        BY <2>3, <4>1 DEF Sorted
      <4>2. QED
        BY <1>2, <3>0, <4>1, LessOrders
    <3>2. \A i \in p + 1 .. Len(s) : Less(k, s[i])
      <4>1. ASSUME NEW i \in p + 1 .. Len(s), i # p + 1
            PROVE  Less(s[p + 1], s[i])
        BY <2>3, <4>1 DEF Sorted
      <4>2. QED
        BY <1>1, <3>0, <4>1, LessOrders
    <3>3. ASSUME NEW i \in 1 .. Len(r), NEW j \in 1 .. Len(r), i < j
          PROVE  Less(r[i], r[j])
      <4>1. CASE j <= p
        BY <2>2, <2>3, <3>3, <4>1 DEF Sorted
      <4>2. CASE j = p + 1
        BY <2>2, <3>1, <3>3, <4>2
      <4>3. CASE j > p + 1
        <5>1. j - 1 \in p + 1 .. Len(s) /\ r[j] = s[j - 1]
          BY <2>2, <4>3
        <5>2. CASE i <= p
          BY <2>2, <2>3, <5>1, <5>2 DEF Sorted
        <5>3. CASE i = p + 1
          BY <2>2, <3>2, <5>1, <5>3
        <5>4. CASE i > p + 1
          <6>1. i - 1 \in p + 1 .. Len(s) /\ r[i] = s[i - 1]
            BY <2>2, <3>3, <5>4
          <6>2. QED
            BY <2>3, <3>3, <5>1, <6>1 DEF Sorted
        <5>5. QED
          BY <5>2, <5>3, <5>4
      <4>4. QED
        BY <4>1, <4>2, <4>3
    <3>4. QED
      BY <3>3 DEF Sorted
  <2>4. QED
    BY <2>2, <2>3
<1>3. CASE ~ (p = 0 \/ Less(s[p], k))
  <2>1. p \in 1 .. Len(s) /\ s[p] = k /\ r = s
    BY <1>1, <1>3, LessDecides
  <2>2. QED
    BY <2>1 DEF ToSet
<1>4. QED
  BY <1>2, <1>3

\* A set in order without its place p has everybody else, in order.
LEMMA RemovedFacts ==
  ASSUME NEW s \in Seq(Subscribers), NEW p \in 1 .. Len(s), NEW r, r = RemoveAt(s, p)
  PROVE  /\ r \in Seq(Subscribers)
         /\ Sorted(s) => Sorted(r) /\ ToSet(r) = ToSet(s) \ {s[p]}
<1>1. Len(s) \in Nat /\ p \in Nat \ {0} /\ p <= Len(s)
  BY LenProperties
<1>2. /\ r \in Seq(Subscribers) /\ Len(r) = Len(s) - 1
      /\ \A i \in 1 .. p - 1 : r[i] = s[i]
      /\ \A i \in p .. Len(s) - 1 : r[i] = s[i + 1]
      /\ \A i \in 1 .. Len(s) : i # p => s[i] \in ToSet(r)
      /\ \A x \in ToSet(r) : \E i \in 1 .. Len(s) : i # p /\ s[i] = x
  <2>1. IsRemoved(r, s, p)
    BY RemoveAtFacts
  <2>2. QED
    BY <2>1 DEF IsRemoved
<1>3. ASSUME Sorted(s), NEW i \in 1 .. Len(r), NEW j \in 1 .. Len(r), i < j
      PROVE  Less(r[i], r[j])
  <2>1. CASE j < p
    <3>1. i \in 1 .. p - 1 /\ j \in 1 .. p - 1 /\ i \in 1 .. Len(s) /\ j \in 1 .. Len(s)
      BY <1>1, <1>2, <1>3, <2>1
    <3>2. r[i] = s[i] /\ r[j] = s[j]
      BY <1>2, <3>1
    <3>3. QED
      BY <1>3, <3>1, <3>2 DEF Sorted
  <2>2. CASE j >= p /\ i < p
    <3>1. /\ i \in 1 .. p - 1 /\ j \in p .. Len(s) - 1
          /\ i \in 1 .. Len(s) /\ j + 1 \in 1 .. Len(s) /\ i < j + 1
      BY <1>1, <1>2, <1>3, <2>2
    <3>2. r[i] = s[i] /\ r[j] = s[j + 1]
      BY <1>2, <3>1
    <3>3. QED
      BY <1>3, <3>1, <3>2 DEF Sorted
  <2>3. CASE i >= p
    <3>1. /\ i \in p .. Len(s) - 1 /\ j \in p .. Len(s) - 1
          /\ i + 1 \in 1 .. Len(s) /\ j + 1 \in 1 .. Len(s) /\ i + 1 < j + 1
      BY <1>1, <1>2, <1>3, <2>3
    <3>2. r[i] = s[i + 1] /\ r[j] = s[j + 1]
      BY <1>2, <3>1
    <3>3. QED
      BY <1>3, <3>1, <3>2 DEF Sorted
  <2>4. QED
    BY <1>1, <1>2, <2>1, <2>2, <2>3
<1>4. ASSUME Sorted(s)
      PROVE  ToSet(r) = ToSet(s) \ {s[p]}
  <2>1. ASSUME NEW i \in 1 .. Len(s), i # p
        PROVE  s[i] # s[p]
    <3>1. Less(s[i], s[p]) \/ Less(s[p], s[i])
      BY <1>1, <1>4, <2>1 DEF Sorted
    <3>2. s[p] \in Subscribers
      BY ElementOfSeq
    <3>3. QED
      BY <3>1, <3>2, LessDecides
  <2>2. ToSet(s) = {s[i] : i \in 1 .. Len(s)}
    BY DEF ToSet
  <2>3. \A x \in ToSet(r) : x \in ToSet(s) \ {s[p]}
    BY <1>2, <2>1, <2>2
  <2>4. \A x \in ToSet(s) \ {s[p]} : x \in ToSet(r)
    BY <1>2, <2>2
  <2>5. QED
    BY <2>3, <2>4
<1>5. QED
  BY <1>2, <1>3, <1>4 DEF Sorted

\* In a set in order a search ends at k, with only greater elements after it, or where
\* there is no k.
LEMMA WhereFound ==
  ASSUME NEW s \in Seq(Subscribers), NEW k \in Subscribers,
         Ordered(ToSet(s) \cup {k}), Sorted(s), NEW p \in FindGaps(s, k)
  PROVE  IF Hit(s, k, p) THEN s[p + 1] = k /\ \A i \in p + 2 .. Len(s) : Less(k, s[i])
                         ELSE k \notin ToSet(s)
<1>1. PICK S \in SUBSET Subscribers :
        Ordered(S) /\ k \in S /\ \A i \in 1 .. Len(s) : s[i] \in S
  BY ElementsOf
<1>2. /\ p \in 0 .. Len(s) /\ Len(s) \in Nat
      /\ p > 0 => Less(s[p], k)
      /\ p < Len(s) => ~Less(s[p + 1], k)
  BY LenProperties DEF FindGaps
<1>3. \A i \in 1 .. p : Less(s[i], k)
  <2>1. ASSUME NEW i \in 1 .. p, i # p
        PROVE  Less(s[i], s[p])
    BY <1>2, <2>1 DEF Sorted
  <2>2. QED
    BY <1>1, <1>2, <2>1, LessOrders
<1>4. CASE Hit(s, k, p)
  <2>1. p + 1 \in 1 .. Len(s) /\ s[p + 1] = k
    BY <1>1, <1>2, <1>4, LessDecides DEF Hit
  <2>2. \A i \in p + 2 .. Len(s) : i \in 1 .. Len(s) /\ p + 1 < i
    BY <1>2
  <2>3. QED
    BY <1>4, <2>1, <2>2 DEF Sorted
<1>5. CASE ~ Hit(s, k, p)
  <2>1. ASSUME NEW i \in 1 .. Len(s)
        PROVE  s[i] # k
    <3>1. CASE i <= p
      BY <1>3, <3>1, LessDecides
    <3>2. CASE i > p
      <4>1. p < Len(s) /\ Less(k, s[p + 1])
        BY <1>2, <1>5, <3>2 DEF Hit
      <4>2. i # p + 1 => Less(s[p + 1], s[i])
        BY <1>2, <3>2 DEF Sorted
      <4>3. Less(k, s[i])
        BY <1>1, <1>2, <3>2, <4>1, <4>2, LessOrders
      <4>4. QED
        BY <4>3, LessDecides
    <3>3. QED
      BY <1>2, <3>1, <3>2
  <2>2. QED
    BY <1>5, <2>1 DEF ToSet
<1>6. QED
  BY <1>4, <1>5

\* Erasing the element found leaves the others, where the set is in order.
LEMMA ErasedFacts ==
  ASSUME NEW s \in Seq(Subscribers), NEW k \in Subscribers, NEW r \in Erased(s, k)
  PROVE  /\ r \in Seq(Subscribers)
         /\ Ordered(ToSet(s) \cup {k}) /\ Sorted(s) =>
              Sorted(r) /\ ToSet(r) = ToSet(s) \ {k}
<1>1. PICK p \in FindGaps(s, k) : r = IF Hit(s, k, p) THEN RemoveAt(s, p + 1) ELSE s
  BY DEF Erased
<1>2. CASE Hit(s, k, p)
  <2>1. p + 1 \in 1 .. Len(s)
    BY <1>2 DEF Hit, FindGaps
  <2>2. PICK q \in 1 .. Len(s) : q = p + 1
    BY <2>1
  <2>3. r = RemoveAt(s, q)
    BY <1>1, <1>2, <2>2
  <2>4. r \in Seq(Subscribers) /\ (Sorted(s) => Sorted(r) /\ ToSet(r) = ToSet(s) \ {s[q]})
    BY <2>3, RemovedFacts
  <2>5. QED
    BY <1>2, <2>2, <2>4, WhereFound
<1>3. CASE ~ Hit(s, k, p)
  BY <1>1, <1>3, WhereFound
<1>4. QED
  BY <1>2, <1>3

\* So does erasing all that is equal to it.
LEMMA DeletedFacts ==
  ASSUME NEW s \in Seq(Subscribers), NEW k \in Subscribers, NEW r \in Deleted(s, k)
  PROVE  /\ r \in Seq(Subscribers)
         /\ Ordered(ToSet(s) \cup {k}) /\ Sorted(s) =>
              Sorted(r) /\ ToSet(r) = ToSet(s) \ {k}
<1>1. PICK p \in FindGaps(s, k) :
        r \in IF Hit(s, k, p)
                THEN {SubSeq(s, 1, p) \o SubSeq(s, q + 1, Len(s)) : q \in EqualsEnd(s, k, p)}
                ELSE {s}
  BY DEF Deleted
<1>2. CASE Hit(s, k, p)
  <2>1. p \in Nat /\ p + 1 \in 1 .. Len(s) /\ Len(s) \in Nat
    BY <1>2, LenProperties DEF Hit, FindGaps
  <2>2. PICK q \in EqualsEnd(s, k, p) : r = SubSeq(s, 1, p) \o SubSeq(s, q + 1, Len(s))
    BY <1>1, <1>2
  <2>3. /\ q \in p + 1 .. Len(s)
        /\ q = p + 1 \/ ~Less(k, s[q])
    BY <2>2 DEF EqualsEnd
  <2>4. r \in Seq(Subscribers)
    <3>1. SubSeq(s, 1, p) \in Seq(Subscribers)
      BY <2>1, SubSeqProperties, ElementOfSeq
    <3>2. SubSeq(s, q + 1, Len(s)) \in Seq(Subscribers)
      BY <2>1, <2>3, SubSeqProperties, ElementOfSeq
    <3>3. QED
      BY <2>2, <3>1, <3>2, ConcatProperties
  <2>5. ASSUME Ordered(ToSet(s) \cup {k}), Sorted(s)
        PROVE  Sorted(r) /\ ToSet(r) = ToSet(s) \ {k}
    <3>1. s[p + 1] = k /\ \A i \in p + 2 .. Len(s) : Less(k, s[i])
      BY <1>2, <2>5, WhereFound
    <3>2. q = p + 1
      <4>1. q # p + 1 => q \in p + 2 .. Len(s)
        BY <2>1, <2>3
      <4>2. QED
        BY <2>3, <3>1, <4>1
    <3>3. q - 1 = p /\ q \in 1 .. Len(s)
      BY <2>1, <3>2
    <3>4. r = RemoveAt(s, q)
      BY <2>2, <3>3, Zenon DEF RemoveAt
    <3>5. QED
      BY <2>5, <3>1, <3>2, <3>3, <3>4, RemovedFacts
  <2>6. QED
    BY <2>4, <2>5
<1>3. CASE ~ Hit(s, k, p)
  BY <1>1, <1>3, WhereFound
<1>4. QED
  BY <1>2, <1>3

-----------------------------------------------------------------------------
(* set::merge, one insertion after the other.                              *)

InsertedInto(sets, k) == UNION {Inserted(r, k) : r \in sets}

MergeSteps(set, other, f) ==
  [s \in SUBSET DOMAIN other |->
     IF s = {} THEN {set} ELSE InsertedInto(f[s \ {Max(s)}], other[Max(s)])]

\* The definition of the fold, written out.
LEMMA MergedByStep ==
  ASSUME NEW set, NEW other
  PROVE  Merged(set, other) =
           (CHOOSE f : f = MergeSteps(set, other, f))[DOMAIN other]
  BY DEF Merged, FoldLeft, MapThenFoldSet, MergeSteps, InsertedInto

\* The order in which the fold takes the places is one: a set of places has a last one.
LEMMA MaxIsIn ==
  ASSUME NEW n \in Nat, NEW s \in SUBSET (1 .. n), s # {}
  PROVE  Max(s) \in s
<1> DEFINE T == {n - x : x \in s}
<1>1. T \subseteq Nat /\ T # {}
  <2>1. \A x \in s : x \in Nat /\ x <= n /\ n - x \in Nat
    OBVIOUS
  <2>2. QED
    BY <2>1
<1>2. PICK m \in T : \A k \in T : ~ (<<k, m>> \in OpToRel(<, Nat))
  <2> HIDE DEF T
  <2>1. QED
    BY <1>1, NatLessThanWellFounded, WFMin, Zenon
<1>3. \A k \in T : ~ (k < m)
  BY <1>1, <1>2 DEF OpToRel
<1>4. PICK x \in s : m = n - x
  OBVIOUS
<1>5. ASSUME NEW y \in s
      PROVE  x >= y
  <2>1. ~ (n - y < m)
    BY <1>3
  <2>2. x \in 1 .. n /\ y \in 1 .. n
    OBVIOUS
  <2>3. QED
    BY <1>4, <2>1, <2>2
<1>6. QED
  BY <1>5 DEF Max

\* A merge has everybody of both sets, whatever the ids.
LEMMA MergedFacts ==
  ASSUME NEW set \in Seq(Subscribers), NEW other \in Seq(Subscribers),
         NEW r \in Merged(set, other)
  PROVE  /\ r \in Seq(Subscribers)
         /\ ToSet(r) = ToSet(set) \cup ToSet(other)
         /\ Ordered(ToSet(set) \cup ToSet(other)) /\ Sorted(set) => Sorted(r)
<1>1. PICK D : D = DOMAIN other
  OBVIOUS
<1>2. D = 1 .. Len(other) /\ IsFiniteSet(D) /\ \A i \in D : other[i] \in Subscribers
  BY <1>1, FS_Interval
<1>3. PICK c : c = [s \in SUBSET D |-> Max(s)]
  OBVIOUS
<1>4. Chooses(c, D)
  <2>1. ASSUME NEW s \in SUBSET D, s # {}
        PROVE  Max(s) \in s
    <3>1. Len(other) \in Nat /\ s \in SUBSET (1 .. Len(other))
      BY <1>2
    <3>2. QED
      BY <2>1, <3>1, MaxIsIn
  <2>2. QED
    BY <1>3, <2>1 DEF Chooses
<1>5. PICK V : V = SUBSET Seq(Subscribers)
  OBVIOUS
<1>6. ASSUME NEW i \in D, NEW sets \in V
      PROVE  InsertedInto(sets, other[i]) \in V
  <2>1. \A q \in sets : \A t \in Inserted(q, other[i]) : t \in Seq(Subscribers)
    BY <1>2, <1>5, InsertedFacts
  <2>2. QED
    BY <1>5, <2>1 DEF InsertedInto
\* The fold exists.
<1>7. PICK F : F = [p \in D \X V |-> InsertedInto(p[2], other[p[1]])]
  OBVIOUS
<1>8. F \in [D \X V -> V]
  BY <1>6, <1>7
<1>9. {set} \in V
  BY <1>5
<1>10. PICK f \in [SUBSET D -> V] : IsFold(f, D, c, {set}, F)
  BY <1>2, <1>4, <1>8, <1>9, FoldExists
<1>11. f = MergeSteps(set, other, f)
  <2>1. ASSUME NEW s \in SUBSET D, s # {}
        PROVE  f[s] = InsertedInto(f[s \ {Max(s)}], other[Max(s)])
    <3>1. Max(s) \in D /\ c[s] = Max(s)
      BY <1>3, <1>4, <2>1 DEF Chooses
    <3>2. f[s \ {Max(s)}] \in V
      OBVIOUS
    <3>3. f[s] = F[<<Max(s), f[s \ {Max(s)}]>>]
      BY <1>10, <2>1, <3>1 DEF IsFold
    <3>4. QED
      BY <1>7, <3>1, <3>2, <3>3
  <2>2. f[{}] = {set}
    BY <1>10 DEF IsFold
  <2>3. f = [s \in SUBSET D |-> f[s]]
    OBVIOUS
  <2>4. QED
    BY <1>1, <2>1, <2>2, <2>3 DEF MergeSteps
<1>12. PICK g : g = MergeSteps(set, other, g) /\ r \in g[D]
  <2>1. PICK g : g = CHOOSE h : h = MergeSteps(set, other, h)
    OBVIOUS
  <2>2. g = MergeSteps(set, other, g)
    BY <1>11, <2>1
  <2>3. r \in g[D]
    BY <1>1, <2>1, MergedByStep
  <2>4. QED
    BY <2>2, <2>3
<1>13. /\ g[{}] = {set}
       /\ \A s \in SUBSET D : s # {} =>
            g[s] = InsertedInto(g[s \ {Max(s)}], other[Max(s)])
  BY <1>1, <1>12 DEF MergeSteps
\* What it collects.
<1> DEFINE Good(s) == \A q \in g[s] :
             /\ q \in Seq(Subscribers)
             /\ ToSet(q) = ToSet(set) \cup {other[i] : i \in s}
             /\ Ordered(ToSet(set) \cup ToSet(other)) /\ Sorted(set) => Sorted(q)
           G == {s \in SUBSET D : Good(s)}
<1>14. Good(D)
  <2>1. {} \in G
    BY <1>13
  <2>2. ASSUME NEW s \in SUBSET D, s # {}, s \ {c[s]} \in G
        PROVE  s \in G
    <3>1. PICK m \in s : m = Max(s) /\ m = c[s]
      BY <1>3, <1>4, <2>2 DEF Chooses
    <3>2. g[s] = InsertedInto(g[s \ {m}], other[m])
      BY <1>13, <2>2, <3>1
    <3>3. Good(s \ {m})
      BY <2>2, <3>1
    <3>4. {other[i] : i \in s} = {other[i] : i \in s \ {m}} \cup {other[m]}
      BY <3>1
    <3>5. ASSUME NEW t \in g[s]
          PROVE  /\ t \in Seq(Subscribers)
                 /\ ToSet(t) = ToSet(set) \cup {other[i] : i \in s}
                 /\ Ordered(ToSet(set) \cup ToSet(other)) /\ Sorted(set) => Sorted(t)
      <4>1. PICK q \in g[s \ {m}] : t \in Inserted(q, other[m])
        BY <3>2, <3>5 DEF InsertedInto
      <4>2. /\ q \in Seq(Subscribers)
            /\ ToSet(q) = ToSet(set) \cup {other[i] : i \in s \ {m}}
            /\ Ordered(ToSet(set) \cup ToSet(other)) /\ Sorted(set) => Sorted(q)
        BY <3>3, <4>1
      <4>3. other[m] \in Subscribers
        BY <1>2, <3>1
      <4>4. /\ t \in Seq(Subscribers)
            /\ ToSet(t) = ToSet(q) \cup {other[m]}
            /\ Ordered(ToSet(q) \cup {other[m]}) /\ Sorted(q) => Sorted(t)
        BY <4>1, <4>2, <4>3, InsertedFacts
      <4>5. ToSet(q) \cup {other[m]} \subseteq ToSet(set) \cup ToSet(other)
        <5>1. \A i \in s : other[i] \in ToSet(other)
          BY <1>2, ElementsOf
        <5>2. QED
          BY <3>1, <4>2, <5>1
      <4>6. QED
        BY <3>4, <4>2, <4>4, <4>5, FewerAreOrdered
    <3>6. QED
      BY <3>5
  <2> HIDE DEF G
  <2>3. Inductive(G, D, c)
    BY <2>1, <2>2 DEF Inductive
  <2>4. D \in G
    BY <1>2, <1>4, <2>3, SetInduction
  <2>5. QED
    BY <2>4 DEF G
<1>15. {other[i] : i \in D} = ToSet(other)
  BY <1>2 DEF ToSet
<1>16. QED
  BY <1>12, <1>14, <1>15

-----------------------------------------------------------------------------
(* A step of the table, topic by topic.                                    *)

Pick(s) == CHOOSE x \in s : TRUE

ReplacedIn(tables, key, outs) ==
  {[t EXCEPT ![key] = set] : t \in tables, set \in outs}

LEMMA ReplacedInCases ==
  ASSUME NEW tables, NEW key, NEW outs, NEW u \in ReplacedIn(tables, key, outs)
  PROVE  \E t \in tables, set \in outs : u = [t EXCEPT ![key] = set]
  BY DEF ReplacedIn

UpdateSteps(outcomes, f) ==
  [s \in SUBSET Keys |->
     IF s = {} THEN {topicTable}
     ELSE ReplacedIn(f[s \ {Pick(s)}], Pick(s), outcomes[Pick(s)])]

\* The definition of the fold, written out.
LEMMA UpdateByStep ==
  ASSUME NEW outcomes
  PROVE  Update(outcomes) <=>
           topicTable' \in (CHOOSE f : f = UpdateSteps(outcomes, f))[Keys]
  BY DEF Update, FoldSet, MapThenFoldSet, UpdateSteps, ReplacedIn, Pick

LEMMA KeysAreFinite == IsFiniteSet(Keys)
<1>1. PICK f : f = [s \in Clients |-> s.id]
  OBVIOUS
<1>2. f \in Injection(Clients, ClientIds)
  BY <1>1 DEF Injection, IsInjective, Clients, Client
<1>3. IsFiniteSet(Clients)
  BY <1>2, FS_Injection, PubSubAssumption
<1>4. IsFiniteSet(Publishers)
  BY <1>3, FS_AddElement DEF Publishers
<1>5. QED
  BY <1>4, FS_Product, PubSubAssumption DEF Keys

\* Each topic becomes one of its outcomes.
LEMMA UpdateFacts ==
  ASSUME NEW T, topicTable \in [Keys -> T],
         NEW outcomes \in [Keys -> SUBSET T], Update(outcomes)
  PROVE  /\ topicTable' \in [Keys -> T]
         /\ \A key \in Keys : topicTable'[key] \in outcomes[key]
<1>1. PICK c : c = [s \in SUBSET Keys |-> Pick(s)]
  OBVIOUS
<1>2. Chooses(c, Keys)
  BY <1>1 DEF Chooses, Pick
<1>3. PICK V : V = SUBSET [Keys -> T]
  OBVIOUS
<1>4. ASSUME NEW k \in Keys, NEW tables \in V
      PROVE  ReplacedIn(tables, k, outcomes[k]) \in V
  <2>1. \A t \in tables, set \in outcomes[k] : [t EXCEPT ![k] = set] \in [Keys -> T]
    BY <1>3
  <2>2. QED
    BY <1>3, <2>1 DEF ReplacedIn
\* The fold exists.
<1>5. PICK F : F = [p \in Keys \X V |-> ReplacedIn(p[2], p[1], outcomes[p[1]])]
  OBVIOUS
<1>6. F \in [Keys \X V -> V]
  BY <1>4, <1>5
<1>7. {topicTable} \in V
  BY <1>3
<1>8. PICK f \in [SUBSET Keys -> V] : IsFold(f, Keys, c, {topicTable}, F)
  BY <1>2, <1>6, <1>7, KeysAreFinite, FoldExists
<1>9. f = UpdateSteps(outcomes, f)
  <2>1. ASSUME NEW s \in SUBSET Keys, s # {}
        PROVE  f[s] = ReplacedIn(f[s \ {Pick(s)}], Pick(s), outcomes[Pick(s)])
    <3>1. Pick(s) \in Keys /\ c[s] = Pick(s)
      BY <1>1, <1>2, <2>1 DEF Chooses
    <3>2. f[s \ {Pick(s)}] \in V
      OBVIOUS
    <3>3. f[s] = F[<<Pick(s), f[s \ {Pick(s)}]>>]
      BY <1>8, <2>1, <3>1 DEF IsFold
    <3>4. QED
      BY <1>5, <3>1, <3>2, <3>3
  <2>2. f[{}] = {topicTable}
    BY <1>8 DEF IsFold
  <2>3. f = [s \in SUBSET Keys |-> f[s]]
    OBVIOUS
  <2>4. QED
    BY <2>1, <2>2, <2>3 DEF UpdateSteps
<1>10. PICK g : g = UpdateSteps(outcomes, g) /\ topicTable' \in g[Keys]
  <2>1. PICK g : g = CHOOSE h : h = UpdateSteps(outcomes, h)
    OBVIOUS
  <2>2. g = UpdateSteps(outcomes, g)
    BY <1>9, <2>1
  <2>3. topicTable' \in g[Keys]
    BY <2>1, UpdateByStep
  <2>4. QED
    BY <2>2, <2>3
<1>11. /\ g[{}] = {topicTable}
       /\ \A s \in SUBSET Keys : s # {} =>
            g[s] = ReplacedIn(g[s \ {Pick(s)}], Pick(s), outcomes[Pick(s)])
  BY <1>10 DEF UpdateSteps
\* The topics it has visited have changed.
<1> DEFINE Good(s) == \A t \in g[s] :
             t \in [Keys -> T] /\ \A key \in s : t[key] \in outcomes[key]
           G == {s \in SUBSET Keys : Good(s)}
<1>12. Good(Keys)
  <2>1. {} \in G
    BY <1>11
  <2>2. ASSUME NEW s \in SUBSET Keys, s # {}, s \ {c[s]} \in G
        PROVE  s \in G
    <3>1. PICK k \in s : k = Pick(s) /\ k = c[s] /\ k \in Keys
      BY <1>1, <1>2, <2>2 DEF Chooses
    <3>2. g[s] = ReplacedIn(g[s \ {k}], k, outcomes[k])
      BY <1>11, <2>2, <3>1
    <3>3. Good(s \ {k})
      BY <2>2, <3>1
    <3>4. ASSUME NEW u \in g[s]
          PROVE  u \in [Keys -> T] /\ \A key \in s : u[key] \in outcomes[key]
      <4>1. PICK t \in g[s \ {k}], set \in outcomes[k] : u = [t EXCEPT ![k] = set]
        <5>1. u \in ReplacedIn(g[s \ {k}], k, outcomes[k])
          BY <3>2, <3>4
        <5>2. QED
          BY <5>1, ReplacedInCases
      <4>2. t \in [Keys -> T] /\ \A key \in s \ {k} : t[key] \in outcomes[key]
        BY <3>3, <4>1
      <4>3. set \in T
        BY <3>1, <4>1
      <4>4. QED
        BY <3>1, <4>1, <4>2, <4>3
    <3>5. QED
      BY <3>4
  <2> HIDE DEF G
  <2>3. Inductive(G, Keys, c)
    BY <2>1, <2>2 DEF Inductive
  <2>4. Keys \in G
    BY <1>2, <2>3, KeysAreFinite, SetInduction
  <2>5. QED
    BY <2>4 DEF G
<1>13. QED
  BY <1>10, <1>12

-----------------------------------------------------------------------------
(* The invariants.                                                         *)

\* Who has asked for the signal of a key's publisher.
Wanting(key) == {sub \in Subscribers : <<sub, key[1], key[2]>> \in wanted}

\* The types; who left has no request any more.
TableInv ==
  /\ topicTable \in [Keys -> Seq(Subscribers)]
  /\ members \subseteq Subscribers
  /\ wanted \subseteq members \X Publishers \X Signals
  /\ ordered \in BOOLEAN

\* As long as operator< was an order on the members it is one on all in the table; a
\* topic is in that order, so it holds nobody twice and searches find whom they search
\* for, and in it are those who have asked and nobody else.
ExactInv ==
  ordered =>
    /\ Ordered(members)
    /\ \A key \in Keys : /\ Sorted(topicTable[key])
                         /\ ToSet(topicTable[key]) = Wanting(key)

LEMMA KeyParts ==
  ASSUME NEW key \in Keys
  PROVE  key[1] \in Publishers /\ key[2] \in Signals /\ key = <<key[1], key[2]>>
  BY DEF Keys

LEMMA EmptyTopic == <<>> \in Seq(Subscribers) /\ ToSet(<<>>) = {} /\ Sorted(<<>>)
  BY DEF ToSet, Sorted

LEMMA SortedIsInjective ==
  ASSUME NEW s \in Seq(Subscribers), Sorted(s)
  PROVE  IsInjective(s)
<1>1. DOMAIN s = 1 .. Len(s) /\ Len(s) \in Nat /\ \A i \in 1 .. Len(s) : s[i] \in Subscribers
  BY LenProperties, ElementOfSeq
<1>2. ASSUME NEW i \in 1 .. Len(s), NEW j \in 1 .. Len(s), s[i] = s[j]
      PROVE  i = j
  <2>1. ~ (i < j) /\ ~ (j < i)
    BY <1>1, <1>2, LessDecides DEF Sorted
  <2>2. QED
    BY <1>1, <2>1
<1>3. QED
  BY <1>1, <1>2 DEF IsInjective

LEMMA InitOK == Init => TableInv /\ ExactInv
<1> SUFFICES ASSUME Init PROVE TableInv /\ ExactInv
  OBVIOUS
<1>1. topicTable \in [Keys -> Seq(Subscribers)] /\ \A key \in Keys : topicTable[key] = <<>>
  BY EmptyTopic DEF Init
<1>2. \A key \in Keys : Wanting(key) = {}
  BY DEF Init, Wanting
<1>3. members \subseteq Subscribers /\ wanted \subseteq members \X Publishers \X Signals
  BY DEF Init
<1>4. ordered \in BOOLEAN /\ Ordered(members)
  BY DEF Init, Ordered
<1>5. QED
  BY <1>1, <1>2, <1>3, <1>4, EmptyTopic DEF TableInv, ExactInv

-----------------------------------------------------------------------------
(* The steps.                                                              *)

\* What a request leaves in a topic, whether it names it or not.
IsRequested(r, sub, named, key) ==
  /\ r \in Seq(Subscribers)
  /\ ToSet(r) = IF named THEN ToSet(topicTable[key]) \cup {sub} ELSE ToSet(topicTable[key])
  /\ Ordered(ToSet(topicTable[key]) \cup {sub}) /\ Sorted(topicTable[key]) => Sorted(r)

LEMMA RequestedFacts ==
  ASSUME TableInv, NEW sub \in Subscribers, NEW pubs, NEW sigs, NEW key \in Keys,
         NEW r \in Requested(sub, pubs, sigs, key)
  PROVE  IsRequested(r, sub, key \in pubs \X sigs, key)
<1>1. topicTable[key] \in Seq(Subscribers)
  BY DEF TableInv
<1>2. CASE key \in pubs \X sigs
  <2>1. r \in Inserted(topicTable[key], sub)
    BY <1>2 DEF Requested
  <2>2. QED
    BY <1>1, <1>2, <2>1, InsertedFacts DEF IsRequested
<1>3. CASE key \notin pubs \X sigs
  BY <1>1, <1>3 DEF Requested, IsRequested
<1>4. QED
  BY <1>2, <1>3

\* What a step finds in a topic while the members are in order.
LEMMA TopicInOrder ==
  ASSUME TableInv, ExactInv, ordered, NEW S, Ordered(S), members \subseteq S,
         NEW sub \in S, NEW key \in Keys
  PROVE  /\ Sorted(topicTable[key]) /\ ToSet(topicTable[key]) = Wanting(key)
         /\ Ordered(ToSet(topicTable[key]) \cup {sub})
<1>1. Sorted(topicTable[key]) /\ ToSet(topicTable[key]) = Wanting(key)
  BY DEF ExactInv
<1>2. Wanting(key) \subseteq members
  BY DEF TableInv, Wanting
<1>3. ToSet(topicTable[key]) \cup {sub} \in SUBSET S
  BY <1>1, <1>2
<1>4. QED
  BY <1>1, <1>3, FewerAreOrdered

LEMMA SubscribeClientStep ==
  ASSUME TableInv, NEW sub \in Subscribers, NEW pubs \in SUBSET Publishers,
         NEW sigs \in SUBSET Signals, SubscribeClient(sub, pubs, sigs)
  PROVE  TableInv' /\ (ExactInv => ExactInv')
<1>1. PICK outcomes : outcomes = [key \in Keys |-> IF key[1] = sub THEN {<<>>}
                                  ELSE Requested(sub, pubs, sigs, key)]
  OBVIOUS
<1>2. \A key \in Keys : outcomes[key] = IF key[1] = sub THEN {<<>>}
                                        ELSE Requested(sub, pubs, sigs, key)
  BY <1>1
<1>3. outcomes \in [Keys -> SUBSET Seq(Subscribers)]
  <2>1. ASSUME NEW key \in Keys, NEW r \in outcomes[key]
        PROVE  r \in Seq(Subscribers)
    <3>1. r = <<>> \/ r \in Requested(sub, pubs, sigs, key)
      BY <1>2
    <3>2. QED
      BY <3>1, EmptyTopic, RequestedFacts DEF IsRequested
  <2>2. QED
    BY <1>1, <2>1
<1>4. /\ topicTable' \in [Keys -> Seq(Subscribers)]
      /\ \A key \in Keys : topicTable'[key] \in outcomes[key]
  <2>1. Update(outcomes)
    BY <1>1 DEF SubscribeClient
  <2>2. topicTable \in [Keys -> Seq(Subscribers)]
    BY DEF TableInv
  <2>3. QED
    BY <1>3, <2>1, <2>2, UpdateFacts
<1>5. \A key \in Keys : Wanting(key)' =
        IF key[1] = sub THEN {}
        ELSE IF key \in pubs \X sigs THEN Wanting(key) \cup {sub} ELSE Wanting(key)
  <2>1. ASSUME NEW key \in Keys, NEW x \in Subscribers
        PROVE  <<x, key[1], key[2]>> \in wanted' <=>
                 /\ key[1] # sub
                 /\ \/ <<x, key[1], key[2]>> \in wanted
                    \/ x = sub /\ key \in pubs \X sigs
    BY KeyParts DEF SubscribeClient
  <2>2. QED
    BY <2>1 DEF Wanting
<1>6. /\ members' \subseteq Subscribers /\ wanted' \subseteq members' \X Publishers \X Signals
      /\ ordered' \in BOOLEAN /\ members \subseteq members' /\ sub \in members'
      /\ ordered' <=> ordered /\ Ordered(members')
  BY DEF SubscribeClient, Join, TableInv, Ordered
<1>7. ASSUME NEW key \in Keys
      PROVE  ExactInv /\ ordered' =>
               Sorted(topicTable'[key]) /\ ToSet(topicTable'[key]) = Wanting(key)'
  <2>1. CASE key[1] = sub
    BY <1>2, <1>4, <1>5, <2>1, EmptyTopic
  <2>2. CASE key[1] # sub
    <3>1. topicTable'[key] \in Requested(sub, pubs, sigs, key)
      BY <1>2, <1>4, <2>2
    <3>2. PICK r \in Requested(sub, pubs, sigs, key) : r = topicTable'[key]
      BY <3>1
    <3>3. IsRequested(r, sub, key \in pubs \X sigs, key)
      BY RequestedFacts, Zenon
    <3>4. ExactInv /\ ordered' =>
            /\ Sorted(topicTable[key]) /\ ToSet(topicTable[key]) = Wanting(key)
            /\ Ordered(ToSet(topicTable[key]) \cup {sub})
      BY <1>6, TopicInOrder
    <3>5. QED
      BY <1>5, <2>2, <3>2, <3>3, <3>4 DEF IsRequested
  <2>3. QED
    BY <2>1, <2>2
<1>8. QED
  BY <1>4, <1>6, <1>7 DEF TableInv, ExactInv

LEMMA SubscribeListenerStep ==
  ASSUME TableInv, NEW sub \in Subscribers, NEW pubs \in SUBSET Publishers,
         NEW sigs \in SUBSET Signals, SubscribeListener(sub, pubs, sigs)
  PROVE  TableInv' /\ (ExactInv => ExactInv')
<1>1. PICK outcomes : outcomes = [key \in Keys |-> Requested(sub, pubs, sigs, key)]
  OBVIOUS
<1>2. \A key \in Keys : outcomes[key] = Requested(sub, pubs, sigs, key)
  BY <1>1
<1>3. outcomes \in [Keys -> SUBSET Seq(Subscribers)]
  <2>1. ASSUME NEW key \in Keys, NEW r \in outcomes[key]
        PROVE  r \in Seq(Subscribers)
    <3>1. r \in Requested(sub, pubs, sigs, key)
      BY <1>2
    <3>2. QED
      BY <3>1, RequestedFacts DEF IsRequested
  <2>2. QED
    BY <1>1, <2>1
<1>4. /\ topicTable' \in [Keys -> Seq(Subscribers)]
      /\ \A key \in Keys : topicTable'[key] \in outcomes[key]
  <2>1. Update(outcomes)
    BY <1>1 DEF SubscribeListener
  <2>2. topicTable \in [Keys -> Seq(Subscribers)]
    BY DEF TableInv
  <2>3. QED
    BY <1>3, <2>1, <2>2, UpdateFacts
<1>5. \A key \in Keys : Wanting(key)' =
        IF key \in pubs \X sigs THEN Wanting(key) \cup {sub} ELSE Wanting(key)
  <2>1. ASSUME NEW key \in Keys, NEW x \in Subscribers
        PROVE  <<x, key[1], key[2]>> \in wanted' <=>
                 \/ <<x, key[1], key[2]>> \in wanted
                 \/ x = sub /\ key \in pubs \X sigs
    BY KeyParts DEF SubscribeListener
  <2>2. QED
    BY <2>1 DEF Wanting
<1>6. /\ members' \subseteq Subscribers /\ wanted' \subseteq members' \X Publishers \X Signals
      /\ ordered' \in BOOLEAN /\ members \subseteq members' /\ sub \in members'
      /\ ordered' <=> ordered /\ Ordered(members')
  BY DEF SubscribeListener, Join, TableInv, Ordered
<1>7. ASSUME NEW key \in Keys
      PROVE  ExactInv /\ ordered' =>
               Sorted(topicTable'[key]) /\ ToSet(topicTable'[key]) = Wanting(key)'
  <2>1. PICK r \in Requested(sub, pubs, sigs, key) : r = topicTable'[key]
    BY <1>2, <1>4
  <2>2. IsRequested(r, sub, key \in pubs \X sigs, key)
    BY RequestedFacts, Zenon
  <2>3. ExactInv /\ ordered' =>
          /\ Sorted(topicTable[key]) /\ ToSet(topicTable[key]) = Wanting(key)
          /\ Ordered(ToSet(topicTable[key]) \cup {sub})
    BY <1>6, TopicInOrder
  <2>4. QED
    BY <1>5, <2>1, <2>2, <2>3 DEF IsRequested
<1>8. QED
  BY <1>4, <1>6, <1>7 DEF TableInv, ExactInv

LEMMA UnsubscribeStep ==
  ASSUME TableInv, NEW sub \in Subscribers, Unsubscribe(sub)
  PROVE  TableInv' /\ (ExactInv => ExactInv')
<1>1. PICK outcomes : outcomes = [key \in Keys |-> IF key[1] = sub THEN {<<>>}
                                  ELSE Deleted(topicTable[key], sub)]
  OBVIOUS
<1>2. \A key \in Keys : outcomes[key] = IF key[1] = sub THEN {<<>>}
                                        ELSE Deleted(topicTable[key], sub)
  BY <1>1
<1>3. \A key \in Keys : topicTable[key] \in Seq(Subscribers)
  BY DEF TableInv
<1>4. outcomes \in [Keys -> SUBSET Seq(Subscribers)]
  <2>1. ASSUME NEW key \in Keys, NEW r \in outcomes[key]
        PROVE  r \in Seq(Subscribers)
    <3>1. r = <<>> \/ r \in Deleted(topicTable[key], sub)
      BY <1>2
    <3>2. QED
      BY <1>3, <3>1, EmptyTopic, DeletedFacts
  <2>2. QED
    BY <1>1, <2>1
<1>5. /\ topicTable' \in [Keys -> Seq(Subscribers)]
      /\ \A key \in Keys : topicTable'[key] \in outcomes[key]
  <2>1. Update(outcomes)
    BY <1>1 DEF Unsubscribe
  <2>2. topicTable \in [Keys -> Seq(Subscribers)]
    BY DEF TableInv
  <2>3. QED
    BY <1>4, <2>1, <2>2, UpdateFacts
<1>6. \A key \in Keys : Wanting(key)' = IF key[1] = sub THEN {} ELSE Wanting(key) \ {sub}
  <2>1. ASSUME NEW key \in Keys, NEW x \in Subscribers
        PROVE  <<x, key[1], key[2]>> \in wanted' <=>
                 <<x, key[1], key[2]>> \in wanted /\ x # sub /\ key[1] # sub
    BY DEF Unsubscribe
  <2>2. QED
    BY <2>1 DEF Wanting
<1>7. /\ members' \subseteq Subscribers /\ wanted' \subseteq members' \X Publishers \X Signals
      /\ ordered' \in BOOLEAN /\ ordered' = ordered
      /\ members' \in SUBSET members /\ sub \in members
  BY DEF Unsubscribe, TableInv
<1>8. ASSUME NEW key \in Keys
      PROVE  ExactInv /\ ordered' =>
               Sorted(topicTable'[key]) /\ ToSet(topicTable'[key]) = Wanting(key)'
  <2>1. CASE key[1] = sub
    BY <1>2, <1>5, <1>6, <2>1, EmptyTopic
  <2>2. CASE key[1] # sub
    <3>1. topicTable'[key] \in Deleted(topicTable[key], sub)
      BY <1>2, <1>5, <2>2
    <3>2. PICK r \in Deleted(topicTable[key], sub) : r = topicTable'[key]
      BY <3>1
    <3>3. Ordered(ToSet(topicTable[key]) \cup {sub}) /\ Sorted(topicTable[key]) =>
            Sorted(r) /\ ToSet(r) = ToSet(topicTable[key]) \ {sub}
      BY <1>3, DeletedFacts
    <3>4. ExactInv /\ ordered => Ordered(members)
      BY DEF ExactInv
    <3>5. ExactInv /\ ordered' =>
            /\ Sorted(topicTable[key]) /\ ToSet(topicTable[key]) = Wanting(key)
            /\ Ordered(ToSet(topicTable[key]) \cup {sub})
      BY <1>7, <3>4, TopicInOrder
    <3>6. Wanting(key)' = Wanting(key) \ {sub}
      BY <1>6, <2>2
    <3>7. QED
      BY <3>2, <3>3, <3>5, <3>6
  <2>3. QED
    BY <2>1, <2>2
<1>9. ExactInv /\ ordered' => Ordered(members')
  <2>1. ExactInv /\ ordered => Ordered(members)
    BY DEF ExactInv
  <2>2. QED
    BY <1>7, <2>1, FewerAreOrdered
<1>10. QED
  BY <1>5, <1>7, <1>8, <1>9 DEF TableInv, ExactInv

\* The steps together.
LEMMA NextStep ==
  ASSUME TableInv, [Next]_vars
  PROVE  TableInv' /\ (ExactInv => ExactInv')
<1>1. CASE \E sub \in Subscribers, r \in Requests :
             SubscribeClient(sub, r[1], r[2]) \/ SubscribeListener(sub, r[1], r[2])
  <2>1. PICK sub \in Subscribers, r \in Requests :
          SubscribeClient(sub, r[1], r[2]) \/ SubscribeListener(sub, r[1], r[2])
    BY <1>1
  <2>2. PICK pubs \in SUBSET Publishers, sigs \in SUBSET Signals : pubs = r[1] /\ sigs = r[2]
    BY DEF Requests
  <2>3. SubscribeClient(sub, pubs, sigs) \/ SubscribeListener(sub, pubs, sigs)
    BY <2>1, <2>2
  <2>4. QED
    BY <2>3, SubscribeClientStep, SubscribeListenerStep
<1>2. CASE \E sub \in Subscribers : Unsubscribe(sub)
  BY <1>2, UnsubscribeStep
<1>3. CASE UNCHANGED vars
  BY <1>3 DEF vars, TableInv, ExactInv, Wanting
<1>4. QED
  BY <1>1, <1>2, <1>3 DEF Next

LEMMA TableAlways == Spec => [](TableInv /\ ExactInv)
<1>1. (TableInv /\ ExactInv) /\ [Next]_vars => (TableInv /\ ExactInv)'
  BY NextStep
<1>2. QED
  BY <1>1, InitOK, PTL DEF Spec

-----------------------------------------------------------------------------
(* What they say.                                                          *)

\* Who is to have a publisher's signal.
Due(pub, sig) ==
  {sub \in members \ {pub} : \/ <<sub, UniversalPublisher, sig>> \in wanted
                             \/ <<sub, pub, sig>> \in wanted}

LEMMA DueIsWanting ==
  ASSUME TableInv, NEW pub \in Clients, NEW sig \in Signals
  PROVE  Due(pub, sig) = (Wanting(<<UniversalPublisher, sig>>) \cup Wanting(<<pub, sig>>)) \ {pub}
  BY DEF TableInv, Due, Wanting

\* What GetRecipients returns while the members are in order.
LEMMA RecipientsFacts ==
  ASSUME TableInv, ExactInv, ordered, NEW pub \in Clients \cap members, NEW sig \in Signals,
         NEW set \in GetRecipients(pub, sig)
  PROVE  set \in Seq(Subscribers) /\ Sorted(set) /\ ToSet(set) = Due(pub, sig)
<1>1. <<UniversalPublisher, sig>> \in Keys /\ <<pub, sig>> \in Keys /\ pub \in Subscribers
  BY DEF Keys, Publishers, Subscribers
<1>2. PICK u \in Seq(Subscribers), p \in Seq(Subscribers) :
        u = topicTable[<<UniversalPublisher, sig>>] /\ p = topicTable[<<pub, sig>>]
  BY <1>1 DEF TableInv
<1>3. PICK m \in Merged(u, p) : set \in Erased(m, pub)
  BY <1>2 DEF GetRecipients
<1>4. /\ ToSet(u) = Wanting(<<UniversalPublisher, sig>>) /\ ToSet(p) = Wanting(<<pub, sig>>)
      /\ Sorted(u) /\ Ordered(members)
  BY <1>1, <1>2 DEF ExactInv
<1>5. (ToSet(u) \cup ToSet(p)) \cup {pub} \in SUBSET members
  BY <1>4 DEF TableInv, Wanting
<1>6. Ordered(ToSet(u) \cup ToSet(p)) /\ Ordered((ToSet(u) \cup ToSet(p)) \cup {pub})
  BY <1>4, <1>5, FewerAreOrdered
<1>7. m \in Seq(Subscribers) /\ ToSet(m) = ToSet(u) \cup ToSet(p) /\ Sorted(m)
  BY <1>3, <1>4, <1>6, MergedFacts
<1>8. set \in Seq(Subscribers) /\ Sorted(set) /\ ToSet(set) = ToSet(m) \ {pub}
  BY <1>1, <1>3, <1>6, <1>7, ErasedFacts
<1>9. QED
  BY <1>4, <1>7, <1>8, DueIsWanting

\* The types; as long as no client was present with an id above a listener's, a topic
\* holds nobody twice.
THEOREM TypeCorrect == Spec => []TypeOK
<1>1. TableInv /\ ExactInv => TypeOK
  <2> SUFFICES ASSUME TableInv, ExactInv
               PROVE  TypeOK
    OBVIOUS
  <2>1. ordered => \A key \in Keys : IsInjective(topicTable[key])
    BY SortedIsInjective DEF TableInv, ExactInv
  <2>2. wanted \subseteq Subscribers \X Publishers \X Signals
    BY DEF TableInv
  <2>3. QED
    BY <2>1, <2>2 DEF TypeOK, TableInv
<1>2. QED
  BY <1>1, TableAlways, PTL

\* As long as no client was present with an id above a listener's, GetRecipients returns
\* whoever asked for the publisher's signal and has not left, once, and nobody else, the
\* publisher neither.
THEOREM RecipientsAreWhoAsked == Spec => []RecipientsExact
<1>1. TableInv /\ ExactInv => RecipientsExact
  <2> SUFFICES ASSUME TableInv, ExactInv, ordered, NEW pub \in Clients \cap members,
                      NEW sig \in Signals, NEW set \in GetRecipients(pub, sig)
               PROVE  IsInjective(set) /\ ToSet(set) = Due(pub, sig)
    BY DEF RecipientsExact, Due
  <2>1. QED
    BY RecipientsFacts, SortedIsInjective
<1>2. QED
  BY <1>1, TableAlways, PTL

\* As long as no client was present with an id above a listener's, who has left is in
\* no topic.
THEOREM LeaversAreGone == Spec => []GoneFromAllTopics
<1>1. TableInv /\ ExactInv => GoneFromAllTopics
  <2> SUFFICES ASSUME TableInv, ExactInv, ordered, NEW key \in Keys
               PROVE  ToSet(topicTable[key]) \subseteq members
    BY DEF GoneFromAllTopics
  <2>1. ToSet(topicTable[key]) = Wanting(key)
    BY DEF ExactInv
  <2>2. Wanting(key) \subseteq members
    BY DEF TableInv, Wanting
  <2>3. QED
    BY <2>1, <2>2
<1>2. QED
  BY <1>1, TableAlways, PTL

=============================================================================
