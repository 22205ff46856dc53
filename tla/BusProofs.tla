------------------------------- MODULE BusProofs -------------------------------
(***************************************************************************)
(* Proofs about Bus for any number of peers, clients and messages, queues  *)
(* of any size, and any use of stop() and kill().                          *)
(***************************************************************************)
EXTENDS Bus, Integers, SequenceTheorems, FiniteSetTheorems, TLAPS

(* What can be in a queue. *)
Items == Messages \union {StopSignal}

(* The entries of a sequence with one more at its end. *)
LEMMA AppendEntries ==
    ASSUME NEW S, NEW s \in Seq(S), NEW e \in S
    PROVE  /\ Append(s, e) \in Seq(S) /\ Len(Append(s, e)) = Len(s) + 1 /\ Len(s) \in Nat
           /\ DOMAIN s = 1 .. Len(s) /\ DOMAIN Append(s, e) = 1 .. Len(s) + 1
           /\ \A k \in 1 .. Len(s) : Append(s, e)[k] = s[k]
           /\ Append(s, e)[Len(s) + 1] = e
BY AppendProperties

(* The entries of a sequence whose first one is gone. *)
LEMMA TailEntries ==
    ASSUME NEW S, NEW s \in Seq(S), s # <<>>
    PROVE  /\ Tail(s) \in Seq(S) /\ Len(Tail(s)) = Len(s) - 1 /\ Len(s) \in Nat \ {0}
           /\ DOMAIN s = 1 .. Len(s) /\ DOMAIN Tail(s) = 1 .. Len(s) - 1
           /\ \A k \in 1 .. Len(s) - 1 : Tail(s)[k] = s[k + 1]
           /\ Head(s) = s[1] /\ Head(s) \in S
OBVIOUS

(* A sequence with one entry less: those behind it move up.                *)
LEMMA RemoveAtEntries ==
    ASSUME NEW S, NEW s \in Seq(S), NEW i \in 1..Len(s)
    PROVE  /\ RemoveAt(s, i) \in Seq(S)
           /\ Len(RemoveAt(s, i)) = Len(s) - 1
           /\ \A j \in 1..Len(s) - 1 :
                 RemoveAt(s, i)[j] = IF j < i THEN s[j] ELSE s[j + 1]
<1>. DEFINE front == SubSeq(s, 1, i - 1)
            rest == SubSeq(s, i + 1, Len(s))
<1>1. front \in Seq(S) /\ Len(front) = i - 1 /\ \A j \in 1..i - 1 : front[j] = s[j]
  OBVIOUS
<1>2. rest \in Seq(S) /\ Len(rest) = Len(s) - i
      /\ \A j \in 1..Len(s) - i : rest[j] = s[j + i]
  OBVIOUS
<1>3. RemoveAt(s, i) = front \o rest
  BY DEF RemoveAt
<1>. HIDE DEF front, rest
<1>4. /\ front \o rest \in Seq(S) /\ Len(front \o rest) = Len(front) + Len(rest)
      /\ \A j \in 1..Len(front) + Len(rest) :
            (front \o rest)[j] = IF j <= Len(front) THEN front[j] ELSE rest[j - Len(front)]
  <2>1. front \in Seq(S) /\ rest \in Seq(S)
    BY <1>1, <1>2
  <2>. QED  BY <2>1, ConcatProperties, Zenon
<1>6. Len(s) \in Nat /\ Len(front) + Len(rest) = Len(s) - 1
  BY <1>1, <1>2
<1>5. \A j \in 1..Len(s) - 1 :
         (front \o rest)[j] = IF j < i THEN s[j] ELSE s[j + 1]
  <2>. TAKE j \in 1..Len(s) - 1
  <2>1. CASE j < i
    BY <2>1, <1>1, <1>4, <1>6
  <2>2. CASE ~(j < i)
    <3>1. j - (i - 1) \in 1..Len(s) - i /\ ~(j <= i - 1)
      BY <2>2, <1>6
    <3>2. (front \o rest)[j] = rest[j - (i - 1)]
      BY <3>1, <1>1, <1>4, <1>6
    <3>. QED  BY <2>2, <3>1, <3>2, <1>2, <1>6
  <2>. QED  BY <2>1, <2>2
<1>. QED  BY <1>3, <1>4, <1>5, <1>6
-----------------------------------------------------------------------------
(* The messages in a queue: places and ranks                               *)

(* Each rank has its place.  Every queue is so, and those of the bus are   *)
(* shown to be with each step that changes them.                           *)
Complete(q) == \A n \in 1 .. Cardinality(Places(q)) : \E k \in Places(q) : UpTo(q, k) = n

(* The places of the messages are finitely many, so they can be counted. *)
LEMMA PlacesFinite ==
    ASSUME NEW q \in Seq(Items)
    PROVE  /\ IsFiniteSet(Places(q)) /\ Cardinality(Places(q)) \in Nat
           /\ Places(q) \subseteq 1 .. Len(q) /\ Len(q) \in Nat
           /\ \A k \in Places(q) : q[k] \in Messages
           /\ \A k : IsFiniteSet({j \in Places(q) : j <= k}) /\ UpTo(q, k) \in Nat
<1>1. Places(q) \subseteq 1 .. Len(q) /\ Len(q) \in Nat
  BY DEF Places
<1>2. IsFiniteSet(1 .. Len(q))
  BY <1>1, FS_Interval
<1>3. IsFiniteSet(Places(q))
  BY <1>1, <1>2, FS_Subset
<1>4. ASSUME NEW k PROVE IsFiniteSet({j \in Places(q) : j <= k}) /\ UpTo(q, k) \in Nat
  <2>1. IsFiniteSet({j \in Places(q) : j <= k})
    BY <1>3, FS_Subset
  <2>. QED  BY <2>1, FS_CardinalityType DEF UpTo
<1>5. \A k \in Places(q) : q[k] \in Messages
  BY DEF Places, Items
<1>. QED  BY <1>1, <1>3, <1>4, <1>5, FS_CardinalityType

(* A later place has a higher rank, and ranks go from 1 to the number of   *)
(* messages.                                                               *)
LEMMA RanksRise ==
    ASSUME NEW q \in Seq(Items), NEW k \in Places(q)
    PROVE  /\ UpTo(q, k) \in 1 .. Cardinality(Places(q))
           /\ \A l \in Places(q) : k < l => UpTo(q, k) < UpTo(q, l)
           /\ \A l \in Places(q) : UpTo(q, k) = UpTo(q, l) => k = l
<1>. DEFINE Low(m) == {j \in Places(q) : j <= m}
<1>1. \A m : IsFiniteSet(Low(m)) /\ UpTo(q, m) = Cardinality(Low(m)) /\ UpTo(q, m) \in Nat
  BY PlacesFinite DEF UpTo
<1>2. \A m \in Places(q) : m \in Int
  BY PlacesFinite
<1>3. \A m, j : j \in Low(m) <=> j \in Places(q) /\ j <= m
  OBVIOUS
<1>. HIDE DEF Low
<1>4. ASSUME NEW m \in Places(q), NEW l \in Places(q), m < l PROVE UpTo(q, m) < UpTo(q, l)
  <2>1. l \notin Low(m) /\ Low(m) \union {l} \subseteq Low(l)
    BY <1>2, <1>4, <1>3
  <2>2. Cardinality(Low(m) \union {l}) = Cardinality(Low(m)) + 1
    BY <1>1, <2>1, FS_AddElement
  <2>3. Cardinality(Low(m) \union {l}) <= Cardinality(Low(l))
    BY <1>1, <2>1, FS_Subset
  <2>4. /\ UpTo(q, m) = Cardinality(Low(m)) /\ UpTo(q, m) \in Nat
        /\ UpTo(q, l) = Cardinality(Low(l)) /\ UpTo(q, l) \in Nat
    BY <1>1
  <2>. QED  BY <2>2, <2>3, <2>4
<1>5. UpTo(q, k) <= Cardinality(Places(q))
  <2>1. Low(k) \subseteq Places(q)
    BY <1>3
  <2>2. Cardinality(Low(k)) <= Cardinality(Places(q))
    BY <2>1, PlacesFinite, FS_Subset
  <2>. QED  BY <1>1, <2>2
<1>6. UpTo(q, k) # 0
  <2>1. k \in Low(k)
    BY <1>2, <1>3
  <2>. QED  BY <1>1, <2>1, FS_EmptySet
<1>7. ASSUME NEW l \in Places(q), UpTo(q, k) = UpTo(q, l) PROVE k = l
  <2>1. ~(k < l) /\ ~(l < k)
    <3>1. UpTo(q, k) \in Nat /\ UpTo(q, l) \in Nat
      BY <1>1
    <3>. QED  BY <1>4, <1>7, <3>1
  <2>. QED  BY <1>2, <2>1
<1>8. UpTo(q, k) \in Nat /\ Cardinality(Places(q)) \in Nat
  BY PlacesFinite
<1>. QED  BY <1>4, <1>5, <1>6, <1>7, <1>8

(* The n-th message is at the place of rank n, ... *)
LEMMA WaitingIs ==
    ASSUME NEW q \in Seq(Items), Complete(q)
    PROVE  /\ Waiting(q) \in Seq(Messages)
           /\ Len(Waiting(q)) = Cardinality(Places(q))
           /\ \A k \in Places(q) : Waiting(q)[UpTo(q, k)] = q[k]
<1>1. ASSUME NEW k \in Places(q), NEW n \in 1 .. Cardinality(Places(q)), UpTo(q, k) = n
      PROVE  Place(q, n) = k
  BY <1>1, RanksRise DEF Place
<1>2. \A n \in 1 .. Cardinality(Places(q)) : q[Place(q, n)] \in Messages
  BY <1>1, PlacesFinite DEF Complete
<1>3. Waiting(q) \in [1 .. Cardinality(Places(q)) -> Messages]
  BY <1>2 DEF Waiting
<1>4. Waiting(q) \in Seq(Messages) /\ Len(Waiting(q)) = Cardinality(Places(q))
  BY <1>3, PlacesFinite
<1>5. \A k \in Places(q) : Waiting(q)[UpTo(q, k)] = q[k]
  BY <1>1, RanksRise DEF Waiting
<1>. QED  BY <1>4, <1>5

(* ... and this says which sequence it is. *)
LEMMA WaitingOnly ==
    ASSUME NEW q \in Seq(Items), Complete(q), NEW w \in Seq(Messages),
           Len(w) = Cardinality(Places(q)),
           \A k \in Places(q) : w[UpTo(q, k)] = q[k]
    PROVE  w = Waiting(q)
<1>1. ASSUME NEW n \in 1 .. Len(w) PROVE w[n] = Waiting(q)[n]
  <2>1. PICK k \in Places(q) : UpTo(q, k) = n
    BY DEF Complete
  <2>. QED  BY <2>1, WaitingIs
<1>. QED  BY <1>1, WaitingIs, SeqEqual

(* The empty queue. *)
LEMMA WaitingEmpty == Complete(<<>>) /\ Waiting(<<>>) = <<>>
<1>1. Places(<<>>) = {}
  BY DEF Places
<1>2. Cardinality(Places(<<>>)) = 0
  BY <1>1, FS_EmptySet
<1>. QED  BY <1>2 DEF Complete, Waiting

(* A message that is put into the queue comes last, a sentinel is not      *)
(* among the messages.                                                     *)
LEMMA WaitingAppend ==
    ASSUME NEW q \in Seq(Items), Complete(q), NEW e \in Items
    PROVE  /\ Complete(Append(q, e))
           /\ Waiting(Append(q, e)) = IF e = StopSignal THEN Waiting(q)
                                      ELSE Append(Waiting(q), e)
<1>. DEFINE r == Append(q, e)
            l == Len(q) + 1
            c == Cardinality(Places(q))
<1>1. /\ r \in Seq(Items) /\ Len(q) \in Nat /\ DOMAIN q = 1 .. Len(q) /\ DOMAIN r = 1 .. l
      /\ r[l] = e /\ \A k \in 1 .. Len(q) : r[k] = q[k]
  BY AppendEntries
<1>2. Places(r) = IF e = StopSignal THEN Places(q) ELSE Places(q) \union {l}
  BY <1>1 DEF Places
<1>. HIDE DEF r
<1>3. c \in Nat /\ \A k \in Places(q) : k \in 1 .. Len(q)
  BY PlacesFinite
<1>4. \A k \in Places(q) : UpTo(r, k) = UpTo(q, k) /\ r[k] = q[k]
  <2>1. ASSUME NEW k \in Places(q)
        PROVE  {j \in Places(r) : j <= k} = {j \in Places(q) : j <= k}
    BY <1>2, <1>3
  <2>. QED  BY <1>1, <1>3, <2>1 DEF UpTo
<1>5. CASE e = StopSignal
  <2>1. Complete(r)
    BY <1>2, <1>4, <1>5 DEF Complete
  <2>2. Waiting(q) = Waiting(r)
    BY <1>1, <1>2, <1>4, <1>5, <2>1, WaitingIs, WaitingOnly
  <2>. QED  BY <1>5, <2>1, <2>2 DEF r
<1>6. CASE e # StopSignal
  <2>1. l \notin Places(q) /\ Cardinality(Places(r)) = c + 1
    <3>1. l \notin Places(q)
      BY <1>1, <1>3
    <3>2. Cardinality(Places(q) \union {l}) = c + 1
      BY <3>1, PlacesFinite, FS_AddElement
    <3>. QED  BY <1>2, <1>6, <3>1, <3>2
  <2>2. UpTo(r, l) = c + 1
    <3>1. {j \in Places(r) : j <= l} = Places(r)
      BY <1>1, <1>2, <1>3
    <3>. QED  BY <2>1, <3>1 DEF UpTo
  <2>3. Complete(r)
    <3>1. ASSUME NEW n \in 1 .. c + 1 PROVE \E k \in Places(r) : UpTo(r, k) = n
      <4>1. CASE n = c + 1
        BY <1>2, <1>6, <2>2, <4>1
      <4>2. CASE n # c + 1
        <5>1. n \in 1 .. c
          BY <1>3, <4>2
        <5>2. PICK k \in Places(q) : UpTo(q, k) = n
          BY <5>1 DEF Complete
        <5>. QED  BY <1>2, <1>4, <5>2
      <4>. QED  BY <4>1, <4>2
    <3>. QED  BY <2>1, <3>1 DEF Complete
  <2>4. e \in Messages
    BY <1>6 DEF Items
  <2>5. /\ Append(Waiting(q), e) \in Seq(Messages) /\ Len(Append(Waiting(q), e)) = c + 1
        /\ \A n \in 1 .. c : Append(Waiting(q), e)[n] = Waiting(q)[n]
        /\ Append(Waiting(q), e)[c + 1] = e
    BY <2>4, WaitingIs, AppendEntries
  <2>6. \A k \in Places(r) : Append(Waiting(q), e)[UpTo(r, k)] = r[k]
    BY <1>1, <1>2, <1>4, <1>6, <2>2, <2>5, WaitingIs, RanksRise
  <2>7. Append(Waiting(q), e) = Waiting(r)
    BY <1>1, <2>1, <2>3, <2>5, <2>6, WaitingOnly
  <2>. QED  BY <1>6, <2>3, <2>7 DEF r
<1>. QED  BY <1>5, <1>6

(* The first message is the first item that is none, and taking a sentinel *)
(* takes no message.                                                       *)
LEMMA WaitingTail ==
    ASSUME NEW q \in Seq(Items), Complete(q), q # <<>>
    PROVE  /\ Complete(Tail(q))
           /\ Head(q) = StopSignal => Waiting(Tail(q)) = Waiting(q)
           /\ Head(q) # StopSignal => /\ Waiting(q) # <<>> /\ Head(Waiting(q)) = Head(q)
                                      /\ Waiting(Tail(q)) = Tail(Waiting(q))
<1>. DEFINE r == Tail(q)
            c == Cardinality(Places(q))
            first == IF Head(q) = StopSignal THEN 0 ELSE 1
<1>1. /\ r \in Seq(Items) /\ Len(q) \in Nat \ {0} /\ DOMAIN q = 1 .. Len(q)
      /\ DOMAIN r = 1 .. Len(q) - 1 /\ Head(q) = q[1]
      /\ \A k \in 1 .. Len(q) - 1 : r[k] = q[k + 1]
  BY TailEntries
<1>2. /\ \A k \in Places(r) : k + 1 \in Places(q) /\ k \in 1 .. Len(q) - 1
      /\ \A k \in Places(q) \ {1} : k - 1 \in Places(r) /\ k \in 2 .. Len(q)
      /\ 1 \in Places(q) <=> Head(q) # StopSignal
  <2>1. /\ Places(r) = {k \in 1 .. Len(q) - 1 : r[k] # StopSignal}
        /\ Places(q) = {k \in 1 .. Len(q) : q[k] # StopSignal}
    BY <1>1 DEF Places
  <2>2. \A k \in Places(q) \ {1} : k - 1 \in 1 .. Len(q) - 1 /\ k \in 2 .. Len(q) /\ (k - 1) + 1 = k
    BY <1>1, <2>1
  <2>. QED  BY <1>1, <2>1, <2>2
<1>. HIDE DEF r
<1>3. first \in {0, 1} /\ c \in Nat
  BY PlacesFinite
(* What is counted before, less the first, is what is counted after. *)
<1>4. ASSUME NEW A, A \subseteq Places(q), 1 \in Places(q) => 1 \in A,
             NEW B, B \subseteq Places(r), \A k \in Places(r) : k \in B <=> k + 1 \in A
      PROVE  Cardinality(B) = Cardinality(A) - first /\ Cardinality(B) \in Nat
  <2>1. IsFiniteSet(A) /\ IsFiniteSet(A \ {1}) /\ Cardinality(A) \in Nat
    BY <1>4, PlacesFinite, FS_Subset, FS_RemoveElement, FS_CardinalityType
  <2>2. Cardinality(A \ {1}) = Cardinality(A) - first
    BY <1>2, <1>4, <2>1, FS_RemoveElement
  <2>. DEFINE f == [k \in A \ {1} |-> k - 1]
  <2>3. /\ \A k \in A \ {1} : k - 1 \in B /\ k \in Int
        /\ \A b \in B : b + 1 \in A \ {1} /\ b \in Int
    <3>1. \A k \in A \ {1} : /\ k \in Places(q) \ {1} /\ k \in Int
                             /\ (k - 1) + 1 = k /\ k - 1 \in Places(r)
      BY <1>2, <1>4
    <3>2. \A b \in B : b \in Places(r) /\ b \in 1 .. Len(q) - 1
      BY <1>2, <1>4
    <3>. QED  BY <1>1, <1>4, <3>1, <3>2
  <2>4. f \in [A \ {1} -> B]
    BY <2>3
  <2>5. \A k, l \in A \ {1} : f[k] = f[l] => k = l
    BY <2>3
  <2>6. \A b \in B : \E k \in A \ {1} : f[k] = b
    <3>1. ASSUME NEW b \in B PROVE f[b + 1] = b /\ b + 1 \in A \ {1}
      BY <2>3
    <3>. QED  BY <3>1
  <2>7. ExistsBijection(A \ {1}, B)
    BY <2>4, <2>5, <2>6 DEF ExistsBijection, Bijection, Injection, Surjection, IsInjective
  <2>8. Cardinality(B) = Cardinality(A \ {1}) /\ IsFiniteSet(B)
    BY <2>1, <2>7, FS_Bijection
  <2>. QED  BY <2>2, <2>8, FS_CardinalityType
<1>5. Cardinality(Places(r)) = c - first
  BY <1>2, <1>4
<1>6. ASSUME NEW k \in Places(r) PROVE UpTo(r, k) = UpTo(q, k + 1) - first /\ r[k] = q[k + 1]
  <2>. DEFINE A == {j \in Places(q) : j <= k + 1}
              B == {j \in Places(r) : j <= k}
  <2>1. k \in 1 .. Len(q) - 1 /\ k + 1 \in Places(q)
    BY <1>2
  <2>2. 1 \in Places(q) => 1 \in A
    BY <2>1, <1>1
  <2>3. \A j \in Places(r) : j \in B <=> j + 1 \in A
    BY <1>1, <1>2, <2>1
  <2>4. Cardinality(B) = Cardinality(A) - first
    BY <1>4, <2>2, <2>3
  <2>. QED  BY <1>1, <2>1, <2>4 DEF UpTo
<1>7. ASSUME Head(q) # StopSignal PROVE UpTo(q, 1) = 1 /\ 1 \in Places(q)
  <2>1. 1 \in Places(q)
    BY <1>2, <1>7
  <2>2. {j \in Places(q) : j <= 1} = {1}
    BY <2>1, PlacesFinite
  <2>. QED  BY <2>1, <2>2, FS_Singleton DEF UpTo
<1>8. Complete(r)
  <2>1. ASSUME NEW n \in 1 .. c - first PROVE \E k \in Places(r) : UpTo(r, k) = n
    <3>1. n + first \in 1 .. c
      BY <1>3
    <3>2. PICK k \in Places(q) : UpTo(q, k) = n + first
      BY <3>1 DEF Complete
    <3>3. k # 1
      BY <1>2, <1>3, <1>7, <3>2
    <3>4. k - 1 \in Places(r) /\ (k - 1) + 1 = k
      BY <1>2, <3>3
    <3>5. UpTo(r, k - 1) = n
      BY <1>3, <1>6, <3>2, <3>4
    <3>. QED  BY <3>4, <3>5
  <2>. QED  BY <1>5, <2>1 DEF Complete
<1>9. ASSUME Head(q) = StopSignal PROVE Waiting(r) = Waiting(q)
  <2>1. Len(Waiting(q)) = Cardinality(Places(r)) /\ Waiting(q) \in Seq(Messages)
    BY <1>3, <1>5, <1>9, WaitingIs
  <2>2. \A k \in Places(r) : Waiting(q)[UpTo(r, k)] = r[k]
    <3>1. ASSUME NEW k \in Places(r) PROVE UpTo(r, k) = UpTo(q, k + 1) /\ k + 1 \in Places(q)
      <4>1. UpTo(q, k + 1) \in Nat
        BY PlacesFinite
      <4>. QED  BY <1>2, <1>6, <1>9, <4>1
    <3>. QED  BY <1>6, <3>1, WaitingIs
  <2>. QED  BY <1>1, <1>8, <2>1, <2>2, WaitingOnly
<1>10. ASSUME Head(q) # StopSignal
       PROVE  /\ Waiting(q) # <<>> /\ Head(Waiting(q)) = Head(q)
              /\ Waiting(r) = Tail(Waiting(q))
  <2>. DEFINE w == Waiting(q)
  <2>1. w \in Seq(Messages) /\ Len(w) = c /\ \A k \in Places(q) : w[UpTo(q, k)] = q[k]
    BY WaitingIs
  <2>. HIDE DEF w
  <2>2. c # 0 /\ w # <<>>
    BY <1>7, <1>10, <2>1, PlacesFinite, FS_EmptySet
  <2>3. /\ Tail(w) \in Seq(Messages) /\ Len(Tail(w)) = c - 1 /\ Head(w) = w[1]
        /\ \A n \in 1 .. c - 1 : Tail(w)[n] = w[n + 1]
    BY <2>1, <2>2, TailEntries
  <2>4. Head(w) = Head(q)
    BY <1>1, <1>7, <1>10, <2>1, <2>3
  <2>5. \A k \in Places(r) : Tail(w)[UpTo(r, k)] = r[k]
    <3>1. ASSUME NEW k \in Places(r)
          PROVE  UpTo(r, k) \in 1 .. c - 1 /\ UpTo(r, k) + 1 = UpTo(q, k + 1) /\ k + 1 \in Places(q)
      <4>1. UpTo(r, k) \in 1 .. Cardinality(Places(r)) /\ UpTo(q, k + 1) \in Nat
        BY <1>1, RanksRise, PlacesFinite
      <4>. QED  BY <1>2, <1>3, <1>5, <1>6, <1>10, <4>1
    <3>. QED  BY <1>6, <2>1, <2>3, <3>1
  <2>6. Waiting(r) = Tail(w)
    BY <1>1, <1>3, <1>5, <1>8, <1>10, <2>3, <2>5, WaitingOnly
  <2>. QED  BY <2>2, <2>4, <2>6 DEF w
<1>. QED  BY <1>8, <1>9, <1>10 DEF r
-----------------------------------------------------------------------------
(* The inductive invariant                                                 *)

(* Who goes through the list of peers holds the lock. *)
LockInv == \A t \in Threads : tpc[t] \in {"put", "stuck"} <=> lock = t

(* In the list is who has connected and has not left; others may be, too.  *)
ListInv == \A p \in Peers : rpc[p] \in Connected => p \in Names

(* What the calls have in hand: a message that is still to be sent was not *)
(* sent yet and is nobody else's, and a loop over the peers will find all  *)
(* of its receivers.                                                       *)
CallInv == \A t \in Threads :
    /\ tpc[t] \in InStop \union {"send", "put", "detach"} => at[t] \in Peers
    /\ tpc[t] \in {"put", "stuck", "kill", "detach"} => pos[t] > 0
    /\ tpc[t] \in {"send", "put", "stuck"} => msg[t] \in Messages
    /\ tpc[t] = "send" => /\ msg[t] \notin sent
                          /\ \A u \in Threads : tpc[u] = "send" /\ msg[u] = msg[t] => u = t
    /\ tpc[t] \in {"put", "stuck"} => to[t] \subseteq Names

(* A handler is given one message at a time, and a peer that is not in the *)
(* list yet opens with an empty queue, and is not stopped by anybody.      *)
ReadInv == \A p \in Peers :
    /\ rpc[p] = "handler" <=> indata[p] # None
    /\ rpc[p] = "opening" /\ p \notin Names => queue[p] = <<>> /\ ~Stopping(p)
    /\ Complete(queue[p])

IInv == TypeOK /\ LockInv /\ ListInv /\ CallInv /\ ReadInv
-----------------------------------------------------------------------------
(* Typing                                                                  *)

LEMMA TypeInit == Init => TypeOK
<1>. SUFFICES ASSUME Init PROVE TypeOK
  OBVIOUS
<1>1. peers \in Seq(Peers) /\ queue \in [Peers -> Seq(Messages \union {StopSignal})]
  BY DEF Init
<1>2. \A p \in Peers : Len(queue[p]) <= QueueSize
  BY BusAssumption DEF Init
<1>. QED  BY <1>1, <1>2, BusAssumption DEF Init, TypeOK, Threads, Connected, InStop

(* The list and the queues, and all the rest. *)
ListOK == peers \in Seq(Peers)
QueueOK == /\ queue \in [Peers -> Seq(Items)]
           /\ \A p \in Peers : Len(queue[p]) <= QueueSize
ReceiverOK ==
    /\ running \in [Peers -> BOOLEAN] /\ bus \in [Peers -> BOOLEAN]
    /\ rpc \in [Peers -> Connected \union {"down", "opening", "exiting"}]
    /\ starts \in 0 .. MaxStarts
    /\ indata \in [Peers -> Messages \union {None}]
CallOK ==
    /\ lock \in Threads \union {None}
    /\ tpc \in [Threads -> InStop \union {"idle", "send", "put", "stuck", "kill", "detach"}]
    /\ at \in [Threads -> Peers \union {None}]
    /\ msg \in [Threads -> Messages \union {None}]
    /\ to \in [Threads -> SUBSET Peers]
    /\ pos \in [Threads -> Nat]
    /\ sent \subseteq Messages /\ victims \subseteq Peers

(* TypeOK is the typing of the parts, now ... *)
LEMMA TypeParts == TypeOK <=> ListOK /\ QueueOK /\ ReceiverOK /\ CallOK
BY DEF TypeOK, ListOK, QueueOK, ReceiverOK, CallOK, Items

(* ... and after a step. *)
LEMMA TypePartsNext == TypeOK' <=> ListOK' /\ QueueOK' /\ ReceiverOK' /\ CallOK'
BY DEF TypeOK, ListOK, QueueOK, ReceiverOK, CallOK, Items

(* The list with a peer more or less, and a queue with an item more or less. *)
LEMMA ListTypes ==
    ASSUME ListOK
    PROVE  /\ \A p \in Peers : Append(peers, p) \in Seq(Peers)
           /\ \A k \in DOMAIN peers : RemoveAt(peers, k) \in Seq(Peers) /\ peers[k] \in Peers
           /\ \A k \in Nat : 0 < k /\ k <= Len(peers) => k \in DOMAIN peers
           /\ Names \subseteq Peers
BY DEF ListOK, RemoveAt, Names, ToSet

(* What can be taken from a queue and put into it. *)
LEMMA QueueTypes ==
    ASSUME QueueOK, NEW p \in Peers
    PROVE  /\ queue[p] \in Seq(Items) /\ Len(queue[p]) \in Nat
           /\ queue[p] # <<>> => /\ Head(queue[p]) \in Items /\ Tail(queue[p]) \in Seq(Items)
                                 /\ Len(Tail(queue[p])) <= QueueSize
           /\ \A x \in Items : ~Full(p) => /\ Append(queue[p], x) \in Seq(Items)
                                           /\ Len(Append(queue[p], x)) <= QueueSize
<1>1. queue[p] \in Seq(Items) /\ Len(queue[p]) \in Nat /\ Len(queue[p]) <= QueueSize
  BY DEF QueueOK
<1>2. ASSUME queue[p] # <<>>
      PROVE  /\ Head(queue[p]) \in Items /\ Tail(queue[p]) \in Seq(Items)
             /\ Len(Tail(queue[p])) <= QueueSize
  BY <1>1, <1>2, BusAssumption, TailEntries
<1>3. ASSUME NEW x \in Items, ~Full(p)
      PROVE  /\ Append(queue[p], x) \in Seq(Items)
             /\ Len(Append(queue[p], x)) <= QueueSize
  BY <1>1, <1>3, BusAssumption, AppendEntries DEF Full
<1>. QED  BY <1>1, <1>2, <1>3

(* A queue is changed for one peer, to what may be in it. *)
LEMMA QueueType ==
    ASSUME QueueOK, NEW p \in Peers, NEW q \in Seq(Items), Len(q) <= QueueSize,
           queue' = [queue EXCEPT ![p] = q]
    PROVE  QueueOK'
BY DEF QueueOK

(* put() keeps the queue within its limit. *)
LEMMA PutType ==
    ASSUME QueueOK, NEW p \in Peers, NEW x \in Items, Put(p, x)
    PROVE  QueueOK' /\ queue' = [queue EXCEPT ![p] = Append(queue[p], x)]
BY QueueTypes, QueueType DEF Put

(* The steps of the receiver thread keep the types, ... *)
LEMMA ReceiverTypes ==
    ASSUME TypeOK, NEW p \in Peers, Start(p) \/ ReceiverStep(p)
    PROVE  TypeOK'
<1>. USE TypeParts
<1>1. CallOK'
  <2>1. CASE Start(p)
    <3>1. tpc' \in [Threads -> InStop \union {"idle", "send", "put", "stuck", "kill", "detach"}]
      BY <2>1 DEF CallOK, Start
    <3>. QED  BY <2>1, <3>1 DEF CallOK, Start
  <2>. QED  BY <2>1 DEF CallOK, ReceiverStep, OpenFails, Connect, RunEnter, LoopCheck, GetStop,
                        GetMessage, GetEmpty, HandlerReturns, HandlerRaises, Leave, Exit, using
<1>2. ListOK'
  BY ListTypes
     DEF ListOK, ReceiverStep, Start, OpenFails, Connect, RunEnter, LoopCheck, GetStop,
         GetMessage, GetEmpty, HandlerReturns, HandlerRaises, Leave, Exit
<1>3. QueueOK'
  <2>1. CASE Start(p)
    <3>1. <<>> \in Seq(Items) /\ Len(<<>>) <= QueueSize
      BY BusAssumption
    <3>. QED  BY <2>1, <3>1, QueueType DEF Start
  <2>2. CASE GetStop(p) \/ GetMessage(p)
    BY <2>2, QueueTypes, QueueType DEF GetStop, GetMessage
  <2>3. CASE UNCHANGED queue
    BY <2>3 DEF QueueOK
  <2>. QED  BY <2>1, <2>2, <2>3 DEF ReceiverStep, OpenFails, Connect, RunEnter, LoopCheck,
                                    GetEmpty, HandlerReturns, HandlerRaises, Leave, Exit
<1>4. ReceiverOK'
  <2>. USE DEF ReceiverOK, Goto, Connected
  <2>1. CASE Start(p) \/ OpenFails(p) \/ Connect(p)
    BY <2>1, BusAssumption DEF Start, OpenFails, Connect
  <2>2. CASE RunEnter(p) \/ LoopCheck(p) \/ GetStop(p) \/ GetEmpty(p)
    BY <2>2 DEF RunEnter, LoopCheck, GetStop, GetEmpty
  <2>3. CASE GetMessage(p)
    <3>1. Head(queue[p]) \in Messages
      BY <2>3, QueueTypes DEF GetMessage, Items
    <3>. QED  BY <2>3, <3>1 DEF GetMessage
  <2>4. CASE HandlerReturns(p) \/ HandlerRaises(p) \/ Leave(p) \/ Exit(p)
    BY <2>4 DEF HandlerReturns, HandlerRaises, Leave, Exit
  <2>. QED  BY <2>1, <2>2, <2>3, <2>4 DEF ReceiverStep
<1>. QED  BY <1>1, <1>2, <1>3, <1>4, TypePartsNext

(* ... and so do those of send(), stop() and kill(): what is put into a    *)
(* queue is a message or the sentinel, and the positions they use are in   *)
(* the list.                                                               *)
LEMMA CallTypes ==
    ASSUME TypeOK, CallInv, NEW t \in Threads, CallStep(t) \/ KillCall(t)
    PROVE  TypeOK'
<1>. USE TypeParts
<1>1. ListOK'
  BY DEF ListOK, CallStep, SendStep, StopStep, KillStep, KillCall, SendFails, SendBegin,
         SendPut, SendEnd, StopSentinel, StopSignalled, StopJoined, KillNext, KillDetach, KillEnd
<1>2. tpc[t] = "put" \/ tpc[t] = "kill" => pos[t] > 0 /\ pos[t] \in Nat
  BY DEF CallOK, CallInv
<1>3. QueueOK'
  <2>1. CASE StopSentinel(t)
    <3>1. at[t] \in Peers /\ StopSignal \in Items
      BY <2>1 DEF StopSentinel, Step, CallInv, InStop, Items
    <3>. QED  BY <2>1, <3>1, PutType DEF StopSentinel
  <2>2. CASE SendPut(t) /\ Aims(t, peers[pos[t]])
    <3>1. peers[pos[t]] \in Peers
      BY <1>2, <2>2, ListTypes DEF SendPut, Aims
    <3>2. msg[t] \in Items
      BY <2>2 DEF SendPut, CallInv, Items
    <3>. QED  BY <2>2, <3>1, <3>2, PutType DEF SendPut
  <2>3. CASE UNCHANGED queue
    BY <2>3 DEF QueueOK
  <2>. QED  BY <2>1, <2>2, <2>3
            DEF CallStep, SendStep, StopStep, KillStep, KillCall, SendFails, SendBegin, SendPut,
                SendEnd, StopSignalled, StopJoined, KillNext, KillDetach, KillEnd
<1>4. ReceiverOK'
  <2>. USE DEF ReceiverOK, receiving
  <2>1. CASE SendFails(t) \/ SendBegin(t) \/ SendPut(t) \/ SendEnd(t)
    BY <2>1 DEF SendFails, SendBegin, SendPut, SendEnd
  <2>2. CASE StopSentinel(t) \/ StopSignalled(t) \/ StopJoined(t)
    BY <2>2 DEF StopSentinel, StopSignalled, StopJoined
  <2>3. CASE KillCall(t) \/ KillNext(t) \/ KillDetach(t) \/ KillEnd(t)
    BY <2>3 DEF KillCall, KillNext, KillDetach, KillEnd
  <2>. QED  BY <2>1, <2>2, <2>3 DEF CallStep, SendStep, StopStep, KillStep
<1>5. CallOK'
  <2>. USE DEF CallOK, Step, Return, InStop
  <2>1. CASE SendFails(t)
    BY <2>1 DEF SendFails
  <2>2. CASE SendBegin(t)
    <3>1. (IF to[t] = {} THEN Names \ {at[t]} ELSE to[t]) \subseteq Peers
      BY ListTypes
    <3>2. msg[t] \in Messages
      BY <2>2 DEF SendBegin, CallInv
    <3>. QED  BY <2>2, <3>1, <3>2 DEF SendBegin
  <2>3. CASE SendPut(t)
    BY <2>3 DEF SendPut
  <2>4. CASE SendEnd(t)
    BY <2>4 DEF SendEnd
  <2>5. CASE StopSentinel(t)
    BY <2>5 DEF StopSentinel
  <2>6. CASE StopSignalled(t)
    BY <2>6 DEF StopSignalled, StopEnds
  <2>7. CASE StopJoined(t)
    BY <2>7 DEF StopJoined, StopEnds
  <2>8. CASE KillCall(t)
    BY <2>8, ListTypes DEF KillCall
  <2>9. CASE KillNext(t)
    <3>1. peers[pos[t]] \in Peers
      BY <1>2, <2>9, ListTypes DEF KillNext
    <3>. QED  BY <2>9, <3>1 DEF KillNext
  <2>10. CASE KillDetach(t)
    BY <2>10 DEF KillDetach
  <2>11. CASE KillEnd(t)
    BY <2>11 DEF KillEnd
  <2>. QED  BY <2>1, <2>2, <2>3, <2>4, <2>5, <2>6, <2>7, <2>8, <2>9, <2>10, <2>11
            DEF CallStep, SendStep, StopStep, KillStep
<1>. QED  BY <1>1, <1>3, <1>4, <1>5, TypePartsNext

(* Every step keeps the types. *)
LEMMA TypeStep == TypeOK /\ CallInv /\ [Next]_vars => TypeOK'
<1>. SUFFICES ASSUME TypeOK, CallInv, [Next]_vars PROVE TypeOK'
  OBVIOUS
<1>1. ASSUME NEW t \in Threads, NEW p \in Peers, StopCall(t, p) PROVE TypeOK'
  BY <1>1 DEF StopCall, TypeOK, Step, receiving, InStop
<1>2. ASSUME NEW t \in Threads, NEW p \in Peers, NEW m \in Messages, NEW a \in Addresses,
             SendCall(t, p, m, a)
      PROVE  TypeOK'
  <2>1. a \subseteq Peers
    BY BusAssumption
  <2>. QED  BY <1>2, <2>1 DEF SendCall, TypeOK, Step, receiving, InStop
<1>3. CASE UNCHANGED vars
  BY <1>3 DEF vars, receiving, using, TypeOK
<1>. QED  BY <1>1, <1>2, <1>3, ReceiverTypes, CallTypes DEF Next
-----------------------------------------------------------------------------
(* The lock, the list, the calls and the queues                            *)

(* What the receiver thread leaves alone, and what the calls do.           *)
LEMMA ReceiverFrame ==
    ASSUME NEW p \in Peers, Start(p) \/ ReceiverStep(p)
    PROVE  /\ UNCHANGED <<lock, bus, at, msg, to, pos, sent, victims>>
           /\ ReceiverStep(p) => UNCHANGED tpc
BY DEF using, ReceiverStep, Start, OpenFails, Connect, RunEnter, LoopCheck, GetStop,
       GetMessage, GetEmpty, HandlerReturns, HandlerRaises, Leave, Exit

(* A restart leaves who distributes in the loop, maybe stuck there.        *)
LEMMA ReceiverCalls ==
    ASSUME NEW p \in Peers, Start(p) \/ ReceiverStep(p), NEW t \in Threads
    PROVE  tpc'[t] = tpc[t] \/ (tpc[t] = "put" /\ tpc'[t] = "stuck")
<1>1. CASE Start(p)
  BY <1>1 DEF Start, MayWait, Aims
<1>. QED  BY <1>1, ReceiverFrame

(* The calls leave the list of peers and the receivers alone. *)
LEMMA CallFrame ==
    /\ \A t \in Threads : CallStep(t) \/ KillCall(t) => UNCHANGED <<peers, receiving>>
    /\ \A t \in Threads, p \in Peers : StopCall(t, p) => UNCHANGED <<peers, receiving, queue, lock, sent>>
    /\ \A t \in Threads, p \in Peers, m \in Messages, a \in Addresses :
          SendCall(t, p, m, a) => UNCHANGED <<peers, receiving, queue, lock, pos, sent>>
BY DEF CallStep, SendStep, StopStep, KillStep, KillCall, SendFails, SendBegin, SendPut, SendEnd,
       StopSentinel, StopSignalled, StopJoined, KillNext, KillDetach, KillEnd, StopCall, SendCall

(* The lock is taken by SendBegin and released by SendEnd only. *)
LEMMA LockStep == TypeOK /\ LockInv /\ [Next]_vars => LockInv'
<1>. SUFFICES ASSUME CallOK, LockInv, [Next]_vars PROVE LockInv'
  BY TypeParts
<1>. USE BusAssumption DEF CallOK, LockInv, Step, Return, using
<1>1. ASSUME NEW p \in Peers, Start(p) \/ ReceiverStep(p) PROVE LockInv'
  BY <1>1, ReceiverFrame, ReceiverCalls
<1>2. ASSUME NEW t \in Threads, NEW p \in Peers, StopCall(t, p) PROVE LockInv'
  BY <1>2 DEF StopCall
<1>3. ASSUME NEW t \in Threads, NEW p \in Peers, NEW m \in Messages, NEW a \in Addresses,
             SendCall(t, p, m, a)
      PROVE  LockInv'
  BY <1>3 DEF SendCall
<1>4. ASSUME NEW t \in Threads, CallStep(t) \/ KillCall(t) PROVE LockInv'
  <2>1. CASE SendFails(t)
    BY <2>1 DEF SendFails
  <2>2. CASE SendBegin(t)
    BY <2>2 DEF SendBegin
  <2>3. CASE SendPut(t)
    BY <2>3 DEF SendPut
  <2>4. CASE SendEnd(t)
    BY <2>4 DEF SendEnd
  <2>5. CASE StopStep(t)
    BY <2>5 DEF StopStep, StopSentinel, StopSignalled, StopJoined, StopEnds
  <2>6. CASE KillStep(t) \/ KillCall(t)
    BY <2>6 DEF KillStep, KillCall, KillNext, KillDetach, KillEnd
  <2>. QED  BY <1>4, <2>1, <2>2, <2>3, <2>4, <2>5, <2>6 DEF CallStep, SendStep
<1>5. CASE UNCHANGED vars
  BY <1>5 DEF vars
<1>. QED  BY <1>1, <1>2, <1>3, <1>4, <1>5 DEF Next

(* Who comes to the list and who goes. *)
LEMMA Joining ==
    ASSUME ListOK, NEW p \in Peers, peers' = Append(peers, p)
    PROVE  Names' = Names \union {p}
<1>1. /\ Len(peers) \in Nat /\ DOMAIN peers = 1 .. Len(peers) /\ DOMAIN peers' = 1 .. Len(peers) + 1
      /\ \A k \in 1 .. Len(peers) : peers'[k] = peers[k]
      /\ peers'[Len(peers) + 1] = p
  BY AppendEntries DEF ListOK
<1>2. \A k \in DOMAIN peers' : k \in DOMAIN peers \/ k = Len(peers) + 1
  BY <1>1
<1>3. \A x \in Names' : x \in Names \union {p}
  BY <1>1, <1>2 DEF Names, ToSet
<1>4. p \in Names'
  <2>1. Len(peers) + 1 \in DOMAIN peers'
    BY <1>1
  <2>. QED  BY <1>1, <2>1 DEF Names, ToSet
<1>5. \A x \in Names : x \in Names'
  <2>1. \A k \in DOMAIN peers : k \in DOMAIN peers' /\ peers'[k] = peers[k]
    BY <1>1
  <2>. QED  BY <2>1 DEF Names, ToSet
<1>. QED  BY <1>3, <1>4, <1>5

(* Of the list, nobody but the one who leaves is missing then.             *)
LEMMA Leaving ==
    ASSUME ListOK, NEW k \in DOMAIN peers, peers' = RemoveAt(peers, k)
    PROVE  \A x : x # peers[k] => (x \in Names' <=> x \in Names)
<1>. DEFINE from(i) == IF i < k THEN i ELSE i + 1
<1>1. /\ Len(peers) \in Nat /\ DOMAIN peers = 1 .. Len(peers) /\ k \in 1 .. Len(peers)
      /\ DOMAIN peers' = 1 .. Len(peers) - 1
      /\ \A i \in 1 .. Len(peers) - 1 : peers'[i] = peers[from(i)]
  <2>1. peers \in Seq(Peers) /\ k \in 1 .. Len(peers) /\ Len(peers) \in Nat
    BY DEF ListOK
  <2>2. /\ peers' \in Seq(Peers) /\ Len(peers') = Len(peers) - 1
        /\ \A i \in 1 .. Len(peers) - 1 : peers'[i] = IF i < k THEN peers[i] ELSE peers[i + 1]
    BY <2>1, RemoveAtEntries
  <2>. QED  BY <2>1, <2>2
<1>2. /\ \A i \in DOMAIN peers' : from(i) \in DOMAIN peers /\ peers'[i] = peers[from(i)]
      /\ \A j \in DOMAIN peers \ {k} : \E i \in DOMAIN peers' : from(i) = j
  <2>1. ASSUME NEW j \in DOMAIN peers \ {k} PROVE \E i \in DOMAIN peers' : from(i) = j
    <3>1. CASE j < k
      BY <1>1, <3>1
    <3>2. CASE ~(j < k)
      <4>1. j - 1 \in DOMAIN peers' /\ from(j - 1) = j
        BY <1>1, <3>2
      <4>. QED  BY <4>1
    <3>. QED  BY <3>1, <3>2
  <2>. QED  BY <1>1, <2>1
<1>. HIDE DEF from
<1>. QED  BY <1>2 DEF Names, ToSet

(* Who reads is in the list: Connect and Leave alone change it.            *)
LEMMA ListStep == TypeOK /\ ListInv /\ [Next]_vars => ListInv'
<1>. SUFFICES ASSUME TypeOK, ListInv, [Next]_vars PROVE ListInv'
  OBVIOUS
<1>0. ListOK /\ ReceiverOK
  BY TypeParts
<1>1. ASSUME NEW p \in Peers, Start(p) \/ ReceiverStep(p) PROVE ListInv'
  <2>. USE DEF Goto, Connected, ReceiverOK
  <2>1. CASE Connect(p)
    BY <1>0, <2>1, Joining DEF Connect, ListInv
  <2>2. CASE Leave(p)
    <3>1. PICK k \in DOMAIN peers : peers[k] = p /\ peers' = RemoveAt(peers, k)
      BY <2>2 DEF Leave
    <3>2. rpc' = [rpc EXCEPT ![p] = "exiting"]
      BY <2>2 DEF Leave
    <3>. QED  BY <1>0, <3>1, <3>2, Leaving DEF ListInv
  <2>3. CASE UNCHANGED peers /\ \A q \in Peers : rpc'[q] \in Connected => rpc[q] \in Connected
    BY <2>3 DEF ListInv, Names
  <2>4. CASE Start(p) \/ OpenFails(p) \/ RunEnter(p) \/ LoopCheck(p)
    BY <1>0, <2>3, <2>4 DEF Start, OpenFails, RunEnter, LoopCheck
  <2>5. CASE GetStop(p) \/ GetMessage(p) \/ GetEmpty(p)
    BY <1>0, <2>3, <2>5 DEF GetStop, GetMessage, GetEmpty
  <2>6. CASE HandlerReturns(p) \/ HandlerRaises(p) \/ Exit(p)
    BY <1>0, <2>3, <2>6 DEF HandlerReturns, HandlerRaises, Exit
  <2>. QED  BY <1>1, <2>1, <2>2, <2>4, <2>5, <2>6 DEF ReceiverStep
<1>2. CASE UNCHANGED <<peers, rpc>>
  BY <1>2 DEF ListInv, Names
<1>3. CASE UNCHANGED vars
  BY <1>2, <1>3 DEF vars, receiving
<1>. QED  BY <1>1, <1>2, <1>3, CallFrame DEF Next, receiving

(* Nobody joins or leaves while a message is distributed, so its receivers *)
(* stay known; and a message that is called for is sent once.              *)
LEMMA CallsStep == IInv /\ [Next]_vars => CallInv'
<1>. SUFFICES ASSUME IInv, [Next]_vars PROVE CallInv'
  OBVIOUS
<1>0. CallOK /\ CallInv /\ LockInv
  BY TypeParts DEF IInv
<1>. USE BusAssumption DEF CallOK, CallInv, Step, Return, using, InStop
<1>1. ASSUME NEW p \in Peers, Start(p) \/ ReceiverStep(p) PROVE CallInv'
  <2>1. CASE Connect(p) \/ Leave(p)
    <3>1. \A t \in Threads : tpc[t] \notin {"put", "stuck"}
      BY <1>0, <2>1 DEF Connect, Leave, LockInv
    <3>. QED  BY <1>0, <1>1, <3>1, ReceiverFrame, ReceiverCalls
  <2>2. CASE UNCHANGED peers
    BY <1>0, <1>1, <2>2, ReceiverFrame, ReceiverCalls DEF Names
  <2>. QED  BY <1>1, <2>1, <2>2
            DEF ReceiverStep, Start, OpenFails, RunEnter, LoopCheck, GetStop,
                GetMessage, GetEmpty, HandlerReturns, HandlerRaises, Exit
<1>2. ASSUME Names' = Names, NEW t \in Threads, NEW p \in Peers, StopCall(t, p) PROVE CallInv'
  BY <1>0, <1>2 DEF StopCall
<1>3. ASSUME Names' = Names, NEW t \in Threads, NEW p \in Peers, NEW m \in Messages,
             NEW a \in Addresses, SendCall(t, p, m, a)
      PROVE  CallInv'
  BY <1>0, <1>3 DEF SendCall
<1>4. ASSUME Names' = Names, NEW t \in Threads, CallStep(t) \/ KillCall(t) PROVE CallInv'
  <2>0. Names' = Names
    BY <1>4
  <2>1. CASE SendFails(t)
    BY <1>0, <2>0, <2>1 DEF SendFails
  <2>2. CASE SendBegin(t)
    BY <1>0, <2>0, <2>2 DEF SendBegin
  <2>3. CASE SendPut(t)
    BY <1>0, <2>0, <2>3 DEF SendPut
  <2>4. CASE SendEnd(t)
    BY <1>0, <2>0, <2>4 DEF SendEnd
  <2>5. CASE StopSentinel(t)
    BY <1>0, <2>0, <2>5 DEF StopSentinel
  <2>6. CASE StopSignalled(t)
    BY <1>0, <2>0, <2>6 DEF StopSignalled, StopEnds
  <2>7. CASE StopJoined(t)
    BY <1>0, <2>0, <2>7 DEF StopJoined, StopEnds
  <2>8. CASE KillCall(t)
    BY <1>0, <2>0, <2>8 DEF KillCall
  <2>9. CASE KillNext(t)
    <3>1. peers[pos[t]] \in Peers
      BY <1>0, <2>9, ListTypes, TypeParts DEF KillNext, IInv
    <3>. QED  BY <1>0, <2>0, <2>9, <3>1 DEF KillNext
  <2>10. CASE KillDetach(t)
    BY <1>0, <2>0, <2>10 DEF KillDetach
  <2>11. CASE KillEnd(t)
    BY <1>0, <2>0, <2>11 DEF KillEnd
  <2>. QED  BY <1>4, <2>1, <2>2, <2>3, <2>4, <2>5, <2>6, <2>7, <2>8, <2>9, <2>10, <2>11
            DEF CallStep, SendStep, StopStep, KillStep
<1>5. CASE UNCHANGED vars
  BY <1>0, <1>5 DEF vars, Names
<1>6. UNCHANGED peers => Names' = Names
  BY DEF Names
<1>. QED  BY <1>1, <1>2, <1>3, <1>4, <1>5, <1>6, CallFrame DEF Next

(* What the receiver thread reads. *)
LEMMA ReceiverReads ==
    ASSUME IInv, NEW p \in Peers, Start(p) \/ ReceiverStep(p)
    PROVE  ReadInv'
<1>0. /\ \A q \in Peers : Stopping(q)' <=> Stopping(q)
      /\ queue \in [Peers -> Seq(Items)] /\ ReceiverOK /\ ReadInv /\ ListInv
      /\ CallOK /\ ListOK /\ (UNCHANGED peers => Names' = Names)
  <2>1. \A t \in Threads : tpc'[t] \in InStop <=> tpc[t] \in InStop
    BY ReceiverCalls DEF InStop
  <2>. QED  BY <2>1, ReceiverFrame, TypeParts DEF IInv, QueueOK, Stopping, Names
<1>. USE DEF Goto, ReadInv, ReceiverOK, Connected
<1>1. CASE Start(p)
  BY <1>0, <1>1, WaitingEmpty DEF Start
<1>2. CASE GetStop(p)
  BY <1>0, <1>2, WaitingTail DEF GetStop
<1>3. CASE GetMessage(p)
  <2>1. Head(queue[p]) # None /\ Complete(Tail(queue[p]))
    <3>1. Head(queue[p]) \in Messages
      BY <1>3, QueueTypes, TypeParts DEF GetMessage, Items, IInv
    <3>. QED  BY <1>0, <1>3, <3>1, BusAssumption, WaitingTail DEF GetMessage
  <2>. QED  BY <1>0, <1>3, <2>1 DEF GetMessage
<1>4. CASE OpenFails(p)
  BY <1>0, <1>4 DEF OpenFails
<1>8. CASE Connect(p)
  <2>1. Names \subseteq Names'
    BY <1>0, <1>8, Joining DEF Connect
  <2>. QED  BY <1>0, <1>8, <2>1 DEF Connect
<1>5. CASE RunEnter(p) \/ LoopCheck(p) \/ GetEmpty(p)
  BY <1>0, <1>5 DEF RunEnter, LoopCheck, GetEmpty
<1>6. CASE HandlerReturns(p) \/ HandlerRaises(p)
  BY <1>0, <1>6 DEF HandlerReturns, HandlerRaises
<1>7. CASE Exit(p)
  BY <1>0, <1>7 DEF Exit
<1>9. CASE Leave(p)
  <2>1. \A q \in Peers : q # p => (q \in Names' <=> q \in Names)
    BY <1>0, <1>9, Leaving DEF Leave
  <2>2. rpc'[p] = "exiting" /\ UNCHANGED <<queue, indata>>
        /\ \A q \in Peers : q # p => rpc'[q] = rpc[q]
    BY <1>0, <1>9 DEF Leave
  <2>3. rpc[p] = "leaving"
    BY <1>9 DEF Leave
  <2>. QED  BY <1>0, <2>1, <2>2, <2>3
<1>. QED  BY <1>1, <1>2, <1>3, <1>4, <1>5, <1>6, <1>7, <1>8, <1>9 DEF ReceiverStep

(* What is put into a queue is not for a peer that is not in the list yet. *)
LEMMA PutReads ==
    ASSUME IInv, NEW p \in Peers, NEW x \in Items, Put(p, x),
           rpc[p] # "opening" \/ p \in Names, UNCHANGED <<peers, rpc, indata>>,
           \A q \in Peers : Stopping(q)' => Stopping(q)
    PROVE  ReadInv'
<1>1. queue \in [Peers -> Seq(Items)] /\ ReadInv
  BY TypeParts DEF IInv, QueueOK
<1>2. Complete(Append(queue[p], x)) /\ queue' = [queue EXCEPT ![p] = Append(queue[p], x)]
  BY <1>1, WaitingAppend DEF Put, ReadInv
<1>. QED  BY <1>1, <1>2 DEF ReadInv, Names

(* Queues stay complete, and nobody stops or fills the queue of a peer     *)
(* that is about to connect.                                               *)
LEMMA ReadStep == IInv /\ [Next]_vars => ReadInv'
<1>. SUFFICES ASSUME IInv, [Next]_vars PROVE ReadInv'
  OBVIOUS
<1>0. CallOK /\ ReceiverOK /\ QueueOK /\ ListOK /\ CallInv /\ ReadInv /\ ListInv
  BY TypeParts DEF IInv
<1>1. ASSUME UNCHANGED <<peers, rpc, indata, queue>>, NEW r,
             rpc[r] # "opening" \/ r \in Names,
             \A q \in Peers : Stopping(q)' => Stopping(q) \/ q = r
      PROVE  ReadInv'
  BY <1>0, <1>1 DEF ReadInv, Names
<1>2. ASSUME NEW t \in Threads, NEW p \in Peers, StopCall(t, p) PROVE ReadInv'
  <2>1. rpc[p] # "opening" \/ p \in Names
    BY <1>2 DEF StopCall, Threads
  <2>2. \A q \in Peers : Stopping(q)' => Stopping(q) \/ q = p
    BY <1>0, <1>2 DEF StopCall, Step, Stopping, InStop, CallOK
  <2>. QED  BY <1>1, <1>2, <2>1, <2>2, CallFrame DEF receiving
<1>3. ASSUME UNCHANGED <<peers, rpc, indata, queue>>,
             \A q \in Peers : Stopping(q)' => Stopping(q)
      PROVE  ReadInv'
  BY <1>0, <1>3 DEF ReadInv, Names
<1>4. ASSUME NEW t \in Threads, NEW p \in Peers, NEW m \in Messages, NEW a \in Addresses,
             SendCall(t, p, m, a)
      PROVE  ReadInv'
  <2>1. \A q \in Peers : Stopping(q)' => Stopping(q)
    BY <1>0, <1>4 DEF SendCall, Step, Stopping, InStop, CallOK
  <2>. QED  BY <1>3, <1>4, <2>1, CallFrame DEF receiving
<1>5. ASSUME NEW t \in Threads, CallStep(t) \/ KillCall(t) PROVE ReadInv'
  <2>. USE DEF Step, Return, Stopping, InStop, CallOK
  <2>0. UNCHANGED <<peers, rpc, indata>>
    BY <1>5, CallFrame DEF receiving
  <2>1. CASE SendPut(t)
    <3>1. \A q \in Peers : Stopping(q)' => Stopping(q)
      BY <2>1 DEF SendPut
    <3>2. CASE Aims(t, peers[pos[t]])
      <4>1. pos[t] \in DOMAIN peers
        BY <1>0, <2>1, ListTypes DEF SendPut, CallInv
      <4>2. peers[pos[t]] \in Peers /\ peers[pos[t]] \in Names
        BY <1>0, <4>1, ListTypes DEF Names, ToSet
      <4>4. msg[t] \in Items /\ Put(peers[pos[t]], msg[t])
        BY <1>0, <2>1, <3>2 DEF SendPut, CallInv, Items
      <4>. HIDE DEF Step, Return, Stopping, InStop, CallOK
      <4>. QED  BY <2>0, <3>1, <4>2, <4>4, PutReads
    <3>3. CASE ~Aims(t, peers[pos[t]])
      <4>. HIDE DEF Step, Return, Stopping, InStop, CallOK
      <4>. QED  BY <1>3, <2>0, <2>1, <3>1, <3>3 DEF SendPut
    <3>. QED  BY <3>2, <3>3
  <2>2. CASE StopSentinel(t)
    <3>1. at[t] \in Peers /\ Stopping(at[t]) /\ StopSignal \in Items
      BY <1>0, <2>2 DEF StopSentinel, CallInv, Items
    <3>2. \A q \in Peers : Stopping(q)' => Stopping(q)
      BY <1>0, <2>2 DEF StopSentinel
    <3>3. rpc[at[t]] # "opening" \/ at[t] \in Names
      BY <1>0, <3>1 DEF ReadInv
    <3>. HIDE DEF Step, Return, Stopping, InStop, CallOK
    <3>. QED  BY <2>0, <2>2, <3>1, <3>2, <3>3, PutReads DEF StopSentinel
  <2>3. CASE KillNext(t)
    <3>1. pos[t] \in DOMAIN peers
      BY <1>0, <2>3, ListTypes DEF KillNext, CallInv
    <3>2. peers[pos[t]] \in Peers /\ peers[pos[t]] \in Names
      BY <1>0, <3>1, ListTypes DEF Names, ToSet
    <3>4. \A q \in Peers : Stopping(q)' => Stopping(q) \/ q = peers[pos[t]]
      BY <1>0, <2>3 DEF KillNext
    <3>. HIDE DEF Step, Return, Stopping, InStop, CallOK
    <3>. QED  BY <1>1, <2>0, <2>3, <3>2, <3>4 DEF KillNext
  <2>4. CASE SendFails(t) \/ SendBegin(t) \/ SendEnd(t)
    BY <1>0, <1>3, <2>0, <2>4 DEF SendFails, SendBegin, SendEnd
  <2>5. CASE StopSignalled(t) \/ StopJoined(t)
    BY <1>0, <1>3, <2>0, <2>5 DEF StopSignalled, StopJoined, StopEnds
  <2>6. CASE KillCall(t) \/ KillDetach(t) \/ KillEnd(t)
    BY <1>0, <1>3, <2>0, <2>6 DEF KillCall, KillDetach, KillEnd
  <2>. QED  BY <1>5, <2>1, <2>2, <2>3, <2>4, <2>5, <2>6
            DEF CallStep, SendStep, StopStep, KillStep
<1>6. CASE UNCHANGED vars
  BY <1>3, <1>6 DEF vars, receiving, using, Stopping, Names
<1>. QED  BY <1>2, <1>4, <1>5, <1>6, ReceiverReads DEF Next
-----------------------------------------------------------------------------
(* A new bus has no peers, and nobody uses it. *)
LEMMA InvInit == Init => IInv
<1>. SUFFICES ASSUME Init PROVE IInv
  OBVIOUS
<1>1. ReadInv
  BY WaitingEmpty DEF Init, ReadInv, Stopping, InStop
<1>2. ListInv
  BY DEF Init, ListInv, Names, ToSet, Connected
<1>3. LockInv /\ CallInv
  BY BusAssumption DEF Init, LockInv, CallInv, InStop
<1>. QED  BY <1>1, <1>2, <1>3, TypeInit DEF IInv

(* The inductive invariant holds in every state. *)
LEMMA Inductive == Spec => []IInv
<1>1. IInv /\ [Next]_vars => IInv'
  BY TypeStep, LockStep, ListStep, CallsStep, ReadStep DEF IInv
<1>. QED  BY <1>1, InvInit, PTL DEF Spec

(* The variables keep their types, for any number of peers, clients and    *)
(* messages: no queue ever holds more than it has room for.                *)
THEOREM TypeCorrect == Spec => []TypeOK
<1>1. IInv => TypeOK
  BY DEF IInv
<1>. QED  BY <1>1, Inductive, PTL
-----------------------------------------------------------------------------
(* The abstract broadcast                                                  *)

(* Only the holder of the lock distributes; it owes p its message once for *)
(* each entry of p in the rest of the list.                                *)
Busy(t) == tpc[t] \in {"put", "stuck"}
OwedBy(t, p) == IF p \in to[t] THEN Copies(Cardinality(Entries(p, pos[t])), msg[t]) ELSE <<>>
OwedInv == \A p \in Peers : /\ (\A t \in Threads : ~Busy(t)) => Owed(p) = <<>>
                            /\ \A t \in Threads : Busy(t) => Owed(p) = OwedBy(t, p)

(* What is owed, now ... *)
LEMMA OwedIs == IInv => OwedInv
<1>. SUFFICES ASSUME IInv, NEW p \in Peers
              PROVE  /\ (\A t \in Threads : ~Busy(t)) => Owed(p) = <<>>
                     /\ \A t \in Threads : Busy(t) => Owed(p) = OwedBy(t, p)
  BY DEF OwedInv
<1>1. ASSUME \A t \in Threads : ~Busy(t) PROVE Owed(p) = <<>>
  <2>1. Owing(p) = {}
    BY <1>1 DEF Owing, Busy
  <2>. QED  BY <2>1 DEF Owed
<1>2. ASSUME NEW t \in Threads, Busy(t) PROVE Owed(p) = OwedBy(t, p)
  <2>1. Owing(p) = IF p \in to[t] THEN {t} ELSE {}
    BY <1>2 DEF Owing, Busy, IInv, LockInv
  <2>2. (CHOOSE u \in {t} : TRUE) = t
    OBVIOUS
  <2>. QED  BY <2>1, <2>2 DEF Owed, OwedBy
<1>. QED  BY <1>1, <1>2

(* ... and after a step. *)
LEMMA OwedNext == IInv' => OwedInv'
BY OwedIs, PTL

(* The entries in the list from a position on, counted. *)
LEMMA EntriesCount ==
    ASSUME ListOK, NEW p, NEW k \in Nat \ {0}
    PROVE  /\ IsFiniteSet(Entries(p, k)) /\ Cardinality(Entries(p, k)) \in Nat
           /\ k > Len(peers) => Entries(p, k) = {}
           /\ k <= Len(peers) /\ peers[k] # p => Entries(p, k + 1) = Entries(p, k)
           /\ k <= Len(peers) /\ peers[k] = p =>
                 Cardinality(Entries(p, k)) = Cardinality(Entries(p, k + 1)) + 1
<1>1. Len(peers) \in Nat
  BY DEF ListOK
<1>2. \A i \in Nat \ {0} : IsFiniteSet(Entries(p, i)) /\ Cardinality(Entries(p, i)) \in Nat
  <2>1. ASSUME NEW i \in Nat \ {0}
        PROVE  IsFiniteSet(Entries(p, i)) /\ Cardinality(Entries(p, i)) \in Nat
    <3>1. IsFiniteSet(i .. Len(peers))
      BY <1>1, FS_Interval
    <3>2. IsFiniteSet(Entries(p, i))
      BY <3>1, FS_Subset DEF Entries
    <3>. QED  BY <3>2, FS_CardinalityType
  <2>. QED  BY <2>1
<1>3. k > Len(peers) => Entries(p, k) = {}
  BY <1>1 DEF Entries
<1>4. k <= Len(peers) /\ peers[k] # p => Entries(p, k + 1) = Entries(p, k)
  BY <1>1 DEF Entries
<1>5. ASSUME k <= Len(peers), peers[k] = p
      PROVE  Cardinality(Entries(p, k)) = Cardinality(Entries(p, k + 1)) + 1
  <2>1. Entries(p, k) = Entries(p, k + 1) \union {k} /\ k \notin Entries(p, k + 1)
    BY <1>1, <1>5 DEF Entries
  <2>2. k + 1 \in Nat \ {0}
    OBVIOUS
  <2>. QED  BY <1>2, <2>1, <2>2, FS_AddElement
<1>. QED  BY <1>2, <1>3, <1>4, <1>5

(* Copies of a message, and one of them that comes first. *)
LEMMA CopiesAre ==
    ASSUME NEW n \in Nat, NEW m \in Messages, NEW w \in Seq(Messages)
    PROVE  /\ Copies(n, m) \in Seq(Messages) /\ Len(Copies(n, m)) = n
           /\ w \o Copies(n + 1, m) = Append(w, m) \o Copies(n, m)
<1>. DEFINE c == Copies(n, m)
            d == Copies(n + 1, m)
            e == Append(w, m)
<1>1. /\ c \in Seq(Messages) /\ Len(c) = n /\ \A i \in 1 .. n : c[i] = m
      /\ d \in Seq(Messages) /\ Len(d) = n + 1 /\ \A i \in 1 .. n + 1 : d[i] = m
  BY DEF Copies
<1>2. /\ Len(w) \in Nat /\ e \in Seq(Messages) /\ Len(e) = Len(w) + 1
      /\ e[Len(w) + 1] = m /\ \A k \in 1 .. Len(w) : e[k] = w[k]
  BY AppendEntries
<1>. HIDE DEF c, d, e
<1>. DEFINE a == w \o d
            b == e \o c
<1>3. /\ a \in Seq(Messages) /\ Len(a) = Len(w) + Len(d)
      /\ \A k \in 1 .. Len(w) + Len(d) : a[k] = IF k <= Len(w) THEN w[k] ELSE d[k - Len(w)]
  <2>1. d \in Seq(Messages)
    BY <1>1
  <2>. QED  BY <2>1, ConcatProperties, Zenon
<1>4. /\ b \in Seq(Messages) /\ Len(b) = Len(e) + Len(c)
      /\ \A k \in 1 .. Len(e) + Len(c) : b[k] = IF k <= Len(e) THEN e[k] ELSE c[k - Len(e)]
  <2>1. c \in Seq(Messages) /\ e \in Seq(Messages)
    BY <1>1, <1>2
  <2>. QED  BY <2>1, ConcatProperties, Zenon
<1>. HIDE DEF a, b
<1>5. Len(a) = Len(w) + n + 1 /\ Len(b) = Len(w) + n + 1
  BY <1>1, <1>2, <1>3, <1>4
<1>6. ASSUME NEW k \in 1 .. Len(a) PROVE a[k] = b[k]
  <2>1. k \in Int /\ k >= 1 /\ k <= Len(w) + n + 1
    BY <1>2, <1>5
  <2>2. CASE k <= Len(w)
    <3>1. k \in 1 .. Len(w) + Len(d) /\ k \in 1 .. Len(e) + Len(c)
          /\ k <= Len(e) /\ k \in 1 .. Len(w)
      BY <1>1, <1>2, <2>1, <2>2
    <3>2. a[k] = w[k] /\ b[k] = e[k]
      BY <1>3, <1>4, <2>2, <3>1
    <3>. QED  BY <1>2, <3>1, <3>2
  <2>3. CASE k = Len(w) + 1
    <3>1. a[k] = d[1] /\ d[1] = m
      <4>1. k - Len(w) = 1 /\ ~(k <= Len(w)) /\ k \in 1 .. Len(w) + Len(d) /\ 1 \in 1 .. n + 1
        BY <1>1, <1>2, <2>3
      <4>. QED  BY <1>1, <1>3, <4>1
    <3>2. b[k] = e[k]
      <4>1. k <= Len(e) /\ k \in 1 .. Len(e) + Len(c)
        BY <1>1, <1>2, <2>1, <2>3
      <4>. QED  BY <1>4, <4>1
    <3>. QED  BY <1>2, <2>3, <3>1, <3>2
  <2>4. CASE k > Len(w) + 1
    <3>1. k - Len(w) \in 1 .. n + 1 /\ k - Len(e) \in 1 .. n
      BY <1>2, <2>1, <2>4
    <3>2. a[k] = d[k - Len(w)] /\ b[k] = c[k - Len(e)]
      BY <1>1, <1>2, <1>3, <1>4, <2>1, <2>4
    <3>. QED  BY <1>1, <3>1, <3>2
  <2>. QED  BY <1>2, <2>1, <2>2, <2>3, <2>4
<1>7. a = b
  BY <1>3, <1>4, <1>5, <1>6, SeqEqual
<1>. QED  BY <1>1, <1>7 DEF a, b, c, d, e

(* The first of a sequence that goes on, and its rest. *)
LEMMA HeadTailConcat ==
    ASSUME NEW S, NEW w \in Seq(S), NEW r \in Seq(S), w # <<>>
    PROVE  w \o r # <<>> /\ Head(w \o r) = Head(w) /\ Tail(w \o r) = Tail(w) \o r
<1>. DEFINE a == w \o r
            b == Tail(w) \o r
<1>1. /\ Tail(w) \in Seq(S) /\ Len(Tail(w)) = Len(w) - 1 /\ Len(w) \in Nat \ {0} /\ Head(w) = w[1]
      /\ \A k \in 1 .. Len(w) - 1 : Tail(w)[k] = w[k + 1]
  BY TailEntries
<1>2. /\ a \in Seq(S) /\ Len(a) = Len(w) + Len(r)
      /\ \A k \in 1 .. Len(w) + Len(r) : a[k] = IF k <= Len(w) THEN w[k] ELSE r[k - Len(w)]
  BY ConcatProperties, Zenon
<1>3. /\ b \in Seq(S) /\ Len(b) = Len(Tail(w)) + Len(r)
      /\ \A k \in 1 .. Len(Tail(w)) + Len(r) :
            b[k] = IF k <= Len(Tail(w)) THEN Tail(w)[k] ELSE r[k - Len(Tail(w))]
  BY <1>1, ConcatProperties, Zenon
<1>. HIDE DEF a, b
<1>4. Len(r) \in Nat /\ a # <<>>
  <2>1. Len(r) \in Nat
    OBVIOUS
  <2>2. Len(a) # 0
    BY <1>1, <1>2, <2>1
  <2>. QED  BY <2>1, <2>2
<1>5. /\ Tail(a) \in Seq(S) /\ Len(Tail(a)) = Len(a) - 1 /\ Head(a) = a[1]
      /\ \A k \in 1 .. Len(a) - 1 : Tail(a)[k] = a[k + 1]
  BY <1>2, <1>4, TailEntries
<1>6. Head(a) = Head(w)
  BY <1>1, <1>2, <1>4, <1>5
<1>7. ASSUME NEW k \in 1 .. Len(b) PROVE Tail(a)[k] = b[k]
  <2>1. k \in 1 .. Len(a) - 1 /\ k + 1 \in 1 .. Len(w) + Len(r) /\ Tail(a)[k] = a[k + 1]
    BY <1>1, <1>2, <1>3, <1>4, <1>5
  <2>2. CASE k <= Len(w) - 1
    BY <1>1, <1>2, <1>3, <1>4, <2>1, <2>2
  <2>3. CASE ~(k <= Len(w) - 1)
    <3>1. (k + 1) - Len(w) = k - Len(Tail(w))
      BY <1>1
    <3>. QED  BY <1>1, <1>2, <1>3, <1>4, <2>1, <2>3, <3>1
  <2>. QED  BY <2>2, <2>3
<1>8. Tail(a) = b
  BY <1>1, <1>2, <1>3, <1>4, <1>5, <1>7, SeqEqual
<1>. QED  BY <1>4, <1>6, <1>8 DEF a, b

(* What a queue and the messages in it are, and what is owed to its peer.  *)
LEMMA QueueFacts ==
    ASSUME IInv, NEW p \in Peers
    PROVE  /\ queue[p] \in Seq(Items) /\ Complete(queue[p]) /\ Waiting(queue[p]) \in Seq(Messages)
           /\ Owed(p) \in Seq(Messages)
<1>1. queue[p] \in Seq(Items) /\ Complete(queue[p]) /\ Waiting(queue[p]) \in Seq(Messages)
  BY QueueTypes, TypeParts, WaitingIs DEF IInv, ReadInv
<1>2. Owed(p) \in Seq(Messages)
  <2>1. CASE \A t \in Threads : ~Busy(t)
    <3>1. Owed(p) = <<>>
      BY <2>1, OwedIs DEF OwedInv
    <3>2. <<>> \in Seq(Messages)
      OBVIOUS
    <3>. QED  BY <3>1, <3>2
  <2>2. CASE \E t \in Threads : Busy(t)
    <3>1. PICK t \in Threads : Busy(t)
      BY <2>2
    <3>2. pos[t] \in Nat \ {0} /\ msg[t] \in Messages
      BY <3>1, TypeParts DEF IInv, CallInv, Busy, CallOK
    <3>3. Cardinality(Entries(p, pos[t])) \in Nat
      BY <3>2, EntriesCount, TypeParts DEF IInv
    <3>4. OwedBy(t, p) \in Seq(Messages)
      <4>1. Copies(Cardinality(Entries(p, pos[t])), msg[t]) \in Seq(Messages)
        <5>1. <<>> \in Seq(Messages)
          OBVIOUS
        <5>. QED  BY <3>2, <3>3, <5>1, CopiesAre
      <4>. QED  BY <4>1 DEF OwedBy
    <3>. QED  BY <3>1, <3>4, OwedIs DEF OwedInv
  <2>. QED  BY <2>1, <2>2
<1>. QED  BY <1>1, <1>2

(* A step that changes neither what p is owed nor the messages in its      *)
(* queue changes nothing of what is on its way to p.                       *)
LEMMA UnderwayKept ==
    ASSUME NEW p \in Peers, p \in Names <=> p \in Names',
           p \in Names => Waiting(queue[p])' = Waiting(queue[p]) /\ Owed(p)' = Owed(p)
    PROVE  Underway(p)' = Underway(p)
BY DEF Underway

(* What is owed changes with the list and with the loop over it only. *)
LEMMA OwedKept ==
    ASSUME IInv, IInv', UNCHANGED peers, NEW p \in Peers,
           \A t \in Threads : Busy(t)' <=> Busy(t),
           \A t \in Threads : Busy(t) => to'[t] = to[t] /\ pos'[t] = pos[t] /\ msg'[t] = msg[t]
    PROVE  Owed(p)' = Owed(p)
<1>0. OwedInv /\ OwedInv'
  BY OwedIs, OwedNext
<1>1. CASE \A t \in Threads : ~Busy(t)
  BY <1>0, <1>1 DEF OwedInv
<1>2. CASE \E t \in Threads : Busy(t)
  <2>1. PICK t \in Threads : Busy(t)
    BY <1>2
  <2>2. Owed(p) = OwedBy(t, p) /\ Owed(p)' = OwedBy(t, p)'
    BY <1>0, <2>1 DEF OwedInv
  <2>3. UNCHANGED <<peers, to[t], pos[t], msg[t]>>
    BY <2>1
  <2>4. Entries(p, pos[t])' = Entries(p, pos[t])
    BY <2>3 DEF Entries
  <2>5. OwedBy(t, p)' = OwedBy(t, p)
    BY <2>3, <2>4 DEF OwedBy, Copies
  <2>. QED  BY <2>2, <2>5
<1>. QED  BY <1>1, <1>2

(* The library's operators are the same there as here. *)
LEMMA SameOperators ==
    /\ \A s : BC!ToSet(s) = ToSet(s)
    /\ \A s, k : BC!RemoveAt(s, k) = RemoveAt(s, k)
    /\ \A S : BC!Cardinality(S) = Cardinality(S)
BY DEF BC!ToSet, ToSet, BC!RemoveAt, RemoveAt, BC!Cardinality, Cardinality

Taking == {p \in Peers : rpc[p] \in Connected}
Inbox == [p \in Peers |-> Underway(p)]
mapped == <<peers, Taking, sent, Inbox, indata>>

(* So a step is a stutter that leaves the list alone, goes on with nobody's *)
(* distribution and takes no message from a queue.                         *)
LEMMA Stutters ==
    ASSUME IInv, IInv', UNCHANGED <<peers, Taking, sent, indata>>,
           \A t \in Threads : Busy(t)' <=> Busy(t),
           \A t \in Threads : Busy(t) => to'[t] = to[t] /\ pos'[t] = pos[t] /\ msg'[t] = msg[t],
           \A p \in Peers : Waiting(queue[p])' = Waiting(queue[p])
    PROVE  UNCHANGED mapped
<1>1. UNCHANGED Names
  BY DEF Names
<1>2. ASSUME NEW p \in Peers PROVE Underway(p)' = Underway(p)
  BY <1>1, OwedKept, UnderwayKept
<1>. QED  BY <1>1, <1>2 DEF mapped, Inbox

(* While the lock is free, nothing is owed. *)
LEMMA FreeOwes ==
    ASSUME IInv, IInv', lock = None, lock' = None, NEW p \in Peers
    PROVE  Owed(p) = <<>> /\ Owed(p)' = <<>>
<1>1. \A t \in Threads : ~Busy(t) /\ ~Busy(t)'
  BY BusAssumption DEF IInv, LockInv, Busy
<1>. QED  BY <1>1, OwedIs, OwedNext DEF OwedInv

(* Connecting is joining: a newcomer has nothing waiting for it.           *)
LEMMA ConnectJoins ==
    ASSUME IInv, IInv', NEW p \in Peers, Connect(p)
    PROVE  BC!Join(p)
<1>0. ListOK /\ ListInv /\ ReadInv /\ ReceiverOK /\ lock = None /\ lock' = None
  BY TypeParts DEF IInv, Connect
<1>1. rpc[p] = "opening" /\ rpc' = [rpc EXCEPT ![p] = "entering"]
  BY <1>0 DEF Connect, Goto
<1>2. Names' = Names \union {p} /\ peers' = Append(peers, p)
  BY <1>0, Joining DEF Connect
<1>3. p \notin Taking /\ Taking' = Taking \union {p}
  BY <1>0, <1>1 DEF Taking, Connected, ReceiverOK
<1>4. UNCHANGED <<queue, sent, indata>>
  BY DEF Connect
<1>5. ASSUME NEW q \in Peers, q # p \/ p \in Names PROVE Underway(q)' = Underway(q)
  <2>1. Owed(q)' = Owed(q)
    BY <1>0, FreeOwes
  <2>. QED  BY <1>2, <1>4, <1>5, <2>1, UnderwayKept
<1>6. p \notin Names => Underway(p) = <<>> /\ Underway(p)' = <<>>
  <2>1. p \notin Names => queue'[p] = <<>> /\ p \in Names'
    BY <1>0, <1>1, <1>2, <1>4 DEF ReadInv
  <2>2. Owed(p)' = <<>>
    BY <1>0, FreeOwes
  <2>. QED  BY <2>1, <2>2, WaitingEmpty DEF Underway
<1>7. \A q \in Peers : Underway(q)' = Underway(q)
  BY <1>5, <1>6
<1>. QED  BY <1>2, <1>3, <1>4, <1>7 DEF BC!Join, Taking

(* Leaving forgoes what waits, unless a dead connection is left. *)
LEMMA LeaveLeaves ==
    ASSUME IInv, IInv', NEW p \in Peers, Leave(p)
    PROVE  BC!Leave(p)
<1>0. ListOK /\ ReceiverOK /\ lock = None /\ lock' = None /\ UNCHANGED <<queue, sent, indata>>
  BY TypeParts DEF IInv, Leave
<1>1. PICK k \in DOMAIN peers : peers[k] = p /\ peers' = RemoveAt(peers, k)
  BY DEF Leave
<1>2. \A q \in Peers : q # p => (q \in Names' <=> q \in Names)
  BY <1>0, <1>1, Leaving
<1>3. rpc[p] = "leaving" /\ rpc' = [rpc EXCEPT ![p] = "exiting"]
  BY DEF Leave, Goto
<1>4. p \in Taking /\ Taking' = Taking \ {p}
  BY <1>0, <1>3 DEF Taking, Connected, ReceiverOK
<1>5. \A q \in Peers : Owed(q)' = Owed(q)
  BY <1>0, FreeOwes
<1>6. ASSUME NEW q \in Peers, q # p PROVE Underway(q)' = Underway(q)
  BY <1>0, <1>2, <1>5, <1>6, UnderwayKept
<1>7. p \in Names
  BY <1>1 DEF Names, ToSet
<1>8. Underway(p)' = IF p \in Names' THEN Underway(p) ELSE <<>>
  BY <1>0, <1>5, <1>7 DEF Underway
<1>9. Inbox' = [Inbox EXCEPT ![p] = IF p \in ToSet(peers') THEN @ ELSE <<>>]
  BY <1>6, <1>8 DEF Inbox, Names
<1>. QED  BY <1>0, <1>1, <1>4, <1>9, SameOperators DEF BC!Leave, Taking, Inbox

(* A handler that raises is a peer that dies. *)
LEMMA RaiseDies ==
    ASSUME IInv, IInv', NEW p \in Peers, HandlerRaises(p)
    PROVE  BC!Die(p)
<1>0. ReadInv /\ ReceiverOK /\ UNCHANGED <<peers, queue, using, sent>>
  BY TypeParts DEF IInv, HandlerRaises
<1>1. rpc[p] = "handler" /\ rpc' = [rpc EXCEPT ![p] = "exiting"]
  BY DEF HandlerRaises, Goto
<1>2. p \in Taking /\ Taking' = Taking \ {p} /\ indata[p] # None
  BY <1>0, <1>1 DEF Taking, Connected, ReceiverOK, ReadInv
<1>3. \A q \in Peers : Underway(q)' = Underway(q)
  BY <1>0, OwedKept, UnderwayKept DEF using, Busy, Names
<1>. QED  BY <1>0, <1>2, <1>3 DEF BC!Die, Taking, HandlerRaises

(* A new queue: what waited in the old one is lost, nothing of what is     *)
(* still owed.                                                             *)
LEMMA StartForgets ==
    ASSUME IInv, IInv', NEW p \in Peers, Start(p)
    PROVE  BC!Forget(p)
<1>0. /\ ReceiverOK /\ QueueOK
      /\ UNCHANGED <<peers, lock, at, msg, to, pos, sent, indata>>
      /\ queue' = [queue EXCEPT ![p] = <<>>]
  BY TypeParts DEF IInv, Start
<1>1. rpc[p] = "down" /\ rpc' = [rpc EXCEPT ![p] = "opening"]
  BY DEF Start, Goto
<1>2. p \notin Taking /\ Taking' = Taking
  BY <1>0, <1>1 DEF Taking, Connected, ReceiverOK
<1>3. \A q \in Peers : Owed(q)' = Owed(q)
  <2>1. \A t \in Threads : Busy(t)' <=> Busy(t)
    BY ReceiverCalls DEF Busy
  <2>. QED  BY <1>0, <2>1, OwedKept
<1>4. UNCHANGED Names
  BY <1>0 DEF Names
<1>5. ASSUME NEW q \in Peers, q # p PROVE Underway(q)' = Underway(q)
  BY <1>0, <1>3, <1>4, <1>5, UnderwayKept DEF QueueOK
<1>6. \E n \in 0 .. Len(Underway(p)) :
         Underway(p)' = SubSeq(Underway(p), n + 1, Len(Underway(p)))
  <2>1. CASE p \notin Names
    <3>1. Underway(p) = <<>> /\ Underway(p)' = <<>>
      BY <1>4, <2>1 DEF Underway
    <3>2. Len(<<>>) = 0 /\ SubSeq(<<>>, 0 + 1, 0) = <<>>
      OBVIOUS
    <3>. QED  BY <3>1, <3>2
  <2>2. CASE p \in Names
    <3>. DEFINE w == Waiting(queue[p])
                r == Owed(p)
                u == w \o r
    <3>1. w \in Seq(Messages) /\ r \in Seq(Messages)
      BY QueueFacts
    <3>2. Underway(p) = u /\ Underway(p)' = <<>> \o r
      <4>1. queue'[p] = <<>>
        BY <1>0 DEF QueueOK
      <4>. QED  BY <1>3, <1>4, <2>2, <4>1, WaitingEmpty DEF Underway
    <3>. HIDE DEF w, r
    <3>3. <<>> \o r = r
      BY <3>1
    <3>4. /\ u \in Seq(Messages) /\ Len(u) = Len(w) + Len(r)
          /\ \A k \in 1 .. Len(w) + Len(r) : u[k] = IF k <= Len(w) THEN w[k] ELSE r[k - Len(w)]
      BY <3>1, ConcatProperties, Zenon
    <3>. HIDE DEF u
    <3>5. Len(w) \in 0 .. Len(u) /\ Len(r) \in Nat /\ Len(w) \in Nat
      BY <3>1, <3>4
    <3>6. SubSeq(u, Len(w) + 1, Len(u)) = r
      <4>. DEFINE v == SubSeq(u, Len(w) + 1, Len(u))
      <4>1. v \in Seq(Messages) /\ Len(v) = Len(r) /\ \A k \in 1 .. Len(r) : v[k] = u[k + Len(w)]
        BY <3>4, <3>5
      <4>. HIDE DEF v
      <4>2. ASSUME NEW k \in 1 .. Len(r) PROVE v[k] = r[k]
        <5>1. k + Len(w) \in 1 .. Len(w) + Len(r) /\ ~(k + Len(w) <= Len(w))
              /\ (k + Len(w)) - Len(w) = k
          BY <3>5
        <5>. QED  BY <3>4, <4>1, <5>1
      <4>3. v = r
        BY <3>1, <4>1, <4>2, SeqEqual
      <4>. QED  BY <4>3 DEF v
    <3>. QED  BY <3>2, <3>3, <3>5, <3>6
  <2>. QED  BY <2>1, <2>2
<1>7. PICK n \in 0 .. Len(Inbox[p]) :
         Inbox' = [Inbox EXCEPT ![p] = SubSeq(@, n + 1, Len(@))]
  BY <1>5, <1>6 DEF Inbox
<1>. QED  BY <1>0, <1>2, <1>7 DEF BC!Forget, Taking, Inbox

(* Taking a message from the queue is receiving the first one underway.    *)
LEMMA GetReceives ==
    ASSUME IInv, IInv', NEW p \in Peers, GetMessage(p)
    PROVE  BC!Receive(p)
<1>0. /\ ListInv /\ ReadInv /\ ReceiverOK /\ QueueOK /\ CallInv /\ rpc[p] = "get"
      /\ rpc' = [rpc EXCEPT ![p] = "handler"]
      /\ queue[p] # <<>> /\ Head(queue[p]) # StopSignal
  BY TypeParts DEF IInv, GetMessage, Goto
<1>1. p \in Names /\ indata[p] = None /\ UNCHANGED <<Names, peers, using, sent>>
  BY <1>0 DEF ListInv, ReadInv, Connected, GetMessage, Names
<1>2. \A q \in Peers : Owed(q)' = Owed(q)
  BY <1>1, OwedKept DEF using, Busy
<1>3. queue'[p] = Tail(queue[p]) /\ \A q \in Peers \ {p} : queue'[q] = queue[q]
  BY <1>0 DEF GetMessage, QueueOK
<1>4. ASSUME NEW q \in Peers, q # p PROVE Underway(q)' = Underway(q)
  BY <1>1, <1>2, <1>3, <1>4, UnderwayKept
<1>5. /\ Waiting(queue[p]) \in Seq(Messages) /\ Owed(p) \in Seq(Messages)
      /\ queue[p] \in Seq(Items) /\ Complete(queue[p])
  BY QueueFacts
<1>6. /\ Waiting(queue[p]) # <<>> /\ Head(Waiting(queue[p])) = Head(queue[p])
      /\ Waiting(queue[p])' = Tail(Waiting(queue[p]))
  BY <1>0, <1>3, <1>5, WaitingTail
<1>7. /\ Underway(p) # <<>> /\ Head(Underway(p)) = Head(queue[p])
      /\ Underway(p)' = Tail(Underway(p))
  <2>1. /\ Underway(p) = Waiting(queue[p]) \o Owed(p)
        /\ Underway(p)' = Tail(Waiting(queue[p])) \o Owed(p)
    BY <1>1, <1>2, <1>6 DEF Underway
  <2>. QED  BY <1>5, <1>6, <2>1, HeadTailConcat
<1>8. p \in Taking /\ Taking' = Taking
  BY <1>0 DEF Taking, Connected, ReceiverOK
<1>9. indata' = [indata EXCEPT ![p] = Head(queue[p])]
  BY DEF GetMessage
<1>. QED  BY <1>1, <1>4, <1>7, <1>8, <1>9 DEF BC!Receive, Taking

(* What the receiver thread does.                                          *)
LEMMA ReceiverMaps ==
    ASSUME IInv, IInv', NEW p \in Peers, Start(p) \/ ReceiverStep(p)
    PROVE  \/ BC!Join(p) \/ BC!Leave(p) \/ BC!Die(p) \/ BC!Forget(p)
           \/ BC!Receive(p) \/ BC!Finish(p) \/ UNCHANGED mapped
<1>0. ListInv /\ ReadInv /\ ReceiverOK /\ QueueOK
  BY TypeParts DEF IInv
<1>1. ASSUME UNCHANGED <<peers, indata, using, sent, Taking>>,
             \A q \in Peers : Waiting(queue[q])' = Waiting(queue[q])
      PROVE  UNCHANGED mapped
  BY <1>0, <1>1, Stutters DEF using, Busy
<1>. USE DEF Goto
<1>2. CASE GetStop(p)
  <2>1. \A q \in Peers : Waiting(queue[q])' = Waiting(queue[q])
    BY <1>0, <1>2, WaitingTail, QueueFacts DEF GetStop, QueueOK
  <2>2. UNCHANGED Taking
    BY <1>0, <1>2 DEF GetStop, Taking, Connected, ReceiverOK
  <2>. QED  BY <1>1, <1>2, <2>1, <2>2 DEF GetStop
<1>3. CASE HandlerReturns(p)
  <2>1. /\ UNCHANGED <<peers, queue, sent, Names, using>> /\ indata[p] # None
        /\ indata' = [indata EXCEPT ![p] = None]
    BY <1>0, <1>3 DEF HandlerReturns, ReadInv, Names
  <2>2. \A q \in Peers : Underway(q)' = Underway(q)
    BY <2>1, OwedKept, UnderwayKept DEF using, Busy
  <2>3. UNCHANGED Taking
    BY <1>0, <1>3 DEF HandlerReturns, Taking, Connected, ReceiverOK
  <2>. QED  BY <2>1, <2>2, <2>3 DEF BC!Finish, Taking
<1>4. CASE OpenFails(p) \/ RunEnter(p) \/ LoopCheck(p) \/ GetEmpty(p) \/ Exit(p)
  <2>1. UNCHANGED Taking
    BY <1>0, <1>4 DEF OpenFails, RunEnter, LoopCheck, GetEmpty, Exit, Taking, Connected, ReceiverOK
  <2>2. UNCHANGED <<peers, indata, using, sent, queue>>
    BY <1>4 DEF OpenFails, RunEnter, LoopCheck, GetEmpty, Exit
  <2>. QED  BY <1>1, <2>1, <2>2
<1>. QED  BY <1>2, <1>3, <1>4, ConnectJoins, LeaveLeaves, RaiseDies, StartForgets, GetReceives
          DEF ReceiverStep

(* A send that begins owes each of its receivers its message, which comes  *)
(* after all that is underway: in the abstract it reaches them all now.    *)
LEMMA BeginSends ==
    ASSUME IInv, IInv', NEW t \in Threads, SendBegin(t)
    PROVE  \E m \in Messages, all \in SUBSET ToSet(peers) : BC!Send(m, all)
<1>0. /\ ListOK /\ CallOK /\ CallInv /\ CallInv' /\ LockInv /\ lock = None
      /\ tpc[t] = "send" /\ tpc'[t] = "put" /\ pos'[t] = 1
      /\ UNCHANGED <<peers, queue, msg, indata, rpc>> /\ sent' = sent \union {msg[t]}
  BY TypeParts, BusAssumption DEF IInv, SendBegin, Step, CallOK, receiving
<1>. DEFINE all == to'[t]
<1>1. /\ msg[t] \in Messages /\ msg[t] \notin sent /\ all \subseteq Names
      /\ UNCHANGED <<Names, Taking>>
  BY <1>0 DEF CallInv, Names, Taking
<1>2. (\A u \in Threads : ~Busy(u)) /\ Busy(t)'
  BY <1>0, BusAssumption DEF LockInv, Busy
<1>3. \A q \in Peers : Owed(q) = <<>> /\ Owed(q)' = OwedBy(t, q)'
  BY <1>2, OwedIs, OwedNext DEF OwedInv
<1>4. ASSUME NEW q \in Peers
      PROVE  Underway(q)' = IF q \in all THEN Underway(q) \o BC!Copies(BC!Connections(q), msg[t])
                            ELSE Underway(q)
  <2>1. CASE q \in all
    <3>1. Entries(q, pos[t])' = {k \in DOMAIN peers : peers[k] = q}
      BY <1>0 DEF Entries, ListOK
    <3>2. Owed(q)' = BC!Copies(BC!Connections(q), msg[t])
      BY <1>0, <1>3, <2>1, <3>1, SameOperators DEF OwedBy, Copies, BC!Copies, BC!Connections
    <3>3. Waiting(queue[q]) \in Seq(Messages)
      BY QueueFacts
    <3>4. Underway(q) = Waiting(queue[q])
      <4>1. Underway(q) = Waiting(queue[q]) \o <<>>
        BY <1>1, <1>3, <2>1 DEF Underway
      <4>. QED  BY <3>3, <4>1, ConcatEmptySeq
    <3>5. Underway(q)' = Waiting(queue[q]) \o Owed(q)'
      BY <1>0, <1>1, <2>1 DEF Underway
    <3>. QED  BY <2>1, <3>2, <3>4, <3>5
  <2>2. CASE q \notin all
    <3>1. Owed(q)' = Owed(q)
      BY <1>3, <2>2 DEF OwedBy
    <3>. QED  BY <1>0, <1>1, <2>2, <3>1, UnderwayKept
  <2>. QED  BY <2>1, <2>2
<1>. HIDE DEF all
<1>5. BC!Send(msg[t], all)
  BY <1>0, <1>1, <1>4 DEF BC!Send, Taking
<1>. QED  BY <1>1, <1>5 DEF Names

(* In the loop over peers, what was owed is put into the queue. *)
LEMMA PutStutters ==
    ASSUME IInv, IInv', NEW t \in Threads, SendPut(t)
    PROVE  UNCHANGED mapped
<1>0. /\ ListOK /\ CallOK /\ CallInv /\ LockInv /\ QueueOK
      /\ tpc[t] = "put" /\ pos[t] <= Len(peers) /\ pos' = [pos EXCEPT ![t] = pos[t] + 1]
      /\ UNCHANGED <<peers, tpc, to, msg, sent, indata, rpc>>
  BY TypeParts DEF IInv, SendPut, receiving
<1>1. /\ pos[t] \in DOMAIN peers /\ pos[t] \in Nat \ {0} /\ pos'[t] = pos[t] + 1
      /\ msg[t] \in Messages
  BY <1>0 DEF CallInv, ListOK, CallOK
<1>r. PICK r \in Peers : r = peers[pos[t]]
  BY <1>0, <1>1, ListTypes
<1>2. r \in Names /\ UNCHANGED <<Names, Taking>>
  BY <1>0, <1>1, <1>r DEF Names, ToSet, Taking
<1>3. \A q \in Peers : Owed(q) = OwedBy(t, q) /\ Owed(q)' = OwedBy(t, q)'
  BY <1>0, OwedIs, OwedNext DEF OwedInv, Busy
<1>4. \A q \in Peers : Entries(q, pos[t])' = Entries(q, pos[t] + 1)
  BY <1>0, <1>1 DEF Entries
<1>5. ASSUME NEW q \in Peers, q # r \/ r \notin to[t] PROVE Underway(q)' = Underway(q)
  <2>1. q # r => Entries(q, pos[t])' = Entries(q, pos[t])
    BY <1>0, <1>1, <1>4, <1>r, EntriesCount
  <2>2. Owed(q)' = Owed(q)
    BY <1>0, <1>3, <1>5, <2>1 DEF OwedBy, Copies
  <2>3. queue'[q] = queue[q]
    BY <1>0, <1>5, <1>r DEF SendPut, Put, Aims, QueueOK
  <2>. QED  BY <1>2, <2>2, <2>3, UnderwayKept
<1>6. r \in to[t] => Underway(r)' = Underway(r)
  <2>. SUFFICES ASSUME r \in to[t] PROVE Underway(r)' = Underway(r)
    OBVIOUS
  <2>. DEFINE w == Waiting(queue[r])
              n == Cardinality(Entries(r, pos[t] + 1))
  <2>1. queue'[r] = Append(queue[r], msg[t])
    BY <1>0, <1>r DEF SendPut, Put, Aims, QueueOK
  <2>2. msg[t] # StopSignal /\ msg[t] \in Items
    BY <1>1, BusAssumption DEF Items
  <2>3. Waiting(queue[r])' = Append(w, msg[t]) /\ w \in Seq(Messages)
    BY <2>1, <2>2, WaitingAppend, QueueFacts
  <2>4. n \in Nat /\ Cardinality(Entries(r, pos[t])) = n + 1
    <3>1. pos[t] + 1 \in Nat \ {0}
      BY <1>1
    <3>. QED  BY <1>0, <1>1, <1>r, <3>1, EntriesCount
  <2>5. Owed(r) = Copies(n + 1, msg[t]) /\ Owed(r)' = Copies(n, msg[t])
    <3>1. Owed(r) = Copies(n + 1, msg[t])
      BY <1>3, <2>4 DEF OwedBy
    <3>2. Owed(r)' = Copies(Cardinality(Entries(r, pos[t]))', msg[t])
      BY <1>0, <1>3 DEF OwedBy, Copies
    <3>. QED  BY <1>4, <3>1, <3>2
  <2>6. w \o Copies(n + 1, msg[t]) = Append(w, msg[t]) \o Copies(n, msg[t])
    BY <1>1, <2>3, <2>4, CopiesAre
  <2>7. Underway(r) = w \o Owed(r) /\ Underway(r)' = Waiting(queue[r])' \o Owed(r)'
    BY <1>2 DEF Underway
  <2>. QED  BY <2>3, <2>5, <2>6, <2>7
<1>. QED  BY <1>0, <1>2, <1>5, <1>6 DEF mapped, Inbox

(* At the end of the list nothing is owed any more. *)
LEMMA EndStutters ==
    ASSUME IInv, IInv', NEW t \in Threads, SendEnd(t)
    PROVE  UNCHANGED mapped
<1>0. /\ ListOK /\ CallOK /\ CallInv /\ LockInv /\ tpc[t] = "put" /\ tpc'[t] = "idle"
      /\ pos[t] > Len(peers) /\ UNCHANGED <<peers, queue, sent, indata, rpc>>
      /\ \A u \in Threads : u # t => tpc'[u] = tpc[u]
  BY TypeParts DEF IInv, SendEnd, Return, Step, CallOK, receiving
<1>1. UNCHANGED <<Names, Taking>> /\ Busy(t) /\ \A u \in Threads : ~Busy(u)'
  BY <1>0 DEF Names, Taking, LockInv, Busy
<1>2. ASSUME NEW q \in Peers PROVE Owed(q) = <<>> /\ Owed(q)' = <<>>
  <2>1. pos[t] \in Nat \ {0}
    BY <1>0 DEF CallOK, CallInv
  <2>2. Cardinality(Entries(q, pos[t])) = 0
    BY <1>0, <2>1, EntriesCount, FS_EmptySet
  <2>3. OwedBy(t, q) = <<>>
    BY <2>2 DEF OwedBy, Copies
  <2>. QED  BY <1>1, <2>3, OwedIs, OwedNext DEF OwedInv
<1>3. ASSUME NEW q \in Peers PROVE Underway(q)' = Underway(q)
  BY <1>0, <1>1, <1>2, UnderwayKept
<1>. QED  BY <1>0, <1>1, <1>3 DEF mapped, Inbox

(* What send(), stop() and kill() do. *)
LEMMA CallMaps ==
    ASSUME IInv, IInv', NEW t \in Threads,
           \/ CallStep(t) \/ KillCall(t)
           \/ \E p \in Peers : \/ StopCall(t, p)
                               \/ \E m \in Messages, a \in Addresses : SendCall(t, p, m, a)
    PROVE  \/ \E m \in Messages, all \in SUBSET ToSet(peers) : BC!Send(m, all)
           \/ UNCHANGED mapped
<1>0. CallOK /\ QueueOK /\ CallInv /\ ListOK
  BY TypeParts DEF IInv
<1>1. ASSUME UNCHANGED <<peers, rpc, sent, indata, queue>>, ~Busy(t), ~Busy(t)',
             \A u \in Threads : u # t => /\ tpc'[u] = tpc[u] /\ to'[u] = to[u]
                                         /\ pos'[u] = pos[u] /\ msg'[u] = msg[u]
      PROVE  UNCHANGED mapped
  <2>1. \A u \in Threads : Busy(u)' <=> Busy(u)
    BY <1>1 DEF Busy
  <2>2. UNCHANGED Taking
    BY <1>1 DEF Taking
  <2>. QED  BY <1>1, <2>1, <2>2, Stutters
<1>. USE DEF Step, Return, CallOK, receiving, Busy
<1>2. CASE \E p \in Peers : StopCall(t, p)
  BY <1>0, <1>1, <1>2 DEF StopCall
<1>3. CASE \E p \in Peers, m \in Messages, a \in Addresses : SendCall(t, p, m, a)
  BY <1>0, <1>1, <1>3 DEF SendCall
<1>4. CASE StopSentinel(t)
  <2>1. at[t] \in Peers /\ queue' = [queue EXCEPT ![at[t]] = Append(queue[at[t]], StopSignal)]
    BY <1>0, <1>4 DEF StopSentinel, Put, CallInv, InStop
  <2>2. \A p \in Peers : Waiting(queue[p])' = Waiting(queue[p])
    BY <1>0, <2>1, WaitingAppend, QueueFacts DEF Items, QueueOK
  <2>3. UNCHANGED <<peers, Taking, sent, indata, to, pos, msg>>
        /\ \A u \in Threads : Busy(u)' <=> Busy(u)
    BY <1>0, <1>4 DEF StopSentinel, Taking
  <2>. QED  BY <2>2, <2>3, Stutters
<1>5. CASE SendFails(t)
  BY <1>0, <1>1, <1>5 DEF SendFails
<1>6. CASE StopSignalled(t) \/ StopJoined(t)
  BY <1>0, <1>1, <1>6 DEF StopSignalled, StopJoined, StopEnds
<1>7. CASE KillCall(t) \/ KillNext(t)
  BY <1>0, <1>1, <1>7 DEF KillCall, KillNext
<1>8. CASE KillDetach(t) \/ KillEnd(t)
  BY <1>0, <1>1, <1>8 DEF KillDetach, KillEnd
<1>. QED  BY <1>2, <1>3, <1>4, <1>5, <1>6, <1>7, <1>8, BeginSends, PutStutters, EndStutters
          DEF CallStep, SendStep, StopStep, KillStep

(* A new bus is a broadcast without members. *)
LEMMA InitMaps == Init => BC!Init
<1>. SUFFICES ASSUME Init PROVE BC!Init
  OBVIOUS
<1>1. Names = {} /\ {p \in Peers : rpc[p] \in Connected} = {}
  BY DEF Init, Names, ToSet, Connected
<1>. QED  BY <1>1 DEF Init, BC!Init, Underway

(* Every step is a step of the broadcast or a stutter. *)
LEMMA StepMaps == IInv /\ IInv' /\ [Next]_vars => BC!Next \/ UNCHANGED mapped
<1>. SUFFICES ASSUME IInv, IInv', [Next]_vars PROVE BC!Next \/ UNCHANGED mapped
  OBVIOUS
<1>1. ASSUME NEW p \in Peers, Start(p) \/ ReceiverStep(p) PROVE BC!Next \/ UNCHANGED mapped
  BY <1>1, ReceiverMaps DEF BC!Next
<1>2. ASSUME NEW t \in Threads,
             \/ CallStep(t) \/ KillCall(t)
             \/ \E p \in Peers : \/ StopCall(t, p)
                                 \/ \E m \in Messages, a \in Addresses : SendCall(t, p, m, a)
      PROVE  BC!Next \/ UNCHANGED mapped
  BY <1>2, CallMaps, SameOperators DEF BC!Next
<1>3. CASE UNCHANGED vars
  BY <1>3, Stutters DEF vars, receiving, using, Taking, Busy
<1>. QED  BY <1>1, <1>2, <1>3 DEF Next

(* The bus broadcasts: a message that finds all of its receivers connected *)
(* reaches them all at one point of one order, each once per entry in the  *)
(* list of peers, where only a peer whose handler has raised can be twice; *)
(* for any number of peers and senders, any use of stop() and kill(),      *)
(* handlers that raise, restarts after that, and queues of any size that   *)
(* fill up one by one (Bus.send, bus_transport.py).                        *)
THEOREM ImplementsBroadcast == Spec => BroadcastSpec
<1>1. IInv /\ IInv' /\ [Next]_vars
      => [BC!Next]_<<peers, {p \in Peers : rpc[p] \in Connected}, sent,
                     [p \in Peers |-> Underway(p)], indata>>
  BY StepMaps DEF mapped, Inbox, Taking
<1>. QED  BY <1>1, InitMaps, Inductive, PTL DEF Spec, BroadcastSpec, BC!Spec
=============================================================================
