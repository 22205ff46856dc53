--------------------------- MODULE AnnouncerProofs ---------------------------
(***************************************************************************)
(* Proofs about Announcer for any number of announcers, seekers, listeners *)
(* and filters: what seekers find is true, the loop over listeners that    *)
(* come and go misses only whom it has to, and a stray datagram does       *)
(* limited harm.                                                           *)
(***************************************************************************)
EXTENDS Announcer, Integers, SequenceTheorems, FiniteSetTheorems, TLAPS

(* A list with one more entry behind. *)
LEMMA AppendEntries ==
    ASSUME NEW S, NEW s \in Seq(S), NEW e \in S
    PROVE  /\ Append(s, e) \in Seq(S) /\ Len(Append(s, e)) = Len(s) + 1
           /\ \A k \in 1 .. Len(s) : Append(s, e)[k] = s[k]
           /\ Append(s, e)[Len(s) + 1] = e
           /\ Range(Append(s, e)) = Range(s) \union {e}
<1>1. /\ Append(s, e) \in Seq(S) /\ Len(s) \in Nat /\ Len(Append(s, e)) = Len(s) + 1
      /\ DOMAIN Append(s, e) = 1 .. Len(s) + 1 /\ DOMAIN s = 1 .. Len(s)
      /\ \A k \in 1 .. Len(s) : Append(s, e)[k] = s[k]
      /\ Append(s, e)[Len(s) + 1] = e
  OBVIOUS
<1>2. 1 .. Len(s) + 1 = (1 .. Len(s)) \union {Len(s) + 1}
  BY <1>1
<1>3. Range(Append(s, e)) = Range(s) \union {e}
  BY <1>1, <1>2 DEF Range
<1>. QED  BY <1>1, <1>3

(* What is behind the entry that is removed moves up by one place.         *)
LEMMA RemoveAtEntries ==
    ASSUME NEW S, NEW s \in Seq(S), NEW pos \in 1..Len(s)
    PROVE  /\ RemoveAt(s, pos) \in Seq(S)
           /\ Len(RemoveAt(s, pos)) = Len(s) - 1
           /\ \A j \in 1..Len(s) - 1 :
                 RemoveAt(s, pos)[j] = IF j < pos THEN s[j] ELSE s[j + 1]
<1>. DEFINE before == SubSeq(s, 1, pos - 1)
            behind == SubSeq(s, pos + 1, Len(s))
<1>1. /\ before \in Seq(S) /\ Len(before) = pos - 1 /\ \A j \in 1..pos - 1 : before[j] = s[j]
      /\ behind \in Seq(S) /\ Len(behind) = Len(s) - pos
      /\ \A j \in 1..Len(s) - pos : behind[j] = s[j + pos]
  OBVIOUS
<1>2. RemoveAt(s, pos) = before \o behind
  BY DEF RemoveAt
<1>. HIDE DEF before, behind
<1>3. /\ before \o behind \in Seq(S) /\ Len(before \o behind) = Len(before) + Len(behind)
      /\ \A j \in 1..Len(before) + Len(behind) :
            (before \o behind)[j] = IF j <= Len(before) THEN before[j]
                                    ELSE behind[j - Len(before)]
  BY <1>1, ConcatProperties, Zenon
<1>4. ASSUME NEW j \in 1..Len(s) - 1
      PROVE  (before \o behind)[j] = IF j < pos THEN s[j] ELSE s[j + 1]
  <2>0. j \in 1..Len(before) + Len(behind)
    BY <1>1
  <2>1. CASE j < pos
    BY <2>0, <2>1, <1>1, <1>3
  <2>2. CASE ~(j < pos)
    <3>1. j - (pos - 1) \in 1..Len(s) - pos /\ ~(j <= pos - 1) /\ (j - (pos - 1)) + pos = j + 1
      BY <2>2
    <3>2. (before \o behind)[j] = behind[j - (pos - 1)]
      BY <2>0, <3>1, <1>1, <1>3
    <3>3. behind[j - (pos - 1)] = s[(j - (pos - 1)) + pos]
      BY <3>1, <1>1
    <3>. QED  BY <2>2, <3>1, <3>2, <3>3
  <2>. QED  BY <2>1, <2>2
<1>. QED  BY <1>1, <1>2, <1>3, <1>4

(* It has no repetitions if the list had none; and what was in another     *)
(* place than the one that is removed is still there, not behind its old   *)
(* place.                                                                  *)
LEMMA RemoveAtKeeps ==
    ASSUME NEW S, NEW s \in Seq(S), NEW pos \in 1..Len(s)
    PROVE  /\ IsInjective(s) => IsInjective(RemoveAt(s, pos))
           /\ \A k \in DOMAIN s \ {pos} : \E j \in DOMAIN RemoveAt(s, pos) :
                  RemoveAt(s, pos)[j] = s[k] /\ j <= k
<1>. DEFINE M == RemoveAt(s, pos)
<1>1. /\ DOMAIN s = 1..Len(s) /\ Len(s) \in Nat /\ pos \in Nat
      /\ DOMAIN M = 1..Len(s) - 1
      /\ \A j \in 1..Len(s) - 1 : M[j] = IF j < pos THEN s[j] ELSE s[j + 1]
  <2>1. M \in Seq(S) /\ Len(M) = Len(s) - 1
    BY RemoveAtEntries
  <2>2. \A j \in 1..Len(s) - 1 : M[j] = IF j < pos THEN s[j] ELSE s[j + 1]
    BY RemoveAtEntries
  <2>. QED  BY <2>1, <2>2
<1>. HIDE DEF M
<1>2. IsInjective(s) => IsInjective(M)
  <2>1. \A j \in DOMAIN M : \E m \in DOMAIN s :
           M[j] = s[m] /\ m = IF j < pos THEN j ELSE j + 1
    BY <1>1
  <2>. SUFFICES ASSUME IsInjective(s), NEW j \in DOMAIN M, NEW k \in DOMAIN M, M[j] = M[k]
                PROVE  j = k
    BY DEF IsInjective
  <2>2. PICK m \in DOMAIN s : M[j] = s[m] /\ m = IF j < pos THEN j ELSE j + 1
    BY <2>1
  <2>3. PICK n \in DOMAIN s : M[k] = s[n] /\ n = IF k < pos THEN k ELSE k + 1
    BY <2>1
  <2>4. m = n
    BY <2>2, <2>3 DEF IsInjective
  <2>. QED  BY <1>1, <2>2, <2>3, <2>4
<1>3. ASSUME NEW k \in DOMAIN s, k # pos
      PROVE  \E j \in DOMAIN M : M[j] = s[k] /\ j <= k
  <2>1. CASE k < pos
    <3>1. k \in DOMAIN M /\ M[k] = s[k]
      BY <1>1, <2>1
    <3>. QED  BY <3>1, <1>1
  <2>2. CASE k > pos
    <3>1. k - 1 \in DOMAIN M /\ M[k - 1] = s[k]
      BY <1>1, <2>2
    <3>. QED  BY <3>1, <1>1
  <2>. QED  BY <1>1, <1>3, <2>1, <2>2
<1>. QED  BY <1>2, <1>3 DEF M
-----------------------------------------------------------------------------
(* An announcer has the list of its process; a seeker has a list of its    *)
(* own.                                                                    *)
LEMMA OwnerType ==
    /\ \A x \in Apis : Owner(x) \in Owners
    /\ \A a \in Announcers : a \in Apis /\ Owner(a) = Process[a]
    /\ \A s \in Seekers : s \in Apis /\ Owner(s) = s /\ s \notin Announcers
BY Disjoint DEF Owner, Owners, Apis

(* In the beginning the lists of the announcers are empty, and those of    *)
(* the seekers hold all listeners in some order.                           *)
LEMMA TypeInit == Init => TypeOK
<1>. SUFFICES ASSUME Init PROVE TypeOK
  OBVIOUS
<1>1. PICK connected \in SetToSeqs(Listeners) :
          listeners = [o \in Owners |-> IF o \in Seekers THEN connected ELSE <<>>]
  BY DEF Init
<1>2. connected \in Seq(Listeners)
  <2>1. Cardinality(Listeners) \in Nat
    BY Finite, FS_CardinalityType
  <2>2. connected \in [1..Cardinality(Listeners) -> Listeners]
    BY DEF SetToSeqs
  <2>. QED  BY <2>1, <2>2, SeqDef
<1>3. listeners \in [Owners -> Seq(Announcers \union Listeners)]
  BY <1>1, <1>2
<1>4. \A a \in Announcers : Range(listeners[Process[a]]) \subseteq Announcers
  BY <1>1, OwnerType, Disjoint DEF Range
<1>5. \A s \in Seekers : Range(listeners[s]) \subseteq Listeners
  BY <1>1, <1>2, OwnerType DEF Range
<1>. QED
  BY <1>3, <1>4, <1>5 DEF Init, TypeOK, Leftovers

(* What is left of the list of a seeker is a list of its listeners.        *)
LEMMA ListShrinks ==
    ASSUME TypeOK, NEW s \in Seekers, NEW pos \in 1..Len(listeners[s])
    PROVE  LET rest == RemoveAt(listeners[s], pos)
           IN rest \in Seq(Announcers \union Listeners) /\ Range(rest) \subseteq Listeners
<1>. DEFINE rest == RemoveAt(listeners[s], pos)
<1>1. listeners[s] \in Seq(Announcers \union Listeners) /\ Range(listeners[s]) \subseteq Listeners
  BY OwnerType DEF TypeOK
<1>2. /\ rest \in Seq(Announcers \union Listeners) /\ Len(rest) = Len(listeners[s]) - 1
      /\ \A j \in 1..Len(listeners[s]) - 1 :
            rest[j] = IF j < pos THEN listeners[s][j] ELSE listeners[s][j + 1]
  BY <1>1, RemoveAtEntries
<1>. HIDE DEF rest
<1>3. Range(rest) \subseteq Listeners
  BY <1>1, <1>2 DEF Range
<1>. QED  BY <1>2, <1>3 DEF rest

Inboxes == [Apis -> [Datagrams \union {Stray} -> Nat]]
Due(x, d) == up[x] /\ (d # Stray => Incoming(x, d))
DueInv == \A x \in Apis, d \in Datagrams \union {Stray} : inbox[x][d] > 0 => Due(x, d)
InboxInv == inbox \in Inboxes /\ DueInv

(* What TypeOK says of the inboxes, for the lemmas about them: only        *)
(* sockets that are open hold datagrams, and only those that call a method *)
(* of theirs.                                                              *)
LEMMA InboxType == TypeOK => InboxInv
BY DEF TypeOK, InboxInv, DueInv, Inboxes, Due

(* The inboxes after a broadcast, while the sockets are as they were. *)
LEMMA BroadcastType ==
    ASSUME InboxInv, UNCHANGED up, NEW d \in Datagrams, Broadcast(d)
    PROVE  InboxInv'
<1>1. ASSUME NEW x \in Apis
      PROVE  /\ inbox'[x] \in [Datagrams \union {Stray} -> Nat]
             /\ \A e \in Datagrams \union {Stray} : inbox'[x][e] > 0 => Due(x, e)
  <2>1. /\ inbox[x] \in [Datagrams \union {Stray} -> Nat]
        /\ \A e \in Datagrams \union {Stray} : inbox[x][e] > 0 => Due(x, e)
    BY DEF InboxInv, DueInv, Inboxes
  <2>2. CASE up[x] /\ Incoming(x, d)
    <3>1. inbox'[x] = [inbox[x] EXCEPT ![d] = @ + 1]
      BY <2>2 DEF Broadcast
    <3>2. Due(x, d)
      BY <2>2 DEF Due
    <3>. QED  BY <2>1, <3>1, <3>2
  <2>3. CASE ~(up[x] /\ Incoming(x, d))
    BY <2>1, <2>3 DEF Broadcast
  <2>. QED  BY <2>2, <2>3
<1>2. inbox' \in Inboxes
  BY <1>1 DEF Broadcast, Inboxes
<1>3. \A x \in Apis, e \in Datagrams \union {Stray} : Due(x, e)' = Due(x, e)
  BY DEF Due, Incoming
<1>. QED  BY <1>1, <1>2, <1>3 DEF InboxInv, DueInv

(* One kind of datagram gets more or less in one inbox, of an open socket. *)
LEMMA CountType ==
    ASSUME InboxInv, UNCHANGED up, NEW x \in Apis, NEW d \in Datagrams \union {Stray},
           NEW n \in Nat, Due(x, d), inbox' = [inbox EXCEPT ![x][d] = n]
    PROVE  InboxInv'
<1>1. inbox[x] \in [Datagrams \union {Stray} -> Nat]
  BY DEF InboxInv, Inboxes
<1>2. /\ inbox' \in Inboxes
      /\ \A y \in Apis, e \in Datagrams \union {Stray} :
            inbox'[y][e] = IF y = x /\ e = d THEN n ELSE inbox[y][e]
  BY <1>1 DEF InboxInv, Inboxes
<1>3. \A y \in Apis, e \in Datagrams \union {Stray} : Due(y, e)' = Due(y, e)
  BY DEF Due, Incoming
<1>. QED  BY <1>2, <1>3 DEF InboxInv, DueInv

(* What a socket received was due to it.                                   *)
LEMMA TakeType ==
    ASSUME InboxInv, UNCHANGED up, NEW x \in Apis, NEW d \in Datagrams \union {Stray}, Take(x, d)
    PROVE  InboxInv' /\ Due(x, d)
<1>1. /\ inbox[x][d] - 1 \in Nat /\ Due(x, d)
      /\ inbox' = [inbox EXCEPT ![x][d] = inbox[x][d] - 1]
  BY DEF Take, InboxInv, Inboxes, DueInv
<1>. QED  BY <1>1, CountType
-----------------------------------------------------------------------------
(* Steps that touch neither the lists of listeners nor a call.             *)
Network == \/ \E x \in Apis : Start(x) \/ Stop(x) \/ StraySent(x) \/ ReceiveOther(x)
                              \/ ReceiveStray(x)
           \/ \E x \in Apis, d \in Datagrams :
                  Lose(x, d) \/ Duplicate(x, d) \/ ReceiveSpoiled(x, d) \/ ReceiveCut(x, d)
           \/ \E s \in Seekers, f \in DOMAIN Matches : Seek(s, f)

(* They keep the types. *)
LEMMA NetworkType == TypeOK /\ Network => TypeOK'
<1>. SUFFICES ASSUME TypeOK, Network PROVE TypeOK'
  OBVIOUS
<1>1. UNCHANGED <<setup, listeners, at, found>>
  BY DEF Network, Start, Stop, StraySent, ReceiveOther, ReceiveStray, Lose, Duplicate,
         ReceiveSpoiled, ReceiveCut, Seek, setup
<1>2. InboxInv
  BY InboxType
<1>3. InboxInv' /\ up' \in [Apis -> BOOLEAN] /\ \A x \in Apis : at[x] # Idle => up'[x]
  <2>0. up \in [Apis -> BOOLEAN] /\ \A x \in Apis : at[x] # Idle => up[x]
    BY DEF TypeOK
  <2>1. ASSUME NEW x \in Apis, Start(x) PROVE InboxInv' /\ up' = [up EXCEPT ![x] = TRUE]
    BY <1>2, <2>0, <2>1 DEF Start, InboxInv, Inboxes, DueInv, Due, Incoming
  <2>2. ASSUME NEW x \in Apis, Stop(x)
        PROVE  InboxInv' /\ up' = [up EXCEPT ![x] = FALSE] /\ at[x] = Idle
    <3>1. /\ up' = [up EXCEPT ![x] = FALSE] /\ at[x] = Idle
          /\ inbox' = [inbox EXCEPT ![x] = [d \in DOMAIN inbox[x] |-> 0]]
      BY <2>2 DEF Stop
    <3>2. inbox \in Inboxes /\ DOMAIN inbox[x] = Datagrams \union {Stray}
      BY <1>2 DEF InboxInv, Inboxes
    <3>3. /\ inbox' \in Inboxes /\ \A d \in Datagrams \union {Stray} : inbox'[x][d] = 0
          /\ \A y \in Apis \ {x} : inbox'[y] = inbox[y] /\ up'[y] = up[y]
      BY <3>1, <3>2, <2>0 DEF Inboxes
    <3>4. \A y \in Apis \ {x}, d \in Datagrams \union {Stray} : Due(y, d)' = Due(y, d)
      BY <3>3 DEF Due, Incoming
    <3>. QED  BY <1>2, <3>1, <3>3, <3>4 DEF InboxInv, DueInv
  <2>3. ASSUME NEW x \in Apis, StraySent(x) PROVE InboxInv' /\ UNCHANGED up
    <3>1. inbox[x][Stray] + 1 \in Nat
      BY <1>2 DEF InboxInv, Inboxes
    <3>2. up[x] /\ UNCHANGED up /\ inbox' = [inbox EXCEPT ![x][Stray] = inbox[x][Stray] + 1]
      BY <2>3 DEF StraySent
    <3>. QED  BY <1>2, <3>1, <3>2, CountType DEF Due
  <2>4. ASSUME NEW x \in Apis, ReceiveOther(x) PROVE InboxInv' /\ UNCHANGED up
    BY <1>2, <2>4 DEF ReceiveOther, InboxInv, DueInv, Due, Incoming
  <2>5. ASSUME NEW x \in Apis, NEW d \in Datagrams, Lose(x, d) \/ Duplicate(x, d)
        PROVE  InboxInv' /\ UNCHANGED up
    <3>1. inbox[x][d] - 1 \in Nat /\ inbox[x][d] + 1 \in Nat /\ Due(x, d)
      BY <1>2, <2>5 DEF InboxInv, Inboxes, DueInv, Lose, Duplicate
    <3>2. /\ UNCHANGED up
          /\ \/ inbox' = [inbox EXCEPT ![x][d] = inbox[x][d] - 1]
             \/ inbox' = [inbox EXCEPT ![x][d] = inbox[x][d] + 1]
      BY <2>5 DEF Lose, Duplicate
    <3>. QED  BY <1>2, <3>1, <3>2, CountType
  <2>6. ASSUME NEW x \in Apis, NEW d \in Datagrams \union {Stray},
               (d = Stray /\ ReceiveStray(x)) \/ ReceiveSpoiled(x, d) \/ ReceiveCut(x, d)
        PROVE  InboxInv' /\ UNCHANGED up
    <3>1. Take(x, d) /\ UNCHANGED up
      BY <2>6 DEF ReceiveStray, ReceiveSpoiled, ReceiveCut
    <3>. QED  BY <1>2, <3>1, TakeType
  <2>7. ASSUME NEW s \in Seekers, NEW f \in DOMAIN Matches, Seek(s, f)
        PROVE  InboxInv' /\ UNCHANGED up
    <3>1. <<"seek", f>> \in Datagrams /\ Broadcast(<<"seek", f>>) /\ UNCHANGED up
      BY <2>7 DEF Seek, Datagrams
    <3>. QED  BY <1>2, <3>1, BroadcastType
  <2>. QED  BY <2>0, <2>1, <2>2, <2>3, <2>4, <2>5, <2>6, <2>7 DEF Network
<1>4. leftover' \in [Apis -> Leftovers]
  <2>1. leftover \in [Apis -> Leftovers] /\ "none" \in Leftovers
    BY DEF TypeOK, Leftovers
  <2>2. ASSUME NEW x \in Apis, ReceiveStray(x) PROVE leftover' \in [Apis -> Leftovers]
    BY <2>1, <2>2 DEF ReceiveStray
  <2>3. ASSUME NEW x \in Apis, ReceiveOther(x) PROVE leftover' \in [Apis -> Leftovers]
    BY <2>1, <2>3 DEF ReceiveOther
  <2>4. ASSUME NEW x \in Apis, NEW d \in Datagrams, ReceiveSpoiled(x, d)
        PROVE  leftover' \in [Apis -> Leftovers]
    BY <2>1, <2>4 DEF ReceiveSpoiled
  <2>5. \/ UNCHANGED leftover
        \/ \E x \in Apis : ReceiveStray(x) \/ ReceiveOther(x)
        \/ \E x \in Apis, d \in Datagrams : ReceiveSpoiled(x, d)
    BY DEF Network, Start, Stop, StraySent, Lose, Duplicate, ReceiveCut, Seek
  <2>. QED  BY <2>1, <2>2, <2>3, <2>4, <2>5
<1>. QED  BY <1>1, <1>3, <1>4 DEF TypeOK, InboxInv, DueInv, Due, Inboxes, setup

(* Steps that change lists of listeners or calls. *)
LEMMA ConnectType ==
    ASSUME TypeOK
    PROVE  /\ \A a \in Announcers : Make(a) => TypeOK'
           /\ \A s \in Seekers, l \in Listeners : Connect(s, l) => TypeOK'
<1>1. ASSUME NEW o \in Owners, NEW l \in Announcers \union Listeners,
             o \in Seekers => l \in Listeners,
             (\E a \in Announcers : o = Process[a]) => l \in Announcers,
             listeners' = [listeners EXCEPT ![o] = Append(@, l)],
             UNCHANGED <<setup, up, inbox, leftover, at, found>>
      PROVE  TypeOK'
  <2>1. listeners[o] \in Seq(Announcers \union Listeners)
    BY DEF TypeOK
  <2>2. /\ Append(listeners[o], l) \in Seq(Announcers \union Listeners)
        /\ Range(Append(listeners[o], l)) = Range(listeners[o]) \union {l}
    BY <2>1, AppendEntries
  <2>3. /\ listeners' \in [Owners -> Seq(Announcers \union Listeners)]
        /\ \A a \in Announcers : Range(listeners'[Process[a]]) \subseteq Announcers
        /\ \A s \in Seekers : Range(listeners'[s]) \subseteq Listeners
    BY <1>1, <2>2, OwnerType DEF TypeOK
  <2>. QED  BY <1>1, <2>3 DEF TypeOK, setup
<1>2. ASSUME NEW a \in Announcers, Make(a) PROVE TypeOK'
  <2>1. /\ a \in Announcers \union Listeners /\ Process[a] \in Owners /\ Process[a] \notin Seekers
        /\ listeners' = [listeners EXCEPT ![Process[a]] = Append(@, a)]
        /\ UNCHANGED <<setup, up, inbox, leftover, at, found>>
    BY <1>2, OwnerType, Disjoint DEF Make
  <2>. QED  BY <2>1, <1>1
<1>3. ASSUME NEW s \in Seekers, NEW l \in Listeners, Connect(s, l) PROVE TypeOK'
  <2>1. /\ l \in Announcers \union Listeners /\ s \in Owners
        /\ ~ \E a \in Announcers : s = Process[a]
        /\ listeners' = [listeners EXCEPT ![s] = Append(@, l)]
        /\ UNCHANGED <<setup, up, inbox, leftover, at, found>>
    BY <1>3, OwnerType, Disjoint DEF Connect
  <2>. QED  BY <2>1, <1>1
<1>. QED  BY <1>2, <1>3

(* A listener leaves the list of seeker s, and the call it has is call. *)
LEMMA DisconnectedType ==
    ASSUME TypeOK, NEW s \in Seekers, NEW pos \in 1..Len(listeners[s]), Disconnected(s, pos),
           NEW call \in Calls \union {Idle}, at' = [at EXCEPT ![s] = call],
           call # Idle => /\ up[s] /\ call.i \in 1 .. Len(call.called) + 1
                          /\ call.arg \in Announcers,
           UNCHANGED <<setup, up, inbox, leftover, found>>
    PROVE  TypeOK'
<1>1. /\ RemoveAt(listeners[s], pos) \in Seq(Announcers \union Listeners)
      /\ Range(RemoveAt(listeners[s], pos)) \subseteq Listeners
  BY ListShrinks
<1>2. /\ listeners' \in [Owners -> Seq(Announcers \union Listeners)]
      /\ \A a \in Announcers : Range(listeners'[Process[a]]) \subseteq Announcers
      /\ \A t \in Seekers : Range(listeners'[t]) \subseteq Listeners
  BY <1>1, OwnerType, Disjoint DEF TypeOK, Disconnected
<1>3. /\ at' \in [Apis -> Calls \union {Idle}]
      /\ \A x \in Apis : at'[x] # Idle =>
             /\ up[x] /\ at'[x].i \in 1 .. Len(at'[x].called) + 1
             /\ at'[x].arg \in (IF x \in Announcers THEN DOMAIN Matches ELSE Announcers)
  BY OwnerType DEF TypeOK
<1>. QED  BY <1>2, <1>3 DEF TypeOK, setup

(* What the next listener is, and the call after it. *)
LEMMA StepType ==
    ASSUME TypeOK, NEW x \in Apis, HasNext(x)
    PROVE  LET l == NextListener(x)
               call == Step(at[x], l)
           IN /\ at[x] \in Calls /\ at[x].i \in 1..Len(listeners[Owner(x)])
              /\ l \in Announcers \union Listeners
              /\ x \in Announcers => l \in Announcers
              /\ x \in Seekers => l \in Listeners
              /\ call \in Calls /\ call.i = at[x].i + 1 /\ call.arg = at[x].arg
              /\ call.called = Append(at[x].called, l) /\ call.i \in 1..Len(call.called) + 1
              /\ call.steady = at[x].steady /\ call.passed = at[x].passed
<1>. DEFINE l == NextListener(x)
<1>1. /\ at[x] \in Calls /\ at[x].i \in 1..Len(at[x].called) + 1
      /\ Owner(x) \in Owners /\ listeners[Owner(x)] \in Seq(Announcers \union Listeners)
  BY OwnerType DEF TypeOK, HasNext
<1>2. at[x].i \in Nat \ {0} /\ at[x].called \in Seq(Announcers \union Listeners)
  BY <1>1 DEF Calls
<1>3. at[x].i \in 1..Len(listeners[Owner(x)])
  BY <1>1, <1>2 DEF HasNext
<1>4. l \in Range(listeners[Owner(x)]) /\ l \in Announcers \union Listeners
  BY <1>1, <1>3 DEF NextListener, Range
<1>5. (x \in Announcers => l \in Announcers) /\ (x \in Seekers => l \in Listeners)
  BY <1>4, OwnerType DEF TypeOK
<1>. HIDE DEF l
<1>6. /\ Append(at[x].called, l) \in Seq(Announcers \union Listeners)
      /\ Len(Append(at[x].called, l)) = Len(at[x].called) + 1 /\ Len(at[x].called) \in Nat
  BY <1>2, <1>4
<1>7. at[x].i + 1 \in Nat \ {0} /\ at[x].i + 1 \in 1..Len(Append(at[x].called, l)) + 1
  BY <1>1, <1>2, <1>6
<1>8. /\ Step(at[x], l) \in Calls /\ Step(at[x], l).i = at[x].i + 1
      /\ Step(at[x], l).called = Append(at[x].called, l)
      /\ Step(at[x], l).arg = at[x].arg /\ Step(at[x], l).steady = at[x].steady
      /\ Step(at[x], l).passed = at[x].passed
  BY <1>1, <1>6, <1>7 DEF Step, Calls
<1>. QED  BY <1>1, <1>3, <1>4, <1>5, <1>7, <1>8 DEF l

(* The call after another listener has left the list.                      *)
LEMMA WithoutType ==
    ASSUME NEW call \in Calls, NEW pos \in Nat, NEW l
    PROVE  LET rest == Without(call, pos, l)
           IN /\ rest \in Calls /\ rest.i = call.i /\ rest.arg = call.arg /\ rest.called = call.called
              /\ rest.steady = call.steady \ {l}
              /\ rest.passed = IF pos < call.i THEN call.passed + 1 ELSE call.passed
<1>1. call.steady \ {l} \in SUBSET (Announcers \union Listeners) /\ call.passed + 1 \in Nat
  BY DEF Calls
<1>2. Without(call, pos, l) =
          [[call EXCEPT !.steady = call.steady \ {l}]
                EXCEPT !.passed = IF pos < call.i THEN call.passed + 1 ELSE call.passed]
  BY DEF Without, Calls
<1>. QED  BY <1>1, <1>2 DEF Calls

(* Steps of a call, but for the listeners that leave the list. *)
LEMMA CallType ==
    ASSUME TypeOK, NEW x \in Apis, NEW call \in Calls \union {Idle},
           at' = [at EXCEPT ![x] = call],
           call # Idle =>
               /\ up[x] /\ call.i \in 1 .. Len(call.called) + 1
               /\ call.arg \in (IF x \in Announcers THEN DOMAIN Matches ELSE Announcers),
           InboxInv', UNCHANGED <<setup, up, listeners, leftover>>,
           found' \in [Seekers -> SUBSET Announcers]
    PROVE  TypeOK'
<1>1. /\ at' \in [Apis -> Calls \union {Idle}]
      /\ \A y \in Apis : at'[y] # Idle =>
             /\ up[y] /\ at'[y].i \in 1 .. Len(at'[y].called) + 1
             /\ at'[y].arg \in (IF y \in Announcers THEN DOMAIN Matches ELSE Announcers)
  BY DEF TypeOK
<1>. QED  BY <1>1 DEF TypeOK, setup, InboxInv, DueInv, Due, Inboxes

(* A call begins, with the argument that its kind of API takes.            *)
LEMMA ReceiveType ==
    ASSUME TypeOK, NEW x \in Apis, NEW d \in Datagrams, Receive(x, d)
    PROVE  TypeOK'
<1>. DEFINE call == [arg |-> d[2], i |-> 1, called |-> <<>>, passed |-> 0,
                     steady |-> Range(listeners[Owner(x)])]
<1>0. Take(x, d) /\ Incoming(x, d) /\ InboxInv'
  BY InboxType, TakeType, Disjoint DEF Receive, Due
<1>1. d[2] \in (IF x \in Announcers THEN DOMAIN Matches ELSE Announcers)
  BY <1>0 DEF Datagrams, Incoming
<1>2. Range(listeners[Owner(x)]) \subseteq Announcers \union Listeners
  BY OwnerType, RangeOfSeq DEF TypeOK
<1>3. call \in Calls /\ call.i = 1 /\ call.called = <<>> /\ call.arg = d[2]
  BY <1>1, <1>2 DEF Calls
<1>4. /\ at' = [at EXCEPT ![x] = call] /\ up[x] /\ Take(x, d)
      /\ found' = IF x \in Seekers THEN [found EXCEPT ![x] = @ \union {d[2]}] ELSE found
      /\ UNCHANGED <<setup, up, listeners, leftover>>
  BY DEF Receive, Take
<1>. HIDE DEF call
<1>6. found' \in [Seekers -> SUBSET Announcers]
  BY <1>1, <1>4, OwnerType DEF TypeOK
<1>7. call.i \in 1 .. Len(call.called) + 1
  BY <1>3
<1>. QED  BY <1>0, <1>1, <1>3, <1>4, <1>6, <1>7, CallType

(* on_seek of the next announcer: it advertises, has nothing to say, or    *)
(* raises, which ends the call.                                            *)
LEMMA OnSeekType ==
    ASSUME TypeOK, NEW x \in Apis, OnSeek(x)
    PROVE  TypeOK'
<1>. DEFINE b == NextListener(x)
            call == Step(at[x], b)
<1>1. /\ x \in Announcers /\ HasNext(x)
      /\ \/ Broadcast(<<"advertise", b>>) /\ at' = [at EXCEPT ![x] = call]
         \/ UNCHANGED inbox /\ at' = [at EXCEPT ![x] = Idle]
         \/ UNCHANGED inbox /\ at' = [at EXCEPT ![x] = call]
      /\ UNCHANGED <<setup, up, listeners, leftover, found>>
  BY DEF OnSeek
<1>2. /\ at[x] \in Calls /\ b \in Announcers /\ call \in Calls
      /\ call.i \in 1..Len(call.called) + 1 /\ call.arg = at[x].arg
  BY <1>1, StepType
<1>3. up[x] /\ at[x].arg \in DOMAIN Matches
  BY <1>1 DEF TypeOK, HasNext
<1>4. InboxInv'
  <2>1. CASE Broadcast(<<"advertise", b>>)
    BY <1>1, <1>2, <2>1, InboxType, BroadcastType DEF Datagrams
  <2>2. CASE UNCHANGED inbox
    BY <1>1, <2>2, InboxType DEF InboxInv, DueInv, Due, Incoming
  <2>. QED  BY <1>1, <2>1, <2>2
<1>. HIDE DEF b, call
<1>5. found' \in [Seekers -> SUBSET Announcers]
  BY <1>1 DEF TypeOK
<1>6. \/ at' = [at EXCEPT ![x] = call]
      \/ at' = [at EXCEPT ![x] = Idle]
  BY <1>1
<1>7. CASE at' = [at EXCEPT ![x] = call]
  BY <1>1, <1>2, <1>3, <1>4, <1>5, <1>7, CallType
<1>8. CASE at' = [at EXCEPT ![x] = Idle]
  BY <1>1, <1>4, <1>5, <1>8, CallType
<1>. QED  BY <1>6, <1>7, <1>8

(* The next listener of a seeker, which may leave the list.                *)
LEMMA OnAdvertiseType ==
    ASSUME TypeOK, NEW x \in Apis, OnAdvertise(x)
    PROVE  TypeOK'
<1>. DEFINE l == NextListener(x)
            call == Step(at[x], l)
            rest == Without(call, at[x].i, l)
<1>1. /\ x \in Seekers /\ HasNext(x)
      /\ \/ at' = [at EXCEPT ![x] = call] /\ UNCHANGED listeners
         \/ at' = [at EXCEPT ![x] = rest] /\ Disconnected(x, at[x].i)
      /\ UNCHANGED <<setup, up, inbox, leftover, found>>
  BY DEF OnAdvertise
<1>2. /\ at[x] \in Calls /\ call \in Calls /\ at[x].i \in 1..Len(listeners[x])
      /\ call.i \in 1..Len(call.called) + 1 /\ call.arg = at[x].arg
  BY <1>1, StepType, OwnerType
<1>3. up[x] /\ at[x].arg \in Announcers /\ x \notin Announcers
  BY <1>1, OwnerType DEF TypeOK, HasNext
<1>4. /\ rest \in Calls /\ rest.i = call.i /\ rest.arg = call.arg
      /\ rest.called = call.called
  <2>1. at[x].i \in Nat
    BY <1>2
  <2>. QED  BY <1>2, <2>1, WithoutType
<1>5. InboxInv' /\ found' \in [Seekers -> SUBSET Announcers]
  BY <1>1, InboxType DEF TypeOK, InboxInv, DueInv, Due, Incoming
<1>. HIDE DEF l, call, rest
<1>6. CASE at' = [at EXCEPT ![x] = call] /\ UNCHANGED listeners
  BY <1>1, <1>2, <1>3, <1>5, <1>6, CallType
<1>7. CASE at' = [at EXCEPT ![x] = rest] /\ Disconnected(x, at[x].i)
  BY <1>1, <1>2, <1>3, <1>4, <1>7, DisconnectedType
<1>. QED  BY <1>1, <1>6, <1>7

(* A listener leaves the list, whether there is a call or not.             *)
LEMMA DisconnectType ==
    ASSUME TypeOK, NEW s \in Seekers, NEW pos \in DOMAIN listeners[s], Disconnect(s, pos)
    PROVE  TypeOK'
<1>1. listeners[s] \in Seq(Announcers \union Listeners) /\ s \in Apis
  BY OwnerType DEF TypeOK
<1>2. pos \in 1..Len(listeners[s]) /\ pos \in Nat
  BY <1>1
<1>. DEFINE rest == Without(at[s], pos, listeners[s][pos])
<1>3. /\ Disconnected(s, pos)
      /\ at' = IF at[s] = Idle THEN at ELSE [at EXCEPT ![s] = rest]
      /\ UNCHANGED <<setup, up, inbox, leftover, found>>
  BY DEF Disconnect
<1>. HIDE DEF rest
<1>4. CASE at[s] = Idle
  <2>1. at' = [at EXCEPT ![s] = Idle]
    BY <1>1, <1>3, <1>4 DEF TypeOK
  <2>. QED  BY <1>2, <1>3, <2>1, DisconnectedType
<1>5. CASE at[s] # Idle
  <2>1. /\ at[s] \in Calls /\ up[s] /\ at[s].i \in 1 .. Len(at[s].called) + 1
        /\ at[s].arg \in Announcers
    BY <1>1, <1>5, OwnerType DEF TypeOK
  <2>2. /\ rest \in Calls /\ rest.i = at[s].i /\ rest.arg = at[s].arg
        /\ rest.called = at[s].called
    BY <1>2, <2>1, WithoutType DEF rest
  <2>. QED  BY <1>2, <1>3, <1>5, <2>1, <2>2, DisconnectedType
<1>. QED  BY <1>4, <1>5

(* A call has come to the end of the list.                                 *)
LEMMA DoneType ==
    ASSUME TypeOK, NEW x \in Apis, ListenersDone(x)
    PROVE  TypeOK'
<1>1. /\ at' = [at EXCEPT ![x] = Idle]
      /\ UNCHANGED <<setup, up, listeners, inbox, leftover, found>>
  BY DEF ListenersDone
<1>2. InboxInv' /\ found' \in [Seekers -> SUBSET Announcers]
  BY <1>1, InboxType DEF TypeOK, InboxInv, DueInv, Due, Incoming
<1>. QED  BY <1>1, <1>2, CallType

(* Every step keeps the types.                                             *)
LEMMA TypeStep == TypeOK /\ [Next]_vars => TypeOK'
<1>. SUFFICES ASSUME TypeOK, [Next]_vars PROVE TypeOK'
  OBVIOUS
<1>1. CASE \E a \in Announcers : Make(a)
  BY <1>1, ConnectType
<1>2. CASE \E s \in Seekers : \E l \in Listeners : Connect(s, l)
  BY <1>2, ConnectType
<1>3. CASE Network
  BY <1>3, NetworkType
<1>4. CASE \E x \in Apis : OnSeek(x)
  BY <1>4, OnSeekType
<1>5. CASE \E x \in Apis : OnAdvertise(x)
  BY <1>5, OnAdvertiseType
<1>6. CASE \E x \in Apis : ListenersDone(x)
  BY <1>6, DoneType
<1>7. CASE \E x \in Apis, d \in Datagrams : Receive(x, d)
  BY <1>7, ReceiveType
<1>8. CASE \E s \in Seekers : \E pos \in DOMAIN listeners[s] : Disconnect(s, pos)
  BY <1>8, DisconnectType
<1>9. CASE UNCHANGED vars
  BY <1>9 DEF TypeOK, vars, setup, histories, counts, Incoming
<1>. QED
  BY <1>1, <1>2, <1>3, <1>4, <1>5, <1>6, <1>7, <1>8, <1>9 DEF Next, Receiving, Network

(* Sockets, lists and calls are of their types; an open socket only is in  *)
(* a call or holds datagrams, and those only which it has a method for.    *)
THEOREM TypeCorrect == Spec => []TypeOK
<1>. QED  BY TypeInit, TypeStep, PTL DEF Spec
-----------------------------------------------------------------------------
(* UdpTransport never has a leftover.  With QUdpTransport each message that *)
(* was spoiled, and the leftover there is now, came from a stray of its own,*)
(* but for the messages at which decode() raised.                          *)
Kept(x) == IF leftover[x] = "none" THEN 0 ELSE 1
SpoilInv(x) ==
    /\ leftover[x] \in Leftovers /\ strays[x] \in Nat /\ spoiled[x] \in [{"quoted", "plain"} -> Nat]
    /\ ~qt => leftover[x] = "none" /\ spoiled[x].quoted = 0 /\ spoiled[x].plain = 0
    /\ leftover[x] # "none" => leftover[x] \in had[x]
    /\ had[x] \subseteq {"text"} => spoiled[x].quoted + spoiled[x].plain + Kept(x) <= strays[x]
    /\ "raise" \notin had[x] => spoiled[x].quoted + Kept(x) <= strays[x]

StrayInv ==
    /\ qt \in BOOLEAN /\ DOMAIN leftover = Apis /\ DOMAIN spoiled = Apis
    /\ DOMAIN strays = Apis /\ DOMAIN had = Apis
    /\ \A x \in Apis : SpoilInv(x)

(* What is not x has its own leftover and counts.                          *)
OthersSame(x) ==
    /\ UNCHANGED qt /\ DOMAIN leftover' = Apis /\ DOMAIN spoiled' = Apis
    /\ DOMAIN strays' = Apis /\ DOMAIN had' = Apis
    /\ \A y \in Apis \ {x} : /\ leftover'[y] = leftover[y] /\ spoiled'[y] = spoiled[y]
                            /\ strays'[y] = strays[y] /\ had'[y] = had[y]

(* A step of x alone keeps StrayInv if it keeps what it says of x.         *)
LEMMA StrayOne ==
    ASSUME StrayInv, NEW x \in Apis, OthersSame(x), SpoilInv(x)' PROVE StrayInv'
BY DEF StrayInv, SpoilInv, Kept, OthersSame

(* Every step keeps StrayInv.                                              *)
LEMMA StrayStep == StrayInv /\ [Next]_vars => StrayInv'
<1>. SUFFICES ASSUME StrayInv, [Next]_vars PROVE StrayInv'
  OBVIOUS
<1>1. ASSUME NEW x \in Apis, ReceiveStray(x) PROVE StrayInv'
  <2>1. PICK text \in IF qt THEN Leftovers \ {"none"} ELSE {"none"} :
            /\ leftover' = [leftover EXCEPT ![x] = text]
            /\ had' = [had EXCEPT ![x] = @ \union {text}]
    BY <1>1 DEF ReceiveStray
  <2>2. strays' = [strays EXCEPT ![x] = @ + 1] /\ UNCHANGED <<qt, spoiled>>
    BY <1>1 DEF ReceiveStray, setup
  <2>3. OthersSame(x)
    BY <2>1, <2>2 DEF OthersSame, StrayInv
  <2>4. /\ leftover'[x] = text /\ had'[x] = had[x] \union {text} /\ strays'[x] = strays[x] + 1
        /\ spoiled'[x] = spoiled[x] /\ text \in Leftovers /\ (~qt => text = "none")
    BY <2>1, <2>2 DEF StrayInv, Leftovers
  <2>5. SpoilInv(x)'
    <3>1. SpoilInv(x) /\ spoiled[x].quoted \in Nat /\ spoiled[x].plain \in Nat /\ UNCHANGED qt
      BY <2>2 DEF StrayInv, SpoilInv
    <3>. QED  BY <2>4, <3>1 DEF SpoilInv, Kept
  <2>. QED  BY <2>3, <2>5, StrayOne
<1>2. ASSUME NEW x \in Apis, NEW d \in Datagrams, ReceiveSpoiled(x, d) PROVE StrayInv'
  <2>. DEFINE k == Kind(d)
  <2>1. /\ spoiled' = [spoiled EXCEPT ![x][k] = @ + 1] /\ leftover[x] # "none"
        /\ leftover' = IF Raises(leftover[x], d) THEN leftover
                       ELSE [leftover EXCEPT ![x] = "none"]
        /\ UNCHANGED <<qt, strays, had>>
    BY <1>2 DEF ReceiveSpoiled, setup
  <2>2. OthersSame(x)
    BY <2>1 DEF OthersSame, StrayInv
  <2>3. /\ SpoilInv(x) /\ spoiled[x].quoted \in Nat /\ spoiled[x].plain \in Nat
        /\ strays[x] \in Nat /\ k \in {"quoted", "plain"}
    BY DEF StrayInv, SpoilInv, Kind
  <2>4. /\ spoiled'[x] = [spoiled[x] EXCEPT ![k] = @ + 1] /\ strays'[x] = strays[x]
        /\ leftover'[x] = (IF Raises(leftover[x], d) THEN leftover[x] ELSE "none")
        /\ had'[x] = had[x]
    BY <2>1 DEF StrayInv
  <2>5. /\ spoiled'[x] \in [{"quoted", "plain"} -> Nat]
        /\ spoiled'[x].quoted = IF k = "quoted" THEN spoiled[x].quoted + 1 ELSE spoiled[x].quoted
        /\ spoiled'[x].plain = IF k = "plain" THEN spoiled[x].plain + 1 ELSE spoiled[x].plain
    BY <2>3, <2>4 DEF SpoilInv
  <2>6. leftover[x] \in had[x] /\ qt /\ qt' = qt
    BY <2>1, <2>3 DEF SpoilInv, StrayInv
  <2>7. Raises(leftover[x], d) <=> leftover[x] = "raise" \/ (leftover[x] = "string" /\ k = "plain")
    BY DEF Raises
  <2>8. SpoilInv(x)'
    <3>1. had[x] \subseteq {"text"} => leftover[x] = "text"
      BY <2>6
    <3>2. "raise" \notin had[x] => leftover[x] # "raise"
      BY <2>6
    <3>. HIDE DEF k
    <3>. QED  BY <2>1, <2>3, <2>4, <2>5, <2>6, <2>7, <3>1, <3>2 DEF SpoilInv, Kept, Leftovers
  <2>. QED  BY <2>2, <2>8, StrayOne
<1>3. ASSUME NEW x \in Apis, ReceiveOther(x) PROVE StrayInv'
  <2>1. leftover' = [leftover EXCEPT ![x] = "none"] /\ UNCHANGED <<qt, spoiled, strays, had>>
    BY <1>3 DEF ReceiveOther, setup, histories
  <2>2. OthersSame(x)
    BY <2>1 DEF OthersSame, StrayInv
  <2>3. SpoilInv(x) /\ spoiled[x].quoted \in Nat /\ spoiled[x].plain \in Nat
    BY DEF StrayInv, SpoilInv
  <2>4. SpoilInv(x)'
    BY <2>1, <2>3 DEF StrayInv, SpoilInv, Kept, Leftovers
  <2>. QED  BY <2>2, <2>4, StrayOne
<1>4. CASE UNCHANGED <<qt, leftover, spoiled, strays, had>>
  BY <1>4 DEF StrayInv, SpoilInv, Kept
<1>5. \/ UNCHANGED <<qt, leftover, spoiled, strays, had>>
      \/ \E x \in Apis : ReceiveStray(x) \/ ReceiveOther(x)
      \/ \E x \in Apis, d \in Datagrams : ReceiveSpoiled(x, d)
  BY DEF Next, Receiving, Make, Start, Stop, StraySent, OnSeek, OnAdvertise, ListenersDone,
         ReceiveCut, Receive, Lose, Duplicate, Seek, Connect, Disconnect, vars, setup, histories
<1>. QED  BY <1>1, <1>2, <1>3, <1>4, <1>5

(* However many strays come, and whatever they leave: UdpTransport loses no *)
(* message for them, and QUdpTransport at most one for each, of any kind if *)
(* it kept mere text, with a quote in it if decode() could get past it.     *)
THEOREM StraysSpoil == Spec => []StraysSpoilOne
<1>1. Init => StrayInv
  BY DEF Init, StrayInv, SpoilInv, Kept, Leftovers
<1>2. StrayInv => StraysSpoilOne
  <2>. SUFFICES ASSUME StrayInv, NEW x \in Apis
                PROVE  /\ ~qt => spoiled[x].quoted = 0 /\ spoiled[x].plain = 0
                       /\ had[x] \subseteq {"text"} =>
                              spoiled[x].quoted + spoiled[x].plain <= strays[x]
                       /\ "raise" \notin had[x] => spoiled[x].quoted <= strays[x]
    BY DEF StraysSpoilOne
  <2>1. /\ SpoilInv(x) /\ spoiled[x].quoted \in Nat /\ spoiled[x].plain \in Nat
        /\ strays[x] \in Nat /\ Kept(x) \in {0, 1}
    BY DEF StrayInv, SpoilInv, Kept
  <2>. QED  BY <2>1 DEF SpoilInv
<1>. QED  BY <1>1, <1>2, StrayStep, PTL DEF Spec
-----------------------------------------------------------------------------
(* What a datagram says is true: somebody is looking for what it asks for, *)
(* or it is from an announcer that was made, and matches.                  *)
Announced(a) == a \in Range(listeners[Process[a]]) /\ \E f \in sought : a \in Matches[f]
Said(d) == IF d[1] = "seek" THEN d[2] \in sought ELSE Announced(d[2])

TruthInv ==
    /\ \A s \in Seekers : \A a \in found[s] : Announced(a)
    /\ \A x \in Apis, d \in Datagrams : inbox[x][d] > 0 => Said(d)
    /\ \A x \in Announcers : at[x] # Idle => at[x].arg \in sought
    /\ \A a \in Announcers : \A b \in Range(listeners[Process[a]]) : Process[b] = Process[a]

(* What was made stays so, and what was sought. *)
LEMMA TruthLasts ==
    ASSUME TypeOK, [Next]_vars
    PROVE  /\ sought \subseteq sought'
           /\ \A a \in Announcers :
                 /\ Range(listeners[Process[a]]) \subseteq Range(listeners'[Process[a]])
                 /\ Announced(a) => Announced(a)'
           /\ \A d \in Datagrams : Said(d) => Said(d)'
<1>1. sought \subseteq sought'
  BY DEF Next, Receiving, Make, Start, Stop, StraySent, OnSeek, OnAdvertise, ListenersDone,
         ReceiveCut, ReceiveStray, ReceiveOther, ReceiveSpoiled, Receive, Lose, Duplicate, Seek,
         Connect, Disconnect, vars, histories
<1>2. ASSUME NEW a \in Announcers
      PROVE  Range(listeners[Process[a]]) \subseteq Range(listeners'[Process[a]])
  <2>0. Process[a] \in Owners /\ Process[a] \notin Seekers
    BY OwnerType, Disjoint
  <2>1. ASSUME NEW b \in Announcers, Make(b)
        PROVE  Range(listeners[Process[a]]) \subseteq Range(listeners'[Process[a]])
    <3>1. CASE Process[a] = Process[b]
      <4>1. listeners'[Process[a]] = Append(listeners[Process[a]], b)
        BY <2>0, <2>1, <3>1 DEF Make, TypeOK
      <4>2. listeners[Process[a]] \in Seq(Announcers \union Listeners)
        BY <2>0 DEF TypeOK
      <4>. QED  BY <4>1, <4>2, AppendEntries
    <3>2. CASE Process[a] # Process[b]
      BY <2>0, <2>1, <3>2 DEF Make, TypeOK
    <3>. QED  BY <3>1, <3>2
  <2>2. ASSUME NEW s \in Seekers, NEW e, listeners' = [listeners EXCEPT ![s] = e]
        PROVE  listeners'[Process[a]] = listeners[Process[a]]
    BY <2>0, <2>2 DEF TypeOK
  <2>3. \/ UNCHANGED listeners
        \/ \E b \in Announcers : Make(b)
        \/ \E s \in Seekers : \E e : listeners' = [listeners EXCEPT ![s] = e]
    BY DEF Next, Receiving, Start, Stop, StraySent, OnSeek, OnAdvertise, ListenersDone,
           ReceiveCut, ReceiveStray, ReceiveOther, ReceiveSpoiled, Receive, Lose, Duplicate, Seek,
           Connect, Disconnect, Disconnected, vars
  <2>. QED  BY <2>1, <2>2, <2>3
<1>3. \A a \in Announcers : Announced(a) => Announced(a)'
  BY <1>1, <1>2 DEF Announced
<1>. QED  BY <1>1, <1>2, <1>3 DEF Said, Datagrams

(* No step puts a datagram under way that says what is not true. *)
LEMMA SaidStep ==
    ASSUME TypeOK, TruthInv, [Next]_vars, NEW x \in Apis, NEW d \in Datagrams, inbox'[x][d] > 0
    PROVE  Said(d)'
<1>0. Said(d) => Said(d)'
  BY TruthLasts
<1>1. InboxInv /\ (inbox[x][d] > 0 => Said(d))
  BY InboxType DEF TruthInv
<1>2. CASE inbox[x][d] > 0
  BY <1>0, <1>1, <1>2
<1>3. ASSUME NEW e \in Datagrams, Broadcast(e), Said(e)' PROVE Said(d)'
  <2>1. CASE d = e
    BY <1>3, <2>1
  <2>2. CASE d # e
    <3>1. inbox[x] \in [Datagrams \union {Stray} -> Nat]
      BY <1>1 DEF InboxInv, Inboxes
    <3>2. inbox'[x][d] = inbox[x][d]
      BY <1>3, <2>2, <3>1 DEF Broadcast
    <3>. QED  BY <1>0, <1>1, <3>2
  <2>. QED  BY <2>1, <2>2
<1>4. ASSUME NEW s \in Seekers, NEW f \in DOMAIN Matches, Seek(s, f) PROVE Said(d)'
  <2>1. <<"seek", f>> \in Datagrams /\ Broadcast(<<"seek", f>>) /\ f \in sought'
    BY <1>4 DEF Seek, Datagrams
  <2>2. Said(<<"seek", f>>)'
    BY <2>1 DEF Said
  <2>. QED  BY <1>3, <2>1, <2>2
<1>5. ASSUME NEW y \in Apis, OnSeek(y), ~UNCHANGED inbox PROVE Said(d)'
  <2>0. /\ y \in Announcers /\ HasNext(y) /\ NextListener(y) \in Matches[at[y].arg]
        /\ Broadcast(<<"advertise", NextListener(y)>>) /\ UNCHANGED <<listeners, sought>>
    BY <1>5 DEF OnSeek, histories
  <2>. PICK b \in Announcers : b = NextListener(y)
    BY <2>0, StepType
  <2>1. /\ y \in Announcers /\ HasNext(y) /\ b \in Matches[at[y].arg]
        /\ Broadcast(<<"advertise", b>>) /\ UNCHANGED <<listeners, sought>>
    BY <2>0
  <2>2. Owner(y) = Process[y] /\ at[y].i \in 1..Len(listeners[Owner(y)])
    BY <2>0, StepType, OwnerType
  <2>3. b \in Range(listeners[Process[y]])
    <3>1. Process[y] \in Owners
      BY <2>1, OwnerType
    <3>2. listeners[Process[y]] \in Seq(Announcers \union Listeners)
      BY <3>1 DEF TypeOK
    <3>. QED  BY <2>2, <3>2 DEF NextListener, Range
  <2>4. Announced(b)
    <3>1. Process[b] = Process[y] /\ at[y].arg \in sought
      BY <2>1, <2>3 DEF TruthInv, HasNext
    <3>. QED  BY <2>1, <2>3, <3>1 DEF Announced
  <2>5. <<"advertise", b>> \in Datagrams /\ Said(<<"advertise", b>>)'
    <3>1. Announced(b)'
      BY <2>1, <2>4 DEF Announced
    <3>. QED  BY <2>2, <3>1 DEF Datagrams, Said
  <2>. QED  BY <1>3, <2>1, <2>5
<1>6. ASSUME UNCHANGED inbox PROVE Said(d)'
  BY <1>2, <1>6
<1>7. ASSUME NEW y \in Apis, NEW e \in Datagrams \union {Stray}, NEW n \in Nat,
             inbox' = [inbox EXCEPT ![y][e] = n], inbox[y][e] > 0 \/ e = Stray
      PROVE  Said(d)'
  <2>1. inbox[x] \in [Datagrams \union {Stray} -> Nat] /\ d # Stray
    BY <1>1, Disjoint DEF InboxInv, Inboxes
  <2>2. CASE x = y /\ d = e
    BY <1>2, <1>7, <2>1, <2>2
  <2>3. CASE ~(x = y /\ d = e)
    <3>1. inbox'[x][d] = inbox[x][d]
      BY <1>1, <1>7, <2>1, <2>3 DEF InboxInv, Inboxes
    <3>. QED  BY <1>2, <3>1
  <2>. QED  BY <2>2, <2>3
<1>8. ASSUME NEW y \in Apis, Stop(y) PROVE Said(d)'
  <2>1. inbox' = [inbox EXCEPT ![y] = [e \in DOMAIN inbox[y] |-> 0]]
    BY <1>8 DEF Stop
  <2>2. inbox \in Inboxes /\ DOMAIN inbox[y] = Datagrams \union {Stray}
    BY <1>1 DEF InboxInv, Inboxes
  <2>3. x # y
    BY <2>1, <2>2 DEF Inboxes
  <2>4. inbox'[x] = inbox[x]
    BY <2>1, <2>2, <2>3 DEF Inboxes
  <2>. QED  BY <1>2, <2>4
<1>9. ASSUME NEW y \in Apis, NEW e \in Datagrams \union {Stray},
             Take(y, e) \/ Lose(y, e) \/ Duplicate(y, e) \/ (e = Stray /\ StraySent(y))
      PROVE  Said(d)'
  <2>1. inbox[y][e] \in Nat
    BY <1>1 DEF InboxInv, Inboxes
  <2>2. PICK n \in {inbox[y][e] - 1, inbox[y][e] + 1} :
            /\ inbox' = [inbox EXCEPT ![y][e] = n]
            /\ (e = Stray /\ n = inbox[y][e] + 1) \/ inbox[y][e] > 0
    BY <1>9 DEF Take, Lose, Duplicate, StraySent
  <2>3. n \in Nat /\ (inbox[y][e] > 0 \/ e = Stray)
    BY <2>1, <2>2
  <2>. QED  BY <1>7, <2>2, <2>3
<1>10. \/ UNCHANGED inbox
       \/ \E y \in Apis : Stop(y) \/ (OnSeek(y) /\ ~UNCHANGED inbox)
       \/ \E s \in Seekers, f \in DOMAIN Matches : Seek(s, f)
       \/ \E y \in Apis, e \in Datagrams \union {Stray} :
              Take(y, e) \/ Lose(y, e) \/ Duplicate(y, e) \/ (e = Stray /\ StraySent(y))
  BY DEF Next, Receiving, Make, Start, OnAdvertise, ListenersDone, ReceiveCut, ReceiveStray,
         ReceiveOther, ReceiveSpoiled, Receive, Connect, Disconnect, vars
<1>. QED  BY <1>4, <1>5, <1>6, <1>8, <1>9, <1>10

(* Every step keeps TruthInv.                                              *)
LEMMA TruthStep == TypeOK /\ TruthInv /\ [Next]_vars => TruthInv'
<1>. SUFFICES ASSUME TypeOK, TruthInv, [Next]_vars PROVE TruthInv'
  OBVIOUS
<1>1. \A x \in Apis, d \in Datagrams : inbox'[x][d] > 0 => Said(d)'
  BY SaidStep
<1>2. ASSUME NEW x \in Apis, NEW d \in Datagrams, Receive(x, d)
      PROVE  Said(d) /\ d[1] = (IF x \in Announcers THEN "seek" ELSE "advertise")
  <2>1. Due(x, d)
    BY <1>2, InboxType, TakeType DEF Receive
  <2>2. inbox[x][d] > 0
    BY <1>2 DEF Receive, Take
  <2>. QED  BY <2>1, <2>2, Disjoint DEF Due, Incoming, TruthInv
<1>3. \A s \in Seekers : \A a \in found'[s] : Announced(a)'
  <2>1. ASSUME NEW s \in Seekers, NEW a \in found'[s] PROVE Announced(a)
    <3>1. CASE a \in found[s]
      BY <3>1 DEF TruthInv
    <3>2. ASSUME NEW x \in Apis, NEW d \in Datagrams, Receive(x, d), a \notin found[s]
          PROVE  Announced(a)
      <4>1. x = s /\ a = d[2]
        BY <2>1, <3>2 DEF Receive, TypeOK
      <4>. QED  BY <1>2, <3>2, <4>1, OwnerType DEF Said
    <3>3. UNCHANGED found \/ \E x \in Apis, d \in Datagrams : Receive(x, d)
      BY DEF Next, Receiving, Make, Start, Stop, StraySent, OnSeek, OnAdvertise, ListenersDone,
             ReceiveCut, ReceiveStray, ReceiveOther, ReceiveSpoiled, Lose, Duplicate, Seek,
             Connect, Disconnect, vars
    <3>. QED  BY <2>1, <3>1, <3>2, <3>3
  <2>2. found' \in [Seekers -> SUBSET Announcers]
    BY TypeStep DEF TypeOK
  <2>. QED  BY <2>1, <2>2, TruthLasts
<1>4. ASSUME NEW x \in Announcers, at'[x] # Idle PROVE at'[x].arg \in sought
  <2>0. x \in Apis /\ x \notin Seekers /\ at \in [Apis -> Calls \union {Idle}]
    BY OwnerType DEF TypeOK
  <2>1. CASE at'[x] = at[x]
    BY <1>4, <2>1 DEF TruthInv
  <2>2. ASSUME NEW y \in Apis, OnSeek(y), at'[x] # at[x] PROVE at'[x].arg \in sought
    <3>1. HasNext(y) /\ x = y /\ at'[x] = Step(at[x], NextListener(x))
      BY <1>4, <2>0, <2>2 DEF OnSeek
    <3>2. at'[x].arg = at[x].arg
      BY <3>1, StepType
    <3>. QED  BY <3>1, <3>2 DEF TruthInv, HasNext
  <2>3. ASSUME NEW y \in Apis, NEW d \in Datagrams, Receive(y, d), at'[x] # at[x]
        PROVE  at'[x].arg \in sought
    <3>1. y = x /\ at'[x].arg = d[2]
      BY <2>0, <2>3 DEF Receive
    <3>. QED  BY <1>2, <2>3, <3>1 DEF Said
  <2>4. \/ at'[x] = at[x]
        \/ \E y \in Apis : OnSeek(y) \/ ListenersDone(y)
        \/ \E y \in Apis, d \in Datagrams : Receive(y, d)
    <3>1. ASSUME NEW s \in Seekers, NEW e, at' = [at EXCEPT ![s] = e] PROVE at'[x] = at[x]
      BY <2>0, <3>1
    <3>2. \/ UNCHANGED at
          \/ \E y \in Apis : OnSeek(y) \/ ListenersDone(y)
          \/ \E y \in Apis, d \in Datagrams : Receive(y, d)
          \/ \E s \in Seekers : \E e : at' = [at EXCEPT ![s] = e]
      BY DEF Next, Receiving, Make, Start, Stop, StraySent, OnAdvertise, ReceiveCut, ReceiveStray,
             ReceiveOther, ReceiveSpoiled, Lose, Duplicate, Seek, Connect, Disconnect, vars
    <3>. QED  BY <3>1, <3>2
  <2>5. ASSUME NEW y \in Apis, ListenersDone(y) PROVE at'[x] = at[x]
    BY <1>4, <2>0, <2>5 DEF ListenersDone
  <2>. QED  BY <2>1, <2>2, <2>3, <2>4, <2>5
<1>5. \A a \in Announcers : \A b \in Range(listeners'[Process[a]]) : Process[b] = Process[a]
  <2>. SUFFICES ASSUME NEW a \in Announcers, NEW b \in Range(listeners'[Process[a]])
                PROVE  Process[b] = Process[a]
    OBVIOUS
  <2>0. Process[a] \in Owners /\ Process[a] \notin Seekers
    BY OwnerType, Disjoint
  <2>1. CASE listeners'[Process[a]] = listeners[Process[a]]
    BY <2>1 DEF TruthInv
  <2>2. ASSUME NEW c \in Announcers, Make(c) PROVE Process[b] = Process[a]
    <3>1. CASE Process[a] = Process[c]
      <4>1. listeners'[Process[a]] = Append(listeners[Process[a]], c)
        BY <2>0, <2>2, <3>1 DEF Make, TypeOK
      <4>2. listeners[Process[a]] \in Seq(Announcers \union Listeners)
        BY <2>0 DEF TypeOK
      <4>3. b \in Range(listeners[Process[a]]) \/ b = c
        BY <4>1, <4>2, AppendEntries
      <4>. QED  BY <3>1, <4>3 DEF TruthInv
    <3>2. CASE Process[a] # Process[c]
      BY <2>0, <2>2, <3>2, <2>1 DEF Make, TypeOK
    <3>. QED  BY <3>1, <3>2
  <2>3. ASSUME NEW s \in Seekers, NEW e, listeners' = [listeners EXCEPT ![s] = e]
        PROVE  Process[b] = Process[a]
    BY <2>0, <2>1, <2>3 DEF TypeOK
  <2>4. \/ UNCHANGED listeners
        \/ \E c \in Announcers : Make(c)
        \/ \E s \in Seekers : \E e : listeners' = [listeners EXCEPT ![s] = e]
    BY DEF Next, Receiving, Start, Stop, StraySent, OnSeek, OnAdvertise, ListenersDone,
           ReceiveCut, ReceiveStray, ReceiveOther, ReceiveSpoiled, Receive, Lose, Duplicate, Seek,
           Connect, Disconnect, Disconnected, vars
  <2>. QED  BY <2>1, <2>2, <2>3, <2>4
<1>6. \A x \in Announcers : at'[x] # Idle => at'[x].arg \in sought'
  BY <1>4, TruthLasts
<1>. QED  BY <1>1, <1>3, <1>5, <1>6 DEF TruthInv

(* A seeker finds only announcers that match what someone was looking for. *)
THEOREM FoundMatches == Spec => []OnlyMatching
<1>1. Init => TruthInv
  <2>. SUFFICES ASSUME Init PROVE TruthInv
    OBVIOUS
  <2>1. \A a \in Announcers : listeners[Process[a]] = <<>>
    BY OwnerType, Disjoint DEF Init
  <2>2. \A x \in Apis, d \in Datagrams : inbox[x][d] = 0
    BY DEF Init
  <2>3. found = [s \in Seekers |-> {}]
    BY DEF Init
  <2>4. \A a \in Announcers : Range(listeners[Process[a]]) = {}
    BY <2>1 DEF Range
  <2>5. \A x \in Announcers : at[x] = Idle
    BY OwnerType DEF Init
  <2>. QED  BY <2>2, <2>3, <2>4, <2>5 DEF TruthInv
<1>2. TruthInv => OnlyMatching
  BY DEF TruthInv, OnlyMatching, Announced
<1>. QED  BY <1>1, <1>2, TruthStep, TypeCorrect, PTL DEF Spec
-----------------------------------------------------------------------------
(* The loop over a list L with the call c: all that were called are in     *)
(* places before c.i, and those before it that were not, Skipped, got      *)
(* there because another one left.                                         *)
Passed(L, c) == {L[k] : k \in {k \in DOMAIN L : k < c.i}}
Skipped(L, c) == {l \in c.steady \ Range(c.called) : l \in Passed(L, c)}

Hears(L, c) ==
    /\ c.steady \subseteq Range(L)
    /\ \A j \in DOMAIN c.called : c.called[j] \in c.steady => c.called[j] \in Passed(L, c)
    /\ \A j, k \in DOMAIN c.called :
           c.called[j] = c.called[k] /\ c.called[j] \in c.steady => j = k
    /\ Cardinality(Skipped(L, c)) <= c.passed

HearInv == /\ \A o \in Owners : IsInjective(listeners[o])
           /\ \A x \in Apis : at[x] # Idle => Hears(listeners[Owner(x)], at[x])

Lists == Seq(Announcers \union Listeners)

(* A call has finitely many listeners to count.                            *)
LEMMA FewSkipped ==
    ASSUME NEW c \in Calls, NEW S \in SUBSET c.steady
    PROVE  IsFiniteSet(S) /\ Cardinality(S) \in Nat
<1>1. IsFiniteSet(Announcers \union Listeners)
  BY Finite, FS_Union
<1>2. S \subseteq Announcers \union Listeners
  BY DEF Calls
<1>. QED  BY <1>1, <1>2, FS_Subset, FS_CardinalityType

(* A set with one more element is larger by one at most.                   *)
LEMMA OneMore ==
    ASSUME NEW S, IsFiniteSet(S), NEW e
    PROVE  /\ IsFiniteSet(S \union {e}) /\ Cardinality(S \union {e}) \in Nat
           /\ Cardinality(S \union {e}) <= Cardinality(S) + 1
<1>1. Cardinality(S) \in Nat
  BY FS_CardinalityType
<1>2. /\ IsFiniteSet(S \union {e})
      /\ Cardinality(S \union {e}) = Cardinality(S) \/ Cardinality(S \union {e}) = Cardinality(S) + 1
  BY FS_AddElement
<1>. QED  BY <1>1, <1>2

(* At the end of the list all that were there all the while were passed.   *)
LEMMA HearsAll ==
    ASSUME NEW L \in Lists, NEW c \in Calls, Hears(L, c), c.i > Len(L)
    PROVE  Cardinality(c.steady \ Range(c.called)) <= c.passed
<1>1. c.i \in Nat /\ DOMAIN L = 1..Len(L) /\ Len(L) \in Nat
  BY DEF Calls, Lists
<1>2. Range(L) = Passed(L, c)
  BY <1>1 DEF Range, Passed
<1>3. Skipped(L, c) = c.steady \ Range(c.called)
  BY <1>2 DEF Skipped, Hears
<1>. QED  BY <1>3 DEF Hears

(* When a call begins, nobody is passed yet.                               *)
LEMMA HearsStart ==
    ASSUME NEW L \in Lists, NEW c \in Calls, c.i = 1, c.called = <<>>, c.passed = 0,
           c.steady = Range(L)
    PROVE  Hears(L, c)
<1>1. Passed(L, c) = {}
  BY DEF Passed, Lists
<1>2. Cardinality(Skipped(L, c)) = 0
  BY <1>1, FS_EmptySet DEF Skipped
<1>. QED  BY <1>2 DEF Hears

(* The next listener in the list is called. *)
LEMMA HearsNext ==
    ASSUME NEW L \in Lists, IsInjective(L), NEW c \in Calls, c.i \in 1..Len(L), Hears(L, c),
           NEW d \in Calls, d.i = c.i + 1, d.called = Append(c.called, L[c.i]),
           d.steady = c.steady, d.passed = c.passed
    PROVE  Hears(L, d)
<1>0. /\ DOMAIN L = 1..Len(L) /\ Len(L) \in Nat /\ c.i \in Nat
      /\ c.called \in Lists /\ L[c.i] \in Announcers \union Listeners
  BY DEF Lists, Calls
<1>1. Passed(L, d) = Passed(L, c) \union {L[c.i]}
  <2>1. {k \in DOMAIN L : k < d.i} = {k \in DOMAIN L : k < c.i} \union {c.i}
    BY <1>0
  <2>. QED  BY <2>1 DEF Passed
<1>2. L[c.i] \notin Passed(L, c)
  BY <1>0 DEF Passed, IsInjective
<1>3. /\ Range(d.called) = Range(c.called) \union {L[c.i]}
      /\ DOMAIN c.called = 1..Len(c.called) /\ Len(c.called) \in Nat
      /\ DOMAIN d.called = 1..Len(c.called) + 1
      /\ \A j \in 1..Len(c.called) : d.called[j] = c.called[j]
      /\ d.called[Len(c.called) + 1] = L[c.i]
  <2>1. Range(d.called) = Range(c.called) \union {L[c.i]}
    BY <1>0, AppendEntries DEF Lists
  <2>. QED  BY <2>1, <1>0 DEF Lists
<1>4. \A j \in DOMAIN d.called : j \in DOMAIN c.called \/ j = Len(c.called) + 1
  BY <1>3
<1>5. Skipped(L, d) \subseteq Skipped(L, c)
  BY <1>1, <1>3 DEF Skipped
<1>6. Cardinality(Skipped(L, d)) <= Cardinality(Skipped(L, c))
  <2>1. IsFiniteSet(Skipped(L, c))
    BY FewSkipped DEF Skipped
  <2>. QED  BY <1>5, <2>1, FS_Subset
<1>7. Cardinality(Skipped(L, d)) <= d.passed
  <2>1. /\ Cardinality(Skipped(L, c)) \in Nat /\ Cardinality(Skipped(L, d)) \in Nat
        /\ c.passed \in Nat /\ Cardinality(Skipped(L, c)) <= c.passed
    BY FewSkipped DEF Skipped, Calls, Hears
  <2>. QED  BY <1>6, <2>1
<1>8. \A j \in DOMAIN d.called : d.called[j] \in d.steady => d.called[j] \in Passed(L, d)
  BY <1>1, <1>3, <1>4 DEF Hears
<1>9. \A j, k \in DOMAIN d.called :
         d.called[j] = d.called[k] /\ d.called[j] \in d.steady => j = k
  BY <1>2, <1>3, <1>4 DEF Hears
<1>. QED  BY <1>7, <1>8, <1>9 DEF Hears

(* Another listener is connected, behind all those that are there. *)
LEMMA HearsConnect ==
    ASSUME NEW L \in Lists, IsInjective(L), NEW l \in Announcers \union Listeners, l \notin Range(L)
    PROVE  /\ IsInjective(Append(L, l))
           /\ \A c \in Calls : Hears(L, c) => Hears(Append(L, l), c)
<1>. DEFINE M == Append(L, l)
<1>1. /\ DOMAIN L = 1..Len(L) /\ Len(L) \in Nat /\ DOMAIN M = 1..Len(L) + 1
      /\ \A k \in 1..Len(L) : M[k] = L[k]
      /\ M[Len(L) + 1] = l /\ Range(M) = Range(L) \union {l}
  BY AppendEntries DEF Lists
<1>. HIDE DEF M
<1>2. IsInjective(M)
  <2>1. \A k \in DOMAIN M : k \in DOMAIN L \/ k = Len(L) + 1
    BY <1>1
  <2>2. \A k \in DOMAIN L : M[k] # l
    BY <1>1 DEF Range
  <2>. QED  BY <1>1, <2>1, <2>2 DEF IsInjective
<1>3. ASSUME NEW c \in Calls, Hears(L, c) PROVE Hears(M, c)
  <2>1. Passed(L, c) \subseteq Passed(M, c) /\ Passed(M, c) \subseteq Passed(L, c) \union {l}
    BY <1>1 DEF Passed
  <2>2. l \notin c.steady
    BY <1>3 DEF Hears
  <2>3. Skipped(M, c) = Skipped(L, c)
    BY <2>1, <2>2 DEF Skipped
  <2>. QED  BY <1>1, <1>3, <2>1, <2>3 DEF Hears
<1>. QED  BY <1>2, <1>3 DEF M

(* The listener at pos leaves.  If the loop had passed it, the one that it *)
(* has come to is now in a place before.                                   *)
LEMMA HearsLeave ==
    ASSUME NEW L \in Lists, IsInjective(L), NEW pos \in 1..Len(L)
    PROVE  /\ IsInjective(RemoveAt(L, pos))
           /\ \A c, d \in Calls :
                 /\ Hears(L, c) /\ d.i = c.i /\ d.called = c.called
                 /\ d.steady = c.steady \ {L[pos]}
                 /\ d.passed = IF pos < c.i THEN c.passed + 1 ELSE c.passed
                 => Hears(RemoveAt(L, pos), d)
<1>. DEFINE M == RemoveAt(L, pos)
<1>1. /\ DOMAIN L = 1..Len(L) /\ Len(L) \in Nat /\ pos \in Nat
      /\ DOMAIN M = 1..Len(L) - 1
      /\ \A j \in 1..Len(L) - 1 : M[j] = IF j < pos THEN L[j] ELSE L[j + 1]
  <2>1. M \in Lists /\ Len(M) = Len(L) - 1
    BY RemoveAtEntries DEF Lists
  <2>2. \A j \in 1..Len(L) - 1 : M[j] = IF j < pos THEN L[j] ELSE L[j + 1]
    BY RemoveAtEntries DEF Lists
  <2>. QED  BY <2>1, <2>2 DEF Lists
<1>2. IsInjective(M)
  BY RemoveAtKeeps DEF Lists
<1>3. \A k \in DOMAIN L \ {pos} : \E j \in DOMAIN M : M[j] = L[k] /\ j <= k
  BY RemoveAtKeeps DEF Lists
<1>. HIDE DEF M
<1>4. ASSUME NEW c \in Calls, NEW d \in Calls, Hears(L, c), d.i = c.i, d.called = c.called,
             d.steady = c.steady \ {L[pos]},
             d.passed = IF pos < c.i THEN c.passed + 1 ELSE c.passed
      PROVE  Hears(M, d)
  <2>0. c.i \in Nat /\ c.passed \in Nat /\ DOMAIN M \subseteq Nat
    BY <1>1 DEF Calls
  <2>1. d.steady \subseteq Range(M)
    BY <1>1, <1>3, <1>4 DEF Hears, Range
  <2>2. Passed(L, c) \ {L[pos]} \subseteq Passed(M, d)
    BY <1>1, <1>3, <1>4, <2>0 DEF Passed
  <2>3. \A j \in DOMAIN d.called : d.called[j] \in d.steady => d.called[j] \in Passed(M, d)
    BY <1>4, <2>2 DEF Hears
  <2>4. \A j, k \in DOMAIN d.called :
           d.called[j] = d.called[k] /\ d.called[j] \in d.steady => j = k
    BY <1>4 DEF Hears
  <2>5. /\ IsFiniteSet(Skipped(L, c)) /\ Cardinality(Skipped(L, c)) \in Nat
        /\ Cardinality(Skipped(M, d)) \in Nat /\ Cardinality(Skipped(L, c)) <= c.passed
    BY <1>4, FewSkipped DEF Skipped, Hears
  <2>6. Cardinality(Skipped(M, d)) <= d.passed
    <3>1. CASE pos < c.i
      <4>1. Passed(M, d) \subseteq Passed(L, c) \union {L[c.i]}
        <5>1. ASSUME NEW j \in DOMAIN M, j < c.i PROVE M[j] \in Passed(L, c) \union {L[c.i]}
          <6>1. CASE j < pos
            BY <1>1, <5>1, <6>1 DEF Passed
          <6>2. CASE ~(j < pos)
            <7>1. M[j] = L[j + 1] /\ j + 1 \in DOMAIN L /\ (j + 1 < c.i \/ j + 1 = c.i)
              BY <1>1, <2>0, <5>1, <6>2
            <7>. QED  BY <7>1 DEF Passed
          <6>. QED  BY <6>1, <6>2
        <5>. QED  BY <1>4, <5>1 DEF Passed
      <4>2. Skipped(M, d) \subseteq Skipped(L, c) \union {L[c.i]}
        BY <1>4, <4>1 DEF Skipped
      <4>3. /\ IsFiniteSet(Skipped(L, c) \union {L[c.i]})
            /\ Cardinality(Skipped(L, c) \union {L[c.i]}) \in Nat
            /\ Cardinality(Skipped(L, c) \union {L[c.i]}) <= Cardinality(Skipped(L, c)) + 1
        BY <2>5, OneMore
      <4>4. Cardinality(Skipped(M, d)) <= Cardinality(Skipped(L, c) \union {L[c.i]})
        BY <4>2, <4>3, FS_Subset
      <4>. QED  BY <1>4, <2>0, <2>5, <3>1, <4>3, <4>4
    <3>2. CASE ~(pos < c.i)
      <4>1. Passed(M, d) \subseteq Passed(L, c)
        BY <1>1, <1>4, <2>0, <3>2 DEF Passed
      <4>2. Skipped(M, d) \subseteq Skipped(L, c)
        BY <1>4, <4>1 DEF Skipped
      <4>3. Cardinality(Skipped(M, d)) <= Cardinality(Skipped(L, c))
        BY <2>5, <4>2, FS_Subset
      <4>. QED  BY <1>4, <2>0, <2>5, <3>2, <4>3
    <3>. QED  BY <3>1, <3>2
  <2>. QED  BY <2>1, <2>3, <2>4, <2>6 DEF Hears
<1>. QED  BY <1>2, <1>4 DEF M

(* What HearInv needs of the types. *)
LEMMA ListTypes ==
    ASSUME TypeOK
    PROVE  /\ \A o \in Owners : listeners[o] \in Lists
           /\ \A x \in Apis : Owner(x) \in Owners /\ (at[x] # Idle => at[x] \in Calls)
           /\ \A x \in Apis : at[x] # Idle => at[x].i \in Nat \ {0}
BY OwnerType DEF TypeOK, Lists, Calls

(* Only a call of api x changes. *)
LEMMA HearCall ==
    ASSUME TypeOK, HearInv, UNCHANGED listeners, NEW x \in Apis, NEW call,
           at' = [at EXCEPT ![x] = call],
           call # Idle => Hears(listeners[Owner(x)], call)
    PROVE  HearInv'
<1>1. \A y \in Apis : at'[y] = IF y = x THEN call ELSE at[y]
  BY DEF TypeOK
<1>. QED  BY <1>1 DEF HearInv

(* Somebody connects a listener that was not there.                        *)
LEMMA HearConnected ==
    ASSUME TypeOK, HearInv, UNCHANGED at, NEW o \in Owners,
           NEW l \in Announcers \union Listeners, l \notin Range(listeners[o]),
           listeners' = [listeners EXCEPT ![o] = Append(@, l)]
    PROVE  HearInv'
<1>1. \A p \in Owners : listeners'[p] = IF p = o THEN Append(listeners[o], l) ELSE listeners[p]
  BY DEF TypeOK
<1>2. /\ IsInjective(Append(listeners[o], l))
      /\ \A c \in Calls : Hears(listeners[o], c) => Hears(Append(listeners[o], l), c)
  BY ListTypes, HearsConnect DEF HearInv
<1>. QED  BY <1>1, <1>2, ListTypes DEF HearInv

(* A listener of seeker s leaves; its call is then d, and c would be its   *)
(* call without that.                                                      *)
LEMMA HearLeft ==
    ASSUME TypeOK, HearInv, NEW s \in Seekers, NEW pos \in 1..Len(listeners[s]),
           Disconnected(s, pos), NEW d, at' = [at EXCEPT ![s] = d],
           d # Idle => \E c \in Calls : /\ Hears(listeners[s], c)
                                       /\ d = Without(c, pos, listeners[s][pos])
    PROVE  HearInv'
<1>0. s \in Apis /\ s \in Owners /\ Owner(s) = s /\ listeners[s] \in Lists
  BY OwnerType, ListTypes
<1>1. \A o \in Owners :
         listeners'[o] = IF o = s THEN RemoveAt(listeners[s], pos) ELSE listeners[o]
  BY <1>0 DEF TypeOK, Disconnected
<1>2. \A x \in Apis : at'[x] = IF x = s THEN d ELSE at[x]
  BY DEF TypeOK
<1>3. \A x \in Apis : Owner(x) = s => x = s
  BY Disjoint DEF Owner
<1>4. IsInjective(RemoveAt(listeners[s], pos))
  BY <1>0, HearsLeave DEF HearInv
<1>5. d # Idle => Hears(RemoveAt(listeners[s], pos), d)
  <2>. SUFFICES ASSUME NEW c \in Calls, Hears(listeners[s], c),
                       d = Without(c, pos, listeners[s][pos])
                PROVE  Hears(RemoveAt(listeners[s], pos), d)
    OBVIOUS
  <2>1. /\ d \in Calls /\ d.i = c.i /\ d.called = c.called
        /\ d.steady = c.steady \ {listeners[s][pos]}
        /\ d.passed = IF pos < c.i THEN c.passed + 1 ELSE c.passed
    <3>1. pos \in Nat
      BY <1>0 DEF Lists
    <3>. QED  BY <3>1, WithoutType
  <2>2. IsInjective(listeners[s])
    BY <1>0 DEF HearInv
  <2>. QED  BY <1>0, <2>1, <2>2, HearsLeave
<1>. QED  BY <1>0, <1>1, <1>2, <1>3, <1>4, <1>5, ListTypes DEF HearInv

(* The call that has handed its argument to the next listener.             *)
LEMMA HearsStep ==
    ASSUME TypeOK, HearInv, NEW x \in Apis, HasNext(x)
    PROVE  Hears(listeners[Owner(x)], Step(at[x], NextListener(x)))
<1>1. /\ listeners[Owner(x)] \in Lists /\ IsInjective(listeners[Owner(x)])
      /\ Hears(listeners[Owner(x)], at[x])
  BY ListTypes DEF HearInv, HasNext
<1>. DEFINE call == Step(at[x], NextListener(x))
<1>2. /\ at[x] \in Calls /\ at[x].i \in 1..Len(listeners[Owner(x)]) /\ call \in Calls
      /\ call.i = at[x].i + 1 /\ call.called = Append(at[x].called, listeners[Owner(x)][at[x].i])
      /\ call.steady = at[x].steady /\ call.passed = at[x].passed
  BY StepType DEF NextListener
<1>. HIDE DEF call
<1>3. Hears(listeners[Owner(x)], call)
  BY <1>1, <1>2, HearsNext
<1>. QED  BY <1>3 DEF call

(* Every step keeps HearInv.                                               *)
LEMMA HearStep == TypeOK /\ HearInv /\ [Next]_vars => HearInv'
<1>. SUFFICES ASSUME TypeOK, HearInv, [Next]_vars PROVE HearInv'
  OBVIOUS
<1>1. ASSUME NEW a \in Announcers, Make(a) PROVE HearInv'
  BY <1>1, OwnerType, HearConnected DEF Make
<1>2. ASSUME NEW s \in Seekers, NEW l \in Listeners, Connect(s, l) PROVE HearInv'
  <2>1. /\ s \in Owners /\ l \notin Range(listeners[s]) /\ UNCHANGED at
        /\ listeners' = [listeners EXCEPT ![s] = Append(@, l)]
    BY <1>2, OwnerType DEF Connect
  <2>. QED  BY <2>1, HearConnected
<1>3. ASSUME NEW s \in Seekers, NEW pos \in DOMAIN listeners[s], Disconnect(s, pos)
      PROVE  HearInv'
  <2>1. pos \in 1..Len(listeners[s]) /\ s \in Apis /\ Owner(s) = s
    BY OwnerType DEF TypeOK
  <2>2. CASE at[s] = Idle
    <3>1. Disconnected(s, pos) /\ at' = [at EXCEPT ![s] = Idle]
      BY <1>3, <2>1, <2>2 DEF Disconnect, TypeOK
    <3>. QED  BY <2>1, <3>1, HearLeft
  <2>3. CASE at[s] # Idle
    <3>1. /\ Disconnected(s, pos)
          /\ at' = [at EXCEPT ![s] = Without(at[s], pos, listeners[s][pos])]
      BY <1>3, <2>3 DEF Disconnect
    <3>2. at[s] \in Calls /\ Hears(listeners[s], at[s])
      BY <2>1, <2>3, ListTypes DEF HearInv
    <3>. QED  BY <2>1, <3>1, <3>2, HearLeft
  <2>. QED  BY <2>2, <2>3
<1>4. ASSUME NEW x \in Apis, NEW d \in Datagrams, Receive(x, d) PROVE HearInv'
  <2>. DEFINE call == [arg |-> d[2], i |-> 1, called |-> <<>>, passed |-> 0,
                       steady |-> Range(listeners[Owner(x)])]
  <2>1. at' = [at EXCEPT ![x] = call] /\ UNCHANGED listeners
    BY <1>4 DEF Receive
  <2>2. call \in Calls
    <3>1. Due(x, d)
      BY <1>4, InboxType, TakeType DEF Receive
    <3>2. d[2] \in DOMAIN Matches \union Announcers
      BY DEF Datagrams
    <3>3. Range(listeners[Owner(x)]) \subseteq Announcers \union Listeners
      BY ListTypes, RangeOfSeq DEF Lists
    <3>. QED  BY <3>2, <3>3 DEF Calls
  <2>3. Hears(listeners[Owner(x)], call)
    BY <2>2, ListTypes, HearsStart
  <2>. QED  BY <2>1, <2>3, HearCall
<1>5. ASSUME NEW x \in Apis, OnSeek(x) PROVE HearInv'
  <2>1. /\ UNCHANGED listeners
        /\ \/ at' = [at EXCEPT ![x] = Step(@, NextListener(x))]
           \/ at' = [at EXCEPT ![x] = Idle]
    BY <1>5 DEF OnSeek
  <2>2. Hears(listeners[Owner(x)], Step(at[x], NextListener(x)))
    BY <1>5, HearsStep DEF OnSeek
  <2>. QED  BY <2>1, <2>2, HearCall
<1>6. ASSUME NEW x \in Apis, OnAdvertise(x) PROVE HearInv'
  <2>. DEFINE l == NextListener(x)
              call == Step(at[x], l)
  <2>1. /\ x \in Seekers /\ Owner(x) = x /\ at[x].i \in 1..Len(listeners[x])
        /\ call \in Calls /\ l = listeners[x][at[x].i]
    BY <1>6, OwnerType, StepType DEF OnAdvertise, NextListener
  <2>2. Hears(listeners[x], call)
    BY <1>6, <2>1, HearsStep DEF OnAdvertise
  <2>3. \/ at' = [at EXCEPT ![x] = call] /\ UNCHANGED listeners
        \/ at' = [at EXCEPT ![x] = Without(call, at[x].i, l)] /\ Disconnected(x, at[x].i)
    BY <1>6 DEF OnAdvertise
  <2>. HIDE DEF call, l
  <2>4. CASE at' = [at EXCEPT ![x] = call] /\ UNCHANGED listeners
    BY <2>1, <2>2, <2>4, HearCall
  <2>5. CASE at' = [at EXCEPT ![x] = Without(call, at[x].i, l)] /\ Disconnected(x, at[x].i)
    BY <2>1, <2>2, <2>5, HearLeft
  <2>. QED  BY <2>3, <2>4, <2>5
<1>7. ASSUME NEW x \in Apis, ListenersDone(x) PROVE HearInv'
  BY <1>7, HearCall DEF ListenersDone
<1>8. CASE UNCHANGED <<listeners, at>>
  BY <1>8 DEF HearInv
<1>9. \/ UNCHANGED <<listeners, at>>
      \/ \E a \in Announcers : Make(a)
      \/ \E s \in Seekers : \/ \E l \in Listeners : Connect(s, l)
                            \/ \E pos \in DOMAIN listeners[s] : Disconnect(s, pos)
      \/ \E x \in Apis : OnSeek(x) \/ OnAdvertise(x) \/ ListenersDone(x)
      \/ \E x \in Apis, d \in Datagrams : Receive(x, d)
  BY DEF Next, Receiving, Start, Stop, StraySent, ReceiveCut, ReceiveStray, ReceiveOther,
         ReceiveSpoiled, Lose, Duplicate, Seek, vars
<1>. QED  BY <1>1, <1>2, <1>3, <1>4, <1>5, <1>6, <1>7, <1>8, <1>9

(* Listeners that stay connected are called once each, and not more are    *)
(* missed than others left before their turn.                              *)
THEOREM ListenersHear == Spec => []EveryListenerHears
<1>1. Init => HearInv
  <2>. SUFFICES ASSUME Init PROVE HearInv
    OBVIOUS
  <2>1. PICK connected \in SetToSeqs(Listeners) :
            listeners = [o \in Owners |-> IF o \in Seekers THEN connected ELSE <<>>]
    BY DEF Init
  <2>2. IsInjective(connected) /\ IsInjective(<<>>)
    BY DEF SetToSeqs, IsInjective, IsInjective
  <2>. QED  BY <2>1, <2>2 DEF Init, HearInv
<1>2. TypeOK /\ HearInv => EveryListenerHears
  <2>. SUFFICES ASSUME TypeOK, HearInv, NEW x \in Apis, at[x] # Idle
                PROVE  /\ \A j, k \in DOMAIN at[x].called :
                              at[x].called[j] = at[x].called[k] /\ at[x].called[j] \in at[x].steady
                                  => j = k
                       /\ ~HasNext(x) =>
                              Cardinality(at[x].steady \ Range(at[x].called)) <= at[x].passed
    BY DEF EveryListenerHears
  <2>1. /\ Hears(listeners[Owner(x)], at[x]) /\ at[x] \in Calls /\ at[x].i \in Nat
        /\ listeners[Owner(x)] \in Lists
    BY ListTypes DEF HearInv
  <2>2. ~HasNext(x) => at[x].i > Len(listeners[Owner(x)])
    BY <2>1 DEF HasNext, Lists
  <2>. QED  BY <2>1, <2>2, HearsAll DEF Hears
<1>. QED  BY <1>1, <1>2, HearStep, TypeCorrect, PTL DEF Spec
=============================================================================
