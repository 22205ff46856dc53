--------------------------- MODULE RemoteAPIProofs ---------------------------
(***************************************************************************)
(* Proofs about RemoteAPI for any number of callers, calls and methods,    *)
(* with and without action queues and faults: RemoteAPI implements         *)
(* RemoteCall, and a promise that is waited for is still registered.       *)
(***************************************************************************)
EXTENDS RemoteAPI, Functions, FiniteSetTheorems, TLAPS

(* There are two peers, and everybody is at one of them. *)
LEMMA PeerFacts ==
    /\ \A p \in Peers : Other(p) \in Peers /\ Other(p) # p /\ Other(Other(p)) = p
    /\ \A p, q \in Peers : q # p => q = Other(p)
    /\ \A t \in Threads : Peer(t) \in Peers
    /\ \A p \in Peers : p \in Threads /\ Peer(p) = p
    /\ \A t \in Callers : t \in Threads /\ t \notin Peers
<1>1. PICK a \in Peers, b \in Peers : a # b /\ Peers = {a, b}
  BY APIAssumption
<1>2. ASSUME NEW p \in Peers
      PROVE  /\ Other(p) \in Peers /\ Other(p) # p
             /\ \A q \in Peers : q # p => q = Other(p)
  <2>1. \E q \in Peers : q # p
    BY <1>1
  <2>. QED  BY <1>1, <2>1 DEF Other
<1>3. \A p \in Peers : Other(Other(p)) = p
  BY <1>2
<1>. QED  BY <1>2, <1>3, APIAssumption DEF Peer, Threads

(* The calls are pairs of a thread and a number. *)
LEMMA CallFacts ==
    /\ \A t \in Threads : Limit(t) \in Nat
    /\ \A t \in Threads, n \in Nat \ {0} : n <= Limit(t) => <<t, n>> \in Calls
    /\ \A c \in Calls : /\ c[1] \in Threads /\ c[2] \in Nat \ {0} /\ c[2] <= Limit(c[1])
                        /\ c = <<c[1], c[2]>>
<1>1. Cardinality(Callers) \in Nat /\ MaxCalls \in Nat
  BY APIAssumption, FS_CardinalityType
<1>2. \A m, n \in Nat : m * n \in Nat
  OBVIOUS
<1>3. \A t \in Threads : Limit(t) \in Nat
  BY <1>1, <1>2 DEF Limit
<1>4. \A t \in Threads, n \in Nat \ {0} : n <= Limit(t) => <<t, n>> \in Calls
  BY <1>3 DEF Calls
<1>5. \A c \in Calls : \E t \in Threads : \E n \in 1 .. Limit(t) : c = <<t, n>>
  BY DEF Calls
<1>. QED  BY <1>3, <1>4, <1>5

(* There are finitely many of them. *)
LEMMA CallsFinite == IsFiniteSet(Calls) /\ Cardinality(Calls) \in Nat
<1>1. IsFiniteSet(Threads)
  <2>1. PICK a \in Peers, b \in Peers : Peers = {a, b}
    BY APIAssumption
  <2>2. IsFiniteSet({a, b})
    <3>1. IsFiniteSet({}) /\ IsFiniteSet({} \union {a})
      BY FS_EmptySet, FS_AddElement
    <3>2. IsFiniteSet(({} \union {a}) \union {b})
      BY <3>1, FS_AddElement
    <3>3. ({} \union {a}) \union {b} = {a, b}
      OBVIOUS
    <3>. QED  BY <3>2, <3>3
  <2>. QED  BY <2>1, <2>2, APIAssumption, FS_Union DEF Threads
<1>. DEFINE Most == Cardinality(Callers) * MaxCalls + MaxCalls
<1>2. Most \in Nat /\ \A t \in Threads : Limit(t) \in Nat /\ Limit(t) <= Most
  <2>1. Cardinality(Callers) \in Nat /\ MaxCalls \in Nat
    BY APIAssumption, FS_CardinalityType
  <2>2. \A m, n \in Nat : m * n \in Nat
    OBVIOUS
  <2>3. Cardinality(Callers) * MaxCalls \in Nat
    BY <2>1, <2>2
  <2>. QED  BY <2>1, <2>3 DEF Limit
<1>. HIDE DEF Most
<1>3. IsFiniteSet(Threads \X (1 .. Most))
  <2>1. 1 \in Int /\ Most \in Int
    BY <1>2
  <2>2. IsFiniteSet(1 .. Most)
    BY <2>1, FS_Interval
  <2>. QED  BY <1>1, <2>2, FS_Product
<1>4. Calls \in SUBSET (Threads \X (1 .. Most))
  BY <1>2, CallFacts
<1>5. IsFiniteSet(Calls)
  BY <1>3, <1>4, FS_Subset
<1>. QED  BY <1>5, FS_CardinalityType

Messages == CallMessages \union ReplyMessages

(* What messages consist of. *)
LEMMA MessageFacts ==
    /\ \A m \in CallMessages : /\ m.type = "call" /\ m.id \in Ids \union {0}
                               /\ m.method \in Methods /\ m.of \in Calls
                               /\ m.id # 0 <=> m.method \in HasReply
                               /\ m # None
    /\ \A m \in ReplyMessages : /\ m.type = "reply" /\ m.id \in Ids
                                /\ m.body \in Outcomes /\ m.body.of \in Calls
    /\ \A m \in Messages : /\ m.type = "call" => m \in CallMessages
                           /\ m.type = "reply" => m \in ReplyMessages
                           /\ m.type \in {"call", "reply"}
    /\ \A i \in Ids \union {0}, m \in Methods, c \in Calls :
          (i # 0 <=> m \in HasReply) => CallMessage(i, m, c) \in CallMessages
    /\ \A i \in Ids, c \in Calls, k \in Kinds : ReplyMessage(i, c, k) \in ReplyMessages
    /\ \A c \in Calls, k \in Kinds :
          Outcome(c, k) \in Outcomes /\ Outcome(c, k) # None /\ Outcome(c, k).of = c
<1>1. \A m \in CallMessages : /\ m.type = "call" /\ m.id \in Ids \union {0}
                              /\ m.method \in Methods /\ m.of \in Calls
                              /\ m.id # 0 <=> m.method \in HasReply
  BY DEF CallMessages
<1>2. \A m \in ReplyMessages : /\ m.type = "reply" /\ m.id \in Ids
                               /\ m.body \in Outcomes /\ m.body.of \in Calls
  BY DEF ReplyMessages, Outcomes
<1>3. \A i \in Ids \union {0}, m \in Methods, c \in Calls :
         (i # 0 <=> m \in HasReply) => CallMessage(i, m, c) \in CallMessages
  BY DEF CallMessages, CallMessage
<1>0. \A m \in CallMessages : m # None
  BY APIAssumption
<1>4. \A c \in Calls, k \in Kinds :
          Outcome(c, k) \in Outcomes /\ Outcome(c, k) # None /\ Outcome(c, k).of = c
  BY APIAssumption DEF Outcome, Outcomes
<1>5. \A i \in Ids, c \in Calls, k \in Kinds : ReplyMessage(i, c, k) \in ReplyMessages
  BY <1>4 DEF ReplyMessages, ReplyMessage
<1>. QED  BY <1>0, <1>1, <1>2, <1>3, <1>4, <1>5 DEF Messages

(* A queue that is read from the front. *)
LEMMA TailFacts ==
    ASSUME NEW S, NEW s \in Seq(S), s # <<>>
    PROVE  /\ Tail(s) \in Seq(S) /\ Head(s) \in S /\ Head(s) = s[1] /\ 1 \in DOMAIN s
           /\ \A k \in DOMAIN Tail(s) : k + 1 \in DOMAIN s /\ Tail(s)[k] = s[k + 1] /\ k + 1 # 1
           /\ \A j, k \in DOMAIN Tail(s) : j + 1 = k + 1 => j = k
OBVIOUS

(* A queue that is written to at the end. *)
LEMMA AppendFacts ==
    ASSUME NEW S, NEW s \in Seq(S), NEW e \in S
    PROVE  /\ Append(s, e) \in Seq(S) /\ Len(s) + 1 \in DOMAIN Append(s, e)
           /\ Append(s, e)[Len(s) + 1] = e
           /\ \A k \in DOMAIN s : k \in DOMAIN Append(s, e) /\ Append(s, e)[k] = s[k]
           /\ \A k \in DOMAIN Append(s, e) : k \in DOMAIN s \/ k = Len(s) + 1
           /\ Len(s) + 1 \notin DOMAIN s
OBVIOUS
-----------------------------------------------------------------------------
(* The calls made so far.  A peer draws no more ids than calls are made,   *)
(* so Ids has enough of them.                                              *)
Issued(c) == c[2] <= made[c[1]]
IssuedCalls == {c \in Calls : Issued(c)}
IdsLeft == \A p \in Peers : nextId[p] <= Cardinality(IssuedCalls) + 1
Typed == TypeOK /\ IdsLeft

(* At the start all is idle, and no message is under way. *)
LEMMA TypeInit == Init => Typed
<1>. SUFFICES ASSUME Init PROVE Typed
  OBVIOUS
<1>1. \A p \in Peers : p \in Threads
  BY PeerFacts
<1>2. TypeOK
  BY <1>1, PeerFacts, CallFacts, APIAssumption DEF Init, TypeOK, Threads
<1>3. IsFiniteSet(IssuedCalls)
  BY CallsFinite, FS_Subset DEF IssuedCalls
<1>4. Cardinality(IssuedCalls) \in Nat
  BY <1>3, FS_CardinalityType
<1>. QED  BY <1>2, <1>4 DEF Init, Typed, IdsLeft

(* What a thread calls next is a new call, with an id that there is.       *)
LEMMA NewCall ==
    ASSUME Typed, NEW t \in Threads, made[t] < Limit(t),
           made' = [made EXCEPT ![t] = @ + 1]
    PROVE  /\ <<t, made[t] + 1>> \in Calls /\ ~Issued(<<t, made[t] + 1>>)
           /\ made' \in [Threads -> Nat] /\ \A u \in Threads : made'[u] <= Limit(u)
           /\ \A c \in Calls : Issued(c)' <=> Issued(c) \/ c = <<t, made[t] + 1>>
           /\ IssuedCalls' = IssuedCalls \union {<<t, made[t] + 1>>}
           /\ Cardinality(IssuedCalls') = Cardinality(IssuedCalls) + 1
           /\ Cardinality(IssuedCalls) \in Nat
           /\ \A p \in Peers : nextId[p] \in Ids
<1>. DEFINE new == <<t, made[t] + 1>>
<1>1. /\ made \in [Threads -> Nat] /\ \A u \in Threads : made[u] <= Limit(u)
      /\ nextId \in [Peers -> Nat \ {0}]
  BY DEF Typed, TypeOK
<1>2. /\ made[t] \in Nat /\ Limit(t) \in Nat
      /\ made[t] + 1 \in Nat \ {0} /\ made[t] + 1 <= Limit(t)
  BY <1>1, CallFacts
<1>3. new \in Calls /\ ~Issued(new)
  BY <1>2, CallFacts DEF Issued
<1>4. made' \in [Threads -> Nat] /\ \A u \in Threads : made'[u] <= Limit(u)
  BY <1>1, <1>2
<1>5. ASSUME NEW c \in Calls PROVE Issued(c)' <=> Issued(c) \/ c = new
  <2>1. /\ c[1] \in Threads /\ c[2] \in Nat \ {0} /\ c = <<c[1], c[2]>>
    BY CallFacts
  <2>2. CASE c[1] # t
    BY <1>1, <2>1, <2>2 DEF Issued
  <2>3. CASE c[1] = t
    <3>1. made'[c[1]] = made[t] + 1
      BY <1>1, <2>3
    <3>2. c = new <=> c[2] = made[t] + 1
      BY <2>1, <2>3
    <3>. QED  BY <1>2, <2>1, <2>3, <3>1, <3>2 DEF Issued
  <2>. QED  BY <2>2, <2>3
<1>6. IssuedCalls' = IssuedCalls \union {new}
  <2>1. IssuedCalls' = {c \in Calls : Issued(c)'}
    BY DEF IssuedCalls
  <2>. HIDE DEF new
  <2>. QED  BY <1>3, <1>5, <2>1 DEF IssuedCalls
<1>7. /\ IsFiniteSet(IssuedCalls) /\ IsFiniteSet(IssuedCalls') /\ IssuedCalls' \in SUBSET Calls
      /\ new \notin IssuedCalls
  BY <1>3, <1>6, CallsFinite, FS_Subset DEF IssuedCalls
<1>8. /\ Cardinality(IssuedCalls) \in Nat /\ Cardinality(IssuedCalls') \in Nat
      /\ Cardinality(IssuedCalls') <= Cardinality(Calls)
  BY <1>7, CallsFinite, FS_Subset, FS_CardinalityType
<1>9. Cardinality(IssuedCalls') = Cardinality(IssuedCalls) + 1
  BY <1>6, <1>7, FS_AddElement
<1>10. ASSUME NEW p \in Peers PROVE nextId[p] \in Ids
  <2>1. nextId[p] <= Cardinality(IssuedCalls) + 1 /\ nextId[p] \in Nat \ {0}
    BY <1>1 DEF Typed, IdsLeft
  <2>. QED  BY <1>8, <1>9, <2>1, CallsFinite DEF Ids
<1>. QED  BY <1>3, <1>4, <1>5, <1>6, <1>8, <1>9, <1>10

(* A message more or less on the way leaves the network typed. *)
LEMMA NetType ==
    ASSUME TypeOK, NEW p \in Peers
    PROVE  /\ \A msg \in Messages : Post(p, msg) =>
                 net' \in [Peers -> Seq(CallMessages \union ReplyMessages)]
           /\ net[p] # <<>> =>
                 /\ Head(net[p]) \in Messages
                 /\ [net EXCEPT ![p] = Tail(@)] \in
                       [Peers -> Seq(CallMessages \union ReplyMessages)]
<1>1. net \in [Peers -> Seq(Messages)] /\ net[p] \in Seq(Messages)
  BY DEF TypeOK, Messages
<1>2. ASSUME NEW msg \in Messages, Post(p, msg)
      PROVE  net' \in [Peers -> Seq(Messages)]
  <2>1. Append(net[p], msg) \in Seq(Messages)
    BY <1>1, AppendFacts
  <2>. QED  BY <1>1, <1>2, <2>1 DEF Post
<1>3. ASSUME net[p] # <<>>
      PROVE  /\ Head(net[p]) \in Messages
             /\ [net EXCEPT ![p] = Tail(@)] \in [Peers -> Seq(Messages)]
  <2>1. Tail(net[p]) \in Seq(Messages) /\ Head(net[p]) \in Messages
    BY <1>1, <1>3, TailFacts
  <2>. QED  BY <1>1, <2>1
<1>. QED  BY <1>2, <1>3 DEF Messages

Places == {"idle", "run", "send", "await", "compute", "reply", "dead"}

(* What TypeOK says of threads and what they have in hand.                 *)
ControlOK ==
    /\ \A t \in Callers : tpc[t] \in {"idle", "send", "await"}
    /\ \A p \in Peers : /\ tpc[p] \notin {"idle", "dead"} => job[p] # None
                        /\ tpc[p] = "reply" => job[p].method \in HasReply
    /\ \A t \in Threads : /\ tpc[t] \in {"send", "await"} => out[t] # None
                          /\ tpc[t] = "await" => out[t].id # 0
    /\ \A p \in Peers : tpc[p] = "reply" => ran[job[p].of] # None

(* What the typing invariant says of the program counters. *)
LEMMA ControlFacts == TypeOK => ControlOK /\ tpc \in [Threads -> Places]
BY DEF TypeOK, ControlOK, Places

(* And the rest of it. *)
LEMMA DataFacts ==
    ASSUME TypeOK, UNCHANGED <<faults, nextId, made>>,
           pending' \in [Peers -> [Ids -> Calls \union {None}]],
           promise' \in [Calls -> Outcomes \union {None}],
           net' \in [Peers -> Seq(CallMessages \union ReplyMessages)],
           receiver' \in [Peers -> BOOLEAN],
           actions' \in [Peers -> Seq(CallMessages)],
           job' \in [Peers -> CallMessages \union {None}],
           tpc' \in [Threads -> Places],
           out' \in [Threads -> CallMessages \union {None}],
           ran' \in [Calls -> Outcomes \union {None}],
           ControlOK'
    PROVE  TypeOK'
<1>1. /\ faults' \in SUBSET Faults /\ nextId' \in [Peers -> Nat \ {0}]
      /\ made' \in [Threads -> Nat] /\ \A t \in Threads : made'[t] <= Limit(t)
  BY DEF TypeOK
<1>. QED  BY <1>1 DEF TypeOK, ControlOK, Places

(* What TypeOK says of each variable by itself. *)
LEMMA DataTypes ==
    TypeOK => /\ pending \in [Peers -> [Ids -> Calls \union {None}]]
              /\ promise \in [Calls -> Outcomes \union {None}]
              /\ net \in [Peers -> Seq(CallMessages \union ReplyMessages)]
              /\ receiver \in [Peers -> BOOLEAN]
              /\ actions \in [Peers -> Seq(CallMessages)]
              /\ job \in [Peers -> CallMessages \union {None}]
              /\ out \in [Threads -> CallMessages \union {None}]
              /\ ran \in [Calls -> Outcomes \union {None}]
BY DEF TypeOK

(* What threads have in hand are calls. *)
LEMMA InHand ==
    TypeOK =>
      /\ \A p \in Peers : tpc[p] \notin {"idle", "dead"} =>
            job[p] \in CallMessages /\ job[p].of \in Calls /\ job[p].id \in Ids \union {0}
      /\ \A t \in Threads : tpc[t] \in {"send", "await"} =>
            out[t] \in CallMessages /\ out[t].of \in Calls /\ out[t].id \in Ids \union {0}
<1>. SUFFICES ASSUME TypeOK PROVE
      /\ \A p \in Peers : tpc[p] \notin {"idle", "dead"} => job[p] \in CallMessages
      /\ \A t \in Threads : tpc[t] \in {"send", "await"} => out[t] \in CallMessages
  BY MessageFacts
<1>. QED  BY ControlFacts, DataTypes DEF ControlOK

(* So is what a handler thread replies to. *)
LEMMA ReplyFacts ==
    ASSUME TypeOK, NEW p \in Peers, tpc[p] = "reply"
    PROVE  /\ job[p].id \in Ids /\ job[p].of \in Calls /\ ran[job[p].of] \in Outcomes
           /\ ran[job[p].of].kind \in Kinds
           /\ ReplyMessage(job[p].id, job[p].of, ran[job[p].of].kind) \in ReplyMessages
<1>1. job[p] \in CallMessages /\ job[p].method \in HasReply /\ ran[job[p].of] # None
  BY InHand, ControlFacts DEF ControlOK
<1>2. job[p].id \in Ids /\ job[p].of \in Calls
  BY <1>1, MessageFacts
<1>3. ran[job[p].of] \in Outcomes
  BY <1>1, <1>2, DataTypes
<1>4. ran[job[p].of].kind \in Kinds
  BY <1>3 DEF Outcomes
<1>. QED  BY <1>2, <1>3, <1>4, MessageFacts

(* Where a call ends its thread goes on. *)
LEMMA ResumeType ==
    ASSUME TypeOK, NEW t \in Threads, tpc[t] \in {"send", "await"}, Resume(t),
           UNCHANGED <<job, out, ran>>
    PROVE  ControlOK' /\ tpc' \in [Threads -> Places]
BY ControlFacts, PeerFacts DEF ControlOK, Resume, Places

(* Making a call keeps the types. *)
LEMMA NewRequestType ==
    ASSUME Typed, NEW t \in Threads, NEW m \in Methods, NewRequest(t, m), UNCHANGED faults
    PROVE  Typed'
<1>. DEFINE p == Peer(t)
            c == <<t, made[t] + 1>>
            id == IF m \in HasReply THEN nextId[p] ELSE 0
<1>1. made[t] < Limit(t) /\ made' = [made EXCEPT ![t] = @ + 1]
  BY DEF NewRequest
<1>2. /\ c \in Calls /\ made' \in [Threads -> Nat] /\ \A u \in Threads : made'[u] <= Limit(u)
      /\ Cardinality(IssuedCalls') = Cardinality(IssuedCalls) + 1
      /\ Cardinality(IssuedCalls) \in Nat
      /\ p \in Peers /\ nextId[p] \in Ids
  BY <1>1, NewCall, PeerFacts
<1>3. id \in Ids \union {0} /\ (id # 0 <=> m \in HasReply)
  BY <1>2 DEF Ids
<1>4. CallMessage(id, m, c) \in CallMessages
  BY <1>2, <1>3, MessageFacts
<1>5. /\ out' = [out EXCEPT ![t] = CallMessage(id, m, c)]
      /\ IF m \in HasReply THEN /\ nextId' = [nextId EXCEPT ![p] = @ + 1]
                                /\ pending' = [pending EXCEPT ![p][id] = c]
         ELSE UNCHANGED <<nextId, pending>>
      /\ tpc' = [tpc EXCEPT ![t] = "send"]
      /\ UNCHANGED <<promise, net, receiver, actions, job, ran>>
  BY DEF NewRequest, handling
<1>. HIDE DEF p, c, id
<1>6. nextId' \in [Peers -> Nat \ {0}] /\ \A q \in Peers : nextId'[q] <= nextId[q] + 1
  <2>1. nextId \in [Peers -> Nat \ {0}]
    BY DEF Typed, TypeOK
  <2>. QED  BY <1>2, <1>5, <2>1
<1>7. pending' \in [Peers -> [Ids -> Calls \union {None}]]
  <2>1. pending \in [Peers -> [Ids -> Calls \union {None}]]
    BY DEF Typed, TypeOK
  <2>2. [pending[p] EXCEPT ![id] = c] \in [Ids -> Calls \union {None}]
    BY <1>2, <2>1
  <2>. QED  BY <1>2, <1>5, <2>1, <2>2
<1>8. out' \in [Threads -> CallMessages \union {None}]
  BY <1>4, <1>5 DEF Typed, TypeOK
<1>9. tpc[t] # "reply" /\ (t \in Peers => tpc[t] = "run")
  BY PeerFacts DEF NewRequest, MayCall, Typed, TypeOK
<1>10. CallMessage(id, m, c) # None
  BY <1>4, MessageFacts
<1>11. TypeOK'
  <2>1. /\ tpc' \in [Threads -> {"idle", "run", "send", "await", "compute", "reply", "dead"}]
        /\ \A u \in Callers : tpc'[u] \in {"idle", "send", "await"}
    BY <1>5, PeerFacts DEF Typed, TypeOK
  <2>2. \A q \in Peers : /\ tpc'[q] \notin {"idle", "dead"} => job'[q] # None
                         /\ tpc'[q] = "reply" => job'[q].method \in HasReply
    BY <1>5, <1>9, PeerFacts DEF Typed, TypeOK
  <2>3. \A u \in Threads : /\ tpc'[u] \in {"send", "await"} => out'[u] # None
                           /\ tpc'[u] = "await" => out'[u].id # 0
    BY <1>5, <1>10 DEF Typed, TypeOK
  <2>4. /\ promise' \in [Calls -> Outcomes \union {None}]
        /\ net' \in [Peers -> Seq(CallMessages \union ReplyMessages)]
        /\ receiver' \in [Peers -> BOOLEAN]
        /\ actions' \in [Peers -> Seq(CallMessages)]
        /\ job' \in [Peers -> CallMessages \union {None}]
        /\ ran' \in [Calls -> Outcomes \union {None}]
    BY <1>5, DataTypes DEF Typed
  <2>5. \A q \in Peers : tpc'[q] = "reply" => ran'[job'[q].of] # None
    BY <1>5, <1>9, <2>1, PeerFacts DEF Typed, TypeOK
  <2>6. faults' \in SUBSET Faults
    BY DEF Typed, TypeOK
  <2>. QED  BY <1>2, <1>6, <1>7, <1>8, <2>1, <2>2, <2>3, <2>4, <2>5, <2>6 DEF TypeOK
<1>12. IdsLeft'
  <2>1. \A q \in Peers : nextId[q] <= Cardinality(IssuedCalls) + 1 /\ nextId[q] \in Nat
    BY DEF Typed, IdsLeft, TypeOK
  <2>. QED  BY <1>2, <1>6, <2>1 DEF IdsLeft
<1>. QED  BY <1>11, <1>12 DEF Typed

(* The other steps of a calling thread keep the types. *)
LEMMA OutgoingType ==
    ASSUME TypeOK, NEW t \in Threads, OutgoingStep(t), UNCHANGED faults
    PROVE  TypeOK' /\ UNCHANGED <<nextId, made>>
<1>1. /\ tpc[t] \in {"send", "await"}
      /\ UNCHANGED <<nextId, pending, promise, receiver, actions, job, made, out, ran>>
      /\ Send(t) \/ (Resume(t) /\ UNCHANGED net)
  BY DEF OutgoingStep, Send, SendFails, AwaitReturns, AwaitRefused, AwaitTimeout,
         handling, calling
<1>2. CASE Resume(t) /\ UNCHANGED net
  BY <1>1, <1>2, ResumeType, DataFacts, DataTypes
<1>3. CASE Send(t)
  <2>1. Other(Peer(t)) \in Peers /\ out[t] \in CallMessages
    BY <1>1, PeerFacts DEF TypeOK
  <2>2. net' \in [Peers -> Seq(CallMessages \union ReplyMessages)]
    BY <1>3, <2>1, NetType DEF Send, Messages
  <2>3. ControlOK' /\ tpc' \in [Threads -> Places]
    <3>1. CASE out[t].id # 0
      <4>1. tpc' = [tpc EXCEPT ![t] = "await"] /\ tpc[t] = "send"
        BY <1>3, <3>1 DEF Send
      <4>. QED  BY <1>1, <3>1, <4>1, ControlFacts, PeerFacts DEF ControlOK, Places
    <3>2. CASE out[t].id = 0
      <4>1. Resume(t)
        BY <1>3, <3>2 DEF Send
      <4>. QED  BY <1>1, <4>1, ResumeType
    <3>. QED  BY <3>1, <3>2
  <2>. QED  BY <1>1, <2>2, <2>3, DataFacts, DataTypes
<1>. QED  BY <1>1, <1>2, <1>3

(* A handler thread begins with a message. *)
LEMMA BeginType ==
    ASSUME TypeOK, NEW p \in Peers, NEW msg \in CallMessages, Begin(p, msg),
           UNCHANGED <<out, ran>>
    PROVE  /\ ControlOK' /\ tpc' \in [Threads -> Places]
           /\ job' \in [Peers -> CallMessages \union {None}]
<1>1. msg # None
  BY MessageFacts
<1>2. /\ job' = [job EXCEPT ![p] = msg]
      /\ \E x \in {"compute", "run"} : tpc' = [tpc EXCEPT ![p] = x]
  BY DEF Begin
<1>. QED  BY <1>1, <1>2, ControlFacts, DataTypes, PeerFacts DEF ControlOK, Places

(* A message comes in. *)
LEMMA ListenType ==
    ASSUME TypeOK, NEW p \in Peers, Listens(p)
    PROVE  /\ Head(net[p]) \in Messages
           /\ [net EXCEPT ![p] = Tail(@)] \in [Peers -> Seq(CallMessages \union ReplyMessages)]
           /\ Head(net[p]).type = "call" => Head(net[p]) \in CallMessages
           /\ Head(net[p]).type = "reply" => Head(net[p]) \in ReplyMessages
BY NetType, MessageFacts DEF Listens

(* The steps of a receiver thread keep the types. *)
LEMMA ReceiverType ==
    ASSUME TypeOK, NEW p \in Peers, ReceiverStep(p) \/ HandleJunk(p), UNCHANGED faults
    PROVE  TypeOK' /\ UNCHANGED <<nextId, made>>
<1>1. CASE DeliverReply(p)
  <2>. DEFINE msg == Head(net[p])
              c == pending[p][msg.id]
  <2>1. /\ msg.id \in Ids /\ msg.body \in Outcomes
        /\ net' = [net EXCEPT ![p] = Tail(@)] /\ Listens(p)
        /\ UNCHANGED <<nextId, receiver, actions, job, tpc, made, out, ran>>
    BY <1>1, ListenType, MessageFacts DEF DeliverReply, handling, calling
  <2>2. /\ pending' \in [Peers -> [Ids -> Calls \union {None}]]
        /\ promise' \in [Calls -> Outcomes \union {None}]
    <3>1. CASE c = None
      BY <1>1, <3>1, DataTypes DEF DeliverReply
    <3>2. CASE c # None
      <4>1. /\ pending' = [pending EXCEPT ![p][msg.id] = None]
            /\ promise' = [promise EXCEPT ![c] = msg.body]
        BY <1>1, <3>2 DEF DeliverReply
      <4>. HIDE DEF c, msg
      <4>2. [pending[p] EXCEPT ![msg.id] = None] \in [Ids -> Calls \union {None}]
        BY DataTypes
      <4>. QED  BY <2>1, <4>1, <4>2, DataTypes
    <3>. QED  BY <3>1, <3>2
  <2>3. ControlOK'
    BY <2>1, ControlFacts DEF ControlOK
  <2>. QED  BY <2>1, <2>2, <2>3, ListenType, DataFacts, DataTypes, ControlFacts
<1>2. CASE HandleMethod(p)
  <2>1. /\ Head(net[p]) \in CallMessages /\ Listens(p)
        /\ net' = [net EXCEPT ![p] = Tail(@)]
        /\ UNCHANGED <<nextId, pending, promise, receiver, made, out, ran>>
    BY <1>2, ListenType DEF HandleMethod, calling
  <2>2. CASE p \in Async
    <3>1. actions' = [actions EXCEPT ![p] = Append(@, Head(net[p]))] /\ UNCHANGED <<job, tpc>>
      BY <1>2, <2>2 DEF HandleMethod
    <3>2. Append(actions[p], Head(net[p])) \in Seq(CallMessages)
      BY <2>1, AppendFacts, DataTypes
    <3>3. ControlOK'
      BY <2>1, <3>1, ControlFacts DEF ControlOK
    <3>4. actions' \in [Peers -> Seq(CallMessages)]
      BY <3>1, <3>2, DataTypes
    <3>. QED  BY <2>1, <3>1, <3>3, <3>4, ListenType, DataFacts, DataTypes, ControlFacts
  <2>3. CASE p \notin Async
    <3>1. Begin(p, Head(net[p])) /\ UNCHANGED actions
      BY <1>2, <2>3 DEF HandleMethod
    <3>. QED  BY <2>1, <3>1, ListenType, BeginType, DataFacts, DataTypes
  <2>. QED  BY <2>2, <2>3
<1>3. CASE HandleUnknown(p)
  <2>. DEFINE msg == Head(net[p])
              rest == [net EXCEPT ![p] = Tail(@)]
  <2>1. /\ msg \in CallMessages /\ Listens(p) /\ msg.of \in Calls
        /\ Outcome(msg.of, "error") \in Outcomes /\ Outcome(msg.of, "error") # None
        /\ Other(p) \in Peers /\ Other(p) # p
    BY <1>3, ListenType, MessageFacts, PeerFacts DEF HandleUnknown, Kinds
  <2>2. /\ ran' = [ran EXCEPT ![msg.of] = Outcome(msg.of, "error")]
        /\ UNCHANGED <<nextId, pending, promise, actions, job, tpc, made, out>>
        /\ \/ net' = rest /\ receiver' = receiver
           \/ /\ msg.id # 0 /\ receiver' = receiver
              /\ net' = [rest EXCEPT ![Other(p)] =
                            Append(@, ReplyMessage(msg.id, msg.of, "error"))]
           \/ net' = rest /\ receiver' = [receiver EXCEPT ![p] = FALSE]
    BY <1>3 DEF HandleUnknown, handling, calling
  <2>3. ran' \in [Calls -> Outcomes \union {None}] /\ receiver' \in [Peers -> BOOLEAN]
    BY <2>1, <2>2, DataTypes
  <2>4. rest \in [Peers -> Seq(Messages)]
    BY <2>1, ListenType DEF Messages
  <2>5. net' \in [Peers -> Seq(Messages)]
    <3>1. CASE net' = rest
      BY <2>4, <3>1
    <3>2. CASE /\ msg.id # 0
               /\ net' = [rest EXCEPT ![Other(p)] =
                             Append(@, ReplyMessage(msg.id, msg.of, "error"))]
      <4>1. ReplyMessage(msg.id, msg.of, "error") \in Messages
        BY <2>1, <3>2, MessageFacts DEF Messages, Kinds
      <4>. HIDE DEF rest
      <4>2. Append(rest[Other(p)], ReplyMessage(msg.id, msg.of, "error")) \in Seq(Messages)
        BY <2>1, <2>4, <4>1, AppendFacts
      <4>. QED  BY <2>4, <3>2, <4>2
    <3>. QED  BY <2>2, <3>1, <3>2
  <2>6. ControlOK'
    <3>1. \A c \in Calls : ran[c] # None => ran'[c] # None
      BY <2>1, <2>2, DataTypes
    <3>2. \A q \in Peers : tpc[q] = "reply" => job[q].of \in Calls
      BY InHand
    <3>. QED  BY <2>2, <3>1, <3>2, ControlFacts DEF ControlOK
  <2>. QED  BY <2>2, <2>3, <2>5, <2>6, DataFacts, DataTypes, ControlFacts DEF Messages
<1>4. CASE HandleJunk(p)
  <2>1. /\ receiver' = [receiver EXCEPT ![p] = FALSE]
        /\ UNCHANGED <<nextId, pending, promise, net, actions, job, tpc, made, out, ran>>
    BY <1>4 DEF HandleJunk, handling, calling
  <2>2. ControlOK'
    BY <2>1, ControlFacts DEF ControlOK
  <2>. QED  BY <2>1, <2>2, DataFacts, DataTypes, ControlFacts
<1>. QED  BY <1>1, <1>2, <1>3, <1>4 DEF ReceiverStep

(* The steps of a handler thread, but for its own calls, keep the types. *)
LEMMA HandlerType ==
    ASSUME TypeOK, NEW p \in Peers,
           WorkerTakes(p) \/ HandlerEnds(p) \/ Reply(p) \/ ReplyFails(p), UNCHANGED faults
    PROVE  TypeOK' /\ UNCHANGED <<nextId, made>>
<1>1. /\ tpc[p] \notin {"idle", "dead"} => job[p] \in CallMessages
      /\ p \in Threads
  BY PeerFacts DEF TypeOK
<1>2. CASE WorkerTakes(p)
  <2>1. /\ Begin(p, Head(actions[p])) /\ actions' = [actions EXCEPT ![p] = Tail(@)]
        /\ UNCHANGED <<nextId, pending, promise, net, receiver, made, out, ran>>
    BY <1>2 DEF WorkerTakes, calling
  <2>2. Head(actions[p]) \in CallMessages /\ Tail(actions[p]) \in Seq(CallMessages)
    BY <1>2, TailFacts, DataTypes DEF WorkerTakes
  <2>3. actions' \in [Peers -> Seq(CallMessages)]
    BY <2>1, <2>2, DataTypes
  <2>. QED  BY <2>1, <2>2, <2>3, BeginType, DataFacts, DataTypes
<1>3. CASE HandlerEnds(p)
  <2>1. PICK k \in Kinds : ran' = [ran EXCEPT ![job[p].of] = Outcome(job[p].of, k)]
    BY <1>3 DEF HandlerEnds
  <2>2. /\ job[p] \in CallMessages /\ job[p].of \in Calls
        /\ Outcome(job[p].of, k) \in Outcomes /\ Outcome(job[p].of, k) # None
        /\ tpc' = [tpc EXCEPT ![p] = IF job[p].method \in HasReply THEN "reply" ELSE "idle"]
        /\ UNCHANGED <<nextId, pending, promise, net, receiver, actions, job, made, out>>
    BY <1>1, <1>3, MessageFacts DEF HandlerEnds, handling, calling
  <2>3. ran' \in [Calls -> Outcomes \union {None}] /\ tpc' \in [Threads -> Places]
    BY <2>1, <2>2, DataTypes, ControlFacts DEF Places
  <2>4. ControlOK'
    <3>1. \A c \in Calls : ran[c] # None \/ c = job[p].of => ran'[c] # None
      BY <2>1, <2>2, DataTypes
    <3>2. \A q \in Peers : tpc[q] = "reply" => job[q].of \in Calls
      BY InHand
    <3>3. tpc[p] = "compute" /\ \A t \in Callers : t # p
      BY <1>3, PeerFacts DEF HandlerEnds
    <3>. QED  BY <1>1, <2>2, <3>1, <3>2, <3>3, ControlFacts DEF ControlOK
  <2>. QED  BY <2>2, <2>3, <2>4, DataFacts, DataTypes
<1>4. CASE Reply(p)
  <2>. DEFINE msg == ReplyMessage(job[p].id, job[p].of, ran[job[p].of].kind)
  <2>1. /\ tpc[p] = "reply" /\ Post(Other(p), msg) /\ tpc' = [tpc EXCEPT ![p] = "idle"]
        /\ UNCHANGED <<nextId, pending, promise, receiver, actions, job, made, out, ran>>
    BY <1>4 DEF Reply, handling, calling
  <2>2. msg \in Messages
    BY <2>1, ReplyFacts DEF Messages
  <2>3. net' \in [Peers -> Seq(CallMessages \union ReplyMessages)]
    <3>. HIDE DEF msg
    <3>. QED  BY <2>1, <2>2, NetType, PeerFacts
  <2>4. ControlOK' /\ tpc' \in [Threads -> Places]
    BY <1>1, <2>1, ControlFacts, PeerFacts DEF ControlOK, Places
  <2>. QED  BY <2>1, <2>3, <2>4, DataFacts, DataTypes
<1>5. CASE ReplyFails(p)
  <2>1. PICK x \in {"dead", "idle"}, b \in BOOLEAN :
          /\ tpc' = [tpc EXCEPT ![p] = x] /\ receiver' = [receiver EXCEPT ![p] = b]
          /\ UNCHANGED <<nextId, pending, promise, net, actions, job, made, out, ran>>
    BY <1>5, DataTypes DEF ReplyFails, handling, calling
  <2>2. ControlOK' /\ tpc' \in [Threads -> Places]
    BY <1>1, <2>1, ControlFacts, PeerFacts DEF ControlOK, Places
  <2>. QED  BY <2>1, <2>2, DataFacts, DataTypes
<1>. QED  BY <1>2, <1>3, <1>4, <1>5

(* Every step is one of these. *)
LEMMA Steps ==
    ASSUME [Next]_vars
    PROVE  \/ UNCHANGED vars
           \/ /\ UNCHANGED faults
              /\ \/ \E t \in Threads, m \in Methods : NewRequest(t, m)
                 \/ \E t \in Threads : OutgoingStep(t)
                 \/ \E p \in Peers : \/ ReceiverStep(p) \/ HandleJunk(p) \/ WorkerTakes(p)
                                      \/ HandlerEnds(p) \/ Reply(p) \/ ReplyFails(p)
BY PeerFacts DEF Next, HandlerStep

(* Everything keeps the types, and the supply of ids. *)
LEMMA TypeStep == Typed /\ [Next]_vars => Typed'
<1>. SUFFICES ASSUME Typed, [Next]_vars PROVE Typed'
  OBVIOUS
<1>1. CASE UNCHANGED vars
  BY <1>1 DEF Typed, TypeOK, IdsLeft, IssuedCalls, Issued, vars, handling, calling
<1>2. CASE TypeOK' /\ UNCHANGED <<nextId, made>>
  BY <1>2 DEF Typed, IdsLeft, IssuedCalls, Issued
<1>. QED
  BY <1>1, <1>2, Steps, NewRequestType, OutgoingType, ReceiverType, HandlerType DEF Typed

(* Messages, threads and tables keep their types. *)
THEOREM TypeCorrect == Spec => []TypeOK
<1>1. Typed => TypeOK
  BY DEF Typed
<1>. QED  BY <1>1, TypeInit, TypeStep, PTL DEF Spec
-----------------------------------------------------------------------------
(* A call that is under way is in one place: about to be sent, on its way, *)
(* in the action queue or being worked on; and it has not been executed.   *)
Carries(s, c) == \E k \in DOMAIN s : s[k].type = "call" /\ s[k].of = c
Once(s) == \A j, k \in DOMAIN s :
               s[j].type = "call" /\ s[k].type = "call" /\ s[j].of = s[k].of => j = k
Works(p, c) == tpc[p] \in {"run", "send", "await", "compute"} /\ job[p].of = c
Has(p, c) == Carries(net[p], c) \/ Carries(actions[p], c) \/ Works(p, c)
Sends(t, c) == tpc[t] = "send" /\ out[t].of = c

Alone(p, c) ==
    /\ ~(Carries(net[p], c) /\ Carries(actions[p], c))
    /\ Works(p, c) => ~Carries(net[p], c) /\ ~Carries(actions[p], c)
    /\ Has(p, c) => Issued(c) /\ Peer(c[1]) = Other(p) /\ ran[c] = None /\ ~Sends(c[1], c)

OnceInv ==
    /\ \A p \in Peers : Once(net[p]) /\ Once(actions[p])
    /\ \A p \in Peers, c \in Calls : Alone(p, c)
    /\ \A t \in Threads : tpc[t] = "send" => out[t].of = <<t, made[t]>> /\ ran[out[t].of] = None
    /\ \A c \in Calls : ran[c] # None => Issued(c)

(* Reading from the front of a queue. *)
LEMMA CarriesTail ==
    ASSUME NEW s \in Seq(Messages), s # <<>>
    PROVE  /\ \A c : Carries(Tail(s), c) => Carries(s, c)
           /\ Once(s) => Once(Tail(s))
           /\ Head(s).type = "call" => Carries(s, Head(s).of)
           /\ Once(s) /\ Head(s).type = "call" => ~Carries(Tail(s), Head(s).of)
<1>1. \A c : Carries(Tail(s), c) => Carries(s, c)
  BY TailFacts DEF Carries
<1>2. Once(s) => Once(Tail(s))
  BY TailFacts DEF Once
<1>3. Head(s).type = "call" => Carries(s, Head(s).of)
  BY TailFacts DEF Carries
<1>4. ASSUME Once(s), Head(s).type = "call", Carries(Tail(s), Head(s).of) PROVE FALSE
  <2>1. PICK k \in DOMAIN Tail(s) : Tail(s)[k].type = "call" /\ Tail(s)[k].of = Head(s).of
    BY <1>4 DEF Carries
  <2>2. /\ k + 1 \in DOMAIN s /\ 1 \in DOMAIN s /\ k + 1 # 1
        /\ Tail(s)[k] = s[k + 1] /\ Head(s) = s[1]
    BY TailFacts
  <2>. QED  BY <1>4, <2>1, <2>2 DEF Once
<1>. QED  BY <1>1, <1>2, <1>3, <1>4

(* Writing to the end of a queue. *)
LEMMA CarriesAppend ==
    ASSUME NEW s \in Seq(Messages), NEW e \in Messages
    PROVE  /\ \A c : Carries(Append(s, e), c) <=> Carries(s, c) \/ (e.type = "call" /\ e.of = c)
           /\ Once(s) /\ (e.type = "call" => ~Carries(s, e.of)) => Once(Append(s, e))
<1>1. /\ Len(s) + 1 \in DOMAIN Append(s, e)
      /\ Append(s, e)[Len(s) + 1] = e
      /\ \A k \in DOMAIN s : k \in DOMAIN Append(s, e) /\ Append(s, e)[k] = s[k]
      /\ \A k \in DOMAIN Append(s, e) : k \in DOMAIN s \/ k = Len(s) + 1
  BY AppendFacts
<1>. DEFINE r == Append(s, e)
            n == Len(s) + 1
<1>. HIDE DEF r, n
<1>2. /\ n \in DOMAIN r /\ r[n] = e
      /\ \A k \in DOMAIN s : k \in DOMAIN r /\ r[k] = s[k]
      /\ \A k \in DOMAIN r : k \in DOMAIN s \/ k = n
  BY <1>1 DEF r, n
<1>3. \A c : Carries(r, c) <=> Carries(s, c) \/ (e.type = "call" /\ e.of = c)
  BY <1>2 DEF Carries
<1>4. Once(s) /\ (e.type = "call" => ~Carries(s, e.of)) => Once(r)
  BY <1>2 DEF Once, Carries
<1>. QED  BY <1>3, <1>4 DEF r

(* The queues are queues of messages. *)
LEMMA QueueTypes ==
    TypeOK => \A p \in Peers : net[p] \in Seq(Messages) /\ actions[p] \in Seq(Messages)
<1>. SUFFICES ASSUME TypeOK, NEW p \in Peers
              PROVE  net[p] \in Seq(Messages) /\ actions[p] \in Seq(Messages)
  OBVIOUS
<1>1. net[p] \in Seq(Messages) /\ actions[p] \in Seq(CallMessages)
  BY DataTypes DEF Messages
<1>2. \A s \in Seq(CallMessages) : s \in Seq(Messages)
  BY DEF Messages
<1>. QED  BY <1>1, <1>2

(* Steps that bring no call into another place. *)
LEMMA OnceSame ==
    ASSUME OnceInv, UNCHANGED <<made, ran>>,
           \A p \in Peers : Once(net[p])' /\ Once(actions[p])',
           \A p \in Peers, c \in Calls : /\ Carries(net[p], c)' => Carries(net[p], c)
                                         /\ Carries(actions[p], c)' => Carries(actions[p], c)
                                         /\ Works(p, c)' => Works(p, c),
           \A t \in Threads : tpc'[t] = "send" => tpc[t] = "send" /\ out'[t] = out[t]
    PROVE  OnceInv'
<1>1. ASSUME NEW p \in Peers, NEW c \in Calls PROVE Alone(p, c)'
  <2>1. Has(p, c)' => Has(p, c)
    BY DEF Has
  <2>2. Sends(c[1], c)' => Sends(c[1], c)
    BY CallFacts DEF Sends
  <2>3. Alone(p, c)
    BY DEF OnceInv
  <2>. QED  BY <2>1, <2>2, <2>3 DEF Alone, Issued
<1>. QED  BY <1>1 DEF OnceInv, Issued

(* A new call is nowhere yet. *)
LEMMA OnceNewRequest ==
    ASSUME Typed, OnceInv, NEW t \in Threads, NEW m \in Methods, NewRequest(t, m)
    PROVE  OnceInv'
<1>. DEFINE new == <<t, made[t] + 1>>
<1>1. /\ made[t] < Limit(t) /\ made' = [made EXCEPT ![t] = @ + 1]
      /\ tpc' = [tpc EXCEPT ![t] = "send"] /\ (t \in Peers => tpc[t] = "run")
      /\ UNCHANGED <<net, actions, job, ran>>
      /\ \E i : out' = [out EXCEPT ![t] = CallMessage(i, m, new)]
  BY DEF NewRequest, MayCall, handling
<1>2. /\ new \in Calls /\ ~Issued(new)
      /\ \A c \in Calls : Issued(c)' <=> Issued(c) \/ c = new
      /\ made' \in [Threads -> Nat] /\ made'[t] = made[t] + 1
  BY <1>1, NewCall DEF Typed, TypeOK
<1>3. tpc \in [Threads -> Places] /\ out \in [Threads -> CallMessages \union {None}]
  BY ControlFacts, DataTypes DEF Typed
<1>4. /\ out'[t].of = new /\ tpc'[t] = "send"
      /\ \A u \in Threads \ {t} : out'[u] = out[u] /\ tpc'[u] = tpc[u]
  BY <1>1, <1>3 DEF CallMessage
<1>. HIDE DEF new
<1>5. ASSUME NEW p \in Peers, NEW c \in Calls PROVE Alone(p, c)'
  <2>1. Alone(p, c)
    BY DEF OnceInv
  <2>2. Carries(net[p], c)' <=> Carries(net[p], c)
    BY <1>1 DEF Carries
  <2>3. Carries(actions[p], c)' <=> Carries(actions[p], c)
    BY <1>1 DEF Carries
  <2>4. Works(p, c)' <=> Works(p, c)
    BY <1>1, <1>3, PeerFacts DEF Works
  <2>5. Has(p, c) => Issued(c) /\ c # new
    BY <1>2, <2>1 DEF Alone
  <2>6. Has(p, c)' => ~Sends(c[1], c)'
    <3>1. CASE c[1] = t
      BY <1>4, <2>2, <2>3, <2>4, <2>5, <3>1 DEF Has, Sends
    <3>2. CASE c[1] # t
      BY <1>4, <2>1, <2>2, <2>3, <2>4, <3>2, CallFacts DEF Has, Sends, Alone
    <3>. QED  BY <3>1, <3>2
  <2>. QED  BY <1>1, <1>2, <2>1, <2>2, <2>3, <2>4, <2>6 DEF Alone, Has
<1>6. \A u \in Threads : tpc'[u] = "send" =>
         out'[u].of = <<u, made'[u]>> /\ ran'[out'[u].of] = None
  <2>1. ran'[new] = None
    BY <1>1, <1>2 DEF OnceInv
  <2>2. \A u \in Threads \ {t} : made'[u] = made[u]
    BY <1>1 DEF Typed, TypeOK
  <2>. QED  BY <1>1, <1>2, <1>4, <2>1, <2>2 DEF OnceInv, new
<1>7. \A p \in Peers : Once(net[p])' /\ Once(actions[p])'
  BY <1>1 DEF OnceInv, Once
<1>. QED  BY <1>1, <1>2, <1>5, <1>6, <1>7 DEF OnceInv

(* A call is sent: it goes from its thread to the network. *)
LEMMA OnceOutgoing ==
    ASSUME TypeOK, OnceInv, NEW t \in Threads, OutgoingStep(t)
    PROVE  OnceInv'
<1>1. /\ tpc[t] \in {"send", "await"}
      /\ UNCHANGED <<actions, job, made, out, ran>>
      /\ Send(t) \/ (Resume(t) /\ UNCHANGED net)
  BY DEF OutgoingStep, Send, SendFails, AwaitReturns, AwaitRefused, AwaitTimeout,
         handling, calling
<1>2. tpc \in [Threads -> Places]
  BY ControlFacts
<1>3. \/ tpc' = [tpc EXCEPT ![t] = "idle"] /\ t \notin Peers
      \/ tpc' = [tpc EXCEPT ![t] = "compute"]
      \/ tpc' = [tpc EXCEPT ![t] = "await"]
  BY <1>1 DEF Send, Resume
<1>4. /\ \A p \in Peers, c \in Calls : Works(p, c)' => Works(p, c)
      /\ \A u \in Threads : tpc'[u] = "send" => tpc[u] = "send" /\ u # t
  <2>2. /\ tpc'[t] # "send" /\ tpc[t] \in {"send", "await"}
        /\ \A u \in Threads : u # t => tpc'[u] = tpc[u]
    BY <1>1, <1>2, <1>3 DEF Places
  <2>3. \A p \in Peers : p \in Threads /\ job'[p] = job[p]
    BY <1>1, PeerFacts
  <2>4. ASSUME NEW p \in Peers, NEW c \in Calls, Works(p, c)' PROVE Works(p, c)
    <3>1. CASE p = t
      BY <2>2, <2>3, <2>4, <3>1 DEF Works
    <3>2. CASE p # t
      BY <2>2, <2>3, <2>4, <3>2 DEF Works
    <3>. QED  BY <3>1, <3>2
  <2>. QED  BY <2>2, <2>4
<1>5. CASE UNCHANGED net
  BY <1>1, <1>4, <1>5, OnceSame DEF OnceInv, Once, Carries
<1>6. CASE Send(t)
  <2>. DEFINE q == Other(Peer(t))
              c0 == out[t].of
  <2>1. /\ tpc[t] = "send" /\ q \in Peers /\ c0 \in Calls
        /\ out[t] \in Messages /\ out[t].type = "call"
        /\ c0 = <<t, made[t]>> /\ ran[c0] = None /\ Peer(t) = Other(q)
    BY <1>6, PeerFacts, InHand, MessageFacts DEF Send, OnceInv, Messages
  <2>2. net' = [net EXCEPT ![q] = Append(@, out[t])]
    BY <1>6 DEF Send, Post
  <2>3. /\ net[q] \in Seq(Messages) /\ net'[q] = Append(net[q], out[t])
        /\ \A p \in Peers \ {q} : net'[p] = net[p]
    BY <2>1, <2>2, QueueTypes, DataTypes
  <2>4. \A p \in Peers : ~Has(p, c0)
    BY <2>1 DEF OnceInv, Alone, Sends
  <2>5. /\ \A p \in Peers, c \in Calls :
              Carries(net[p], c)' <=> Carries(net[p], c) \/ (p = q /\ c = c0)
        /\ \A p \in Peers : Once(net[p])'
    <3>. HIDE DEF c0, q
    <3>1. /\ \A c : Carries(Append(net[q], out[t]), c) <=> Carries(net[q], c) \/ c = out[t].of
          /\ Once(net[q]) /\ ~Carries(net[q], out[t].of) => Once(Append(net[q], out[t]))
      BY <2>1, <2>3, CarriesAppend
    <3>2. /\ \A c : Carries(net'[q], c) <=> Carries(net[q], c) \/ c = c0
          /\ Once(net'[q])
      BY <2>1, <2>3, <2>4, <3>1 DEF c0, OnceInv, Has
    <3>. QED  BY <2>1, <2>3, <3>2 DEF OnceInv
  <2>6. \A p \in Peers, c \in Calls : Carries(actions[p], c)' <=> Carries(actions[p], c)
    BY <1>1
  <2>7. ASSUME NEW p \in Peers, NEW c \in Calls PROVE Alone(p, c)'
    <3>1. Alone(p, c) /\ (Works(p, c)' => Works(p, c))
      BY <1>4 DEF OnceInv
    <3>2. Sends(c[1], c)' => Sends(c[1], c) /\ c # c0
      BY <1>1, <1>4, <2>1, CallFacts DEF Sends
    <3>3. CASE p = q /\ c = c0
      <4>1. Issued(c)' /\ Peer(c[1]) = Other(p)
        BY <1>1, <2>1, <3>3, CallFacts DEF Issued
      <4>. QED  BY <1>1, <2>1, <2>4, <2>6, <3>1, <3>2, <3>3, <4>1 DEF Alone, Has
    <3>4. CASE ~(p = q /\ c = c0)
      BY <1>1, <2>5, <2>6, <3>1, <3>2, <3>4 DEF Alone, Has, Issued
    <3>. QED  BY <3>3, <3>4
  <2>. QED  BY <1>1, <1>4, <2>5, <2>7 DEF OnceInv, Issued
<1>. QED  BY <1>1, <1>5, <1>6

(* A call goes on at its peer, from one place to the next. *)
LEMMA OnceMoved ==
    ASSUME OnceInv, UNCHANGED <<made, ran>>, NEW p \in Peers, NEW c0 \in Calls, Has(p, c0),
           \A q \in Peers : Once(net[q])' /\ Once(actions[q])',
           \A q \in Peers, c \in Calls : (q # p \/ c # c0) =>
              /\ Carries(net[q], c)' => Carries(net[q], c)
              /\ Carries(actions[q], c)' => Carries(actions[q], c)
              /\ Works(q, c)' => Works(q, c),
           ~Carries(net[p], c0)', Works(p, c0)' => ~Carries(actions[p], c0)',
           \A t \in Threads : tpc'[t] = "send" => tpc[t] = "send" /\ out'[t] = out[t]
    PROVE  OnceInv'
<1>1. ASSUME NEW q \in Peers, NEW c \in Calls PROVE Alone(q, c)'
  <2>1. Has(q, c)' => Has(q, c)
    BY DEF Has
  <2>2. Sends(c[1], c)' => Sends(c[1], c)
    BY CallFacts DEF Sends
  <2>3. Alone(q, c)
    BY DEF OnceInv
  <2>4. CASE q # p \/ c # c0
    BY <2>1, <2>2, <2>3, <2>4 DEF Alone, Issued
  <2>5. CASE q = p /\ c = c0
    BY <2>1, <2>2, <2>3, <2>5 DEF Alone, Issued
  <2>. QED  BY <2>4, <2>5
<1>. QED  BY <1>1 DEF OnceInv, Issued

(* A call is executed, and with that it is nowhere any more. *)
LEMMA OnceExecuted ==
    ASSUME TypeOK, OnceInv, UNCHANGED made, NEW p \in Peers, NEW c0 \in Calls, Has(p, c0),
           NEW k \in Kinds, ran' = [ran EXCEPT ![c0] = Outcome(c0, k)],
           \A q \in Peers : Once(net[q])' /\ Once(actions[q])',
           \A q \in Peers, c \in Calls : /\ Carries(net[q], c)' => Carries(net[q], c)
                                         /\ Carries(actions[q], c)' => Carries(actions[q], c)
                                         /\ Works(q, c)' => Works(q, c),
           ~Has(p, c0)',
           \A t \in Threads : tpc'[t] = "send" => tpc[t] = "send" /\ out'[t] = out[t]
    PROVE  OnceInv'
<1>1. \A c \in Calls : c # c0 => ran'[c] = ran[c]
  BY DataTypes
<1>2. Alone(p, c0)
  BY DEF OnceInv
<1>3. ASSUME NEW q \in Peers, NEW c \in Calls PROVE Alone(q, c)'
  <2>1. Has(q, c)' => Has(q, c)
    BY DEF Has
  <2>2. Sends(c[1], c)' => Sends(c[1], c)
    BY CallFacts DEF Sends
  <2>3. Alone(q, c)
    BY DEF OnceInv
  <2>4. Has(q, c)' => c # c0
    <3>1. ASSUME Has(q, c)', c = c0 PROVE FALSE
      <4>1. q = Other(p) /\ Other(q) = p /\ Other(p) # p
        BY <3>1, PeerFacts
      <4>2. Peer(c0[1]) = Other(p) /\ Peer(c0[1]) = Other(q)
        BY <1>2, <2>1, <2>3, <3>1 DEF Alone
      <4>. QED  BY <4>1, <4>2
    <3>. QED  BY <3>1
  <2>. QED  BY <1>1, <2>1, <2>2, <2>3, <2>4 DEF Alone, Issued
<1>4. ASSUME NEW t \in Threads, tpc'[t] = "send"
      PROVE  out'[t].of = <<t, made'[t]>> /\ ran'[out'[t].of] = None
  <2>1. /\ tpc[t] = "send" /\ out'[t] = out[t] /\ out[t].of \in Calls
        /\ out[t].of = <<t, made[t]>> /\ ran[out[t].of] = None
    BY <1>4, InHand DEF OnceInv
  <2>2. out[t].of # c0
    BY <1>2, <2>1 DEF Alone, Sends
  <2>. QED  BY <1>1, <2>1, <2>2
<1>5. ASSUME NEW c \in Calls, ran'[c] # None PROVE Issued(c)'
  BY <1>1, <1>2, <1>5 DEF Alone, OnceInv, Issued
<1>. QED  BY <1>3, <1>4, <1>5 DEF OnceInv

(* A message is read from the network. *)
LEMMA ReadNet ==
    ASSUME TypeOK, OnceInv, NEW p \in Peers, Listens(p),
           NEW rest, rest = [net EXCEPT ![p] = Tail(@)]
    PROVE  /\ rest \in [Peers -> Seq(Messages)]
           /\ \A q \in Peers : Once(rest[q])
           /\ \A q \in Peers, c \in Calls : Carries(rest[q], c) => Carries(net[q], c)
           /\ Head(net[p]).type = "call" => /\ Head(net[p]).of \in Calls
                                            /\ Carries(net[p], Head(net[p]).of)
                                            /\ ~Carries(rest[p], Head(net[p]).of)
<1>1. net \in [Peers -> Seq(Messages)] /\ net[p] \in Seq(Messages) /\ net[p] # <<>>
  BY DataTypes DEF Messages, Listens
<1>2. /\ rest[p] = Tail(net[p]) /\ Tail(net[p]) \in Seq(Messages)
      /\ \A q \in Peers \ {p} : rest[q] = net[q]
  BY <1>1, TailFacts
<1>3. rest \in [Peers -> Seq(Messages)]
  BY <1>1, <1>2
<1>4. Head(net[p]).type = "call" => Head(net[p]).of \in Calls
  BY ListenType, MessageFacts
<1>5. /\ \A c : Carries(rest[p], c) => Carries(net[p], c)
      /\ Once(rest[p])
      /\ Head(net[p]).type = "call" => /\ Carries(net[p], Head(net[p]).of)
                                       /\ ~Carries(rest[p], Head(net[p]).of)
  BY <1>1, <1>2, CarriesTail DEF OnceInv
<1>. QED  BY <1>2, <1>3, <1>4, <1>5 DEF OnceInv

(* A reply is put on the network. *)
LEMMA WriteReply ==
    ASSUME NEW before \in [Peers -> Seq(Messages)], NEW q \in Peers, NEW msg \in ReplyMessages,
           NEW r \in Peers
    PROVE  /\ Once(before[r]) => Once([before EXCEPT ![q] = Append(@, msg)][r])
           /\ \A c \in Calls :
                 Carries([before EXCEPT ![q] = Append(@, msg)][r], c) => Carries(before[r], c)
<1>1. msg \in Messages /\ msg.type # "call"
  BY MessageFacts DEF Messages
<1>2. /\ \A c : Carries(Append(before[q], msg), c) <=> Carries(before[q], c)
      /\ Once(before[q]) => Once(Append(before[q], msg))
  BY <1>1, CarriesAppend
<1>3. CASE r = q
  <2>1. [before EXCEPT ![q] = Append(@, msg)][r] = Append(before[q], msg)
    BY <1>3
  <2>. QED  BY <1>2, <1>3, <2>1
<1>4. CASE r # q
  <2>1. [before EXCEPT ![q] = Append(@, msg)][r] = before[r]
    BY <1>4
  <2>. QED  BY <2>1
<1>. QED  BY <1>3, <1>4

(* The receiver thread takes a message off the network.                    *)
LEMMA OnceReceiver ==
    ASSUME TypeOK, OnceInv, NEW p \in Peers, ReceiverStep(p) \/ HandleJunk(p)
    PROVE  OnceInv'
<1>. DEFINE rest == [net EXCEPT ![p] = Tail(@)]
<1>0. PICK msg : msg = Head(net[p])
  OBVIOUS
<1>1. UNCHANGED <<made, out>>
  <2>1. UNCHANGED calling
    BY DEF ReceiverStep, HandleJunk, DeliverReply, HandleMethod, HandleUnknown
  <2>. QED  BY <2>1 DEF calling
<1>2. Listens(p) =>
        /\ rest \in [Peers -> Seq(Messages)]
        /\ \A q \in Peers : Once(rest[q])
        /\ \A q \in Peers, c \in Calls : Carries(rest[q], c) => Carries(net[q], c)
        /\ msg.type = "call" => /\ msg.of \in Calls /\ Has(p, msg.of)
                                /\ Carries(net[p], msg.of) /\ ~Carries(rest[p], msg.of)
  BY <1>0, ReadNet DEF Has
<1>3. CASE DeliverReply(p)
  <2>1. net' = rest /\ Listens(p) /\ UNCHANGED <<actions, job, tpc, ran>>
    BY <1>3 DEF DeliverReply, handling
  <2>2. \A q \in Peers, c \in Calls : Works(q, c)' => Works(q, c)
    BY <2>1 DEF Works
  <2>. HIDE DEF rest
  <2>. QED  BY <1>1, <1>2, <2>1, <2>2, OnceSame DEF OnceInv
<1>4. CASE HandleMethod(p)
  <2>1. /\ net' = rest /\ Listens(p) /\ msg.type = "call" /\ UNCHANGED ran
        /\ IF p \in Async
           THEN actions' = [actions EXCEPT ![p] = Append(@, msg)] /\ UNCHANGED <<job, tpc>>
           ELSE Begin(p, msg) /\ UNCHANGED actions
    BY <1>0, <1>4 DEF HandleMethod
  <2>2. msg \in CallMessages /\ msg \in Messages
    BY <1>0, <2>1, ListenType DEF Messages
  <2>0. PICK c0 : c0 = msg.of
    OBVIOUS
  <2>. HIDE DEF rest
  <2>3. /\ ~Carries(actions[p], c0) /\ ~Works(p, c0) /\ Carries(net[p], c0) /\ Has(p, c0)
        /\ ~Carries(net[p], c0)' /\ c0 \in Calls
    BY <1>2, <2>0, <2>1 DEF OnceInv, Alone
  <2>4. CASE p \in Async
    <3>1. actions' = [actions EXCEPT ![p] = Append(@, msg)] /\ UNCHANGED <<job, tpc>>
      BY <2>1, <2>4
    <3>2. /\ actions'[p] = Append(actions[p], msg) /\ actions[p] \in Seq(Messages)
          /\ \A q \in Peers \ {p} : actions'[q] = actions[q]
      BY <3>1, DataTypes, QueueTypes
    <3>3. /\ Once(actions[p])'
          /\ \A c \in Calls : c # c0 => (Carries(actions[p], c)' => Carries(actions[p], c))
      BY <2>0, <2>2, <2>3, <3>2, CarriesAppend DEF OnceInv
    <3>4. \A q \in Peers : Once(actions[q])'
      BY <3>2, <3>3 DEF OnceInv
    <3>5. \A q \in Peers, c \in Calls : (q # p \/ c # c0) =>
             (Carries(actions[q], c)' => Carries(actions[q], c))
      BY <3>2, <3>3
    <3>6. \A q \in Peers, c \in Calls : Works(q, c)' <=> Works(q, c)
      BY <3>1 DEF Works
    <3>. QED  BY <1>1, <1>2, <2>1, <2>3, <3>1, <3>4, <3>5, <3>6, OnceMoved
  <2>5. CASE p \notin Async
    <3>1. Begin(p, msg) /\ UNCHANGED actions /\ tpc[p] = "idle"
      BY <2>1, <2>5 DEF Listens, Free
    <3>2. /\ job'[p] = msg /\ tpc'[p] # "send"
          /\ \A q \in Peers \ {p} : job'[q] = job[q]
          /\ \A t \in Threads \ {p} : tpc'[t] = tpc[t]
      BY <3>1, DataTypes, ControlFacts, PeerFacts DEF Begin
    <3>3. \A q \in Peers, c \in Calls : (q # p \/ c # c0) => (Works(q, c)' => Works(q, c))
      BY <2>0, <3>2, PeerFacts DEF Works
    <3>4. \A q \in Peers :
             /\ Once(actions[q])'
             /\ \A c \in Calls : Carries(actions[q], c)' <=> Carries(actions[q], c)
      BY <3>1 DEF OnceInv
    <3>5. \A q \in Peers : /\ Once(net[q])'
                           /\ \A c \in Calls : Carries(net[q], c)' => Carries(net[q], c)
      BY <1>2, <2>1
    <3>6. \A t \in Threads : tpc'[t] = "send" => tpc[t] = "send" /\ out'[t] = out[t]
      BY <1>1, <3>2
    <3>. QED  BY <1>1, <2>1, <2>3, <3>3, <3>4, <3>5, <3>6, OnceMoved
  <2>. QED  BY <2>4, <2>5
<1>5. CASE HandleUnknown(p)
  <2>0. PICK c0 : c0 = msg.of
    OBVIOUS
  <2>1. /\ Listens(p) /\ msg.type = "call"
        /\ ran' = [ran EXCEPT ![c0] = Outcome(c0, "error")]
        /\ UNCHANGED <<actions, job, tpc>>
        /\ \/ net' = rest
           \/ /\ msg.id # 0
              /\ net' = [rest EXCEPT ![Other(p)] = Append(@, ReplyMessage(msg.id, c0, "error"))]
    BY <1>0, <2>0, <1>5 DEF HandleUnknown, handling
  <2>2. msg.id # 0 => ReplyMessage(msg.id, c0, "error") \in ReplyMessages
    BY <1>0, <2>0, <2>1, ListenType, MessageFacts DEF Kinds
  <2>. HIDE DEF rest
  <2>3. /\ ~Carries(actions[p], c0) /\ ~Works(p, c0) /\ Has(p, c0) /\ c0 \in Calls
    BY <1>2, <2>0, <2>1 DEF OnceInv, Alone
  <2>4. \A q \in Peers : /\ Once(net[q])'
                         /\ \A c \in Calls : Carries(net[q], c)' => Carries(rest[q], c)
    <3>1. CASE net' = rest
      BY <1>2, <2>1, <3>1
    <3>2. CASE /\ msg.id # 0
               /\ net' = [rest EXCEPT ![Other(p)] =
                             Append(@, ReplyMessage(msg.id, c0, "error"))]
      <4>1. PICK m : m = ReplyMessage(msg.id, c0, "error")
        OBVIOUS
      <4>2. /\ net' = [rest EXCEPT ![Other(p)] = Append(@, m)] /\ m \in ReplyMessages
            /\ rest \in [Peers -> Seq(Messages)] /\ Other(p) \in Peers
        BY <1>2, <2>1, <2>2, <3>2, <4>1, PeerFacts
      <4>3. ASSUME NEW q \in Peers
            PROVE  Once(net[q])' /\ \A c \in Calls : Carries(net[q], c)' => Carries(rest[q], c)
        BY <1>2, <2>1, <4>2, WriteReply
      <4>. QED  BY <4>3
    <3>. QED  BY <2>1, <3>1, <3>2
  <2>5. \A q \in Peers, c \in Calls : Works(q, c)' <=> Works(q, c)
    BY <2>1 DEF Works
  <2>6. \A q \in Peers, c \in Calls : Carries(actions[q], c)' <=> Carries(actions[q], c)
    BY <2>1
  <2>7. \A q \in Peers : Once(actions[q])'
    BY <2>1 DEF OnceInv
  <2>8. ~Has(p, c0)'
    BY <1>2, <2>0, <2>1, <2>3, <2>4, <2>5, <2>6 DEF Has
  <2>9. \A q \in Peers, c \in Calls : Carries(net[q], c)' => Carries(net[q], c)
    BY <1>2, <2>1, <2>4
  <2>10. "error" \in Kinds
    BY DEF Kinds
  <2>. QED  BY <1>1, <2>1, <2>3, <2>4, <2>5, <2>6, <2>7, <2>8, <2>9, <2>10, OnceExecuted
<1>6. CASE HandleJunk(p)
  <2>1. UNCHANGED <<net, actions, job, tpc, ran>>
    BY <1>6 DEF HandleJunk, handling
  <2>2. \A q \in Peers, c \in Calls : Works(q, c)' => Works(q, c)
    BY <2>1 DEF Works
  <2>. QED  BY <1>1, <2>1, <2>2, OnceSame DEF OnceInv
<1>. QED  BY <1>3, <1>4, <1>5, <1>6 DEF ReceiverStep

(* The handler thread takes up a call, ends with it, and replies.          *)
LEMMA OnceHandler ==
    ASSUME TypeOK, OnceInv, NEW p \in Peers,
           WorkerTakes(p) \/ HandlerEnds(p) \/ Reply(p) \/ ReplyFails(p)
    PROVE  OnceInv'
<1>1. UNCHANGED <<made, out>> /\ tpc \in [Threads -> Places] /\ p \in Threads
  BY ControlFacts, PeerFacts DEF WorkerTakes, HandlerEnds, Reply, ReplyFails, calling
<1>2. CASE WorkerTakes(p)
  <2>0. PICK msg, c0 : msg = Head(actions[p]) /\ c0 = msg.of
    OBVIOUS
  <2>1. /\ tpc[p] = "idle" /\ actions[p] # <<>> /\ actions' = [actions EXCEPT ![p] = Tail(@)]
        /\ Begin(p, msg) /\ UNCHANGED <<net, ran>>
    BY <1>2, <2>0 DEF WorkerTakes
  <2>2. /\ msg \in CallMessages /\ actions[p] \in Seq(Messages)
        /\ actions'[p] = Tail(actions[p]) /\ \A q \in Peers \ {p} : actions'[q] = actions[q]
    BY <2>0, <2>1, TailFacts, DataTypes, QueueTypes
  <2>3. msg.type = "call" /\ c0 \in Calls
    BY <2>0, <2>2, MessageFacts
  <2>4. /\ \A c : Carries(actions'[p], c) => Carries(actions[p], c)
        /\ Once(actions'[p]) /\ Carries(actions[p], c0) /\ ~Carries(actions'[p], c0)
    BY <2>0, <2>1, <2>2, <2>3, CarriesTail DEF OnceInv
  <2>5. Has(p, c0) /\ ~Carries(net[p], c0)
    BY <2>3, <2>4 DEF OnceInv, Alone, Has
  <2>6. /\ job'[p] = msg /\ tpc'[p] # "send"
        /\ \A q \in Peers \ {p} : job'[q] = job[q]
        /\ \A t \in Threads \ {p} : tpc'[t] = tpc[t]
    BY <1>1, <2>1, DataTypes DEF Begin
  <2>7. \A q \in Peers, c \in Calls : (q # p \/ c # c0) => (Works(q, c)' => Works(q, c))
    BY <2>0, <2>6, PeerFacts DEF Works
  <2>8. \A q \in Peers : /\ Once(net[q])'
                         /\ \A c \in Calls : Carries(net[q], c)' <=> Carries(net[q], c)
    BY <2>1 DEF OnceInv
  <2>9. \A q \in Peers :
           /\ Once(actions[q])'
           /\ \A c \in Calls : Carries(actions[q], c)' => Carries(actions[q], c)
    BY <2>2, <2>4 DEF OnceInv
  <2>. QED  BY <1>1, <2>1, <2>3, <2>4, <2>5, <2>6, <2>7, <2>8, <2>9, OnceMoved
<1>3. CASE HandlerEnds(p)
  <2>0. PICK c0 : c0 = job[p].of
    OBVIOUS
  <2>1. PICK k \in Kinds : ran' = [ran EXCEPT ![c0] = Outcome(c0, k)]
    BY <1>3, <2>0 DEF HandlerEnds
  <2>2. /\ tpc[p] = "compute" /\ UNCHANGED <<net, actions, job>>
        /\ tpc' = [tpc EXCEPT ![p] = IF job[p].method \in HasReply THEN "reply" ELSE "idle"]
    BY <1>3 DEF HandlerEnds, handling
  <2>3. c0 \in Calls /\ Works(p, c0) /\ Has(p, c0)
    BY <2>0, <2>2, InHand DEF Works, Has
  <2>4. ~Carries(net[p], c0) /\ ~Carries(actions[p], c0)
    BY <2>3 DEF OnceInv, Alone
  <2>5. /\ tpc'[p] \in {"reply", "idle"}
        /\ \A t \in Threads \ {p} : tpc'[t] = tpc[t]
    BY <1>1, <2>2
  <2>6. /\ \A q \in Peers, c \in Calls : Works(q, c)' => Works(q, c)
        /\ ~Works(p, c0)'
    BY <2>2, <2>5, PeerFacts DEF Works
  <2>7. \A q \in Peers :
           /\ Once(net[q])' /\ Once(actions[q])'
           /\ \A c \in Calls : /\ Carries(net[q], c)' <=> Carries(net[q], c)
                               /\ Carries(actions[q], c)' <=> Carries(actions[q], c)
    BY <2>2 DEF OnceInv
  <2>8. ~Has(p, c0)'
    BY <2>3, <2>4, <2>6, <2>7 DEF Has
  <2>. QED  BY <1>1, <2>1, <2>3, <2>5, <2>6, <2>7, <2>8, OnceExecuted
<1>4. CASE Reply(p)
  <2>0. PICK msg : msg = ReplyMessage(job[p].id, job[p].of, ran[job[p].of].kind)
    OBVIOUS
  <2>1. /\ tpc[p] = "reply" /\ tpc' = [tpc EXCEPT ![p] = "idle"]
        /\ net' = [net EXCEPT ![Other(p)] = Append(@, msg)] /\ UNCHANGED <<actions, job, ran>>
    BY <1>4, <2>0 DEF Reply, Post, handling
  <2>2. msg \in ReplyMessages
    BY <2>0, <2>1, ReplyFacts
  <2>3. ASSUME NEW q \in Peers
        PROVE  Once(net[q])' /\ \A c \in Calls : Carries(net[q], c)' => Carries(net[q], c)
    BY <2>1, <2>2, WriteReply, DataTypes, PeerFacts DEF Messages, OnceInv
  <2>4. /\ tpc'[p] = "idle" /\ \A t \in Threads \ {p} : tpc'[t] = tpc[t]
    BY <1>1, <2>1
  <2>5. \A q \in Peers, c \in Calls : Works(q, c)' => Works(q, c)
    BY <2>1, <2>4, PeerFacts DEF Works
  <2>. QED  BY <1>1, <2>1, <2>3, <2>4, <2>5, OnceSame DEF OnceInv
<1>5. CASE ReplyFails(p)
  <2>1. /\ tpc[p] = "reply" /\ UNCHANGED <<net, actions, job, ran>>
        /\ tpc' = [tpc EXCEPT ![p] = "dead"] \/ tpc' = [tpc EXCEPT ![p] = "idle"]
    BY <1>5 DEF ReplyFails, handling
  <2>4. /\ tpc'[p] \in {"idle", "dead"} /\ \A t \in Threads \ {p} : tpc'[t] = tpc[t]
    BY <1>1, <2>1
  <2>5. \A q \in Peers, c \in Calls : Works(q, c)' => Works(q, c)
    BY <2>1, <2>4, PeerFacts DEF Works
  <2>. QED  BY <1>1, <2>1, <2>4, <2>5, OnceSame DEF OnceInv
<1>. QED  BY <1>2, <1>3, <1>4, <1>5

(* At the start no call is anywhere. *)
LEMMA OnceInit == Init => OnceInv
<1>. SUFFICES ASSUME Init PROVE OnceInv
  OBVIOUS
<1>1. /\ \A p \in Peers : net[p] = <<>> /\ actions[p] = <<>> /\ tpc[p] = "idle"
      /\ \A t \in Threads : tpc[t] = "idle"
      /\ \A c \in Calls : ran[c] = None
  BY PeerFacts DEF Init
<1>2. \A c : ~Carries(<<>>, c) /\ Once(<<>>)
  BY DEF Carries, Once
<1>3. \A p \in Peers, c \in Calls : ~Has(p, c)
  BY <1>1, <1>2 DEF Has, Works
<1>. QED  BY <1>1, <1>2, <1>3 DEF OnceInv, Alone, Has

(* Wherever a call goes, it is in one place. *)
LEMMA OnceStep == Typed /\ OnceInv /\ [Next]_vars => OnceInv'
<1>. SUFFICES ASSUME Typed, OnceInv, [Next]_vars PROVE OnceInv'
  OBVIOUS
<1>1. CASE UNCHANGED vars
  <2>1. UNCHANGED <<net, actions, job, tpc, made, out, ran>>
    BY <1>1 DEF vars, handling, calling
  <2>2. \A q \in Peers :
           /\ Once(net[q])' /\ Once(actions[q])'
           /\ \A c \in Calls : /\ Carries(net[q], c)' <=> Carries(net[q], c)
                               /\ Carries(actions[q], c)' <=> Carries(actions[q], c)
                               /\ Works(q, c)' <=> Works(q, c)
    BY <2>1 DEF OnceInv, Works
  <2>. QED  BY <2>1, <2>2, OnceSame
<1>. QED  BY <1>1, Steps, OnceNewRequest, OnceOutgoing, OnceReceiver, OnceHandler DEF Typed
-----------------------------------------------------------------------------
(* An id that a peer has drawn is used for one call, wherever it turns up: *)
(* with the thread that asks, at the other peer, on the way back.          *)
Asks(t, m) == tpc[t] \in {"send", "await"} /\ out[t] = m
At(p, m) == \/ m \in Range(net[p]) \/ m \in Range(actions[p])
            \/ tpc[p] \notin {"idle", "dead"} /\ job[p] = m
Uses(p, i, c) ==
    \/ pending[p][i] = c
    \/ \E m \in CallMessages :
          /\ m.id = i /\ m.of = c
          /\ At(Other(p), m) \/ \E t \in Threads : Peer(t) = p /\ Asks(t, m)
    \/ \E m \in ReplyMessages : m.id = i /\ m.body.of = c /\ m \in Range(net[p])

IdInv ==
    /\ \A p \in Peers, i \in Ids, c \in Calls :
          Uses(p, i, c) => i < nextId[p] /\ Issued(c) /\ Peer(c[1]) = p
    /\ \A p \in Peers, i, j \in Ids, c, d \in Calls :
          Uses(p, i, c) /\ Uses(p, j, d) => (i = j <=> c = d)

(* Outcomes are those of the calls they are said to be of.                 *)
OwnOutcome == \A c \in Calls : ran[c] # None => ran[c].of = c
RanInv ==
    /\ \A p \in Peers, m \in ReplyMessages : m \in Range(net[p]) => m.body = ran[m.body.of]
    /\ \A c \in Calls : promise[c] # None => promise[c] = ran[c]

(* What is registered is not answered, and a call that waits for an answer *)
(* is registered until it has one.                                         *)
WaitInv ==
    /\ \A p \in Peers, i \in Ids, c \in Calls : pending[p][i] = c => promise[c] = None
    /\ \A t \in Threads : tpc[t] \in {"send", "await"} /\ out[t].id # 0 =>
          promise[out[t].of] # None \/ pending[Peer(t)][out[t].id] = out[t].of

(* What any step but a new call does: ids go from the thread that asks to  *)
(* the other peer and back, with the outcome that the call has come to by  *)
(* then; a promise is taken off the table and set.                         *)
Moves ==
    /\ UNCHANGED <<nextId, made>>
    /\ \A t \in Threads, m \in CallMessages : Asks(t, m)' => Asks(t, m)
    /\ \A p \in Peers, i \in Ids, c \in Calls : pending'[p][i] = c => pending[p][i] = c
    /\ \A p \in Peers, m \in CallMessages :
          At(p, m)' => At(p, m) \/ \E t \in Threads : Peer(t) = Other(p) /\ Asks(t, m)
    /\ \A p \in Peers, m \in ReplyMessages :
          m \in Range(net'[p]) =>
             \/ m \in Range(net[p])
             \/ /\ m.body = ran'[m.body.of]
                /\ \E w \in CallMessages : At(Other(p), w) /\ w.id = m.id /\ w.of = m.body.of
    /\ \A c \in Calls : ran'[c] = ran[c] \/ (ran[c] = None /\ ran'[c].of = c)
    /\ \A c \in Calls : \/ promise'[c] = promise[c]
                        \/ \E p \in Peers, m \in ReplyMessages :
                              /\ m \in Range(net[p]) /\ pending[p][m.id] = c
                              /\ promise'[c] = m.body /\ pending'[p][m.id] = None
    /\ \A p \in Peers, i \in Ids, c \in Calls :
          pending[p][i] = c => pending'[p][i] = c \/ promise'[c] # None

(* The messages of a queue that is read from. *)
LEMMA RangeTail ==
    ASSUME NEW S, NEW s \in Seq(S), s # <<>>
    PROVE  Head(s) \in Range(s) /\ \A x : x \in Range(Tail(s)) => x \in Range(s)
BY TailFacts DEF Range

(* The messages of a queue that is written to. *)
LEMMA RangeAppend ==
    ASSUME NEW S, NEW s \in Seq(S), NEW e \in S
    PROVE  \A x : x \in Range(Append(s, e)) <=> x \in Range(s) \/ x = e
<1>1. /\ Len(s) + 1 \in DOMAIN Append(s, e) /\ Append(s, e)[Len(s) + 1] = e
      /\ \A k \in DOMAIN s : k \in DOMAIN Append(s, e) /\ Append(s, e)[k] = s[k]
      /\ \A k \in DOMAIN Append(s, e) : k \in DOMAIN s \/ k = Len(s) + 1
  BY AppendFacts
<1>2. PICK r : r = Append(s, e)
  OBVIOUS
<1>3. \A x : x \in Range(r) <=> x \in Range(s) \/ x = e
  BY <1>1, <1>2 DEF Range
<1>. QED  BY <1>2, <1>3

(* Such a step uses no id for another call. *)
LEMMA MovesUses ==
    ASSUME Moves, NEW p \in Peers, NEW i \in Ids, NEW c \in Calls, Uses(p, i, c)'
    PROVE  Uses(p, i, c)
<1>1. CASE pending'[p][i] = c
  BY <1>1 DEF Moves, Uses
<1>2. CASE \E m \in CallMessages : /\ m.id = i /\ m.of = c
                                   /\ \/ At(Other(p), m)'
                                      \/ \E t \in Threads : Peer(t) = p /\ Asks(t, m)'
  BY <1>2, PeerFacts DEF Moves, Uses
<1>3. CASE \E m \in ReplyMessages : m.id = i /\ m.body.of = c /\ m \in Range(net'[p])
  BY <1>3 DEF Moves, Uses
<1>. QED  BY <1>1, <1>2, <1>3 DEF Uses

(* So every id keeps its call. *)
LEMMA MovesIds ==
    ASSUME IdInv, Moves
    PROVE  IdInv'
<1>1. UNCHANGED <<nextId, made>>
  BY DEF Moves
<1>. QED  BY <1>1, MovesUses DEF IdInv, Issued

(* It leaves the outcomes there are as they are. *)
LEMMA MovesOutcomes ==
    ASSUME TypeOK, IdInv, OwnOutcome, RanInv, Moves
    PROVE  OwnOutcome' /\ RanInv'
<1>1. OwnOutcome'
  BY DEF Moves, OwnOutcome
<1>2. \A m \in ReplyMessages : m.body # None /\ m.body.of \in Calls /\ m.id \in Ids
  BY MessageFacts, APIAssumption
<1>3. \A c \in Calls : ran[c] # None => ran'[c] = ran[c]
  BY DEF Moves
<1>4. ASSUME NEW p \in Peers, NEW m \in ReplyMessages, m \in Range(net'[p])
      PROVE  m.body = ran'[m.body.of]
  BY <1>2, <1>3, <1>4 DEF Moves, RanInv
<1>5. ASSUME NEW c \in Calls, promise'[c] # None PROVE promise'[c] = ran'[c]
  <2>1. CASE promise'[c] = promise[c]
    BY <1>3, <1>5, <2>1 DEF RanInv
  <2>2. ASSUME NEW p \in Peers, NEW m \in ReplyMessages,
               m \in Range(net[p]), pending[p][m.id] = c, promise'[c] = m.body
        PROVE  promise'[c] = ran'[c]
    <3>1. Uses(p, m.id, c) /\ Uses(p, m.id, m.body.of)
      BY <2>2 DEF Uses
    <3>2. c = m.body.of
      BY <1>2, <3>1 DEF IdInv
    <3>. QED  BY <1>2, <1>3, <2>2, <3>2 DEF RanInv
  <2>. QED  BY <2>1, <2>2 DEF Moves
<1>. QED  BY <1>1, <1>4, <1>5 DEF RanInv

(* And nobody who waits is forgotten. *)
LEMMA MovesWaits ==
    ASSUME TypeOK, TypeOK', IdInv, WaitInv, Moves
    PROVE  WaitInv'
<1>1. \A m \in ReplyMessages : m.body # None /\ m.id \in Ids
  BY MessageFacts, APIAssumption
<1>2. ASSUME NEW p \in Peers, NEW i \in Ids, NEW c \in Calls, pending'[p][i] = c
      PROVE  promise'[c] = None
  <2>1. pending[p][i] = c /\ Uses(p, i, c)
    BY <1>2 DEF Moves, Uses
  <2>2. ASSUME NEW q \in Peers, NEW m \in ReplyMessages,
               pending[q][m.id] = c, pending'[q][m.id] = None
        PROVE  FALSE
    <3>1. Uses(q, m.id, c)
      BY <2>2 DEF Uses
    <3>2. q = p /\ m.id = i
      BY <1>1, <2>1, <3>1 DEF IdInv
    <3>. QED  BY <1>2, <2>2, <3>2, APIAssumption
  <2>. QED  BY <2>1, <2>2 DEF Moves, WaitInv
<1>3. ASSUME NEW t \in Threads, tpc'[t] \in {"send", "await"}, out'[t].id # 0
      PROVE  promise'[out'[t].of] # None \/ pending'[Peer(t)][out'[t].id] = out'[t].of
  <2>1. PICK m \in CallMessages : Asks(t, m)' /\ Asks(t, m) /\ out'[t] = m /\ out[t] = m
    <3>1. out'[t] \in CallMessages
      BY <1>3 DEF TypeOK
    <3>. QED  BY <1>3, <3>1 DEF Moves, Asks
  <2>2. m.id \in Ids /\ m.of \in Calls /\ Peer(t) \in Peers
    BY <1>3, <2>1, MessageFacts, PeerFacts
  <2>3. promise[m.of] # None \/ pending[Peer(t)][m.id] = m.of
    BY <1>3, <2>1 DEF WaitInv, Asks
  <2>4. promise[m.of] # None => promise'[m.of] # None
    BY <1>1, <2>2 DEF Moves
  <2>. QED  BY <2>1, <2>2, <2>3, <2>4 DEF Moves
<1>. QED  BY <1>2, <1>3 DEF WaitInv

(* The steps of a thread that calls. *)
LEMMA MovesOutgoing ==
    ASSUME TypeOK, NEW t \in Threads, OutgoingStep(t)
    PROVE  Moves
<1>1. /\ tpc[t] \in {"send", "await"}
      /\ UNCHANGED <<nextId, pending, promise, actions, job, made, out, ran>>
      /\ Send(t) \/ (Resume(t) /\ UNCHANGED net)
  BY DEF OutgoingStep, Send, SendFails, AwaitReturns, AwaitRefused, AwaitTimeout,
         handling, calling
<1>2. tpc \in [Threads -> Places]
  BY ControlFacts
<1>3. \/ tpc' = [tpc EXCEPT ![t] = "idle"] /\ t \notin Peers
      \/ tpc' = [tpc EXCEPT ![t] = "compute"]
      \/ tpc' = [tpc EXCEPT ![t] = "await"]
  BY <1>1 DEF Send, Resume
<1>4. \A u \in Threads : u # t => tpc'[u] = tpc[u]
  BY <1>2, <1>3 DEF Places
<1>5. \A u \in Threads, m \in CallMessages : Asks(u, m)' => Asks(u, m)
  BY <1>1, <1>4 DEF Asks
<1>6. \A p \in Peers : tpc'[p] \notin {"idle", "dead"} => tpc[p] \notin {"idle", "dead"}
  BY <1>1, <1>4, PeerFacts
<1>7. \A p \in Peers : \A x : x \in Range(net'[p]) =>
         x \in Range(net[p]) \/ (x = out[t] /\ p = Other(Peer(t)) /\ tpc[t] = "send")
  <2>1. CASE UNCHANGED net
    BY <2>1
  <2>2. CASE Send(t)
    <3>1. PICK q : q = Other(Peer(t))
      OBVIOUS
    <3>2. /\ q \in Peers /\ out[t] \in Messages /\ tpc[t] = "send"
          /\ net' = [net EXCEPT ![q] = Append(@, out[t])]
      BY <1>1, <2>2, <3>1, InHand, PeerFacts DEF Send, Post, Messages
    <3>3. /\ net[q] \in Seq(Messages) /\ net'[q] = Append(net[q], out[t])
          /\ \A p \in Peers \ {q} : net'[p] = net[p]
      BY <3>2, QueueTypes, DataTypes
    <3>4. \A x : x \in Range(net'[q]) <=> x \in Range(net[q]) \/ x = out[t]
      BY <3>2, <3>3, RangeAppend
    <3>. QED  BY <3>1, <3>2, <3>3, <3>4
  <2>. QED  BY <1>1, <2>1, <2>2
<1>8. ASSUME NEW p \in Peers, NEW m \in CallMessages, At(p, m)'
      PROVE  At(p, m) \/ \E u \in Threads : Peer(u) = Other(p) /\ Asks(u, m)
  <2>1. CASE m \in Range(net'[p])
    <3>1. p = Other(Peer(t)) => Peer(t) = Other(p)
      BY PeerFacts
    <3>. QED  BY <1>7, <2>1, <3>1 DEF At, Asks
  <2>2. CASE m \in Range(actions'[p]) \/ (tpc'[p] \notin {"idle", "dead"} /\ job'[p] = m)
    BY <1>1, <1>6, <2>2 DEF At
  <2>. QED  BY <1>8, <2>1, <2>2 DEF At
<1>9. ASSUME NEW p \in Peers, NEW m \in ReplyMessages, m \in Range(net'[p])
      PROVE  m \in Range(net[p])
  <2>1. m # out[t]
    <3>1. out[t].type = "call" /\ m.type = "reply"
      BY <1>1, InHand, MessageFacts
    <3>. QED  BY <3>1
  <2>. QED  BY <1>7, <1>9, <2>1
<1>. QED  BY <1>1, <1>5, <1>8, <1>9 DEF Moves

(* The messages that are left when the first is read. *)
LEMMA RangeRead ==
    ASSUME TypeOK, NEW p \in Peers, Listens(p)
    PROVE  /\ Head(net[p]) \in Range(net[p])
           /\ \A q \in Peers : \A x :
                 x \in Range([net EXCEPT ![p] = Tail(@)][q]) => x \in Range(net[q])
<1>1. net \in [Peers -> Seq(Messages)] /\ net[p] \in Seq(Messages) /\ net[p] # <<>>
  BY DataTypes DEF Messages, Listens
<1>2. PICK rest : rest = [net EXCEPT ![p] = Tail(@)]
  OBVIOUS
<1>3. rest[p] = Tail(net[p]) /\ \A q \in Peers \ {p} : rest[q] = net[q]
  BY <1>1, <1>2
<1>4. Head(net[p]) \in Range(net[p]) /\ \A x : x \in Range(rest[p]) => x \in Range(net[p])
  BY <1>1, <1>3, RangeTail
<1>. QED  BY <1>2, <1>3, <1>4

(* And those there are when a reply is written. *)
LEMMA RangeReply ==
    ASSUME NEW before \in [Peers -> Seq(Messages)], NEW q \in Peers, NEW msg \in ReplyMessages,
           NEW r \in Peers
    PROVE  \A x : x \in Range([before EXCEPT ![q] = Append(@, msg)][r]) =>
                     x \in Range(before[r]) \/ (r = q /\ x = msg)
<1>1. msg \in Messages /\ before[q] \in Seq(Messages)
  BY DEF Messages
<1>2. \A x : x \in Range(Append(before[q], msg)) <=> x \in Range(before[q]) \/ x = msg
  BY <1>1, RangeAppend
<1>3. PICK after : after = [before EXCEPT ![q] = Append(@, msg)]
  OBVIOUS
<1>4. after[q] = Append(before[q], msg) /\ \A s \in Peers \ {q} : after[s] = before[s]
  BY <1>3
<1>. QED  BY <1>2, <1>3, <1>4

(* The steps of a receiver thread. *)
LEMMA MovesReceiver ==
    ASSUME TypeOK, OnceInv, NEW p \in Peers, ReceiverStep(p) \/ HandleJunk(p)
    PROVE  Moves
<1>. DEFINE rest == [net EXCEPT ![p] = Tail(@)]
<1>0. PICK msg : msg = Head(net[p])
  OBVIOUS
<1>1. /\ UNCHANGED <<nextId, made, out>>
      /\ HandleMethod(p) \/ UNCHANGED <<actions, job, tpc>>
      /\ DeliverReply(p) \/ UNCHANGED <<pending, promise>>
  BY DEF ReceiverStep, HandleJunk, DeliverReply, HandleMethod, HandleUnknown, handling, calling
<1>2. Listens(p) =>
        /\ rest \in [Peers -> Seq(Messages)] /\ msg \in Messages /\ msg \in Range(net[p])
        /\ \A q \in Peers : \A x : x \in Range(rest[q]) => x \in Range(net[q])
        /\ msg.type = "call" => msg \in CallMessages /\ msg.of \in Calls
        /\ msg.type = "reply" => msg \in ReplyMessages /\ msg.id \in Ids
  BY <1>0, ListenType, RangeRead, MessageFacts DEF Messages
<1>. HIDE DEF rest
<1>3. CASE HandleJunk(p)
  <2>1. UNCHANGED <<net, pending, promise, actions, job, tpc, ran>>
    BY <1>3 DEF HandleJunk, handling
  <2>. QED  BY <1>1, <2>1 DEF Moves, Asks, At
<1>4. CASE DeliverReply(p)
  <2>1. /\ net' = rest /\ Listens(p) /\ msg.type = "reply"
        /\ UNCHANGED <<actions, job, tpc, ran>>
        /\ LET c == pending[p][msg.id]
           IN IF c = None
              THEN UNCHANGED <<pending, promise>>
              ELSE /\ pending' = [pending EXCEPT ![p][msg.id] = None]
                   /\ promise' = [promise EXCEPT ![c] = msg.body]
    BY <1>0, <1>4 DEF DeliverReply, handling, rest
  <2>2. /\ \A t \in Threads, m \in CallMessages : Asks(t, m)' => Asks(t, m)
        /\ \A q \in Peers, m \in CallMessages : At(q, m)' => At(q, m)
        /\ \A q \in Peers, m \in ReplyMessages : m \in Range(net'[q]) => m \in Range(net[q])
    BY <1>1, <1>2, <2>1 DEF Asks, At
  <2>3. CASE pending[p][msg.id] = None
    BY <1>1, <2>1, <2>2, <2>3 DEF Moves
  <2>4. CASE pending[p][msg.id] # None
    <3>1. PICK c0 : c0 = pending[p][msg.id]
      OBVIOUS
    <3>2. /\ pending' = [pending EXCEPT ![p][msg.id] = None]
          /\ promise' = [promise EXCEPT ![c0] = msg.body]
          /\ msg \in ReplyMessages /\ msg.id \in Ids /\ msg \in Range(net[p])
      BY <1>2, <2>1, <2>4, <3>1
    <3>3. pending \in [Peers -> [Ids -> Calls \union {None}]] /\ c0 \in Calls
      BY <2>4, <3>1, <3>2, DataTypes
    <3>4. /\ pending'[p][msg.id] = None
          /\ \A q \in Peers, i \in Ids : (q # p \/ i # msg.id) => pending'[q][i] = pending[q][i]
      BY <3>2, <3>3
    <3>5. promise'[c0] = msg.body /\ \A c \in Calls : c # c0 => promise'[c] = promise[c]
      BY <3>2, <3>3, DataTypes
    <3>6. msg.body # None /\ \A c \in Calls : c # None
      BY <3>2, MessageFacts, APIAssumption
    <3>7. \A q \in Peers, i \in Ids, c \in Calls : pending'[q][i] = c => pending[q][i] = c
      BY <3>4, <3>6
    <3>8. \A c \in Calls : \/ promise'[c] = promise[c]
                           \/ \E q \in Peers, m \in ReplyMessages :
                                 /\ m \in Range(net[q]) /\ pending[q][m.id] = c
                                 /\ promise'[c] = m.body /\ pending'[q][m.id] = None
      BY <3>1, <3>2, <3>4, <3>5
    <3>9. \A q \in Peers, i \in Ids, c \in Calls :
             pending[q][i] = c => pending'[q][i] = c \/ promise'[c] # None
      BY <3>1, <3>4, <3>5, <3>6
    <3>. QED  BY <1>1, <2>1, <2>2, <3>7, <3>8, <3>9 DEF Moves
  <2>. QED  BY <2>3, <2>4
<1>5. CASE HandleMethod(p)
  <2>1. /\ net' = rest /\ Listens(p) /\ msg.type = "call" /\ UNCHANGED <<pending, promise, ran>>
        /\ IF p \in Async
           THEN actions' = [actions EXCEPT ![p] = Append(@, msg)] /\ UNCHANGED <<job, tpc>>
           ELSE Begin(p, msg) /\ UNCHANGED actions /\ tpc[p] = "idle"
    BY <1>0, <1>5 DEF HandleMethod, rest, Listens, Free
  <2>2. CASE p \in Async
    <3>1. actions' = [actions EXCEPT ![p] = Append(@, msg)] /\ UNCHANGED <<job, tpc>>
      BY <2>1, <2>2
    <3>2. /\ actions'[p] = Append(actions[p], msg) /\ actions[p] \in Seq(Messages)
          /\ \A q \in Peers \ {p} : actions'[q] = actions[q]
      BY <3>1, DataTypes, QueueTypes
    <3>3. \A x : x \in Range(actions'[p]) <=> x \in Range(actions[p]) \/ x = msg
      BY <1>2, <2>1, <3>2, RangeAppend
    <3>4. \A q \in Peers, m \in CallMessages : At(q, m)' => At(q, m)
      BY <1>2, <2>1, <3>1, <3>2, <3>3 DEF At
    <3>. QED  BY <1>1, <1>2, <2>1, <3>1, <3>4 DEF Moves, Asks
  <2>3. CASE p \notin Async
    <3>1. Begin(p, msg) /\ UNCHANGED actions
      BY <2>1, <2>3
    <3>2. /\ job'[p] = msg /\ tpc'[p] \in {"run", "compute"}
          /\ \A q \in Peers \ {p} : job'[q] = job[q]
          /\ \A t \in Threads \ {p} : tpc'[t] = tpc[t]
      BY <3>1, DataTypes, ControlFacts, PeerFacts DEF Begin
    <3>3. \A q \in Peers, m \in CallMessages : At(q, m)' => At(q, m)
      BY <1>2, <2>1, <3>1, <3>2, PeerFacts DEF At
    <3>4. \A t \in Threads, m \in CallMessages : Asks(t, m)' => Asks(t, m)
      BY <1>1, <3>2, PeerFacts DEF Asks
    <3>. QED  BY <1>1, <1>2, <2>1, <3>3, <3>4 DEF Moves
  <2>. QED  BY <2>2, <2>3
<1>6. CASE HandleUnknown(p)
  <2>0. PICK c0, m0 : c0 = msg.of /\ m0 = ReplyMessage(msg.id, c0, "error")
    OBVIOUS
  <2>1. /\ Listens(p) /\ msg.type = "call"
        /\ ran' = [ran EXCEPT ![c0] = Outcome(c0, "error")]
        /\ UNCHANGED <<actions, job, tpc, pending, promise>>
        /\ \/ net' = rest
           \/ /\ msg.id # 0
              /\ net' = [rest EXCEPT ![Other(p)] = Append(@, m0)]
    BY <1>0, <1>6, <2>0 DEF HandleUnknown, handling, rest
  <2>2. /\ msg \in CallMessages /\ At(p, msg) /\ c0 \in Calls
        /\ msg.id # 0 => /\ m0 \in ReplyMessages /\ m0.id = msg.id
                         /\ m0.body = Outcome(c0, "error") /\ m0.body.of = c0
    BY <1>2, <2>0, <2>1, MessageFacts DEF Kinds, At, ReplyMessage, Outcome
  <2>3. /\ ran'[c0] = Outcome(c0, "error") /\ Outcome(c0, "error").of = c0
        /\ \A c \in Calls : c # c0 => ran'[c] = ran[c]
    BY <2>1, <2>2, DataTypes DEF Outcome
  <2>4. ran[c0] = None
    BY <1>0, <1>2, <2>0, <2>1, <2>2, ReadNet DEF OnceInv, Alone, Has
  <2>5. \A q \in Peers : \A x : x \in Range(net'[q]) =>
           x \in Range(net[q]) \/ (q = Other(p) /\ msg.id # 0 /\ x = m0)
    <3>1. CASE net' = rest
      BY <1>2, <2>1, <3>1
    <3>2. CASE msg.id # 0 /\ net' = [rest EXCEPT ![Other(p)] = Append(@, m0)]
      <4>1. ASSUME NEW q \in Peers
            PROVE  \A x : x \in Range(net'[q]) =>
                             x \in Range(rest[q]) \/ (q = Other(p) /\ x = m0)
        <5>1. m0 \in ReplyMessages /\ rest \in [Peers -> Seq(Messages)] /\ Other(p) \in Peers
          BY <1>2, <2>1, <2>2, <3>2, PeerFacts
        <5>2. \A x : x \in Range([rest EXCEPT ![Other(p)] = Append(@, m0)][q]) =>
                        x \in Range(rest[q]) \/ (q = Other(p) /\ x = m0)
          BY <5>1, RangeReply
        <5>. QED  BY <3>2, <5>2
      <4>. QED  BY <1>2, <2>1, <3>2, <4>1
    <3>. QED  BY <2>1, <3>1, <3>2
  <2>6. ASSUME NEW q \in Peers, NEW m \in CallMessages, At(q, m)' PROVE At(q, m)
    <3>1. msg.id # 0 => m # m0
      <4>1. m.type = "call" /\ (msg.id # 0 => m0.type = "reply")
        BY <2>2, MessageFacts
      <4>. QED  BY <4>1
    <3>2. m \in Range(net'[q]) => m \in Range(net[q])
      BY <2>5, <3>1
    <3>. QED  BY <2>1, <2>6, <3>2 DEF At
  <2>7. ASSUME NEW q \in Peers, NEW m \in ReplyMessages,
               m \in Range(net'[q]), m \notin Range(net[q])
        PROVE  /\ m.body = ran'[m.body.of]
               /\ \E w \in CallMessages : At(Other(q), w) /\ w.id = m.id /\ w.of = m.body.of
    <3>1. m = m0 /\ Other(q) = p /\ msg.id # 0
      BY <2>5, <2>7, PeerFacts
    <3>. QED  BY <2>0, <2>2, <2>3, <3>1
  <2>8. \A t \in Threads, m \in CallMessages : Asks(t, m)' => Asks(t, m)
    BY <1>1, <2>1 DEF Asks
  <2>9. \A c \in Calls : ran'[c] = ran[c] \/ (ran[c] = None /\ ran'[c].of = c)
    BY <2>3, <2>4
  <2>. QED  BY <1>1, <2>1, <2>6, <2>7, <2>8, <2>9 DEF Moves
<1>. QED  BY <1>3, <1>4, <1>5, <1>6 DEF ReceiverStep

(* The steps of a handler thread. *)
LEMMA MovesHandler ==
    ASSUME TypeOK, OnceInv, OwnOutcome, NEW p \in Peers,
           WorkerTakes(p) \/ HandlerEnds(p) \/ Reply(p) \/ ReplyFails(p)
    PROVE  Moves
<1>1. /\ UNCHANGED <<nextId, pending, promise, made, out>>
      /\ tpc \in [Threads -> Places] /\ p \in Threads
  BY ControlFacts, PeerFacts DEF WorkerTakes, HandlerEnds, Reply, ReplyFails, calling
<1>2. CASE WorkerTakes(p)
  <2>0. PICK msg : msg = Head(actions[p])
    OBVIOUS
  <2>1. /\ tpc[p] = "idle" /\ actions[p] # <<>> /\ actions' = [actions EXCEPT ![p] = Tail(@)]
        /\ Begin(p, msg) /\ UNCHANGED <<net, ran>>
    BY <1>2, <2>0 DEF WorkerTakes
  <2>2. /\ actions[p] \in Seq(Messages)
        /\ actions'[p] = Tail(actions[p]) /\ \A q \in Peers \ {p} : actions'[q] = actions[q]
    BY <2>1, DataTypes, QueueTypes
  <2>3. msg \in Range(actions[p]) /\ \A x : x \in Range(actions'[p]) => x \in Range(actions[p])
    BY <2>0, <2>1, <2>2, RangeTail
  <2>4. /\ job'[p] = msg /\ tpc'[p] \in {"run", "compute"}
        /\ \A q \in Peers \ {p} : job'[q] = job[q]
        /\ \A t \in Threads \ {p} : tpc'[t] = tpc[t]
    BY <1>1, <2>1, DataTypes DEF Begin
  <2>5. \A q \in Peers, m \in CallMessages : At(q, m)' => At(q, m)
    BY <2>1, <2>2, <2>3, <2>4, PeerFacts DEF At
  <2>6. \A t \in Threads, m \in CallMessages : Asks(t, m)' => Asks(t, m)
    BY <1>1, <2>4 DEF Asks
  <2>. QED  BY <1>1, <2>1, <2>5, <2>6 DEF Moves
<1>3. CASE HandlerEnds(p)
  <2>0. PICK c0 : c0 = job[p].of
    OBVIOUS
  <2>1. PICK k \in Kinds : ran' = [ran EXCEPT ![c0] = Outcome(c0, k)]
    BY <1>3, <2>0 DEF HandlerEnds
  <2>2. /\ tpc[p] = "compute" /\ UNCHANGED <<net, actions, job>>
        /\ tpc' = [tpc EXCEPT ![p] = IF job[p].method \in HasReply THEN "reply" ELSE "idle"]
    BY <1>3 DEF HandlerEnds, handling
  <2>3. c0 \in Calls /\ ran[c0] = None
    BY <2>0, <2>2, InHand DEF Works, Has, OnceInv, Alone
  <2>4. tpc'[p] \in {"reply", "idle"} /\ \A t \in Threads \ {p} : tpc'[t] = tpc[t]
    BY <1>1, <2>2
  <2>5. \A q \in Peers, m \in CallMessages : At(q, m)' => At(q, m)
    BY <2>2, <2>4, PeerFacts DEF At
  <2>6. \A t \in Threads, m \in CallMessages : Asks(t, m)' => Asks(t, m)
    BY <1>1, <2>4 DEF Asks
  <2>7. ran'[c0].of = c0 /\ \A c \in Calls : c # c0 => ran'[c] = ran[c]
    BY <2>1, <2>3, DataTypes DEF Outcome
  <2>8. \A c \in Calls : ran'[c] = ran[c] \/ (ran[c] = None /\ ran'[c].of = c)
    BY <2>3, <2>7
  <2>. QED  BY <1>1, <2>2, <2>5, <2>6, <2>8 DEF Moves
<1>4. CASE Reply(p)
  <2>0. PICK msg, c0 : /\ msg = ReplyMessage(job[p].id, job[p].of, ran[job[p].of].kind)
                       /\ c0 = job[p].of
    OBVIOUS
  <2>1. /\ tpc[p] = "reply" /\ tpc' = [tpc EXCEPT ![p] = "idle"]
        /\ net' = [net EXCEPT ![Other(p)] = Append(@, msg)] /\ UNCHANGED <<actions, job, ran>>
    BY <1>4, <2>0 DEF Reply, Post, handling
  <2>2. /\ msg \in ReplyMessages /\ msg.id = job[p].id /\ msg.body = Outcome(c0, ran[c0].kind)
        /\ msg.body.of = c0 /\ c0 \in Calls /\ ran[c0] \in Outcomes /\ ran[c0] # None
    BY <2>0, <2>1, ReplyFacts, ControlFacts DEF ControlOK, ReplyMessage, Outcome
  <2>3. ran[c0] = Outcome(c0, ran[c0].kind)
    <3>1. ran[c0].of = c0
      BY <2>2 DEF OwnOutcome
    <3>. QED  BY <2>2, <3>1 DEF Outcome, Outcomes
  <2>4. /\ net \in [Peers -> Seq(Messages)] /\ Other(p) \in Peers /\ Other(p) # p
        /\ \A q \in Peers : q = Other(p) => Other(q) = p
    BY DataTypes, PeerFacts DEF Messages
  <2>5. ASSUME NEW q \in Peers
        PROVE  \A x : x \in Range(net'[q]) => x \in Range(net[q]) \/ (q = Other(p) /\ x = msg)
    <3>1. \A x : x \in Range([net EXCEPT ![Other(p)] = Append(@, msg)][q]) =>
                    x \in Range(net[q]) \/ (q = Other(p) /\ x = msg)
      BY <2>2, <2>4, RangeReply
    <3>. QED  BY <2>1, <3>1
  <2>6. tpc'[p] = "idle" /\ \A t \in Threads \ {p} : tpc'[t] = tpc[t]
    BY <1>1, <2>1
  <2>7. ASSUME NEW q \in Peers, NEW m \in CallMessages, At(q, m)' PROVE At(q, m)
    <3>1. m # msg
      <4>1. m.type = "call" /\ msg.type = "reply"
        BY <2>2, MessageFacts
      <4>. QED  BY <4>1
    <3>2. m \in Range(net'[q]) => m \in Range(net[q])
      BY <2>5, <3>1
    <3>3. tpc'[q] \notin {"idle", "dead"} => tpc[q] \notin {"idle", "dead"}
      BY <2>1, <2>6, PeerFacts
    <3>4. actions'[q] = actions[q] /\ job'[q] = job[q]
      BY <2>1
    <3>5. CASE m \in Range(net'[q])
      BY <3>2, <3>5 DEF At
    <3>6. CASE m \in Range(actions'[q]) \/ (tpc'[q] \notin {"idle", "dead"} /\ job'[q] = m)
      BY <3>3, <3>4, <3>6 DEF At
    <3>. QED  BY <2>7, <3>5, <3>6 DEF At
  <2>8. \A t \in Threads, m \in CallMessages : Asks(t, m)' => Asks(t, m)
    BY <1>1, <2>6 DEF Asks
  <2>9. job[p] \in CallMessages /\ At(p, job[p])
    BY <2>1, InHand DEF At
  <2>10. ran' = ran
    BY <2>1
  <2>11. ASSUME NEW q \in Peers, NEW m \in ReplyMessages,
                m \in Range(net'[q]), m \notin Range(net[q])
         PROVE  /\ m.body = ran'[m.body.of]
                /\ \E w \in CallMessages : At(Other(q), w) /\ w.id = m.id /\ w.of = m.body.of
    <3>1. m = msg /\ q = Other(p)
      BY <2>5, <2>11
    <3>2. Other(q) = p
      BY <2>4, <3>1
    <3>3. m.body = ran'[m.body.of]
      BY <2>2, <2>3, <2>10, <3>1
    <3>4. job[p].id = m.id /\ job[p].of = m.body.of
      BY <2>0, <2>2, <3>1
    <3>. QED  BY <2>9, <3>2, <3>3, <3>4
  <2>. QED  BY <1>1, <2>7, <2>8, <2>10, <2>11 DEF Moves
<1>5. CASE ReplyFails(p)
  <2>1. /\ tpc[p] = "reply" /\ UNCHANGED <<net, actions, job, ran>>
        /\ tpc' = [tpc EXCEPT ![p] = "dead"] \/ tpc' = [tpc EXCEPT ![p] = "idle"]
    BY <1>5 DEF ReplyFails, handling
  <2>2. /\ tpc'[p] \in {"idle", "dead"} /\ \A t \in Threads \ {p} : tpc'[t] = tpc[t]
    BY <1>1, <2>1
  <2>3. \A q \in Peers, m \in CallMessages : At(q, m)' => At(q, m)
    BY <2>1, <2>2, PeerFacts DEF At
  <2>4. \A t \in Threads, m \in CallMessages : Asks(t, m)' => Asks(t, m)
    BY <1>1, <2>2 DEF Asks
  <2>. QED  BY <1>1, <2>1, <2>3, <2>4 DEF Moves
<1>. QED  BY <1>2, <1>3, <1>4, <1>5

(* A new call takes an id that was never used, and registers its promise.  *)
LEMMA NewRequestKeeps ==
    ASSUME Typed, OnceInv, IdInv, OwnOutcome, RanInv, WaitInv,
           NEW t \in Threads, NEW m \in Methods, NewRequest(t, m)
    PROVE  IdInv' /\ OwnOutcome' /\ RanInv' /\ WaitInv'
<1>0. PICK p, n, new : p = Peer(t) /\ n = nextId[p] /\ new = <<t, made[t] + 1>>
  OBVIOUS
<1>1. /\ made[t] < Limit(t) /\ made' = [made EXCEPT ![t] = @ + 1]
      /\ tpc' = [tpc EXCEPT ![t] = "send"] /\ tpc[t] \in {"run", "idle"}
      /\ t \in Peers => tpc[t] = "run"
      /\ out' = [out EXCEPT ![t] = CallMessage(IF m \in HasReply THEN n ELSE 0, m, new)]
      /\ IF m \in HasReply THEN /\ nextId' = [nextId EXCEPT ![p] = @ + 1]
                                /\ pending' = [pending EXCEPT ![p][n] = new]
         ELSE UNCHANGED <<nextId, pending>>
      /\ UNCHANGED <<promise, net, actions, job, ran>>
  BY <1>0 DEF NewRequest, MayCall, handling
<1>2. /\ new \in Calls /\ ~Issued(new) /\ new[1] = t /\ p \in Peers /\ n \in Ids
      /\ \A c \in Calls : Issued(c)' <=> Issued(c) \/ c = new
  BY <1>0, <1>1, NewCall, PeerFacts
<1>3. /\ tpc \in [Threads -> Places] /\ out \in [Threads -> CallMessages \union {None}]
      /\ pending \in [Peers -> [Ids -> Calls \union {None}]] /\ nextId \in [Peers -> Nat \ {0}]
      /\ Ids \subseteq Nat \ {0}
  BY ControlFacts, DataTypes DEF Typed, TypeOK, Ids
<1>4. /\ out'[t].id = (IF m \in HasReply THEN n ELSE 0) /\ out'[t].of = new /\ tpc'[t] = "send"
      /\ \A u \in Threads : u # t => out'[u] = out[u] /\ tpc'[u] = tpc[u]
  BY <1>1, <1>3 DEF CallMessage
<1>5. \A q \in Peers, i \in Ids :
         pending'[q][i] = IF m \in HasReply /\ q = p /\ i = n THEN new ELSE pending[q][i]
  BY <1>1, <1>2, <1>3
<1>6. \A q \in Peers : nextId'[q] = IF m \in HasReply /\ q = p THEN nextId[q] + 1 ELSE nextId[q]
  BY <1>1, <1>2, <1>3
<1>7. \A q \in Peers, w \in CallMessages : At(q, w)' => At(q, w)
  BY <1>1, <1>4, PeerFacts DEF At
<1>8. ASSUME NEW q \in Peers, NEW i \in Ids, NEW c \in Calls, Uses(q, i, c)'
      PROVE  Uses(q, i, c) \/ (m \in HasReply /\ q = p /\ i = n /\ c = new)
  <2>1. CASE pending'[q][i] = c
    BY <1>5, <2>1 DEF Uses
  <2>2. ASSUME NEW w \in CallMessages, w.id = i, w.of = c, At(Other(q), w)'
        PROVE  Uses(q, i, c)
    BY <1>7, <2>2, PeerFacts DEF Uses
  <2>3. ASSUME NEW w \in CallMessages, w.id = i, w.of = c,
               NEW u \in Threads, Peer(u) = q, Asks(u, w)'
        PROVE  Uses(q, i, c) \/ (m \in HasReply /\ q = p /\ i = n /\ c = new)
    <3>1. CASE u = t
      BY <1>0, <1>3, <1>4, <2>3, <3>1 DEF Asks
    <3>2. CASE u # t
      BY <1>4, <2>3, <3>2 DEF Asks, Uses
    <3>. QED  BY <3>1, <3>2
  <2>4. CASE \E w \in ReplyMessages : w.id = i /\ w.body.of = c /\ w \in Range(net'[q])
    BY <1>1, <2>4 DEF Uses
  <2>. QED  BY <1>8, <2>1, <2>2, <2>3, <2>4 DEF Uses
<1>9. \A q \in Peers, i \in Ids, c \in Calls :
         Uses(q, i, c) => /\ i < nextId[q] /\ Issued(c) /\ Peer(c[1]) = q
                          /\ c # new /\ ~(q = p /\ i = n)
  <2>1. ASSUME NEW q \in Peers, NEW i \in Ids, NEW c \in Calls, Uses(q, i, c)
        PROVE  i < nextId[q] /\ Issued(c) /\ Peer(c[1]) = q
    BY <2>1 DEF IdInv
  <2>2. ~(n < nextId[p])
    BY <1>0, <1>2, <1>3
  <2>. QED  BY <1>2, <2>1, <2>2
<1>10. IdInv'
  <2>1. ASSUME NEW q \in Peers, NEW i \in Ids, NEW c \in Calls, Uses(q, i, c)'
        PROVE  i < nextId'[q] /\ Issued(c)' /\ Peer(c[1]) = q
    <3>1. CASE Uses(q, i, c)
      BY <1>2, <1>3, <1>6, <1>9, <3>1
    <3>2. CASE m \in HasReply /\ q = p /\ i = n /\ c = new
      BY <1>0, <1>2, <1>3, <1>6, <3>2
    <3>. QED  BY <1>8, <2>1, <3>1, <3>2
  <2>2. ASSUME NEW q \in Peers, NEW i \in Ids, NEW j \in Ids, NEW c \in Calls, NEW d \in Calls,
               Uses(q, i, c)', Uses(q, j, d)'
        PROVE  i = j <=> c = d
    <3>1. CASE Uses(q, i, c) /\ Uses(q, j, d)
      BY <3>1 DEF IdInv
    <3>2. CASE ~(Uses(q, i, c) /\ Uses(q, j, d))
      BY <1>8, <1>9, <2>2, <3>2
    <3>. QED  BY <3>1, <3>2
  <2>. QED  BY <2>1, <2>2 DEF IdInv
<1>11. OwnOutcome' /\ RanInv'
  BY <1>1 DEF OwnOutcome, RanInv
<1>12. WaitInv'
  <2>1. promise[new] = None
    BY <1>2 DEF RanInv, OnceInv
  <2>2. \A q \in Peers, i \in Ids, c \in Calls : pending'[q][i] = c => promise'[c] = None
    BY <1>1, <1>5, <2>1 DEF WaitInv
  <2>3. ASSUME NEW u \in Threads, tpc'[u] \in {"send", "await"}, out'[u].id # 0
        PROVE  promise'[out'[u].of] # None \/ pending'[Peer(u)][out'[u].id] = out'[u].of
    <3>1. CASE u = t
      BY <1>0, <1>2, <1>4, <1>5, <2>3, <3>1
    <3>2. CASE u # t
      <4>1. /\ tpc[u] \in {"send", "await"} /\ out'[u] = out[u] /\ out[u] \in CallMessages
            /\ out[u].id \in Ids /\ out[u].of \in Calls /\ Peer(u) \in Peers
        BY <1>4, <2>3, <3>2, InHand, PeerFacts DEF Typed
      <4>2. Uses(Peer(u), out[u].id, out[u].of)
        BY <4>1 DEF Uses, Asks
      <4>. QED  BY <1>1, <1>5, <1>9, <2>3, <4>1, <4>2 DEF WaitInv
    <3>. QED  BY <3>1, <3>2
  <2>. QED  BY <2>2, <2>3 DEF WaitInv
<1>. QED  BY <1>10, <1>11, <1>12
-----------------------------------------------------------------------------
APIInv == Typed /\ OnceInv /\ IdInv /\ OwnOutcome /\ RanInv /\ WaitInv

(* At the start no id is used. *)
LEMMA APIInit == Init => APIInv
<1>. SUFFICES ASSUME Init PROVE IdInv /\ OwnOutcome /\ RanInv /\ WaitInv
  BY TypeInit, OnceInit DEF APIInv
<1>1. /\ \A p \in Peers : net[p] = <<>> /\ actions[p] = <<>> /\ tpc[p] = "idle"
      /\ \A p \in Peers, i \in Ids : pending[p][i] = None
      /\ \A t \in Threads : tpc[t] = "idle"
      /\ \A c \in Calls : ran[c] = None /\ promise[c] = None /\ c # None
  BY PeerFacts, APIAssumption DEF Init
<1>2. \A m : m \notin Range(<<>>)
  BY DEF Range
<1>3. \A p \in Peers, i \in Ids, c \in Calls : ~Uses(p, i, c)
  BY <1>1, <1>2, PeerFacts DEF Uses, At, Asks
<1>. QED  BY <1>1, <1>2, <1>3 DEF IdInv, OwnOutcome, RanInv, WaitInv

(* Every step keeps all of it. *)
LEMMA APIStep == APIInv /\ [Next]_vars => APIInv'
<1>. SUFFICES ASSUME APIInv, [Next]_vars PROVE APIInv'
  OBVIOUS
<1>1. Typed /\ TypeOK /\ OnceInv /\ IdInv /\ OwnOutcome /\ RanInv /\ WaitInv
  BY DEF APIInv, Typed
<1>2. Typed' /\ TypeOK' /\ OnceInv'
  BY <1>1, TypeStep, OnceStep DEF Typed
<1>3. CASE UNCHANGED vars
  <2>1. Moves
    BY <1>3 DEF Moves, At, Asks, vars, handling, calling
  <2>. QED  BY <1>1, <1>2, <2>1, MovesIds, MovesOutcomes, MovesWaits DEF APIInv
<1>4. CASE \E t \in Threads, m \in Methods : NewRequest(t, m)
  BY <1>1, <1>2, <1>4, NewRequestKeeps DEF APIInv
<1>5. CASE Moves
  BY <1>1, <1>2, <1>5, MovesIds, MovesOutcomes, MovesWaits DEF APIInv
<1>. QED
  BY <1>1, <1>3, <1>4, <1>5, Steps, MovesOutgoing, MovesReceiver, MovesHandler

(* A promise that somebody waits for can still be set: it is registered    *)
(* under the id of the call until the reply is there.                      *)
THEOREM Registered == Spec => []StillRegistered
<1>1. APIInv => StillRegistered
  <2>. SUFFICES ASSUME APIInv, NEW t \in Threads, tpc[t] = "await", promise[out[t].of] = None
                PROVE  pending[Peer(t)][out[t].id] = out[t].of
    BY DEF StillRegistered
  <2>1. out[t].id # 0
    BY ControlFacts DEF APIInv, Typed, ControlOK
  <2>. QED  BY <2>1 DEF APIInv, WaitInv
<1>. QED  BY <1>1, APIInit, APIStep, PTL DEF Spec

(* A new call is issued to the abstract specification. *)
LEMMA Issues ==
    ASSUME APIInv, NEW t \in Threads, NEW m \in Methods, NewRequest(t, m)
    PROVE  RC!Next
<1>0. PICK new : new = <<t, made[t] + 1>>
  OBVIOUS
<1>1. made[t] < Limit(t) /\ made' = [made EXCEPT ![t] = @ + 1] /\ UNCHANGED <<promise, ran>>
  BY DEF NewRequest
<1>2. /\ new \in Calls /\ ~Issued(new) /\ IssuedCalls' = IssuedCalls \union {new}
  BY <1>0, <1>1, NewCall DEF APIInv
<1>3. RC!Issue(new)
  BY <1>1, <1>2 DEF RC!Issue, IssuedCalls, Issued
<1>. QED  BY <1>2, <1>3 DEF RC!Next

(* When a call comes to its outcome it has been issued, and had none.      *)
LEMMA Executes ==
    ASSUME APIInv, NEW p \in Peers, NEW c \in Calls, NEW k \in Kinds, Has(p, c),
           ran' = [ran EXCEPT ![c] = Outcome(c, k)], UNCHANGED <<made, promise>>
    PROVE  RC!Next
<1>1. Issued(c) /\ ran[c] = None
  BY DEF APIInv, OnceInv, Alone
<1>2. RC!Execute(c, k)
  BY <1>1 DEF RC!Execute, RC!Outcome, Outcome, Issued
<1>3. \E x \in Kinds : RC!Execute(c, x)
  BY <1>2
<1>. QED  BY <1>3 DEF RC!Next

(* A promise is set once, to the outcome of its own call. *)
LEMMA Answers ==
    ASSUME APIInv, NEW p \in Peers, DeliverReply(p)
    PROVE  RC!Next \/ UNCHANGED <<made, promise, ran>>
<1>0. PICK msg, c0 : msg = Head(net[p]) /\ c0 = pending[p][msg.id]
  OBVIOUS
<1>1. TypeOK /\ IdInv /\ RanInv /\ WaitInv /\ OwnOutcome
  BY DEF APIInv, Typed
<1>2. Listens(p) /\ msg.type = "reply" /\ UNCHANGED <<made, out, ran>>
  BY <1>0 DEF DeliverReply, calling
<1>3. /\ msg \in ReplyMessages /\ msg \in Range(net[p]) /\ msg.id \in Ids
      /\ msg.body \in Outcomes /\ msg.body.of \in Calls /\ msg.body # None
  BY <1>0, <1>1, <1>2, ListenType, RangeRead, MessageFacts, APIAssumption
<1>4. CASE c0 = None
  BY <1>0, <1>2, <1>4 DEF DeliverReply
<1>5. CASE c0 # None
  <2>1. promise' = [promise EXCEPT ![c0] = msg.body]
    BY <1>0, <1>5 DEF DeliverReply
  <2>2. c0 \in Calls
    BY <1>0, <1>1, <1>3, <1>5, DataTypes
  <2>3. Uses(p, msg.id, c0) /\ Uses(p, msg.id, msg.body.of)
    BY <1>0, <1>3 DEF Uses
  <2>4. msg.body.of = c0
    BY <1>1, <1>3, <2>2, <2>3 DEF IdInv
  <2>5. msg.body = ran[c0] /\ ran[c0] # None /\ promise[c0] = None
    BY <1>0, <1>1, <1>3, <2>2, <2>4 DEF RanInv, WaitInv
  <2>6. RC!Answer(c0)
    BY <1>2, <2>1, <2>5 DEF RC!Answer
  <2>. QED  BY <2>2, <2>6 DEF RC!Next
<1>. QED  BY <1>4, <1>5

(* Each step is a step of the abstract specification, or none. *)
LEMMA CallStep == APIInv /\ [Next]_vars => [RC!Next]_(RC!callVars)
<1>. SUFFICES ASSUME APIInv, [Next]_vars
              PROVE  RC!Next \/ UNCHANGED <<made, promise, ran>>
  BY DEF RC!callVars
<1>1. CASE UNCHANGED vars
  BY <1>1 DEF vars, calling
<1>2. CASE \E t \in Threads, m \in Methods : NewRequest(t, m)
  BY <1>2, Issues
<1>3. CASE \E t \in Threads : OutgoingStep(t)
  BY <1>3 DEF OutgoingStep, Send, SendFails, AwaitReturns, AwaitRefused, AwaitTimeout, calling
<1>4. ASSUME NEW p \in Peers, ReceiverStep(p) \/ HandleJunk(p)
      PROVE  RC!Next \/ UNCHANGED <<made, promise, ran>>
  <2>1. CASE DeliverReply(p)
    BY <2>1, Answers
  <2>2. CASE HandleMethod(p) \/ HandleJunk(p)
    BY <2>2 DEF HandleMethod, HandleJunk, calling
  <2>3. CASE HandleUnknown(p)
    <3>0. PICK c0 : c0 = Head(net[p]).of
      OBVIOUS
    <3>1. /\ Listens(p) /\ Head(net[p]).type = "call" /\ UNCHANGED <<made, promise>>
          /\ ran' = [ran EXCEPT ![c0] = Outcome(c0, "error")]
      BY <2>3, <3>0 DEF HandleUnknown, calling
    <3>2. c0 \in Calls /\ Has(p, c0) /\ "error" \in Kinds
      BY <3>0, <3>1, ReadNet DEF Has, APIInv, Typed, Kinds
    <3>. QED  BY <3>1, <3>2, Executes
  <2>. QED  BY <1>4, <2>1, <2>2, <2>3 DEF ReceiverStep
<1>5. ASSUME NEW p \in Peers, WorkerTakes(p) \/ HandlerEnds(p) \/ Reply(p) \/ ReplyFails(p)
      PROVE  RC!Next \/ UNCHANGED <<made, promise, ran>>
  <2>1. CASE WorkerTakes(p) \/ Reply(p) \/ ReplyFails(p)
    BY <2>1 DEF WorkerTakes, Reply, ReplyFails, calling
  <2>2. CASE HandlerEnds(p)
    <3>0. PICK c0 : c0 = job[p].of
      OBVIOUS
    <3>1. PICK k \in Kinds : ran' = [ran EXCEPT ![c0] = Outcome(c0, k)]
      BY <2>2, <3>0 DEF HandlerEnds
    <3>2. c0 \in Calls /\ Has(p, c0) /\ UNCHANGED <<made, promise>>
      BY <2>2, <3>0, InHand DEF HandlerEnds, Has, Works, APIInv, Typed, calling
    <3>. QED  BY <3>1, <3>2, Executes
  <2>. QED  BY <1>5, <2>1, <2>2
<1>. QED  BY <1>1, <1>2, <1>3, <1>4, <1>5, Steps

(* Every call is executed at most once, and a promise is only ever set to  *)
(* the outcome of the call it was handed out for.                          *)
THEOREM ImplementsRemoteCall == Spec => RemoteCallSpec
<1>1. Init => RC!Init
  <2>. SUFFICES ASSUME Init PROVE RC!Init
    OBVIOUS
  <2>1. ran = [c \in Calls |-> None] /\ promise = [c \in Calls |-> None]
    BY DEF Init
  <2>2. ASSUME NEW c \in Calls PROVE ~(c[2] <= made[c[1]])
    <3>1. made[c[1]] = 0 /\ c[2] \in Nat \ {0}
      BY CallFacts DEF Init
    <3>. QED  BY <3>1
  <2>. QED  BY <2>1, <2>2 DEF RC!Init
<1>. QED  BY <1>1, APIInit, APIStep, CallStep, PTL DEF Spec, RemoteCallSpec, RC!Spec
==============================================================================
