--------------------------- MODULE TcpServerProofs ---------------------------
(***************************************************************************)
(* Proofs about TcpServer for any set of connections: the list of the mux  *)
(* and the threads of the connections agree, however their registration,   *)
(* their end and the stop of the server interleave, so that a server that  *)
(* is down has let go of everything.                                       *)
(***************************************************************************)
EXTENDS TcpServer, SequenceTheorems, TLAPS

(* The part of a connection's life in which the mux knows it.              *)
Registered == {"check", "start", "loop", "receive", "finish"}

(* Each connection is in the list at most once, and only while it is due.  *)
MuxInv ==
    /\ \A i \in 1..Len(transports) : cpc[transports[i]] \in Registered
    /\ \A i, j \in 1..Len(transports) : transports[i] = transports[j] => i = j

(* No listener from shutdown() on, and no connection from server_close() on. *)
QuietInv == /\ rpc \in {"closing", "down", "opening"} => ~listening
            /\ rpc \in {"down", "opening"} => Served = {}

(* None of the first i connections that send() found in the list has left. *)
Intact(i) == \A j \in 1..i : \E k \in 1..Len(transports) : transports[k] = meant[j]

(* Then they are still in place, and have the data once the loop is past   *)
(* them.  Who has left does not come back.                                 *)
SendInv ==
    /\ \A i \in 1..Len(meant) : cpc[meant[i]] \notin {"away", "setup"}
    /\ \A i \in 1..Len(meant) : Intact(i) =>
          /\ i <= Len(transports) /\ transports[i] = meant[i]
          /\ i < pos /\ meant[i] \in receivers => meant[i] \in reached

IInv == TypeOK /\ MuxInv /\ QuietInv /\ SendInv
-----------------------------------------------------------------------------
(* An entry of a sequence without its i-th is an entry of the sequence.    *)
LEMMA RemoveAtEntries ==
    ASSUME NEW S, NEW s \in Seq(S), NEW i \in 1..Len(s)
    PROVE  /\ RemoveAt(s, i) \in Seq(S)
           /\ Len(RemoveAt(s, i)) = Len(s) - 1
           /\ \A j \in 1..Len(s) - 1 :
                 RemoveAt(s, i)[j] = IF j < i THEN s[j] ELSE s[j + 1]
<1>. DEFINE front == SubSeq(s, 1, i - 1)
            rest == SubSeq(s, i + 1, Len(s))
<1>1. front \in Seq(S) /\ Len(front) = i - 1 /\ \A j \in 1..i - 1 : front[j] = s[j]
  OBVIOUS
<1>2. rest \in Seq(S) /\ Len(rest) = Len(s) - i
      /\ \A j \in 1..Len(s) - i : rest[j] = s[j + i]
  OBVIOUS
<1>3. RemoveAt(s, i) = front \o rest
  BY DEF RemoveAt
<1>. HIDE DEF front, rest
<1>4. /\ front \o rest \in Seq(S) /\ Len(front \o rest) = Len(front) + Len(rest)
      /\ \A j \in 1..Len(front) + Len(rest) :
            (front \o rest)[j] = IF j <= Len(front) THEN front[j] ELSE rest[j - Len(front)]
  <2>1. front \in Seq(S) /\ rest \in Seq(S)
    BY <1>1, <1>2
  <2>. QED  BY <2>1, ConcatProperties, Zenon
<1>6. Len(s) \in Nat /\ Len(front) + Len(rest) = Len(s) - 1
  BY <1>1, <1>2
<1>5. \A j \in 1..Len(s) - 1 :
         (front \o rest)[j] = IF j < i THEN s[j] ELSE s[j + 1]
  <2>. TAKE j \in 1..Len(s) - 1
  <2>1. CASE j < i
    BY <2>1, <1>1, <1>4, <1>6
  <2>2. CASE ~(j < i)
    <3>1. j - (i - 1) \in 1..Len(s) - i /\ ~(j <= i - 1)
      BY <2>2, <1>6
    <3>2. (front \o rest)[j] = rest[j - (i - 1)]
      BY <3>1, <1>1, <1>4, <1>6
    <3>. QED  BY <2>2, <3>1, <3>2, <1>2, <1>6
  <2>. QED  BY <2>1, <2>2
<1>. QED  BY <1>3, <1>4, <1>5, <1>6

Distinct(s) == \A j, k \in 1..Len(s) : s[j] = s[k] => j = k

(* t has entries of s, but not its i-th.                                   *)
Lacks(t, s, i) ==
    \A j \in 1..Len(t) : t[j] # s[i] /\ \E k \in 1..Len(s) : t[j] = s[k]

(* What RemoveAt leaves of a list without repetitions lacks the i-th.      *)
LEMMA RemoveAtDistinct ==
    ASSUME NEW S, NEW s \in Seq(S), NEW i \in 1..Len(s), Distinct(s)
    PROVE  RemoveAt(s, i) \in Seq(S) /\ Lacks(RemoveAt(s, i), s, i) /\ Distinct(RemoveAt(s, i))
<1>. DEFINE t == RemoveAt(s, i)
<1>. USE DEF Distinct, Lacks
<1>1. t \in Seq(S) /\ Len(t) = Len(s) - 1 /\ Len(s) \in Nat
      /\ \A j \in 1..Len(s) - 1 : t[j] = IF j < i THEN s[j] ELSE s[j + 1]
  BY RemoveAtEntries
<1>. HIDE DEF t
<1>2. ASSUME NEW j \in 1..Len(t)
      PROVE  t[j] # s[i] /\ \E k \in 1..Len(s) : t[j] = s[k]
  <2>1. CASE j < i
    BY <1>1, <2>1
  <2>2. CASE ~(j < i)
    <3>1. t[j] = s[j + 1] /\ j + 1 \in 1..Len(s) /\ j + 1 # i
      BY <1>1, <2>2
    <3>. QED  BY <3>1
  <2>. QED  BY <2>1, <2>2
<1>3. ASSUME NEW j \in 1..Len(t), NEW k \in 1..Len(t), t[j] = t[k]
      PROVE  j = k
  <2>1. PICK m \in {j, j + 1} : m = (IF j < i THEN j ELSE j + 1) /\ t[j] = s[m]
    BY <1>1
  <2>2. PICK n \in {k, k + 1} : n = (IF k < i THEN k ELSE k + 1) /\ t[k] = s[n]
    BY <1>1
  <2>3. m \in 1..Len(s) /\ n \in 1..Len(s)
    BY <1>1, <2>1, <2>2
  <2>4. m = n
    BY <1>3, <2>1, <2>2, <2>3
  <2>. QED  BY <1>1, <2>1, <2>2, <2>4
<1>. QED  BY <1>1, <1>2, <1>3 DEF t
-----------------------------------------------------------------------------
(* Steps that leave the connections and their list as they are.            *)
RunThread == OpenStep \/ RunEnter \/ LoopCheck \/ GetItem \/ GetEmpty \/ HandlerReturns
             \/ HandlerRaises \/ Shutdown \/ ServerClose \/ Start

(* What leaves the list and the connections alone. *)
LEMMA RunFrame ==
    RunThread \/ StopCall \/ StopReturn \/ StopWithin \/ SendStep
    \/ (\E to \in Addresses : SendCall(to)) => UNCHANGED <<transports, connection>>
BY DEF RunThread, OpenStep, OpenFails, OpenListen, OpenAnnounce, RunEnter, LoopCheck, GetItem,
       GetEmpty, HandlerReturns, HandlerRaises, Shutdown, ServerClose, Start, StopCall, StopReturn,
       StopWithin, SendStep, SendNext, SendRaises, SendReturns, SendCall, connection

(* The threads of the connections leave the server alone.                  *)
LEMMA ConnectionFrame ==
    ASSUME NEW c \in Connections, ConnectionStep(c) \/ Accept(c) \/ Disconnect(c)
    PROVE  UNCHANGED <<announcer, server, sending>>
BY DEF ConnectionStep, Accept, Disconnect, AddTransport, AddCheck, AddStart, HandleCheck,
       ReceiveData, ReceiveNothing, ReceiveClosed, Finish

(* The list is changed by the threads that are in it, on their way in and  *)
(* out.                                                                    *)
LEMMA MuxStep == TypeOK /\ MuxInv /\ [Next]_vars => MuxInv'
<1>. SUFFICES ASSUME TypeOK, MuxInv, [Next]_vars PROVE MuxInv'
  OBVIOUS
<1>1. CASE UNCHANGED <<transports, cpc>>
  BY <1>1 DEF MuxInv
<1>2. ASSUME NEW c \in Connections, Accept(c) \/ ConnectionStep(c) PROVE MuxInv'
  <2>1. CASE AddTransport(c)
    <3>1. transports' = Append(transports, c) /\ cpc[c] = "setup"
          /\ cpc' = [cpc EXCEPT ![c] = "check"]
      BY <2>1 DEF AddTransport, Step
    <3>2. \A i \in 1..Len(transports) : transports[i] # c
      BY <3>1 DEF MuxInv, Registered
    <3>. QED  BY <3>1, <3>2 DEF MuxInv, Registered, TypeOK
  <2>2. CASE Finish(c)
    <3>1. PICK i \in 1..Len(transports) :
             transports[i] = c /\ transports' = RemoveAt(transports, i)
      BY <2>2 DEF Finish, TypeOK
    <3>4. transports \in Seq(Connections) /\ Distinct(transports)
      BY DEF MuxInv, TypeOK, Distinct
    <3>5. Lacks(transports', transports, i) /\ Distinct(transports')
      BY <3>1, <3>4, RemoveAtDistinct
    <3>2. /\ \A j \in 1..Len(transports') : transports'[j] # c
                  /\ \E k \in 1..Len(transports) : transports'[j] = transports[k]
          /\ \A j, k \in 1..Len(transports') : transports'[j] = transports'[k] => j = k
      BY <3>1, <3>5 DEF Lacks, Distinct
    <3>3. \A d \in Connections \ {c} : cpc'[d] = cpc[d]
      BY <2>2 DEF Finish, Step, TypeOK
    <3>. QED  BY <3>2, <3>3 DEF MuxInv, TypeOK
  <2>3. CASE Accept(c)
    <3>1. cpc[c] = "away" /\ cpc' = [cpc EXCEPT ![c] = "setup"] /\ transports' = transports
      BY <2>3 DEF Accept, Step
    <3>. QED  BY <3>1 DEF MuxInv, Registered, TypeOK
  <2>4. CASE AddCheck(c) \/ AddStart(c) \/ HandleCheck(c) \/ ReceiveData(c)
             \/ ReceiveNothing(c) \/ ReceiveClosed(c)
    <3>1. transports' = transports /\ \E to \in Registered : cpc' = [cpc EXCEPT ![c] = to]
      BY <2>4 DEF AddCheck, AddStart, HandleCheck, ReceiveData, ReceiveNothing, ReceiveClosed,
                  Step, Registered
    <3>. QED  BY <3>1 DEF MuxInv, TypeOK
  <2>. QED  BY <1>2, <2>1, <2>2, <2>3, <2>4 DEF ConnectionStep
<1>3. CASE StopTransport \/ \E c \in Connections : Disconnect(c)
  BY <1>1, <1>3 DEF StopTransport, Disconnect
<1>. QED  BY <1>1, <1>2, <1>3, RunFrame DEF Next, RunStep, RunThread, vars, connection
-----------------------------------------------------------------------------
(* The types at the start, ... *)
LEMMA InitType == Init => TypeOK
<1>. SUFFICES ASSUME Init PROVE TypeOK
  OBVIOUS
<1>1. transports \in Seq(Connections) /\ in_queue \in Seq(Connections)
      /\ meant \in Seq(Connections) /\ Len(in_queue) <= MaxPending
  BY EmptySeq, TcpServerAssumption DEF Init
<1>2. cpc \in [Connections -> {"away", "setup", "check", "start", "loop", "receive",
                               "finish", "gone"}]
      /\ up \in [Connections -> BOOLEAN]
  BY DEF Init
<1>3. receivers \subseteq Connections /\ reached \subseteq receivers
  BY DEF Init
<1>4. running \in BOOLEAN /\ stopping \in BOOLEAN /\ listening \in BOOLEAN /\ rpc = "down"
      /\ announcer \in Announcers
  BY DEF Init
<1>5. at \in Nat \ {0} /\ pos \in Nat \ {0}
  BY DEF Init
<1>. QED  BY <1>1, <1>2, <1>3, <1>4, <1>5 DEF TypeOK

(* ... and with each step. *)
LEMMA TypeStep == TypeOK /\ [Next]_vars => TypeOK'
<1>. SUFFICES ASSUME TypeOK, [Next]_vars PROVE TypeOK'
  OBVIOUS
<1>. USE DEF TypeOK, Goto, Step
<1>1. ASSUME Start \/ OpenStep \/ RunStep \/ StopCall \/ StopReturn \/ StopWithin PROVE TypeOK'
  <2>1. CASE Start \/ OpenStep
    <3>1. rpc' \in {"down", "opening", "announcing", "entering", "crashed"}
          /\ listening' \in BOOLEAN
      BY <2>1 DEF Start, OpenStep, OpenFails, OpenListen, OpenAnnounce
    <3>2. UNCHANGED <<announcer, running, at, stopping, transports, in_queue, connection, sending>>
      BY <2>1 DEF Start, OpenStep, OpenFails, OpenListen, OpenAnnounce
    <3>. QED  BY <3>1, <3>2 DEF connection, sending
  <2>2. CASE RunEnter \/ LoopCheck \/ GetEmpty \/ HandlerReturns \/ HandlerRaises \/ Shutdown
             \/ ServerClose
    <3>1. rpc' \in {"loop", "get", "stopping", "crashed", "closing", "down"}
          /\ running' \in BOOLEAN /\ listening' \in BOOLEAN
      BY <2>2 DEF RunEnter, LoopCheck, GetEmpty, HandlerReturns, HandlerRaises, Shutdown,
                  ServerClose
    <3>2. UNCHANGED <<announcer, stopping, transports, in_queue, connection, sending>>
      BY <2>2 DEF RunEnter, LoopCheck, GetEmpty, HandlerReturns, HandlerRaises, Shutdown,
                  ServerClose
    <3>3. at' \in Nat \ {0}
      BY <2>2 DEF RunEnter, LoopCheck, GetEmpty, HandlerReturns, HandlerRaises, Shutdown,
                  ServerClose
    <3>. QED  BY <3>1, <3>2, <3>3 DEF connection, sending
  <2>3. CASE GetItem
    <3>1. in_queue' \in Seq(Connections) /\ Len(in_queue') <= MaxPending
      BY <2>3, TcpServerAssumption, HeadTailProperties DEF GetItem
    <3>. QED  BY <2>3, <3>1 DEF GetItem, connection, sending
  <2>4. CASE StopTransport
    BY <2>4 DEF StopTransport, sending
  <2>5. CASE StopCall \/ StopReturn \/ StopWithin
    BY <2>5 DEF StopCall, StopReturn, StopWithin, connection, sending
  <2>. QED  BY <1>1, <2>1, <2>2, <2>3, <2>4, <2>5 DEF RunStep
<1>2. ASSUME NEW c \in Connections, Accept(c) \/ ConnectionStep(c) \/ Disconnect(c)
      PROVE  TypeOK'
  <2>1. transports' \in Seq(Connections)
    <3>1. CASE Finish(c)
      <4>1. PICK i \in 1..Len(transports) : transports' = RemoveAt(transports, i)
        BY <3>1 DEF Finish
      <4>. QED  BY <4>1, RemoveAtEntries
    <3>2. CASE AddTransport(c)
      BY <3>2 DEF AddTransport
    <3>3. CASE ~Finish(c) /\ ~AddTransport(c)
      BY <1>2, <3>3 DEF ConnectionStep, Accept, Disconnect, AddCheck, AddStart, HandleCheck,
         ReceiveData, ReceiveNothing, ReceiveClosed
    <3>. QED  BY <3>1, <3>2, <3>3
  <2>2. in_queue' \in Seq(Connections) /\ Len(in_queue') <= MaxPending
    <3>1. CASE ReceiveData(c)
      BY <3>1, TcpServerAssumption DEF ReceiveData
    <3>2. CASE ~ReceiveData(c)
      BY <1>2, <3>2 DEF ConnectionStep, Accept, Disconnect, AddTransport, AddCheck, AddStart,
         HandleCheck, ReceiveNothing, ReceiveClosed, Finish
    <3>. QED  BY <3>1, <3>2
  <2>3. cpc' \in [Connections -> {"away", "setup", "check", "start", "loop", "receive",
                                  "finish", "gone"}]
    BY <1>2 DEF ConnectionStep, Accept, Disconnect, AddTransport, AddCheck, AddStart, HandleCheck,
       ReceiveData, ReceiveNothing, ReceiveClosed, Finish
  <2>4. up' \in [Connections -> BOOLEAN]
    BY <1>2 DEF ConnectionStep, Accept, Disconnect, AddTransport, AddCheck, AddStart, HandleCheck,
       ReceiveData, ReceiveNothing, ReceiveClosed, Finish
  <2>. QED  BY <1>2, <2>1, <2>2, <2>3, <2>4, ConnectionFrame DEF server, sending
<1>3. ASSUME NEW to \in Addresses, SendCall(to) PROVE TypeOK'
  BY <1>3, TcpServerAssumption DEF SendCall, server, connection
<1>4. ASSUME SendStep PROVE TypeOK'
  <2>1. CASE SendNext
    <3>1. reached' \subseteq receivers /\ pos' \in Nat \ {0} /\ receivers' = receivers
      BY <2>1 DEF SendNext
    <3>. QED  BY <2>1, <3>1 DEF SendNext, server, connection
  <2>2. CASE SendRaises \/ SendReturns
    <3>1. receivers' = {} /\ pos' = 1 /\ meant' = <<>> /\ reached' = {}
      BY <2>2 DEF SendRaises, SendReturns, SendOver
    <3>2. UNCHANGED <<announcer, server, transports, in_queue, connection>>
      BY <2>2 DEF SendRaises, SendReturns
    <3>. QED  BY <3>1, <3>2, EmptySeq DEF server, connection
  <2>. QED  BY <1>4, <2>1, <2>2 DEF SendStep
<1>5. CASE UNCHANGED vars
  BY <1>5 DEF vars, server, connection, sending
<1>. QED  BY <1>1, <1>2, <1>3, <1>4, <1>5 DEF Next

(* Who listens, and who is left after server_close. *)
LEMMA QuietStep == TypeOK /\ QuietInv /\ [Next]_vars => QuietInv'
<1>. SUFFICES ASSUME TypeOK, QuietInv, [Next]_vars PROVE QuietInv'
  OBVIOUS
<1>1. CASE UNCHANGED <<rpc, listening, cpc>>
  BY <1>1 DEF QuietInv, Served
<1>2. ASSUME NEW c \in Connections, Accept(c) \/ ConnectionStep(c) PROVE QuietInv'
  <2>1. UNCHANGED <<rpc, listening>>
    BY <1>2, ConnectionFrame DEF server
  <2>2. listening \/ cpc[c] \notin {"away", "gone"}
    BY <1>2 DEF Accept, ConnectionStep, AddTransport, AddCheck, AddStart, HandleCheck,
       ReceiveData, ReceiveNothing, ReceiveClosed, Finish, Step
  <2>3. c \in Served \/ listening
    BY <2>2 DEF Served
  <2>. QED  BY <2>1, <2>3 DEF QuietInv
<1>3. CASE OpenStep \/ RunStep \/ Start
  <2>1. CASE Start \/ OpenFails \/ ServerClose \/ Shutdown
    BY <2>1 DEF Start, OpenFails, ServerClose, Shutdown, QuietInv, Goto, Served, connection
  <2>2. CASE ~(Start \/ OpenFails \/ ServerClose \/ Shutdown)
    <3>1. rpc' \notin {"closing", "down", "opening"} \/ UNCHANGED <<rpc, listening, cpc>>
      BY <1>3, <2>2 DEF OpenStep, RunStep, OpenListen, OpenAnnounce, RunEnter, LoopCheck, GetItem,
         GetEmpty, HandlerReturns, HandlerRaises, StopTransport, Goto
    <3>. QED  BY <3>1, <1>1 DEF QuietInv
  <2>. QED  BY <2>1, <2>2
<1>4. CASE StopCall \/ StopReturn \/ StopWithin \/ SendStep
           \/ (\E c \in Connections : Disconnect(c)) \/ \E to \in Addresses : SendCall(to)
  BY <1>1, <1>4 DEF StopCall, StopReturn, StopWithin, SendStep, SendNext, SendRaises, SendReturns,
     Disconnect, SendCall, server, connection
<1>. QED  BY <1>1, <1>2, <1>3, <1>4 DEF Next, vars, server, connection
(* The loop of send() passes no entry that is still to be reached: entries *)
(* before it only move to the front.                                       *)
LEMMA SendInvStep == TypeOK /\ MuxInv /\ SendInv /\ [Next]_vars => SendInv'
<1>. SUFFICES ASSUME TypeOK, MuxInv, SendInv, [Next]_vars PROVE SendInv'
  OBVIOUS
<1>1. ASSUME UNCHANGED <<transports, sending>>,
             \A d \in Connections : cpc[d] \notin {"away", "setup"}
                                       => cpc'[d] \notin {"away", "setup"}
      PROVE  SendInv'
  <2>1. \A i \in 1..Len(meant) : meant[i] \in Connections
    BY DEF TypeOK
  <2>. QED  BY <1>1, <2>1 DEF SendInv, Intact, sending
<1>2. ASSUME NEW c \in Connections, Accept(c) \/ ConnectionStep(c) PROVE SendInv'
  <2>1. UNCHANGED sending
    BY <1>2, ConnectionFrame
  <2>2. \A d \in Connections : cpc[d] \notin {"away", "setup"}
                                  => cpc'[d] \notin {"away", "setup"}
    BY <1>2 DEF Accept, ConnectionStep, AddTransport, AddCheck, AddStart, HandleCheck,
       ReceiveData, ReceiveNothing, ReceiveClosed, Finish, Step, TypeOK
  <2>3. \A i \in 1..Len(meant) : cpc'[meant[i]] \notin {"away", "setup"}
    BY <2>2 DEF SendInv, TypeOK
  <2>4. CASE AddTransport(c)
    <3>1. transports' = Append(transports, c) /\ cpc[c] = "setup"
      BY <2>4 DEF AddTransport, Step
    <3>2. \A i \in 1..Len(meant) : meant[i] # c
      BY <3>1 DEF SendInv
    <3>3. /\ Len(transports') = Len(transports) + 1 /\ Len(transports) \in Nat
          /\ transports'[Len(transports) + 1] = c
          /\ \A k \in 1..Len(transports) : transports'[k] = transports[k]
      BY <3>1 DEF TypeOK
    <3>4. \A i \in 1..Len(meant) : Intact(i)' => Intact(i)
      <4>. SUFFICES ASSUME NEW i \in 1..Len(meant), Intact(i)', NEW j \in 1..i
                    PROVE  \E k \in 1..Len(transports) : transports[k] = meant[j]
        BY DEF Intact
      <4>1. PICK k \in 1..Len(transports') : transports'[k] = meant[j]
        BY <2>1 DEF Intact, sending
      <4>2. j \in 1..Len(meant)
        BY DEF TypeOK
      <4>3. k # Len(transports) + 1
        BY <4>1, <4>2, <3>2, <3>3
      <4>. QED  BY <4>1, <4>3, <3>3
    <3>5. \A i \in 1..Len(meant) : i <= Len(transports) =>
             i <= Len(transports') /\ transports'[i] = transports[i]
      BY <3>3 DEF TypeOK
    <3>. QED  BY <2>1, <2>3, <3>4, <3>5 DEF SendInv, sending
  <2>5. CASE Finish(c)
    <3>1. PICK n \in 1..Len(transports) :
             transports[n] = c /\ transports' = RemoveAt(transports, n)
      BY <2>5 DEF Finish, TypeOK
    <3>2. transports \in Seq(Connections) /\ Distinct(transports)
      BY DEF MuxInv, TypeOK, Distinct
    <3>3. /\ Len(transports') = Len(transports) - 1 /\ Len(transports) \in Nat
          /\ \A k \in 1..Len(transports) - 1 :
                transports'[k] = IF k < n THEN transports[k] ELSE transports[k + 1]
      <4>1. transports \in Seq(Connections) /\ Len(transports) \in Nat
        BY DEF TypeOK
      <4>2. /\ Len(RemoveAt(transports, n)) = Len(transports) - 1
            /\ \A k \in 1..Len(transports) - 1 :
                  RemoveAt(transports, n)[k] = IF k < n THEN transports[k] ELSE transports[k + 1]
        BY <4>1, RemoveAtEntries
      <4>. QED  BY <3>1, <4>1, <4>2
    <3>4. \A k \in 1..Len(transports') : transports'[k] # c
                /\ \E l \in 1..Len(transports) : transports'[k] = transports[l]
      <4>1. Lacks(transports', transports, n)
        BY <3>1, <3>2, RemoveAtDistinct
      <4>. QED  BY <3>1, <4>1 DEF Lacks
    <3>5. ASSUME NEW i \in 1..Len(meant), Intact(i)'
          PROVE  /\ Intact(i) /\ n > i
                 /\ i <= Len(transports') /\ transports'[i] = transports[i]
      <4>1. \A j \in 1..i : \E k \in 1..Len(transports') : transports'[k] = meant[j]
        BY <2>1, <3>5 DEF Intact, sending
      <4>2. \A j \in 1..i : meant[j] # c /\ \E k \in 1..Len(transports) : transports[k] = meant[j]
        BY <4>1, <3>4
      <4>3. \A j \in 1..i : j \in 1..Len(meant) /\ Intact(j)
        <5>. SUFFICES ASSUME NEW j \in 1..i PROVE j \in 1..Len(meant) /\ Intact(j)
          OBVIOUS
        <5>1. Len(meant) \in Nat /\ \A l \in 1..j : l \in 1..i
          BY DEF TypeOK
        <5>. QED  BY <4>2, <5>1 DEF Intact
      <4>4. \A j \in 1..i : j <= Len(transports) /\ transports[j] = meant[j]
        BY <4>3 DEF SendInv
      <4>5. n > i
        BY <4>2, <4>4, <3>1
      <4>6. i \in 1..i /\ i <= Len(transports) - 1
        BY <4>5, <3>3
      <4>. QED  BY <4>3, <4>5, <4>6, <3>3
    <3>6. ASSUME NEW i \in 1..Len(meant), Intact(i)'
          PROVE  /\ i <= Len(transports') /\ transports'[i] = meant[i]
                 /\ i < pos /\ meant[i] \in receivers => meant[i] \in reached
      BY <3>5, <3>6 DEF SendInv
    <3>. QED  BY <2>1, <2>3, <3>6 DEF SendInv, sending
  <2>6. CASE ~AddTransport(c) /\ ~Finish(c)
    <3>1. UNCHANGED transports
      BY <1>2, <2>6 DEF Accept, ConnectionStep, AddCheck, AddStart, HandleCheck, ReceiveData,
         ReceiveNothing, ReceiveClosed
    <3>. QED  BY <1>1, <2>1, <2>2, <3>1
  <2>. QED  BY <2>4, <2>5, <2>6
<1>3. ASSUME NEW to \in Addresses, SendCall(to) PROVE SendInv'
  <2>1. meant' = transports /\ transports' = transports /\ cpc' = cpc /\ pos' = 1
    BY <1>3 DEF SendCall, connection
  <2>2. \A i \in 1..Len(transports) : cpc[transports[i]] \notin {"away", "setup"}
    BY DEF MuxInv, Registered
  <2>3. Len(transports) \in Nat /\ \A i \in 1..Len(transports) : i <= Len(transports) /\ ~(i < 1)
    BY DEF TypeOK
  <2>4. SendInv' = /\ \A i \in 1..Len(meant') : cpc'[meant'[i]] \notin {"away", "setup"}
                   /\ \A i \in 1..Len(meant') : Intact(i)' =>
                         /\ i <= Len(transports') /\ transports'[i] = meant'[i]
                         /\ i < pos' /\ meant'[i] \in receivers' => meant'[i] \in reached'
    BY DEF SendInv
  <2>. QED  BY <2>1, <2>2, <2>3, <2>4
<1>4. CASE SendNext
  <2>1. /\ UNCHANGED <<transports, cpc, meant, receivers>> /\ pos' = pos + 1
        /\ reached \subseteq reached'
        /\ transports[pos] \in receivers => transports[pos] \in reached'
    BY <1>4 DEF SendNext, connection
  <2>2. ASSUME NEW i \in 1..Len(meant), Intact(i)
        PROVE  /\ i <= Len(transports) /\ transports[i] = meant[i]
               /\ i < pos + 1 /\ meant[i] \in receivers => meant[i] \in reached'
    <3>1. i < pos + 1 => i < pos \/ i = pos
      BY DEF TypeOK
    <3>. QED  BY <2>1, <2>2, <3>1 DEF SendInv
  <2>3. \A i \in 1..Len(meant) : Intact(i)' <=> Intact(i)
    BY <2>1 DEF Intact
  <2>4. \A i \in 1..Len(meant) : cpc[meant[i]] \notin {"away", "setup"}
    BY DEF SendInv
  <2>5. SendInv' = /\ \A i \in 1..Len(meant') : cpc'[meant'[i]] \notin {"away", "setup"}
                   /\ \A i \in 1..Len(meant') : Intact(i)' =>
                         /\ i <= Len(transports') /\ transports'[i] = meant'[i]
                         /\ i < pos' /\ meant'[i] \in receivers' => meant'[i] \in reached'
    BY DEF SendInv
  <2>. QED  BY <2>1, <2>2, <2>3, <2>4, <2>5
<1>5. CASE SendRaises \/ SendReturns
  <2>1. meant' = <<>>
    BY <1>5 DEF SendRaises, SendReturns, SendOver
  <2>. QED  BY <2>1 DEF SendInv
<1>6. CASE UNCHANGED <<transports, cpc, sending>>
  BY <1>1, <1>6
<1>7. CASE Start \/ OpenStep \/ RunStep \/ StopCall \/ StopReturn \/ StopWithin
           \/ \E c \in Connections : Disconnect(c)
  <2>1. UNCHANGED sending
    BY <1>7 DEF Start, OpenStep, OpenFails, OpenListen, OpenAnnounce, RunStep, RunEnter,
       LoopCheck, GetItem, GetEmpty, HandlerReturns, HandlerRaises, StopTransport, Shutdown,
       ServerClose, StopCall, StopReturn, StopWithin, Disconnect
  <2>2. UNCHANGED <<transports, cpc>>
    BY <1>7, RunFrame DEF RunStep, RunThread, connection, StopTransport, Disconnect
  <2>. QED  BY <1>6, <2>1, <2>2
<1>. QED  BY <1>2, <1>3, <1>4, <1>5, <1>6, <1>7 DEF Next, SendStep, vars, connection
-----------------------------------------------------------------------------
(* The values of the variables are of their types, and send() never        *)
(* reaches a connection it is not addressed to.                            *)
THEOREM TypeCorrect == Spec => []TypeOK
<1>. QED  BY InitType, TypeStep, PTL DEF Spec

(* The inductive invariant. *)
LEMMA Inductive == Spec => []IInv
<1>1. Init => IInv
  <2>2. Init => MuxInv /\ QuietInv /\ SendInv
    BY DEF Init, MuxInv, QuietInv, SendInv, Served
  <2>. QED  BY InitType, <2>2 DEF IInv
<1>2. IInv /\ [Next]_vars => IInv'
  BY TypeStep, MuxStep, QuietStep, SendInvStep DEF IInv
<1>. QED  BY <1>1, <1>2, PTL DEF Spec

(* A server that is down has neither a listener, nor the thread of a       *)
(* connection, nor an entry in the mux left over (transports.py:384-386    *)
(* and network_transports.py:206-213).                                     *)
THEOREM DownClean == Spec => []DownIsClean
<1>1. IInv => DownIsClean
  <2>. SUFFICES ASSUME IInv, rpc \in {"down", "opening"}
                PROVE  ~listening /\ Served = {} /\ transports = <<>>
    BY DEF DownIsClean
  <2>1. ~listening /\ Served = {}
    BY DEF IInv, QuietInv
  <2>2. transports \in Seq(Connections)
    BY DEF IInv, TypeOK
  <2>3. \A i \in 1..Len(transports) : FALSE
    <3>. SUFFICES ASSUME NEW i \in 1..Len(transports) PROVE FALSE
      OBVIOUS
    <3>1. transports[i] \in Connections /\ cpc[transports[i]] \in Registered
      BY <2>2 DEF IInv, MuxInv
    <3>. QED  BY <3>1, <2>1 DEF Served, Registered
  <2>. QED  BY <2>1, <2>2, <2>3
<1>. QED  BY <1>1, Inductive, PTL

(* A send() that returns has reached every connection it was meant for,    *)
(* but for those that left and those behind them (transports.py:299-302).  *)
THEOREM SendCorrect == Spec => []SendReaches
<1>1. IInv => SendReaches
  <2>. SUFFICES ASSUME IInv, pos > Len(transports), NEW i \in DOMAIN meant,
                       meant[i] \in receivers,
                       \A j \in 1..i : Contains(transports, meant[j])
                PROVE  meant[i] \in reached
    BY DEF SendReaches
  <2>1. i \in 1..Len(meant) /\ Len(transports) \in Nat
    BY DEF IInv, TypeOK
  <2>2. Intact(i)
    BY DEF Intact, Contains
  <2>3. i <= Len(transports) /\ (i < pos => meant[i] \in reached)
    BY <2>1, <2>2 DEF IInv, SendInv
  <2>. QED  BY <2>1, <2>3 DEF IInv, TypeOK
<1>. QED  BY <1>1, Inductive, PTL
=============================================================================
