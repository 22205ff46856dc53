--------------------------------- MODULE Bus ---------------------------------
(***************************************************************************)
(* The internal bus (quickrpc/bus_transport.py): one Bus, the              *)
(* InternalTransports that connect to it, each with the bounded queue that *)
(* its receiver thread reads, and application threads that send, stop      *)
(* transports and kill the bus.  A message handler runs on the receiver    *)
(* thread and may send, or stop its transport, as well.  If it raises, the *)
(* thread dies and its peer stays in the list, without a reader.           *)
(*                                                                         *)
(* A peer stands for its transport, its name and its receiver thread.  Of  *)
(* the base class, start() and stop() are taken as Transport.tla shows     *)
(* them to work for careful clients: nobody starts or stops a transport    *)
(* while somebody else is starting or stopping it, kill() included.        *)
(***************************************************************************)
EXTENDS Naturals, Sequences, SequencesExt, FiniteSets

CONSTANTS Peers,      \* the transports
          Clients,    \* application threads
          Messages,   \* what is sent, each message once
          Addresses,  \* the receivers= in use: sets of peers, {} if not given
          Repliers,   \* the peers whose handler sends messages
          Raisers,    \* the peers whose handler may raise
          Uses,       \* what else is done: "stop", "stop_within" a handler, "kill"
          QueueSize,  \* queue_size
          MaxStarts,  \* bound: starts of transports
          StopSignal, \* the sentinel that stop() puts into the queue
          None        \* nobody, nothing

Threads == Clients \union Peers

ASSUME BusAssumption ==
    /\ Clients \intersect Peers = {}
    /\ Addresses \subseteq SUBSET Peers
    /\ Repliers \subseteq Peers /\ Raisers \subseteq Peers
    /\ Uses \subseteq {"stop", "stop_within", "kill"}
    /\ QueueSize \in Nat \ {0} /\ MaxStarts \in Nat
    /\ None \notin Threads /\ None \notin Messages
    /\ StopSignal \notin Messages

VARIABLES peers,    \* Bus.peers
          lock,     \* the thread that holds _peer_lock, or None
          queue,    \* peer -> _queue
          running,  \* peer -> running
          bus,      \* peer -> has it a bus?
          rpc,      \* peer -> where its receiver thread is
          starts,   \* number of starts so far
          tpc,      \* thread -> next step of its send(), stop() or kill()
          at,       \* thread -> the transport it uses
          msg,      \* thread -> the message it sends
          to,       \* thread -> the receivers it sends to
          pos,      \* thread -> position of its loop over peers
          sent,     \* history: the messages that found their receivers known
          indata,   \* peer -> the message its handler is given
          victims   \* history: the peers that kill(), called once, found connected

receiving == <<rpc, starts, indata>>
using == <<tpc, at, msg, to, pos>>
vars == <<peers, lock, queue, running, bus, receiving, using, sent, victims>>

Names == ToSet(peers)
Connected == {"entering", "loop", "get", "handler", "leaving"}

Init ==
    /\ peers = <<>> /\ lock = None
    /\ queue = [p \in Peers |-> <<>>]
    /\ running = [p \in Peers |-> FALSE]
    /\ bus = [p \in Peers |-> TRUE]
    /\ rpc = [p \in Peers |-> "down"]
    /\ starts = 0
    /\ tpc = [t \in Threads |-> "idle"]
    /\ at = [t \in Threads |-> None]
    /\ msg = [t \in Threads |-> None]
    /\ to = [t \in Threads |-> {}]
    /\ pos = [t \in Threads |-> 0]
    /\ sent = {}
    /\ indata = [p \in Peers |-> None]
    /\ victims = {}

Full(p) == Len(queue[p]) >= QueueSize

(* A bug for the properties to catch: the queue has no limit.              *)
PutUnlimited(p, x) == queue' = [queue EXCEPT ![p] = Append(@, x)]

(* put() blocks while the queue is full. *)
Put(p, x) == ~Full(p) /\ queue' = [queue EXCEPT ![p] = Append(@, x)]

Goto(p, from, place) == rpc[p] = from /\ rpc' = [rpc EXCEPT ![p] = place]
Step(t, from, next) == tpc[t] = from /\ tpc' = [tpc EXCEPT ![t] = next]

InStop == {"sentinel", "signal", "join"}
Stopping(p) == \E t \in Threads : tpc[t] \in InStop /\ at[t] = p

(* The call returns, and its locals are gone. *)
Return(t, from) ==
    /\ Step(t, from, "idle")
    /\ at' = [at EXCEPT ![t] = None]
    /\ msg' = [msg EXCEPT ![t] = None]
    /\ to' = [to EXCEPT ![t] = {}]
    /\ pos' = [pos EXCEPT ![t] = 0]

(* Where pos is in use outside of send(), it is the loop of kill().        *)
Killing == \E t \in Threads : pos[t] > 0 /\ tpc[t] # "put"
-----------------------------------------------------------------------------
(* The receiver thread                                                     *)

(* Whose message is for the full queue of p may or may not wait in put().  *)
Aims(t, p) == /\ tpc[t] = "put" /\ pos[t] <= Len(peers)
              /\ peers[pos[t]] = p /\ p \in to[t]
MayWait(p) == {t \in Threads : Aims(t, p) /\ Full(p)}

(* start() and the first lines of open(): a new queue.  A peer whose       *)
(* thread died is still in the list; who waits for a place in its old      *)
(* queue then does so for ever.                                            *)
Start(p) ==
    /\ Goto(p, "down", "opening") /\ starts < MaxStarts /\ ~Stopping(p)
    /\ p \in Names => ~Killing
    /\ starts' = starts + 1
    /\ queue' = [queue EXCEPT ![p] = <<>>]
    /\ \E waiting \in SUBSET MayWait(p) :
          tpc' = [t \in Threads |-> IF t \in waiting THEN "stuck" ELSE tpc[t]]
    /\ UNCHANGED <<peers, lock, running, bus, indata, at, msg, to, pos, sent, victims>>

(* IOError: Bus is not set. *)
OpenFails(p) ==
    /\ ~bus[p] /\ Goto(p, "opening", "down")
    /\ UNCHANGED <<peers, lock, queue, running, bus, starts, indata, using, sent, victims>>

(* bus.add_peer. *)
Connect(p) ==
    /\ bus[p] /\ Goto(p, "opening", "entering") /\ lock = None
    /\ peers' = Append(peers, p)
    /\ UNCHANGED <<lock, queue, running, bus, starts, indata, using, sent, victims>>

(* run(): `self.running = True`, maybe after stop() has cleared it. *)
RunEnter(p) ==
    /\ Goto(p, "entering", "loop")
    /\ running' = [running EXCEPT ![p] = TRUE]
    /\ UNCHANGED <<peers, lock, queue, bus, starts, indata, using, sent, victims>>

LoopCheck(p) ==
    /\ Goto(p, "loop", IF running[p] THEN "get" ELSE "leaving")
    /\ UNCHANGED <<peers, lock, queue, running, bus, starts, indata, using, sent, victims>>

GetStop(p) ==
    /\ queue[p] # <<>> /\ Head(queue[p]) = StopSignal
    /\ Goto(p, "get", "leaving")
    /\ queue' = [queue EXCEPT ![p] = Tail(@)]
    /\ UNCHANGED <<peers, lock, running, bus, starts, indata, using, sent, victims>>

GetMessage(p) ==
    /\ queue[p] # <<>> /\ Head(queue[p]) # StopSignal
    /\ Goto(p, "get", "handler")
    /\ queue' = [queue EXCEPT ![p] = Tail(@)]
    /\ indata' = [indata EXCEPT ![p] = Head(queue[p])]
    /\ UNCHANGED <<peers, lock, running, bus, starts, using, sent, victims>>

(* Nothing for 30 seconds: look at running again. *)
GetEmpty(p) ==
    /\ queue[p] = <<>> /\ Goto(p, "get", "loop")
    /\ UNCHANGED <<peers, lock, queue, running, bus, starts, indata, using, sent, victims>>

HandlerReturns(p) ==
    /\ tpc[p] = "idle" /\ Goto(p, "handler", "loop")
    /\ indata' = [indata EXCEPT ![p] = None]
    /\ UNCHANGED <<peers, lock, queue, running, bus, starts, using, sent, victims>>

(* received() raises out of run(), which does not get to remove_peer.      *)
HandlerRaises(p) ==
    /\ p \in Raisers
    /\ tpc[p] = "idle" /\ Goto(p, "handler", "exiting")
    /\ indata' = [indata EXCEPT ![p] = None]
    /\ UNCHANGED <<peers, lock, queue, running, bus, starts, using, sent, victims>>

(* bus.remove_peer, the first entry; what is still in the queue is never   *)
(* read.                                                                   *)
Leave(p) ==
    /\ lock = None /\ Goto(p, "leaving", "exiting")
    /\ \E k \in DOMAIN peers :
          /\ peers[k] = p /\ \A j \in 1 .. k - 1 : peers[j] # p
          /\ peers' = RemoveAt(peers, k)
    /\ UNCHANGED <<lock, queue, running, bus, starts, indata, using, sent, victims>>

(* starter(): `finally: self.running = False`. *)
Exit(p) ==
    /\ Goto(p, "exiting", "down")
    /\ running' = [running EXCEPT ![p] = FALSE]
    /\ UNCHANGED <<peers, lock, queue, bus, starts, indata, using, sent, victims>>
-----------------------------------------------------------------------------
(* send(data, receivers)                                                   *)

(* Anybody may use a transport; a handler uses its own. *)
MaySend(t, p) == t \in Peers => t = p /\ p \in Repliers /\ rpc[p] = "handler"

(* InternalTransport.send; without a bus, or not running, it is an IOError. *)
SendCall(t, p, m, a) ==
    /\ MaySend(t, p) /\ Step(t, "idle", "send")
    /\ bus[p] /\ running[p]
    /\ m \notin sent /\ \A u \in Threads : tpc[u] = "send" => msg[u] # m
    /\ at' = [at EXCEPT ![t] = p]
    /\ msg' = [msg EXCEPT ![t] = m]
    /\ to' = [to EXCEPT ![t] = a]
    /\ UNCHANGED <<peers, lock, queue, running, bus, receiving, pos, sent, victims>>

(* IOError, unknown receiver; or AttributeError, the bus was killed since. *)
SendFails(t) ==
    /\ Return(t, "send")
    /\ ~bus[at[t]] \/ (lock = None /\ ~(to[t] \subseteq Names))
    /\ UNCHANGED <<peers, lock, queue, running, bus, receiving, sent, victims>>

(* A bug for the properties to catch: Bus.send distributes without lock.   *)
SendBeginUnlocked(t) ==
    /\ Step(t, "send", "put")
    /\ bus[at[t]] /\ to[t] \subseteq Names
    /\ to' = [to EXCEPT ![t] = IF @ = {} THEN Names \ {at[t]} ELSE @]
    /\ pos' = [pos EXCEPT ![t] = 1]
    /\ sent' = sent \union {msg[t]}
    /\ UNCHANGED <<peers, lock, queue, running, bus, receiving, at, msg, victims>>

(* Bus.send: take the lock and see who is there. *)
SendBegin(t) ==
    /\ Step(t, "send", "put")
    /\ bus[at[t]] /\ lock = None /\ to[t] \subseteq Names
    /\ lock' = t
    /\ to' = [to EXCEPT ![t] = IF @ = {} THEN Names \ {at[t]} ELSE @]
    /\ pos' = [pos EXCEPT ![t] = 1]
    /\ sent' = sent \union {msg[t]}
    /\ UNCHANGED <<peers, queue, running, bus, receiving, at, msg, victims>>

(* One round of the loop over peers, the lock in hand. *)
SendPut(t) ==
    /\ tpc[t] = "put" /\ pos[t] <= Len(peers)
    /\ IF Aims(t, peers[pos[t]]) THEN Put(peers[pos[t]], msg[t]) ELSE UNCHANGED queue
    /\ pos' = [pos EXCEPT ![t] = @ + 1]
    /\ UNCHANGED <<peers, lock, running, bus, receiving, tpc, at, msg, to, sent, victims>>

SendEnd(t) ==
    /\ Return(t, "put") /\ pos[t] > Len(peers)
    /\ lock' = None
    /\ UNCHANGED <<peers, queue, running, bus, receiving, sent, victims>>
-----------------------------------------------------------------------------
(* stop(), and kill() which stops one peer after the other                 *)

(* From the outside, stop() is for who is in the list: connected, or dead. *)
StopCall(t, p) ==
    /\ t \in Peers => t = p /\ rpc[p] = "handler" /\ "stop_within" \in Uses
    /\ t \in Clients => p \in Names /\ rpc[p] # "opening" /\ "stop" \in Uses
    /\ ~Stopping(p) /\ ~Killing
    /\ Step(t, "idle", "sentinel")
    /\ at' = [at EXCEPT ![t] = p]
    /\ UNCHANGED <<peers, lock, queue, running, bus, receiving, msg, to, pos, sent, victims>>

(* A bug for the properties to catch: stop() relies on running alone.      *)
StopSentinelNot(t) ==
    /\ Step(t, "sentinel", "signal")
    /\ UNCHANGED <<peers, lock, queue, running, bus, receiving, at, msg, to, pos, sent, victims>>

(* `self._queue.put(_StopSignal)`. *)
StopSentinel(t) ==
    /\ Step(t, "sentinel", "signal")
    /\ Put(at[t], StopSignal)
    /\ UNCHANGED <<peers, lock, running, bus, receiving, at, msg, to, pos, sent, victims>>

(* stop() ends here, or goes on to be part of kill(). *)
StopEnds(t, from) == IF pos[t] = 0 THEN Return(t, from)
                     ELSE Step(t, from, "detach") /\ UNCHANGED <<at, msg, to, pos>>

(* Transport.stop: clear running and, from another thread, join. *)
StopSignalled(t) ==
    /\ tpc[t] = "signal"
    /\ running' = [running EXCEPT ![at[t]] = FALSE]
    /\ IF t = at[t] THEN StopEnds(t, "signal")
       ELSE Step(t, "signal", "join") /\ UNCHANGED <<at, msg, to, pos>>
    /\ UNCHANGED <<peers, lock, queue, bus, receiving, sent, victims>>

StopJoined(t) ==
    /\ tpc[t] = "join" /\ rpc[at[t]] = "down"
    /\ StopEnds(t, "join")
    /\ UNCHANGED <<peers, lock, queue, running, bus, receiving, sent, victims>>

KillCall(t) ==
    /\ "kill" \in Uses /\ t \in Clients /\ victims = {} /\ Names # {}
    /\ \A p \in Peers : ~Stopping(p) /\ (p \in Names => rpc[p] # "opening")
    /\ Step(t, "idle", "kill")
    /\ pos' = [pos EXCEPT ![t] = 1]
    /\ victims' = Names
    /\ UNCHANGED <<peers, lock, queue, running, bus, receiving, at, msg, to, sent>>

(* The iterator over peers goes by position, in the list as it is by now.  *)
KillNext(t) ==
    /\ tpc[t] = "kill" /\ pos[t] <= Len(peers)
    /\ Step(t, "kill", "sentinel")
    /\ at' = [at EXCEPT ![t] = peers[pos[t]]]
    /\ pos' = [pos EXCEPT ![t] = @ + 1]
    /\ UNCHANGED <<peers, lock, queue, running, bus, receiving, msg, to, sent, victims>>

(* `peer.bus = None`. *)
KillDetach(t) ==
    /\ Step(t, "detach", "kill")
    /\ bus' = [bus EXCEPT ![at[t]] = FALSE]
    /\ at' = [at EXCEPT ![t] = None]
    /\ UNCHANGED <<peers, lock, queue, running, receiving, msg, to, pos, sent, victims>>

KillEnd(t) ==
    /\ Return(t, "kill") /\ pos[t] > Len(peers)
    /\ UNCHANGED <<peers, lock, queue, running, bus, receiving, sent, victims>>
-----------------------------------------------------------------------------
ReceiverStep(p) == \/ OpenFails(p) \/ Connect(p) \/ RunEnter(p) \/ LoopCheck(p)
                   \/ GetStop(p) \/ GetMessage(p) \/ GetEmpty(p) \/ HandlerReturns(p)
                   \/ HandlerRaises(p) \/ Leave(p) \/ Exit(p)
SendStep(t) == SendFails(t) \/ SendBegin(t) \/ SendPut(t) \/ SendEnd(t)
StopStep(t) == StopSentinel(t) \/ StopSignalled(t) \/ StopJoined(t)
KillStep(t) == KillNext(t) \/ KillDetach(t) \/ KillEnd(t)
CallStep(t) == SendStep(t) \/ StopStep(t) \/ KillStep(t)

Next == \/ \E p \in Peers : Start(p) \/ ReceiverStep(p)
        \/ \E t \in Threads, p \in Peers :
              \/ StopCall(t, p)
              \/ \E m \in Messages, a \in Addresses : SendCall(t, p, m, a)
        \/ \E t \in Threads : CallStep(t) \/ KillCall(t)

(* Threads that can go on do, get the lock if it keeps coming free and a   *)
(* place in a queue if it keeps being read; handlers return or raise.      *)
Fairness ==
    /\ \A p \in Peers : SF_vars(ReceiverStep(p) \/ CallStep(p))
    /\ \A c \in Clients : SF_vars(CallStep(c))

Spec == Init /\ [][Next]_vars
FairSpec == Spec /\ Fairness
-----------------------------------------------------------------------------
TypeOK ==
    /\ peers \in Seq(Peers)
    /\ lock \in Threads \union {None}
    /\ queue \in [Peers -> Seq(Messages \union {StopSignal})]
    /\ \A p \in Peers : Len(queue[p]) <= QueueSize
    /\ running \in [Peers -> BOOLEAN]
    /\ bus \in [Peers -> BOOLEAN]
    /\ rpc \in [Peers -> Connected \union {"down", "opening", "exiting"}]
    /\ starts \in 0 .. MaxStarts
    /\ tpc \in [Threads -> InStop \union {"idle", "send", "put", "stuck", "kill", "detach"}]
    /\ at \in [Threads -> Peers \union {None}]
    /\ msg \in [Threads -> Messages \union {None}]
    /\ to \in [Threads -> SUBSET Peers]
    /\ pos \in [Threads -> Nat]
    /\ sent \subseteq Messages
    /\ indata \in [Peers -> Messages \union {None}]
    /\ victims \subseteq Peers

(* The messages in a queue, without the sentinels: the n-th of them is the *)
(* one at the place up to which there are n.                               *)
Places(q) == {k \in DOMAIN q : q[k] # StopSignal}
UpTo(q, k) == Cardinality({j \in Places(q) : j <= k})
Place(q, n) == CHOOSE k \in Places(q) : UpTo(q, k) = n
Waiting(q) == [n \in 1 .. Cardinality(Places(q)) |-> q[Place(q, n)]]

(* What is on its way to p: what waits in its queue, and the message that  *)
(* somebody is just distributing, once for each of p's entries in the list *)
(* that the loop over peers has not passed yet.                            *)
Copies(n, m) == [i \in 1 .. n |-> m]
Entries(p, k) == {j \in k .. Len(peers) : peers[j] = p}
Owing(p) == {t \in Threads : tpc[t] \in {"put", "stuck"} /\ p \in to[t]}
Owed(p) == IF Owing(p) = {} THEN <<>>
           ELSE LET t == CHOOSE t \in Owing(p) : TRUE
                IN  Copies(Cardinality(Entries(p, pos[t])), msg[t])
Underway(p) == IF p \in Names THEN Waiting(queue[p]) \o Owed(p) ELSE <<>>

(* A send reaches all of its receivers or raises, and the messages of all  *)
(* senders arrive in one order everywhere, each once ("rapid messages      *)
(* processed in order", tests/test_bustransport.py:47), while transports   *)
(* connect, stop and restart, handlers raise and the queues fill up one by *)
(* one.  Only a peer that was restarted after its handler raised is in the *)
(* list twice, and gets what is sent from then on twice.                   *)
BC == INSTANCE Broadcast WITH
        members <- peers, taking <- {p \in Peers : rpc[p] \in Connected},
        inbox <- [p \in Peers |-> Underway(p)], reading <- indata
BroadcastSpec == BC!Spec

(* Somebody waits for a place in the queue of p, and p's thread, the only   *)
(* one that makes places, waits for that somebody or is gone; or the queue  *)
(* was replaced, and nobody has the old one any more.                      *)
Jammed ==
    \/ \E t \in Threads : tpc[t] = "stuck"
    \/ \E t \in Threads, p \in Peers :
          /\ Full(p)
          /\ \/ /\ Aims(t, p)
                /\ \/ t = p \/ tpc[p] = "send"
                   \/ rpc[p] \in {"leaving", "down", "opening"}
             \/ /\ tpc[t] = "sentinel" /\ at[t] = p
                /\ t = p \/ rpc[p] = "down"

(* send(), stop() and kill() return.  All that can keep them is a full     *)
(* queue whose reader uses the bus itself, or has left, or has died of a   *)
(* handler that raised.                                                    *)
CallsReturn == \A t \in Threads : tpc[t] # "idle" ~> (tpc[t] = "idle" \/ Jammed)
=============================================================================
