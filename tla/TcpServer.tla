------------------------------ MODULE TcpServer ------------------------------
(***************************************************************************)
(* TcpServerTransport (quickrpc/network_transports.py) with the            *)
(* MuxTransport it derives from (quickrpc/transports.py): the run thread   *)
(* of the server, the listener thread that accepts connections, and one    *)
(* thread per connection, which registers its _TcpConnection with the mux, *)
(* puts what it receives into the queue of the run thread, and takes       *)
(* itself out of the mux when it ends.  Another thread sends meanwhile.    *)
(*                                                                         *)
(* start() and stop() of the base class are taken as Transport.tla has     *)
(* them for careful clients.  A server whose run thread ended by an        *)
(* exception has "crashed": its socket stays bound, so that every later    *)
(* open() fails, and it never leaves that state.                           *)
(***************************************************************************)
EXTENDS Naturals, Sequences, SequencesExt

CONSTANTS Connections,  \* connections that clients can make; each stands for its name
          Announcers,   \* whether there is an announcer: a subset of BOOLEAN
          Addresses,    \* the receivers= in use: sets of connections
          MaxPending    \* bound: chunks of data in in_queue

ASSUME TcpServerAssumption ==
    /\ Announcers \subseteq BOOLEAN
    /\ Addresses \subseteq SUBSET Connections
    /\ MaxPending \in Nat

VARIABLES announcer,  \* has the server an announcer?  Never changes.
          running,    \* mux.running
          rpc,        \* where the run thread is
          at,         \* position of the loop that stops the transports
          stopping,   \* somebody is in stop()
          listening,  \* the listener thread is in serve_forever()
          transports, \* mux.transports
          in_queue,   \* mux.in_queue: the senders of the chunks
          cpc,        \* connection -> where its thread is
          up,         \* connection -> transport_running
          receivers,  \* of send(): the connections it is for, {} if there is no call
          pos,        \* position of the loop of send()
          meant,      \* history: transports when send() began
          reached     \* history: the connections that were sent the data

server == <<running, rpc, at, stopping, listening>>
connection == <<cpc, up>>
sending == <<receivers, pos, meant, reached>>
vars == <<announcer, server, transports, in_queue, connection, sending>>

Init ==
    /\ announcer \in Announcers
    /\ running = FALSE /\ rpc = "down" /\ at = 1
    /\ stopping = FALSE /\ listening = FALSE
    /\ transports = <<>> /\ in_queue = <<>>
    /\ cpc = [c \in Connections |-> "away"]
    /\ up = [c \in Connections |-> FALSE]
    /\ receivers = {} /\ pos = 1 /\ meant = <<>> /\ reached = {}

Goto(from, to) == rpc = from /\ rpc' = to
Step(c, from, to) == cpc[c] = from /\ cpc' = [cpc EXCEPT ![c] = to]

(* The connections whose thread is alive. *)
Served == {c \in Connections : cpc[c] \notin {"away", "gone"}}
-----------------------------------------------------------------------------
(* The run thread: open()                                                  *)

Start ==
    /\ Goto("down", "opening") /\ ~stopping
    /\ UNCHANGED <<announcer, running, at, stopping, listening, transports, in_queue,
                   connection, sending>>

(* The address cannot be bound. *)
OpenFails ==
    /\ Goto("opening", "down")
    /\ UNCHANGED <<announcer, running, at, stopping, listening, transports, in_queue,
                   connection, sending>>

(* Bind the socket and start the listener thread.                          *)
OpenListen ==
    /\ Goto("opening", IF announcer THEN "announcing" ELSE "entering")
    /\ listening' = TRUE
    /\ UNCHANGED <<announcer, running, at, stopping, transports, in_queue,
                   connection, sending>>

(* `try: announcer.transport.start() finally: server.shutdown()`: whether  *)
(* the announcer is up or start() raised, the listener thread ends.        *)
OpenAnnounce ==
    /\ \E to \in {"entering", "crashed"} : Goto("announcing", to)
    /\ listening' = FALSE
    /\ UNCHANGED <<announcer, running, at, stopping, transports, in_queue,
                   connection, sending>>
-----------------------------------------------------------------------------
(* The run thread: run()                                                   *)

RunEnter ==
    /\ Goto("entering", "loop")
    /\ running' = TRUE
    /\ UNCHANGED <<announcer, at, stopping, listening, transports, in_queue,
                   connection, sending>>

(* `while self.running`. *)
LoopCheck ==
    /\ Goto("loop", IF running THEN "get" ELSE "stopping")
    /\ at' = 1
    /\ UNCHANGED <<announcer, running, stopping, listening, transports, in_queue,
                   connection, sending>>

(* in_queue.get(timeout=0.5): a chunk for on_received, or queue.Empty.     *)
GetItem ==
    /\ Goto("get", "handling") /\ in_queue # <<>>
    /\ in_queue' = Tail(in_queue)
    /\ UNCHANGED <<announcer, running, at, stopping, listening, transports,
                   connection, sending>>

GetEmpty ==
    /\ Goto("get", "loop") /\ in_queue = <<>>
    /\ UNCHANGED <<announcer, running, at, stopping, listening, transports, in_queue,
                   connection, sending>>

HandlerReturns ==
    /\ Goto("handling", "loop")
    /\ UNCHANGED <<announcer, running, at, stopping, listening, transports, in_queue,
                   connection, sending>>

(* on_received raises: starter() only resets running.                      *)
HandlerRaises ==
    /\ Goto("handling", "crashed")
    /\ running' = FALSE
    /\ UNCHANGED <<announcer, at, stopping, listening, transports, in_queue,
                   connection, sending>>

(* `for transport in self.transports: transport.stop()`, by position in a  *)
(* list that may change.                                                   *)
StopTransport ==
    /\ rpc = "stopping" /\ at <= Len(transports)
    /\ up' = [up EXCEPT ![transports[at]] = FALSE]
    /\ at' = at + 1
    /\ UNCHANGED <<announcer, running, rpc, stopping, listening, transports, in_queue,
                   cpc, sending>>

(* The loop has ended: announcer.transport.stop() and server.shutdown().   *)
Shutdown ==
    /\ Goto("stopping", "closing") /\ at > Len(transports)
    /\ at' = 1
    /\ listening' = FALSE
    /\ UNCHANGED <<announcer, running, stopping, transports, in_queue,
                   connection, sending>>

(* A bug for the properties to catch: server_close() joins nobody.         *)
ServerCloseHasty ==
    /\ Goto("closing", "down")
    /\ running' = FALSE
    /\ UNCHANGED <<announcer, at, stopping, listening, transports, in_queue,
                   connection, sending>>

(* server.server_close() joins the threads of the connections.             *)
ServerClose ==
    /\ Goto("closing", "down") /\ Served = {}
    /\ running' = FALSE
    /\ UNCHANGED <<announcer, at, stopping, listening, transports, in_queue,
                   connection, sending>>
-----------------------------------------------------------------------------
(* stop() and close()                                                      *)

StopCall ==
    /\ running /\ ~stopping
    /\ running' = FALSE
    /\ stopping' = TRUE
    /\ UNCHANGED <<announcer, rpc, at, listening, transports, in_queue,
                   connection, sending>>

(* The run thread has been joined. *)
StopReturn ==
    /\ stopping /\ rpc \in {"down", "crashed"}
    /\ stopping' = FALSE
    /\ UNCHANGED <<announcer, running, rpc, at, listening, transports, in_queue,
                   connection, sending>>

(* stop() by the message handler: nothing to join. *)
StopWithin ==
    /\ rpc = "handling"
    /\ running' = FALSE
    /\ UNCHANGED <<announcer, rpc, at, stopping, listening, transports, in_queue,
                   connection, sending>>

(* close(name) clears the flag of that connection. *)
Disconnect(c) ==
    /\ up[c] /\ Contains(transports, c)
    /\ up' = [up EXCEPT ![c] = FALSE]
    /\ UNCHANGED <<announcer, server, transports, in_queue, cpc, sending>>
-----------------------------------------------------------------------------
(* The thread of a connection                                              *)

(* The listener thread starts it. *)
Accept(c) ==
    /\ Step(c, "away", "setup") /\ listening
    /\ UNCHANGED <<announcer, server, transports, in_queue, up, sending>>

(* setup() calls mux.add_transport(self), which first appends ...          *)
AddTransport(c) ==
    /\ Step(c, "setup", "check")
    /\ transports' = Append(transports, c)
    /\ UNCHANGED <<announcer, server, in_queue, up, sending>>

(* ... then looks at mux.running ... *)
AddCheck(c) ==
    /\ Step(c, "check", IF running THEN "start" ELSE "loop")
    /\ UNCHANGED <<announcer, server, transports, in_queue, up, sending>>

(* ... and starts the transport. *)
AddStart(c) ==
    /\ Step(c, "start", "loop")
    /\ up' = [up EXCEPT ![c] = TRUE]
    /\ UNCHANGED <<announcer, server, transports, in_queue, sending>>

(* A bug for the properties to catch: `while True`.                        *)
HandleCheckNot(c) ==
    /\ Step(c, "loop", "receive")
    /\ UNCHANGED <<announcer, server, transports, in_queue, up, sending>>

(* handle() waits a second for the flag, which nobody else would set, and  *)
(* loops while it is set.                                                  *)
HandleCheck(c) ==
    /\ Step(c, "loop", IF up[c] THEN "receive" ELSE "finish")
    /\ UNCHANGED <<announcer, server, transports, in_queue, up, sending>>

(* Data: received() puts it into the queue of the mux. *)
ReceiveData(c) ==
    /\ Step(c, "receive", "loop") /\ Len(in_queue) < MaxPending
    /\ in_queue' = Append(in_queue, c)
    /\ UNCHANGED <<announcer, server, transports, up, sending>>

(* Nothing, or sending the keepalive message raises. *)
ReceiveNothing(c) ==
    /\ \E to \in {"loop", "finish"} : Step(c, "receive", to)
    /\ UNCHANGED <<announcer, server, transports, in_queue, up, sending>>

(* The connection was closed: self.stop(). *)
ReceiveClosed(c) ==
    /\ Step(c, "receive", "finish")
    /\ up' = [up EXCEPT ![c] = FALSE]
    /\ UNCHANGED <<announcer, server, transports, in_queue, sending>>

(* mux.remove_transport(self, stop=False). *)
Finish(c) ==
    /\ Step(c, "finish", "gone")
    /\ \E i \in DOMAIN transports :
          transports[i] = c /\ transports' = RemoveAt(transports, i)
    /\ UNCHANGED <<announcer, server, in_queue, up, sending>>
-----------------------------------------------------------------------------
(* send(data, receivers), on one other thread                              *)

SendCall(to) ==
    /\ receivers = {} /\ to # {}
    /\ receivers' = to
    /\ meant' = transports
    /\ pos' = 1 /\ reached' = {}
    /\ UNCHANGED <<announcer, server, transports, in_queue, connection>>

(* A bug for the properties to catch: who does not run is passed over.     *)
SendNextSilent ==
    /\ receivers # {} /\ pos <= Len(transports)
    /\ LET c == transports[pos]
       IN reached' = IF c \in receivers /\ up[c] THEN reached \union {c} ELSE reached
    /\ pos' = pos + 1
    /\ UNCHANGED <<announcer, server, transports, in_queue, connection, receivers, meant>>

(* The next transport: it has got the data, or it is not meant. *)
SendNext ==
    /\ receivers # {} /\ pos <= Len(transports)
    /\ LET c == transports[pos]
       IN IF c \in receivers THEN up[c] /\ reached' = reached \union {c}
                             ELSE UNCHANGED reached
    /\ pos' = pos + 1
    /\ UNCHANGED <<announcer, server, transports, in_queue, connection, receivers, meant>>

(* send() is over: its locals are gone. *)
SendOver == receivers' = {} /\ pos' = 1 /\ meant' = <<>> /\ reached' = {}

(* IOError: the transport is not running, or the socket fails. *)
SendRaises ==
    /\ receivers # {} /\ pos <= Len(transports)
    /\ transports[pos] \in receivers
    /\ SendOver
    /\ UNCHANGED <<announcer, server, transports, in_queue, connection>>

SendReturns ==
    /\ receivers # {} /\ pos > Len(transports)
    /\ SendOver
    /\ UNCHANGED <<announcer, server, transports, in_queue, connection>>
-----------------------------------------------------------------------------
OpenStep == OpenFails \/ OpenListen \/ OpenAnnounce
RunStep == \/ RunEnter \/ LoopCheck \/ GetItem \/ GetEmpty \/ HandlerReturns \/ HandlerRaises
           \/ StopTransport \/ Shutdown \/ ServerClose
ConnectionStep(c) == \/ AddTransport(c) \/ AddCheck(c) \/ AddStart(c) \/ HandleCheck(c)
                     \/ ReceiveData(c) \/ ReceiveNothing(c) \/ ReceiveClosed(c) \/ Finish(c)
SendStep == SendNext \/ SendRaises \/ SendReturns

Next == \/ Start \/ OpenStep \/ RunStep \/ StopCall \/ StopReturn \/ StopWithin
        \/ \E c \in Connections : Accept(c) \/ ConnectionStep(c) \/ Disconnect(c)
        \/ \E to \in Addresses : SendCall(to)
        \/ SendStep

(* Threads go on when they can, and on_received returns or raises.  When   *)
(* clients hang up is up to them: nobody can rely on it.                   *)
Fairness == /\ WF_vars(OpenStep) /\ WF_vars(RunStep) /\ WF_vars(StopReturn)
            /\ \A c \in Connections : WF_vars(ConnectionStep(c))

Spec == Init /\ [][Next]_vars
FairSpec == Spec /\ Fairness
-----------------------------------------------------------------------------
TypeOK ==
    /\ announcer \in Announcers
    /\ running \in BOOLEAN /\ stopping \in BOOLEAN /\ listening \in BOOLEAN
    /\ rpc \in {"down", "opening", "announcing", "entering", "loop", "get", "handling",
                "stopping", "closing", "crashed"}
    /\ at \in Nat \ {0}
    /\ transports \in Seq(Connections) /\ in_queue \in Seq(Connections)
    /\ Len(in_queue) <= MaxPending
    /\ cpc \in [Connections -> {"away", "setup", "check", "start", "loop", "receive",
                                "finish", "gone"}]
    /\ up \in [Connections -> BOOLEAN]
    /\ receivers \subseteq Connections /\ reached \subseteq receivers
    /\ pos \in Nat \ {0} /\ meant \in Seq(Connections)

(* A server that is down has let go of everything: no listener, no thread  *)
(* of a connection and no entry in the mux is left for the next start, in  *)
(* whatever state of their setup or end stop() met the connections.        *)
DownIsClean ==
    rpc \in {"down", "opening"} => ~listening /\ Served = {} /\ transports = <<>>

(* send() goes through a list from which connections remove themselves.    *)
(* When it returns, a connection it was meant for has the data unless that *)
(* connection, or one before it in the list, has left meanwhile.           *)
SendReaches ==
    receivers # {} /\ pos > Len(transports) =>
        \A i \in DOMAIN meant :
            meant[i] \in receivers /\ (\A j \in 1..i : Contains(transports, meant[j]))
                => meant[i] \in reached

(* A connection that is still up while server_close() waits for it: the    *)
(* loop over the transports has passed it over because one before it left  *)
(* the list, or it has started itself behind the loop's back.              *)
Overlooked == rpc = "closing" /\ \E c \in Connections : up[c]

(* stop() returns, whatever clients and handlers do, unless an overlooked  *)
(* connection stays for ever: the one way in which stop() does not close a *)
(* connection, as it is said to (network_transports.py:226-228), and waits *)
(* for its client.                                                         *)
StopReturns == []<>~Overlooked => (stopping ~> ~stopping)
=============================================================================
