------------------------------ MODULE RemoteAPI ------------------------------
(***************************************************************************)
(* Two peers that talk through a RemoteAPI each (quickrpc/remote_api.py),  *)
(* one the inverse of the other.  At each peer there are                   *)
(*   - callers: application threads that call @outgoing methods,           *)
(*   - the receiver thread of the transport, which decodes messages and    *)
(*     delivers replies to the promises in _pending_replies,               *)
(*   - the thread that runs the connected handlers: the receiver thread    *)
(*     itself (async_processing=False), or the worker of the ActionQueue.  *)
(* The ActionQueue is used as the serial executor it is shown to implement *)
(* (ActionQueue.tla), a Promise as the write-once cell (Promise.tla).      *)
(* The transports are started once, before the first call, and deliver in  *)
(* order, as TCP and stdio do.                                             *)
(*                                                                         *)
(* A call is named after its caller, <<thread, number of its call>>, which *)
(* no message carries: what is on the wire is the id.                      *)
(***************************************************************************)
EXTENDS Naturals, Sequences, FiniteSets

CONSTANTS Peers,      \* the two ends; also names each end's handler thread
          Callers,    \* application threads
          Home,       \* caller -> the peer it lives at
          Async,      \* the peers with async_processing=True
          Methods,    \* names that can be called
          HasReply,   \* those declared with has_reply=True
          Unknown,    \* those that are not an @incoming method of the callee
          Nested,     \* method -> the method its handler calls back, or None
          Impatient,  \* the threads that pass a timeout to result()
          Faults,     \* what may go wrong: "send" raises, "junk" comes in,
                      \*   "time" passes until a timeout is over
          MaxCalls,   \* bound: calls made by one caller
          None        \* nothing

Threads == Callers \union Peers
Kinds == {"result", "error"}

(* A handler may call back once for each call that a caller makes. *)
Limit(t) == IF t \in Callers THEN MaxCalls ELSE Cardinality(Callers) * MaxCalls
Calls == UNION {{t} \X (1 .. Limit(t)) : t \in Threads}
Ids == 1 .. Cardinality(Calls)

(* What threads and the network handle: outcomes of calls and messages.    *)
Outcomes == [of : Calls, kind : Kinds]
CallMessages == {msg \in [type : {"call"}, id : Ids \union {0}, method : Methods, of : Calls] :
                    msg.id # 0 <=> msg.method \in HasReply}
ReplyMessages == [type : {"reply"}, id : Ids, body : Outcomes]

ASSUME APIAssumption ==
    /\ \E p, q \in Peers : p # q /\ Peers = {p, q}
    /\ IsFiniteSet(Callers) /\ Callers \intersect Peers = {}
    /\ Home \in [Callers -> Peers]
    /\ Async \subseteq Peers
    /\ HasReply \subseteq Methods /\ Unknown \subseteq Methods
    /\ Nested \in [Methods -> Methods \union {None}]
    /\ None \notin Methods \union Calls \union Outcomes \union CallMessages
    /\ Faults \subseteq {"send", "junk", "time"}
    /\ MaxCalls \in Nat

VARIABLES faults,   \* what may go wrong in this execution; it never changes
          nextId,   \* peer -> _id_dispenser
          pending,  \* peer -> _pending_replies: id -> the call whose promise waits
          promise,  \* call -> the outcome its promise was set to, or None
          net,      \* peer -> messages on their way to it
          receiver, \* peer -> is its receiver thread alive?
          actions,  \* peer -> the queue of its ActionQueue
          job,      \* peer -> the call message its handler thread works on
          tpc,      \* thread -> where it is
          made,     \* thread -> number of calls it has made
          out,      \* thread -> the call message it is sending, then the one it awaits
          ran       \* history: call -> how its execution ended, or None

handling == <<actions, job>>
calling == <<made, out>>
vars == <<faults, nextId, pending, promise, net, receiver, handling, tpc, calling, ran>>

Peer(t) == IF t \in Peers THEN t ELSE Home[t]
Other(p) == CHOOSE q \in Peers : q # p
Call(t) == <<t, made[t]>>
Outcome(c, k) == [of |-> c, kind |-> k]

CallMessage(id, m, c) == [type |-> "call", id |-> id, method |-> m, of |-> c]
ReplyMessage(id, c, k) == [type |-> "reply", id |-> id, body |-> Outcome(c, k)]

Post(p, msg) == net' = [net EXCEPT ![p] = Append(@, msg)]

Init ==
    /\ faults \in {{}, Faults}
    /\ nextId = [p \in Peers |-> 1]
    /\ pending = [p \in Peers |-> [i \in Ids |-> None]]
    /\ promise = [c \in Calls |-> None]
    /\ net = [p \in Peers |-> <<>>]
    /\ receiver = [p \in Peers |-> TRUE]
    /\ actions = [p \in Peers |-> <<>>]
    /\ job = [p \in Peers |-> None]
    /\ tpc = [t \in Threads |-> "idle"]
    /\ made = [t \in Threads |-> 0]
    /\ out = [t \in Threads |-> None]
    /\ ran = [c \in Calls |-> None]
-----------------------------------------------------------------------------
(* Outgoing calls, on the calling thread                                   *)

(* A caller calls what it likes; a handler the one method it calls back.   *)
MayCall(t, m) == IF t \in Peers THEN tpc[t] = "run" /\ m = Nested[job[t].method]
                                ELSE tpc[t] = "idle"

(* A bug for the properties to catch: two calls are given the same id.     *)
NewRequestSameId(t, m) ==
    /\ MayCall(t, m) /\ made[t] < Limit(t)
    /\ made' = [made EXCEPT ![t] = @ + 1]
    /\ out' = [out EXCEPT ![t] = CallMessage(nextId[Peer(t)], m, <<t, made[t] + 1>>)]
    /\ pending' = [pending EXCEPT ![Peer(t)][nextId[Peer(t)]] = <<t, made[t] + 1>>]
    /\ tpc' = [tpc EXCEPT ![t] = "send"]
    /\ UNCHANGED <<nextId, promise, net, receiver, handling, ran>>

(* A bug for the properties to catch: resultless calls go out without id.  *)
NewRequestNoId(t, m) ==
    /\ MayCall(t, m) /\ made[t] < Limit(t)
    /\ made' = [made EXCEPT ![t] = @ + 1]
    /\ out' = [out EXCEPT ![t] = CallMessage(IF m \in HasReply THEN nextId[Peer(t)] ELSE None,
                                            m, <<t, made[t] + 1>>)]
    /\ tpc' = [tpc EXCEPT ![t] = "send"]
    /\ UNCHANGED <<nextId, pending, promise, net, receiver, handling, ran>>

(* Validate the arguments and, if there is to be a reply, register a new   *)
(* promise under a new id; resultless calls have the id 0.                 *)
NewRequest(t, m) ==
    /\ MayCall(t, m) /\ made[t] < Limit(t)
    /\ made' = [made EXCEPT ![t] = @ + 1]
    /\ LET p == Peer(t)
           c == <<t, made[t] + 1>>
           id == IF m \in HasReply THEN nextId[p] ELSE 0
       IN /\ out' = [out EXCEPT ![t] = CallMessage(id, m, c)]
          /\ IF m \in HasReply
             THEN /\ nextId' = [nextId EXCEPT ![p] = @ + 1]
                  /\ pending' = [pending EXCEPT ![p][id] = c]
             ELSE UNCHANGED <<nextId, pending>>
    /\ tpc' = [tpc EXCEPT ![t] = "send"]
    /\ UNCHANGED <<promise, net, receiver, handling, ran>>

(* How a thread goes on after an outgoing call, answered or not: a handler *)
(* has its own outcome to come up with.                                    *)
Resume(t) == tpc' = [tpc EXCEPT ![t] = IF t \in Peers THEN "compute" ELSE "idle"]

Send(t) ==
    /\ tpc[t] = "send"
    /\ Post(Other(Peer(t)), out[t])
    /\ IF out[t].id # 0 THEN tpc' = [tpc EXCEPT ![t] = "await"] ELSE Resume(t)
    /\ UNCHANGED <<nextId, pending, promise, receiver, handling, calling, ran>>

(* transport.send raises: the promise stays registered for good.           *)
SendFails(t) ==
    /\ tpc[t] = "send" /\ "send" \in faults
    /\ Resume(t)
    /\ UNCHANGED <<nextId, pending, promise, net, receiver, handling, calling, ran>>

(* promise.result(): the promise is set by now.                            *)
AwaitReturns(t) ==
    /\ tpc[t] = "await" /\ promise[out[t].of] # None
    /\ Resume(t)
    /\ UNCHANGED <<nextId, pending, promise, net, receiver, handling, calling, ran>>

(* A bug for the properties to catch: the protection is in the wrong mode. *)
AwaitRefusedAsync(t) ==
    /\ tpc[t] = "await" /\ promise[out[t].of] = None
    /\ t \in Peers \intersect Async
    /\ Resume(t)
    /\ UNCHANGED <<nextId, pending, promise, net, receiver, handling, calling, ran>>

(* PromiseDeadlockError: the handler runs on the thread that is to set the *)
(* promise, setter_thread.                                                 *)
AwaitRefused(t) ==
    /\ tpc[t] = "await" /\ promise[out[t].of] = None
    /\ t \in Peers \ Async
    /\ Resume(t)
    /\ UNCHANGED <<nextId, pending, promise, net, receiver, handling, calling, ran>>

(* PromiseTimeoutError: nothing is unregistered. *)
AwaitTimeout(t) ==
    /\ tpc[t] = "await" /\ promise[out[t].of] = None
    /\ t \in Impatient /\ "time" \in faults
    /\ Resume(t)
    /\ UNCHANGED <<nextId, pending, promise, net, receiver, handling, calling, ran>>
-----------------------------------------------------------------------------
(* Incoming messages, on the receiver thread                               *)

(* The receiver thread is not busy with a handler. *)
Free(p) == receiver[p] /\ (p \in Async \/ tpc[p] = "idle")
Listens(p) == Free(p) /\ net[p] # <<>>

Begin(p, msg) ==
    /\ job' = [job EXCEPT ![p] = msg]
    /\ tpc' = [tpc EXCEPT ![p] = IF Nested[msg.method] = None THEN "compute" ELSE "run"]

(* A bug for the properties to catch: the reply settles the newest request. *)
DeliverReplyNewest(p) ==
    /\ Listens(p) /\ Head(net[p]).type = "reply"
    /\ net' = [net EXCEPT ![p] = Tail(@)]
    /\ LET id == nextId[p] - 1
           c == pending[p][id]
       IN IF c = None
          THEN UNCHANGED <<pending, promise>>
          ELSE /\ pending' = [pending EXCEPT ![p][id] = None]
               /\ promise' = [promise EXCEPT ![c] = Head(net[p]).body]
    /\ UNCHANGED <<nextId, receiver, handling, tpc, calling, ran>>

(* _deliver_reply: pop the promise and set it; an unknown id is logged.    *)
DeliverReply(p) ==
    /\ Listens(p) /\ Head(net[p]).type = "reply"
    /\ net' = [net EXCEPT ![p] = Tail(@)]
    /\ LET msg == Head(net[p])
           c == pending[p][msg.id]
       IN IF c = None
          THEN UNCHANGED <<pending, promise>>
          ELSE /\ pending' = [pending EXCEPT ![p][msg.id] = None]
               /\ promise' = [promise EXCEPT ![c] = msg.body]
    /\ UNCHANGED <<nextId, receiver, handling, tpc, calling, ran>>

(* _handle_method: into the action queue, or at once. *)
HandleMethod(p) ==
    /\ Listens(p) /\ Head(net[p]).type = "call" /\ Head(net[p]).method \notin Unknown
    /\ net' = [net EXCEPT ![p] = Tail(@)]
    /\ IF p \in Async
       THEN actions' = [actions EXCEPT ![p] = Append(@, Head(net[p]))] /\ UNCHANGED <<job, tpc>>
       ELSE Begin(p, Head(net[p])) /\ UNCHANGED actions
    /\ UNCHANGED <<nextId, pending, promise, receiver, calling, ran>>

(* Not an @incoming method: message_error answers, if there is an id to    *)
(* answer to.  If that raises, the receiver thread ends.                   *)
HandleUnknown(p) ==
    /\ Listens(p) /\ Head(net[p]).type = "call" /\ Head(net[p]).method \in Unknown
    /\ LET msg == Head(net[p])
           rest == [net EXCEPT ![p] = Tail(@)]
       IN /\ ran' = [ran EXCEPT ![msg.of] = Outcome(msg.of, "error")]
          /\ \/ /\ net' = IF msg.id = 0 THEN rest
                          ELSE [rest EXCEPT ![Other(p)] =
                                   Append(@, ReplyMessage(msg.id, msg.of, "error"))]
                /\ UNCHANGED receiver
             \/ /\ "send" \in faults /\ msg.id # 0
                /\ net' = rest
                /\ receiver' = [receiver EXCEPT ![p] = FALSE]
    /\ UNCHANGED <<nextId, pending, promise, handling, tpc, calling>>

(* A DecodeError among the decoded messages: message_error asks None for   *)
(* its id, and the AttributeError ends the receiver thread.  The channel   *)
(* may bring such bytes in front of any message.                           *)
HandleJunk(p) ==
    /\ "junk" \in faults /\ Free(p)
    /\ receiver' = [receiver EXCEPT ![p] = FALSE]
    /\ UNCHANGED <<nextId, pending, promise, net, handling, tpc, calling, ran>>
-----------------------------------------------------------------------------
(* action(), on the handler thread                                         *)

(* The worker of the ActionQueue takes the oldest action. *)
WorkerTakes(p) ==
    /\ tpc[p] = "idle" /\ actions[p] # <<>>
    /\ actions' = [actions EXCEPT ![p] = Tail(@)]
    /\ Begin(p, Head(actions[p]))
    /\ UNCHANGED <<nextId, pending, promise, net, receiver, calling, ran>>

(* The handlers return or raise.  Without has_reply, that is all.          *)
HandlerEnds(p) ==
    /\ tpc[p] = "compute"
    /\ \E k \in Kinds : ran' = [ran EXCEPT ![job[p].of] = Outcome(job[p].of, k)]
    /\ tpc' = [tpc EXCEPT ![p] = IF job[p].method \in HasReply THEN "reply" ELSE "idle"]
    /\ UNCHANGED <<nextId, pending, promise, net, receiver, handling, calling>>

(* encode_reply, or message_error and encode_error, and send. *)
Reply(p) ==
    /\ tpc[p] = "reply"
    /\ Post(Other(p), ReplyMessage(job[p].id, job[p].of, ran[job[p].of].kind))
    /\ tpc' = [tpc EXCEPT ![p] = "idle"]
    /\ UNCHANGED <<nextId, pending, promise, receiver, handling, calling, ran>>

(* The send raises.  While sending a result, that is caught and logged;    *)
(* while sending an error, it ends the thread: the worker, or the receiver. *)
ReplyFails(p) ==
    /\ tpc[p] = "reply" /\ "send" \in faults
    /\ LET dies == ran[job[p].of].kind = "error"
       IN /\ tpc' = [tpc EXCEPT ![p] = IF dies /\ p \in Async THEN "dead" ELSE "idle"]
          /\ receiver' = [receiver EXCEPT ![p] = @ /\ (dies => p \in Async)]
    /\ UNCHANGED <<nextId, pending, promise, net, handling, calling, ran>>
-----------------------------------------------------------------------------
OutgoingStep(t) == \/ Send(t) \/ SendFails(t) \/ AwaitReturns(t) \/ AwaitRefused(t)
                   \/ AwaitTimeout(t)
ReceiverStep(p) == DeliverReply(p) \/ HandleMethod(p) \/ HandleUnknown(p)
HandlerStep(p) == \/ WorkerTakes(p) \/ HandlerEnds(p) \/ Reply(p) \/ ReplyFails(p)
                  \/ \E m \in Methods : NewRequest(p, m)

Next == /\ \/ \E t \in Callers, m \in Methods : NewRequest(t, m)
           \/ \E t \in Threads : OutgoingStep(t)
           \/ \E p \in Peers : ReceiverStep(p) \/ HandleJunk(p) \/ HandlerStep(p)
        /\ UNCHANGED faults

(* Threads that can go on do; nobody has to start a call.                  *)
Fairness ==
    /\ \A t \in Threads : WF_vars(OutgoingStep(t) /\ UNCHANGED faults)
    /\ \A p \in Peers : /\ WF_vars(ReceiverStep(p) /\ UNCHANGED faults)
                         /\ WF_vars(HandlerStep(p) /\ UNCHANGED faults)

Spec == Init /\ [][Next]_vars
FairSpec == Spec /\ Fairness
-----------------------------------------------------------------------------
(* A thread has a message to send or to wait for while it calls, and one   *)
(* to work on while it handles; only the others wait for an answer.        *)
TypeOK ==
    /\ faults \in SUBSET Faults
    /\ nextId \in [Peers -> Nat \ {0}]
    /\ pending \in [Peers -> [Ids -> Calls \union {None}]]
    /\ promise \in [Calls -> Outcomes \union {None}]
    /\ net \in [Peers -> Seq(CallMessages \union ReplyMessages)]
    /\ receiver \in [Peers -> BOOLEAN]
    /\ actions \in [Peers -> Seq(CallMessages)]
    /\ job \in [Peers -> CallMessages \union {None}]
    /\ tpc \in [Threads -> {"idle", "run", "send", "await", "compute", "reply", "dead"}]
    /\ \A t \in Callers : tpc[t] \in {"idle", "send", "await"}
    /\ \A p \in Peers : /\ tpc[p] \notin {"idle", "dead"} => job[p] # None
                        /\ tpc[p] = "reply" => job[p].method \in HasReply
    /\ made \in [Threads -> Nat]
    /\ \A t \in Threads : made[t] <= Limit(t)
    /\ out \in [Threads -> CallMessages \union {None}]
    /\ \A t \in Threads : /\ tpc[t] \in {"send", "await"} => out[t] # None
                          /\ tpc[t] = "await" => out[t].id # 0
    /\ ran \in [Calls -> Outcomes \union {None}]
    /\ \A p \in Peers : tpc[p] = "reply" => ran[job[p].of] # None

(* Every call is executed at most once, and a promise is only ever set to  *)
(* the outcome of the call it was handed out for, whatever calls of other  *)
(* threads, in either direction, are under way.                            *)
RC == INSTANCE RemoteCall WITH
        issued <- {c \in Calls : c[2] <= made[c[1]]},
        executed <- ran,
        answered <- promise
RemoteCallSpec == RC!Spec

(* A promise that somebody waits for can still be set: it is registered    *)
(* from before the request is sent until its reply is there, so the reply  *)
(* may come back at once, or after others that were sent later.            *)
StillRegistered ==
    \A t \in Threads : (tpc[t] = "await" /\ promise[out[t].of] = None)
        => pending[Peer(t)][out[t].id] = out[t].of

(* Where nothing goes wrong, result() comes back without the help of a     *)
(* timeout: each call is answered, or refused where nobody could answer it. *)
AwaitEnds ==
    \A t \in Threads : (faults = {} /\ tpc[t] = "await") ~> tpc[t] # "await"
=============================================================================
