------------------------------ MODULE Transport ------------------------------
(***************************************************************************)
(* The life of one Transport (quickrpc/transports.py, base class): threads *)
(* that call start() and stop(), and the receiver threads that start()     *)
(* makes.  A receiver thread opens the channel and runs the loop that      *)
(* every subclass's run() has (StdioTransport.run is the shortest): look   *)
(* at `running`, receive, hand the data to on_received, start over.  The   *)
(* promise that start() hands out is set by the receiver thread only, and  *)
(* appears here by what it is worth: pending, opened or failed.            *)
(*                                                                         *)
(* _transition_lock is held by stop() and by the receiver thread while it  *)
(* opens; start() itself assigns _thread without it.                       *)
(***************************************************************************)
EXTENDS FiniteSets, Naturals

CONSTANTS Clients,     \* threads that call start()
          Stoppers,    \* those of them that also call stop()
          Receivers,   \* the threads that start() can make; each runs once
          StartModes,  \* the values of start(block=) in use
          StopModes,   \* the values of stop(block=) in use
          SelfStops,   \* where a receiver thread itself calls stop():
                       \*   "callback" of start()'s promise, on_received "handler"
          Careful,     \* TRUE: clients keep to the discipline below
          None         \* no thread

Threads == Clients \union Receivers

ASSUME TransportAssumption ==
    /\ None \notin Threads
    /\ Clients \intersect Receivers = {}
    /\ Stoppers \subseteq Clients
    /\ StartModes \subseteq BOOLEAN /\ StopModes \subseteq BOOLEAN
    /\ SelfStops \subseteq {"callback", "handler"}
    /\ Careful \in BOOLEAN

VARIABLES lock,     \* the thread that holds _transition_lock, or None
          running,  \* self.running
          thread,   \* self._thread
          rpc,      \* receiver -> where it is
          promise,  \* receiver -> what start()'s promise is worth
          cpc,      \* client -> next step of its start()
          mine,     \* client -> the receiver its start() made
          spc,      \* thread -> next step of its stop()
          block,    \* thread -> the block argument of its stop()
          target,   \* thread -> whom it joins
          down      \* history: the clients have reason to believe it is stopped

starting == <<cpc, mine>>
stopping == <<spc, block, target>>
vars == <<lock, running, thread, rpc, promise, starting, stopping, down>>

InRun == {"loop", "recv", "handler", "exiting"}     \* run() has begun
Alive == {"starting", "opening", "answered", "entering"} \union InRun

Init ==
    /\ lock = None /\ running = FALSE /\ thread = None
    /\ rpc = [r \in Receivers |-> "unborn"]
    /\ promise = [r \in Receivers |-> "pending"]
    /\ cpc = [c \in Clients |-> "idle"]
    /\ mine = [c \in Clients |-> None]
    /\ spc = [x \in Threads |-> "idle"]
    /\ block = [x \in Threads |-> TRUE]
    /\ target = [x \in Threads |-> None]
    /\ down = TRUE

Idle(c) == cpc[c] = "idle" /\ spc[c] = "idle"

(* The discipline of careful clients, in terms of what they can see: start *)
(* only what is known to be down and when nobody is busy with it; stop     *)
(* only what is seen to run, or to have no living thread any more.         *)
MayStart == Careful => down /\ \A d \in Clients : Idle(d)
MayStop == Careful => /\ \A d \in Clients : cpc[d] = "idle"
                      /\ ~running /\ thread # None => rpc[thread] = "dead"
-----------------------------------------------------------------------------
(* start(block, timeout)                                                   *)

Unborn == {r \in Receivers : rpc[r] = "unborn"}

(* `self._thread = threading.Thread(...)`, and the promise for it. *)
StartAssign(c) ==
    /\ Idle(c) /\ MayStart /\ Unborn # {}
    /\ LET r == CHOOSE r \in Unborn : TRUE
       IN /\ thread' = r
          /\ rpc' = [rpc EXCEPT ![r] = "created"]
          /\ mine' = [mine EXCEPT ![c] = r]
    /\ cpc' = [cpc EXCEPT ![c] = "launch"]
    /\ down' = FALSE
    /\ UNCHANGED <<lock, running, promise, stopping>>

(* `self._thread.start()`: whatever _thread is by now. *)
StartLaunch(c) ==
    /\ cpc[c] = "launch"
    /\ thread # None /\ rpc[thread] = "created"
    /\ rpc' = [rpc EXCEPT ![thread] = "starting"]
    /\ \E b \in StartModes : cpc' = [cpc EXCEPT ![c] = IF b THEN "result" ELSE "idle"]
    /\ UNCHANGED <<lock, running, thread, promise, mine, stopping, down>>

(* AttributeError of None, or RuntimeError: a thread starts only once.     *)
StartFault(c) ==
    /\ cpc[c] = "launch"
    /\ thread # None => rpc[thread] # "created"
    /\ cpc' = [cpc EXCEPT ![c] = "idle"]
    /\ UNCHANGED <<lock, running, thread, rpc, promise, mine, stopping, down>>

(* `p.result(timeout)`: True, or the exception of open().                  *)
StartReturn(c) ==
    /\ cpc[c] = "result" /\ promise[mine[c]] # "pending"
    /\ cpc' = [cpc EXCEPT ![c] = "idle"]
    /\ down' = (down \/ promise[mine[c]] = "failed")
    /\ UNCHANGED <<lock, running, thread, rpc, promise, mine, stopping>>

(* PromiseTimeoutError: open() goes on, and the caller has to call stop(). *)
StartTimeout(c) ==
    /\ cpc[c] = "result" /\ promise[mine[c]] = "pending"
    /\ cpc' = [cpc EXCEPT ![c] = "idle"]
    /\ UNCHANGED <<lock, running, thread, rpc, promise, mine, stopping, down>>
-----------------------------------------------------------------------------
(* starter(), on the receiver thread                                       *)

Goto(r, from, to) == rpc[r] = from /\ rpc' = [rpc EXCEPT ![r] = to]

(* A bug for the properties to catch: open() is called without the lock.   *)
ReceiverLockNot(r) ==
    /\ Goto(r, "starting", "opening")
    /\ UNCHANGED <<lock, running, thread, promise, starting, stopping, down>>

ReceiverLock(r) ==
    /\ Goto(r, "starting", "opening") /\ lock = None
    /\ lock' = r
    /\ UNCHANGED <<running, thread, promise, starting, stopping, down>>

(* open() returns or raises, and the promise is set accordingly.  Its       *)
(* callback, if it has one, runs here and now, under the lock.             *)
Answer(r, outcome) ==
    /\ Goto(r, "opening", "answered")
    /\ promise' = [promise EXCEPT ![r] = outcome]
    /\ UNCHANGED <<lock, running, thread, starting, stopping, down>>

OpenFails(r) == Answer(r, "failed")
OpenReturns(r) == Answer(r, "opened")

(* Release the lock; go on to run() only if open() returned.               *)
ReceiverUnlock(r) ==
    /\ spc[r] = "idle"
    /\ Goto(r, "answered", IF promise[r] = "opened" THEN "entering" ELSE "dead")
    /\ lock' = None
    /\ UNCHANGED <<running, thread, promise, starting, stopping, down>>

(* run() begins: `self.running = True`. *)
RunEnter(r) ==
    /\ Goto(r, "entering", "loop")
    /\ running' = TRUE
    /\ UNCHANGED <<lock, thread, promise, starting, stopping, down>>

(* A bug for the properties to catch: `while True`.                        *)
LoopForever(r) ==
    /\ Goto(r, "loop", "recv")
    /\ UNCHANGED <<lock, running, thread, promise, starting, stopping, down>>

(* `while self.running`. *)
LoopCheck(r) ==
    /\ Goto(r, "loop", IF running THEN "recv" ELSE "exiting")
    /\ UNCHANGED <<lock, running, thread, promise, starting, stopping, down>>

(* The receive call of the channel: nothing within its timeout, data for   *)
(* on_received, or the end of the channel (closed, or an exception).       *)
Receive(r) ==
    /\ \E to \in {"loop", "handler", "exiting"} : Goto(r, "recv", to)
    /\ UNCHANGED <<lock, running, thread, promise, starting, stopping, down>>

HandlerReturns(r) ==
    /\ Goto(r, "handler", "loop") /\ spc[r] = "idle"
    /\ UNCHANGED <<lock, running, thread, promise, starting, stopping, down>>

(* A bug for the properties to catch: no `finally: self.running = False`.  *)
ReceiverExitSilent(r) ==
    /\ Goto(r, "exiting", "dead")
    /\ UNCHANGED <<lock, running, thread, promise, starting, stopping, down>>

(* `finally: self.running = False`. *)
ReceiverExit(r) ==
    /\ Goto(r, "exiting", "dead")
    /\ running' = FALSE
    /\ UNCHANGED <<lock, thread, promise, starting, stopping, down>>
-----------------------------------------------------------------------------
(* stop(block)                                                             *)

StopCall(c) ==
    /\ Idle(c) /\ MayStop
    /\ \E b \in StopModes : block' = [block EXCEPT ![c] = b]
    /\ spc' = [spc EXCEPT ![c] = "want"]
    /\ UNCHANGED <<lock, running, thread, rpc, promise, starting, target, down>>

(* stop() on the receiver thread itself. *)
StopWithin(r) ==
    /\ spc[r] = "idle"
    /\ \/ "handler" \in SelfStops /\ rpc[r] = "handler"
       \/ "callback" \in SelfStops /\ rpc[r] = "answered"
    /\ block' = [block EXCEPT ![r] = TRUE]
    /\ spc' = [spc EXCEPT ![r] = "want"]
    /\ UNCHANGED <<lock, running, thread, rpc, promise, starting, target, down>>

(* A bug for the properties to catch: stop() waits for nothing.            *)
StopAcquireHasty(x) ==
    /\ spc[x] = "want" /\ lock = None
    /\ lock' = x
    /\ running' = FALSE
    /\ spc' = [spc EXCEPT ![x] = "clear"]
    /\ UNCHANGED <<thread, rpc, promise, starting, block, target, down>>

(* Take the lock, signal run(), and see whether there is a thread to wait for. *)
StopAcquire(x) ==
    /\ spc[x] = "want" /\ lock = None
    /\ lock' = x
    /\ running' = FALSE
    /\ spc' = [spc EXCEPT ![x] = IF block[x] /\ thread \notin {None, x}
                                 THEN "join" ELSE "clear"]
    /\ UNCHANGED <<thread, rpc, promise, starting, block, target, down>>

(* `self._thread.join()` reads _thread again; start() may have changed it. *)
StopJoin(x) ==
    /\ spc[x] = "join" /\ rpc[thread] # "created"
    /\ target' = [target EXCEPT ![x] = thread]
    /\ spc' = [spc EXCEPT ![x] = "joining"]
    /\ UNCHANGED <<lock, running, thread, rpc, promise, starting, block, down>>

(* RuntimeError: cannot join a thread before it is started. *)
StopFault(x) ==
    /\ spc[x] = "join" /\ rpc[thread] = "created"
    /\ lock' = None
    /\ spc' = [spc EXCEPT ![x] = "idle"]
    /\ UNCHANGED <<running, thread, rpc, promise, starting, block, target, down>>

StopJoined(x) ==
    /\ spc[x] = "joining" /\ rpc[target[x]] = "dead"
    /\ spc' = [spc EXCEPT ![x] = "clear"]
    /\ UNCHANGED <<lock, running, thread, rpc, promise, starting, block, target, down>>

(* `self._thread = None`, release the lock, return. *)
StopClear(x) ==
    /\ spc[x] = "clear"
    /\ thread' = None
    /\ lock' = None
    /\ spc' = [spc EXCEPT ![x] = "idle"]
    /\ down' = (down \/ (x \in Clients /\ block[x]))
    /\ UNCHANGED <<running, rpc, promise, starting, block, target>>
-----------------------------------------------------------------------------
StartStep(c) == StartLaunch(c) \/ StartFault(c) \/ StartReturn(c) \/ StartTimeout(c)
ReceiverStep(r) == \/ ReceiverLock(r) \/ OpenFails(r) \/ OpenReturns(r) \/ ReceiverUnlock(r)
                   \/ RunEnter(r) \/ LoopCheck(r) \/ Receive(r) \/ HandlerReturns(r)
                   \/ ReceiverExit(r)
StopStep(x) == StopAcquire(x) \/ StopJoin(x) \/ StopFault(x) \/ StopJoined(x) \/ StopClear(x)

Next == \/ \E c \in Clients : StartAssign(c) \/ StartStep(c)
        \/ \E c \in Stoppers : StopCall(c)
        \/ \E r \in Receivers : ReceiverStep(r) \/ StopWithin(r)
        \/ \E x \in Threads : StopStep(x)

(* Threads that can go on do, and get the lock if it keeps coming free;    *)
(* open(), on_received and the receive call of the channel return.  Nobody *)
(* has to call start() or stop(), and the channel need never end.          *)
Fairness ==
    /\ \A c \in Clients : WF_vars(StartStep(c))
    /\ \A r \in Receivers : SF_vars(ReceiverStep(r))
    /\ \A x \in Threads : SF_vars(StopStep(x))

Spec == Init /\ [][Next]_vars
FairSpec == Spec /\ Fairness
-----------------------------------------------------------------------------
TypeOK ==
    /\ lock \in Threads \union {None}
    /\ running \in BOOLEAN
    /\ thread \in Receivers \union {None}
    /\ rpc \in [Receivers -> {"unborn", "created", "dead"} \union Alive]
    /\ promise \in [Receivers -> {"pending", "opened", "failed"}]
    /\ cpc \in [Clients -> {"idle", "launch", "result"}]
    /\ mine \in [Clients -> Receivers \union {None}]
    /\ spc \in [Threads -> {"idle", "want", "join", "joining", "clear"}]
    /\ block \in [Threads -> BOOLEAN]
    /\ target \in [Threads -> Receivers \union {None}]
    /\ down \in BOOLEAN
    /\ \A c \in Clients : cpc[c] # "idle" => mine[c] \in Receivers

(* One transport has one receive loop, across any number of restarts:      *)
(* messages are handed to on_received by one thread at a time.             *)
OneLoop == \A q, r \in Receivers : rpc[q] \in InRun /\ rpc[r] \in InRun => q = r

(* The public attribute `running` tells the truth: it is up only while a   *)
(* thread is in run(), so a dead transport does not look alive.            *)
RunningIsTrue == running => \E r \in Receivers : rpc[r] \in InRun

(* open() is called by one thread at a time, and not while stop() is busy, *)
(* no matter who calls what when: the channel is not opened twice at once. *)
OpenAlone ==
    \A q \in Receivers : rpc[q] = "opening" =>
        /\ \A r \in Receivers : rpc[r] \in {"opening", "answered"} => r = q
        /\ \A x \in Threads : spc[x] \notin {"join", "joining", "clear"}

(* What stop() says (transports.py:168-169): if block is True, it waits    *)
(* until run() returns.                                                    *)
StopWaitsForRun ==
    [][\A c \in Clients :
          (spc[c] = "clear" /\ spc'[c] = "idle" /\ block[c])
              => \A r \in Receivers : rpc[r] \notin Alive]_vars

(* stop() ends: the signal reaches run(), and nobody who is waited for     *)
(* waits for the lock of the waiting one.                                  *)
StopReturns == \A x \in Threads : spc[x] = "want" ~> spc[x] = "idle"
=============================================================================
