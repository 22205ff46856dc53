------------------------------ MODULE Restarting ------------------------------
(***************************************************************************)
(* RestartingTransport (quickrpc/transports.py): its receiver thread, here *)
(* the keeper, starts the transport it wraps without waiting, polls what   *)
(* became of the start, starts it again some time after it went down, and  *)
(* stops it when it is stopped itself.                                     *)
(*                                                                         *)
(* The wrapped transport is Transport.tla with the keeper as its only      *)
(* client; its variables have the names they have there.  start() and      *)
(* stop() of the restarting transport itself are those of careful clients. *)
(***************************************************************************)
EXTENDS Integers

CONSTANTS Keeper,        \* the thread that is in run()
          Receivers,     \* threads of the wrapped transport
          CheckInterval, \* rounds of the loop between two attempts
          None           \* no thread

ASSUME RestartingAssumption ==
    /\ CheckInterval \in Nat \ {0}
    /\ Keeper \notin Receivers /\ None \notin Receivers \union {Keeper}

VARIABLES lock, running, thread, rpc, promise, cpc, mine, spc, block, target, down,
          up,             \* `running` of the restarting transport
          kpc,            \* where its receiver thread is
          _start_promise, \* the receiver that is to set it, or None
          restart_timer,
          late,           \* receivers whose open() failed with a TimeoutError
          waiter          \* the receiver whose on_received is in stop(), or None

Child == INSTANCE Transport WITH
            Clients <- {Keeper}, Stoppers <- {Keeper}, StartModes <- {FALSE},
            StopModes <- {TRUE}, SelfStops <- {}, Careful <- FALSE

child == <<lock, running, thread, rpc, promise, cpc, mine, spc, block, target, down>>
keeper == <<up, kpc, _start_promise, restart_timer>>
vars == <<child, keeper, late, waiter>>

Init ==
    /\ Child!Init
    /\ up = FALSE /\ kpc = "down"
    /\ _start_promise = None /\ restart_timer = CheckInterval
    /\ late = {} /\ waiter = None

Goto(from, to) == kpc = from /\ kpc' = to
-----------------------------------------------------------------------------
(* start() of the restarting transport, and open() on its thread           *)

Start ==
    /\ Goto("down", "open")
    /\ UNCHANGED <<child, up, _start_promise, restart_timer, late, waiter>>

(* transport.start(block=False): make a thread, ... *)
ChildStart(from, to) ==
    /\ Goto(from, to)
    /\ Child!StartAssign(Keeper)
    /\ UNCHANGED <<up, _start_promise, restart_timer, late, waiter>>

(* ... launch it, and keep its promise.  The timer is set anew. *)
ChildLaunch(from, to) ==
    /\ Goto(from, to)
    /\ Child!StartLaunch(Keeper)
    /\ _start_promise' = mine[Keeper]
    /\ restart_timer' = CheckInterval
    /\ UNCHANGED <<up, late, waiter>>

Open == ChildStart("open", "opening") \/ ChildLaunch("opening", "entering")
-----------------------------------------------------------------------------
(* run()                                                                   *)

RunEnter ==
    /\ Goto("entering", "loop")
    /\ up' = TRUE
    /\ restart_timer' = CheckInterval
    /\ UNCHANGED <<child, _start_promise, late, waiter>>

(* A bug for the properties to catch: a start is brought to its end first. *)
LoopCheckPatient ==
    /\ Goto("loop", IF up \/ _start_promise # None THEN "sleep" ELSE "leave")
    /\ UNCHANGED <<child, up, _start_promise, restart_timer, late, waiter>>

(* `while self.running`. *)
LoopCheck ==
    /\ Goto("loop", IF up THEN "sleep" ELSE "leave")
    /\ UNCHANGED <<child, up, _start_promise, restart_timer, late, waiter>>

(* A second is long enough for a thread that has opened to get into run(), *)
(* and for one that could not to end.                                      *)
Sleep ==
    /\ Goto("sleep", IF _start_promise # None THEN "await" ELSE "look")
    /\ \A r \in Receivers : rpc[r] \notin {"answered", "entering"}
    /\ UNCHANGED <<child, up, _start_promise, restart_timer, late, waiter>>

(* result() raises a TimeoutError: its own, or the one that open() raised. *)
TimedOut == \/ promise[_start_promise] = "pending"
            \/ promise[_start_promise] = "failed" /\ _start_promise \in late

(* A bug for the properties to catch: a failed start is awaited for ever.  *)
AwaitHopeful ==
    /\ Goto("await", "loop")
    /\ _start_promise' = IF promise[_start_promise] = "opened" THEN None ELSE _start_promise
    /\ UNCHANGED <<child, up, restart_timer, late, waiter>>

(* `self._start_promise.result(timeout=1.0)`: nothing is done about a      *)
(* TimeoutError, and otherwise the start is over, well or not.             *)
Await ==
    /\ Goto("await", "loop")
    /\ _start_promise' = IF TimedOut THEN _start_promise ELSE None
    /\ UNCHANGED <<child, up, restart_timer, late, waiter>>

(* The wrapped transport runs, or the time for another attempt has not     *)
(* come, or it has.                                                        *)
Look ==
    /\ LET left == IF running THEN restart_timer ELSE restart_timer - 1
       IN /\ restart_timer' = left
          /\ Goto("look", IF ~running /\ left <= 0 THEN "retry" ELSE "loop")
    /\ UNCHANGED <<child, up, _start_promise, late, waiter>>

Retry == ChildStart("retry", "retrying") \/ ChildLaunch("retrying", "loop")

(* `self.transport.stop()`, which blocks, ... *)
Leave ==
    /\ Goto("leave", "stopping")
    /\ Child!StopCall(Keeper)
    /\ UNCHANGED <<up, _start_promise, restart_timer, late, waiter>>

ChildStop ==
    /\ \/ Child!StopAcquire(Keeper) \/ Child!StopJoin(Keeper)
       \/ Child!StopJoined(Keeper) \/ Child!StopClear(Keeper)
    /\ UNCHANGED <<keeper, late, waiter>>

(* A bug for the properties to catch: run() does not wait for stop().      *)
LeftHasty ==
    /\ Goto("stopping", "down")
    /\ up' = FALSE
    /\ UNCHANGED <<child, _start_promise, restart_timer, late, waiter>>

(* ... and the thread ends. *)
Left ==
    /\ Goto("stopping", "down") /\ spc[Keeper] = "idle"
    /\ up' = FALSE
    /\ UNCHANGED <<child, _start_promise, restart_timer, late, waiter>>
-----------------------------------------------------------------------------
(* stop() of the restarting transport                                      *)

Stop ==
    /\ up /\ up' = FALSE
    /\ UNCHANGED <<child, kpc, _start_promise, restart_timer, late, waiter>>

(* on_received calls it.  That is on a thread of the wrapped transport,    *)
(* so stop() takes it for a foreign thread and joins the keeper.           *)
HandlerStops(r) ==
    /\ rpc[r] = "handler" /\ waiter = None
    /\ up /\ up' = FALSE
    /\ waiter' = r
    /\ UNCHANGED <<child, kpc, _start_promise, restart_timer, late>>
-----------------------------------------------------------------------------
(* The threads of the wrapped transport                                    *)

ChildOpenFails(r) ==
    /\ Child!OpenFails(r)
    /\ late' \in {late, late \union {r}}
    /\ UNCHANGED <<keeper, waiter>>

ChildHandlerReturns(r) ==
    /\ Child!HandlerReturns(r)
    /\ waiter = r => kpc = "down"
    /\ waiter' = IF waiter = r THEN None ELSE waiter
    /\ UNCHANGED <<keeper, late>>

ChildStep(r) ==
    /\ \/ Child!ReceiverLock(r) \/ Child!OpenReturns(r) \/ Child!ReceiverUnlock(r)
       \/ Child!RunEnter(r) \/ Child!LoopCheck(r) \/ Child!Receive(r)
       \/ Child!ReceiverExit(r)
    /\ UNCHANGED <<keeper, late, waiter>>

(* Threads are objects without end: one that is dead and that nobody       *)
(* remembers serves for the next.                                          *)
Forgotten(r) ==
    /\ rpc[r] = "dead"
    /\ r \notin {thread, mine[Keeper], _start_promise}
    /\ rpc' = [rpc EXCEPT ![r] = "unborn"]
    /\ promise' = [promise EXCEPT ![r] = "pending"]
    /\ late' = late \ {r}
    /\ target' = [target EXCEPT ![Keeper] = IF @ = r THEN None ELSE @]
    /\ UNCHANGED <<lock, running, thread, cpc, mine, spc, block, down, keeper, waiter>>
-----------------------------------------------------------------------------
KeeperStep == Open \/ RunEnter \/ LoopCheck \/ Sleep \/ Await \/ Look \/ Retry
              \/ Leave \/ ChildStop \/ Left
ThreadStep(r) == ChildStep(r) \/ ChildOpenFails(r) \/ ChildHandlerReturns(r) \/ Forgotten(r)

Next == \/ Start \/ KeeperStep \/ Stop
        \/ \E r \in Receivers : ThreadStep(r) \/ HandlerStops(r)

(* Threads go on when they can; open() and on_received return.  Nobody has *)
(* to start or stop anything.                                              *)
Fairness == WF_vars(KeeperStep) /\ \A r \in Receivers : WF_vars(ThreadStep(r))

Spec == Init /\ [][Next]_vars
FairSpec == Spec /\ Fairness
-----------------------------------------------------------------------------
Alive(r) == rpc[r] \in Child!Alive

TypeOK ==
    /\ Child!TypeOK
    /\ up \in BOOLEAN /\ restart_timer \in 0..CheckInterval
    /\ kpc \in {"down", "open", "opening", "entering", "loop", "sleep", "await", "look",
                "retry", "retrying", "leave", "stopping"}
    /\ _start_promise \in Receivers \union {None}
    /\ kpc = "await" => _start_promise # None
    /\ late \subseteq Receivers /\ waiter \in Receivers \union {None}

(* However often the wrapped transport fails, comes up and goes down, and  *)
(* however late a start is answered: the keeper never starts it while an   *)
(* earlier thread of it lives, and leaves none of them when it ends.       *)
OneChild ==
    /\ \A q, r \in Receivers : Alive(q) /\ Alive(r) => q = r
    /\ kpc \in {"down", "open"} => \A r \in Receivers : ~Alive(r)

(* The keeper waits for an answer that it already has.                     *)
GivenUp == \E r \in late : _start_promise = r /\ promise[r] = "failed"

(* A transport that went down is started again, unless its start has ended *)
(* with a TimeoutError.                                                    *)
Down == \A r \in Receivers : ~Alive(r)
Restarts == kpc = "loop" /\ Down ~> ~Down \/ ~up \/ GivenUp

(* What the class says (transports.py:398): restarting is attempted as     *)
(* long as the transport is running.                                       *)
RestartsAlways == kpc = "loop" /\ Down ~> ~Down \/ ~up

(* The thread that is joined waits for the lock of the keeper, or has set  *)
(* `running` after the keeper had cleared it, or joins the keeper.         *)
Trapped == \E r \in Receivers :
              /\ spc[Keeper] = "joining" /\ target[Keeper] = r
              /\ rpc[r] = "starting" \/ running \/ waiter = r

(* Once it is stopped the keeper ends, and with it the wrapped transport,  *)
(* at whatever stage of a start or a restart it was.                       *)
Ends == kpc = "loop" /\ ~up ~> kpc = "down" \/ Trapped
=============================================================================
