---------------------------- MODULE TransportProofs ----------------------------
(***************************************************************************)
(* Proofs about Transport for any sets of clients and receiver threads:    *)
(* first what holds however start() and stop() are used, then what the     *)
(* discipline of careful clients buys.                                     *)
(***************************************************************************)
EXTENDS Transport, TLAPS

(* A thread between the acquisition and the release of _transition_lock.   *)
Inside(x) == \/ spc[x] \in {"join", "joining", "clear"}
             \/ x \in Receivers /\ rpc[x] \in {"opening", "answered"}

LockInv == \A x \in Threads : Inside(x) <=> lock = x

(* A receiver thread calls stop() from a callback or a handler only, and   *)
(* from a callback, which runs under the lock, it gets no further.         *)
WithinInv == \A r \in Receivers :
    /\ spc[r] # "idle" => rpc[r] \in {"answered", "handler"}
    /\ rpc[r] = "answered" => spc[r] \in {"idle", "want"}

AnyUseInv == TypeOK /\ LockInv /\ WithinInv /\ RunningIsTrue
-----------------------------------------------------------------------------
(* Receiver threads leave the clients alone, and stop() the receivers.     *)
LEMMA ReceiverFrame ==
    ASSUME NEW r \in Receivers, ReceiverStep(r)
    PROVE  /\ UNCHANGED <<thread, starting, stopping, down>>
           /\ \E to \in {"dead"} \union Alive : rpc' = [rpc EXCEPT ![r] = to]
           /\ rpc[r] \in Alive
BY DEF ReceiverStep, ReceiverLock, OpenFails, OpenReturns, Answer, ReceiverUnlock, RunEnter,
       LoopCheck, Receive, HandlerReturns, ReceiverExit, Goto, Alive, InRun

(* What stop() leaves alone. *)
LEMMA StopFrame ==
    ASSUME NEW x \in Threads, StopStep(x)
    PROVE  UNCHANGED <<rpc, promise, starting, block>>
BY DEF StopStep, StopAcquire, StopJoin, StopFault, StopJoined, StopClear, stopping, starting

(* Every step keeps the types. *)
LEMMA TypeStep == TypeOK /\ [Next]_vars => TypeOK'
<1>. SUFFICES ASSUME TypeOK, [Next]_vars PROVE TypeOK'
  OBVIOUS
<1>. USE DEF TypeOK, starting, stopping
<1>1. ASSUME NEW c \in Clients, StartAssign(c) PROVE TypeOK'
  <2>1. PICK r \in Receivers : /\ thread' = r
                               /\ rpc' = [rpc EXCEPT ![r] = "created"]
                               /\ mine' = [mine EXCEPT ![c] = r]
    BY <1>1 DEF StartAssign, Unborn
  <2>2. UNCHANGED <<lock, running, promise, stopping>>
    BY <1>1 DEF StartAssign
  <2>3. cpc' = [cpc EXCEPT ![c] = "launch"] /\ down' = FALSE
    BY <1>1 DEF StartAssign
  <2>. QED  BY <2>1, <2>2, <2>3
<1>2. ASSUME NEW c \in Clients, StartStep(c) PROVE TypeOK'
  <2>1. CASE StartLaunch(c)
    BY <2>1 DEF StartLaunch, Alive
  <2>2. CASE StartFault(c) \/ StartReturn(c) \/ StartTimeout(c)
    BY <2>2 DEF StartFault, StartReturn, StartTimeout
  <2>. QED  BY <1>2, <2>1, <2>2 DEF StartStep
<1>3. ASSUME NEW c \in Stoppers, StopCall(c) PROVE TypeOK'
  BY <1>3, TransportAssumption DEF StopCall, Threads
<1>4. ASSUME NEW r \in Receivers, ReceiverStep(r) PROVE TypeOK'
  <2>1. rpc' \in [Receivers -> {"unborn", "created", "dead"} \union Alive]
    BY <1>4, ReceiverFrame
  <2>2. UNCHANGED <<thread, starting, stopping, down>>
    BY <1>4, ReceiverFrame
  <2>3. promise' \in [Receivers -> {"pending", "opened", "failed"}]
    BY <1>4 DEF ReceiverStep, ReceiverLock, OpenFails, OpenReturns, Answer, ReceiverUnlock,
                RunEnter, LoopCheck, Receive, HandlerReturns, ReceiverExit
  <2>4. lock' \in Threads \union {None} /\ running' \in BOOLEAN
    BY <1>4 DEF ReceiverStep, ReceiverLock, OpenFails, OpenReturns, Answer, ReceiverUnlock,
                RunEnter, LoopCheck, Receive, HandlerReturns, ReceiverExit, Threads
  <2>. QED  BY <2>1, <2>2, <2>3, <2>4
<1>5. ASSUME NEW r \in Receivers, StopWithin(r) PROVE TypeOK'
  BY <1>5 DEF StopWithin, Threads
<1>6. ASSUME NEW x \in Threads, StopStep(x) PROVE TypeOK'
  <2>1. CASE StopAcquire(x)
    BY <2>1 DEF StopAcquire
  <2>2. CASE StopJoin(x)
    BY <2>2 DEF StopJoin
  <2>3. CASE StopFault(x) \/ StopJoined(x)
    BY <2>3 DEF StopFault, StopJoined
  <2>4. CASE StopClear(x)
    <3>1. down' \in BOOLEAN
      BY <2>4 DEF StopClear
    <3>. QED  BY <2>4, <3>1 DEF StopClear
  <2>. QED  BY <1>6, <2>1, <2>2, <2>3, <2>4 DEF StopStep
<1>7. CASE UNCHANGED vars
  BY <1>7 DEF vars
<1>. QED  BY <1>1, <1>2, <1>3, <1>4, <1>5, <1>6, <1>7 DEF Next

(* The lock is with the thread that opens or is inside of stop(). *)
LEMMA LockStep == TypeOK /\ LockInv /\ WithinInv /\ [Next]_vars => LockInv' /\ WithinInv'
<1>. SUFFICES ASSUME TypeOK, LockInv, WithinInv, [Next]_vars PROVE LockInv' /\ WithinInv'
  OBVIOUS
<1>. USE DEF TypeOK, LockInv, WithinInv, Inside, starting, stopping, Threads
<1>1. None \notin Threads /\ Clients \intersect Receivers = {} /\ Stoppers \subseteq Clients
  BY TransportAssumption
<1>2. ASSUME NEW c \in Clients, StartAssign(c) PROVE LockInv' /\ WithinInv'
  <2>1. PICK r \in Unborn : rpc' = [rpc EXCEPT ![r] = "created"]
    BY <1>2 DEF StartAssign
  <2>2. rpc[r] = "unborn" /\ r \in Receivers /\ UNCHANGED <<lock, spc>>
    BY <1>2, <2>1 DEF StartAssign, Unborn
  <2>. QED  BY <2>1, <2>2
<1>3. ASSUME NEW c \in Clients, StartStep(c) PROVE LockInv' /\ WithinInv'
  <2>1. UNCHANGED <<lock, spc>>
    BY <1>3 DEF StartStep, StartLaunch, StartFault, StartReturn, StartTimeout
  <2>2. \A r \in Receivers :
          \/ rpc'[r] = rpc[r]
          \/ rpc[r] = "created" /\ rpc'[r] = "starting"
    BY <1>3 DEF StartStep, StartLaunch, StartFault, StartReturn, StartTimeout
  <2>. QED  BY <2>1, <2>2
<1>4. ASSUME NEW c \in Stoppers, StopCall(c) PROVE LockInv' /\ WithinInv'
  BY <1>1, <1>4 DEF StopCall, Idle
<1>5. ASSUME NEW r \in Receivers, ReceiverStep(r) PROVE LockInv' /\ WithinInv'
  <2>1. CASE ReceiverLock(r)
    BY <1>1, <2>1 DEF ReceiverLock, Goto
  <2>2. CASE OpenFails(r) \/ OpenReturns(r)
    BY <1>1, <2>2 DEF OpenFails, OpenReturns, Answer, Goto
  <2>3. CASE ReceiverUnlock(r)
    BY <1>1, <2>3 DEF ReceiverUnlock, Goto
  <2>4. CASE RunEnter(r) \/ LoopCheck(r) \/ Receive(r) \/ HandlerReturns(r) \/ ReceiverExit(r)
    <3>1. UNCHANGED <<lock, spc>> /\ (rpc[r] = "handler" => spc[r] = "idle")
      BY <2>4 DEF RunEnter, LoopCheck, Receive, HandlerReturns, ReceiverExit, Goto
    <3>2. \E to \in {"dead", "loop", "recv", "handler", "exiting"} : rpc' = [rpc EXCEPT ![r] = to]
      BY <2>4 DEF RunEnter, LoopCheck, Receive, HandlerReturns, ReceiverExit, Goto
    <3>3. rpc[r] \notin {"opening", "answered"}
      BY <2>4 DEF RunEnter, LoopCheck, Receive, HandlerReturns, ReceiverExit, Goto
    <3>. QED  BY <3>1, <3>2, <3>3
  <2>. QED  BY <1>5, <2>1, <2>2, <2>3, <2>4 DEF ReceiverStep
<1>6. ASSUME NEW r \in Receivers, StopWithin(r) PROVE LockInv' /\ WithinInv'
  BY <1>6 DEF StopWithin
<1>7. ASSUME NEW x \in Threads, StopStep(x) PROVE LockInv' /\ WithinInv'
  <2>1. UNCHANGED rpc
    BY <1>7, StopFrame
  <2>2. CASE StopAcquire(x)
    BY <1>1, <2>1, <2>2 DEF StopAcquire
  <2>3. CASE StopJoin(x) \/ StopJoined(x)
    BY <1>1, <2>1, <2>3 DEF StopJoin, StopJoined
  <2>4. CASE StopFault(x) \/ StopClear(x)
    BY <1>1, <2>1, <2>4 DEF StopFault, StopClear
  <2>. QED  BY <1>7, <2>2, <2>3, <2>4 DEF StopStep
<1>8. CASE UNCHANGED vars
  BY <1>8 DEF vars
<1>. QED  BY <1>2, <1>3, <1>4, <1>5, <1>6, <1>7, <1>8 DEF Next

(* `running` goes up in a thread that has entered run(), and that thread   *)
(* takes it down when it leaves.                                           *)
LEMMA RunningStep == TypeOK /\ RunningIsTrue /\ [Next]_vars => RunningIsTrue'
<1>. SUFFICES ASSUME TypeOK, RunningIsTrue, [Next]_vars PROVE RunningIsTrue'
  OBVIOUS
<1>. USE DEF TypeOK, RunningIsTrue, InRun, starting, stopping
<1>1. ASSUME NEW r \in Receivers, ReceiverStep(r) PROVE RunningIsTrue'
  <2>1. CASE ReceiverLock(r) \/ OpenFails(r) \/ OpenReturns(r) \/ ReceiverUnlock(r)
    BY <2>1 DEF ReceiverLock, OpenFails, OpenReturns, Answer, ReceiverUnlock, Goto
  <2>2. CASE RunEnter(r)
    BY <2>2 DEF RunEnter, Goto
  <2>3. CASE LoopCheck(r) \/ Receive(r) \/ HandlerReturns(r)
    BY <2>3 DEF LoopCheck, Receive, HandlerReturns, Goto
  <2>4. CASE ReceiverExit(r)
    BY <2>4 DEF ReceiverExit
  <2>. QED  BY <1>1, <2>1, <2>2, <2>3, <2>4 DEF ReceiverStep
<1>2. CASE /\ running' = running \/ ~running'
           /\ \A r \in Receivers : rpc[r] \in InRun => rpc'[r] = rpc[r]
  BY <1>2
<1>3. ASSUME NEW c \in Clients, StartAssign(c) PROVE RunningIsTrue'
  <2>1. PICK r \in Unborn : rpc' = [rpc EXCEPT ![r] = "created"]
    BY <1>3 DEF StartAssign
  <2>. QED  BY <1>2, <1>3, <2>1 DEF StartAssign, Unborn
<1>4. ASSUME NEW c \in Clients, StartStep(c) PROVE RunningIsTrue'
  BY <1>2, <1>4 DEF StartStep, StartLaunch, StartFault, StartReturn, StartTimeout
<1>5. ASSUME NEW c \in Stoppers, StopCall(c) PROVE RunningIsTrue'
  BY <1>2, <1>5 DEF StopCall
<1>6. ASSUME NEW r \in Receivers, StopWithin(r) PROVE RunningIsTrue'
  BY <1>2, <1>6 DEF StopWithin
<1>7. ASSUME NEW x \in Threads, StopStep(x) PROVE RunningIsTrue'
  <2>1. running' = running \/ ~running'
    BY <1>7 DEF StopStep, StopAcquire, StopJoin, StopFault, StopJoined, StopClear
  <2>. QED  BY <1>2, <1>7, <2>1, StopFrame
<1>8. CASE UNCHANGED vars
  BY <1>8 DEF vars
<1>. QED  BY <1>1, <1>3, <1>4, <1>5, <1>6, <1>7, <1>8 DEF Next

(* What holds whatever the clients do. *)
LEMMA AnyUse == Spec => []AnyUseInv
<1>1. Init => AnyUseInv
  <2>. SUFFICES ASSUME Init PROVE AnyUseInv
    OBVIOUS
  <2>1. TypeOK
    BY DEF Init, TypeOK
  <2>2. LockInv
    BY TransportAssumption DEF Init, LockInv, Inside, Threads
  <2>3. WithinInv
    BY DEF Init, WithinInv, Threads
  <2>4. RunningIsTrue
    BY DEF Init, RunningIsTrue
  <2>. QED  BY <2>1, <2>2, <2>3, <2>4 DEF AnyUseInv
<1>2. AnyUseInv /\ [Next]_vars => AnyUseInv'
  BY TypeStep, LockStep, RunningStep DEF AnyUseInv
<1>. QED  BY <1>1, <1>2, PTL DEF Spec

(* Every field and every program counter keeps its type.                   *)
THEOREM TypeCorrect == Spec => []TypeOK
<1>1. AnyUseInv => TypeOK
  BY DEF AnyUseInv
<1>. QED  BY <1>1, AnyUse, PTL

(* `running` is up only while a thread is in run(), whoever calls start()  *)
(* and stop() when, in any mode and on any thread.                         *)
THEOREM RunningTrue == Spec => []RunningIsTrue
<1>1. AnyUseInv => RunningIsTrue
  BY DEF AnyUseInv
<1>. QED  BY <1>1, AnyUse, PTL

(* open() excludes open() and the body of stop(), for any use as well.     *)
THEOREM OpensAlone == Spec => []OpenAlone
<1>1. AnyUseInv => OpenAlone
  <2>. SUFFICES ASSUME AnyUseInv, NEW q \in Receivers, rpc[q] = "opening"
                PROVE  /\ \A r \in Receivers : rpc[r] \in {"opening", "answered"} => r = q
                       /\ \A x \in Threads : spc[x] \notin {"join", "joining", "clear"}
    BY DEF OpenAlone
  <2>1. lock = q /\ spc[q] = "idle"
    BY DEF AnyUseInv, LockInv, WithinInv, Inside, Threads
  <2>2. \A r \in Receivers : rpc[r] \in {"opening", "answered"} => r = lock
    BY DEF AnyUseInv, LockInv, Inside, Threads
  <2>3. \A x \in Threads : spc[x] \in {"join", "joining", "clear"} => x = lock
    BY DEF AnyUseInv, LockInv, Inside
  <2>. QED  BY <2>1, <2>2, <2>3
<1>. QED  BY <1>1, AnyUse, PTL
-----------------------------------------------------------------------------
(* Careful clients, which use only the blocking stop(), and a transport    *)
(* that nobody stops from within.                                          *)
CarefulUse == Careful /\ SelfStops = {} /\ StopModes = {TRUE}

(* A receiver thread that will not get, or will not get back, into run().  *)
Gone(r) == \/ rpc[r] \in {"unborn", "dead"}
           \/ rpc[r] = "answered" /\ promise[r] = "failed"

(* While a client is in start(), nobody else is in start() or stop().      *)
StartInv == \A c \in Clients : cpc[c] # "idle" =>
    /\ thread = mine[c]
    /\ \A d \in Clients : spc[d] = "idle" /\ (d # c => cpc[d] = "idle")

(* _thread is the only thread that is not gone, and what the clients       *)
(* believe to be down, or stop() is about to declare so, is down.          *)
OnlyInv ==
    /\ \A r \in Receivers : ~Gone(r) => thread = r
    /\ \A r \in Receivers : promise[r] = "failed" => rpc[r] \in {"answered", "dead"}
    /\ down => \A r \in Receivers : Gone(r)
    /\ \A x \in Clients : spc[x] = "clear" => \A r \in Receivers : Gone(r)

StopInv ==
    /\ \A r \in Receivers : spc[r] = "idle"
    /\ \A x \in Threads : block[x] /\ (spc[x] = "joining" => target[x] = thread)

CarefulInv == AnyUseInv /\ StartInv /\ OnlyInv /\ StopInv

(* A careful client makes a new thread when the earlier ones are dead. *)
LEMMA CarefulStartAssign ==
    ASSUME CarefulUse, CarefulInv, NEW c \in Clients, StartAssign(c)
    PROVE  StartInv' /\ OnlyInv' /\ StopInv'
<1>. USE DEF CarefulInv, AnyUseInv, TypeOK, starting, stopping
<1>1. down /\ \A d \in Clients : Idle(d)
  BY DEF StartAssign, MayStart, CarefulUse
<1>2. PICK r \in Unborn : /\ rpc' = [rpc EXCEPT ![r] = "created"]
                          /\ thread' = r /\ mine' = [mine EXCEPT ![c] = r]
  BY DEF StartAssign
<1>3. r \in Receivers /\ rpc[r] = "unborn"
  BY DEF Unborn
<1>4. UNCHANGED <<promise, spc, block, target>> /\ ~down' /\ cpc' = [cpc EXCEPT ![c] = "launch"]
  BY DEF StartAssign
<1>5. StartInv'
  BY <1>1, <1>2, <1>3, <1>4 DEF StartInv, Idle
<1>6. \A q \in Receivers : q # r => Gone(q)'
  BY <1>1, <1>2, <1>3, <1>4 DEF OnlyInv, Gone
<1>7. OnlyInv'
  <2>1. \A x \in Clients : spc'[x] # "clear"
    BY <1>1, <1>4 DEF Idle
  <2>2. \A q \in Receivers : promise'[q] = "failed" => rpc'[q] \in {"answered", "dead"}
    BY <1>2, <1>3, <1>4 DEF OnlyInv
  <2>. QED  BY <1>2, <1>4, <1>6, <2>1, <2>2 DEF OnlyInv
<1>8. StopInv'
  BY <1>1, <1>4 DEF StopInv, Idle, Threads
<1>. QED  BY <1>5, <1>7, <1>8

(* The other steps of start(). *)
LEMMA CarefulStart ==
    ASSUME CarefulUse, CarefulInv, NEW c \in Clients, StartStep(c)
    PROVE  StartInv' /\ OnlyInv' /\ StopInv'
<1>. USE DEF CarefulInv, AnyUseInv, TypeOK, starting, stopping
<1>1. UNCHANGED <<thread, promise, mine, spc, block, target>> /\ cpc[c] # "idle"
  BY DEF StartStep, StartLaunch, StartFault, StartReturn, StartTimeout
<1>2. \E to \in {"idle", "result"} : cpc' = [cpc EXCEPT ![c] = to]
  BY DEF StartStep, StartLaunch, StartFault, StartReturn, StartTimeout
<1>3. \A r \in Receivers :
        \/ rpc'[r] = rpc[r]
        \/ r = thread /\ rpc[r] = "created" /\ rpc'[r] = "starting"
  BY DEF StartStep, StartLaunch, StartFault, StartReturn, StartTimeout
<1>4. \A r \in Receivers : Gone(r)' <=> Gone(r)
  BY <1>1, <1>3 DEF Gone
<1>5. down' => \A r \in Receivers : Gone(r)
  <2>1. down' => down \/ promise[mine[c]] = "failed"
    BY DEF StartStep, StartLaunch, StartFault, StartReturn, StartTimeout
  <2>2. thread = mine[c] /\ mine[c] \in Receivers
    BY <1>1 DEF StartInv
  <2>3. promise[mine[c]] = "failed" => Gone(mine[c])
    BY <2>2 DEF OnlyInv, Gone
  <2>. QED  BY <2>1, <2>2, <2>3 DEF OnlyInv
<1>6. StartInv'
  BY <1>1, <1>2 DEF StartInv
<1>7. OnlyInv'
  BY <1>1, <1>3, <1>4, <1>5 DEF OnlyInv
<1>. QED  BY <1>1, <1>6, <1>7 DEF StopInv

(* The steps of the receiver thread. *)
LEMMA CarefulReceiver ==
    ASSUME CarefulInv, NEW r \in Receivers, ReceiverStep(r)
    PROVE  StartInv' /\ OnlyInv' /\ StopInv'
<1>. USE DEF CarefulInv, AnyUseInv, TypeOK, starting, stopping
<1>1. UNCHANGED <<thread, starting, stopping, down>>
  BY ReceiverFrame
<1>2. StartInv' /\ StopInv'
  BY <1>1 DEF StartInv, StopInv
<1>3. /\ \A q \in Receivers : Gone(q) => Gone(q)'
      /\ \A q \in Receivers : promise'[q] = "failed" => rpc'[q] \in {"answered", "dead"}
  <2>1. CASE ReceiverLock(r)
    BY <2>1 DEF ReceiverLock, Goto, Gone, OnlyInv
  <2>2. CASE OpenFails(r) \/ OpenReturns(r)
    BY <2>2 DEF OpenFails, OpenReturns, Answer, Goto, Gone, OnlyInv
  <2>3. CASE ReceiverUnlock(r)
    BY <2>3 DEF ReceiverUnlock, Goto, Gone, OnlyInv
  <2>4. CASE RunEnter(r) \/ LoopCheck(r) \/ Receive(r) \/ HandlerReturns(r) \/ ReceiverExit(r)
    <3>1. UNCHANGED promise /\ rpc[r] \in {"entering"} \union InRun
      BY <2>4 DEF RunEnter, LoopCheck, Receive, HandlerReturns, ReceiverExit, Goto, InRun
    <3>2. \A q \in Receivers : q # r => rpc'[q] = rpc[q]
      BY ReceiverFrame
    <3>. QED  BY <3>1, <3>2 DEF Gone, OnlyInv, InRun
  <2>. QED  BY <2>1, <2>2, <2>3, <2>4 DEF ReceiverStep
<1>. QED  BY <1>1, <1>2, <1>3 DEF OnlyInv

(* The steps of stop(), which a careful client does not call from within. *)
LEMMA CarefulStop ==
    ASSUME CarefulUse, CarefulInv, NEW x \in Threads, StopStep(x)
    PROVE  StartInv' /\ OnlyInv' /\ StopInv'
<1>. USE DEF CarefulInv, AnyUseInv, TypeOK, starting, stopping
<1>1. UNCHANGED <<rpc, promise, cpc, mine, block>>
  BY StopFrame
<1>2. spc[x] # "idle" /\ \A y \in Threads : y # x => spc'[y] = spc[y] /\ target'[y] = target[y]
  BY DEF StopStep, StopAcquire, StopJoin, StopFault, StopJoined, StopClear
<1>3. x \in Clients /\ x \notin Receivers
  BY <1>2, TransportAssumption DEF StopInv, Threads
<1>4. \A c \in Clients : cpc[c] = "idle"
  BY <1>2, <1>3 DEF StartInv
<1>5. StartInv'
  BY <1>1, <1>4 DEF StartInv
<1>6. \A r \in Receivers : Gone(r)' <=> Gone(r)
  BY <1>1 DEF Gone
<1>7. \A y \in Threads : y # x => spc[y] \notin {"join", "joining", "clear"} \/ lock # x
  BY DEF LockInv, Inside
<1>8. CASE StopAcquire(x)
  <2>1. spc'[x] = "clear" => thread = None
    BY <1>3, <1>8 DEF StopAcquire, StopInv
  <2>2. thread = None => \A r \in Receivers : Gone(r)
    BY TransportAssumption DEF OnlyInv, Threads
  <2>3. spc'[x] \in {"join", "clear"} /\ UNCHANGED <<thread, down, target>>
    BY <1>8 DEF StopAcquire
  <2>4. OnlyInv'
    BY <1>1, <1>2, <1>6, <2>1, <2>2, <2>3 DEF OnlyInv, Threads
  <2>5. StopInv'
    BY <1>1, <1>2, <1>3, <2>3 DEF StopInv, Threads
  <2>. QED  BY <1>5, <2>4, <2>5
<1>9. CASE StopJoin(x)
  <2>1. spc'[x] = "joining" /\ target'[x] = thread /\ UNCHANGED <<thread, down>>
    BY <1>9 DEF StopJoin
  <2>2. OnlyInv'
    BY <1>1, <1>2, <1>6, <2>1 DEF OnlyInv, Threads
  <2>3. StopInv'
    BY <1>1, <1>2, <1>3, <2>1 DEF StopInv, Threads
  <2>. QED  BY <1>5, <2>2, <2>3
<1>10. CASE StopFault(x)
  <2>1. spc'[x] = "idle" /\ UNCHANGED <<thread, down, target>>
    BY <1>10 DEF StopFault
  <2>. QED  BY <1>1, <1>2, <1>3, <1>5, <1>6, <2>1 DEF OnlyInv, StopInv, Threads
<1>11. CASE StopJoined(x)
  <2>1. spc'[x] = "clear" /\ UNCHANGED <<thread, down, target>>
    BY <1>11 DEF StopJoined
  <2>2. rpc[thread] = "dead"
    BY <1>11 DEF StopJoined, StopInv
  <2>3. \A r \in Receivers : Gone(r)
    BY <2>2 DEF OnlyInv, Gone
  <2>4. OnlyInv'
    BY <1>1, <1>2, <1>6, <2>1, <2>3 DEF OnlyInv, Threads
  <2>5. StopInv'
    BY <1>1, <1>2, <1>3, <2>1 DEF StopInv, Threads
  <2>. QED  BY <1>5, <2>4, <2>5
<1>12. CASE StopClear(x)
  <2>1. spc'[x] = "idle" /\ thread' = None /\ UNCHANGED target
    BY <1>12 DEF StopClear
  <2>2. \A r \in Receivers : Gone(r)
    BY <1>3, <1>12 DEF StopClear, OnlyInv
  <2>3. \A y \in Threads : y # x => spc[y] # "joining"
    BY <1>12 DEF StopClear, LockInv, Inside
  <2>4. OnlyInv'
    BY <1>1, <1>2, <1>6, <2>1, <2>2 DEF OnlyInv, Threads
  <2>5. StopInv'
    BY <1>1, <1>2, <1>3, <2>1, <2>3 DEF StopInv, Threads
  <2>. QED  BY <1>5, <2>4, <2>5
<1>. QED  BY <1>8, <1>9, <1>10, <1>11, <1>12 DEF StopStep

(* The inductive invariant of careful use. *)
LEMMA CarefulInductive == CarefulUse => (Spec => []CarefulInv)
<1>. SUFFICES ASSUME CarefulUse PROVE Spec => []CarefulInv
  OBVIOUS
<1>1. Init /\ AnyUseInv => CarefulInv
  <2>. SUFFICES ASSUME Init, AnyUseInv PROVE CarefulInv
    OBVIOUS
  <2>1. StartInv
    BY DEF Init, StartInv
  <2>2. OnlyInv
    BY DEF Init, OnlyInv, Gone, Threads
  <2>3. StopInv
    BY DEF Init, StopInv, Threads
  <2>. QED  BY <2>1, <2>2, <2>3 DEF CarefulInv
<1>2. CarefulInv /\ AnyUseInv' /\ [Next]_vars => CarefulInv'
  <2>. SUFFICES ASSUME CarefulInv, AnyUseInv', [Next]_vars
                PROVE  StartInv' /\ OnlyInv' /\ StopInv'
    BY DEF CarefulInv
  <2>1. ASSUME NEW c \in Clients, StartAssign(c) \/ StartStep(c)
        PROVE  StartInv' /\ OnlyInv' /\ StopInv'
    BY <2>1, CarefulStartAssign, CarefulStart
  <2>2. ASSUME NEW c \in Stoppers, StopCall(c) PROVE StartInv' /\ OnlyInv' /\ StopInv'
    <3>1. c \in Clients /\ c \notin Receivers /\ c \in Threads
      BY TransportAssumption DEF Threads
    <3>2. UNCHANGED <<rpc, promise, thread, down, cpc, mine, target>>
      BY <2>2 DEF StopCall, starting
    <3>3. \A d \in Clients : cpc[d] = "idle"
      BY <2>2 DEF StopCall, MayStop, CarefulUse
    <3>4. spc' = [spc EXCEPT ![c] = "want"] /\ block' = [block EXCEPT ![c] = TRUE]
      BY <2>2 DEF StopCall, CarefulUse
    <3>5. StartInv'
      BY <3>2, <3>3 DEF StartInv
    <3>6. OnlyInv'
      BY <3>1, <3>2, <3>4 DEF CarefulInv, AnyUseInv, TypeOK, OnlyInv, Gone, Threads
    <3>7. StopInv'
      BY <3>1, <3>2, <3>4 DEF CarefulInv, AnyUseInv, TypeOK, StopInv, Threads
    <3>. QED  BY <3>5, <3>6, <3>7
  <2>3. ASSUME NEW r \in Receivers, ReceiverStep(r) PROVE StartInv' /\ OnlyInv' /\ StopInv'
    BY <2>3, CarefulReceiver
  <2>4. ASSUME NEW r \in Receivers, StopWithin(r) PROVE FALSE
    BY <2>4 DEF StopWithin, CarefulUse
  <2>5. ASSUME NEW x \in Threads, StopStep(x) PROVE StartInv' /\ OnlyInv' /\ StopInv'
    BY <2>5, CarefulStop
  <2>6. CASE UNCHANGED vars
    BY <2>6 DEF vars, starting, stopping, CarefulInv, StartInv, OnlyInv, Gone, StopInv
  <2>. QED  BY <2>1, <2>2, <2>3, <2>4, <2>5, <2>6 DEF Next
<1>. QED  BY <1>1, <1>2, AnyUse, PTL DEF Spec

(* In careful hands a transport has at most one receive loop, across any   *)
(* number of restarts and failed or timed-out starts.                      *)
THEOREM OneLoopOnly == CarefulUse => (Spec => []OneLoop)
<1>1. CarefulInv => OneLoop
  BY DEF CarefulInv, OnlyInv, Gone, OneLoop, InRun
<1>. QED  BY <1>1, CarefulInductive, PTL

(* In careful hands stop() does not return before run() has.               *)
THEOREM StopWaits == CarefulUse => (Spec => StopWaitsForRun)
<1>. SUFFICES ASSUME CarefulUse PROVE Spec => StopWaitsForRun
  OBVIOUS
<1>1. ASSUME CarefulInv, NEW c \in Clients, spc[c] = "clear", NEW r \in Receivers
      PROVE  rpc[r] \notin Alive
  <2>1. Gone(r)
    BY <1>1 DEF CarefulInv, OnlyInv
  <2>2. rpc[r] # "answered"
    <3>1. lock = c /\ r # c
      BY <1>1, TransportAssumption DEF CarefulInv, AnyUseInv, LockInv, Inside, Threads
    <3>. QED  BY <1>1, <3>1 DEF CarefulInv, AnyUseInv, LockInv, Inside, Threads
  <2>. QED  BY <2>1, <2>2 DEF Gone, Alive, InRun
<1>2. CarefulInv => [\A c \in Clients :
          (spc[c] = "clear" /\ spc'[c] = "idle" /\ block[c])
              => \A r \in Receivers : rpc[r] \notin Alive]_vars
  BY <1>1
<1>. QED  BY <1>2, CarefulInductive, PTL DEF StopWaitsForRun
=============================================================================
