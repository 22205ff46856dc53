--------------------------- MODULE RestartingProofs ---------------------------
(***************************************************************************)
(* Proofs about Restarting for any number of threads and any interval: the *)
(* keeper starts the wrapped transport only when no thread of it is left,  *)
(* and leaves none.                                                        *)
(***************************************************************************)
EXTENDS Restarting, TLAPS

Young == {"starting", "opening"}   \* the promise is still to be set
Due == Young \union {"answered", "entering"} \union Child!InRun

(* There is at most one thread, which is the one start() made last; it is  *)
(* launched at once.                                                       *)
ThreadInv ==
    /\ \A r \in Receivers : rpc[r] \in Due \union {"created"} => r = thread
    /\ \A r \in Receivers : rpc[r] = "created" => kpc \in {"opening", "retrying"}
    /\ kpc \in {"down", "open", "opening", "retry", "retrying"} =>
          \A r \in Receivers : rpc[r] \notin Due
    /\ kpc \in {"opening", "retrying"} <=> cpc[Keeper] = "launch"
    /\ cpc[Keeper] = "launch" =>
          thread \in Receivers /\ rpc[thread] = "created" /\ mine[Keeper] = thread
    /\ cpc[Keeper] # "result"

(* What the keeper may conclude from the promise and from `running`.       *)
PollInv ==
    /\ \A r \in Receivers :
          rpc[r] \in Young \union {"unborn", "created"} => promise[r] = "pending"
    /\ \A r \in Receivers :
          rpc[r] \in Young /\ kpc # "stopping" => _start_promise = r
    /\ \A r \in Receivers : rpc[r] \in Child!InRun /\ kpc # "stopping" => running
    /\ kpc = "look" => \A r \in Receivers :
          rpc[r] \notin Young \union {"answered", "entering"}

(* stop() of the wrapped transport waits for the one thread.               *)
StopInv ==
    /\ spc[Keeper] # "idle" => kpc = "stopping"
    /\ block[Keeper] = TRUE
    /\ spc[Keeper] = "join" => thread # None
    /\ spc[Keeper] = "joining" => thread # None /\ target[Keeper] = thread
    /\ kpc = "stopping" /\ spc[Keeper] \in {"clear", "idle"} =>
          \A r \in Receivers : rpc[r] \notin Due

(* The timer has run out only when the time has come.                      *)
TimerInv == kpc \notin {"retry", "retrying"} => restart_timer # 0

IInv == TypeOK /\ ThreadInv /\ PollInv /\ StopInv /\ TimerInv
-----------------------------------------------------------------------------
(* The invariant holds at the start. *)
LEMMA InitInv == Init => IInv
<1>. SUFFICES ASSUME Init PROVE IInv
  OBVIOUS
<1>1. TypeOK
  <2>1. Child!TypeOK
    BY DEF Init, Child!Init, Child!TypeOK
  <2>2. restart_timer \in 0..CheckInterval
    BY RestartingAssumption DEF Init
  <2>. QED  BY <2>1, <2>2 DEF Init, TypeOK
<1>2. ThreadInv /\ PollInv /\ StopInv
  BY RestartingAssumption DEF Init, Child!Init, ThreadInv, PollInv, StopInv, Due, Young, Child!InRun, Child!Threads
<1>3. TimerInv
  BY RestartingAssumption DEF Init, TimerInv
<1>. QED  BY <1>1, <1>2, <1>3 DEF IInv

(* What the wrapped transport does not see.                                *)
KeeperAlone == Start \/ RunEnter \/ LoopCheck \/ Sleep \/ Await \/ Look \/ Left \/ Stop
               \/ \E r \in Receivers : HandlerStops(r)

(* A step of the keeper that leaves the child alone keeps the types. *)
LEMMA KeeperType == TypeOK /\ TimerInv /\ KeeperAlone => TypeOK' /\ TimerInv'
<1>. SUFFICES ASSUME TypeOK, TimerInv, KeeperAlone PROVE TypeOK' /\ TimerInv'
  OBVIOUS
<1>1. UNCHANGED child
  BY DEF KeeperAlone, Start, RunEnter, LoopCheck, Sleep, Await, Look, Left, Stop, HandlerStops
<1>2. Child!TypeOK'
  BY <1>1 DEF TypeOK, Child!TypeOK, child
<1>3. restart_timer' \in 0..CheckInterval
  <2>1. restart_timer \in 0..CheckInterval /\ CheckInterval \in 0..CheckInterval
    BY RestartingAssumption DEF TypeOK
  <2>2. CASE Look
    <3>1. restart_timer' \in {restart_timer, restart_timer - 1} /\ restart_timer # 0
      BY <2>2 DEF Look, Goto, TimerInv
    <3>. QED  BY <2>1, <3>1
  <2>3. CASE ~Look
    BY <2>1, <2>3 DEF KeeperAlone, Start, RunEnter, LoopCheck, Sleep, Await, Left, Stop, HandlerStops
  <2>. QED  BY <2>2, <2>3
<1>4. /\ up' \in BOOLEAN
      /\ _start_promise' \in Receivers \union {None}
      /\ late' \subseteq Receivers /\ waiter' \in Receivers \union {None}
  BY DEF KeeperAlone, Start, RunEnter, LoopCheck, Sleep, Await, Look, Left, Stop, HandlerStops,
     TypeOK
<1>5. /\ kpc' \in {"down", "open", "opening", "entering", "loop", "sleep", "await", "look",
                    "retry", "retrying", "leave", "stopping"}
      /\ kpc' = "await" => _start_promise' # None
  <2>1. CASE Look
    BY <2>1 DEF Look, Goto
  <2>2. CASE Sleep
    BY <2>2 DEF Sleep, Goto
  <2>3. CASE Stop \/ \E r \in Receivers : HandlerStops(r)
    BY <2>3 DEF Stop, HandlerStops, TypeOK
  <2>4. CASE Start \/ RunEnter \/ LoopCheck \/ Await \/ Left
    BY <2>4 DEF Start, RunEnter, LoopCheck, Await, Left, Goto
  <2>. QED  BY <2>1, <2>2, <2>3, <2>4 DEF KeeperAlone
<1>6. TimerInv'
  <2>1. CASE Look
    BY <2>1, <1>3 DEF Look, Goto, TimerInv, TypeOK
  <2>2. CASE ~Look
    BY <2>2, RestartingAssumption DEF KeeperAlone, Start, RunEnter, LoopCheck, Sleep, Await, Left,
       Stop, HandlerStops, Goto, TimerInv
  <2>. QED  BY <2>1, <2>2
<1>. QED  BY <1>2, <1>3, <1>4, <1>5, <1>6 DEF TypeOK

(* Such a step keeps the invariant. *)
LEMMA KeeperAloneStep == IInv /\ KeeperAlone => IInv'
<1>. SUFFICES ASSUME IInv, KeeperAlone PROVE IInv'
  OBVIOUS
<1>. USE DEF IInv
<1>1. UNCHANGED child
  BY DEF KeeperAlone, Start, RunEnter, LoopCheck, Sleep, Await, Look, Left, Stop, HandlerStops
<1>2. CASE Look
  <2>1. kpc = "look" /\ kpc' \in {"retry", "loop"} /\ (kpc' = "retry" => ~running)
        /\ UNCHANGED _start_promise
    BY <1>2 DEF Look, Goto
  <2>2. ThreadInv'
    <3>1. ~running => \A r \in Receivers : rpc[r] \notin Due
      BY <2>1 DEF PollInv, Due, Young, Child!InRun
    <3>. QED  BY <1>1, <2>1, <3>1 DEF ThreadInv, child, Due, Young, Child!InRun
  <2>. QED  BY <1>1, <2>1, <2>2, KeeperType DEF PollInv, StopInv, child, Due, Young, Child!InRun
<1>3. CASE Sleep
  BY <1>1, <1>3, KeeperType, RestartingAssumption
     DEF Sleep, Goto, ThreadInv, PollInv, StopInv, child, Due, Young, Child!InRun
<1>4. CASE Await
  <2>1. \A r \in Receivers : rpc[r] \in Young => _start_promise' = r
    BY <1>4 DEF Await, Goto, TimedOut, PollInv
  <2>. QED  BY <1>1, <1>4, <2>1, KeeperType
     DEF Await, Goto, ThreadInv, PollInv, StopInv, child
<1>5. CASE Left
  BY <1>1, <1>5, KeeperType
     DEF Left, Goto, ThreadInv, PollInv, StopInv, child, Due, Young, Child!InRun
<1>6. CASE Start \/ RunEnter \/ LoopCheck
  BY <1>1, <1>6, KeeperType DEF Start, RunEnter, LoopCheck, Goto, ThreadInv, PollInv, StopInv, child
<1>7. CASE Stop \/ \E r \in Receivers : HandlerStops(r)
  BY <1>1, <1>7, KeeperType DEF Stop, HandlerStops, ThreadInv, PollInv, StopInv, child
<1>. QED  BY <1>2, <1>3, <1>4, <1>5, <1>6, <1>7 DEF KeeperAlone

(* A start by the keeper: no thread is left of the wrapped transport.      *)
LEMMA StartStep ==
    ASSUME IInv, NEW from, NEW to,
           ChildStart(from, to), <<from, to>> \in {<<"open", "opening">>, <<"retry", "retrying">>}
    PROVE  IInv'
<1>. USE DEF IInv
<1>1. PICK r \in Receivers :
         /\ rpc[r] = "unborn" /\ thread' = r
         /\ rpc' = [rpc EXCEPT ![r] = "created"] /\ mine' = [mine EXCEPT ![Keeper] = r]
  BY DEF ChildStart, Child!StartAssign, Child!Unborn
<1>2. /\ kpc = from /\ kpc' = to /\ cpc' = [cpc EXCEPT ![Keeper] = "launch"]
      /\ UNCHANGED <<lock, running, promise, spc, block, target>> /\ down' = FALSE
      /\ UNCHANGED <<up, _start_promise, restart_timer, late, waiter>>
  BY DEF ChildStart, Goto, Child!StartAssign, Child!stopping
<1>3. kpc \in {"open", "retry"} /\ kpc' \in {"opening", "retrying"}
      /\ (kpc' = "retrying" <=> kpc = "retry")
  BY <1>2
<1>4. Child!TypeOK'
  BY <1>1, <1>2 DEF TypeOK, Child!TypeOK, Child!Threads
<1>5. TypeOK'
  BY <1>2, <1>3, <1>4 DEF TypeOK
<1>6. ThreadInv'
  BY <1>1, <1>2, <1>3 DEF ThreadInv, TypeOK, Child!TypeOK, Due, Young, Child!InRun
<1>7. PollInv'
  BY <1>1, <1>2, <1>3 DEF PollInv, TypeOK, Child!TypeOK, Young, Child!InRun
<1>8. StopInv' /\ TimerInv'
  BY <1>1, <1>2, <1>3 DEF StopInv, TimerInv
<1>. QED  BY <1>5, <1>6, <1>7, <1>8

(* The keeper starts the child when no thread of it is alive. *)
LEMMA LaunchStep ==
    ASSUME IInv, NEW from, NEW to,
           ChildLaunch(from, to), <<from, to>> \in {<<"opening", "entering">>, <<"retrying", "loop">>}
    PROVE  IInv'
<1>. USE DEF IInv
<1>1. /\ thread \in Receivers /\ mine[Keeper] = thread
      /\ rpc[thread] = "created" /\ rpc' = [rpc EXCEPT ![thread] = "starting"]
      /\ cpc' = [cpc EXCEPT ![Keeper] = "idle"]
  BY DEF ChildLaunch, Child!StartLaunch, ThreadInv
<1>2. /\ kpc = from /\ kpc' = to /\ _start_promise' = thread /\ restart_timer' = CheckInterval
      /\ UNCHANGED <<lock, running, thread, promise, mine, spc, block, target, down>>
      /\ UNCHANGED <<up, late, waiter>>
  BY <1>1 DEF ChildLaunch, Goto, Child!StartLaunch, Child!stopping
<1>3. kpc \in {"opening", "retrying"} /\ kpc' \in {"entering", "loop"}
  BY <1>2
<1>4. Child!TypeOK'
  BY <1>1, <1>2 DEF TypeOK, Child!TypeOK, Child!Alive
<1>5. restart_timer' \in 0..CheckInterval /\ TimerInv'
  BY <1>2, RestartingAssumption DEF TimerInv
<1>6. TypeOK'
  BY <1>1, <1>2, <1>3, <1>4, <1>5 DEF TypeOK
<1>7. ThreadInv'
  BY <1>1, <1>2, <1>3 DEF ThreadInv, TypeOK, Child!TypeOK, Due, Young, Child!InRun
<1>8. \A r \in Receivers : rpc[r] \notin Due
  BY <1>3 DEF ThreadInv
<1>9. promise[thread] = "pending"
  BY <1>1 DEF PollInv
<1>10. PollInv'
  BY <1>1, <1>2, <1>3, <1>8, <1>9 DEF PollInv, TypeOK, Child!TypeOK, Due, Young, Child!InRun
<1>11. StopInv'
  BY <1>1, <1>2, <1>3 DEF StopInv
<1>. QED  BY <1>5, <1>6, <1>7, <1>10, <1>11
-----------------------------------------------------------------------------
(* The keeper leaves its loop and begins to stop the child. *)
LEMMA LeaveStep == IInv /\ Leave => IInv'
<1>. SUFFICES ASSUME IInv, Leave PROVE IInv'
  OBVIOUS
<1>. USE DEF IInv
<1>1. /\ kpc = "leave" /\ kpc' = "stopping"
      /\ spc' = [spc EXCEPT ![Keeper] = "want"] /\ block' = [block EXCEPT ![Keeper] = TRUE]
      /\ UNCHANGED <<lock, running, thread, rpc, promise, cpc, mine, target, down>>
      /\ UNCHANGED <<up, _start_promise, restart_timer, late, waiter>>
  BY DEF Leave, Goto, Child!StopCall, Child!starting
<1>2. Child!TypeOK'
  BY <1>1 DEF TypeOK, Child!TypeOK, Child!Threads
<1>3. TypeOK'
  BY <1>1, <1>2 DEF TypeOK
<1>4. ThreadInv' /\ PollInv' /\ TimerInv'
  BY <1>1 DEF ThreadInv, PollInv, TimerInv
<1>5. StopInv'
  BY <1>1 DEF StopInv, TypeOK, Child!TypeOK, Child!Threads
<1>. QED  BY <1>3, <1>4, <1>5

(* The keeper in stop(): nobody else changes `thread` meanwhile.           *)
LEMMA StopsStep == IInv /\ ChildStop => IInv'
<1>. SUFFICES ASSUME IInv, ChildStop PROVE IInv'
  OBVIOUS
<1>. USE DEF IInv
<1>1. /\ kpc = "stopping" /\ UNCHANGED <<rpc, promise, cpc, mine, block>>
      /\ UNCHANGED <<up, kpc, _start_promise, restart_timer, late, waiter>>
  BY DEF ChildStop, StopInv, keeper, Child!StopAcquire, Child!StopJoin, Child!StopJoined,
         Child!StopClear, Child!starting
<1>2. Child!TypeOK'
  <2>. USE DEF TypeOK, Child!TypeOK, Child!Threads
  <2>1. CASE Child!StopAcquire(Keeper)
    BY <1>1, <2>1 DEF Child!StopAcquire, Child!starting
  <2>2. CASE Child!StopJoin(Keeper)
    BY <1>1, <2>2 DEF Child!StopJoin, Child!starting
  <2>3. CASE Child!StopJoined(Keeper)
    BY <1>1, <2>3 DEF Child!StopJoined, Child!starting
  <2>4. CASE Child!StopClear(Keeper)
    BY <1>1, <2>4 DEF Child!StopClear, Child!starting
  <2>. QED  BY <2>1, <2>2, <2>3, <2>4 DEF ChildStop
<1>3. TypeOK'
  BY <1>1, <1>2 DEF TypeOK
<1>4. CASE Child!StopAcquire(Keeper)
  <2>1. /\ spc[Keeper] = "want" /\ UNCHANGED <<thread, target>>
        /\ spc' = [spc EXCEPT ![Keeper] = IF thread \notin {None, Keeper}
                                          THEN "join" ELSE "clear"]
    BY <1>4 DEF Child!StopAcquire, StopInv
  <2>2. thread = None => \A r \in Receivers : rpc[r] \notin Due
    BY RestartingAssumption DEF ThreadInv
  <2>3. thread # Keeper
    BY RestartingAssumption DEF TypeOK, Child!TypeOK
  <2>. QED  BY <1>1, <1>3, <2>1, <2>2, <2>3 DEF ThreadInv, PollInv, StopInv, TimerInv, TypeOK,
              Child!TypeOK, Child!Threads, Young, Due
<1>5. CASE Child!StopJoin(Keeper) \/ Child!StopJoined(Keeper)
  <2>1. UNCHANGED <<thread, running>>
        /\ \/ /\ spc[Keeper] = "join" /\ spc' = [spc EXCEPT ![Keeper] = "joining"]
              /\ target' = [target EXCEPT ![Keeper] = thread]
           \/ /\ spc[Keeper] = "joining" /\ spc' = [spc EXCEPT ![Keeper] = "clear"]
              /\ rpc[target[Keeper]] = "dead" /\ UNCHANGED target
    BY <1>5 DEF Child!StopJoin, Child!StopJoined
  <2>2. ThreadInv' /\ PollInv' /\ TimerInv'
    BY <1>1, <2>1 DEF ThreadInv, PollInv, TimerInv
  <2>3. StopInv'
    BY <1>1, <2>1 DEF ThreadInv, StopInv, TypeOK, Child!TypeOK, Child!Threads, Due, Young,
       Child!InRun
  <2>. QED  BY <1>3, <2>2, <2>3
<1>6. CASE Child!StopClear(Keeper)
  <2>1. /\ spc[Keeper] = "clear" /\ spc' = [spc EXCEPT ![Keeper] = "idle"]
        /\ thread' = None /\ UNCHANGED <<running, target>>
    BY <1>6 DEF Child!StopClear
  <2>2. \A r \in Receivers : rpc[r] \notin Due
    BY <1>1, <2>1 DEF StopInv
  <2>3. ThreadInv'
    BY <1>1, <2>1, <2>2 DEF ThreadInv
  <2>4. PollInv' /\ StopInv' /\ TimerInv'
    BY <1>1, <2>1, <2>2 DEF PollInv, StopInv, TimerInv, TypeOK, Child!TypeOK, Child!Threads
  <2>. QED  BY <1>3, <2>3, <2>4
<1>. QED  BY <1>4, <1>5, <1>6 DEF ChildStop

(* A step of a thread of the wrapped transport.                            *)
LEMMA ReceiverType ==
    ASSUME IInv, NEW r \in Receivers, ThreadStep(r)
    PROVE  TypeOK' /\ TimerInv'
<1>. USE DEF IInv
<1>1. UNCHANGED <<up, kpc, _start_promise, restart_timer>>
  BY DEF ThreadStep, ChildStep, ChildOpenFails, ChildHandlerReturns, Forgotten, keeper
<1>2. late' \subseteq Receivers /\ waiter' \in Receivers \union {None}
  BY DEF ThreadStep, ChildStep, ChildOpenFails, ChildHandlerReturns, Forgotten, TypeOK
<1>3. Child!TypeOK'
  <2>1. CASE Forgotten(r)
    BY <2>1 DEF Forgotten, TypeOK, Child!TypeOK, Child!Threads
  <2>2. CASE ChildOpenFails(r) \/ ChildHandlerReturns(r)
    BY <2>2 DEF ChildOpenFails, ChildHandlerReturns, Child!OpenFails, Child!Answer, Child!Goto,
       Child!HandlerReturns, Child!starting, Child!stopping, TypeOK, Child!TypeOK, Child!Alive,
       Child!InRun
  <2>3. CASE ChildStep(r)
    BY <2>3 DEF ChildStep, Child!ReceiverLock, Child!OpenReturns, Child!ReceiverUnlock,
       Child!RunEnter, Child!LoopCheck, Child!Receive, Child!ReceiverExit, Child!Answer,
       Child!Goto, Child!starting, Child!stopping, TypeOK, Child!TypeOK, Child!Alive,
       Child!InRun, Child!Threads
  <2>. QED  BY <2>1, <2>2, <2>3 DEF ThreadStep
<1>. QED  BY <1>1, <1>2, <1>3 DEF TypeOK, TimerInv

(* The steps of the threads of the child. *)
LEMMA ReceiverStep ==
    ASSUME IInv, NEW r \in Receivers, ThreadStep(r)
    PROVE  IInv'
<1>. USE DEF IInv
<1>1. /\ UNCHANGED <<up, kpc, _start_promise, restart_timer>>
      /\ UNCHANGED <<thread, cpc, mine, block>> /\ UNCHANGED spc
      /\ \A q \in Receivers \ {r} : rpc'[q] = rpc[q] /\ promise'[q] = promise[q]
  BY DEF ThreadStep, ChildStep, ChildOpenFails, ChildHandlerReturns, Forgotten, keeper,
     Child!ReceiverLock, Child!OpenReturns, Child!OpenFails, Child!ReceiverUnlock, Child!RunEnter,
     Child!LoopCheck, Child!Receive, Child!HandlerReturns, Child!ReceiverExit, Child!Answer,
     Child!Goto, Child!starting, Child!stopping, TypeOK, Child!TypeOK
<1>2. CASE Forgotten(r)
  <2>1. /\ rpc[r] = "dead" /\ r # thread /\ UNCHANGED running
        /\ rpc' = [rpc EXCEPT ![r] = "unborn"] /\ promise' = [promise EXCEPT ![r] = "pending"]
        /\ target' = [target EXCEPT ![Keeper] = IF @ = r THEN None ELSE @]
    BY <1>2 DEF Forgotten
  <2>2. rpc'[r] = "unborn" /\ promise'[r] = "pending"
    BY <2>1 DEF TypeOK, Child!TypeOK
  <2>3. ThreadInv'
    BY <1>1, <2>1, <2>2 DEF ThreadInv, Due, Young, Child!InRun
  <2>4. PollInv'
    BY <1>1, <2>1, <2>2 DEF PollInv, Young, Child!InRun
  <2>5. StopInv'
    BY <1>1, <2>1, <2>2 DEF StopInv, Due, Young, Child!InRun, TypeOK, Child!TypeOK, Child!Threads
  <2>. QED  BY <2>3, <2>4, <2>5, ReceiverType
<1>3. CASE ~Forgotten(r)
  <2>1. UNCHANGED target
    BY <1>3 DEF ThreadStep, ChildStep, ChildOpenFails, ChildHandlerReturns, Child!ReceiverLock,
       Child!OpenReturns, Child!OpenFails, Child!ReceiverUnlock, Child!RunEnter, Child!LoopCheck,
       Child!Receive, Child!HandlerReturns, Child!ReceiverExit, Child!Answer, Child!stopping
  <2>2. rpc[r] \in Due /\ rpc'[r] \in Due \union {"dead"}
    BY <1>3 DEF ThreadStep, ChildStep, ChildOpenFails, ChildHandlerReturns, Child!ReceiverLock,
       Child!OpenReturns, Child!OpenFails, Child!ReceiverUnlock, Child!RunEnter, Child!LoopCheck,
       Child!Receive, Child!HandlerReturns, Child!ReceiverExit, Child!Answer, Child!Goto,
       TypeOK, Child!TypeOK, Due, Young, Child!InRun
  <2>3. r = thread /\ \A q \in Receivers \ {r} : rpc[q] \notin Due \union {"created"}
    BY <2>2 DEF ThreadInv
  <2>4. ThreadInv'
    BY <1>1, <2>2, <2>3 DEF ThreadInv, Due, Young, Child!InRun
  <2>5. StopInv'
    BY <1>1, <2>1, <2>2, <2>3 DEF StopInv
  <2>6. PollInv'
    <3>1. CASE Child!ReceiverLock(r)
      BY <1>1, <2>3, <3>1 DEF Child!ReceiverLock, Child!Goto, PollInv, Due, Young, Child!InRun,
         TypeOK, Child!TypeOK
    <3>2. CASE Child!OpenReturns(r) \/ Child!OpenFails(r)
      BY <1>1, <2>3, <3>2 DEF Child!OpenReturns, Child!OpenFails, Child!Answer, Child!Goto,
         PollInv, Due, Young, Child!InRun, TypeOK, Child!TypeOK
    <3>3. CASE Child!ReceiverUnlock(r)
      BY <1>1, <2>3, <3>3 DEF Child!ReceiverUnlock, Child!Goto, PollInv, Due, Young, Child!InRun,
         TypeOK, Child!TypeOK
    <3>4. CASE Child!RunEnter(r)
      BY <1>1, <2>3, <3>4 DEF Child!RunEnter, Child!Goto, PollInv, Due, Young, Child!InRun,
         TypeOK, Child!TypeOK
    <3>5. CASE Child!LoopCheck(r) \/ Child!Receive(r) \/ Child!HandlerReturns(r)
      BY <1>1, <2>3, <3>5 DEF Child!LoopCheck, Child!Receive, Child!HandlerReturns, Child!Goto,
         PollInv, Due, Young, Child!InRun, TypeOK, Child!TypeOK
    <3>6. CASE Child!ReceiverExit(r)
      BY <1>1, <2>3, <3>6 DEF Child!ReceiverExit, Child!Goto, PollInv, Due, Young, Child!InRun,
         TypeOK, Child!TypeOK
    <3>. QED  BY <1>3, <3>1, <3>2, <3>3, <3>4, <3>5, <3>6
              DEF ThreadStep, ChildStep, ChildOpenFails, ChildHandlerReturns
  <2>. QED  BY <2>4, <2>5, <2>6, ReceiverType
<1>. QED  BY <1>2, <1>3
-----------------------------------------------------------------------------
(* Every step keeps the invariant, ... *)
LEMMA Inductive == IInv /\ [Next]_vars => IInv'
<1>. SUFFICES ASSUME IInv, [Next]_vars PROVE IInv'
  OBVIOUS
<1>1. CASE KeeperAlone
  BY <1>1, KeeperAloneStep
<1>2. CASE Open \/ Retry
  BY <1>2, StartStep, LaunchStep DEF Open, Retry
<1>3. CASE Leave \/ ChildStop
  BY <1>3, LeaveStep, StopsStep
<1>4. CASE \E r \in Receivers : ThreadStep(r)
  BY <1>4, ReceiverStep
<1>5. CASE UNCHANGED vars
  BY <1>5 DEF IInv, TypeOK, Child!TypeOK, ThreadInv, PollInv, StopInv, TimerInv, vars, child, keeper
<1>. QED  BY <1>1, <1>2, <1>3, <1>4, <1>5 DEF Next, KeeperStep, KeeperAlone

(* ... so that it holds in every state. *)
LEMMA Invariance == Spec => []IInv
<1>. QED  BY InitInv, Inductive, PTL DEF Spec

(* Every variable has its type at all times; above all the keeper asks a   *)
(* promise for its result only when it has one, and the timer stays within *)
(* its interval.                                                           *)
THEOREM TypeCorrect == Spec => []TypeOK
<1>1. IInv => TypeOK
  BY DEF IInv
<1>. QED  BY <1>1, Invariance, PTL

(* Whatever the wrapped transport does and whoever stops the keeper: it    *)
(* never has two threads of the wrapped transport alive, and none is left  *)
(* when it has ended.                                                      *)
THEOREM OneChildOnly == Spec => []OneChild
<1>1. IInv => OneChild
  <2>1. \A r \in Receivers : Alive(r) <=> rpc[r] \in Due
    BY DEF Alive, Child!Alive, Due, Young
  <2>. QED  BY <2>1 DEF IInv, ThreadInv, OneChild
<1>. QED  BY <1>1, Invariance, PTL
=============================================================================
