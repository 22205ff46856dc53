----------------------------- MODULE ActionQueue -----------------------------
(***************************************************************************)
(* ActionQueue (quickrpc/action_queue.py): callers of put() and the worker *)
(* thread that put() starts when there is none and that ends itself when   *)
(* it finds the queue empty.  A step is what a thread does between two     *)
(* points where another thread can notice: _startstop_lock covers the      *)
(* queue, but _run_worker sets _running without it.                        *)
(*                                                                         *)
(* A work item may itself call put(), so a worker is a caller as well.     *)
(* _thread is written and never read; it is left out.  Promise and         *)
(* ActionQueue are proved about in one module, so they share no names.     *)
(***************************************************************************)
EXTENDS Sequences, FiniteSets, Naturals

CONSTANTS Putters,  \* threads that call put()
          Workers,  \* the threads put() can start; each runs once
          Actions,  \* the work items; each is put at most once
          Raising,  \* the work items that raise an exception
          Endless,  \* the work items that need not end
          Nobody    \* no thread, no work item

Callers == Putters \union Workers

ASSUME QueueAssumption ==
    /\ Nobody \notin Callers /\ Nobody \notin Actions
    /\ Putters \intersect Workers = {}
    /\ Raising \subseteq Actions /\ Endless \subseteq Actions

VARIABLES queue,    \* _queue
          running,  \* _running.is_set()
          lock,     \* the caller that holds _startstop_lock, or Nobody
          pc,       \* caller -> next step of its put()
          item,     \* caller -> the item it is putting
          called,   \* history: the items that put() was called with
          stage,    \* worker -> next step of _run_worker
          current,  \* worker -> the item it has taken out
          done      \* history: the items that were run to their end

putting == <<pc, item, called>>
working == <<stage, current, done>>
queueVars == <<queue, running, lock, putting, working>>

Live(w) == stage[w] \in {"started", "fetch", "run"}

QueueInit ==
    /\ queue = <<>> /\ running = FALSE /\ lock = Nobody
    /\ pc = [c \in Callers |-> "idle"]
    /\ item = [c \in Callers |-> Nobody]
    /\ called = {}
    /\ stage = [w \in Workers |-> "unborn"]
    /\ current = [w \in Workers |-> Nobody]
    /\ done = {}
-----------------------------------------------------------------------------
(* put(action)                                                             *)

(* A thread outside the queue may call it any time, a worker only from     *)
(* within the item that it is running.                                     *)
PutCall(c, a) ==
    /\ pc[c] = "idle" /\ a \notin called
    /\ c \in Workers => stage[c] = "run"
    /\ called' = called \union {a}
    /\ item' = [item EXCEPT ![c] = a]
    /\ pc' = [pc EXCEPT ![c] = "want"]
    /\ UNCHANGED <<queue, running, lock, working>>

(* Acquire _startstop_lock and append the item. *)
PutEnqueue(c) ==
    /\ pc[c] = "want" /\ lock = Nobody
    /\ lock' = c
    /\ queue' = Append(queue, item[c])
    /\ pc' = [pc EXCEPT ![c] = "check"]
    /\ UNCHANGED <<running, item, called, working>>

(* Thread(...).start(): a thread that has not run yet, never mind which.   *)
Unborn == {w \in Workers : stage[w] = "unborn"}
StartWorker == /\ Unborn # {}
               /\ stage' = [stage EXCEPT ![CHOOSE w \in Unborn : TRUE] = "started"]

(* A bug for the properties to catch: start() without waiting for it.      *)
PutCheckHasty(c) ==
    /\ pc[c] = "check"
    /\ IF running THEN UNCHANGED stage ELSE StartWorker
    /\ lock' = Nobody
    /\ pc' = [pc EXCEPT ![c] = "idle"]
    /\ UNCHANGED <<queue, running, item, called, current, done>>

(* Done if a worker is announced; otherwise start one.                     *)
PutCheck(c) ==
    /\ pc[c] = "check"
    /\ \/ /\ running
          /\ lock' = Nobody
          /\ pc' = [pc EXCEPT ![c] = "idle"]
          /\ UNCHANGED stage
       \/ /\ ~running
          /\ StartWorker
          /\ pc' = [pc EXCEPT ![c] = "await"]
          /\ UNCHANGED lock
    /\ UNCHANGED <<queue, running, item, called, current, done>>

(* _running.wait(), holding the lock, then release it. *)
PutAwait(c) ==
    /\ pc[c] = "await" /\ running
    /\ lock' = Nobody
    /\ pc' = [pc EXCEPT ![c] = "idle"]
    /\ UNCHANGED <<queue, running, item, called, working>>
-----------------------------------------------------------------------------
(* _run_worker                                                             *)

(* A bug for the properties to catch: _running is set under the lock.      *)
WorkerAnnounceLocked(w) ==
    /\ stage[w] = "started" /\ lock = Nobody
    /\ running' = TRUE
    /\ stage' = [stage EXCEPT ![w] = "fetch"]
    /\ UNCHANGED <<queue, lock, putting, current, done>>

WorkerAnnounce(w) ==
    /\ stage[w] = "started"
    /\ running' = TRUE
    /\ stage' = [stage EXCEPT ![w] = "fetch"]
    /\ UNCHANGED <<queue, lock, putting, current, done>>

(* The lock is acquired for get_nowait() and released before the item runs. *)
WorkerTake(w) ==
    /\ stage[w] = "fetch" /\ lock = Nobody /\ queue # <<>>
    /\ current' = [current EXCEPT ![w] = Head(queue)]
    /\ queue' = Tail(queue)
    /\ stage' = [stage EXCEPT ![w] = "run"]
    /\ UNCHANGED <<running, lock, putting, done>>

(* A bug for the properties to catch: _running is not cleared.             *)
WorkerRetireSilent(w) ==
    /\ stage[w] = "fetch" /\ lock = Nobody /\ queue = <<>>
    /\ stage' = [stage EXCEPT ![w] = "dead"]
    /\ UNCHANGED <<queue, running, lock, putting, current, done>>

(* A bug for the properties to catch: the worker waits for further items.  *)
WorkerRetireNever(w) ==
    /\ stage[w] = "fetch" /\ lock = Nobody /\ queue = <<>>
    /\ UNCHANGED queueVars

(* Empty: clear _running and return, the lock still held. *)
WorkerRetire(w) ==
    /\ stage[w] = "fetch" /\ lock = Nobody /\ queue = <<>>
    /\ running' = FALSE
    /\ stage' = [stage EXCEPT ![w] = "dead"]
    /\ UNCHANGED <<queue, lock, putting, current, done>>

(* A bug for the properties to catch: the worker ends after one item.      *)
WorkerFinishOnce(w) ==
    /\ stage[w] = "run" /\ current[w] \notin Raising /\ pc[w] = "idle"
    /\ done' = done \union {current[w]}
    /\ stage' = [stage EXCEPT ![w] = "dead"]
    /\ running' = FALSE
    /\ UNCHANGED <<queue, lock, putting, current>>

(* action() returns: fetch the next one. *)
WorkerFinish(w) ==
    /\ stage[w] = "run" /\ current[w] \notin Raising /\ pc[w] = "idle"
    /\ done' = done \union {current[w]}
    /\ stage' = [stage EXCEPT ![w] = "fetch"]
    /\ UNCHANGED <<queue, running, lock, putting, current>>

(* action() raises: nothing catches it, the thread ends where it is. *)
WorkerCrash(w) ==
    /\ stage[w] = "run" /\ current[w] \in Raising /\ pc[w] = "idle"
    /\ stage' = [stage EXCEPT ![w] = "dead"]
    /\ UNCHANGED <<queue, running, lock, putting, current, done>>
-----------------------------------------------------------------------------
PutStep(c) == PutEnqueue(c) \/ PutCheck(c) \/ PutAwait(c)
WorkerStep(w) == WorkerAnnounce(w) \/ WorkerTake(w) \/ WorkerRetire(w)
ItemEnds(w) == WorkerFinish(w) \/ WorkerCrash(w)

QueueNext == \/ \E c \in Callers : PutStep(c) \/ \E a \in Actions : PutCall(c, a)
             \/ \E w \in Workers : WorkerStep(w) \/ ItemEnds(w)

(* A thread that can go on does, and one that keeps asking for the lock    *)
(* gets it.  Work items end, apart from the endless ones.                  *)
QueueFairness ==
    /\ \A c \in Callers : SF_queueVars(PutStep(c))
    /\ \A w \in Workers : SF_queueVars(WorkerStep(w))
    /\ \A w \in Workers : WF_queueVars(current[w] \notin Endless /\ ItemEnds(w))

QueueSpec == QueueInit /\ [][QueueNext]_queueVars
FairQueueSpec == QueueSpec /\ QueueFairness
-----------------------------------------------------------------------------
QueueTypeOK ==
    /\ queue \in Seq(Actions)
    /\ running \in BOOLEAN
    /\ lock \in Callers \union {Nobody}
    /\ pc \in [Callers -> {"idle", "want", "check", "await"}]
    /\ item \in [Callers -> Actions \union {Nobody}]
    /\ called \subseteq Actions
    /\ stage \in [Workers -> {"unborn", "started", "fetch", "run", "dead"}]
    /\ current \in [Workers -> Actions \union {Nobody}]
    /\ done \subseteq Actions
    /\ \A c \in Callers : pc[c] # "idle" => item[c] \in Actions
    /\ \A w \in Workers : stage[w] = "run" => current[w] \in Actions

(* The work items are processed one at a time and in the order in which    *)
(* they arrived, however put() races with the start and the end of workers. *)
SE == INSTANCE SerialExecutor WITH
        pending <- queue,
        active <- {current[w] : w \in {v \in Workers : stage[v] = "run"}}
SerialExecutorSpec == SE!Spec

(* What ends the service of the items behind it: an item has raised, or one *)
(* that need not end is running.                                           *)
Crashed == \E w \in Workers : stage[w] = "dead" /\ current[w] \in Raising
Occupied == \E w \in Workers : stage[w] = "run" /\ current[w] \in Endless

(* No lost wakeup between put() and the retiring worker: as long as no item *)
(* has raised, an item in the queue has a thread that will come back for it. *)
AttendedUntilCrash ==
    (lock = Nobody /\ queue # <<>>) => Crashed \/ \E w \in Workers : Live(w)

(* put() returns immediately: it waits for no work item, not even for one  *)
(* that never ends, and neither does it deadlock with the worker.          *)
PutReturns == \A c \in Callers : pc[c] = "want" ~> pc[c] = "idle"

(* Every item that put() was called with is processed, unless an item in   *)
(* front of it raises or does not end.                                     *)
EveryItemRuns == \A a \in Actions : a \in called ~> a \in done \/ Crashed \/ Occupied

(* The thread is torn down when the queue is empty: no worker stays around *)
(* unless an item is running or comes in.                                  *)
TornDown == (\E w \in Workers : Live(w)) ~> (Occupied \/ \A w \in Workers : ~Live(w))
=============================================================================
