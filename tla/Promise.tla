------------------------------- MODULE Promise -------------------------------
(***************************************************************************)
(* One Promise object (quickrpc/promise.py) and the threads that share it: *)
(* issuers calling set_result / set_exception, waiters calling result(),   *)
(* chainers calling then().  The object has no lock: it is five fields and *)
(* a threading.Event, so every step below is one source line that touches  *)
(* a shared field, and the threads interleave between any two of them.     *)
(*                                                                         *)
(* set_result and set_exception differ only in the state they store and in *)
(* the handler they run; both are the Set steps, told apart by arg.  The   *)
(* payload of a call is named after it: <<issuer, number of the call>>.    *)
(***************************************************************************)
EXTENDS Naturals, Sequences

CONSTANTS Issuers,       \* threads that may set the outcome
          Waiters,       \* threads that call result(), once each
          Chainers,      \* threads that call then(), once each; also the handlers they pass
          SetterThread,  \* _setter_thread
          Patient,       \* the waiters that pass timeout=None
          MaxSets,       \* bound: calls of set_* by one issuer
          None           \* an empty _result, and the do-nothing default handlers

Settled == {"fulfilled", "failed"}
PromiseState == Settled \union {"pending"}
Payloads == Issuers \X (1 .. MaxSets)

ASSUME PromiseAssumption ==
    /\ SetterThread \in Issuers
    /\ Patient \subseteq Waiters
    /\ MaxSets \in Nat \ {0}
    /\ None \notin Chainers
    /\ None \notin Payloads
    /\ None \notin [state : PromiseState, val : Payloads \union {None}]

VARIABLES state,     \* _state
          res,       \* _result
          evt,       \* _evt.is_set()
          callback,  \* _callback: the chainer that passed it, or None
          errback,   \* _errback
          ipc,       \* next step of an issuer
          arg,       \* the state an issuer is storing: which set_* it called
          sets,      \* how many calls of set_* an issuer has made
          wpc,       \* next step of a waiter, or how its result() ended
          got,       \* what result() returned or raised
          cpc,       \* next step of a chainer
          calls      \* history: the handler invocations, in order

fields == <<state, res, evt, callback, errback>>
issuing == <<ipc, arg, sets>>
waiting == <<wpc, got>>
vars == <<fields, issuing, waiting, cpc, calls>>

InResult == {"wait", "blocked", "if_fulfilled", "if_failed"} \union Settled
Answered == {"returned", "deadlock_error", "timeout_error", "assertion_error"}

(* The handler that the state s calls for. *)
Handler(s) == IF s = "fulfilled" THEN callback ELSE errback

(* Run the handler of state s with the current _result.  An exception it   *)
(* raises is logged in set_* and reaches the caller in then(); either way  *)
(* nothing of the promise changes.                                         *)
Invoke(s, val) ==
    calls' = IF Handler(s) = None THEN calls
             ELSE Append(calls, [handler |-> Handler(s), via |-> s, val |-> val])

Init ==
    /\ state = "pending" /\ res = None /\ evt = FALSE
    /\ callback = None /\ errback = None
    /\ ipc = [i \in Issuers |-> "idle"]
    /\ arg = [i \in Issuers |-> "pending"]
    /\ sets = [i \in Issuers |-> 0]
    /\ wpc = [w \in Waiters |-> "idle"]
    /\ got = [w \in Waiters |-> None]
    /\ cpc = [c \in Chainers |-> "idle"]
    /\ calls = <<>>
-----------------------------------------------------------------------------
(* set_result / set_exception, and _set which both call.                   *)

(* A bug for the properties to catch: _set does not look at the event.     *)
SetCheckUnguarded(i) ==
    /\ ipc[i] = "idle" /\ sets[i] < MaxSets
    /\ sets' = [sets EXCEPT ![i] = @ + 1]
    /\ \E s \in Settled : arg' = [arg EXCEPT ![i] = s]
    /\ ipc' = [ipc EXCEPT ![i] = "state"]
    /\ UNCHANGED <<fields, waiting, cpc, calls>>

(* `if self._evt.is_set(): raise PromiseDoneError()`.  A thread that is    *)
(* inside result() is not here.                                            *)
SetCheck(i) ==
    /\ ipc[i] = "idle" /\ sets[i] < MaxSets
    /\ i \in Waiters => wpc[i] \notin InResult
    /\ sets' = [sets EXCEPT ![i] = @ + 1]
    /\ IF evt
       THEN UNCHANGED <<ipc, arg>>
       ELSE /\ \E s \in Settled : arg' = [arg EXCEPT ![i] = s]
            /\ ipc' = [ipc EXCEPT ![i] = "state"]
    /\ UNCHANGED <<fields, waiting, cpc, calls>>

(* A bug for the properties to catch: the event is set first.              *)
SetStateAnnounced(i) ==
    /\ ipc[i] = "state"
    /\ state' = arg[i] /\ evt' = TRUE
    /\ ipc' = [ipc EXCEPT ![i] = "result"]
    /\ UNCHANGED <<res, callback, errback, arg, sets, waiting, cpc, calls>>

SetState(i) ==
    /\ ipc[i] = "state"
    /\ state' = arg[i]
    /\ ipc' = [ipc EXCEPT ![i] = "result"]
    /\ UNCHANGED <<res, evt, callback, errback, arg, sets, waiting, cpc, calls>>

SetResult(i) ==
    /\ ipc[i] = "result"
    /\ res' = <<i, sets[i]>>
    /\ ipc' = [ipc EXCEPT ![i] = "evt"]
    /\ UNCHANGED <<state, evt, callback, errback, arg, sets, waiting, cpc, calls>>

SetEvt(i) ==
    /\ ipc[i] = "evt"
    /\ evt' = TRUE
    /\ ipc' = [ipc EXCEPT ![i] = "call"]
    /\ UNCHANGED <<state, res, callback, errback, arg, sets, waiting, cpc, calls>>

(* Back in set_*: run the handler registered by now with the own argument. *)
SetCall(i) ==
    /\ ipc[i] = "call"
    /\ Invoke(arg[i], <<i, sets[i]>>)
    /\ ipc' = [ipc EXCEPT ![i] = "idle"]
    /\ UNCHANGED <<fields, arg, sets, waiting, cpc>>
-----------------------------------------------------------------------------
(* result(timeout)                                                         *)

(* A bug for the properties to catch: no deadlock protection.              *)
ResultUnguarded(w) ==
    /\ wpc[w] = "idle"
    /\ w \in Issuers => ipc[w] = "idle"
    /\ wpc' = [wpc EXCEPT ![w] = "wait"]
    /\ UNCHANGED <<fields, issuing, got, cpc, calls>>

ResultGuard(w) ==
    /\ wpc[w] = "idle"
    /\ w \in Issuers => ipc[w] = "idle"
    /\ wpc' = [wpc EXCEPT ![w] = IF ~evt /\ w = SetterThread
                                 THEN "deadlock_error" ELSE "wait"]
    /\ UNCHANGED <<fields, issuing, got, cpc, calls>>

(* _evt.wait: it returns at once when the flag is up, and blocks if not.   *)
ResultWait(w) ==
    /\ wpc[w] = "wait"
    /\ wpc' = [wpc EXCEPT ![w] = IF evt THEN "if_fulfilled" ELSE "blocked"]
    /\ UNCHANGED <<fields, issuing, got, cpc, calls>>

ResultWake(w) ==
    /\ wpc[w] = "blocked" /\ evt
    /\ wpc' = [wpc EXCEPT ![w] = "if_fulfilled"]
    /\ UNCHANGED <<fields, issuing, got, cpc, calls>>

(* The timeout may strike although the event has just been set.            *)
ResultTimeout(w) ==
    /\ wpc[w] = "blocked" /\ w \notin Patient
    /\ wpc' = [wpc EXCEPT ![w] = "timeout_error"]
    /\ UNCHANGED <<fields, issuing, got, cpc, calls>>

ResultIfFulfilled(w) ==
    /\ wpc[w] = "if_fulfilled"
    /\ wpc' = [wpc EXCEPT ![w] = IF state = "fulfilled" THEN "fulfilled" ELSE "if_failed"]
    /\ UNCHANGED <<fields, issuing, got, cpc, calls>>

ResultIfFailed(w) ==
    /\ wpc[w] = "if_failed"
    /\ wpc' = [wpc EXCEPT ![w] = IF state = "failed" THEN "failed" ELSE "assertion_error"]
    /\ UNCHANGED <<fields, issuing, got, cpc, calls>>

(* `return self._result` or `raise self._result`.                          *)
ResultReturn(w) ==
    /\ wpc[w] \in Settled
    /\ got' = [got EXCEPT ![w] = [state |-> wpc[w], val |-> res]]
    /\ wpc' = [wpc EXCEPT ![w] = "returned"]
    /\ UNCHANGED <<fields, issuing, cpc, calls>>
-----------------------------------------------------------------------------
(* then(callback, errback)                                                 *)

ThenCallback(c) ==
    /\ cpc[c] = "idle"
    /\ callback' = c
    /\ cpc' = [cpc EXCEPT ![c] = "errback"]
    /\ UNCHANGED <<state, res, evt, errback, issuing, waiting, calls>>

ThenErrback(c) ==
    /\ cpc[c] = "errback"
    /\ errback' = c
    /\ cpc' = [cpc EXCEPT ![c] = "if_fulfilled"]
    /\ UNCHANGED <<state, res, evt, callback, issuing, waiting, calls>>

ThenIfFulfilled(c) ==
    /\ cpc[c] = "if_fulfilled"
    /\ cpc' = [cpc EXCEPT ![c] = IF state = "fulfilled" THEN "fulfilled" ELSE "if_failed"]
    /\ UNCHANGED <<fields, issuing, waiting, calls>>

(* A bug for the properties to catch: then() leaves errors to the issuer.  *)
ThenIfFailedIgnored(c) ==
    /\ cpc[c] = "if_failed"
    /\ cpc' = [cpc EXCEPT ![c] = "done"]
    /\ UNCHANGED <<fields, issuing, waiting, calls>>

ThenIfFailed(c) ==
    /\ cpc[c] = "if_failed"
    /\ cpc' = [cpc EXCEPT ![c] = IF state = "failed" THEN "failed" ELSE "done"]
    /\ UNCHANGED <<fields, issuing, waiting, calls>>

(* `self._callback(self._result)`: the handler registered last, which need *)
(* not be the one this call of then() has registered.                      *)
ThenCall(c) ==
    /\ cpc[c] \in Settled
    /\ Invoke(cpc[c], res)
    /\ cpc' = [cpc EXCEPT ![c] = "done"]
    /\ UNCHANGED <<fields, issuing, waiting>>
-----------------------------------------------------------------------------
SetStep(i) == SetCheck(i) \/ SetState(i) \/ SetResult(i) \/ SetEvt(i) \/ SetCall(i)
ResultStep(w) == \/ ResultGuard(w) \/ ResultWait(w) \/ ResultWake(w) \/ ResultTimeout(w)
                 \/ ResultIfFulfilled(w) \/ ResultIfFailed(w) \/ ResultReturn(w)
ThenStep(c) == \/ ThenCallback(c) \/ ThenErrback(c) \/ ThenIfFulfilled(c)
               \/ ThenIfFailed(c) \/ ThenCall(c)

Next == \/ \E i \in Issuers : SetStep(i)
        \/ \E w \in Waiters : ResultStep(w)
        \/ \E c \in Chainers : ThenStep(c)

(* A thread that is inside a call keeps running, and the designated setter *)
(* thread, unless blocked, does set the promise.  Nobody has to call       *)
(* result() or then().                                                     *)
Fairness ==
    /\ \A i \in Issuers : WF_vars(SetState(i) \/ SetResult(i) \/ SetEvt(i) \/ SetCall(i))
    /\ WF_vars(SetCheck(SetterThread))
    /\ \A w \in Waiters : WF_vars(ResultStep(w) /\ wpc[w] # "idle")
    /\ \A c \in Chainers : WF_vars(ThenStep(c) /\ cpc[c] # "idle")

Spec == Init /\ [][Next]_vars
FairSpec == Spec /\ Fairness
-----------------------------------------------------------------------------
Outcome == [state |-> state, val |-> res]
Outcomes == [state : Settled, val : Payloads]

Invocations == [handler : Chainers, via : Settled, val : Payloads \union {None}]

TypeOK ==
    /\ state \in PromiseState
    /\ res \in Payloads \union {None}
    /\ evt \in BOOLEAN
    /\ callback \in Chainers \union {None}
    /\ errback \in Chainers \union {None}
    /\ ipc \in [Issuers -> {"idle", "state", "result", "evt", "call"}]
    /\ arg \in [Issuers -> PromiseState]
    /\ sets \in [Issuers -> 0 .. MaxSets]
    /\ wpc \in [Waiters -> {"idle"} \union InResult \union Answered]
    /\ got \in [Waiters -> [state : Settled, val : Payloads \union {None}] \union {None}]
    /\ cpc \in [Chainers -> {"idle", "errback", "if_fulfilled", "if_failed", "done"}
                            \union Settled]
    /\ calls \in Seq(Invocations)
    /\ \A i \in Issuers : ipc[i] # "idle" => arg[i] \in Settled /\ sets[i] > 0

(* Invocation of handler h with the outcome the promise has.               *)
Delivered(h) ==
    \E k \in 1 .. Len(calls) : calls[k] = [handler |-> h, via |-> state, val |-> res]

Quiet == /\ \A i \in Issuers : ipc[i] = "idle"
         /\ \A c \in Chainers : cpc[c] \in {"idle", "done"}

(* then() against set_*: neither of the two calls may leave the handler to *)
(* the other one.  Once both have returned, the handler registered last    *)
(* for this kind of outcome has been run with the outcome, in whatever     *)
(* order the lines of the two threads came.                                *)
HandlerNotLost ==
    (evt /\ Quiet /\ Handler(state) # None) => Delivered(Handler(state))

(* result() ends with the outcome that is stored in the end, state and     *)
(* value from the same call of set_*, and never in `assert False`.         *)
WaiterSeesOutcome ==
    \A w \in Waiters : /\ wpc[w] = "returned" => evt /\ got[w] = Outcome
                       /\ wpc[w] # "assertion_error"

(* The promise is a write-once cell: _set never overwrites an outcome that *)
(* was announced, and all of result()'s callers take away the same one.    *)
WO == INSTANCE WriteOnce WITH
        Readers <- Waiters, Unset <- None,
        cell <- IF evt THEN Outcome ELSE None,
        seen <- got
WriteOnceSpec == WO!Spec

(* Deadlock protection: result() of any thread ends, even when nobody      *)
(* passes a timeout and the setter thread itself asks for the result       *)
(* before it has set it.                                                   *)
ResultEnds == \A w \in Waiters : wpc[w] \in InResult ~> wpc[w] \in Answered
=============================================================================
