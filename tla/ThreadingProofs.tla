---------------------------- MODULE ThreadingProofs ----------------------------
(***************************************************************************)
(* Proofs about the two classes that the others share between threads, for *)
(* any number of threads: Promise, with any sets of waiters and chainers,  *)
(* and ActionQueue, with items that call put() themselves and items that   *)
(* raise.  What follows the typing of Promise is about one issuer thread,  *)
(* the thread that setter_thread is documented to be: two may pass the     *)
(* check of _set together, and the later one overwrites the outcome.       *)
(***************************************************************************)
EXTENDS Promise, ActionQueue, TLAPS

(* Promise *)

SingleIssuer == Issuers = {SetterThread}

(* Where the issuer is in _set decides what the three fields hold.         *)
SetterInv(i) ==
    /\ ipc[i] = "idle" /\ ~evt => state = "pending" /\ res = None
    /\ ipc[i] = "state" => state = "pending" /\ res = None /\ ~evt
    /\ ipc[i] = "result" => state = arg[i] /\ res = None /\ ~evt
    /\ ipc[i] = "evt" => state = arg[i] /\ res = <<i, sets[i]>> /\ ~evt
    /\ ipc[i] = "call" => state = arg[i] /\ res = <<i, sets[i]>> /\ evt
    /\ evt => state \in Settled /\ res \in Payloads

(* A waiter that is past the event reads fields that no longer change.     *)
WaiterInv(w) ==
    /\ wpc[w] \in {"if_fulfilled", "if_failed", "returned"} \union Settled => evt
    /\ wpc[w] = "if_failed" => state = "failed"
    /\ wpc[w] \in Settled => state = wpc[w]
    /\ IF wpc[w] = "returned" THEN got[w] = Outcome ELSE got[w] = None
    /\ wpc[w] # "assertion_error"

ChainerInv(c) == cpc[c] \in Settled => state = cpc[c]

(* The steps of then() from which it will still find the state s settled   *)
(* and run the handler: the handler for s is written, s is not yet read.   *)
Due(s) == IF s = "fulfilled" THEN {"errback", "if_fulfilled", "fulfilled"}
                             ELSE {"if_fulfilled", "if_failed", "failed"}

(* Once the issuer is past its own call of the handler, the handler that   *)
(* is registered has been run or its own then() is about to run it.        *)
HandlerInv ==
    (evt /\ ipc[SetterThread] = "idle" /\ Handler(state) # None)
        => Delivered(Handler(state)) \/ cpc[Handler(state)] \in Due(state)

IInv == /\ TypeOK
        /\ SetterInv(SetterThread)
        /\ \A w \in Waiters : WaiterInv(w)
        /\ \A c \in Chainers : ChainerInv(c)
        /\ HandlerInv
-----------------------------------------------------------------------------
(* The history only grows, by at most the invocation that Invoke makes.    *)
LEMMA InvokeType ==
    ASSUME NEW s \in Settled, NEW val \in Payloads \union {None},
           TypeOK, Invoke(s, val)
    PROVE  calls' \in Seq(Invocations)
<1>1. CASE Handler(s) = None
  BY <1>1 DEF Invoke, TypeOK
<1>2. CASE Handler(s) # None
  <2>1. [handler |-> Handler(s), via |-> s, val |-> val] \in Invocations
    BY <1>2 DEF TypeOK, Handler, Invocations
  <2>. QED  BY <1>2, <2>1 DEF Invoke, TypeOK
<1>. QED  BY <1>1, <1>2

(* An issuer that is in the middle of a call has an argument to store.     *)
LEMMA ArgumentType ==
    ASSUME NEW i \in Issuers, ipc[i] # "idle", TypeOK
    PROVE  arg[i] \in Settled /\ <<i, sets[i]>> \in Payloads
<1>1. arg[i] \in Settled /\ sets[i] \in 1 .. MaxSets
  BY PromiseAssumption DEF TypeOK
<1>. QED  BY <1>1 DEF Payloads

(* Every field and every program counter keeps its type, for any number of *)
(* threads in every role.                                                  *)
THEOREM TypeCorrect == Spec => []TypeOK
<1>1. Init => TypeOK
  <2>. SUFFICES ASSUME Init PROVE TypeOK
    OBVIOUS
  <2>1. sets \in [Issuers -> 0 .. MaxSets]
    BY PromiseAssumption DEF Init
  <2>2. wpc \in [Waiters -> {"idle"} \union InResult \union Answered]
    BY DEF Init
  <2>3. calls \in Seq(Invocations)
    BY DEF Init
  <2>. QED  BY <2>1, <2>2, <2>3 DEF Init, TypeOK, PromiseState
<1>2. TypeOK /\ [Next]_vars => TypeOK'
  <2> SUFFICES ASSUME TypeOK, [Next]_vars PROVE TypeOK'
    OBVIOUS
  <2>. USE DEF TypeOK, fields, issuing, waiting
  <2>1. ASSUME NEW i \in Issuers, SetStep(i) PROVE TypeOK'
    <3>1. CASE SetCheck(i)
      <4>1. sets' \in [Issuers -> 0 .. MaxSets] /\ \A j \in Issuers : sets'[j] >= sets[j]
        BY <3>1, PromiseAssumption DEF SetCheck
      <4>2. sets'[i] > 0
        BY <3>1, PromiseAssumption DEF SetCheck
      <4>3. /\ arg' \in [Issuers -> PromiseState]
            /\ ipc' \in [Issuers -> {"idle", "state", "result", "evt", "call"}]
            /\ \A j \in Issuers : ipc'[j] # "idle" => arg'[j] \in Settled
        BY <3>1 DEF SetCheck, PromiseState
      <4>4. \A j \in Issuers : ipc'[j] # "idle" => sets'[j] > 0
        <5>. SUFFICES ASSUME NEW j \in Issuers, ipc'[j] # "idle", j # i PROVE sets'[j] > 0
          BY <4>2
        <5>1. ipc[j] # "idle" /\ sets'[j] = sets[j]
          BY <3>1 DEF SetCheck
        <5>. QED  BY <5>1
      <4>. QED  BY <3>1, <4>1, <4>3, <4>4 DEF SetCheck
    <3>2. CASE SetState(i)
      BY <3>2 DEF SetState, PromiseState
    <3>3. CASE SetResult(i)
      <4>1. <<i, sets[i]>> \in Payloads
        BY <3>3, ArgumentType DEF SetResult
      <4>. QED  BY <3>3, <4>1 DEF SetResult
    <3>4. CASE SetEvt(i)
      BY <3>4 DEF SetEvt
    <3>5. CASE SetCall(i)
      <4>1. arg[i] \in Settled /\ <<i, sets[i]>> \in Payloads
        BY <3>5, ArgumentType DEF SetCall
      <4>2. calls' \in Seq(Invocations)
        BY <3>5, <4>1, InvokeType DEF SetCall
      <4>. QED  BY <3>5, <4>2 DEF SetCall
    <3>. QED  BY <2>1, <3>1, <3>2, <3>3, <3>4, <3>5 DEF SetStep
  <2>2. ASSUME NEW w \in Waiters, ResultStep(w) PROVE TypeOK'
    <3>1. got' \in [Waiters -> [state : Settled, val : Payloads \union {None}] \union {None}]
      BY <2>2 DEF ResultStep, ResultGuard, ResultWait, ResultWake, ResultTimeout,
                  ResultIfFulfilled, ResultIfFailed, ResultReturn
    <3>2. wpc' \in [Waiters -> {"idle"} \union InResult \union Answered]
      BY <2>2 DEF ResultStep, ResultGuard, ResultWait, ResultWake, ResultTimeout,
                  ResultIfFulfilled, ResultIfFailed, ResultReturn, InResult, Answered, Settled
    <3>3. UNCHANGED <<fields, issuing, cpc, calls>>
      BY <2>2 DEF ResultStep, ResultGuard, ResultWait, ResultWake, ResultTimeout,
                  ResultIfFulfilled, ResultIfFailed, ResultReturn
    <3>. QED  BY <3>1, <3>2, <3>3
  <2>3. ASSUME NEW c \in Chainers, ThenStep(c) PROVE TypeOK'
    <3>1. CASE ThenCallback(c)
      BY <3>1 DEF ThenCallback
    <3>2. CASE ThenErrback(c)
      BY <3>2 DEF ThenErrback
    <3>3. CASE ThenIfFulfilled(c)
      BY <3>3 DEF ThenIfFulfilled, Settled
    <3>4. CASE ThenIfFailed(c)
      BY <3>4 DEF ThenIfFailed, Settled
    <3>5. CASE ThenCall(c)
      <4>1. calls' \in Seq(Invocations)
        BY <3>5, InvokeType DEF ThenCall
      <4>. QED  BY <3>5, <4>1 DEF ThenCall
    <3>. QED  BY <2>3, <3>1, <3>2, <3>3, <3>4, <3>5 DEF ThenStep
  <2>4. CASE UNCHANGED vars
    BY <2>4 DEF vars
  <2>. QED  BY <2>1, <2>2, <2>3, <2>4 DEF Next
<1>. QED  BY <1>1, <1>2, PTL DEF Spec
-----------------------------------------------------------------------------
(* Calls of result() touch nothing but the waiter, calls of then() nothing *)
(* but the handlers and the history.                                       *)
LEMMA ResultFrame ==
    ASSUME NEW w \in Waiters, ResultStep(w)
    PROVE  UNCHANGED <<fields, issuing, cpc, calls>>
BY DEF ResultStep, ResultGuard, ResultWait, ResultWake, ResultTimeout,
       ResultIfFulfilled, ResultIfFailed, ResultReturn

(* What then() leaves alone. *)
LEMMA ThenFrame ==
    ASSUME NEW c \in Chainers, ThenStep(c)
    PROVE  UNCHANGED <<state, res, evt, issuing, waiting>>
BY DEF ThenStep, ThenCallback, ThenErrback, ThenIfFulfilled, ThenIfFailed, ThenCall, fields

(* The fields follow the issuer through _set.                              *)
LEMMA SetterStep ==
    ASSUME SingleIssuer, TypeOK, SetterInv(SetterThread), [Next]_vars
    PROVE  SetterInv(SetterThread)'
<1>. DEFINE s == SetterThread
<1>. USE DEF SingleIssuer, SetterInv, fields, issuing
<1>1. s \in Issuers
  BY PromiseAssumption
<1>2. CASE SetCheck(s)
  BY <1>1, <1>2 DEF SetCheck, TypeOK, Settled
<1>3. CASE SetState(s)
  BY <1>1, <1>3 DEF SetState, TypeOK
<1>4. CASE SetResult(s)
  BY <1>1, <1>4 DEF SetResult, TypeOK
<1>5. CASE SetEvt(s)
  BY <1>1, <1>5, ArgumentType DEF SetEvt, TypeOK
<1>6. CASE SetCall(s)
  BY <1>1, <1>6 DEF SetCall, TypeOK
<1>7. CASE \E w \in Waiters : ResultStep(w)
  BY <1>7, ResultFrame
<1>8. CASE \E c \in Chainers : ThenStep(c)
  BY <1>8, ThenFrame
<1>9. CASE UNCHANGED vars
  BY <1>9 DEF vars
<1>. QED  BY <1>2, <1>3, <1>4, <1>5, <1>6, <1>7, <1>8, <1>9 DEF Next, SetStep

(* A state that is settled stays, and so does everything once announced.   *)
LEMMA OutcomeStays ==
    ASSUME SingleIssuer, TypeOK, SetterInv(SetterThread), [Next]_vars
    PROVE  /\ state # "pending" => state' = state
           /\ evt => evt' /\ UNCHANGED <<state, res>>
<1>. USE DEF SingleIssuer, SetterInv, fields
<1>1. CASE SetStep(SetterThread)
  BY <1>1 DEF SetStep, SetCheck, SetState, SetResult, SetEvt, SetCall
<1>2. CASE \E w \in Waiters : ResultStep(w)
  BY <1>2, ResultFrame
<1>3. CASE \E c \in Chainers : ThenStep(c)
  BY <1>3, ThenFrame
<1>4. CASE UNCHANGED vars
  BY <1>4 DEF vars
<1>. QED  BY <1>1, <1>2, <1>3, <1>4 DEF Next

(* A waiter past the event reads what no longer changes. *)
LEMMA WaiterStep ==
    ASSUME SingleIssuer, TypeOK, SetterInv(SetterThread), [Next]_vars,
           NEW w \in Waiters, WaiterInv(w)
    PROVE  WaiterInv(w)'
<1>. USE DEF WaiterInv, Settled, Outcome
<1>1. evt => evt' /\ UNCHANGED <<state, res>>
  BY OutcomeStays
<1>2. evt => state \in Settled
  BY DEF SetterInv
<1>3. ASSUME NEW v \in Waiters, ResultStep(v) PROVE WaiterInv(w)'
  <2>1. UNCHANGED <<state, res, evt>>
    BY <1>3, ResultFrame DEF fields
  <2>2. CASE v # w
    <3>1. UNCHANGED <<wpc[w], got[w]>>
      BY <1>3, <2>2 DEF ResultStep, ResultGuard, ResultWait, ResultWake, ResultTimeout,
                        ResultIfFulfilled, ResultIfFailed, ResultReturn, TypeOK
    <3>. QED  BY <2>1, <3>1
  <2>3. CASE v = w
    <3>1. CASE ResultGuard(w) \/ ResultWait(w) \/ ResultWake(w) \/ ResultTimeout(w)
      BY <2>1, <3>1 DEF ResultGuard, ResultWait, ResultWake, ResultTimeout, TypeOK
    <3>2. CASE ResultIfFulfilled(w) \/ ResultIfFailed(w)
      BY <1>2, <2>1, <3>2 DEF ResultIfFulfilled, ResultIfFailed, TypeOK
    <3>3. CASE ResultReturn(w)
      BY <2>1, <3>3 DEF ResultReturn, TypeOK
    <3>. QED  BY <1>3, <2>3, <3>1, <3>2, <3>3 DEF ResultStep
  <2>. QED  BY <2>2, <2>3
<1>4. CASE UNCHANGED waiting
  BY <1>1, <1>2, <1>4 DEF waiting
<1>5. CASE SetStep(SetterThread)
  BY <1>4, <1>5 DEF SetStep, SetCheck, SetState, SetResult, SetEvt, SetCall
<1>6. CASE \E c \in Chainers : ThenStep(c)
  BY <1>4, <1>6, ThenFrame
<1>7. CASE UNCHANGED vars
  BY <1>4, <1>7 DEF vars
<1>. QED  BY <1>3, <1>5, <1>6, <1>7 DEF Next, SingleIssuer

(* A chainer that has read the state has read the final one. *)
LEMMA ChainerStep ==
    ASSUME SingleIssuer, TypeOK, SetterInv(SetterThread), [Next]_vars,
           NEW c \in Chainers, ChainerInv(c)
    PROVE  ChainerInv(c)'
<1>. USE DEF ChainerInv, Settled
<1>1. state # "pending" => state' = state
  BY OutcomeStays
<1>2. ASSUME NEW d \in Chainers, ThenStep(d) PROVE ChainerInv(c)'
  <2>1. state' = state
    BY <1>2, ThenFrame
  <2>. QED  BY <1>2, <2>1 DEF ThenStep, ThenCallback, ThenErrback, ThenIfFulfilled,
                              ThenIfFailed, ThenCall, TypeOK
<1>3. CASE UNCHANGED cpc
  BY <1>1, <1>3
<1>4. CASE SetStep(SetterThread)
  BY <1>3, <1>4 DEF SetStep, SetCheck, SetState, SetResult, SetEvt, SetCall
<1>5. CASE \E w \in Waiters : ResultStep(w)
  BY <1>3, <1>5, ResultFrame
<1>6. CASE UNCHANGED vars
  BY <1>3, <1>6 DEF vars
<1>. QED  BY <1>2, <1>4, <1>5, <1>6 DEF Next, SingleIssuer

(* The history only grows: a handler that was run stays run, as long as    *)
(* the outcome stays, and Invoke runs the registered one.                  *)
LEMMA InvokeDelivers ==
    ASSUME TypeOK, state \in Settled, Invoke(state, res), UNCHANGED fields
    PROVE  /\ Handler(state) # None => Delivered(Handler(state))'
           /\ \A h : Delivered(h) => Delivered(h)'
<1>. USE DEF fields
<1>1. CASE Handler(state) = None
  BY <1>1 DEF Invoke, Delivered
<1>2. CASE Handler(state) # None
  <2>. DEFINE inv == [handler |-> Handler(state), via |-> state, val |-> res]
  <2>1. inv \in Invocations
    BY <1>2 DEF TypeOK, Handler, Invocations
  <2>2. calls' = Append(calls, inv) /\ calls \in Seq(Invocations)
    BY <1>2 DEF Invoke, TypeOK
  <2>3. /\ Len(calls') = Len(calls) + 1
        /\ calls'[Len(calls) + 1] = inv
        /\ \A k \in 1 .. Len(calls) : calls'[k] = calls[k]
    BY <2>1, <2>2
  <2>4. Len(calls) \in Nat
    BY <2>2
  <2>5. Delivered(Handler(state))'
    BY <2>3, <2>4 DEF Delivered, Handler
  <2>6. ASSUME NEW h, Delivered(h) PROVE Delivered(h)'
    <3>1. PICK k \in 1 .. Len(calls) : calls[k] = [handler |-> h, via |-> state, val |-> res]
      BY <2>6 DEF Delivered
    <3>. QED  BY <2>3, <2>4, <3>1 DEF Delivered
  <2>. QED  BY <2>5, <2>6
<1>. QED  BY <1>1, <1>2

(* A call of then() keeps its handler due until it has run it, and leaves  *)
(* the handler of another call as due or as done as it was.                *)
LEMMA HandlerStepThen ==
    ASSUME TypeOK, SetterInv(SetterThread), HandlerInv,
           NEW c \in Chainers, ChainerInv(c), ThenStep(c)
    PROVE  HandlerInv'
<1>. USE DEF HandlerInv, Handler, Due, fields, issuing
<1>1. UNCHANGED <<state, res, evt, ipc>>
  BY ThenFrame
<1>. SUFFICES ASSUME evt, ipc[SetterThread] = "idle", Handler(state)' # None
              PROVE  (Delivered(Handler(state)) \/ cpc[Handler(state)] \in Due(state))'
  BY <1>1
<1>2. state \in Settled
  BY DEF SetterInv
<1>3. \A h : UNCHANGED calls => (Delivered(h)' <=> Delivered(h))
  BY <1>1 DEF Delivered
<1>4. \A d \in Chainers : d # c => cpc'[d] = cpc[d]
  BY DEF ThenStep, ThenCallback, ThenErrback, ThenIfFulfilled, ThenIfFailed, ThenCall, TypeOK
<1>5. CASE ThenCallback(c)
  BY <1>1, <1>2, <1>3, <1>4, <1>5 DEF ThenCallback, TypeOK, Settled
<1>6. CASE ThenErrback(c)
  BY <1>1, <1>2, <1>3, <1>4, <1>6 DEF ThenErrback, TypeOK, Settled
<1>7. CASE ThenIfFulfilled(c)
  BY <1>1, <1>2, <1>3, <1>4, <1>7 DEF ThenIfFulfilled, TypeOK, Settled
<1>8. CASE ThenIfFailed(c)
  BY <1>1, <1>2, <1>3, <1>4, <1>8 DEF ThenIfFailed, TypeOK, Settled
<1>9. CASE ThenCall(c)
  <2>1. Invoke(state, res) /\ UNCHANGED fields
    BY <1>9 DEF ThenCall, ChainerInv
  <2>2. Handler(state)' = Handler(state)
    BY <1>1, <2>1
  <2>3. Handler(state) # None
    BY <2>2
  <2>4. Delivered(Handler(state))'
    BY <1>2, <2>1, <2>3, InvokeDelivers
  <2>. QED  BY <2>4
<1>. QED  BY <1>5, <1>6, <1>7, <1>8, <1>9 DEF ThenStep

(* The issuer leaves a handler to a then() that will still find the state  *)
(* settled, or runs it itself.                                             *)
LEMMA HandlerStep ==
    ASSUME SingleIssuer, IInv, [Next]_vars
    PROVE  HandlerInv'
<1>. DEFINE s == SetterThread
<1>. USE DEF SingleIssuer, IInv, fields, issuing
<1>1. s \in Issuers
  BY PromiseAssumption
<1>2. CASE UNCHANGED <<fields, ipc, cpc, calls>>
  BY <1>2 DEF HandlerInv, Handler, Delivered
<1>3. CASE SetCheck(s)
  <2>1. CASE evt
    BY <1>2, <1>3, <2>1 DEF SetCheck
  <2>2. CASE ~evt
    BY <1>3, <2>2 DEF SetCheck, HandlerInv
  <2>. QED  BY <2>1, <2>2
<1>4. CASE SetState(s) \/ SetResult(s)
  BY <1>1, <1>4 DEF SetState, SetResult, SetterInv, HandlerInv
<1>5. CASE SetEvt(s)
  BY <1>1, <1>5 DEF SetEvt, HandlerInv, TypeOK
<1>6. CASE SetCall(s)
  <2>1. Invoke(state, res) /\ UNCHANGED fields /\ state \in Settled
    BY <1>6 DEF SetCall, SetterInv
  <2>2. Handler(state)' = Handler(state)
    BY <2>1 DEF Handler
  <2>3. Handler(state) # None => Delivered(Handler(state))'
    BY <2>1, InvokeDelivers
  <2>. QED  BY <2>2, <2>3 DEF HandlerInv
<1>7. CASE \E w \in Waiters : ResultStep(w)
  BY <1>2, <1>7, ResultFrame
<1>8. CASE \E c \in Chainers : ThenStep(c)
  BY <1>8, HandlerStepThen
<1>9. CASE UNCHANGED vars
  BY <1>2, <1>9 DEF vars
<1>. QED  BY <1>3, <1>4, <1>5, <1>6, <1>7, <1>8, <1>9 DEF Next, SetStep

(* The inductive invariant of a promise with one issuer. *)
LEMMA Inductive == SingleIssuer => (Spec => []IInv)
<1>. SUFFICES ASSUME SingleIssuer PROVE Spec => []IInv
  OBVIOUS
<1>1. ASSUME Init, TypeOK PROVE IInv
  <2>1. SetterInv(SetterThread)
    BY <1>1, PromiseAssumption DEF Init, SetterInv
  <2>2. \A w \in Waiters : WaiterInv(w)
    BY <1>1 DEF Init, WaiterInv, Settled
  <2>3. \A c \in Chainers : ChainerInv(c)
    BY <1>1 DEF Init, ChainerInv, Settled
  <2>4. HandlerInv
    BY <1>1 DEF Init, HandlerInv
  <2>. QED  BY <1>1, <2>1, <2>2, <2>3, <2>4 DEF IInv
<1>2. ASSUME IInv, TypeOK', [Next]_vars PROVE IInv'
  <2>1. SetterInv(SetterThread)'
    BY <1>2, SetterStep DEF IInv
  <2>2. (\A w \in Waiters : WaiterInv(w))'
    BY <1>2, WaiterStep DEF IInv
  <2>3. (\A c \in Chainers : ChainerInv(c))'
    BY <1>2, ChainerStep DEF IInv
  <2>4. HandlerInv'
    BY <1>2, HandlerStep
  <2>. QED  BY <1>2, <2>1, <2>2, <2>3, <2>4 DEF IInv
<1>. QED  BY <1>1, <1>2, TypeCorrect, PTL DEF Spec
-----------------------------------------------------------------------------
(* result() ends with the outcome that is stored in the end, and never in  *)
(* `assert False`, for any number of waiting threads.                      *)
THEOREM ResultCorrect == SingleIssuer => (Spec => []WaiterSeesOutcome)
<1>1. IInv => WaiterSeesOutcome
  BY DEF IInv, WaiterInv, WaiterSeesOutcome
<1>. QED  BY <1>1, Inductive, PTL

(* Neither set_* nor any of the calls of then() it races with drops the    *)
(* handler that is registered in the end.                                  *)
THEOREM ThenCorrect == SingleIssuer => (Spec => []HandlerNotLost)
<1>1. IInv => HandlerNotLost
  <2>. SUFFICES ASSUME IInv, evt, Quiet, Handler(state) # None
                PROVE  Delivered(Handler(state))
    BY DEF HandlerNotLost
  <2>1. Handler(state) \in Chainers
    BY DEF IInv, TypeOK, Handler
  <2>2. cpc[Handler(state)] \notin Due(state)
    BY <2>1 DEF Quiet, Due
  <2>3. ipc[SetterThread] = "idle"
    BY PromiseAssumption DEF Quiet
  <2>. QED  BY <2>2, <2>3 DEF IInv, HandlerInv
<1>. QED  BY <1>1, Inductive, PTL

(* The promise implements the write-once cell: `self._evt.set()` writes    *)
(* it, the return of result() reads it, every other line is invisible.     *)
THEOREM ImplementsWriteOnce == SingleIssuer => (Spec => WriteOnceSpec)
<1>. SUFFICES ASSUME SingleIssuer PROVE Spec => WriteOnceSpec
  OBVIOUS
<1>. DEFINE cell == IF evt THEN Outcome ELSE None
<1>1. Init => WO!Init
  BY DEF Init, WO!Init
<1>2. ASSUME IInv, [Next]_vars PROVE [WO!Next]_<<cell, got>>
  <2>. USE DEF SingleIssuer
  <2>1. evt => evt' /\ UNCHANGED <<state, res>>
    BY <1>2, OutcomeStays DEF IInv
  <2>2. CASE UNCHANGED <<evt, got>>
    BY <2>1, <2>2 DEF Outcome
  <2>3. CASE SetEvt(SetterThread)
    <3>1. cell = None /\ cell' = Outcome /\ got' = got
      BY <1>2, <2>3 DEF SetEvt, IInv, SetterInv, Outcome, waiting
    <3>2. Outcome \in Outcomes
      <4>1. state = arg[SetterThread] /\ res = <<SetterThread, sets[SetterThread]>>
        BY <1>2, <2>3 DEF SetEvt, IInv, SetterInv
      <4>2. state \in Settled /\ res \in Payloads
        BY <1>2, <2>3, <4>1, ArgumentType, PromiseAssumption DEF IInv, SetEvt
      <4>. QED  BY <4>2 DEF Outcome, Outcomes
    <3>3. WO!Settle(Outcome)
      BY <3>1 DEF WO!Settle
    <3>. QED  BY <3>2, <3>3 DEF WO!Next
  <2>4. ASSUME NEW w \in Waiters, ResultReturn(w) PROVE WO!Observe(w)
    <3>1. evt /\ state = wpc[w] /\ got[w] = None
      BY <1>2, <2>4 DEF ResultReturn, IInv, WaiterInv, Settled
    <3>2. state \in PromiseState /\ res \in Payloads \union {None}
      BY <1>2 DEF IInv, TypeOK
    <3>3. Outcome # None
      BY <3>2, PromiseAssumption DEF Outcome
    <3>4. cell = Outcome /\ UNCHANGED cell /\ got' = [got EXCEPT ![w] = cell]
      BY <2>1, <2>4, <3>1 DEF ResultReturn, Outcome
    <3>. QED  BY <3>1, <3>3, <3>4 DEF WO!Observe
  <2>5. CASE SetStep(SetterThread)
    BY <2>2, <2>3, <2>5 DEF SetStep, SetCheck, SetState, SetResult, SetCall, fields, waiting
  <2>6. CASE \E w \in Waiters : ResultStep(w)
    BY <2>2, <2>4, <2>6 DEF ResultStep, ResultGuard, ResultWait, ResultWake, ResultTimeout,
                            ResultIfFulfilled, ResultIfFailed, fields, WO!Next
  <2>7. CASE \E c \in Chainers : ThenStep(c)
    BY <2>2, <2>7, ThenFrame DEF waiting
  <2>8. CASE UNCHANGED vars
    BY <2>2, <2>8 DEF vars, fields, waiting
  <2>. QED  BY <1>2, <2>5, <2>6, <2>7, <2>8 DEF Next
<1>. QED  BY <1>1, <1>2, Inductive, PTL DEF Spec, WriteOnceSpec, WO!Spec, WO!cellVars
-----------------------------------------------------------------------------
(* ActionQueue *)

(* Who is inside the critical section of put() holds the lock. *)
LockInv == \A c \in Callers : pc[c] \in {"check", "await"} <=> lock = c

(* A worker that has not announced itself is awaited by a put() that holds *)
(* the lock, and one that has keeps _running set.                          *)
LiveInv ==
    /\ \A v, w \in Workers : Live(v) /\ Live(w) => v = w
    /\ \A w \in Workers : stage[w] \in {"fetch", "run"} => running
    /\ \A w \in Workers : stage[w] = "started"
          => ~running /\ lock \in Callers /\ pc[lock] = "await"

(* Until an item raises, _running says that there is a worker, and a put() *)
(* that waits for the announcement waits for one that will come.           *)
Attending ==
    /\ running => \E w \in Workers : stage[w] \in {"fetch", "run"}
    /\ \A c \in Callers : pc[c] = "await" => \E w \in Workers : Live(w)
    /\ lock = Nobody /\ ~running => queue = <<>>

AttendInv == Crashed \/ Attending

QueueInv == QueueTypeOK /\ LockInv /\ LiveInv
-----------------------------------------------------------------------------
(* The types at the start, ... *)
LEMMA QueueTypeInit == QueueInit => QueueTypeOK
<1>. SUFFICES ASSUME QueueInit PROVE QueueTypeOK
  OBVIOUS
<1>1. queue \in Seq(Actions)
  BY DEF QueueInit
<1>. QED  BY <1>1 DEF QueueInit, QueueTypeOK

(* ... and with each step of put() and of the worker. *)
LEMMA QueueTypeStep == QueueTypeOK /\ [QueueNext]_queueVars => QueueTypeOK'
<1>. SUFFICES ASSUME QueueTypeOK, [QueueNext]_queueVars PROVE QueueTypeOK'
  OBVIOUS
<1>. USE DEF QueueTypeOK, putting, working
<1>1. ASSUME NEW c \in Callers, NEW a \in Actions, PutCall(c, a) PROVE QueueTypeOK'
  BY <1>1 DEF PutCall
<1>2. ASSUME NEW c \in Callers, PutEnqueue(c) PROVE QueueTypeOK'
  <2>1. queue' \in Seq(Actions)
    BY <1>2 DEF PutEnqueue
  <2>. QED  BY <1>2, <2>1 DEF PutEnqueue
<1>3. ASSUME NEW c \in Callers, PutCheck(c) PROVE QueueTypeOK'
  <2>1. CASE running
    BY <1>3, <2>1 DEF PutCheck
  <2>2. CASE ~running
    <3>1. (CHOOSE w \in Unborn : TRUE) \in Workers
      BY <1>3, <2>2 DEF PutCheck, StartWorker, Unborn
    <3>. QED  BY <1>3, <2>2, <3>1 DEF PutCheck, StartWorker
  <2>. QED  BY <2>1, <2>2
<1>4. ASSUME NEW c \in Callers, PutAwait(c) PROVE QueueTypeOK'
  BY <1>4 DEF PutAwait
<1>5. ASSUME NEW w \in Workers, WorkerAnnounce(w) PROVE QueueTypeOK'
  BY <1>5 DEF WorkerAnnounce
<1>6. ASSUME NEW w \in Workers, WorkerTake(w) PROVE QueueTypeOK'
  <2>1. Head(queue) \in Actions /\ Tail(queue) \in Seq(Actions)
    BY <1>6 DEF WorkerTake
  <2>. QED  BY <1>6, <2>1 DEF WorkerTake
<1>7. ASSUME NEW w \in Workers, WorkerRetire(w) PROVE QueueTypeOK'
  BY <1>7 DEF WorkerRetire
<1>8. ASSUME NEW w \in Workers, ItemEnds(w) PROVE QueueTypeOK'
  <2>1. CASE WorkerFinish(w)
    BY <2>1 DEF WorkerFinish
  <2>2. CASE WorkerCrash(w)
    BY <2>2 DEF WorkerCrash
  <2>. QED  BY <1>8, <2>1, <2>2 DEF ItemEnds
<1>9. CASE UNCHANGED queueVars
  BY <1>9 DEF queueVars
<1>. QED  BY <1>1, <1>2, <1>3, <1>4, <1>5, <1>6, <1>7, <1>8, <1>9
          DEF QueueNext, PutStep, WorkerStep

(* The lock is taken and released with the program counter. *)
LEMMA LockStep == QueueTypeOK /\ LockInv /\ [QueueNext]_queueVars => LockInv'
<1>. SUFFICES ASSUME QueueTypeOK, LockInv, [QueueNext]_queueVars PROVE LockInv'
  OBVIOUS
<1>. USE QueueAssumption DEF QueueTypeOK, LockInv, putting, working
<1>1. ASSUME NEW c \in Callers, PutStep(c) \/ \E a \in Actions : PutCall(c, a) PROVE LockInv'
  BY <1>1 DEF PutStep, PutCall, PutEnqueue, PutCheck, PutAwait
<1>2. ASSUME NEW w \in Workers, WorkerStep(w) \/ ItemEnds(w) PROVE LockInv'
  BY <1>2 DEF WorkerStep, ItemEnds, WorkerAnnounce, WorkerTake, WorkerRetire,
              WorkerFinish, WorkerCrash
<1>3. CASE UNCHANGED queueVars
  BY <1>3 DEF queueVars
<1>. QED  BY <1>1, <1>2, <1>3 DEF QueueNext

(* put() starts a worker only when none is alive: a live one would either  *)
(* keep _running set or be awaited by another holder of the lock.          *)
LEMMA StartsAlone ==
    ASSUME QueueInv, NEW c \in Callers, PutCheck(c), ~running
    PROVE  \A w \in Workers : ~Live(w)
BY DEF QueueInv, QueueTypeOK, LockInv, LiveInv, Live, PutCheck

(* There is one live worker at most, announced or awaited. *)
LEMMA LiveStep == QueueInv /\ [QueueNext]_queueVars => LiveInv'
<1>. SUFFICES ASSUME QueueInv, [QueueNext]_queueVars PROVE LiveInv'
  OBVIOUS
<1>. USE DEF QueueInv, QueueTypeOK, LiveInv, Live, putting, working
<1>1. ASSUME NEW c \in Callers, NEW a \in Actions, PutCall(c, a) PROVE LiveInv'
  BY <1>1 DEF PutCall
<1>2. ASSUME NEW c \in Callers, PutEnqueue(c) PROVE LiveInv'
  BY <1>2, QueueAssumption DEF PutEnqueue
<1>3. ASSUME NEW c \in Callers, PutCheck(c) PROVE LiveInv'
  <2>1. CASE running
    BY <1>3, <2>1 DEF PutCheck
  <2>2. CASE ~running
    <3>1. \A w \in Workers : ~Live(w)
      BY <1>3, <2>2, StartsAlone
    <3>2. PICK v \in Workers : stage' = [stage EXCEPT ![v] = "started"]
      BY <1>3, <2>2 DEF PutCheck, StartWorker, Unborn
    <3>3. lock' = c /\ pc'[c] = "await" /\ ~running'
      BY <1>3, <2>2 DEF PutCheck, LockInv
    <3>. QED  BY <3>1, <3>2, <3>3
  <2>. QED  BY <2>1, <2>2
<1>4. ASSUME NEW c \in Callers, PutAwait(c) PROVE LiveInv'
  BY <1>4 DEF PutAwait
<1>5. ASSUME NEW w \in Workers, WorkerAnnounce(w) PROVE LiveInv'
  BY <1>5 DEF WorkerAnnounce
<1>6. ASSUME NEW w \in Workers, WorkerTake(w) PROVE LiveInv'
  BY <1>6 DEF WorkerTake
<1>7. ASSUME NEW w \in Workers, WorkerRetire(w) PROVE LiveInv'
  BY <1>7 DEF WorkerRetire
<1>8. ASSUME NEW w \in Workers, ItemEnds(w) PROVE LiveInv'
  BY <1>8 DEF ItemEnds, WorkerFinish, WorkerCrash
<1>9. CASE UNCHANGED queueVars
  BY <1>9 DEF queueVars
<1>. QED  BY <1>1, <1>2, <1>3, <1>4, <1>5, <1>6, <1>7, <1>8, <1>9
          DEF QueueNext, PutStep, WorkerStep

(* The inductive invariant of the queue. *)
LEMMA QueueInductive == QueueSpec => []QueueInv
<1>1. QueueInit => QueueInv
  BY QueueTypeInit, QueueAssumption DEF QueueInit, QueueInv, LockInv, LiveInv, Live
<1>2. QueueInv /\ [QueueNext]_queueVars => QueueInv'
  BY QueueTypeStep, LockStep, LiveStep DEF QueueInv
<1>. QED  BY <1>1, <1>2, PTL DEF QueueSpec

(* Every field and every program counter keeps its type.                   *)
THEOREM QueueTypeCorrect == QueueSpec => []QueueTypeOK
<1>1. QueueInv => QueueTypeOK
  BY DEF QueueInv
<1>. QED  BY <1>1, QueueInductive, PTL
-----------------------------------------------------------------------------
(* A thread that an item has ended stays as it is. *)
LEMMA CrashedStays == QueueInv /\ Crashed /\ [QueueNext]_queueVars => Crashed'
<1>. SUFFICES ASSUME QueueInv, Crashed, [QueueNext]_queueVars PROVE Crashed'
  OBVIOUS
<1>1. PICK v \in Workers : stage[v] = "dead" /\ current[v] \in Raising
  BY DEF Crashed
<1>. SUFFICES stage'[v] = "dead" /\ current'[v] = current[v]
  BY <1>1 DEF Crashed
<1>. USE DEF QueueInv, QueueTypeOK, putting, working
<1>2. ASSUME NEW c \in Callers, PutStep(c) \/ \E a \in Actions : PutCall(c, a)
      PROVE  stage'[v] = "dead" /\ current'[v] = current[v]
  BY <1>1, <1>2 DEF PutStep, PutCall, PutEnqueue, PutCheck, PutAwait, StartWorker, Unborn
<1>3. ASSUME NEW w \in Workers, WorkerStep(w) \/ ItemEnds(w)
      PROVE  stage'[v] = "dead" /\ current'[v] = current[v]
  BY <1>1, <1>3 DEF WorkerStep, ItemEnds, WorkerAnnounce, WorkerTake, WorkerRetire,
                    WorkerFinish, WorkerCrash
<1>4. CASE UNCHANGED queueVars
  BY <1>1, <1>4 DEF queueVars
<1>. QED  BY <1>2, <1>3, <1>4 DEF QueueNext

(* Until an item raises, each step keeps the queue attended. *)
LEMMA AttendStep ==
    ASSUME QueueInv, Attending, [QueueNext]_queueVars
    PROVE  AttendInv'
<1>. USE DEF QueueInv, QueueTypeOK, AttendInv, Attending, Live, putting, working
<1>1. ASSUME NEW c \in Callers, NEW a \in Actions, PutCall(c, a) PROVE AttendInv'
  BY <1>1 DEF PutCall
<1>2. ASSUME NEW c \in Callers, PutEnqueue(c) PROVE AttendInv'
  BY <1>2, QueueAssumption DEF PutEnqueue
<1>3. ASSUME NEW c \in Callers, PutCheck(c) PROVE AttendInv'
  <2>1. CASE running
    BY <1>3, <2>1 DEF PutCheck
  <2>2. CASE ~running
    <3>1. PICK v \in Workers : stage' = [stage EXCEPT ![v] = "started"]
      BY <1>3, <2>2 DEF PutCheck, StartWorker, Unborn
    <3>2. ~running' /\ lock' # Nobody
      BY <1>3, <2>2, QueueAssumption DEF PutCheck, LockInv
    <3>. QED  BY <3>1, <3>2
  <2>. QED  BY <2>1, <2>2
<1>4. ASSUME NEW c \in Callers, PutAwait(c) PROVE AttendInv'
  BY <1>4 DEF PutAwait
<1>5. ASSUME NEW w \in Workers, WorkerAnnounce(w) PROVE AttendInv'
  BY <1>5 DEF WorkerAnnounce
<1>6. ASSUME NEW w \in Workers, WorkerTake(w) PROVE AttendInv'
  BY <1>6 DEF WorkerTake
<1>7. ASSUME NEW w \in Workers, WorkerRetire(w) PROVE AttendInv'
  <2>1. \A c \in Callers : pc[c] # "await"
    BY <1>7, QueueAssumption DEF WorkerRetire, LockInv
  <2>. QED  BY <1>7, <2>1 DEF WorkerRetire
<1>8. ASSUME NEW w \in Workers, ItemEnds(w) PROVE AttendInv'
  <2>1. CASE WorkerFinish(w)
    BY <2>1 DEF WorkerFinish
  <2>2. CASE WorkerCrash(w)
    BY <2>2 DEF WorkerCrash, Crashed
  <2>. QED  BY <1>8, <2>1, <2>2 DEF ItemEnds
<1>9. CASE UNCHANGED queueVars
  BY <1>9 DEF queueVars
<1>. QED  BY <1>1, <1>2, <1>3, <1>4, <1>5, <1>6, <1>7, <1>8, <1>9
          DEF QueueNext, PutStep, WorkerStep

(* The lost wakeup that _startstop_lock is there for does not happen: until *)
(* an item raises, an item in the queue has a thread to run it.            *)
THEOREM Attended == QueueSpec => []AttendedUntilCrash
<1>1. QueueInit => AttendInv
  BY QueueAssumption DEF QueueInit, AttendInv, Attending
<1>2. QueueInv /\ AttendInv /\ [QueueNext]_queueVars => AttendInv'
  BY AttendStep, CrashedStays DEF AttendInv
<1>3. AttendInv => AttendedUntilCrash
  BY DEF AttendInv, Attending, AttendedUntilCrash, Live
<1>. QED  BY <1>1, <1>2, <1>3, QueueInductive, PTL DEF QueueSpec
-----------------------------------------------------------------------------
(* The queue implements the serial executor, whether items raise or not:   *)
(* put() is Arrive at the moment it has the lock, get_nowait() is Begin.   *)
THEOREM ImplementsSerialExecutor == QueueSpec => SerialExecutorSpec
<1>. DEFINE active == {current[w] : w \in {v \in Workers : stage[v] = "run"}}
<1>1. QueueInit => SE!Init
  BY DEF QueueInit, SE!Init
<1>2. ASSUME QueueInv, [QueueNext]_queueVars PROVE [SE!Next]_<<queue, active>>
  <2>. USE DEF QueueInv, QueueTypeOK, putting, working
  <2>1. ASSUME NEW c \in Callers, PutEnqueue(c) PROVE SE!Next
    <3>1. SE!Arrive(item[c])
      BY <2>1 DEF PutEnqueue, SE!Arrive
    <3>2. item[c] \in Actions
      BY <1>2, <2>1 DEF PutEnqueue
    <3>. QED  BY <3>1, <3>2 DEF SE!Next
  <2>2. ASSUME NEW w \in Workers, WorkerTake(w) PROVE SE!Next
    <3>1. \A v \in Workers : stage[v] # "run"
      BY <1>2, <2>2 DEF LiveInv, Live, WorkerTake
    <3>2. active = {} /\ active' = {Head(queue)}
      <4>1. current'[w] = Head(queue) /\ \A v \in Workers : stage'[v] = "run" <=> v = w
        BY <1>2, <2>2, <3>1 DEF WorkerTake
      <4>. QED  BY <3>1, <4>1
    <3>3. SE!Begin
      BY <2>2, <3>2 DEF WorkerTake, SE!Begin
    <3>. QED  BY <3>3 DEF SE!Next
  <2>3. ASSUME NEW w \in Workers, ItemEnds(w) PROVE SE!Next
    <3>1. stage[w] = "run" /\ current' = current /\ queue' = queue
      BY <2>3 DEF ItemEnds, WorkerFinish, WorkerCrash
    <3>2. \A v \in Workers : stage[v] = "run" => v = w
      BY <1>2, <3>1 DEF LiveInv, Live
    <3>3. \A v \in Workers : stage'[v] # "run"
      BY <1>2, <2>3, <3>2 DEF ItemEnds, WorkerFinish, WorkerCrash
    <3>4. PICK a \in Actions : a = current[w]
      BY <1>2, <3>1
    <3>5. active = {a} /\ active' = {}
      BY <3>1, <3>2, <3>3, <3>4
    <3>6. SE!End(a)
      BY <3>1, <3>5 DEF SE!End
    <3>. QED  BY <3>6 DEF SE!Next
  <2>4. ASSUME UNCHANGED <<queue, current>>,
               \A w \in Workers : stage'[w] = "run" <=> stage[w] = "run"
        PROVE  UNCHANGED <<queue, active>>
    BY <2>4
  <2>5. ASSUME NEW c \in Callers,
               PutCheck(c) \/ PutAwait(c) \/ \E a \in Actions : PutCall(c, a)
        PROVE  UNCHANGED <<queue, active>>
    <3>1. \A w \in Workers : stage'[w] = "run" <=> stage[w] = "run"
      BY <1>2, <2>5 DEF PutCall, PutCheck, PutAwait, StartWorker, Unborn
    <3>2. UNCHANGED <<queue, current>>
      BY <2>5 DEF PutCall, PutCheck, PutAwait
    <3>. QED  BY <2>4, <3>1, <3>2
  <2>6. ASSUME NEW w \in Workers, WorkerAnnounce(w) \/ WorkerRetire(w)
        PROVE  UNCHANGED <<queue, active>>
    <3>1. \A v \in Workers : stage'[v] = "run" <=> stage[v] = "run"
      BY <1>2, <2>6 DEF WorkerAnnounce, WorkerRetire
    <3>2. UNCHANGED <<queue, current>>
      BY <2>6 DEF WorkerAnnounce, WorkerRetire
    <3>. QED  BY <2>4, <3>1, <3>2
  <2>7. CASE UNCHANGED queueVars
    BY <2>7 DEF queueVars
  <2>. QED  BY <1>2, <2>1, <2>2, <2>3, <2>5, <2>6, <2>7 DEF QueueNext, PutStep, WorkerStep
<1>. QED  BY <1>1, <1>2, QueueInductive, PTL
          DEF QueueSpec, SerialExecutorSpec, SE!Spec, SE!executorVars
=============================================================================
