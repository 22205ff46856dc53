------------------------------ MODULE RemoteCall ------------------------------
(***************************************************************************)
(* What a RemoteAPI promises of its calls, without messages, ids, threads  *)
(* or queues: a call that was issued is executed at most once, and the     *)
(* promise of a call yields the outcome of this very execution.            *)
(* RemoteAPI.tla is shown to implement this module.                        *)
(***************************************************************************)
CONSTANTS Calls,    \* every call that may ever be made
          Kinds,    \* how an execution ends: with a result or an error
          None      \* not executed, not answered

VARIABLES issued,   \* the calls made so far
          executed, \* call -> outcome of its execution, or None
          answered  \* call -> outcome that its promise has, or None

callVars == <<issued, executed, answered>>

Outcome(c, k) == [of |-> c, kind |-> k]

Init == /\ issued = {}
        /\ executed = [c \in Calls |-> None]
        /\ answered = [c \in Calls |-> None]

Issue(c) == /\ c \notin issued
            /\ issued' = issued \union {c}
            /\ UNCHANGED <<executed, answered>>

Execute(c, k) == /\ c \in issued /\ executed[c] = None
                 /\ executed' = [executed EXCEPT ![c] = Outcome(c, k)]
                 /\ UNCHANGED <<issued, answered>>

Answer(c) == /\ executed[c] # None /\ answered[c] = None
             /\ answered' = [answered EXCEPT ![c] = executed[c]]
             /\ UNCHANGED <<issued, executed>>

Next == \E c \in Calls : Issue(c) \/ Answer(c) \/ \E k \in Kinds : Execute(c, k)

Spec == Init /\ [][Next]_callVars
=============================================================================
