---------------------------- MODULE SerialExecutor ----------------------------
(***************************************************************************)
(* What an ActionQueue promises, without threads, locks or events: work    *)
(* items are processed one at a time, in the order in which they arrived.  *)
(* ActionQueue.tla is shown to implement this module.                      *)
(***************************************************************************)
EXTENDS Sequences

CONSTANT Actions   \* the work items

VARIABLES pending, \* items waiting, oldest first
          active   \* items being processed

executorVars == <<pending, active>>

Init == pending = <<>> /\ active = {}

Arrive(a) == /\ pending' = Append(pending, a)
             /\ UNCHANGED active

(* The oldest item is started, and only when none is being processed.      *)
Begin == /\ pending # <<>> /\ active = {}
         /\ active' = {Head(pending)}
         /\ pending' = Tail(pending)

End(a) == /\ a \in active
          /\ active' = active \ {a}
          /\ UNCHANGED pending

Next == \/ \E a \in Actions : Arrive(a) \/ End(a)
        \/ Begin

Spec == Init /\ [][Next]_executorVars
=============================================================================
