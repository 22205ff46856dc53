------------------------------ MODULE WriteOnce ------------------------------
(***************************************************************************)
(* What a Promise promises, without threads, events or fields: a cell that *)
(* is written at most once, and readers who each take away the value that  *)
(* was written.  Promise.tla is shown to implement this module.            *)
(***************************************************************************)
CONSTANTS Readers,   \* who may look into the cell
          Outcomes,  \* what may be written into it
          Unset      \* nothing written / nothing read yet

VARIABLES cell,      \* the outcome, or Unset
          seen       \* what each reader took away, or Unset

cellVars == <<cell, seen>>

Init == cell = Unset /\ seen = [r \in Readers |-> Unset]

(* The issuer writes the outcome, and nobody can write a second one. *)
Settle(o) == /\ cell = Unset
             /\ cell' = o
             /\ UNCHANGED seen

(* A reader gets an answer only once there is one, and gets that one. *)
Observe(r) == /\ cell # Unset
              /\ seen[r] = Unset
              /\ seen' = [seen EXCEPT ![r] = cell]
              /\ UNCHANGED cell

Next == \/ \E o \in Outcomes : Settle(o)
        \/ \E r \in Readers : Observe(r)

Spec == Init /\ [][Next]_cellVars
=============================================================================
