------------------------------- MODULE Channel -------------------------------
(***************************************************************************)
(* What codec, transport and receive loop promise together: objects arrive *)
(* in the order they were sent, unchanged, each once and none besides; the *)
(* end of the connection loses what is under way, and nothing of it comes  *)
(* with the next one.                                                      *)
(***************************************************************************)
EXTENDS Sequences, SequencesExt

CONSTANT Objects

VARIABLES sent,  \* on this connection
          got    \* of that, what has arrived

Init == sent = <<>> /\ got = <<>>

Send == \E m \in Objects : sent' = Append(sent, m) /\ UNCHANGED got

Deliver == /\ IsStrictPrefix(got, got') /\ IsPrefix(got', sent)
           /\ UNCHANGED sent

Reconnect == sent' = <<>> /\ got' = <<>>

Spec == Init /\ [][Send \/ Deliver \/ Reconnect]_<<sent, got>>
=============================================================================
