------------------------------ MODULE Broadcast ------------------------------
(***************************************************************************)
(* What a Bus promises, without queues, threads or locks: a message is     *)
(* handed to all of its receivers in one step, each of which takes its     *)
(* messages in that order, once, for as long as it stays connected.        *)
(* A peer whose thread dies stays connected and takes nothing any more;    *)
(* if it connects again, it gets each message once per connection.         *)
(* Bus.tla is shown to implement this module.                              *)
(***************************************************************************)
EXTENDS Naturals, Sequences, SequencesExt, FiniteSets

CONSTANTS Peers,    \* who may connect
          Messages, \* what may be sent, each at most once
          None      \* no message

VARIABLES members,  \* the connections in the order they were made: their peers
          taking,   \* the peers that take what is sent to them
          sent,     \* the messages sent so far
          inbox,    \* peer -> messages on their way to it
          reading   \* peer -> the message its handler is busy with

Init == /\ members = <<>> /\ taking = {} /\ sent = {}
        /\ inbox = [p \in Peers |-> <<>>]
        /\ reading = [p \in Peers |-> None]

Join(p) == /\ p \notin taking
           /\ members' = Append(members, p)
           /\ taking' = taking \union {p}
           /\ UNCHANGED <<sent, inbox, reading>>

(* Leaving, a peer forgoes what it has not received yet. *)
Leave(p) == /\ p \in taking
            /\ \E k \in DOMAIN members : members[k] = p /\ members' = RemoveAt(members, k)
            /\ taking' = taking \ {p}
            /\ inbox' = [inbox EXCEPT ![p] = IF p \in ToSet(members') THEN @ ELSE <<>>]
            /\ UNCHANGED <<sent, reading>>

(* A peer that dies is busy with a message then.                           *)
Die(p) == /\ p \in taking /\ reading[p] # None
          /\ taking' = taking \ {p}
          /\ reading' = [reading EXCEPT ![p] = None]
          /\ UNCHANGED <<members, sent, inbox>>

(* Before it connects again, it loses the oldest of what has come since.   *)
Forget(p) == /\ p \notin taking
             /\ \E n \in 0 .. Len(inbox[p]) :
                   inbox' = [inbox EXCEPT ![p] = SubSeq(@, n + 1, Len(@))]
             /\ UNCHANGED <<members, taking, sent, reading>>

Copies(n, m) == [i \in 1 .. n |-> m]
Connections(p) == Cardinality({k \in DOMAIN members : members[k] = p})

Send(m, to) == /\ m \notin sent
               /\ sent' = sent \union {m}
               /\ inbox' = [p \in Peers |-> IF p \in to THEN inbox[p] \o Copies(Connections(p), m)
                                            ELSE inbox[p]]
               /\ UNCHANGED <<members, taking, reading>>

Receive(p) == /\ p \in taking /\ inbox[p] # <<>> /\ reading[p] = None
              /\ inbox' = [inbox EXCEPT ![p] = Tail(@)]
              /\ reading' = [reading EXCEPT ![p] = Head(inbox[p])]
              /\ UNCHANGED <<members, taking, sent>>

Finish(p) == /\ reading[p] # None
             /\ reading' = [reading EXCEPT ![p] = None]
             /\ UNCHANGED <<members, taking, sent, inbox>>

Next == \/ \E p \in Peers : \/ Join(p) \/ Leave(p) \/ Die(p) \/ Forget(p)
                            \/ Receive(p) \/ Finish(p)
        \/ \E m \in Messages, to \in SUBSET ToSet(members) : Send(m, to)

Spec == Init /\ [][Next]_<<members, taking, sent, inbox, reading>>
=============================================================================
