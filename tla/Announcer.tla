------------------------------ MODULE Announcer ------------------------------
(***************************************************************************)
(* AnnouncerAPI (quickrpc/announcer_api.py) over datagrams, as UdpTransport *)
(* (network_transports.py) or QUdpTransport (QtTransports.py) send and     *)
(* receive them: seekers broadcast `seek`, and announcers that match       *)
(* answer with a broadcast `advertise`.  Every socket that is open gets    *)
(* every broadcast, the sender's too, in any order.  Only those are kept   *)
(* in `inbox` that call an incoming method of the API.                     *)
(*                                                                         *)
(* The decorator @incoming (remote_api.py) calls the listeners of a method *)
(* one after the other, from a list that other threads and the listeners   *)
(* themselves may change.  The list is an attribute of the function, so    *)
(* that all announcers of a process have the same one: a seek that any of  *)
(* them receives is handed to on_seek of all of them.  An API that was     *)
(* inverted, which is what a seeker is, has a list of its own.             *)
(***************************************************************************)
EXTENDS FiniteSets, Naturals, SequencesExt

CONSTANTS Announcers, Seekers,
          Process,     \* announcer -> the process that it is in
          Listeners,   \* what a seeker connects to advertise()
          Once,        \* those of them that disconnect themselves when called
          Matches,     \* filter -> the announcers whose filter_func accepts it
          Long,        \* announcers whose advertisement has over 2048 bytes
          Quoted,      \* the datagrams with a quote in them
          Stray,       \* a datagram without a newline
          Idle,
          MaxSeeks,    \* bound: seeks
          MaxTroubles  \* bound: datagrams lost, duplicated or stray, stops,
                       \*   and connects and disconnects while all is running

Apis == Announcers \union Seekers
Owner(x) == IF x \in Announcers THEN Process[x] ELSE x
Owners == {Owner(x) : x \in Apis}
Datagrams == ({"seek"} \X DOMAIN Matches) \union ({"advertise"} \X Announcers)

ASSUME Disjoint == /\ Announcers \intersect Seekers = {} /\ Stray \notin Datagrams
                   /\ \A a \in Announcers : Process[a] \notin Seekers
ASSUME Finite == IsFiniteSet(Announcers) /\ IsFiniteSet(Listeners)
ASSUME Filters == \A f \in DOMAIN Matches : Matches[f] \subseteq Announcers
ASSUME Quotes == Quoted \subseteq Datagrams

(* What strays leave before the next datagram: nothing; a text that makes  *)
(* no message of it; one that opens a string, so that _decode_str() raises *)
(* if no quote follows; or one at which decode() raises whatever follows,  *)
(* like the number "-x" or what is not UTF-8.                              *)
Leftovers == {"none", "text", "string", "raise"}
Kind(d) == IF d \in Quoted THEN "quoted" ELSE "plain"
Raises(text, d) == text = "raise" \/ (text = "string" /\ Kind(d) = "plain")

(* An incoming call that is being handed to the listeners: its argument,   *)
(* the place in the list, who was called; history: who has been connected  *)
(* all the while, and how often someone left from before that place.       *)
Calls == [arg : DOMAIN Matches \union Announcers, i : Nat \ {0},
          called : Seq(Announcers \union Listeners), passed : Nat,
          steady : SUBSET (Announcers \union Listeners)]

VARIABLES qt,         \* are the sockets QUdpTransports?
          lossy,      \* does any trouble occur?  Both never change.
          up,         \* api -> is its socket open?
          listeners,  \* owner -> the listeners of its incoming method
          inbox,      \* api -> the datagrams under way to it, how many of each
          leftover,   \* api -> what it puts before the next datagram
          at,         \* api -> the call that it is handing to its listeners
          found,      \* seeker -> announcers whose advertisement came
          sought,     \* history: the filters of all seeks
          owed,       \* history: which announcer has to be found by whom
          spoiled,    \* history: api -> messages that were not understood,
                      \*   how many quoted ones and plain ones
          strays,     \* history: api -> stray datagrams it received
          had,        \* history: api -> the kinds of leftovers it has had
          seeks, troubles   \* how many so far

setup == <<qt, lossy>>
histories == <<sought, owed, spoiled, strays, had>>
counts == <<seeks, troubles>>
vars == <<setup, up, listeners, inbox, leftover, at, found, histories, counts>>

Init ==
    /\ qt \in BOOLEAN /\ lossy \in BOOLEAN
    /\ up = [x \in Apis |-> x \in Seekers]
    /\ \E connected \in SetToSeqs(Listeners) :
           listeners = [o \in Owners |-> IF o \in Seekers THEN connected ELSE <<>>]
    /\ inbox = [x \in Apis |-> [d \in Datagrams \union {Stray} |-> 0]]
    /\ leftover = [x \in Apis |-> "none"]
    /\ at = [x \in Apis |-> Idle]
    /\ found = [s \in Seekers |-> {}]
    /\ sought = {} /\ owed = {}
    /\ spoiled = [x \in Apis |-> [kind \in {"quoted", "plain"} |-> 0]]
    /\ strays = [x \in Apis |-> 0] /\ had = [x \in Apis |-> {}]
    /\ seeks = 0 /\ troubles = 0

Incoming(x, d) == d[1] = (IF x \in Announcers THEN "seek" ELSE "advertise")
Broadcast(d) ==
    inbox' = [x \in Apis |-> IF up[x] /\ Incoming(x, d) THEN [inbox[x] EXCEPT ![d] = @ + 1]
                             ELSE inbox[x]]
-----------------------------------------------------------------------------
(* make_announcer: connect on_seek.  Its transport is started later on.    *)
Make(a) ==
    /\ a \notin Range(listeners[Process[a]])
    /\ listeners' = [listeners EXCEPT ![Process[a]] = Append(@, a)]
    /\ UNCHANGED <<setup, up, inbox, leftover, at, found, histories, counts>>

Start(x) ==
    /\ ~up[x] /\ (x \in Announcers => x \in Range(listeners[Process[x]]))
    /\ up' = [up EXCEPT ![x] = TRUE]
    /\ UNCHANGED <<setup, listeners, inbox, leftover, at, found, histories, counts>>

Trouble == lossy /\ troubles < MaxTroubles /\ troubles' = troubles + 1

(* The loop of run() ends and closes the socket. *)
Stop(x) ==
    /\ Trouble /\ up[x] /\ at[x] = Idle
    /\ up' = [up EXCEPT ![x] = FALSE]
    /\ inbox' = [inbox EXCEPT ![x] = [d \in DOMAIN @ |-> 0]]
    /\ UNCHANGED <<setup, listeners, leftover, at, found, histories, seeks>>

Before(a) == LET ls == listeners[Process[a]]
             IN {ls[i] : i \in 1 .. SelectInSeq(ls, LAMBDA b : b = a)}

(* seek(filter) of a seeker.  It has to find the announcers that match, if *)
(* nothing gets lost and those that are asked before it are there, too.    *)
Seek(s, filter) ==
    /\ up[s] /\ seeks < MaxSeeks
    /\ Broadcast(<<"seek", filter>>)
    /\ sought' = sought \union {filter}
    /\ owed' = owed \union {<<s, a>> : a \in {a \in Matches[filter] :
                   /\ ~lossy /\ (a \in Long => qt)
                   /\ a \in Before(a) /\ \A b \in Before(a) : up[b]}}
    /\ seeks' = seeks + 1
    /\ UNCHANGED <<setup, up, listeners, leftover, at, found, spoiled, strays, had, troubles>>
-----------------------------------------------------------------------------
(* Datagrams that get lost, come twice, or come from somebody else         *)

Lose(x, d) ==
    /\ Trouble /\ inbox[x][d] > 0
    /\ inbox' = [inbox EXCEPT ![x][d] = @ - 1]
    /\ UNCHANGED <<setup, up, listeners, leftover, at, found, histories, seeks>>

Duplicate(x, d) ==
    /\ Trouble /\ inbox[x][d] > 0
    /\ inbox' = [inbox EXCEPT ![x][d] = @ + 1]
    /\ UNCHANGED <<setup, up, listeners, leftover, at, found, histories, seeks>>

StraySent(x) ==
    /\ Trouble /\ up[x]
    /\ inbox' = [inbox EXCEPT ![x][Stray] = @ + 1]
    /\ UNCHANGED <<setup, up, listeners, leftover, at, found, histories, seeks>>
-----------------------------------------------------------------------------
(* Receiving                                                               *)

Take(x, d) == /\ up[x] /\ at[x] = Idle /\ inbox[x][d] > 0
              /\ inbox' = [inbox EXCEPT ![x][d] = @ - 1]

(* A stray follows the leftover there is: the two make any kind of text.   *)
(* QUdpTransport keeps it, UdpTransport does not.                          *)
ReceiveStray(x) ==
    /\ Take(x, Stray)
    /\ strays' = [strays EXCEPT ![x] = @ + 1]
    /\ \E text \in IF qt THEN Leftovers \ {"none"} ELSE {"none"} :
           /\ leftover' = [leftover EXCEPT ![x] = text]
           /\ had' = [had EXCEPT ![x] = @ \union {text}]
    /\ UNCHANGED <<setup, up, listeners, at, found, sought, owed, spoiled, counts>>

(* A bug for the properties to catch: what received() returns is not kept  *)
(* as the new leftover.                                                    *)
ReceiveSpoiledAgain(x, d) ==
    /\ Take(x, d) /\ leftover[x] # "none"
    /\ spoiled' = [spoiled EXCEPT ![x][Kind(d)] = @ + 1]
    /\ UNCHANGED <<setup, up, listeners, leftover, at, found, sought, owed, strays, had, counts>>

(* What comes after a leftover is no message with it.  The leftover is gone*)
(* then, but not if decode() raises: `self.leftover =` is not reached.     *)
ReceiveSpoiled(x, d) ==
    /\ Take(x, d) /\ leftover[x] # "none"
    /\ leftover' = IF Raises(leftover[x], d) THEN leftover ELSE [leftover EXCEPT ![x] = "none"]
    /\ spoiled' = [spoiled EXCEPT ![x][Kind(d)] = @ + 1]
    /\ UNCHANGED <<setup, up, listeners, at, found, sought, owed, strays, had, counts>>

(* Somebody calls what is no incoming method of this API, on the same port.*)
(* Since the call has the id 0, message_error() sends nothing.             *)
ReceiveOther(x) ==
    /\ up[x] /\ at[x] = Idle /\ leftover[x] \in {"text", "string"}
    /\ leftover' = [leftover EXCEPT ![x] = "none"]
    /\ UNCHANGED <<setup, up, listeners, inbox, at, found, histories, counts>>

(* recvfrom(2048) has cut it, and there is no newline. *)
TooLong(d) == ~qt /\ d[1] = "advertise" /\ d[2] \in Long

ReceiveCut(x, d) ==
    /\ Take(x, d) /\ TooLong(d)
    /\ UNCHANGED <<setup, up, listeners, leftover, at, found, histories, counts>>

Receive(x, d) ==
    /\ Take(x, d) /\ leftover[x] = "none" /\ ~TooLong(d)
    /\ at' = [at EXCEPT ![x] = [arg |-> d[2], i |-> 1, called |-> <<>>, passed |-> 0,
                                steady |-> Range(listeners[Owner(x)])]]
    /\ found' = IF x \in Seekers THEN [found EXCEPT ![x] = @ \union {d[2]}] ELSE found
    /\ UNCHANGED <<setup, up, listeners, leftover, histories, counts>>
-----------------------------------------------------------------------------
(* `for listener in fn._listeners` *)

NextListener(x) == listeners[Owner(x)][at[x].i]
HasNext(x) == at[x] # Idle /\ at[x].i <= Len(listeners[Owner(x)])
Step(call, l) == [call EXCEPT !.i = @ + 1, !.called = Append(@, l)]

(* A bug for the properties to catch: the filter is not looked at.         *)
OnSeekAny(x) ==
    /\ x \in Announcers /\ HasNext(x)
    /\ IF up[NextListener(x)]
       THEN /\ Broadcast(<<"advertise", NextListener(x)>>)
            /\ at' = [at EXCEPT ![x] = Step(@, NextListener(x))]
       ELSE at' = [at EXCEPT ![x] = Idle] /\ UNCHANGED inbox
    /\ UNCHANGED <<setup, up, listeners, leftover, found, histories, counts>>

(* A bug for the properties to catch: the loop ends at the first one that  *)
(* is not wanted.                                                          *)
OnSeekUnwanted(x) ==
    /\ x \in Announcers /\ HasNext(x)
    /\ IF NextListener(x) \in Matches[at[x].arg] /\ up[NextListener(x)]
       THEN /\ Broadcast(<<"advertise", NextListener(x)>>)
            /\ at' = [at EXCEPT ![x] = Step(@, NextListener(x))]
       ELSE at' = [at EXCEPT ![x] = Idle] /\ UNCHANGED inbox
    /\ UNCHANGED <<setup, up, listeners, leftover, found, histories, counts>>

(* on_seek of an announcer, with its own API: the advertisement goes out   *)
(* from its own socket.  If that is not open, sendto() of UdpTransport     *)
(* raises, and the listeners after it are not called; a QUdpSocket sends.  *)
OnSeek(x) ==
    /\ x \in Announcers /\ HasNext(x)
    /\ LET b == NextListener(x)
           wanted == b \in Matches[at[x].arg]
       IN \/ /\ wanted /\ (up[b] \/ qt)
             /\ Broadcast(<<"advertise", b>>)
             /\ at' = [at EXCEPT ![x] = Step(@, b)]
          \/ /\ wanted /\ ~(up[b] \/ qt)
             /\ at' = [at EXCEPT ![x] = Idle] /\ UNCHANGED inbox
          \/ /\ ~wanted
             /\ at' = [at EXCEPT ![x] = Step(@, b)] /\ UNCHANGED inbox
    /\ UNCHANGED <<setup, up, listeners, leftover, found, histories, counts>>

(* A listener leaves the list.  If it was before the place that the loop   *)
(* has come to, the next one moves up to before that place, too.           *)
Without(call, pos, l) ==
    [call EXCEPT !.steady = @ \ {l}, !.passed = IF pos < call.i THEN @ + 1 ELSE @]
Disconnected(s, pos) == listeners' = [listeners EXCEPT ![s] = RemoveAt(@, pos)]

(* A bug for the properties to catch: one step too far.                    *)
OnAdvertiseSkip(s) ==
    /\ s \in Seekers /\ HasNext(s)
    /\ at' = [at EXCEPT ![s] = [Step(@, NextListener(s)) EXCEPT !.i = @ + 1]]
    /\ UNCHANGED <<setup, up, listeners, inbox, leftover, found, histories, counts>>

(* A listener of a seeker. *)
OnAdvertise(s) ==
    /\ s \in Seekers /\ HasNext(s)
    /\ LET l == NextListener(s)
           call == Step(at[s], l)
       IN \/ /\ l \notin Once
             /\ at' = [at EXCEPT ![s] = call] /\ UNCHANGED listeners
          \/ /\ l \in Once /\ Disconnected(s, at[s].i)
             /\ at' = [at EXCEPT ![s] = Without(call, at[s].i, l)]
    /\ UNCHANGED <<setup, up, inbox, leftover, found, histories, counts>>

ListenersDone(x) ==
    /\ at[x] # Idle /\ ~HasNext(x)
    /\ at' = [at EXCEPT ![x] = Idle]
    /\ UNCHANGED <<setup, up, listeners, inbox, leftover, found, histories, counts>>

(* connect() and disconnect() by another thread, at any time. *)
Connect(s, l) ==
    /\ Trouble /\ l \notin Range(listeners[s])
    /\ listeners' = [listeners EXCEPT ![s] = Append(@, l)]
    /\ UNCHANGED <<setup, up, inbox, leftover, at, found, histories, seeks>>

Disconnect(s, pos) ==
    /\ Trouble /\ Disconnected(s, pos)
    /\ at' = IF at[s] = Idle THEN at
             ELSE [at EXCEPT ![s] = Without(@, pos, listeners[s][pos])]
    /\ UNCHANGED <<setup, up, inbox, leftover, found, histories, seeks>>
-----------------------------------------------------------------------------
(* What a thread that receives does. *)
Receiving(x) ==
    \/ ReceiveStray(x) \/ OnSeek(x) \/ OnAdvertise(x) \/ ListenersDone(x)
    \/ \E d \in Datagrams : ReceiveSpoiled(x, d) \/ ReceiveCut(x, d) \/ Receive(x, d)

Next ==
    \/ \E a \in Announcers : Make(a)
    \/ \E x \in Apis : Start(x) \/ Stop(x) \/ StraySent(x) \/ ReceiveOther(x) \/ Receiving(x)
    \/ \E x \in Apis, d \in Datagrams : Lose(x, d) \/ Duplicate(x, d)
    \/ \E s \in Seekers : \/ \E f \in DOMAIN Matches : Seek(s, f)
                          \/ \E l \in Listeners : Connect(s, l)
                          \/ \E pos \in DOMAIN listeners[s] : Disconnect(s, pos)

(* A thread that receives goes on, and what is in its socket comes out.    *)
Fairness == \A x \in Apis : WF_vars(Receiving(x))

Spec == Init /\ [][Next]_vars /\ Fairness
-----------------------------------------------------------------------------
TypeOK ==
    /\ qt \in BOOLEAN /\ lossy \in BOOLEAN
    /\ up \in [Apis -> BOOLEAN]
    /\ listeners \in [Owners -> Seq(Announcers \union Listeners)]
    /\ \A a \in Announcers : Range(listeners[Process[a]]) \subseteq Announcers
    /\ \A s \in Seekers : Range(listeners[s]) \subseteq Listeners
    /\ inbox \in [Apis -> [Datagrams \union {Stray} -> Nat]]
    /\ \A x \in Apis, d \in Datagrams \union {Stray} :
           inbox[x][d] > 0 => up[x] /\ (d # Stray => Incoming(x, d))
    /\ leftover \in [Apis -> Leftovers]
    /\ at \in [Apis -> Calls \union {Idle}]
    /\ \A x \in Apis : at[x] # Idle =>
           /\ up[x] /\ at[x].i \in 1 .. Len(at[x].called) + 1
           /\ at[x].arg \in (IF x \in Announcers THEN DOMAIN Matches ELSE Announcers)
    /\ found \in [Seekers -> SUBSET Announcers]

(* Nobody is found who does not match what someone was looking for, and    *)
(* nobody who was not made: what is advertised is true.                    *)
OnlyMatching ==
    \A s \in Seekers : \A a \in found[s] :
        a \in Range(listeners[Process[a]]) /\ \E f \in sought : a \in Matches[f]

(* Whoever connects and disconnects while the listeners are being called:  *)
(* those that are connected all the while are called, and only once each,  *)
(* but for as many as other listeners left the list before their turn came *)
(* from places that the loop had passed.                                   *)
EveryListenerHears ==
    \A x \in Apis : at[x] # Idle =>
        /\ \A j, k \in DOMAIN at[x].called :
               at[x].called[j] = at[x].called[k] /\ at[x].called[j] \in at[x].steady => j = k
        /\ ~HasNext(x) => Cardinality(at[x].steady \ Range(at[x].called)) <= at[x].passed

(* A datagram that is no message spoils nothing for UdpTransport, which    *)
(* takes every datagram by itself.  QUdpTransport loses at most one message*)
(* for each, of whatever kind, if what it kept always was mere text; and at*)
(* most one with a quote in it, if decode() did not raise whatever came.   *)
StraysSpoilOne ==
    \A x \in Apis :
        /\ ~qt => spoiled[x].quoted = 0 /\ spoiled[x].plain = 0
        /\ had[x] \subseteq {"text"} => spoiled[x].quoted + spoiled[x].plain <= strays[x]
        /\ "raise" \notin had[x] => spoiled[x].quoted <= strays[x]

(* A seeker finds all announcers that match, if no datagram is lost; if it *)
(* is one datagram that the advertisement fits into; and if no announcer   *)
(* that comes before in the list of the process is without a socket.       *)
Found == \A s \in Seekers, a \in Announcers : <<s, a>> \in owed ~> a \in found[s]
=============================================================================
