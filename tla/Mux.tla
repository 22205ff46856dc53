--------------------------------- MODULE Mux ---------------------------------
(***************************************************************************)
(* MuxTransport (quickrpc/transports.py): one transport that starts, stops *)
(* and receives from several.  There are                                   *)
(*   - the mux thread, which start() makes: it opens all transports of the *)
(*     list, handles what they put into in_queue, and stops them,          *)
(*   - a thread per muxed transport, with one sender at its other end, or  *)
(*     two, if it is started by open() and once more by add_transport(),   *)
(*   - the owner of the mux, who calls start() and stop(), and             *)
(*   - an editor, who adds and removes transports at any time.             *)
(*                                                                         *)
(* A muxed transport is a Transport of Transport.tla with the details left *)
(* out that a single user cannot meet: its lock is held while it opens and *)
(* by whoever stops it, and run() sets its `running`, no matter what.      *)
(* The mux itself is started when all is down and stopped when it runs.    *)
(*                                                                         *)
(* A sender sends frames of two pieces, <<sender, n, "head">> and <<sender,*)
(* n, "tail">>.  What is decoded is everything up to a tail.               *)
(***************************************************************************)
EXTENDS FiniteSets, Naturals, SequencesExt

CONSTANTS Children,   \* the transports, and the senders at their ends
          None,       \* nobody
          MaxPieces,  \* bound: sender -> up to which piece it sends
          MaxQueue,   \* bound: pieces that wait in in_queue when one more is read
          MaxCalls    \* bound: calls of start(), add_transport(), remove_transport()

ASSUME NobodyElse == None \notin Children
ASSUME Finite == IsFiniteSet(Children)

VARIABLES
    transports, running, inQueue, leftovers,   \* attributes of the mux
    pc,        \* where the mux thread is, or "down"
    i,         \* where its for loop is in the list that it goes through
    promises,  \* those of open(), by the transport that gave them
    opened,    \* the transports that open() counts as running
    failed,    \* has open() an exception to report?
    child,     \* transport -> where its newest thread is, or "down"
    orphan,    \* transport -> where the one is that was started before that
    handle,    \* transport -> is child its `_thread`, and waited for by stop()?
    flag,      \* transport -> its own `running`
    promise,   \* transport -> what the promise of its start() is worth
    joining,   \* "mux", "editor" -> the transport it is stopping
    owner,     \* is the owner waiting in stop()?
    editor,    \* what the editor is about to do
    edited,    \* and with which transport
    next,      \* sender -> the piece it sends next: frame and part
    held,      \* transport -> the piece that orphan has read, as a sequence
    got,       \* history: sender -> the frames handed to on_received
    cuts,      \* history: sender -> how often a frame was cut off
    loose,     \* history: the transports that the mux has lost track of
    twice,     \* history: the transports that were started while alive
    calls      \* of start(), add_transport() and remove_transport()

mux == <<pc, i, promises, opened, failed, running>>
threads == <<child, orphan, handle>>
lives == <<threads, flag, promise>>
data == <<inQueue, leftovers, next, held, got, cuts>>
edit == <<editor, edited>>
users == <<owner, edit>>
histories == <<loose, twice>>
vars == <<transports, mux, lives, joining, data, users, histories, calls>>

Init ==
    /\ \E S \in SUBSET Children : transports \in SetToSeqs(S)
    /\ running = FALSE /\ inQueue = <<>> /\ leftovers = [c \in Children |-> <<>>]
    /\ pc = "down" /\ i = 1 /\ promises = <<>> /\ opened = <<>> /\ failed = FALSE
    /\ child = [c \in Children |-> "down"] /\ orphan = [c \in Children |-> "down"]
    /\ handle = [c \in Children |-> "own"] /\ flag = [c \in Children |-> FALSE]
    /\ promise = [c \in Children |-> "pending"]
    /\ joining = [x \in {"mux", "editor"} |-> None]
    /\ owner = FALSE /\ editor = "idle" /\ edited = None
    /\ next = [c \in Children |-> <<1, "head">>] /\ held = [c \in Children |-> <<>>]
    /\ got = [c \in Children |-> <<>>] /\ cuts = [c \in Children |-> 0]
    /\ loose = {} /\ twice = {} /\ calls = 0

(* open() returns or raises: its locals are gone, and with them the promises. *)
Forget == /\ promises' = <<>> /\ opened' = <<>> /\ failed' = FALSE /\ i' = 1
          /\ promise' = [c \in Children |-> "pending"]

EditorIdle == editor = "idle" /\ joining["editor"] = None
-----------------------------------------------------------------------------
(* The life of a muxed transport                                           *)

(* start(): there is a new thread, which does not have the lock yet.  No-  *)
(* body asks whether there is one already: that one goes on, and if stop() *)
(* is waiting, it waits for that one and then forgets about the new one.   *)
Launch(c) ==
    /\ child' = [child EXCEPT ![c] = "launched"]
    /\ orphan' = [orphan EXCEPT ![c] = IF child[c] = "down" THEN @ ELSE child[c]]
    /\ handle' = [handle EXCEPT ![c] = IF \E x \in DOMAIN joining : joining[x] = c THEN "late"
                                       ELSE "own"]
    /\ promise' = [promise EXCEPT ![c] = "pending"]
    /\ twice' = IF child[c] = "down" THEN twice ELSE twice \union {c}
    /\ UNCHANGED flag

Down(c) == child[c] = "down" /\ orphan[c] = "down"
LockFree(c) == child[c] # "opening" /\ \A x \in DOMAIN joining : joining[x] # c

(* stop(): take the lock and clear `running`; then wait for the thread, and*)
(* forget it.                                                              *)
StopBegin(x, c) == /\ LockFree(c)
                   /\ flag' = [flag EXCEPT ![c] = FALSE]
                   /\ joining' = [joining EXCEPT ![x] = c]
Awaited(c) == CASE handle[c] = "own" -> child[c] [] handle[c] = "late" -> orphan[c]
              [] handle[c] = "lost" -> "down"
StopEnd(x) == /\ joining[x] # None /\ Awaited(joining[x]) = "down"
              /\ joining' = [joining EXCEPT ![x] = None]
              /\ handle' = [handle EXCEPT ![joining[x]] = IF @ = "late" THEN "lost" ELSE @]

(* A connection that ends in the middle of a frame, and the next one. *)
Anew(c) == /\ next' = [next EXCEPT ![c] = IF @[2] = "tail" THEN <<@[1] + 1, "head">> ELSE @]
           /\ cuts' = [cuts EXCEPT ![c] = IF next[c][2] = "tail" THEN @ + 1 ELSE @]

ChildOpen(c) ==
    /\ child[c] = "launched" /\ LockFree(c)
    /\ child' = [child EXCEPT ![c] = "opening"]
    /\ Anew(c)
    /\ UNCHANGED <<transports, mux, orphan, handle, flag, promise, joining, inQueue, leftovers, held,
                   got, users, histories, calls>>

ChildOpened(c) ==
    /\ child[c] = "opening"
    /\ \/ child' = [child EXCEPT ![c] = "entering"] /\ promise' = [promise EXCEPT ![c] = "opened"]
       \/ child' = [child EXCEPT ![c] = "down"] /\ promise' = [promise EXCEPT ![c] = "failed"]
    /\ UNCHANGED <<transports, mux, orphan, handle, flag, joining, data, users, histories, calls>>

(* run() begins: `self.running = True`.  A thread that was started before  *)
(* the newest has opened by then: the mux runs when all it started have.   *)
ChildEnter(c) ==
    /\ child[c] = "entering"
    /\ child' = [child EXCEPT ![c] = "up"]
    /\ flag' = [flag EXCEPT ![c] = TRUE]
    /\ UNCHANGED <<transports, mux, orphan, handle, promise, joining, data, users, histories, calls>>

OrphanEnter(c) ==
    /\ orphan[c] = "entering"
    /\ orphan' = [orphan EXCEPT ![c] = "up"]
    /\ flag' = [flag EXCEPT ![c] = TRUE]
    /\ UNCHANGED <<transports, mux, child, handle, promise, joining, data, users, histories, calls>>

(* run() ends, because it is told to or because the channel has ended, or  *)
(* with an AttributeError if the transport is received from after removal. *)
(* Either thread clears `running`, which both look at.                     *)
ChildEnds(c) ==
    /\ child[c] = "up"
    /\ child' = [child EXCEPT ![c] = "down"]
    /\ flag' = [flag EXCEPT ![c] = FALSE]
    /\ UNCHANGED <<transports, mux, orphan, handle, promise, joining, data, users, histories, calls>>

OrphanEnds(c) ==
    /\ orphan[c] = "up" /\ held[c] = <<>>
    /\ orphan' = [orphan EXCEPT ![c] = "down"]
    /\ flag' = [flag EXCEPT ![c] = FALSE]
    /\ UNCHANGED <<transports, mux, child, handle, promise, joining, data, users, histories, calls>>

(* The pieces of a sender are numbered as it sends them. *)
Number(piece) == 2 * piece[2] - (IF piece[3] = "head" THEN 1 ELSE 0)

(* The sender's next piece has been read. *)
Sends(c) ==
    /\ c \in Range(transports) /\ Number(<<c, next[c][1], next[c][2]>>) <= MaxPieces[c]
    /\ next' = [next EXCEPT ![c] = IF @[2] = "head" THEN <<@[1], "tail">> ELSE <<@[1] + 1, "head">>]

(* handle_received *)
Receive(c) ==
    /\ child[c] = "up" /\ Sends(c) /\ Len(inQueue) < MaxQueue
    /\ inQueue' = Append(inQueue, <<c, next[c][1], next[c][2]>>)
    /\ UNCHANGED <<transports, mux, lives, joining, leftovers, held, got, cuts, users, histories, calls>>

(* Two threads that read from one channel may overtake each other before   *)
(* they call handle_received.                                              *)
OrphanReads(c) ==
    /\ orphan[c] = "up" /\ held[c] = <<>> /\ Sends(c) /\ Len(inQueue) < MaxQueue
    /\ held' = [held EXCEPT ![c] = << <<c, next[c][1], next[c][2]>> >>]
    /\ UNCHANGED <<transports, mux, lives, joining, inQueue, leftovers, got, cuts, users, histories, calls>>

OrphanReceives(c) ==
    /\ held[c] # <<>>
    /\ inQueue' = Append(inQueue, held[c][1])
    /\ held' = [held EXCEPT ![c] = <<>>]
    /\ UNCHANGED <<transports, mux, lives, joining, leftovers, next, got, cuts, users, histories, calls>>

(* The sender drops its connection and comes again under the same name.    *)
SenderReconnects(c) ==
    /\ child[c] = "up" /\ next[c][2] = "tail"
    /\ Anew(c)
    /\ UNCHANGED <<transports, mux, lives, joining, inQueue, leftovers, held, got, users,
                   histories, calls>>
-----------------------------------------------------------------------------
(* The mux thread: open()                                                  *)

StartNext ==
    /\ pc = "start" /\ i <= Len(transports)
    /\ Launch(transports[i])
    /\ promises' = Append(promises, transports[i]) /\ i' = i + 1
    /\ UNCHANGED <<transports, pc, opened, failed, running, joining, data, users, loose, calls>>

StartsDone ==
    /\ pc = "start" /\ i > Len(transports)
    /\ pc' = "await" /\ i' = 1
    /\ UNCHANGED <<transports, promises, opened, failed, running, lives, joining, data, users, histories, calls>>

(* `zip(self.transports, promises)` ends with the shorter of the two. *)
More == i <= Len(transports) /\ i <= Len(promises)

(* A bug for the properties to catch: failures are passed over.            *)
AwaitNextPassed ==
    /\ pc = "await" /\ More /\ promise[promises[i]] # "pending"
    /\ opened' = IF promise[promises[i]] = "opened" THEN Append(opened, transports[i]) ELSE opened
    /\ i' = i + 1
    /\ UNCHANGED <<transports, pc, promises, failed, running, lives, joining, data, users, histories, calls>>

AwaitNext ==
    /\ pc = "await" /\ More /\ promise[promises[i]] # "pending"
    /\ IF promise[promises[i]] = "opened"
       THEN opened' = Append(opened, transports[i]) /\ UNCHANGED failed
       ELSE failed' = TRUE /\ UNCHANGED opened
    /\ i' = i + 1
    /\ UNCHANGED <<transports, pc, promises, running, lives, joining, data, users, histories, calls>>

(* PromiseTimeoutError of result(), after a second: open() knows no more   *)
(* of this transport, which goes on opening.                               *)
AwaitTimeout ==
    /\ pc = "await" /\ More /\ promise[promises[i]] = "pending"
    /\ failed' = TRUE /\ i' = i + 1
    /\ loose' = loose \union {promises[i]}
    /\ UNCHANGED <<transports, pc, promises, opened, running, lives, joining, data, users, twice,
                   calls>>

AwaitsDone ==
    /\ pc = "await" /\ ~More
    /\ pc' = IF failed THEN "abort" ELSE "entering"
    /\ i' = 1
    /\ UNCHANGED <<transports, promises, opened, failed, running, lives, joining, data, users, histories, calls>>
-----------------------------------------------------------------------------
(* The mux thread: run(), and how both end                                 *)

RunEnter ==
    /\ pc = "entering"
    /\ running' = TRUE /\ pc' = "loop"
    /\ Forget
    /\ UNCHANGED <<transports, threads, flag, joining, data, users, histories, calls>>

(* A bug for the properties to catch: `while True`.                        *)
LoopForever ==
    /\ pc = "loop"
    /\ pc' = "get"
    /\ i' = 1
    /\ UNCHANGED <<transports, promises, opened, failed, running, lives, joining, data, users, histories, calls>>

LoopCheck ==
    /\ pc = "loop"
    /\ pc' = IF running THEN "get" ELSE "stop"
    /\ i' = 1
    /\ UNCHANGED <<transports, promises, opened, failed, running, lives, joining, data, users, histories, calls>>

GetTimeout ==
    /\ pc = "get" /\ inQueue = <<>>
    /\ pc' = "loop"
    /\ UNCHANGED <<transports, i, promises, opened, failed, running, lives, joining, data, users, histories, calls>>

(* A bug for the properties to catch: one buffer for all senders.          *)
HandleShared(piece) ==
    LET text == leftovers[CHOOSE c \in Children : TRUE] \o <<piece>>
        whole == piece[3] = "tail"
    IN /\ leftovers' = [c \in Children |-> IF whole THEN <<>> ELSE text]
       /\ got' = IF whole THEN [got EXCEPT ![piece[1]] = Append(@, text)] ELSE got

(* on_received gets the leftover with the new piece, and returns the rest. *)
Handle(piece) ==
    LET text == leftovers[piece[1]] \o <<piece>>
        whole == piece[3] = "tail"
    IN /\ leftovers' = [leftovers EXCEPT ![piece[1]] = IF whole THEN <<>> ELSE text]
       /\ got' = IF whole THEN [got EXCEPT ![piece[1]] = Append(@, text)] ELSE got

Get ==
    /\ pc = "get" /\ inQueue # <<>>
    /\ inQueue' = Tail(inQueue)
    /\ Handle(Head(inQueue))
    /\ pc' = "loop"
    /\ UNCHANGED <<transports, i, promises, opened, failed, running, lives, joining, next, held, cuts,
                   users, histories, calls>>

(* on_received raises.  That ends run(), and nobody stops the transports.  *)
GetRaises ==
    /\ pc = "get" /\ inQueue # <<>> /\ Head(inQueue)[3] = "tail"
    /\ inQueue' = Tail(inQueue)
    /\ pc' = "down" /\ running' = FALSE
    /\ loose' = Children
    /\ cuts' = [cuts EXCEPT ![Head(inQueue)[1]] = @ + 1]
    /\ UNCHANGED <<transports, i, promises, opened, failed, lives, joining, leftovers, next, held,
                   got, users, twice, calls>>

(* Stop all: those that open() counts as running, or those in the list.    *)
Stopping == CASE pc = "abort" -> opened [] pc = "stop" -> transports [] OTHER -> <<>>

StopNext ==
    /\ joining["mux"] = None /\ i <= Len(Stopping)
    /\ StopBegin("mux", Stopping[i])
    /\ UNCHANGED <<transports, mux, threads, promise, data, users, histories, calls>>

StopNextDone ==
    /\ StopEnd("mux")
    /\ i' = i + 1
    /\ UNCHANGED <<transports, pc, promises, opened, failed, running, child, orphan, flag, promise,
                   data, users, histories, calls>>

(* A bug for the properties to catch: open() raises without cleaning up.   *)
MuxEndsHasty ==
    /\ pc \in {"abort", "stop"} /\ joining["mux"] = None /\ (pc = "abort" \/ i > Len(Stopping))
    /\ pc' = "down" /\ running' = FALSE
    /\ Forget
    /\ UNCHANGED <<transports, threads, flag, joining, data, users, histories, calls>>

(* TransportError is raised, or run() returns. *)
MuxEnds ==
    /\ pc \in {"abort", "stop"} /\ joining["mux"] = None /\ i > Len(Stopping)
    /\ pc' = "down" /\ running' = FALSE
    /\ Forget
    /\ UNCHANGED <<transports, threads, flag, joining, data, users, histories, calls>>
-----------------------------------------------------------------------------
(* The owner                                                               *)

Start ==
    /\ pc = "down" /\ ~owner /\ EditorIdle /\ calls < MaxCalls
    /\ \A c \in Children : Down(c)
    /\ pc' = "start"
    /\ loose' = {} /\ calls' = calls + 1
    /\ UNCHANGED <<transports, i, promises, opened, failed, running, lives, joining, data, users,
                   twice>>

StopCall ==
    /\ running /\ ~owner
    /\ running' = FALSE /\ owner' = TRUE
    /\ UNCHANGED <<transports, pc, i, promises, opened, failed, lives, joining, data, edit,
                   histories, calls>>

StopReturn ==
    /\ owner /\ pc = "down"
    /\ owner' = FALSE
    /\ UNCHANGED <<transports, mux, lives, joining, data, edit, histories, calls>>
-----------------------------------------------------------------------------
(* The editor                                                              *)

Edit == EditorIdle /\ calls < MaxCalls /\ calls' = calls + 1
Edited == editor' = "idle" /\ edited' = None

(* add_transport() appends.  If open() is through with the list, it does   *)
(* not start the new transport.                                            *)
AddTransport(c) ==
    /\ Edit /\ c \notin Range(transports) /\ Down(c)
    /\ transports' = Append(transports, c)
    /\ editor' = "look" /\ edited' = c
    /\ loose' = IF pc \in {"await", "entering"} THEN loose \union {c} ELSE loose
    /\ UNCHANGED <<mux, lives, joining, data, owner, twice>>

(* `if start and self.running` *)
AddedLook ==
    /\ editor = "look"
    /\ IF running THEN editor' = "start" /\ UNCHANGED edited ELSE Edited
    /\ UNCHANGED <<transports, mux, lives, joining, data, owner, histories, calls>>

(* `transport.start()`.  The mux may have ended since, or be about to stop *)
(* the transport; and open() may have started it, after it was appended.   *)
AddedStart ==
    /\ editor = "start"
    /\ Launch(edited)
    /\ Edited
    /\ loose' = IF running THEN loose ELSE loose \union {edited}
    /\ UNCHANGED <<transports, mux, joining, data, owner, calls>>

(* remove_transport() takes it from the list, under the loops of the mux,  *)
RemoveTransport(c) ==
    /\ Edit /\ c \in Range(transports)
    /\ \E k \in DOMAIN transports :
           transports[k] = c /\ transports' = RemoveAt(transports, k)
    /\ editor' = "stop" /\ edited' = c
    /\ loose' = IF pc \in {"start", "await", "stop"} THEN Children ELSE loose
    /\ UNCHANGED <<mux, lives, joining, data, owner, twice>>

(* and calls stop() of it. *)
RemoveStop ==
    /\ editor = "stop" /\ StopBegin("editor", edited)
    /\ Edited
    /\ UNCHANGED <<transports, mux, threads, promise, data, owner, histories, calls>>

RemoveDone ==
    /\ StopEnd("editor")
    /\ UNCHANGED <<transports, mux, child, orphan, flag, promise, data, users, histories, calls>>
-----------------------------------------------------------------------------
MuxStep == \/ StartNext \/ StartsDone \/ AwaitNext \/ AwaitTimeout \/ AwaitsDone
           \/ RunEnter \/ LoopCheck \/ GetTimeout \/ Get \/ GetRaises
           \/ StopNext \/ StopNextDone \/ MuxEnds
ChildStep(c) == \/ ChildOpen(c) \/ ChildOpened(c) \/ ChildEnter(c)
                \/ OrphanEnter(c) \/ OrphanReceives(c)
EditorStep == AddedLook \/ AddedStart \/ RemoveStop \/ RemoveDone

Next == \/ MuxStep \/ EditorStep
        \/ Start \/ StopCall \/ StopReturn
        \/ \E c \in Children : \/ ChildStep(c) \/ ChildEnds(c) \/ OrphanEnds(c)
                               \/ Receive(c) \/ OrphanReads(c) \/ SenderReconnects(c)
                               \/ AddTransport(c) \/ RemoveTransport(c)

(* Threads that can go on do, and get a lock that keeps coming free; open() *)
(* of a transport returns, and its loop sees that it is to end.            *)
Fairness ==
    /\ SF_vars(MuxStep) /\ SF_vars(EditorStep) /\ WF_vars(StopReturn)
    /\ \A c \in Children : /\ SF_vars(ChildStep(c)) /\ WF_vars(~flag[c] /\ ChildEnds(c))
                           /\ WF_vars(~flag[c] /\ OrphanEnds(c))

Spec == Init /\ [][Next]_vars /\ Fairness
-----------------------------------------------------------------------------
Places == {"down", "launched", "opening", "entering", "up"}

TypeOK ==
    /\ transports \in Seq(Children) /\ IsInjective(transports)
    /\ running \in BOOLEAN /\ (running => pc \in {"loop", "get"}) /\ i \in Nat \ {0}
    /\ pc \in {"down", "start", "await", "abort", "entering", "loop", "get", "stop"}
    /\ promises \in Seq(Children) /\ opened \in Seq(Children) /\ failed \in BOOLEAN
    /\ child \in [Children -> Places] /\ orphan \in [Children -> Places]
    /\ handle \in [Children -> {"own", "late", "lost"}]
    /\ flag \in [Children -> BOOLEAN]
    /\ promise \in [Children -> {"pending", "opened", "failed"}]
    /\ joining \in [{"mux", "editor"} -> Children \union {None}]
    /\ joining["mux"] # None => pc \in {"abort", "stop"}
    /\ owner \in BOOLEAN /\ editor \in {"idle", "look", "start", "stop"}
    /\ edited \in Children \union {None} /\ (editor # "idle" => edited # None)
    /\ loose \subseteq Children /\ twice \subseteq Children

(* "If any transport fails to start, all transports are stopped again"     *)
(* (transports.py:342), and stopping the mux stops all: when its thread is *)
(* gone, no transport is left alive.  The exceptions are those that the    *)
(* mux has lost track of: one that was given up after a second; one that   *)
(* was added while open() waited, or that add_transport() saw the mux      *)
(* running for and started when it ended; all if the list was cut under    *)
(* its loops or if on_received raised.  And of a transport that was started*)
(* by open() and by add_transport() only the second thread is known to end.*)
NothingLeft ==
    pc = "down" /\ EditorIdle =>
        \A c \in Children \ loose : child[c] = "down" /\ (c \notin twice => orphan[c] = "down")

(* And if open() of the mux returns, all transports in the list have opened. *)
AllOpened ==
    pc = "entering" => \A c \in Range(transports) \ loose : promise[c] = "opened"

(* Where the pieces of a sender are: in frames given out, left over, or in *)
(* the queue.                                                              *)
Frame(c, n) == << <<c, n, "head">>, <<c, n, "tail">> >>
Sent(c) == Number(<<c, next[c][1], next[c][2]>>) - 1
Handled(c) == 2 * Len(got[c]) + Len(leftovers[c])
Waiting(c) == {k \in DOMAIN inQueue : inQueue[k][1] = c}
Spoilt(c) == {k \in DOMAIN got[c] : got[c][k] # Frame(c, got[c][k][1][2])}

(* However the pieces of the senders interleave, and wherever the mux was  *)
(* stopped and started in between: no frame is given out twice or before   *)
(* an earlier one, and for each frame that was cut off, no more than one   *)
(* is spoilt.  If none was, then what was given out, what is left over and *)
(* what waits in the queue is, put together, what the sender has sent: in  *)
(* order, with nothing missing and nothing of anybody else in between.     *)
(* That is so for the senders of all transports that were not started once *)
(* more while they were alive, and read by two threads then.               *)
WholeFrames ==
    \A c \in Children \ twice :
        /\ \A j, k \in DOMAIN got[c] : j < k => got[c][j][1][2] < got[c][k][1][2]
        /\ Cardinality(Spoilt(c)) <= cuts[c]
        /\ cuts[c] = 0 =>
              /\ \A k \in DOMAIN got[c] : got[c][k] = Frame(c, k)
              /\ leftovers[c] \in {<<>>, <<Frame(c, Len(got[c]) + 1)[1]>>}
              /\ {Number(inQueue[k]) : k \in Waiting(c)} = Handled(c) + 1 .. Sent(c)
              /\ \A j, k \in Waiting(c) : j < k => Number(inQueue[j]) < Number(inQueue[k])

(* The thread that is stopping a transport waits for ever if it has the    *)
(* lock that the new thread needs to begin, or if run() set `running` back. *)
Trapped == \E x \in DOMAIN joining : \E c \in Children :
               joining[x] = c /\ (Awaited(c) = "launched" \/ flag[c])

(* start() and stop() of the mux always come to an end, one way or the     *)
(* other, unless a transport cannot be stopped.                            *)
Settled == pc \in {"down", "loop", "get"} /\ ~owner
StartStopEnd == []<>(Settled \/ Trapped)
=============================================================================
