# QuickRPC in TLA+

QuickRPC (`src/quickrpc`) is a Python library for remote procedure calls over
interchangeable transports and codecs.  Nearly everything in it is driven by
threads that share plain attributes: a promise has an event but no lock, the
action queue starts and ends its worker on demand, a transport is started and
stopped by other threads than the one that runs it, and a remote API is called
and answered on several threads at once.  This directory holds TLA+ models of
these parts, TLC configurations that check them on small instances, and TLAPS
proofs about them for every size of instance.

## 1. Inventory

| Component | State it keeps | Operations | Talks to |
|---|---|---|---|
| `Promise` (promise.py) | `_state`, `_result`, `_evt`, `_callback`, `_errback` | `set_result`, `set_exception`, `result`, `then` | the threads that share it |
| `ActionQueue` (action_queue.py) | `_queue`, `_running`, `_startstop_lock` | `put`; the worker thread | the work items, which may call `put` |
| `Transport` base class (transports.py) | `_thread`, `running`, `_transition_lock` | `start`, `stop`; `open` and `run` on the receiver thread | `on_received`, a promise for `start` |
| `StdioTransport`, `TcpClientTransport`, `UdpTransport` | a channel | `open`, `run`, `send` | base class |
| `MuxTransport` (transports.py) | `transports`, `in_queue`, `leftovers` | `add_transport`, `remove_transport`, `open`, `run`, `send` | the muxed transports, which call `handle_received` |
| `TcpServerTransport`, `_TcpConnection` (network_transports.py) | the server, one `transport_running` event per connection | `open`, `run`, `close`; `setup`, `handle`, `finish` per connection | is a `MuxTransport`; a thread per connection |
| `RestartingTransport` (transports.py) | `_start_promise`, the timer | `open`, `run`, `send` | the wrapped transport |
| `Bus`, `InternalTransport` (bus_transport.py) | `peers`, `_peer_lock`; a bounded queue per transport | `send`, `kill`; `open`, `run`, `stop`, `enqueue` | base class, the other peers |
| `RemoteAPI` (remote_api.py) | `_id_dispenser`, `_pending_replies`; `_listeners` per incoming method | outgoing calls; `_handle_received`, `_handle_method`, `_deliver_reply`, `message_error`; `connect`, `disconnect`, `invert` | transport, codec, `Promise`, `ActionQueue`, handlers |
| `JsonRpcCodec`, `Security` (codecs.py, security.py) | none; the undecoded rest of the data is kept by the transport | `encode*`, `decode` | `RemoteAPI` |
| `TerseCodec` (terse_codec.py) | none | `encode*`, `decode` | `RemoteAPI` |
| announcer API (announcer_api.py) | the listeners of `seek`, of the class | `make_announcer`, `seek`, `advertise` | a datagram transport; `RemoteAPI`, inverted on the side of the seeker |
| Qt transports (QtTransports.py) | sockets of Qt, `leftover` | `start`, `stop`, `send`, `on_ready_read` | the Qt event loop |
| echo API, `util.py` | none | two methods that return their argument; splitting of expressions | |

How they interact: `RemoteAPI` hands encoded calls to a transport and keeps a
`Promise` per call; the transport's receiver thread calls `on_received`, which is
`RemoteAPI._handle_received`; that delivers replies to the promises and runs
handlers, on this very thread or through an `ActionQueue`; a handler may make
calls itself.  `Transport.start` hands out a promise too.

What is hard: every line of the promise may interleave with every line of its
users; `put` and the retiring worker; `start`, `stop`, `open` and `run` of one
transport on three threads, with `stop` from inside of a callback or a handler;
replies that come before `send` has returned, after the caller has given up, or
while their receiver thread is waiting for them; queues that are full; things
that raise half way.  `PROJECT.json` lists these at their lines ("hazards").

What makes the components correct, in a sentence each:
- *Promise*: it is a write-once cell; everybody takes the same outcome from it, a
  handler is never left unrun, and nobody waits for himself.
- *ActionQueue*: items run one at a time in the order of arrival; none is left
  behind; `put` does not wait for an item.
- *Transport*: there is one receive loop, `running` tells the truth, `stop` waits
  for the loop and returns.
- *RemoteAPI*: each promise gets the outcome of its own call, which was executed
  at most once, and a call is answered unless something fails.
- *Bus*: a message goes to all of its receivers at one point of a common order, and the
  calls return as long as the queues are read.
- *TCP server*: nothing is left of a server that is down; `send` reaches every
  connection it is meant for unless somebody in front of it leaves; `stop` returns,
  whatever the clients do.
- *Codec and receive loop*: what was sent arrives, in order, each message with its
  own security information, however the bytes are cut into pieces.
- *Restarting transport*: there is one thread of the wrapped transport at a time, it
  is started again after it went down, and it ends with its keeper.
- *Mux*: `open` leaves all of its transports open or none, nothing is alive that it
  knows of when its thread is gone, and the bytes of two senders are never mixed.
- *Announcer*: who is found matches what was sought, and without losses all that
  match are found; every connected listener is called.

## 2. Modules

Each component has a module with its state as VARIABLES, one action per source
line or critical section that other threads can tell from its neighbours, and
its properties at the end.  What a component promises to its users is a module
of its own, without threads and locks, and the component is shown to implement
it under a refinement mapping.

| Module | Models | Abstract specification |
|---|---|---|
| `Promise.tla` | one promise: issuers, waiters in `result`, chainers in `then` | `WriteOnce.tla` |
| `ActionQueue.tla` | callers of `put`, worker threads, items that put, raise or never end | `SerialExecutor.tla` |
| `Transport.tla` | clients that `start` and `stop`, receiver threads, `stop` from callbacks and handlers | |
| `RemoteAPI.tla`, `MCRemoteAPI.tla` | two peers: callers, receiver threads, handler threads, the channel between | `RemoteCall.tla` |
| `Bus.tla` | the bus, its peers with their queues, threads that send, stop and kill | `Broadcast.tla` |
| `TcpServer.tla` | run thread, listener and connection threads of `TcpServerTransport` on its `MuxTransport`, and a thread that sends | |
| `Restarting.tla` | the receiver thread of a `RestartingTransport`; it instantiates `Transport.tla` for the transport it wraps | |
| `Mux.tla`, `MCMux.tla` | the mux thread, a thread and a sender per muxed transport, the owner of the mux, an editor of its list | |
| `JsonRpc.tla` | one codec as functions: `EncodeGeneric`, and `Decoded` and `Remainder` for `decode` | |
| `Terse.tla` | the other codec as functions: `Encode`, `Decoded`, `Remainder` | |
| `Stream.tla`, `MCStream.tla` | one direction of a connection with either codec: frames, keepalives, pieces, three kinds of receivers with their leftover, what raises in them | `Channel.tla` |
| `Announcer.tla`, `MCAnnouncer.tla` | announcers and seekers on a network of datagrams, and the listeners of an incoming method | |
| `ThreadingProofs.tla` (promise and action queue, which share no names for this), `TransportProofs.tla`, `RemoteAPIProofs.tla`, `BusProofs.tla`, `TcpServerProofs.tla`, `RestartingProofs.tla`, `MuxProofs.tla`, `AnnouncerProofs.tla` | proofs; what `Append`, `Tail` and `RemoveAt` do to the entries of a list is stated as lemmas where it is first needed | |

Definitions whose comment begins "A bug for the properties to catch" are not part
of any specification: each is a mutated form of the definition after it, and
`PROJECT.json` says which property fails when it takes its place.

**Promise.**  `set_result` and `set_exception` are the steps `SetCheck` (the test of
the event in `_set`), `SetState`, `SetResult`, `SetEvt` (its three assignments) and
`SetCall` (the handler).  `result` is `ResultGuard` (deadlock protection),
`ResultWait`, `ResultWake` or `ResultTimeout`, and the two `if`s; `then` is two
assignments and two `if`s.  A payload is named after the call that set it.

**ActionQueue.**  `put` is `PutCall`, `PutEnqueue` (with the lock), `PutCheck` and
`PutAwait` (the wait for `_running`, still with the lock); `_run_worker` is
`WorkerAnnounce`, `WorkerTake`, `WorkerRetire`, and `WorkerFinish` or
`WorkerCrash` when the item is over.

**Transport.**  `start` is `StartAssign`, `StartLaunch` and the wait for the promise;
`starter` is `ReceiverLock`, `OpenReturns` or `OpenFails` (which set the promise
under the lock), `ReceiverUnlock`, then `run`: `RunEnter` sets `running`, the
loop is the one all subclasses share, `ReceiverExit` is the `finally`.  `stop` is
`StopAcquire`, `StopJoin`, `StopJoined`, `StopClear`.  With `Careful = TRUE` the
clients keep to a discipline in terms of what they can observe (`MayStart`,
`MayStop`): start what is down, stop what is seen to run, one at a time.

**RemoteAPI.**  Outgoing calls are `NewRequest` (draw an id, register the promise),
`Send`, and the ways `result` ends; `DeliverReply`, `HandleMethod`,
`HandleUnknown` and `HandleJunk` are what the receiver thread does with a
message; `WorkerTakes`, `HandlerEnds`, `Reply` and `ReplyFails` are
`_handle_method.action` on its thread.  The promise is the write-once cell and
the action queue the serial executor that the other modules establish.
Messages carry, unseen by the code, the call they belong to.  `faults`, chosen at
the start, says whether timeouts, failing sends and undecodable data occur: safety
is checked with and without them, `AwaitEnds` is about the runs without.

**Bus.**  `Start`, `Connect` and `OpenFails` are `open`; `RunEnter` to `Exit` are
`run` with its sentinel; `SendCall`, `SendBegin`, `SendPut`, `SendEnd` are `send`
with one round of its loop over the peers as a step, because each may block on a
full queue; `StopSentinel`, `StopSignalled`, `StopJoined` are `stop`; `KillNext`
and `KillDetach` are a round of `kill`.  `HandlerRaises` is an `on_received` that
raises: `run` does not get to `remove_peer`, so the peer stays in the list without a
reader (`Names` has it, `Connected` has not), and a restart appends it once more.
`open` replaces the queue; who waits for a place in the old one then may do so for ever
(`stuck`), or find one that is just being read.  The abstract broadcast has the same list
of connections: a message is given out once for each, in one step.

**TcpServer.**  On the run thread, `OpenFails`, `OpenListen` and `OpenAnnounce` are
`open`; `RunEnter`, `LoopCheck`, `GetItem`, `GetEmpty` and the end of the handler are
the loop of `MuxTransport.run`; `StopTransport` is a round of the loop that stops the
transports, by position in a list that may shrink meanwhile; `Shutdown` and
`ServerClose` are the rest of `run`.  On the thread of a connection, `Accept`,
`AddTransport`, `AddCheck` and `AddStart` are `setup` and the mux's `add_transport`
(append, look at `running`, start), `HandleCheck` and the `Receive` actions are
`handle`, `Finish` is `finish`.  `SendCall`, `SendNext`, `SendRaises` and
`SendReturns` are `send` of the mux, a round of its loop with the `send` of the
connection as a step.  `server_close` joins the threads of the connections, as
`socketserver.ThreadingMixIn` does for threads that are not daemons (Python 3.7 and
later).  `start` and `stop` of the base class are taken as `Transport.tla` has them
for careful clients.  A run thread that an exception ends (a handler that raises, an
announcer that does not come up) leaves the socket bound: `rpc = "crashed"`.

**Restarting.**  The module composes: `Child == INSTANCE Transport` is the wrapped
transport, whose only client is the keeper, the receiver thread of the restarting
transport.  `Open` and `Retry` are `start(block=False)` of the child in its two steps
(make the thread; launch it and keep its promise), `Sleep`, `Await` and `Look` a round
of the loop in `run`, `Leave` and `ChildStop` the final `stop()` of the child.  A result
that is awaited for a second is an answer or a TimeoutError; a start whose `open` raised
a TimeoutError of its own (`late`) looks the same, as in the code.  `HandlerStops` is
`stop()` called by `on_received`: the keeper's thread is not the one it is called on, so
it joins.  Threads of the child that are dead and that nothing refers to any more are
used again (`Forgotten`), which makes the number of restarts unbounded.

**Mux.**  On the mux thread, `StartNext`, `AwaitNext` and `AwaitTimeout` are rounds of
the two loops of `open`, which go through the list by position and pair it with the
promises by position, too; `StopNext` and `StopNextDone` are a round of the loop that
stops the transports, after a failure those that `open` counts as running (`opened`),
otherwise those in the list.  `Get` is a round of `run` with `on_received`, `GetRaises`
the same when that raises.  A muxed transport is `Transport.tla` reduced to what one
user can meet: `Launch`, `ChildOpen` (takes the lock), `ChildOpened` (answers, with or
without success), `ChildEnter` (`running = True`), `ChildEnds`; `StopBegin` and
`StopEnd` are its `stop`.  `AddTransport`, `AddedLook` and `AddedStart` are
`add_transport`: the append, the look at `running`, and the start that follows from it;
`RemoveTransport`, `RemoveStop` and `RemoveDone` are `remove_transport`: out of the
list, then the lock and the wait of the transport's `stop`.  Between the append and the
look the loop of `open` may start the transport and the mux may begin to run; then it is
started a second time (`twice`).  The first thread, `orphan`, goes on and reads from the
same channel (`held` is a piece that it has read and not handed over); `handle` says
which of the two is the `_thread` that `stop` waits for.

**JsonRpc and Stream.**  Bytes are symbols: the JSON text of a dict is two of them, so
that it can be cut in the middle.  `EncodeGeneric` is what the three `encode` methods
share; `Telegram` is the body of `decode`'s loop with its early `continue`s,
`DecodeOne` is `_decode_one`, `Remainder` what `decode` returns as the second value,
with a header whose message is still to come put back.  `Loadable` fails where
`obj_hook` does (a `__bytes` value that is no base64 text), which is an exception out of
`decode`.  A security provider either transforms the payload (`Sealing`) or leaves it as
it is.  In `Stream.tla`, `Handling` is `_handle_received`: `decode`, and then the messages
one by one up to the first DecodeError, at which `message_error` raises.  `Received` is
what the receiver makes of it.  If all went well it has a new leftover; if something
raised (`went = "raised"`), the remainder never reached it.  That ends the loop of
`TcpClientTransport`, whose leftover is a local, so that the next connection starts
afresh.  `QTcpTransport` and `QProcessTransport` (`keeps`) are called again for the next
piece, with the leftover as it was and the piece lost, and their leftover is an attribute,
which is still there on the next connection.  `QProcessTransport` also decodes each piece,
and what came on stderr, for its log: cut inside of a character that raises, and the piece
is lost (`ReceiveUndecodable`).

**Terse.**  Bytes are symbols here too: punctuation marks, letters, whole numbers,
whole base64 texts.  The functions take the text that `idx` points to and return what they
found and the text after it, or how they failed: a `DecodeError`, which skips the line; an
exception out of `decode`, with what `Stream.tla` makes of it; or a loop that does not
end.  One character has two bytes (`Umlaut`), so that text can be cut inside of it.  The
escapes of strings are undone in the three passes of the code, and the end of a string
is found as its regular expression does.  `Plain` says what a reader of this codec may
hope to get back: calls without id, with strings that have no backslash in front of an
`n` or at their end.

**Announcer.**  A datagram is broadcast into the sockets that are open, its sender's
too, and taken out in any order; only those that call an incoming method of the
receiver are kept.  `Receive` and the steps after it are the wrapper `fn` of `@incoming`:
its `for` loop over `fn._listeners` goes by position, and `Connect`, `Disconnect` and a
listener that disconnects itself change the list between two rounds.  The list belongs to
the function, that is to the class: `Owner` is the process for announcers, whose `seek`
all have the same list, and the API itself for an inverted one, which gets functions of its
own.  `OnSeek` is `make_announcer.on_seek`.  `TooLong` is the buffer of `recvfrom`,
`ReceiveStray` the leftover of a datagram, which `QUdpTransport` keeps and `UdpTransport`
does not.  `ReceiveSpoiled` is a message that is read together with it.  The leftover is
gone then, unless `decode` raises (`Raises`): at a text like the number `-x` it does so
whatever comes, and at an open quote it does if no other quote follows.

## 3. Runs

| Run | Shows |
|---|---|
| `promise` | `WaiterSeesOutcome`, `HandlerNotLost`, `WriteOnceSpec`, `ResultEnds` |
| `queue` | `SerialExecutorSpec`, `AttendedUntilCrash`, `EveryItemRuns`, `TornDown`; `PutReturns` also when items never end |
| `transport_careful` | careful clients: `OneLoop`, `StopWaitsForRun`, `StopReturns` |
| `transport_any_use` | any use whatever: `RunningIsTrue`, `OpenAlone` |
| `api` | `RemoteCallSpec` and `StillRegistered` with and without faults, calls in both directions; `TypeOK`; `AwaitEnds` without faults, an action queue on one side |
| `bus` | `TypeOK`, `BroadcastSpec`; `CallsReturn` unless `Jammed`; handlers may raise |
| `tcp_server` | `DownIsClean`, `SendReaches`; `StopReturns` unless a connection is `Overlooked` for ever |
| `mux` | `NothingLeft`, `AllOpened`, `WholeFrames`, `StartStopEnd`, each with its exemption |
| `stream` | `TypeOK`, `ChannelSpec`; `PiecesDoNotMatter` and `Recovers` on connections on which nothing has raised |
| `announcer` | `OnlyMatching`, `EveryListenerHears`, `StraysSpoilOne`, `Found` |
| `restarting` | `OneChild`; `Restarts` and `Ends`, each with its exemption |
| `restarting_gives_up` | violated: after a start that ended with a TimeoutError nothing is started again |

`TypeOK` is run for `Stream`, which has no proofs, and for `Bus` and `RemoteAPI`, where it is
a theorem as well; for all the others it is a theorem only.

The bounds, and why they are enough:
- *promise*: one issuer that calls `set_*` twice (the second is refused), is the
  setter thread and asks for the result itself before and after; one more
  waiter, with a timeout; two calls of `then`, so that one can overwrite the
  handler of the other between any two lines of the issuer.
- *queue*: three items, two outside callers and as many threads as there are items;
  any item may put another, so a worker retires and is replaced while a third
  party is in `put`.  One item raises, one need not end.
- *transport*: two clients that start and stop, and two starts, so that everything
  one receiver thread does can meet the start and the stop of the next.
- *api*: one call per caller, a caller on each side, a method whose handler calls
  back, one without a reply and one the callee does not know; ids from two
  threads of a side meet in `_pending_replies`.
- *bus*: two peers whose handlers send to each other and to themselves, queues of
  length one so that every `put` may block, two messages in flight, three starts; the
  handler of one of them may raise, so that it is in the list twice, or fills up unread.
- *tcp server*: two connections, so that one may leave the list while the stop loop or
  `send` is at the other; any number of starts, one chunk in the queue of the mux, an
  announcer or none.
- *stream*: calls, replies and errors, plain, signed and sealed, and a body that cannot
  be loaded; three frames and keepalives per connection, in pieces of every size, so a
  header, its payload and the next frame each arrive whole, split or together; any
  number of connections; two frames if the receiver is a `QProcessTransport`, which may
  lose one piece undecoded.  Terse: two messages per connection out of four short ones, and
  by itself each of a set of calls whose parameters nest every kind of value around every
  string of up to two symbols (letter, quote, newline, backslash), twice, so that the
  end of one string may be mistaken for the end of the other.  A receiver that keeps its
  leftover is sent the messages of `Kept`, one of them on the first connection, cut
  anywhere, and as many as the other bounds allow on the second; it carries a leftover
  over once.
- *mux*: two transports, any of them in the list at the start, in any order; one sender
  has two frames and the other the head of one, so that a whole frame of one can come
  while the other is left over; two pieces in the queue; two calls of `start`,
  `add_transport` or `remove_transport`, and any number of calls of `stop`: a restart
  after every way to end, or a list changed at every step of one run.
- *announcer*: two announcers of one process and a seeker with two listeners, one of
  which disconnects itself; filters that match both or one of them; one announcement too
  long for a `recvfrom`; one seek, because two add only more of the same datagrams; one
  trouble (a datagram lost, doubled or stray, a stop, a connect or a disconnect) in the
  runs that have any.  The proofs have none of these bounds.
- *restarting*: two threads of the wrapped transport, used again when forgotten: one may
  still live while the next is made, which is what `OneChild` forbids, and a third could
  only repeat that; an interval of two rounds, so that there are rounds in which the
  timer runs and one in which it is over.

Exemptions are part of a property's statement, and each was found necessary: without it
TLC shows a run of the code that violates the rest.

- `CallsReturn` of the bus exempts `Jammed`: a full queue whose reader uses the bus itself,
  is leaving, or died of a handler that raised; or a queue that was replaced by a restart
  while somebody waited for a place in it.  `BroadcastSpec` has no exemption, but says of a
  peer that was restarted after its handler had raised that it has two connections, and
  gets each message twice from then on.
- `StopReturns` of the TCP server exempts `Overlooked`, a connection that is up for ever
  while `server_close` waits for it: the loop that stops the transports has passed it
  over, since one before it left the list (transports.py:385), or it has looked at
  `running` before and started itself after that loop (transports.py:317).  `stop` then
  returns when that client hangs up, if it ever does, although the documentation says that
  `stop` closes the connections (network_transports.py:226-228).  Nothing else keeps
  `stop` waiting.
- `NothingLeft` and `AllOpened` exempt the transports in `loose`: one that `open` gave up
  after a second, one that was added after the loop of `open` or started after the mux had
  ended, and all of them if the list was cut while a loop went through it or if
  `on_received` raised.  Of the transports in `twice`, which were started by `open` and by
  `add_transport`, `NothingLeft` says only that the newer thread ends: nobody has a
  reference to the older.
- `WholeFrames` allows one spoilt frame for each that was cut off by its sender or lost
  with `on_received`; even then no frame is given out twice or before an earlier one of its
  sender.  It is about senders whose transport is not in `twice`: two threads that read
  one channel may put its pieces into the queue in the wrong order.
- `StartStopEnd` exempts `Trapped`, a `stop()` of a muxed transport that waits for ever, as
  below.
- `EveryListenerHears` lets as many be passed over as others left the list from places
  that the loop had passed.  `Found` is about seeks without losses, about announcers whose
  advertisement is not cut, and if none before them in the list of the process is without a
  socket.  `StraysSpoilOne` bounds what strays spoil for `QUdpTransport` if what it kept
  was mere text; if it had an open quote, then only the messages with a quote in them, each
  without one is lost; and it bounds nothing once it has kept what makes `decode` raise
  whatever follows.
- `PiecesDoNotMatter` and `Recovers` are about connections on which nothing has raised
  (`went = "well"`).  After a DecodeError it depends on the pieces how much is lost, and a
  receiver that keeps its leftover has it still: the frames after half a JSON text are all
  spoilt, on this connection and the following ones.  Both exempt `Doubtful` too, a
  keepalive after a dangling security header of an old connection; `Spoilt` allows two lost
  frames after such a header without its delimiter.  `ChannelSpec` is about receivers that
  begin afresh and, for terse, about `Plain` messages; for these an exception ends the
  connection, and what was handled till then is a prefix of what was sent.

`Restarts` exempts `GivenUp`, the state that `restarting_gives_up` is about.  `Ends`
exempts `Trapped`: the keeper joins a child thread that still waits for the lock the
keeper holds, or that set `running` after the keeper had cleared it, or whose handler
joins the keeper.  Each of them comes from `Transport.stop`, and a careful client avoids
it by stopping only what it has seen running; the keeper is not careful.

Violations found in the code are listed under "findings" with the comment or test that
says otherwise.  Some more behaviours of this kind came up while modelling and are in
the models, without a run of their own: `stop` of a transport that has not got its lock
yet waits for it with that lock in its hand, for ever (`Trapped` in `Restarting.tla` and
`Mux.tla`); `open` of a mux forgets a transport that takes longer than a second, which
goes on to open; a mux whose `on_received` raises leaves all its transports running; a
reply or error in terse is never decoded as one, nor is the id of a call, which is
written as `/7` (terse_codec.py:72) and looked for as `[7]` (terse_codec.py:129), so
that calls with replies do not work over it; an empty terse line hangs the receiver;
announcers of one process share their listeners, so each of `k` matching ones advertises
`k` times, and one without a socket silences those after it; advertisements go to
everyone (`receivers=None`, announcer_api.py:61), not to the seeker as
announcer_api.py:14 and :30 have it; data that cannot be decoded makes `message_error`
raise, because `in_reply_to` is None, and ends the receiver thread (`HandleJunk` in
`RemoteAPI.tla`), or leaves a Qt receiver with a leftover that it never gets rid of
(`Received` in `Stream.tla`, `ReceiveSpoiled` in `Announcer.tla`); a handler that raises
leaves its peer in the list of the bus, without a reader (`HandlerRaises` in `Bus.tla`);
a transport that is added while a mux opens may get two threads (`Launch` in `Mux.tla`);
a connection may be overlooked when its server stops (`Overlooked`); `Bus.kill` goes
through a list that the peers it stops leave, so it passes over every second one
(`KillNext` in `Bus.tla`); a `then` between `_state = ...` and the handler call of
`set_result` runs the handler twice; an item that raises ends the worker of its queue
with `_running` set, so that no later `put` starts another; `open` of a TCP server with
an announcer ends its own listener (`finally: self.server.shutdown()`), so that it
accepts nobody; a server whose handler raised keeps its port; who connects before `run`
is dropped after a second; two issuers overwrite an announced outcome (`SetCheck` and
`SetEvt` are three lines apart); `then` between the assignments of `_state` and
`_result` passes `None` to the handler; `stop` before `run` has begun is undone by
`running = True`; `stop` from a handler, or from the callback of `start`'s promise,
deadlocks with a `stop` elsewhere or with the lock of its own thread; a blocking `stop`
after a non-blocking one returns early; with action queues on both sides, two handlers
that call back wait for each other; a full queue of the bus whose reader wants to send
or to leave blocks the whole bus (`Jammed` in `Bus.tla`).

## 4. Fairness

Safety is checked without any.  For liveness, a thread that can go on does; a thread
that waits for a lock gets it if the lock keeps coming free (strong fairness), because
Python's locks are not fair but neither are they withheld for ever; one condition per
thread, since a thread has one next step.  Calls into a component (`set_result`, `put`,
`start`, `stop`, an outgoing call) are never required, with one exception: the setter
thread of a promise does set it, without which `result` without a timeout has no reason
to end.  Timeouts of `get`, `select` and the like may occur and need not.  Handlers and
`open` are taken to return where a run is about what happens after them; items of the
action queue are taken to end except for those in `Endless`.  In `TcpServer.tla` the
threads go on, and `on_received` returns or raises; that a client hangs up is not
assumed anywhere.  In `Restarting.tla` the keeper and the threads of the child go on,
`open` and `on_received` return; one assumption is about time: a second of sleep is
enough for a thread that has answered its promise to enter `run` or to end (guard of
`Sleep`).  `OneChild` needs it: a thread that takes longer is taken for one that went
down, and started a second time.  In `Mux.tla` the threads of the mux, the editor and
the transports go on, and get a lock that keeps coming free (strong fairness); `open` of
a transport returns, and each thread of a transport whose `running` stays cleared ends.
`stop()`, frames and timeouts are never required.  In `Announcer.tla` a thread that
receives goes on; datagrams that are not lost come out of the socket, because it is
asked as long as there are any.

## 5. Proofs

TLAPS checks, for any number of threads, items and restarts:

| Theorem | Says |
|---|---|
| `ThreadingProofs!TypeCorrect` | the typing invariant of the promise |
| `ThreadingProofs!ResultCorrect`, `ThenCorrect`, `ImplementsWriteOnce` | with a single issuer: `WaiterSeesOutcome`, `HandlerNotLost`, `WriteOnceSpec` |
| `ThreadingProofs!QueueTypeCorrect`, `ImplementsSerialExecutor`, `Attended` | typing of the action queue, `SerialExecutorSpec`, `AttendedUntilCrash` |
| `TransportProofs!TypeCorrect`, `RunningTrue`, `OpensAlone` | whatever the clients do |
| `TransportProofs!OneLoopOnly`, `StopWaits` | for careful clients that do not stop from within |
| `RestartingProofs!TypeCorrect`, `OneChildOnly` | typing, `OneChild`, for any number of threads and restarts and any interval |
| `RemoteAPIProofs!TypeCorrect`, `Registered`, `ImplementsRemoteCall` | typing, `StillRegistered`, `RemoteCallSpec`, for any number of callers, calls and methods, with or without action queues and faults |
| `BusProofs!TypeCorrect`, `ImplementsBroadcast` | typing with the limit of the queues, `BroadcastSpec`, for any number of peers, clients and messages, any queue size, with `stop`, `kill`, restarts and handlers that raise |
| `TcpServerProofs!TypeCorrect`, `DownClean`, `SendCorrect` | typing, `DownIsClean`, `SendReaches`, for any set of connections |
| `MuxProofs!TypeCorrect`, `StopsAll`, `OpensAll`, `FramesWhole` | typing, `NothingLeft`, `AllOpened`, `WholeFrames`, for any finite set of transports, any number of frames, pieces and calls |
| `AnnouncerProofs!TypeCorrect`, `FoundMatches`, `ListenersHear`, `StraysSpoil` | typing, `OnlyMatching`, `EveryListenerHears`, `StraysSpoilOne`, for any number of announcers, seekers, listeners, filters and troubles |

The arguments:
- *Promise*: `SetterInv` says what the three fields hold at each step of the issuer,
  so a waiter past the event reads fields that no longer change (`WaiterInv`).
  For `then`, `HandlerInv`: once the issuer is past its own handler call, the
  registered handler was run or its own `then` is at a step from which it will
  still see the state.  Hypothesis `SingleIssuer`: the only issuer is the setter
  thread, as the class intends; with two, `WriteOnceSpec` is false.
- *ActionQueue*: who is in the critical section of `put` holds the lock
  (`LockInv`); a worker that is not yet announced is awaited by the holder of the
  lock, and there is at most one live worker (`LiveInv`), which is what makes the
  items serial.  `Attending`: until an item raises, `_running` means that a worker
  lives and the queue without a worker is empty whenever the lock is free.
- *Transport*: see the named parts of the invariants in `TransportProofs.tla`; the
  lock is held exactly by the thread that opens or is inside `stop`, `running` is
  set only inside of `run`, and a careful client sees enough to start only when
  every earlier receiver thread is dead.
- *RemoteAPI*: `OnceInv`: a call that is under way is in one place only (about to be
  sent, on its way, in the action queue or being worked on), at the peer opposite to its
  caller's, and was not executed; so it is executed once at most. `IdInv`: the ids below
  `nextId` that are in use anywhere (`Uses`) and the calls they belong to are one to
  one. `RanInv` and `OwnOutcome`: replies and promises carry what `ran` says of their
  own call; so a reply that finds its promise in `_pending_replies` by the id alone
  gives it the outcome of its own call. `WaitInv`: a promise that is registered is not
  answered yet, and a thread that waits for a reply waits for a promise that is answered
  or still registered. Of all steps only `NewRequest` draws an id; what the others have
  in common is `Moves`, and one lemma per invariant says that a step that moves keeps
  it. In the mapping `NewRequest` is `Issue`, the end of a handler or an unknown method
  `Execute`, `DeliverReply` is `Answer`, and everything else stutters. `Typed` needs,
  beyond `TypeOK`, that a peer has drawn no more ids than calls were issued (`IdsLeft`).
- *Bus*: `LockInv`: who goes through the list of peers, or is stuck in a queue that was
  replaced, holds the lock, so only one distributes and nobody comes or goes meanwhile.
  `ListInv`: in the list is who has connected and has not left; a peer whose thread died
  may be there too, and more than once.  `CallInv`: a message that is still to be sent
  was not sent yet, and the receivers of one that is being distributed are in the list.
  `ReadInv`: a peer that is not in the list opens with an empty queue, which nobody puts
  anything into until it has connected; this is why `stop` elsewhere must not be under
  way (`Stopping`).  The inbox of the abstract broadcast, `Underway`, is what waits in
  the queue, without the sentinels, and then the message that the holder of the lock
  still owes the peer, once for each of its entries that the loop has not passed
  (`Owed`).  So `SendBegin` is `Send`, which gives a message to all connections of its
  receivers at once (`BeginSends`); `SendPut` moves one from what is owed to what waits
  and stutters; `GetMessage` is `Receive`, a sentinel that is taken stutters, `Leave`
  gives up one connection, `HandlerRaises` is `Die`, and `Start` of a peer that died is
  `Forget`: what waited in the old queue is lost, and nothing of what is still owed
  (`StartForgets`).  Which messages wait is said by places and ranks: `Waiting(q)[n]` is
  the item at the place up to which there are `n` messages.  That each rank has its
  place (`Complete`) would need induction over the queue; instead it is part of the
  invariant, because an empty queue is complete and `Append` and `Tail` keep one so
  (`WaitingAppend`, `WaitingTail`).
- *TCP server*: `MuxInv`: the list has no duplicates and holds exactly the connections
  whose threads are between `AddTransport` and `Finish`, so an entry is a live thread
  and vice versa.  `QuietInv`: while the run thread is not between `OpenListen` and
  `Shutdown` nobody listens, and after `ServerClose` no thread is left; together they
  give `DownIsClean`.  `SendInv`: as long as everything up to `meant[i]` is still in
  the list it is at position `i`, because entries only leave from the middle and arrive
  at the end; so the loop of `send`, which goes by position, has met it when it is past
  `i`.  The lemmas `RemoveAtEntries` and `RemoveAtDistinct` say what `RemoveAt` does to
  positions.
- *Restarting transport*: `ThreadInv`: the only thread that can be alive is the one the
  last start made, and none is when the keeper is about to start.  Why none is, follows
  from what the keeper has seen: as long as the promise is pending the keeper holds on
  to it (`PollInv`), so in `Look` the thread is in `run` with `running` set, or dead; and
  `StopInv` says that the final `stop` waits for this very thread.  The invariant is
  needed because `OneChild` says nothing of promises, `running` or the steps of `stop`.
- *Mux*: `AliveInv`: a transport that is alive and not `loose` is known to somebody who
  will stop it (`Known`): its promise is still to be looked at, or it is in the list that
  the mux goes through, at the loop's position or behind it, or the editor waits for it.
  At `down` with an idle editor nobody is left to know it, which is `NothingLeft`.
  `EditorInv` places the editor between its steps: what it is about to start is in the list,
  what it is about to stop is not, so the mux and the editor never stop the same one.
  `ThreadInv`: whoever stops a transport that is not `loose` waits for its newest thread
  (`handle`), and there is an older one only in `twice`.  Why the
  loops of `open` find every transport: `PromisesInv`, the promises are those of the first
  entries of the list, in order, as long as nothing was cut from it.  `OpenedInv`
  says of the entries the second loop has passed what `AllOpened` says of all.
  `FrameInv` is for `WholeFrames`, of senders that are not in `twice`; what the older thread
  of another one has read belongs to that sender (`HeldOwn`), so it disturbs nobody else.
  What is left over of a sender, what waits in the
  queue and what it sends next are pieces with rising numbers (`Ordered`), later than every
  frame that was given out (`Behind`), and each tail among them has its head before it, if
  not left over then in the queue (`Matched`).  The bound on spoilt frames is not
  inductive by itself: a cut leaves a head without a tail on its way (`Dangling`), which
  spoils a frame only later.  So `Counted` counts both: spoilt frames and dangling heads
  together are no more than `cuts`, a cut adds one of the latter, and a frame that is given
  out spoilt uses one of them up.  `Complete` is the case without cuts: the
  frames given out are the first ones, and the queue holds exactly the numbers that
  follow.
- *Announcer*: `TruthInv`: every datagram under way, not only the ones that were taken, says
  what is true; announcements come from the list of one process, which holds no announcers of
  another.  `HearInv`: a listener that stays connected and has been called is at a place the
  loop has passed, and those that are at such places without having been called are no more
  than the listeners that left from there.  At the end of the loop all places are passed.
  `StrayInv`: if all that was kept was mere text, each spoiled message has had a stray of its
  own, and the leftover has one too; if nothing was kept at which `decode` raises whatever
  follows, the same is so of the messages with a quote, since these end an open string.

Assumptions are the named ASSUMEs of the modules (thread sets are disjoint, `None`
is none of the values, the sets of transports, listeners and callers are finite, a
`RemoteAPI` has one peer), which TLC evaluates in every run.  Only model-checked: every
liveness property (the prover has no ENABLED); the codecs and the stream with its typing,
which are folds over sequences and, for terse, recursive operators: what these compute for
every input needs induction over data, which is out of the prover's reach; and the
violations.

## 6. What is left out

- The bytes of JSON texts and of base64, and `EncodeError` (nothing is sent then);
  messages of `RemoteAPI.tla` are whole.
- `sendall` in several parts while another thread writes to the same socket: a frame is
  written at once, as it is when it fits into the buffer of the socket.
- Handlers of a `RemoteAPI` that raise, in `Stream.tla`: to the receiver they are like a
  DecodeError.
- A mux that is started while transports of its last run are still alive; its `send` is
  in `TcpServer.tla`; the keepalive and `running` in `TcpClientTransport.send`.
- Numbers of more than six digits, which `%g` rounds, and the refusal of security
  arguments by the terse codec.
- Addressed datagrams; a `QUdpTransport` that has sent before it was started, and other
  states of the Qt sockets; the child process of `QProcessTransport`.
- Logging, wording of errors, string expressions for transports and codecs.
- In `RemoteAPI`: a change of transport at runtime, several replies of several
  listeners, which are an error.
- In `Bus`: transports given the same name by hand, `kill` called by a handler.
- Security providers that raise; the echo API, which has no state.

## 7. Plan

In this order, most important first; all of it is done.
1. `Promise`, `WriteOnce`: model, runs, proofs.
2. `ActionQueue`, `SerialExecutor`: model, runs, proofs.
3. `Transport`: model, runs, proofs.
4. `RemoteAPI`, `RemoteCall`: model and run; it composes promise, queue and channel.
5. `Bus`, `Broadcast`: model and runs.
6. `TcpServer`: model, run, proofs.
7. `JsonRpc`, `Stream`, `Channel`: model and run.
8. `Restarting`: model, runs, proofs.
9. `Mux`: model, run, proofs.
10. `Terse`, over the same `Stream`, and receivers that keep their leftover: model and run.
11. `Announcer`, with listeners that come and go and inverted APIs: model, run, proofs.
12. Proofs of `RemoteCallSpec` and `StillRegistered` for any number of callers, and of
    `WholeFrames` for any number of senders.
13. `BroadcastSpec` and the typing of the bus for any number of peers and any queue size,
    with the mapping stated by places and ranks instead of a filter.
