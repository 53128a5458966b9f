# Verification of xuri_rpc

TLA+ models of the Python RPC framework in this repository, TLC configurations
that check them on small instances, and TLAPS proofs for every size.

## 1. The system

`xuri_rpc` lets two hosts call each other's objects over any transport that can
carry a dictionary. Everything runs in asyncio's event loop, in one thread: what
lies between two awaits is atomic, and every await is a place where other
tasks come in. All state of a host is in a module-level dictionary of options.

| Component | Source | State | Operations | Correct when |
|---|---|---|---|---|
| Calls | `rpc.py` Client.waitForRequest, MessageReceiver.onReceiveMessage | `requestPendingDict`, one future per call, handlers' tasks | send a request, answer it, settle the future, cancel | each result reaches its own caller, once; a waiting caller can always be reached; no request is handled twice; calls end |
| Timeout sweep | `rpc.py` `_killTimeoutConnection`, autoCheck | `sendTime` of pending entries | fail and remove what is overdue | it ends every call and empties the dictionary |
| Receive loops | the three senders, `local_serialization_sender.py`, the loops of the README | messages in the connection, whether the loop is inside a handler | read a message, run `onReceiveMessage` | handlers can call back |
| Exposed objects | `rpc.py` ObjectOfProxyManager | `proxyMap` and `_objRefs` by address, `reverseProxyMap` by id | set, delete, deleteById, asProxy, getById | an id leads to the object it was given for, or to nothing |
| TCP client connection | `tcp_sender.py` TcpBinarySender, `_listen` | stream, reconnect lock, attempts | send, receive, reconnect, give up | one reconnection at a time; the stream comes back and is listened to; sends end |
| Leases | `rpc.py` RemoteProxyManager, autoReRegister, removeOutdatedProxyObject | weak references, `clientMap`, `lastRegistered` | re-register, delete what is outdated | what a peer holds is not deleted, what nobody holds is |
| Sessions | `websocket_sender.py`, `tcp_sender.py` createServer, createMain, send, `_listen` | `getSessionData()`, the session id each end knows, connections | send, serve, reply, break, reconnect | replies follow their client to its newest connection; clients stay apart; no request is handled twice |
| Interceptors | `rpc.py` withContext, onReceiveMessage | interceptors, `objectWithContext`, one result container per request | run the chain, set the result, call `next` | no interceptor is bypassed; orderly ones let the handler run once and its result through |
| Arguments | `rpc.py` ArgTranslator; the WebSocket text codec | none | encode, decode | data arrives as it was, the rest as a proxy |
| stdio sender | `stdio_sender.py` | stream, write lock | write and read frames | frames are whole |
| Options and ids | `rpc.py` `_getOrCreateOption`, setHostId, `_getId` | `_options`, `_hostId`, `_idCount` | look up, rename | a host has one option; ids are unique |
| `core.py` | an older `rpc.py`, imported by nothing | | | not modelled |

How they meet. A proxy's method calls `waitForRequest`, which puts an entry into
`requestPendingDict` and awaits the sender. The sender may have to reconnect
first, for which it shares a lock with the receive loop of the same connection.
The peer's loop hands the message to `onReceiveMessage`, which finds the object
in the registry, decodes the arguments, runs its method through the interceptors
(and the method may call back over the same connection) and sends the reply, to
the connection its session has by then, without awaiting that send. The
requester's loop hands the reply to the other branch of `onReceiveMessage`,
which settles the future.
Beside all this `autoCheck`, if the program calls it, sweeps the pending
entries, re-registers proxies that are held and deletes objects nobody
re-registered.

Hard to test: replies, failures, timeouts and cancellation racing for a future;
the loop, the handlers and their callbacks waiting for each other; two tasks
that find the connection lost; a reply that is due when its client has just come
back; interceptors that call `next` late or twice; addresses that are used
again; a fire-and-forget send that fails. `PROJECT.json` lists each hazard at
its line with the property that covers it, or why none does.

## 2. Modules

| Module | Models | Extends / uses |
|---|---|---|
| `RemoteCalls` | the promise to a caller: a call ends once, with the result of a handling of its own, or as a failure, in which case it may have been handled all the same | |
| `RpcCalls` | calls, both branches of `onReceiveMessage`, the timeout sweep | INSTANCE `RemoteCalls` under a refinement mapping |
| `ReceiveLoop` | who calls `onReceiveMessage`, awaited or as a task; nested callbacks | |
| `ProxyRegistry` | ObjectOfProxyManager over a heap with reused addresses | |
| `ProxyLease` | RemoteProxyManager, autoReRegister and removeOutdatedProxyObject over a clock | |
| `TcpConnection` | the client end of TCP: send, `_listen`, `ensure_connected` | |
| `Sessions` | clients and a TCP or WebSocket server whose connections break: calls, sessions, replies | INSTANCE `RemoteCalls` under a refinement mapping |
| `Arguments` | ArgTranslator and the text codec, recursive over trees of values | |
| `Dispatch` | a receiver's requests from decoding to reply, with the interceptor chain | takes the translators as CONSTANT operators |
| `RpcCallsProofs`, `ReceiveLoopProofs`, `ProxyRegistryProofs`, `ProxyLeaseProofs`, `TcpConnectionProofs`, `SessionsProofs`, `DispatchProofs` | theorems | the module of that name, TLAPS |
| `MCRpcCalls`, `MCReceiveLoop`, `MCProxyRegistry`, `MCProxyLease`, `MCTcpConnection`, `MCSessions`, `MCDispatch` | the instances for TLC: symmetry sets, setups, values | the module of that name; `MCDispatch` puts `Dispatch` and `Arguments` together |

State and code, in short (`PROJECT.json` maps every definition to its lines):

* **RpcCalls.** A call stands for the id of its request. `phase` is where the
  caller is in `waitForRequest`, `future` its future, `pending` the keys of
  `requestPendingDict`. `Call` ends at `sender.send(request)`; `Transmit`,
  `SendReturns` and `SendRaises` are the await of the sender, which may write
  and still raise; `Resume` is the wake-up, a step after the future was settled.
  `StartHandler` and `FinishHandler` are the two ends of a handler, anything may
  happen between them. A reply is taken in one step that pops its entry
  (`PopEntry`) and settles the future (`AcceptReply`), or raises between the two
  (`DecodingRaises`): `undecoded` remembers the call, `reading` whether the loop
  survived the exception, which it does only if it does not await
  `onReceiveMessage`. The transport reorders; it loses and repeats messages as
  its constants say, and `lost` remembers that it did. A reply whose send fails
  is lost, as in `_maybeAwait`; a synchronous sender that raises gives a second
  reply, as in the `except`. `sweeping` becomes true when the program calls
  `autoCheck`, at any time or never.
* **ReceiveLoop.** A call is `<<thread, depth>>`; even depths are made by the
  client, odd ones by the server, as callbacks. `inbox` is the connection, FIFO.
  `serial` holds the hosts whose loop awaits each message; such a loop is `busy`
  until its handler returns. `Uses` is what handlers do with their callback:
  nothing, await it, or start a task. A behaviour picks one of the `Setups`,
  `<<serial, sweeping>>`, and keeps it. Every message can be decoded: what one
  does that cannot is in `RpcCalls`.
* **ProxyRegistry.** `at` gives each object an address; `Reclaim` frees it when
  neither the program nor the registry refers to it, and `New` may take the
  address again. The other actions are the methods of ObjectOfProxyManager and
  the functions that call them. The sweep of outdated proxies is `DeleteById` at
  any time. `reassigned` remembers that a name was given a second time.
* **ProxyLease.** One holder of proxies and, for each of its Clients, the peer
  that exposes the objects. `live` are the ids whose proxy the program still
  refers to, which a `weakref` tells; `clientMap` and `order` are the holder's
  dictionary and its insertion order. A pass of `autoReRegister` is a chain of
  steps from await to await: `todo` is its snapshot of the dictionary, `asked`
  the ids of its last request, `wire` where that request is. The task is in the
  sender (`sending`), or waits for the future; it is `hung` if the sweep settled
  the future while the sender is still reconnecting, which may take for ever.
  `age` counts the ticks since `lastRegistered`. A tick is the three seconds of
  `_periodic`; it cannot pass while a periodic task is due, so the asyncio loop
  is assumed not to be blocked for as long. A send that lasts does not stop the
  clock.
* **TcpConnection.** `link` is what the transport knows: after a FIN it is half
  open, and `writer.is_closing()` is false (`IsConnected`). `pc` is where the
  senders and the loop are in `ensure_connected`; the lock hands over first come
  first served, and who gets it looks again. A task that runs `on_reconnect`
  holds the lock; if the new connection is lost before its call is sent, that
  call's own send queues for the lock (`blocked`). While the loop is in `spin`
  no other task of the program runs. A behaviour picks one of the `Setups`,
  `<<maxRetries, callsBack, sweeping>>`.
* **Sessions.** The n-th connection of client k is `<<k, n>>`; `made[k]` is the
  n of the last one, which is `sender.ws`, and `reading[k]` that of the one
  `_listen` reads, which may be older. A session is named after the connection
  that was given it as a new uuid. `route` is `getSessionData()`, shared by all
  connections of the server, `session` each connection's own id, `knows` the id
  the client learned from a reply, `stamp` the one `send` read before it awaited
  `ensure_connected`. A WebSocket server registers a connection at its first
  message (`Handle`), a TCP server when it is made (`Reconnect`). `serving` is
  the handler a connection's loop awaits, `Reply` its end: `ReplyTo` looks the
  session up only then. `Break` keeps what has arrived and drops the rest;
  `lost` remembers the calls whose messages were dropped. A write that went out
  may raise all the same (`SendRaises`): the call fails and is handled. How the
  client's tasks agree on who reconnects is in `TcpConnection`, the sweep in
  `RpcCalls`.
* **Arguments.** A value is a tree of a kind and parts. `toArgObj` puts
  descriptors in, `Through` is the transport (the identity for CBOR, a code for
  bytes in text mode), `reverseToArgObj` puts proxies in. `Promised` is what the
  documentation says arrives: the reference definition.
* **Dispatch.** Each executor of the chain awaits the one it called, so the
  frames of a task are a range `base .. top` of positions in `interceptors`, of
  which the last runs. `AwaitNext`, `SpawnNext` and `Begin`, `SetContext`,
  `InterceptorReturns` and `Raise` are what an interceptor may do, in any order;
  `container` is the request's `resultContainer`. `Executor` reads the number of
  interceptors when `next` is called, as the code does. `orderly` are the
  requests whose interceptors awaited `next` once and did nothing else. What the
  translators and the transport make of a value is a parameter (`Encode`,
  `Carry`, `Refuses`, `Decode`), as is what is promised of it (`Promise`,
  `Clear`): the chain never looks into a value, and the proofs need no
  definition that is recursive. In both runs they are those of `Arguments`,
  whose results can all be translated back; one that cannot is in `RpcCalls`
  (`DecodingRaises`).

Some definitions are wrong on purpose and say so (`SettleAgain`, `SkipsLock`,
`KeepsTheDead`, ...). They are slips a change of the code could make: with one
of them in place of the definition `PROJECT.json` pairs it with, the run finds
the property violated. No specification uses them.

## 3. What the runs check

| Run | Question | Result |
|---|---|---|
| calls_safety | over a transport that reorders, withholds and repeats: do results reach their own caller, once; can waiters be reached, but for those whose reply could not be decoded; is a request handled once unless it was repeated; is the promise of `RemoteCalls` kept | holds |
| calls_live | over a transport that loses: does every call end once `autoCheck` was called, unless its reply could not be decoded or its send does not end, and is `requestPendingDict` emptied; without it, do calls end if sends and handlers do, nothing was lost and all replies could be decoded | holds |
| loop_any | with a task for each message, with awaiting loops at one end or both: do handlers take turns behind an awaiting loop, is an awaited callback there never answered, does nothing else hang, do loops come back to what is behind a handler, with the sweep also behind one that starved, do spawned callbacks run | holds |
| loop_await | do calls with an awaited callback return behind awaiting loops | **violated** |
| registry_any | do address keys stay attached to the living, ids that peers keep never lead elsewhere, and the id `asProxy` returns lead to its object until a name is given again | holds |
| lease_any | is a held proxy always in the set the next pass asks for; does an object stay registered once it was re-registered, while the task goes round and no send outlasts the limit; is what nobody holds forgotten | holds |
| lease_task | does re-registration go on for ever | **violated** |
| tcp_any | is there one reconnection at a time, of a closed stream only; does the connection come back and is it heard, do sends end, but for four named ways to lose it | holds |
| tcp_fin | does the connection come back after a FIN | **violated** |
| sessions_any | two clients whose connections break while requests, handlers and replies are under way, and whose sends fail before or after the write: do sessions stay with their client, do replies follow it to its new connection, is a request handled once, do calls end but for lost messages, is the promise of `RemoteCalls` kept | holds |
| dispatch_any | with interceptors that do anything, and objects and interceptors added meanwhile: is none bypassed, do orderly ones let the handler run once and its result through, do values of all kinds arrive | holds |
| dispatch_text | do bytes arrive in text mode | **violated** |

### Where the code does otherwise than it says

Four disagreements are runs of their own:

1. *Callbacks deadlock over TCP, WebSocket and stdio* (loop_await). The loops
   await `onReceiveMessage` before they read on, so a handler that awaits its
   callback waits for a reply behind it. DumpChannel and the loops in
   `README.en-us.md` start a task for each message and have no such problem.
2. *One failed re-registration is the last* (lease_task). `autoReRegister` does
   not catch what `waitForRequest` raises, and the `_periodic` task that awaits
   it ends. So does a host that is added while the pass awaits, as the dictionary
   changes under its iterator. All proxies of all peers then expire.
3. *A FIN stops the program* (tcp_fin): `_listen` neither reconnects nor
   suspends, since the half closed transport is not "closing".
4. *Bytes in lists do not survive text mode* (dispatch_text). `_json_reviver` is
   the `object_hook` of `json.loads`, which sees the values of dicts only.
   Arguments are elements of a list: a handler that is passed bytes gets a str
   that begins with the prefix. `tests/test_websocket.py` passes bytes over CBOR.

Others are the conditions under which the passing properties hold:

* *`asProxy` after a name was given again* (`~reassigned` in `LeadsHome`): `set`
  leaves the former object's entry, so its descriptor carries another object's
  id.
* *A reply that cannot be decoded* (`undecoded` in `WaiterIsReachable`,
  `CallsEnd` and `CallsAreAnswered`): the entry is popped before
  `reverseToArgObj` is called, so if that raises (a descriptor of the receiver's
  own host whose object is gone, a custom translator) neither a reply nor the
  sweep finds the caller again. Where the loop awaits `onReceiveMessage` the
  exception ends it, and the other calls wait for the sweep (`reading`).
* *A send that does not end* (`StuckInSend` in `CallsEnd`): with `max_retries` 0,
  the default, `ensure_connected` tries for ever. The sweep settles the future of
  the call, but its caller waits in `await result`, and learns of the timeout
  only if the send ends. A re-registration pass hangs in the same way: then
  nothing is renewed, though no task has ended (`hung` in `HeldIsKept`).
* *`on_reconnect` holds the lock*: if it calls the server while the loop waits
  for the lock, nobody reads the answer (`Unanswered`), until a sweep if there is
  one. If the new connection breaks before the call is sent, the call's own send
  waits for the lock its task holds (`Blocked`): the sweep settles a future that
  nobody awaits yet, and the connection never comes back.
* *After `max_retries`* (`Left`) the loop is gone for good, but sends still
  reconnect, to a stream that nobody reads.
* *`send` does not retry* (`WriteFails`, `Send`), though three docstrings say it
  does. That is why `AtMostOnce` holds: with a retry (`Retries`) a request
  written before the connection broke is handled twice. A send that raises after
  the write (`SendRaises`) fails a call that is handled all the same.
* *A WebSocket session is registered at the first message* of a connection, not
  "at connection time" (`websocket_sender.py:305`). Until the client has sent
  one, replies go to its old connection and are lost; and a late first message
  of an older connection takes the session back to it (`Back` in
  `RepliesFollow`).
* *A TCP session ends with its connection* (`RepliesFollow` speaks of WebSocket
  replies only). The TCP server makes up an id for each connection
  (`tcp_sender.py:258-265`) and never takes over the client's, so a reply that
  is due after the break is lost there.
* *A connection that comes and goes while `_listen` is busy* is never read
  (`ReadOn`): the loop goes on with the last one, and replies that had arrived
  count as lost in `Answered`.
* *`objectWithContext` keeps what it has*: an id that was once set with context
  is intercepted for ever, also for an object set later without. And each TCP
  connection makes a receiver of its own, so the objects are shared but no
  interceptor or context is: `InterceptedFirst` speaks of the receiver that has
  them.
* *A str with the prefix, a dict with the type indicator* are taken for bytes
  and for a descriptor (`Ambiguous` in `ValuesArrive`).
* *A proxy that is passed on* becomes a proxy of the proxy (`NeedsProxy`), also
  on its way home; as every RemoteProxy is `callable`, its descriptor lists
  `__call__` and none of its methods.
* *A callback that is not awaited does not run*: remote methods are coroutine
  functions, and `tests/test_callback.py` calls one without `await`. For the
  model such a handler has no callback.
* *Renaming a host* with `setHostId` after its options exist leaves its objects
  and pending calls under a key that is not looked up any more.
* *Two slow peers* (`Timely` in `HeldIsKept`): peers are asked one after the
  other. With the program's constants, an expiry of 30 ticks and waits of up to
  11, one peer's objects are renewed within 23 ticks, but with two peers it may
  take 34.
* *A descriptor renews nothing* (`secured` in `HeldIsKept`): an object that was
  registered long ago may expire between the moment its descriptor is sent and
  the receiver's first pass. `main` is no exception: an idle server that called
  `autoCheck` forgets its `main` after ninety seconds, and `getMain` fails.

### Bounds, and why they are enough

* Calls: two calls and one or two activations, so that a reply may be taken for
  another call's, a request handled twice and a late reply meet a call that
  timed out. `Limit` 0 still separates entries that are overdue, a tick old,
  from those that are not. One repeated delivery suffices for a double answer.
* Loops: two threads and depth 2 give two calls that compete for a loop and a
  callback that calls back; the four setups are a task for each message, the
  client's loop awaiting, both, and both with the sweep.
* Registry: three objects and three addresses let two objects trade a name
  while a third takes a freed address; two generated ids let one be deleted
  while the other is issued. An object that was freed stands for a new one.
* Leases: two clients with an object each are enough for one client's entry to
  go and come back while a pass waits for the other. `Limit` 1 and `Expiry` 7
  stand for 10 and 30: they make the condition `Timely` an equality, so the run
  is at the edge of what `HeldIsKept` allows (with 6 TLC finds it violated).
* TCP: two senders and the loop give a holder of the lock and two waiters; three
  breaks let the connection fail again while the first reconnection is used, and
  once more; two attempts separate a retry from giving up. The setups are all
  combinations of no limit or two retries, an `on_reconnect` that calls the
  server or not, and the sweep or not.
* Sessions: two clients, so that one's session could be taken for the other's,
  two calls, so that a handler runs for an earlier connection while the next
  request comes on a new one, and two breaks, so that a client skips a
  connection and an older one speaks up after a newer. Clients start with or
  without a session. Both servers.
* Dispatch: two requests, so that one could get the other's result, a chain of
  two, so that there is an interceptor above and below another, and two tasks
  and one `next` more than there should be, so that a handler runs beside an
  answer. One receiver: requests meet only in what it and its host share. The
  values of dispatch_any hold every kind in lists, in dicts, and two deep;
  nothing in the translators depends on more depth than that.

The proofs below remove these bounds for what they cover.

### Deadlock

`CHECK_DEADLOCK FALSE` everywhere: the models stop legitimately, when all calls
were made, all breaks used up or all ids deleted. That nothing stops which
should go on is what the liveness properties say.

### Fairness

`FairSpec` assumes what asyncio gives: a task that can run does (weak fairness
of each step the code takes by itself), the clock advances and, where the
program called `autoCheck`, the sweep comes round. Nothing is assumed of who
starts calls, cancels, drops proxies or calls `autoCheck`. Where a setup is
chosen once (`ReceiveLoop`, `TcpConnection`) fairness is stated over `flow`, the
variables that change.

* `RpcCalls`: the event loop, the clock and the sweep, and nothing else. That a
  sender's `send` ends, that messages arrive and that handlers end is no part of
  the specification: these are the premises `SenderFairness` and `PeerFairness`
  of the one property that needs them, `CallsAreAnswered`.
* `ReceiveLoop`: the connection loses nothing and delivers in order.
* `ProxyLease`: time passes and the periodic tasks run; a send need not end, a
  peer need not answer, and a descriptor need not arrive. `KeepsRenewing`, which
  is violated, has `SenderFairness` as its premise: the counterexample is not one
  of a send that hangs.
* `Sessions`: tasks that can run do, handlers end, and a server can be reached
  again in the end. A client need not give up, but may. The loop that spins
  after a FIN is left to `TcpConnection`: a break here is one both ends notice.
* `TcpConnection`: a stopped server is started again, and all fairness is under
  the condition that the loop does not hold the event loop: a task cannot run
  while `_listen` spins. `on_reconnect` ends if what it awaits will come
  (`Answerable`): an answer the loop can read, or the sweep.

Liveness runs use no symmetry.

## 4. What is proved

The proofs hold for any numbers of calls, activations, hosts' threads, depths,
objects, addresses, ids, clients, connections, senders, retries, breaks,
receivers, interceptors and tasks, and for every setup. They use the ASSUMEs of
the modules: sentinels differ from what they are sentinels of, bounds are natural
numbers, the names a program chooses are not generated ids, an id belongs to one
peer.

* **RpcCalls.** `Inductive` is the invariant: types; every reply in transit that
  carries a result carries that of a finished activation of the call it names;
  the entry of an unsettled call is pending, unless its reply could not be
  decoded. `OwnResult` alone is not inductive: it says nothing of replies that
  are still travelling. From it `Typed`, `ResultsAreOwn`, `WaitersAreReachable`,
  `HandledAtMostOnce`, `FuturesSettleOnce` and `PromiseKept`: the initial states
  of `RpcCalls` map to initial states of `RemoteCalls` and each step to a step
  or a stutter. At-most-once rests on the fact that a request that is in transit
  has no activation yet, if nothing is repeated. `NoCallIsForgotten` is the
  safety half of `CallsAreAnswered`: while a call is unsettled its request or
  its reply is in transit or its handler runs, or the transport lost a message,
  or its own reply could not be decoded.
* **ReceiveLoop.** `Typed`, and `HandlersTakeTurns`: a loop that awaits is busy
  with the one active handler of its host. `AwaitedCallbacksStarve`: behind such
  a loop no reply is ever taken while a handler awaits its callback. The
  deadlock of loop_await is thus a property of the design and not of the
  instance. `LoopsAloneStarve` is the converse, the safety half of
  `OnlyStarvationHangs`: while a call waits, a loop or a handler can take a
  step, or the sweep runs, or a handler is `Starved`. Its invariant accounts for
  each waiting call (queued, handled, or its reply queued). As a handler may
  itself wait for its callback, the proof looks at the deepest call that waits,
  which exists as the naturals are well founded.
* **ProxyRegistry.** `Typed`, `KeysBelongToTheLiving`, `HandlesAreFaithful`,
  `ProxiesLeadHome` (as long as no name was given again) and `IdsAreNotReused`.
  The invariant ties the three dictionaries together: what an address-keyed
  entry names is alive at that address, addresses are not shared, and generated
  ids from the counter upwards are unused.
* **ProxyLease.** `Typed` and `ProxiesAreTracked`: however proxies come and die
  during a pass, none that is held is missing from its client's set, and the
  clients a pass has yet to visit are still listed. The invariant adds that a
  task in a request has somebody to ask; the work is in lemmas about sequences
  without repetitions (the insertion order of a dictionary). `RenewedIsKept` is
  `HeldIsKept` for any number of clients and any limits that are `Timely`, while
  no send outlasts the limit and the task goes round. Its invariant bounds the
  age of each secured id by the clients that can have been asked since it was
  renewed. `InTurn` says that passes follow the order of the dictionary, in
  which a client with a held proxy never loses its place, so that nobody is
  asked both after it in one pass and before it in the next. `Ages` counts:
  after it was renewed, a wait for each client that does not come before its
  own; between passes one tick more; in the next pass a wait for each that did.
  With N clients that is at most N + 1 waits and a tick, which is what `Timely`
  asks for.
* **TcpConnection.** `Typed`, `ReconnectsOneAtATime`, `StreamsAreKept`. The task
  in the reconnection loop is the holder of the lock, a task dials only while
  the link is dead, and each stream but the first follows a break.
  `EnsureConnectedDoesNotDeadlock`, the safety half of `Reconnects` and
  `SendsEnd`: while a task is inside `ensure_connected`, or the link is down and
  the loop has not left, some task can go on, unless the loop spins after a FIN
  or `on_reconnect` is `Unanswered`, or a call of it is `Blocked`. Its
  invariant: a task waits for the lock exactly when it is in the lock's queue,
  where it is once.
* **Sessions.** `Typed`, `SessionsStaySeparate`, `HandledAtMostOnce` and
  `PromiseKept`, a second implementation of `RemoteCalls`. The invariant has
  five parts beside the types. `Budget`: a client has made no more connections
  than there were breaks, which types the connections. `SessionsInStep`: an id
  that a client, a connection or a message holds was made up for the same
  client, and the id a connection serves is in the map. `CallsInStep`: what
  travels or is served on a connection is a call of its client. `Progress`: a
  request that travels is one that was sent and was not handled; a call that is
  served, or whose reply travels, was. `Once`: no call has two requests in
  transit, on whatever connections. At-most-once follows from the last two; that
  a call returns after its handler ran, from `Progress`. `NoCallIsForgotten`,
  the safety half of `Answered`: what a waiting call waits for is at a
  connection of the server or on one its client will read, or was lost.
  `RepliesGoToTheNewest`, that of `RepliesFollow`: a handler that runs in its
  client's present session answers on the client's newest connection, whatever
  connection the request came on. `TcpSessionsEndWithTheirConnection` shows that
  over TCP there is only the connection the request came on.

* **Dispatch.** `Typed`, and for chains, tasks and requests without limit:
  `NoInterceptorIsBypassed`, `OrderlyAreHandledOnce`, `ValuesAreTranslatedOnce`,
  `ValuesArriveIfTranslated` and `EveryEndIsAnswered`. The invariant has seven
  parts beside the types. `Frames` and `Floors`: a frame is at a position its
  receiver has, and as interceptors are never removed a handler stays above
  those that were there when its request came. `Awaited`: nothing happens to a
  request before it arrives. `AnsweredAtTheEnd`: a request has an answer exactly
  when its main task is over, so no interleaving of interceptors answers it
  twice or leaves it without an answer. `OwnHandler`: the results in its
  container are its own handler's. `InOrder` says what an orderly request has
  come to, by the place its only task is at; `OrderlyOnce` alone says nothing of
  requests that are under way. `TranslatedOnce`: the argument was decoded once,
  and encoded and decoded once more when the handler's result is the answer.
  `ValuesArriveIfTranslated` has a hypothesis, `TranslatorsKeepPromise`: over
  the wire and back the translators do to each clear value what the
  documentation promises. It speaks of the parameters only, for one value at a
  time. dispatch_any has a request that passes each of its values over each wire
  and back, so its `ValuesArrive` is that hypothesis for `Arguments` and these
  values.

Only model-checked: all liveness (the prover has no ENABLED, hence no weak
fairness), though the safety halves above leave to TLC only that what can go on
does, under fairness, and ends; what the recursive translators of `Arguments`
compute, for values of every depth (induction over data), which is the
hypothesis above; and that the violated properties are violated.

## 5. Not modelled

* *Options and ids.* `_getOrCreateOption` is a dictionary looked up by one
  comparison, `_getId` a counter. Nothing meets in them, so the models take a
  host's options as given and ids as unique. They need not be: `_getId` puts no
  separator between host and counter, so hosts `a` and `a1` both come to `a11`,
  and a program that is a client of both takes one's object for the other's.
  `ProxyLease` assumes that ids belong to one peer (`Home`).
* *stdio framing.* The write lock is one `async with` around one write. A stream
  that ends in a frame, or a decoder that raises, ends the loop: to the calls it
  is a transport that loses everything (calls_live).
* *In Arguments*: custom translators and what a program wraps as
  `PreArgObj('data')`, which are its own, and the members of descriptors.
* *In Sessions*: requests of the server to its clients. The session map serves
  them as it serves replies; what they do to the loops is in `ReceiveLoop`.

Left out for good: `core.py` (superseded, imported by nothing), the bytes of
CBOR and of frames, logging, packaging, and Python's own behaviour beyond what
the models say of the event loop, the lock, weak references and object
addresses. `ProxyLease` leaves out two peers that use the same id (two servers'
`main` behind clients of one host): `README.en-us.md` asks for a host for each
connection and for host names that are unique.
