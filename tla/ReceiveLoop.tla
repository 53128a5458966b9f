---------------------------- MODULE ReceiveLoop -----------------------------
(***************************************************************************)
(* Who calls MessageReceiver.onReceiveMessage, and how.  The senders for   *)
(* TCP, WebSocket and stdio run a loop at each end of a connection that    *)
(* reads a message, awaits onReceiveMessage and only then reads the next.  *)
(* DumpChannel, and the loops of README.en-us.md, start a task for each    *)
(* message instead.                                                        *)
(*                                                                         *)
(* Two hosts are joined by a connection that loses nothing, and what it    *)
(* brings can be decoded (a reply that cannot is in RpcCalls). The client  *)
(* makes calls whose argument is a callback; the handler may call it back, *)
(* and that handler may call back in turn, Depth times.  asyncio runs one  *)
(* callback at a time: an action is the code between two awaits.           *)
(***************************************************************************)
EXTENDS Naturals, Sequences

CONSTANTS
  Threads,    \* the client's calls; each with its chain of callbacks
  Depth,      \* bounds how deep callbacks nest
  Uses,       \* what handlers may do with their callback, see HandlerRuns
  Setups,     \* how the hosts may be set up, <<serial, sweeping>>
  Nobody      \* what a loop that waits for a message handles

Hosts == {"client", "server"}
Calls == Threads \X (0 .. Depth)

ASSUME DepthAssumption == Depth \in Nat
ASSUME SetupsAssumption == Setups \subseteq (SUBSET Hosts) \X BOOLEAN
ASSUME UsesAssumption == Uses \subseteq {"none", "await", "spawn"}
ASSUME NobodyAssumption == Nobody \notin Calls

VARIABLES
  serial,   \* the hosts whose loop awaits each message; {} for DumpChannel
  sweeping, \* whether autoCheck was called, at both hosts
  caller,   \* [Calls -> the caller's side of each call]
  handler,  \* [Calls -> the handler's side of each call]
  spawned,  \* calls whose coroutine was wrapped in a task not yet run
  inbox,    \* [Hosts -> messages to be read, in order of arrival]
  busy      \* [Hosts -> the request whose onReceiveMessage the loop awaits]

setup == <<serial, sweeping>>
flow == <<caller, handler, spawned, inbox, busy>>
vars == <<setup, flow>>

CallerState == {"none", "waiting", "ok", "error", "timeout"}
HandlerState == {"none", "running", "awaiting", "done"}
Message == [kind : {"request", "ok", "error"}, call : Calls]

Other(h) == IF h = "client" THEN "server" ELSE "client"

\* The chain of a call alternates between the hosts.
CallerHost(c) == IF c[2] % 2 = 0 THEN "client" ELSE "server"
HandlerHost(c) == Other(CallerHost(c))
Callback(c) == <<c[1], c[2] + 1>>

Active(c) == handler[c] \in {"running", "awaiting"}

Init ==
  /\ \E s \in Setups : serial = s[1] /\ sweeping = s[2]
  /\ caller = [c \in Calls |-> "none"]
  /\ handler = [c \in Calls |-> "none"]
  /\ spawned = {}
  /\ inbox = [h \in Hosts |-> <<>>]
  /\ busy = [h \in Hosts |-> Nobody]
-----------------------------------------------------------------------------
Request(c) == [kind |-> "request", call |-> c]
Reply(c, kind) == [kind |-> kind, call |-> c]

Deliver(h, m) == inbox' = [inbox EXCEPT ![h] = Append(@, m)]

\* waitForRequest of a call whose send does not fail
MakeCall(c) ==
  /\ caller' = [caller EXCEPT ![c] = "waiting"]
  /\ Deliver(HandlerHost(c), Request(c))

\* DumpChannel: asyncio.ensure_future(receiver.onReceiveMessage(...))
DispatchAsTask(h, c) == UNCHANGED busy

\* The loops of the senders: `await receiver.onReceiveMessage(...)`
Dispatch(h, c) == busy' = [busy EXCEPT ![h] = IF h \in serial THEN c ELSE @]

ForgetsToRead(h, c) == UNCHANGED busy

\* onReceiveMessage returns, and a loop that awaited it reads on.
Release(h, c) == busy' = [busy EXCEPT ![h] = IF @ = c THEN Nobody ELSE @]

AnswersItself(c, kind) ==
  /\ handler' = [handler EXCEPT ![c] = "done"]
  /\ Deliver(HandlerHost(c), Reply(c, kind))
  /\ Release(HandlerHost(c), c)

ErrorEndsLoop(c, kind) ==
  /\ handler' = [handler EXCEPT ![c] = "done"]
  /\ Deliver(CallerHost(c), Reply(c, kind))
  /\ IF kind = "ok" THEN Release(HandlerHost(c), c) ELSE UNCHANGED busy

\* The reply, or the error the handler raised, is sent by a task of its own
\* (_maybeAwait); neither leaves onReceiveMessage.
Finish(c, kind) ==
  /\ handler' = [handler EXCEPT ![c] = "done"]
  /\ Deliver(CallerHost(c), Reply(c, kind))
  /\ Release(HandlerHost(c), c)
-----------------------------------------------------------------------------
\* A task of the client calls main.method(callback).
Start(t) ==
  /\ caller[<<t, 0>>] = "none"
  /\ MakeCall(<<t, 0>>)
  /\ UNCHANGED <<handler, spawned, busy>>

\* A loop reads a request, and onReceiveMessage calls the handler.
ReceiveRequest(h) ==
  /\ busy[h] = Nobody
  /\ inbox[h] # <<>> /\ Head(inbox[h]).kind = "request"
  /\ LET c == Head(inbox[h]).call IN
       /\ handler' = [handler EXCEPT ![c] = "running"]
       /\ Dispatch(h, c)
  /\ inbox' = [inbox EXCEPT ![h] = Tail(@)]
  /\ UNCHANGED <<caller, spawned>>

\* A loop reads a reply; that branch of onReceiveMessage awaits nothing.
ReceiveReply(h) ==
  /\ busy[h] = Nobody
  /\ inbox[h] # <<>> /\ Head(inbox[h]).kind # "request"
  /\ LET m == Head(inbox[h]) IN
       caller' = [caller EXCEPT ![m.call] =
                    IF @ = "waiting" /\ CallerHost(m.call) = h
                    THEN m.kind ELSE @]
  /\ inbox' = [inbox EXCEPT ![h] = Tail(@)]
  /\ UNCHANGED <<handler, spawned, busy>>

\* The handler has no callback to make; or, as in tests/test_callback.py, it
\* writes `cb(x)`, which makes a coroutine and runs nothing of it.
ReturnAtOnce(c) ==
  /\ handler[c] = "running"
  /\ "none" \in Uses \/ c[2] = Depth
  /\ Finish(c, "ok")
  /\ UNCHANGED <<caller, spawned>>

\* `asyncio.ensure_future(cb(x))`
ReturnAfterSpawn(c) ==
  /\ handler[c] = "running"
  /\ "spawn" \in Uses /\ c[2] < Depth
  /\ spawned' = spawned \cup {Callback(c)}
  /\ Finish(c, "ok")
  /\ UNCHANGED caller

\* `await cb(x)`
AwaitCallback(c) ==
  /\ handler[c] = "running"
  /\ "await" \in Uses /\ c[2] < Depth
  /\ handler' = [handler EXCEPT ![c] = "awaiting"]
  /\ MakeCall(Callback(c))
  /\ UNCHANGED <<spawned, busy>>

HandlerRuns(c) == ReturnAtOnce(c) \/ ReturnAfterSpawn(c) \/ AwaitCallback(c)

PassesOn(state) == state

\* The reply of a handler by what it got from its callback: an exception
\* that it does not catch becomes a reply of status -1.
HandlerOutcome(state) == IF state = "ok" THEN "ok" ELSE "error"

\* The callback the handler awaited has settled.
Resume(c) ==
  /\ handler[c] = "awaiting"
  /\ caller[Callback(c)] # "waiting"
  /\ Finish(c, HandlerOutcome(caller[Callback(c)]))
  /\ UNCHANGED <<caller, spawned>>

\* The task of a spawned callback runs.
RunSpawned(c) ==
  /\ c \in spawned
  /\ spawned' = spawned \ {c}
  /\ MakeCall(c)
  /\ UNCHANGED <<handler, busy>>

\* _killTimeoutConnection, once the time limit of a call has passed
Timeout(c) ==
  /\ sweeping
  /\ caller[c] = "waiting"
  /\ caller' = [caller EXCEPT ![c] = "timeout"]
  /\ UNCHANGED <<handler, spawned, inbox, busy>>

Next ==
  /\ UNCHANGED setup
  /\ \/ \E t \in Threads : Start(t)
     \/ \E h \in Hosts : ReceiveRequest(h) \/ ReceiveReply(h)
     \/ \E c \in Calls :
          HandlerRuns(c) \/ Resume(c) \/ RunSpawned(c) \/ Timeout(c)

Spec == Init /\ [][Next]_vars

\* The event loops run what is ready, and the sweep comes around.
Fairness ==
  /\ \A h \in Hosts : WF_flow(ReceiveRequest(h) \/ ReceiveReply(h))
  /\ \A c \in Calls :
       WF_flow(HandlerRuns(c)) /\ WF_flow(Resume(c)) /\ WF_flow(RunSpawned(c))
       /\ WF_flow(Timeout(c))

FairSpec == Spec /\ Fairness
-----------------------------------------------------------------------------
TypeOK ==
  /\ serial \subseteq Hosts
  /\ sweeping \in BOOLEAN
  /\ caller \in [Calls -> CallerState]
  /\ handler \in [Calls -> HandlerState]
  /\ spawned \subseteq Calls
  /\ inbox \in [Hosts -> Seq(Message)]
  /\ busy \in [Hosts -> Calls \cup {Nobody}]

\* On one connection of such a sender, a handler starts only after the one
\* before it has returned: a slow one delays everything sent after it.
OneHandlerAtATime ==
  \A c, d \in Calls :
    /\ HandlerHost(c) \in serial /\ HandlerHost(c) = HandlerHost(d)
    /\ Active(c) /\ Active(d)
    => c = d

\* A handler behind an awaiting loop never sees the reply to a callback it
\* awaits, for that reply is behind it in the loop: it waits forever, or
\* until the sweep fails it.
NoAnswerToAwaitedCallback ==
  \A c \in Calls :
    HandlerHost(c) \in serial /\ handler[c] = "awaiting"
      => caller[Callback(c)] \in {"waiting", "timeout"}

\* README.en-us.md:63 awaits the callback in the handler of its example,
\* and __init__.py:2 promises "remote callback support": such calls return.
CallsReturn == \A c \in Calls : caller[c] = "waiting" ~> caller[c] = "ok"

\* A handler awaits its callback behind an awaiting loop, and no sweep will
\* ever fail that callback.
Starved ==
  /\ ~sweeping
  /\ \E c \in Calls : HandlerHost(c) \in serial /\ handler[c] = "awaiting"

\* Nothing else keeps a call from returning: all is well with a task for each
\* message, with callbacks that are spawned, and behind the client's awaiting
\* loop alone if no callback calls back.
OnlyStarvationHangs ==
  \A c \in Calls :
    caller[c] = "waiting" ~> caller[c] = "ok" \/ Starved \/ sweeping

\* An awaiting loop comes back to what is behind the handler it awaits, with
\* the sweep also if that handler starved: its callback is failed, it ends with
\* an error, and the loop reads on, through any nesting, to the last message.
LoopsReadOn ==
  \A h \in Hosts :
    inbox[h] # <<>> ~> (inbox[h] = <<>> /\ busy[h] = Nobody) \/ Starved

\* A callback that is wrapped in a task does run, however the loops work,
\* unless a handler starves in its way.
SpawnedRuns ==
  \A c \in Calls : c \in spawned ~> handler[c] = "done" \/ Starved
=============================================================================
