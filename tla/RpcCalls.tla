------------------------------ MODULE RpcCalls ------------------------------
(***************************************************************************)
(* The request/response core of xuri_rpc/rpc.py, seen from one requesting  *)
(* host: Client.waitForRequest with its entry in requestPendingDict, both  *)
(* branches of MessageReceiver.onReceiveMessage, and the periodic sweep of *)
(* overdue requests (_killTimeoutConnection).  asyncio runs one callback   *)
(* at a time, so the code between two awaits is one action.                *)
(*                                                                         *)
(* The transport is the user's ISender.  Whatever order it delivers in, it *)
(* may lose messages if Lossy, which also stands for a reply whose sender  *)
(* fails: that exception ends in a task nobody awaits.  It may deliver a   *)
(* message again up to MaxRedeliver times in a behaviour.                  *)
(***************************************************************************)
EXTENDS Integers

CONSTANTS
  Calls,         \* the calls made; a call stands for the id of its request
  Execs,         \* activations of handlers; bounds how many there are
  NoExec,        \* `data` of a reply that carries no handler's result
  Limit,         \* _connectionLimit, in ticks
  MaxRedeliver,  \* bound on repeated deliveries; 0 for TCP, ws and stdio
  Lossy          \* whether messages may be lost

ASSUME NoExecAssumption == NoExec \notin Execs \cup Calls
ASSUME LimitAssumption == Limit \in Nat
ASSUME RedeliverAssumption == MaxRedeliver \in Nat
ASSUME LossyAssumption == Lossy \in BOOLEAN

VARIABLES
  phase,        \* where each caller is in waitForRequest
  future,       \* the asyncio.Future of each call
  value,        \* the value `future` was resolved with
  pending,      \* keys of requestPendingDict
  age,          \* ticks since the entry's sendTime, up to Limit + 1
  sent,         \* calls whose sender wrote the request
  requests,     \* requests in transit
  replies,      \* replies in transit
  execCall,     \* the call each activation serves
  execState,    \* "free", "running" (inside an await) or "done"
  redelivered,  \* repeated deliveries so far
  lost,         \* whether a message was lost
  sweeping,     \* whether the program has called autoCheck()
  undecoded,    \* calls whose reply was taken and could not be decoded
  reading       \* whether the receive loop still runs

receiverVars == <<undecoded, reading>>
callerVars == <<phase, future, value, pending, age, sweeping, receiverVars>>
peerVars == <<execCall, execState>>
netVars == <<sent, requests, replies, redelivered, lost>>
vars == <<callerVars, peerVars, netVars>>

Phase == {"idle", "sending", "waiting", "returned", "raised", "cancelled"}
FutureState == {"none", "pending", "result", "remoteError", "sendError",
                "timeout", "cancelled"}
Reply == [idFor : Calls, status : {"ok", "error", "notFound"},
          data : Execs \cup {NoExec}]

InCall(c) == phase[c] \in {"sending", "waiting"}
Done(c) == future[c] \notin {"none", "pending"}

Init ==
  /\ phase = [c \in Calls |-> "idle"]
  /\ future = [c \in Calls |-> "none"]
  /\ value = [c \in Calls |-> NoExec]
  /\ pending = {}
  /\ age = [c \in Calls |-> 0]
  /\ sent = {} /\ requests = {} /\ replies = {}
  /\ execCall = [e \in Execs |-> NoExec]
  /\ execState = [e \in Execs |-> "free"]
  /\ redelivered = 0 /\ lost = FALSE
  /\ sweeping = FALSE
  /\ undecoded = {} /\ reading = TRUE
-----------------------------------------------------------------------------
(* Helpers, each preceded by the slips in it that the runs must notice. *)

SettleAgain(S, outcome) ==
  [c \in Calls |-> IF c \in S THEN outcome ELSE future[c]]

\* `if not future.done(): future.set_...(...)` for each call of S
Settle(S, outcome) ==
  [c \in Calls |-> IF c \in S /\ future[c] = "pending" THEN outcome
                   ELSE future[c]]

\* A message is handed over; the transport may keep it for another time.
TakeRequest(c) ==
  \/ /\ requests' = requests \ {c}
     /\ UNCHANGED redelivered
  \/ /\ redelivered < MaxRedeliver
     /\ redelivered' = redelivered + 1
     /\ UNCHANGED requests

TakeReply(r) ==
  \/ /\ replies' = replies \ {r}
     /\ UNCHANGED redelivered
  \/ /\ redelivered < MaxRedeliver
     /\ redelivered' = redelivered + 1
     /\ UNCHANGED replies

ReplyNamingItself(c, status, e) ==
  [idFor |-> IF e \in Execs THEN e ELSE c, status |-> status, data |-> e]

\* generateErrorReply and the replies of onReceiveMessage
ReplyTo(c, status, e) == [idFor |-> c, status |-> status, data |-> e]

\* The `except` around the request branch answers whatever raised in it, the
\* sending of a reply included: a synchronous sender that wrote the reply
\* and then raised leaves two.
ReplyOrError(status) == {{status}, {"error"}, {status, "error"}}

FirstPending(r) ==
  IF pending = {} THEN r.idFor ELSE CHOOSE c \in pending : TRUE

\* the call a reply is for: messageRecv['idFor']
Target(r) == r.idFor

DropsErrors(r) == IF r.status = "ok" THEN "result" ELSE "pending"

AlwaysOk(r) == "result"

\* how a reply settles its future, by its status
Outcome(r) == IF r.status = "ok" THEN "result" ELSE "remoteError"

OnlyUnsettled == {c \in pending : age[c] > Limit /\ future[c] = "pending"}

\* `time.time() - value['sendTime'] > millisec`
Overdue == {c \in pending : age[c] > Limit}

SettlesNothing(S) == future

\* what the sweep does with the futures of the entries it removes
KillFutures(S) == Settle(S, "timeout")
-----------------------------------------------------------------------------
(* The requesting host. *)

\* waitForRequest up to `sender.send(request)`: the entry exists, with its
\* sendTime, before anything is on the wire.
Call(c) ==
  /\ phase[c] = "idle"
  /\ phase' = [phase EXCEPT ![c] = "sending"]
  /\ future' = [future EXCEPT ![c] = "pending"]
  /\ pending' = pending \cup {c}
  /\ age' = [age EXCEPT ![c] = 0]
  /\ UNCHANGED <<value, sweeping, receiverVars, peerVars, netVars>>

\* useSender() gave None: waitForRequest raises before it leaves any trace.
CallWithoutSender(c) ==
  /\ phase[c] = "idle"
  /\ phase' = [phase EXCEPT ![c] = "raised"]
  /\ UNCHANGED <<future, value, pending, age, sweeping, receiverVars, peerVars,
                 netVars>>

\* The user's sender writes the request while waitForRequest awaits it.
Transmit(c) ==
  /\ phase[c] = "sending"
  /\ c \notin sent
  /\ sent' = sent \cup {c}
  /\ requests' = requests \cup {c}
  /\ UNCHANGED <<callerVars, peerVars, replies, redelivered, lost>>

SendReturns(c) ==
  /\ phase[c] = "sending"
  /\ c \in sent
  /\ phase' = [phase EXCEPT ![c] = "waiting"]
  /\ UNCHANGED <<future, value, pending, age, sweeping, receiverVars, peerVars,
                 netVars>>

SendIsRetried(c) ==
  /\ phase[c] = "sending"
  /\ sent' = sent \ {c}
  /\ UNCHANGED <<callerVars, peerVars, requests, replies, redelivered, lost>>

\* `except Exception as e: if not future.done(): future.set_exception(e)`.
\* The send may fail after it wrote.  The entry stays in requestPendingDict.
SendRaises(c) ==
  /\ phase[c] = "sending"
  /\ phase' = [phase EXCEPT ![c] = "waiting"]
  /\ future' = Settle({c}, "sendError")
  /\ UNCHANGED <<value, pending, age, sweeping, receiverVars, peerVars,
                 netVars>>

\* `return await future`: the caller wakes up after its future was settled.
Resume(c) ==
  /\ phase[c] = "waiting"
  /\ Done(c)
  /\ phase' = [phase EXCEPT ![c] = IF future[c] = "result" THEN "returned"
                                   ELSE "raised"]
  /\ UNCHANGED <<future, value, pending, age, sweeping, receiverVars, peerVars,
                 netVars>>

\* The caller's task is cancelled (asyncio.wait_for around the call, say).
\* CancelledError is not an Exception: the handler of waitForRequest lets it
\* pass, and no code removes the entry.
Cancel(c) ==
  /\ InCall(c)
  /\ phase' = [phase EXCEPT ![c] = "cancelled"]
  /\ future' = IF phase[c] = "waiting" THEN Settle({c}, "cancelled")
               ELSE future
  /\ UNCHANGED <<value, pending, age, sweeping, receiverVars, peerVars,
                 netVars>>

\* onReceiveMessage, response branch.  The entry is popped before the future
\* is looked at, so a reply that comes after the caller gave up is absorbed.
PopEntry(r) ==
  /\ reading
  /\ Target(r) \in pending
  /\ TakeReply(r)
  /\ pending' = pending \ {Target(r)}

AcceptReply(r) ==
  LET c == Target(r) IN
  /\ PopEntry(r)
  /\ future' = Settle({c}, Outcome(r))
  /\ value' = [value EXCEPT ![c] =
                 IF future[c] = "pending" /\ Outcome(r) = "result"
                 THEN r.data ELSE @]
  /\ UNCHANGED <<phase, age, sweeping, receiverVars, peerVars, sent, requests,
                 lost>>

\* The result is translated back between the pop and the settling: what
\* reverseToArgObj raises there (on a descriptor of an object of this host
\* that is gone, or in a custom translator) leaves the future as it is.  It
\* ends a loop that awaits onReceiveMessage, or the task of this message.
DecodingRaises(r) ==
  LET c == Target(r) IN
  /\ PopEntry(r)
  /\ future[c] = "pending" /\ Outcome(r) = "result"
  /\ undecoded' = undecoded \cup {c}
  /\ reading' \in BOOLEAN
  /\ UNCHANGED <<phase, future, value, age, sweeping, peerVars, sent, requests,
                 lost>>

\* "no pending request for id": swept or answered before, nothing happens.
IgnoreReply(r) ==
  /\ reading
  /\ Target(r) \notin pending
  /\ TakeReply(r)
  /\ UNCHANGED <<callerVars, peerVars, sent, requests, lost>>

ReceiveReply ==
  \E r \in replies : AcceptReply(r) \/ DecodingRaises(r) \/ IgnoreReply(r)

\* The program calls autoCheck(), if it ever does.
AutoCheck ==
  /\ ~sweeping /\ sweeping' = TRUE
  /\ UNCHANGED <<phase, future, value, pending, age, receiverVars, peerVars,
                 netVars>>

\* _killTimeoutConnection, run by autoCheck: one sweep over all the entries.
KillTimeoutConnection ==
  /\ sweeping
  /\ Overdue # {}
  /\ future' = KillFutures(Overdue)
  /\ pending' = pending \ Overdue
  /\ UNCHANGED <<phase, value, age, sweeping, receiverVars, peerVars, netVars>>

\* Time passes for every entry of requestPendingDict.
Tick ==
  /\ \E c \in pending : age[c] <= Limit
  /\ age' = [c \in Calls |-> IF c \in pending /\ age[c] <= Limit
                             THEN age[c] + 1 ELSE age[c]]
  /\ UNCHANGED <<phase, future, value, pending, sweeping, receiverVars,
                 peerVars, netVars>>
-----------------------------------------------------------------------------
(* The answering host: onReceiveMessage, request branch. *)

\* Answered before any handler runs: object not found (status 100), or the
\* arguments or the method could not be resolved (status -1).
RejectRequest(c) ==
  /\ c \in requests
  /\ TakeRequest(c)
  /\ \E out \in ReplyOrError("notFound") :
       replies' = replies \cup {ReplyTo(c, status, NoExec) : status \in out}
  /\ UNCHANGED <<callerVars, peerVars, sent, lost>>

\* The handler is called and runs up to its first await.
StartHandler(c) ==
  /\ c \in requests
  /\ TakeRequest(c)
  /\ \E e \in Execs :
       /\ execState[e] = "free"
       /\ execCall' = [execCall EXCEPT ![e] = c]
       /\ execState' = [execState EXCEPT ![e] = "running"]
  /\ UNCHANGED <<callerVars, sent, replies, lost>>

\* The handler returns or raises, and its reply is handed to the sender.
FinishHandler(e) ==
  /\ execState[e] = "running"
  /\ execState' = [execState EXCEPT ![e] = "done"]
  /\ \E out \in ReplyOrError("ok") :
       replies' = replies \cup
         {ReplyTo(execCall[e], status, IF status = "ok" THEN e ELSE NoExec) :
            status \in out}
  /\ UNCHANGED <<callerVars, execCall, sent, requests, redelivered, lost>>

\* A message, or the sender it was given to, fails.
Lose ==
  /\ Lossy /\ lost' = TRUE
  /\ \/ \E c \in requests : requests' = requests \ {c} /\ UNCHANGED replies
     \/ \E r \in replies : replies' = replies \ {r} /\ UNCHANGED requests
  /\ UNCHANGED <<callerVars, peerVars, sent, redelivered>>
-----------------------------------------------------------------------------
Next ==
  \/ \E c \in Calls :
       \/ Call(c) \/ CallWithoutSender(c) \/ Cancel(c)
       \/ Transmit(c) \/ SendReturns(c) \/ SendRaises(c) \/ Resume(c)
       \/ RejectRequest(c) \/ StartHandler(c)
  \/ \E e \in Execs : FinishHandler(e)
  \/ ReceiveReply
  \/ AutoCheck
  \/ KillTimeoutConnection
  \/ Tick
  \/ Lose

Spec == Init /\ [][Next]_vars

\* The event loop runs what is ready, and the clock advances.
CallerFairness ==
  /\ \A c \in Calls : WF_vars(Resume(c))
  /\ WF_vars(Tick)
  /\ WF_vars(KillTimeoutConnection)

\* A send ends, which those of TCP and WebSocket need not: ensure_connected
\* tries for ever by default.
SenderFairness ==
  \A c \in Calls :
    WF_vars(Transmit(c)) /\ WF_vars(SendReturns(c) \/ SendRaises(c))

\* Handlers end, and what is in transit arrives unless it is lost.
PeerFairness ==
  /\ \A c \in Calls : WF_vars(RejectRequest(c) \/ StartHandler(c))
  /\ \A e \in Execs : WF_vars(FinishHandler(e))
  /\ WF_vars(ReceiveReply)

FairSpec == Spec /\ CallerFairness
-----------------------------------------------------------------------------
TypeOK ==
  /\ phase \in [Calls -> Phase]
  /\ future \in [Calls -> FutureState]
  /\ value \in [Calls -> Execs \cup {NoExec}]
  /\ pending \subseteq Calls
  /\ age \in [Calls -> 0 .. Limit + 1]
  /\ sent \subseteq Calls
  /\ requests \subseteq Calls
  /\ replies \subseteq Reply
  /\ execCall \in [Execs -> Calls \cup {NoExec}]
  /\ execState \in [Execs -> {"free", "running", "done"}]
  /\ redelivered \in 0 .. MaxRedeliver
  /\ lost \in BOOLEAN
  /\ sweeping \in BOOLEAN
  /\ undecoded \subseteq Calls
  /\ reading \in BOOLEAN

\* A call resolves only with what a finished activation of its own request
\* produced, whatever was lost, repeated, reordered or answered too late.
OwnResult ==
  \A c \in Calls : future[c] = "result" =>
    /\ value[c] \in Execs
    /\ execState[value[c]] = "done"
    /\ execCall[value[c]] = c

\* A caller whose future is not settled can still be reached: its entry is in
\* requestPendingDict, where both the reply and the timeout sweep look for it.
\* The one way to be lost to both is a reply that cannot be decoded.
WaiterIsReachable ==
  \A c \in Calls : InCall(c) /\ ~Done(c) => c \in pending \cup undecoded

\* A request is handled at most once while the transport has repeated
\* nothing: neither a failing send nor a timeout makes the core send again.
AtMostOnce ==
  redelivered = 0 =>
    \A d, e \in Execs :
      execCall[d] = execCall[e] /\ execCall[d] \in Calls => d = e

\* A settled future is never settled again, although replies, failing sends,
\* the sweep and cancellation race for it.  (asyncio would raise
\* InvalidStateError, and that would end the sweep's task.)
SettledOnce == [][\A c \in Calls : Done(c) => future'[c] = future[c]]_vars

\* Its future is settled, but its caller is still in `await sender.send(...)`.
StuckInSend(c) == phase[c] = "sending" /\ Done(c)

\* Once the program has called autoCheck every call ends, those made before
\* it included, whatever is lost and whether or not sends and handlers end:
\* all but the callers whose reply could not be decoded, and those whose send
\* does not end, which the sweep settles in vain.
CallsEnd ==
  \A c \in Calls :
    /\ InCall(c) /\ sweeping ~> ~InCall(c) \/ c \in undecoded \/ StuckInSend(c)
    /\ phase[c] = "waiting" /\ sweeping ~> ~InCall(c) \/ c \in undecoded

\* Without the sweep a call ends if sends and handlers end and messages
\* arrive; but one message that is lost, or one reply that could not be sent,
\* is enough to hang it, and one that could not be decoded to hang the others
\* too, if it ended the loop.
CallsAreAnswered ==
  SenderFairness /\ PeerFairness =>
    \A c \in Calls :
      InCall(c) ~> ~InCall(c) \/ lost \/ c \in undecoded \/ ~reading

\* The sweep empties requestPendingDict, also of the entries that failed
\* sends and cancelled callers leave behind.
PendingIsSwept ==
  \A c \in Calls : c \in pending /\ sweeping ~> c \notin pending
-----------------------------------------------------------------------------
(* What the caller was promised. *)

callStatus ==
  [c \in Calls |-> CASE InCall(c) -> "open"
                     [] phase[c] \in {"raised", "cancelled"} -> "failed"
                     [] OTHER -> phase[c]]
callEffects == [c \in Calls |-> {e \in Execs : execCall[e] = c}]
callResult ==
  [c \in Calls |-> IF phase[c] = "returned" THEN value[c] ELSE NoExec]

Promise == INSTANCE RemoteCalls WITH
  status <- callStatus, effects <- callEffects, result <- callResult

\* The futures and messages implement the promise of RemoteCalls.
KeepsPromise == Promise!Spec
=============================================================================
