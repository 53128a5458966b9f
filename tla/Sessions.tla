------------------------------ MODULE Sessions ------------------------------
(***************************************************************************)
(* Clients that lose their connection to a TCP or WebSocket server and     *)
(* come back, and the sessions by which the server sends a reply to the    *)
(* connection its client has now: createServer, createMain, send and       *)
(* _listen of xuri_rpc_tcp/tcp_sender.py and of                            *)
(* xuri_rpc_websocket/websocket_sender.py.  All connections of a server    *)
(* share one map of sessions, getSessionData().  How the tasks of a client *)
(* agree on who reconnects is left to TcpConnection, timeouts to RpcCalls, *)
(* and so are replies that cannot be decoded.                              *)
(***************************************************************************)
EXTENDS Naturals, Sequences

CONSTANTS
  Clients,     \* programs that called createMain
  Calls,       \* the calls they make, numbered as _getId does
  None,        \* no session, no call, no client
  MaxBreaks,   \* bounds how often connections break
  Transports   \* of the server: "ws" or "tcp"

\* the n-th connection of a client; a session has the name of the one that
\* was given it as a new uuid
Conns == Clients \X (1 .. MaxBreaks + 1)

ASSUME NoneAssumption == None \notin Clients \cup Calls \cup Conns
ASSUME CallsAssumption == Calls \subseteq Nat
ASSUME BreaksAssumption == MaxBreaks \in Nat
ASSUME TransportsAssumption == Transports \subseteq {"ws", "tcp"}

VARIABLES
  transport,  \* the server's
  made,       \* connections each client has made; sender.ws is the last
  connected,  \* clients whose last connection is open
  reading,    \* the number of the connection _listen reads
  gone,       \* clients whose _listen gave up
  knows,      \* sender.session_id of each client
  up, down,   \* messages on each connection, to the server and back
  session,    \* session_id of each connection in the server
  route,      \* getSessionData(): from sessions to connections
  serving,    \* the call whose handler each server loop awaits
  caller,     \* the client that made each call
  stamp,      \* the session id `send` puts into its request
  status,     \* where each call is
  handled,    \* how often the handler of each call was started
  lost,       \* calls whose request or reply was lost
  breaks      \* breaks so far

clientVars == <<made, reading, gone, knows>>
serverVars == <<session, route, serving, handled>>
callVars == <<caller, stamp, status>>
netVars == <<connected, up, down, lost, breaks>>
flow == <<clientVars, serverVars, callVars, netVars>>
vars == <<transport, flow>>

Message == [call : Calls, session : Conns \cup {None}]

Last(k) == <<k, made[k]>>
Open(c) == c[1] \in connected /\ c = Last(c[1])
Listened(k) == <<k, reading[k]>>

\* createMain has connected, and for some clients it has returned: the reply
\* to its getMain told them their session.  A TCP server makes up a session
\* for each connection, and at once.
Init ==
  /\ transport \in Transports
  /\ made = [k \in Clients |-> 1]
  /\ connected = Clients
  /\ reading = [k \in Clients |-> 1]
  /\ gone = {}
  /\ \E ready \in SUBSET Clients :
       /\ knows = [k \in Clients |-> IF k \in ready THEN <<k, 1>> ELSE None]
       /\ session = [c \in Conns |->
            IF c[2] = 1 /\ (c[1] \in ready \/ transport = "tcp") THEN c
            ELSE None]
  /\ route = session
  /\ up = [c \in Conns |-> <<>>] /\ down = [c \in Conns |-> <<>>]
  /\ serving = [c \in Conns |-> None]
  /\ caller = [q \in Calls |-> None]
  /\ stamp = [q \in Calls |-> None]
  /\ status = [q \in Calls |-> "idle"]
  /\ handled = [q \in Calls |-> 0]
  /\ lost = {} /\ breaks = 0
-----------------------------------------------------------------------------
(* Helpers, each preceded by the slips in it that the runs must notice. *)

OneForAll(c, m) == CHOOSE d \in Conns : d[2] = 1

\* setSessiont: the id the client sent, or a new uuid
SessionFor(c, m) == IF m.session = None THEN c ELSE m.session

OwnConnection(c) == c

\* the connection a reply goes to: `lambda: getSessionData()[session_id]`,
\* evaluated when the handler has ended
ReplyTo(c) == route[session[c]]

OldestCall(k, m) ==
  LET mine == {q \in Calls : caller[q] = k /\ status[q] = "waiting"}
  IN  IF mine = {} THEN m.call
      ELSE CHOOSE q \in mine : \A p \in mine : q <= p

\* the call a reply settles: messageRecv['idFor']
Settled(k, m) == m.call

\* conn_sender.session_id and the entry of getSessionData()
Register(c, s) ==
  /\ session' = [session EXCEPT ![c] = s]
  /\ route' = [route EXCEPT ![s] = c]

\* what had arrived when the connection broke
Arrived(s, n) == SubSeq(s, 1, n)

\* the calls whose messages had not
Missing(s, n) == {s[i].call : i \in n + 1 .. Len(s)}
-----------------------------------------------------------------------------
(* The clients. *)

\* waitForRequest and `send`, which reads session_id before it awaits
\* ensure_connected.
Call(k, q) ==
  /\ status[q] = "idle" /\ \A p \in Calls : p < q => status[p] # "idle"
  /\ status' = [status EXCEPT ![q] = "sending"]
  /\ caller' = [caller EXCEPT ![q] = k]
  /\ stamp' = [stamp EXCEPT ![q] = knows[k]]
  /\ UNCHANGED <<clientVars, serverVars, netVars>>

\* "it reconnects and retries" (createMain), which is not what `send` does
Retries(q) ==
  /\ status[q] = "sending" /\ caller[q] \in connected
  /\ up' = [up EXCEPT ![Last(caller[q])] =
              Append(@, [call |-> q, session |-> stamp[q]])]
  /\ \/ /\ status' = [status EXCEPT ![q] = "waiting"]
        /\ UNCHANGED <<connected, breaks>>
     \/ /\ breaks < MaxBreaks
        /\ breaks' = breaks + 1
        /\ connected' = connected \ {caller[q]}
        /\ UNCHANGED status
  /\ UNCHANGED <<clientVars, serverVars, caller, stamp, down, lost>>

\* The request is written, or `send` raises; but one that is written before
\* the client noticed that the connection is broken goes nowhere.
Send(q) ==
  /\ status[q] = "sending"
  /\ \/ /\ caller[q] \in connected
        /\ up' = [up EXCEPT ![Last(caller[q])] =
                    Append(@, [call |-> q, session |-> stamp[q]])]
        /\ status' = [status EXCEPT ![q] = "waiting"]
        /\ UNCHANGED lost
     \/ /\ caller[q] \notin connected
        /\ status' = [status EXCEPT ![q] = "waiting"]
        /\ lost' = lost \cup {q}
        /\ UNCHANGED up
     \/ /\ caller[q] \notin connected
        /\ status' = [status EXCEPT ![q] = "failed"]
        /\ UNCHANGED <<up, lost>>
  /\ UNCHANGED <<clientVars, serverVars, caller, stamp, connected, down,
                 breaks>>

\* `await writer.drain()` or `await self.ws.send()` raises, as the connection
\* broke after the write: the call fails, whatever becomes of its request.
\* (A call waits from its write on, so one whose `send` has returned may fail
\* here too: a sweep can do that to it.)
SendRaises(q) ==
  /\ status[q] = "waiting" /\ caller[q] \notin connected
  /\ status' = [status EXCEPT ![q] = "failed"]
  /\ UNCHANGED <<clientVars, serverVars, caller, stamp, netVars>>

\* _listen takes over the session id of a message, then hands it to
\* onReceiveMessage, which drops the reply to a call that has failed.
Receive(k) ==
  LET c == Listened(k) IN
  /\ k \notin gone
  /\ down[c] # <<>>
  /\ down' = [down EXCEPT ![c] = Tail(@)]
  /\ LET m == Head(down[c]) IN
       /\ knows' = [knows EXCEPT ![k] = m.session]
       /\ status' = [status EXCEPT ![Settled(k, m)] =
                        IF @ = "waiting" THEN "returned" ELSE @]
  /\ UNCHANGED <<made, reading, gone, serverVars, caller, stamp, connected, up,
                 lost, breaks>>

\* _listen has read all of a connection that is closed.
AtEnd(k) == k \notin gone /\ ~Open(Listened(k)) /\ down[Listened(k)] = <<>>

KeepsReading(k) ==
  /\ AtEnd(k) /\ k \in connected
  /\ UNCHANGED <<clientVars, serverVars, callVars, netVars>>

\* ensure_connected returned: `async for raw in sender.ws` on the new one.
\* What came on a connection that was made and broke while the loop was busy
\* (with a request of the server, say) is never read.
ReadOn(k) ==
  /\ AtEnd(k) /\ k \in connected
  /\ reading' = [reading EXCEPT ![k] = made[k]]
  /\ lost' = lost \cup UNION {Missing(down[<<k, n>>], 0) :
                                 n \in reading[k] + 1 .. made[k] - 1}
  /\ UNCHANGED <<made, gone, knows, serverVars, callVars, connected, up, down,
                 breaks>>

DialsAnyway(k) ==
  /\ made' = [made EXCEPT ![k] = @ + 1]
  /\ UNCHANGED <<reading, gone, knows, serverVars, callVars, netVars>>

\* ensure_connected, called by _listen or by a `send`.  The TCP server
\* registers the connection as soon as it is made.
Reconnect(k) ==
  LET c == <<k, made[k] + 1>> IN
  /\ k \notin connected
  /\ AtEnd(k) \/ \E q \in Calls : caller[q] = k /\ status[q] = "sending"
  /\ made' = [made EXCEPT ![k] = @ + 1]
  /\ connected' = connected \cup {k}
  /\ IF transport = "tcp"
     THEN Register(c, c)
     ELSE UNCHANGED <<session, route>>
  /\ UNCHANGED <<reading, gone, knows, serving, handled, callVars, up, down,
                 lost, breaks>>

\* _listen is told that max_retries is reached and returns.
GiveUp(k) ==
  /\ AtEnd(k) /\ k \notin connected
  /\ gone' = gone \cup {k}
  /\ UNCHANGED <<made, reading, knows, serverVars, callVars, netVars>>
-----------------------------------------------------------------------------
(* The server and the network. *)

\* The loop of a connection reads a message and starts its handler, which it
\* awaits.  The first message says whose session the connection is.
Handle(c) ==
  /\ serving[c] = None
  /\ up[c] # <<>>
  /\ up' = [up EXCEPT ![c] = Tail(@)]
  /\ LET m == Head(up[c]) IN
       /\ serving' = [serving EXCEPT ![c] = m.call]
       /\ handled' = [handled EXCEPT ![m.call] = @ + 1]
       /\ IF session[c] = None
          THEN Register(c, SessionFor(c, m))
          ELSE UNCHANGED <<session, route>>
  /\ UNCHANGED <<clientVars, callVars, connected, down, lost, breaks>>

\* The handler ends.  Its reply is sent by a task nobody awaits: if the
\* connection it goes to is closed it is lost, and nothing reconnects it.
Reply(c) ==
  LET q == serving[c]
      d == ReplyTo(c)
  IN
  /\ q # None
  /\ serving' = [serving EXCEPT ![c] = None]
  /\ IF Open(d)
     THEN /\ down' = [down EXCEPT ![d] =
                        Append(@, [call |-> q, session |-> session[d]])]
          /\ UNCHANGED lost
     ELSE lost' = lost \cup {q} /\ UNCHANGED down
  /\ UNCHANGED <<clientVars, session, route, handled, callVars, connected, up,
                 breaks>>

\* What has not arrived is lost; what has is still read.
Break(k) ==
  LET c == Last(k) IN
  /\ k \in connected /\ breaks < MaxBreaks
  /\ connected' = connected \ {k} /\ breaks' = breaks + 1
  /\ \E i \in 0 .. Len(up[c]), j \in 0 .. Len(down[c]) :
       /\ up' = [up EXCEPT ![c] = Arrived(@, i)]
       /\ down' = [down EXCEPT ![c] = Arrived(@, j)]
       /\ lost' = lost \cup Missing(up[c], i) \cup Missing(down[c], j)
  /\ UNCHANGED <<clientVars, serverVars, callVars>>
-----------------------------------------------------------------------------
Next ==
  /\ UNCHANGED transport
  /\ \/ \E k \in Clients :
          \/ Receive(k) \/ ReadOn(k) \/ Reconnect(k) \/ GiveUp(k) \/ Break(k)
          \/ \E q \in Calls : Call(k, q)
     \/ \E q \in Calls : Send(q) \/ SendRaises(q)
     \/ \E c \in Conns : Handle(c) \/ Reply(c)

Spec == Init /\ [][Next]_vars

\* Tasks that can run do, a server can be reached again in the end, and
\* handlers end.
Fairness ==
  /\ \A q \in Calls : WF_flow(Send(q))
  /\ \A k \in Clients :
       WF_flow(Receive(k)) /\ WF_flow(ReadOn(k)) /\ WF_flow(Reconnect(k))
  /\ \A c \in Conns : WF_flow(Handle(c)) /\ WF_flow(Reply(c))

FairSpec == Spec /\ Fairness
-----------------------------------------------------------------------------
TypeOK ==
  /\ transport \in {"ws", "tcp"}
  /\ made \in [Clients -> 1 .. MaxBreaks + 1]
  /\ connected \subseteq Clients /\ gone \subseteq Clients
  /\ reading \in [Clients -> 1 .. MaxBreaks + 1]
  /\ knows \in [Clients -> Conns \cup {None}]
  /\ up \in [Conns -> Seq(Message)] /\ down \in [Conns -> Seq(Message)]
  /\ session \in [Conns -> Conns \cup {None}]
  /\ route \in [Conns -> Conns \cup {None}]
  /\ serving \in [Conns -> Calls \cup {None}]
  /\ caller \in [Calls -> Clients \cup {None}]
  /\ stamp \in [Calls -> Conns \cup {None}]
  /\ status \in
       [Calls -> {"idle", "sending", "waiting", "returned", "failed"}]
  /\ handled \in [Calls -> Nat] /\ lost \subseteq Calls
  /\ breaks \in 0 .. MaxBreaks

\* A session never passes from one client to another: its entry in the map
\* the connections share leads to a connection of the client it was made up
\* for, and what travels to a client answers a call of its own.  So what
\* happens to the connections of others is no reason for a call to be lost:
\* that takes a break of a connection of its own client.
SessionsAreSeparate ==
  /\ \A s \in Conns : route[s] # None => route[s][1] = s[1]
  /\ \A c \in Conns : \A i \in 1 .. Len(down[c]) :
       caller[down[c][i].call] = c[1]
  /\ \A q \in lost : caller[q] \in connected => made[caller[q]] > 1

\* No request is handled twice, however often its client reconnects: a
\* `send` that fails is not repeated.  (createMain says that it is.)
AtMostOnce == \A q \in Calls : handled[q] <= 1

\* The client has come back and said so, and no late first message of an
\* older connection has taken the session away from it.
Back(k) ==
  /\ k \in connected
  /\ session[Last(k)] # None /\ route[session[Last(k)]] = Last(k)

\* its handler runs in the session its client has now
InSession(q) ==
  \E c \in Conns :
    serving[c] = q /\ session[c] = session[Last(caller[q])]

\* Replies follow their client to the connection it has now: a call whose
\* handler runs, perhaps for an earlier connection of its session, is
\* answered while the client is back, and as long as it is.
RepliesFollow ==
  \A q \in Calls :
    status[q] = "waiting" /\ InSession(q) /\ Back(caller[q])
      ~> \/ status[q] # "waiting"
         \/ ~Back(caller[q]) \/ caller[q] \in gone

\* A call ends unless a message of it was lost or, as max_retries was
\* reached, nobody listens any more: sends still reconnect then.
Answered ==
  \A q \in Calls :
    status[q] \in {"sending", "waiting"}
      ~> \/ status[q] \in {"returned", "failed"}
         \/ q \in lost \/ caller[q] \in gone
-----------------------------------------------------------------------------
(* What the caller was promised: a call runs once, breaks or not. *)

callStatus ==
  [q \in Calls |-> IF status[q] \in {"sending", "waiting"} THEN "open"
                   ELSE status[q]]
callEffects == [q \in Calls |-> IF handled[q] > 0 THEN {q} ELSE {}]
callResult ==
  [q \in Calls |-> IF status[q] = "returned" THEN q ELSE None]

Promise == INSTANCE RemoteCalls WITH
  Execs <- Calls, NoExec <- None,
  status <- callStatus, effects <- callEffects, result <- callResult

\* A call returns after it was handled, on whatever connection the reply
\* comes, and ends once.
KeepsPromise == Promise!Spec
=============================================================================
