-------------------------- MODULE ReceiveLoopProofs -------------------------
(***************************************************************************)
(* Proofs about ReceiveLoop for any number of calls, any nesting and any   *)
(* choice of loops: what awaiting onReceiveMessage costs.                  *)
(***************************************************************************)
EXTENDS ReceiveLoop, SequenceTheorems, WellFoundedInduction, TLAPS

\* The loop of a serial host awaits every handler that is active there.
LoopAwaitsHandler ==
  \A c \in Calls : HandlerHost(c) \in serial /\ Active(c)
                     => busy[HandlerHost(c)] = c

\* Requests travel to the host of their handler.
RequestsAreRouted ==
  \A h \in Hosts : \A i \in 1 .. Len(inbox[h]) :
    inbox[h][i].kind = "request" => HandlerHost(inbox[h][i].call) = h

IInv == /\ TypeOK
        /\ RequestsAreRouted
        /\ LoopAwaitsHandler
        /\ NoAnswerToAwaitedCallback
-----------------------------------------------------------------------------
LEMMA HostsOfCalls ==
  \A c \in Calls : /\ CallerHost(c) \in Hosts
                   /\ HandlerHost(c) \in Hosts
BY DEF CallerHost, HandlerHost, Other, Hosts

\* A callback is made by the host that handles the call it belongs to.
LEMMA CallbackHost ==
  ASSUME NEW c \in Calls
  PROVE  CallerHost(Callback(c)) = HandlerHost(c)
<1>1. c[2] \in Nat
  BY DepthAssumption DEF Calls
<1>2. (c[2] % 2 = 0) <=> ~((c[2] + 1) % 2 = 0)
  BY <1>1
<1> QED
  BY <1>2 DEF CallerHost, HandlerHost, Other, Callback

LEMMA CallbackIsCall ==
  ASSUME NEW c \in Calls, c[2] < Depth
  PROVE  Callback(c) \in Calls
BY DepthAssumption DEF Calls, Callback

\* What a message handed to the transport does to the inboxes.
LEMMA DeliverKeeps ==
  ASSUME TypeOK, RequestsAreRouted, NEW h \in Hosts, NEW m \in Message,
         m.kind = "request" => HandlerHost(m.call) = h, Deliver(h, m)
  PROVE  inbox' \in [Hosts -> Seq(Message)] /\ RequestsAreRouted'
<1> USE DEF TypeOK
<1>1. inbox' \in [Hosts -> Seq(Message)]
  BY AppendProperties DEF Deliver
<1>2. ASSUME NEW g \in Hosts, NEW i \in 1 .. Len(inbox'[g]),
             inbox'[g][i].kind = "request"
      PROVE  HandlerHost(inbox'[g][i].call) = g
  <2>1. CASE g # h
    BY <1>2, <2>1 DEF Deliver, RequestsAreRouted
  <2>2. CASE g = h
    <3>1. inbox[h] \in Seq(Message) /\ inbox'[h] = Append(inbox[h], m)
      BY DEF Deliver
    <3>2. CASE i = Len(inbox[h]) + 1
      BY <1>2, <2>2, <3>1, <3>2, AppendProperties
    <3>3. CASE i \in 1 .. Len(inbox[h])
      BY <1>2, <2>2, <3>1, <3>3, AppendProperties DEF RequestsAreRouted
    <3> QED
      BY <1>2, <2>2, <3>1, <3>2, <3>3, AppendProperties
  <2> QED
    BY <2>1, <2>2
<1> QED
  BY <1>1, <1>2 DEF RequestsAreRouted

\* What reading a message does to them.
LEMMA ReadKeeps ==
  ASSUME TypeOK, RequestsAreRouted, NEW h \in Hosts, inbox[h] # <<>>,
         inbox' = [inbox EXCEPT ![h] = Tail(@)]
  PROVE  /\ inbox' \in [Hosts -> Seq(Message)]
         /\ RequestsAreRouted'
         /\ Head(inbox[h]) \in Message
         /\ Head(inbox[h]).kind = "request"
              => HandlerHost(Head(inbox[h]).call) = h
<1> USE DEF TypeOK
<1>1. inbox[h] \in Seq(Message) /\ inbox'[h] = Tail(inbox[h])
  OBVIOUS
<1>2. /\ Tail(inbox[h]) \in Seq(Message)
      /\ Len(Tail(inbox[h])) = Len(inbox[h]) - 1
      /\ \A i \in 1 .. Len(Tail(inbox[h])) :
           Tail(inbox[h])[i] = inbox[h][i + 1]
      /\ Head(inbox[h]) = inbox[h][1] /\ Head(inbox[h]) \in Message
      /\ Len(inbox[h]) \in Nat /\ Len(inbox[h]) >= 1
  BY <1>1, HeadTailProperties, EmptySeq, LenProperties
<1>3. inbox' \in [Hosts -> Seq(Message)]
  BY <1>2
<1>4. ASSUME NEW g \in Hosts, NEW i \in 1 .. Len(inbox'[g]),
             inbox'[g][i].kind = "request"
      PROVE  HandlerHost(inbox'[g][i].call) = g
  <2>1. CASE g # h
    BY <1>4, <2>1 DEF RequestsAreRouted
  <2>2. CASE g = h
    <3>1. i + 1 \in 1 .. Len(inbox[h]) /\ inbox'[g][i] = inbox[h][i + 1]
      BY <1>1, <1>2, <1>4, <2>2
    <3> QED
      BY <1>4, <2>2, <3>1 DEF RequestsAreRouted
  <2> QED
    BY <2>1, <2>2
<1>5. Head(inbox[h]).kind = "request" => HandlerHost(Head(inbox[h]).call) = h
  <2>1. 1 \in 1 .. Len(inbox[h])
    BY <1>2
  <2> QED
    BY <1>2, <2>1 DEF RequestsAreRouted
<1> QED
  BY <1>2, <1>3, <1>4, <1>5 DEF RequestsAreRouted
-----------------------------------------------------------------------------
(* One step at a time. *)

\* The messages that are made are well formed and go where they belong.
LEMMA MakeCallKeeps ==
  ASSUME TypeOK, RequestsAreRouted, NEW c \in Calls, MakeCall(c)
  PROVE  /\ inbox' \in [Hosts -> Seq(Message)] /\ RequestsAreRouted'
         /\ caller' = [caller EXCEPT ![c] = "waiting"]
<1>1. Request(c) \in Message /\ Request(c).call = c
  BY DEF Request, Message
<1> QED
  BY <1>1, HostsOfCalls, DeliverKeeps DEF MakeCall

LEMMA FinishKeeps ==
  ASSUME TypeOK, RequestsAreRouted, NEW c \in Calls,
         NEW kind \in {"ok", "error"}, Finish(c, kind)
  PROVE  /\ inbox' \in [Hosts -> Seq(Message)] /\ RequestsAreRouted'
         /\ handler' = [handler EXCEPT ![c] = "done"]
         /\ busy' = [busy EXCEPT ![HandlerHost(c)] =
                      IF @ = c THEN Nobody ELSE @]
<1>1. Reply(c, kind) \in Message /\ Reply(c, kind).kind # "request"
  BY DEF Reply, Message
<1> QED
  BY <1>1, HostsOfCalls, DeliverKeeps DEF Finish, Release

\* When a handler ends, its loop and no other is released.
LEMMA FinishStep ==
  ASSUME IInv, NEW c \in Calls, NEW kind \in {"ok", "error"}, Finish(c, kind),
         Active(c), UNCHANGED <<setup, caller>>, spawned' \subseteq Calls
  PROVE  IInv'
<1> USE DEF IInv, TypeOK, setup
<1>1. /\ inbox' \in [Hosts -> Seq(Message)] /\ RequestsAreRouted'
      /\ handler' = [handler EXCEPT ![c] = "done"]
      /\ busy' = [busy EXCEPT ![HandlerHost(c)] = IF @ = c THEN Nobody ELSE @]
  BY FinishKeeps
<1>2. TypeOK'
  BY <1>1, HostsOfCalls DEF HandlerState
<1>3. LoopAwaitsHandler'
  BY <1>1, HostsOfCalls DEF LoopAwaitsHandler, Active
<1>4. NoAnswerToAwaitedCallback'
  BY <1>1 DEF NoAnswerToAwaitedCallback
<1> QED
  BY <1>1, <1>2, <1>3, <1>4

LEMMA ReceiveRequestStep ==
  ASSUME IInv, NEW h \in Hosts, ReceiveRequest(h), UNCHANGED setup
  PROVE  IInv'
<1> USE DEF IInv, TypeOK, setup
<1> DEFINE c == Head(inbox[h]).call
<1>1. /\ inbox' \in [Hosts -> Seq(Message)] /\ RequestsAreRouted'
      /\ c \in Calls /\ HandlerHost(c) = h
  BY ReadKeeps DEF ReceiveRequest, Message
<1>2. /\ busy[h] = Nobody
      /\ handler' = [handler EXCEPT ![c] = "running"]
      /\ busy' = [busy EXCEPT ![h] = IF h \in serial THEN c ELSE @]
      /\ UNCHANGED <<caller, spawned>>
  BY DEF ReceiveRequest, Dispatch
<1> HIDE DEF c
<1>3. TypeOK'
  BY <1>1, <1>2 DEF HandlerState
<1>4. LoopAwaitsHandler'
  BY <1>1, <1>2, HostsOfCalls, NobodyAssumption DEF LoopAwaitsHandler, Active
<1>5. NoAnswerToAwaitedCallback'
  BY <1>1, <1>2 DEF NoAnswerToAwaitedCallback
<1> QED
  BY <1>1, <1>3, <1>4, <1>5

\* A reply is read by a loop that awaits nothing, so by none whose handler
\* awaits that reply.
LEMMA ReceiveReplyStep ==
  ASSUME IInv, NEW h \in Hosts, ReceiveReply(h), UNCHANGED setup
  PROVE  IInv'
<1> USE DEF IInv, TypeOK, setup
<1> DEFINE m == Head(inbox[h])
<1>1. /\ inbox' \in [Hosts -> Seq(Message)] /\ RequestsAreRouted'
      /\ m \in Message
  BY ReadKeeps DEF ReceiveReply
<1>2. /\ busy[h] = Nobody
      /\ m.kind # "request"
      /\ caller' = [caller EXCEPT ![m.call] =
                      IF @ = "waiting" /\ CallerHost(m.call) = h
                      THEN m.kind ELSE @]
      /\ UNCHANGED <<handler, spawned, busy>>
  BY DEF ReceiveReply
<1> HIDE DEF m
<1>3. TypeOK'
  BY <1>1, <1>2 DEF CallerState, Message
<1>4. LoopAwaitsHandler'
  BY <1>2 DEF LoopAwaitsHandler, Active
<1>5. ASSUME NEW c \in Calls, HandlerHost(c) \in serial,
             handler[c] = "awaiting"
      PROVE  caller'[Callback(c)] = caller[Callback(c)]
  <2>1. busy[HandlerHost(c)] = c
    BY <1>5 DEF LoopAwaitsHandler, Active
  <2>2. CallerHost(Callback(c)) # h
    BY <1>2, <1>5, <2>1, CallbackHost, NobodyAssumption
  <2> QED
    BY <1>1, <1>2, <2>2 DEF Message
<1>6. NoAnswerToAwaitedCallback'
  BY <1>2, <1>5 DEF NoAnswerToAwaitedCallback
<1> QED
  BY <1>1, <1>3, <1>4, <1>6

\* A call that is made disturbs no handler, except to make it await.
LEMMA MakeCallStep ==
  ASSUME IInv, NEW c \in Calls, MakeCall(c), spawned' \subseteq Calls,
         UNCHANGED <<setup, busy>>,
         \/ UNCHANGED handler
         \/ \E d \in Calls :
              /\ handler[d] = "running" /\ Callback(d) = c
              /\ handler' = [handler EXCEPT ![d] = "awaiting"]
  PROVE  IInv'
<1> USE DEF IInv, TypeOK, setup
<1>1. /\ inbox' \in [Hosts -> Seq(Message)] /\ RequestsAreRouted'
      /\ caller' = [caller EXCEPT ![c] = "waiting"]
  BY MakeCallKeeps
<1>2. TypeOK'
  BY <1>1 DEF CallerState, HandlerState
<1>3. LoopAwaitsHandler'
  BY DEF LoopAwaitsHandler, Active
<1>4. NoAnswerToAwaitedCallback'
  BY <1>1 DEF NoAnswerToAwaitedCallback
<1> QED
  BY <1>1, <1>2, <1>3, <1>4

LEMMA StepInv == IInv /\ [Next]_vars => IInv'
<1> SUFFICES ASSUME IInv, [Next]_vars PROVE IInv'
  OBVIOUS
<1> USE DEF IInv, TypeOK
<1>1. ASSUME NEW t \in Threads, Start(t), UNCHANGED setup
      PROVE  IInv'
  <2>1. <<t, 0>> \in Calls
    BY DepthAssumption DEF Calls
  <2> QED
    BY <1>1, <2>1, MakeCallStep DEF Start
<1>2. ASSUME NEW c \in Calls, ReturnAtOnce(c), UNCHANGED setup
      PROVE  IInv'
  BY <1>2, FinishStep DEF ReturnAtOnce, Active
<1>3. ASSUME NEW c \in Calls, ReturnAfterSpawn(c), UNCHANGED setup
      PROVE  IInv'
  BY <1>3, FinishStep, CallbackIsCall DEF ReturnAfterSpawn, Active
<1>4. ASSUME NEW c \in Calls, AwaitCallback(c), UNCHANGED setup
      PROVE  IInv'
  BY <1>4, MakeCallStep, CallbackIsCall DEF AwaitCallback
<1>5. ASSUME NEW c \in Calls, Resume(c), UNCHANGED setup
      PROVE  IInv'
  BY <1>5, FinishStep DEF Resume, HandlerOutcome, Active
<1>6. ASSUME NEW c \in Calls, RunSpawned(c), UNCHANGED setup
      PROVE  IInv'
  BY <1>6, MakeCallStep DEF RunSpawned
<1>7. ASSUME NEW c \in Calls, Timeout(c), UNCHANGED setup
      PROVE  IInv'
  <2>1. TypeOK' /\ RequestsAreRouted' /\ LoopAwaitsHandler'
    BY <1>7 DEF Timeout, setup, CallerState, RequestsAreRouted,
                LoopAwaitsHandler, Active
  <2>2. NoAnswerToAwaitedCallback'
    BY <1>7 DEF Timeout, setup, NoAnswerToAwaitedCallback
  <2> QED
    BY <2>1, <2>2
<1>8. CASE UNCHANGED vars
  BY <1>8 DEF vars, setup, flow, RequestsAreRouted, LoopAwaitsHandler,
              Active, NoAnswerToAwaitedCallback
<1> QED
  BY <1>1, <1>2, <1>3, <1>4, <1>5, <1>6, <1>7, <1>8, ReceiveRequestStep,
     ReceiveReplyStep DEF Next, HandlerRuns

LEMMA InitInv == Init => IInv
<1> SUFFICES ASSUME Init PROVE IInv
  OBVIOUS
<1>1. TypeOK
  BY EmptySeq, SetupsAssumption DEF Init, TypeOK, CallerState, HandlerState
<1>2. RequestsAreRouted
  <2>1. \A h \in Hosts : Len(inbox[h]) = 0
    BY EmptySeq DEF Init
  <2> QED
    BY <2>1 DEF RequestsAreRouted
<1>3. LoopAwaitsHandler /\ NoAnswerToAwaitedCallback
  BY DEF Init, LoopAwaitsHandler, Active, NoAnswerToAwaitedCallback
<1> QED
  BY <1>1, <1>2, <1>3 DEF IInv
-----------------------------------------------------------------------------
\* The invariant both theorems below rest on.
THEOREM Inductive == Spec => []IInv
BY InitInv, StepInv, PTL DEF Spec

\* Callers, handlers, spawned callbacks, the messages in the connection and
\* what each loop is busy with are well typed.
THEOREM Typed == Spec => []TypeOK
BY Inductive, PTL DEF IInv

\* An awaiting loop runs the handlers of its connection one after another.
THEOREM HandlersTakeTurns == Spec => []OneHandlerAtATime
<1>1. IInv => OneHandlerAtATime
  BY DEF IInv, LoopAwaitsHandler, OneHandlerAtATime
<1> QED
  BY Inductive, <1>1, PTL

\* Behind an awaiting loop, an awaited callback is never answered.
THEOREM AwaitedCallbacksStarve == Spec => []NoAnswerToAwaitedCallback
BY Inductive, PTL DEF IInv
-----------------------------------------------------------------------------
(* Nobody waits for nobody. *)

In(h, m) == \E i \in 1 .. Len(inbox[h]) : inbox[h][i] = m

\* The request of a call is on its way, or its handler is active, or its
\* reply is on its way back.
Accounted(c) ==
  \/ In(HandlerHost(c), Request(c))
  \/ Active(c)
  \/ In(CallerHost(c), Reply(c, "ok")) \/ In(CallerHost(c), Reply(c, "error"))

\* A loop that is busy awaits a handler of its host.
BusyWithHandler(h) ==
  busy[h] # Nobody =>
    h \in serial /\ Active(busy[h]) /\ HandlerHost(busy[h]) = h

Kept ==
  /\ \A c \in Calls : handler[c] = "awaiting" => c[2] < Depth
  /\ \A h \in Hosts : BusyWithHandler(h)

NoneForgotten == \A c \in Calls : caller[c] = "waiting" => Accounted(c)

\* The guards of the steps the event loops and the sweep take.
CanMove ==
  \/ sweeping
  \/ \E h \in Hosts : busy[h] = Nobody /\ inbox[h] # <<>>
  \/ \E c \in Calls :
       \/ handler[c] = "running"
       \/ handler[c] = "awaiting" /\ caller[Callback(c)] # "waiting"

NobodyIsStuck == (\E c \in Calls : caller[c] = "waiting") => Starved \/ CanMove

\* A message that is handed over is there, and those before it stay.
LEMMA DeliveredIsIn ==
  ASSUME TypeOK, NEW h \in Hosts, NEW m \in Message, Deliver(h, m)
  PROVE  In(h, m)' /\ \A g \in Hosts : \A n : In(g, n) => In(g, n)'
<1>1. /\ inbox[h] \in Seq(Message) /\ inbox'[h] = Append(inbox[h], m)
      /\ \A g \in Hosts : g # h => inbox'[g] = inbox[g]
  BY DEF TypeOK, Deliver
<1>2. /\ Len(inbox[h]) \in Nat /\ Len(inbox'[h]) = Len(inbox[h]) + 1
      /\ \A i \in 1 .. Len(inbox[h]) : inbox'[h][i] = inbox[h][i]
      /\ inbox'[h][Len(inbox[h]) + 1] = m
  BY <1>1, AppendProperties, LenProperties
<1>3. /\ \A i \in 1 .. Len(inbox[h]) : i \in 1 .. Len(inbox'[h])
      /\ Len(inbox[h]) + 1 \in 1 .. Len(inbox'[h])
  BY <1>2
<1> QED
  BY <1>1, <1>2, <1>3 DEF In

\* A loop takes the first message and leaves the others.
LEMMA OthersStay ==
  ASSUME TypeOK, NEW h \in Hosts, inbox[h] # <<>>,
         inbox' = [inbox EXCEPT ![h] = Tail(@)]
  PROVE  \A g \in Hosts : \A n :
           In(g, n) /\ ~(g = h /\ n = Head(inbox[h])) => In(g, n)'
<1>1. /\ inbox[h] \in Seq(Message) /\ inbox'[h] = Tail(inbox[h])
      /\ \A g \in Hosts : g # h => inbox'[g] = inbox[g]
  BY DEF TypeOK
<1>2. /\ Len(inbox[h]) \in Nat
      /\ Len(Tail(inbox[h])) = Len(inbox[h]) - 1
      /\ Head(inbox[h]) = inbox[h][1]
      /\ \A i \in 1 .. Len(Tail(inbox[h])) :
           Tail(inbox[h])[i] = inbox[h][i + 1]
  BY <1>1, HeadTailProperties, EmptySeq, LenProperties
<1>3. ASSUME NEW n, In(h, n), n # Head(inbox[h]) PROVE In(h, n)'
  <2>1. PICK i \in 1 .. Len(inbox[h]) : inbox[h][i] = n
    BY <1>3 DEF In
  <2>2. i # 1
    BY <1>2, <1>3, <2>1
  <2>3. i - 1 \in 1 .. Len(Tail(inbox[h])) /\ (i - 1) + 1 = i
    BY <1>2, <2>2
  <2>4. Tail(inbox[h])[i - 1] = n
    BY <1>2, <2>1, <2>3
  <2> QED
    BY <1>1, <2>3, <2>4 DEF In
<1> QED
  <2> SUFFICES ASSUME NEW g \in Hosts, NEW n, In(g, n),
                      ~(g = h /\ n = Head(inbox[h]))
               PROVE  In(g, n)'
    OBVIOUS
  <2>1. CASE g = h
    BY <1>3, <2>1
  <2>2. CASE g # h
    BY <1>1, <2>2 DEF In
  <2> QED
    BY <2>1, <2>2

\* A call that is made has its request on its way.
LEMMA MadeIsAccounted ==
  ASSUME TypeOK, NoneForgotten, NEW c \in Calls, MakeCall(c),
         \A d \in Calls : Active(d) => Active(d)'
  PROVE  NoneForgotten'
<1>1. /\ In(HandlerHost(c), Request(c))'
      /\ \A g \in Hosts : \A n : In(g, n) => In(g, n)'
  BY HostsOfCalls, DeliveredIsIn DEF MakeCall, Request, Message
<1>2. \A d \in Calls : Accounted(d) => Accounted(d)'
  BY <1>1, HostsOfCalls DEF Accounted
<1>3. \A d \in Calls : d # c => caller'[d] = caller[d]
  BY DEF MakeCall, TypeOK
<1>4. Accounted(c)'
  BY <1>1 DEF Accounted
<1> QED
  BY <1>2, <1>3, <1>4 DEF NoneForgotten

\* One that is finished has its reply on its way.
LEMMA FinishedIsAccounted ==
  ASSUME TypeOK, NoneForgotten, Kept, NEW c \in Calls,
         NEW kind \in {"ok", "error"}, Finish(c, kind),
         UNCHANGED <<setup, caller>>
  PROVE  NoneForgotten' /\ Kept'
<1>1. /\ In(CallerHost(c), Reply(c, kind))'
      /\ \A g \in Hosts : \A n : In(g, n) => In(g, n)'
  BY HostsOfCalls, DeliveredIsIn DEF Finish, Reply, Message
<1>2. /\ handler' = [handler EXCEPT ![c] = "done"]
      /\ busy' = [busy EXCEPT ![HandlerHost(c)] = IF @ = c THEN Nobody ELSE @]
  BY DEF Finish, Release
<1>3. \A d \in Calls : d # c => handler'[d] = handler[d]
  BY <1>2 DEF TypeOK
<1>4. Accounted(c)'
  BY <1>1 DEF Accounted
<1>5. \A d \in Calls : d # c /\ Accounted(d) => Accounted(d)'
  BY <1>1, <1>3, HostsOfCalls DEF Accounted, Active
<1>6. NoneForgotten'
  BY <1>4, <1>5 DEF NoneForgotten
<1>7. \A d \in Calls : handler'[d] = "awaiting" => d[2] < Depth
  BY <1>2 DEF Kept, TypeOK
<1>8. ASSUME NEW h \in Hosts, busy'[h] # Nobody
      PROVE  BusyWithHandler(h)'
  <2>1. busy'[h] = busy[h] /\ busy[h] # Nobody /\ busy[h] \in Calls
    BY <1>2, <1>8 DEF TypeOK
  <2>2. busy[h] # c
    BY <1>2, <1>8, <2>1, NobodyAssumption DEF Kept, BusyWithHandler, TypeOK
  <2> QED
    BY <1>3, <2>1, <2>2 DEF Kept, BusyWithHandler, Active, setup
<1>9. Kept'
  BY <1>7, <1>8 DEF Kept, BusyWithHandler
<1> QED
  BY <1>6, <1>9

LEMMA ReceiveRequestAccounts ==
  ASSUME IInv, NoneForgotten, Kept, NEW h \in Hosts, ReceiveRequest(h),
         UNCHANGED setup
  PROVE  NoneForgotten' /\ Kept'
<1> USE DEF IInv
<1> DEFINE m == Head(inbox[h])
           c == m.call
<1>1. m \in Message /\ m.kind = "request" /\ HandlerHost(c) = h
  BY ReadKeeps DEF ReceiveRequest
<1>2. c \in Calls
  BY <1>1 DEF Message
<1>3. \A g \in Hosts : \A n : In(g, n) /\ n # m => In(g, n)'
  BY OthersStay DEF ReceiveRequest
<1>4. /\ busy[h] = Nobody
      /\ handler' = [handler EXCEPT ![c] = "running"]
      /\ busy' = [busy EXCEPT ![h] = IF h \in serial THEN c ELSE @]
      /\ UNCHANGED <<caller, serial>>
  BY DEF ReceiveRequest, Dispatch, setup
<1>5. \A d \in Calls : Request(d) = m => d = c
  BY DEF Request
<1>6. \A d \in Calls, kind \in {"ok", "error"} : Reply(d, kind) # m
  BY <1>1 DEF Reply
<1> HIDE DEF c, m
<1>7. /\ handler'[c] = "running"
      /\ \A d \in Calls : d # c => handler'[d] = handler[d]
  BY <1>2, <1>4 DEF TypeOK
<1>8. \A d \in Calls : Accounted(d) => Accounted(d)'
  BY <1>3, <1>5, <1>6, <1>7, HostsOfCalls DEF Accounted, Active
<1>9. NoneForgotten'
  BY <1>4, <1>8 DEF NoneForgotten
<1>10. \A d \in Calls : Active(d) => Active(d)'
  BY <1>7 DEF Active
<1>11. ASSUME NEW g \in Hosts, busy'[g] # Nobody
       PROVE  BusyWithHandler(g)'
  <2>1. CASE g = h
    <3>1. g \in serial /\ busy'[g] = c
      BY <1>4, <1>11, <2>1 DEF TypeOK
    <3> QED
      BY <1>1, <1>4, <1>7, <2>1, <3>1 DEF Active, BusyWithHandler
  <2>2. CASE g # h
    <3>1. busy'[g] = busy[g] /\ busy[g] \in Calls
      BY <1>4, <1>11, <2>2 DEF TypeOK
    <3> QED
      BY <1>4, <1>7, <1>11, <3>1 DEF Kept, BusyWithHandler, Active
  <2> QED
    BY <2>1, <2>2
<1>12. \A d \in Calls : handler'[d] = "awaiting" => d[2] < Depth
  BY <1>7 DEF Kept
<1>13. Kept'
  BY <1>11, <1>12 DEF Kept, BusyWithHandler
<1> QED
  BY <1>9, <1>13

LEMMA ReceiveReplyAccounts ==
  ASSUME IInv, NoneForgotten, Kept, NEW h \in Hosts, ReceiveReply(h),
         UNCHANGED setup
  PROVE  NoneForgotten' /\ Kept'
<1> USE DEF IInv
<1> DEFINE m == Head(inbox[h])
<1>1. m \in Message /\ m.kind # "request"
  BY ReadKeeps DEF ReceiveReply
<1>2. \A g \in Hosts : \A n : In(g, n) /\ ~(g = h /\ n = m) => In(g, n)'
  BY OthersStay DEF ReceiveReply
<1>3. /\ caller' = [caller EXCEPT ![m.call] =
                      IF @ = "waiting" /\ CallerHost(m.call) = h
                      THEN m.kind ELSE @]
      /\ UNCHANGED <<handler, busy, serial>>
  BY DEF ReceiveReply, setup
<1>4. Kept'
  BY <1>3 DEF Kept, BusyWithHandler, Active
<1>5. ASSUME NEW d \in Calls, caller'[d] = "waiting" PROVE Accounted(d)'
  <2>1. m.kind # "waiting" /\ m.call \in Calls
    BY <1>1 DEF Message
  <2>2. caller[d] = "waiting" /\ ~(m.call = d /\ CallerHost(d) = h)
    BY <1>3, <1>5, <2>1 DEF TypeOK
  <2>3. \A kind \in {"ok", "error"} :
          ~(CallerHost(d) = h /\ Reply(d, kind) = m)
    BY <2>2 DEF Reply
  <2>4. Request(d) # m
    BY <1>1 DEF Request
  <2> QED
    BY <1>2, <1>3, <2>2, <2>3, <2>4, HostsOfCalls
    DEF NoneForgotten, Accounted, Active
<1> QED
  BY <1>4, <1>5 DEF NoneForgotten

LEMMA StepAccounts ==
  IInv /\ NoneForgotten /\ Kept /\ [Next]_vars => NoneForgotten' /\ Kept'
<1> SUFFICES ASSUME IInv, NoneForgotten, Kept, [Next]_vars
             PROVE  NoneForgotten' /\ Kept'
  OBVIOUS
<1>0. TypeOK
  BY DEF IInv
<1>1. ASSUME NEW t \in Threads, Start(t), UNCHANGED setup
      PROVE  NoneForgotten' /\ Kept'
  <2>1. <<t, 0>> \in Calls
    BY DepthAssumption DEF Calls
  <2> QED
    BY <1>0, <1>1, <2>1, MadeIsAccounted
       DEF Start, Active, Kept, BusyWithHandler, setup
<1>2. ASSUME NEW c \in Calls, ReturnAtOnce(c) \/ ReturnAfterSpawn(c),
             UNCHANGED setup
      PROVE  NoneForgotten' /\ Kept'
  BY <1>0, <1>2, FinishedIsAccounted DEF ReturnAtOnce, ReturnAfterSpawn
<1>3. ASSUME NEW c \in Calls, AwaitCallback(c), UNCHANGED setup
      PROVE  NoneForgotten' /\ Kept'
  <2>1. /\ c[2] < Depth /\ Callback(c) \in Calls /\ MakeCall(Callback(c))
        /\ handler[c] = "running"
        /\ handler' = [handler EXCEPT ![c] = "awaiting"]
        /\ UNCHANGED <<busy, serial>>
    BY <1>3, CallbackIsCall DEF AwaitCallback, setup
  <2>2. /\ handler'[c] = "awaiting"
        /\ \A d \in Calls : d # c => handler'[d] = handler[d]
    BY <1>0, <2>1 DEF TypeOK
  <2>3. \A d \in Calls : Active(d) => Active(d)'
    BY <2>2 DEF Active
  <2>4. \A h \in Hosts : busy[h] # Nobody => busy[h] \in Calls
    BY <1>0 DEF TypeOK
  <2>5. Kept'
    BY <2>1, <2>2, <2>3, <2>4 DEF Kept, BusyWithHandler
  <2> QED
    BY <1>0, <2>1, <2>3, <2>5, MadeIsAccounted
<1>4. ASSUME NEW c \in Calls, Resume(c), UNCHANGED setup
      PROVE  NoneForgotten' /\ Kept'
  BY <1>0, <1>4, FinishedIsAccounted DEF Resume, HandlerOutcome
<1>5. ASSUME NEW c \in Calls, RunSpawned(c), UNCHANGED setup
      PROVE  NoneForgotten' /\ Kept'
  BY <1>0, <1>5, MadeIsAccounted
     DEF RunSpawned, Active, Kept, BusyWithHandler, setup
<1>6. ASSUME NEW c \in Calls, Timeout(c), UNCHANGED setup
      PROVE  NoneForgotten' /\ Kept'
  BY <1>0, <1>6
  DEF Timeout, NoneForgotten, Accounted, In, Active, Kept, BusyWithHandler,
      setup, TypeOK
<1>7. CASE UNCHANGED vars
  BY <1>7
  DEF vars, setup, flow, NoneForgotten, Accounted, In, Active, Kept,
      BusyWithHandler
<1> QED
  BY <1>1, <1>2, <1>3, <1>4, <1>5, <1>6, <1>7, ReceiveRequestAccounts,
     ReceiveReplyAccounts DEF Next, HandlerRuns

\* A set of natural numbers has a least element.
LEMMA Least ==
  ASSUME NEW T \in SUBSET Nat, T # {}
  PROVE  \E n \in T : \A k \in T : n <= k
<1>1. PICK n \in T : \A k \in T : <<k, n>> \notin OpToRel(<, Nat)
  BY NatLessThanWellFounded, WFMin, Zenon
<1>2. \A k \in T : ~(k < n)
  BY <1>1 DEF OpToRel
<1>3. n \in Nat /\ \A k \in T : k \in Nat
  OBVIOUS
<1>4. \A k \in T : n <= k
  BY <1>2, <1>3
<1> QED
  BY <1>4

\* Of the calls that wait one is deepest.
LEMMA DeepestWaiting ==
  ASSUME NEW c \in Calls, caller[c] = "waiting"
  PROVE  \E d \in Calls :
           /\ caller[d] = "waiting"
           /\ \A e \in Calls : caller[e] = "waiting" => e[2] <= d[2]
<1> DEFINE left == {n \in Nat : \E d \in Calls : caller[d] = "waiting"
                                                 /\ n = Depth - d[2]}
<1>1. \A d \in Calls : d[2] \in 0 .. Depth /\ Depth - d[2] \in Nat
  BY DepthAssumption DEF Calls
<1>2. Depth - c[2] \in left
  BY <1>1
<1>3. PICK n \in left : \A k \in left : n <= k
  BY <1>2, Least
<1>4. PICK d \in Calls : caller[d] = "waiting" /\ n = Depth - d[2]
  BY <1>3
<1>5. \A e \in Calls : caller[e] = "waiting" => Depth - d[2] <= Depth - e[2]
  BY <1>1, <1>3, <1>4
<1> QED
  BY <1>1, <1>4, <1>5, DepthAssumption

\* A loop with a message reads it, unless it is busy with a handler.
LEMMA LoopIsNotStuck ==
  ASSUME Kept, TypeOK, NEW h \in Hosts, NEW m, In(h, m)
  PROVE  Starved \/ CanMove
<1>1. inbox[h] # <<>>
  BY EmptySeq DEF In
<1>2. CASE busy[h] # Nobody
  <2>1. busy[h] \in Calls /\ h \in serial /\ HandlerHost(busy[h]) = h
        /\ handler[busy[h]] \in {"running", "awaiting"}
    BY <1>2 DEF Kept, BusyWithHandler, Active, TypeOK
  <2> QED
    BY <2>1 DEF CanMove, Starved
<1> QED
  BY <1>1, <1>2 DEF CanMove

\* No call waits for nothing.
THEOREM LoopsAloneStarve == Spec => []NobodyIsStuck
<1>1. Init => NoneForgotten /\ Kept
  BY NobodyAssumption DEF Init, NoneForgotten, Kept, BusyWithHandler
<1>2. Spec => [](NoneForgotten /\ Kept)
  BY <1>1, Inductive, StepAccounts, PTL DEF Spec
<1>3. IInv /\ NoneForgotten /\ Kept => NobodyIsStuck
  <2> SUFFICES ASSUME IInv, NoneForgotten, Kept,
                      NEW a \in Calls, caller[a] = "waiting"
               PROVE  Starved \/ CanMove
    BY DEF NobodyIsStuck
  <2>1. PICK c \in Calls :
          /\ caller[c] = "waiting"
          /\ \A e \in Calls : caller[e] = "waiting" => e[2] <= c[2]
    BY DeepestWaiting
  <2>2. Accounted(c) /\ TypeOK
    BY <2>1 DEF NoneForgotten, IInv
  <2>3. CASE handler[c] = "running"
    BY <2>3 DEF CanMove
  <2>4. CASE handler[c] = "awaiting"
    <3>1. Callback(c) \in Calls
      BY <2>4, CallbackIsCall DEF Kept
    <3>2. Callback(c)[2] > c[2] /\ c[2] \in Nat
      BY DepthAssumption DEF Calls, Callback
    <3>3. caller[Callback(c)] # "waiting"
      BY <2>1, <3>1, <3>2, DepthAssumption DEF Calls
    <3> QED
      BY <2>4, <3>3 DEF CanMove
  <2> QED
    BY <2>2, <2>3, <2>4, LoopIsNotStuck, HostsOfCalls DEF Accounted, Active
<1> QED
  BY <1>2, <1>3, Inductive, PTL
=============================================================================
