--------------------------- MODULE SessionsProofs ---------------------------
(***************************************************************************)
(* Proofs about Sessions for any clients, calls, breaks and transports.    *)
(***************************************************************************)
EXTENDS Sessions, SequenceTheorems, TLAPS

\* Every connection but the first replaces one that broke.
Budget ==
  \A k \in Clients :
    made[k] + (IF k \in connected THEN 0 ELSE 1) <= breaks + 1

\* A session id, if it is one, belongs to a client.
Own(s, k) == s = None \/ s[1] = k

\* What the programs know of sessions.
SessionsInStep ==
  /\ \A c \in Conns : Own(session[c], c[1])
  /\ \A c \in Conns : session[c] # None => route[session[c]] # None
  /\ \A c \in Conns : serving[c] # None => session[c] # None
  /\ \A s \in Conns :
       route[s] # None => route[s][1] = s[1] /\ route[s][2] <= made[s[1]]
  /\ \A k \in Clients : Own(knows[k], k)

\* Whose calls are where.
Callers ==
  \A q \in Calls :
    /\ status[q] = "idle" <=> caller[q] = None
    /\ status[q] = "idle" => q \notin lost
    /\ Own(stamp[q], caller[q])

ServesOwn == \A c \in Conns : serving[c] # None => caller[serving[c]] = c[1]

UpOwn ==
  \A c \in Conns : \A i \in 1 .. Len(up[c]) :
    /\ caller[up[c][i].call] = c[1] /\ c[2] <= made[c[1]]
    /\ Own(up[c][i].session, c[1])

DownOwn ==
  \A c \in Conns : \A i \in 1 .. Len(down[c]) :
    /\ caller[down[c][i].call] = c[1]
    /\ Own(down[c][i].session, c[1])

LostOwn == \A q \in lost : caller[q] \in connected => made[caller[q]] > 1

CallsInStep == Callers /\ ServesOwn /\ UpOwn /\ DownOwn /\ LostOwn

\* How far calls have come: a request in transit has no handling, what a
\* server works on or has answered has one.
WasSent(q) == status[q] \notin {"idle", "sending"}

Handled(q) == WasSent(q) /\ handled[q] > 0

UpUnhandled ==
  \A c \in Conns : \A i \in 1 .. Len(up[c]) :
    WasSent(up[c][i].call) /\ handled[up[c][i].call] = 0

ServesHandled == \A c \in Conns : serving[c] # None => Handled(serving[c])

DownHandled ==
  \A c \in Conns : \A i \in 1 .. Len(down[c]) : Handled(down[c][i].call)

RestUnhandled == \A q \in Calls : ~WasSent(q) => handled[q] = 0

Progress == UpUnhandled /\ ServesHandled /\ DownHandled /\ RestUnhandled

\* A request is in transit once.
Once ==
  \A c, d \in Conns : \A i \in 1 .. Len(up[c]), j \in 1 .. Len(up[d]) :
    up[c][i].call = up[d][j].call => c = d /\ i = j

IInv ==
  TypeOK /\ Budget /\ SessionsInStep /\ CallsInStep /\ Progress /\ Once
  /\ AtMostOnce
-----------------------------------------------------------------------------
(* Messages and connections.                                               *)

\* What is left when the first message is taken.
LEMMA Taken ==
  ASSUME NEW s \in Seq(Message), s # <<>>
  PROVE  /\ Len(s) \in Nat /\ 1 \in 1 .. Len(s)
         /\ Head(s) = s[1] /\ Head(s) \in Message
         /\ Tail(s) \in Seq(Message)
         /\ Len(Tail(s)) = Len(s) - 1
         /\ \A i \in 1 .. Len(Tail(s)) :
              i + 1 \in 1 .. Len(s) /\ Tail(s)[i] = s[i + 1]
BY HeadTailProperties, EmptySeq, LenProperties

\* What has arrived is a beginning of what was sent.
LEMMA ArrivedIsPrefix ==
  ASSUME NEW s \in Seq(Message), NEW n \in 0 .. Len(s)
  PROVE  /\ Arrived(s, n) \in Seq(Message)
         /\ Len(Arrived(s, n)) = n
         /\ \A i \in 1 .. n : i \in 1 .. Len(s) /\ Arrived(s, n)[i] = s[i]
<1>1. Len(s) \in Nat /\ n \in Int /\ 1 \in Int
  BY LenProperties
<1>2. \A i \in 1 .. n : s[i] \in Message
  BY <1>1, ElementOfSeq
<1> QED
  BY <1>1, <1>2, SubSeqProperties DEF Arrived

\* The calls of what has not arrived are calls of what was sent.
LEMMA MissingWasSent ==
  ASSUME NEW s \in Seq(Message), NEW n \in 0 .. Len(s), NEW q \in Missing(s, n)
  PROVE  q \in Calls /\ \E i \in 1 .. Len(s) : q = s[i].call
<1>1. Len(s) \in Nat
  BY LenProperties
<1>2. PICK i \in n + 1 .. Len(s) : q = s[i].call
  BY DEF Missing
<1>3. i \in 1 .. Len(s)
  BY <1>1, <1>2
<1>4. s[i] \in Message
  BY <1>3, ElementOfSeq
<1> QED
  BY <1>2, <1>3, <1>4 DEF Message

LEMMA ConnsAreNumbered ==
  ASSUME NEW c \in Conns
  PROVE  /\ c[1] \in Clients /\ c[2] \in 1 .. MaxBreaks + 1
         /\ c = <<c[1], c[2]>> /\ c # None
BY NoneAssumption DEF Conns
-----------------------------------------------------------------------------
(* Types.                                                                  *)

LEMMA InitTyped == Init => TypeOK /\ Budget
<1> SUFFICES ASSUME Init PROVE TypeOK /\ Budget
  OBVIOUS
<1>1. 1 \in 1 .. MaxBreaks + 1 /\ 0 \in 0 .. MaxBreaks
  BY BreaksAssumption
<1>2. \A c \in Clients \X {1} : c \in Conns
  BY <1>1 DEF Conns
<1>3. PICK ready \in SUBSET Clients :
        /\ knows = [k \in Clients |-> IF k \in ready THEN <<k, 1>> ELSE None]
        /\ session = [c \in Conns |->
             IF c[2] = 1 /\ (c[1] \in ready \/ transport = "tcp") THEN c
             ELSE None]
  BY DEF Init
<1>4. knows \in [Clients -> Conns \cup {None}]
  BY <1>2, <1>3
<1>5. session \in [Conns -> Conns \cup {None}]
  BY <1>3
<1>6. <<>> \in Seq(Message)
  BY EmptySeq
<1>7. transport \in {"ws", "tcp"}
  BY TransportsAssumption DEF Init
<1> QED
  BY <1>1, <1>4, <1>5, <1>6, <1>7 DEF Init, TypeOK, Budget

LEMMA StepTyped ==
  ASSUME TypeOK, Budget, SessionsInStep, [Next]_vars
  PROVE  TypeOK' /\ Budget'
<1> USE BreaksAssumption
<1>1. ASSUME NEW k \in Clients, NEW q \in Calls, Call(k, q),
             UNCHANGED transport
      PROVE  TypeOK' /\ Budget'
  BY <1>1 DEF Call, TypeOK, Budget, clientVars, serverVars, netVars
<1>2. ASSUME NEW q \in Calls, Send(q), UNCHANGED transport
      PROVE  TypeOK' /\ Budget'
  <2> DEFINE m == [call |-> q, session |-> stamp[q]]
             c == Last(caller[q])
  <2>1. m \in Message
    BY DEF TypeOK, Message
  <2>2. ASSUME caller[q] \in connected PROVE c \in Conns
    BY <2>2 DEF TypeOK, Last, Conns
  <2> HIDE DEF m
  <2>3. ASSUME caller[q] \in connected
        PROVE  Append(up[c], m) \in Seq(Message)
    BY <2>1, <2>2, <2>3, AppendProperties DEF TypeOK
  <2>4. up' \in [Conns -> Seq(Message)]
    <3>1. CASE up' = [up EXCEPT ![c] = Append(@, m)] /\ caller[q] \in connected
      BY <2>2, <2>3, <3>1 DEF TypeOK
    <3>2. CASE UNCHANGED up
      BY <3>2 DEF TypeOK
    <3> QED
      BY <1>2, <3>1, <3>2 DEF Send, m
  <2> QED
    BY <1>2, <2>4 DEF Send, TypeOK, Budget, clientVars, serverVars
<1>3. ASSUME NEW k \in Clients, Receive(k), UNCHANGED transport
      PROVE  TypeOK' /\ Budget'
  <2> DEFINE c == Listened(k)
             m == Head(down[c])
  <2>1. c \in Conns
    BY DEF TypeOK, Listened, Conns
  <2>2. down[c] \in Seq(Message) /\ down[c] # <<>>
    BY <1>3, <2>1 DEF TypeOK, Receive
  <2>3. m \in Message /\ Tail(down[c]) \in Seq(Message)
    BY <2>2, Taken
  <2>4. m.call \in Calls /\ m.session \in Conns \cup {None}
    BY <2>3 DEF Message
  <2>5. /\ down' = [down EXCEPT ![c] = Tail(@)]
        /\ knows' = [knows EXCEPT ![k] = m.session]
        /\ status' = [status EXCEPT ![m.call] =
                         IF @ = "waiting" THEN "returned" ELSE @]
    BY <1>3 DEF Receive, Settled
  <2> HIDE DEF c, m
  <2>6. /\ down' \in [Conns -> Seq(Message)]
        /\ knows' \in [Clients -> Conns \cup {None}]
        /\ status' \in
             [Calls -> {"idle", "sending", "waiting", "returned", "failed"}]
    BY <2>1, <2>3, <2>4, <2>5 DEF TypeOK
  <2> QED
    BY <1>3, <2>6 DEF Receive, TypeOK, Budget, serverVars
<1>4. ASSUME NEW k \in Clients, ReadOn(k), UNCHANGED transport
      PROVE  TypeOK' /\ Budget'
  <2>1. reading' \in [Clients -> 1 .. MaxBreaks + 1]
    BY <1>4 DEF ReadOn, TypeOK
  <2>2. ASSUME NEW n \in reading[k] + 1 .. made[k] - 1
        PROVE  Missing(down[<<k, n>>], 0) \subseteq Calls
    <3>1. reading[k] \in 1 .. MaxBreaks + 1 /\ made[k] \in 1 .. MaxBreaks + 1
      BY DEF TypeOK
    <3>2. <<k, n>> \in Conns
      BY <2>2, <3>1 DEF Conns
    <3>3. down[<<k, n>>] \in Seq(Message)
      BY <3>2 DEF TypeOK
    <3>4. 0 \in 0 .. Len(down[<<k, n>>])
      BY <3>3, LenProperties
    <3> QED
      BY <3>3, <3>4, MissingWasSent
  <2>3. lost' \subseteq Calls
    <3>1. lost \subseteq Calls
      BY DEF TypeOK
    <3> SUFFICES ASSUME NEW q \in lost', q \notin lost PROVE q \in Calls
      BY <3>1
    <3>2. PICK n \in reading[k] + 1 .. made[k] - 1 :
            q \in Missing(down[<<k, n>>], 0)
      BY <1>4 DEF ReadOn
    <3> QED
      BY <2>2, <3>2
  <2> QED
    BY <1>4, <2>1, <2>3
       DEF ReadOn, TypeOK, Budget, serverVars, callVars
<1>5. ASSUME NEW k \in Clients, Reconnect(k), UNCHANGED transport
      PROVE  TypeOK' /\ Budget'
  <2> DEFINE c == <<k, made[k] + 1>>
  <2>1. k \notin connected /\ made' = [made EXCEPT ![k] = @ + 1]
        /\ connected' = connected \cup {k} /\ UNCHANGED breaks
    BY <1>5 DEF Reconnect
  <2>2. made[k] + 1 <= breaks + 1 /\ breaks \in 0 .. MaxBreaks
        /\ made[k] \in 1 .. MaxBreaks + 1
    BY <2>1 DEF Budget, TypeOK
  <2>3. made[k] + 1 \in 1 .. MaxBreaks + 1
    BY <2>2
  <2>4. c \in Conns
    BY <2>3 DEF Conns
  <2>5. made' \in [Clients -> 1 .. MaxBreaks + 1]
    BY <2>1, <2>3 DEF TypeOK
  <2>6. /\ session' \in [Conns -> Conns \cup {None}]
        /\ route' \in [Conns -> Conns \cup {None}]
    BY <1>5, <2>4 DEF Reconnect, Register, TypeOK
  <2>7. Budget'
    <3> SUFFICES ASSUME NEW j \in Clients
                 PROVE  made'[j] + (IF j \in connected' THEN 0 ELSE 1)
                          <= breaks' + 1
      BY DEF Budget
    <3>1. CASE j = k
      BY <2>1, <2>2, <3>1 DEF TypeOK
    <3>2. CASE j # k
      BY <2>1, <3>2 DEF Budget, TypeOK
    <3> QED
      BY <3>1, <3>2
  <2> QED
    BY <1>5, <2>1, <2>5, <2>6, <2>7 DEF Reconnect, TypeOK, callVars
<1>6. ASSUME NEW k \in Clients, GiveUp(k), UNCHANGED transport
      PROVE  TypeOK' /\ Budget'
  BY <1>6 DEF GiveUp, TypeOK, Budget, serverVars, callVars, netVars
<1>7. ASSUME NEW c \in Conns, Handle(c), UNCHANGED transport
      PROVE  TypeOK' /\ Budget'
  <2> DEFINE m == Head(up[c])
             s == SessionFor(c, m)
  <2>1. up[c] \in Seq(Message) /\ up[c] # <<>>
    BY <1>7 DEF TypeOK, Handle
  <2>2. m \in Message /\ Tail(up[c]) \in Seq(Message)
    BY <2>1, Taken
  <2>3. m.call \in Calls /\ s \in Conns
    BY <2>2 DEF Message, SessionFor
  <2>4. /\ up' = [up EXCEPT ![c] = Tail(@)]
        /\ serving' = [serving EXCEPT ![c] = m.call]
        /\ handled' = [handled EXCEPT ![m.call] = @ + 1]
        /\ Register(c, s) \/ UNCHANGED <<session, route>>
        /\ UNCHANGED <<clientVars, callVars, connected, down, lost, breaks>>
    BY <1>7 DEF Handle
  <2> HIDE DEF m, s
  <2>5. /\ session' \in [Conns -> Conns \cup {None}]
        /\ route' \in [Conns -> Conns \cup {None}]
    <3>1. /\ session \in [Conns -> Conns \cup {None}]
          /\ route \in [Conns -> Conns \cup {None}]
      BY DEF TypeOK
    <3>2. CASE Register(c, s)
      BY <2>3, <3>1, <3>2 DEF Register
    <3>3. CASE UNCHANGED <<session, route>>
      BY <3>1, <3>3
    <3> QED
      BY <2>4, <3>2, <3>3
  <2>6. /\ up' \in [Conns -> Seq(Message)]
        /\ serving' \in [Conns -> Calls \cup {None}]
        /\ handled' \in [Calls -> Nat]
    BY <2>2, <2>3, <2>4 DEF TypeOK
  <2> QED
    BY <1>7, <2>4, <2>5, <2>6 DEF TypeOK, Budget, clientVars, callVars
<1>8. ASSUME NEW c \in Conns, Reply(c), UNCHANGED transport
      PROVE  TypeOK' /\ Budget'
  <2> DEFINE q == serving[c]
             d == ReplyTo(c)
             m == [call |-> q, session |-> session[d]]
  <2>1. q \in Calls
    BY <1>8 DEF TypeOK, Reply
  <2>2. d \in Conns
    BY <1>8 DEF TypeOK, Reply, ReplyTo, SessionsInStep
  <2>3. m \in Message
    BY <2>1, <2>2 DEF TypeOK, Message
  <2>4. /\ serving' = [serving EXCEPT ![c] = None]
        /\ \/ down' = [down EXCEPT ![d] = Append(@, m)] /\ UNCHANGED lost
           \/ lost' = lost \cup {q} /\ UNCHANGED down
        /\ UNCHANGED <<clientVars, session, route, handled, callVars,
                       connected, up, breaks>>
    BY <1>8 DEF Reply
  <2> HIDE DEF q, d, m
  <2>5. Append(down[d], m) \in Seq(Message)
    BY <2>2, <2>3, AppendProperties DEF TypeOK
  <2>6. down' \in [Conns -> Seq(Message)]
    BY <2>2, <2>4, <2>5 DEF TypeOK
  <2>7. lost' \subseteq Calls /\ serving' \in [Conns -> Calls \cup {None}]
    BY <2>1, <2>4 DEF TypeOK
  <2> QED
    BY <1>8, <2>4, <2>6, <2>7 DEF TypeOK, Budget, clientVars, callVars
<1>9. ASSUME NEW k \in Clients, Break(k), UNCHANGED transport
      PROVE  TypeOK' /\ Budget'
  <2> DEFINE c == Last(k)
  <2>1. c \in Conns
    BY DEF TypeOK, Last, Conns
  <2>2. up[c] \in Seq(Message) /\ down[c] \in Seq(Message)
    BY <2>1 DEF TypeOK
  <2>3. PICK i \in 0 .. Len(up[c]), j \in 0 .. Len(down[c]) :
          /\ up' = [up EXCEPT ![c] = Arrived(@, i)]
          /\ down' = [down EXCEPT ![c] = Arrived(@, j)]
          /\ lost' = lost \cup Missing(up[c], i) \cup Missing(down[c], j)
    BY <1>9 DEF Break
  <2>4. /\ Missing(up[c], i) \subseteq Calls
        /\ Missing(down[c], j) \subseteq Calls
    BY <2>2, MissingWasSent
  <2>5. /\ Arrived(up[c], i) \in Seq(Message)
        /\ Arrived(down[c], j) \in Seq(Message)
    BY <2>2, ArrivedIsPrefix
  <2>6. k \in connected /\ breaks < MaxBreaks /\ breaks' = breaks + 1
        /\ connected' = connected \ {k}
        /\ UNCHANGED <<clientVars, serverVars, callVars>>
    BY <1>9 DEF Break
  <2> HIDE DEF c
  <2>7. /\ up' \in [Conns -> Seq(Message)] /\ down' \in [Conns -> Seq(Message)]
        /\ lost' \subseteq Calls
    BY <2>1, <2>3, <2>4, <2>5 DEF TypeOK
  <2>8. breaks' \in 0 .. MaxBreaks
    BY <2>6 DEF TypeOK
  <2>9. Budget'
    BY <2>6, <2>8 DEF Budget, TypeOK, clientVars
  <2> QED
    BY <1>9, <2>6, <2>7, <2>8, <2>9
       DEF TypeOK, clientVars, serverVars, callVars
<1>10. CASE UNCHANGED vars
  BY <1>10 DEF vars, flow, clientVars, serverVars, callVars, netVars, TypeOK,
               Budget
<1>11. ASSUME NEW q \in Calls, SendRaises(q), UNCHANGED transport
       PROVE  TypeOK' /\ Budget'
  BY <1>11 DEF SendRaises, TypeOK, Budget, clientVars, serverVars, netVars
<1> QED
  BY <1>1, <1>2, <1>3, <1>4, <1>5, <1>6, <1>7, <1>8, <1>9, <1>10, <1>11
  DEF Next
-----------------------------------------------------------------------------
(* Sessions.                                                               *)

LEMMA InitSeparate == Init => SessionsInStep /\ CallsInStep
<1> SUFFICES ASSUME Init PROVE SessionsInStep /\ CallsInStep
  OBVIOUS
<1>1. \A c \in Conns : up[c] = <<>> /\ down[c] = <<>> /\ Len(<<>>) = 0
  BY EmptySeq DEF Init
<1>2. \A q \in Calls : status[q] = "idle" /\ caller[q] = None
                      /\ stamp[q] = None
  BY DEF Init
<1>3. CallsInStep
  BY <1>1, <1>2
     DEF Init, CallsInStep, Callers, ServesOwn, UpOwn, DownOwn, LostOwn, Own
<1>4. PICK ready \in SUBSET Clients :
        /\ knows = [k \in Clients |-> IF k \in ready THEN <<k, 1>> ELSE None]
        /\ session = [c \in Conns |->
             IF c[2] = 1 /\ (c[1] \in ready \/ transport = "tcp") THEN c
             ELSE None]
        /\ route = session
  BY DEF Init
<1>5. \A k \in Clients : Own(knows[k], k)
  BY <1>4 DEF Own
<1>6. \A c \in Conns : session[c] # None => session[c] = c /\ c[2] = 1
  BY <1>4
<1>7. \A k \in Clients : made[k] = 1
  BY DEF Init
<1>8. \A c \in Conns : Own(session[c], c[1])
  BY <1>6 DEF Own
<1>9. \A c \in Conns : session[c] # None => route[session[c]] # None
  BY <1>4, <1>6
<1>10. \A s \in Conns :
         route[s] # None => route[s][1] = s[1] /\ route[s][2] <= made[s[1]]
  BY <1>4, <1>6, <1>7, ConnsAreNumbered
<1>11. \A c \in Conns : serving[c] = None
  BY DEF Init
<1> QED
  BY <1>3, <1>5, <1>8, <1>9, <1>10, <1>11 DEF SessionsInStep

LEMMA StepSessions ==
  ASSUME TypeOK, TypeOK', SessionsInStep, CallsInStep, [Next]_vars
  PROVE  SessionsInStep'
<1>1. ASSUME UNCHANGED <<made, knows, session, route, serving>>
      PROVE  SessionsInStep'
  BY <1>1 DEF SessionsInStep
<1>2. ASSUME NEW k \in Clients, Receive(k) PROVE SessionsInStep'
  <2> DEFINE c == Listened(k)
             m == Head(down[c])
  <2>1. c \in Conns /\ c[1] = k
    BY DEF TypeOK, Listened, Conns
  <2>2. down[c] \in Seq(Message) /\ down[c] # <<>>
    BY <1>2, <2>1 DEF TypeOK, Receive
  <2>3. Own(m.session, k)
    BY <2>1, <2>2, Taken DEF CallsInStep, DownOwn
  <2>4. knows' = [knows EXCEPT ![k] = m.session]
        /\ UNCHANGED <<made, session, route, serving>>
    BY <1>2 DEF Receive, serverVars
  <2> HIDE DEF m
  <2>5. \A j \in Clients : Own(knows'[j], j)
    BY <2>3, <2>4 DEF SessionsInStep, TypeOK
  <2> QED
    BY <2>4, <2>5 DEF SessionsInStep
<1>3. ASSUME NEW k \in Clients, Reconnect(k) PROVE SessionsInStep'
  <2> DEFINE c == <<k, made[k] + 1>>
  <2>1. made' = [made EXCEPT ![k] = @ + 1] /\ UNCHANGED <<knows, serving>>
        /\ (Register(c, c) \/ UNCHANGED <<session, route>>)
    BY <1>3 DEF Reconnect
  <2>2. \A j \in Clients : made[j] \in Nat /\ made'[j] \in Nat
                         /\ made[j] <= made'[j]
    <3>1. made \in [Clients -> 1 .. MaxBreaks + 1]
      BY DEF TypeOK
    <3> HIDE DEF TypeOK, c
    <3>2. \A j \in Clients : made[j] \in Nat
      BY <3>1, BreaksAssumption
    <3>3. made' = [made EXCEPT ![k] = made[k] + 1]
      BY <2>1
    <3>4. \A j \in Clients : made'[j] = IF j = k THEN made[j] + 1 ELSE made[j]
      BY <3>1, <3>3
    <3> QED
      BY <3>2, <3>4
  <2>3. made'[k] = made[k] + 1 /\ c \in Conns /\ c # None
    <3>1. made'[k] = made[k] + 1
      BY <2>1 DEF TypeOK
    <3>2. c \in Conns
      BY <3>1 DEF TypeOK, Conns
    <3> QED
      BY <3>1, <3>2, ConnsAreNumbered
  <2>4. \A s \in Conns :
          route[s] # None => route[s][1] = s[1] /\ route[s][2] <= made'[s[1]]
    <3> SUFFICES ASSUME NEW s \in Conns, route[s] # None
                 PROVE  route[s][1] = s[1] /\ route[s][2] <= made'[s[1]]
      OBVIOUS
    <3>1. route[s] \in Conns /\ s[1] \in Clients
      BY ConnsAreNumbered DEF TypeOK
    <3>2. route[s][2] \in Nat
      BY <3>1, ConnsAreNumbered, BreaksAssumption
    <3> QED
      BY <2>2, <3>1, <3>2 DEF SessionsInStep
  <2>5. CASE UNCHANGED <<session, route>>
    BY <2>1, <2>4, <2>5 DEF SessionsInStep
  <2>6. CASE Register(c, c)
    <3>1. /\ session' = [session EXCEPT ![c] = c]
          /\ route' = [route EXCEPT ![c] = c]
      BY <2>6 DEF Register
    <3>2. session \in [Conns -> Conns \cup {None}]
          /\ route \in [Conns -> Conns \cup {None}]
      BY DEF TypeOK
    <3>3. \A d \in Conns : Own(session'[d], d[1])
      BY <3>1, <3>2, <2>3 DEF SessionsInStep, Own
    <3>4. \A d \in Conns : session'[d] # None => route'[session'[d]] # None
      BY <3>1, <3>2, <2>3 DEF SessionsInStep
    <3>5. \A d \in Conns : serving'[d] # None => session'[d] # None
      BY <3>1, <3>2, <2>1, <2>3 DEF SessionsInStep
    <3>6. c[1] = k /\ c[2] = made'[k]
      BY <2>3
    <3> HIDE DEF c
    <3>7. \A s \in Conns :
            route'[s] # None => /\ route'[s][1] = s[1]
                                /\ route'[s][2] <= made'[s[1]]
      BY <3>1, <3>2, <3>6, <2>2, <2>3, <2>4
    <3>8. \A j \in Clients : Own(knows'[j], j)
      BY <2>1 DEF SessionsInStep
    <3> QED
      BY <3>3, <3>4, <3>5, <3>7, <3>8 DEF SessionsInStep
  <2> QED
    BY <2>1, <2>5, <2>6
<1>4. ASSUME NEW c \in Conns, Handle(c) PROVE SessionsInStep'
  <2> DEFINE m == Head(up[c])
             s == SessionFor(c, m)
  <2>1. up[c] \in Seq(Message) /\ up[c] # <<>>
    BY <1>4 DEF TypeOK, Handle
  <2>2. m \in Message /\ m = up[c][1] /\ 1 \in 1 .. Len(up[c])
    BY <2>1, Taken
  <2>3. Own(m.session, c[1]) /\ c[2] <= made[c[1]]
    BY <2>2 DEF CallsInStep, UpOwn
  <2>4. s \in Conns /\ s[1] = c[1]
    BY <2>2, <2>3 DEF SessionFor, Own, Message
  <2>5. serving' = [serving EXCEPT ![c] = m.call] /\ UNCHANGED <<made, knows>>
        /\ \/ session[c] = None /\ Register(c, s)
           \/ session[c] # None /\ UNCHANGED <<session, route>>
    BY <1>4 DEF Handle, clientVars
  <2>6. c # None
    BY ConnsAreNumbered
  <2> HIDE DEF m, s
  <2>7. /\ session \in [Conns -> Conns \cup {None}]
        /\ route \in [Conns -> Conns \cup {None}]
        /\ serving \in [Conns -> Calls \cup {None}]
    BY DEF TypeOK
  <2>8. CASE session[c] = None /\ Register(c, s)
    <3>1. /\ session' = [session EXCEPT ![c] = s]
          /\ route' = [route EXCEPT ![s] = c]
      BY <2>8 DEF Register
    <3>2. \A d \in Conns : Own(session'[d], d[1])
      BY <3>1, <2>4, <2>7 DEF SessionsInStep, Own
    <3>3. \A d \in Conns : session'[d] # None => route'[session'[d]] # None
      BY <3>1, <2>4, <2>6, <2>7 DEF SessionsInStep
    <3>4. \A d \in Conns : serving'[d] # None => session'[d] # None
      <4>1. s # None
        BY <2>4, ConnsAreNumbered
      <4> QED
        BY <3>1, <4>1, <2>5, <2>7 DEF SessionsInStep
    <3>5. \A t \in Conns :
            route'[t] # None => /\ route'[t][1] = t[1]
                                /\ route'[t][2] <= made'[t[1]]
      BY <3>1, <2>3, <2>4, <2>5, <2>7 DEF SessionsInStep
    <3> QED
      BY <2>5, <3>2, <3>3, <3>4, <3>5 DEF SessionsInStep
  <2>9. CASE session[c] # None /\ UNCHANGED <<session, route>>
    <3>1. \A d \in Conns : serving'[d] # None => session'[d] # None
      BY <2>5, <2>7, <2>9 DEF SessionsInStep
    <3> QED
      BY <2>5, <2>9, <3>1 DEF SessionsInStep
  <2> QED
    BY <2>5, <2>8, <2>9
<1>5. ASSUME NEW c \in Conns, Reply(c) PROVE SessionsInStep'
  <2>1. serving' = [serving EXCEPT ![c] = None]
        /\ UNCHANGED <<made, knows, session, route>>
    BY <1>5 DEF Reply, clientVars
  <2>2. \A d \in Conns : serving'[d] # None => session'[d] # None
    BY <2>1 DEF SessionsInStep, TypeOK
  <2> QED
    BY <2>1, <2>2 DEF SessionsInStep
<1>6. ASSUME NEW k \in Clients, NEW q \in Calls, Call(k, q)
      PROVE  SessionsInStep'
  BY <1>1, <1>6 DEF Call, clientVars, serverVars
<1>7. ASSUME NEW q \in Calls, Send(q) \/ SendRaises(q) PROVE SessionsInStep'
  BY <1>1, <1>7 DEF Send, SendRaises, clientVars, serverVars
<1>8. ASSUME NEW k \in Clients, ReadOn(k) \/ GiveUp(k) \/ Break(k)
      PROVE  SessionsInStep'
  BY <1>1, <1>8 DEF ReadOn, GiveUp, Break, clientVars, serverVars
<1>9. CASE UNCHANGED vars
  BY <1>1, <1>9 DEF vars, flow, clientVars, serverVars
<1> QED
  BY <1>2, <1>3, <1>4, <1>5, <1>6, <1>7, <1>8, <1>9 DEF Next
-----------------------------------------------------------------------------
(* Calls and their messages.                                               *)

\* The client of a call that is under way is known, and it is not idle.
LEMMA UnderWay ==
  ASSUME TypeOK, CallsInStep, NEW q \in Calls, NEW c \in Conns,
         caller[q] = c[1]
  PROVE  status[q] # "idle"
BY ConnsAreNumbered, NoneAssumption DEF CallsInStep, Callers

LEMMA StepCalls ==
  ASSUME TypeOK, TypeOK', SessionsInStep, CallsInStep, [Next]_vars
  PROVE  CallsInStep'
<1> USE DEF CallsInStep
<1>0. /\ \A c \in Conns : \A i \in 1 .. Len(up[c]) : up[c][i] \in Message
      /\ \A c \in Conns : \A i \in 1 .. Len(down[c]) : down[c][i] \in Message
      /\ \A c \in Conns : up[c] \in Seq(Message) /\ down[c] \in Seq(Message)
  BY ElementOfSeq DEF TypeOK
<1>1. ASSUME NEW k \in Clients, NEW q \in Calls, Call(k, q)
      PROVE  CallsInStep'
  <2>1. /\ status[q] = "idle"
        /\ status' = [status EXCEPT ![q] = "sending"]
        /\ caller' = [caller EXCEPT ![q] = k]
        /\ stamp' = [stamp EXCEPT ![q] = knows[k]]
        /\ UNCHANGED <<made, serving, up, down, lost, connected>>
    BY <1>1 DEF Call, clientVars, serverVars, netVars
  <2>2. caller[q] = None /\ k # None /\ q \notin lost
    BY <2>1, NoneAssumption DEF Callers
  <2>3. \A p \in Calls : caller[p] # None => caller'[p] = caller[p]
    BY <2>1, <2>2 DEF TypeOK
  <2>4. \A c \in Conns, p \in Calls : caller[p] = c[1] => caller'[p] = c[1]
    BY <2>3, ConnsAreNumbered, NoneAssumption
  <2>5. Callers'
    BY <2>1, <2>2 DEF Callers, Own, TypeOK, SessionsInStep
  <2>6. ServesOwn'
    BY <2>1, <2>4 DEF ServesOwn, TypeOK
  <2>7. UpOwn'
    BY <1>0, <2>1, <2>4 DEF UpOwn, Message
  <2>8. DownOwn'
    BY <1>0, <2>1, <2>4 DEF DownOwn, Message
  <2>9. LostOwn'
    BY <2>1, <2>2 DEF LostOwn, TypeOK
  <2> QED
    BY <2>5, <2>6, <2>7, <2>8, <2>9
<1>2. ASSUME NEW q \in Calls, Send(q) PROVE CallsInStep'
  <2> DEFINE c == Last(caller[q])
             m == [call |-> q, session |-> stamp[q]]
  <2>1. /\ status[q] = "sending"
        /\ \/ /\ caller[q] \in connected
              /\ up' = [up EXCEPT ![c] = Append(@, m)] /\ UNCHANGED lost
           \/ /\ caller[q] \notin connected /\ UNCHANGED up
              /\ lost' = lost \/ lost' = lost \cup {q}
        /\ \/ status' = [status EXCEPT ![q] = "waiting"]
           \/ status' = [status EXCEPT ![q] = "failed"]
        /\ UNCHANGED <<made, serving, caller, stamp, connected, down>>
    BY <1>2 DEF Send, clientVars, serverVars
  <2>2. Callers'
    BY <2>1 DEF Callers, TypeOK
  <2>3. ServesOwn' /\ DownOwn'
    BY <2>1 DEF ServesOwn, DownOwn
  <2>4. LostOwn'
    BY <2>1 DEF LostOwn
  <2>5. UpOwn'
    <3>1. CASE UNCHANGED up
      BY <2>1, <3>1 DEF UpOwn
    <3>2. CASE caller[q] \in connected /\ up' = [up EXCEPT ![c] = Append(@, m)]
      <4>1. caller[q] \in Clients /\ made[caller[q]] \in 1 .. MaxBreaks + 1
        BY <3>2 DEF TypeOK
      <4>2. c \in Conns /\ c[1] = caller[q] /\ c[2] = made[caller[q]]
        BY <4>1 DEF Last, Conns
      <4>3. m \in Message /\ m.call = q /\ m.session = stamp[q]
        BY DEF TypeOK, Message
      <4>4. Own(stamp[q], caller[q])
        BY DEF Callers
      <4> HIDE DEF c, m
      <4>5. /\ up'[c] = Append(up[c], m)
            /\ \A d \in Conns : d # c => up'[d] = up[d]
        BY <3>2, <4>2 DEF TypeOK
      <4>6. /\ Len(up'[c]) = Len(up[c]) + 1 /\ Len(up[c]) \in Nat
            /\ \A i \in 1 .. Len(up[c]) : up'[c][i] = up[c][i]
            /\ up'[c][Len(up[c]) + 1] = m
        BY <1>0, <4>2, <4>3, <4>5, AppendProperties, LenProperties
      <4>7. made[c[1]] \in Int
        BY <4>1, <4>2, BreaksAssumption
      <4>8. ASSUME NEW i \in 1 .. Len(up'[c])
            PROVE  /\ caller[up'[c][i].call] = c[1] /\ c[2] <= made[c[1]]
                   /\ Own(up'[c][i].session, c[1])
        <5>1. CASE i \in 1 .. Len(up[c])
          BY <4>2, <4>6, <5>1 DEF UpOwn
        <5>2. CASE i = Len(up[c]) + 1
          BY <4>2, <4>3, <4>4, <4>6, <4>7, <5>2
        <5> QED
          BY <4>6, <4>8, <5>1, <5>2
      <4>9. ASSUME NEW d \in Conns, NEW i \in 1 .. Len(up'[d])
            PROVE  /\ caller[up'[d][i].call] = d[1] /\ d[2] <= made[d[1]]
                   /\ Own(up'[d][i].session, d[1])
        BY <4>5, <4>8, <4>9 DEF UpOwn
      <4> QED
        BY <2>1, <4>9 DEF UpOwn
    <3> QED
      BY <2>1, <3>1, <3>2
  <2> QED
    BY <2>2, <2>3, <2>4, <2>5
<1>3. ASSUME NEW k \in Clients, Receive(k) PROVE CallsInStep'
  <2> DEFINE c == Listened(k)
             m == Head(down[c])
  <2>1. c \in Conns /\ c[1] = k
    BY DEF TypeOK, Listened, Conns
  <2>2. down[c] \in Seq(Message) /\ down[c] # <<>>
    BY <1>3, <2>1 DEF TypeOK, Receive
  <2>3. m \in Message /\ m = down[c][1] /\ 1 \in 1 .. Len(down[c])
        /\ \A i \in 1 .. Len(Tail(down[c])) :
             i + 1 \in 1 .. Len(down[c]) /\ Tail(down[c])[i] = down[c][i + 1]
    BY <2>2, Taken
  <2>4. m.call \in Calls /\ caller[m.call] = k
    BY <2>1, <2>3 DEF DownOwn, Message
  <2>5. status[m.call] # "idle"
    BY <2>1, <2>4, UnderWay
  <2>6. /\ down' = [down EXCEPT ![c] = Tail(@)]
        /\ status' = [status EXCEPT ![m.call] =
                         IF @ = "waiting" THEN "returned" ELSE @]
        /\ UNCHANGED <<made, serving, caller, stamp, connected, up, lost>>
    BY <1>3 DEF Receive, Settled, serverVars
  <2> HIDE DEF c, m
  <2>7. Callers'
    BY <2>4, <2>5, <2>6 DEF Callers, TypeOK
  <2>8. ServesOwn' /\ UpOwn' /\ LostOwn'
    BY <2>6 DEF ServesOwn, UpOwn, LostOwn
  <2>9. DownOwn'
    <3>1. /\ down'[c] = Tail(down[c])
          /\ \A d \in Conns : d # c => down'[d] = down[d]
      BY <2>1, <2>6 DEF TypeOK
    <3> QED
      BY <2>1, <2>3, <2>6, <3>1 DEF DownOwn
  <2> QED
    BY <2>7, <2>8, <2>9
<1>4. ASSUME NEW k \in Clients, ReadOn(k) PROVE CallsInStep'
  <2>1. UNCHANGED <<made, serving, status, caller, stamp, connected, up, down>>
    BY <1>4 DEF ReadOn, serverVars, callVars
  <2>2. ASSUME NEW q \in lost', q \notin lost
        PROVE  q \in Calls /\ caller[q] = k /\ made[k] > 1
    <3>1. PICK n \in reading[k] + 1 .. made[k] - 1 :
            q \in Missing(down[<<k, n>>], 0)
      BY <1>4, <2>2 DEF ReadOn
    <3>2. reading[k] \in 1 .. MaxBreaks + 1 /\ made[k] \in 1 .. MaxBreaks + 1
      BY DEF TypeOK
    <3>3. <<k, n>> \in Conns /\ made[k] > 1
      BY <3>1, <3>2, BreaksAssumption DEF Conns
    <3>4. down[<<k, n>>] \in Seq(Message) /\ 0 \in 0 .. Len(down[<<k, n>>])
      BY <1>0, <3>3, LenProperties
    <3>5. PICK i \in 1 .. Len(down[<<k, n>>]) : q = down[<<k, n>>][i].call
      BY <3>1, <3>4, MissingWasSent
    <3>6. q \in Calls
      BY <3>1, <3>4, MissingWasSent
    <3> QED
      BY <3>3, <3>5, <3>6 DEF DownOwn
  <2>3. Callers'
    <3>1. ASSUME NEW q \in Calls, status[q] = "idle" PROVE q \notin lost'
      <4>1. caller[q] = None /\ q \notin lost /\ k # None
        BY <3>1, NoneAssumption DEF Callers
      <4> QED
        BY <2>2, <4>1
    <3> QED
      BY <2>1, <3>1 DEF Callers
  <2>4. LostOwn'
    BY <2>1, <2>2 DEF LostOwn
  <2> QED
    BY <2>1, <2>3, <2>4 DEF ServesOwn, UpOwn, DownOwn
<1>5. ASSUME NEW k \in Clients, Reconnect(k) PROVE CallsInStep'
  <2>1. /\ made' = [made EXCEPT ![k] = @ + 1]
        /\ connected' = connected \cup {k}
        /\ UNCHANGED <<serving, status, caller, stamp, up, down, lost>>
    BY <1>5 DEF Reconnect, callVars
  <2>2. \A j \in Clients : made[j] \in 1 .. MaxBreaks + 1
    BY DEF TypeOK
  <2>3. /\ made'[k] = made[k] + 1 /\ made'[k] > 1
        /\ \A j \in Clients : j # k => made'[j] = made[j]
    BY <2>1, <2>2, BreaksAssumption DEF TypeOK
  <2>4. ASSUME NEW c \in Conns, c[2] <= made[c[1]]
        PROVE  c[2] <= made'[c[1]]
    BY <2>2, <2>3, <2>4, ConnsAreNumbered, BreaksAssumption
  <2>5. UpOwn'
    BY <2>1, <2>4 DEF UpOwn
  <2>6. LostOwn'
    <3> SUFFICES ASSUME NEW q \in lost, caller[q] \in connected \cup {k}
                 PROVE  made'[caller[q]] > 1
      BY <2>1 DEF LostOwn
    <3>1. CASE caller[q] = k
      BY <2>3, <3>1
    <3>2. CASE caller[q] # k
      BY <2>3, <3>2 DEF LostOwn, TypeOK
    <3> QED
      BY <3>1, <3>2
  <2> QED
    BY <2>1, <2>5, <2>6 DEF Callers, ServesOwn, DownOwn
<1>6. ASSUME NEW k \in Clients, GiveUp(k) PROVE CallsInStep'
  BY <1>6 DEF GiveUp, serverVars, callVars, netVars, Callers, ServesOwn, UpOwn,
              DownOwn, LostOwn
<1>7. ASSUME NEW c \in Conns, Handle(c) PROVE CallsInStep'
  <2> DEFINE m == Head(up[c])
  <2>1. up[c] \in Seq(Message) /\ up[c] # <<>>
    BY <1>0, <1>7 DEF Handle
  <2>2. m \in Message /\ m = up[c][1] /\ 1 \in 1 .. Len(up[c])
        /\ \A i \in 1 .. Len(Tail(up[c])) :
             i + 1 \in 1 .. Len(up[c]) /\ Tail(up[c])[i] = up[c][i + 1]
    BY <2>1, Taken
  <2>3. caller[m.call] = c[1]
    BY <2>2 DEF UpOwn
  <2>4. /\ up' = [up EXCEPT ![c] = Tail(@)]
        /\ serving' = [serving EXCEPT ![c] = m.call]
        /\ UNCHANGED <<made, status, caller, stamp, connected, down, lost>>
    BY <1>7 DEF Handle, clientVars, callVars
  <2> HIDE DEF m
  <2>5. ServesOwn'
    BY <2>3, <2>4 DEF ServesOwn, TypeOK
  <2>6. UpOwn'
    <3>1. /\ up'[c] = Tail(up[c])
          /\ \A d \in Conns : d # c => up'[d] = up[d]
      BY <2>4 DEF TypeOK
    <3> QED
      BY <2>2, <2>4, <3>1 DEF UpOwn
  <2> QED
    BY <2>4, <2>5, <2>6 DEF Callers, DownOwn, LostOwn
<1>8. ASSUME NEW c \in Conns, Reply(c) PROVE CallsInStep'
  <2> DEFINE q == serving[c]
             d == ReplyTo(c)
             m == [call |-> q, session |-> session[d]]
  <2>1. q \in Calls /\ caller[q] = c[1]
    BY <1>8 DEF TypeOK, Reply, ServesOwn
  <2>2. d \in Conns /\ d[1] = c[1] /\ d[2] <= made[c[1]]
    <3>1. /\ session[c] \in Conns /\ session[c][1] = c[1]
          /\ route[session[c]] # None
      BY <1>8 DEF TypeOK, Reply, SessionsInStep, Own
    <3>2. route[session[c]] \in Conns
      BY <3>1 DEF TypeOK
    <3> QED
      BY <3>1, <3>2 DEF ReplyTo, SessionsInStep
  <2>3. m \in Message /\ m.call = q /\ m.session = session[d]
    BY <2>1, <2>2 DEF TypeOK, Message
  <2>4. Own(session[d], d[1])
    BY <2>2 DEF SessionsInStep
  <2>5. /\ serving' = [serving EXCEPT ![c] = None]
        /\ \/ down' = [down EXCEPT ![d] = Append(@, m)] /\ UNCHANGED lost
           \/ ~Open(d) /\ lost' = lost \cup {q} /\ UNCHANGED down
        /\ UNCHANGED <<made, status, caller, stamp, connected, up>>
    BY <1>8 DEF Reply, clientVars, callVars
  <2>6. status[q] # "idle"
    BY <2>1, UnderWay
  <2>7. ~Open(d) => caller[q] \notin connected \/ made[caller[q]] > 1
    <3>1. d = <<c[1], d[2]>> /\ d[2] \in 1 .. MaxBreaks + 1 /\ c[1] \in Clients
      BY <2>2, ConnsAreNumbered
    <3>2. made[c[1]] \in 1 .. MaxBreaks + 1
      BY <3>1 DEF TypeOK
    <3>3. ASSUME ~(made[c[1]] > 1) PROVE d = Last(d[1])
      <4>1. d[2] = made[c[1]]
        BY <2>2, <3>1, <3>2, <3>3, BreaksAssumption
      <4> QED
        BY <2>2, <3>1, <4>1 DEF Last
    <3> QED
      BY <2>1, <2>2, <3>3 DEF Open
  <2> HIDE DEF q, d, m
  <2>8. Callers'
    BY <2>1, <2>5, <2>6 DEF Callers
  <2>9. ServesOwn'
    BY <2>5 DEF ServesOwn, TypeOK
  <2>10. LostOwn'
    BY <2>5, <2>7 DEF LostOwn
  <2>11. DownOwn'
    <3>1. CASE UNCHANGED down
      BY <2>5, <3>1 DEF DownOwn
    <3>2. CASE down' = [down EXCEPT ![d] = Append(@, m)]
      <4>1. /\ down'[d] = Append(down[d], m)
            /\ \A e \in Conns : e # d => down'[e] = down[e]
        BY <2>2, <3>2 DEF TypeOK
      <4>2. /\ Len(down'[d]) = Len(down[d]) + 1 /\ Len(down[d]) \in Nat
            /\ \A i \in 1 .. Len(down[d]) : down'[d][i] = down[d][i]
            /\ down'[d][Len(down[d]) + 1] = m
        BY <1>0, <2>2, <2>3, <4>1, AppendProperties, LenProperties
      <4>3. ASSUME NEW i \in 1 .. Len(down'[d])
            PROVE  caller[down'[d][i].call] = d[1]
                   /\ Own(down'[d][i].session, d[1])
        <5>1. CASE i \in 1 .. Len(down[d])
          BY <2>2, <4>2, <5>1 DEF DownOwn
        <5>2. CASE i = Len(down[d]) + 1
          BY <2>1, <2>2, <2>3, <2>4, <4>2, <5>2
        <5> QED
          BY <4>2, <4>3, <5>1, <5>2
      <4>4. ASSUME NEW e \in Conns, NEW i \in 1 .. Len(down'[e])
            PROVE  caller[down'[e][i].call] = e[1]
                   /\ Own(down'[e][i].session, e[1])
        BY <4>1, <4>3, <4>4 DEF DownOwn
      <4> QED
        BY <2>5, <4>4 DEF DownOwn
    <3> QED
      BY <2>5, <3>1, <3>2
  <2> QED
    BY <2>5, <2>8, <2>9, <2>10, <2>11 DEF UpOwn
<1>9. ASSUME NEW k \in Clients, Break(k) PROVE CallsInStep'
  <2> DEFINE c == Last(k)
  <2>1. c \in Conns /\ c[1] = k
    BY DEF TypeOK, Last, Conns
  <2>2. PICK i \in 0 .. Len(up[c]), j \in 0 .. Len(down[c]) :
          /\ up' = [up EXCEPT ![c] = Arrived(@, i)]
          /\ down' = [down EXCEPT ![c] = Arrived(@, j)]
          /\ lost' = lost \cup Missing(up[c], i) \cup Missing(down[c], j)
    BY <1>9 DEF Break
  <2>3. connected' = connected \ {k}
        /\ UNCHANGED <<made, serving, status, caller, stamp>>
    BY <1>9 DEF Break, clientVars, serverVars, callVars
  <2>4. up[c] \in Seq(Message) /\ down[c] \in Seq(Message)
    BY <1>0, <2>1
  <2>5. \A q \in Missing(up[c], i) : q \in Calls /\ caller[q] = k
    BY <2>1, <2>4, MissingWasSent DEF UpOwn
  <2>6. \A q \in Missing(down[c], j) : q \in Calls /\ caller[q] = k
    BY <2>1, <2>4, MissingWasSent DEF DownOwn
  <2> HIDE DEF c
  <2>7. Callers'
    <3>1. ASSUME NEW q \in Calls, status[q] = "idle" PROVE q \notin lost'
      <4>1. caller[q] = None /\ q \notin lost /\ k # None
        BY <3>1, NoneAssumption DEF Callers
      <4> QED
        BY <2>2, <2>5, <2>6, <4>1
    <3> QED
      BY <2>3, <3>1 DEF Callers
  <2>8. LostOwn'
    BY <2>2, <2>3, <2>5, <2>6 DEF LostOwn
  <2>9. UpOwn'
    <3>1. /\ up'[c] = Arrived(up[c], i)
          /\ \A d \in Conns : d # c => up'[d] = up[d]
      BY <2>1, <2>2 DEF TypeOK
    <3>2. /\ Len(up'[c]) = i
          /\ \A n \in 1 .. i : n \in 1 .. Len(up[c]) /\ up'[c][n] = up[c][n]
      BY <2>4, <3>1, ArrivedIsPrefix
    <3> QED
      BY <2>1, <2>3, <3>1, <3>2 DEF UpOwn
  <2>10. DownOwn'
    <3>1. /\ down'[c] = Arrived(down[c], j)
          /\ \A d \in Conns : d # c => down'[d] = down[d]
      BY <2>1, <2>2 DEF TypeOK
    <3>2. /\ Len(down'[c]) = j
          /\ \A n \in 1 .. j : /\ n \in 1 .. Len(down[c])
                              /\ down'[c][n] = down[c][n]
      BY <2>4, <3>1, ArrivedIsPrefix
    <3> QED
      BY <2>1, <2>3, <3>1, <3>2 DEF DownOwn
  <2> QED
    BY <2>3, <2>7, <2>8, <2>9, <2>10 DEF ServesOwn
<1>10. CASE UNCHANGED vars
  BY <1>10 DEF vars, flow, clientVars, serverVars, callVars, netVars, Callers,
               ServesOwn, UpOwn, DownOwn, LostOwn
<1>11. ASSUME NEW q \in Calls, SendRaises(q) PROVE CallsInStep'
  BY <1>11
  DEF SendRaises, Callers, ServesOwn, UpOwn, DownOwn, LostOwn, TypeOK,
      clientVars, serverVars, netVars
<1> QED
  BY <1>1, <1>2, <1>3, <1>4, <1>5, <1>6, <1>7, <1>8, <1>9, <1>10, <1>11
  DEF Next
-----------------------------------------------------------------------------
(* How far calls have come.                                                *)

LEMMA InitProgress == Init => Progress /\ Once /\ AtMostOnce
<1> SUFFICES ASSUME Init PROVE Progress /\ Once /\ AtMostOnce
  OBVIOUS
<1>1. \A c \in Conns : up[c] = <<>> /\ down[c] = <<>> /\ Len(<<>>) = 0
  BY EmptySeq DEF Init
<1>2. /\ \A c \in Conns : serving[c] = None
      /\ \A q \in Calls : handled[q] = 0
  BY DEF Init
<1> QED
  BY <1>1, <1>2 DEF Progress, UpUnhandled, ServesHandled, DownHandled,
                    RestUnhandled, Once, AtMostOnce

LEMMA StepProgress ==
  ASSUME TypeOK, TypeOK', SessionsInStep, CallsInStep, Progress, Once,
         AtMostOnce, [Next]_vars
  PROVE  Progress' /\ Once' /\ AtMostOnce'
<1> USE DEF Progress, WasSent
<1>0. /\ \A c \in Conns : \A i \in 1 .. Len(up[c]) : up[c][i].call \in Calls
      /\ \A c \in Conns :
           \A i \in 1 .. Len(down[c]) : down[c][i].call \in Calls
      /\ \A c \in Conns : up[c] \in Seq(Message) /\ down[c] \in Seq(Message)
  <2>1. \A c \in Conns : up[c] \in Seq(Message) /\ down[c] \in Seq(Message)
    BY DEF TypeOK
  <2>2. /\ \A c \in Conns : \A i \in 1 .. Len(up[c]) : up[c][i] \in Message
        /\ \A c \in Conns : \A i \in 1 .. Len(down[c]) : down[c][i] \in Message
    BY <2>1, ElementOfSeq
  <2> QED
    BY <2>1, <2>2 DEF Message
<1>1. ASSUME NEW k \in Clients, NEW q \in Calls, Call(k, q)
      PROVE  Progress' /\ Once' /\ AtMostOnce'
  <2>1. /\ status[q] = "idle" /\ status' = [status EXCEPT ![q] = "sending"]
        /\ UNCHANGED <<serving, up, down, handled>>
    BY <1>1 DEF Call, serverVars, netVars
  <2>2. \A p \in Calls : status[p] # "idle" => status'[p] = status[p]
    BY <2>1 DEF TypeOK
  <2>3. UpUnhandled' /\ DownHandled'
    BY <1>0, <2>1, <2>2 DEF UpUnhandled, DownHandled, Handled
  <2>4. ServesHandled'
    BY <2>1, <2>2 DEF ServesHandled, Handled, TypeOK
  <2>5. RestUnhandled'
    BY <2>1 DEF RestUnhandled, TypeOK
  <2> QED
    BY <2>1, <2>3, <2>4, <2>5 DEF Once, AtMostOnce
<1>2. ASSUME NEW q \in Calls, Send(q) PROVE Progress' /\ Once' /\ AtMostOnce'
  <2> DEFINE c == Last(caller[q])
             m == [call |-> q, session |-> stamp[q]]
  <2>1. /\ status[q] = "sending"
        /\ \/ /\ caller[q] \in connected
              /\ up' = [up EXCEPT ![c] = Append(@, m)]
              /\ status' = [status EXCEPT ![q] = "waiting"]
           \/ /\ UNCHANGED up
              /\ \/ status' = [status EXCEPT ![q] = "waiting"]
                 \/ status' = [status EXCEPT ![q] = "failed"]
        /\ UNCHANGED <<serving, handled, down>>
    BY <1>2 DEF Send, serverVars
  <2>2. /\ \A p \in Calls : p # q => status'[p] = status[p]
        /\ handled[q] = 0 /\ q \in Calls
    BY <2>1 DEF TypeOK, RestUnhandled
  <2>3. \A d \in Conns : \A i \in 1 .. Len(up[d]) : up[d][i].call # q
    BY <2>1 DEF UpUnhandled
  <2>4. ServesHandled' /\ DownHandled' /\ RestUnhandled'
    <3>1. \A p \in Calls : Handled(p) => p # q
      BY <2>2 DEF Handled
    <3>2. ServesHandled'
      BY <2>1, <2>2, <3>1 DEF ServesHandled, Handled, TypeOK
    <3>3. DownHandled'
      BY <1>0, <2>1, <2>2, <3>1 DEF DownHandled, Handled
    <3>4. RestUnhandled'
      BY <2>1, <2>2 DEF RestUnhandled
    <3> QED
      BY <3>2, <3>3, <3>4
  <2>5. CASE UNCHANGED up
    BY <1>0, <2>1, <2>2, <2>3, <2>4, <2>5 DEF UpUnhandled, Once, AtMostOnce
  <2>6. CASE /\ caller[q] \in connected
             /\ up' = [up EXCEPT ![c] = Append(@, m)]
             /\ status' = [status EXCEPT ![q] = "waiting"]
    <3>1. caller[q] \in Clients /\ made[caller[q]] \in 1 .. MaxBreaks + 1
      BY <2>6 DEF TypeOK
    <3>2. c \in Conns
      BY <3>1 DEF Last, Conns
    <3>3. m \in Message /\ m.call = q
      BY DEF TypeOK, Message
    <3> HIDE DEF c, m
    <3>4. /\ up'[c] = Append(up[c], m)
          /\ \A d \in Conns : d # c => up'[d] = up[d]
      BY <2>6, <3>2 DEF TypeOK
    <3>5. /\ Len(up'[c]) = Len(up[c]) + 1 /\ Len(up[c]) \in Nat
          /\ \A i \in 1 .. Len(up[c]) : up'[c][i] = up[c][i]
          /\ up'[c][Len(up[c]) + 1] = m
      BY <1>0, <3>2, <3>3, <3>4, AppendProperties, LenProperties
    <3>6. \A d \in Conns : \A i \in 1 .. Len(up'[d]) :
            \/ i \in 1 .. Len(up[d]) /\ up'[d][i] = up[d][i]
            \/ d = c /\ i = Len(up[c]) + 1 /\ up'[d][i].call = q
      BY <3>3, <3>4, <3>5
    <3>7. WasSent(q)'
      BY <2>6 DEF WasSent, TypeOK
    <3>8. \A d \in Conns : \A i \in 1 .. Len(up'[d]) :
            WasSent(up[d][i].call)' /\ handled'[up'[d][i].call] = 0
      BY <1>0, <2>1, <2>2, <2>3, <3>6, <3>7 DEF UpUnhandled
    <3>9. Once'
      <4> SUFFICES ASSUME NEW d \in Conns, NEW e \in Conns,
                          NEW i \in 1 .. Len(up'[d]),
                          NEW j \in 1 .. Len(up'[e]),
                          up'[d][i].call = up'[e][j].call
                   PROVE  d = e /\ i = j
        BY DEF Once
      <4>1. CASE up'[d][i].call = q
        BY <2>3, <3>6, <4>1
      <4>2. CASE up'[d][i].call # q
        <5>1. i \in 1 .. Len(up[d]) /\ up'[d][i] = up[d][i]
          BY <3>6, <4>2
        <5>2. j \in 1 .. Len(up[e]) /\ up'[e][j] = up[e][j]
          BY <3>6, <4>2
        <5> QED
          BY <5>1, <5>2 DEF Once
      <4> QED
        BY <4>1, <4>2
    <3> QED
      BY <2>1, <2>4, <3>8, <3>9 DEF UpUnhandled, AtMostOnce
  <2> QED
    BY <2>1, <2>5, <2>6
<1>3. ASSUME NEW k \in Clients, Receive(k)
      PROVE  Progress' /\ Once' /\ AtMostOnce'
  <2> DEFINE c == Listened(k)
             m == Head(down[c])
  <2>1. c \in Conns
    BY DEF TypeOK, Listened, Conns
  <2>2. down[c] \in Seq(Message) /\ down[c] # <<>>
    BY <1>0, <1>3, <2>1 DEF Receive
  <2>3. m \in Message /\ m = down[c][1] /\ 1 \in 1 .. Len(down[c])
        /\ \A i \in 1 .. Len(Tail(down[c])) :
             i + 1 \in 1 .. Len(down[c]) /\ Tail(down[c])[i] = down[c][i + 1]
    BY <2>2, Taken
  <2>4. m.call \in Calls /\ Handled(m.call)
    BY <1>0, <2>1, <2>3 DEF DownHandled
  <2>5. /\ down' = [down EXCEPT ![c] = Tail(@)]
        /\ status' = [status EXCEPT ![m.call] =
                         IF @ = "waiting" THEN "returned" ELSE @]
        /\ UNCHANGED <<serving, handled, up>>
    BY <1>3 DEF Receive, Settled, serverVars
  <2> HIDE DEF c, m
  <2>6. /\ down'[c] = Tail(down[c])
        /\ \A d \in Conns : d # c => down'[d] = down[d]
    BY <2>1, <2>5 DEF TypeOK
  <2>7. \A p \in Calls :
          status'[p] = IF p = m.call /\ status[p] = "waiting" THEN "returned"
                       ELSE status[p]
    BY <2>4, <2>5 DEF TypeOK
  <2>8. \A p \in Calls : Handled(p) => Handled(p)'
    BY <2>5, <2>7 DEF Handled
  <2>9. UpUnhandled'
    BY <1>0, <2>4, <2>5, <2>7 DEF UpUnhandled, Handled
  <2>10. DownHandled'
    <3> SUFFICES ASSUME NEW d \in Conns, NEW i \in 1 .. Len(down'[d])
                 PROVE  Handled(down[d][i].call)'
      BY DEF DownHandled
    <3>1. PICK j \in 1 .. Len(down[d]) : down'[d][i] = down[d][j]
      BY <2>3, <2>6
    <3>2. Handled(down[d][j].call) /\ down[d][j].call \in Calls
      BY <1>0 DEF DownHandled
    <3> QED
      BY <2>5, <2>7, <3>1, <3>2 DEF Handled
  <2>11. ServesHandled'
    BY <2>5, <2>7 DEF ServesHandled, Handled, TypeOK
  <2>12. RestUnhandled'
    BY <2>5, <2>7 DEF RestUnhandled
  <2> QED
    BY <2>5, <2>9, <2>10, <2>11, <2>12 DEF Once, AtMostOnce
<1>4. ASSUME UNCHANGED <<serving, status, handled, up, down>>
      PROVE  Progress' /\ Once' /\ AtMostOnce'
  BY <1>4 DEF UpUnhandled, ServesHandled, DownHandled, RestUnhandled, Handled,
              Once, AtMostOnce
<1>5. ASSUME NEW k \in Clients, ReadOn(k) \/ Reconnect(k) \/ GiveUp(k)
      PROVE  Progress' /\ Once' /\ AtMostOnce'
  BY <1>4, <1>5 DEF ReadOn, Reconnect, GiveUp, serverVars, callVars, netVars
<1>6. ASSUME NEW c \in Conns, Handle(c)
      PROVE  Progress' /\ Once' /\ AtMostOnce'
  <2> DEFINE m == Head(up[c])
  <2>1. up[c] \in Seq(Message) /\ up[c] # <<>>
    BY <1>0, <1>6 DEF Handle
  <2>2. m \in Message /\ m = up[c][1] /\ 1 \in 1 .. Len(up[c])
        /\ Len(up[c]) \in Nat /\ Len(Tail(up[c])) = Len(up[c]) - 1
        /\ \A i \in 1 .. Len(Tail(up[c])) :
             i + 1 \in 1 .. Len(up[c]) /\ Tail(up[c])[i] = up[c][i + 1]
    BY <2>1, Taken
  <2>3. m.call \in Calls /\ WasSent(m.call) /\ handled[m.call] = 0
    BY <1>0, <2>2 DEF UpUnhandled
  <2>4. /\ up' = [up EXCEPT ![c] = Tail(@)]
        /\ serving' = [serving EXCEPT ![c] = m.call]
        /\ handled' = [handled EXCEPT ![m.call] = @ + 1]
        /\ UNCHANGED <<status, down>>
    BY <1>6 DEF Handle, callVars
  <2> HIDE DEF m
  <2>5. /\ up'[c] = Tail(up[c])
        /\ \A d \in Conns : d # c => up'[d] = up[d]
    BY <2>4 DEF TypeOK
  <2>6. \A p \in Calls : handled'[p] = IF p = m.call THEN 1 ELSE handled[p]
    BY <2>3, <2>4 DEF TypeOK
  <2>7. \A p \in Calls : Handled(p) => Handled(p)'
    BY <2>4, <2>6 DEF Handled
  <2>8. \A d \in Conns : \A i \in 1 .. Len(up'[d]) :
          LET j == IF d = c THEN i + 1 ELSE i IN
            j \in 1 .. Len(up[d]) /\ up'[d][i] = up[d][j]
            /\ up'[d][i].call # m.call
    <3>1. ASSUME NEW i \in 1 .. Len(up'[c])
          PROVE  /\ i + 1 \in 1 .. Len(up[c]) /\ up'[c][i] = up[c][i + 1]
                 /\ up'[c][i].call # m.call
      <4>1. i + 1 \in 1 .. Len(up[c]) /\ up'[c][i] = up[c][i + 1] /\ i + 1 # 1
        BY <2>2, <2>5, <3>1
      <4> QED
        BY <2>2, <4>1 DEF Once
    <3>2. ASSUME NEW d \in Conns, d # c, NEW i \in 1 .. Len(up'[d])
          PROVE  /\ i \in 1 .. Len(up[d]) /\ up'[d][i] = up[d][i]
                 /\ up'[d][i].call # m.call
      BY <2>2, <2>5, <3>2 DEF Once
    <3> QED
      BY <3>1, <3>2
  <2>9. UpUnhandled'
    <3> SUFFICES ASSUME NEW d \in Conns, NEW i \in 1 .. Len(up'[d])
                 PROVE  /\ WasSent(up[d][i].call)'
                        /\ handled'[up'[d][i].call] = 0
      BY DEF UpUnhandled
    <3>1. PICK j \in 1 .. Len(up[d]) :
            up'[d][i] = up[d][j] /\ up'[d][i].call # m.call
      BY <2>8
    <3> QED
      BY <1>0, <2>4, <2>6, <3>1 DEF UpUnhandled
  <2>10. Once'
    <3> SUFFICES ASSUME NEW d \in Conns, NEW e \in Conns,
                        NEW i \in 1 .. Len(up'[d]), NEW j \in 1 .. Len(up'[e]),
                        up'[d][i].call = up'[e][j].call
                 PROVE  d = e /\ i = j
      BY DEF Once
    <3> DEFINE n == IF d = c THEN i + 1 ELSE i
               o == IF e = c THEN j + 1 ELSE j
    <3>1. /\ n \in 1 .. Len(up[d]) /\ up'[d][i] = up[d][n]
          /\ o \in 1 .. Len(up[e]) /\ up'[e][j] = up[e][o]
      BY <2>8
    <3>2. d = e /\ n = o
      BY <3>1 DEF Once
    <3>3. i \in Int /\ j \in Int
      OBVIOUS
    <3> QED
      BY <3>2, <3>3
  <2>11. DownHandled'
    <3> SUFFICES ASSUME NEW d \in Conns, NEW i \in 1 .. Len(down[d])
                 PROVE  Handled(down[d][i].call)'
      BY <2>4 DEF DownHandled
    <3>1. Handled(down[d][i].call) /\ down[d][i].call \in Calls
      BY <1>0 DEF DownHandled
    <3> QED
      BY <2>4, <2>6, <3>1 DEF Handled
  <2>12. ServesHandled'
    <3>1. \A d \in Conns : serving'[d] = IF d = c THEN m.call ELSE serving[d]
      BY <2>4 DEF TypeOK
    <3>2. \A d \in Conns : serving[d] # None => serving[d] \in Calls
      BY DEF TypeOK
    <3> QED
      BY <2>3, <2>4, <2>6, <3>1, <3>2 DEF ServesHandled, Handled
  <2>13. RestUnhandled'
    BY <2>3, <2>4, <2>6 DEF RestUnhandled
  <2>14. AtMostOnce'
    BY <2>6 DEF AtMostOnce
  <2> QED
    BY <2>9, <2>10, <2>11, <2>12, <2>13, <2>14
<1>7. ASSUME NEW c \in Conns, Reply(c) PROVE Progress' /\ Once' /\ AtMostOnce'
  <2> DEFINE q == serving[c]
             d == ReplyTo(c)
             m == [call |-> q, session |-> session[d]]
  <2>1. q \in Calls /\ Handled(q)
    BY <1>7 DEF TypeOK, Reply, ServesHandled
  <2>2. d \in Conns
    BY <1>7 DEF TypeOK, Reply, ReplyTo, SessionsInStep
  <2>3. m \in Message /\ m.call = q
    BY <2>1, <2>2 DEF TypeOK, Message
  <2>4. /\ serving' = [serving EXCEPT ![c] = None]
        /\ (down' = [down EXCEPT ![d] = Append(@, m)] \/ UNCHANGED down)
        /\ UNCHANGED <<handled, status, up>>
    BY <1>7 DEF Reply, callVars
  <2> HIDE DEF q, d, m
  <2>5. ServesHandled'
    BY <2>4 DEF ServesHandled, Handled, TypeOK
  <2>6. DownHandled'
    <3>1. CASE UNCHANGED down
      BY <2>4, <3>1 DEF DownHandled, Handled
    <3>2. CASE down' = [down EXCEPT ![d] = Append(@, m)]
      <4>1. /\ down'[d] = Append(down[d], m)
            /\ \A e \in Conns : e # d => down'[e] = down[e]
        BY <2>2, <3>2 DEF TypeOK
      <4>2. /\ Len(down'[d]) = Len(down[d]) + 1 /\ Len(down[d]) \in Nat
            /\ \A i \in 1 .. Len(down[d]) : down'[d][i] = down[d][i]
            /\ down'[d][Len(down[d]) + 1] = m
        BY <1>0, <2>2, <2>3, <4>1, AppendProperties, LenProperties
      <4>3. \A e \in Conns : \A i \in 1 .. Len(down'[e]) :
              \/ i \in 1 .. Len(down[e]) /\ down'[e][i] = down[e][i]
              \/ down'[e][i].call = q
        <5> SUFFICES ASSUME NEW e \in Conns, NEW i \in 1 .. Len(down'[e])
                     PROVE  \/ /\ i \in 1 .. Len(down[e])
                               /\ down'[e][i] = down[e][i]
                            \/ down'[e][i].call = q
          OBVIOUS
        <5>1. CASE e # d
          <6>1. down'[e] = down[e]
            BY <4>1, <5>1
          <6> QED
            BY <6>1
        <5>2. CASE e = d
          <6>1. i \in 1 .. Len(down[d]) \/ i = Len(down[d]) + 1
            BY <4>2, <5>2
          <6> QED
            BY <2>3, <4>2, <5>2, <6>1
        <5> QED
          BY <5>1, <5>2
      <4> QED
        <5> DEFINE call(e, n) == down'[e][n].call
        <5>1. \A p : Handled(p)' <=> Handled(p)
          BY <2>4 DEF Handled
        <5>2. ASSUME NEW e \in Conns, NEW n \in 1 .. Len(down'[e])
              PROVE  Handled(call(e, n))
          <6>1. CASE n \in 1 .. Len(down[e]) /\ down'[e][n] = down[e][n]
            BY <6>1 DEF DownHandled
          <6>2. CASE down'[e][n].call = q
            BY <2>1, <6>2
          <6> QED
            BY <4>3, <6>1, <6>2
        <5> QED
          BY <5>1, <5>2 DEF DownHandled
    <3> QED
      BY <2>4, <3>1, <3>2
  <2> QED
    BY <2>4, <2>5, <2>6 DEF UpUnhandled, RestUnhandled, Once, AtMostOnce
<1>8. ASSUME NEW k \in Clients, Break(k)
      PROVE  Progress' /\ Once' /\ AtMostOnce'
  <2> DEFINE c == Last(k)
  <2>1. c \in Conns
    BY DEF TypeOK, Last, Conns
  <2>2. PICK i \in 0 .. Len(up[c]), j \in 0 .. Len(down[c]) :
          /\ up' = [up EXCEPT ![c] = Arrived(@, i)]
          /\ down' = [down EXCEPT ![c] = Arrived(@, j)]
    BY <1>8 DEF Break
  <2>3. UNCHANGED <<serving, handled, status>>
    BY <1>8 DEF Break, serverVars, callVars
  <2> HIDE DEF c
  <2>4. /\ up'[c] = Arrived(up[c], i) /\ down'[c] = Arrived(down[c], j)
        /\ \A d \in Conns : d # c => up'[d] = up[d] /\ down'[d] = down[d]
    BY <2>1, <2>2 DEF TypeOK
  <2>5. /\ Len(up'[c]) = i
        /\ \A n \in 1 .. i : n \in 1 .. Len(up[c]) /\ up'[c][n] = up[c][n]
    BY <1>0, <2>1, <2>4, ArrivedIsPrefix
  <2>6. /\ Len(down'[c]) = j
        /\ \A n \in 1 .. j : /\ n \in 1 .. Len(down[c])
                            /\ down'[c][n] = down[c][n]
    BY <1>0, <2>1, <2>4, ArrivedIsPrefix
  <2>7. \A d \in Conns : \A n \in 1 .. Len(up'[d]) :
          n \in 1 .. Len(up[d]) /\ up'[d][n] = up[d][n]
    <3> SUFFICES ASSUME NEW d \in Conns
                 PROVE  \A n \in 1 .. Len(up'[d]) :
                          n \in 1 .. Len(up[d]) /\ up'[d][n] = up[d][n]
      OBVIOUS
    <3>1. CASE d = c
      BY <2>5, <3>1
    <3>2. CASE d # c
      <4>1. up'[d] = up[d]
        BY <2>4, <3>2
      <4> QED
        BY <4>1
    <3> QED
      BY <3>1, <3>2
  <2>8. \A d \in Conns : \A n \in 1 .. Len(down'[d]) :
          n \in 1 .. Len(down[d]) /\ down'[d][n] = down[d][n]
    <3> SUFFICES ASSUME NEW d \in Conns
                 PROVE  \A n \in 1 .. Len(down'[d]) :
                          n \in 1 .. Len(down[d]) /\ down'[d][n] = down[d][n]
      OBVIOUS
    <3>1. CASE d = c
      BY <2>6, <3>1
    <3>2. CASE d # c
      <4>1. down'[d] = down[d]
        BY <2>4, <3>2
      <4> QED
        BY <4>1
    <3> QED
      BY <3>1, <3>2
  <2>9. Progress'
    <3>1. UpUnhandled'
      BY <2>3, <2>7 DEF UpUnhandled
    <3>2. \A q : Handled(q)' <=> Handled(q)
      BY <2>3 DEF Handled
    <3> HIDE DEF Progress
    <3>3. ServesHandled' /\ RestUnhandled'
      BY <2>3, <3>2 DEF Progress, ServesHandled, RestUnhandled
    <3>4. DownHandled'
      <4>1. ASSUME NEW d \in Conns, NEW n \in 1 .. Len(down'[d])
            PROVE  Handled(down'[d][n].call)
        <5>1. n \in 1 .. Len(down[d]) /\ down'[d][n] = down[d][n]
          BY <2>8
        <5> QED
          BY <5>1 DEF Progress, DownHandled
      <4> QED
        BY <3>2, <4>1 DEF DownHandled
    <3> QED
      BY <3>1, <3>3, <3>4 DEF Progress
  <2>10. Once'
    <3> SUFFICES ASSUME NEW d \in Conns, NEW e \in Conns,
                        NEW n \in 1 .. Len(up'[d]), NEW o \in 1 .. Len(up'[e]),
                        up'[d][n].call = up'[e][o].call
                 PROVE  d = e /\ n = o
      BY DEF Once
    <3>1. /\ n \in 1 .. Len(up[d]) /\ up'[d][n] = up[d][n]
          /\ o \in 1 .. Len(up[e]) /\ up'[e][o] = up[e][o]
      BY <2>7
    <3> QED
      BY <3>1 DEF Once
  <2> QED
    BY <2>3, <2>9, <2>10 DEF AtMostOnce
<1>9. CASE UNCHANGED vars
  BY <1>4, <1>9 DEF vars, flow, serverVars, callVars, netVars
<1>10. ASSUME NEW q \in Calls, SendRaises(q)
       PROVE  Progress' /\ Once' /\ AtMostOnce'
  <2>1. /\ status[q] = "waiting" /\ status' = [status EXCEPT ![q] = "failed"]
        /\ UNCHANGED <<serving, handled, up, down>>
    BY <1>10 DEF SendRaises, serverVars, netVars
  <2>2. \A p \in Calls : WasSent(p)' <=> WasSent(p)
    BY <2>1 DEF TypeOK
  <2>3. \A p \in Calls : Handled(p)' <=> Handled(p)
    BY <2>1, <2>2 DEF Handled
  <2> HIDE DEF WasSent
  <2>4. UpUnhandled' /\ DownHandled'
    BY <1>0, <2>1, <2>2, <2>3 DEF UpUnhandled, DownHandled
  <2>5. ServesHandled' /\ RestUnhandled'
    BY <2>1, <2>2, <2>3 DEF ServesHandled, RestUnhandled, TypeOK
  <2> QED
    BY <2>1, <2>4, <2>5 DEF Once, AtMostOnce
<1> QED
  BY <1>1, <1>2, <1>3, <1>5, <1>6, <1>7, <1>8, <1>9, <1>10 DEF Next
-----------------------------------------------------------------------------
(* The theorems.                                                           *)

LEMMA Inductive == Spec => []IInv
<1>1. Init => IInv
  BY InitTyped, InitSeparate, InitProgress DEF IInv
<1>2. IInv /\ [Next]_vars => IInv'
  <2> SUFFICES ASSUME IInv, [Next]_vars PROVE IInv'
    OBVIOUS
  <2>1. TypeOK' /\ Budget'
    BY StepTyped DEF IInv
  <2>2. SessionsInStep'
    BY <2>1, StepSessions DEF IInv
  <2>3. CallsInStep'
    BY <2>1, StepCalls DEF IInv
  <2>4. Progress' /\ Once' /\ AtMostOnce'
    BY <2>1, StepProgress DEF IInv
  <2> QED
    BY <2>1, <2>2, <2>3, <2>4 DEF IInv
<1> QED
  BY <1>1, <1>2, PTL DEF Spec

\* Connections, sessions, messages and calls are well typed; the n-th
\* connection of a client takes n - 1 breaks.
THEOREM Typed == Spec => []TypeOK
<1>1. IInv => TypeOK
  BY DEF IInv
<1> QED
  BY Inductive, <1>1, PTL

\* Sessions, replies and losses stay with the client they belong to.
THEOREM SessionsStaySeparate == Spec => []SessionsAreSeparate
<1>1. IInv => SessionsAreSeparate
  BY DEF IInv, SessionsInStep, CallsInStep, DownOwn, LostOwn,
         SessionsAreSeparate
<1> QED
  BY Inductive, <1>1, PTL

\* No request is handled twice, however connections break.
THEOREM HandledAtMostOnce == Spec => []AtMostOnce
<1>1. IInv => AtMostOnce
  BY DEF IInv
<1> QED
  BY Inductive, <1>1, PTL
-----------------------------------------------------------------------------
(* Where a call is that waits.                                             *)

Holds(s, q) == \E i \in 1 .. Len(s) : s[i].call = q

\* Its request or its handler is at some connection, its reply on one that
\* the client has yet to read, or one of them was lost.
Accounted(q) ==
  \/ \E c \in Conns : Holds(up[c], q)
  \/ \E c \in Conns : serving[c] = q
  \/ \E c \in Conns : reading[c[1]] <= c[2] /\ Holds(down[c], q)
  \/ q \in lost

NoneForgotten ==
  /\ \A k \in Clients : reading[k] <= made[k]
  /\ \A q \in Calls : status[q] = "waiting" => Accounted(q)

\* A message is added to a queue, taken from it, or lost with its end.
LEMMA AppendHolds ==
  ASSUME NEW s \in Seq(Message), NEW m \in Message
  PROVE  /\ Holds(Append(s, m), m.call)
         /\ \A q : Holds(s, q) => Holds(Append(s, m), q)
<1>1. Len(s) \in Nat
  BY LenProperties
<1>2. /\ Len(Append(s, m)) = Len(s) + 1
      /\ \A i \in 1 .. Len(s) : Append(s, m)[i] = s[i]
      /\ Append(s, m)[Len(s) + 1] = m
  BY AppendProperties
<1>3. \A i \in 1 .. Len(s) : i \in 1 .. Len(Append(s, m))
  BY <1>1, <1>2
<1>4. Len(s) + 1 \in 1 .. Len(Append(s, m))
  BY <1>1, <1>2
<1> QED
  BY <1>2, <1>3, <1>4 DEF Holds

LEMMA TailHolds ==
  ASSUME NEW s \in Seq(Message), s # <<>>, NEW q, Holds(s, q),
         Head(s).call # q
  PROVE  Holds(Tail(s), q)
<1>1. Len(s) \in Nat
  BY LenProperties
<1>2. /\ Head(s) = s[1] /\ Len(Tail(s)) = Len(s) - 1
      /\ \A i \in 1 .. Len(Tail(s)) : Tail(s)[i] = s[i + 1]
  BY Taken
<1>3. PICK i \in 1 .. Len(s) : s[i].call = q
  BY DEF Holds
<1>4. i # 1
  BY <1>2, <1>3
<1>5. i - 1 \in 1 .. Len(Tail(s)) /\ (i - 1) + 1 = i
  BY <1>1, <1>2, <1>4
<1> QED
  BY <1>2, <1>3, <1>5 DEF Holds

LEMMA ArrivedOrMissing ==
  ASSUME NEW s \in Seq(Message), NEW n \in 0 .. Len(s), NEW q, Holds(s, q)
  PROVE  Holds(Arrived(s, n), q) \/ q \in Missing(s, n)
<1>1. Len(s) \in Nat
  BY LenProperties
<1>2. PICK i \in 1 .. Len(s) : s[i].call = q
  BY DEF Holds
<1>3. CASE i <= n
  <2>1. i \in 1 .. n
    BY <1>1, <1>3
  <2> QED
    BY <1>2, <2>1, ArrivedIsPrefix DEF Holds
<1>4. CASE ~(i <= n)
  <2>1. i \in n + 1 .. Len(s)
    BY <1>1, <1>4
  <2> QED
    BY <1>2, <2>1 DEF Missing
<1> QED
  BY <1>3, <1>4

\* The last connection of a client is one it has yet to read.
LEMMA LastIsAhead ==
  ASSUME TypeOK, NoneForgotten, NEW c \in Conns, Open(c)
  PROVE  reading[c[1]] <= c[2]
<1>1. c[1] \in Clients /\ c[2] = made[c[1]]
  BY ConnsAreNumbered DEF Open, Last, TypeOK
<1> QED
  BY <1>1 DEF NoneForgotten

LEMMA StepAccounted ==
  ASSUME IInv, IInv', NoneForgotten, [Next]_vars
  PROVE  NoneForgotten'
<1>0. /\ \A c \in Conns : up[c] \in Seq(Message) /\ down[c] \in Seq(Message)
      /\ reading \in [Clients -> 1 .. MaxBreaks + 1]
      /\ made \in [Clients -> 1 .. MaxBreaks + 1]
      /\ \A s \in Seq(Message) : \A q : Holds(s, q) => s # <<>>
      /\ TypeOK /\ TypeOK'
  BY EmptySeq DEF IInv, TypeOK, Holds
<1>1. ASSUME NEW k \in Clients, NEW q \in Calls, Call(k, q)
      PROVE  NoneForgotten'
  <2>1. /\ status' = [status EXCEPT ![q] = "sending"]
        /\ UNCHANGED <<made, reading, serving, up, down, lost>>
    BY <1>1 DEF Call, clientVars, serverVars, netVars
  <2>2. \A p \in Calls : status'[p] = "waiting" => status[p] = "waiting"
    BY <1>0, <2>1 DEF TypeOK
  <2> QED
    BY <2>1, <2>2 DEF NoneForgotten, Accounted
<1>2. ASSUME NEW q \in Calls, Send(q) PROVE NoneForgotten'
  <2> DEFINE c == Last(caller[q])
             m == [call |-> q, session |-> stamp[q]]
  <2>1. /\ status[q] = "sending"
        /\ UNCHANGED <<made, reading, serving, down>>
        /\ \A p \in Calls : p # q => status'[p] = status[p]
    BY <1>0, <1>2 DEF Send, clientVars, serverVars, TypeOK
  <2>2. CASE /\ caller[q] \in connected
             /\ up' = [up EXCEPT ![c] = Append(@, m)]
             /\ UNCHANGED lost
    <3>1. c \in Conns /\ m \in Message /\ m.call = q
      BY <1>0, <2>2 DEF TypeOK, Last, Conns, Message
    <3> HIDE DEF c, m
    <3>2. /\ up'[c] = Append(up[c], m)
          /\ \A d \in Conns : d # c => up'[d] = up[d]
      BY <1>0, <2>2, <3>1 DEF TypeOK
    <3>3. /\ Holds(up'[c], q)
          /\ \A d \in Conns, p \in Calls : Holds(up[d], p) => Holds(up'[d], p)
      BY <1>0, <3>1, <3>2, AppendHolds
    <3>4. \A p \in Calls : Accounted(p) => Accounted(p)'
      BY <2>1, <2>2, <3>3 DEF Accounted
    <3>5. Accounted(q)'
      BY <3>1, <3>3 DEF Accounted
    <3> QED
      BY <2>1, <3>4, <3>5 DEF NoneForgotten
  <2>3. CASE /\ UNCHANGED up
             /\ status' = [status EXCEPT ![q] = "waiting"]
             /\ lost' = lost \cup {q}
    BY <2>1, <2>3 DEF NoneForgotten, Accounted
  <2>4. CASE /\ status' = [status EXCEPT ![q] = "failed"]
             /\ UNCHANGED <<up, lost>>
    BY <1>0, <2>1, <2>4 DEF NoneForgotten, Accounted, TypeOK
  <2> QED
    BY <1>2, <2>2, <2>3, <2>4 DEF Send
<1>3. ASSUME NEW k \in Clients, Receive(k) PROVE NoneForgotten'
  <2> DEFINE c == Listened(k)
             m == Head(down[c])
  <2>1. /\ down[c] # <<>> /\ down' = [down EXCEPT ![c] = Tail(@)]
        /\ status' = [status EXCEPT ![m.call] =
                         IF @ = "waiting" THEN "returned" ELSE @]
        /\ UNCHANGED <<made, reading, serving, up, lost>>
    BY <1>3 DEF Receive, Settled, serverVars
  <2>2. c \in Conns
    BY <1>0 DEF Listened, Conns
  <2>3. m \in Message /\ m.call \in Calls
    BY <1>0, <2>1, <2>2, Taken DEF Message
  <2> HIDE DEF c, m
  <2>4. /\ down'[c] = Tail(down[c])
        /\ \A d \in Conns : d # c => down'[d] = down[d]
    BY <1>0, <2>1, <2>2 DEF TypeOK
  <2>5. \A d \in Conns, p \in Calls :
          Holds(down[d], p) /\ p # m.call => Holds(down'[d], p)
    BY <1>0, <2>1, <2>2, <2>4, TailHolds DEF m
  <2>6. \A p \in Calls : p # m.call /\ Accounted(p) => Accounted(p)'
    BY <2>1, <2>5 DEF Accounted
  <2>7. /\ status'[m.call] # "waiting"
        /\ \A p \in Calls : p # m.call => status'[p] = status[p]
    BY <1>0, <2>1, <2>3 DEF TypeOK
  <2> QED
    BY <2>1, <2>6, <2>7 DEF NoneForgotten
<1>4. ASSUME NEW k \in Clients, ReadOn(k) PROVE NoneForgotten'
  <2>1. /\ down[Listened(k)] = <<>>
        /\ reading' = [reading EXCEPT ![k] = made[k]]
        /\ lost' = lost \cup UNION {Missing(down[<<k, n>>], 0) :
                                      n \in reading[k] + 1 .. made[k] - 1}
        /\ UNCHANGED <<made, serving, status, up, down>>
    BY <1>4 DEF ReadOn, AtEnd, serverVars, callVars
  <2>2. /\ reading'[k] = made[k]
        /\ \A j \in Clients : j # k => reading'[j] = reading[j]
    BY <1>0, <2>1
  <2>3. ASSUME NEW p \in Calls, NEW d \in Conns, reading[d[1]] <= d[2],
               Holds(down[d], p), ~(reading'[d[1]] <= d[2])
        PROVE  p \in lost'
    <3>1. d = <<k, d[2]>> /\ d[2] \in 1 .. MaxBreaks + 1 /\ d[1] = k
      BY <2>2, <2>3, ConnsAreNumbered
    <3>2. d[2] # reading[k]
      BY <1>0, <2>1, <2>3, <3>1 DEF Listened
    <3>3. d[2] \in reading[k] + 1 .. made[k] - 1
      BY <1>0, <2>2, <2>3, <3>1, <3>2, BreaksAssumption
    <3>4. p \in Missing(down[d], 0)
      <4>1. PICK i \in 1 .. Len(down[d]) : down[d][i].call = p
        BY <2>3 DEF Holds
      <4> QED
        BY <4>1 DEF Missing
    <3> QED
      BY <2>1, <3>1, <3>3, <3>4
  <2>4. \A p \in Calls : Accounted(p) => Accounted(p)'
    BY <2>1, <2>3 DEF Accounted
  <2>5. \A j \in Clients : reading'[j] <= made'[j]
    BY <1>0, <2>1, <2>2, BreaksAssumption DEF NoneForgotten
  <2> QED
    BY <2>1, <2>4, <2>5 DEF NoneForgotten
<1>5. ASSUME NEW k \in Clients, Reconnect(k) PROVE NoneForgotten'
  <2>1. /\ made' = [made EXCEPT ![k] = @ + 1]
        /\ UNCHANGED <<reading, serving, status, up, down, lost>>
    BY <1>5 DEF Reconnect, callVars
  <2>2. \A j \in Clients : reading'[j] <= made'[j]
    BY <1>0, <2>1, BreaksAssumption DEF NoneForgotten
  <2> QED
    BY <2>1, <2>2 DEF NoneForgotten, Accounted
<1>6. ASSUME NEW k \in Clients, GiveUp(k) PROVE NoneForgotten'
  BY <1>6
  DEF GiveUp, NoneForgotten, Accounted, serverVars, callVars, netVars
<1>7. ASSUME NEW k \in Clients, Break(k) PROVE NoneForgotten'
  <2> DEFINE c == Last(k)
  <2>1. PICK i \in 0 .. Len(up[c]), j \in 0 .. Len(down[c]) :
          /\ up' = [up EXCEPT ![c] = Arrived(@, i)]
          /\ down' = [down EXCEPT ![c] = Arrived(@, j)]
          /\ lost' = lost \cup Missing(up[c], i) \cup Missing(down[c], j)
    BY <1>7 DEF Break
  <2>2. UNCHANGED <<made, reading, serving, status>>
    BY <1>7 DEF Break, clientVars, serverVars, callVars
  <2>3. c \in Conns
    BY <1>0 DEF Last, Conns
  <2> HIDE DEF c
  <2>4. /\ up'[c] = Arrived(up[c], i) /\ down'[c] = Arrived(down[c], j)
        /\ \A d \in Conns : d # c => up'[d] = up[d] /\ down'[d] = down[d]
    BY <1>0, <2>1, <2>3 DEF TypeOK
  <2>5. \A d \in Conns, p \in Calls :
          /\ Holds(up[d], p) => Holds(up'[d], p) \/ p \in lost'
          /\ Holds(down[d], p) => Holds(down'[d], p) \/ p \in lost'
    BY <1>0, <2>1, <2>3, <2>4, ArrivedOrMissing
  <2>6. \A p \in Calls : Accounted(p) => Accounted(p)'
    BY <2>1, <2>2, <2>5 DEF Accounted
  <2> QED
    BY <2>2, <2>6 DEF NoneForgotten
<1>8. ASSUME NEW c \in Conns, Handle(c) PROVE NoneForgotten'
  <2> DEFINE m == Head(up[c])
  <2>1. /\ serving[c] = None /\ up[c] # <<>>
        /\ up' = [up EXCEPT ![c] = Tail(@)]
        /\ serving' = [serving EXCEPT ![c] = m.call]
        /\ UNCHANGED <<made, reading, status, down, lost>>
    BY <1>8 DEF Handle, clientVars, callVars
  <2>2. m \in Message /\ m.call \in Calls
    BY <1>0, <2>1, Taken DEF Message
  <2> HIDE DEF m
  <2>3. /\ up'[c] = Tail(up[c]) /\ serving'[c] = m.call
        /\ \A d \in Conns : d # c => up'[d] = up[d] /\ serving'[d] = serving[d]
    BY <1>0, <2>1 DEF TypeOK
  <2>4. \A d \in Conns, p \in Calls :
          Holds(up[d], p) /\ p # m.call => Holds(up'[d], p)
    BY <1>0, <2>1, <2>3, TailHolds DEF m
  <2>5. \A d \in Conns, p \in Calls : serving[d] = p => serving'[d] = p
    BY <2>1, <2>3, NoneAssumption
  <2>6. \A p \in Calls : p = m.call => Accounted(p)'
    BY <2>3 DEF Accounted
  <2>7. \A p \in Calls : p # m.call /\ Accounted(p) => Accounted(p)'
    BY <2>1, <2>4, <2>5 DEF Accounted
  <2> QED
    BY <2>1, <2>6, <2>7 DEF NoneForgotten
<1>9. ASSUME NEW c \in Conns, Reply(c) PROVE NoneForgotten'
  <2> DEFINE q == serving[c]
             d == ReplyTo(c)
             m == [call |-> q, session |-> session[d]]
  <2>1. /\ q # None
        /\ serving' = [serving EXCEPT ![c] = None]
        /\ UNCHANGED <<made, reading, status, up>>
    BY <1>9 DEF Reply, clientVars, callVars
  <2>2. q \in Calls
    BY <1>0, <2>1 DEF TypeOK
  <2>3. \A b \in Conns, p \in Calls :
          serving[b] = p /\ p # q => serving'[b] = p
    BY <1>0, <2>1 DEF TypeOK
  <2>4. CASE /\ Open(d) /\ UNCHANGED lost
             /\ down' = [down EXCEPT ![d] = Append(@, m)]
    <3>1. d \in Conns /\ m \in Message /\ m.call = q
      <4>1. session[c] \in Conns
        BY <1>0, <2>1 DEF IInv, SessionsInStep, TypeOK
      <4>2. d \in Conns
        BY <1>0, <2>1, <4>1 DEF IInv, SessionsInStep, TypeOK, ReplyTo
      <4> QED
        BY <1>0, <2>2, <4>2 DEF TypeOK, Message
    <3> HIDE DEF q, d, m
    <3>2. /\ down'[d] = Append(down[d], m)
          /\ \A b \in Conns : b # d => down'[b] = down[b]
      BY <1>0, <2>4, <3>1 DEF TypeOK
    <3>3. /\ Holds(down'[d], q)
          /\ \A b \in Conns, p \in Calls :
               Holds(down[b], p) => Holds(down'[b], p)
      BY <1>0, <3>1, <3>2, AppendHolds
    <3>4. reading[d[1]] <= d[2]
      BY <1>0, <2>4, <3>1, LastIsAhead
    <3>5. \A p \in Calls : p = q => Accounted(p)'
      BY <2>1, <3>1, <3>3, <3>4 DEF Accounted
    <3>6. \A p \in Calls : p # q /\ Accounted(p) => Accounted(p)'
      BY <2>1, <2>3, <2>4, <3>3 DEF Accounted
    <3> QED
      BY <2>1, <3>5, <3>6 DEF NoneForgotten
  <2>5. CASE lost' = lost \cup {q} /\ UNCHANGED down
    <3>1. \A p \in Calls : Accounted(p) => Accounted(p)'
      BY <2>1, <2>3, <2>5 DEF Accounted
    <3> QED
      BY <2>1, <3>1 DEF NoneForgotten
  <2> QED
    BY <1>9, <2>4, <2>5 DEF Reply
<1>10. CASE UNCHANGED vars
  BY <1>10
  DEF NoneForgotten, Accounted, vars, flow, clientVars, serverVars, callVars,
      netVars
<1>11. ASSUME NEW q \in Calls, SendRaises(q) PROVE NoneForgotten'
  BY <1>0, <1>11
  DEF SendRaises, NoneForgotten, Accounted, TypeOK, clientVars, serverVars,
      netVars
<1> QED
  BY <1>1, <1>2, <1>3, <1>4, <1>5, <1>6, <1>7, <1>8, <1>9, <1>10, <1>11
  DEF Next

\* No call that waits is forgotten: its request or its handler is at a
\* connection of the server, however old, or its reply where the client will
\* read it, or one of them was lost.  So a call that hangs has lost a message,
\* or somebody stopped working: the safety half of Answered.
THEOREM NoCallIsForgotten == Spec => []NoneForgotten
<1>1. Init => NoneForgotten
  BY DEF Init, NoneForgotten
<1>2. IInv /\ IInv' /\ NoneForgotten /\ [Next]_vars => NoneForgotten'
  BY StepAccounted
<1> QED
  BY <1>1, <1>2, Inductive, PTL DEF Spec
-----------------------------------------------------------------------------
(* Where replies go.                                                       *)

Answers(c, q) == serving[c] = q /\ serving'[c] # q

\* The reply of a handler that runs in the session its client has now, for
\* whatever connection of it, is written to the client's connection.
RepliesReachTheNewest ==
  [][\A q \in Calls, c \in Conns :
       /\ Answers(c, q) /\ Back(caller[q])
       /\ session[c] = session[Last(caller[q])]
       => Holds(down'[Last(caller[q])], q) /\ lost' = lost]_vars

\* A session of a TCP server is a connection.
IsItsSession(c) ==
  /\ c[2] <= made[c[1]] => session[c] # None
  /\ session[c] # None => session[c] = c /\ route[c] = c

TcpSessions == transport = "tcp" => \A c \in Conns : IsItsSession(c)

\* So a reply goes to the connection its request came on, or is lost.
TcpRepliesStay ==
  [][transport = "tcp" =>
       \A q \in Calls, c \in Conns : Answers(c, q) =>
         IF Open(c) THEN Holds(down'[c], q) ELSE q \in lost']_vars

\* Handlers end in Reply and nowhere else.
LEMMA OnlyReplyAnswers ==
  ASSUME TypeOK, Next, NEW q \in Calls, NEW c \in Conns, Answers(c, q)
  PROVE  Reply(c) /\ q # None
<1>1. q # None
  BY NoneAssumption
<1>2. ASSUME NEW d \in Conns, Handle(d) PROVE FALSE
  BY <1>1, <1>2 DEF Handle, Answers, TypeOK
<1>3. ASSUME NEW d \in Conns, Reply(d), d # c PROVE FALSE
  BY <1>3 DEF Reply, Answers, TypeOK
<1>4. ASSUME NEW k \in Clients,
             \/ Receive(k) \/ ReadOn(k) \/ Reconnect(k) \/ GiveUp(k)
             \/ Break(k) \/ \E p \in Calls : Call(k, p)
      PROVE  FALSE
  BY <1>4 DEF Receive, ReadOn, Reconnect, GiveUp, Break, Call, Answers,
              serverVars
<1>5. ASSUME NEW p \in Calls, Send(p) \/ SendRaises(p) PROVE FALSE
  BY <1>5 DEF Send, SendRaises, Answers, serverVars
<1> QED
  BY <1>1, <1>2, <1>3, <1>4, <1>5 DEF Next

\* What Reply does with the reply.
LEMMA ReplyIsWritten ==
  ASSUME TypeOK, NEW c \in Conns, Reply(c), NEW q \in Calls, serving[c] = q,
         NEW d \in Conns, ReplyTo(c) = d
  PROVE  IF Open(d) THEN Holds(down'[d], q) /\ lost' = lost ELSE q \in lost'
<1> DEFINE m == [call |-> q, session |-> session[d]]
<1>1. m \in Message /\ m.call = q /\ down[d] \in Seq(Message)
  BY DEF TypeOK, Message
<1>2. CASE Open(d)
  <2>1. down' = [down EXCEPT ![d] = Append(@, m)] /\ lost' = lost
    BY <1>2 DEF Reply
  <2> HIDE DEF m
  <2>2. down'[d] = Append(down[d], m)
    BY <2>1 DEF TypeOK
  <2> QED
    BY <1>1, <1>2, <2>1, <2>2, AppendHolds
<1>3. CASE ~Open(d)
  BY <1>3 DEF Reply
<1> QED
  BY <1>2, <1>3

LEMMA StepTcpSessions ==
  ASSUME IInv, TcpSessions, [Next]_vars
  PROVE  TcpSessions'
<1>0. TypeOK /\ transport' = transport
  BY DEF IInv, Next, vars
<1> SUFFICES ASSUME transport = "tcp"
             PROVE  \A c \in Conns : IsItsSession(c)'
  BY <1>0 DEF TcpSessions
<1>a. \A c \in Conns : IsItsSession(c)
  BY DEF TcpSessions
<1>1. CASE UNCHANGED <<made, session, route>>
  BY <1>1, <1>a DEF IsItsSession
<1>2. ASSUME NEW k \in Clients, Reconnect(k)
      PROVE  \A c \in Conns : IsItsSession(c)'
  <2> DEFINE d == <<k, made[k] + 1>>
  <2>1. /\ made' = [made EXCEPT ![k] = @ + 1]
        /\ session' = [session EXCEPT ![d] = d]
        /\ route' = [route EXCEPT ![d] = d]
    BY <1>2 DEF Reconnect, Register
  <2>2. ASSUME NEW c \in Conns PROVE IsItsSession(c)'
    <3>1. CASE c = d
      <4>1. session'[c] = c /\ route'[c] = c /\ c # None
        BY <1>0, <2>1, <3>1, ConnsAreNumbered DEF TypeOK
      <4> QED
        BY <4>1 DEF IsItsSession
    <3>2. CASE c # d
      <4>1. c[1] \in Clients /\ c = <<c[1], c[2]>> /\ c[2] \in Nat
        BY ConnsAreNumbered, BreaksAssumption
      <4>2. made[c[1]] \in Nat
        BY <1>0, <4>1, BreaksAssumption DEF TypeOK
      <4>3. c[2] <= made'[c[1]] => c[2] <= made[c[1]]
        BY <1>0, <2>1, <3>2, <4>1, <4>2 DEF TypeOK
      <4>4. session'[c] = session[c] /\ route'[c] = route[c]
        BY <1>0, <2>1, <3>2 DEF TypeOK
      <4> QED
        BY <1>a, <4>3, <4>4 DEF IsItsSession
    <3> QED
      BY <3>1, <3>2
  <2> QED
    BY <2>2
<1>3. ASSUME NEW c \in Conns, Handle(c)
      PROVE  UNCHANGED <<made, session, route>>
  <2>1. up[c] \in Seq(Message) /\ up[c] # <<>>
    BY <1>0, <1>3 DEF Handle, TypeOK
  <2>2. c[2] <= made[c[1]]
    BY <2>1, Taken DEF IInv, CallsInStep, UpOwn
  <2>3. session[c] # None
    BY <1>a, <2>2 DEF IsItsSession
  <2> QED
    BY <1>3, <2>3 DEF Handle, clientVars
<1>4. CASE UNCHANGED vars
  BY <1>1, <1>4 DEF vars, flow, clientVars, serverVars
<1>5. ASSUME NEW c \in Conns, Reply(c)
      PROVE  UNCHANGED <<made, session, route>>
  BY <1>5 DEF Reply, clientVars
<1>6. ASSUME NEW q \in Calls, Send(q) \/ SendRaises(q)
      PROVE  UNCHANGED <<made, session, route>>
  BY <1>6 DEF Send, SendRaises, clientVars, serverVars
<1>7. ASSUME NEW k \in Clients,
             \/ Receive(k) \/ ReadOn(k) \/ GiveUp(k)
             \/ Break(k) \/ \E p \in Calls : Call(k, p)
      PROVE  UNCHANGED <<made, session, route>>
  BY <1>7 DEF Receive, ReadOn, GiveUp, Break, Call, clientVars, serverVars
<1> QED
  BY <1>1, <1>2, <1>3, <1>4, <1>5, <1>6, <1>7 DEF Next

\* While the client is back its replies reach it, over whatever connection the
\* request came: the safety half of RepliesFollow.
THEOREM RepliesGoToTheNewest == Spec => RepliesReachTheNewest
<1>1. IInv /\ [Next]_vars =>
        [\A q \in Calls, c \in Conns :
           /\ Answers(c, q) /\ Back(caller[q])
           /\ session[c] = session[Last(caller[q])]
           => Holds(down'[Last(caller[q])], q) /\ lost' = lost]_vars
  <2> SUFFICES ASSUME IInv, Next, NEW q \in Calls, NEW c \in Conns,
                      Answers(c, q), Back(caller[q]),
                      session[c] = session[Last(caller[q])]
               PROVE  Holds(down'[Last(caller[q])], q) /\ lost' = lost
    OBVIOUS
  <2> DEFINE k == caller[q]
             d == Last(k)
  <2>1. Reply(c) /\ q # None /\ serving[c] = q /\ TypeOK
    BY OnlyReplyAnswers DEF IInv, Answers
  <2>2. k \in Clients /\ d \in Conns /\ d[1] = k
    BY <2>1 DEF Back, TypeOK, Last, Conns
  <2>3. ReplyTo(c) = d /\ Open(d)
    BY <2>2 DEF Back, ReplyTo, Open
  <2> QED
    BY <2>1, <2>2, <2>3, ReplyIsWritten
<1> QED
  BY <1>1, Inductive, PTL DEF Spec, RepliesReachTheNewest

\* Over TCP a session does not outlive its connection: the server makes up an
\* id for each connection and never takes over the one a client sends, so
\* what a handler returns after its connection broke is lost.
THEOREM TcpSessionsEndWithTheirConnection ==
  Spec => []TcpSessions /\ TcpRepliesStay
<1>1. Init => TcpSessions
  <2> SUFFICES ASSUME Init, transport = "tcp", NEW c \in Conns
               PROVE  IsItsSession(c)
    BY DEF TcpSessions
  <2>1. c[1] \in Clients /\ c[2] \in Nat /\ c[2] >= 1 /\ c # None
    BY ConnsAreNumbered, BreaksAssumption
  <2>2. c[2] <= made[c[1]] => c[2] = 1
    BY <2>1 DEF Init
  <2>3. session[c] = (IF c[2] = 1 THEN c ELSE None) /\ route[c] = session[c]
    BY DEF Init
  <2> QED
    BY <2>1, <2>2, <2>3 DEF IsItsSession
<1>2. Spec => []TcpSessions
  BY <1>1, Inductive, StepTcpSessions, PTL DEF Spec
<1>3. IInv /\ TcpSessions /\ [Next]_vars =>
        [transport = "tcp" =>
           \A q \in Calls, c \in Conns : Answers(c, q) =>
             IF Open(c) THEN Holds(down'[c], q) ELSE q \in lost']_vars
  <2> SUFFICES ASSUME IInv, TcpSessions, Next, transport = "tcp",
                      NEW q \in Calls, NEW c \in Conns, Answers(c, q)
               PROVE  IF Open(c) THEN Holds(down'[c], q) ELSE q \in lost'
    OBVIOUS
  <2>1. Reply(c) /\ q # None /\ serving[c] = q /\ TypeOK
    BY OnlyReplyAnswers DEF IInv, Answers
  <2>2. session[c] # None
    BY <2>1 DEF IInv, SessionsInStep
  <2>3. ReplyTo(c) = c
    BY <2>2 DEF TcpSessions, IsItsSession, ReplyTo
  <2> QED
    BY <2>1, <2>3, ReplyIsWritten
<1> QED
  BY <1>2, <1>3, Inductive, PTL DEF Spec, TcpRepliesStay
-----------------------------------------------------------------------------
(* The promise.                                                            *)

LEMMA InitRefines == Init => Promise!Init
BY DEF Init, Promise!Init, callStatus, callEffects, callResult

LEMMA StepRefines ==
  ASSUME IInv, IInv', [Next]_vars
  PROVE  Promise!Next \/ UNCHANGED Promise!vars
<1> USE DEF callStatus, callEffects, callResult
<1>0. /\ status \in
           [Calls -> {"idle", "sending", "waiting", "returned", "failed"}]
      /\ handled \in [Calls -> Nat]
  BY DEF IInv, TypeOK
<1>1. ASSUME NEW k \in Clients, NEW q \in Calls, Call(k, q)
      PROVE  Promise!Issue(q)
  BY <1>0, <1>1 DEF Call, serverVars, Promise!Issue
<1>2. ASSUME NEW q \in Calls, Send(q)
      PROVE  Promise!Fail(q) \/ UNCHANGED Promise!vars
  <2>1. status[q] = "sending" /\ UNCHANGED handled
        /\ (status' = [status EXCEPT ![q] = "waiting"]
            \/ status' = [status EXCEPT ![q] = "failed"])
    BY <1>2 DEF Send, serverVars
  <2>2. CASE status' = [status EXCEPT ![q] = "waiting"]
    BY <1>0, <2>1, <2>2 DEF Promise!vars
  <2>3. CASE status' = [status EXCEPT ![q] = "failed"]
    BY <1>0, <2>1, <2>3 DEF Promise!Fail
  <2> QED
    BY <2>1, <2>2, <2>3
<1>3. ASSUME NEW k \in Clients, Receive(k)
      PROVE  (\E q \in Calls : Promise!Return(q, q)) \/ UNCHANGED Promise!vars
  <2> DEFINE c == Listened(k)
             q == Head(down[c]).call
  <2>1. c \in Conns
    BY DEF IInv, TypeOK, Listened, Conns
  <2>2. down[c] \in Seq(Message) /\ down[c] # <<>>
    BY <1>3, <2>1 DEF IInv, TypeOK, Receive
  <2>3. q \in Calls /\ Handled(q)
    BY <2>1, <2>2, Taken DEF IInv, Progress, DownHandled, Message
  <2>4. /\ status' = [status EXCEPT ![q] =
                         IF @ = "waiting" THEN "returned" ELSE @]
        /\ UNCHANGED handled
    BY <1>3 DEF Receive, Settled, serverVars
  <2> HIDE DEF q
  <2>5. CASE status[q] # "waiting"
    BY <1>0, <2>3, <2>4, <2>5 DEF Promise!vars
  <2>6. CASE status[q] = "waiting"
    <3>1. callStatus[q] = "open" /\ q \in callEffects[q]
      BY <2>3, <2>6 DEF Handled
    <3>2. callStatus' = [callStatus EXCEPT ![q] = "returned"]
      BY <1>0, <2>3, <2>4, <2>6
    <3>3. callResult' = [callResult EXCEPT ![q] = q]
      BY <1>0, <2>3, <2>4, <2>6
    <3>4. UNCHANGED callEffects
      BY <2>4
    <3> QED
      BY <2>3, <3>1, <3>2, <3>3, <3>4 DEF Promise!Return
  <2> QED
    BY <2>5, <2>6
<1>4. ASSUME NEW c \in Conns, Handle(c)
      PROVE  \E q \in Calls : Promise!Execute(q, q)
  <2> DEFINE q == Head(up[c]).call
  <2>1. up[c] \in Seq(Message) /\ up[c] # <<>>
    BY <1>4 DEF IInv, TypeOK, Handle
  <2>2. q \in Calls /\ WasSent(q) /\ handled[q] = 0
    <3>1. Head(up[c]) \in Message /\ Head(up[c]) = up[c][1]
          /\ 1 \in 1 .. Len(up[c])
      BY <2>1, Taken
    <3>2. UpUnhandled
      BY DEF IInv, Progress
    <3>3. q \in Calls
      BY <3>1 DEF Message
    <3> QED
      BY <3>1, <3>2, <3>3 DEF UpUnhandled
  <2>3. handled' = [handled EXCEPT ![q] = @ + 1] /\ UNCHANGED status
    BY <1>4 DEF Handle, callVars
  <2> HIDE DEF q
  <2>4. callStatus[q] # "idle" /\ \A p \in Calls : q \notin callEffects[p]
    BY <2>2 DEF WasSent
  <2>5. callEffects' = [callEffects EXCEPT ![q] = @ \cup {q}]
    <3>1. handled'[q] = 1 /\ \A p \in Calls : p # q => handled'[p] = handled[p]
      BY <1>0, <2>2, <2>3
    <3>2. \A p \in Calls :
            (IF handled'[p] > 0 THEN {p} ELSE {}) =
              IF p = q THEN {q} ELSE IF handled[p] > 0 THEN {p} ELSE {}
      BY <3>1
    <3>3. callEffects[q] = {}
      BY <2>2
    <3> QED
      BY <2>2, <3>2, <3>3
  <2> QED
    BY <2>2, <2>3, <2>4, <2>5 DEF Promise!Execute
<1>5. ASSUME UNCHANGED <<status, handled>> PROVE UNCHANGED Promise!vars
  BY <1>5 DEF Promise!vars
<1>6. ASSUME NEW k \in Clients,
             ReadOn(k) \/ Reconnect(k) \/ GiveUp(k) \/ Break(k)
      PROVE  UNCHANGED Promise!vars
  BY <1>5, <1>6 DEF ReadOn, Reconnect, GiveUp, Break, serverVars, callVars
<1>7. ASSUME NEW c \in Conns, Reply(c) PROVE UNCHANGED Promise!vars
  BY <1>5, <1>7 DEF Reply, callVars
<1>8. CASE UNCHANGED vars
  BY <1>5, <1>8 DEF vars, flow, serverVars, callVars
<1>9. ASSUME NEW q \in Calls, SendRaises(q) PROVE Promise!Fail(q)
  BY <1>0, <1>9 DEF SendRaises, serverVars, Promise!Fail
<1> QED
  BY <1>1, <1>2, <1>3, <1>4, <1>6, <1>7, <1>8, <1>9 DEF Next, Promise!Next

\* Sessions and connections implement the promise a caller has.
THEOREM PromiseKept == Spec => KeepsPromise
BY Inductive, InitRefines, StepRefines, PTL
   DEF Spec, KeepsPromise, Promise!Spec
=============================================================================
