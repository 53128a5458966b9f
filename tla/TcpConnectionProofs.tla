------------------------ MODULE TcpConnectionProofs -------------------------
(***************************************************************************)
(* For any number of senders, retries and breaks: one task reconnects at a *)
(* time, and only a closed stream is replaced.                             *)
(***************************************************************************)
EXTENDS TcpConnection, SequenceTheorems, TLAPS

HasLock(a) == pc[a] \in Reconnecting

\* The task that reconnects is the one that holds the lock.
HolderReconnects == \A a \in Actors : HasLock(a) <=> lock = a

\* While a task dials, nothing but its own success brings the stream back.
DialsOnlyWhenDead == \A a \in Actors : pc[a] = "dial" => link = "dead"

\* Every stream but the first replaces one that broke.
BrokenFirst == stream + (IF link = "up" THEN 0 ELSE 1) <= breaks

AttemptsLeft == attempts = 0 \/ attempts < maxRetries

IInv ==
  /\ TypeOK
  /\ HolderReconnects
  /\ DialsOnlyWhenDead
  /\ BrokenFirst
  /\ AttemptsLeft

\* Nothing reconnects when the program starts.
LEMMA InitInv == Init => IInv
<1> SUFFICES ASSUME Init PROVE IInv
  OBVIOUS
<1>0. maxRetries \in Nat /\ callsBack \in BOOLEAN /\ sweeping \in BOOLEAN
  BY SetupsAssumption DEF Init
<1> USE ActorsAssumption, BoundsAssumption DEF Actors, Init
<1>1. pc \in [Actors -> SenderState \cup ListenerState]
  BY DEF SenderState, ListenerState
<1>2. \A a \in Actors : ~HasLock(a) /\ lock # a
  BY DEF HasLock, Reconnecting
<1>3. TypeOK
  BY <1>0, <1>1 DEF TypeOK
<1>4. HolderReconnects /\ DialsOnlyWhenDead
  BY <1>2 DEF HolderReconnects, DialsOnlyWhenDead, HasLock, Reconnecting
<1>5. BrokenFirst /\ AttemptsLeft
  BY DEF BrokenFirst, AttemptsLeft
<1> QED BY <1>3, <1>4, <1>5 DEF IInv

\* A task that finds no connection either gets the lock and dials or queues.
LEMMA TakeLockInv ==
  ASSUME IInv, NEW a \in Actors, TakeLock(a), ~IsConnected, ~HasLock(a),
         UNCHANGED <<setup, link, stream, envVars>>
  PROVE  IInv'
<1>1. link = "dead" /\ link' = link /\ stream' = stream
      /\ listening' = listening /\ server' = server /\ breaks' = breaks
  BY DEF IInv, TypeOK, IsConnected, TakeLock, envVars
<1>a. maxRetries' = maxRetries /\ callsBack' = callsBack
      /\ sweeping' = sweeping
  BY DEF setup
<1>2. CASE lock = NoOne /\ waiters = <<>>
  BY <1>1, <1>a, <1>2, ActorsAssumption, BoundsAssumption
  DEF IInv, TypeOK, HolderReconnects, DialsOnlyWhenDead, BrokenFirst,
      AttemptsLeft, HasLock, Reconnecting, TakeLock, SenderState, ListenerState
<1>3. CASE ~(lock = NoOne /\ waiters = <<>>)
  <2>1. /\ waiters' = Append(waiters, a)
        /\ pc' = [pc EXCEPT ![a] = "wait"]
        /\ lock' = lock /\ attempts' = attempts
    BY <1>3 DEF TakeLock
  <2>2. TypeOK'
    BY <1>1, <1>a, <2>1 DEF IInv, TypeOK, SenderState, ListenerState
  <2>3. HolderReconnects' /\ DialsOnlyWhenDead'
    BY <1>1, <2>1
    DEF IInv, TypeOK, HolderReconnects, DialsOnlyWhenDead, HasLock,
        Reconnecting
  <2>4. BrokenFirst' /\ AttemptsLeft'
    BY <1>1, <1>a, <2>1 DEF IInv, BrokenFirst, AttemptsLeft
  <2> QED BY <2>2, <2>3, <2>4 DEF IInv
<1> QED BY <1>2, <1>3

\* Every step keeps the invariant.
LEMMA NextInv == IInv /\ [Next]_vars => IInv'
<1> SUFFICES ASSUME IInv, [Next]_vars PROVE IInv'
  OBVIOUS
<1>0. UNCHANGED <<maxRetries, callsBack, sweeping>> /\ UNCHANGED setup
  BY DEF Next, vars, setup
<1> USE <1>0, ActorsAssumption, BoundsAssumption
<1> USE DEF Actors
<1>1. CASE ListenerNotices
  <2>1. pc[Listener] = "read" /\ ~HasLock(Listener)
    BY <1>1 DEF ListenerNotices, HasLock, Reconnecting
  <2>2. CASE ~IsConnected /\ TakeLock(Listener)
    BY <1>1, <2>1, <2>2, TakeLockInv DEF ListenerNotices
  <2>3. CASE Proceed(Listener) /\ UNCHANGED <<lock, waiters, attempts>>
    BY <1>1, <2>1, <2>3
    DEF ListenerNotices, Proceed, envVars, IInv, TypeOK, HolderReconnects,
        DialsOnlyWhenDead, BrokenFirst, AttemptsLeft, HasLock, Reconnecting,
        SenderState, ListenerState
  <2>4. CASE pc' = [pc EXCEPT ![Listener] = "spin"]
             /\ UNCHANGED <<listening, lock, waiters, attempts>>
    BY <1>1, <2>1, <2>4
    DEF ListenerNotices, envVars, IInv, TypeOK, HolderReconnects,
        DialsOnlyWhenDead, BrokenFirst, AttemptsLeft, HasLock, Reconnecting,
        SenderState, ListenerState
  <2> QED BY <1>1, <2>2, <2>3, <2>4 DEF ListenerNotices
<1>2. CASE \E a \in Actors : Granted(a)
  <2>1. PICK a \in Actors : Granted(a)
    BY <1>2
  <2>2. lock = NoOne /\ waiters' = Tail(waiters) /\ waiters # <<>>
        /\ link' = link /\ stream' = stream /\ server' = server
        /\ breaks' = breaks
    BY <2>1 DEF Granted, envVars
  <2>3. waiters' \in Seq(Actors)
    BY <2>2 DEF IInv, TypeOK
  <2>4. \A b \in Actors : ~HasLock(b)
    BY <2>2 DEF IInv, HolderReconnects
  <2>5. CASE IsConnected /\ UNCHANGED <<lock, attempts>> /\ Proceed(a)
    BY <2>2, <2>3, <2>4, <2>5
    DEF Proceed, IInv, TypeOK, HolderReconnects, DialsOnlyWhenDead,
        BrokenFirst, AttemptsLeft, HasLock, Reconnecting, SenderState,
        ListenerState
  <2>6. CASE /\ ~IsConnected
             /\ lock' = a /\ attempts' = 0
             /\ pc' = [pc EXCEPT ![a] = "dial"]
             /\ UNCHANGED listening
    <3>1. link = "dead"
      BY <2>6 DEF IsConnected, IInv, TypeOK
    <3> QED BY <2>2, <2>3, <2>4, <2>6, <3>1
      DEF IInv, TypeOK, HolderReconnects, DialsOnlyWhenDead, BrokenFirst,
          AttemptsLeft, HasLock, Reconnecting, SenderState, ListenerState
  <2> QED BY <2>1, <2>5, <2>6 DEF Granted
<1>3. CASE \E a \in Actors : DialSucceeds(a)
  <2>1. PICK a \in Actors : DialSucceeds(a)
    BY <1>3
  <2>2. lock = a /\ link = "dead" /\ pc[a] = "dial"
    BY <2>1 DEF DialSucceeds, IInv, HolderReconnects, DialsOnlyWhenDead,
                HasLock, Reconnecting
  <2>3. \A b \in Actors : b # a => ~HasLock(b)
    BY <2>2 DEF IInv, HolderReconnects
  <2>4. stream' \in 0 .. MaxBreaks /\ stream' = stream + 1
        /\ stream + 1 <= breaks
    BY <2>1, <2>2 DEF DialSucceeds, IInv, TypeOK, BrokenFirst
  <2>5. CASE callsBack
    BY <2>1, <2>2, <2>3, <2>4, <2>5
    DEF DialSucceeds, envVars, IInv, TypeOK, HolderReconnects,
        DialsOnlyWhenDead, BrokenFirst, AttemptsLeft, HasLock, Reconnecting,
        SenderState, ListenerState
  <2>6. CASE ~callsBack
    <3>1. lock' = NoOne /\ Proceed(a) /\ link' = "up"
          /\ UNCHANGED <<waiters, attempts, server, breaks>>
      BY <2>1, <2>6 DEF DialSucceeds, envVars
    <3>2. pc' \in [Actors -> SenderState \cup ListenerState]
      BY <3>1 DEF Proceed, IInv, TypeOK, SenderState, ListenerState
    <3>3. \A b \in Actors : ~HasLock(b)' /\ lock' # b
      BY <2>3, <3>1 DEF Proceed, HasLock, Reconnecting, IInv, TypeOK
    <3>4. listening' \in 0 .. stream'
      BY <2>4, <3>1 DEF Proceed, IInv, TypeOK
    <3>5. TypeOK' /\ BrokenFirst' /\ AttemptsLeft'
      BY <2>4, <3>1, <3>2, <3>4
      DEF IInv, TypeOK, BrokenFirst, AttemptsLeft
    <3> QED BY <3>3, <3>5
      DEF IInv, HolderReconnects, DialsOnlyWhenDead, HasLock, Reconnecting
  <2> QED BY <2>5, <2>6
<1>4. CASE \E a \in Actors : DialFails(a)
  <2>1. PICK a \in Actors : DialFails(a)
    BY <1>4
  <2>2. lock = a /\ pc[a] = "dial" /\ UNCHANGED <<link, stream, waiters>>
        /\ server' = server /\ breaks' = breaks /\ listening' = listening
    BY <2>1 DEF DialFails, GiveUp, IInv, HolderReconnects, HasLock,
                Reconnecting, envVars
  <2>3. \A b \in Actors : b # a => ~HasLock(b)
    BY <2>2 DEF IInv, HolderReconnects
  <2>4. CASE maxRetries > 0 /\ attempts + 1 = maxRetries
    BY <2>1, <2>2, <2>3, <2>4
    DEF DialFails, GiveUp, IInv, TypeOK, HolderReconnects,
        DialsOnlyWhenDead, BrokenFirst, AttemptsLeft, HasLock, Reconnecting,
        SenderState, ListenerState
  <2>5. CASE ~(maxRetries > 0 /\ attempts + 1 = maxRetries)
    <3>1. attempts' \in 0 .. maxRetries /\ AttemptsLeft'
      BY <2>1, <2>5 DEF DialFails, IInv, TypeOK, AttemptsLeft
    <3> QED BY <2>1, <2>2, <2>5, <3>1
      DEF DialFails, IInv, TypeOK, HolderReconnects, DialsOnlyWhenDead,
          BrokenFirst, HasLock, Reconnecting
  <2> QED BY <2>4, <2>5
<1>5. CASE \E a \in Actors : CallbackEnds(a)
  <2>1. PICK a \in Actors : CallbackEnds(a)
    BY <1>5
  <2>2. lock = a /\ pc[a] = "callback"
    BY <2>1 DEF CallbackEnds, IInv, HolderReconnects, HasLock, Reconnecting
  <2>3. \A b \in Actors : b # a => ~HasLock(b)
    BY <2>2 DEF IInv, HolderReconnects
  <2> QED BY <2>1, <2>2, <2>3
    DEF CallbackEnds, Proceed, envVars, IInv, TypeOK, HolderReconnects,
        DialsOnlyWhenDead, BrokenFirst, AttemptsLeft, HasLock, Reconnecting,
        SenderState, ListenerState
<1>b. CASE \E a \in Actors : CallbackBlocks(a)
  <2>1. PICK a \in Actors : CallbackBlocks(a)
    BY <1>b
  <2>2. /\ pc[a] = "callback" /\ pc' = [pc EXCEPT ![a] = "blocked"]
        /\ UNCHANGED <<link, stream, listening, lock, attempts>>
        /\ UNCHANGED <<server, breaks>>
    BY <2>1 DEF CallbackBlocks, envVars
  <2>3. waiters' \in Seq(Actors)
    BY <2>1 DEF CallbackBlocks, IInv, TypeOK
  <2> QED BY <2>2, <2>3
    DEF IInv, TypeOK, HolderReconnects, DialsOnlyWhenDead, BrokenFirst,
        AttemptsLeft, HasLock, Reconnecting, SenderState, ListenerState
<1>6. CASE \E s \in Senders : StartSend(s)
  <2>1. PICK s \in Senders : StartSend(s)
    BY <1>6
  <2>2. s \in Actors /\ ~HasLock(s)
    BY <2>1 DEF StartSend, HasLock, Reconnecting
  <2>3. CASE ~IsConnected /\ TakeLock(s)
    BY <2>1, <2>2, <2>3, TakeLockInv DEF StartSend
  <2>4. CASE Proceed(s) /\ UNCHANGED <<lock, waiters, attempts>>
    BY <2>1, <2>2, <2>4
    DEF StartSend, Proceed, envVars, IInv, TypeOK, HolderReconnects,
        DialsOnlyWhenDead, BrokenFirst, AttemptsLeft, HasLock, Reconnecting,
        SenderState, ListenerState
  <2> QED BY <2>1, <2>3, <2>4 DEF StartSend
<1>7. CASE \E s \in Senders : Write(s) \/ SendAgain(s)
  BY <1>7
  DEF Write, SendAgain, envVars, IInv, TypeOK, HolderReconnects,
      DialsOnlyWhenDead, BrokenFirst, AttemptsLeft, HasLock, Reconnecting,
      SenderState, ListenerState
<1>8. CASE \E s \in Senders : WriteFails(s)
  <2>1. PICK s \in Senders : WriteFails(s)
    BY <1>8
  <2>2. link' = "dead" /\ breaks' \in 0 .. MaxBreaks /\ BrokenFirst'
    BY <2>1 DEF WriteFails, IsConnected, IInv, TypeOK, BrokenFirst
  <2> QED BY <2>1, <2>2
    DEF WriteFails, IInv, TypeOK, HolderReconnects, DialsOnlyWhenDead,
        AttemptsLeft, HasLock, Reconnecting, SenderState, ListenerState
<1>9. CASE Break \/ Reset \/ ServerStarts
  <2>1. UNCHANGED <<stream, listening, pc, lock, waiters, attempts>>
        /\ server' \in BOOLEAN
    BY <1>9 DEF Break, Reset, ServerStarts, envVars, IInv, TypeOK
  <2>2. /\ link' \in {"up", "eof", "dead"}
        /\ breaks' \in 0 .. MaxBreaks
        /\ BrokenFirst'
    <3>1. CASE Break
      <4>1. stream <= breaks /\ breaks' = breaks + 1 /\ breaks < MaxBreaks
            /\ link' \in {"eof", "dead"} /\ stream' = stream
        BY <2>1, <3>1 DEF Break, IInv, TypeOK, BrokenFirst
      <4> QED BY <4>1 DEF IInv, TypeOK, BrokenFirst
    <3>2. CASE Reset
      BY <2>1, <3>2 DEF Reset, envVars, IInv, TypeOK, BrokenFirst
    <3>3. CASE ServerStarts
      BY <2>1, <3>3 DEF ServerStarts, IInv, TypeOK, BrokenFirst
    <3> QED BY <1>9, <3>1, <3>2, <3>3
  <2>3. link = "dead" => link' = "dead"
    BY <1>9 DEF Break, Reset, ServerStarts
  <2> QED BY <2>1, <2>2, <2>3
    DEF IInv, TypeOK, HolderReconnects, DialsOnlyWhenDead, AttemptsLeft,
        HasLock, Reconnecting
<1>10. CASE UNCHANGED vars
  BY <1>10
  DEF vars, flow, IInv, TypeOK, HolderReconnects, DialsOnlyWhenDead,
      BrokenFirst, AttemptsLeft, HasLock, Reconnecting
<1> QED
  BY <1>1, <1>2, <1>3, <1>4, <1>5, <1>b, <1>6, <1>7, <1>8, <1>9, <1>10
  DEF Next, ClientNext

\* The invariant the theorems below rest on.
THEOREM Inductive == Spec => []IInv
  BY InitInv, NextInv, PTL DEF Spec

\* Streams, tasks and the lock are well typed in every reachable state.
THEOREM Typed == Spec => []TypeOK
<1>1. IInv => TypeOK
  BY DEF IInv
<1> QED BY <1>1, Inductive, PTL

\* Of the tasks that call ensure_connected, one at a time reconnects: its
\* promise that "only one actual reconnection will take place".
THEOREM ReconnectsOneAtATime == Spec => []OneReconnection
<1>1. IInv => OneReconnection
  BY DEF IInv, HolderReconnects, HasLock, Reconnecting, OneReconnection
<1> QED BY <1>1, Inductive, PTL

\* ensure_connected never replaces a stream that is open for writing.
THEOREM StreamsAreKept == Spec => LiveStreamIsKept
<1>1. IInv /\ [Next]_vars => [stream' # stream => link = "dead"]_vars
  <2> SUFFICES ASSUME IInv, Next, stream' # stream PROVE link = "dead"
    OBVIOUS
  <2>1. PICK a \in Actors : DialSucceeds(a)
    BY DEF Next, ClientNext, ListenerNotices, Granted, DialFails,
           CallbackBlocks, CallbackEnds, StartSend, Write, WriteFails,
           SendAgain, Break, Reset, ServerStarts
  <2> QED BY <2>1 DEF DialSucceeds, IInv, DialsOnlyWhenDead
<1> QED BY <1>1, Inductive, PTL DEF Spec, LiveStreamIsKept
-----------------------------------------------------------------------------
(* Nobody waits for nobody.                                                *)

Queued(a) == \E i \in 1 .. Len(waiters) : waiters[i] = a

Waits == {"wait", "blocked"}

\* Who waits for the lock is in its queue, once.
InLine ==
  /\ \A a \in Actors : pc[a] \in Waits <=> Queued(a)
  /\ \A i, j \in 1 .. Len(waiters) : waiters[i] = waiters[j] => i = j
  /\ \A a \in Actors :
       pc[a] \in IF a = Listener THEN ListenerState ELSE SenderState

\* The tasks inside ensure_connected.
Inside(a) == pc[a] \in {"wait", "dial", "callback", "blocked"}

\* When DialSucceeds or DialFails, Granted, CallbackEnds and ListenerNotices
\* do happen, by the fairness assumed of them.
CanMove(a) ==
  \/ pc[a] = "dial"
  \/ lock = NoOne /\ waiters # <<>> /\ Head(waiters) = a
  \/ pc[a] = "callback" /\ Answerable
  \/ /\ a = Listener /\ pc[a] = "read"
     /\ listening # stream \/ link # "up"

NobodyIsStuck ==
  (\E a \in Actors : Inside(a)) \/ (link # "up" /\ ~Left)
    => Spins \/ Unanswered \/ Blocked \/ \E a \in Actors : CanMove(a)

\* A task that does not wait for the lock goes on to something else.
LEMMA GoesOn ==
  ASSUME TypeOK, InLine, NEW a \in Actors, NEW v,
         pc' = [pc EXCEPT ![a] = v], waiters' = waiters,
         pc[a] \notin Waits, v \notin Waits,
         v \in IF a = Listener THEN ListenerState ELSE SenderState
  PROVE  InLine'
<1>1. pc'[a] = v /\ \A b \in Actors : b # a => pc'[b] = pc[b]
  BY DEF TypeOK
<1> QED BY <1>1 DEF InLine, Queued

LEMMA Proceeds ==
  ASSUME TypeOK, InLine, NEW a \in Actors, Proceed(a) \/ GiveUp(a),
         pc[a] \notin Waits, waiters' = waiters
  PROVE  InLine'
<1>1. CASE a = Listener
  <2>1. PICK v \in {"read", "gone"} : pc' = [pc EXCEPT ![a] = v]
    BY <1>1 DEF Proceed, GiveUp
  <2>2. v \notin Waits /\ v \in ListenerState
    BY DEF Waits, ListenerState
  <2> QED BY <1>1, <2>1, <2>2, GoesOn
<1>2. CASE a # Listener
  <2>1. PICK v \in {"write", "failed"} : pc' = [pc EXCEPT ![a] = v]
    BY <1>2 DEF Proceed, GiveUp
  <2>2. v \notin Waits /\ v \in SenderState
    BY DEF Waits, SenderState
  <2> QED BY <1>2, <2>1, <2>2, GoesOn
<1> QED BY <1>1, <1>2

\* A task joins the queue.
LEMMA Joins ==
  ASSUME TypeOK, InLine, NEW a \in Actors, pc[a] \notin Waits,
         NEW v \in Waits,
         pc' = [pc EXCEPT ![a] = v], waiters' = Append(waiters, a)
  PROVE  InLine'
<1>1. pc'[a] = v /\ \A b \in Actors : b # a => pc'[b] = pc[b]
  BY DEF TypeOK
<1>2. /\ Len(waiters) \in Nat /\ Len(waiters') = Len(waiters) + 1
      /\ \A i \in 1 .. Len(waiters) : waiters'[i] = waiters[i]
      /\ waiters'[Len(waiters) + 1] = a
  BY AppendProperties, LenProperties DEF TypeOK
<1>3. \A i \in 1 .. Len(waiters) : waiters[i] # a
  BY DEF InLine, Queued
<1>4. \A b \in Actors : Queued(b)' <=> Queued(b) \/ b = a
  <2>1. \A i \in 1 .. Len(waiters') :
          i \in 1 .. Len(waiters) \/ i = Len(waiters) + 1
    BY <1>2
  <2>2. /\ \A i \in 1 .. Len(waiters) : i \in 1 .. Len(waiters')
        /\ Len(waiters) + 1 \in 1 .. Len(waiters')
    BY <1>2
  <2> QED BY <1>2, <2>1, <2>2 DEF Queued
<1>5. \A i, j \in 1 .. Len(waiters') : waiters'[i] = waiters'[j] => i = j
  BY <1>2, <1>3 DEF InLine
<1>6. v \in ListenerState /\ v \in SenderState
  BY DEF ListenerState, SenderState, Waits
<1> QED BY <1>1, <1>4, <1>5, <1>6 DEF InLine

\* The first one leaves it.
LEMMA Leaves ==
  ASSUME TypeOK, InLine, NEW a \in Actors, NEW v, v \notin Waits,
         pc' = [pc EXCEPT ![a] = v],
         waiters # <<>>, Head(waiters) = a, waiters' = Tail(waiters),
         v \in IF a = Listener THEN ListenerState ELSE SenderState
  PROVE  InLine'
<1>1. pc'[a] = v /\ \A b \in Actors : b # a => pc'[b] = pc[b]
  BY DEF TypeOK
<1>2. /\ Len(waiters) \in Nat /\ 1 \in 1 .. Len(waiters)
      /\ Len(waiters') = Len(waiters) - 1 /\ waiters[1] = a
      /\ \A i \in 1 .. Len(waiters') : waiters'[i] = waiters[i + 1]
  BY HeadTailProperties, EmptySeq, LenProperties DEF TypeOK
<1>3. \A i \in 1 .. Len(waiters) : waiters[i] = a => i = 1
  BY <1>2 DEF InLine
<1>4. \A b \in Actors : Queued(b)' <=> Queued(b) /\ b # a
  <2>1. \A i \in 1 .. Len(waiters') : i + 1 \in 1 .. Len(waiters) /\ i + 1 # 1
    BY <1>2
  <2>2. \A i \in 1 .. Len(waiters) :
          i # 1 => i - 1 \in 1 .. Len(waiters') /\ (i - 1) + 1 = i
    BY <1>2
  <2>3. ASSUME NEW b \in Actors, Queued(b)' PROVE Queued(b) /\ b # a
    BY <1>2, <1>3, <2>1, <2>3 DEF Queued
  <2>4. ASSUME NEW b \in Actors, Queued(b), b # a PROVE Queued(b)'
    <3>1. PICK i \in 1 .. Len(waiters) : waiters[i] = b
      BY <2>4 DEF Queued
    <3>2. i # 1
      BY <1>2, <2>4, <3>1
    <3>3. i - 1 \in 1 .. Len(waiters') /\ waiters'[i - 1] = b
      BY <1>2, <2>2, <3>1, <3>2
    <3> QED BY <3>3 DEF Queued
  <2> QED BY <2>3, <2>4
<1>5. \A i, j \in 1 .. Len(waiters') : waiters'[i] = waiters'[j] => i = j
  BY <1>2 DEF InLine
<1> QED BY <1>1, <1>4, <1>5 DEF InLine

LEMMA TakesLock ==
  ASSUME TypeOK, InLine, NEW a \in Actors, TakeLock(a), pc[a] \notin Waits
  PROVE  InLine'
<1>1. CASE lock = NoOne /\ waiters = <<>>
  <2>1. pc' = [pc EXCEPT ![a] = "dial"] /\ waiters' = waiters
    BY <1>1 DEF TakeLock
  <2>2. "dial" \in ListenerState /\ "dial" \in SenderState
        /\ "dial" \notin Waits
    BY DEF ListenerState, SenderState, Waits
  <2> QED BY <2>1, <2>2, GoesOn
<1>2. CASE ~(lock = NoOne /\ waiters = <<>>)
  BY <1>2, Joins DEF TakeLock, Waits
<1> QED BY <1>1, <1>2

LEMMA StepInLine == IInv /\ InLine /\ [Next]_vars => InLine'
<1> SUFFICES ASSUME IInv, InLine, [Next]_vars PROVE InLine'
  OBVIOUS
<1>0. TypeOK
  BY DEF IInv
<1> USE DEF Waits
<1>a. /\ {"read", "dial", "callback", "spin", "gone"} \subseteq ListenerState
      /\ {"write", "dial", "callback", "failed", "idle"} \subseteq SenderState
      /\ Listener \in Actors
      /\ \A s \in Senders : s \in Actors /\ s # Listener
  BY ActorsAssumption DEF ListenerState, SenderState, Actors
<1>1. CASE ListenerNotices
  <2>1. pc[Listener] = "read"
    BY <1>1 DEF ListenerNotices
  <2>2. CASE TakeLock(Listener)
    BY <1>0, <1>a, <2>1, <2>2, TakesLock
  <2>3. CASE Proceed(Listener) /\ UNCHANGED waiters
    BY <1>0, <1>a, <2>1, <2>3, Proceeds
  <2>4. CASE pc' = [pc EXCEPT ![Listener] = "spin"] /\ UNCHANGED waiters
    BY <1>0, <1>a, <2>1, <2>4, GoesOn
  <2> QED BY <1>1, <2>2, <2>3, <2>4 DEF ListenerNotices
<1>2. ASSUME NEW a \in Actors, Granted(a) PROVE InLine'
  <2> DEFINE v == IF pc' = [pc EXCEPT ![a] = "dial"] THEN "dial"
                  ELSE IF a = Listener THEN "read" ELSE "write"
  <2>1. /\ pc' = [pc EXCEPT ![a] = v]
        /\ waiters # <<>> /\ Head(waiters) = a /\ waiters' = Tail(waiters)
    BY <1>2 DEF Granted, Proceed
  <2>2. /\ v \notin Waits
        /\ v \in IF a = Listener THEN ListenerState ELSE SenderState
    BY <1>a
  <2> HIDE DEF v
  <2> QED BY <1>0, <2>1, <2>2, Leaves
<1>3. ASSUME NEW a \in Actors, DialSucceeds(a) PROVE InLine'
  <2>1. pc[a] = "dial" /\ waiters' = waiters
    BY <1>3 DEF DialSucceeds
  <2>2. CASE pc' = [pc EXCEPT ![a] = "callback"]
    BY <1>0, <1>a, <2>1, <2>2, GoesOn
  <2>3. CASE Proceed(a)
    BY <1>0, <1>a, <2>1, <2>3, Proceeds
  <2> QED BY <1>3, <2>2, <2>3 DEF DialSucceeds
<1>4. ASSUME NEW a \in Actors, DialFails(a) PROVE InLine'
  <2>1. pc[a] = "dial" /\ waiters' = waiters
    BY <1>4 DEF DialFails
  <2>2. CASE UNCHANGED pc
    BY <2>1, <2>2 DEF InLine, Queued
  <2>3. CASE GiveUp(a)
    BY <1>0, <2>1, <2>3, Proceeds
  <2> QED BY <1>4, <2>2, <2>3 DEF DialFails
<1>5. ASSUME NEW a \in Actors, CallbackEnds(a) PROVE InLine'
  BY <1>0, <1>5, Proceeds DEF CallbackEnds
<1>b. ASSUME NEW a \in Actors, CallbackBlocks(a) PROVE InLine'
  BY <1>0, <1>b, Joins DEF CallbackBlocks
<1>6. ASSUME NEW s \in Senders, StartSend(s) PROVE InLine'
  <2>1. pc[s] = "idle"
    BY <1>6 DEF StartSend
  <2>2. CASE TakeLock(s)
    BY <1>0, <1>a, <2>1, <2>2, TakesLock
  <2>3. CASE Proceed(s) /\ UNCHANGED waiters
    BY <1>0, <1>a, <2>1, <2>3, Proceeds
  <2> QED BY <1>6, <2>2, <2>3 DEF StartSend
<1>7. ASSUME NEW s \in Senders, Write(s) \/ WriteFails(s) \/ SendAgain(s)
      PROVE  InLine'
  BY <1>0, <1>7, <1>a, GoesOn DEF Write, WriteFails, SendAgain
<1>8. CASE Break \/ Reset \/ ServerStarts
  BY <1>8 DEF Break, Reset, ServerStarts, InLine, Queued
<1>9. CASE UNCHANGED vars
  BY <1>9 DEF vars, flow, InLine, Queued
<1> QED
  BY <1>1, <1>2, <1>3, <1>4, <1>5, <1>b, <1>6, <1>7, <1>8, <1>9
  DEF Next, ClientNext

\* ensure_connected does not deadlock, for any number of tasks: while one is
\* inside, or the connection is lost and the loop has not left, somebody can
\* take a step, but for the three ways named: the loop spins, on_reconnect
\* waits for an answer nobody reads, or a call of it waits for the lock its own
\* task holds.  The safety half of Reconnects and SendsEnd.
THEOREM EnsureConnectedDoesNotDeadlock == Spec => []NobodyIsStuck
<1>1. Init => InLine
  <2> SUFFICES ASSUME Init PROVE InLine
    OBVIOUS
  <2>1. 1 .. Len(waiters) = {}
    BY DEF Init
  <2>2. \A a \in Actors :
          pc[a] = IF a = Listener THEN "read" ELSE "idle"
    BY DEF Init
  <2> QED BY <2>1, <2>2
    DEF InLine, Waits, Queued, ListenerState, SenderState
<1>2. Spec => []InLine
  BY <1>1, Inductive, StepInLine, PTL DEF Spec
<1>3. IInv /\ InLine => NobodyIsStuck
  <2> SUFFICES ASSUME IInv, InLine, ~Spins, ~Unanswered, ~Blocked,
                      (\E a \in Actors : Inside(a)) \/ (link # "up" /\ ~Left)
               PROVE  \E a \in Actors : CanMove(a)
    BY DEF NobodyIsStuck
  <2>1. Listener \in Actors /\ pc[Listener] \in ListenerState
    BY DEF InLine, Actors
  <2>2. CASE lock \in Actors
    <3>1. CASE pc[lock] = "dial"
      BY <2>2, <3>1 DEF CanMove
    <3>2. CASE pc[lock] = "callback"
      <4>1. CASE sweeping
        BY <2>2, <3>2, <4>1 DEF CanMove, Answerable
      <4>2. CASE ~sweeping
        <5>1. pc[Listener] \in {"read", "dial"}
          BY <2>1, <2>2, <3>2, <4>2
          DEF ListenerState, Unanswered, Spins, Blocked
        <5> QED BY <2>1, <2>2, <3>2, <5>1 DEF CanMove, Answerable
      <4> QED BY <4>1, <4>2
    <3>3. pc[lock] # "blocked"
      BY <2>2 DEF Blocked
    <3> QED BY <2>2, <3>1, <3>2, <3>3
      DEF IInv, HolderReconnects, HasLock, Reconnecting
  <2>3. CASE lock \notin Actors
    <3>1. lock = NoOne /\ \A a \in Actors : ~HasLock(a)
      BY <2>3 DEF IInv, TypeOK, HolderReconnects
    <3>2. CASE waiters # <<>>
      <4>1. Head(waiters) \in Actors
        BY <3>2, HeadTailProperties DEF IInv, TypeOK
      <4> QED BY <3>1, <3>2, <4>1 DEF CanMove
    <3>3. CASE waiters = <<>>
      <4>1. \A a \in Actors : ~Inside(a)
        BY <3>1, <3>3
        DEF InLine, Waits, Queued, Inside, HasLock, Reconnecting
      <4>2. link # "up" /\ pc[Listener] = "read"
        BY <2>1, <4>1 DEF ListenerState, Inside, Spins, Left
      <4> QED BY <2>1, <4>2 DEF CanMove
    <3> QED BY <3>2, <3>3
  <2> QED BY <2>2, <2>3
<1> QED BY <1>2, <1>3, Inductive, PTL
=============================================================================
