--------------------------- MODULE TcpConnection ----------------------------
(***************************************************************************)
(* The client end of xuri_rpc_tcp/tcp_sender.py: TcpBinarySender.send and  *)
(* the receive loop _listen share one stream, and both renew it through    *)
(* ensure_connected and its lock.  What travels is left out: a send writes *)
(* a frame or fails, and the loop reads from a stream or has lost it.      *)
(***************************************************************************)
EXTENDS Naturals, Sequences

CONSTANTS
  Senders,     \* tasks that call send()
  Listener,    \* the task of _listen()
  NoOne,       \* holder of a free lock
  MaxBreaks,   \* bounds how often the connection breaks
  Closes,      \* how: "fin" (the peer closes or exits), "rst" (it is reset)
  Setups       \* how the client may be set up: <<maxRetries, callsBack,
               \* sweeping>>

Actors == Senders \cup {Listener}

ASSUME ActorsAssumption == Listener \notin Senders /\ NoOne \notin Actors
ASSUME BoundsAssumption == MaxBreaks \in Nat
ASSUME SetupsAssumption == Setups \subseteq Nat \X BOOLEAN \X BOOLEAN
ASSUME ClosesAssumption == Closes \subseteq {"fin", "rst"}

VARIABLES
  maxRetries, \* max_retries; 0 is "reconnect forever"
  callsBack,  \* whether on_reconnect awaits a call to the server
  sweeping,   \* whether autoCheck was called, so that calls time out
  link,       \* of the current stream: "up", "eof" (half open), "dead"
  stream,     \* the number of the current stream, self.stream
  listening,  \* the number of the stream _listen reads
  server,     \* whether the server accepts connections
  pc,         \* where each task is
  lock,       \* holder of _reconnect_lock
  waiters,    \* tasks waiting for it; asyncio.Lock is first come first served
  attempts,   \* failed attempts of the holder
  breaks      \* breaks so far

setup == <<maxRetries, callsBack, sweeping>>
flow ==
  <<link, stream, listening, server, pc, lock, waiters, attempts, breaks>>
vars == <<setup, flow>>
envVars == <<server, breaks>>

SenderState ==
  {"idle", "wait", "dial", "callback", "blocked", "write", "failed"}
ListenerState ==
  {"read", "wait", "dial", "callback", "blocked", "spin", "gone"}

Init ==
  /\ \E s \in Setups :
       maxRetries = s[1] /\ callsBack = s[2] /\ sweeping = s[3]
  /\ link = "up" /\ stream = 0 /\ listening = 0
  /\ server = TRUE
  /\ pc = [a \in Actors |-> IF a = Listener THEN "read" ELSE "idle"]
  /\ lock = NoOne /\ waiters = <<>> /\ attempts = 0
  /\ breaks = 0

\* _is_connected: `not writer.is_closing()`.  After the peer's FIN asyncio
\* keeps the transport open for writing, and is_closing() stays False.
IsConnected == link \in {"up", "eof"}

\* While _listen spins, it never suspends: no other task of the program runs.
LoopRuns == pc[Listener] # "spin"
-----------------------------------------------------------------------------
(* ensure_connected *)

\* As a loop that kept the reader it had: a mutant of Proceed.
KeepsReader(a) ==
  /\ pc' = [pc EXCEPT ![a] = IF a = Listener THEN "read" ELSE "write"]
  /\ UNCHANGED listening

\* What a task does once ensure_connected returned: the loop reads from the
\* current stream, a sender writes to it.
Proceed(a) ==
  /\ pc' = [pc EXCEPT ![a] = IF a = Listener THEN "read" ELSE "write"]
  /\ listening' = IF a = Listener THEN stream' ELSE listening

\* What it does once ensure_connected raised ConnectionError: the loop logs
\* and returns, a send fails.
GiveUp(a) ==
  /\ pc' = [pc EXCEPT ![a] = IF a = Listener THEN "gone" ELSE "failed"]
  /\ UNCHANGED listening

\* Without the lock: a mutant of TakeLock.
SkipsLock(a) ==
  /\ lock' = a /\ attempts' = 0
  /\ pc' = [pc EXCEPT ![a] = "dial"]
  /\ UNCHANGED <<listening, waiters>>

\* `async with self._reconnect_lock`, by a task that found no connection
TakeLock(a) ==
  IF lock = NoOne /\ waiters = <<>>
  THEN /\ lock' = a /\ attempts' = 0
       /\ pc' = [pc EXCEPT ![a] = "dial"]
       /\ UNCHANGED <<listening, waiters>>
  ELSE /\ waiters' = Append(waiters, a)
       /\ pc' = [pc EXCEPT ![a] = "wait"]
       /\ UNCHANGED <<listening, lock, attempts>>

\* Without the second look: a mutant of Granted.
DialsAgain(a) ==
  /\ lock = NoOne
  /\ waiters # <<>> /\ Head(waiters) = a
  /\ waiters' = Tail(waiters)
  /\ lock' = a /\ attempts' = 0
  /\ pc' = [pc EXCEPT ![a] = "dial"]
  /\ UNCHANGED <<listening, link, stream, envVars>>

\* The lock comes to the first waiter, which looks again: another task may
\* have reconnected meanwhile.
Granted(a) ==
  /\ lock = NoOne
  /\ waiters # <<>> /\ Head(waiters) = a
  /\ waiters' = Tail(waiters)
  /\ UNCHANGED <<link, stream, envVars>>
  /\ \/ /\ IsConnected
        /\ UNCHANGED <<lock, attempts>>
        /\ Proceed(a)
     \/ /\ ~IsConnected
        /\ lock' = a /\ attempts' = 0
        /\ pc' = [pc EXCEPT ![a] = "dial"]
        /\ UNCHANGED listening

\* Returning with the lock held: a mutant of DialSucceeds.
KeepsLock(a) ==
  /\ pc[a] = "dial" /\ server
  /\ link' = "up" /\ stream' = stream + 1
  /\ Proceed(a)
  /\ UNCHANGED <<lock, waiters, attempts, envVars>>

\* open_connection succeeds; on_reconnect runs before the lock is released.
DialSucceeds(a) ==
  /\ pc[a] = "dial" /\ server
  /\ link' = "up" /\ stream' = stream + 1
  /\ IF callsBack
     THEN /\ pc' = [pc EXCEPT ![a] = "callback"]
          /\ UNCHANGED <<listening, lock>>
     ELSE lock' = NoOne /\ Proceed(a)
  /\ UNCHANGED <<waiters, attempts, envVars>>

\* Counting without comparing: a mutant of DialFails.
NeverGivesUp(a) ==
  /\ pc[a] = "dial" /\ ~server
  /\ attempts' = attempts + 1
  /\ UNCHANGED <<link, stream, listening, pc, lock, waiters, envVars>>

\* It fails: sleep and try again, or give up after max_retries attempts.
DialFails(a) ==
  /\ pc[a] = "dial" /\ ~server
  /\ IF maxRetries > 0 /\ attempts + 1 = maxRetries
     THEN lock' = NoOne /\ GiveUp(a) /\ UNCHANGED attempts
     ELSE /\ attempts' = IF maxRetries > 0 THEN attempts + 1 ELSE 0
          /\ UNCHANGED <<pc, listening, lock>>
  /\ UNCHANGED <<link, stream, waiters, envVars>>

\* What on_reconnect awaits will come: an answer, through _listen, or the end
\* of its call in the sweep.
Answerable ==
  sweeping \/ (pc[Listener] = "read" /\ listening = stream /\ link = "up")

\* The new connection is lost before on_reconnect makes its call, or between
\* two of them: the send of that call enters ensure_connected and queues for
\* the lock that its own task holds.  Nothing gets it out, for the sweep
\* settles the future of the call, which this task does not await yet.
CallbackBlocks(a) ==
  /\ pc[a] = "callback" /\ ~IsConnected
  /\ pc' = [pc EXCEPT ![a] = "blocked"]
  /\ waiters' = Append(waiters, a)
  /\ UNCHANGED <<link, stream, listening, lock, attempts, envVars>>

\* on_reconnect ends: its calls were answered or timed out, or the send of
\* one raised (which is logged).
CallbackEnds(a) ==
  /\ pc[a] = "callback"
  /\ lock' = NoOne
  /\ UNCHANGED <<link, stream, waiters, attempts, envVars>>
  /\ Proceed(a)
-----------------------------------------------------------------------------
(* _listen and send *)

\* readexactly raises: the stream ended, was reset or was replaced.
ListenerNotices ==
  /\ pc[Listener] = "read"
  /\ listening # stream \/ link # "up"
  /\ UNCHANGED <<link, stream, envVars>>
  /\ \/ /\ ~IsConnected
        /\ TakeLock(Listener)
     \/ /\ IsConnected /\ listening # stream
        /\ Proceed(Listener)
        /\ UNCHANGED <<lock, waiters, attempts>>
     \* ensure_connected returns at once and readexactly raises at once,
     \* the stream being at its end: the loop goes on without suspending.
     \/ /\ link = "eof" /\ listening = stream
        /\ pc' = [pc EXCEPT ![Listener] = "spin"]
        /\ UNCHANGED <<listening, lock, waiters, attempts>>

StartSend(s) ==
  /\ pc[s] = "idle"
  /\ UNCHANGED <<link, stream, envVars>>
  /\ \/ /\ IsConnected
        /\ Proceed(s)
        /\ UNCHANGED <<lock, waiters, attempts>>
     \/ ~IsConnected /\ TakeLock(s)

\* The frame is written and drained; on a half open stream it goes nowhere.
Write(s) ==
  /\ pc[s] = "write" /\ IsConnected
  /\ pc' = [pc EXCEPT ![s] = "idle"]
  /\ UNCHANGED <<link, stream, listening, lock, waiters, attempts, envVars>>

\* write() or drain() finds the connection lost: send raises.
WriteFails(s) ==
  /\ pc[s] = "write"
  /\ \/ link = "dead" /\ UNCHANGED <<link, breaks>>
     \/ /\ IsConnected /\ breaks < MaxBreaks
        /\ link' = "dead" /\ breaks' = breaks + 1
  /\ pc' = [pc EXCEPT ![s] = "failed"]
  /\ UNCHANGED <<stream, listening, lock, waiters, attempts, server>>

\* waitForRequest passes the error on, and the program may call again.
SendAgain(s) ==
  /\ pc[s] = "failed"
  /\ pc' = [pc EXCEPT ![s] = "idle"]
  /\ UNCHANGED <<link, stream, listening, lock, waiters, attempts, envVars>>
-----------------------------------------------------------------------------
(* The peer and the network. *)

\* The connection breaks, perhaps because the server stops.
Break ==
  /\ link = "up" /\ breaks < MaxBreaks
  /\ breaks' = breaks + 1
  /\ \/ "rst" \in Closes /\ link' = "dead"
     \/ "fin" \in Closes /\ link' = "eof"
  /\ server' \in {server, FALSE}
  /\ UNCHANGED <<stream, listening, pc, lock, waiters, attempts>>

\* A write on a half open stream is answered by a reset.
Reset ==
  /\ link = "eof" /\ link' = "dead"
  /\ UNCHANGED <<stream, listening, pc, lock, waiters, attempts, envVars>>

ServerStarts ==
  /\ ~server /\ server' = TRUE
  /\ UNCHANGED <<link, stream, listening, pc, lock, waiters, attempts, breaks>>

\* Breaks are steps of the program's event loop, which is told of them.
ClientNext ==
  /\ LoopRuns
  /\ \/ ListenerNotices
     \/ \E a \in Actors :
          \/ Granted(a) \/ DialSucceeds(a) \/ DialFails(a)
          \/ CallbackBlocks(a) \/ CallbackEnds(a)
     \/ \E s \in Senders :
          StartSend(s) \/ Write(s) \/ WriteFails(s) \/ SendAgain(s)
     \/ Break \/ Reset

Next == UNCHANGED setup /\ (ClientNext \/ ServerStarts)

Spec == Init /\ [][Next]_vars

\* Tasks that can run do, unless one keeps the event loop; a stopped server
\* is started again.
Fairness ==
  /\ WF_flow(LoopRuns /\ ListenerNotices)
  /\ \A a \in Actors :
       /\ WF_flow(LoopRuns /\ Granted(a))
       /\ WF_flow(LoopRuns /\ (DialSucceeds(a) \/ DialFails(a)))
       /\ WF_flow(LoopRuns /\ Answerable /\ CallbackEnds(a))
  /\ \A s \in Senders :
       WF_flow(LoopRuns /\ (Write(s) \/ WriteFails(s)))
  /\ WF_flow(ServerStarts)

FairSpec == Spec /\ Fairness
-----------------------------------------------------------------------------
TypeOK ==
  /\ maxRetries \in Nat /\ callsBack \in BOOLEAN /\ sweeping \in BOOLEAN
  /\ link \in {"up", "eof", "dead"}
  /\ stream \in 0 .. MaxBreaks
  /\ listening \in 0 .. stream
  /\ server \in BOOLEAN
  /\ pc \in [Actors -> SenderState \cup ListenerState]
  /\ lock \in Actors \cup {NoOne}
  /\ waiters \in Seq(Actors)
  /\ attempts \in 0 .. maxRetries
  /\ breaks \in 0 .. MaxBreaks

\* The places between taking the lock and giving it back.
Reconnecting == {"dial", "callback", "blocked"}

\* "Only one actual reconnection will take place" (ensure_connected): one
\* task dials, or runs on_reconnect, at a time.
OneReconnection ==
  \A a, b \in Actors :
    pc[a] \in Reconnecting /\ pc[b] \in Reconnecting => a = b

\* "the other callers wait and return once the connection is restored": a
\* stream is replaced only when it is closed.
LiveStreamIsKept == [][stream' # stream => link = "dead"]_vars

\* What may end the connection for good: _listen spins on the end of the
\* stream and nothing else runs; it returned, as max_retries was reached;
\* nobody reads the answer on_reconnect awaits and no sweep will end its call;
\* or a call of on_reconnect waits for the lock its own task holds.
Spins == pc[Listener] = "spin"
Left == pc[Listener] = "gone"
Unanswered ==
  /\ ~sweeping
  /\ \E a \in Actors : pc[a] = "callback"
  /\ pc[Listener] \in {"wait", "callback", "gone"}
Blocked == \E a \in Actors : pc[a] = "blocked"

\* "When the background listen loop detects a closed connection, it reconnects
\* and continues receiving" (createMain): nothing else keeps a connection from
\* coming back, nor the loop from reading the stream it comes back with.
Reconnects ==
  link # "up" ~> link = "up" \/ Spins \/ Left \/ Unanswered \/ Blocked

Heard ==
  link = "up" ~> \/ pc[Listener] = "read" /\ listening = stream
                 \/ link # "up" \/ Spins \/ Left \/ Unanswered \/ Blocked

\* Every send ends, if only with an exception, even if the loop has left: but
\* for the loop that spins and the calls of on_reconnect.
SendsEnd ==
  \A s \in Senders :
    pc[s] \in {"wait", "dial", "callback", "write"}
      ~> pc[s] \in {"idle", "failed"} \/ Spins \/ Unanswered \/ Blocked

\* The same sentence of createMain, as it stands.
AlwaysReconnects == link # "up" ~> link = "up"
=============================================================================
