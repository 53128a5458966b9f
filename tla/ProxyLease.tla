----------------------------- MODULE ProxyLease -----------------------------
(***************************************************************************)
(* How long an exposed object lives (rpc.py).  A host holds proxies of     *)
(* objects that its peers expose, and has one Client for each peer.  A     *)
(* peer forgets an object that nobody re-registered for three times        *)
(* _gcTimeLimit (removeOutdatedProxyObject); the holder re-registers what  *)
(* it holds by asking the peers one after the other (autoReRegister).      *)
(* Both run in the periodic tasks of autoCheck.                            *)
(*                                                                         *)
(* A tick is the interval of those tasks, three seconds.  Ids belong to    *)
(* one peer each, as the README requires of host names.  A proxy dies when *)
(* the program drops its last reference: RemoteProxyManager keeps only a   *)
(* weak one.                                                               *)
(***************************************************************************)
EXTENDS Naturals, FiniteSets, SequencesExt

CONSTANTS
  Clients,      \* the holder's clients, one for each peer
  Ids,          \* ids of the objects the peers expose
  Home,         \* the client that leads to the peer of each id
  Limit,        \* _connectionLimit in ticks: 10
  Expiry        \* three times _gcTimeLimit in ticks: 30

ASSUME ClientsAssumption == IsFiniteSet(Clients)
ASSUME HomeAssumption == Home \in [Ids -> Clients]
ASSUME LimitAssumption == Limit \in Nat
ASSUME ExpiryAssumption == Expiry \in Nat

VARIABLES
  exposed,      \* at the peer: "new", "registered" or "deleted"
  age,          \* ticks since lastRegistered, counted up to Expiry + 1
  sent,         \* ids whose descriptors are on their way to the holder
  live,         \* ids whose proxy the program still refers to
  clientMap,    \* RemoteProxyManager.clientMap, {} for no entry
  order,        \* the clients with an entry, in the dictionary's order
  task,         \* the periodic autoReRegister
  timer,        \* ticks since it went to sleep or made its request
  todo,         \* the rest of list(clientMap.items()), the asked one first
  asked,        \* toReRegister of the request last made
  wire,         \* where that request is
  grew,         \* a host was added while the task iterated over _options
  secured       \* ids re-registered since their living proxy was received,
                \* and since a send last outlasted the limit

peer == <<exposed, age>>
proxies == <<live, clientMap, order>>
pass == <<task, timer, todo, asked, wire, grew>>
vars == <<exposed, age, sent, live, clientMap, order, task, timer, todo,
          asked, wire, grew, secured>>

Registered == {i \in Ids : exposed[i] = "registered"}

\* The task is in waitForRequest: in its send, or waiting for the future.
InRequest == task \in {"sending", "waiting"}

Init ==
  /\ exposed = [i \in Ids |-> "new"]
  /\ age = [i \in Ids |-> 0]
  /\ sent = {}
  /\ live = {}
  /\ clientMap = [c \in Clients |-> {}]
  /\ order = <<>>
  /\ task = "asleep"
  /\ timer = 0
  /\ todo = <<>>
  /\ asked = {}
  /\ wire = "none"
  /\ grew = FALSE
  /\ secured = {}

-----------------------------------------------------------------------------
(* Proxies come and go.                                                    *)

\* asProxy at the peer: an object registered before keeps its old time.
SendDescriptor(i) ==
  /\ exposed[i] # "deleted"
  /\ exposed' = [exposed EXCEPT ![i] = "registered"]
  /\ sent' = sent \cup {i}
  /\ UNCHANGED <<age, proxies, pass, secured>>

\* Listing the client each time: a mutant of Listed.
ListsAgain(c) == Append(order, c)

\* The clients of clientMap after an id of client c was set.
Listed(c) == IF c \in Range(order) THEN order ELSE Append(order, c)

\* transformArg and reverseToArgObj: the cached proxy or a new one, tracked
\* under the client either way (RemoteProxyManager.set).
Receive(i) ==
  /\ i \in sent
  /\ sent' = sent \ {i}
  /\ live' = live \cup {i}
  /\ clientMap' = [clientMap EXCEPT ![Home[i]] = @ \cup {i}]
  /\ order' = Listed(Home[i])
  /\ UNCHANGED <<peer, pass, secured>>

\* The program lets the proxy go; nothing tells the manager.
Drop(i) ==
  /\ i \in live
  /\ live' = live \ {i}
  /\ secured' = secured \ {i}
  /\ UNCHANGED <<peer, sent, clientMap, order, pass>>

-----------------------------------------------------------------------------
(* The holder's pass: from one await to the next is one step.              *)

\* Two mutants of Kept: the test reversed, and nothing discarded.
KeepsTheDead(c) == clientMap[c] \ live

KeepsAll(c) == clientMap[c]

\* The ids that are still alive; RemoteProxyManager.get forgets the others.
Kept(c) == clientMap[c] \cap live

\* One turn of the loop over the clients: prune, then make the request, even
\* if nothing is left to ask for.
Ask(clients) ==
  LET c == Head(clients) IN
    /\ clients # <<>>
    /\ clientMap' = [clientMap EXCEPT ![c] = Kept(c)]
    /\ order' = IF Kept(c) = {} THEN RemoveFirst(order, c) ELSE order
    /\ asked' = Kept(c)
    /\ wire' = "none"
    /\ todo' = clients
    /\ task' = "sending"
    /\ timer' = 0
    /\ UNCHANGED grew

\* The last client was asked.  A dictionary that grew under its iterator
\* raises RuntimeError, which ends the task.
PassEnds(clients) ==
  /\ clients = <<>>
  /\ task' = IF grew THEN "ended" ELSE "asleep"
  /\ timer' = 0
  /\ todo' = <<>>
  /\ grew' = FALSE
  /\ UNCHANGED <<clientMap, order, asked, wire>>

\* _periodic wakes up and calls autoReRegister.
StartPass ==
  /\ task = "asleep"
  /\ timer = 1
  /\ Ask(order) \/ PassEnds(order)
  /\ UNCHANGED <<peer, sent, live, secured>>

\* The sender writes the request, once it is connected.
Write ==
  /\ task \in {"sending", "hung"}
  /\ wire = "none"
  /\ wire' = "request"
  /\ UNCHANGED <<peer, sent, proxies, task, timer, todo, asked, grew, secured>>

\* The reply to waitForRequest arrives.
Answered ==
  /\ task = "waiting"
  /\ wire = "reply"
  /\ Ask(Tail(todo)) \/ PassEnds(Tail(todo))
  /\ UNCHANGED <<peer, sent, live, secured>>

\* The pass goes no further.
GivesUp ==
  /\ timer' = 0 /\ todo' = <<>> /\ grew' = FALSE
  /\ UNCHANGED <<peer, sent, proxies, asked, wire, secured>>

\* Whatever waitForRequest raises leaves autoReRegister and _periodic: no
\* pass begins ever again.
TaskEnds == task' = "ended" /\ GivesUp

\* The send raised, or the peer answered with an error.
RequestFails == (InRequest \/ task = "hung") /\ TaskEnds

\* `await result` of the sender is over; if the sweep settled the future
\* meanwhile, `await future` raises what it put there.
SendReturns ==
  /\ wire # "none"
  /\ \/ /\ task = "sending" /\ task' = "waiting"
        /\ UNCHANGED <<peer, sent, proxies, timer, todo, asked, wire, grew,
                       secured>>
     \/ task = "hung" /\ TaskEnds

\* _killTimeoutConnection settles the future with TimeoutError.
RequestTimesOut == task = "waiting" /\ timer > Limit /\ TaskEnds

\* It does so while the task is still in the send, which goes on, perhaps for
\* ever: ensure_connected tries again without limit.
SendTimesOut ==
  task = "sending" /\ timer > Limit /\ task' = "hung" /\ GivesUp

\* _getOrCreateOption adds a host while the pass awaits.
NewHost ==
  /\ InRequest
  /\ grew' = TRUE
  /\ UNCHANGED <<peer, sent, proxies, task, timer, todo, asked, wire, secured>>

-----------------------------------------------------------------------------
(* The peers.                                                              *)

\* ObjectOfProxyManager.reRegister: ids it does not know are skipped.
Renewed == asked \cap Registered

\* main0's reRegister runs and is answered.
Deliver ==
  /\ wire = "request"
  /\ wire' = "reply"
  /\ age' = [i \in Ids |-> IF i \in Renewed THEN 0 ELSE age[i]]
  /\ secured' = secured \cup (Renewed \cap live)
  /\ UNCHANGED <<exposed, sent, proxies, task, timer, todo, asked, grew>>

\* One tick early: a mutant of Outdated.
OutdatedEarly(c) == {i \in Registered : Home[i] = c /\ age[i] >= Expiry}

Outdated(c) == {i \in Registered : Home[i] = c /\ age[i] > Expiry}

\* removeOutdatedProxyObject at the peer of client c.
RemoveOutdated(c) ==
  /\ Outdated(c) # {}
  /\ exposed' = [i \in Ids |->
                   IF i \in Outdated(c) THEN "deleted" ELSE exposed[i]]
  /\ UNCHANGED <<age, sent, proxies, pass, secured>>

\* Only a send whose request was answered, and which thus has no entry in
\* requestPendingDict any more, outlasts the limit unnoticed by the sweep.
Overtime == task = "sending" /\ timer > Limit

\* Three seconds pass.  The periodic tasks run when they are due: nothing waits
\* for longer than the limit and one sweep, no sleep is longer than a tick.
\* But a send lasts as long as it takes.
Tick ==
  /\ task = "asleep" => timer < 1
  /\ InRequest => timer <= Limit \/ (task = "sending" /\ wire = "reply")
  /\ timer' = IF task \in {"hung", "ended"} \/ Overtime THEN timer
              ELSE timer + 1
  /\ age' = [i \in Ids |->
               IF i \in Registered /\ age[i] <= Expiry
               THEN age[i] + 1 ELSE age[i]]
  /\ secured' = IF Overtime THEN {} ELSE secured
  /\ UNCHANGED <<exposed, sent, proxies, task, todo, asked, wire, grew>>

-----------------------------------------------------------------------------

Next ==
  \/ \E i \in Ids : SendDescriptor(i) \/ Receive(i) \/ Drop(i)
  \/ StartPass \/ Write \/ SendReturns \/ Answered
  \/ RequestFails \/ RequestTimesOut \/ SendTimesOut \/ NewHost
  \/ Deliver
  \/ \E c \in Clients : RemoveOutdated(c)
  \/ Tick

Spec == Init /\ [][Next]_vars

\* Time passes and the periodic tasks run; a send need not end, and a peer
\* need not answer.
Fairness ==
  /\ WF_vars(Tick)
  /\ WF_vars(StartPass)
  /\ WF_vars(RequestTimesOut)
  /\ WF_vars(SendTimesOut /\ wire # "reply")
  /\ \A c \in Clients : WF_vars(RemoveOutdated(c))

FairSpec == Spec /\ Fairness

SenderFairness == WF_vars(Write) /\ WF_vars(SendReturns)

-----------------------------------------------------------------------------
(* Properties.                                                             *)

\* The types; a client is listed, and visited by a pass, once.
TypeOK ==
  /\ exposed \in [Ids -> {"new", "registered", "deleted"}]
  /\ age \in [Ids -> 0 .. Expiry + 1]
  /\ sent \subseteq Ids
  /\ live \subseteq Ids
  /\ clientMap \in [Clients -> SUBSET Ids]
  /\ order \in Seq(Clients) /\ IsInjective(order)
  /\ task \in {"asleep", "sending", "waiting", "hung", "ended"}
  /\ timer \in 0 .. Limit + 1
  /\ todo \in Seq(Clients) /\ IsInjective(todo)
  /\ asked \subseteq Ids
  /\ wire \in {"none", "request", "reply"}
  /\ grew \in BOOLEAN
  /\ secured \subseteq Ids

\* However proxies die, come back and are pruned while a pass waits for its
\* peers, a proxy the program holds is in the set of its client, the
\* dictionary lists exactly the clients whose set is not empty, and a pass
\* finds the clients it has yet to visit still listed (del clientMap[client]
\* raises no KeyError).
LiveIsTracked ==
  /\ \A i \in live : i \in clientMap[Home[i]]
  /\ Range(order) = {c \in Clients : clientMap[c] # {}}
  /\ InRequest => Range(Tail(todo)) \subseteq Range(order)

\* A pass over every client and one more wait fit into the expiry.  With the
\* program's constants they do for one client (23 of 30 ticks) and do not
\* for two (34): then peers that answer late can let the others' expire.
Timely == (Cardinality(Clients) + 1) * (Limit + 1) + 1 <= Expiry

\* What re-registration promises: an id that was re-registered once stays
\* registered for as long as its proxy is held and the task goes round.  It
\* does not if a send outlasts the limit, of which nobody learns.
HeldIsKept ==
  Timely /\ task \notin {"hung", "ended"} => secured \subseteq Registered

\* An object that no proxy and no descriptor refers to is forgotten by its
\* peer, whether the holder's task still runs or not, unless its descriptor
\* is sent again.
Reclaimed ==
  \A i \in Ids :
    i \in Registered \ (live \cup sent) ~>
      i \notin Registered \/ i \in live \cup sent

\* autoCheck: "Start periodic maintenance tasks (GC, timeout killing,
\* re-registration)": re-registration goes on for ever, if sends end.
KeepsRenewing == SenderFairness => []<>(task = "asleep")
=============================================================================
