------------------------------ MODULE Dispatch ------------------------------
(***************************************************************************)
(* How a MessageReceiver of xuri_rpc/rpc.py serves requests: the request   *)
(* branch of onReceiveMessage from the decoding of the arguments to the    *)
(* reply, and between them withContext, the chain of interceptors.         *)
(* Interceptors are the program's and may do what they like with `next`:   *)
(* await it, start a task of it, call it again or not at all; they may set *)
(* the result, raise, and catch what is raised below them.  Those that     *)
(* await it once and do no more than that are orderly.                     *)
(*                                                                         *)
(* An executor of the chain awaits the one it called, so a task's frames   *)
(* are a range of positions in `interceptors`, of which the last one runs. *)
(*                                                                         *)
(* What the translators and the transport make of a value is a parameter:  *)
(* Arguments defines it, and MCDispatch puts the two together.             *)
(***************************************************************************)
EXTENDS Naturals

CONSTANTS
  Requests,
  Receivers,     \* MessageReceivers of one host: they share its objects
  None,          \* no result, no receiver, no task
  Set,           \* result that an interceptor set
  Failed,        \* reply with status -1
  Missing,       \* reply with status 100
  Pending,       \* no reply yet
  MaxChain,      \* bounds the interceptors of a receiver
  MaxTasks,      \* bounds the tasks of a request
  MaxAgain,      \* bounds how often next is called again for a request
  Given,         \* what callers pass as an argument
  Wires,         \* transports: "cbor", "text"
  Encode(_),     \* Client.toArgObj
  Carry(_, _, _),  \* what arrives of a value: transport, value, what it is in
  Refuses(_),    \* whether Client.reverseToArgObj raises
  Decode(_),     \* Client.reverseToArgObj
  Promise(_),    \* what the documentation says a value arrives as
  Clear(_, _)    \* over this transport, is it like nothing else

Tasks == 1 .. MaxTasks
Main == 1

ASSUME ChainAssumption == MaxChain \in Nat /\ MaxAgain \in Nat
ASSUME TasksAssumption == MaxTasks \in Nat \ {0}
ASSUME SentinelAssumption ==
  /\ None \notin Receivers
  /\ Requests \cap {None, Set, Failed, Missing, Pending} = {}
  /\ Pending \notin {None, Set, Failed, Missing}

VARIABLES
  wire,          \* the transport
  interceptors,  \* how many each receiver has
  registered,    \* whether the object exists
  withContext,   \* receivers that have its id in objectWithContext
  receiver,      \* of each request; None before it arrives
  context,       \* requests that are served with a context
  given, value,  \* its argument as passed, and as it is now
  floor,         \* interceptors that were there when it arrived
  task,          \* tasks of each request
  container,     \* resultContainer of each request
  runs,          \* how often its handler was started
  again,         \* how often next was called again
  orderly,       \* requests that met orderly interceptors only
  reply          \* what was replied

setupVars == <<wire, interceptors, registered, withContext>>
fixedVars == <<receiver, context, given, floor>>
vars == <<setupVars, fixedVars, value, task, container, runs, again, orderly,
          reply>>

Frame == [base : 0 .. MaxChain, top : 0 .. MaxChain,
          at : {"due", "entered", "back", "handler"}]
Over == [base |-> 0, top |-> 0, at |-> "over"]
Result == Requests \cup {None, Set}

Init ==
  /\ wire \in Wires
  /\ interceptors = [r \in Receivers |-> 0]
  /\ registered = FALSE /\ withContext = {}
  /\ receiver = [q \in Requests |-> None]
  /\ context = {}
  /\ given \in [Requests -> Given]
  /\ value = given
  /\ floor = [q \in Requests |-> 0]
  /\ task = [q \in Requests |-> [t \in Tasks |-> Over]]
  /\ container = [q \in Requests |-> None]
  /\ runs = [q \in Requests |-> 0]
  /\ again = [q \in Requests |-> 0]
  /\ orderly = Requests
  /\ reply = [q \in Requests |-> Pending]
-----------------------------------------------------------------------------
(* Helpers, each preceded by the slip in it that the runs must notice. *)

SkipsLast(n, i, base) ==
  [base |-> base, top |-> i,
   at |-> IF i + 1 < n THEN "entered" ELSE "handler"]

\* generateInterceptorExecutor: what `next` of position i - 1 comes to, while
\* the receiver has n interceptors
Executor(n, i, base) ==
  [base |-> base, top |-> i, at |-> IF i < n THEN "entered" ELSE "handler"]

\* one resultContainer of the receiver
SharedCell(q) == Requests

\* the requests whose resultContainer a write of this one changes
Cell(q) == {q}

NeverOver(f) == [f EXCEPT !.top = @ - 1, !.at = "back"]

\* the frame below, which awaited; or the task is over
Below(f) ==
  IF f.top > f.base THEN [f EXCEPT !.top = @ - 1, !.at = "back"] ELSE Over

Ends(q, t) == t = Main /\ Below(task[q][t]) = Over

\* the reply, which the caller decodes; the handler returns its argument.  The
\* caller can decode what toArgObj made of it.  (A descriptor that leads to
\* nothing there, on which reverseToArgObj raises, is in RpcCalls.)
ReplyWith(q, outcome) ==
  /\ reply' = [reply EXCEPT ![q] = outcome]
  /\ value' = IF outcome = q
              THEN [value EXCEPT ![q] =
                      Decode(Carry(wire, Encode(@), "dict"))]
              ELSE value

\* An executor returns; the first one's return is withContext's.
Return(q, t, result) ==
  /\ task' = [task EXCEPT ![q][t] = Below(@)]
  /\ IF Ends(q, t) THEN ReplyWith(q, result) ELSE UNCHANGED <<reply, value>>

Running(q, t) == task[q][t].at \in {"entered", "back"}
-----------------------------------------------------------------------------
(* The program. *)

\* setMain and setObject
SetObject(r, takesContext) ==
  /\ registered' = TRUE
  /\ withContext' = IF takesContext THEN withContext \cup {r} ELSE withContext
  /\ UNCHANGED <<wire, interceptors, fixedVars, value, task, container, runs,
                 again, orderly, reply>>

AddInterceptor(r) ==
  /\ interceptors[r] < MaxChain
  /\ interceptors' = [interceptors EXCEPT ![r] = @ + 1]
  /\ UNCHANGED <<wire, registered, withContext, fixedVars, value, task,
                 container, runs, again, orderly, reply>>
-----------------------------------------------------------------------------
(* onReceiveMessage *)

Start(q, t, f) ==
  /\ task' = [task EXCEPT ![q][t] = f]
  /\ runs' = IF f.at = "handler" THEN [runs EXCEPT ![q] = @ + 1] ELSE runs

\* A request arrives; a task for each runs from here to its first await.
Receive(q, r) ==
  LET sent == Carry(wire, Encode(given[q]), "list") IN
  /\ receiver[q] = None
  /\ receiver' = [receiver EXCEPT ![q] = r]
  /\ floor' = [floor EXCEPT ![q] = interceptors[r]]
  /\ context' = IF r \in withContext THEN context \cup {q} ELSE context
  /\ IF registered /\ ~Refuses(sent)
     THEN /\ value' = [value EXCEPT ![q] = Decode(sent)]
          /\ Start(q, Main,
                   Executor(IF r \in withContext THEN interceptors[r] ELSE 0,
                            0, 0))
          /\ UNCHANGED reply
     ELSE /\ reply' = [reply EXCEPT ![q] =
                         IF registered THEN Failed ELSE Missing]
          /\ UNCHANGED <<value, task, runs>>
  /\ UNCHANGED <<setupVars, given, container, again, orderly>>

\* `await next()`, for the first time or again
AwaitNext(q, t) ==
  LET f == task[q][t] IN
  /\ Running(q, t)
  /\ Start(q, t, Executor(interceptors[receiver[q]], f.top + 1, f.base))
  /\ IF f.at = "back"
     THEN /\ again[q] < MaxAgain
          /\ again' = [again EXCEPT ![q] = @ + 1]
          /\ orderly' = orderly \ {q}
     ELSE UNCHANGED <<again, orderly>>
  /\ UNCHANGED <<setupVars, fixedVars, value, container, reply>>

\* asyncio.ensure_future(next())
SpawnNext(q, t, u) ==
  LET f == task[q][t] IN
  /\ Running(q, t) /\ task[q][u] = Over /\ u # Main
  /\ again[q] < MaxAgain
  /\ again' = [again EXCEPT ![q] = @ + 1]
  /\ task' = [task EXCEPT
                ![q][t].at = "back",
                ![q][u] = [base |-> f.top + 1, top |-> f.top + 1,
                           at |-> "due"]]
  /\ orderly' = orderly \ {q}
  /\ UNCHANGED <<setupVars, fixedVars, value, container, runs, reply>>

\* that task begins
Begin(q, t) ==
  LET f == task[q][t] IN
  /\ f.at = "due"
  /\ Start(q, t, Executor(interceptors[receiver[q]], f.top, f.base))
  /\ UNCHANGED <<setupVars, fixedVars, value, container, again, orderly,
                 reply>>

\* context['setContext'](r)
SetContext(q, t) ==
  /\ Running(q, t)
  /\ container' = [p \in Requests |-> IF p \in Cell(q) THEN Set
                                      ELSE container[p]]
  /\ orderly' = orderly \ {q}
  /\ UNCHANGED <<setupVars, fixedVars, value, task, runs, again, reply>>

InterceptorReturns(q, t) ==
  /\ Running(q, t)
  /\ orderly' = IF task[q][t].at = "back" THEN orderly ELSE orderly \ {q}
  /\ Return(q, t, container[q])
  /\ UNCHANGED <<setupVars, fixedVars, container, runs, again>>

\* executeFinal
HandlerReturns(q, t) ==
  /\ task[q][t].at = "handler"
  /\ container' = [p \in Requests |-> IF p \in Cell(q) THEN q
                                      ELSE container[p]]
  /\ Return(q, t, q)
  /\ UNCHANGED <<setupVars, fixedVars, runs, again, orderly>>

\* An interceptor or the handler raises: onReceiveMessage answers with an
\* error, or the task started of next() ends, or an interceptor below catches.
Raise(q, t) ==
  LET f == task[q][t] IN
  /\ f.at \notin {"due", "over"}
  /\ \/ /\ \E j \in f.base .. f.top : j < f.top
             /\ task' = [task EXCEPT ![q][t] = [f EXCEPT !.top = j,
                                                         !.at = "back"]]
        /\ orderly' = orderly \ {q}
        /\ UNCHANGED <<value, reply>>
     \/ /\ task' = [task EXCEPT ![q][t] = Over]
        /\ orderly' = IF f.at = "handler" THEN orderly ELSE orderly \ {q}
        /\ IF t = Main THEN ReplyWith(q, Failed)
           ELSE UNCHANGED <<value, reply>>
  /\ UNCHANGED <<setupVars, fixedVars, container, runs, again>>

Next ==
  \/ \E r \in Receivers :
       \/ AddInterceptor(r)
       \/ \E takesContext \in BOOLEAN : SetObject(r, takesContext)
       \/ \E q \in Requests : Receive(q, r)
  \/ \E q \in Requests, t \in Tasks :
       \/ AwaitNext(q, t) \/ Begin(q, t) \/ SetContext(q, t)
       \/ InterceptorReturns(q, t) \/ HandlerReturns(q, t) \/ Raise(q, t)
       \/ \E u \in Tasks : SpawnNext(q, t, u)

Spec == Init /\ [][Next]_vars
-----------------------------------------------------------------------------
TypeOK ==
  /\ wire \in Wires
  /\ interceptors \in [Receivers -> 0 .. MaxChain]
  /\ registered \in BOOLEAN /\ withContext \subseteq Receivers
  /\ receiver \in [Requests -> Receivers \cup {None}]
  /\ context \subseteq Requests /\ orderly \subseteq Requests
  /\ given \in [Requests -> Given]
  /\ floor \in [Requests -> 0 .. MaxChain]
  /\ task \in [Requests -> [Tasks -> Frame \cup {Over}]]
  /\ container \in [Requests -> Result]
  /\ runs \in [Requests -> Nat]
  /\ again \in [Requests -> 0 .. MaxAgain]
  /\ reply \in [Requests -> Result \cup {Failed, Missing, Pending}]

\* The handler of an object with context is reached only through all the
\* interceptors its receiver had when the request came, also of those that
\* call next late, again or in a task, and while others are added.
InterceptedFirst ==
  \A q \in context : \A t \in Tasks :
    task[q][t].at = "handler" =>
      /\ task[q][t].top >= floor[q]
      /\ task[q][t].top <= interceptors[receiver[q]]

\* A request that meets orderly interceptors is handled once, and nothing of
\* it runs any more when it is answered.  The answer of any request is its
\* own handler's result, if it is a handler's.
OrderlyOnce ==
  \A q \in Requests :
    /\ q \in orderly => runs[q] <= 1
    /\ q \in orderly /\ reply[q] # Pending =>
         /\ reply[q] \in {q, Failed, Missing}
         /\ \A t \in Tasks : task[q][t] = Over
    /\ reply[q] \in Requests => reply[q] = q /\ runs[q] > 0

\* Values that cannot be taken for others arrive, nested or not, as the
\* documentation says: data copied, the rest as a proxy.  With one exception,
\* bytes in lists in text mode.  They are translated once on the way to the
\* handler and once on the way back, whatever the chain does in between.
ValuesArrive ==
  \A q \in Requests :
    LET v == given[q] IN
    Clear(wire, v) =>
      /\ reply[q] = q => value[q] = Promise(Promise(v))
      /\ reply[q] # q /\ (\E t \in Tasks : task[q][t] # Over) =>
           value[q] = Promise(v)

\* "Binary values are encoded as base64 strings [...] so they can be
\* round-tripped through JSON and restored to bytes on the receiving side"
\* (WebSocketTextSender).
BytesArrive ==
  \A q \in Requests :
    /\ Clear("cbor", given[q])
    /\ reply[q] = Pending /\ receiver[q] # None
    => value[q] = Promise(given[q])
=============================================================================
