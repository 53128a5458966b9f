--------------------------- MODULE DispatchProofs ---------------------------
(* Theorems about Dispatch. *)
EXTENDS Dispatch, TLAPS

-----------------------------------------------------------------------------
(* The inductive invariant. *)

\* A frame is at a position its receiver has; the handler of a request with
\* context is not below an interceptor that was there when it came.
Fits(q, t) ==
  task[q][t] # Over =>
    /\ receiver[q] \in Receivers
    /\ task[q][t].base <= task[q][t].top
    /\ task[q][t].top <= interceptors[receiver[q]]
    /\ Running(q, t) => task[q][t].top < interceptors[receiver[q]]
    /\ task[q][t].at = "handler" /\ q \in context =>
         floor[q] <= task[q][t].top

Frames == \A q \in Requests, t \in Tasks : Fits(q, t)

\* Interceptors are never removed.
Floors ==
  \A q \in Requests :
    receiver[q] \in Receivers => floor[q] <= interceptors[receiver[q]]

\* Nothing happens to a request before it arrives.
Awaited ==
  \A q \in Requests :
    receiver[q] = None =>
      /\ \A t \in Tasks : task[q][t] = Over
      /\ reply[q] = Pending /\ container[q] = None
      /\ q \notin context
      /\ runs[q] = 0 /\ value[q] = given[q]

\* A request is answered when its main task ends, and only then.
AnsweredAtTheEnd ==
  \A q \in Requests :
    reply[q] # Pending <=> receiver[q] # None /\ task[q][Main] = Over

\* Results of a handler are those of the request's own.
OwnHandler ==
  \A q \in Requests :
    /\ container[q] \in {None, Set, q}
    /\ container[q] = q => runs[q] > 0
    /\ \A t \in Tasks : task[q][t].at = "handler" => runs[q] > 0
    /\ reply[q] \in Requests => reply[q] = q /\ runs[q] > 0

\* What an orderly request has come to.
Tidy(q) ==
  /\ \A t \in Tasks \ {Main} : task[q][t] = Over
  /\ task[q][Main].at # "due"
  /\ task[q][Main].at = "entered" => runs[q] = 0
  /\ task[q][Main].at = "handler" => runs[q] = 1
  /\ task[q][Main].at = "back" => runs[q] = 1 /\ container[q] = q
  /\ task[q][Main] = Over => runs[q] <= 1
  /\ reply[q] \in {q, Failed, Missing, Pending}

InOrder == \A q \in orderly : Tidy(q)

\* An argument as the handler gets it, and what its caller gets of that.
Arrived(q) == Decode(Carry(wire, Encode(given[q]), "list"))
Returned(q) == Decode(Carry(wire, Encode(Arrived(q)), "dict"))

\* A value is translated once on the way to the handler and once on the way
\* back, whatever the interceptors do.
TranslatedOnce ==
  /\ value = [q \in Requests |-> value[q]]
  /\ \A q \in Requests :
       /\ reply[q] = q => value[q] = Returned(q)
       /\ reply[q] # q /\ (\E t \in Tasks : task[q][t] # Over) =>
            value[q] = Arrived(q)

Inductive ==
  /\ TypeOK /\ Frames /\ Floors /\ Awaited /\ AnsweredAtTheEnd
  /\ OwnHandler /\ InOrder /\ TranslatedOnce

\* A request is answered once, with whatever is answered first.
AnsweredOnce ==
  [][\A q \in Requests : reply[q] # Pending => reply'[q] = reply[q]]_vars

\* What Arguments says of the translators.
TranslatorsKeepPromise ==
  \A w \in Wires, v \in Given :
    Clear(w, v) =>
      /\ Decode(Carry(w, Encode(v), "list")) = Promise(v)
      /\ Decode(Carry(w, Encode(Promise(v)), "dict")) = Promise(Promise(v))
-----------------------------------------------------------------------------
(* Operators. *)

LEMMA ConstantsTyped ==
  /\ MaxChain \in Nat /\ MaxAgain \in Nat
  /\ MaxTasks \in Nat \ {0} /\ Main \in Tasks
  BY ChainAssumption, TasksAssumption DEF Main, Tasks

LEMMA OverIsNoFrame ==
  /\ Over.at = "over"
  /\ \A f \in Frame : f.at # "over" /\ f # Over
  BY DEF Over, Frame

\* One task of one request changes.
LEMMA OneTask ==
  ASSUME TypeOK, NEW q \in Requests, NEW t \in Tasks, NEW f,
         task' = [task EXCEPT ![q][t] = f]
  PROVE  /\ \A p \in Requests, u \in Tasks :
               task'[p][u] = IF p = q /\ u = t THEN f ELSE task[p][u]
         /\ f \in Frame \cup {Over} =>
              task' \in [Requests -> [Tasks -> Frame \cup {Over}]]
  <1>1. task \in [Requests -> [Tasks -> Frame \cup {Over}]]
    BY DEF TypeOK
  <1>2. /\ task[q] \in [Tasks -> Frame \cup {Over}]
        /\ task' = [task EXCEPT ![q] = [task[q] EXCEPT ![t] = f]]
    BY <1>1
  <1>3. task'[q] = [task[q] EXCEPT ![t] = f]
    BY <1>1, <1>2
  <1>4. \A p \in Requests : p # q => task'[p] = task[p]
    BY <1>1, <1>2
  <1>5. \A p \in Requests, u \in Tasks :
          task'[p][u] = IF p = q /\ u = t THEN f ELSE task[p][u]
    BY <1>2, <1>3, <1>4
  <1>6. f \in Frame \cup {Over} =>
          [task[q] EXCEPT ![t] = f] \in [Tasks -> Frame \cup {Over}]
    BY <1>2
  <1>7. f \in Frame \cup {Over} =>
          task' \in [Requests -> [Tasks -> Frame \cup {Over}]]
    BY <1>1, <1>2, <1>6
  <1> QED
    BY <1>5, <1>7

\* what an executor that is called comes to
LEMMA ExecutorFits ==
  ASSUME NEW n \in 0 .. MaxChain, NEW i \in 0 .. MaxChain, i <= n,
         NEW b \in 0 .. MaxChain, b <= i
  PROVE  /\ Executor(n, i, b) \in Frame
         /\ Executor(n, i, b).base = b /\ Executor(n, i, b).top = i
         /\ Executor(n, i, b).at \in {"entered", "handler"}
         /\ Executor(n, i, b).at = "entered" => i < n
         /\ Executor(n, i, b).at = "handler" => i = n
  BY ConstantsTyped DEF Executor, Frame

\* a frame further down, that has awaited
LEMMA BackAt ==
  ASSUME NEW f \in Frame, NEW j \in 0 .. MaxChain
  PROVE  /\ [f EXCEPT !.top = j, !.at = "back"] \in Frame
         /\ [f EXCEPT !.top = j, !.at = "back"].base = f.base
         /\ [f EXCEPT !.top = j, !.at = "back"].top = j
         /\ [f EXCEPT !.top = j, !.at = "back"].at = "back"
  BY DEF Frame

\* what its return leaves
LEMMA BelowFits ==
  ASSUME NEW f \in Frame, f.base <= f.top
  PROVE  \/ Below(f) = Over
         \/ /\ Below(f) \in Frame
            /\ Below(f).at = "back" /\ Below(f).base = f.base
            /\ Below(f).base <= Below(f).top
            /\ Below(f).top = f.top - 1
  <1>1. CASE f.top > f.base
    <2>1. f.top \in 0 .. MaxChain /\ f.base \in 0 .. MaxChain
      BY DEF Frame
    <2>2. f.top - 1 \in 0 .. MaxChain /\ f.base <= f.top - 1
      BY <1>1, <2>1, ConstantsTyped
    <2> DEFINE j == f.top - 1
               g == [f EXCEPT !.top = j, !.at = "back"]
    <2>3. Below(f) = g
      BY <1>1 DEF Below
    <2>4. g \in Frame /\ g.base = f.base /\ g.top = j /\ g.at = "back"
      <3>1. j \in 0 .. MaxChain
        BY <2>2
      <3> HIDE DEF j
      <3> QED
        BY <3>1, BackAt
    <2> HIDE DEF g
    <2> QED
      BY <2>2, <2>3, <2>4
  <1>2. CASE ~(f.top > f.base)
    BY <1>2 DEF Below
  <1> QED
    BY <1>1, <1>2
LEMMA StartEffect ==
  ASSUME TypeOK, NEW q \in Requests, NEW t \in Tasks, NEW f \in Frame,
         Start(q, t, f)
  PROVE  /\ task' \in [Requests -> [Tasks -> Frame \cup {Over}]]
         /\ runs' \in [Requests -> Nat]
         /\ \A p \in Requests, u \in Tasks :
              task'[p][u] = IF p = q /\ u = t THEN f ELSE task[p][u]
         /\ \A p \in Requests :
              runs'[p] = IF p = q /\ f.at = "handler" THEN runs[p] + 1
                         ELSE runs[p]
  <1>1. task' = [task EXCEPT ![q][t] = f]
    BY DEF Start
  <1>2. runs \in [Requests -> Nat]
    BY DEF TypeOK
  <1>3. /\ runs' \in [Requests -> Nat]
        /\ \A p \in Requests :
             runs'[p] = IF p = q /\ f.at = "handler" THEN runs[p] + 1
                        ELSE runs[p]
    BY <1>2 DEF Start
  <1>4. /\ \A p \in Requests, u \in Tasks :
             task'[p][u] = IF p = q /\ u = t THEN f ELSE task[p][u]
        /\ f \in Frame \cup {Over} =>
             task' \in [Requests -> [Tasks -> Frame \cup {Over}]]
    BY <1>1, OneTask
  <1> QED
    BY <1>3, <1>4

\* an interceptor calls next, or the task of a next begins
LEMMA CallKept ==
  ASSUME Inductive, NEW q \in Requests, NEW t \in Tasks,
         NEW i \in 0 .. MaxChain,
         task[q][t] # Over, i <= interceptors[receiver[q]],
         task[q][t].base <= i, task[q][t].top <= i,
         task[q][t].at = "entered" \/ q \notin orderly',
         Start(q, t, Executor(interceptors[receiver[q]], i, task[q][t].base)),
         orderly' \subseteq orderly,
         again' \in [Requests -> 0 .. MaxAgain],
         UNCHANGED <<setupVars, fixedVars, value, container, reply>>
  PROVE  Inductive'
  <1> DEFINE f == task[q][t]
             n == interceptors[receiver[q]]
             e == Executor(n, i, f.base)
  <1>1. /\ interceptors \in [Receivers -> 0 .. MaxChain]
        /\ task \in [Requests -> [Tasks -> Frame \cup {Over}]]
        /\ runs \in [Requests -> Nat]
    BY DEF Inductive, TypeOK
  <1>2. f \in Frame /\ f.base \in 0 .. MaxChain /\ f.at # "over"
        /\ f.base <= i
    BY <1>1, OverIsNoFrame DEF Frame
  <1>3. receiver[q] \in Receivers /\ n \in 0 .. MaxChain
    BY <1>1 DEF Inductive, Frames, Fits
  <1>4. /\ e \in Frame /\ e.base = f.base /\ e.top = i
        /\ e.at \in {"entered", "handler"}
        /\ e.at = "entered" => i < n
        /\ e.at = "handler" => i = n
    BY <1>2, <1>3, ExecutorFits
  <1> HIDE DEF e
  <1>5. /\ task' \in [Requests -> [Tasks -> Frame \cup {Over}]]
        /\ runs' \in [Requests -> Nat]
        /\ \A p \in Requests, u \in Tasks :
             task'[p][u] = IF p = q /\ u = t THEN e ELSE task[p][u]
        /\ \A p \in Requests :
             runs'[p] = IF p = q /\ e.at = "handler" THEN runs[p] + 1
                        ELSE runs[p]
    <2>1. Start(q, t, e)
      BY DEF e
    <2> QED
      BY <1>4, <2>1, StartEffect DEF Inductive
  <1>6. e # Over
    BY <1>4, OverIsNoFrame
  <1> HIDE DEF f, n
  <1>a. TypeOK'
    BY <1>5 DEF Inductive, TypeOK, setupVars, fixedVars
  <1>b. Frames'
    <2> SUFFICES ASSUME NEW p \in Requests, NEW u \in Tasks
                 PROVE  Fits(p, u)'
      BY DEF Frames
    <2>1. CASE p = q /\ u = t
      <3>1. task'[p][u] = e
        BY <1>5, <2>1
      <3>2. floor[q] <= n
        BY <1>3 DEF Inductive, Floors, n
      <3> QED
        BY <1>2, <1>3, <1>4, <2>1, <3>1, <3>2
        DEF Fits, Running, n, setupVars, fixedVars
    <2>2. CASE ~(p = q /\ u = t)
      <3>1. task'[p][u] = task[p][u]
        BY <1>5, <2>2
      <3> QED
        BY <3>1 DEF Inductive, Frames, Fits, Running, setupVars, fixedVars
    <2> QED
      BY <2>1, <2>2
  <1>c. Floors'
    BY DEF Inductive, Floors, setupVars, fixedVars
  <1>d. Awaited'
    BY <1>3, <1>5, SentinelAssumption DEF Inductive, Awaited, fixedVars
  <1>e. AnsweredAtTheEnd'
    <2>1. \A p \in Requests : task'[p][Main] = Over <=> task[p][Main] = Over
      BY <1>5, <1>6, ConstantsTyped DEF f
    <2> QED
      BY <2>1 DEF Inductive, AnsweredAtTheEnd, fixedVars
  <1>f. OwnHandler'
    BY <1>1, <1>4, <1>5 DEF Inductive, OwnHandler, fixedVars
  <1>g. InOrder'
    <2> SUFFICES ASSUME NEW p \in orderly'
                 PROVE  Tidy(p)'
      BY DEF InOrder
    <2>1. p \in orderly /\ p \in Requests
      BY DEF Inductive, TypeOK
    <2>2. CASE p = q
      <3>1. t = Main /\ f.at = "entered" /\ runs[q] = 0
        BY <2>1, <2>2, ConstantsTyped DEF Inductive, InOrder, Tidy, f
      <3>2. /\ task'[p][Main] = e
            /\ \A u \in Tasks \ {Main} : task'[p][u] = task[p][u]
            /\ runs'[p] = IF e.at = "handler" THEN 1 ELSE 0
        BY <1>5, <2>2, <3>1, ConstantsTyped
      <3> QED
        BY <1>4, <1>6, <2>1, <3>2 DEF Inductive, InOrder, Tidy
    <2>3. CASE p # q
      <3>1. /\ \A u \in Tasks : task'[p][u] = task[p][u]
            /\ runs'[p] = runs[p]
        BY <1>5, <2>1, <2>3
      <3> QED
        BY <2>1, <3>1, ConstantsTyped DEF Inductive, InOrder, Tidy
    <2> QED
      BY <2>2, <2>3
  <1>h. TranslatedOnce'
    <2> SUFFICES ASSUME NEW p \in Requests
                 PROVE  /\ reply[p] = p => value[p] = Returned(p)
                        /\ reply[p] # p =>
                             \A u \in Tasks : task'[p][u] # Over =>
                               value[p] = Arrived(p)
      BY DEF Inductive, TranslatedOnce, Arrived, Returned, setupVars,
             fixedVars
    <2>1. \A u \in Tasks :
            task'[p][u] # Over => \E w \in Tasks : task[p][w] # Over
      BY <1>5 DEF f
    <2> QED
      BY <2>1 DEF Inductive, TranslatedOnce
  <1> QED
    BY <1>a, <1>b, <1>c, <1>d, <1>e, <1>f, <1>g, <1>h DEF Inductive

\* a frame returns or is left by an exception; the main task's end is answered
LEMMA ReturnKept ==
  ASSUME Inductive, NEW q \in Requests, NEW t \in Tasks, NEW f, NEW o,
         task[q][t] # Over, task[q][t].at # "due",
         \/ f = Over
         \/ /\ f \in Frame
            /\ f.at = "back" /\ f.base <= f.top
            /\ f.top < interceptors[receiver[q]],
         task' = [task EXCEPT ![q][t] = f],
         IF t = Main /\ f = Over THEN ReplyWith(q, o)
         ELSE UNCHANGED <<reply, value>>,
         o \in {None, Set, q, Failed},
         o = q => runs[q] > 0,
         \/ UNCHANGED container
         \/ /\ task[q][t].at = "handler"
            /\ container' = [container EXCEPT ![q] = q],
         orderly' \subseteq orderly,
         q \in orderly' =>
           /\ task[q][t].at \in {"handler", "back"}
           /\ f = Over \/ container'[q] = q
           /\ o \in {q, Failed},
         UNCHANGED <<setupVars, fixedVars, runs, again>>
  PROVE  Inductive'
  <1>1. /\ reply \in [Requests -> Result \cup {Failed, Missing, Pending}]
        /\ container \in [Requests -> Result]
        /\ runs \in [Requests -> Nat]
        /\ Main \in Tasks
    BY ConstantsTyped DEF Inductive, TypeOK
  <1>2. /\ task' \in [Requests -> [Tasks -> Frame \cup {Over}]]
        /\ \A p \in Requests, u \in Tasks :
             task'[p][u] = IF p = q /\ u = t THEN f ELSE task[p][u]
    BY OneTask DEF Inductive
  <1>3. receiver[q] \in Receivers /\ receiver[q] # None
    BY SentinelAssumption DEF Inductive, Frames, Fits
  <1>4. reply[q] = Pending \/ t # Main
    BY DEF Inductive, AnsweredAtTheEnd
  <1>5. /\ \A p \in Requests : p # q => reply'[p] = reply[p]
        /\ reply'[q] = IF t = Main /\ f = Over THEN o ELSE reply[q]
        /\ reply' \in [Requests -> Result \cup {Failed, Missing, Pending}]
    BY <1>1 DEF ReplyWith, Result
  <1>6. /\ \A p \in Requests : p # q => container'[p] = container[p]
        /\ \/ container'[q] = container[q]
           \/ task[q][t].at = "handler" /\ container'[q] = q
        /\ container' \in [Requests -> Result]
    <2>1. q \in Result
      BY DEF Result
    <2>2. CASE UNCHANGED container
      BY <1>1, <2>2
    <2>3. CASE /\ task[q][t].at = "handler"
               /\ container' = [container EXCEPT ![q] = q]
      BY <1>1, <2>1, <2>3
    <2> QED
      BY <2>2, <2>3
  <1>7. /\ value' = [p \in Requests |-> value'[p]]
        /\ \A p \in Requests : p # q => value'[p] = value[p]
        /\ value'[q] = IF t = Main /\ f = Over /\ o = q
                       THEN Decode(Carry(wire, Encode(value[q]), "dict"))
                       ELSE value[q]
    <2>1. value = [p \in Requests |-> value[p]]
      BY DEF Inductive, TranslatedOnce
    <2>2. CASE t = Main /\ f = Over /\ o = q
      BY <2>1, <2>2 DEF ReplyWith
    <2>3. CASE ~(t = Main /\ f = Over /\ o = q)
      <3>1. value' = value
        BY <2>3 DEF ReplyWith
      <3> QED
        BY <2>1, <2>3, <3>1
    <2> QED
      BY <2>2, <2>3
  <1>a. TypeOK'
    BY <1>2, <1>5, <1>6 DEF Inductive, TypeOK, setupVars, fixedVars
  <1>b. Frames'
    <2> SUFFICES ASSUME NEW p \in Requests, NEW u \in Tasks
                 PROVE  Fits(p, u)'
      BY DEF Frames
    <2>1. CASE p = q /\ u = t
      <3>1. task'[p][u] = f
        BY <1>2, <2>1
      <3>2. f # Over => f.top <= interceptors[receiver[q]]
        BY <1>3 DEF Inductive, TypeOK, Frame
      <3> QED
        BY <1>3, <2>1, <3>1, <3>2 DEF Fits, Running, setupVars, fixedVars
    <2>2. CASE ~(p = q /\ u = t)
      <3>1. task'[p][u] = task[p][u]
        BY <1>2, <2>2
      <3> QED
        BY <3>1 DEF Inductive, Frames, Fits, Running, setupVars, fixedVars
    <2> QED
      BY <2>1, <2>2
  <1>c. Floors'
    BY DEF Inductive, Floors, setupVars, fixedVars
  <1>d. Awaited'
    <2> SUFFICES ASSUME NEW p \in Requests, receiver[p] = None
                 PROVE  /\ \A u \in Tasks : task'[p][u] = Over
                        /\ reply'[p] = Pending /\ container'[p] = None
                        /\ p \notin context'
                        /\ runs'[p] = 0 /\ value'[p] = given'[p]
      BY DEF Awaited, fixedVars
    <2>1. p # q
      BY <1>3
    <2>2. value'[p] = value[p]
      BY <1>7, <2>1
    <2> QED
      BY <1>2, <1>5, <1>6, <2>1, <2>2 DEF Inductive, Awaited, fixedVars
  <1>e. AnsweredAtTheEnd'
    <2> SUFFICES ASSUME NEW p \in Requests
                 PROVE  reply'[p] # Pending <=>
                          receiver[p] # None /\ task'[p][Main] = Over
      BY DEF AnsweredAtTheEnd, fixedVars
    <2>1. CASE p = q /\ t = Main
      <3>1. task'[p][Main] = f /\ o # Pending
        BY <1>1, <1>2, <2>1, SentinelAssumption
      <3> QED
        BY <1>3, <1>4, <1>5, <2>1, <3>1
    <2>2. CASE ~(p = q /\ t = Main)
      <3>1. task'[p][Main] = task[p][Main] /\ reply'[p] = reply[p]
        BY <1>1, <1>2, <1>5, <2>2
      <3> QED
        BY <3>1 DEF Inductive, AnsweredAtTheEnd
    <2> QED
      BY <2>1, <2>2
  <1>f. OwnHandler'
    <2> SUFFICES ASSUME NEW p \in Requests
                 PROVE  /\ container'[p] \in {None, Set, p}
                        /\ container'[p] = p => runs[p] > 0
                        /\ \A u \in Tasks :
                             task'[p][u].at = "handler" => runs[p] > 0
                        /\ reply'[p] \in Requests =>
                             reply'[p] = p /\ runs[p] > 0
      BY DEF OwnHandler
    <2>1. \A u \in Tasks :
            task'[p][u].at = "handler" => task[p][u].at = "handler"
      BY <1>2 DEF Over
    <2>2. CASE p = q
      BY <1>5, <1>6, <2>1, <2>2, SentinelAssumption
      DEF Inductive, OwnHandler
    <2>3. CASE p # q
      BY <1>5, <1>6, <2>1, <2>3 DEF Inductive, OwnHandler
    <2> QED
      BY <2>2, <2>3
  <1>g. InOrder'
    <2> SUFFICES ASSUME NEW p \in orderly'
                 PROVE  Tidy(p)'
      BY DEF InOrder
    <2>1. p \in orderly /\ p \in Requests /\ Tidy(p)
      BY DEF Inductive, TypeOK, InOrder
    <2>2. CASE p = q
      <3>1. t = Main /\ runs[q] = 1
        BY <2>1, <2>2 DEF Tidy
      <3>2. /\ task'[q][Main] = f
            /\ \A u \in Tasks \ {Main} : task'[q][u] = task[q][u]
        BY <1>1, <1>2, <3>1
      <3>3. f = Over \/ (f.at = "back" /\ f # Over /\ container'[q] = q)
        <4>1. f = Over \/ container'[q] = q
          BY <2>2
        <4> QED
          BY <4>1, OverIsNoFrame
      <3> QED
        BY <1>5, <2>1, <2>2, <3>1, <3>2, <3>3, OverIsNoFrame
        DEF Tidy
    <2>3. CASE p # q
      <3>1. /\ \A u \in Tasks : task'[p][u] = task[p][u]
            /\ reply'[p] = reply[p] /\ container'[p] = container[p]
        BY <1>2, <1>5, <1>6, <2>1, <2>3
      <3> QED
        BY <1>1, <2>1, <3>1 DEF Tidy
    <2> QED
      BY <2>2, <2>3
  <1>h. TranslatedOnce'
    <2> SUFFICES ASSUME NEW p \in Requests
                 PROVE  /\ reply'[p] = p => value'[p] = Returned(p)
                        /\ reply'[p] # p =>
                             \A u \in Tasks : task'[p][u] # Over =>
                               value'[p] = Arrived(p)
      BY <1>7 DEF TranslatedOnce, Arrived, Returned, setupVars, fixedVars
    <2>1. task[q][t] # Over /\ reply[q] # q => value[q] = Arrived(q)
      BY DEF Inductive, TranslatedOnce
    <2>2. CASE p = q /\ t = Main /\ f = Over /\ o = q
      <3>1. reply'[p] = q /\ reply[q] # q
        BY <1>4, <1>5, <2>2, SentinelAssumption
      <3> QED
        BY <1>7, <2>1, <2>2, <3>1 DEF Returned
    <2>3. CASE p = q /\ ~(t = Main /\ f = Over /\ o = q)
      <3>1. value'[p] = value[p] /\ (reply'[p] = p <=> reply[p] = p)
        BY <1>4, <1>5, <1>7, <2>3, SentinelAssumption
      <3> QED
        BY <2>1, <2>3, <3>1 DEF Inductive, TranslatedOnce
    <2>4. CASE p # q
      BY <1>2, <1>5, <1>7, <2>4 DEF Inductive, TranslatedOnce
    <2> QED
      BY <2>2, <2>3, <2>4
  <1> QED
    BY <1>a, <1>b, <1>c, <1>d, <1>e, <1>f, <1>g, <1>h DEF Inductive
-----------------------------------------------------------------------------
(* The actions. *)

LEMMA InitHolds == Init => Inductive
  <1> SUFFICES ASSUME Init PROVE Inductive
    OBVIOUS
  <1> USE ConstantsTyped, SentinelAssumption
  <1>1. /\ task = [q \in Requests |-> [t \in Tasks |-> Over]]
        /\ value = given /\ given \in [Requests -> Given]
        /\ receiver = [q \in Requests |-> None]
        /\ reply = [q \in Requests |-> Pending]
    BY DEF Init
  <1>2. \A q \in Requests, t \in Tasks :
          task[q][t] = Over /\ task[q][t].at = "over"
    BY <1>1, OverIsNoFrame
  <1>3. TypeOK
    <2>1. task \in [Requests -> [Tasks -> Frame \cup {Over}]]
      BY <1>1
    <2>2. /\ interceptors \in [Receivers -> 0 .. MaxChain]
          /\ floor \in [Requests -> 0 .. MaxChain]
          /\ runs \in [Requests -> Nat]
          /\ again \in [Requests -> 0 .. MaxAgain]
      BY DEF Init
    <2>3. /\ wire \in Wires /\ registered \in BOOLEAN
          /\ withContext \subseteq Receivers
          /\ context \subseteq Requests /\ orderly \subseteq Requests
      BY DEF Init
    <2>4. /\ receiver \in [Requests -> Receivers \cup {None}]
          /\ container \in [Requests -> Result]
          /\ reply \in [Requests -> Result \cup {Failed, Missing, Pending}]
      BY <1>1 DEF Init, Result
    <2> QED
      BY <1>1, <2>1, <2>2, <2>3, <2>4 DEF TypeOK
  <1>4. Frames /\ Floors
    BY <1>1, <1>2 DEF Frames, Fits, Floors
  <1>5. Awaited /\ AnsweredAtTheEnd
    BY <1>1, <1>2 DEF Init, Awaited, AnsweredAtTheEnd
  <1>6. OwnHandler
    BY <1>1, <1>2 DEF Init, OwnHandler
  <1>7. InOrder
    <2>1. /\ orderly = Requests
          /\ \A q \in Requests : runs[q] = 0 /\ reply[q] = Pending
      BY <1>1 DEF Init
    <2> SUFFICES ASSUME NEW q \in Requests PROVE Tidy(q)
      BY <2>1 DEF InOrder
    <2>2. task[q][Main] = Over /\ task[q][Main].at = "over"
      BY <1>2
    <2> QED
      BY <1>2, <2>1, <2>2 DEF Tidy
  <1>8. TranslatedOnce
    BY <1>1, <1>2 DEF TranslatedOnce
  <1> QED
    BY <1>3, <1>4, <1>5, <1>6, <1>7, <1>8 DEF Inductive

LEMMA SetObjectKeeps ==
  ASSUME Inductive, NEW r \in Receivers, NEW c \in BOOLEAN, SetObject(r, c)
  PROVE  Inductive'
  <1> USE DEF SetObject, fixedVars
  <1>1. TypeOK'
    BY DEF Inductive, TypeOK
  <1>2. Frames'
    BY DEF Inductive, Frames, Fits, Running
  <1>3. Floors' /\ Awaited' /\ AnsweredAtTheEnd'
    BY DEF Inductive, Floors, Awaited, AnsweredAtTheEnd
  <1>4. OwnHandler'
    BY DEF Inductive, OwnHandler
  <1>5. InOrder'
    BY DEF Inductive, InOrder, Tidy
  <1>6. TranslatedOnce'
    BY DEF Inductive, TranslatedOnce, Arrived, Returned
  <1> QED
    BY <1>1, <1>2, <1>3, <1>4, <1>5, <1>6 DEF Inductive

LEMMA AddInterceptorKeeps ==
  ASSUME Inductive, NEW r \in Receivers, AddInterceptor(r)
  PROVE  Inductive'
  <1> USE DEF AddInterceptor, fixedVars
  <1>1. /\ interceptors' \in [Receivers -> 0 .. MaxChain]
        /\ \A x \in Receivers : interceptors[x] <= interceptors'[x]
        /\ \A x \in Receivers : interceptors[x] \in 0 .. MaxChain
    BY ConstantsTyped DEF Inductive, TypeOK
  <1>2. TypeOK'
    BY <1>1 DEF Inductive, TypeOK
  <1>3. Frames'
    <2> SUFFICES ASSUME NEW q \in Requests, NEW t \in Tasks,
                        task[q][t] # Over
                 PROVE  Fits(q, t)'
      BY DEF Frames, Fits
    <2>1. Fits(q, t) /\ receiver[q] \in Receivers
      BY DEF Inductive, Frames, Fits
    <2>2. task[q][t] \in Frame
      BY DEF Inductive, TypeOK
    <2> QED
      BY <1>1, <2>1, <2>2 DEF Fits, Running, Frame
  <1>4. Floors'
    BY <1>1 DEF Inductive, Floors, TypeOK
  <1>5. Awaited' /\ AnsweredAtTheEnd'
    BY DEF Inductive, Awaited, AnsweredAtTheEnd
  <1>6. OwnHandler'
    BY DEF Inductive, OwnHandler
  <1>7. InOrder'
    BY DEF Inductive, InOrder, Tidy
  <1>8. TranslatedOnce'
    BY DEF Inductive, TranslatedOnce, Arrived, Returned
  <1> QED
    BY <1>2, <1>3, <1>4, <1>5, <1>6, <1>7, <1>8 DEF Inductive

LEMMA AwaitNextKeeps ==
  ASSUME Inductive, NEW q \in Requests, NEW t \in Tasks, AwaitNext(q, t)
  PROVE  Inductive'
  <1> DEFINE f == task[q][t]
  <1>1. /\ f \in Frame /\ f # Over /\ f.at \in {"entered", "back"}
    BY OverIsNoFrame DEF Inductive, TypeOK, AwaitNext, Running
  <1>2. /\ receiver[q] \in Receivers /\ f.base <= f.top
        /\ f.top < interceptors[receiver[q]]
    BY <1>1 DEF Inductive, Frames, Fits, Running
  <1>3. interceptors[receiver[q]] \in 0 .. MaxChain
    BY <1>2 DEF Inductive, TypeOK
  <1>4. f.base \in 0 .. MaxChain /\ f.top \in 0 .. MaxChain
    BY <1>1 DEF Frame
  <1>5. /\ f.top + 1 \in 0 .. MaxChain
        /\ f.top + 1 <= interceptors[receiver[q]]
        /\ f.base <= f.top + 1 /\ f.top <= f.top + 1
    BY <1>2, <1>3, <1>4, ConstantsTyped
  <1>6. /\ orderly' \subseteq orderly
        /\ f.at = "entered" \/ q \notin orderly'
        /\ again' \in [Requests -> 0 .. MaxAgain]
    <2>1. again \in [Requests -> 0 .. MaxAgain]
      BY DEF Inductive, TypeOK
    <2> QED
      BY <1>1, <2>1, ConstantsTyped DEF AwaitNext
  <1> QED
    BY <1>1, <1>5, <1>6, CallKept DEF AwaitNext

LEMMA BeginKeeps ==
  ASSUME Inductive, NEW q \in Requests, NEW t \in Tasks, Begin(q, t)
  PROVE  Inductive'
  <1> DEFINE f == task[q][t]
  <1>1. f \in Frame /\ f # Over /\ f.at = "due"
    BY OverIsNoFrame DEF Inductive, TypeOK, Begin
  <1>2. /\ receiver[q] \in Receivers /\ f.base <= f.top
        /\ f.top <= interceptors[receiver[q]]
    BY <1>1 DEF Inductive, Frames, Fits
  <1>3. f.top \in 0 .. MaxChain /\ f.top <= f.top
    BY <1>1 DEF Frame
  <1>4. /\ q \notin orderly
        /\ again \in [Requests -> 0 .. MaxAgain]
    BY <1>1 DEF Inductive, InOrder, Tidy, TypeOK
  <1> QED
    BY <1>1, <1>2, <1>3, <1>4, CallKept DEF Begin

LEMMA SetContextKeeps ==
  ASSUME Inductive, NEW q \in Requests, NEW t \in Tasks, SetContext(q, t)
  PROVE  Inductive'
  <1> USE DEF SetContext, fixedVars, setupVars
  <1>1. /\ container' = [p \in Requests |-> IF p = q THEN Set
                                           ELSE container[p]]
        /\ orderly' = orderly \ {q}
    BY DEF Cell
  <1>2. receiver[q] # None
    BY OverIsNoFrame, SentinelAssumption
    DEF Inductive, Frames, Fits, Running
  <1>3. TypeOK'
    BY <1>1 DEF Inductive, TypeOK, Result
  <1>4. Frames' /\ Floors' /\ AnsweredAtTheEnd'
    BY DEF Inductive, Frames, Fits, Running, Floors, AnsweredAtTheEnd
  <1>5. Awaited'
    BY <1>1, <1>2 DEF Inductive, Awaited
  <1>6. OwnHandler'
    BY <1>1, SentinelAssumption DEF Inductive, OwnHandler
  <1>7. InOrder'
    BY <1>1 DEF Inductive, TypeOK, InOrder, Tidy
  <1>8. TranslatedOnce'
    BY DEF Inductive, TranslatedOnce, Arrived, Returned
  <1> QED
    BY <1>3, <1>4, <1>5, <1>6, <1>7, <1>8 DEF Inductive

LEMMA SpawnNextKeeps ==
  ASSUME Inductive, NEW q \in Requests, NEW t \in Tasks, NEW u \in Tasks,
         SpawnNext(q, t, u)
  PROVE  Inductive'
  <1> DEFINE f == task[q][t]
             n == interceptors[receiver[q]]
             g == [base |-> f.top + 1, top |-> f.top + 1, at |-> "due"]
             h == [f EXCEPT !.at = "back"]
  <1> USE DEF fixedVars, setupVars
  <1>1. /\ f \in Frame /\ f # Over /\ f.at \in {"entered", "back"}
        /\ task[q][u] = Over /\ u # Main /\ u # t
        /\ f.base \in 0 .. MaxChain /\ f.top \in 0 .. MaxChain
    BY OverIsNoFrame DEF Inductive, TypeOK, SpawnNext, Running, Frame
  <1>2. /\ receiver[q] \in Receivers /\ f.base <= f.top
        /\ f.top < n /\ receiver[q] # None
    BY <1>1, SentinelAssumption DEF Inductive, Frames, Fits, Running
  <1>3. n \in 0 .. MaxChain
    BY <1>2 DEF Inductive, TypeOK
  <1>4. f.top + 1 \in 0 .. MaxChain /\ f.top + 1 <= n
    BY <1>1, <1>2, <1>3, ConstantsTyped
  <1>5. /\ g \in Frame /\ g.base <= g.top /\ g.top <= n /\ g.at = "due"
        /\ g # Over
    BY <1>4, OverIsNoFrame DEF Frame
  <1>6. /\ h \in Frame /\ h.base <= h.top /\ h.top < n /\ h.top <= n
        /\ h.at = "back" /\ h # Over
    BY <1>1, <1>2, <1>3, OverIsNoFrame DEF Frame
  <1>7. /\ task' \in [Requests -> [Tasks -> Frame \cup {Over}]]
        /\ \A p \in Requests, w \in Tasks :
             task'[p][w] = IF p = q /\ w = t THEN h
                           ELSE IF p = q /\ w = u THEN g
                           ELSE task[p][w]
    <2>1. /\ task \in [Requests -> [Tasks -> Frame \cup {Over}]]
          /\ task' = [task EXCEPT ![q] = [task[q] EXCEPT ![t] = h,
                                                       ![u] = g]]
      BY <1>1 DEF Inductive, TypeOK, SpawnNext
    <2>2. task'[q] = [task[q] EXCEPT ![t] = h, ![u] = g]
      BY <2>1
    <2> HIDE DEF f, g, h
    <2> QED
      BY <1>1, <1>5, <1>6, <2>1, <2>2
  <1> HIDE DEF g, h
  <1>8. /\ again' \in [Requests -> 0 .. MaxAgain]
        /\ orderly' = orderly \ {q}
    <2>1. again \in [Requests -> 0 .. MaxAgain]
      BY DEF Inductive, TypeOK
    <2> QED
      BY <1>1, <2>1, ConstantsTyped DEF SpawnNext
  <1>9. UNCHANGED <<setupVars, fixedVars, value, container, runs, reply>>
    BY DEF SpawnNext
  <1> HIDE DEF f, n
  <1>a. TypeOK'
    BY <1>7, <1>8, <1>9 DEF Inductive, TypeOK
  <1>b. Frames'
    <2> SUFFICES ASSUME NEW p \in Requests, NEW w \in Tasks
                 PROVE  Fits(p, w)'
      BY DEF Frames
    <2>1. CASE p = q /\ w = t
      <3>1. task'[p][w] = h
        BY <1>7, <2>1
      <3> QED
        BY <1>2, <1>6, <1>9, <2>1, <3>1 DEF Fits, Running, n
    <2>2. CASE p = q /\ w = u
      <3>1. task'[p][w] = g
        BY <1>1, <1>7, <2>2
      <3> QED
        BY <1>2, <1>5, <1>9, <2>2, <3>1 DEF Fits, Running, n
    <2>3. CASE ~(p = q /\ w \in {t, u})
      <3>1. task'[p][w] = task[p][w]
        BY <1>7, <2>3
      <3> QED
        BY <1>9, <3>1 DEF Inductive, Frames, Fits, Running
    <2> QED
      BY <2>1, <2>2, <2>3
  <1>c. Floors'
    BY <1>9 DEF Inductive, Floors
  <1>d. Awaited'
    BY <1>2, <1>7, <1>9 DEF Inductive, Awaited
  <1>e. AnsweredAtTheEnd'
    <2>1. \A p \in Requests : task'[p][Main] = Over <=> task[p][Main] = Over
      BY <1>1, <1>6, <1>7, ConstantsTyped DEF f
    <2> QED
      BY <1>9, <2>1 DEF Inductive, AnsweredAtTheEnd
  <1>f. OwnHandler'
    <2>1. \A p \in Requests, w \in Tasks :
            task'[p][w].at = "handler" => task[p][w].at = "handler"
      BY <1>5, <1>6, <1>7
    <2> QED
      BY <1>9, <2>1 DEF Inductive, OwnHandler
  <1>g. InOrder'
    <2>1. \A p \in orderly' : p # q /\ Tidy(p) /\ p \in Requests
      BY <1>8 DEF Inductive, InOrder, TypeOK
    <2>2. \A p \in orderly', w \in Tasks : task'[p][w] = task[p][w]
      BY <1>7, <2>1
    <2> QED
      BY <1>9, <2>1, <2>2, ConstantsTyped DEF InOrder, Tidy
  <1>h. TranslatedOnce'
    <2> SUFFICES ASSUME NEW p \in Requests
                 PROVE  /\ reply[p] = p => value[p] = Returned(p)
                        /\ reply[p] # p =>
                             \A w \in Tasks : task'[p][w] # Over =>
                               value[p] = Arrived(p)
      BY <1>9 DEF Inductive, TranslatedOnce, Arrived, Returned
    <2>1. \A w \in Tasks :
            task'[p][w] # Over => \E v \in Tasks : task[p][v] # Over
      BY <1>1, <1>7 DEF f
    <2> QED
      BY <2>1 DEF Inductive, TranslatedOnce
  <1> QED
    BY <1>a, <1>b, <1>c, <1>d, <1>e, <1>f, <1>g, <1>h DEF Inductive

LEMMA InterceptorReturnsKeeps ==
  ASSUME Inductive, NEW q \in Requests, NEW t \in Tasks,
         InterceptorReturns(q, t)
  PROVE  Inductive'
  <1> DEFINE f == task[q][t]
  <1>1. /\ f \in Frame /\ f # Over /\ f.at \in {"entered", "back"}
    BY OverIsNoFrame DEF Inductive, TypeOK, InterceptorReturns, Running
  <1>2. /\ receiver[q] \in Receivers /\ f.base <= f.top
        /\ f.top < interceptors[receiver[q]]
    BY <1>1 DEF Inductive, Frames, Fits, Running
  <1>3. \/ Below(f) = Over
        \/ /\ Below(f) \in Frame
           /\ Below(f).at = "back" /\ Below(f).base <= Below(f).top
           /\ Below(f).top < interceptors[receiver[q]]
    <2>1. interceptors[receiver[q]] \in Nat /\ f.top \in Nat
      BY <1>1, <1>2 DEF Inductive, TypeOK, Frame
    <2> QED
      BY <1>1, <1>2, <2>1, BelowFits
  <1>4. /\ container[q] \in {None, Set, q, Failed}
        /\ container[q] = q => runs[q] > 0
    BY DEF Inductive, OwnHandler
  <1>5. /\ orderly' \subseteq orderly
        /\ q \in orderly' => f.at = "back"
    BY DEF InterceptorReturns
  <1>6. q \in orderly' => container[q] = q
    <2>1. q \in orderly' => t = Main
      BY <1>1, <1>5 DEF Inductive, InOrder, Tidy
    <2> QED
      BY <1>5, <2>1 DEF Inductive, InOrder, Tidy
  <1>7. /\ task' = [task EXCEPT ![q][t] = Below(f)]
        /\ IF t = Main /\ Below(f) = Over THEN ReplyWith(q, container[q])
           ELSE UNCHANGED <<reply, value>>
        /\ UNCHANGED <<setupVars, fixedVars, container, runs, again>>
    BY DEF InterceptorReturns, Return, Ends
  <1> HIDE DEF f
  <1> QED
    BY <1>1, <1>3, <1>4, <1>5, <1>6, <1>7, ReturnKept DEF f

LEMMA HandlerReturnsKeeps ==
  ASSUME Inductive, NEW q \in Requests, NEW t \in Tasks,
         HandlerReturns(q, t)
  PROVE  Inductive'
  <1> DEFINE f == task[q][t]
  <1>1. /\ f \in Frame /\ f # Over /\ f.at = "handler"
    BY OverIsNoFrame DEF Inductive, TypeOK, HandlerReturns
  <1>2. /\ receiver[q] \in Receivers /\ f.base <= f.top
        /\ f.top <= interceptors[receiver[q]]
    BY <1>1 DEF Inductive, Frames, Fits
  <1>3. \/ Below(f) = Over
        \/ /\ Below(f) \in Frame
           /\ Below(f).at = "back" /\ Below(f).base <= Below(f).top
           /\ Below(f).top < interceptors[receiver[q]]
    <2>1. interceptors[receiver[q]] \in Nat /\ f.top \in Nat
      BY <1>1, <1>2 DEF Inductive, TypeOK, Frame
    <2> QED
      BY <1>1, <1>2, <2>1, BelowFits
  <1>4. runs[q] > 0
    BY <1>1 DEF Inductive, OwnHandler
  <1>5. container' = [container EXCEPT ![q] = q] /\ container'[q] = q
    BY DEF HandlerReturns, Cell, Inductive, TypeOK
  <1>6. /\ task' = [task EXCEPT ![q][t] = Below(f)]
        /\ IF t = Main /\ Below(f) = Over THEN ReplyWith(q, q)
           ELSE UNCHANGED <<reply, value>>
        /\ orderly' \subseteq orderly
        /\ UNCHANGED <<setupVars, fixedVars, runs, again>>
    BY DEF HandlerReturns, Return, Ends
  <1> QED
    BY <1>1, <1>3, <1>4, <1>5, <1>6, ReturnKept

LEMMA RaiseKeeps ==
  ASSUME Inductive, NEW q \in Requests, NEW t \in Tasks, Raise(q, t)
  PROVE  Inductive'
  <1> DEFINE f == task[q][t]
  <1>1. f \in Frame /\ f # Over /\ f.at # "due"
    <2>1. f \in Frame \cup {Over}
      BY DEF Inductive, TypeOK
    <2>2. f.at \notin {"due", "over"}
      BY DEF Raise
    <2> QED
      BY <2>1, <2>2, OverIsNoFrame
  <1>2. /\ receiver[q] \in Receivers /\ f.base <= f.top
        /\ f.top <= interceptors[receiver[q]]
        /\ f.top \in 0 .. MaxChain /\ f.base \in 0 .. MaxChain
        /\ interceptors[receiver[q]] \in 0 .. MaxChain
    BY <1>1 DEF Inductive, TypeOK, Frame, Frames, Fits
  <1>3. UNCHANGED <<setupVars, fixedVars, container, runs, again>>
    BY DEF Raise
  <1>4. ASSUME NEW j \in f.base .. f.top, j < f.top,
               task' = [task EXCEPT ![q][t] = [f EXCEPT !.top = j,
                                                       !.at = "back"]],
               orderly' = orderly \ {q}, UNCHANGED <<value, reply>>
        PROVE  Inductive'
    <2> DEFINE g == [f EXCEPT !.top = j, !.at = "back"]
    <2>1. /\ g \in Frame /\ g.at = "back" /\ g.base <= g.top
          /\ g.top < interceptors[receiver[q]] /\ g # Over
      <3>1. j \in 0 .. MaxChain /\ f.base <= j
        BY <1>2, <1>4, ConstantsTyped
      <3>2. /\ g \in Frame /\ g.base = f.base
            /\ g.top = j /\ g.at = "back"
        BY <1>1, <3>1, BackAt
      <3>3. g # Over
        BY <3>2, OverIsNoFrame
      <3>4. j < interceptors[receiver[q]]
        BY <1>2, <1>4
      <3> QED
        BY <3>1, <3>2, <3>3, <3>4
    <2> HIDE DEF g
    <2>2. task' = [task EXCEPT ![q][t] = g]
      BY <1>4 DEF g
    <2> QED
      BY <1>1, <1>3, <1>4, <2>1, <2>2, SentinelAssumption, ReturnKept
  <1>5. ASSUME task' = [task EXCEPT ![q][t] = Over],
               orderly' = IF f.at = "handler" THEN orderly
                          ELSE orderly \ {q},
               IF t = Main THEN ReplyWith(q, Failed)
               ELSE UNCHANGED <<value, reply>>
        PROVE  Inductive'
    <2>1. Failed # q
      BY SentinelAssumption
    <2>2. orderly' \subseteq orderly /\ (q \in orderly' => f.at = "handler")
      BY <1>5
    <2> QED
      BY <1>1, <1>3, <1>5, <2>1, <2>2, ReturnKept
  <1> QED
    BY <1>4, <1>5 DEF Raise

LEMMA ReceiveKeeps ==
  ASSUME Inductive, NEW q \in Requests, NEW r \in Receivers, Receive(q, r)
  PROVE  Inductive'
  <1> DEFINE sent == Carry(wire, Encode(given[q]), "list")
             n == IF r \in withContext THEN interceptors[r] ELSE 0
             f == IF registered /\ ~Refuses(sent) THEN Executor(n, 0, 0)
                  ELSE Over
  <1> USE DEF setupVars
  <1>1. /\ receiver \in [Requests -> Receivers \cup {None}]
        /\ interceptors \in [Receivers -> 0 .. MaxChain]
        /\ floor \in [Requests -> 0 .. MaxChain]
        /\ task \in [Requests -> [Tasks -> Frame \cup {Over}]]
        /\ reply \in [Requests -> Result \cup {Failed, Missing, Pending}]
        /\ runs \in [Requests -> Nat]
        /\ value = [p \in Requests |-> value[p]]
        /\ context \subseteq Requests
    BY DEF Inductive, TypeOK, TranslatedOnce
  <1>2. /\ receiver[q] = None /\ r # None
        /\ \A t \in Tasks : task[q][t] = Over
        /\ reply[q] = Pending /\ container[q] = None /\ runs[q] = 0
    BY SentinelAssumption DEF Inductive, Awaited, Receive
  <1>3. UNCHANGED <<setupVars, given, container, again, orderly>>
    BY DEF Receive
  <1>4. /\ receiver' \in [Requests -> Receivers \cup {None}]
        /\ receiver'[q] = r
        /\ \A p \in Requests : p # q => receiver'[p] = receiver[p]
        /\ floor' \in [Requests -> 0 .. MaxChain]
        /\ floor'[q] = interceptors[r]
        /\ \A p \in Requests : p # q => floor'[p] = floor[p]
    BY <1>1 DEF Receive
  <1>5. /\ context' \subseteq Requests
        /\ \A p \in Requests : p # q => (p \in context' <=> p \in context)
    BY <1>1 DEF Receive
  <1>6. /\ n \in 0 .. MaxChain /\ n <= interceptors[r]
        /\ interceptors[r] \in 0 .. MaxChain
        /\ 0 \in 0 .. MaxChain
    BY <1>1, ConstantsTyped
  <1>7. f # Over =>
          /\ f \in Frame /\ f.base = 0 /\ f.top = 0
          /\ f.at \in {"entered", "handler"}
          /\ f.at = "entered" => 0 < n
          /\ f.at = "handler" => 0 = n
    <2> HIDE DEF n
    <2>1. 0 <= n
      BY <1>6
    <2> QED
      BY <1>6, <2>1, ExecutorFits
  <1>8. /\ task' \in [Requests -> [Tasks -> Frame \cup {Over}]]
        /\ \A p \in Requests, u \in Tasks :
             task'[p][u] = IF p = q /\ u = Main THEN f ELSE task[p][u]
        /\ runs' \in [Requests -> Nat]
        /\ \A p \in Requests : p # q => runs'[p] = runs[p]
        /\ runs'[q] = IF f # Over /\ f.at = "handler" THEN 1 ELSE 0
    <2>1. CASE registered /\ ~Refuses(sent)
      <3>1. Start(q, Main, f) /\ f = Executor(n, 0, 0)
        BY <2>1 DEF Receive
      <3>2. f # Over
        BY <3>1, OverIsNoFrame DEF Executor, Over
      <3> HIDE DEF f
      <3> QED
        BY <1>1, <1>2, <1>7, <3>1, <3>2, StartEffect, ConstantsTyped
        DEF Inductive
    <2>2. CASE ~(registered /\ ~Refuses(sent))
      <3>1. f = Over /\ UNCHANGED <<task, runs>>
        BY <2>2 DEF Receive
      <3> HIDE DEF f
      <3> QED
        BY <1>1, <1>2, <3>1
    <2> QED
      BY <2>1, <2>2
  <1>9. /\ reply' \in [Requests -> Result \cup {Failed, Missing, Pending}]
        /\ \A p \in Requests : p # q => reply'[p] = reply[p]
        /\ IF f = Over THEN reply'[q] \in {Failed, Missing}
           ELSE reply'[q] = Pending
        /\ value' = [p \in Requests |-> value'[p]]
        /\ \A p \in Requests : p # q => value'[p] = value[p]
        /\ f # Over => value'[q] = Arrived(q)
    <2>1. CASE registered /\ ~Refuses(sent)
      <3>1. f = Executor(n, 0, 0) /\ f # Over
        BY <2>1 DEF Executor, Over
      <3>2. /\ reply' = reply
            /\ value' = [value EXCEPT ![q] = Arrived(q)]
        BY <2>1 DEF Receive, Arrived
      <3> HIDE DEF f
      <3> QED
        BY <1>1, <1>2, <3>1, <3>2
    <2>2. CASE ~(registered /\ ~Refuses(sent))
      <3>1. /\ f = Over /\ value' = value
            /\ reply' = [reply EXCEPT ![q] = IF registered THEN Failed
                                             ELSE Missing]
        BY <2>2 DEF Receive
      <3> HIDE DEF f
      <3> QED
        BY <1>1, <3>1
    <2> QED
      BY <2>1, <2>2
  <1>10. q \in context' => r \in withContext
    BY DEF Receive, Inductive, Awaited
  <1> HIDE DEF f
  <1>a. TypeOK'
    BY <1>3, <1>4, <1>5, <1>8, <1>9 DEF Inductive, TypeOK
  <1>b. Frames'
    <2> SUFFICES ASSUME NEW p \in Requests, NEW u \in Tasks
                 PROVE  Fits(p, u)'
      BY DEF Frames
    <2>1. CASE p = q /\ u = Main
      <3>1. task'[p][u] = f
        BY <1>8, <2>1
      <3> QED
        BY <1>3, <1>4, <1>6, <1>7, <1>10, <2>1, <3>1 DEF Fits, Running
    <2>2. CASE p = q /\ u # Main
      <3>1. task'[p][u] = Over
        BY <1>2, <1>8, <2>2
      <3> QED
        BY <3>1 DEF Fits
    <2>3. CASE p # q
      <3>1. task'[p][u] = task[p][u]
        BY <1>8, <2>3
      <3> QED
        BY <1>3, <1>4, <1>5, <2>3, <3>1
        DEF Inductive, Frames, Fits, Running
    <2> QED
      BY <2>1, <2>2, <2>3
  <1>c. Floors'
    <2> SUFFICES ASSUME NEW p \in Requests, receiver'[p] \in Receivers
                 PROVE  floor'[p] <= interceptors[receiver'[p]]
      BY <1>3 DEF Floors
    <2>1. CASE p = q
      BY <1>4, <1>6, <2>1
    <2>2. CASE p # q
      BY <1>4, <2>2 DEF Inductive, Floors
    <2> QED
      BY <2>1, <2>2
  <1>d. Awaited'
    <2> SUFFICES ASSUME NEW p \in Requests, receiver'[p] = None
                 PROVE  /\ \A u \in Tasks : task'[p][u] = Over
                        /\ reply'[p] = Pending /\ container'[p] = None
                        /\ p \notin context'
                        /\ runs'[p] = 0 /\ value'[p] = given'[p]
      BY DEF Awaited
    <2>1. p # q /\ receiver[p] = None
      BY <1>2, <1>4
    <2>2. /\ \A u \in Tasks : task'[p][u] = task[p][u]
          /\ reply'[p] = reply[p] /\ container'[p] = container[p]
          /\ runs'[p] = runs[p] /\ value'[p] = value[p]
          /\ given'[p] = given[p] /\ (p \in context' <=> p \in context)
      BY <1>3, <1>5, <1>8, <1>9, <2>1
    <2> QED
      BY <2>1, <2>2 DEF Inductive, Awaited
  <1>e. AnsweredAtTheEnd'
    <2> SUFFICES ASSUME NEW p \in Requests
                 PROVE  reply'[p] # Pending <=>
                          receiver'[p] # None /\ task'[p][Main] = Over
      BY DEF AnsweredAtTheEnd
    <2>1. CASE p = q
      BY <1>2, <1>4, <1>8, <1>9, <2>1, SentinelAssumption, ConstantsTyped
    <2>2. CASE p # q
      BY <1>4, <1>8, <1>9, <2>2, ConstantsTyped
      DEF Inductive, AnsweredAtTheEnd
    <2> QED
      BY <2>1, <2>2
  <1>f. OwnHandler'
    <2> SUFFICES ASSUME NEW p \in Requests
                 PROVE  /\ container[p] \in {None, Set, p}
                        /\ container[p] = p => runs'[p] > 0
                        /\ \A u \in Tasks :
                             task'[p][u].at = "handler" => runs'[p] > 0
                        /\ reply'[p] \in Requests =>
                             reply'[p] = p /\ runs'[p] > 0
      BY <1>3 DEF OwnHandler
    <2>1. CASE p = q
      <3>1. reply'[p] \notin Requests /\ container[p] # p
        BY <1>2, <1>9, <2>1, SentinelAssumption
      <3>2. \A u \in Tasks :
              task'[p][u].at = "handler" => u = Main /\ f # Over
        BY <1>2, <1>8, <2>1, OverIsNoFrame
      <3>3. \A u \in Tasks : task'[p][u].at = "handler" => runs'[p] = 1
        BY <1>8, <2>1, <3>2
      <3> QED
        BY <1>2, <2>1, <3>1, <3>3
    <2>2. CASE p # q
      <3>1. /\ \A u \in Tasks : task'[p][u] = task[p][u]
            /\ reply'[p] = reply[p] /\ runs'[p] = runs[p]
        BY <1>8, <1>9, <2>2
      <3> QED
        BY <3>1 DEF Inductive, OwnHandler
    <2> QED
      BY <2>1, <2>2
  <1>g. InOrder'
    <2> SUFFICES ASSUME NEW p \in orderly
                 PROVE  Tidy(p)'
      BY <1>3 DEF InOrder
    <2>1. p \in Requests /\ Tidy(p)
      BY DEF Inductive, TypeOK, InOrder
    <2>2. CASE p = q
      <3>1. /\ task'[q][Main] = f
            /\ \A u \in Tasks \ {Main} : task'[q][u] = Over
            /\ runs'[q] = IF f # Over /\ f.at = "handler" THEN 1 ELSE 0
            /\ reply'[q] \in {Failed, Missing, Pending}
        BY <1>2, <1>8, <1>9, ConstantsTyped
      <3>2. f = Over \/ f.at \in {"entered", "handler"}
        BY <1>7
      <3> QED
        BY <2>2, <3>1, <3>2, OverIsNoFrame DEF Tidy
    <2>3. CASE p # q
      BY <1>3, <1>8, <1>9, <2>1, <2>3, ConstantsTyped DEF Tidy
    <2> QED
      BY <2>2, <2>3
  <1>h. TranslatedOnce'
    <2> SUFFICES ASSUME NEW p \in Requests
                 PROVE  /\ reply'[p] = p => value'[p] = Returned(p)
                        /\ reply'[p] # p =>
                             \A u \in Tasks : task'[p][u] # Over =>
                               value'[p] = Arrived(p)
      BY <1>3, <1>9 DEF TranslatedOnce, Arrived, Returned
    <2>1. CASE p = q
      <3>1. reply'[p] # p
        BY <1>9, <2>1, SentinelAssumption
      <3>2. \A u \in Tasks : task'[p][u] # Over => f # Over
        BY <1>2, <1>8, <2>1
      <3> QED
        BY <1>9, <2>1, <3>1, <3>2
    <2>2. CASE p # q
      BY <1>8, <1>9, <2>2 DEF Inductive, TranslatedOnce
    <2> QED
      BY <2>1, <2>2
  <1> QED
    BY <1>a, <1>b, <1>c, <1>d, <1>e, <1>f, <1>g, <1>h DEF Inductive
-----------------------------------------------------------------------------
(* The theorems. *)

LEMMA NextKeeps == Inductive /\ [Next]_vars => Inductive'
  <1> SUFFICES ASSUME Inductive, [Next]_vars PROVE Inductive'
    OBVIOUS
  <1>1. CASE UNCHANGED vars
    <2> USE <1>1 DEF Inductive, vars, setupVars, fixedVars
    <2>1. TypeOK'
      BY DEF TypeOK
    <2>2. Frames' /\ Floors' /\ Awaited' /\ AnsweredAtTheEnd'
      BY DEF Frames, Fits, Running, Floors, Awaited, AnsweredAtTheEnd
    <2>3. OwnHandler' /\ InOrder'
      BY DEF OwnHandler, InOrder, Tidy
    <2>4. TranslatedOnce'
      BY DEF TranslatedOnce, Arrived, Returned
    <2> QED
      BY <2>1, <2>2, <2>3, <2>4
  <1>2. ASSUME NEW r \in Receivers, AddInterceptor(r)
        PROVE  Inductive'
    BY <1>2, AddInterceptorKeeps
  <1>3. ASSUME NEW r \in Receivers, NEW c \in BOOLEAN, SetObject(r, c)
        PROVE  Inductive'
    BY <1>3, SetObjectKeeps
  <1>4. ASSUME NEW r \in Receivers, NEW q \in Requests, Receive(q, r)
        PROVE  Inductive'
    BY <1>4, ReceiveKeeps
  <1>5. ASSUME NEW q \in Requests, NEW t \in Tasks,
               \/ AwaitNext(q, t) \/ Begin(q, t) \/ SetContext(q, t)
               \/ InterceptorReturns(q, t) \/ HandlerReturns(q, t)
               \/ Raise(q, t)
        PROVE  Inductive'
    BY <1>5, AwaitNextKeeps, BeginKeeps, SetContextKeeps,
       InterceptorReturnsKeeps, HandlerReturnsKeeps, RaiseKeeps
  <1>6. ASSUME NEW q \in Requests, NEW t \in Tasks, NEW u \in Tasks,
               SpawnNext(q, t, u)
        PROVE  Inductive'
    BY <1>6, SpawnNextKeeps
  <1> QED
    BY <1>1, <1>2, <1>3, <1>4, <1>5, <1>6 DEF Next

THEOREM InductiveHolds == Spec => []Inductive
  BY InitHolds, NextKeeps, PTL DEF Spec

\* The variables of the chain keep their types: in particular no frame is
\* ever at a position that `interceptors` does not have.
THEOREM Typed == Spec => []TypeOK
  <1>1. Inductive => TypeOK
    BY DEF Inductive
  <1> QED
    BY <1>1, InductiveHolds, PTL

\* However interceptors call next and whatever is added meanwhile, a handler
\* with context runs above all the interceptors there were when its request
\* came, and none is passed over.
THEOREM NoInterceptorIsBypassed == Spec => []InterceptedFirst
  <1>1. Inductive => InterceptedFirst
    <2> SUFFICES ASSUME Inductive, NEW q \in context, NEW t \in Tasks,
                        task[q][t].at = "handler"
                 PROVE  /\ task[q][t].top >= floor[q]
                        /\ task[q][t].top <= interceptors[receiver[q]]
      BY DEF InterceptedFirst
    <2>1. q \in Requests /\ floor[q] \in Nat
      BY DEF Inductive, TypeOK
    <2>2. task[q][t] \in Frame /\ task[q][t] # Over
      BY <2>1, OverIsNoFrame DEF Inductive, TypeOK
    <2>3. task[q][t].top \in Nat
      BY <2>2 DEF Frame
    <2> QED
      BY <2>1, <2>2, <2>3 DEF Inductive, Frames, Fits
  <1> QED
    BY <1>1, InductiveHolds, PTL

\* A request that meets orderly interceptors is handled at most once and
\* leaves nothing behind it that runs; no answer is another request's result.
THEOREM OrderlyAreHandledOnce == Spec => []OrderlyOnce
  <1>1. Inductive => OrderlyOnce
    <2> SUFFICES ASSUME Inductive, NEW q \in Requests
                 PROVE  /\ q \in orderly => runs[q] <= 1
                        /\ q \in orderly /\ reply[q] # Pending =>
                             /\ reply[q] \in {q, Failed, Missing}
                             /\ \A t \in Tasks : task[q][t] = Over
                        /\ reply[q] \in Requests =>
                             reply[q] = q /\ runs[q] > 0
      BY DEF OrderlyOnce
    <2>1. task[q][Main] \in Frame \cup {Over}
      BY ConstantsTyped DEF Inductive, TypeOK
    <2>2. q \in orderly => runs[q] <= 1
      BY <2>1 DEF Inductive, InOrder, Tidy, Frame
    <2>3. q \in orderly /\ reply[q] # Pending =>
            /\ reply[q] \in {q, Failed, Missing}
            /\ \A t \in Tasks : task[q][t] = Over
      BY DEF Inductive, InOrder, Tidy, AnsweredAtTheEnd
    <2> QED
      BY <2>2, <2>3 DEF Inductive, OwnHandler
  <1> QED
    BY <1>1, InductiveHolds, PTL

\* A request has its one answer exactly from the moment on its main task has
\* ended: none is forgotten when an interceptor or the handler raises, and
\* tasks that go on after it send no second one.
THEOREM EveryEndIsAnswered == Spec => []AnsweredAtTheEnd /\ AnsweredOnce
  <1>1. Inductive => AnsweredAtTheEnd
    BY DEF Inductive
  <1>2. ASSUME Inductive, [Next]_vars, NEW q \in Requests,
               reply[q] # Pending
        PROVE  reply'[q] = reply[q]
    <2>1. receiver[q] # None /\ task[q][Main] = Over
      BY <1>2 DEF Inductive, AnsweredAtTheEnd
    <2>2. reply \in [Requests -> Result \cup {Failed, Missing, Pending}]
      BY <1>2 DEF Inductive, TypeOK
    <2>3. ASSUME NEW p \in Requests, p # q, NEW o, ReplyWith(p, o)
          PROVE  reply'[q] = reply[q]
      BY <2>2, <2>3 DEF ReplyWith
    <2>4. CASE UNCHANGED vars
      BY <2>4 DEF vars
    <2>5. ASSUME NEW p \in Requests, NEW r \in Receivers, Receive(p, r)
          PROVE  reply'[q] = reply[q]
      BY <2>1, <2>2, <2>5 DEF Receive
    <2>6. ASSUME NEW p \in Requests, NEW t \in Tasks,
                 InterceptorReturns(p, t) \/ HandlerReturns(p, t)
                 \/ Raise(p, t)
          PROVE  reply'[q] = reply[q]
      <3>1. p = q => t # Main
        BY <2>1, <2>6, OverIsNoFrame
        DEF InterceptorReturns, HandlerReturns, Raise, Running
      <3> QED
        BY <2>3, <2>6, <3>1
        DEF InterceptorReturns, HandlerReturns, Raise, Return, Ends
    <2>7. ASSUME NEW p \in Requests, NEW t \in Tasks,
                 \/ AwaitNext(p, t) \/ Begin(p, t) \/ SetContext(p, t)
                 \/ \E u \in Tasks : SpawnNext(p, t, u)
          PROVE  reply'[q] = reply[q]
      BY <2>7 DEF AwaitNext, Begin, SetContext, SpawnNext
    <2>8. ASSUME NEW r \in Receivers,
                 \/ AddInterceptor(r)
                 \/ \E c \in BOOLEAN : SetObject(r, c)
          PROVE  reply'[q] = reply[q]
      BY <2>8 DEF AddInterceptor, SetObject
    <2> QED
      BY <1>2, <2>4, <2>5, <2>6, <2>7, <2>8 DEF Next
  <1>3. Inductive /\ [Next]_vars =>
          [\A q \in Requests : reply[q] # Pending => reply'[q] = reply[q]]_vars
    BY <1>2
  <1> QED
    BY <1>1, <1>3, InductiveHolds, PTL DEF Spec, AnsweredOnce

\* A handler is called with its argument translated once, and its caller gets
\* it translated back once, in every interleaving of the chain.
THEOREM ValuesAreTranslatedOnce == Spec => []TranslatedOnce
  <1>1. Inductive => TranslatedOnce
    BY DEF Inductive
  <1> QED
    BY <1>1, InductiveHolds, PTL

\* Where the translators keep their promise for one way there and one way
\* back, the chain adds nothing: what arrives is what was promised.
THEOREM ValuesArriveIfTranslated ==
  ASSUME TranslatorsKeepPromise
  PROVE  Spec => []ValuesArrive
  <1>1. Inductive => ValuesArrive
    <2> SUFFICES ASSUME Inductive, NEW q \in Requests, Clear(wire, given[q])
                 PROVE  /\ reply[q] = q =>
                             value[q] = Promise(Promise(given[q]))
                        /\ reply[q] # q
                           /\ (\E t \in Tasks : task[q][t] # Over) =>
                             value[q] = Promise(given[q])
      BY DEF ValuesArrive
    <2>1. wire \in Wires /\ given[q] \in Given
      BY DEF Inductive, TypeOK
    <2>2. /\ Arrived(q) = Promise(given[q])
          /\ Returned(q) = Promise(Promise(given[q]))
      BY <2>1, TranslatorsKeepPromise
      DEF TranslatorsKeepPromise, Arrived, Returned
    <2> QED
      BY <2>2 DEF Inductive, TranslatedOnce
  <1> QED
    BY <1>1, InductiveHolds, PTL
=============================================================================
