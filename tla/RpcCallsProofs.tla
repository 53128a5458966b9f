--------------------------- MODULE RpcCallsProofs ---------------------------
(***************************************************************************)
(* Proofs about RpcCalls for any number of calls and activations, any      *)
(* limit and any amount of loss and redelivery.                            *)
(***************************************************************************)
EXTENDS RpcCalls, TLAPS

\* A call that was never made left no trace, one that is under way has a
\* future, and one that returned took a result from it.
CallsInStep ==
  \A c \in Calls :
    /\ phase[c] = "idle" => future[c] = "none" /\ c \notin sent
    /\ InCall(c) => future[c] # "none"
    /\ phase[c] = "returned" => future[c] = "result"

\* Activations serve requests that were sent.
ExecsInStep ==
  /\ requests \subseteq sent
  /\ \A e \in Execs : IF execState[e] = "free" THEN execCall[e] = NoExec
                      ELSE execCall[e] \in sent

\* A successful reply carries the result of an activation of its own call.
RepliesAreOwn ==
  \A r \in replies : r.status = "ok" =>
    /\ r.data \in Execs
    /\ execState[r.data] = "done"
    /\ execCall[r.data] = r.idFor

\* While nothing was repeated a request in transit has not been handled.
InTransitIsNew ==
  redelivered = 0 => \A c \in requests, e \in Execs : execCall[e] # c

IInv == /\ TypeOK
        /\ CallsInStep
        /\ ExecsInStep
        /\ RepliesAreOwn
        /\ OwnResult
        /\ WaiterIsReachable
        /\ InTransitIsNew
        /\ AtMostOnce
-----------------------------------------------------------------------------
\* Steps keep the types; that a reply names a call needs ExecsInStep.
LEMMA TypeStep == TypeOK /\ ExecsInStep /\ [Next]_vars => TypeOK'
<1> SUFFICES ASSUME TypeOK, ExecsInStep, [Next]_vars PROVE TypeOK'
  OBVIOUS
<1> USE LimitAssumption, RedeliverAssumption DEF TypeOK, receiverVars
<1>1. ASSUME NEW c \in Calls, Call(c) PROVE TypeOK'
  BY <1>1 DEF Call, Phase, FutureState, peerVars, netVars
<1>2. ASSUME NEW c \in Calls, CallWithoutSender(c) PROVE TypeOK'
  BY <1>2 DEF CallWithoutSender, Phase, peerVars, netVars
<1>3. ASSUME NEW c \in Calls, Cancel(c) PROVE TypeOK'
  BY <1>3 DEF Cancel, Settle, Phase, FutureState, peerVars, netVars
<1>4. ASSUME NEW c \in Calls, Transmit(c) PROVE TypeOK'
  BY <1>4 DEF Transmit, callerVars, peerVars
<1>5. ASSUME NEW c \in Calls, SendReturns(c) PROVE TypeOK'
  BY <1>5 DEF SendReturns, Phase, peerVars, netVars
<1>6. ASSUME NEW c \in Calls, SendRaises(c) PROVE TypeOK'
  BY <1>6 DEF SendRaises, Settle, Phase, FutureState, peerVars, netVars
<1>7. ASSUME NEW c \in Calls, Resume(c) PROVE TypeOK'
  BY <1>7 DEF Resume, Phase, peerVars, netVars
<1>8. ASSUME NEW c \in Calls, RejectRequest(c) PROVE TypeOK'
  BY <1>8 DEF RejectRequest, TakeRequest, ReplyOrError, ReplyTo, Reply,
              callerVars, peerVars
<1>9. ASSUME NEW c \in Calls, StartHandler(c) PROVE TypeOK'
  BY <1>9 DEF StartHandler, TakeRequest, callerVars
<1>10. ASSUME NEW e \in Execs, FinishHandler(e) PROVE TypeOK'
  <2>1. execCall[e] \in Calls
    BY <1>10 DEF FinishHandler, ExecsInStep
  <2>2. PICK out \in ReplyOrError("ok") :
          replies' = replies \cup
            {ReplyTo(execCall[e], status,
                     IF status = "ok" THEN e ELSE NoExec) :
               status \in out}
    BY <1>10 DEF FinishHandler
  <2>3. replies' \subseteq Reply
    BY <2>1, <2>2 DEF ReplyOrError, ReplyTo, Reply
  <2> QED
    BY <1>10, <2>3 DEF FinishHandler, callerVars
<1>11. ASSUME NEW r \in replies, AcceptReply(r) PROVE TypeOK'
  BY <1>11
  DEF AcceptReply, PopEntry, Target, Outcome, Settle, TakeReply, Reply,
      FutureState, peerVars
<1>12. ASSUME NEW r \in replies, IgnoreReply(r) PROVE TypeOK'
  BY <1>12 DEF IgnoreReply, TakeReply, callerVars, peerVars
<1>13. ASSUME KillTimeoutConnection PROVE TypeOK'
  BY <1>13 DEF KillTimeoutConnection, KillFutures, Settle, Overdue,
      FutureState, peerVars, netVars
<1>14. ASSUME Tick PROVE TypeOK'
  BY <1>14 DEF Tick, peerVars, netVars
<1>15. ASSUME Lose PROVE TypeOK'
  BY <1>15 DEF Lose, callerVars, peerVars
<1>16. ASSUME AutoCheck PROVE TypeOK'
  BY <1>16 DEF AutoCheck, peerVars, netVars
<1>17. CASE UNCHANGED vars
  BY <1>17 DEF vars, callerVars, peerVars, netVars
<1>18. ASSUME NEW r \in replies, DecodingRaises(r)
       PROVE TypeOK'
  BY <1>18 DEF DecodingRaises, PopEntry, Target, TakeReply, Reply, peerVars
<1> QED
  BY <1>1, <1>2, <1>3, <1>4, <1>5, <1>6, <1>7, <1>8, <1>9, <1>10, <1>11,
     <1>12, <1>13, <1>14, <1>15, <1>16, <1>17, <1>18 DEF Next, ReceiveReply

\* The caller's side: an unsettled future of a call under way stays pending.
LEMMA CallerStep ==
  TypeOK /\ CallsInStep /\ WaiterIsReachable /\ [Next]_vars
    => CallsInStep' /\ WaiterIsReachable'
<1> SUFFICES ASSUME TypeOK, CallsInStep, WaiterIsReachable, [Next]_vars
      PROVE CallsInStep' /\ WaiterIsReachable'
  OBVIOUS
<1> USE DEF TypeOK, CallsInStep, WaiterIsReachable, InCall, Done, Phase,
        FutureState, receiverVars
<1>1. ASSUME NEW c \in Calls, Call(c) PROVE CallsInStep' /\ WaiterIsReachable'
  BY <1>1 DEF Call, peerVars, netVars
<1>2. ASSUME NEW c \in Calls, CallWithoutSender(c)
      PROVE CallsInStep' /\ WaiterIsReachable'
  BY <1>2 DEF CallWithoutSender, peerVars, netVars
<1>3. ASSUME NEW c \in Calls, Cancel(c)
      PROVE CallsInStep' /\ WaiterIsReachable'
  BY <1>3 DEF Cancel, Settle, peerVars, netVars
<1>4. ASSUME NEW c \in Calls, Transmit(c)
      PROVE CallsInStep' /\ WaiterIsReachable'
  BY <1>4 DEF Transmit, callerVars, peerVars
<1>5. ASSUME NEW c \in Calls, SendReturns(c)
      PROVE CallsInStep' /\ WaiterIsReachable'
  BY <1>5 DEF SendReturns, peerVars, netVars
<1>6. ASSUME NEW c \in Calls, SendRaises(c)
      PROVE CallsInStep' /\ WaiterIsReachable'
  BY <1>6 DEF SendRaises, Settle, peerVars, netVars
<1>7. ASSUME NEW c \in Calls, Resume(c)
      PROVE CallsInStep' /\ WaiterIsReachable'
  BY <1>7 DEF Resume, peerVars, netVars
<1>8. ASSUME NEW c \in Calls, RejectRequest(c)
      PROVE CallsInStep' /\ WaiterIsReachable'
  BY <1>8 DEF RejectRequest, callerVars
<1>9. ASSUME NEW c \in Calls, StartHandler(c)
      PROVE CallsInStep' /\ WaiterIsReachable'
  BY <1>9 DEF StartHandler, callerVars
<1>10. ASSUME NEW e \in Execs, FinishHandler(e)
      PROVE CallsInStep' /\ WaiterIsReachable'
  BY <1>10 DEF FinishHandler, callerVars
<1>11. ASSUME NEW r \in replies, AcceptReply(r)
      PROVE CallsInStep' /\ WaiterIsReachable'
  BY <1>11 DEF AcceptReply, PopEntry, Target, Outcome, Settle
<1>12. ASSUME NEW r \in replies, IgnoreReply(r)
      PROVE CallsInStep' /\ WaiterIsReachable'
  BY <1>12 DEF IgnoreReply, callerVars
<1>13. ASSUME KillTimeoutConnection PROVE CallsInStep' /\ WaiterIsReachable'
  BY <1>13
     DEF KillTimeoutConnection, KillFutures, Settle, Overdue, peerVars, netVars
<1>14. ASSUME Tick PROVE CallsInStep' /\ WaiterIsReachable'
  BY <1>14 DEF Tick, peerVars, netVars
<1>15. ASSUME Lose PROVE CallsInStep' /\ WaiterIsReachable'
  BY <1>15 DEF Lose, callerVars
<1>16. ASSUME AutoCheck PROVE CallsInStep' /\ WaiterIsReachable'
  BY <1>16 DEF AutoCheck, peerVars, netVars
<1>17. CASE UNCHANGED vars
  BY <1>17 DEF vars, callerVars, peerVars, netVars
<1>18. ASSUME NEW r \in replies, DecodingRaises(r)
       PROVE CallsInStep' /\ WaiterIsReachable'
  BY <1>18 DEF DecodingRaises, PopEntry, Target
<1> QED
  BY <1>1, <1>2, <1>3, <1>4, <1>5, <1>6, <1>7, <1>8, <1>9, <1>10, <1>11,
     <1>12, <1>13, <1>14, <1>15, <1>16, <1>17, <1>18 DEF Next, ReceiveReply

\* The peer's side: what runs there was sent, and once if nothing repeats.
LEMMA ExecStep ==
  TypeOK /\ CallsInStep /\ ExecsInStep /\ InTransitIsNew /\ AtMostOnce
    /\ [Next]_vars => ExecsInStep' /\ InTransitIsNew' /\ AtMostOnce'
<1> SUFFICES ASSUME TypeOK, CallsInStep, ExecsInStep, InTransitIsNew,
                    AtMostOnce, [Next]_vars
      PROVE ExecsInStep' /\ InTransitIsNew' /\ AtMostOnce'
  OBVIOUS
<1> USE NoExecAssumption, RedeliverAssumption
        DEF TypeOK, CallsInStep, ExecsInStep, InTransitIsNew, AtMostOnce
<1>1. ASSUME NEW c \in Calls, Call(c)
      PROVE ExecsInStep' /\ InTransitIsNew' /\ AtMostOnce'
  BY <1>1 DEF Call, peerVars, netVars
<1>2. ASSUME NEW c \in Calls, CallWithoutSender(c)
      PROVE ExecsInStep' /\ InTransitIsNew' /\ AtMostOnce'
  BY <1>2 DEF CallWithoutSender, peerVars, netVars
<1>3. ASSUME NEW c \in Calls, Cancel(c)
      PROVE ExecsInStep' /\ InTransitIsNew' /\ AtMostOnce'
  BY <1>3 DEF Cancel, peerVars, netVars
<1>4. ASSUME NEW c \in Calls, Transmit(c)
      PROVE ExecsInStep' /\ InTransitIsNew' /\ AtMostOnce'
  BY <1>4 DEF Transmit, callerVars, peerVars
<1>5. ASSUME NEW c \in Calls, SendReturns(c)
      PROVE ExecsInStep' /\ InTransitIsNew' /\ AtMostOnce'
  BY <1>5 DEF SendReturns, peerVars, netVars
<1>6. ASSUME NEW c \in Calls, SendRaises(c)
      PROVE ExecsInStep' /\ InTransitIsNew' /\ AtMostOnce'
  BY <1>6 DEF SendRaises, peerVars, netVars
<1>7. ASSUME NEW c \in Calls, Resume(c)
      PROVE ExecsInStep' /\ InTransitIsNew' /\ AtMostOnce'
  BY <1>7 DEF Resume, peerVars, netVars
<1>8. ASSUME NEW c \in Calls, RejectRequest(c)
      PROVE ExecsInStep' /\ InTransitIsNew' /\ AtMostOnce'
  BY <1>8 DEF RejectRequest, TakeRequest, peerVars
<1>9. ASSUME NEW c \in Calls, StartHandler(c)
      PROVE ExecsInStep' /\ InTransitIsNew' /\ AtMostOnce'
  BY <1>9 DEF StartHandler, TakeRequest, callerVars
<1>10. ASSUME NEW e \in Execs, FinishHandler(e)
      PROVE ExecsInStep' /\ InTransitIsNew' /\ AtMostOnce'
  BY <1>10 DEF FinishHandler
<1>11. ASSUME NEW r \in replies, AcceptReply(r)
      PROVE ExecsInStep' /\ InTransitIsNew' /\ AtMostOnce'
  BY <1>11 DEF AcceptReply, PopEntry, TakeReply, peerVars
<1>12. ASSUME NEW r \in replies, IgnoreReply(r)
      PROVE ExecsInStep' /\ InTransitIsNew' /\ AtMostOnce'
  BY <1>12 DEF IgnoreReply, TakeReply, peerVars
<1>13. ASSUME KillTimeoutConnection
      PROVE ExecsInStep' /\ InTransitIsNew' /\ AtMostOnce'
  BY <1>13
     DEF KillTimeoutConnection, peerVars, netVars
<1>14. ASSUME Tick PROVE ExecsInStep' /\ InTransitIsNew' /\ AtMostOnce'
  BY <1>14 DEF Tick, peerVars, netVars
<1>15. ASSUME Lose PROVE ExecsInStep' /\ InTransitIsNew' /\ AtMostOnce'
  BY <1>15 DEF Lose, callerVars, peerVars
<1>16. ASSUME AutoCheck PROVE ExecsInStep' /\ InTransitIsNew' /\ AtMostOnce'
  BY <1>16 DEF AutoCheck, peerVars, netVars
<1>17. CASE UNCHANGED vars
  BY <1>17 DEF vars, callerVars, peerVars, netVars
<1>18. ASSUME NEW r \in replies, DecodingRaises(r)
       PROVE ExecsInStep' /\ InTransitIsNew' /\ AtMostOnce'
  BY <1>18 DEF DecodingRaises, PopEntry, TakeReply, peerVars
<1> QED
  BY <1>1, <1>2, <1>3, <1>4, <1>5, <1>6, <1>7, <1>8, <1>9, <1>10, <1>11,
     <1>12, <1>13, <1>14, <1>15, <1>16, <1>17, <1>18 DEF Next, ReceiveReply

\* Results travel from an activation into its reply and then into its future.
LEMMA ResultStep ==
  TypeOK /\ ExecsInStep /\ RepliesAreOwn /\ OwnResult /\ [Next]_vars
    => RepliesAreOwn' /\ OwnResult'
<1> SUFFICES ASSUME TypeOK, ExecsInStep, RepliesAreOwn, OwnResult, [Next]_vars
      PROVE RepliesAreOwn' /\ OwnResult'
  OBVIOUS
<1> USE NoExecAssumption
     DEF TypeOK, ExecsInStep, RepliesAreOwn, OwnResult, FutureState, Reply
<1>1. ASSUME NEW c \in Calls, Call(c) PROVE RepliesAreOwn' /\ OwnResult'
  BY <1>1 DEF Call, peerVars, netVars
<1>2. ASSUME NEW c \in Calls, CallWithoutSender(c)
      PROVE RepliesAreOwn' /\ OwnResult'
  BY <1>2 DEF CallWithoutSender, peerVars, netVars
<1>3. ASSUME NEW c \in Calls, Cancel(c) PROVE RepliesAreOwn' /\ OwnResult'
  BY <1>3 DEF Cancel, Settle, peerVars, netVars
<1>4. ASSUME NEW c \in Calls, Transmit(c) PROVE RepliesAreOwn' /\ OwnResult'
  BY <1>4 DEF Transmit, callerVars, peerVars
<1>5. ASSUME NEW c \in Calls, SendReturns(c)
      PROVE RepliesAreOwn' /\ OwnResult'
  BY <1>5 DEF SendReturns, peerVars, netVars
<1>6. ASSUME NEW c \in Calls, SendRaises(c) PROVE RepliesAreOwn' /\ OwnResult'
  BY <1>6 DEF SendRaises, Settle, peerVars, netVars
<1>7. ASSUME NEW c \in Calls, Resume(c) PROVE RepliesAreOwn' /\ OwnResult'
  BY <1>7 DEF Resume, peerVars, netVars
<1>8. ASSUME NEW c \in Calls, RejectRequest(c)
      PROVE RepliesAreOwn' /\ OwnResult'
  BY <1>8 DEF RejectRequest, ReplyOrError, ReplyTo, callerVars, peerVars
<1>9. ASSUME NEW c \in Calls, StartHandler(c)
      PROVE RepliesAreOwn' /\ OwnResult'
  BY <1>9 DEF StartHandler, TakeRequest, callerVars
<1>10. ASSUME NEW e \in Execs, FinishHandler(e)
      PROVE RepliesAreOwn' /\ OwnResult'
  BY <1>10 DEF FinishHandler, ReplyOrError, ReplyTo, callerVars
<1>11. ASSUME NEW r \in replies, AcceptReply(r)
      PROVE RepliesAreOwn' /\ OwnResult'
  BY <1>11
  DEF AcceptReply, PopEntry, Target, Outcome, Settle, TakeReply, peerVars
<1>12. ASSUME NEW r \in replies, IgnoreReply(r)
      PROVE RepliesAreOwn' /\ OwnResult'
  BY <1>12 DEF IgnoreReply, TakeReply, callerVars, peerVars
<1>13. ASSUME KillTimeoutConnection PROVE RepliesAreOwn' /\ OwnResult'
  BY <1>13
     DEF KillTimeoutConnection, KillFutures, Settle, Overdue, peerVars, netVars
<1>14. ASSUME Tick PROVE RepliesAreOwn' /\ OwnResult'
  BY <1>14 DEF Tick, peerVars, netVars
<1>15. ASSUME Lose PROVE RepliesAreOwn' /\ OwnResult'
  BY <1>15 DEF Lose, callerVars, peerVars
<1>16. ASSUME AutoCheck PROVE RepliesAreOwn' /\ OwnResult'
  BY <1>16 DEF AutoCheck, peerVars, netVars
<1>17. CASE UNCHANGED vars
  BY <1>17 DEF vars, callerVars, peerVars, netVars
<1>18. ASSUME NEW r \in replies, DecodingRaises(r)
       PROVE RepliesAreOwn' /\ OwnResult'
  BY <1>18 DEF DecodingRaises, PopEntry, Target, TakeReply,
               peerVars
<1> QED
  BY <1>1, <1>2, <1>3, <1>4, <1>5, <1>6, <1>7, <1>8, <1>9, <1>10, <1>11,
     <1>12, <1>13, <1>14, <1>15, <1>16, <1>17, <1>18 DEF Next, ReceiveReply

-----------------------------------------------------------------------------
LEMMA InitInv == Init => IInv
<1> SUFFICES ASSUME Init PROVE IInv
  OBVIOUS
<1>1. TypeOK
  <2>1. lost \in BOOLEAN /\ sweeping \in BOOLEAN
    BY DEF Init
  <2> QED
    BY <2>1, LimitAssumption, RedeliverAssumption
       DEF Init, TypeOK, Phase, FutureState
<1>2. CallsInStep /\ ExecsInStep /\ RepliesAreOwn /\ InTransitIsNew
  BY DEF Init, CallsInStep, ExecsInStep, RepliesAreOwn, InTransitIsNew, InCall
<1>3. OwnResult /\ WaiterIsReachable /\ AtMostOnce
  BY NoExecAssumption
     DEF Init, OwnResult, WaiterIsReachable, AtMostOnce, InCall
<1> QED
  BY <1>1, <1>2, <1>3 DEF IInv

\* The invariant the properties rest on, for every instance.
THEOREM Inductive == Spec => []IInv
<1>1. IInv /\ [Next]_vars => IInv'
  BY TypeStep, CallerStep, ExecStep, ResultStep DEF IInv
<1> QED
  BY InitInv, <1>1, PTL DEF Spec

\* Type correctness of the calls, their bookkeeping and the messages.
THEOREM Typed == Spec => []TypeOK
BY Inductive, PTL DEF IInv

\* A caller gets the result of its own request's handler and of no other.
THEOREM ResultsAreOwn == Spec => []OwnResult
BY Inductive, PTL DEF IInv

\* No caller waits on a future that neither reply nor sweep finds, unless its
\* reply came and could not be decoded.
THEOREM WaitersAreReachable == Spec => []WaiterIsReachable
BY Inductive, PTL DEF IInv

\* On a transport that never repeats a message, no request runs twice.
THEOREM HandledAtMostOnce == Spec => []AtMostOnce
BY Inductive, PTL DEF IInv

\* Reply, failing send, sweep and cancellation race for a future: only the
\* first one settles it.
THEOREM FuturesSettleOnce == Spec => SettledOnce
<1> DEFINE Kept == \A c \in Calls : Done(c) => future'[c] = future[c]
<1>1. IInv /\ [Next]_vars => [Kept]_vars
  <2> SUFFICES ASSUME IInv, Next PROVE Kept
    OBVIOUS
  <2> USE DEF IInv, TypeOK, CallsInStep, Done, FutureState, Settle
  <2>1. ASSUME NEW c \in Calls,
               \/ Call(c) \/ CallWithoutSender(c) \/ Cancel(c) \/ Transmit(c)
               \/ SendReturns(c) \/ SendRaises(c) \/ Resume(c)
        PROVE Kept
    BY <2>1 DEF Call, CallWithoutSender, Cancel, Transmit, SendReturns,
                SendRaises, Resume, callerVars
  <2>2. CASE ReceiveReply
    BY <2>2 DEF ReceiveReply, AcceptReply, DecodingRaises, IgnoreReply,
                PopEntry, Target, Outcome,
                callerVars
  <2>3. CASE AutoCheck \/ KillTimeoutConnection \/ Tick \/ Lose
    BY <2>3 DEF AutoCheck, KillTimeoutConnection, KillFutures, Tick, Lose,
                callerVars
  <2>4. ASSUME NEW c \in Calls, RejectRequest(c) \/ StartHandler(c) PROVE Kept
    BY <2>4 DEF RejectRequest, StartHandler, callerVars
  <2>5. ASSUME NEW e \in Execs, FinishHandler(e) PROVE Kept
    BY <2>5 DEF FinishHandler, callerVars
  <2> QED
    BY <2>1, <2>2, <2>3, <2>4, <2>5 DEF Next
<1> QED
  BY Inductive, <1>1, PTL DEF Spec, SettledOnce
-----------------------------------------------------------------------------
\* A message of the call is on its way, or its handler runs; or its reply could
\* not be decoded, or a message was lost, of this call or another.
Accounted(c) ==
  \/ c \in requests
  \/ \E e \in Execs : execCall[e] = c /\ execState[e] = "running"
  \/ \E r \in replies : r.idFor = c
  \/ c \in undecoded
  \/ lost

NoneForgotten ==
  \A c \in Calls : ~Done(c) =>
    /\ phase[c] = "waiting" => c \in sent
    /\ InCall(c) /\ c \in sent => Accounted(c)

LEMMA AccountStep ==
  IInv /\ NoneForgotten /\ [Next]_vars => NoneForgotten'
<1> SUFFICES ASSUME IInv, NoneForgotten, [Next]_vars PROVE NoneForgotten'
  OBVIOUS
<1>0. TypeOK /\ CallsInStep /\ ExecsInStep /\ WaiterIsReachable
  BY DEF IInv
<1> USE <1>0 DEF TypeOK, CallsInStep, NoneForgotten, InCall, Done, Phase,
        FutureState, receiverVars
<1>1. ASSUME NEW c \in Calls,
             \/ Call(c) \/ CallWithoutSender(c) \/ Cancel(c)
             \/ SendReturns(c) \/ SendRaises(c) \/ Resume(c)
      PROVE NoneForgotten'
  BY <1>1 DEF Call, CallWithoutSender, Cancel, SendReturns, SendRaises,
              Resume, Settle, Accounted, peerVars, netVars
<1>2. ASSUME NEW c \in Calls, Transmit(c) PROVE NoneForgotten'
  BY <1>2 DEF Transmit, Accounted, callerVars, peerVars
<1>3. ASSUME NEW c \in Calls, RejectRequest(c) PROVE NoneForgotten'
  <2>1. \E r \in replies' : r.idFor = c
    <3>1. PICK out \in ReplyOrError("notFound") :
            replies' = replies \cup
              {ReplyTo(c, status, NoExec) : status \in out}
      BY <1>3 DEF RejectRequest
    <3>2. PICK status \in out : TRUE
      BY DEF ReplyOrError
    <3>3. ReplyTo(c, status, NoExec) \in replies'
      BY <3>1
    <3> QED
      BY <3>3 DEF ReplyTo
  <2>2. /\ replies \subseteq replies' /\ requests \ {c} \subseteq requests'
        /\ UNCHANGED <<execCall, execState, undecoded, lost>>
    BY <1>3 DEF RejectRequest, TakeRequest, peerVars, callerVars
  <2>3. \A d \in Calls : Accounted(d) => Accounted(d)'
    BY <2>1, <2>2 DEF Accounted
  <2> QED
    BY <1>3, <2>3 DEF RejectRequest, callerVars
<1>4. ASSUME NEW c \in Calls, StartHandler(c) PROVE NoneForgotten'
  <2>1. PICK e \in Execs :
          /\ execState[e] = "free"
          /\ execCall' = [execCall EXCEPT ![e] = c]
          /\ execState' = [execState EXCEPT ![e] = "running"]
    BY <1>4 DEF StartHandler
  <2>2. /\ requests \ {c} \subseteq requests'
        /\ UNCHANGED <<replies, undecoded, lost>>
    BY <1>4 DEF StartHandler, TakeRequest, callerVars
  <2>3. /\ execCall'[e] = c /\ execState'[e] = "running"
        /\ \A d \in Execs \ {e} :
             execCall'[d] = execCall[d] /\ execState'[d] = execState[d]
    BY <2>1
  <2>4. \A d \in Calls : Accounted(d) => Accounted(d)'
    BY <2>1, <2>2, <2>3 DEF Accounted
  <2> QED
    BY <1>4, <2>4 DEF StartHandler, callerVars
<1>5. ASSUME NEW e \in Execs, FinishHandler(e) PROVE NoneForgotten'
  <2>1. \E r \in replies' : r.idFor = execCall[e]
    <3> DEFINE data(status) == IF status = "ok" THEN e ELSE NoExec
    <3>1. PICK out \in ReplyOrError("ok") :
            replies' = replies \cup
              {ReplyTo(execCall[e], status, data(status)) : status \in out}
      BY <1>5 DEF FinishHandler
    <3>2. PICK status \in out : TRUE
      BY DEF ReplyOrError
    <3>3. ReplyTo(execCall[e], status, data(status)) \in replies'
      BY <3>1
    <3> QED
      BY <3>3 DEF ReplyTo
  <2>2. /\ replies \subseteq replies'
        /\ UNCHANGED <<requests, execCall, undecoded, lost>>
        /\ \A d \in Execs \ {e} : execState'[d] = execState[d]
    BY <1>5 DEF FinishHandler, callerVars
  <2>3. \A d \in Calls : Accounted(d) => Accounted(d)'
    BY <2>1, <2>2 DEF Accounted
  <2> QED
    BY <1>5, <2>3 DEF FinishHandler, callerVars
<1>6. ASSUME NEW r \in replies, AcceptReply(r) PROVE NoneForgotten'
  <2>1. /\ r.idFor \in pending
        /\ replies \ {r} \subseteq replies'
        /\ future' = Settle({r.idFor}, Outcome(r))
        /\ UNCHANGED <<phase, sent, requests, execCall, execState, undecoded,
                       lost>>
    BY <1>6 DEF AcceptReply, PopEntry, TakeReply, Target, peerVars
  <2>2. Outcome(r) \in {"result", "remoteError"} /\ r.idFor \in Calls
    BY <2>1 DEF Outcome
  <2>3. /\ future'[r.idFor] # "pending" \/ future[r.idFor] # "pending"
        /\ \A d \in Calls : d # r.idFor => future'[d] = future[d]
    BY <2>1, <2>2 DEF Settle
  <2>4. \A d \in Calls : d # r.idFor /\ Accounted(d) => Accounted(d)'
    BY <2>1 DEF Accounted
  <2>5. ~Done(r.idFor)' => future[r.idFor] = "none"
    BY <2>1, <2>2 DEF Settle
  <2> QED
    BY <2>1, <2>2, <2>3, <2>4, <2>5
<1>7. ASSUME NEW r \in replies, IgnoreReply(r) PROVE NoneForgotten'
  <2>1. /\ r.idFor \notin pending
        /\ replies \ {r} \subseteq replies'
        /\ UNCHANGED <<requests, execCall, execState, undecoded, lost>>
    BY <1>7 DEF IgnoreReply, TakeReply, Target, callerVars, peerVars
  <2>2. \A d \in Calls :
          InCall(d) /\ ~Done(d) => d # r.idFor \/ d \in undecoded
    BY <2>1 DEF WaiterIsReachable
  <2>3. \A d \in Calls : d # r.idFor /\ Accounted(d) => Accounted(d)'
    BY <2>1 DEF Accounted
  <2> QED
    BY <1>7, <2>1, <2>2, <2>3 DEF IgnoreReply, callerVars, Accounted
<1>8. ASSUME KillTimeoutConnection PROVE NoneForgotten'
  BY <1>8 DEF KillTimeoutConnection, KillFutures, Settle, Overdue, Accounted,
              peerVars, netVars
<1>9. ASSUME Tick \/ AutoCheck PROVE NoneForgotten'
  BY <1>9 DEF Tick, AutoCheck, Accounted, peerVars, netVars
<1>10. ASSUME Lose PROVE NoneForgotten'
  BY <1>10 DEF Lose, Accounted, callerVars
<1>11. CASE UNCHANGED vars
  BY <1>11 DEF Accounted, vars, callerVars, peerVars, netVars
<1>12. ASSUME NEW r \in replies, DecodingRaises(r) PROVE NoneForgotten'
  <2>1. /\ replies \ {r} \subseteq replies'
        /\ undecoded' = undecoded \cup {r.idFor}
        /\ UNCHANGED <<phase, future, sent, requests, execCall, execState,
                       lost>>
    BY <1>12 DEF DecodingRaises, PopEntry, TakeReply, Target, peerVars
  <2>2. \A d \in Calls : Accounted(d) => Accounted(d)'
    BY <2>1 DEF Accounted
  <2> QED
    BY <2>1, <2>2
<1> QED
  BY <1>1, <1>2, <1>3, <1>4, <1>5, <1>6, <1>7, <1>8, <1>9, <1>10, <1>11,
     <1>12 DEF Next, ReceiveReply

\* No call under way is forgotten: until its future is settled, its request or
\* a reply to it is in transit or its handler runs, unless a message was lost
\* or its own reply could not be decoded.
\* So without the sweep a call hangs only where a message was lost or somebody
\* stopped working: the safety half of CallsAreAnswered.
THEOREM NoCallIsForgotten == Spec => []NoneForgotten
<1>1. Init => NoneForgotten
  BY DEF Init, NoneForgotten, InCall
<1>2. IInv /\ NoneForgotten /\ [Next]_vars => NoneForgotten'
  BY AccountStep
<1> QED
  BY <1>1, <1>2, Inductive, PTL DEF Spec
-----------------------------------------------------------------------------
(* The refinement of RemoteCalls. *)

LEMMA InitRefines == Init => Promise!Init
BY NoExecAssumption
   DEF Init, Promise!Init, callStatus, callEffects, callResult, InCall

LEMMA StepRefines == IInv /\ [Next]_vars => [Promise!Next]_(Promise!vars)
<1> SUFFICES ASSUME IInv, [Next]_vars
             PROVE Promise!Next \/ UNCHANGED Promise!vars
  OBVIOUS
<1> USE DEF IInv, TypeOK, Phase, callStatus, callEffects, callResult, InCall,
            receiverVars
<1>1. ASSUME NEW c \in Calls, Call(c) PROVE Promise!Issue(c)
  BY <1>1 DEF Call, peerVars, Promise!Issue
<1>2. ASSUME NEW c \in Calls, CallWithoutSender(c) \/ Cancel(c)
      PROVE Promise!Fail(c)
  <2>1. PICK v \in {"raised", "cancelled"} :
          /\ phase' = [phase EXCEPT ![c] = v]
          /\ phase[c] \in {"idle", "sending", "waiting"}
    BY <1>2 DEF CallWithoutSender, Cancel
  <2>2. value' = value /\ execCall' = execCall
    BY <1>2 DEF CallWithoutSender, Cancel, peerVars
  <2>3. callStatus[c] \in {"idle", "open"}
    BY <2>1
  <2>4. callStatus' = [callStatus EXCEPT ![c] = "failed"]
    BY <2>1
  <2>5. UNCHANGED <<callEffects, callResult>>
    BY <2>1, <2>2
  <2> QED
    BY <2>3, <2>4, <2>5 DEF Promise!Fail
<1>3. ASSUME NEW c \in Calls, Resume(c)
      PROVE Promise!Fail(c) \/ \E e \in Execs : Promise!Return(c, e)
  <2>1. CASE future[c] = "result"
    <3>1. PICK e \in Execs : e = value[c] /\ execCall[e] = c
      BY <2>1 DEF OwnResult
    <3>2. Promise!Return(c, e)
      BY <1>3, <2>1, <3>1 DEF Resume, peerVars, Promise!Return
    <3> QED
      BY <3>1, <3>2
  <2>2. CASE future[c] # "result"
    <3>1. phase[c] = "waiting" /\ phase' = [phase EXCEPT ![c] = "raised"]
      BY <1>3, <2>2 DEF Resume
    <3>2. UNCHANGED callResult
      BY <1>3, <3>1 DEF Resume
    <3>3. callStatus' = [callStatus EXCEPT ![c] = "failed"]
      BY <3>1
    <3> QED
      BY <1>3, <3>1, <3>2, <3>3 DEF Resume, peerVars, Promise!Fail
  <2> QED
    BY <2>1, <2>2
<1>4. ASSUME NEW c \in Calls, StartHandler(c)
      PROVE \E e \in Execs : Promise!Execute(c, e)
  <2>1. PICK e \in Execs : /\ execState[e] = "free"
                           /\ execCall' = [execCall EXCEPT ![e] = c]
    BY <1>4 DEF StartHandler
  <2>2. phase[c] # "idle"
    BY <1>4 DEF StartHandler, ExecsInStep, CallsInStep
  <2>3. \A d \in Calls : e \notin callEffects[d]
    BY <2>1, NoExecAssumption DEF ExecsInStep
  <2>4. UNCHANGED <<callStatus, callResult>>
    BY <1>4 DEF StartHandler, callerVars
  <2>5. callEffects' = [callEffects EXCEPT ![c] = @ \cup {e}]
    <3>1. \A d \in Calls : {x \in Execs : execCall'[x] = d} =
            IF d = c THEN callEffects[d] \cup {e} ELSE callEffects[d]
      BY <2>1, <2>3
    <3> QED
      BY <3>1
  <2> QED
    BY <2>2, <2>3, <2>4, <2>5 DEF Promise!Execute
<1>5. ASSUME NEW c \in Calls,
             Transmit(c) \/ SendReturns(c) \/ SendRaises(c) \/ RejectRequest(c)
      PROVE UNCHANGED Promise!vars
  BY <1>5 DEF Transmit, SendReturns, SendRaises, RejectRequest, callerVars,
              peerVars, Promise!vars
<1>6. ASSUME NEW e \in Execs, FinishHandler(e) PROVE UNCHANGED Promise!vars
  BY <1>6 DEF FinishHandler, callerVars, Promise!vars
<1>7. ASSUME NEW r \in replies, AcceptReply(r) PROVE UNCHANGED Promise!vars
  <2>1. \A c \in Calls : phase[c] = "returned" => value'[c] = value[c]
    BY <1>7 DEF AcceptReply, CallsInStep
  <2> QED
    BY <1>7, <2>1 DEF AcceptReply, peerVars, Promise!vars
<1>8. ASSUME NEW r \in replies, IgnoreReply(r) PROVE UNCHANGED Promise!vars
  BY <1>8 DEF IgnoreReply, callerVars, peerVars, Promise!vars
<1>9. CASE AutoCheck \/ KillTimeoutConnection \/ Tick \/ Lose
  BY <1>9 DEF AutoCheck, KillTimeoutConnection, Tick, Lose, callerVars,
              peerVars, Promise!vars
<1>10. CASE UNCHANGED vars
  BY <1>10 DEF vars, callerVars, peerVars, Promise!vars
<1>11. ASSUME NEW r \in replies, DecodingRaises(r)
       PROVE UNCHANGED Promise!vars
  BY <1>11 DEF DecodingRaises, peerVars, Promise!vars
<1> QED
  BY <1>1, <1>2, <1>3, <1>4, <1>5, <1>6, <1>7, <1>8, <1>9, <1>10, <1>11
     DEF Next, ReceiveReply, Promise!Next

\* Futures, pending entries and messages implement the promise a caller has.
THEOREM PromiseKept == Spec => KeepsPromise
BY Inductive, InitRefines, StepRefines, PTL
   DEF Spec, KeepsPromise, Promise!Spec
=============================================================================
