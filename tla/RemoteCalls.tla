---------------------------- MODULE RemoteCalls -----------------------------
(***************************************************************************)
(* What a caller is promised by `await proxy.method(...)`, without futures *)
(* or messages.  A call is issued, its handler may run at the peer, and it *)
(* ends once, with the result of an execution of its own or with an error. *)
(* Not promised, because no code here provides it: that an error means     *)
(* "not executed".  A call that failed may have run, or may still run.     *)
(***************************************************************************)
EXTENDS Naturals

CONSTANTS Calls,    \* the calls a host makes
          Execs,    \* activations of handlers at the peer
          NoExec    \* the result of a call that has none

VARIABLES status,   \* [Calls -> {"idle", "open", "returned", "failed"}]
          effects,  \* [Calls -> SUBSET Execs], the executions of each call
          result    \* [Calls -> Execs \cup {NoExec}]

vars == <<status, effects, result>>

Init ==
  /\ status = [c \in Calls |-> "idle"]
  /\ effects = [c \in Calls |-> {}]
  /\ result = [c \in Calls |-> NoExec]

Issue(c) ==
  /\ status[c] = "idle"
  /\ status' = [status EXCEPT ![c] = "open"]
  /\ UNCHANGED <<effects, result>>

\* Each activation serves one call; it may begin after the call has ended.
Execute(c, e) ==
  /\ status[c] # "idle"
  /\ \A d \in Calls : e \notin effects[d]
  /\ effects' = [effects EXCEPT ![c] = @ \cup {e}]
  /\ UNCHANGED <<status, result>>

Return(c, e) ==
  /\ status[c] = "open"
  /\ e \in effects[c]
  /\ status' = [status EXCEPT ![c] = "returned"]
  /\ result' = [result EXCEPT ![c] = e]
  /\ UNCHANGED effects

Fail(c) ==
  /\ status[c] \in {"idle", "open"}
  /\ status' = [status EXCEPT ![c] = "failed"]
  /\ UNCHANGED <<effects, result>>

Next ==
  \E c \in Calls :
    \/ Issue(c)
    \/ Fail(c)
    \/ \E e \in Execs : Execute(c, e) \/ Return(c, e)

Spec == Init /\ [][Next]_vars
=============================================================================
