------------------------------ MODULE PodRpc ------------------------------
(***************************************************************************)
(* What a caller of Pod (cocktail-maker/pod.cppm) may rely on, stated      *)
(* without transaction ids, channels or frames: every request is a call    *)
(* with one outcome and the Pod acts on it at most once.                   *)
(*                                                                         *)
(*   "ok"     is returned only when the Pod has carried the request out;   *)
(*   "nak"    is returned only when the Pod has refused it or has failed   *)
(*            in the middle of it;                                         *)
(*   "protocol_error" is returned only for an action the Pod has finished: *)
(*            its Ack was lost, so its event came unexpectedly;            *)
(*   "timeout", "stopped" and "closed" say nothing about the Pod: it may   *)
(*            act on the request before, after, or never.                  *)
(*                                                                         *)
(* There is no outcome for a message of another request: a caller is never *)
(* handed one.  PodSession implements this specification.                  *)
(***************************************************************************)
CONSTANTS Request,   \* the requests of one session
          Kinds      \* "single", "ack", "action": the patterns of pod.cpp

VARIABLES
  kind,    \* the communication pattern of each request
  call,    \* how far each call is: "idle", "pending", or its outcome
  effect   \* what the Pod has done about each request

rpcVars == <<kind, call, effect>>

RpcOutcomes == {"ok", "nak", "timeout", "stopped", "closed", "protocol_error"}
Effects     == {"none", "requested", "acting", "done", "refused"}

RpcInit ==
  /\ kind = [n \in Request |-> "single"]
  /\ call = [n \in Request |-> "idle"]
  /\ effect = [n \in Request |-> "none"]

(* A call is made.  When the session is already over it fails at once.     *)
Invoke(n, k) ==
  /\ call[n] = "idle"
  /\ \E c \in {"pending", "closed"} : call' = [call EXCEPT ![n] = c]
  /\ kind' = [kind EXCEPT ![n] = k]
  /\ UNCHANGED effect

(* The Pod sees a request only after the call was made, and only once.     *)
Receive(n) ==
  /\ call[n] # "idle"
  /\ effect[n] = "none"
  /\ effect' = [effect EXCEPT ![n] = "requested"]
  /\ UNCHANGED <<kind, call>>

Accept(n) ==
  /\ effect[n] = "requested"
  /\ effect' = [effect EXCEPT ![n] = IF kind[n] = "action" THEN "acting" ELSE "done"]
  /\ UNCHANGED <<kind, call>>

Refuse(n) ==
  /\ kind[n] # "single"
  /\ effect[n] \in {"requested", "acting"}
  /\ effect' = [effect EXCEPT ![n] = "refused"]
  /\ UNCHANGED <<kind, call>>

Finish(n) ==
  /\ effect[n] = "acting"
  /\ effect' = [effect EXCEPT ![n] = "done"]
  /\ UNCHANGED <<kind, call>>

Return(n, outcome) ==
  /\ call[n] = "pending"
  /\ outcome = "ok" => effect[n] = "done"
  /\ outcome = "nak" => effect[n] = "refused"
  /\ outcome = "protocol_error" => kind[n] = "action" /\ effect[n] = "done"
  /\ call' = [call EXCEPT ![n] = outcome]
  /\ UNCHANGED <<kind, effect>>

RpcNext ==
  \E n \in Request :
     \/ \E k \in Kinds : Invoke(n, k)
     \/ Receive(n) \/ Accept(n) \/ Refuse(n) \/ Finish(n)
     \/ \E outcome \in RpcOutcomes : Return(n, outcome)

RpcSpec == RpcInit /\ [][RpcNext]_rpcVars
-----------------------------------------------------------------------------
(* What an outcome told of the Pod remains true after the call: the Pod    *)
(* does not act on the request again.                                      *)
OutcomesStayTrue ==
  \A n \in Request :
     /\ call[n] = "ok" => effect[n] = "done"
     /\ call[n] = "nak" => effect[n] = "refused"
     /\ call[n] = "protocol_error" => kind[n] = "action" /\ effect[n] = "done"
=============================================================================
