---------------------------- MODULE PodSession ----------------------------
(***************************************************************************)
(* One PodProtocolSession (pod_protocol_session.cpp) with the requests     *)
(* Pod (pod.cpp) runs over it, and the Pod and the serial link as their    *)
(* environment.  Everything below runs on the io_context's one thread; a   *)
(* step of the model is what the code does between two suspensions.        *)
(*                                                                         *)
(* Request n is the n-th one the session is asked for, so its transaction  *)
(* id is n modulo the width of the counter.  Queues are sets: the request  *)
(* number is the position in write_queue_, and the Pod, which handles      *)
(* requests concurrently, may answer different requests in any order.      *)
(***************************************************************************)
EXTENDS Integers, FiniteSets

CONSTANTS
  MaxRequests,    \* bound on the requests of one session
  TidMod,         \* 2^8: TransactionId is a uint8
  WriteCapacity   \* kWriteQueueCapacity

ASSUME SessionAssumption ==
  /\ MaxRequests \in Nat
  /\ TidMod \in Nat \ {0}
  /\ WriteCapacity \in Nat

VARIABLES
  phase,         \* PodProtocolSession::run(): "new", "running" or "ended"
  issued,        \* transaction_id_counter_ before it wraps
  kind,          \* the function of pod.cpp a request runs in
  status,        \* where its coroutine is suspended, or how it ended
  chan,          \* the channel its ResponseRegistration holds
  dispatch_map,  \* transaction id -> channel
  buffer,        \* the content of each channel
  closed,        \* the channels closed by shutdown_channels()
  write_queue,   \* requests whose frame is in write_queue_
  pod,           \* what the Pod has done about each request
  link           \* frames the Pod has sent and read_loop() has not parsed

sessionVars == <<phase, issued, kind, status, chan, dispatch_map, buffer,
                 closed, write_queue, pod, link>>
-----------------------------------------------------------------------------
Request  == 1..MaxRequests
Kinds    == {"single", "ack", "action"}
Waiting  == {"awaiting", "awaiting_event"}
Pending  == {"sending"} \cup Waiting
Outcomes == {"ok", "nak", "timeout", "stopped", "closed", "protocol_error"}

(* The first registration of a request awaits its reply, Ack or Nak, the   *)
(* second one the event (or Nak) that concludes an action.                 *)
Channel   == Request \X {1, 2}
NoChannel == <<0, 0>>

(* A frame carries only a transaction id and a message on the wire; req is *)
(* the request it answers.  "event_nak" is the Nak sent instead of the     *)
(* event of an action that was acknowledged: the session sees a Nak.       *)
Messages == {"reply", "ack", "nak", "event", "event_nak"}
Frame    == [req : Request, msg : Messages]
NoFrame  == [req |-> 0, msg |-> "none"]

Tids == 0..(TidMod - 1)

(* Mutant: the counter is not incremented. *)
Tid_NotIncremented(n) == 1 % TidMod

(* generate_new_transaction_id() for the n-th request.                     *)
Tid(n) == n % TidMod

IsNak(f)      == f.msg \in {"nak", "event_nak"}
Concluding(f) == f.msg \in {"event", "event_nak"}

(* The serial link keeps the order of the frames of one exchange.          *)
Readable == {f \in link : Concluding(f) => \A g \in link : g.req = f.req => Concluding(g)}

(* register_response(): an entry that is already there is shared.          *)
Registered(map, n, stage) ==
  IF map[Tid(n)] = NoChannel THEN <<n, stage>> ELSE map[Tid(n)]

(* Mutant: the destructor leaves the entry in the map. *)
Dropped_LeavesEntry(map, n) == map

(* ~ResponseRegistration(): the entry goes unless it is of another channel. *)
Dropped(map, n) ==
  [map EXCEPT ![Tid(n)] = IF @ = chan[n] THEN NoChannel ELSE @]
-----------------------------------------------------------------------------
SessionInit ==
  /\ phase = "new"
  /\ issued = 0
  /\ kind = [n \in Request |-> "single"]
  /\ status = [n \in Request |-> "idle"]
  /\ chan = [n \in Request |-> NoChannel]
  /\ dispatch_map = [t \in Tids |-> NoChannel]
  /\ buffer = [c \in Channel |-> NoFrame]
  /\ closed = {}
  /\ write_queue = {}
  /\ pod = [n \in Request |-> "none"]
  /\ link = {}

RunSession ==
  /\ phase = "new"
  /\ phase' = "running"
  /\ UNCHANGED <<issued, kind, status, chan, dispatch_map, buffer, closed,
                 write_queue, pod, link>>

(* Mutant: the map is cleared without closing its channels. *)
EndSession_NoClose ==
  /\ phase = "running"
  /\ phase' = "ended"
  /\ dispatch_map' = [t \in Tids |-> NoChannel]
  /\ UNCHANGED <<issued, kind, status, chan, buffer, closed, write_queue, pod, link>>

(* Mutant: ids without a registered channel are closed as well. *)
EndSession_ClosesAbsent ==
  /\ phase = "running"
  /\ phase' = "ended"
  /\ closed' = closed \cup {dispatch_map[t] : t \in Tids}
  /\ dispatch_map' = [t \in Tids |-> NoChannel]
  /\ UNCHANGED <<issued, kind, status, chan, buffer, write_queue, pod, link>>

(* read_loop() returns (stream error, full buffer) or run() is stopped;    *)
(* ~RunningGuard() closes every registered channel and empties the map.    *)
EndSession ==
  /\ phase = "running"
  /\ phase' = "ended"
  /\ closed' = closed \cup ({dispatch_map[t] : t \in Tids} \ {NoChannel})
  /\ dispatch_map' = [t \in Tids |-> NoChannel]
  /\ UNCHANGED <<issued, kind, status, chan, buffer, write_queue, pod, link>>
-----------------------------------------------------------------------------
(* A request starts: it takes the next id, registers for the response and  *)
(* only then sends.  A full write queue blocks the sender; after the end   *)
(* of the session async_send() throws and the registration is dropped.     *)
SendRequest(n, k) ==
  /\ n = issued + 1
  /\ issued' = n
  /\ kind' = [kind EXCEPT ![n] = k]
  /\ LET c == Registered(dispatch_map, n, 1)
         room == Cardinality(write_queue) < WriteCapacity
     IN IF phase = "ended"
        THEN /\ status' = [status EXCEPT ![n] = "closed"]
             /\ dispatch_map' = [dispatch_map EXCEPT ![Tid(n)] = NoChannel]
             /\ UNCHANGED <<chan, write_queue>>
        ELSE /\ status' = [status EXCEPT ![n] = IF room THEN "awaiting" ELSE "sending"]
             /\ write_queue' = IF room THEN write_queue \cup {n} ELSE write_queue
             /\ dispatch_map' = [dispatch_map EXCEPT ![Tid(n)] = c]
             /\ chan' = [chan EXCEPT ![n] = c]
  /\ UNCHANGED <<phase, buffer, closed, pod, link>>

(* write_loop() takes the oldest frame; the first blocked sender gets its  *)
(* place.  AnyIoStream::async_write() ignores its error code, so a frame   *)
(* that is not written within 500 ms is lost and the loop goes on.         *)
WriteFrame(n, lost) ==
  /\ phase = "running"
  /\ n \in write_queue
  /\ \A m \in write_queue : n <= m
  /\ LET blocked == {m \in Request : status[m] = "sending"}
         next == {m \in blocked : \A b \in blocked : m <= b}
     IN /\ write_queue' = (write_queue \ {n}) \cup next
        /\ status' = [m \in Request |-> IF m \in next THEN "awaiting" ELSE status[m]]
  /\ pod' = IF lost THEN pod ELSE [pod EXCEPT ![n] = "requested"]
  /\ UNCHANGED <<phase, issued, kind, chan, dispatch_map, buffer, closed, link>>
-----------------------------------------------------------------------------
(* Mutant: the entry is not erased when its response is dispatched. *)
Dispatch_KeepsEntry(f) ==
  /\ phase = "running"
  /\ f \in Readable
  /\ link' = link \ {f}
  /\ LET c == dispatch_map[Tid(f.req)] IN
       buffer' = IF c = NoChannel \/ c \in closed \/ buffer[c] # NoFrame
                 THEN buffer
                 ELSE [buffer EXCEPT ![c] = f]
  /\ UNCHANGED <<phase, issued, kind, status, chan, dispatch_map, closed, write_queue, pod>>

(* One frame leaves the link: read_loop() hands it to the channel of its   *)
(* transaction id and forgets the channel, or discards it.                 *)
Dispatch(f) ==
  /\ phase = "running"
  /\ f \in Readable
  /\ link' = link \ {f}
  /\ LET c == dispatch_map[Tid(f.req)] IN
       IF c = NoChannel
       THEN UNCHANGED <<dispatch_map, buffer>>
       ELSE /\ dispatch_map' = [dispatch_map EXCEPT ![Tid(f.req)] = NoChannel]
            /\ buffer' = IF c \in closed \/ buffer[c] # NoFrame
                         THEN buffer                         \* try_send() fails
                         ELSE [buffer EXCEPT ![c] = f]
  /\ UNCHANGED <<phase, issued, kind, status, chan, closed, write_queue, pod>>

(* A frame that arrives damaged does not parse and is skipped.             *)
SkipDamagedFrame(f) ==
  /\ phase = "running"
  /\ f \in Readable
  /\ link' = link \ {f}
  /\ UNCHANGED <<phase, issued, kind, status, chan, dispatch_map, buffer,
                 closed, write_queue, pod>>
-----------------------------------------------------------------------------
(* The coroutine of a request ends and its registration is destroyed.      *)
Conclude(n, outcome) ==
  /\ status' = [status EXCEPT ![n] = outcome]
  /\ chan' = [chan EXCEPT ![n] = NoChannel]
  /\ dispatch_map' = Dropped(dispatch_map, n)

(* The message a request is resumed with.                                  *)
Received(n) == buffer[chan[n]]

HasMessage(n) ==
  /\ status[n] \in Waiting
  /\ Received(n) # NoFrame

(* receive_matching() and its caller: what the first response leads to.    *)
ResumeFirst(n) ==
  /\ HasMessage(n)
  /\ status[n] = "awaiting"
  /\ ~(kind[n] = "action" /\ Received(n).msg = "ack")
  /\ LET f == Received(n) IN
       Conclude(n, IF \/ kind[n] = "single" /\ f.msg = "reply"
                      \/ kind[n] = "ack" /\ f.msg = "ack" THEN "ok"
                   ELSE IF kind[n] # "single" /\ IsNak(f) THEN "nak"
                   ELSE "protocol_error")
  /\ buffer' = [buffer EXCEPT ![chan[n]] = NoFrame]
  /\ UNCHANGED <<phase, issued, kind, closed, write_queue, pod, link>>

(* send_action_with_response(): the Ack is in, and only now is the same    *)
(* id registered again for the event.                                      *)
ResumeAck(n) ==
  /\ HasMessage(n)
  /\ status[n] = "awaiting"
  /\ kind[n] = "action"
  /\ Received(n).msg = "ack"
  /\ LET map == Dropped(dispatch_map, n)
         c == Registered(map, n, 2)
     IN /\ chan' = [chan EXCEPT ![n] = c]
        /\ dispatch_map' = [map EXCEPT ![Tid(n)] = c]
  /\ status' = [status EXCEPT ![n] = "awaiting_event"]
  /\ buffer' = [buffer EXCEPT ![chan[n]] = NoFrame]
  /\ UNCHANGED <<phase, issued, kind, closed, write_queue, pod, link>>

ResumeEvent(n) ==
  /\ HasMessage(n)
  /\ status[n] = "awaiting_event"
  /\ Conclude(n, IF Received(n).msg = "event" THEN "ok"
                 ELSE IF IsNak(Received(n)) THEN "nak"
                 ELSE "protocol_error")
  /\ buffer' = [buffer EXCEPT ![chan[n]] = NoFrame]
  /\ UNCHANGED <<phase, issued, kind, closed, write_queue, pod, link>>

(* Mutant: the wait for the event of an action has no timer. *)
Timeout_OnlyFirst(n) ==
  /\ status[n] = "awaiting"
  /\ Conclude(n, "timeout")
  /\ UNCHANGED <<phase, issued, kind, buffer, closed, write_queue, pod, link>>

(* read_with_timeout(): the timer wins the race, even against a message    *)
(* that is already in the channel.                                         *)
Timeout(n) ==
  /\ status[n] \in Waiting
  /\ Conclude(n, "timeout")
  /\ UNCHANGED <<phase, issued, kind, buffer, closed, write_queue, pod, link>>

(* A stop request unwinds the coroutine at its suspension point.           *)
Stop(n) ==
  /\ status[n] \in Pending
  /\ Conclude(n, "stopped")
  /\ UNCHANGED <<phase, issued, kind, buffer, closed, write_queue, pod, link>>

(* A closed channel fails the receive that waits on it, the closed write   *)
(* queue the sender that is blocked on it.                                 *)
FailClosed(n) ==
  /\ \/ status[n] \in Waiting /\ chan[n] \in closed /\ Received(n) = NoFrame
     \/ status[n] = "sending" /\ phase = "ended"
  /\ Conclude(n, "closed")
  /\ UNCHANGED <<phase, issued, kind, buffer, closed, write_queue, pod, link>>
-----------------------------------------------------------------------------
(* The Pod, as pod.cpp expects it to behave and as hw_simulator does: one  *)
(* reply, or one Ack or Nak that for an action is followed by one event or *)
(* Nak under the same transaction id.                                      *)
PodAnswer(n, msg, state) ==
  /\ pod' = [pod EXCEPT ![n] = state]
  /\ link' = link \cup {[req |-> n, msg |-> msg]}
  /\ UNCHANGED <<phase, issued, kind, status, chan, dispatch_map, buffer,
                 closed, write_queue>>

PodReply(n) ==
  pod[n] = "requested" /\ kind[n] = "single" /\ PodAnswer(n, "reply", "done")

PodAck(n) ==
  /\ pod[n] = "requested"
  /\ kind[n] # "single"
  /\ PodAnswer(n, "ack", IF kind[n] = "action" THEN "acting" ELSE "done")

PodNak(n) ==
  pod[n] = "requested" /\ kind[n] # "single" /\ PodAnswer(n, "nak", "refused")

PodFinish(n) == pod[n] = "acting" /\ PodAnswer(n, "event", "done")

PodFail(n) == pod[n] = "acting" /\ PodAnswer(n, "event_nak", "refused")
-----------------------------------------------------------------------------
(* The steps of request n, of the session's loops, and of the Pod.         *)
RequestStep(n) ==
  \/ \E k \in Kinds : SendRequest(n, k)
  \/ ResumeFirst(n) \/ ResumeAck(n) \/ ResumeEvent(n)
  \/ Timeout(n) \/ Stop(n) \/ FailClosed(n)

SessionStep ==
  \/ RunSession \/ EndSession
  \/ \E n \in Request, lost \in BOOLEAN : WriteFrame(n, lost)
  \/ \E f \in link : Dispatch(f) \/ SkipDamagedFrame(f)

PodStep(n) == PodReply(n) \/ PodAck(n) \/ PodNak(n) \/ PodFinish(n) \/ PodFail(n)

SessionNext == SessionStep \/ \E n \in Request : RequestStep(n) \/ PodStep(n)

(* The event loop runs what is ready and every timer fires.  Nothing is    *)
(* assumed of the callers, of the Pod, or of the end of the session.       *)
SessionFairness ==
  /\ WF_sessionVars(RunSession)
  /\ WF_sessionVars(\E n \in Request, lost \in BOOLEAN : WriteFrame(n, lost))
  /\ \A n \in Request : WF_sessionVars(Timeout(n)) /\ WF_sessionVars(FailClosed(n))

SessionSpec == SessionInit /\ [][SessionNext]_sessionVars
FairSessionSpec == SessionSpec /\ SessionFairness

(* The protocol lets the station use an id again once its exchange has     *)
(* concluded (protocol.adoc); generate_new_transaction_id() counts on,     *)
(* whether it has or not.  SettledSpec has the sessions in which it has:   *)
(* the caller has its outcome, and nothing of the exchange is left in the  *)
(* queue, on the Pod or on the link.  A session of at most TidMod requests *)
(* is one of them.                                                         *)
Busy(n) ==
  \/ status[n] \in Pending
  \/ n \in write_queue
  \/ pod[n] \in {"requested", "acting"}
  \/ \E f \in link : f.req = n

TakesFreeId ==
  issued' # issued => \A m \in 1..issued : Busy(m) => Tid(m) # Tid(issued')

SettledSpec == SessionInit /\ [][SessionNext /\ TakesFreeId]_sessionVars
-----------------------------------------------------------------------------
SessionTypeOK ==
  /\ phase \in {"new", "running", "ended"}
  /\ issued \in 0..MaxRequests
  /\ kind \in [Request -> Kinds]
  /\ status \in [Request -> {"idle"} \cup Pending \cup Outcomes]
  /\ chan \in [Request -> Channel \cup {NoChannel}]
  /\ dispatch_map \in [Tids -> Channel \cup {NoChannel}]
  /\ buffer \in [Channel -> Frame \cup {NoFrame}]
  /\ closed \subseteq Channel
  /\ write_queue \subseteq Request
  /\ pod \in [Request -> {"none", "requested", "acting", "done", "refused"}]
  /\ link \subseteq Frame

(* The comment in read_loop(): every response channel has room for exactly *)
(* the one response it is registered for.  So try_send() never fails, also *)
(* when ids have wrapped and a channel is shared by two requests.          *)
DispatchNeverFails ==
  \A t \in Tids : dispatch_map[t] # NoChannel =>
     /\ buffer[dispatch_map[t]] = NoFrame
     /\ dispatch_map[t] \notin closed

(* However a request ends - answered, timed out, stopped, refused - its    *)
(* entry does not stay behind: an entry is held by a request that waits.   *)
EntriesAreHeld ==
  \A t \in Tids : dispatch_map[t] # NoChannel =>
     \E n \in Request : /\ Tid(n) = t
                        /\ chan[n] = dispatch_map[t]
                        /\ status[n] \in Pending

(* async_receive() registers before the request is sent, so the first      *)
(* answer of the Pod cannot arrive too early: as long as the request waits *)
(* for it, read_loop() finds its channel.                                  *)
FirstAnswerFindsItsRequest ==
  \A f \in Readable :
     (phase = "running" /\ ~Concluding(f) /\ status[f.req] \in Pending) =>
        dispatch_map[Tid(f.req)] # NoChannel

(* The same for the answer that concludes an action.                       *)
ConclusionFindsItsRequest ==
  \A f \in Readable :
     (phase = "running" /\ Concluding(f) /\ status[f.req] \in Pending) =>
        dispatch_map[Tid(f.req)] # NoChannel

(* shutdown_channels(): once the session has ended, no request is left     *)
(* waiting for a first response that cannot come; its channel is closed    *)
(* (or already holds the response).                                        *)
EndReleasesWaiters ==
  \A n \in Request : (phase = "ended" /\ status[n] = "awaiting") =>
     chan[n] \in closed \/ Received(n) # NoFrame

(* Every request ends, whatever the Pod, the link and the caller do.       *)
EveryRequestEnds ==
  \A n \in Request : status[n] \in Pending ~> status[n] \in Outcomes

(* Callers see PodRpc: each gets the answer to its own request.            *)
Rpc == INSTANCE PodRpc WITH
         call <- [n \in Request |-> IF status[n] \in Pending THEN "pending" ELSE status[n]],
         effect <- pod

RpcRefined == Rpc!RpcSpec
=============================================================================
