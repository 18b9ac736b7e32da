------------------------- MODULE PodSession_proofs -------------------------
(***************************************************************************)
(* Theorems about PodSession, for any number of requests, any width of the *)
(* transaction id and any capacity of the write queue.                     *)
(***************************************************************************)
EXTENDS PodSession, TLAPS

LEMMA TidType == \A n \in Nat : Tid(n) \in Tids
  BY SessionAssumption DEF Tid, Tids

LEMMA NoChannelIsNone == NoChannel \notin Channel
  BY DEF NoChannel, Channel, Request

LEMMA NoFrameIsNone == NoFrame \notin Frame
  BY DEF NoFrame, Frame, Request

(* The session's state always has its type.                                *)
THEOREM TypeCorrect == SessionSpec => []SessionTypeOK
<1>1. SessionInit => SessionTypeOK
  BY SessionAssumption DEF SessionInit, SessionTypeOK, Kinds
<1>2. SessionTypeOK /\ [SessionNext]_sessionVars => SessionTypeOK'
  <2> SUFFICES ASSUME SessionTypeOK, [SessionNext]_sessionVars PROVE SessionTypeOK'
    OBVIOUS
  <2> USE TidType, SessionAssumption DEF SessionTypeOK
  <2>1. CASE RunSession
    BY <2>1 DEF RunSession
  <2>2. CASE EndSession
    BY <2>2 DEF EndSession
  <2>3. ASSUME NEW n \in Request, NEW lost \in BOOLEAN, WriteFrame(n, lost)
        PROVE  SessionTypeOK'
    BY <2>3 DEF WriteFrame, Pending, Waiting
  <2>4. ASSUME NEW f \in link, Dispatch(f) PROVE SessionTypeOK'
    BY <2>4 DEF Dispatch, Frame, Request
  <2>5. ASSUME NEW f \in link, SkipDamagedFrame(f) PROVE SessionTypeOK'
    BY <2>5 DEF SkipDamagedFrame
  <2>6. ASSUME NEW n \in Request, NEW k \in Kinds, SendRequest(n, k) PROVE SessionTypeOK'
    <3>1. n \in Nat /\ Tid(n) \in Tids
      BY DEF Request
    <3>2. <<n, 1>> \in Channel
      BY DEF Channel
    <3>3. Registered(dispatch_map, n, 1) \in Channel
      BY <3>1, <3>2 DEF Registered
    <3>4. /\ issued' \in 0..MaxRequests
          /\ kind' \in [Request -> Kinds]
          /\ UNCHANGED <<phase, buffer, closed, pod, link>>
      BY <2>6 DEF SendRequest, Request
    <3>5. CASE phase = "ended"
      <4>1. /\ status' = [status EXCEPT ![n] = "closed"]
            /\ dispatch_map' = [dispatch_map EXCEPT ![Tid(n)] = NoChannel]
            /\ UNCHANGED <<chan, write_queue>>
        BY <2>6, <3>5 DEF SendRequest
      <4> QED
        BY <4>1, <3>1, <3>4 DEF Outcomes
    <3>6. CASE phase # "ended"
      <4> DEFINE room == Cardinality(write_queue) < WriteCapacity
      <4>1. /\ status' = [status EXCEPT ![n] = IF room THEN "awaiting" ELSE "sending"]
            /\ write_queue' = IF room THEN write_queue \cup {n} ELSE write_queue
            /\ dispatch_map' = [dispatch_map EXCEPT ![Tid(n)] = Registered(dispatch_map, n, 1)]
            /\ chan' = [chan EXCEPT ![n] = Registered(dispatch_map, n, 1)]
        BY <2>6, <3>6 DEF SendRequest
      <4> QED
        <5>1. /\ dispatch_map' \in [Tids -> Channel \cup {NoChannel}]
              /\ chan' \in [Request -> Channel \cup {NoChannel}]
          BY <4>1, <3>1, <3>3
        <5>2. /\ status' \in [Request -> {"idle"} \cup Pending \cup Outcomes]
              /\ write_queue' \subseteq Request
          <6> HIDE DEF room
          <6> QED  BY <4>1 DEF Pending, Waiting
        <5> QED
          BY <5>1, <5>2, <3>4
    <3> QED
      BY <3>5, <3>6
  <2>7. ASSUME NEW n \in Request, ResumeFirst(n) PROVE SessionTypeOK'
    BY <2>7 DEF ResumeFirst, Conclude, Dropped, Outcomes
  <2>8. ASSUME NEW n \in Request, ResumeAck(n) PROVE SessionTypeOK'
    <3> DEFINE map == Dropped(dispatch_map, n)
    <3>1. n \in Nat /\ Tid(n) \in Tids /\ <<n, 2>> \in Channel
      BY DEF Request, Channel
    <3>2. map \in [Tids -> Channel \cup {NoChannel}]
      BY <3>1 DEF Dropped
    <3>3. Registered(map, n, 2) \in Channel
      BY <3>1, <3>2 DEF Registered
    <3> HIDE DEF map
    <3>4. /\ chan' = [chan EXCEPT ![n] = Registered(map, n, 2)]
          /\ dispatch_map' = [map EXCEPT ![Tid(n)] = Registered(map, n, 2)]
      BY <2>8 DEF ResumeAck, map
    <3>5. /\ chan' \in [Request -> Channel \cup {NoChannel}]
          /\ dispatch_map' \in [Tids -> Channel \cup {NoChannel}]
      BY <3>1, <3>2, <3>3, <3>4
    <3>6. /\ status' \in [Request -> {"idle"} \cup Pending \cup Outcomes]
          /\ buffer' \in [Channel -> Frame \cup {NoFrame}]
          /\ UNCHANGED <<phase, issued, kind, closed, write_queue, pod, link>>
      BY <2>8 DEF ResumeAck, Pending, Waiting
    <3> QED
      BY <3>5, <3>6
  <2>9. ASSUME NEW n \in Request, ResumeEvent(n) PROVE SessionTypeOK'
    BY <2>9 DEF ResumeEvent, Conclude, Dropped, Outcomes
  <2>10. ASSUME NEW n \in Request, Timeout(n) \/ Stop(n) \/ FailClosed(n) PROVE SessionTypeOK'
    BY <2>10 DEF Timeout, Stop, FailClosed, Conclude, Dropped, Outcomes
  <2>11. ASSUME NEW n \in Request, PodStep(n) PROVE SessionTypeOK'
    BY <2>11 DEF PodStep, PodReply, PodAck, PodNak, PodFinish, PodFail, PodAnswer,
                 Frame, Messages
  <2>12. CASE UNCHANGED sessionVars
    BY <2>12 DEF sessionVars
  <2> QED
    BY <2>1, <2>2, <2>3, <2>4, <2>5, <2>6, <2>7, <2>8, <2>9, <2>10, <2>11, <2>12
       DEF SessionNext, SessionStep, RequestStep
<1> QED
  BY <1>1, <1>2, PTL DEF SessionSpec
-----------------------------------------------------------------------------
(* The channels that no request has registered yet.                        *)
Pristine ==
  {c \in Channel : /\ buffer[c] = NoFrame
                   /\ c \notin closed
                   /\ \A t \in Tids : dispatch_map[t] # c}

(* A registration creates the channel it puts into the map, so the channel *)
(* it creates must be pristine: a request that has not been issued has     *)
(* none, one that has not seen its first response has no second one.       *)
FreshChannels ==
  \A n \in Request :
     /\ n > issued => status[n] = "idle" /\ <<n, 1>> \in Pristine
     /\ status[n] \in {"idle", "sending", "awaiting"} => <<n, 2>> \in Pristine

(* A channel is only ever registered under the id of its request.          *)
EntriesAreKeyed ==
  \A t \in Tids : dispatch_map[t] # NoChannel => Tid(dispatch_map[t][1]) = t

(* The inductive invariant behind DispatchNeverFails and EntriesAreHeld.   *)
MapInv ==
  /\ FreshChannels
  /\ EntriesAreKeyed
  /\ DispatchNeverFails
  /\ EntriesAreHeld

(* What SendRequest and ResumeAck need: registering a pristine channel keeps the *)
(* invariant of the map, whatever is registered under the id already.      *)
LEMMA RegisterKeepsMap ==
  ASSUME NEW map \in [Tids -> Channel \cup {NoChannel}],
         NEW n \in Request, NEW stage \in {1, 2},
         \A t \in Tids : map[t] # NoChannel => Tid(map[t][1]) = t
  PROVE  LET c == Registered(map, n, stage)
             new == [map EXCEPT ![Tid(n)] = c]
         IN /\ c \in Channel
            /\ Tid(c[1]) = Tid(n)
            /\ new \in [Tids -> Channel \cup {NoChannel}]
            /\ new[Tid(n)] = c
            /\ \A t \in Tids : t # Tid(n) => new[t] = map[t]
            /\ \A t \in Tids : new[t] # NoChannel => Tid(new[t][1]) = t
<1> DEFINE c == Registered(map, n, stage)
           new == [map EXCEPT ![Tid(n)] = c]
<1>1. n \in Nat /\ Tid(n) \in Tids /\ <<n, stage>> \in Channel /\ <<n, stage>>[1] = n
  BY TidType DEF Request, Channel
<1>2. c \in Channel /\ Tid(c[1]) = Tid(n)
  BY <1>1 DEF Registered
<1> HIDE DEF c
<1>3. /\ new \in [Tids -> Channel \cup {NoChannel}]
      /\ new[Tid(n)] = c
      /\ \A t \in Tids : t # Tid(n) => new[t] = map[t]
  BY <1>1, <1>2
<1>4. \A t \in Tids : new[t] # NoChannel => Tid(new[t][1]) = t
  BY <1>1, <1>2, <1>3
<1> QED
  BY <1>2, <1>3, <1>4 DEF c

(* A request that concludes takes its entry with it and leaves the entries *)
(* of all other requests.                                                  *)
LEMMA ConcludeKeepsMap ==
  ASSUME SessionTypeOK, MapInv, NEW n \in Request, NEW outcome \in Outcomes,
         status[n] \in Pending, Conclude(n, outcome),
         UNCHANGED <<issued, closed>>,
         \A c \in Channel : buffer'[c] = buffer[c] \/ buffer'[c] = NoFrame
  PROVE  MapInv'
<1>1. n \in Nat /\ Tid(n) \in Tids
  BY TidType DEF Request
<1>2. /\ \A t \in Tids : dispatch_map'[t] \in {dispatch_map[t], NoChannel}
      /\ dispatch_map[Tid(n)] = chan[n] => dispatch_map'[Tid(n)] = NoChannel
  BY <1>1 DEF Conclude, Dropped, SessionTypeOK
<1>3. \A m \in Request : m # n => status'[m] = status[m] /\ chan'[m] = chan[m]
  BY DEF Conclude, SessionTypeOK
<1>4. status'[n] = outcome
  BY DEF Conclude, SessionTypeOK
<1>5. FreshChannels'
  <2>1. Pristine \subseteq Pristine'
    BY <1>2, NoChannelIsNone DEF Pristine
  <2>2. \A m \in Request : <<m, 1>> \in Channel /\ <<m, 2>> \in Channel
    BY DEF Channel
  <2>3. n <= issued
    <3>1. ~(n > issued)
      BY DEF MapInv, FreshChannels, Pending, Waiting
    <3> QED
      BY <3>1, <1>1, SessionAssumption DEF SessionTypeOK
  <2>4. outcome \notin {"idle", "sending", "awaiting"}
    BY DEF Outcomes
  <2> SUFFICES ASSUME NEW m \in Request
               PROVE  /\ m > issued => status'[m] = "idle" /\ <<m, 1>> \in Pristine'
                      /\ status'[m] \in {"idle", "sending", "awaiting"} => <<m, 2>> \in Pristine'
    BY DEF FreshChannels
  <2>5. CASE m = n
    <3>1. ~(m > issued)
      BY <2>3, <2>5, SessionAssumption DEF SessionTypeOK, Request
    <3> QED  BY <3>1, <2>4, <2>5, <1>4
  <2>6. CASE m # n
    BY <2>1, <2>6, <1>3 DEF MapInv, FreshChannels
  <2> QED
    BY <2>5, <2>6
<1>6. EntriesAreKeyed'
  BY <1>2 DEF MapInv, EntriesAreKeyed
<1>7. DispatchNeverFails'
  BY <1>2 DEF MapInv, DispatchNeverFails, SessionTypeOK
<1>8. EntriesAreHeld'
  <2> SUFFICES ASSUME NEW t \in Tids, dispatch_map'[t] # NoChannel
               PROVE  \E m \in Request : /\ Tid(m) = t
                                         /\ chan'[m] = dispatch_map'[t]
                                         /\ status'[m] \in Pending
    BY DEF EntriesAreHeld
  <2>1. dispatch_map'[t] = dispatch_map[t]
    BY <1>2
  <2>2. PICK m \in Request : /\ Tid(m) = t
                             /\ chan[m] = dispatch_map[t]
                             /\ status[m] \in Pending
    BY <2>1 DEF MapInv, EntriesAreHeld
  <2>3. m # n
    BY <2>1, <2>2, <1>2
  <2> QED
    BY <2>1, <2>2, <2>3, <1>3
<1> QED
  BY <1>5, <1>6, <1>7, <1>8 DEF MapInv

(* A request that starts on a live session registers its own channel, or   *)
(* joins the one that is registered under its id.                          *)
LEMMA StartKeepsMap ==
  ASSUME SessionTypeOK, MapInv, NEW n \in Request, NEW k \in Kinds, SendRequest(n, k)
  PROVE  MapInv'
<1> DEFINE c == Registered(dispatch_map, n, 1)
<1>1. /\ n \in Nat /\ Tid(n) \in Tids
      /\ <<n, 1>> \in Channel /\ <<n, 2>> \in Channel
      /\ \A m \in Request : <<m, 1>> \in Channel /\ <<m, 2>> \in Channel
  BY TidType DEF Request, Channel
<1>2. /\ n = issued + 1 /\ issued' = n
      /\ buffer' = buffer /\ closed' = closed
  BY DEF SendRequest
<1>3. <<n, 1>> \in Pristine /\ <<n, 2>> \in Pristine /\ status[n] = "idle"
  <2>1. n > issued
    BY <1>2, SessionAssumption DEF SessionTypeOK
  <2> QED
    BY <2>1 DEF MapInv, FreshChannels
<1>4. \A m \in Request : m > issued' => m # n /\ m > issued
  BY <1>1, <1>2, SessionAssumption DEF SessionTypeOK, Request
<1>5. CASE phase = "ended"
  <2>1. /\ status' = [status EXCEPT ![n] = "closed"]
        /\ dispatch_map' = [dispatch_map EXCEPT ![Tid(n)] = NoChannel]
        /\ chan' = chan
    BY <1>5 DEF SendRequest
  <2>2. \A t \in Tids : dispatch_map'[t] \in {dispatch_map[t], NoChannel}
    BY <2>1, <1>1 DEF SessionTypeOK
  <2>3. Pristine \subseteq Pristine'
    BY <1>2, <2>2, NoChannelIsNone DEF Pristine
  <2>4. \A m \in Request : m # n => status'[m] = status[m]
    BY <2>1 DEF SessionTypeOK
  <2>5. status'[n] = "closed"
    BY <2>1 DEF SessionTypeOK
  <2>6. FreshChannels'
    BY <1>4, <2>3, <2>4, <2>5 DEF MapInv, FreshChannels
  <2>7. EntriesAreKeyed' /\ DispatchNeverFails'
    BY <1>2, <2>2 DEF MapInv, EntriesAreKeyed, DispatchNeverFails
  <2>8. EntriesAreHeld'
    <3> SUFFICES ASSUME NEW t \in Tids, dispatch_map'[t] # NoChannel
                 PROVE  \E m \in Request : /\ Tid(m) = t
                                           /\ chan'[m] = dispatch_map'[t]
                                           /\ status'[m] \in Pending
      BY DEF EntriesAreHeld
    <3>1. dispatch_map'[t] = dispatch_map[t]
      BY <2>2
    <3>2. PICK m \in Request : /\ Tid(m) = t
                               /\ chan[m] = dispatch_map[t]
                               /\ status[m] \in Pending
      BY <3>1 DEF MapInv, EntriesAreHeld
    <3>3. m # n
      BY <3>2, <1>3 DEF Pending, Waiting
    <3> QED
      BY <3>1, <3>2, <3>3, <2>1, <2>4
  <2> QED
    BY <2>6, <2>7, <2>8 DEF MapInv
<1>6. CASE phase # "ended"
  <2>1. /\ dispatch_map' = [dispatch_map EXCEPT ![Tid(n)] = c]
        /\ chan' = [chan EXCEPT ![n] = c]
    BY <1>6 DEF SendRequest
  <2>2. /\ status'[n] \in {"sending", "awaiting"}
        /\ \A m \in Request : m # n => status'[m] = status[m]
    <3>1. \E x \in {"sending", "awaiting"} : status' = [status EXCEPT ![n] = x]
      BY <1>6 DEF SendRequest
    <3> QED
      BY <3>1 DEF SessionTypeOK
  <2>3. /\ c \in Channel /\ Tid(c[1]) = Tid(n)
        /\ dispatch_map'[Tid(n)] = c
        /\ \A t \in Tids : t # Tid(n) => dispatch_map'[t] = dispatch_map[t]
        /\ \A t \in Tids : dispatch_map'[t] # NoChannel => Tid(dispatch_map'[t][1]) = t
    BY <2>1, RegisterKeepsMap DEF SessionTypeOK, MapInv, EntriesAreKeyed
  <2>4. \/ c = <<n, 1>>
        \/ c = dispatch_map[Tid(n)] /\ dispatch_map[Tid(n)] # NoChannel
    BY Zenon DEF Registered
  <2> HIDE DEF c
  <2>5. \A d \in Pristine : d # <<n, 1>> => d \in Pristine'
    <3> SUFFICES ASSUME NEW d \in Pristine, d # <<n, 1>> PROVE d \in Pristine'
      OBVIOUS
    <3>1. d # c
      BY <1>1, <2>4 DEF Pristine
    <3>2. \A t \in Tids : dispatch_map'[t] # d
      BY <3>1, <1>1, <2>3 DEF Pristine
    <3> QED
      BY <3>2, <1>2 DEF Pristine
  <2>6. FreshChannels'
    <3> SUFFICES ASSUME NEW m \in Request
                 PROVE  /\ m > issued' => status'[m] = "idle" /\ <<m, 1>> \in Pristine'
                        /\ status'[m] \in {"idle", "sending", "awaiting"} => <<m, 2>> \in Pristine'
      BY DEF FreshChannels
    <3>1. <<m, 2>> # <<n, 1>> /\ (m # n => <<m, 1>> # <<n, 1>>)
      OBVIOUS
    <3>2. CASE m = n
      BY <3>1, <3>2, <1>3, <1>4, <2>5
    <3>3. CASE m # n
      BY <3>1, <3>3, <1>4, <2>2, <2>5 DEF MapInv, FreshChannels
    <3> QED
      BY <3>2, <3>3
  <2>7. EntriesAreKeyed'
    BY <2>3 DEF EntriesAreKeyed
  <2>8. DispatchNeverFails'
    <3>1. buffer[c] = NoFrame /\ c \notin closed
      BY <1>1, <1>3, <2>4 DEF Pristine, MapInv, DispatchNeverFails
    <3> QED
      BY <3>1, <1>2, <2>3 DEF MapInv, DispatchNeverFails
  <2>9. EntriesAreHeld'
    <3> SUFFICES ASSUME NEW t \in Tids, dispatch_map'[t] # NoChannel
                 PROVE  \E m \in Request : /\ Tid(m) = t
                                           /\ chan'[m] = dispatch_map'[t]
                                           /\ status'[m] \in Pending
      BY DEF EntriesAreHeld
    <3>1. CASE t = Tid(n)
      <4>1. chan'[n] = c
        BY <2>1 DEF SessionTypeOK
      <4> QED
        BY <3>1, <4>1, <2>2, <2>3 DEF Pending, Waiting
    <3>2. CASE t # Tid(n)
      <4>1. PICK m \in Request : /\ Tid(m) = t
                                 /\ chan[m] = dispatch_map[t]
                                 /\ status[m] \in Pending
        BY <3>2, <2>3 DEF MapInv, EntriesAreHeld
      <4>2. m # n /\ chan'[m] = chan[m]
        BY <3>2, <4>1, <2>1 DEF SessionTypeOK
      <4> QED
        BY <3>2, <4>1, <4>2, <2>2, <2>3
    <3> QED
      BY <3>1, <3>2
  <2> QED
    BY <2>6, <2>7, <2>8, <2>9 DEF MapInv
<1> QED
  BY <1>5, <1>6

(* An action whose Ack has arrived drops its first registration and        *)
(* registers its second channel, or joins the one another request holds.   *)
LEMMA ResumeAckKeepsMap ==
  ASSUME SessionTypeOK, MapInv, NEW n \in Request, ResumeAck(n)
  PROVE  MapInv'
<1> DEFINE map == Dropped(dispatch_map, n)
           c == Registered(map, n, 2)
<1>1. /\ n \in Nat /\ Tid(n) \in Tids /\ <<n, 2>> \in Channel
      /\ \A m \in Request : <<m, 1>> \in Channel /\ <<m, 2>> \in Channel
  BY TidType DEF Request, Channel
<1>2. /\ issued' = issued /\ closed' = closed
      /\ status[n] = "awaiting"
      /\ dispatch_map' = [map EXCEPT ![Tid(n)] = c]
      /\ chan' = [chan EXCEPT ![n] = c]
      /\ status' = [status EXCEPT ![n] = "awaiting_event"]
      /\ buffer' = [buffer EXCEPT ![chan[n]] = NoFrame]
  BY DEF ResumeAck
<1>3. /\ map \in [Tids -> Channel \cup {NoChannel}]
      /\ \A t \in Tids : map[t] \in {dispatch_map[t], NoChannel}
      /\ dispatch_map[Tid(n)] = chan[n] => map[Tid(n)] = NoChannel
  BY <1>1 DEF Dropped, SessionTypeOK
<1> HIDE DEF map
<1>4. /\ c \in Channel /\ Tid(c[1]) = Tid(n)
      /\ dispatch_map'[Tid(n)] = c
      /\ \A t \in Tids : t # Tid(n) => dispatch_map'[t] = map[t]
      /\ \A t \in Tids : dispatch_map'[t] # NoChannel => Tid(dispatch_map'[t][1]) = t
  <2>1. \A t \in Tids : map[t] # NoChannel => Tid(map[t][1]) = t
    BY <1>3 DEF MapInv, EntriesAreKeyed
  <2> QED
    BY <2>1, <1>2, <1>3, RegisterKeepsMap
<1>5. \/ c = <<n, 2>>
      \/ c = map[Tid(n)] /\ map[Tid(n)] # NoChannel
  BY Zenon DEF Registered
<1> HIDE DEF c
<1>6. <<n, 2>> \in Pristine
  BY <1>2 DEF MapInv, FreshChannels
<1>7. \A d \in Channel : buffer'[d] = buffer[d] \/ buffer'[d] = NoFrame
  BY <1>2 DEF SessionTypeOK
<1>8. \A m \in Request : m # n => status'[m] = status[m] /\ chan'[m] = chan[m]
  BY <1>2 DEF SessionTypeOK
<1>9. status'[n] = "awaiting_event" /\ chan'[n] = c
  BY <1>2 DEF SessionTypeOK
<1>10. FreshChannels'
  <2>1. \A d \in Pristine : d # <<n, 2>> => d \in Pristine'
    <3> SUFFICES ASSUME NEW d \in Pristine, d # <<n, 2>> PROVE d \in Pristine'
      OBVIOUS
    <3>1. d # c
      BY <1>1, <1>3, <1>5 DEF Pristine
    <3>2. \A t \in Tids : dispatch_map'[t] # d
      BY <3>1, <1>1, <1>3, <1>4, NoChannelIsNone DEF Pristine
    <3> QED
      BY <3>2, <1>2, <1>7 DEF Pristine
  <2> SUFFICES ASSUME NEW m \in Request
               PROVE  /\ m > issued => status'[m] = "idle" /\ <<m, 1>> \in Pristine'
                      /\ status'[m] \in {"idle", "sending", "awaiting"} => <<m, 2>> \in Pristine'
    BY <1>2 DEF FreshChannels
  <2>2. <<m, 1>> # <<n, 2>> /\ (m # n => <<m, 2>> # <<n, 2>>)
    OBVIOUS
  <2>3. ~(n > issued)
    BY <1>2 DEF MapInv, FreshChannels
  <2>4. CASE m = n
    BY <2>3, <2>4, <1>9
  <2>5. CASE m # n
    BY <2>1, <2>2, <2>5, <1>8 DEF MapInv, FreshChannels
  <2> QED
    BY <2>4, <2>5
<1>11. EntriesAreKeyed'
  BY <1>4 DEF EntriesAreKeyed
<1>12. DispatchNeverFails'
  <2>1. buffer[c] = NoFrame /\ c \notin closed
    BY <1>1, <1>3, <1>5, <1>6 DEF Pristine, MapInv, DispatchNeverFails
  <2> SUFFICES ASSUME NEW t \in Tids, dispatch_map'[t] # NoChannel
               PROVE  /\ buffer'[dispatch_map'[t]] = NoFrame
                      /\ dispatch_map'[t] \notin closed'
    BY DEF DispatchNeverFails
  <2>2. CASE t = Tid(n)
    BY <2>1, <2>2, <1>2, <1>4, <1>7
  <2>3. CASE t # Tid(n)
    <3>1. dispatch_map'[t] = dispatch_map[t] /\ dispatch_map[t] \in Channel
      BY <2>3, <1>3, <1>4 DEF SessionTypeOK
    <3> QED
      BY <3>1, <1>2, <1>7 DEF MapInv, DispatchNeverFails
  <2> QED
    BY <2>2, <2>3
<1>13. EntriesAreHeld'
  <2> SUFFICES ASSUME NEW t \in Tids, dispatch_map'[t] # NoChannel
               PROVE  \E m \in Request : /\ Tid(m) = t
                                         /\ chan'[m] = dispatch_map'[t]
                                         /\ status'[m] \in Pending
    BY DEF EntriesAreHeld
  <2>1. CASE t = Tid(n)
    BY <2>1, <1>4, <1>9 DEF Pending, Waiting
  <2>2. CASE t # Tid(n)
    <3>1. dispatch_map'[t] = dispatch_map[t]
      BY <2>2, <1>3, <1>4
    <3>2. PICK m \in Request : /\ Tid(m) = t
                               /\ chan[m] = dispatch_map[t]
                               /\ status[m] \in Pending
      BY <3>1 DEF MapInv, EntriesAreHeld
    <3>3. m # n
      BY <2>2, <3>2
    <3> QED
      BY <3>1, <3>2, <3>3, <1>8
  <2> QED
    BY <2>1, <2>2
<1> QED
  BY <1>10, <1>11, <1>12, <1>13 DEF MapInv

(* The invariant of the dispatch map holds for every number of requests    *)
(* and every width of the transaction id, wrapped ids included.            *)
THEOREM MapCorrect == SessionSpec => []MapInv
<1>1. SessionInit => MapInv
  <2> SUFFICES ASSUME SessionInit PROVE MapInv
    OBVIOUS
  <2> USE NoChannelIsNone, SessionAssumption DEF SessionInit
  <2>1. Pristine = Channel
    BY DEF Pristine
  <2>2. FreshChannels
    BY <2>1 DEF FreshChannels, Channel
  <2>3. EntriesAreKeyed /\ DispatchNeverFails /\ EntriesAreHeld
    BY DEF EntriesAreKeyed, DispatchNeverFails, EntriesAreHeld
  <2> QED
    BY <2>2, <2>3 DEF MapInv
<1>2. SessionTypeOK /\ SessionTypeOK' /\ MapInv /\ [SessionNext]_sessionVars => MapInv'
  <2> SUFFICES ASSUME SessionTypeOK, MapInv, [SessionNext]_sessionVars PROVE MapInv'
    OBVIOUS
  <2>1. ASSUME NEW n \in Request, NEW k \in Kinds, SendRequest(n, k) PROVE MapInv'
    BY <2>1, StartKeepsMap
  <2>2. ASSUME NEW n \in Request, ResumeAck(n) PROVE MapInv'
    BY <2>2, ResumeAckKeepsMap
  <2>3. ASSUME NEW n \in Request, ResumeFirst(n) \/ ResumeEvent(n) PROVE MapInv'
    <3>1. PICK outcome \in Outcomes : Conclude(n, outcome)
      BY <2>3 DEF ResumeFirst, ResumeEvent, Outcomes
    <3>2. /\ status[n] \in Pending
          /\ UNCHANGED <<issued, closed>>
          /\ buffer' = [buffer EXCEPT ![chan[n]] = NoFrame]
      BY <2>3 DEF ResumeFirst, ResumeEvent, Pending, Waiting
    <3>3. \A c \in Channel : buffer'[c] = buffer[c] \/ buffer'[c] = NoFrame
      BY <3>2 DEF SessionTypeOK
    <3> QED
      BY <3>1, <3>2, <3>3, ConcludeKeepsMap
  <2>4. ASSUME NEW n \in Request, Timeout(n) \/ Stop(n) \/ FailClosed(n) PROVE MapInv'
    <3>1. PICK outcome \in Outcomes : Conclude(n, outcome)
      BY <2>4 DEF Timeout, Stop, FailClosed, Outcomes
    <3>2. /\ status[n] \in Pending
          /\ UNCHANGED <<issued, closed, buffer>>
      BY <2>4 DEF Timeout, Stop, FailClosed, Pending, Waiting
    <3> QED
      BY <3>1, <3>2, ConcludeKeepsMap
  <2>5. CASE EndSession
    <3>1. /\ \A t \in Tids : dispatch_map'[t] = NoChannel
          /\ UNCHANGED <<issued, status, buffer>>
          /\ closed' = closed \cup ({dispatch_map[t] : t \in Tids} \ {NoChannel})
      BY <2>5 DEF EndSession
    <3>2. Pristine \subseteq Pristine'
      BY <3>1, NoChannelIsNone DEF Pristine
    <3>3. FreshChannels'
      BY <3>1, <3>2 DEF MapInv, FreshChannels
    <3>4. EntriesAreKeyed' /\ DispatchNeverFails' /\ EntriesAreHeld'
      BY <3>1 DEF EntriesAreKeyed, DispatchNeverFails, EntriesAreHeld
    <3> QED
      BY <3>3, <3>4 DEF MapInv
  <2>6. ASSUME NEW f \in link, Dispatch(f) PROVE MapInv'
    <3> DEFINE t == Tid(f.req)
               c == dispatch_map[t]
    <3>1. t \in Tids /\ UNCHANGED <<issued, status, chan, closed>>
      BY <2>6, TidType DEF Dispatch, SessionTypeOK, Frame, Request
    <3>2. /\ \A u \in Tids : dispatch_map'[u] \in {dispatch_map[u], NoChannel}
          /\ dispatch_map'[t] = NoChannel
          /\ \A d \in Channel : d # c => buffer'[d] = buffer[d]
      BY <2>6, <3>1 DEF Dispatch, SessionTypeOK
    <3>3. Pristine \subseteq Pristine'
      BY <3>1, <3>2, NoChannelIsNone DEF Pristine
    <3>4. FreshChannels'
      BY <3>1, <3>3 DEF MapInv, FreshChannels
    <3>5. \A u \in Tids : dispatch_map'[u] # NoChannel => dispatch_map'[u] # c
      BY <3>1, <3>2 DEF MapInv, EntriesAreKeyed
    <3>6. EntriesAreKeyed' /\ DispatchNeverFails' /\ EntriesAreHeld'
      BY <3>1, <3>2, <3>5
         DEF MapInv, EntriesAreKeyed, DispatchNeverFails, EntriesAreHeld, SessionTypeOK
    <3> QED
      BY <3>4, <3>6 DEF MapInv
  <2>7. ASSUME NEW n \in Request, NEW lost \in BOOLEAN, WriteFrame(n, lost) PROVE MapInv'
    <3>1. UNCHANGED <<issued, chan, dispatch_map, buffer, closed>>
      BY <2>7 DEF WriteFrame
    <3>2. \A m \in Request : \/ status'[m] = status[m]
                             \/ status[m] = "sending" /\ status'[m] = "awaiting"
      BY <2>7 DEF WriteFrame, SessionTypeOK
    <3>3. Pristine' = Pristine
      BY <3>1 DEF Pristine
    <3>4. FreshChannels'
      BY <3>1, <3>2, <3>3 DEF MapInv, FreshChannels
    <3>5. EntriesAreKeyed' /\ DispatchNeverFails'
      BY <3>1 DEF MapInv, EntriesAreKeyed, DispatchNeverFails
    <3>6. EntriesAreHeld'
      BY <3>1, <3>2 DEF MapInv, EntriesAreHeld, Pending, Waiting
    <3> QED
      BY <3>4, <3>5, <3>6 DEF MapInv
  <2>8. CASE UNCHANGED <<issued, status, chan, dispatch_map, buffer, closed>>
    BY <2>8 DEF MapInv, FreshChannels, Pristine, EntriesAreKeyed, DispatchNeverFails,
                EntriesAreHeld
  <2>9. ASSUME NEW n \in Request, PodStep(n) PROVE MapInv'
    BY <2>8, <2>9 DEF PodStep, PodReply, PodAck, PodNak, PodFinish, PodFail, PodAnswer
  <2>10. ASSUME NEW f \in link, SkipDamagedFrame(f) PROVE MapInv'
    BY <2>8, <2>10 DEF SkipDamagedFrame
  <2>11. CASE RunSession \/ UNCHANGED sessionVars
    BY <2>8, <2>11 DEF RunSession, sessionVars
  <2> QED
    BY <2>1, <2>2, <2>3, <2>4, <2>5, <2>6, <2>7, <2>9, <2>10, <2>11
       DEF SessionNext, SessionStep, RequestStep
<1> QED
  BY <1>1, <1>2, TypeCorrect, PTL DEF SessionSpec

(* read_loop()'s try_send() never fails, also when ids wrap and a channel  *)
(* is shared.                                                              *)
THEOREM DispatchCorrect == SessionSpec => []DispatchNeverFails
<1>1. MapInv => DispatchNeverFails
  BY DEF MapInv
<1> QED
  BY <1>1, MapCorrect, PTL

(* No entry of the dispatch map outlives the requests that wait on it.     *)
THEOREM EntriesCorrect == SessionSpec => []EntriesAreHeld
<1>1. MapInv => EntriesAreHeld
  BY DEF MapInv
<1> QED
  BY <1>1, MapCorrect, PTL
-----------------------------------------------------------------------------
(* Requests and their answers in a session that reuses an id only once its *)
(* last exchange is over.  What a request, the frames that answer it and   *)
(* the Pod know of each other.                                             *)
First(n)  == {f \in link : f.req = n /\ ~Concluding(f)}
Held(n)   == {buffer[<<n, 1>>], buffer[<<n, 2>>]} \ {NoFrame}
Frames(n) == {f \in link : f.req = n} \cup Held(n)

(* A frame is written once, and not before its request has been sent.      *)
IsUnsent(n) ==
  /\ n \in write_queue => pod[n] = "none"
  /\ status[n] \in {"idle", "sending"} => pod[n] = "none" /\ n \notin write_queue
  /\ status[n] = "awaiting_event" => pod[n] \notin {"none", "requested"}

(* A frame answers its request, and tells what the Pod has done since.     *)
Tells(n, f) ==
  /\ f.req = n
  /\ f.msg = "reply" => kind[n] = "single" /\ pod[n] = "done"
  /\ f.msg = "ack" => \/ kind[n] = "ack" /\ pod[n] = "done"
                      \/ kind[n] = "action" /\ pod[n] \in {"acting", "done", "refused"}
  /\ f.msg = "nak" => kind[n] # "single" /\ pod[n] = "refused"
  /\ f.msg = "event" => kind[n] = "action" /\ pod[n] = "done"
  /\ f.msg = "event_nak" => kind[n] = "action" /\ pod[n] = "refused"

AnswersAreTrue(n) ==
  /\ pod[n] = "acting" => kind[n] = "action"
  /\ \A f \in Frames(n) : Tells(n, f)

ChannelIsOwn(n) ==
  /\ status[n] \in {"sending", "awaiting"} => chan[n] = <<n, 1>>
  /\ status[n] = "awaiting_event" => chan[n] = <<n, 2>>

(* There is one first answer, before anything else is read.                *)
FirstIsUnread(n) ==
  /\ \A f, g \in First(n) : f = g
  /\ First(n) # {} => Held(n) = {} /\ status[n] # "awaiting_event"
  /\ buffer[<<n, 2>>] # NoFrame => Concluding(buffer[<<n, 2>>])

(* A request that waits for its first answer has its entry until it is     *)
(* dispatched or the session ends.                                         *)
EntryIsKept(n) ==
  /\ phase # "ended" /\ status[n] \in {"sending", "awaiting"} /\ buffer[<<n, 1>>] = NoFrame =>
       dispatch_map[Tid(n)] = <<n, 1>>
  /\ phase = "ended" /\ status[n] = "awaiting" => <<n, 1>> \in closed \/ buffer[<<n, 1>>] # NoFrame

Exchange(n) == IsUnsent(n) /\ AnswersAreTrue(n) /\ ChannelIsOwn(n) /\ FirstIsUnread(n) /\ EntryIsKept(n)

ExchangeInv == \A n \in Request : Exchange(n)

(* No two exchanges under the same id are going on at the same time.       *)
IdsAreOwn ==
  \A m, n \in Request : Busy(m) /\ Busy(n) /\ Tid(m) = Tid(n) => m = n

SessionInv == SessionTypeOK /\ MapInv /\ ExchangeInv /\ IdsAreOwn

LEMMA TidIsId == \A n \in Request : Tid(n) \in Tids
  BY TidType, SessionAssumption DEF Request

LEMMA PendingIsBusy == \A n \in Request : status[n] \in Pending => Busy(n)
  BY DEF Busy

(* The entry under the id of an exchange that is going on is its own.      *)
LEMMA EntryIsOwn ==
  ASSUME SessionInv, NEW n \in Request, Busy(n), dispatch_map[Tid(n)] # NoChannel
  PROVE  status[n] \in Pending /\ chan[n] = dispatch_map[Tid(n)]
<1>1. PICK m \in Request : Tid(m) = Tid(n) /\ chan[m] = dispatch_map[Tid(n)] /\ status[m] \in Pending
  BY TidIsId DEF SessionInv, MapInv, EntriesAreHeld
<1> QED
  BY <1>1 DEF SessionInv, IdsAreOwn, Busy

(* Nothing of a request is going on before it has started.                 *)
LEMMA IdleIsFree ==
  ASSUME SessionInv, NEW n \in Request, status[n] = "idle"
  PROVE  ~Busy(n) /\ pod[n] = "none" /\ n \notin write_queue /\ Frames(n) = {}
<1>1. Exchange(n) /\ pod[n] = "none" /\ n \notin write_queue
  BY DEF SessionInv, ExchangeInv, Exchange, IsUnsent
<1>2. Frames(n) = {}
  <2> SUFFICES ASSUME NEW f \in Frames(n) PROVE FALSE
    OBVIOUS
  <2>1. Tells(n, f)
    BY <1>1 DEF Exchange, AnswersAreTrue
  <2>2. f.msg \in Messages
    BY DEF SessionInv, SessionTypeOK, Frames, Held, Frame, Channel
  <2> QED
    BY <1>1, <2>1, <2>2 DEF Tells, Messages
<1> QED
  BY <1>1, <1>2 DEF Busy, Frames, Pending, Waiting

(* The n-th request finds its id unused.                                   *)
LEMMA StartFindsFreeId ==
  ASSUME SessionInv, NEW n \in Request, NEW k \in Kinds, SendRequest(n, k), TakesFreeId
  PROVE  /\ status[n] = "idle" /\ ~Busy(n)
         /\ \A m \in Request : Busy(m) => Tid(m) # Tid(n)
<1>1. n = issued + 1 /\ issued' = n /\ issued \in Nat
  BY SessionAssumption DEF SendRequest, SessionInv, SessionTypeOK
<1>2. \A m \in Request : m > issued => status[m] = "idle"
  BY DEF SessionInv, MapInv, FreshChannels
<1>3. \A m \in Request : Busy(m) => m \in 1..issued
  BY <1>1, <1>2, IdleIsFree DEF Request
<1> QED
  BY <1>1, <1>2, <1>3, IdleIsFree DEF TakesFreeId

(* A step of one request leaves the others alone; frames may be lost.      *)
LEMMA OthersKeepExchange ==
  ASSUME NEW m \in Request, Exchange(m), UNCHANGED <<phase, closed>>,
         status'[m] = status[m], kind'[m] = kind[m], pod'[m] = pod[m], chan'[m] = chan[m],
         status[m] \in Pending => dispatch_map'[Tid(m)] = dispatch_map[Tid(m)],
         buffer'[<<m, 1>>] = buffer[<<m, 1>>], buffer'[<<m, 2>>] = buffer[<<m, 2>>],
         m \in write_queue' => m \in write_queue,
         \A f \in link' : f.req = m => f \in link
  PROVE  Exchange(m)'
<1>1. Held(m)' = Held(m) /\ Frames(m)' \subseteq Frames(m) /\ First(m)' \subseteq First(m)
  BY DEF Held, Frames, First
<1>2. IsUnsent(m)' /\ ChannelIsOwn(m)'
  BY DEF Exchange, IsUnsent, ChannelIsOwn
<1>3. AnswersAreTrue(m)'
  BY <1>1 DEF Exchange, AnswersAreTrue, Tells
<1>4. FirstIsUnread(m)'
  BY <1>1 DEF Exchange, FirstIsUnread, First
<1>5. EntryIsKept(m)'
  BY DEF Exchange, EntryIsKept, Pending, Waiting
<1> QED
  BY <1>2, <1>3, <1>4, <1>5 DEF Exchange

LEMMA ConcludeKeepsExchange ==
  ASSUME SessionInv, NEW n \in Request, NEW outcome \in Outcomes,
         status[n] \in Pending, Conclude(n, outcome),
         UNCHANGED <<phase, kind, closed, write_queue, pod, link>>,
         UNCHANGED buffer \/ (status[n] \in Waiting /\ buffer' = [buffer EXCEPT ![chan[n]] = NoFrame])
  PROVE  ExchangeInv'
<1> USE DEF SessionInv
<1>1. Exchange(n) /\ Tid(n) \in Tids /\ <<n, 1>> \in Channel /\ <<n, 2>> \in Channel
  BY TidIsId DEF ExchangeInv, Channel
<1>2. status'[n] = outcome /\ outcome \notin {"idle"} \cup Pending
  BY DEF Conclude, SessionTypeOK, Outcomes, Pending, Waiting
<1>3. \A c \in Channel : buffer'[c] \in {buffer[c], NoFrame} /\ (c[1] # n => buffer'[c] = buffer[c])
  <2>1. status[n] \in Waiting => chan[n] \in {<<n, 1>>, <<n, 2>>}
    BY <1>1 DEF Exchange, ChannelIsOwn, Waiting
  <2> QED
    BY <2>1 DEF SessionTypeOK
<1>4. Exchange(n)'
  <2>1. Held(n)' \subseteq Held(n) /\ Frames(n)' \subseteq Frames(n) /\ First(n)' = First(n)
    BY <1>1, <1>3 DEF Held, Frames, First
  <2>2. IsUnsent(n)' /\ ChannelIsOwn(n)' /\ EntryIsKept(n)'
    BY <1>1, <1>2 DEF Exchange, IsUnsent, ChannelIsOwn, EntryIsKept, Pending, Waiting
  <2>3. AnswersAreTrue(n)'
    BY <1>1, <2>1 DEF Exchange, AnswersAreTrue, Tells
  <2>4. FirstIsUnread(n)'
    BY <1>1, <1>2, <1>3, <2>1 DEF Exchange, FirstIsUnread, Pending, Waiting
  <2> QED
    BY <2>2, <2>3, <2>4 DEF Exchange
<1>5. ASSUME NEW m \in Request, m # n PROVE Exchange(m)'
  <2>1. /\ status'[m] = status[m] /\ chan'[m] = chan[m]
        /\ Exchange(m) /\ <<m, 1>> \in Channel /\ <<m, 2>> \in Channel /\ <<m, 1>>[1] # n /\ <<m, 2>>[1] # n
    BY <1>5 DEF Conclude, SessionTypeOK, ExchangeInv, Channel
  <2>2. status[m] \in Pending => Tid(m) # Tid(n)
    BY <1>5, PendingIsBusy DEF IdsAreOwn
  <2>3. status[m] \in Pending => dispatch_map'[Tid(m)] = dispatch_map[Tid(m)]
    BY <2>2, TidIsId DEF Conclude, Dropped, SessionTypeOK
  <2> QED
    BY <1>3, <2>1, <2>3, OthersKeepExchange
<1> QED
  BY <1>4, <1>5 DEF ExchangeInv

LEMMA StartKeepsExchange ==
  ASSUME SessionInv, NEW n \in Request, NEW k \in Kinds, SendRequest(n, k), TakesFreeId
  PROVE  ExchangeInv'
<1> USE DEF SessionInv
<1>1. /\ Exchange(n) /\ Tid(n) \in Tids /\ <<n, 1>> \in Channel
      /\ kind' = [kind EXCEPT ![n] = k] /\ UNCHANGED <<phase, buffer, closed, pod, link>>
  BY TidIsId DEF ExchangeInv, Channel, SendRequest
<1>2. status[n] = "idle" /\ \A m \in Request : status[m] \in Pending => Tid(m) # Tid(n)
  BY StartFindsFreeId, PendingIsBusy
<1>3. dispatch_map[Tid(n)] = NoChannel
  BY <1>1, <1>2 DEF MapInv, EntriesAreHeld
<1>4. pod[n] = "none" /\ n \notin write_queue /\ Frames(n) = {} /\ First(n) = {} /\ Held(n) = {}
  BY <1>2, IdleIsFree DEF Frames, First, Held
<1>5. \/ /\ phase = "ended" /\ status' = [status EXCEPT ![n] = "closed"]
         /\ dispatch_map' = [dispatch_map EXCEPT ![Tid(n)] = NoChannel] /\ UNCHANGED <<chan, write_queue>>
      \/ /\ phase # "ended" /\ chan' = [chan EXCEPT ![n] = <<n, 1>>]
         /\ dispatch_map' = [dispatch_map EXCEPT ![Tid(n)] = <<n, 1>>]
         /\ \/ status' = [status EXCEPT ![n] = "awaiting"] /\ write_queue' = write_queue \cup {n}
            \/ status' = [status EXCEPT ![n] = "sending"] /\ write_queue' = write_queue
  BY <1>3 DEF SendRequest, Registered
<1>6. Exchange(n)'
  <2>1. /\ Frames(n)' = {} /\ First(n)' = {} /\ Held(n)' = {}
        /\ status'[n] \in {"closed", "awaiting", "sending"} /\ (status'[n] = "sending" => n \notin write_queue')
    BY <1>1, <1>4, <1>5 DEF Frames, First, Held, SessionTypeOK
  <2>2. IsUnsent(n)' /\ AnswersAreTrue(n)'
    BY <1>1, <1>4, <2>1 DEF IsUnsent, AnswersAreTrue
  <2>3. ChannelIsOwn(n)' /\ EntryIsKept(n)'
    BY <1>1, <1>5 DEF ChannelIsOwn, EntryIsKept, SessionTypeOK
  <2>4. FirstIsUnread(n)'
    BY <2>1 DEF FirstIsUnread, Held
  <2> QED
    BY <2>2, <2>3, <2>4 DEF Exchange
<1>7. ASSUME NEW m \in Request, m # n PROVE Exchange(m)'
  <2>1. /\ status'[m] = status[m] /\ chan'[m] = chan[m]
        /\ kind'[m] = kind[m] /\ Exchange(m) /\ (m \in write_queue' => m \in write_queue)
    BY <1>1, <1>5, <1>7 DEF SessionTypeOK, ExchangeInv
  <2>2. status[m] \in Pending => dispatch_map'[Tid(m)] = dispatch_map[Tid(m)]
    BY <1>1, <1>2, <1>5, TidIsId DEF SessionTypeOK
  <2> QED
    BY <1>1, <2>1, <2>2, OthersKeepExchange
<1> QED
  BY <1>6, <1>7 DEF ExchangeInv

LEMMA ResumeAckKeepsExchange ==
  ASSUME SessionInv, NEW n \in Request, ResumeAck(n)
  PROVE  ExchangeInv'
<1> USE DEF SessionInv
<1>1. /\ Exchange(n) /\ Tid(n) \in Tids /\ <<n, 1>> \in Channel /\ <<n, 2>> \in Channel
      /\ status' = [status EXCEPT ![n] = "awaiting_event"]
      /\ UNCHANGED <<phase, kind, closed, write_queue, pod, link>>
  BY TidIsId DEF ExchangeInv, Channel, ResumeAck
<1>2. /\ status[n] = "awaiting" /\ chan[n] = <<n, 1>>
      /\ buffer[<<n, 1>>] # NoFrame /\ buffer[<<n, 1>>].msg = "ack"
  BY <1>1 DEF ResumeAck, HasMessage, Received, Exchange, ChannelIsOwn
<1>3. Dropped(dispatch_map, n)[Tid(n)] = NoChannel
  <2>1. Busy(n)
    BY <1>2, PendingIsBusy DEF Pending, Waiting
  <2> QED
    BY <1>1, <2>1, EntryIsOwn DEF Dropped, SessionTypeOK
<1>4. /\ chan' = [chan EXCEPT ![n] = <<n, 2>>]
      /\ dispatch_map' = [Dropped(dispatch_map, n) EXCEPT ![Tid(n)] = <<n, 2>>]
      /\ buffer' = [buffer EXCEPT ![<<n, 1>>] = NoFrame]
  BY <1>2, <1>3 DEF ResumeAck, Registered
<1>5. Exchange(n)'
  <2>1. buffer[<<n, 1>>] \in Held(n)
    BY <1>2 DEF Held
  <2>2. First(n) = {}
    BY <1>1, <2>1 DEF Exchange, FirstIsUnread
  <2>3. pod[n] \notin {"none", "requested"}
    <3>1. Tells(n, buffer[<<n, 1>>])
      BY <1>1, <2>1 DEF Exchange, AnswersAreTrue, Frames
    <3> QED
      BY <3>1, <1>2 DEF Tells
  <2>4. /\ Held(n)' \subseteq Held(n) /\ Frames(n)' \subseteq Frames(n) /\ First(n)' = {}
        /\ buffer'[<<n, 2>>] = buffer[<<n, 2>>]
        /\ status'[n] = "awaiting_event" /\ chan'[n] = <<n, 2>>
    BY <1>1, <1>4, <2>2 DEF Held, Frames, First, SessionTypeOK
  <2>5. IsUnsent(n)' /\ ChannelIsOwn(n)' /\ EntryIsKept(n)'
    BY <1>1, <2>3, <2>4 DEF Exchange, IsUnsent, ChannelIsOwn, EntryIsKept
  <2>6. AnswersAreTrue(n)'
    BY <1>1, <2>4 DEF Exchange, AnswersAreTrue, Tells
  <2>7. FirstIsUnread(n)'
    BY <1>1, <2>4 DEF Exchange, FirstIsUnread
  <2> QED
    BY <2>5, <2>6, <2>7 DEF Exchange
<1>6. ASSUME NEW m \in Request, m # n PROVE Exchange(m)'
  <2>1. /\ status'[m] = status[m] /\ chan'[m] = chan[m] /\ Exchange(m)
        /\ buffer'[<<m, 1>>] = buffer[<<m, 1>>] /\ buffer'[<<m, 2>>] = buffer[<<m, 2>>]
    BY <1>1, <1>4, <1>6 DEF SessionTypeOK, ExchangeInv, Channel
  <2>2. status[m] \in Pending => Tid(m) # Tid(n)
    BY <1>2, <1>6, PendingIsBusy DEF IdsAreOwn, Pending, Waiting
  <2>3. status[m] \in Pending => dispatch_map'[Tid(m)] = dispatch_map[Tid(m)]
    BY <1>4, <2>2, TidIsId DEF SessionTypeOK, Dropped
  <2> QED
    BY <1>1, <2>1, <2>3, OthersKeepExchange
<1> QED
  BY <1>5, <1>6 DEF ExchangeInv

(* What is dispatched reaches its own request: the first answer finds the  *)
(* first channel, and only a conclusion finds the second one.              *)
LEMMA DispatchKeepsExchange ==
  ASSUME SessionInv, NEW f \in link, Dispatch(f)
  PROVE  ExchangeInv'
<1> USE DEF SessionInv
<1> DEFINE n == f.req
           c == dispatch_map[Tid(n)]
<1>1. /\ f \in Frame /\ n \in Request /\ Exchange(n) /\ Tid(n) \in Tids
      /\ <<n, 1>> \in Channel /\ <<n, 2>> \in Channel /\ f \in Readable
      /\ phase = "running" /\ link' = link \ {f}
      /\ UNCHANGED <<phase, kind, status, chan, closed, write_queue, pod>> /\ Busy(n)
  BY TidIsId DEF ExchangeInv, Channel, Dispatch, SessionTypeOK, Frame, Busy
<1>2. f # NoFrame
  BY <1>1, NoFrameIsNone
<1>3. \/ c = NoChannel /\ UNCHANGED <<dispatch_map, buffer>>
      \/ /\ c \in {<<n, 1>>, <<n, 2>>} /\ chan[n] = c /\ status[n] \in Pending
         /\ buffer[c] = NoFrame
         /\ dispatch_map' = [dispatch_map EXCEPT ![Tid(n)] = NoChannel]
         /\ buffer' = [buffer EXCEPT ![c] = f]
  <2>1. c # NoChannel => chan[n] = c /\ status[n] \in Pending /\ c \in {<<n, 1>>, <<n, 2>>}
    BY <1>1, EntryIsOwn DEF Exchange, ChannelIsOwn, Pending, Waiting
  <2>2. c # NoChannel => buffer[c] = NoFrame /\ c \notin closed
    BY <1>1 DEF MapInv, DispatchNeverFails
  <2> QED
    BY <2>1, <2>2 DEF Dispatch
<1> HIDE DEF c
<1>4. Exchange(n)'
  <2>1. Held(n)' \subseteq Held(n) \cup {f} /\ Frames(n)' \subseteq Frames(n)
    BY <1>1, <1>3 DEF Held, Frames, SessionTypeOK
  <2>2. First(n)' = First(n) \ {f}
    BY <1>1 DEF First
  <2>3. IsUnsent(n)' /\ ChannelIsOwn(n)'
    BY <1>1 DEF Exchange, IsUnsent, ChannelIsOwn
  <2>4. AnswersAreTrue(n)'
    BY <1>1, <2>1 DEF Exchange, AnswersAreTrue, Tells
  <2>5. EntryIsKept(n)'
    <3>1. CASE c = <<n, 1>>
      BY <1>1, <1>2, <1>3, <3>1, <2>3 DEF SessionTypeOK, Exchange, EntryIsKept
    <3>2. CASE c # <<n, 1>>
      <4>1. buffer'[<<n, 1>>] = buffer[<<n, 1>>]
        BY <1>1, <1>3, <3>2 DEF SessionTypeOK
      <4>2. ~(status[n] \in {"sending", "awaiting"} /\ buffer[<<n, 1>>] = NoFrame)
        BY <1>1, <3>2 DEF Exchange, EntryIsKept, c
      <4> QED
        BY <1>1, <4>1, <4>2 DEF EntryIsKept
    <3> QED
      BY <3>1, <3>2
  <2>6. FirstIsUnread(n)'
    <3>1. \A g, h \in First(n)' : g = h
      BY <1>1, <2>2 DEF Exchange, FirstIsUnread
    <3>2. CASE First(n) = {}
      <4>1. Concluding(f)
        BY <1>1, <3>2 DEF First
      <4> QED
        BY <1>1, <1>3, <2>2, <3>2, <4>1 DEF Exchange, FirstIsUnread, SessionTypeOK
    <3>3. CASE First(n) # {}
      <4>1. f \in First(n) /\ ~Concluding(f)
        BY <1>1, <3>3 DEF First, Readable
      <4>2. First(n)' = {}
        BY <1>1, <2>2, <4>1 DEF Exchange, FirstIsUnread
      <4>3. c # <<n, 2>>
        <5>1. status[n] # "awaiting_event"
          BY <1>1, <3>3 DEF Exchange, FirstIsUnread
        <5>2. status[n] \in Pending => chan[n] # <<n, 2>>
          BY <1>1, <5>1 DEF Exchange, ChannelIsOwn, Pending, Waiting
        <5>3. c \in {<<n, 1>>, <<n, 2>>} => c # NoChannel
          BY <1>1, NoChannelIsNone
        <5> QED
          BY <1>3, <5>2, <5>3
      <4>4. buffer'[<<n, 2>>] = buffer[<<n, 2>>]
        BY <1>1, <1>3, <4>3 DEF SessionTypeOK
      <4> QED
        BY <1>1, <4>2, <4>4 DEF Exchange, FirstIsUnread
    <3> QED
      BY <3>2, <3>3
  <2> QED
    BY <2>3, <2>4, <2>5, <2>6 DEF Exchange
<1>5. ASSUME NEW m \in Request, m # n PROVE Exchange(m)'
  <2>1. /\ Exchange(m)
        /\ buffer'[<<m, 1>>] = buffer[<<m, 1>>] /\ buffer'[<<m, 2>>] = buffer[<<m, 2>>]
    BY <1>1, <1>3, <1>5 DEF SessionTypeOK, ExchangeInv, Channel
  <2>2. status[m] \in Pending => Tid(m) # Tid(n)
    BY <1>1, <1>5, PendingIsBusy DEF IdsAreOwn
  <2>3. status[m] \in Pending => dispatch_map'[Tid(m)] = dispatch_map[Tid(m)]
    BY <1>3, <2>2, TidIsId DEF SessionTypeOK
  <2> QED
    BY <1>1, <2>1, <2>3, OthersKeepExchange
<1> QED
  BY <1>4, <1>5 DEF ExchangeInv

(* A frame is written once; the sender that gets its place is no longer    *)
(* blocked.                                                                *)
LEMMA WriteKeepsExchange ==
  ASSUME SessionTypeOK, ExchangeInv, NEW n \in Request, NEW lost \in BOOLEAN, WriteFrame(n, lost)
  PROVE  ExchangeInv'
<1>1. /\ phase = "running" /\ n \in write_queue /\ pod[n] = "none"
      /\ UNCHANGED <<phase, issued, kind, chan, dispatch_map, buffer, closed, link>>
  BY DEF WriteFrame, ExchangeInv, Exchange, IsUnsent
<1>2. \A m \in Request : pod'[m] = IF m = n /\ ~lost THEN "requested" ELSE pod[m]
  BY DEF WriteFrame, SessionTypeOK
<1>3. \A m \in Request : \/ status'[m] = status[m] /\ (m \in write_queue' => m \in write_queue /\ m # n)
                         \/ /\ status[m] = "sending" /\ status'[m] = "awaiting" /\ m # n
  <2> DEFINE blocked == {m \in Request : status[m] = "sending"}
             next == {m \in blocked : \A b \in blocked : m <= b}
  <2>1. /\ write_queue' = (write_queue \ {n}) \cup next
        /\ status' = [m \in Request |-> IF m \in next THEN "awaiting" ELSE status[m]]
    BY DEF WriteFrame
  <2>2. \A m \in next : status[m] = "sending" /\ m # n
    BY <1>1 DEF ExchangeInv, Exchange, IsUnsent
  <2> HIDE DEF next
  <2> QED
    BY <2>1, <2>2
<1> SUFFICES ASSUME NEW m \in Request PROVE Exchange(m)'
  BY DEF ExchangeInv
<1>4. Exchange(m) /\ Held(m)' = Held(m) /\ Frames(m)' = Frames(m) /\ First(m)' = First(m)
  BY <1>1 DEF ExchangeInv, Held, Frames, First
<1>5. IsUnsent(m)'
  BY <1>1, <1>2, <1>3, <1>4 DEF Exchange, IsUnsent
<1>6. AnswersAreTrue(m)'
  <2>1. \A f \in Frames(m) : Tells(m, f) /\ f.msg \in Messages
    BY <1>4 DEF Exchange, AnswersAreTrue, SessionTypeOK, Frames, Held, Frame, Channel
  <2>2. m = n => Frames(m) = {}
    BY <1>1, <2>1 DEF Tells, Messages
  <2> QED
    BY <1>1, <1>2, <1>4, <2>2 DEF Exchange, AnswersAreTrue, Tells
<1>7. ChannelIsOwn(m)' /\ EntryIsKept(m)'
  BY <1>1, <1>3, <1>4 DEF Exchange, ChannelIsOwn, EntryIsKept
<1>8. FirstIsUnread(m)'
  BY <1>1, <1>3, <1>4 DEF Exchange, FirstIsUnread
<1> QED
  BY <1>5, <1>6, <1>7, <1>8 DEF Exchange

(* The end of the session closes the channel of every request that waits.  *)
LEMMA PhaseKeepsExchange ==
  ASSUME SessionTypeOK, ExchangeInv, RunSession \/ EndSession
  PROVE  ExchangeInv'
<1> SUFFICES ASSUME NEW m \in Request PROVE Exchange(m)'
  BY DEF ExchangeInv
<1>1. /\ Exchange(m) /\ Tid(m) \in Tids
      /\ UNCHANGED <<kind, status, chan, buffer, write_queue, pod, link>>
  BY TidIsId DEF ExchangeInv, RunSession, EndSession
<1>2. Held(m)' = Held(m) /\ Frames(m)' = Frames(m) /\ First(m)' = First(m)
  BY <1>1 DEF Held, Frames, First
<1>3. IsUnsent(m)' /\ ChannelIsOwn(m)'
  BY <1>1 DEF Exchange, IsUnsent, ChannelIsOwn
<1>4. AnswersAreTrue(m)'
  BY <1>1, <1>2 DEF Exchange, AnswersAreTrue, Tells
<1>5. FirstIsUnread(m)'
  BY <1>1, <1>2 DEF Exchange, FirstIsUnread
<1>6. EntryIsKept(m)'
  <2>1. CASE RunSession
    BY <1>1, <2>1 DEF RunSession, Exchange, EntryIsKept
  <2>2. CASE EndSession
    <3>1. phase # "ended" /\ phase' = "ended"
      BY <2>2 DEF EndSession
    <3>2. status[m] = "awaiting" /\ buffer[<<m, 1>>] = NoFrame => dispatch_map[Tid(m)] = <<m, 1>>
      BY <1>1, <3>1 DEF Exchange, EntryIsKept
    <3>3. <<m, 1>> # NoChannel
      BY NoChannelIsNone DEF Channel
    <3>4. dispatch_map[Tid(m)] = <<m, 1>> => <<m, 1>> \in closed'
      BY <1>1, <2>2, <3>3 DEF EndSession
    <3> QED
      BY <1>1, <3>1, <3>2, <3>4 DEF EntryIsKept
  <2> QED
    BY <2>1, <2>2
<1> QED
  BY <1>3, <1>4, <1>5, <1>6 DEF Exchange

(* The Pod answers a request whose frames are all gone, or an action whose *)
(* Ack is out.                                                             *)
LEMMA PodKeepsExchange ==
  ASSUME SessionTypeOK, ExchangeInv, NEW n \in Request, PodStep(n)
  PROVE  ExchangeInv'
<1>1. PICK msg \in Messages, state \in {"acting", "done", "refused"} :
        /\ PodAnswer(n, msg, state)
        /\ Exchange(n)
        /\ \/ /\ pod[n] = "requested" /\ msg \notin {"event", "event_nak"}
              /\ Tells(n, [req |-> n, msg |-> msg])'
              /\ state = "acting" => kind[n] = "action"
           \/ /\ pod[n] = "acting" /\ kind[n] = "action" /\ state # "acting"
              /\ \/ msg = "event" /\ state = "done"
                 \/ msg = "event_nak" /\ state = "refused"
  <2>1. Exchange(n) /\ (pod[n] = "acting" => kind[n] = "action")
    BY DEF ExchangeInv, Exchange, AnswersAreTrue
  <2>2. kind[n] \in {"single", "ack", "action"}
    BY DEF SessionTypeOK, Kinds
  <2>3. CASE PodReply(n)
    BY <2>1, <2>3 DEF PodReply, PodAnswer, Messages, Tells, SessionTypeOK
  <2>4. CASE PodAck(n)
    BY <2>1, <2>2, <2>4 DEF PodAck, PodAnswer, Messages, Tells, SessionTypeOK
  <2>5. CASE PodNak(n)
    BY <2>1, <2>5 DEF PodNak, PodAnswer, Messages, Tells, SessionTypeOK
  <2>6. CASE PodFinish(n) \/ PodFail(n)
    BY <2>1, <2>6 DEF PodFinish, PodFail, Messages
  <2> QED
    BY <2>3, <2>4, <2>5, <2>6 DEF PodStep
<1> DEFINE f == [req |-> n, msg |-> msg]
<1>2. /\ link' = link \cup {f} /\ pod' = [pod EXCEPT ![n] = state]
      /\ UNCHANGED <<phase, kind, status, chan, dispatch_map, buffer, closed, write_queue>>
      /\ f.req = n /\ f.msg = msg
  BY <1>1 DEF PodAnswer
<1> HIDE DEF f
<1>3. Exchange(n)'
  <2>1. /\ pod'[n] = state /\ pod[n] \notin {"none"}
        /\ Held(n)' = Held(n) /\ Frames(n)' = Frames(n) \cup {f}
    BY <1>1, <1>2 DEF SessionTypeOK, Held, Frames
  <2>2. IsUnsent(n)' /\ ChannelIsOwn(n)' /\ EntryIsKept(n)'
    BY <1>1, <1>2, <2>1 DEF Exchange, IsUnsent, ChannelIsOwn, EntryIsKept
  <2>3. CASE pod[n] = "requested"
    <3>1. Frames(n) = {}
      BY <1>1, <2>3 DEF Exchange, AnswersAreTrue, Tells, SessionTypeOK, Frames, Held, Frame, Channel, Messages
    <3>2. Held(n) = {} /\ First(n) = {} /\ status[n] # "awaiting_event"
      BY <1>1, <2>3, <3>1 DEF Frames, First, Exchange, IsUnsent
    <3>3. Frames(n)' = {f} /\ First(n)' \subseteq {f} /\ Held(n)' = {}
      BY <1>2, <2>1, <3>1, <3>2 DEF First
    <3>4. AnswersAreTrue(n)'
      BY <1>1, <1>2, <2>1, <2>3, <3>3 DEF AnswersAreTrue, f
    <3>5. FirstIsUnread(n)'
      BY <1>2, <3>2, <3>3 DEF FirstIsUnread, Held
    <3> QED
      BY <2>2, <3>4, <3>5 DEF Exchange
  <2>4. CASE pod[n] = "acting"
    <3>1. Concluding(f) /\ First(n)' = First(n)
      BY <1>1, <1>2, <2>4 DEF Concluding, First
    <3>2. FirstIsUnread(n)'
      BY <1>1, <1>2, <2>1, <3>1 DEF Exchange, FirstIsUnread
    <3>3. AnswersAreTrue(n)'
      <4>1. Tells(n, f)'
        BY <1>1, <1>2, <2>1, <2>4 DEF Tells
      <4>2. \A g \in Frames(n) : Tells(n, g)'
        BY <1>1, <1>2, <2>1, <2>4 DEF Exchange, AnswersAreTrue, Tells
      <4> QED
        BY <1>1, <1>2, <2>1, <2>4, <4>1, <4>2 DEF AnswersAreTrue
    <3> QED
      BY <2>2, <3>2, <3>3 DEF Exchange
  <2> QED
    BY <1>1, <2>3, <2>4
<1>4. ASSUME NEW m \in Request, m # n PROVE Exchange(m)'
  <2>1. /\ Exchange(m) /\ pod'[m] = pod[m] /\ \A g \in link' : g.req = m => g \in link
    BY <1>2, <1>4 DEF SessionTypeOK, ExchangeInv
  <2> QED
    BY <1>2, <2>1, OthersKeepExchange
<1> QED
  BY <1>3, <1>4 DEF ExchangeInv

(* An exchange that is over stays over, and a request that starts takes an *)
(* id that is free.                                                        *)
LEMMA StepKeepsOwnIds ==
  ASSUME SessionInv, SessionNext, TakesFreeId
  PROVE  IdsAreOwn'
<1> USE DEF SessionInv
<1>1. ASSUME \A n \in Request : Busy(n)' => Busy(n) PROVE IdsAreOwn'
  BY <1>1 DEF IdsAreOwn, Tid
<1>2. ASSUME NEW n \in Request, NEW k \in Kinds, SendRequest(n, k) PROVE IdsAreOwn'
  <2>1. \A m \in Request : m # n /\ Busy(m)' => Busy(m)
    BY <1>2 DEF SendRequest, Busy, SessionTypeOK
  <2>2. \A m \in Request : Busy(m) => Tid(m) # Tid(n)
    BY <1>2, StartFindsFreeId
  <2> QED
    BY <2>1, <2>2 DEF IdsAreOwn, Tid
<1>3. ASSUME NEW n \in Request, ResumeAck(n) PROVE IdsAreOwn'
  <2>1. /\ status' = [status EXCEPT ![n] = "awaiting_event"] /\ status[n] = "awaiting"
        /\ UNCHANGED <<write_queue, pod, link>>
    BY <1>3 DEF ResumeAck
  <2> QED
    BY <1>1, <2>1 DEF Busy, SessionTypeOK, Pending, Waiting
<1>4. ASSUME NEW n \in Request, NEW outcome \in Outcomes, Conclude(n, outcome),
             UNCHANGED <<write_queue, pod, link>>
      PROVE  IdsAreOwn'
  BY <1>1, <1>4 DEF Conclude, Busy, SessionTypeOK, Outcomes, Pending, Waiting
<1>5. ASSUME NEW n \in Request, ResumeFirst(n) \/ ResumeEvent(n) \/ Timeout(n) \/ Stop(n) \/ FailClosed(n)
      PROVE  IdsAreOwn'
  BY <1>4, <1>5 DEF ResumeFirst, ResumeEvent, Timeout, Stop, FailClosed, Outcomes
<1>6. ASSUME NEW n \in Request, NEW lost \in BOOLEAN, WriteFrame(n, lost) PROVE IdsAreOwn'
  <2>1. \A m \in Request : /\ status'[m] \in Pending => status[m] \in Pending
                           /\ m \in write_queue' => m \in write_queue \/ status[m] \in Pending
                           /\ pod'[m] # pod[m] => m \in write_queue
    BY <1>6 DEF WriteFrame, SessionTypeOK, Pending, Waiting
  <2> QED
    BY <1>1, <1>6, <2>1 DEF Busy, WriteFrame
<1>7. ASSUME NEW n \in Request, PodStep(n) PROVE IdsAreOwn'
  <2>1. /\ pod[n] \in {"requested", "acting"} /\ UNCHANGED <<status, write_queue>>
        /\ \A m \in Request : m # n => pod'[m] = pod[m]
        /\ \A f \in link' : f \in link \/ f.req = n
    BY <1>7 DEF PodStep, PodReply, PodAck, PodNak, PodFinish, PodFail, PodAnswer, SessionTypeOK
  <2> QED
    BY <1>1, <2>1 DEF Busy
<1>8. ASSUME UNCHANGED <<status, write_queue, pod>>, link' \subseteq link PROVE IdsAreOwn'
  BY <1>1, <1>8 DEF Busy
<1>9. CASE RunSession \/ EndSession \/ \E f \in link : Dispatch(f) \/ SkipDamagedFrame(f)
  BY <1>8, <1>9 DEF RunSession, EndSession, Dispatch, SkipDamagedFrame
<1> QED
  BY <1>2, <1>3, <1>5, <1>6, <1>7, <1>9 DEF SessionNext, SessionStep, RequestStep

LEMMA SettledIsSpec == SettledSpec => SessionSpec
<1>1. [SessionNext /\ TakesFreeId]_sessionVars => [SessionNext]_sessionVars
  OBVIOUS
<1> QED
  BY <1>1, PTL DEF SettledSpec, SessionSpec

(* The invariant of the exchange, of sessions that reuse an id only when   *)
(* its exchange is over: what is queued for a request is its own answer,   *)
(* and a request that waits for its first answer keeps its entry.          *)
THEOREM ExchangeCorrect == SettledSpec => []SessionInv
<1>1. SessionInit => ExchangeInv
  <2> SUFFICES ASSUME SessionInit, NEW n \in Request PROVE Exchange(n)
    BY DEF ExchangeInv
  <2>1. Held(n) = {} /\ First(n) = {} /\ Frames(n) = {} /\ buffer[<<n, 2>>] = NoFrame
    BY DEF SessionInit, Held, First, Frames, Channel
  <2> QED
    BY <2>1 DEF SessionInit, Exchange, IsUnsent, AnswersAreTrue, ChannelIsOwn, FirstIsUnread, EntryIsKept
<1>2. SessionInit => IdsAreOwn
  BY DEF SessionInit, IdsAreOwn, Busy, Pending, Waiting
<1>3. SessionInv /\ [SessionNext /\ TakesFreeId]_sessionVars => ExchangeInv'
  <2> SUFFICES ASSUME SessionInv, [SessionNext /\ TakesFreeId]_sessionVars PROVE ExchangeInv'
    OBVIOUS
  <2> USE DEF SessionInv
  <2>1. ASSUME NEW n \in Request, NEW k \in Kinds, SendRequest(n, k), TakesFreeId PROVE ExchangeInv'
    BY <2>1, StartKeepsExchange
  <2>2. ASSUME NEW n \in Request, ResumeAck(n) PROVE ExchangeInv'
    BY <2>2, ResumeAckKeepsExchange
  <2>3. ASSUME NEW n \in Request, ResumeFirst(n) \/ ResumeEvent(n) PROVE ExchangeInv'
    <3>1. PICK outcome \in Outcomes : Conclude(n, outcome)
      BY <2>3 DEF ResumeFirst, ResumeEvent, Outcomes
    <3>2. /\ status[n] \in Waiting /\ status[n] \in Pending
          /\ UNCHANGED <<phase, kind, closed, write_queue, pod, link>>
          /\ buffer' = [buffer EXCEPT ![chan[n]] = NoFrame]
      BY <2>3 DEF ResumeFirst, ResumeEvent, HasMessage, Pending, Waiting
    <3> QED
      BY <3>1, <3>2, ConcludeKeepsExchange
  <2>4. ASSUME NEW n \in Request, Timeout(n) \/ Stop(n) \/ FailClosed(n) PROVE ExchangeInv'
    <3>1. PICK outcome \in Outcomes : Conclude(n, outcome)
      BY <2>4 DEF Timeout, Stop, FailClosed, Outcomes
    <3>2. /\ status[n] \in Pending
          /\ UNCHANGED <<phase, kind, buffer, closed, write_queue, pod, link>>
      BY <2>4 DEF Timeout, Stop, FailClosed, Pending, Waiting
    <3> QED
      BY <3>1, <3>2, ConcludeKeepsExchange
  <2>5. CASE RunSession \/ EndSession
    BY <2>5, PhaseKeepsExchange
  <2>6. ASSUME NEW f \in link, Dispatch(f) PROVE ExchangeInv'
    BY <2>6, DispatchKeepsExchange
  <2>7. ASSUME NEW n \in Request, NEW lost \in BOOLEAN, WriteFrame(n, lost) PROVE ExchangeInv'
    BY <2>7, WriteKeepsExchange
  <2>8. ASSUME NEW n \in Request, PodStep(n) PROVE ExchangeInv'
    BY <2>8, PodKeepsExchange
  <2>9. ASSUME UNCHANGED <<phase, kind, status, chan, dispatch_map, buffer, closed, write_queue, pod>>,
               link' \subseteq link
        PROVE  ExchangeInv'
    BY <2>9, OthersKeepExchange DEF ExchangeInv
  <2>10. ASSUME NEW f \in link, SkipDamagedFrame(f) PROVE ExchangeInv'
    BY <2>9, <2>10 DEF SkipDamagedFrame
  <2>11. CASE UNCHANGED sessionVars
    BY <2>9, <2>11 DEF sessionVars
  <2> QED
    BY <2>1, <2>2, <2>3, <2>4, <2>5, <2>6, <2>7, <2>8, <2>10, <2>11
       DEF SessionNext, SessionStep, RequestStep
<1>4. SessionInv /\ [SessionNext /\ TakesFreeId]_sessionVars => IdsAreOwn'
  <2>1. SessionInv /\ UNCHANGED sessionVars => IdsAreOwn'
    BY DEF SessionInv, IdsAreOwn, Busy, Tid, sessionVars
  <2> QED
    BY <2>1, StepKeepsOwnIds
<1>5. SessionInv <=> SessionTypeOK /\ MapInv /\ ExchangeInv /\ IdsAreOwn
  BY DEF SessionInv
<1> QED
  BY <1>1, <1>2, <1>3, <1>4, <1>5, SettledIsSpec, TypeCorrect, MapCorrect, PTL DEF SettledSpec

(* The first answer to a request that waits finds its channel: it cannot   *)
(* arrive before async_receive() has registered, nor after it was erased.  *)
LEMMA SettledFirstAnswer == SettledSpec => []FirstAnswerFindsItsRequest
<1>1. SessionInv => FirstAnswerFindsItsRequest
  <2> SUFFICES ASSUME SessionInv, NEW f \in Readable, phase = "running",
                      ~Concluding(f), status[f.req] \in Pending
               PROVE  dispatch_map[Tid(f.req)] # NoChannel
    BY DEF FirstAnswerFindsItsRequest
  <2> DEFINE n == f.req
  <2>1. n \in Request /\ f \in First(n) /\ Exchange(n) /\ <<n, 1>> # NoChannel
    BY DEF SessionInv, Readable, SessionTypeOK, Frame, First, ExchangeInv, NoChannel, Request
  <2>2. Held(n) = {} /\ status[n] \in {"sending", "awaiting"}
    BY <2>1 DEF Exchange, FirstIsUnread, Pending, Waiting
  <2>3. buffer[<<n, 1>>] = NoFrame
    BY <2>2 DEF Held
  <2> QED
    BY <2>1, <2>2, <2>3 DEF Exchange, EntryIsKept
<1> QED
  BY <1>1, ExchangeCorrect, PTL

(* shutdown_channels() reaches every request that waits for its first      *)
(* answer when the session ends.                                           *)
LEMMA SettledEndReleases == SettledSpec => []EndReleasesWaiters
<1>1. SessionInv => EndReleasesWaiters
  BY DEF SessionInv, ExchangeInv, Exchange, ChannelIsOwn, EntryIsKept, EndReleasesWaiters, Received
<1> QED
  BY <1>1, ExchangeCorrect, PTL
-----------------------------------------------------------------------------
(* The calls PodRpc sees.                                                  *)
Calls == [n \in Request |-> IF status[n] \in Pending THEN "pending" ELSE status[n]]

(* A request that ends returns to its caller what the Pod has done.        *)
LEMMA ReturnRefined ==
  ASSUME SessionTypeOK, NEW n \in Request, NEW outcome \in Outcomes, status[n] \in Pending,
         Conclude(n, outcome), UNCHANGED <<kind, pod>>,
         outcome = "ok" => pod[n] = "done",
         outcome = "nak" => pod[n] = "refused",
         outcome = "protocol_error" => kind[n] = "action" /\ pod[n] = "done"
  PROVE  Rpc!RpcNext
<1>1. Calls[n] = "pending" /\ Calls' = [Calls EXCEPT ![n] = outcome]
  <2>1. outcome \notin Pending
    BY DEF Outcomes, Pending, Waiting
  <2> QED
    BY <2>1 DEF Calls, Conclude, SessionTypeOK
<1>2. Rpc!Return(n, outcome)
  BY <1>1 DEF Rpc!Return, Calls
<1> QED
  BY <1>2 DEF Rpc!RpcNext, Rpc!RpcOutcomes, Outcomes

(* What a resumed request returns is what its answer tells of the Pod.     *)
LEMMA ResumeRefined ==
  ASSUME SessionTypeOK, ExchangeInv, NEW n \in Request, ResumeFirst(n) \/ ResumeEvent(n)
  PROVE  Rpc!RpcNext
<1> DEFINE f == Received(n)
<1>1. /\ status[n] \in Pending /\ f # NoFrame /\ UNCHANGED <<kind, pod>>
      /\ Exchange(n) /\ <<n, 1>> \in Channel /\ <<n, 2>> \in Channel
  BY DEF ResumeFirst, ResumeEvent, HasMessage, Pending, Waiting, ExchangeInv, Channel
<1>2. /\ Tells(n, f) /\ f.msg \in Messages
      /\ status[n] = "awaiting_event" => Concluding(f)
  <2>1. chan[n] = IF status[n] = "awaiting" THEN <<n, 1>> ELSE <<n, 2>>
    BY <1>1 DEF Exchange, ChannelIsOwn, ResumeFirst, ResumeEvent
  <2>2. f \in Held(n) /\ f \in Frame
    BY <1>1, <2>1 DEF Received, Held, SessionTypeOK
  <2>3. Tells(n, f) /\ f.msg \in Messages
    BY <1>1, <2>2 DEF Exchange, AnswersAreTrue, Frames, Frame
  <2>4. status[n] = "awaiting_event" => Concluding(f)
    BY <1>1, <2>1 DEF Exchange, FirstIsUnread, Received
  <2> QED
    BY <2>3, <2>4
<1>3. kind[n] \in {"single", "ack", "action"}
  BY DEF SessionTypeOK, Kinds
<1>4. \E outcome \in {"ok", "nak", "protocol_error"} :
        /\ Conclude(n, outcome)
        /\ outcome = "ok" => pod[n] = "done"
        /\ outcome = "nak" => pod[n] = "refused"
        /\ outcome = "protocol_error" => kind[n] = "action" /\ pod[n] = "done"
  <2> HIDE DEF f
  <2>1. CASE ResumeFirst(n)
    <3>1. /\ ~(kind[n] = "action" /\ f.msg = "ack")
          /\ Conclude(n, IF \/ kind[n] = "single" /\ f.msg = "reply"
                            \/ kind[n] = "ack" /\ f.msg = "ack" THEN "ok"
                         ELSE IF kind[n] # "single" /\ IsNak(f) THEN "nak"
                         ELSE "protocol_error")
      BY <2>1 DEF ResumeFirst, f
    <3> QED
      BY <1>2, <1>3, <3>1 DEF Tells, IsNak, Messages
  <2>2. CASE ResumeEvent(n)
    <3>1. /\ status[n] = "awaiting_event"
          /\ Conclude(n, IF f.msg = "event" THEN "ok" ELSE IF IsNak(f) THEN "nak" ELSE "protocol_error")
      BY <2>2 DEF ResumeEvent, f
    <3> QED
      BY <1>2, <3>1 DEF Tells, IsNak, Concluding
  <2> QED
    BY <2>1, <2>2
<1> QED
  BY <1>1, <1>4, ReturnRefined DEF Outcomes

(* Every request is a call of PodRpc with one outcome, and an outcome      *)
(* never tells more than the Pod has done for this very request.           *)
LEMMA SettledRpc == SettledSpec => RpcRefined
<1>1. SessionInit => Rpc!RpcInit
  BY DEF SessionInit, Rpc!RpcInit, Pending, Waiting
<1>2. SessionInv /\ [SessionNext /\ TakesFreeId]_sessionVars => [Rpc!RpcNext]_(Rpc!rpcVars)
  <2> SUFFICES ASSUME SessionTypeOK, MapInv, ExchangeInv, [SessionNext]_sessionVars
               PROVE  [Rpc!RpcNext]_(Rpc!rpcVars)
    BY DEF SessionInv
  <2>1. ASSUME UNCHANGED <<kind, status, pod>> PROVE UNCHANGED Rpc!rpcVars
    BY <2>1 DEF Rpc!rpcVars
  <2>2. ASSUME NEW n \in Request, NEW k \in Kinds, SendRequest(n, k) PROVE Rpc!RpcNext
    <3>1. status[n] = "idle"
      <4>1. n > issued
        BY <2>2, SessionAssumption DEF SessionTypeOK, SendRequest
      <4> QED
        BY <4>1 DEF MapInv, FreshChannels
    <3>2. \E s \in {"closed", "awaiting", "sending"} : status' = [status EXCEPT ![n] = s]
      BY <2>2 DEF SendRequest
    <3>3. Calls[n] = "idle" /\ \E c \in {"pending", "closed"} : Calls' = [Calls EXCEPT ![n] = c]
      BY <3>1, <3>2 DEF Calls, SessionTypeOK, Pending, Waiting
    <3>4. Rpc!Invoke(n, k)
      BY <2>2, <3>3 DEF Rpc!Invoke, Calls, SendRequest
    <3> QED
      BY <3>4 DEF Rpc!RpcNext
  <2>3. ASSUME NEW n \in Request, ResumeFirst(n) \/ ResumeEvent(n) PROVE Rpc!RpcNext
    BY <2>3, ResumeRefined
  <2>4. ASSUME NEW n \in Request, Timeout(n) \/ Stop(n) \/ FailClosed(n) PROVE Rpc!RpcNext
    <3>1. PICK outcome \in {"timeout", "stopped", "closed"} : Conclude(n, outcome)
      BY <2>4 DEF Timeout, Stop, FailClosed
    <3>2. status[n] \in Pending /\ UNCHANGED <<kind, pod>>
      BY <2>4 DEF Timeout, Stop, FailClosed, Pending
    <3> QED
      BY <3>1, <3>2, ReturnRefined DEF Outcomes
  <2>5. ASSUME NEW n \in Request, ResumeAck(n) PROVE UNCHANGED Rpc!rpcVars
    <3>1. Calls' = Calls /\ UNCHANGED <<kind, pod>>
      BY <2>5 DEF ResumeAck, Calls, SessionTypeOK, Pending, Waiting
    <3> QED
      BY <3>1 DEF Rpc!rpcVars, Calls
  <2>6. ASSUME NEW n \in Request, NEW lost \in BOOLEAN, WriteFrame(n, lost)
        PROVE  [Rpc!RpcNext]_(Rpc!rpcVars)
    <3>1. Calls' = Calls /\ UNCHANGED kind
      BY <2>6 DEF WriteFrame, Calls, SessionTypeOK, Pending, Waiting
    <3>2. CASE lost
      BY <2>6, <3>1, <3>2 DEF WriteFrame, Rpc!rpcVars, Calls
    <3>3. CASE ~lost
      <4>1. pod[n] = "none" /\ status[n] # "idle" /\ pod' = [pod EXCEPT ![n] = "requested"]
        BY <2>6, <3>3 DEF WriteFrame, ExchangeInv, Exchange, IsUnsent
      <4>2. Calls[n] # "idle"
        BY <4>1 DEF Calls
      <4>3. Rpc!Receive(n)
        BY <3>1, <4>1, <4>2 DEF Rpc!Receive, Calls
      <4> QED
        BY <4>3 DEF Rpc!RpcNext
    <3> QED
      BY <3>2, <3>3
  <2>7. ASSUME NEW n \in Request, PodStep(n) PROVE Rpc!RpcNext
    <3>1. UNCHANGED <<kind, status>> /\ (pod[n] = "acting" => kind[n] = "action")
      BY <2>7 DEF PodStep, PodReply, PodAck, PodNak, PodFinish, PodFail, PodAnswer,
                  ExchangeInv, Exchange, AnswersAreTrue
    <3>2. CASE PodReply(n) \/ PodAck(n)
      <4>1. Rpc!Accept(n)
        BY <3>1, <3>2 DEF PodReply, PodAck, PodAnswer, Rpc!Accept
      <4> QED  BY <4>1 DEF Rpc!RpcNext
    <3>3. CASE PodNak(n) \/ PodFail(n)
      <4>1. Rpc!Refuse(n)
        BY <3>1, <3>3 DEF PodNak, PodFail, PodAnswer, Rpc!Refuse
      <4> QED  BY <4>1 DEF Rpc!RpcNext
    <3>4. CASE PodFinish(n)
      <4>1. Rpc!Finish(n)
        BY <3>1, <3>4 DEF PodFinish, PodAnswer, Rpc!Finish
      <4> QED  BY <4>1 DEF Rpc!RpcNext
    <3> QED
      BY <2>7, <3>2, <3>3, <3>4 DEF PodStep
  <2>8. CASE RunSession \/ EndSession
    BY <2>1, <2>8 DEF RunSession, EndSession
  <2>9. ASSUME NEW f \in link, Dispatch(f) \/ SkipDamagedFrame(f) PROVE UNCHANGED Rpc!rpcVars
    BY <2>1, <2>9 DEF Dispatch, SkipDamagedFrame
  <2>10. CASE UNCHANGED sessionVars
    BY <2>1, <2>10 DEF sessionVars
  <2> QED
    BY <2>2, <2>3, <2>4, <2>5, <2>6, <2>7, <2>8, <2>9, <2>10
       DEF SessionNext, SessionStep, RequestStep
<1> QED
  BY <1>1, <1>2, ExchangeCorrect, PTL DEF SettledSpec, RpcRefined, Rpc!RpcSpec

(* A caller may act on an outcome whenever it likes: what it told of the   *)
(* Pod is still so.  It follows from the steps of PodRpc.                  *)
LEMMA SettledOutcomes == SettledSpec => []Rpc!OutcomesStayTrue
<1> DEFINE True(c, k, e) == /\ c = "ok" => e = "done"
                            /\ c = "nak" => e = "refused"
                            /\ c = "protocol_error" => k = "action" /\ e = "done"
<1>1. Rpc!OutcomesStayTrue <=> \A n \in Request : True(Calls[n], kind[n], pod[n])
  BY DEF Rpc!OutcomesStayTrue, Calls
<1>2. Rpc!RpcInit => Rpc!OutcomesStayTrue
  BY DEF Rpc!RpcInit, Rpc!OutcomesStayTrue
<1>3. SessionTypeOK /\ Rpc!OutcomesStayTrue /\ [Rpc!RpcNext]_(Rpc!rpcVars) => Rpc!OutcomesStayTrue'
  <2> SUFFICES ASSUME SessionTypeOK, \A n \in Request : True(Calls[n], kind[n], pod[n]),
                      [Rpc!RpcNext]_(Rpc!rpcVars), NEW m \in Request
               PROVE  True(Calls[m], kind[m], pod[m])'
    BY <1>1 DEF Rpc!OutcomesStayTrue, Calls
  <2>1. kind \in [Request -> Kinds] /\ pod \in [Request -> {"none", "requested", "acting", "done", "refused"}]
    BY DEF SessionTypeOK
  <2>2. DOMAIN Calls = Request
    BY DEF Calls
  <2>3. ASSUME NEW n \in Request, NEW k \in Kinds, Rpc!Invoke(n, k) PROVE True(Calls[m], kind[m], pod[m])'
    <3>1. PICK c \in {"pending", "closed"} :
            Calls' = [Calls EXCEPT ![n] = c] /\ kind' = [kind EXCEPT ![n] = k] /\ pod' = pod
      BY <2>3 DEF Rpc!Invoke, Calls
    <3> QED
      BY <2>1, <2>2, <3>1
  <2>4. ASSUME NEW n \in Request, Rpc!Receive(n) \/ Rpc!Accept(n) \/ Rpc!Refuse(n) \/ Rpc!Finish(n)
        PROVE  True(Calls[m], kind[m], pod[m])'
    <3>1. Calls' = Calls /\ kind' = kind
      BY <2>4 DEF Rpc!Receive, Rpc!Accept, Rpc!Refuse, Rpc!Finish, Calls
    <3>2. pod'[m] = pod[m] \/ pod[m] \notin {"done", "refused"}
      BY <2>1, <2>4 DEF Rpc!Receive, Rpc!Accept, Rpc!Refuse, Rpc!Finish
    <3> QED
      BY <3>1, <3>2
  <2>5. ASSUME NEW n \in Request, NEW outcome \in Outcomes, Rpc!Return(n, outcome)
        PROVE  True(Calls[m], kind[m], pod[m])'
    <3>1. /\ Calls' = [Calls EXCEPT ![n] = outcome] /\ kind' = kind /\ pod' = pod
          /\ True(outcome, kind[n], pod[n])
      BY <2>5 DEF Rpc!Return, Calls
    <3> QED
      BY <2>2, <3>1
  <2>6. CASE UNCHANGED Rpc!rpcVars
    BY <2>6 DEF Rpc!rpcVars, Calls
  <2> QED
    BY <2>3, <2>4, <2>5, <2>6 DEF Rpc!RpcNext, Rpc!RpcOutcomes, Outcomes
<1>4. SettledSpec => []SessionTypeOK
  BY SettledIsSpec, TypeCorrect, PTL
<1> QED
  BY <1>2, <1>3, <1>4, SettledRpc, PTL DEF RpcRefined, Rpc!RpcSpec

-----------------------------------------------------------------------------
(* generate_new_transaction_id() does not look whether the id it returns   *)
(* is still in use.  A session of no more requests than there are ids      *)
(* takes none of them twice, and that is all the theorems below assume: of *)
(* a longer session TypeCorrect, DispatchCorrect and EntriesCorrect hold,  *)
(* and the rest only as long as every id is settled when it is reused.     *)
LEMMA FewRequestsAreSettled ==
  ASSUME MaxRequests <= TidMod
  PROVE  SessionSpec => SettledSpec
<1>1. \A m, n \in Request : Tid(m) = Tid(n) => m = n
  <2>1. ASSUME NEW n \in Nat, NEW m \in Nat \ {0} PROVE n < m => n % m = n
    BY <2>1, SMT
  <2>2. ASSUME NEW m \in Nat \ {0} PROVE m % m = 0
    BY <2>2, SMT
  <2>3. \A n \in Request : Tid(n) = IF n = TidMod THEN 0 ELSE n
    BY <2>1, <2>2, SessionAssumption DEF Request, Tid
  <2> QED
    BY <2>3 DEF Request
<1>2. SessionTypeOK /\ [SessionNext]_sessionVars => [SessionNext /\ TakesFreeId]_sessionVars
  <2> SUFFICES ASSUME SessionTypeOK, SessionNext, issued' # issued PROVE TakesFreeId
    BY DEF TakesFreeId
  <2>1. PICK n \in Request : n = issued + 1 /\ issued' = n
    BY DEF SessionNext, SessionStep, RunSession, EndSession, WriteFrame, Dispatch, SkipDamagedFrame, RequestStep,
           SendRequest, ResumeFirst, ResumeAck, ResumeEvent, Timeout, Stop, FailClosed,
           PodStep, PodReply, PodAck, PodNak, PodFinish, PodFail, PodAnswer
  <2>2. issued \in 0..MaxRequests /\ \A m \in 1..issued : m \in Request /\ m # n
    BY <2>1, SessionAssumption DEF SessionTypeOK, Request
  <2> QED
    BY <1>1, <2>1, <2>2 DEF TakesFreeId
<1> QED
  BY <1>2, TypeCorrect, PTL DEF SessionSpec, SettledSpec

(* In a session that takes no id twice, the first answer to a request that *)
(* waits finds its channel: it cannot arrive before async_receive() has    *)
(* registered, nor after the entry was erased.                             *)
THEOREM FirstAnswer ==
  ASSUME MaxRequests <= TidMod
  PROVE  SessionSpec => []FirstAnswerFindsItsRequest
BY FewRequestsAreSettled, SettledFirstAnswer, PTL

(* In a session that takes no id twice, shutdown_channels() reaches every  *)
(* request that waits for its first answer when the session ends.          *)
THEOREM EndReleases ==
  ASSUME MaxRequests <= TidMod
  PROVE  SessionSpec => []EndReleasesWaiters
BY FewRequestsAreSettled, SettledEndReleases, PTL

(* Callers of a session that takes no id twice see PodRpc: every request   *)
(* is a call with one outcome, and an outcome never tells more than the    *)
(* Pod has done for this very request.                                     *)
THEOREM RpcImplemented ==
  ASSUME MaxRequests <= TidMod
  PROVE  SessionSpec => RpcRefined
BY FewRequestsAreSettled, SettledRpc, PTL

(* In a session that takes no id twice, a caller may act on an outcome     *)
(* whenever it likes: what it told of the Pod is still so.                 *)
THEOREM OutcomesCorrect ==
  ASSUME MaxRequests <= TidMod
  PROVE  SessionSpec => []Rpc!OutcomesStayTrue
BY FewRequestsAreSettled, SettledOutcomes, PTL
=============================================================================
