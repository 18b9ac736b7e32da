------------------------ MODULE PodLifecycle_proofs ------------------------
(***************************************************************************)
(* What the guest sees of the Pods, and that a Pod has one session, for    *)
(* any number of Pods, devnodes and sessions.  Readiness and the rows are  *)
(* right however late discovery is; that a Pod has one session holds while *)
(* discovery handles a hardware event before the next one comes (MaxLag =  *)
(* 1).                                                                     *)
(***************************************************************************)
EXTENDS PodLifecycle, Integers, TLAPS

LifeStates == {"none", "created", "running", "ended"}
Uevents == [action : {"add", "remove"}, port : Port]

LEMMA NoneIsNothing == None \notin Pod /\ None \notin Port /\ None \notin Session
BY LifecycleAssumption

LEMMA ConnectedIsBoolean == ASSUME NEW pods, NEW state PROVE AllConnected(pods, state) \in BOOLEAN
BY DEF AllConnected

LEMMA ClosuresAreTyped ==
  /\ \A p \in Pod \cup {None}, state \in ConnStates : UpdateRow(p, state) \in Closures
  /\ \A p \in Pod \cup {None} : RemoveRow(p) \in Closures
  /\ \A r \in BOOLEAN : SetReady(r) \in Closures
BY DEF UpdateRow, RemoveRow, SetReady, Closures, ConnStates

LEMMA IdIsTyped == ASSUME TypeOK, NEW s \in Session PROVE Id(s) \in Pod \cup {None}
BY DEF TypeOK, Id

(* What a step of a session does, and what it posts.                       *)
Connects(s, state) ==
  /\ conn' = [conn EXCEPT ![s] = state]
  /\ closures' = closures \o <<UpdateRow(Id(s), state), SetReady(AllConnected(Tracked, conn'))>>

LEMMA SetConnConnects == ASSUME NEW s, NEW state, SetConn(s, state) PROVE Connects(s, state)
BY DEF SetConn, Post, Connects

LEMMA ConnectsIsTyped ==
  ASSUME TypeOK, NEW s \in Session, NEW state \in ConnStates, Connects(s, state)
  PROVE  closures' \in Seq(Closures) /\ conn' \in [Session -> ConnStates]
<1>1. UpdateRow(Id(s), state) \in Closures /\ SetReady(AllConnected(Tracked, conn')) \in Closures
  BY IdIsTyped, ClosuresAreTyped, ConnectedIsBoolean
<1> QED
  BY <1>1 DEF TypeOK, Connects

LEMMA RunKeepsType == ASSUME TypeOK, NEW s \in Session, Run(s) PROVE TypeOK'
<1>1. CASE RunPod(s)
  <2>1. closures' \in Seq(Closures) /\ conn' \in [Session -> ConnStates]
    BY <1>1, SetConnConnects, ConnectsIsTyped DEF RunPod, ConnStates
  <2> QED
    BY <1>1, <2>1 DEF TypeOK, RunPod, usbVars, discoveryVars, uiVars
<1>2. CASE ReadFails(s) \/ GiveUp(s)
  <2>1. EndRun(s)
    BY <1>2 DEF ReadFails, GiveUp
  <2>2. closures' \in Seq(Closures) /\ conn' \in [Session -> ConnStates]
    BY <2>1, SetConnConnects, ConnectsIsTyped DEF EndRun, ConnStates
  <2> QED
    BY <2>1, <2>2 DEF TypeOK, EndRun, usbVars, discoveryVars, uiVars
<1>3. CASE Identify(s)
  <2>1. conn' \in [Session -> ConnStates] /\ known' \in [Session -> BOOLEAN]
    BY <1>3 DEF TypeOK, Identify, ConnStates
  <2>2. closures' \in Seq(Closures)
    <3>1. /\ UpdateRow(dev[s], "connecting") \in Closures /\ UpdateRow(dev[s], "connected") \in Closures
          /\ SetReady(AllConnected(Tracked, conn')) \in Closures
      BY ClosuresAreTyped, ConnectedIsBoolean DEF TypeOK, ConnStates
    <3> QED
      BY <1>3, <3>1 DEF TypeOK, Identify, Post
  <2> QED
    BY <1>3, <2>1, <2>2 DEF TypeOK, Identify, usbVars, discoveryVars, uiVars
<1>4. CASE Destroy(s)
  <2>1. closures' \in Seq(Closures)
    <3>1. /\ UpdateRow(Id(s), conn[s]) \in Closures /\ RemoveRow(Id(s)) \in Closures
          /\ SetReady(AllConnected(Tracked \ {s}, conn)) \in Closures
      BY IdIsTyped, ClosuresAreTyped, ConnectedIsBoolean DEF TypeOK
    <3> QED
      BY <1>4, <3>1 DEF TypeOK, Destroy, Post
  <2> QED
    BY <1>4, <2>1 DEF TypeOK, Destroy, usbVars, discoveryVars, uiVars
<1> QED
  BY <1>1, <1>2, <1>3, <1>4 DEF Run

LEMMA PortKeepsType ==
  ASSUME TypeOK, NEW d \in Port, HandlePort(d)
  PROVE  /\ entries' \in [Pod -> Port \cup {None}]
         /\ life' \in [Session -> LifeStates] /\ dev' \in [Session -> Pod \cup {None}]
         /\ tty' \in [Session -> Port \cup {None}] /\ known' \in [Session -> BOOLEAN]
         /\ conn' \in [Session -> ConnStates]
<1>1. CASE OpenPod(d)
  <2>1. plugged[d] \in Pod
    BY <1>1 DEF TypeOK, OpenPod
  <2>2. PICK s \in Session \ Tracked :
          /\ life' = [life EXCEPT ![s] = "created"] /\ dev' = [dev EXCEPT ![s] = plugged[d]]
          /\ tty' = [tty EXCEPT ![s] = d] /\ known' = [known EXCEPT ![s] = FALSE]
          /\ conn' = [conn EXCEPT ![s] = "disconnected"]
    BY <1>1 DEF OpenPod
  <2> QED
    BY <1>1, <2>1, <2>2 DEF TypeOK, OpenPod, LifeStates, ConnStates
<1>2. CASE SkipPort
  BY <1>2 DEF TypeOK, SkipPort, sessionVars, LifeStates
<1> QED
  BY <1>1, <1>2 DEF HandlePort

LEMMA DiscoverKeepsType == ASSUME TypeOK, Discover PROVE TypeOK'
<1>1. uevents # <<>> => Tail(uevents) \in Seq(Uevents) /\ Len(Tail(uevents)) <= MaxLag
  BY LifecycleAssumption DEF TypeOK, Uevents
<1>2. ASSUME NEW d \in Port, ScanPort(d) PROVE TypeOK'
  BY <1>2, PortKeepsType DEF TypeOK, ScanPort, usbVars, uiVars, LifeStates
<1>3. ASSUME NEW d \in Port, HandleAdd(d) PROVE TypeOK'
  BY <1>1, <1>3, PortKeepsType DEF TypeOK, HandleAdd, NextUevent, uiVars, LifeStates, Uevents
<1>4. ASSUME NEW d \in Port, HandleRemove(d) PROVE TypeOK'
  <2>1. entries' \in [Pod -> Port \cup {None}]
    BY <1>4 DEF TypeOK, HandleRemove
  <2> QED
    BY <1>1, <1>4, <2>1 DEF TypeOK, HandleRemove, NextUevent, sessionVars, uiVars, Uevents
<1> QED
  BY <1>2, <1>3, <1>4 DEF Discover

LEMMA HardwareKeepsType == ASSUME TypeOK, Hardware PROVE TypeOK'
<1>1. ASSUME NEW d \in Port, NEW action \in {"add", "remove"}, Len(uevents) < MaxLag,
             uevents' = Append(uevents, Uevent(action, d))
      PROVE  uevents' \in Seq(Uevents) /\ Len(uevents') <= MaxLag
  BY <1>1, LifecycleAssumption DEF TypeOK, Uevents, Uevent
<1>2. ASSUME NEW d \in Port, Unplug(d) PROVE TypeOK'
  <2>1. uevents' \in Seq(Uevents) /\ Len(uevents') <= MaxLag
    BY <1>1, <1>2 DEF Unplug
  <2> QED
    BY <1>2, <2>1 DEF TypeOK, Unplug, discoveryVars, uiVars, Uevents
<1>3. ASSUME NEW d \in Port, NEW p \in Pod, Plug(p, d) PROVE TypeOK'
  <2>1. uevents' \in Seq(Uevents) /\ Len(uevents') <= MaxLag
    BY <1>1, <1>3 DEF Plug
  <2> QED
    BY <1>3, <2>1 DEF TypeOK, Plug, discoveryVars, sessionVars, uiVars, Uevents
<1> QED
  BY <1>2, <1>3 DEF Hardware

LEMMA RunClosureKeepsType == ASSUME TypeOK, RunClosure PROVE TypeOK'
<1>1. closures \in Seq(Closures) /\ closures # <<>> /\ closures' = Tail(closures)
  BY DEF TypeOK, RunClosure
<1>2. Head(closures) \in Closures /\ closures' \in Seq(Closures)
  BY <1>1
<1>3. ready' \in BOOLEAN
  BY <1>2 DEF TypeOK, RunClosure, Closures
<1>4. rows' \in [Pod -> ConnStates \cup {"absent"}]
  BY <1>2 DEF TypeOK, RunClosure, Closures
<1> QED
  BY <1>2, <1>3, <1>4 DEF TypeOK, RunClosure, usbVars, discoveryVars, sessionVars

(* The variables hold what they are declared to hold.                      *)
THEOREM TypeCorrect == Spec => []TypeOK
<1>1. Init => TypeOK
  <2> SUFFICES ASSUME Init PROVE TypeOK
    OBVIOUS
  <2>1. uevents \in Seq(Uevents) /\ Len(uevents) <= MaxLag /\ closures \in Seq(Closures)
    BY LifecycleAssumption DEF Init
  <2> QED
    BY <2>1 DEF Init, TypeOK, ConnStates, Uevents
<1>2. TypeOK /\ [Next]_lifecycleVars => TypeOK'
  <2> SUFFICES ASSUME TypeOK, [Next]_lifecycleVars PROVE TypeOK'
    OBVIOUS
  <2>1. CASE UNCHANGED lifecycleVars
    BY <2>1 DEF TypeOK, lifecycleVars, usbVars, discoveryVars, sessionVars, uiVars
  <2> QED
    BY <2>1, HardwareKeepsType, DiscoverKeepsType, RunClosureKeepsType, RunKeepsType DEF Next
<1> QED
  BY <1>1, <1>2, PTL DEF Spec
-----------------------------------------------------------------------------
(* Readiness.  The last closure that sets it carries what is the case now, *)
(* unless a Pod was just found; if none is queued, the guest sees it.      *)
NoneBehind(i, kind) == \A j \in 1..Len(closures) : j > i => closures[j].do # kind

ReadinessIsQueued ==
  (\A s \in Session : life[s] # "created") =>
    /\ \A i \in 1..Len(closures) :
         closures[i].do = "ready" /\ NoneBehind(i, "ready") => closures[i].ready = AllConnected(Tracked, conn)
    /\ NoneBehind(0, "ready") => ready = AllConnected(Tracked, conn)

(* What is posted together with the new readiness settles it.              *)
LEMMA PostSetsReadiness ==
  ASSUME TypeOK, NEW cs \in Seq(Closures), NEW k \in 1..Len(cs), closures' = closures \o cs,
         cs[k].do = "ready", \A j \in 1..Len(cs) : j > k => cs[j].do # "ready",
         cs[k].ready = AllConnected(Tracked, conn)'
  PROVE  ReadinessIsQueued'
<1>1. closures \in Seq(Closures) /\ Len(closures) \in Nat /\ Len(cs) \in Nat
  BY DEF TypeOK
<1>2. /\ Len(closures') = Len(closures) + Len(cs)
      /\ \A i \in 1..Len(closures') :
           \/ i \in 1..Len(closures)
           \/ i - Len(closures) \in 1..Len(cs) /\ closures'[i] = cs[i - Len(closures)]
  BY <1>1
<1>3. /\ Len(closures) + k \in 1..Len(closures') /\ Len(closures) + k > 0
      /\ closures'[Len(closures) + k] = cs[k]
  BY <1>1
<1>4. ~NoneBehind(0, "ready")'
  BY <1>3 DEF NoneBehind
<1>5. ASSUME NEW i \in 1..Len(closures'), closures'[i].do = "ready", NoneBehind(i, "ready")'
      PROVE  closures'[i] = cs[k]
  <2>1. ~(Len(closures) + k > i)
    BY <1>3, <1>5 DEF NoneBehind
  <2>2. i - Len(closures) \in 1..Len(cs) /\ closures'[i] = cs[i - Len(closures)]
    BY <1>1, <1>2, <2>1
  <2>3. ~(i - Len(closures) > k)
    BY <1>5, <2>2
  <2>4. i - Len(closures) = k
    <3>1. i \in Int /\ k \in Int /\ Len(closures) \in Int
      BY <1>1, <1>2
    <3>2. \A a, b, c \in Int : ~(a + b > c) /\ ~(c - a > b) => c - a = b
      OBVIOUS
    <3> QED
      BY <2>1, <2>3, <3>1, <3>2
  <2> QED
    BY <2>2, <2>4
<1> QED
  BY <1>4, <1>5 DEF ReadinessIsQueued

LEMMA RunClosureSetsReadiness == ASSUME TypeOK, ReadinessIsQueued, RunClosure PROVE ReadinessIsQueued'
<1>1. /\ closures \in Seq(Closures) /\ closures # <<>> /\ closures' = Tail(closures)
      /\ UNCHANGED <<life, conn>>
      /\ ready' = IF Head(closures).do = "ready" THEN Head(closures).ready ELSE ready
  BY DEF TypeOK, RunClosure, sessionVars
<1>2. AllConnected(Tracked, conn)' = AllConnected(Tracked, conn)
  BY <1>1 DEF AllConnected, Tracked
<1>3. /\ Len(closures) \in Nat \ {0} /\ Len(closures') = Len(closures) - 1
      /\ Head(closures) = closures[1]
      /\ \A i \in 1..Len(closures') : i + 1 \in 1..Len(closures) /\ closures'[i] = closures[i + 1]
      /\ \A i \in 2..Len(closures) : i - 1 \in 1..Len(closures') /\ closures'[i - 1] = closures[i]
  BY <1>1
<1>4. \A i \in 0..Len(closures') : NoneBehind(i, "ready")' => NoneBehind(i + 1, "ready")
  <2> SUFFICES ASSUME NEW i \in 0..Len(closures'), NoneBehind(i, "ready")',
                      NEW j \in 1..Len(closures), j > i + 1
               PROVE  closures[j].do # "ready"
    BY DEF NoneBehind
  <2>1. j \in 2..Len(closures) /\ j - 1 > i
    BY <1>3
  <2> QED
    BY <1>3, <2>1 DEF NoneBehind
<1> HIDE DEF Tracked
<1> SUFFICES ASSUME \A s \in Session : life[s] # "created"
             PROVE  /\ \A i \in 1..Len(closures') :
                         closures'[i].do = "ready" /\ NoneBehind(i, "ready")'
                           => closures'[i].ready = AllConnected(Tracked, conn)
                    /\ NoneBehind(0, "ready")' => ready' = AllConnected(Tracked, conn)
  BY <1>1, <1>2 DEF ReadinessIsQueued
<1>5. ASSUME NEW i \in 1..Len(closures'), closures'[i].do = "ready", NoneBehind(i, "ready")'
      PROVE  closures'[i].ready = AllConnected(Tracked, conn)
  <2>1. NoneBehind(i + 1, "ready")
    BY <1>3, <1>4, <1>5
  <2> QED
    BY <1>3, <1>5, <2>1 DEF ReadinessIsQueued
<1>6. ASSUME NoneBehind(0, "ready")' PROVE ready' = AllConnected(Tracked, conn)
  <2>1. NoneBehind(1, "ready")
    BY <1>3, <1>4, <1>6
  <2>2. CASE Head(closures).do = "ready"
    BY <1>1, <1>3, <2>1, <2>2 DEF ReadinessIsQueued
  <2>3. CASE Head(closures).do # "ready"
    <3>1. NoneBehind(0, "ready")
      BY <1>3, <2>1, <2>3 DEF NoneBehind
    <3> QED
      BY <1>1, <2>3, <3>1 DEF ReadinessIsQueued
  <2> QED
    BY <2>2, <2>3
<1> QED
  BY <1>5, <1>6

LEMMA RunSetsReadiness == ASSUME TypeOK, NEW s \in Session, Run(s) PROVE ReadinessIsQueued'
<1>1. ASSUME NEW state \in ConnStates, Connects(s, state), UNCHANGED <<known, dev>>, Tracked' = Tracked
      PROVE  ReadinessIsQueued'
  <2> DEFINE u == UpdateRow(Id(s), state)
             r == SetReady(AllConnected(Tracked, conn'))
  <2>1. u \in Closures /\ r \in Closures /\ closures' = closures \o <<u, r>>
    BY <1>1, IdIsTyped, ClosuresAreTyped, ConnectedIsBoolean DEF Connects
  <2>2. r.do = "ready" /\ r.ready = AllConnected(Tracked, conn)'
    BY <1>1 DEF SetReady, AllConnected
  <2> HIDE DEF u, r
  <2>3. <<u, r>> \in Seq(Closures) /\ 2 \in 1..Len(<<u, r>>) /\ <<u, r>>[2] = r /\ Len(<<u, r>>) = 2
    BY <2>1
  <2>4. \A j \in 1..Len(<<u, r>>) : j > 2 => <<u, r>>[j].do # "ready"
    BY <2>3
  <2> QED
    BY <2>1, <2>2, <2>3, <2>4, PostSetsReadiness
<1>2. CASE RunPod(s) \/ ReadFails(s) \/ GiveUp(s)
  <2>1. /\ Connects(s, "connecting") \/ Connects(s, "disconnected")
        /\ UNCHANGED <<known, dev>>
    BY <1>2, SetConnConnects DEF RunPod, ReadFails, GiveUp, EndRun
  <2>2. Tracked' = Tracked
    BY <1>2 DEF TypeOK, RunPod, ReadFails, GiveUp, EndRun, Tracked
  <2> QED
    BY <1>1, <2>1, <2>2 DEF ConnStates
<1>3. CASE Identify(s)
  <2> DEFINE u == UpdateRow(dev[s], "connecting")
             w == UpdateRow(dev[s], "connected")
             r == SetReady(AllConnected(Tracked, conn'))
  <2>1. /\ u \in Closures /\ w \in Closures /\ r \in Closures
        /\ closures' = closures \o <<u, w, r>>
    BY <1>3, ClosuresAreTyped, ConnectedIsBoolean DEF TypeOK, ConnStates, Identify, Post
  <2>2. r.do = "ready" /\ r.ready = AllConnected(Tracked, conn)'
    BY <1>3 DEF SetReady, AllConnected, Tracked, Identify
  <2> HIDE DEF u, w, r
  <2>3. <<u, w, r>> \in Seq(Closures) /\ 3 \in 1..Len(<<u, w, r>>) /\ <<u, w, r>>[3] = r /\ Len(<<u, w, r>>) = 3
    BY <2>1
  <2>4. \A j \in 1..Len(<<u, w, r>>) : j > 3 => <<u, w, r>>[j].do # "ready"
    BY <2>3
  <2> QED
    BY <2>1, <2>2, <2>3, <2>4, PostSetsReadiness
<1>4. CASE Destroy(s)
  <2> DEFINE u == UpdateRow(Id(s), conn[s])
             r == SetReady(AllConnected(Tracked \ {s}, conn))
             w == RemoveRow(Id(s))
  <2>1. /\ u \in Closures /\ r \in Closures /\ w \in Closures
        /\ closures' = closures \o <<u, r, w>>
    BY <1>4, IdIsTyped, ClosuresAreTyped, ConnectedIsBoolean DEF TypeOK, Destroy, Post
  <2>2. r.do = "ready" /\ w.do = "remove" /\ r.ready = AllConnected(Tracked, conn)'
    <3>1. Tracked' = Tracked \ {s} /\ conn' = conn
      BY <1>4 DEF TypeOK, Destroy, Tracked
    <3> HIDE DEF Tracked
    <3> QED
      BY <3>1 DEF SetReady, RemoveRow, AllConnected
  <2> HIDE DEF u, w, r
  <2>3. /\ <<u, r, w>> \in Seq(Closures) /\ 2 \in 1..Len(<<u, r, w>>) /\ Len(<<u, r, w>>) = 3
        /\ <<u, r, w>>[2] = r /\ <<u, r, w>>[3] = w
    BY <2>1
  <2>4. \A j \in 1..Len(<<u, r, w>>) : j > 2 => <<u, r, w>>[j].do # "ready"
    BY <2>2, <2>3
  <2> QED
    BY <2>1, <2>2, <2>3, <2>4, PostSetsReadiness
<1> QED
  BY <1>2, <1>3, <1>4 DEF Run

(* A Pod that was just found excuses the readiness of the moment.          *)
LEMMA PortKeepsReadiness ==
  ASSUME TypeOK, ReadinessIsQueued, NEW d \in Port, HandlePort(d), UNCHANGED <<closures, ready>>
  PROVE  ReadinessIsQueued'
<1>1. CASE OpenPod(d)
  <2>1. PICK s \in Session : life' = [life EXCEPT ![s] = "created"]
    BY <1>1 DEF OpenPod
  <2>2. life'[s] = "created"
    BY <2>1 DEF TypeOK
  <2> QED
    BY <2>2 DEF ReadinessIsQueued
<1>2. CASE SkipPort
  <2>1. UNCHANGED <<life, conn>>
    BY <1>2 DEF SkipPort, sessionVars
  <2> QED
    BY <2>1 DEF ReadinessIsQueued, NoneBehind, AllConnected, Tracked
<1> QED
  BY <1>1, <1>2 DEF HandlePort

THEOREM ReadinessCorrect == Spec => []ReadinessIsQueued
<1>1. Init => ReadinessIsQueued
  <2> SUFFICES ASSUME Init PROVE ReadinessIsQueued
    OBVIOUS
  <2>1. Len(closures) = 0 /\ ready = FALSE /\ Tracked = {}
    BY DEF Init, Tracked
  <2>2. ready = AllConnected(Tracked, conn)
    BY <2>1 DEF AllConnected
  <2> QED
    BY <2>1, <2>2 DEF ReadinessIsQueued
<1>2. TypeOK /\ ReadinessIsQueued /\ [Next]_lifecycleVars => ReadinessIsQueued'
  <2> SUFFICES ASSUME TypeOK, ReadinessIsQueued, [Next]_lifecycleVars PROVE ReadinessIsQueued'
    OBVIOUS
  <2>1. CASE UNCHANGED <<life, conn, closures, ready>>
    BY <2>1 DEF ReadinessIsQueued, NoneBehind, AllConnected, Tracked
  <2>2. Hardware \/ (\E d \in Port : HandleRemove(d)) \/ UNCHANGED lifecycleVars
          => UNCHANGED <<life, conn, closures, ready>>
    BY DEF Hardware, Plug, Unplug, HandleRemove, lifecycleVars, sessionVars, uiVars
  <2>3. ASSUME NEW d \in Port, ScanPort(d) \/ HandleAdd(d)
        PROVE  HandlePort(d) /\ UNCHANGED <<closures, ready>>
    BY <2>3 DEF ScanPort, HandleAdd, uiVars
  <2> QED
    BY <2>1, <2>2, <2>3, PortKeepsReadiness, RunSetsReadiness, RunClosureSetsReadiness DEF Next, Discover
<1> QED
  BY <1>1, <1>2, TypeCorrect, PTL DEF Spec

(* Once the Slint thread has caught up, the boot screen is gone exactly    *)
(* when there are Pods and all are connected: for every number of them,    *)
(* and however far discovery lags behind the hardware.                     *)
THEOREM ReadyIsShown == Spec => []ReadyIsCurrent
<1>1. ReadinessIsQueued => ReadyIsCurrent
  <2> SUFFICES ASSUME ReadinessIsQueued, closures = <<>>, \A s \in Session : life[s] # "created"
               PROVE  ready = AllConnected(Tracked, conn)
    BY DEF ReadyIsCurrent
  <2>1. Len(closures) = 0
    OBVIOUS
  <2>2. NoneBehind(0, "ready")
    BY <2>1 DEF NoneBehind
  <2> QED
    BY <2>2 DEF ReadinessIsQueued
<1> QED
  BY <1>1, ReadinessCorrect, PTL
-----------------------------------------------------------------------------
(* One session per Pod.  An open port is the one its entry names, and the  *)
(* Pod is still behind it; a remove event is never older than what is      *)
(* plugged in.                                                             *)
OpenIsEntered ==
  \A s \in Session :
    /\ life[s] # "none" => dev[s] \in Pod
    /\ tty[s] # None => /\ life[s] # "none"
                        /\ plugged[tty[s]] = dev[s] /\ entries[dev[s]] = tty[s]

RemovesAreCurrent ==
  \A i \in 1..Len(uevents) : uevents[i].action = "remove" => plugged[uevents[i].port] = None

SessionInv == OpenIsEntered /\ RemovesAreCurrent /\ OneSessionPerPod

LEMMA HardwareKeepsSessions ==
  ASSUME MaxLag <= 1, TypeOK, SessionInv, Hardware
  PROVE  SessionInv'
<1>1. ASSUME NEW d \in Port, NEW action \in {"add", "remove"}, Len(uevents) < MaxLag,
             uevents' = Append(uevents, Uevent(action, d))
      PROVE  Len(uevents') = 1 /\ uevents'[1] = Uevent(action, d)
  <2>1. uevents \in Seq(Uevents) /\ Len(uevents) = 0
    BY <1>1, LifecycleAssumption DEF TypeOK, Uevents
  <2>2. Uevent(action, d) \in Uevents
    BY DEF Uevent, Uevents
  <2> QED
    BY <1>1, <2>1, <2>2
<1>2. ASSUME NEW d \in Port, Unplug(d) PROVE SessionInv'
  <2>1. RemovesAreCurrent'
    <3>1. Len(uevents') = 1 /\ uevents'[1] = Uevent("remove", d) /\ plugged'[d] = None
      BY <1>1, <1>2 DEF Unplug, TypeOK
    <3> QED
      BY <3>1 DEF RemovesAreCurrent, Uevent
  <2>2. /\ \A s \in Session : tty'[s] # None => tty'[s] = tty[s] /\ tty[s] # d
        /\ \A e \in Port : e # d => plugged'[e] = plugged[e]
        /\ UNCHANGED <<entries, life, dev>>
    BY <1>2 DEF Unplug, TypeOK, discoveryVars
  <2>3. OpenIsEntered'
    <3>1. \A s \in Session : tty'[s] # None => plugged'[tty'[s]] = plugged[tty[s]]
      BY <2>2 DEF TypeOK
    <3> QED
      BY <2>2, <3>1 DEF SessionInv, OpenIsEntered
  <2>4. OneSessionPerPod'
    BY <2>2 DEF SessionInv, OneSessionPerPod
  <2> QED
    BY <2>1, <2>3, <2>4 DEF SessionInv
<1>3. ASSUME NEW d \in Port, NEW p \in Pod, Plug(p, d) PROVE SessionInv'
  <2>1. RemovesAreCurrent'
    <3>1. Len(uevents') = 1 /\ uevents'[1] = Uevent("add", d)
      BY <1>1, <1>3 DEF Plug
    <3> QED
      BY <3>1 DEF RemovesAreCurrent, Uevent
  <2>2. /\ \A e \in Port : e # d => plugged'[e] = plugged[e]
        /\ UNCHANGED <<entries, life, dev, tty>> /\ plugged[d] = None
    BY <1>3 DEF Plug, TypeOK, discoveryVars, sessionVars
  <2>3. OpenIsEntered'
    <3>1. \A s \in Session : tty[s] # None => tty[s] # d
      BY <2>2, NoneIsNothing DEF SessionInv, OpenIsEntered
    <3>2. \A s \in Session : tty[s] # None => plugged'[tty[s]] = plugged[tty[s]]
      BY <2>2, <3>1 DEF TypeOK
    <3> QED
      BY <2>2, <3>2 DEF SessionInv, OpenIsEntered
  <2>4. OneSessionPerPod'
    BY <2>2 DEF SessionInv, OneSessionPerPod
  <2> QED
    BY <2>1, <2>3, <2>4 DEF SessionInv
<1> QED
  BY <1>2, <1>3 DEF Hardware

LEMMA PortKeepsSessions ==
  ASSUME TypeOK, SessionInv, NEW d \in Port, HandlePort(d), UNCHANGED plugged, RemovesAreCurrent'
  PROVE  SessionInv'
<1>1. CASE SkipPort
  BY <1>1 DEF SkipPort, sessionVars, SessionInv, OpenIsEntered, OneSessionPerPod
<1>2. CASE OpenPod(d)
  <2> DEFINE p == plugged[d]
  <2>1. p \in Pod /\ entries[p] = None /\ entries' = [entries EXCEPT ![p] = d]
    BY <1>2 DEF OpenPod, TypeOK
  <2>2. PICK s \in Session \ Tracked :
          /\ life' = [life EXCEPT ![s] = "created"] /\ dev' = [dev EXCEPT ![s] = p]
          /\ tty' = [tty EXCEPT ![s] = d]
    BY <1>2 DEF OpenPod
  <2> HIDE DEF p
  <2>3. /\ tty'[s] = d /\ dev'[s] = p /\ life'[s] = "created" /\ d # None
        /\ \A q \in Session : q # s => tty'[q] = tty[q] /\ dev'[q] = dev[q] /\ life'[q] = life[q]
    BY <2>2, NoneIsNothing DEF TypeOK
  <2>4. \A q \in Session : q # s /\ tty[q] # None => dev[q] # p /\ dev[q] \in Pod
    BY <2>1 DEF SessionInv, OpenIsEntered
  <2>5. OpenIsEntered'
    <3>1. entries'[p] = d /\ \A q \in Pod : q # p => entries'[q] = entries[q]
      BY <2>1 DEF TypeOK
    <3> QED
      BY <2>1, <2>3, <2>4, <3>1 DEF SessionInv, OpenIsEntered, p
  <2>6. OneSessionPerPod'
    BY <2>3, <2>4 DEF SessionInv, OneSessionPerPod
  <2> QED
    BY <2>5, <2>6 DEF SessionInv
<1> QED
  BY <1>1, <1>2 DEF HandlePort

LEMMA RemoveKeepsSessions ==
  ASSUME TypeOK, SessionInv, NEW d \in Port, HandleRemove(d)
  PROVE  SessionInv'
<1>1. /\ uevents \in Seq(Uevents) /\ uevents # <<>> /\ uevents' = Tail(uevents)
      /\ Head(uevents) = Uevent("remove", d)
      /\ UNCHANGED <<plugged, life, dev, tty>>
      /\ \A p \in Pod : entries'[p] = entries[p] \/ entries[p] = d
  BY DEF HandleRemove, NextUevent, TypeOK, Uevents, sessionVars
<1>2. plugged[d] = None
  <2>1. 1 \in 1..Len(uevents) /\ uevents[1] = Uevent("remove", d)
    BY <1>1
  <2>2. uevents[1].action = "remove" /\ uevents[1].port = d
    BY <2>1 DEF Uevent
  <2> QED
    BY <2>1, <2>2 DEF SessionInv, RemovesAreCurrent
<1>3. RemovesAreCurrent'
  <2>1. \A i \in 1..Len(uevents') : i + 1 \in 1..Len(uevents) /\ uevents'[i] = uevents[i + 1]
    BY <1>1
  <2> QED
    BY <1>1, <2>1 DEF SessionInv, RemovesAreCurrent
<1>4. OpenIsEntered'
  <2>1. \A s \in Session : tty[s] # None => tty[s] # d /\ dev[s] \in Pod
    BY <1>2, NoneIsNothing DEF SessionInv, OpenIsEntered
  <2> QED
    BY <1>1, <2>1 DEF SessionInv, OpenIsEntered
<1>5. OneSessionPerPod'
  BY <1>1 DEF SessionInv, OneSessionPerPod
<1> QED
  BY <1>3, <1>4, <1>5 DEF SessionInv

LEMMA RunKeepsSessions == ASSUME TypeOK, SessionInv, NEW s \in Session, Run(s) PROVE SessionInv'
<1>1. /\ UNCHANGED <<plugged, uevents, entries, dev>>
      /\ \A q \in Session : tty'[q] = tty[q] \/ tty'[q] = None
      /\ \A q \in Session : life'[q] # "none" => life[q] # "none"
      /\ \A q \in Session : tty'[q] # None => (life[q] # "none" => life'[q] # "none")
  BY DEF Run, RunPod, Identify, ReadFails, GiveUp, EndRun, Destroy, usbVars, discoveryVars, TypeOK
<1>2. OpenIsEntered'
  BY <1>1 DEF SessionInv, OpenIsEntered
<1>3. RemovesAreCurrent' /\ OneSessionPerPod'
  BY <1>1 DEF SessionInv, RemovesAreCurrent, OneSessionPerPod
<1> QED
  BY <1>2, <1>3 DEF SessionInv

LEMMA SessionStep ==
  ASSUME MaxLag <= 1, TypeOK, SessionInv, [Next]_lifecycleVars
  PROVE  SessionInv'
<1>1. ASSUME UNCHANGED <<usbVars, entries, life, dev, tty>> PROVE SessionInv'
  BY <1>1 DEF usbVars, SessionInv, OpenIsEntered, RemovesAreCurrent, OneSessionPerPod
<1>2. RunClosure \/ UNCHANGED lifecycleVars => UNCHANGED <<usbVars, entries, life, dev, tty>>
  BY DEF RunClosure, lifecycleVars, discoveryVars, sessionVars
<1>3. ASSUME NEW d \in Port, ScanPort(d) PROVE SessionInv'
  <2>1. HandlePort(d) /\ UNCHANGED <<plugged, uevents>>
    BY <1>3 DEF ScanPort, usbVars
  <2> QED
    BY <2>1, PortKeepsSessions DEF SessionInv, RemovesAreCurrent
<1>4. ASSUME NEW d \in Port, HandleAdd(d) PROVE SessionInv'
  <2>1. /\ HandlePort(d) /\ UNCHANGED plugged /\ uevents # <<>> /\ uevents' = Tail(uevents)
        /\ uevents \in Seq(Uevents)
    BY <1>4 DEF HandleAdd, NextUevent, TypeOK, Uevents
  <2>2. \A i \in 1..Len(uevents') : i + 1 \in 1..Len(uevents) /\ uevents'[i] = uevents[i + 1]
    BY <2>1
  <2>3. RemovesAreCurrent'
    BY <2>1, <2>2 DEF SessionInv, RemovesAreCurrent
  <2> QED
    BY <2>1, <2>3, PortKeepsSessions
<1> QED
  BY <1>1, <1>2, <1>3, <1>4, HardwareKeepsSessions, RemoveKeepsSessions, RunKeepsSessions DEF Next, Discover

THEOREM SessionsCorrect == ASSUME MaxLag <= 1 PROVE Spec => []SessionInv
<1>1. Init => SessionInv
  <2> SUFFICES ASSUME Init PROVE SessionInv
    OBVIOUS
  <2>1. Len(uevents) = 0
    BY DEF Init
  <2> QED
    BY <2>1 DEF Init, SessionInv, OpenIsEntered, RemovesAreCurrent, OneSessionPerPod
<1>2. TypeOK /\ SessionInv /\ [Next]_lifecycleVars => SessionInv'
  BY SessionStep
<1> QED
  BY <1>1, <1>2, TypeCorrect, PTL DEF Spec

(* While discovery handles each hardware event before the next one comes,  *)
(* no Pod has two sessions on ports that are there, whatever is plugged    *)
(* where, answers or times out.                                            *)
THEOREM OneSession == ASSUME MaxLag <= 1 PROVE Spec => []OneSessionPerPod
<1>1. SessionInv => OneSessionPerPod
  BY DEF SessionInv
<1> QED
  BY <1>1, SessionsCorrect, PTL
-----------------------------------------------------------------------------
(* The rows.  As for readiness, the last closure about a Pod carries what  *)
(* is the case - however late discovery is, and with a session of the Pod  *)
(* that has ended beside the one it has told its id since.                 *)
Shows(p, state) == \E s \in Tracked : Id(s) = p /\ conn[s] = state

NothingBehind(i, p) == \A j \in 1..Len(closures) : j > i => closures[j].pod # p

RowIsQueued(p) ==
  /\ \A i \in 1..Len(closures) :
       closures[i].pod = p /\ NothingBehind(i, p) /\ closures[i].conn # "absent"
         => Shows(p, closures[i].conn)
  /\ NothingBehind(0, p) /\ rows[p] # "absent" => Shows(p, rows[p])

RowsInv == \A p \in Pod : RowIsQueued(p)

(* cs is posted; its k-th closure is the last one about p, 0 if none is.   *)
LEMMA PostSetsRow ==
  ASSUME TypeOK, NEW p \in Pod, NEW cs \in Seq(Closures), NEW k \in 0..Len(cs),
         closures' = closures \o cs, UNCHANGED rows,
         \A j \in 1..Len(cs) : j > k => cs[j].pod # p,
         k # 0 => /\ cs[k].pod = p
                  /\ cs[k].conn # "absent" => \E s \in Tracked' : Id(s)' = p /\ conn'[s] = cs[k].conn,
         k = 0 => RowIsQueued(p) /\ \A state : Shows(p, state) => Shows(p, state)'
  PROVE  RowIsQueued(p)'
<1>1. closures \in Seq(Closures) /\ Len(closures) \in Nat /\ Len(cs) \in Nat
  BY DEF TypeOK
<1>2. /\ Len(closures') = Len(closures) + Len(cs)
      /\ \A i \in 1..Len(closures') :
           \/ i \in 1..Len(closures) /\ closures'[i] = closures[i]
           \/ i > Len(closures) /\ i - Len(closures) \in 1..Len(cs) /\ closures'[i] = cs[i - Len(closures)]
      /\ \A i \in 1..Len(closures) : i \in 1..Len(closures') /\ closures'[i] = closures[i]
  BY <1>1
<1> HIDE DEF Shows
<1>3. CASE k # 0
  <2>1. /\ Len(closures) + k \in 1..Len(closures') /\ Len(closures) + k > 0
        /\ closures'[Len(closures) + k] = cs[k]
    BY <1>1, <1>3
  <2>2. ~NothingBehind(0, p)'
    BY <1>3, <2>1 DEF NothingBehind
  <2>3. ASSUME NEW i \in 1..Len(closures'), closures'[i].pod = p, NothingBehind(i, p)'
        PROVE  closures'[i] = cs[k]
    <3>1. ~(Len(closures) + k > i)
      BY <1>3, <2>1, <2>3 DEF NothingBehind
    <3>2. i - Len(closures) \in 1..Len(cs) /\ closures'[i] = cs[i - Len(closures)]
      BY <1>1, <1>2, <1>3, <3>1
    <3>3. ~(i - Len(closures) > k)
      BY <2>3, <3>2
    <3>4. i - Len(closures) = k
      <4>1. i \in Int /\ k \in Int /\ Len(closures) \in Int
        BY <1>1, <1>2
      <4>2. \A a, b, c \in Int : ~(a + b > c) /\ ~(c - a > b) => c - a = b
        OBVIOUS
      <4> QED
        BY <3>1, <3>3, <4>1, <4>2
    <3> QED
      BY <3>2, <3>4
  <2>4. ASSUME NEW i \in 1..Len(closures'), closures'[i].pod = p, NothingBehind(i, p)',
               closures'[i].conn # "absent"
        PROVE  Shows(p, closures[i].conn)'
    <3>1. closures'[i].conn = cs[k].conn /\ \E s \in Tracked' : Id(s)' = p /\ conn'[s] = cs[k].conn
      BY <1>3, <2>3, <2>4
    <3> QED
      BY <3>1 DEF Shows
  <2> QED
    BY <2>2, <2>4 DEF RowIsQueued
<1>4. CASE k = 0
  <2>1. \A i \in 1..Len(closures') : closures'[i].pod = p => i \in 1..Len(closures) /\ closures'[i] = closures[i]
    BY <1>1, <1>2, <1>4
  <2>2. \A i \in 0..Len(closures) : NothingBehind(i, p)' => NothingBehind(i, p)
    BY <1>2 DEF NothingBehind
  <2>3. RowIsQueued(p) /\ \A state : Shows(p, state) => Shows(p, state)'
    BY <1>4
  <2>4. ASSUME NEW i \in 1..Len(closures'), closures'[i].pod = p, NothingBehind(i, p)',
               closures'[i].conn # "absent"
        PROVE  Shows(p, closures[i].conn)'
    <3>1. i \in 1..Len(closures) /\ closures'[i] = closures[i] /\ NothingBehind(i, p)
      BY <1>1, <2>1, <2>2, <2>4
    <3>2. Shows(p, closures[i].conn)
      BY <2>3, <2>4, <3>1 DEF RowIsQueued
    <3>3. PICK s \in Tracked' : Id(s)' = p /\ conn'[s] = closures[i].conn
      BY <2>3, <3>2 DEF Shows
    <3> QED
      BY <3>1, <3>3 DEF Shows
  <2>5. ASSUME NothingBehind(0, p)', rows'[p] # "absent" PROVE Shows(p, rows[p])'
    <3>1. Shows(p, rows[p])
      BY <1>1, <2>2, <2>3, <2>5 DEF RowIsQueued
    <3>2. PICK s \in Tracked' : Id(s)' = p /\ conn'[s] = rows[p]
      BY <2>3, <3>1 DEF Shows
    <3> QED
      BY <3>2 DEF Shows
  <2> QED
    BY <2>4, <2>5 DEF RowIsQueued
<1> QED
  BY <1>3, <1>4

LEMMA RunClosureSetsRow ==
  ASSUME TypeOK, NEW p \in Pod, RowIsQueued(p), RunClosure
  PROVE  RowIsQueued(p)'
<1>1. /\ closures \in Seq(Closures) /\ closures # <<>> /\ closures' = Tail(closures)
      /\ UNCHANGED <<life, dev, known, conn>>
      /\ rows \in [Pod -> ConnStates \cup {"absent"}]
      /\ rows' = IF Head(closures).pod = None THEN rows
                 ELSE [rows EXCEPT ![Head(closures).pod] = Head(closures).conn]
  BY DEF TypeOK, RunClosure, sessionVars
<1>2. ASSUME NEW state, NEW shown, Shows(p, state), shown = state
      PROVE  \E s \in Tracked' : Id(s)' = p /\ conn'[s] = shown
  BY <1>1, <1>2 DEF Shows, Tracked, Id
<1>3. /\ Len(closures) \in Nat \ {0} /\ Len(closures') = Len(closures) - 1
      /\ Head(closures) = closures[1] /\ closures[1] \in Closures
      /\ \A i \in 1..Len(closures') : i + 1 \in 1..Len(closures) /\ closures'[i] = closures[i + 1]
      /\ \A i \in 2..Len(closures) : i - 1 \in 1..Len(closures') /\ closures'[i - 1] = closures[i]
  BY <1>1
<1>4. \A i \in 0..Len(closures') : NothingBehind(i, p)' => NothingBehind(i + 1, p)
  <2> SUFFICES ASSUME NEW i \in 0..Len(closures'), NothingBehind(i, p)',
                      NEW j \in 1..Len(closures), j > i + 1
               PROVE  closures[j].pod # p
    BY DEF NothingBehind
  <2>1. j \in 2..Len(closures) /\ j - 1 > i
    BY <1>3
  <2> QED
    BY <1>3, <2>1 DEF NothingBehind
<1>5. ASSUME NEW i \in 1..Len(closures'), closures'[i].pod = p, NothingBehind(i, p)',
             closures'[i].conn # "absent"
      PROVE  Shows(p, closures[i].conn)'
  <2>1. NothingBehind(i + 1, p) /\ i + 1 \in 1..Len(closures) /\ closures'[i] = closures[i + 1]
    BY <1>3, <1>4, <1>5
  <2>2. Shows(p, closures[i + 1].conn)
    BY <1>5, <2>1 DEF RowIsQueued
  <2> QED
    BY <1>2, <2>1, <2>2 DEF Shows
<1>6. ASSUME NothingBehind(0, p)', rows'[p] # "absent" PROVE Shows(p, rows[p])'
  <2>1. NothingBehind(1, p)
    BY <1>3, <1>4, <1>6
  <2>2. CASE Head(closures).pod = p
    <3>1. rows'[p] = closures[1].conn
      BY <1>1, <1>3, <2>2, NoneIsNothing
    <3>2. Shows(p, closures[1].conn)
      BY <1>3, <1>6, <2>1, <2>2, <3>1 DEF RowIsQueued
    <3> QED
      BY <1>2, <3>1, <3>2 DEF Shows
  <2>3. CASE Head(closures).pod # p
    <3>1. NothingBehind(0, p)
      BY <1>3, <2>1, <2>3 DEF NothingBehind
    <3>2. rows'[p] = rows[p]
      BY <1>1, <2>3
    <3>3. Shows(p, rows[p])
      BY <1>6, <3>1, <3>2 DEF RowIsQueued
    <3> QED
      BY <1>2, <3>2, <3>3 DEF Shows
  <2> QED
    BY <2>2, <2>3
<1> QED
  BY <1>5, <1>6 DEF RowIsQueued

(* A Pod without an id, or readiness, is about no row.                     *)
LEMMA PodsOfClosures ==
  /\ \A p, state : UpdateRow(p, state).pod = p /\ UpdateRow(p, state).conn = state
  /\ \A p : RemoveRow(p).pod = p /\ RemoveRow(p).conn = "absent"
  /\ \A r : SetReady(r).pod = None
BY DEF UpdateRow, RemoveRow, SetReady

(* What another session shows of p it goes on to show.                     *)
LEMMA OthersShow ==
  ASSUME NEW p \in Pod, NEW s \in Session, Id(s) # p,
         \A t \in Tracked \ {s} : t \in Tracked' /\ Id(t)' = Id(t) /\ conn'[t] = conn[t]
  PROVE  \A state : Shows(p, state) => Shows(p, state)'
BY DEF Shows

LEMMA ConnectsKeepsRows ==
  ASSUME TypeOK, NEW p \in Pod, RowIsQueued(p), NEW s \in Tracked, NEW state \in ConnStates,
         Connects(s, state), UNCHANGED <<known, dev, rows>>, Tracked' = Tracked
  PROVE  RowIsQueued(p)'
<1> DEFINE u == UpdateRow(Id(s), state)
           r == SetReady(AllConnected(Tracked, conn'))
<1>1. u \in Closures /\ r \in Closures /\ closures' = closures \o <<u, r>>
  BY IdIsTyped, ClosuresAreTyped, ConnectedIsBoolean DEF Connects, Tracked
<1>2. u.pod = Id(s) /\ u.conn = state /\ r.pod = None
  BY PodsOfClosures
<1>3. /\ s \in Session /\ conn'[s] = state /\ Id(s)' = Id(s)
      /\ \A t \in Tracked \ {s} : t \in Tracked' /\ Id(t)' = Id(t) /\ conn'[t] = conn[t]
  BY DEF Connects, TypeOK, Tracked, Id
<1> HIDE DEF u, r
<1>4. /\ <<u, r>> \in Seq(Closures) /\ Len(<<u, r>>) = 2
      /\ <<u, r>>[1] = u /\ <<u, r>>[2] = r
  BY <1>1
<1>5. CASE Id(s) = p
  <2>1. s \in Tracked' /\ Id(s)' = p /\ conn'[s] = state
    BY <1>3, <1>5
  <2>2. \A j \in 1..Len(<<u, r>>) : j > 1 => <<u, r>>[j].pod # p
    BY <1>2, <1>4, NoneIsNothing
  <2>3. 1 \in 0..Len(<<u, r>>) /\ <<u, r>>[1].pod = p /\ <<u, r>>[1].conn = state
    BY <1>2, <1>4, <1>5
  <2> DEFINE cs == <<u, r>>
  <2>4. \E t \in Tracked' : Id(t)' = p /\ conn'[t] = cs[1].conn
    BY <2>1, <2>3
  <2> HIDE DEF cs
  <2>5. /\ cs \in Seq(Closures) /\ closures' = closures \o cs /\ UNCHANGED rows
        /\ 1 \in 0..Len(cs) /\ cs[1].pod = p
        /\ \A j \in 1..Len(cs) : j > 1 => cs[j].pod # p
    BY <1>1, <1>4, <2>2, <2>3 DEF cs
  <2> QED
    BY <2>4, <2>5, PostSetsRow
<1>6. CASE Id(s) # p
  <2>1. \A j \in 1..Len(<<u, r>>) : j > 0 => <<u, r>>[j].pod # p
    BY <1>2, <1>4, <1>6, NoneIsNothing
  <2>2. 0 \in 0..Len(<<u, r>>)
    BY <1>4
  <2>3. \A x : Shows(p, x) => Shows(p, x)'
    BY <1>3, <1>6, OthersShow
  <2> QED
    BY <1>1, <1>4, <2>1, <2>2, <2>3, PostSetsRow
<1> QED
  BY <1>5, <1>6

LEMMA IdentifyKeepsRows ==
  ASSUME TypeOK, NEW p \in Pod, RowIsQueued(p), NEW s \in Session, Identify(s)
  PROVE  RowIsQueued(p)'
<1> DEFINE u == UpdateRow(dev[s], "connecting")
           w == UpdateRow(dev[s], "connected")
           r == SetReady(AllConnected(Tracked, conn'))
           cs == <<u, w, r>>
<1>1. /\ s \in Tracked /\ Tracked' = Tracked /\ Tracked \subseteq Session
      /\ UNCHANGED <<dev, rows>> /\ dev[s] \in Pod \cup {None}
      /\ Id(s)' = dev[s] /\ conn'[s] = "connected"
      /\ \A t \in Tracked \ {s} : t \in Tracked' /\ Id(t)' = Id(t) /\ conn'[t] = conn[t]
      /\ closures' = closures \o cs
  BY DEF Identify, TypeOK, uiVars, Post, Tracked, Id
<1>2. u \in Closures /\ w \in Closures /\ r \in Closures
  BY <1>1, ClosuresAreTyped, ConnectedIsBoolean DEF ConnStates
<1>3. u.pod = dev[s] /\ w.pod = dev[s] /\ w.conn = "connected" /\ r.pod = None
  BY PodsOfClosures
<1> HIDE DEF u, w, r
<1>4. cs \in Seq(Closures) /\ Len(cs) = 3 /\ cs[1] = u /\ cs[2] = w /\ cs[3] = r
  BY <1>2
<1> HIDE DEF cs
<1>5. CASE dev[s] = p
  <2>1. \E t \in Tracked' : Id(t)' = p /\ conn'[t] = cs[2].conn
    BY <1>1, <1>3, <1>4, <1>5
  <2>2. \A j \in 1..Len(cs) : j > 2 => cs[j].pod # p
    BY <1>3, <1>4, NoneIsNothing
  <2>3. /\ cs \in Seq(Closures) /\ closures' = closures \o cs /\ UNCHANGED rows
        /\ 2 \in 0..Len(cs) /\ cs[2].pod = p
    BY <1>1, <1>3, <1>4, <1>5
  <2> QED
    BY <2>1, <2>2, <2>3, PostSetsRow, SMTT(60)
<1>6. CASE dev[s] # p
  <2>1. Id(s) # p
    BY <1>6, NoneIsNothing DEF Id
  <2>2. \A state : Shows(p, state) => Shows(p, state)'
    BY <1>1, <2>1, OthersShow
  <2>3. \A j \in 1..Len(cs) : j > 0 => cs[j].pod # p
    BY <1>3, <1>4, <1>6, NoneIsNothing
  <2>4. 0 \in 0..Len(cs)
    BY <1>4
  <2> QED
    BY <1>1, <1>4, <2>2, <2>3, <2>4, PostSetsRow
<1> QED
  BY <1>5, <1>6

(* The removal is posted last: nothing is claimed of a row that is gone.   *)
LEMMA DestroyKeepsRows ==
  ASSUME TypeOK, NEW p \in Pod, RowIsQueued(p), NEW s \in Session, Destroy(s)
  PROVE  RowIsQueued(p)'
<1> DEFINE u == UpdateRow(Id(s), conn[s])
           r == SetReady(AllConnected(Tracked \ {s}, conn))
           w == RemoveRow(Id(s))
           cs == <<u, r, w>>
<1>1. /\ \A t \in Tracked \ {s} : t \in Tracked' /\ Id(t)' = Id(t) /\ conn'[t] = conn[t]
      /\ UNCHANGED rows /\ closures' = closures \o cs
  BY DEF Destroy, TypeOK, uiVars, Post, Tracked, Id
<1>2. u \in Closures /\ r \in Closures /\ w \in Closures
  BY IdIsTyped, ClosuresAreTyped, ConnectedIsBoolean DEF TypeOK
<1>3. u.pod = Id(s) /\ w.pod = Id(s) /\ w.conn = "absent" /\ r.pod = None
  BY PodsOfClosures
<1> HIDE DEF u, w, r
<1>4. cs \in Seq(Closures) /\ Len(cs) = 3 /\ cs[1] = u /\ cs[2] = r /\ cs[3] = w
  BY <1>2
<1> HIDE DEF cs
<1>5. CASE Id(s) = p
  <2>1. \A j \in 1..Len(cs) : j > 3 => cs[j].pod # p
    BY <1>4
  <2>2. /\ cs \in Seq(Closures) /\ closures' = closures \o cs /\ UNCHANGED rows
        /\ 3 \in 0..Len(cs) /\ cs[3].pod = p /\ cs[3].conn = "absent"
    BY <1>1, <1>3, <1>4, <1>5
  <2> QED
    BY <2>1, <2>2, PostSetsRow, SMTT(60)
<1>6. CASE Id(s) # p
  <2>1. \A state : Shows(p, state) => Shows(p, state)'
    BY <1>1, <1>6, OthersShow
  <2>2. \A j \in 1..Len(cs) : j > 0 => cs[j].pod # p
    BY <1>3, <1>4, <1>6, NoneIsNothing
  <2>3. 0 \in 0..Len(cs)
    BY <1>4
  <2> QED
    BY <1>1, <1>4, <2>1, <2>2, <2>3, PostSetsRow
<1> QED
  BY <1>5, <1>6

LEMMA RunKeepsRows ==
  ASSUME TypeOK, NEW p \in Pod, RowIsQueued(p), NEW s \in Session, Run(s)
  PROVE  RowIsQueued(p)'
<1>1. CASE RunPod(s) \/ ReadFails(s) \/ GiveUp(s)
  <2>1. /\ Connects(s, "connecting") \/ Connects(s, "disconnected")
        /\ UNCHANGED <<known, dev, rows>> /\ s \in Tracked
    BY <1>1, SetConnConnects DEF RunPod, ReadFails, GiveUp, EndRun, uiVars, Tracked
  <2>2. Tracked' = Tracked
    BY <1>1 DEF TypeOK, RunPod, ReadFails, GiveUp, EndRun, Tracked
  <2> QED
    BY <2>1, <2>2, ConnectsKeepsRows DEF ConnStates
<1> QED
  BY <1>1, IdentifyKeepsRows, DestroyKeepsRows DEF Run

(* A new session has yet to be told its id.                                *)
LEMMA PortKeepsRows ==
  ASSUME TypeOK, NEW p \in Pod, RowIsQueued(p), NEW d \in Port, HandlePort(d),
         UNCHANGED <<closures, rows>>
  PROVE  RowIsQueued(p)'
<1>1. \A t \in Tracked : t \in Tracked' /\ Id(t)' = Id(t) /\ conn'[t] = conn[t]
  BY DEF HandlePort, OpenPod, SkipPort, sessionVars, TypeOK, Tracked, Id
<1>2. ASSUME NEW state, Shows(p, state) PROVE \E s \in Tracked' : Id(s)' = p /\ conn'[s] = state
  BY <1>1, <1>2 DEF Shows
<1>3. \A i : NothingBehind(i, p)' => NothingBehind(i, p)
  BY DEF NothingBehind
<1>4. ASSUME NEW i \in 1..Len(closures), closures[i].pod = p, NothingBehind(i, p)',
             closures[i].conn # "absent"
      PROVE  Shows(p, closures[i].conn)'
  <2>1. Shows(p, closures[i].conn)
    BY <1>3, <1>4 DEF RowIsQueued
  <2> QED
    BY <1>2, <2>1 DEF Shows
<1>5. ASSUME NothingBehind(0, p)', rows[p] # "absent" PROVE Shows(p, rows[p])'
  <2>1. Shows(p, rows[p])
    BY <1>3, <1>5 DEF RowIsQueued
  <2> QED
    BY <1>2, <2>1 DEF Shows
<1> QED
  BY <1>4, <1>5 DEF RowIsQueued

(* The last closure about a Pod tells the truth, or its row does, for any  *)
(* number of Pods, devnodes and sessions and however late discovery is.    *)
THEOREM RowsCorrect == Spec => []RowsInv
<1>1. Init => RowsInv
  <2> SUFFICES ASSUME Init PROVE RowsInv
    OBVIOUS
  <2>1. Len(closures) = 0 /\ \A p \in Pod : rows[p] = "absent"
    BY DEF Init
  <2> QED
    BY <2>1 DEF RowsInv, RowIsQueued
<1>2. TypeOK /\ RowsInv /\ [Next]_lifecycleVars => RowsInv'
  <2> SUFFICES ASSUME TypeOK, RowsInv, [Next]_lifecycleVars, NEW p \in Pod PROVE RowIsQueued(p)'
    BY DEF RowsInv
  <2>1. RowIsQueued(p)
    BY DEF RowsInv
  <2>2. CASE UNCHANGED <<life, dev, known, conn, closures, rows>>
    BY <2>1, <2>2 DEF RowIsQueued, NothingBehind, Shows, Tracked, Id
  <2>3. Hardware \/ (\E d \in Port : HandleRemove(d)) \/ UNCHANGED lifecycleVars
          => UNCHANGED <<life, dev, known, conn, closures, rows>>
    BY DEF Hardware, Plug, Unplug, HandleRemove, lifecycleVars, sessionVars, uiVars
  <2>4. ASSUME NEW d \in Port, ScanPort(d) \/ HandleAdd(d)
        PROVE  HandlePort(d) /\ UNCHANGED <<closures, rows>>
    BY <2>4 DEF ScanPort, HandleAdd, uiVars
  <2> QED
    BY <2>1, <2>2, <2>3, <2>4, PortKeepsRows, RunKeepsRows, RunClosureSetsRow DEF Next, Discover
<1> QED
  BY <1>1, <1>2, TypeCorrect, PTL DEF Spec

(* Once the Slint thread has caught up, every row the guest sees shows the *)
(* connection of a Pod object that was told the id of the row - also when  *)
(* a request still holds an earlier one of the same Pod.                   *)
THEOREM RowsAreShown == Spec => []RowsAreTrue
<1>1. RowsInv => RowsAreTrue
  <2> SUFFICES ASSUME RowsInv, closures = <<>>, NEW p \in Pod, rows[p] # "absent"
               PROVE  \E s \in Tracked : Id(s) = p /\ conn[s] = rows[p]
    BY DEF RowsAreTrue
  <2>1. NothingBehind(0, p)
    BY DEF NothingBehind
  <2> QED
    BY <2>1 DEF RowsInv, RowIsQueued, Shows
<1> QED
  BY <1>1, RowsCorrect, PTL
=============================================================================
