--------------------------- MODULE PodLifecycle ---------------------------
(***************************************************************************)
(* How Pods come and go: USB hotplug discovery with its PortTable          *)
(* (serial.cpp), the task that registers and runs a Pod (pod_discovery.cpp,*)
(* Pod::run() and monitor_device() of pod.cpp), and what the guest sees of *)
(* them (StationStateBridge and PodUiModel, station_state_bridge.cpp).     *)
(*                                                                         *)
(* Hardware changes at any time and reports to the io thread through       *)
(* `uevents', the io thread reports to the Slint thread through            *)
(* `closures'; both queues are FIFO.  Only protocol ports are modelled.    *)
(***************************************************************************)
EXTENDS Naturals, Sequences, FiniteSets

CONSTANTS
  Pod,         \* the Pods, each with its USB serial number and its PodId
  Port,        \* devnodes
  Session,     \* cap: Pod objects that exist at the same time
  MaxLag,      \* cap: hardware events the io thread has not handled yet
  MaxClosures, \* cap: closures that wait when a session starts, connects or times out
  None

ASSUME LifecycleAssumption ==
  /\ None \notin Pod \cup Port \cup Session
  /\ MaxLag \in Nat /\ MaxClosures \in Nat

VARIABLES
  plugged,     \* the Pod behind each devnode
  uevents,     \* netlink events that wait at the udev monitor
  scan,        \* devnodes scan_connected() has yet to look at
  entries,     \* PortTable::entries_
  life,        \* how far each session is
  dev,         \* the Pod each session talks to
  tty,         \* the devnode a session has open, None once it is gone
  known,       \* the Pod has told its id
  conn,        \* PodStateData::connection_state
  closures,    \* invoke_from_event_loop()
  rows,        \* PodUiModel: the row of each Pod, or "absent"
  ready        \* set_station_ready()

usbVars == <<plugged, uevents>>
discoveryVars == <<scan, entries>>
sessionVars == <<life, dev, tty, known, conn>>
uiVars == <<rows, ready>>
lifecycleVars == <<usbVars, discoveryVars, sessionVars, closures, uiVars>>

Tracked == {s \in Session : life[s] # "none"}
Unplugged(p) == \A d \in Port : plugged[d] # p

Uevent(action, d) == [action |-> action, port |-> d]

(* The three closures of the bridge; each carries a copy of the data.      *)
UpdateRow(p, state) == [do |-> "update", pod |-> p, conn |-> state, ready |-> FALSE]
RemoveRow(p) == [do |-> "remove", pod |-> p, conn |-> "absent", ready |-> FALSE]
SetReady(r)  == [do |-> "ready", pod |-> None, conn |-> "absent", ready |-> r]

(* invoke_from_event_loop(), once for each of them.                        *)
Post(cs) == closures' = closures \o cs

(* What no fairness asks for waits while the Slint thread is behind.       *)
Room == Len(closures) <= MaxClosures

(* The id a PodState shows: empty until the Pod has told it.               *)
Id(s) == IF known[s] THEN dev[s] ELSE None
AllConnected(pods, state) == pods # {} /\ \A s \in pods : state[s] = "connected"

Init ==
  /\ plugged \in [Port -> Pod \cup {None}]
  /\ uevents = <<>>
  /\ scan = Port
  /\ entries = [p \in Pod |-> None]
  /\ life = [s \in Session |-> "none"]
  /\ dev = [s \in Session |-> None]
  /\ tty = [s \in Session |-> None]
  /\ known = [s \in Session |-> FALSE]
  /\ conn = [s \in Session |-> "disconnected"]
  /\ closures = <<>>
  /\ rows = [p \in Pod |-> "absent"]
  /\ ready = FALSE
-----------------------------------------------------------------------------
(* Hardware.  A Pod may be reachable through several devnodes at once.     *)
Plug(p, d) ==
  /\ plugged[d] = None
  /\ Len(uevents) < MaxLag
  /\ plugged' = [plugged EXCEPT ![d] = p]
  /\ uevents' = Append(uevents, Uevent("add", d))
  /\ UNCHANGED <<discoveryVars, sessionVars, closures, uiVars>>

Unplug(d) ==
  /\ plugged[d] # None
  /\ Len(uevents) < MaxLag
  /\ plugged' = [plugged EXCEPT ![d] = None]
  /\ uevents' = Append(uevents, Uevent("remove", d))
  /\ tty' = [s \in Session |-> IF tty[s] = d THEN None ELSE tty[s]]
  /\ UNCHANGED <<discoveryVars, life, dev, known, conn, closures, uiVars>>
-----------------------------------------------------------------------------
(* Discovery, on the io thread.                                            *)

(* Mutant: a Pod that is open already is opened again. *)
OpenPod_Unclaimed(d) ==
  LET p == plugged[d]
  IN /\ p # None /\ Room
     /\ entries' = [entries EXCEPT ![p] = d]
     /\ \E s \in Session \ Tracked :
          /\ life' = [life EXCEPT ![s] = "created"]
          /\ dev' = [dev EXCEPT ![s] = p]
          /\ tty' = [tty EXCEPT ![s] = d]
          /\ known' = [known EXCEPT ![s] = FALSE]
          /\ conn' = [conn EXCEPT ![s] = "disconnected"]

(* Mutant: the table is keyed on the devnode. *)
OpenPod_ByDevnode(d) ==
  LET p == plugged[d]
  IN /\ p # None /\ d \notin DOMAIN entries /\ Room
     /\ entries' = [x \in {d} \cup DOMAIN entries |-> IF x = d THEN d ELSE entries[x]]
     /\ \E s \in Session \ Tracked :
          /\ life' = [life EXCEPT ![s] = "created"]
          /\ dev' = [dev EXCEPT ![s] = p]
          /\ tty' = [tty EXCEPT ![s] = d]
          /\ known' = [known EXCEPT ![s] = FALSE]
          /\ conn' = [conn EXCEPT ![s] = "disconnected"]

(* open_pod(): a claim, committed when the port opens, and the PodState    *)
(* that discover_and_run_pods() creates for it.                            *)
OpenPod(d) ==
  LET p == plugged[d]
  IN /\ p # None /\ entries[p] = None /\ Room
     /\ entries' = [entries EXCEPT ![p] = d]
     /\ \E s \in Session \ Tracked :
          /\ life' = [life EXCEPT ![s] = "created"]
          /\ dev' = [dev EXCEPT ![s] = p]
          /\ tty' = [tty EXCEPT ![s] = d]
          /\ known' = [known EXCEPT ![s] = FALSE]
          /\ conn' = [conn EXCEPT ![s] = "disconnected"]

(* No Pod, one that is open already, or a port that does not open: the     *)
(* claim, if there was one, is released again.                             *)
SkipPort == UNCHANGED <<entries, sessionVars>>

HandlePort(d) == OpenPod(d) \/ SkipPort

(* The scan.  A port udev has not finished with is skipped as well.        *)
ScanPort(d) ==
  /\ d \in scan
  /\ scan' = scan \ {d}
  /\ HandlePort(d)
  /\ UNCHANGED <<usbVars, closures, uiVars>>

NextUevent(action, d) ==
  /\ scan = {}
  /\ uevents # <<>> /\ Head(uevents) = Uevent(action, d)
  /\ uevents' = Tail(uevents)

(* The attributes are read when the event is handled, not when it arose.   *)
HandleAdd(d) ==
  /\ NextUevent("add", d)
  /\ HandlePort(d)
  /\ UNCHANGED <<plugged, scan, closures, uiVars>>

(* forget_removed_port(): the entry, if any, that was opened on d.         *)
HandleRemove(d) ==
  /\ NextUevent("remove", d)
  /\ \/ \E p \in Pod : entries[p] = d /\ entries' = [entries EXCEPT ![p] = None]
     \/ (\A p \in Pod : entries[p] # d) /\ UNCHANGED entries
  /\ UNCHANGED <<plugged, scan, sessionVars, closures, uiVars>>
-----------------------------------------------------------------------------
(* A session, on the io thread.                                            *)

(* update_state(): the row, then the readiness of the whole station.       *)
SetConn(s, state) ==
  /\ conn' = [conn EXCEPT ![s] = state]
  /\ Post(<<UpdateRow(Id(s), state), SetReady(AllConnected(Tracked, conn'))>>)

(* run_pod() registers the Pod and Pod::run() starts monitor_device().     *)
RunPod(s) ==
  /\ life[s] = "created"
  /\ life' = [life EXCEPT ![s] = "running"]
  /\ SetConn(s, "connecting")
  /\ UNCHANGED <<usbVars, discoveryVars, dev, tty, known, uiVars>>

(* The Pod answers the request for its info.                               *)
Identify(s) ==
  /\ life[s] = "running" /\ conn[s] = "connecting" /\ tty[s] # None /\ Room
  /\ known' = [known EXCEPT ![s] = TRUE]
  /\ conn' = [conn EXCEPT ![s] = "connected"]
  /\ Post(<<UpdateRow(dev[s], "connecting"), UpdateRow(dev[s], "connected"),
             SetReady(AllConnected(Tracked, conn'))>>)
  /\ UNCHANGED <<usbVars, discoveryVars, life, dev, tty, uiVars>>

(* Pod::run() ends and run_pod() unregisters the Pod: the reads on a       *)
(* vanished port fail, or the info or the pings have timed out too often.  *)
EndRun(s) ==
  /\ life[s] = "running"
  /\ life' = [life EXCEPT ![s] = "ended"]
  /\ SetConn(s, "disconnected")
  /\ UNCHANGED <<usbVars, discoveryVars, dev, tty, known, uiVars>>

ReadFails(s) == tty[s] = None /\ EndRun(s)
GiveUp(s)    == tty[s] # None /\ Room /\ EndRun(s)

(* Mutant: the row is removed before it is updated for the last time. *)
Destroy_RemovesFirst(s) ==
  /\ life[s] = "ended"
  /\ life' = [life EXCEPT ![s] = "none"]
  /\ tty' = [tty EXCEPT ![s] = None]
  /\ Post(<<RemoveRow(Id(s)), UpdateRow(Id(s), conn[s]),
             SetReady(AllConnected(Tracked \ {s}, conn))>>)
  /\ UNCHANGED <<usbVars, discoveryVars, dev, known, conn, uiVars>>

(* Mutant: the other Pods are not asked again whether all are connected. *)
Destroy_KeepsReady(s) ==
  /\ life[s] = "ended"
  /\ life' = [life EXCEPT ![s] = "none"]
  /\ tty' = [tty EXCEPT ![s] = None]
  /\ Post(<<UpdateRow(Id(s), conn[s]), RemoveRow(Id(s))>>)
  /\ UNCHANGED <<usbVars, discoveryVars, dev, known, conn, uiVars>>

(* The last request lets go of the Pod: the port is closed, and            *)
(* ~PodStateImpl() calls pod_about_to_removed().  A request that had its   *)
(* Ack when the session ended waits for its event until its timer fires;   *)
(* by then the Pod may be plugged in again and have told a new session.    *)
Destroy(s) ==
  /\ life[s] = "ended"
  /\ life' = [life EXCEPT ![s] = "none"]
  /\ tty' = [tty EXCEPT ![s] = None]
  /\ Post(<<UpdateRow(Id(s), conn[s]), SetReady(AllConnected(Tracked \ {s}, conn)),
             RemoveRow(Id(s))>>)
  /\ UNCHANGED <<usbVars, discoveryVars, dev, known, conn, uiVars>>
-----------------------------------------------------------------------------
(* The Slint thread.  A Pod without an id gets no row.                     *)
RunClosure ==
  /\ closures # <<>>
  /\ closures' = Tail(closures)
  /\ LET c == Head(closures)
     IN /\ ready' = IF c.do = "ready" THEN c.ready ELSE ready
        /\ rows' = IF c.pod = None THEN rows ELSE [rows EXCEPT ![c.pod] = c.conn]
  /\ UNCHANGED <<usbVars, discoveryVars, sessionVars>>
-----------------------------------------------------------------------------
Hardware == \E d \in Port : Unplug(d) \/ \E p \in Pod : Plug(p, d)
Discover == \E d \in Port : ScanPort(d) \/ HandleAdd(d) \/ HandleRemove(d)
Run(s)   == RunPod(s) \/ Identify(s) \/ ReadFails(s) \/ GiveUp(s) \/ Destroy(s)

Next == Hardware \/ Discover \/ RunClosure \/ \E s \in Session : Run(s)

(* The event loops run, reads on a vanished port fail, and every request   *)
(* that holds a Pod ends (EveryRequestEnds of PodSession).  No Pod has to  *)
(* answer, and the hardware need not change.                               *)
Fairness ==
  /\ WF_lifecycleVars(Discover)
  /\ WF_lifecycleVars(RunClosure)
  /\ \A s \in Session :
       WF_lifecycleVars(RunPod(s)) /\ WF_lifecycleVars(ReadFails(s)) /\ WF_lifecycleVars(Destroy(s))

Spec == Init /\ [][Next]_lifecycleVars
FairSpec == Spec /\ Fairness
-----------------------------------------------------------------------------
ConnStates == {"disconnected", "connecting", "connected"}
Closures ==
  [do : {"update", "ready", "remove"}, pod : Pod \cup {None},
   conn : ConnStates \cup {"absent"}, ready : BOOLEAN]

TypeOK ==
  /\ plugged \in [Port -> Pod \cup {None}]
  /\ uevents \in Seq([action : {"add", "remove"}, port : Port]) /\ Len(uevents) <= MaxLag
  /\ scan \subseteq Port
  /\ entries \in [Pod -> Port \cup {None}]
  /\ life \in [Session -> {"none", "created", "running", "ended"}]
  /\ dev \in [Session -> Pod \cup {None}]
  /\ tty \in [Session -> Port \cup {None}]
  /\ known \in [Session -> BOOLEAN]
  /\ conn \in [Session -> ConnStates]
  /\ closures \in Seq(Closures)
  /\ rows \in [Pod -> ConnStates \cup {"absent"}]
  /\ ready \in BOOLEAN

(* The same physical Pod never has two sessions on ttys that are there: it *)
(* would be sent two competing command streams.                            *)
OneSessionPerPod ==
  \A s, q \in Session :
     (tty[s] # None /\ tty[q] # None /\ dev[s] = dev[q]) => s = q

(* Once the Slint thread has caught up, the boot screen is gone exactly    *)
(* when there are Pods and all are connected.  A Pod that was just found   *)
(* is counted when its task starts.                                        *)
ReadyIsCurrent ==
  (closures = <<>> /\ \A s \in Session : life[s] # "created") =>
     ready = AllConnected(Tracked, conn)

(* Once the Slint thread has caught up, every Pod it lists is there: the   *)
(* row shows the connection of a Pod object that has told this id.         *)
RowsAreTrue ==
  closures = <<>> =>
     \A p \in Pod : rows[p] # "absent" =>
        \E s \in Tracked : Id(s) = p /\ conn[s] = rows[p]

(* index.adoc: "Track which Pods are connected and reflect their live      *)
(* state to the UI": once the Slint thread has caught up, a connected Pod  *)
(* is listed.                                                              *)
ConnectedPodIsListed ==
  closures = <<>> =>
     \A s \in Tracked : conn[s] = "connected" => rows[Id(s)] # "absent"

(* A Pod that stays unplugged disappears from the list.                    *)
UnpluggedPodDisappears ==
  \A p \in Pod : Unplugged(p) ~> (rows[p] = "absent" \/ ~Unplugged(p))

(* The PortTable "tracks the one devnode currently open for each pod       *)
(* identity": an entry without a Pod object does not stay.                 *)
EntryMeansOpen ==
  \A p \in Pod :
     LET Stale == entries[p] # None /\ \A s \in Tracked : dev[s] # p
     IN Stale ~> ~Stale
=============================================================================
