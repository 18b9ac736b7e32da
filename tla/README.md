# Verification of the cocktail station

The station is a C++ program that mixes cocktails. It talks to *Pods* (USB devices with pumps and valves) over serial ports, runs
recipes as coroutines, and shows itself to the guest in a Slint UI. This directory holds TLA+ models of the parts where order,
concurrency and failure matter, the TLC configurations that check them, and TLAPS proofs.

Paths below are relative to `src/`. `PROJECT.json` relates every definition of a module to the lines it models, every property to a
mutated definition that breaks it, and every known hazard of the code to the properties that watch it.

## 1. The system

Two threads matter:

- the **io thread** runs one `io_context` (`cocktail-maker/application.cpp`). Everything a coroutine does between two suspensions is
  one step: sessions, recipes, discovery and timers never interrupt each other.
- the **Slint thread** runs the UI event loop: callbacks of buttons and pages, and the UI models.

They exchange work through two FIFO queues: `slint::invoke_from_event_loop()` (io to Slint) and `boost::asio::post()` (Slint to io).
What is read on one side is therefore old when it is used on the other. Stop requests, timers and USB hotplug interleave with all of it.

| component | state | operations | talks to | hard part |
|---|---|---|---|---|
| Pod protocol session (`pod_protocol_session.*`, `core/channel.cppm`) | transaction counter, dispatch map, response channels, write queue | `async_send`, `async_receive`, `read_loop`, `write_loop`, `run`, `shutdown_channels` | Pod, by frames | lost/late frames, timeouts, stop requests, end of session, id reuse |
| Pod requests (`pod.cpp`) | the suspended coroutine of each request | `send_and_receive`, `send_with_ack`, `send_action_with_response` | session | the gap between the Ack and the registration for the event |
| Recipe execution (`execute_recipe.cpp`, `core/async_algorithms.cpp`, `maschine_adapter.cpp`) | the group and the commands in progress | `execute_commands`, `run_all`, `execute_command` | Pods, popup | siblings stopped on failure, stop requests racing with completion |
| Recipe bridge (`process_context_bridge.cpp`, `pod_algorithms.cppm`, `pod_registry.*`) | `active_recipe_abort_`, page, registered Pods | start, abort, success and error page, safe-state sweep | both threads | abort, second start and end of a recipe in any order |
| Manual command popup (`async_ui.cppm`) | `PopupState`, the one popup and the one callback of the window | start, stop, confirm, close | both threads | completion raced by two threads; one slot for several commands |
| Serial discovery (`serial.*`, `pod_discovery.cpp`) | `PortTable`, udev monitor | scan, add event, remove event, `run_pod` | USB hardware | events that are older than what they are applied to |
| Pod lifecycle, station state (`pod.cpp`, `station_state_bridge.cpp`) | connection state of each Pod, UI rows, readiness | `monitor_device`, `keep_alive`, create/update/remove of a row | both threads | copies applied late, removal against update |
| Operator area (`operator_auth.cppm`, `station_state_bridge.cpp`) | failed attempts, lockout time, authenticated flag, state of the pad | submit PIN, navigate, lockout countdown | both threads | lockout expiry against a new attempt; `OperatorAuth` has no mutex |
| Configuration (`station_config.*`, `glass.*`, `glass_context_bridge.cppm`) | a map in memory and a JSON file each, rows of the glasses with copies of the volumes | load, assign, activate a volume, save | file system, both threads | failed, interrupted and lost saves; restart; copies |
| Ordering a drink (`app-window.slint` and pages, `recipe_context_bridge.cpp`, `process_context_bridge.cpp`) | page, active recipe, globals boost/glass/volume, slider | select, boost, choose glass, order, leave | both threads, glasses | globals that outlive an order; closures applied to whatever is shown |
| Recipe arithmetic (`recipe_scale.cppm`, `recipe_boost.cppm`) | none (pure) | scale, boost, is boostable | - | conservation, boundaries at -100 % and 100 % |
| Dispenser calibration (`dispenser_calibration_bridge.*`) | status of three steps, error message, running tasks | open popup, tare, reference weight, pump | both threads, Pods | reports of a task of another dispenser; a Pod that is gone |
| Application (`application.*`, `gui_application.cpp`, `main.cpp`) | phase of the process | start, degraded start, shutdown | all | what is still queued at the shutdown |
| Async foundations (`core/`) | `AwaitableBool`, scope, retry | wait, wake, spawn, join | all | abort before, during and after the wait |
| Catalog, logging, strong types | - | parsing, formatting | - | none at run time |

What makes each of them correct is stated by the properties of section 3.

## 2. Modules

```
PodRpc  <--refined by--  PodSession          PodSession_proofs
                          | its outcomes and "every request ends" are the environment of
                          v
Mixing  <--refined by--  RecipeProcess        RecipeProcess_proofs   (execution + bridge + safe state)
                          | a manual command or a refill waits in
                          v
                         ManualPopup          ManualPopup_proofs
RecipeAttendance         (RecipeProcess with the history of whose mix page was taken)
PodLifecycle             (discovery + lifecycle + what the UI shows)    PodLifecycle_proofs

OperatorArea             (PIN pad, lockout)                             AdminArea_proofs
Calibration              (the calibration popup)                        AdminArea_proofs
StationConfig            (ingredient -> dispenser, file, restart)       StationConfig_proofs
GlassConfig              (glasses and volumes, file, rows) \
RecipeArithmetic         (scale, boost)                     > OrderFlow RecipeArithmetic_proofs, OrderFlow_proofs

MC<module>               the instances TLC checks; MCStation has the last six and ManualPopup,
                         MCExecution has RecipeProcess and PodSession
```

The components are composed by assume/guarantee rather than by one product: `RecipeProcess` lets a request end in each way `PodRpc`
allows, whenever it likes, and `PodSession` is shown to implement `PodRpc` and to end every request. `PodLifecycle` likewise uses only
that a request that holds a Pod ends. Registration and disappearance of Pods, which `PodLifecycle` explains, happen at any time in
`RecipeProcess`.

### PodRpc and PodSession

`PodRpc` is what a caller of `Pod` may rely on: an answer "ok" only after the Pod acted on this very request, "nak" only after it refused
it, and nothing at all about the Pod after a timeout, a stop or a closed session. `PodSession` is the code: `SendRequest` registers a channel
in `dispatch_map` and puts a frame into the write queue (or blocks on a full one), `WriteFrame` is `write_loop()` (a failed or timed-out
write loses the frame, since `async_write()` drops its error code), `Dispatch` is one frame in `read_loop()`, `ResumeFirst`, `ResumeAck`
and `ResumeEvent` are the resumptions of the coroutine, `Timeout`, `Stop` and `FailClosed` the other ways it ends, and
`RunSession`/`EndSession` are `run()` with its `RunningGuard`. Request *n* has
transaction id *n* modulo `TidMod`. Ids, channels and registrations are kept; payloads are not.

Assumption: a sender that is blocked on the full write queue is woken when the queue is closed, which is the contract of `async_send()`
(`core/channel.cppm:48`).

`generate_new_transaction_id()` counts on without a look at the map, and the model does the same. `SettledSpec` restricts `SessionNext` to
sessions whose schedule never takes an id that is still in use; it serves the proofs and is no specification of the code.

### RecipeProcess

The Slint thread has a page and the events queued for it, the io thread has `posts`. `start_recipe_processing()` is two steps, as in the
code: the handler that aborts the previous recipe and spawns the new one, and the later one in which the spawned `when_any()` starts. An
abort raises the flag of the recipe's `AwaitableBool`; a wait on it is completed by a handler of its own. Each command of a group is
`todo -> dispensing/popup -> refilling -> done/stopped/failed/empty`; a group ends when all its commands have (`run_all()` joins). A stop
request unwinds a command only where it waits. `pouring` is the physical side: a Pod that was asked to pour pours until it has finished,
is commanded to stop, or leaves the station, whatever the station knows about it. `ForceSafeState` is one task of the sweep; its command
may be lost.

Left out: volumes (a refill is "the Pod reports too little"), queue position and progress texts, the page for an unknown recipe (the UI
only offers recipes of the store). A Pod that has left the station is out of reach and its pours are not followed.

`Mixing` is what the guest may rely on, without threads, queues, Pods or popups: each run has a stage, is aborted or not, and each of its
commands is to do, begun, done, failed or given up. A run begins when every other one that is not over was aborted; commands are carried
out only between its beginning and its result, group by group; one is given up only when the run was aborted or a command beside it
failed; and a result is true - "success" when every command of the program was carried out, "error" when one failed, "stopped" when the run was
aborted - and comes when no command is in progress. `Mix` maps `RecipeProcess` to it: `active`, `posts`, `step`, pours and sweeps disappear,
`flag` is "aborted", and dispensing, waiting at a popup and dispensing the refill are all "begun" (`Seen`). The result of an aborted run
may still be "success" or "error", when its commands got there before the stop request did.

`RecipeAttendance` adds a history variable: the runs whose own mix page was replaced, before they were over, by the success page of an
earlier run. `display_ui_success()` names no recipe, so the page of an earlier run can come that late; it is finding 7, and
`NoUnattendedRecipe` excepts these runs and no others.

### ManualPopup

The only module in which the two threads interleave *inside* a function: a closure of the Slint thread is several steps (`OpenOperation`,
`ShowPopup`, `ClosePopup`, `PressButton`, `FinishConfirm`), so that the io thread may come between any two of them that are not under the mutex
of `PopupState`. `MaxOpen` is the number of commands of a recipe that wait for the guest at once: 1 for a sequential recipe, more for a
parallel group. `NextRecipe` starts over only when no completion is queued, since a recipe starts by a handler posted behind those.

### PodLifecycle

Hardware plugs and unplugs Pods and queues an event for each change. `ScanPort` is one port of `scan_connected()`, `HandleAdd` and
`HandleRemove` are the events of `discover()`. A Pod's attributes are read when its event is *handled*. A session goes
`created -> running -> ended -> none`: spawned, in `Pod::run()`, unregistered, destroyed. Each state change posts closures with a
copy of the data, in the order of `pod_connection_state_changed()` and `pod_about_to_removed()`; `RunClosure` applies one to the rows.

Abstractions: one protocol port per Pod and devnode (log ports use a second, independent `PortTable`); a port may always fail to open
(`SkipPort`). `Destroy` is the release of the last reference to a `Pod`, at any time after its session ended: a
request that had its Ack registers for the event behind `shutdown_channels()` and keeps the object until its timer fires, up to 30 s. By then a
new session of the same Pod may have identified itself (`Identify` waits for nobody), and finding 8 is what its row then suffers.

### OperatorArea

`OperatorAuth` belongs to the Slint thread, but the countdown of a lockout reads it from the io thread, and there is no mutex; what keeps
the two apart is that the pad is disabled meanwhile. `SubmitWrong` is `verify()` and the rest of `on_submit_operator_pin()`, `Tick` the
clock, `CountdownEnds` the last read of the countdown and `ReleasePad` its last closure. A PIN is right or wrong. `failed_attempts_` is not
reset when a lockout expires, and the model does not reset it either. `streak` is observed only.

### Calibration

A task of a step is `spawned`, then `awaiting` the Pod, and reports through closures. The popup is reset when it is opened for another
dispenser (`OpenCalibration`) while tasks of the one before still run. `BeginWithoutDispenser` is a Pod that is gone; `Fail` any exception
of the request. The measured value is left out. A button counts as enabled until the closure "running" has come back, as in the UI.

### StationConfig and GlassConfig

`StationConfig` has the operator's choices as posts to the io thread, the map, and the file as *what a load would find in it*. A save works,
cannot open the file, or is cut short (`Damaged`); a crash may come at any time and also inside a save. A file that was cut short holds
some of the entries before the cut. `StartDegraded` is the start in which a catalog file cannot be parsed: `main()` goes on with a window
whose callbacks are not connected. `CloseWindow` and `StopJoin` are the shutdown: `stop_and_join` is queued behind the posts. The combo box
offers only ingredients of the store, so no name is unknown. `intended`, `filled` and `faults` are observed only.

`GlassConfig` is the store of active volumes, the rows of the guests' list with their copies, and the file, all of the Slint thread. A
glass is in the file with all its volumes or, behind a cut, with none.

### RecipeArithmetic and OrderFlow

A recipe is the sequence of its dispense commands; both functions copy everything else. The factors are doubles in the code; here they are
exact fractions with one denominator for the whole drink, so that conservation is an equation and not a tolerance. `OrderFlow` extends
both and has the way from the list to the success page: `Zubereiten` is the button of the detail page (named after its caption), which
orders at once when there is one glass with one common volume; `RunClosure` is what the io thread posted to the UI. `ConfigureGlasses` lets
the operator change glasses between and during orders. How the mix is executed, stopped and fails is `RecipeProcess`; here it is begun
and finished, or replaced.

### MCStation and MCExecution

The last six modules and `ManualPopup` share no variable except those of `OrderFlow`'s glasses, so a product would multiply states and add
no behaviour. One run has them all: `part` names the one component that takes the steps of a behaviour, the others rest. `order` and
`reconfigure` are two views of `OrderFlow` (section "Bounds"). `MCExecution` does the same for `RecipeProcess` and `PodSession`.

## 3. Runs and what they show

| run | instance | shows |
|---|---|---|
| `session_event` | 1 request | **finding**: the event of an action can be read before its request has registered for it |
| `recipe` | 2 Pods in parallel then a manual command, 2 starts, 1 queued abort (`MCRecipeAttendance`) | nothing outlives its recipe; no pour of a stopped recipe escapes the sweep; one recipe at a time; a recipe in progress has its mix page or its abort is queued, unless an earlier recipe's success page took the page (`NoUnattendedRecipe`); a raised flag has its wake queued and a stopped recipe its sweep (`NoAbortIsLost`) |
| `execution`, part `recipe` | 1 Pod and a manual command in parallel, then a second manual command; 2 starts | an abort is carried out to the end of the sweep; a recipe ends or asks the guest; `RecipeProcess` implements `Mixing` (`MixingRefined`): one recipe at a time, groups in order, true results |
| `execution`, part `session` | 2 requests, write queue of 1 | type; the dispatch never fails (`DispatchNeverFails`); no entry outlives its request (`EntriesAreHeld`); the first answer cannot come too early (`FirstAnswerFindsItsRequest`); the end of a session releases who waits for a first response (`EndReleasesWaiters`); `PodSession` implements `PodRpc` (`RpcRefined`); every request ends (`EveryRequestEnds`) |
| `recipe_page` | 1 Pod, 2 starts | **finding**: a late success page takes the mix page of the next recipe, which runs on unattended |
| `recipe_failure` | 2 Pods | **finding**: a dispenser that is empty ends the recipe without a safe state |
| `popup_parallel` | 2 commands at once | **finding**: the second popup replaces the first, which is never answered |
| `lifecycle` | 2 Pods, 2 devnodes, 2 sessions | one session per Pod; readiness and every row that is shown are right once the UI has caught up; an unplugged Pod disappears |
| `discovery_stale` | 1 Pod, 2 pending events | **finding**: events older than the scan release and reopen a port that is open |
| `pod_row` | 1 Pod, 1 devnode, 2 sessions | **finding**: the late end of an old session removes the row of the new one |
| `discovery_entry` | 1 Pod | **finding**: after timeouts the entry stays and the Pod is not opened again |
| `station` | see below | popup: 3 commands, one after another: a completion finds its operation, once; no ghost popup; no operation that waits is forgotten (`NoWaitIsForgotten`); a guest who answers every popup gets every command completed. Operator: the pad and the countdown exclude each other, guessing is paced, a lockout ends. Calibration: an error has its message, a step that shows "running" waits for an answer that comes (`RunningIsAnswered`), none stays "running". Assignments: survive restarts; a damaged file never brings back an older one. Glasses: rows show the store, volumes survive. Orders: boost and volume are of this order, the page shows what is mixed, a drink is whole and is the one that was chosen |
| `config_dispenser` | the assignments of `station` | **finding**: a second ingredient on a dispenser leaves the first one on it |

The passing runs fire every action and every disjunct of the next-state relations.

### Findings

1. `session_event` - `pod.cpp` registers for the event of an action only after its Ack has been received; an event or Nak that is read in
   between is discarded and the action times out although the Pod has acted.
2. `recipe_failure` - `docs/.../runtime-view.adoc` promises that a recipe with an empty dispenser brings every involved Pod into a safe
   state. `async_process_recipe()` only shows the error page; the sweep belongs to `upon_stopped()`, which a recipe that fails on its own
   does not reach. A sibling that still pours is left pouring.
3. `popup_parallel` - two refills of one parallel group share one popup and one callback.
4. `discovery_stale` - the monitor listens before the scan; a Pod replugged in between is opened by the scan, released by the old remove
   event and opened a second time.
5. `discovery_entry` - the `PortTable` entry is erased only by a remove event, not when the session ends.
6. `config_dispenser` - `station_config.cpp:41` sets the dispenser of an ingredient and leaves other ingredients on the same dispenser.
   `find_ingredient_by_dispenser()`, which `station_config.cppm:105` describes as looking up "which ingredient a dispenser is assigned to",
   then returns whichever the scan meets first: the admin area and the error page of an empty dispenser may name the wrong ingredient, and a
   recipe with the first ingredient pours the second.
7. `recipe_page` - the closure of `display_ui_success()` names no recipe. When a recipe completes between the guest's abort of it and the
   confirmation of the next one, its success page replaces the next mix page, and leaving the mix page in this way aborts nothing. The next
   recipe pours on without progress or abort button. The window is narrow and needs that order on two threads.
8. `pod_row` - rows are removed by the id of a Pod (`station_state_bridge.cpp:144-146,209`), and a Pod object may live on for the 30 s of a
   request behind the end of its session. Its row is then the row of the next session of the Pod, which stays connected and is not listed.

### Bounds and why they are enough

- `execution`, requests: two are the fewest that can be confused, and one slot in the write queue the fewest that can fill. `TidMod = 3`
  gives each its own id, as the code gives the first 256 requests, so no run sees an id used twice. Of the properties only
  `DispatchNeverFails` and `EntriesAreHeld` are known to hold then, by theorems that hold for every `TidMod`, 1 included.
- `recipe`: two Pods give siblings of which one fails; a second start is what races with the first; `MaxEvents` bounds only the abort
  button.
- `execution`, recipes: one Pod and a manual command in the *same* group, so that a popup and a failing sibling meet, and a second group, so
  that there is an order to keep and a program to cut short.
- `station`, popup: three operations give a popup, its successor, and a closure of the first that is still queued.
- `lifecycle`: two Pods for readiness of the whole station, two devnodes so that a Pod moves or is reachable twice, two sessions so that an
  old one unwinds while the new one starts. `MaxLag = 1` lets discovery handle each event before the next hardware change;
  `discovery_stale` is what happens otherwise. `MaxClosures` keeps a new session, an answer or a timeout waiting while more than one
  closure is queued; everything else posts freely.
- `station`, operator: three attempts as in `station_state_bridge.cpp`, and room for two wrong PINs after a lockout (`MaxFailed = 5`), each
  of which locks again; two ticks tell a lockout that lasts from one that has expired.
- `station`, calibration: two tasks, one of an earlier dispenser; a further task starts with at most one closure queued.
- `station`, assignments: two ingredients and two dispensers, so that one can be replaced and another lost; two queued posts, so that one
  can be dropped behind the one that is being saved. The number of starts, shutdowns and crashes is not bounded.
- `station`, orders: a glass with one volume and one with two; a recipe whose nominal serving (4) is no volume of a glass and that has one
  command of each category, and one that cannot be boosted. Part `order` has orders that follow each other closely (a new one while the
  one before is mixed, its page late), by guests who leave the slider alone; part `reconfigure` has one order at a time with boosts at -80 %, 0 and 80 %
  (`-4, 0, 4` of `FullBoost = 5`) and an operator who changes a glass in between. The ends of the slider, -100 % and 100 %, are covered by
  the theorem `FactorsAreSound`. An order is confirmed when the closures of the Slint thread have run (`uiQueue = <<>>`), and the operator
  activates only common volumes of a glass, which is what the page offers; the store would take any.

### Fairness

Weak fairness only, and only for what the two event loops do by themselves: handlers and closures that are queued run, timers fire, a
suspended coroutine whose result is there resumes, reads on a vanished port fail, a requested stop reaches the wait it is for. In
`RecipeProcess` an answer (`Answer`) is fair because every request ends - `EveryRequestEnds` of `PodSession`, where it rests on timers
alone. Nothing is assumed of the guest, with one exception: in `ManualPopup` a guest presses the button of a popup that stays open
(`PressButton`), since the property is about guests who do. Pods, links and hardware owe nothing.

In `OperatorArea` time passes (`Tick`), the countdown ends and its closure runs; nobody has to touch the pad. In `Calibration` a task that
was spawned begins, a request ends (`EveryRequestEnds` again), and closures run; the operator owes nothing.

## 4. Theorems

Proved by TLAPS for all values of the constants:

- `PodSession_proofs!TypeCorrect`, `MapCorrect`, `DispatchCorrect`, `EntriesCorrect`: the type, and `DispatchNeverFails` and `EntriesAreHeld` for any number
  of requests, any capacity of the write queue and any width of the transaction id. The two are not inductive. `MapInv` adds
  `FreshChannels` (a channel a request has yet to register is empty, open and not in the map) and `EntriesAreKeyed` (a channel is
  only registered under the id of its request). With wrapped ids a registration may join the channel another request holds;
  `RegisterKeepsMap` and `ConcludeKeepsMap` are the two facts about the map, and the rest is one step per action.
- `PodSession_proofs!RpcImplemented`, `FirstAnswer`, `EndReleases`: `PodSession` implements `PodRpc`, and the properties
  `FirstAnswerFindsItsRequest` and `EndReleasesWaiters`, for `SessionSpec` with `MaxRequests <= TidMod`: a session of at most as many
  requests as there are ids (256), any number of ids and any capacity of the queue. The condition is part of each theorem, and the code does
  not ensure it: `generate_new_transaction_id()` does not look whether an id is free, a session may be longer, and a Pod that answers 256
  requests late then answers another request. `protocol.adoc:61` asks for more ("the Station is free to reuse a value once its exchange has
  concluded"). The argument holds of every schedule that keeps that rule (`SettledSpec`), and a session that never takes an id twice
  keeps it (`FewRequestsAreSettled`). The invariant `SessionInv` (`ExchangeCorrect`) has, beside the type and
  `MapInv`, `ExchangeInv`, which says of each request
  that its frame is written once (`IsUnsent`); that every frame in the link or in its channels answers it and tells what the Pod has
  done since (`AnswersAreTrue`); that there is one first answer and nothing else is read before it (`FirstIsUnread`); and that
  its entry stays until that answer is dispatched or the session ends (`EntryIsKept`); and `IdsAreOwn`, that no two exchanges under one id are
  going on. An entry is held by a request that waits (`MapInv`), which is then the one the frame is for (`EntryIsOwn`).
- `PodSession_proofs!OutcomesCorrect`: what an outcome told of the Pod stays true for ever after (`OutcomesStayTrue` of `PodRpc`), from the
  refinement and the steps of `PodRpc`, under the same condition.
- `ManualPopup_proofs!TypeCorrect`, `CompletionCorrect`: for any number of operations and of concurrent ones (so also for parallel groups,
  where the popup itself is *not* right), the button and the stop request exclude each other, and a posted completion finds its operation
  waiting. `PopupInv` adds: a waiting operation is the one its `PopupState` points to until it is claimed; a posted one is
  claimed; a closure that is about to confirm has claimed it; and the Slint thread only knows operations that were started.
  `PopupIsWanted` adds `ShownPopupIsWanted`, from the same fact about the popup that a closure has begun to open (`ShowIsWanted`).
- `ManualPopup_proofs!NoWaitForgotten`, when one command at a time waits for the guest (`MaxOpen = 1`, a theorem's hypothesis;
  `popup_parallel` shows that it is needed): `NoWaitIsForgotten`. `ForgetInv` adds that two operations never wait at once (`OneWaits`), which is
  why a popup the Slint thread opens for another operation has lost it already, and that an operation that has not started was not
  completed (`IdleIsFresh`). What makes it true is the order in `confirm()`: the closing is queued before the completion is posted, so it is
  ahead of the popup of the next command.
- `RecipeProcess_proofs`, for any number of Pods, starts and queued events and for *every* program of sequential and parallel groups, in
  five invariants, which rest on one another:
  - `TypeCorrect`.
  - `OneRecipe` from `QueueInv` (`QueueCorrect`): a queued handler finds its run in the state it was posted for; starts and begins are
    queued in the order of their numbers and behind them nothing older begins; and a run that has begun and is not the active one has its
    flag raised. The last is what makes two recipes in progress impossible, and needs the others to survive a start.
  - `NothingOutlives` and `NoPourIsForgotten` from `CommandInv` (`CommandsCorrect`): an active command belongs to the group its recipe is in; a
    pour is of a registered Pod; and a pour of a run whose sweep has begun is of a Pod that was or will be commanded to stop.
  - `NoneIsUnattended` from `AttendedInv` (`AttendanceCorrect`): a live recipe whose guest has left has an abort or a later start queued
    behind its own start, or lost its own mix page to the success page of an earlier run (`displaced`). That a later start is queued is
    `LaterIsBehind`: the guest can confirm a run only after leaving the page of the one before. It is a theorem of `AttendanceSpec`,
    whose steps are those of `RecipeProcess`.
  - `MixingImplemented`: `RecipeProcess` implements `Mixing`, from `MixInv` (`MixCorrect`), which adds why things stop and in which order they
    are done. `AbortInv`: a wait is woken only when its flag is raised (`WakesAreFlagged`), so that a run that is told to stop was aborted
    (`StoppingIsFlagged`), and a queued begin is of a later run than any that has begun (`BeginsAreOrdered`). `OrderInv`: a run that waits
    has done nothing, the groups before the current one are done (`GroupsAreDone`), and a command stops only with its recipe or beside one that
    failed (`StopsHaveReasons`). The step of the refinement is one lemma for each kind of step: `BeginIsSeen` needs that whoever
    is still mixing was aborted, `CommandIsSeen` that it is the command's turn and that giving up has a reason, `EndIsSeen` that the
    result is true; the rest is unseen.
  - `AbortsAreHeard` (`NoAbortIsLost`): the flag of an `AwaitableBool` is raised before, while or after the recipe begins to wait on it; as
    long as the recipe runs on, the wake is queued, and the recipe that has stopped has its sweep queued. From the type and `QueueInv`.
- `PodLifecycle_proofs`, for any number of Pods, devnodes and sessions:
  - `TypeCorrect`, and `ReadyIsShown` from `ReadinessIsQueued` (`ReadinessCorrect`): the last queued readiness, or what is shown when none
    is queued, is the one of the sessions. It holds however late the hardware events are handled (every `MaxLag`).
  - `OneSession` from `SessionInv` (`SessionsCorrect`): an open tty is the one the `PortTable` has for its Pod, and a queued remove event is
    for a devnode that is gone. Assumes `MaxLag <= 1`: discovery handles a hardware event before the next comes. `discovery_stale` shows
    that this is needed.
  - `RowsAreShown` (`RowsAreTrue`) from `RowsInv` (`RowsCorrect`): for each Pod, the last queued change of its row, or the row when none is
    queued, is "absent" or the connection of a tracked session that has told this id. For every `MaxLag`, and for any number of
    sessions of one Pod at a time; that a connected Pod *has* a row is false (`pod_row`).
- `AdminArea_proofs!AreaCorrect`, with `PadAndCountdownExclude`, `GuessingIsSlow` and `AreaRelocks` as corollaries, for every number of attempts and
  duration. `AreaInv` adds to the properties that a locked pad waits for a countdown or a closure, of which there is exactly one, and that the
  streak is what was counted. `AreaTypeCorrect` (`AreaTypeOK`) and `AreaRelocks` (`RelockedOutside`: nobody is authenticated outside the admin area)
  are proved only, as is the type of `ManualPopup`: the proofs cover the instances of the runs.
- `AdminArea_proofs!CalibrationExplainsErrors`, for any number of tasks, queued closures and openings of the popup. `CalibrationInv` says
  that every queued error has its message right behind it (`ErrorsHaveMessages`) and that an error that is shown has its message shown or
  queued (`ShownErrorsAreExplained`): the two closures are posted one after the other, so nothing, not even a popup that is
  opened in between for another dispenser, can leave an error without one.
- `AdminArea_proofs!CalibrationAnswers` (`RunningIsAnswered`), for the same. Alone it is not inductive: a "running" may be queued behind the
  answer of an earlier task of the step. `RunningInv` says of the status that is shown and of *every* "running" in the queue that a
  result is behind it or a task still waits (`AnsweredAfter`).
- `StationConfig_proofs!ConfigCorrect`, with `AssignmentsAreKept` and `ReplacedStaysReplaced`, for any number of ingredients, dispensers,
  queued posts and restarts. `ConfigInv` says, per ingredient, that its last queued assignment - or the file, when
  none is queued - is the operator's choice (`ChoiceIsKept`) as long as nothing went wrong, and that with files that were cut short it
  is that choice or none (`ChoiceIsLatest`). It needs that map and file agree while further assignments may come (`MemoryIsSaved`), and
  that a station that has not loaded its file has none queued (`PostsAreHandled`).
- `RecipeArithmetic_proofs`, for recipes of *any length*, every glass and every position of the slider:
  - `FactorsAreSound`: the factors of a boost conserve the sum of the two categories and are not negative, for every split.
  - `BoostKeepsTheVolume` and `ScaleFillsTheGlass`: a boosted recipe has the total it had, a scaled one the target. From
    `TotalIsLinear` (the total of a mix of two recipes is the mix of their totals).
  - `ScaleAndBoostCommute`: the two give the same amounts in either order.

  `TotalOf` folds over the commands. Its lemmas need induction over their number, and the library's induction theorems take the claim as an operator,
  which the provers cannot instantiate. `NatSetInduction` states induction for a *set* of numbers instead and follows from the
  library's `NatLessThanWellFounded`; each use gives the set of the lengths for which its claim holds.
- `OrderFlow_proofs`, for any finite set of glasses, any volumes, recipes and slider positions, and whatever is queued:
  - `RowsAreTrue` and `VolumesAreKept` from `GlassInv`, which adds that nothing but common volumes of a glass is offered for it.
  - `OrderIsTheChosen`, `OrderFitsItsGlass` and `PageShowsTheMix` from `OrderInv`, for a station that runs and whose operator changes the
    glasses between orders (`OrderSpec`): while a glass is chosen the boost of the context is the slider's (`BoostIsTaken`); a volume or
    chips left from an earlier guest are of the glass that is left (`VolumeIsOfGlass`); and the commands that are executed are the last that were
    queued to be shown, or they are shown, or the page was left and the post that ends the mix is queued (`MixIsShown`).
  - `EveryMixIsTheChosenDrink`, which adds that an order holds the recipe the guest chose (`RecipeIsChosen`), and `EveryDrinkIsWhole`, which
    rests on `ScaleFillsTheGlass` and `BoostKeepsTheVolume`. The recipes may have any length; `ContentAssumption` says what
    the catalog guarantees of them (whole, non-negative volumes and a serving that is not empty).

The assumptions are the `ASSUME`s of the modules, which TLC evaluates in the runs, and `MaxLag <= 1`, `MaxOpen = 1` and `MaxRequests <= TidMod` in
the theorems that name them.

## 5. Only model-checked

Safety: nothing. Every invariant that a passing run checks, and both refinements, are theorems, some under the conditions named above (`RpcRefined`
and the two properties of answers: at most as many requests as ids; `OneSessionPerPod`: `MaxLag <= 1`; `NoWaitIsForgotten`: `MaxOpen = 1`).

Liveness: `EveryRequestEnds`, `AbortIsCarriedOut`, `RecipeEndsOrAsks`, `EveryPopupIsAnswered`, `UnpluggedPodDisappears`, `LockoutEnds` and
`StepsSettle` stay with TLC, since liveness under fairness needs `ENABLED`, which TLAPS does not support. So would anything with
`RECURSIVE` operators; there are none here. Of four of them the part that is not about fairness is a theorem, which says that what the
property waits for is under way: `NoAbortIsLost` for `AbortIsCarriedOut`, `NoWaitIsForgotten` for `EveryPopupIsAnswered`, `RunningIsAnswered` for
`StepsSettle`, and `EndReleasesWaiters` for the requests of a session that ends in `EveryRequestEnds`. That it then happens is what TLC
checks.

## 6. Not modelled

- Framing and checksums of the generated protocol code, formatting, icons, logging: no state of their own.
- Lifetime of C++ objects that a coroutine refers to by raw pointer (hazards `pod_algorithms.cppm:27`): below the model.
- JSON: text, parsing and error messages. A load finds entries or nothing.
- A recipe that is running when the window is closed: nothing documents what the Pods must do then.
- Volumes a Pod measures (`maschine_adapter.cpp:62`) and what a calibration measures.
- The boot screen that covers the abort button when a Pod disconnects during a mix: neither code nor documents promise an abort there.
- Firmware: what a Pod does with a stop command and a dispense command that cross.
- Log ports of a Pod: a second `PortTable`, used in the same way and independent of the first.
- Catalog: parsed before anything runs; a failure is `StartDegraded`.
- The direct order (one glass with one common volume) takes the common volume although the operator may have deactivated it
  (`app-window.slint:165`); `VolumeFitsGlass` therefore speaks of the glass' common volumes.
- Two presses of a calibration button before "running" has come back are possible and are part of the model; two presses of other
  buttons before the page changes are not, since the page changes in the same callback.

## 7. Plan

In this order, the most important behaviour first:

1. Done: `PodRpc`, `PodSession`; `RecipeProcess`; `ManualPopup`; `PodLifecycle`; `OperatorArea`; `Calibration`; `StationConfig`;
   `GlassConfig`; `RecipeArithmetic`; `OrderFlow`, each with its runs, and the proofs of section 4.
2. Left to prove: abstract specifications for the remaining stores and sessions (the assignments and volumes as durable maps that
   `StationConfig` and `GlassConfig` implement, the sessions of a Pod as `PodLifecycle` keeps them), where they say more than the invariants.
3. Left to model: the end of a running recipe at a shutdown, once it is decided what it should be.
