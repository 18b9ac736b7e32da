--------------------------- MODULE RecipeProcess ---------------------------
(***************************************************************************)
(* The processing of recipes, from the button of the guest to the Pods:    *)
(* ProcessContextBridge (process_context_bridge.cpp), execute_commands(),  *)
(* run_all() (async_algorithms.cpp), MachineAdapter and the safe state of  *)
(* all Pods (pod_algorithms.cppm).                                         *)
(*                                                                         *)
(* Two threads: the Slint thread owns the page and hears of the io thread  *)
(* through `events'; the io thread runs the recipes and everything that is *)
(* posted to it, in the order of `posts'.  Both queues are FIFO.  What a   *)
(* Pod answers is what PodRpc allows; a Pod that has been asked to pour    *)
(* pours until it is done, is commanded to stop, or leaves the station.    *)
(***************************************************************************)
EXTENDS Naturals, Sequences, FiniteSets

CONSTANTS
  Pod,        \* the Pods of the station
  Command,    \* the commands of the recipe
  PodOf,      \* the Pod of each dispense command; the others are manual
  Program,    \* the recipe: its groups of parallel commands, in order
  MaxRuns,    \* bound on how often the guest starts it
  MaxEvents   \* bound on the events the abort button may queue

ASSUME RecipeAssumption ==
  /\ MaxRuns \in Nat
  /\ MaxEvents \in Nat
  /\ DOMAIN PodOf \subseteq Command
  /\ \A c \in DOMAIN PodOf : PodOf[c] \in Pod
  /\ Program \in Seq(SUBSET Command)

VARIABLES
  page,        \* get_active_screen(); "menu" stands for all pages before mixing
  events,      \* invoke_from_event_loop(): pages to navigate to
  posts,       \* handlers posted to the io thread
  active,      \* the run active_recipe_abort_ belongs to, 0 for nullptr
  flag,        \* the value of each run's AwaitableBool
  run,         \* how far each run of the recipe is
  result,      \* what its async_process_recipe() ended with
  step,        \* the group execute_commands() is in
  cmd,         \* how far each command of each run is
  pouring,     \* <<run, command>>: a Pod was asked to pour and has not ended
  registered,  \* the Pods in the PodRegistry
  sweeping,    \* Pods that force_safe_state_all() has still to command
  safe         \* Pods it has commanded after each run

recipeVars == <<page, events, posts, active, flag, run, result, step, cmd,
                pouring, registered, sweeping, safe>>
uiVars   == <<page, events>>
podVars  == <<pouring, registered>>
safeVars == <<sweeping, safe>>
-----------------------------------------------------------------------------
Run      == 1..MaxRuns
Dispense == DOMAIN PodOf
Pages    == {"menu", "mix", "success", "error"}
Handlers == {"start", "abort", "wake", "begin", "sweep"}
Post(handler, r) == [do |-> handler, run |-> r]

Processing == {"running", "stopping"}
Active == {"dispensing", "popup", "refilling"}
Failures == {"failed", "empty"}
Ended  == {"done", "stopped"} \cup Failures

Group(r) == IF step[r] \in 1..Len(Program) THEN Program[step[r]] ELSE {}

(* Commands of r see a stop request: the recipe's, or the one join_all()   *)
(* makes when a sibling has failed.                                        *)
Halted(r) ==
  \/ run[r] = "stopping"
  \/ \E c \in Group(r) : cmd[r][c] \in Failures

(* Mutant: a group that is stopped or has failed is not joined. *)
Joined_NotAll(r) == Halted(r) \/ \A c \in Group(r) : cmd[r][c] \in Ended

(* run_all() has joined every command of the group.                        *)
Joined(r) == \A c \in Group(r) : cmd[r][c] \in Ended

(* Mutant: the end of the program is missed by one. *)
LastGroup_PastEnd(r) == step[r] > Len(Program)

(* Mutant: the last group is never executed. *)
LastGroup_TooEarly(r) == step[r] + 1 >= Len(Program)

LastGroup(r) == step[r] >= Len(Program)

Set(r, c, state) == cmd' = [cmd EXCEPT ![r][c] = state]
-----------------------------------------------------------------------------
Init ==
  /\ page = "menu"
  /\ events = <<>>
  /\ posts = <<>>
  /\ active = 0
  /\ flag = [r \in Run |-> FALSE]
  /\ run = [r \in Run |-> "idle"]
  /\ result = [r \in Run |-> "none"]
  /\ step = [r \in Run |-> 0]
  /\ cmd = [r \in Run |-> [c \in Command |-> "todo"]]
  /\ pouring = {}
  /\ registered = Pod
  /\ sweeping = [r \in Run |-> {}]
  /\ safe = [r \in Run |-> {}]
-----------------------------------------------------------------------------
(* The Slint thread.                                                       *)

(* Mutant: only an error page aborts. *)
Navigate_OnlyError(to) ==
  /\ page' = to
  /\ posts' = IF page = "mix" /\ to = "error"
              THEN Append(posts, Post("abort", 0)) ELSE posts

(* on_navigated_to: leaving the mix page other than by success aborts.     *)
Navigate(to) ==
  /\ page' = to
  /\ posts' = IF page = "mix" /\ to # "success"
              THEN Append(posts, Post("abort", 0)) ELSE posts

(* The guest confirms a recipe: on_process_active_recipe.                  *)
ProcessActiveRecipe(r) ==
  /\ page = "menu"
  /\ run[r] = "idle"
  /\ \A q \in Run : q < r => run[q] # "idle"
  /\ page' = "mix"
  /\ posts' = Append(posts, Post("start", r))
  /\ run' = [run EXCEPT ![r] = "started"]
  /\ UNCHANGED <<events, active, flag, result, step, cmd, podVars, safeVars>>

(* The abort button of the mix page: on_abort.                             *)
AbortButton ==
  /\ page = "mix"
  /\ Len(events) < MaxEvents
  /\ events' = Append(events, "error")
  /\ UNCHANGED <<page, posts, active, flag, run, result, step, cmd, podVars, safeVars>>

(* The back button, the operator's PIN popup, or the end of a result page. *)
LeavePage ==
  /\ page # "menu"
  /\ Navigate("menu")
  /\ UNCHANGED <<events, active, flag, run, result, step, cmd, podVars, safeVars>>

ShowResult ==
  /\ events # <<>>
  /\ events' = Tail(events)
  /\ Navigate(Head(events))
  /\ UNCHANGED <<active, flag, run, result, step, cmd, podVars, safeVars>>
-----------------------------------------------------------------------------
(* The io thread: the handler at the head of its queue.                    *)
NextPost(handler, r) == posts # <<>> /\ Head(posts) = Post(handler, r)

(* abort_active_recipe(): the flag is raised, and the wait on it, if there *)
(* is one, is completed by a handler of its own (awaitable_bool.cppm).     *)
Wakes == IF active # 0 /\ ~flag[active] /\ run[active] \in Processing
         THEN <<Post("wake", active)>> ELSE <<>>

(* Mutant: only a wait that has begun is told of the abort. *)
Raised_OnlyWaited == IF active = 0 \/ run[active] \notin Processing THEN flag
                     ELSE [flag EXCEPT ![active] = TRUE]

Raised == IF active = 0 THEN flag ELSE [flag EXCEPT ![active] = TRUE]

(* start_recipe_processing()                                               *)
StartRecipe(r) ==
  /\ NextPost("start", r)
  /\ posts' = Tail(posts) \o Wakes \o <<Post("begin", r)>>
  /\ flag' = Raised
  /\ active' = r
  /\ UNCHANGED <<uiVars, run, result, step, cmd, podVars, safeVars>>

(* Mutant: the wait on the flag is not woken. *)
AbortActiveRecipe_NoWake ==
  /\ NextPost("abort", 0)
  /\ posts' = Tail(posts)
  /\ flag' = Raised
  /\ active' = 0
  /\ UNCHANGED <<uiVars, run, result, step, cmd, podVars, safeVars>>

AbortActiveRecipe ==
  /\ NextPost("abort", 0)
  /\ posts' = Tail(posts) \o Wakes
  /\ flag' = Raised
  /\ active' = 0
  /\ UNCHANGED <<uiVars, run, result, step, cmd, podVars, safeVars>>

(* The spawned when_any() starts; a flag that is already raised stops the  *)
(* processing at once.                                                     *)
BeginRecipe(r) ==
  /\ NextPost("begin", r)
  /\ posts' = Tail(posts)
  /\ run' = [run EXCEPT ![r] = IF flag[r] THEN "stopping" ELSE "running"]
  /\ step' = [step EXCEPT ![r] = 1]
  /\ UNCHANGED <<uiVars, active, flag, result, cmd, podVars, safeVars>>

(* The wait on the flag completes: when_any() asks the processing to stop. *)
Wake(r) ==
  /\ NextPost("wake", r)
  /\ posts' = Tail(posts)
  /\ run' = [run EXCEPT ![r] = IF @ = "running" THEN "stopping" ELSE @]
  /\ UNCHANGED <<uiVars, active, flag, result, step, cmd, podVars, safeVars>>
-----------------------------------------------------------------------------
(* execute_command() is entered.  A stop request does not keep a frame out *)
(* of a write queue that has room: it is seen by the next wait at latest.  *)
Pour(r, c, state) ==
  IF PodOf[c] \in registered
  THEN Set(r, c, state) /\ pouring' = pouring \cup {<<r, c>>}
  ELSE Set(r, c, "failed") /\ UNCHANGED pouring

OpenPopup(r, c) == Set(r, c, IF Halted(r) THEN "stopped" ELSE "popup")

Start(r, c) ==
  /\ run[r] \in Processing
  /\ c \in Group(r)
  /\ cmd[r][c] = "todo"
  /\ IF c \in Dispense
     THEN Pour(r, c, "dispensing")
     ELSE OpenPopup(r, c) /\ UNCHANGED pouring
  /\ UNCHANGED <<uiVars, posts, active, flag, run, result, step, registered, safeVars>>

(* The Pod reports the volume it has poured.  One that is more than 20 ml  *)
(* off is taken for running low, and the guest asked for a refill, once.   *)
Poured(r, c, short) ==
  /\ cmd[r][c] \in {"dispensing", "refilling"}
  /\ short \/ <<r, c>> \in pouring
  /\ IF short /\ cmd[r][c] = "dispensing" THEN OpenPopup(r, c) ELSE Set(r, c, "done")
  /\ pouring' = pouring \ {<<r, c>>}
  /\ UNCHANGED <<uiVars, posts, active, flag, run, result, step, registered, safeVars>>

(* A Nak: DispenserEmpty asks for a refill, once; otherwise it fails.      *)
Refused(r, c, empty) ==
  /\ cmd[r][c] \in {"dispensing", "refilling"}
  /\ IF empty /\ cmd[r][c] = "dispensing" THEN OpenPopup(r, c)
     ELSE Set(r, c, IF empty THEN "empty" ELSE "failed")
  /\ pouring' = pouring \ {<<r, c>>}
  /\ UNCHANGED <<uiVars, posts, active, flag, run, result, step, registered, safeVars>>

(* Timeout, protocol error or closed session: the Pod may well go on.      *)
Unanswered(r, c) ==
  /\ cmd[r][c] \in {"dispensing", "refilling"}
  /\ Set(r, c, "failed")
  /\ UNCHANGED <<uiVars, posts, active, flag, run, result, step, podVars, safeVars>>

(* The guest confirms a popup; after a refill the rest is dispensed.       *)
Confirm(r, c) ==
  /\ cmd[r][c] = "popup"
  /\ IF c \in Dispense
     THEN Pour(r, c, "refilling")
     ELSE Set(r, c, "done") /\ UNCHANGED pouring
  /\ UNCHANGED <<uiVars, posts, active, flag, run, result, step, registered, safeVars>>

(* Mutant: only the abort of the recipe stops a command (gather_all). *)
StopCommand_OnlyAbort(r, c) ==
  /\ run[r] = "stopping"
  /\ cmd[r][c] \in Active
  /\ Set(r, c, "stopped")
  /\ UNCHANGED <<uiVars, posts, active, flag, run, result, step, podVars, safeVars>>

(* A stop request unwinds a command at the wait it is in.                  *)
StopCommand(r, c) ==
  /\ Halted(r)
  /\ cmd[r][c] \in Active
  /\ Set(r, c, "stopped")
  /\ UNCHANGED <<uiVars, posts, active, flag, run, result, step, podVars, safeVars>>
-----------------------------------------------------------------------------
(* async_process_recipe() ends and with it when_any(): a recipe that was   *)
(* stopped first completes with set_stopped, whatever its processing ended *)
(* with, and upon_stopped() spawns the safe state.                         *)
EndRecipe(r, outcome) ==
  /\ result' = [result EXCEPT ![r] = outcome]
  /\ events' = IF outcome = "stopped" THEN events ELSE Append(events, outcome)
  /\ run' = [run EXCEPT ![r] = IF @ = "running" THEN "finished" ELSE "stopped"]
  /\ posts' = IF run[r] = "running" THEN posts ELSE Append(posts, Post("sweep", r))
  /\ UNCHANGED <<page, active, flag, step, cmd, podVars, safeVars>>

(* The next group starts, or the first error, the stop request or the      *)
(* success ends the recipe.  A group of one is a sequential command, which *)
(* ends as it does also under a stop request; the parallel commands of the *)
(* recipe schema have at least two.                                        *)
EndGroup(r) ==
  /\ run[r] \in Processing
  /\ Joined(r)
  /\ LET failed  == \E c \in Group(r) : cmd[r][c] \in Failures
         stopped == \/ \E c \in Group(r) : cmd[r][c] = "stopped"
                    \/ run[r] = "stopping" /\ Cardinality(Group(r)) > 1
     IN IF failed THEN EndRecipe(r, "error")
        ELSE IF stopped THEN EndRecipe(r, "stopped")
        ELSE IF LastGroup(r) THEN EndRecipe(r, "success")
        ELSE /\ step' = [step EXCEPT ![r] = @ + 1]
             /\ UNCHANGED <<uiVars, posts, active, flag, run, result, cmd, podVars, safeVars>>

(* force_safe_state_all_pods(): one task for every Pod that is registered. *)
BeginSweep(r) ==
  /\ NextPost("sweep", r)
  /\ posts' = Tail(posts)
  /\ sweeping' = [sweeping EXCEPT ![r] = registered]
  /\ run' = [run EXCEPT ![r] = "swept"]
  /\ UNCHANGED <<uiVars, active, flag, result, step, cmd, podVars, safe>>

(* Mutant: the first error stops the other tasks (join_all). *)
ForceSafeState_StopOnError(r, p, lost) ==
  /\ p \in sweeping[r]
  /\ sweeping' = [sweeping EXCEPT ![r] = IF lost THEN {} ELSE @ \ {p}]
  /\ safe' = [safe EXCEPT ![r] = @ \cup {p}]
  /\ pouring' = IF lost THEN pouring ELSE {x \in pouring : PodOf[x[2]] # p}
  /\ UNCHANGED <<uiVars, posts, active, flag, run, result, step, cmd, registered>>

(* Pod::force_safe_state(): the EmergencyStop reaches the Pod or is lost;  *)
(* a failure leaves the tasks of the other Pods alone (gather_all).        *)
ForceSafeState(r, p, lost) ==
  /\ p \in sweeping[r]
  /\ sweeping' = [sweeping EXCEPT ![r] = @ \ {p}]
  /\ safe' = [safe EXCEPT ![r] = @ \cup {p}]
  /\ pouring' = IF lost THEN pouring ELSE {x \in pouring : PodOf[x[2]] # p}
  /\ UNCHANGED <<uiVars, posts, active, flag, run, result, step, cmd, registered>>
-----------------------------------------------------------------------------
(* A Pod ends a pour the station does not wait for any more.               *)
PourEnds(r, c) ==
  /\ <<r, c>> \in pouring
  /\ cmd[r][c] \notin {"dispensing", "refilling"}
  /\ pouring' = pouring \ {<<r, c>>}
  /\ UNCHANGED <<uiVars, posts, active, flag, run, result, step, cmd, registered, safeVars>>

(* run_pod() registers a Pod for as long as its session runs.  A Pod whose *)
(* session has ended is out of reach: its pours are not followed further,  *)
(* and a task that was to command it fails.                                *)
UnregisterPod(p) ==
  /\ p \in registered
  /\ registered' = registered \ {p}
  /\ pouring' = {x \in pouring : PodOf[x[2]] # p}
  /\ sweeping' = [r \in Run |-> sweeping[r] \ {p}]
  /\ UNCHANGED <<uiVars, posts, active, flag, run, result, step, cmd, safe>>

RegisterPod(p) ==
  /\ p \in Pod \ registered
  /\ registered' = registered \cup {p}
  /\ UNCHANGED <<uiVars, posts, active, flag, run, result, step, cmd, pouring, safeVars>>
-----------------------------------------------------------------------------
Guest == AbortButton \/ LeavePage \/ \E r \in Run : ProcessActiveRecipe(r)

Handler ==
  \/ AbortActiveRecipe
  \/ \E r \in Run : StartRecipe(r) \/ BeginRecipe(r) \/ Wake(r) \/ BeginSweep(r)

Answer(r, c) ==
  \/ \E short \in BOOLEAN : Poured(r, c, short)
  \/ \E empty \in BOOLEAN : Refused(r, c, empty)
  \/ Unanswered(r, c)

CommandStep(r, c) ==
  Start(r, c) \/ Answer(r, c) \/ Confirm(r, c) \/ StopCommand(r, c) \/ PourEnds(r, c)

Next ==
  \/ Guest \/ ShowResult \/ Handler
  \/ \E r \in Run : EndGroup(r)
  \/ \E r \in Run, c \in Command : CommandStep(r, c)
  \/ \E r \in Run, p \in Pod, lost \in BOOLEAN : ForceSafeState(r, p, lost)
  \/ \E p \in Pod : UnregisterPod(p) \/ RegisterPod(p)

(* Both event loops run what is queued, every request ends (EveryRequest-  *)
(* Ends of PodSession), and a requested stop reaches the wait it is for.   *)
(* The guest need not do anything.                                         *)
Fairness ==
  /\ WF_recipeVars(ShowResult)
  /\ WF_recipeVars(Handler)
  /\ \A r \in Run :
       /\ WF_recipeVars(EndGroup(r))
       /\ \A c \in Command : /\ WF_recipeVars(Start(r, c))
                             /\ WF_recipeVars(StopCommand(r, c))
                             /\ WF_recipeVars(Answer(r, c))
       /\ \A p \in Pod : WF_recipeVars(\E lost \in BOOLEAN : ForceSafeState(r, p, lost))

Spec == Init /\ [][Next]_recipeVars
FairSpec == Spec /\ Fairness
-----------------------------------------------------------------------------
TypeOK ==
  /\ page \in Pages
  /\ events \in Seq({"success", "error"})
  /\ posts \in Seq([do : Handlers, run : 0..MaxRuns])
  /\ active \in 0..MaxRuns
  /\ flag \in [Run -> BOOLEAN]
  /\ run \in [Run -> {"idle", "started", "finished", "stopped", "swept"} \cup Processing]
  /\ result \in [Run -> {"none", "success", "error", "stopped"}]
  /\ step \in [Run -> 0..Len(Program) \cup {1}]
  /\ cmd \in [Run -> [Command -> {"todo"} \cup Active \cup Ended]]
  /\ pouring \subseteq Run \X Dispense
  /\ registered \subseteq Pod
  /\ sweeping \in [Run -> SUBSET Pod]
  /\ safe \in [Run -> SUBSET Pod]

Over(r) == run[r] \in {"finished", "stopped", "swept"}

(* The children of run_all() reference its frame: once a recipe has ended, *)
(* none of its commands is in progress, and none ever begins.              *)
NothingOutlivesItsRecipe ==
  \A r \in Run : Over(r) => \A c \in Command : cmd[r][c] \notin Active

(* Once the safe state of a stopped recipe is through, every Pod that may  *)
(* still pour for it has been commanded to stop, after it was asked to     *)
(* pour - also when the command of another Pod has failed.                 *)
NoPourEscapes ==
  \A r \in Run : (run[r] = "swept" /\ sweeping[r] = {}) =>
     \A c \in Dispense : <<r, c>> \in pouring => PodOf[c] \in safe[r]

(* At most one recipe is being processed that was not told to stop: a      *)
(* second start first aborts the recipe before.                            *)
OneRecipeAtATime ==
  \A r, q \in Run : (r < q /\ run[q] \in Processing) =>
     run[r] # "running" \/ flag[r]

AbortQueued == \E i \in 1..Len(posts) : posts[i].do \in {"abort", "start"}

(* runtime-view.adoc: the Station executes the recipe, "reporting progress *)
(* back to the guest until the mix succeeds or fails": a recipe in progress*)
(* that was not aborted has the mix page, or its abort is queued.          *)
EveryMixIsAttended ==
  \A r \in Run : (run[r] = "running" /\ ~flag[r]) => page = "mix" \/ AbortQueued

Queued(handler, r) == \E i \in 1..Len(posts) : posts[i] = Post(handler, r)

(* No abort is lost: the wait of a recipe that runs on although it was     *)
(* aborted is about to be woken, and a stopped recipe about to be swept.   *)
NoAbortIsLost ==
  \A r \in Run :
    /\ run[r] = "running" /\ flag[r] => Queued("wake", r)
    /\ run[r] = "stopped" => Queued("sweep", r)

(* The guest sees Mixing.                                                  *)
Seen(state) ==
  CASE state \in Active -> "begun"
    [] state \in Failures -> "failed"
    [] OTHER -> state

Stage(r) ==
  CASE run[r] \in {"idle", "started"} -> "waiting"
    [] run[r] \in Processing -> "mixing"
    [] OTHER -> result[r]

Mix == INSTANCE Mixing WITH
         stage <- [r \in Run |-> Stage(r)],
         aborted <- flag,
         progress <- [r \in Run |-> [c \in Command |-> Seen(cmd[r][c])]]

(* Results are true, groups are in order, and recipes one at a time: the   *)
(* guest can tell nothing of the threads, queues and Pods behind them.     *)
MixingRefined == Mix!MixingSpec

(* An abort of a recipe in progress is carried out: the recipe ends, and   *)
(* unless it ended by itself first, the Pods are brought to safety.        *)
AbortIsCarriedOut ==
  \A r \in Run : (flag[r] /\ run[r] \in Processing) ~>
     run[r] = "finished" \/ (run[r] = "swept" /\ sweeping[r] = {})

(* A recipe never hangs: it ends, or a popup waits for the guest.  A popup *)
(* does not keep a recipe that was aborted, or whose other command failed. *)
RecipeEndsOrAsks ==
  \A r \in Run : run[r] \in Processing ~>
     Over(r) \/ (~Halted(r) /\ \E c \in Group(r) : cmd[r][c] = "popup")

(* runtime-view.adoc: "If a dispenser is empty [...], the Station stops    *)
(* the remaining actions, brings every involved Pod into a safe state".    *)
EmptyDispenserForcesSafeState ==
  \A r \in Run : (result[r] = "error" /\ \E c \in Dispense : cmd[r][c] = "empty") ~>
     \A c \in Dispense : <<r, c>> \in pouring => PodOf[c] \in safe[r]
=============================================================================
