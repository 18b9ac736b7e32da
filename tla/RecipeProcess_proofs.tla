----------------------- MODULE RecipeProcess_proofs -----------------------
(***************************************************************************)
(* The safety of recipes, for any number of Pods and starts and for every  *)
(* program of parallel groups.  Five invariants: the type; what the queue  *)
(* of the io thread says of the runs; where a command may be in progress   *)
(* and a Pod may pour; who attends a recipe; and why recipes and commands  *)
(* stop.  From these, that RecipeProcess implements Mixing; and that no    *)
(* abort is lost on the way to the recipe.                                 *)
(***************************************************************************)
EXTENDS RecipeAttendance, TLAPS

(* What handles a post finds: a start and a begin find a run that waits    *)
(* for them, a sweep one that was stopped.                                 *)
PostIsTimely(p) ==
  /\ p.do # "abort" => p.run \in Run
  /\ p.do \in {"start", "begin"} => run[p.run] = "started"
  /\ p.do = "sweep" => run[p.run] \in {"stopped", "swept"}

PostsAreTimely == \A i \in 1..Len(posts) : PostIsTimely(posts[i])

(* Runs are started, and begin, in the order of their numbers.             *)
Begun(r) ==
  \/ run[r] \notin {"idle", "started"}
  \/ \E i \in 1..Len(posts) : posts[i] = Post("begin", r)

PostsAreOrdered ==
  \A i, j \in 1..Len(posts) :
    i < j /\ posts[i].do = posts[j].do /\ posts[i].do \in {"start", "begin"} => posts[i].run < posts[j].run

RunsAreOrdered ==
  /\ \A q, r \in Run : r < q /\ run[q] # "idle" => run[r] # "idle"
  /\ \A i \in 1..Len(posts), q \in Run : posts[i].do = "start" /\ Begun(q) => q < posts[i].run

(* The flag of a run that has begun is raised as soon as it is no longer   *)
(* the active one.                                                         *)
OthersAreFlagged ==
  /\ \A r \in Run : Begun(r) /\ ~flag[r] => active = r
  /\ \A r \in Run : Begun(r) /\ active # 0 => r <= active

QueueInv == PostsAreTimely /\ PostsAreOrdered /\ RunsAreOrdered /\ OthersAreFlagged

(* A command is in progress only in the group its recipe is in.            *)
ActiveInGroup ==
  \A r \in Run, c \in Command : cmd[r][c] \in Active => run[r] \in Processing /\ c \in Group(r)

(* Every pour that is followed is in reach, and those of a run whose sweep *)
(* has begun are of a Pod that was or will be commanded to stop.           *)
PoursAreReachable == \A x \in pouring : PodOf[x[2]] \in registered

PoursAreSwept ==
  \A r \in Run, c \in Dispense :
    run[r] = "swept" /\ <<r, c>> \in pouring => PodOf[c] \in sweeping[r] \cup safe[r]

CommandInv == ActiveInGroup /\ PoursAreReachable /\ PoursAreSwept
-----------------------------------------------------------------------------
RunState == {"idle", "started", "finished", "stopped", "swept"} \cup Processing
CmdState == {"todo"} \cup Active \cup Ended
AnyPost == [do : Handlers, run : 0..MaxRuns]

LEMMA GroupIsOfCommands == ASSUME NEW r \in Run PROVE Group(r) \subseteq Command
BY RecipeAssumption DEF Group

LEMMA RunsAreNumbers == Run \subseteq 0..MaxRuns /\ Run \subseteq Nat /\ 0 \notin Run
BY RecipeAssumption DEF Run

LEMMA PostsAreTyped ==
  ASSUME NEW handler \in Handlers, NEW r \in 0..MaxRuns
  PROVE  Post(handler, r) \in AnyPost
BY DEF Post, AnyPost

LEMMA WakesIsTyped == ASSUME TypeOK PROVE Wakes \in Seq(AnyPost) /\ Raised \in [Run -> BOOLEAN]
<1>1. Post("wake", active) \in AnyPost
  BY PostsAreTyped DEF TypeOK, Handlers
<1>2. Raised \in [Run -> BOOLEAN]
  BY DEF Raised, TypeOK
<1> QED
  BY <1>1, <1>2 DEF Wakes

(* The type, one group of actions after another.                           *)
LEMMA GuestKeepsType == ASSUME TypeOK, Guest \/ ShowResult PROVE TypeOK'
<1>1. Post("abort", 0) \in AnyPost /\ \A r \in Run : Post("start", r) \in AnyPost
  BY RunsAreNumbers, RecipeAssumption, PostsAreTyped DEF Handlers
<1>2. CASE AbortButton
  BY <1>2 DEF TypeOK, AbortButton, podVars, safeVars
<1>3. CASE LeavePage \/ ShowResult
  <2>1. page' \in Pages /\ events' \in Seq({"success", "error"})
    <3>1. events \in Seq({"success", "error"})
      BY DEF TypeOK
    <3>2. CASE LeavePage
      BY <3>1, <3>2 DEF LeavePage, Navigate, Pages
    <3>3. CASE ShowResult
      <4>1. Head(events) \in {"success", "error"} /\ Tail(events) \in Seq({"success", "error"})
        BY <3>1, <3>3 DEF ShowResult
      <4> QED
        BY <3>3, <4>1 DEF ShowResult, Navigate, Pages
    <3> QED
      BY <1>3, <3>2, <3>3
  <2>2. posts' \in Seq(AnyPost)
    <3>1. posts \in Seq(AnyPost)
      BY DEF TypeOK, AnyPost
    <3>2. posts' = posts \/ posts' = Append(posts, Post("abort", 0))
      BY <1>3 DEF LeavePage, ShowResult, Navigate
    <3> QED
      BY <1>1, <3>1, <3>2
  <2> QED
    BY <1>3, <2>1, <2>2 DEF TypeOK, LeavePage, ShowResult, podVars, safeVars, AnyPost
<1>4. ASSUME NEW r \in Run, ProcessActiveRecipe(r) PROVE TypeOK'
  <2>1. page' \in Pages /\ posts' \in Seq(AnyPost)
    BY <1>1, <1>4 DEF TypeOK, ProcessActiveRecipe, Pages, AnyPost
  <2> QED
    BY <1>4, <2>1 DEF TypeOK, ProcessActiveRecipe, podVars, safeVars, AnyPost
<1> QED
  BY <1>2, <1>3, <1>4 DEF Guest

LEMMA HandlersKeepType == ASSUME TypeOK, Handler PROVE TypeOK'
<1>1. posts # <<>> => Tail(posts) \in Seq(AnyPost)
  BY DEF TypeOK, AnyPost
<1>2. \A r \in Run : Post("begin", r) \in AnyPost
  BY RunsAreNumbers, PostsAreTyped DEF Handlers
<1>3. CASE AbortActiveRecipe
  <2>1. posts' \in Seq(AnyPost) /\ flag' \in [Run -> BOOLEAN]
    BY <1>1, <1>3, WakesIsTyped DEF AbortActiveRecipe, NextPost
  <2> QED
    BY <1>3, <2>1, RecipeAssumption DEF TypeOK, AbortActiveRecipe, uiVars, podVars, safeVars, AnyPost
<1>4. ASSUME NEW r \in Run, StartRecipe(r) PROVE TypeOK'
  <2>1. posts' \in Seq(AnyPost) /\ flag' \in [Run -> BOOLEAN]
    <3>1. <<Post("begin", r)>> \in Seq(AnyPost)
      BY <1>2
    <3> QED
      BY <1>1, <1>4, <3>1, WakesIsTyped DEF StartRecipe, NextPost
  <2> QED
    BY <1>4, <2>1, RunsAreNumbers DEF TypeOK, StartRecipe, uiVars, podVars, safeVars, AnyPost
<1>5. ASSUME NEW r \in Run, BeginRecipe(r) PROVE TypeOK'
  <2>1. run' \in [Run -> RunState] /\ step' \in [Run -> 0..Len(Program) \cup {1}]
    BY <1>5 DEF TypeOK, BeginRecipe, RunState, Processing
  <2> QED
    BY <1>1, <1>5, <2>1 DEF TypeOK, BeginRecipe, NextPost, uiVars, podVars, safeVars, AnyPost, RunState
<1>6. ASSUME NEW r \in Run, Wake(r) PROVE TypeOK'
  <2>1. run' \in [Run -> RunState]
    BY <1>6 DEF TypeOK, Wake, RunState, Processing
  <2> QED
    BY <1>1, <1>6, <2>1 DEF TypeOK, Wake, NextPost, uiVars, podVars, safeVars, AnyPost, RunState
<1>7. ASSUME NEW r \in Run, BeginSweep(r) PROVE TypeOK'
  <2>1. run' \in [Run -> RunState] /\ sweeping' \in [Run -> SUBSET Pod]
    BY <1>7 DEF TypeOK, BeginSweep, RunState
  <2> QED
    BY <1>1, <1>7, <2>1 DEF TypeOK, BeginSweep, NextPost, uiVars, podVars, AnyPost, RunState
<1> QED
  BY <1>3, <1>4, <1>5, <1>6, <1>7 DEF Handler

(* What a step of a command can do: move one command that was in progress, *)
(* or whose group has begun, and begin at most its own pour, on a Pod that *)
(* is registered.                                                          *)
Moves(r, c, s) ==
  /\ cmd[r][c] \in Active \/ (run[r] \in Processing /\ c \in Group(r))
  /\ cmd' = [cmd EXCEPT ![r][c] = s]
  /\ \/ pouring' \subseteq pouring
     \/ pouring' = pouring \cup {<<r, c>>} /\ c \in Dispense /\ PodOf[c] \in registered
  /\ UNCHANGED <<page, events, posts, active, flag, run, result, step, registered, sweeping, safe>>

LEMMA CommandMoves ==
  ASSUME NEW r \in Run, NEW c \in Command, Start(r, c) \/ Answer(r, c) \/ Confirm(r, c) \/ StopCommand(r, c)
  PROVE  \E s \in CmdState : Moves(r, c, s)
<1> USE DEF CmdState, Active, Ended, Failures
<1>1. ASSUME NEW state \in {"dispensing", "refilling"}, Pour(r, c, state), c \in Dispense
      PROVE  /\ \E s \in CmdState : cmd' = [cmd EXCEPT ![r][c] = s]
             /\ \/ pouring' \subseteq pouring
                \/ pouring' = pouring \cup {<<r, c>>} /\ PodOf[c] \in registered
  BY <1>1 DEF Pour, Set
<1>2. OpenPopup(r, c) => \E s \in CmdState : cmd' = [cmd EXCEPT ![r][c] = s]
  BY DEF OpenPopup, Set
<1>3. CASE Start(r, c)
  <2>1. /\ run[r] \in Processing /\ c \in Group(r)
        /\ UNCHANGED <<page, events, posts, active, flag, run, result, step, registered, sweeping, safe>>
    BY <1>3 DEF Start, uiVars, safeVars
  <2>2. CASE c \in Dispense
    BY <1>1, <1>3, <2>1, <2>2 DEF Start, Moves
  <2>3. CASE c \notin Dispense
    BY <1>2, <1>3, <2>1, <2>3 DEF Start, Moves
  <2> QED
    BY <2>2, <2>3
<1>4. ASSUME NEW short \in BOOLEAN, Poured(r, c, short) PROVE \E s \in CmdState : Moves(r, c, s)
  BY <1>2, <1>4 DEF Poured, Moves, Set, uiVars, safeVars
<1>5. ASSUME NEW empty \in BOOLEAN, Refused(r, c, empty) PROVE \E s \in CmdState : Moves(r, c, s)
  BY <1>2, <1>5 DEF Refused, Moves, Set, uiVars, safeVars
<1>6. CASE Unanswered(r, c) \/ StopCommand(r, c)
  BY <1>6 DEF Unanswered, StopCommand, Moves, Set, uiVars, podVars, safeVars
<1>7. CASE Confirm(r, c)
  <2>1. /\ cmd[r][c] \in Active
        /\ UNCHANGED <<page, events, posts, active, flag, run, result, step, registered, sweeping, safe>>
    BY <1>7 DEF Confirm, uiVars, safeVars
  <2>2. CASE c \in Dispense
    BY <1>1, <1>7, <2>1, <2>2 DEF Confirm, Moves
  <2>3. CASE c \notin Dispense
    BY <1>7, <2>1, <2>3 DEF Confirm, Moves, Set
  <2> QED
    BY <2>2, <2>3
<1> QED
  BY <1>3, <1>4, <1>5, <1>6, <1>7 DEF Answer

(* A recipe goes to its next group or ends; if it was stopped, its sweep   *)
(* is posted.                                                              *)
LEMMA RecipeAdvances ==
  ASSUME TypeOK, NEW r \in Run, EndGroup(r)
  PROVE  /\ run[r] \in Processing /\ Joined(r)
         /\ UNCHANGED <<page, active, flag, cmd, pouring, registered, sweeping, safe>>
         /\ \/ /\ UNCHANGED <<events, posts, run, result>>
               /\ step[r] < Len(Program) /\ step' = [step EXCEPT ![r] = @ + 1]
            \/ /\ UNCHANGED step
               /\ \E outcome \in {"success", "error", "stopped"} :
                    /\ result' = [result EXCEPT ![r] = outcome]
                    /\ events' = IF outcome = "stopped" THEN events ELSE Append(events, outcome)
               /\ \/ run[r] = "running" /\ run' = [run EXCEPT ![r] = "finished"] /\ posts' = posts
                  \/ run[r] = "stopping" /\ run' = [run EXCEPT ![r] = "stopped"] /\ posts' = Append(posts, Post("sweep", r))
<1>1. run[r] \in Processing /\ Joined(r) /\ run \in [Run -> RunState] /\ Len(Program) \in Nat
  BY RecipeAssumption DEF EndGroup, TypeOK, RunState
<1>2. ASSUME NEW outcome \in {"success", "error", "stopped"}, EndRecipe(r, outcome)
      PROVE  /\ UNCHANGED <<page, active, flag, step, cmd, pouring, registered, sweeping, safe>>
             /\ result' = [result EXCEPT ![r] = outcome]
             /\ events' = IF outcome = "stopped" THEN events ELSE Append(events, outcome)
             /\ \/ run[r] = "running" /\ run' = [run EXCEPT ![r] = "finished"] /\ posts' = posts
                \/ run[r] = "stopping" /\ run' = [run EXCEPT ![r] = "stopped"] /\ posts' = Append(posts, Post("sweep", r))
  BY <1>1, <1>2 DEF EndRecipe, Processing, RunState, podVars, safeVars
<1>3. CASE \E outcome \in {"success", "error", "stopped"} : EndRecipe(r, outcome)
  BY <1>1, <1>2, <1>3
<1>4. CASE /\ ~LastGroup(r) /\ step' = [step EXCEPT ![r] = @ + 1]
           /\ UNCHANGED <<uiVars, posts, active, flag, run, result, cmd, podVars, safeVars>>
  <2>1. step[r] < Len(Program)
    BY <1>1, <1>4 DEF TypeOK, LastGroup
  <2> QED
    BY <1>1, <1>4, <2>1 DEF uiVars, podVars, safeVars
<1> QED
  BY <1>3, <1>4 DEF EndGroup

LEMMA ProcessingKeepsType ==
  ASSUME TypeOK, NEW r \in Run, \/ EndGroup(r)
                                \/ \E c \in Command : CommandStep(r, c)
  PROVE  TypeOK'
<1>1. ASSUME NEW c \in Command, NEW s \in CmdState, Moves(r, c, s) PROVE TypeOK'
  <2>1. cmd' \in [Run -> [Command -> CmdState]]
    BY <1>1 DEF TypeOK, Moves, CmdState
  <2>2. pouring' \subseteq Run \X Dispense
    BY <1>1 DEF TypeOK, Moves
  <2> QED
    BY <1>1, <2>1, <2>2 DEF TypeOK, Moves, CmdState
<1>2. ASSUME NEW c \in Command, PourEnds(r, c) PROVE TypeOK'
  BY <1>2 DEF TypeOK, PourEnds, uiVars, safeVars
<1>3. CASE EndGroup(r)
  <2>1. events' \in Seq({"success", "error"}) /\ result' \in [Run -> {"none", "success", "error", "stopped"}]
    <3>1. /\ events \in Seq({"success", "error"})
          /\ result \in [Run -> {"none", "success", "error", "stopped"}]
      BY DEF TypeOK
    <3>2. CASE UNCHANGED <<events, result>>
      BY <3>1, <3>2
    <3>3. ASSUME NEW outcome \in {"success", "error", "stopped"},
                 result' = [result EXCEPT ![r] = outcome],
                 events' = IF outcome = "stopped" THEN events ELSE Append(events, outcome)
          PROVE  /\ events' \in Seq({"success", "error"})
                 /\ result' \in [Run -> {"none", "success", "error", "stopped"}]
      BY <3>1, <3>3
    <3> QED
      BY <1>3, <3>2, <3>3, RecipeAdvances
  <2>2. run' \in [Run -> RunState] /\ step' \in [Run -> 0..Len(Program) \cup {1}]
    <3>1. Len(Program) \in Nat /\ run \in [Run -> RunState] /\ step \in [Run -> 0..Len(Program) \cup {1}]
      BY RecipeAssumption DEF TypeOK, RunState
    <3>2. step' = step \/ (step[r] < Len(Program) /\ step' = [step EXCEPT ![r] = @ + 1])
      BY <1>3, RecipeAdvances
    <3>3. run' = run \/ run' = [run EXCEPT ![r] = "finished"] \/ run' = [run EXCEPT ![r] = "stopped"]
      BY <1>3, RecipeAdvances
    <3> QED
      BY <3>1, <3>2, <3>3 DEF RunState
  <2>3. posts' \in Seq(AnyPost)
    <3>1. Post("sweep", r) \in AnyPost /\ posts \in Seq(AnyPost)
      BY RunsAreNumbers, PostsAreTyped DEF TypeOK, AnyPost, Handlers
    <3> QED
      BY <1>3, <3>1, RecipeAdvances
  <2> QED
    BY <1>3, <2>1, <2>2, <2>3, RecipeAdvances DEF TypeOK, RunState, AnyPost
<1> QED
  BY <1>1, <1>2, <1>3, CommandMoves DEF CommandStep

LEMMA PodsKeepType ==
  ASSUME TypeOK, NEW p \in Pod, \/ UnregisterPod(p) \/ RegisterPod(p)
                                \/ \E r \in Run, lost \in BOOLEAN : ForceSafeState(r, p, lost)
  PROVE  TypeOK'
<1>1. CASE UnregisterPod(p)
  BY <1>1 DEF TypeOK, UnregisterPod, uiVars
<1>2. CASE RegisterPod(p)
  BY <1>2 DEF TypeOK, RegisterPod, uiVars, safeVars
<1>3. ASSUME NEW r \in Run, NEW lost \in BOOLEAN, ForceSafeState(r, p, lost) PROVE TypeOK'
  <2>1. sweeping' \in [Run -> SUBSET Pod] /\ safe' \in [Run -> SUBSET Pod]
    BY <1>3 DEF TypeOK, ForceSafeState
  <2>2. pouring' \subseteq Run \X Dispense
    BY <1>3 DEF TypeOK, ForceSafeState
  <2> QED
    BY <1>3, <2>1, <2>2 DEF TypeOK, ForceSafeState, uiVars
<1> QED
  BY <1>1, <1>2, <1>3

(* The variables hold what they are declared to hold, in every reachable   *)
(* state of every station.                                                 *)
THEOREM TypeCorrect == Spec => []TypeOK
<1>1. Init => TypeOK
  <2> SUFFICES ASSUME Init PROVE TypeOK
    OBVIOUS
  <2> QED
    BY RecipeAssumption DEF Init, TypeOK, Run, Pages
<1>2. TypeOK /\ [Next]_recipeVars => TypeOK'
  <2> SUFFICES ASSUME TypeOK, [Next]_recipeVars PROVE TypeOK'
    OBVIOUS
  <2>1. CASE UNCHANGED recipeVars
    BY <2>1 DEF TypeOK, recipeVars
  <2> QED
    BY <2>1, GuestKeepsType, HandlersKeepType, ProcessingKeepsType, PodsKeepType DEF Next
<1> QED
  BY <1>1, <1>2, PTL DEF Spec
-----------------------------------------------------------------------------
(* The queue.  What is handled leaves at its head and what is posted joins *)
(* at its end; k is 1 if something was handled.                            *)
Follows(k, new) ==
  \A i \in 1..Len(posts') :
    \/ i <= Len(posts) - k /\ posts'[i] = posts[i + k]
    \/ i > Len(posts) - k /\ posts'[i] \in new

LEMMA AppendFollows ==
  ASSUME TypeOK, NEW x, posts' = Append(posts, x)
  PROVE  Follows(0, {x})
BY DEF TypeOK, Follows

LEMMA TailFollows ==
  ASSUME TypeOK, posts # <<>>, posts' = Tail(posts)
  PROVE  Follows(1, {})
BY DEF TypeOK, Follows

LEMMA WakesFollow ==
  ASSUME TypeOK, posts # <<>>, posts' = Tail(posts) \o Wakes
  PROVE  Follows(1, {Post("wake", active)}) /\ (active = 0 => Follows(1, {}))
<1>1. Wakes = <<>> \/ (Wakes = <<Post("wake", active)>> /\ active # 0)
  BY DEF Wakes
<1>2. posts \in Seq(AnyPost) /\ Post("wake", active) \in AnyPost
  BY PostsAreTyped DEF TypeOK, AnyPost, Handlers
<1>3. CASE Wakes = <<>>
  <2>1. posts' = Tail(posts)
    BY <1>2, <1>3
  <2> QED
    BY <2>1, <1>2 DEF Follows
<1>4. CASE Wakes = <<Post("wake", active)>> /\ active # 0
  BY <1>2, <1>4 DEF Follows
<1> QED
  BY <1>1, <1>3, <1>4

LEMMA WakesAndBeginFollow ==
  ASSUME TypeOK, NEW r \in Run, posts # <<>>, posts' = Tail(posts) \o Wakes \o <<Post("begin", r)>>
  PROVE  /\ Follows(1, {Post("wake", active), Post("begin", r)})
         /\ active = 0 => Follows(1, {Post("begin", r)})
         /\ \A i \in 1..Len(posts') : posts'[i] = Post("begin", r) => i <= Len(posts) - 1 \/ i = Len(posts')
<1>1. Wakes = <<>> \/ (Wakes = <<Post("wake", active)>> /\ active # 0)
  BY DEF Wakes
<1>2. /\ posts \in Seq(AnyPost) /\ Post("wake", active) \in AnyPost /\ Post("begin", r) \in AnyPost
      /\ Post("wake", active) # Post("begin", r)
  BY RunsAreNumbers, PostsAreTyped DEF TypeOK, AnyPost, Handlers, Post
<1>3. CASE Wakes = <<>>
  <2>1. posts' = Append(Tail(posts), Post("begin", r))
    BY <1>2, <1>3
  <2> QED
    BY <2>1, <1>2 DEF Follows
<1>4. CASE Wakes = <<Post("wake", active)>> /\ active # 0
  <2>1. posts' = Append(Append(Tail(posts), Post("wake", active)), Post("begin", r))
    BY <1>2, <1>4
  <2>2. Len(posts') = Len(posts) + 1
    BY <2>1, <1>2
  <2>3. /\ \A i \in 1..Len(posts) - 1 : posts'[i] = posts[i + 1]
        /\ posts'[Len(posts)] = Post("wake", active)
        /\ posts'[Len(posts) + 1] = Post("begin", r)
    BY <2>1, <1>2
  <2> QED
    BY <2>2, <2>3, <1>2, <1>4 DEF Follows
<1> QED
  BY <1>1, <1>3, <1>4

(* A run that has begun stays so.                                          *)
RunsAdvance ==
  \A r \in Run : \/ run'[r] = run[r]
                 \/ /\ run[r] \notin {"idle", "started"} /\ run'[r] \notin {"idle", "started"}
                    /\ run[r] \in {"stopped", "swept"} => run'[r] \in {"stopped", "swept"}

(* Posts that neither start nor begin a run keep the order of the runs.    *)
LEMMA QueueIsKept ==
  ASSUME TypeOK, TypeOK', QueueInv, NEW k \in {0, 1}, NEW new, Follows(k, new), RunsAdvance,
         \A x \in new : x.do \in {"abort", "wake", "sweep"} /\ PostIsTimely(x)'
  PROVE  /\ PostsAreTimely' /\ PostsAreOrdered' /\ RunsAreOrdered'
         /\ \A r \in Run : Begun(r)' => Begun(r)
<1> USE DEF QueueInv
<1>1. Len(posts) \in Nat /\ Len(posts') \in Nat
  BY DEF TypeOK
<1>2. \A i \in 1..Len(posts') : i <= Len(posts) - k => i + k \in 1..Len(posts)
  BY <1>1
<1>3. \A i \in 1..Len(posts') : posts'[i].do \in {"start", "begin"} => i <= Len(posts) - k /\ posts'[i] = posts[i + k]
  BY DEF Follows
<1>4. \A r \in Run : Begun(r)' => Begun(r)
  <2> SUFFICES ASSUME NEW r \in Run, Begun(r)' PROVE Begun(r)
    OBVIOUS
  <2>1. CASE run'[r] \notin {"idle", "started"}
    BY <2>1 DEF RunsAdvance, Begun
  <2>2. ASSUME NEW i \in 1..Len(posts'), posts'[i] = Post("begin", r) PROVE Begun(r)
    <3>1. posts'[i].do = "begin"
      BY <2>2 DEF Post
    <3> QED
      BY <3>1, <2>2, <1>2, <1>3 DEF Begun
  <2> QED
    BY <2>1, <2>2 DEF Begun
<1>5. PostsAreTimely'
  <2> SUFFICES ASSUME NEW i \in 1..Len(posts') PROVE PostIsTimely(posts[i])'
    BY DEF PostsAreTimely
  <2>1. CASE i <= Len(posts) - k /\ posts'[i] = posts[i + k]
    <3>1. PostIsTimely(posts[i + k])
      BY <1>2, <2>1 DEF PostsAreTimely
    <3> QED
      BY <2>1, <3>1 DEF PostIsTimely, RunsAdvance
  <2>2. CASE posts'[i] \in new
    BY <2>2 DEF PostIsTimely
  <2> QED
    BY <2>1, <2>2 DEF Follows
<1>6. PostsAreOrdered'
  <2> SUFFICES ASSUME NEW i \in 1..Len(posts'), NEW j \in 1..Len(posts'), i < j,
                      posts'[i].do = posts'[j].do, posts'[i].do \in {"start", "begin"}
               PROVE  posts'[i].run < posts'[j].run
    BY DEF PostsAreOrdered
  <2>1. /\ posts'[i] = posts[i + k] /\ i + k \in 1..Len(posts)
        /\ posts'[j] = posts[j + k] /\ j + k \in 1..Len(posts)
    BY <1>2, <1>3
  <2>2. i + k < j + k
    BY <1>1
  <2> QED
    BY <2>1, <2>2 DEF PostsAreOrdered
<1>7. RunsAreOrdered'
  <2>1. \A q, r \in Run : r < q /\ run'[q] # "idle" => run'[r] # "idle"
    BY DEF RunsAreOrdered, RunsAdvance
  <2>2. \A i \in 1..Len(posts'), q \in Run : posts'[i].do = "start" /\ Begun(q)' => q < posts'[i].run
    BY <1>2, <1>3, <1>4 DEF RunsAreOrdered
  <2> QED
    BY <2>1, <2>2 DEF RunsAreOrdered
<1> QED
  BY <1>4, <1>5, <1>6, <1>7

(* Posts of guests and of ending recipes.                                  *)
LEMMA PostsKeepQueue ==
  ASSUME TypeOK, TypeOK', QueueInv, UNCHANGED <<flag, active>>, RunsAdvance,
         \/ UNCHANGED posts
         \/ posts' = Append(posts, Post("abort", 0))
         \/ \E r \in Run : posts' = Append(posts, Post("sweep", r)) /\ run'[r] = "stopped"
         \/ posts # <<>> /\ posts' = Tail(posts)
  PROVE  QueueInv'
<1>1. /\ PostsAreTimely' /\ PostsAreOrdered' /\ RunsAreOrdered'
      /\ \A r \in Run : Begun(r)' => Begun(r)
  <2>1. CASE UNCHANGED posts
    <3>1. Follows(0, {})
      BY <2>1 DEF Follows, TypeOK
    <3> QED
      BY <3>1, QueueIsKept
  <2>2. CASE posts' = Append(posts, Post("abort", 0))
    <3>1. Follows(0, {Post("abort", 0)})
      BY <2>2, AppendFollows
    <3>2. Post("abort", 0).do = "abort" /\ PostIsTimely(Post("abort", 0))'
      BY DEF Post, PostIsTimely
    <3> QED
      BY <3>1, <3>2, QueueIsKept
  <2>3. ASSUME NEW r \in Run, posts' = Append(posts, Post("sweep", r)), run'[r] = "stopped"
        PROVE  /\ PostsAreTimely' /\ PostsAreOrdered' /\ RunsAreOrdered'
               /\ \A q \in Run : Begun(q)' => Begun(q)
    <3>1. Follows(0, {Post("sweep", r)})
      BY <2>3, AppendFollows
    <3>2. Post("sweep", r).do = "sweep" /\ PostIsTimely(Post("sweep", r))'
      BY <2>3 DEF Post, PostIsTimely
    <3> QED
      BY <3>1, <3>2, QueueIsKept
  <2>4. CASE posts # <<>> /\ posts' = Tail(posts)
    BY <2>4, TailFollows, QueueIsKept
  <2> QED
    BY <2>1, <2>2, <2>3, <2>4
<1>2. OthersAreFlagged'
  BY <1>1 DEF QueueInv, OthersAreFlagged
<1> QED
  BY <1>1, <1>2 DEF QueueInv

(* The guest starts the next run, when all before it have been started.    *)
LEMMA ProcessKeepsQueue ==
  ASSUME TypeOK, TypeOK', QueueInv, NEW r \in Run, ProcessActiveRecipe(r)
  PROVE  QueueInv'
<1> DEFINE p == Post("start", r)
<1>1. /\ run[r] = "idle" /\ run' = [run EXCEPT ![r] = "started"]
      /\ posts' = Append(posts, p) /\ UNCHANGED <<flag, active>>
      /\ \A q \in Run : q < r => run[q] # "idle"
      /\ run \in [Run -> RunState] /\ Len(posts) \in Nat
      /\ Run \subseteq Nat
  BY RunsAreNumbers DEF ProcessActiveRecipe, TypeOK, RunState
<1>2. /\ Len(posts') = Len(posts) + 1 /\ posts'[Len(posts) + 1] = p
      /\ \A i \in 1..Len(posts) : posts'[i] = posts[i]
      /\ p.do = "start" /\ p.run = r
  BY <1>1 DEF TypeOK, Post
<1> HIDE DEF p
<1>3. \A q \in Run : run[q] # "idle" => q < r
  <2> SUFFICES ASSUME NEW q \in Run, run[q] # "idle", ~(q < r) PROVE FALSE
    OBVIOUS
  <2>1. r < q
    BY <1>1
  <2> QED
    BY <1>1, <2>1 DEF QueueInv, RunsAreOrdered
<1>4. \A q \in Run : Begun(q)' => Begun(q) /\ q < r
  <2> SUFFICES ASSUME NEW q \in Run, Begun(q)' PROVE Begun(q) /\ q < r
    OBVIOUS
  <2>1. CASE run'[q] \notin {"idle", "started"}
    BY <1>1, <1>3, <2>1 DEF Begun
  <2>2. ASSUME NEW i \in 1..Len(posts'), posts'[i] = Post("begin", q) PROVE Begun(q) /\ q < r
    <3>1. Post("begin", q).do = "begin" /\ Post("begin", q).run = q
      BY DEF Post
    <3>2. i \in 1..Len(posts) /\ posts[i] = Post("begin", q)
      BY <1>1, <1>2, <2>2, <3>1
    <3>3. run[q] = "started"
      BY <3>1, <3>2 DEF QueueInv, PostsAreTimely, PostIsTimely
    <3> QED
      BY <1>3, <3>2, <3>3 DEF Begun
  <2> QED
    BY <2>1, <2>2 DEF Begun
<1>5. PostsAreTimely'
  <2> SUFFICES ASSUME NEW i \in 1..Len(posts') PROVE PostIsTimely(posts[i])'
    BY DEF PostsAreTimely
  <2>1. CASE i = Len(posts) + 1
    BY <1>1, <1>2, <2>1 DEF PostIsTimely
  <2>2. CASE i \in 1..Len(posts)
    <3>1. PostIsTimely(posts[i]) /\ posts'[i] = posts[i]
      BY <1>2, <2>2 DEF QueueInv, PostsAreTimely
    <3> QED
      BY <1>1, <3>1 DEF PostIsTimely
  <2> QED
    BY <1>1, <1>2, <2>1, <2>2
<1>6. PostsAreOrdered'
  <2> SUFFICES ASSUME NEW i \in 1..Len(posts'), NEW j \in 1..Len(posts'), i < j,
                      posts'[i].do = posts'[j].do, posts'[i].do \in {"start", "begin"}
               PROVE  posts'[i].run < posts'[j].run
    BY DEF PostsAreOrdered
  <2>1. i \in 1..Len(posts) /\ posts'[i] = posts[i]
    BY <1>1, <1>2
  <2>2. CASE j \in 1..Len(posts)
    BY <1>2, <2>1, <2>2 DEF QueueInv, PostsAreOrdered
  <2>3. CASE j = Len(posts) + 1
    <3>1. posts[i].run \in Run /\ run[posts[i].run] = "started"
      BY <2>1 DEF QueueInv, PostsAreTimely, PostIsTimely
    <3> QED
      BY <1>2, <1>3, <2>1, <2>3, <3>1
  <2> QED
    BY <1>1, <1>2, <2>2, <2>3
<1>7. RunsAreOrdered'
  <2>1. \A q, s \in Run : s < q /\ run'[q] # "idle" => run'[s] # "idle"
    BY <1>1, <1>3 DEF QueueInv, RunsAreOrdered
  <2>2. \A i \in 1..Len(posts'), q \in Run : posts'[i].do = "start" /\ Begun(q)' => q < posts'[i].run
    BY <1>1, <1>2, <1>4 DEF QueueInv, RunsAreOrdered
  <2> QED
    BY <2>1, <2>2 DEF RunsAreOrdered
<1>8. OthersAreFlagged'
  BY <1>1, <1>4 DEF QueueInv, OthersAreFlagged
<1> QED
  BY <1>5, <1>6, <1>7, <1>8 DEF QueueInv

(* An abort raises the flag of the one run that has begun and is not       *)
(* flagged yet.                                                            *)
LEMMA AbortKeepsQueue == ASSUME TypeOK, TypeOK', QueueInv, AbortActiveRecipe PROVE QueueInv'
<1>1. /\ posts # <<>> /\ posts' = Tail(posts) \o Wakes
      /\ flag' = Raised /\ active' = 0 /\ UNCHANGED run
  BY DEF AbortActiveRecipe, NextPost
<1>2. /\ PostsAreTimely' /\ PostsAreOrdered' /\ RunsAreOrdered'
      /\ \A r \in Run : Begun(r)' => Begun(r)
  <2>1. RunsAdvance
    BY <1>1 DEF RunsAdvance
  <2>2. CASE active = 0
    BY <1>1, <2>1, <2>2, WakesFollow, QueueIsKept
  <2>3. CASE active # 0
    <3>1. active \in Run
      BY <2>3, RecipeAssumption DEF TypeOK, Run
    <3>2. \A x \in {Post("wake", active)} : x.do = "wake" /\ PostIsTimely(x)'
      BY <3>1 DEF Post, PostIsTimely
    <3> QED
      BY <1>1, <2>1, <3>2, WakesFollow, QueueIsKept
  <2> QED
    BY <2>2, <2>3
<1>3. \A r \in Run : Begun(r)' => flag'[r]
  <2> SUFFICES ASSUME NEW r \in Run, Begun(r) PROVE flag'[r]
    BY <1>2
  <2>1. flag[r] \/ active = r
    BY DEF QueueInv, OthersAreFlagged
  <2>2. r # 0
    BY RunsAreNumbers
  <2> QED
    BY <1>1, <2>1, <2>2 DEF Raised, TypeOK
<1>4. OthersAreFlagged'
  BY <1>1, <1>3 DEF OthersAreFlagged
<1> QED
  BY <1>2, <1>4 DEF QueueInv

(* A start posts the begin of its run, behind which no earlier run starts, *)
(* and aborts the run before.                                              *)
LEMMA StartKeepsQueue ==
  ASSUME TypeOK, TypeOK', QueueInv, NEW r \in Run, StartRecipe(r)
  PROVE  QueueInv'
<1> DEFINE b == Post("begin", r)
           w == Post("wake", active)
<1>1. /\ posts # <<>> /\ Head(posts) = Post("start", r)
      /\ posts' = Tail(posts) \o Wakes \o <<b>>
      /\ flag' = Raised /\ active' = r /\ UNCHANGED run
      /\ Len(posts) \in Nat \ {0} /\ Len(posts') \in Nat
      /\ posts[1] = Post("start", r)
  BY DEF StartRecipe, NextPost, TypeOK
<1>2. /\ b.do = "begin" /\ b.run = r /\ w.do = "wake" /\ w.run = active
      /\ posts[1].do = "start" /\ posts[1].run = r
      /\ active # 0 => active \in Run
  BY <1>1, RecipeAssumption DEF Post, TypeOK, Run
<1>3. /\ Follows(1, {w, b}) /\ (active = 0 => Follows(1, {b}))
      /\ \A i \in 1..Len(posts') : posts'[i] = b => i <= Len(posts) - 1 \/ i = Len(posts')
  BY <1>1, WakesAndBeginFollow
<1> HIDE DEF b, w
<1>4. run[r] = "started" /\ \A q \in Run : Begun(q) => q < r
  BY <1>1, <1>2 DEF QueueInv, PostsAreTimely, PostIsTimely, RunsAreOrdered
<1>5. \A i \in 1..Len(posts') :
        \/ i <= Len(posts) - 1 /\ i + 1 \in 1..Len(posts) /\ posts'[i] = posts[i + 1] /\ posts'[i] # b
        \/ i > Len(posts) - 1 /\ active # 0 /\ posts'[i] = w
        \/ i = Len(posts') /\ i > Len(posts) - 1 /\ posts'[i] = b
  <2> SUFFICES ASSUME NEW i \in 1..Len(posts')
               PROVE  \/ i <= Len(posts) - 1 /\ i + 1 \in 1..Len(posts) /\ posts'[i] = posts[i + 1] /\ posts'[i] # b
                      \/ i > Len(posts) - 1 /\ active # 0 /\ posts'[i] = w
                      \/ i = Len(posts') /\ i > Len(posts) - 1 /\ posts'[i] = b
    OBVIOUS
  <2>1. CASE i <= Len(posts) - 1
    <3>1. i + 1 \in 1..Len(posts) /\ posts'[i] = posts[i + 1]
      BY <1>1, <1>3, <2>1 DEF Follows
    <3>2. posts[i + 1] # b
      <4>1. ~Begun(r)
        BY <1>4, RunsAreNumbers
      <4> QED
        BY <3>1, <4>1 DEF Begun, b
    <3> QED
      BY <2>1, <3>1, <3>2
  <2>2. CASE i > Len(posts) - 1
    BY <1>1, <1>3, <2>2 DEF Follows
  <2> QED
    BY <1>1, <2>1, <2>2
<1>6. \A q \in Run : Begun(q)' => Begun(q) \/ q = r
  <2> SUFFICES ASSUME NEW q \in Run, Begun(q)' PROVE Begun(q) \/ q = r
    OBVIOUS
  <2>1. CASE run[q] \notin {"idle", "started"}
    BY <2>1 DEF Begun
  <2>2. ASSUME NEW i \in 1..Len(posts'), posts'[i] = Post("begin", q) PROVE Begun(q) \/ q = r
    <3>1. posts'[i].do = "begin" /\ posts'[i].run = q
      BY <2>2 DEF Post
    <3> QED
      BY <1>2, <1>5, <2>2, <3>1 DEF Begun
  <2> QED
    BY <1>1, <2>1, <2>2 DEF Begun
<1>7. PostsAreTimely'
  <2> SUFFICES ASSUME NEW i \in 1..Len(posts') PROVE PostIsTimely(posts[i])'
    BY DEF PostsAreTimely
  <2>1. CASE i + 1 \in 1..Len(posts) /\ posts'[i] = posts[i + 1]
    <3>1. PostIsTimely(posts[i + 1])
      BY <2>1 DEF QueueInv, PostsAreTimely
    <3> QED
      BY <1>1, <2>1, <3>1 DEF PostIsTimely
  <2>2. CASE (active # 0 /\ posts'[i] = w) \/ posts'[i] = b
    BY <1>1, <1>2, <1>4, <2>2 DEF PostIsTimely
  <2> QED
    BY <1>5, <2>1, <2>2
<1>8. PostsAreOrdered'
  <2> SUFFICES ASSUME NEW i \in 1..Len(posts'), NEW j \in 1..Len(posts'), i < j,
                      posts'[i].do = posts'[j].do, posts'[i].do \in {"start", "begin"}
               PROVE  posts'[i].run < posts'[j].run
    BY DEF PostsAreOrdered
  <2>1. i <= Len(posts) - 1 /\ i + 1 \in 1..Len(posts) /\ posts'[i] = posts[i + 1]
    BY <1>1, <1>2, <1>5
  <2>2. CASE j <= Len(posts) - 1 /\ j + 1 \in 1..Len(posts) /\ posts'[j] = posts[j + 1]
    <3>1. i + 1 < j + 1
      OBVIOUS
    <3> QED
      BY <2>1, <2>2, <3>1 DEF QueueInv, PostsAreOrdered
  <2>3. CASE posts'[j] = b
    <3>1. posts[i + 1].do = "begin" /\ posts[i + 1].run \in Run
      BY <1>2, <2>1, <2>3 DEF QueueInv, PostsAreTimely, PostIsTimely
    <3>2. posts[i + 1] = Post("begin", posts[i + 1].run)
      <4>0. posts \in Seq(AnyPost)
        BY DEF TypeOK, AnyPost
      <4>1. posts[i + 1] \in AnyPost
        BY <2>1, <4>0
      <4> QED
        BY <3>1, <4>1 DEF AnyPost, Post
    <3>3. Begun(posts[i + 1].run)
      BY <2>1, <3>2 DEF Begun
    <3> QED
      BY <1>2, <1>4, <2>1, <2>3, <3>1, <3>3
  <2> QED
    BY <1>2, <1>5, <2>2, <2>3
<1>9. RunsAreOrdered'
  <2>1. \A q, s \in Run : s < q /\ run'[q] # "idle" => run'[s] # "idle"
    BY <1>1 DEF QueueInv, RunsAreOrdered
  <2>2. ASSUME NEW i \in 1..Len(posts'), NEW q \in Run, posts'[i].do = "start", Begun(q)'
        PROVE  q < posts'[i].run
    <3>1. i + 1 \in 1..Len(posts) /\ posts'[i] = posts[i + 1]
      BY <1>2, <1>5, <2>2
    <3>2. CASE Begun(q)
      BY <2>2, <3>1, <3>2 DEF QueueInv, RunsAreOrdered
    <3>3. CASE q = r
      <4>1. 1 < i + 1 /\ 1 \in 1..Len(posts)
        BY <1>1
      <4> QED
        BY <1>2, <2>2, <3>1, <3>3, <4>1 DEF QueueInv, PostsAreOrdered
    <3> QED
      BY <1>6, <2>2, <3>2, <3>3
  <2> QED
    BY <2>1, <2>2 DEF RunsAreOrdered
<1>10. OthersAreFlagged'
  <2>1. ASSUME NEW q \in Run, Begun(q)', q # r PROVE flag'[q]
    <3>1. flag[q] \/ active = q
      BY <1>6, <2>1 DEF QueueInv, OthersAreFlagged
    <3>2. q # 0
      BY RunsAreNumbers
    <3> QED
      BY <1>1, <3>1, <3>2 DEF Raised, TypeOK
  <2>2. \A q \in Run : Begun(q)' => q <= r
    BY <1>4, <1>6, RunsAreNumbers
  <2> QED
    BY <1>1, <2>1, <2>2 DEF OthersAreFlagged
<1> QED
  BY <1>7, <1>8, <1>9, <1>10 DEF QueueInv

(* A run begins, and no further post starts or begins it.                  *)
LEMMA BeginKeepsQueue ==
  ASSUME TypeOK, TypeOK', QueueInv, NEW r \in Run, BeginRecipe(r)
  PROVE  QueueInv'
<1>1. /\ posts # <<>> /\ posts' = Tail(posts) /\ UNCHANGED <<flag, active>>
      /\ posts[1] = Post("begin", r) /\ posts \in Seq(AnyPost)
      /\ run \in [Run -> RunState]
      /\ run' \in [Run -> RunState] /\ run'[r] \in Processing
      /\ \A q \in Run : q # r => run'[q] = run[q]
  BY DEF BeginRecipe, NextPost, TypeOK, RunState, AnyPost, Processing
<1>2. /\ Len(posts) \in Nat \ {0} /\ Len(posts') = Len(posts) - 1
      /\ \A i \in 1..Len(posts') : i + 1 \in 1..Len(posts) /\ posts'[i] = posts[i + 1]
  BY <1>1
<1>3. run[r] = "started" /\ Begun(r) /\ posts[1].do = "begin" /\ posts[1].run = r /\ 1 \in 1..Len(posts)
  BY <1>1, <1>2 DEF QueueInv, PostsAreTimely, PostIsTimely, Begun, Post
<1>4. \A i \in 2..Len(posts) : posts[i].do \in {"start", "begin"} => posts[i].run # r
  BY <1>2, <1>3, RunsAreNumbers DEF QueueInv, PostsAreOrdered, RunsAreOrdered
<1>5. \A q \in Run : Begun(q)' => Begun(q)
  <2> SUFFICES ASSUME NEW q \in Run, Begun(q)' PROVE Begun(q)
    OBVIOUS
  <2>1. CASE q # r /\ run'[q] \notin {"idle", "started"}
    BY <1>1, <2>1 DEF Begun
  <2>2. ASSUME NEW i \in 1..Len(posts'), posts'[i] = Post("begin", q) PROVE Begun(q)
    BY <1>2, <2>2 DEF Begun
  <2> QED
    BY <1>3, <2>1, <2>2 DEF Begun
<1>6. PostsAreTimely'
  <2> SUFFICES ASSUME NEW i \in 1..Len(posts') PROVE PostIsTimely(posts[i])'
    BY DEF PostsAreTimely
  <2>1. PostIsTimely(posts[i + 1]) /\ posts'[i] = posts[i + 1]
    BY <1>2 DEF QueueInv, PostsAreTimely
  <2>2. posts[i + 1].do \in {"start", "begin", "sweep"} => posts[i + 1].run # r
    <3>1. i + 1 \in 2..Len(posts)
      BY <1>2
    <3> QED
      BY <1>3, <1>4, <2>1, <3>1 DEF PostIsTimely
  <2> QED
    BY <1>1, <2>1, <2>2 DEF PostIsTimely
<1>7. PostsAreOrdered'
  <2> SUFFICES ASSUME NEW i \in 1..Len(posts'), NEW j \in 1..Len(posts'), i < j,
                      posts'[i].do = posts'[j].do, posts'[i].do \in {"start", "begin"}
               PROVE  posts'[i].run < posts'[j].run
    BY DEF PostsAreOrdered
  <2>1. i + 1 < j + 1
    OBVIOUS
  <2> QED
    BY <1>2, <2>1 DEF QueueInv, PostsAreOrdered
<1>8. RunsAreOrdered'
  <2>1. \A q, s \in Run : s < q /\ run'[q] # "idle" => run'[s] # "idle"
    <3>1. \A q \in Run : run'[q] # "idle" <=> run[q] # "idle"
      BY <1>1, <1>3 DEF Processing
    <3> QED
      BY <3>1 DEF QueueInv, RunsAreOrdered
  <2>2. \A i \in 1..Len(posts'), q \in Run : posts'[i].do = "start" /\ Begun(q)' => q < posts'[i].run
    BY <1>2, <1>5 DEF QueueInv, RunsAreOrdered
  <2> QED
    BY <2>1, <2>2 DEF RunsAreOrdered
<1>9. OthersAreFlagged'
  BY <1>1, <1>5 DEF QueueInv, OthersAreFlagged
<1> QED
  BY <1>6, <1>7, <1>8, <1>9 DEF QueueInv

LEMMA QueueStep == ASSUME TypeOK, TypeOK', QueueInv, [Next]_recipeVars PROVE QueueInv'
<1>1. CASE UNCHANGED <<posts, run, flag, active>>
  <2>1. RunsAdvance
    BY <1>1 DEF RunsAdvance
  <2> QED
    BY <1>1, <2>1, PostsKeepQueue
<1>2. CASE LeavePage \/ ShowResult
  <2>1. RunsAdvance
    BY <1>2 DEF RunsAdvance, LeavePage, ShowResult
  <2>2. UNCHANGED posts \/ posts' = Append(posts, Post("abort", 0))
    BY <1>2 DEF LeavePage, ShowResult, Navigate
  <2> QED
    BY <1>2, <2>1, <2>2, PostsKeepQueue DEF LeavePage, ShowResult
<1>3. ASSUME NEW r \in Run, Wake(r) \/ BeginSweep(r) PROVE QueueInv'
  <2>1. posts # <<>> /\ posts' = Tail(posts) /\ UNCHANGED <<flag, active>>
    BY <1>3 DEF Wake, BeginSweep, NextPost
  <2>2. RunsAdvance
    <3>1. run \in [Run -> RunState]
      BY DEF TypeOK, RunState
    <3>2. CASE Wake(r)
      BY <3>1, <3>2 DEF Wake, RunsAdvance
    <3>3. CASE BeginSweep(r)
      <4>1. PostIsTimely(posts[1]) /\ posts[1] = Post("sweep", r)
        <5>1. posts \in Seq(AnyPost)
          BY DEF TypeOK, AnyPost
        <5>2. 1 \in 1..Len(posts) /\ posts[1] = Head(posts)
          BY <2>1, <5>1
        <5> QED
          BY <3>3, <5>2 DEF BeginSweep, NextPost, QueueInv, PostsAreTimely
      <4>2. run[r] \in {"stopped", "swept"}
        BY <4>1 DEF PostIsTimely, Post
      <4> QED
        BY <3>1, <3>3, <4>2 DEF BeginSweep, RunsAdvance
    <3> QED
      BY <1>3, <3>2, <3>3
  <2> QED
    BY <2>1, <2>2, PostsKeepQueue
<1>4. ASSUME NEW r \in Run, EndGroup(r) PROVE QueueInv'
  <2>1. run \in [Run -> RunState]
    BY DEF TypeOK, RunState
  <2>2. run[r] \in Processing /\ UNCHANGED <<flag, active>>
    BY <1>4, RecipeAdvances
  <2>3. \/ UNCHANGED <<posts, run>>
        \/ run' = [run EXCEPT ![r] = "finished"] /\ posts' = posts
        \/ run' = [run EXCEPT ![r] = "stopped"] /\ posts' = Append(posts, Post("sweep", r))
    BY <1>4, RecipeAdvances
  <2>4. RunsAdvance
    BY <2>1, <2>2, <2>3 DEF RunsAdvance, Processing
  <2>5. UNCHANGED posts \/ (posts' = Append(posts, Post("sweep", r)) /\ run'[r] = "stopped")
    BY <2>1, <2>3
  <2> QED
    BY <2>2, <2>4, <2>5, PostsKeepQueue
<1>5. ASSUME NEW r \in Run, NEW c \in Command, CommandStep(r, c) PROVE UNCHANGED <<posts, run, flag, active>>
  BY <1>5, CommandMoves DEF CommandStep, Moves, PourEnds
<1>6. ASSUME NEW p \in Pod, \/ UnregisterPod(p) \/ RegisterPod(p)
                            \/ \E r \in Run, lost \in BOOLEAN : ForceSafeState(r, p, lost)
      PROVE  UNCHANGED <<posts, run, flag, active>>
  BY <1>6 DEF UnregisterPod, RegisterPod, ForceSafeState
<1>7. AbortButton \/ UNCHANGED recipeVars => UNCHANGED <<posts, run, flag, active>>
  BY DEF AbortButton, recipeVars
<1> QED
  BY <1>1, <1>2, <1>3, <1>4, <1>5, <1>6, <1>7, ProcessKeepsQueue, AbortKeepsQueue, StartKeepsQueue,
     BeginKeepsQueue DEF Next, Guest, Handler

(* What is posted fits the runs, in every reachable state.                 *)
THEOREM QueueCorrect == Spec => []QueueInv
<1>1. Init => QueueInv
  <2> SUFFICES ASSUME Init PROVE QueueInv
    OBVIOUS
  <2>1. Len(posts) = 0 /\ \A r \in Run : run[r] = "idle"
    BY DEF Init
  <2>2. \A r \in Run : ~Begun(r)
    BY <2>1 DEF Begun
  <2> QED
    BY <2>1, <2>2 DEF QueueInv, PostsAreTimely, PostsAreOrdered, RunsAreOrdered, OthersAreFlagged
<1>2. TypeOK /\ TypeOK' /\ QueueInv /\ [Next]_recipeVars => QueueInv'
  BY QueueStep
<1> QED
  BY <1>1, <1>2, TypeCorrect, PTL DEF Spec

(* A second start aborts the recipe before, however the two event loops    *)
(* interleave starts, aborts and the recipes themselves.                   *)
THEOREM OneRecipe == Spec => []OneRecipeAtATime
<1>1. TypeOK /\ QueueInv => OneRecipeAtATime
  <2> SUFFICES ASSUME TypeOK, QueueInv, NEW r \in Run, NEW q \in Run, r < q,
                      run[q] \in Processing, run[r] = "running", ~flag[r]
               PROVE  FALSE
    BY DEF OneRecipeAtATime
  <2>1. Begun(r) /\ Begun(q)
    BY DEF Begun, Processing
  <2>2. active = r /\ r # 0
    BY <2>1, RunsAreNumbers DEF QueueInv, OthersAreFlagged
  <2>3. q <= r
    BY <2>1, <2>2 DEF QueueInv, OthersAreFlagged
  <2> QED
    BY <2>3, RunsAreNumbers
<1> QED
  BY <1>1, TypeCorrect, QueueCorrect, PTL
-----------------------------------------------------------------------------
(* Commands and pours.                                                     *)
LEMMA MovesKeepCommands ==
  ASSUME TypeOK, CommandInv, NEW r \in Run, NEW c \in Command, NEW s \in CmdState, Moves(r, c, s)
  PROVE  CommandInv'
<1>1. run[r] \in Processing /\ c \in Group(r)
  BY DEF Moves, CommandInv, ActiveInGroup
<1>2. /\ cmd' = [cmd EXCEPT ![r][c] = s] /\ cmd \in [Run -> [Command -> CmdState]]
      /\ UNCHANGED <<run, step, registered, sweeping, safe>>
      /\ \/ pouring' \subseteq pouring
         \/ pouring' = pouring \cup {<<r, c>>} /\ PodOf[c] \in registered
  BY DEF Moves, TypeOK, CmdState
<1>3. ActiveInGroup'
  <2>1. \A q \in Run, d \in Command : cmd'[q][d] = cmd[q][d] \/ (q = r /\ d = c)
    BY <1>2
  <2> QED
    BY <1>1, <1>2, <2>1 DEF CommandInv, ActiveInGroup, Group
<1>4. PoursAreReachable'
  BY <1>2 DEF CommandInv, PoursAreReachable
<1>5. PoursAreSwept'
  BY <1>1, <1>2 DEF CommandInv, PoursAreSwept, Processing
<1> QED
  BY <1>3, <1>4, <1>5 DEF CommandInv

(* A run whose commands are all at rest may end, begin or go on.           *)
LEMMA RestKeepsCommands ==
  ASSUME TypeOK, CommandInv, NEW r \in Run,
         \A c \in Command : cmd[r][c] \notin Active,
         \A q \in Run : q # r => run'[q] = run[q] /\ step'[q] = step[q],
         run'[r] # "swept",
         UNCHANGED <<cmd, pouring, registered, sweeping, safe>>
  PROVE  CommandInv'
<1>1. ActiveInGroup'
  BY DEF CommandInv, ActiveInGroup, Group
<1>2. PoursAreReachable'
  BY DEF CommandInv, PoursAreReachable
<1>3. PoursAreSwept'
  BY DEF CommandInv, PoursAreSwept
<1> QED
  BY <1>1, <1>2, <1>3 DEF CommandInv

LEMMA HandlersKeepCommands ==
  ASSUME TypeOK, QueueInv, CommandInv, NEW r \in Run, BeginRecipe(r) \/ Wake(r) \/ BeginSweep(r)
  PROVE  CommandInv'
<1>1. /\ PostIsTimely(posts[1]) /\ posts[1] = Head(posts)
      /\ run \in [Run -> RunState] /\ step \in [Run -> 0..Len(Program) \cup {1}]
  <2>1. posts \in Seq(AnyPost) /\ posts # <<>>
    BY DEF TypeOK, AnyPost, BeginRecipe, Wake, BeginSweep, NextPost
  <2>2. 1 \in 1..Len(posts) /\ posts[1] = Head(posts)
    BY <2>1
  <2> QED
    BY <2>2 DEF TypeOK, RunState, QueueInv, PostsAreTimely
<1>2. CASE BeginRecipe(r)
  <2>1. run[r] = "started"
    BY <1>1, <1>2 DEF BeginRecipe, NextPost, PostIsTimely, Post
  <2>2. \A c \in Command : cmd[r][c] \notin Active
    BY <2>1 DEF CommandInv, ActiveInGroup, Processing
  <2>3. /\ \A q \in Run : q # r => run'[q] = run[q] /\ step'[q] = step[q]
        /\ run'[r] # "swept" /\ UNCHANGED <<cmd, pouring, registered, sweeping, safe>>
    BY <1>1, <1>2 DEF BeginRecipe, podVars, safeVars
  <2> QED
    BY <2>2, <2>3, RestKeepsCommands
<1>3. CASE Wake(r)
  <2>1. /\ UNCHANGED <<step, cmd, pouring, registered, sweeping, safe>>
        /\ \A q \in Run : run'[q] = run[q] \/ (run[q] \in Processing /\ run'[q] = "stopping")
    BY <1>1, <1>3 DEF Wake, podVars, safeVars, Processing
  <2>2. ActiveInGroup'
    BY <2>1 DEF CommandInv, ActiveInGroup, Group, Processing
  <2>3. PoursAreReachable'
    BY <2>1 DEF CommandInv, PoursAreReachable
  <2>4. PoursAreSwept'
    BY <2>1 DEF CommandInv, PoursAreSwept
  <2> QED
    BY <2>2, <2>3, <2>4 DEF CommandInv
<1>4. CASE BeginSweep(r)
  <2>1. run[r] \in {"stopped", "swept"}
    BY <1>1, <1>4 DEF BeginSweep, NextPost, PostIsTimely, Post
  <2>2. /\ UNCHANGED <<step, cmd, pouring, registered, safe>>
        /\ run' = [run EXCEPT ![r] = "swept"] /\ sweeping' = [sweeping EXCEPT ![r] = registered]
        /\ sweeping \in [Run -> SUBSET Pod]
    BY <1>4 DEF BeginSweep, podVars, TypeOK
  <2>3. ActiveInGroup'
    BY <1>1, <2>1, <2>2 DEF CommandInv, ActiveInGroup, Group, Processing
  <2>4. PoursAreReachable'
    BY <2>2 DEF CommandInv, PoursAreReachable
  <2>5. PoursAreSwept'
    <3> SUFFICES ASSUME NEW q \in Run, NEW c \in Dispense, run'[q] = "swept", <<q, c>> \in pouring
                 PROVE  PodOf[c] \in sweeping'[q] \cup safe'[q]
      BY <2>2 DEF PoursAreSwept
    <3>1. CASE q = r
      BY <2>2, <3>1 DEF CommandInv, PoursAreReachable
    <3>2. CASE q # r
      BY <1>1, <2>2, <3>2 DEF CommandInv, PoursAreSwept
    <3> QED
      BY <3>1, <3>2
  <2> QED
    BY <2>3, <2>4, <2>5 DEF CommandInv
<1> QED
  BY <1>2, <1>3, <1>4

LEMMA PodsKeepCommands ==
  ASSUME TypeOK, CommandInv, NEW p \in Pod, \/ UnregisterPod(p) \/ RegisterPod(p)
                                            \/ \E r \in Run, lost \in BOOLEAN : ForceSafeState(r, p, lost)
  PROVE  CommandInv'
<1>1. UNCHANGED <<run, step, cmd>> /\ pouring' \subseteq pouring
  BY DEF UnregisterPod, RegisterPod, ForceSafeState
<1>2. ActiveInGroup'
  BY <1>1 DEF CommandInv, ActiveInGroup, Group
<1>3. PoursAreReachable'
  BY DEF CommandInv, PoursAreReachable, UnregisterPod, RegisterPod, ForceSafeState
<1>4. PoursAreSwept'
  <2> SUFFICES ASSUME NEW q \in Run, NEW c \in Dispense, run[q] = "swept", <<q, c>> \in pouring'
               PROVE  PodOf[c] \in sweeping'[q] \cup safe'[q]
    BY <1>1 DEF PoursAreSwept
  <2>1. PodOf[c] \in sweeping[q] \cup safe[q] /\ sweeping \in [Run -> SUBSET Pod] /\ safe \in [Run -> SUBSET Pod]
    BY <1>1 DEF CommandInv, PoursAreSwept, TypeOK
  <2>2. CASE UnregisterPod(p)
    BY <2>1, <2>2 DEF UnregisterPod
  <2>3. CASE RegisterPod(p)
    BY <2>1, <2>3 DEF RegisterPod, safeVars
  <2>4. ASSUME NEW r \in Run, NEW lost \in BOOLEAN, ForceSafeState(r, p, lost)
        PROVE  PodOf[c] \in sweeping'[q] \cup safe'[q]
    BY <2>1, <2>4 DEF ForceSafeState
  <2> QED
    BY <2>2, <2>3, <2>4
<1> QED
  BY <1>2, <1>3, <1>4 DEF CommandInv

LEMMA CommandStepKeeps == ASSUME TypeOK, QueueInv, CommandInv, [Next]_recipeVars PROVE CommandInv'
<1>1. ASSUME UNCHANGED <<run, step, cmd, registered, sweeping, safe>>, pouring' \subseteq pouring PROVE CommandInv'
  <2>1. ActiveInGroup'
    BY <1>1 DEF CommandInv, ActiveInGroup, Group
  <2> QED
    BY <1>1, <2>1 DEF CommandInv, PoursAreReachable, PoursAreSwept
<1>2. AbortButton \/ LeavePage \/ ShowResult \/ AbortActiveRecipe \/ (\E r \in Run : StartRecipe(r)) \/ UNCHANGED recipeVars
        => UNCHANGED <<run, step, cmd, registered, sweeping, safe>> /\ pouring' \subseteq pouring
  BY DEF AbortButton, LeavePage, ShowResult, AbortActiveRecipe, StartRecipe, recipeVars, podVars, safeVars
<1>3. ASSUME NEW r \in Run, ProcessActiveRecipe(r) PROVE CommandInv'
  <2>1. /\ run[r] = "idle" /\ run' = [run EXCEPT ![r] = "started"] /\ run \in [Run -> RunState]
        /\ UNCHANGED <<step, cmd, pouring, registered, sweeping, safe>>
    BY <1>3 DEF ProcessActiveRecipe, TypeOK, RunState, podVars, safeVars
  <2>2. \A c \in Command : cmd[r][c] \notin Active
    BY <2>1 DEF CommandInv, ActiveInGroup, Processing
  <2>3. /\ \A q \in Run : q # r => run'[q] = run[q] /\ step'[q] = step[q]
        /\ run'[r] # "swept"
    BY <2>1
  <2> QED
    BY <2>1, <2>2, <2>3, RestKeepsCommands
<1>4. ASSUME NEW r \in Run, EndGroup(r) PROVE CommandInv'
  <2>1. \A c \in Command : cmd[r][c] \notin Active
    BY <1>4, RecipeAdvances DEF Joined, CommandInv, ActiveInGroup, Active, Ended, Failures
  <2>2. UNCHANGED <<cmd, pouring, registered, sweeping, safe>> /\ run[r] \in Processing
    BY <1>4, RecipeAdvances
  <2>3. /\ run' = run \/ run' = [run EXCEPT ![r] = "finished"] \/ run' = [run EXCEPT ![r] = "stopped"]
        /\ step' = step \/ step' = [step EXCEPT ![r] = @ + 1]
    BY <1>4, RecipeAdvances
  <2>4. run \in [Run -> RunState] /\ step \in [Run -> 0..Len(Program) \cup {1}]
    BY DEF TypeOK, RunState
  <2>5. /\ \A q \in Run : q # r => run'[q] = run[q] /\ step'[q] = step[q]
        /\ run'[r] # "swept"
    BY <2>2, <2>3, <2>4 DEF Processing
  <2> QED
    BY <2>1, <2>2, <2>5, RestKeepsCommands
<1>5. ASSUME NEW r \in Run, NEW c \in Command, CommandStep(r, c) PROVE CommandInv'
  <2>1. CASE PourEnds(r, c)
    BY <1>1, <2>1 DEF PourEnds, safeVars
  <2> QED
    BY <1>5, <2>1, CommandMoves, MovesKeepCommands DEF CommandStep
<1> QED
  BY <1>1, <1>2, <1>3, <1>4, <1>5, HandlersKeepCommands, PodsKeepCommands DEF Next, Guest, Handler

THEOREM CommandsCorrect == Spec => []CommandInv
<1>1. Init => CommandInv
  BY DEF Init, CommandInv, ActiveInGroup, PoursAreReachable, PoursAreSwept, Active
<1>2. TypeOK /\ QueueInv /\ CommandInv /\ [Next]_recipeVars => CommandInv'
  BY CommandStepKeeps
<1> QED
  BY <1>1, <1>2, TypeCorrect, QueueCorrect, PTL DEF Spec

(* No command of a recipe is in progress when the recipe has ended: what   *)
(* run_all() awaits never outlives its frame.                              *)
THEOREM NothingOutlives == Spec => []NothingOutlivesItsRecipe
<1>1. CommandInv => NothingOutlivesItsRecipe
  BY DEF CommandInv, ActiveInGroup, NothingOutlivesItsRecipe, Over, Processing
<1> QED
  BY <1>1, CommandsCorrect, PTL

(* When the sweep of a stopped recipe is through, every Pod that may still *)
(* pour for it has been commanded to stop, in every order of completions,  *)
(* failures, lost commands and Pods that come and go.                      *)
THEOREM NoPourIsForgotten == Spec => []NoPourEscapes
<1>1. CommandInv => NoPourEscapes
  BY DEF CommandInv, PoursAreSwept, NoPourEscapes
<1> QED
  BY <1>1, CommandsCorrect, PTL
-----------------------------------------------------------------------------
(* The guest.  An abort or a later start that the io thread handles behind *)
(* the start of r.                                                         *)
AbortIsBehind(r) ==
  \E i \in 1..Len(posts) :
    /\ posts[i].do = "abort" \/ (posts[i].do = "start" /\ posts[i].run # r)
    /\ \A j \in 1..Len(posts) : posts[j] = Post("start", r) => j < i

Succeeded(r) == result[r] = "success"
Live(r) == run[r] \in {"started", "running"} /\ ~flag[r]

SuccessIsOver == \A r \in Run : Succeeded(r) => Over(r)

SuccessIsShown ==
  (\E i \in 1..Len(events) : events[i] = "success") => \E r \in Run : Succeeded(r)

StartedIsQueued ==
  \A r \in Run : run[r] = "started" => \E i \in 1..Len(posts) : posts[i] \in {Post("start", r), Post("begin", r)}

(* What NoUnattendedRecipe says of a running recipe, for one that has been *)
(* started as well.                                                        *)
LiveAreAttended ==
  \A r \in Run : Live(r) => page = "mix" \/ AbortIsBehind(r) \/ r \in displaced

AttendedInv == SuccessIsOver /\ SuccessIsShown /\ StartedIsQueued /\ LiveAreAttended

(* What is not handled stays in the queue.                                 *)
Keeps(k) ==
  \A i \in 1..Len(posts) : i > k => i - k \in 1..Len(posts') /\ posts'[i - k] = posts[i]

(* A recipe that has ended with success began before every recipe that is  *)
(* in progress and was not told to stop.                                   *)
LEMMA SuccessIsBefore ==
  ASSUME TypeOK, QueueInv, AttendedInv, NEW q \in Run, NEW r \in Run, Succeeded(q), Live(r)
  PROVE  q < r
<1>1. Over(q) /\ Begun(q) /\ q # r
  BY DEF AttendedInv, SuccessIsOver, Over, Begun, Live
<1>2. CASE Begun(r)
  <2>1. active = r /\ active # 0
    BY <1>2, RunsAreNumbers DEF QueueInv, OthersAreFlagged, Live
  <2>2. q <= r
    BY <1>1, <2>1 DEF QueueInv, OthersAreFlagged
  <2> QED
    BY <1>1, <2>2, RunsAreNumbers
<1>3. CASE ~Begun(r)
  <2>1. PICK i \in 1..Len(posts) : posts[i] = Post("start", r)
    BY <1>3 DEF AttendedInv, StartedIsQueued, Begun, Live
  <2>2. posts[i].do = "start" /\ posts[i].run = r
    BY <2>1 DEF Post
  <2> QED
    BY <1>1, <2>2 DEF QueueInv, RunsAreOrdered
<1> QED
  BY <1>2, <1>3

(* A recipe the guest has confirmed after r is still to be started, and    *)
(* its start aborts r.                                                     *)
LEMMA LaterIsBehind ==
  ASSUME TypeOK, QueueInv, AttendedInv, NEW r \in Run, Live(r), NEW q \in Run, r < q, run[q] # "idle"
  PROVE  AbortIsBehind(r)
<1>1. r \in Nat /\ q \in Nat /\ r # 0 /\ Len(posts) \in Nat
  BY RunsAreNumbers DEF TypeOK
<1>2. ~Begun(q)
  <2> SUFFICES ASSUME Begun(q) PROVE FALSE
    OBVIOUS
  <2>1. CASE Begun(r)
    <3>1. active = r /\ active # 0
      BY <1>1, <2>1 DEF QueueInv, OthersAreFlagged, Live
    <3>2. q <= r
      BY <3>1 DEF QueueInv, OthersAreFlagged
    <3> QED
      BY <1>1, <3>2
  <2>2. CASE ~Begun(r)
    <3>1. PICK i \in 1..Len(posts) : posts[i] = Post("start", r)
      BY <2>2 DEF AttendedInv, StartedIsQueued, Begun, Live
    <3>2. posts[i].do = "start" /\ posts[i].run = r
      BY <3>1 DEF Post
    <3>3. q < r
      BY <3>2 DEF QueueInv, RunsAreOrdered
    <3> QED
      BY <1>1, <3>3
  <2> QED
    BY <2>1, <2>2
<1>3. PICK i \in 1..Len(posts) : posts[i] = Post("start", q)
  BY <1>2 DEF AttendedInv, StartedIsQueued, Begun
<1>4. posts[i].do = "start" /\ posts[i].run = q /\ q # r
  BY <1>1, <1>3 DEF Post
<1>5. ASSUME NEW j \in 1..Len(posts), posts[j] = Post("start", r) PROVE j < i
  <2>1. posts[j].do = "start" /\ posts[j].run = r
    BY <1>5 DEF Post
  <2>2. j # i /\ ~(i < j)
    BY <1>1, <1>4, <2>1 DEF QueueInv, PostsAreOrdered
  <2> QED
    BY <1>1, <2>2
<1> QED
  BY <1>4, <1>5 DEF AbortIsBehind

(* The abort stays behind the start of r unless it is handled, which the   *)
(* start was before.                                                       *)
LEMMA AbortStaysBehind ==
  ASSUME TypeOK, TypeOK', NEW k \in {0, 1}, NEW new, Follows(k, new), Keeps(k), \A x \in new : x.do # "start",
         NEW r \in Run, AbortIsBehind(r),
         k = 1 => \/ posts[1].do \notin {"abort", "start"}
                  \/ \E j \in 1..Len(posts) : posts[j] = Post("start", r)
  PROVE  AbortIsBehind(r)'
<1>1. Len(posts) \in Nat /\ Len(posts') \in Nat
  BY DEF TypeOK
<1>2. PICK i \in 1..Len(posts) :
        /\ posts[i].do = "abort" \/ (posts[i].do = "start" /\ posts[i].run # r)
        /\ \A j \in 1..Len(posts) : posts[j] = Post("start", r) => j < i
  BY DEF AbortIsBehind
<1>3. i > k
  BY <1>1, <1>2
<1>4. i - k \in 1..Len(posts') /\ posts'[i - k] = posts[i]
  BY <1>3 DEF Keeps
<1>5. ASSUME NEW j \in 1..Len(posts'), posts'[j] = Post("start", r) PROVE j < i - k
  <2>1. posts'[j].do = "start"
    BY <1>5 DEF Post
  <2>2. j <= Len(posts) - k /\ posts'[j] = posts[j + k]
    BY <2>1 DEF Follows
  <2>3. j + k \in 1..Len(posts) /\ posts[j + k] = Post("start", r)
    BY <1>1, <1>5, <2>2
  <2> QED
    BY <1>1, <1>2, <2>3
<1> QED
  BY <1>2, <1>4, <1>5 DEF AbortIsBehind

LEMMA StartStaysQueued ==
  ASSUME TypeOK, TypeOK', NEW k \in {0, 1}, Keeps(k), StartedIsQueued, NEW r \in Run, run[r] = "started",
         k = 1 => posts[1] \notin {Post("start", r), Post("begin", r)}
  PROVE  \E i \in 1..Len(posts') : posts'[i] \in {Post("start", r), Post("begin", r)}
<1>1. PICK i \in 1..Len(posts) : posts[i] \in {Post("start", r), Post("begin", r)}
  BY DEF StartedIsQueued
<1>2. i > k
  BY <1>1 DEF TypeOK
<1> QED
  BY <1>1, <1>2 DEF Keeps

LEMMA AppendKeeps ==
  ASSUME TypeOK, NEW x, posts' = Append(posts, x)
  PROVE  Keeps(0) /\ Len(posts') = Len(posts) + 1 /\ posts'[Len(posts) + 1] = x
BY DEF TypeOK, Keeps

LEMMA TailKeeps ==
  ASSUME TypeOK, posts # <<>>, NEW new \in Seq(AnyPost), posts' = Tail(posts) \o new
  PROVE  Keeps(1)
<1>1. posts \in Seq(AnyPost)
  BY DEF TypeOK, AnyPost
<1>2. /\ Len(posts) \in Nat \ {0} /\ Len(Tail(posts)) = Len(posts) - 1
      /\ \A i \in 1..Len(Tail(posts)) : Tail(posts)[i] = posts[i + 1]
      /\ Tail(posts) \in Seq(AnyPost)
  BY <1>1
<1>3. Len(new) \in Nat /\ Len(posts') = Len(posts) - 1 + Len(new)
  BY <1>2
<1>4. \A i \in 1..Len(Tail(posts)) : posts'[i] = Tail(posts)[i]
  BY <1>2
<1> QED
  BY <1>2, <1>3, <1>4 DEF Keeps

(* Steps in which the guest takes no part and no recipe starts or ends.    *)
LEMMA RestKeepsAttended ==
  ASSUME TypeOK, AttendedInv, UNCHANGED <<page, posts, flag, run, result>>,
         events' = events \/ events' = Append(events, "error"), displaced \subseteq displaced'
  PROVE  AttendedInv'
<1>1. SuccessIsShown'
  <2>1. (\E i \in 1..Len(events') : events'[i] = "success") => \E i \in 1..Len(events) : events[i] = "success"
    <3>1. events \in Seq({"success", "error"})
      BY DEF TypeOK
    <3>2. CASE events' = Append(events, "error")
      <4>1. Len(events') = Len(events) + 1 /\ events'[Len(events) + 1] = "error"
            /\ \A i \in 1..Len(events) : events'[i] = events[i]
        BY <3>1, <3>2
      <4> QED
        BY <3>1, <4>1
    <3> QED
      BY <3>2
  <2> QED
    BY <2>1 DEF AttendedInv, SuccessIsShown, Succeeded
<1> QED
  BY <1>1 DEF AttendedInv, SuccessIsOver, Succeeded, Over, StartedIsQueued, LiveAreAttended, Live, AbortIsBehind

(* Whoever leaves the mix page queues an abort, except for the success     *)
(* page: what it displaces is remembered, or a later recipe has been       *)
(* confirmed and its start is on the way.                                  *)
LEMMA NavigationKeepsAttended ==
  ASSUME TypeOK, TypeOK', QueueInv, AttendedInv, LeavePage \/ ShowResult, Remember
  PROVE  AttendedInv'
<1>1. UNCHANGED <<flag, run, result>> /\ events \in Seq({"success", "error"})
  BY DEF LeavePage, ShowResult, TypeOK
<1>2. SuccessIsShown'
  <2>1. (\E i \in 1..Len(events') : events'[i] = "success") => \E i \in 1..Len(events) : events[i] = "success"
    <3>1. CASE events # <<>> /\ events' = Tail(events)
      <4>1. \A i \in 1..Len(events') : i + 1 \in 1..Len(events) /\ events'[i] = events[i + 1]
        BY <1>1, <3>1
      <4> QED
        BY <4>1
    <3> QED
      BY <3>1 DEF LeavePage, ShowResult
  <2> QED
    BY <1>1, <2>1 DEF AttendedInv, SuccessIsShown, Succeeded
<1>3. CASE posts' = Append(posts, Post("abort", 0))
  <2>1. Keeps(0) /\ Len(posts') = Len(posts) + 1 /\ posts'[Len(posts) + 1] = Post("abort", 0) /\ Follows(0, {Post("abort", 0)})
    BY <1>3, AppendKeeps, AppendFollows
  <2>2. Len(posts) \in Nat /\ Post("abort", 0).do = "abort"
    BY DEF TypeOK, Post
  <2>3. \A r \in Run : AbortIsBehind(r)'
    <3> SUFFICES ASSUME NEW r \in Run PROVE AbortIsBehind(r)'
      OBVIOUS
    <3>1. \A j \in 1..Len(posts') : posts'[j] = Post("start", r) => j < Len(posts) + 1
      BY <2>1, <2>2 DEF Post
    <3> QED
      BY <2>1, <2>2, <3>1 DEF AbortIsBehind
  <2>4. StartedIsQueued'
    BY <1>1, <2>1, StartStaysQueued DEF AttendedInv, StartedIsQueued
  <2> QED
    BY <1>1, <1>2, <2>3, <2>4 DEF AttendedInv, SuccessIsOver, Succeeded, Over, LiveAreAttended
<1>4. CASE posts' = posts
  <2>1. page = "mix" => page' = "success" /\ Head(events) = "success" /\ events # <<>>
    <3>1. CASE LeavePage
      <4>1. page # "mix"
        <5> SUFFICES ASSUME page = "mix" PROVE FALSE
          OBVIOUS
        <5>1. posts' = Append(posts, Post("abort", 0))
          BY <3>1 DEF LeavePage, Navigate
        <5> QED
          BY <1>4, <5>1, AppendKeeps DEF TypeOK
      <4> QED
        BY <4>1
    <3>2. CASE ShowResult
      <4> SUFFICES ASSUME page = "mix" PROVE Head(events) = "success"
        BY <3>2 DEF ShowResult, Navigate
      <4>1. Head(events) # "success" => posts' = Append(posts, Post("abort", 0))
        BY <3>2 DEF ShowResult, Navigate
      <4> QED
        BY <1>4, <4>1, AppendKeeps DEF TypeOK
    <3> QED
      BY <3>1, <3>2
  <2>2. page = "mix" => \E q \in Run : Succeeded(q)
    <3>1. page = "mix" => 1 \in 1..Len(events) /\ events[1] = "success"
      BY <1>1, <2>1
    <3> QED
      BY <3>1 DEF AttendedInv, SuccessIsShown
  <2>3. LiveAreAttended'
    <3> SUFFICES ASSUME NEW r \in Run, Live(r), page = "mix" PROVE AbortIsBehind(r) \/ r \in displaced'
      BY <1>1, <1>4 DEF AttendedInv, LiveAreAttended, Live, AbortIsBehind, Remember
    <3>1. CASE \E q \in Run : r < q /\ run[q] # "idle"
      BY <3>1, LaterIsBehind
    <3>2. CASE ~\E q \in Run : r < q /\ run[q] # "idle"
      <4>1. \A q \in Run : q > r => run[q] = "idle"
        BY <3>2, RunsAreNumbers
      <4>2. run[r] # "idle" /\ ~Over(r)
        BY DEF Live, Over
      <4>3. \E q \in Run : q < r /\ result[q] = "success"
        BY <2>2, SuccessIsBefore DEF Succeeded
      <4> QED
        BY <2>1, <4>1, <4>2, <4>3 DEF Remember, IsDisplaced, OnMixPage
    <3> QED
      BY <3>1, <3>2
  <2> QED
    BY <1>1, <1>2, <1>4, <2>3 DEF AttendedInv, SuccessIsOver, Succeeded, Over, StartedIsQueued
<1> QED
  BY <1>3, <1>4 DEF LeavePage, ShowResult, Navigate

LEMMA ProcessKeepsAttended ==
  ASSUME TypeOK, TypeOK', AttendedInv, NEW r \in Run, ProcessActiveRecipe(r), displaced \subseteq displaced'
  PROVE  AttendedInv'
<1>1. /\ run[r] = "idle" /\ run' = [run EXCEPT ![r] = "started"] /\ run \in [Run -> RunState]
      /\ posts' = Append(posts, Post("start", r)) /\ page' = "mix" /\ UNCHANGED <<events, flag, result>>
  BY DEF ProcessActiveRecipe, TypeOK, RunState
<1>2. Keeps(0) /\ Len(posts') = Len(posts) + 1 /\ posts'[Len(posts) + 1] = Post("start", r) /\ Len(posts) \in Nat
  BY <1>1, AppendKeeps DEF TypeOK
<1>3. StartedIsQueued'
  <2> SUFFICES ASSUME NEW q \in Run, run'[q] = "started"
               PROVE  \E i \in 1..Len(posts') : posts'[i] \in {Post("start", q), Post("begin", q)}
    BY DEF StartedIsQueued
  <2>1. CASE q = r
    BY <1>2, <2>1
  <2>2. CASE q # r
    <3>1. run[q] = "started"
      BY <1>1, <2>2
    <3> QED
      BY <1>2, <3>1, StartStaysQueued DEF AttendedInv
  <2> QED
    BY <2>1, <2>2
<1>4. SuccessIsOver'
  BY <1>1 DEF AttendedInv, SuccessIsOver, Succeeded, Over
<1> QED
  BY <1>1, <1>3, <1>4 DEF AttendedInv, SuccessIsShown, Succeeded, LiveAreAttended

(* A handler of the io thread.  The start of r is still to come, or the    *)
(* flag of r is raised by what ends the recipe before.                     *)
LEMMA HandledKeepsAttended ==
  ASSUME TypeOK, TypeOK', QueueInv, AttendedInv, NEW new, Follows(1, new), Keeps(1), \A x \in new : x.do # "start",
         UNCHANGED <<page, events, result>>, displaced \subseteq displaced', StartedIsQueued', SuccessIsOver',
         \A r \in Run : Live(r)' => Live(r),
         posts[1].do \in {"abort", "start"} => \A r \in Run : Live(r)' => active # r
  PROVE  AttendedInv'
<1>1. ASSUME NEW r \in Run, Live(r)', AbortIsBehind(r) PROVE AbortIsBehind(r)'
  <2>1. CASE posts[1].do \notin {"abort", "start"}
    BY <1>1, <2>1, AbortStaysBehind
  <2>2. CASE posts[1].do \in {"abort", "start"}
    <3>1. ~Begun(r) /\ Live(r)
      BY <1>1, <2>2 DEF QueueInv, OthersAreFlagged, Live
    <3>2. \E j \in 1..Len(posts) : posts[j] = Post("start", r)
      BY <3>1 DEF AttendedInv, StartedIsQueued, Begun, Live
    <3> QED
      BY <1>1, <3>2, AbortStaysBehind
  <2> QED
    BY <2>1, <2>2
<1>2. LiveAreAttended'
  BY <1>1 DEF AttendedInv, LiveAreAttended, Succeeded
<1> QED
  BY <1>2 DEF AttendedInv, SuccessIsShown, Succeeded

LEMMA RaisedEndsActive ==
  ASSUME TypeOK, flag' = Raised, UNCHANGED run, NEW r \in Run, Live(r)'
  PROVE  Live(r) /\ active # r
<1>1. r # 0
  BY RunsAreNumbers
<1> QED
  BY <1>1 DEF TypeOK, Raised, Live

LEMMA AbortKeepsAttended ==
  ASSUME TypeOK, TypeOK', QueueInv, AttendedInv, AbortActiveRecipe, displaced \subseteq displaced'
  PROVE  AttendedInv'
<1>1. /\ posts # <<>> /\ posts' = Tail(posts) \o Wakes /\ posts[1] = Post("abort", 0)
      /\ flag' = Raised /\ UNCHANGED <<run, page, events, result>>
  BY DEF AbortActiveRecipe, NextPost, TypeOK, uiVars
<1>2. Follows(1, {Post("wake", active)}) /\ Keeps(1)
  BY <1>1, WakesIsTyped, WakesFollow, TailKeeps
<1>3. Post("wake", active).do # "start" /\ \A r \in Run : posts[1] \notin {Post("start", r), Post("begin", r)}
  BY <1>1 DEF Post
<1>4. StartedIsQueued' /\ SuccessIsOver'
  BY <1>1, <1>2, <1>3, StartStaysQueued DEF AttendedInv, StartedIsQueued, SuccessIsOver, Succeeded, Over
<1> QED
  BY <1>1, <1>2, <1>3, <1>4, RaisedEndsActive, HandledKeepsAttended

LEMMA AppendLast ==
  ASSUME NEW s \in Seq(AnyPost), NEW t \in Seq(AnyPost), NEW x \in AnyPost
  PROVE  s \o t \o <<x>> = s \o Append(t, x)
OBVIOUS

LEMMA StartKeepsAttended ==
  ASSUME TypeOK, TypeOK', QueueInv, AttendedInv, NEW q \in Run, StartRecipe(q), displaced \subseteq displaced'
  PROVE  AttendedInv'
<1> DEFINE b == Post("begin", q)
<1>1. /\ posts # <<>> /\ posts' = Tail(posts) \o Wakes \o <<b>> /\ posts[1] = Post("start", q)
      /\ flag' = Raised /\ UNCHANGED <<run, page, events, result>>
  BY DEF StartRecipe, NextPost, TypeOK, uiVars
<1>2. Keeps(1) /\ Len(posts') \in 1..Len(posts') /\ posts'[Len(posts')] = b
  <2>1. Wakes \in Seq(AnyPost) /\ posts \in Seq(AnyPost) /\ b \in AnyPost
    BY WakesIsTyped, RunsAreNumbers, PostsAreTyped DEF TypeOK, AnyPost, Handlers
  <2>2. Tail(posts) \in Seq(AnyPost)
    BY <1>1, <2>1
  <2>3. posts' = Tail(posts) \o Append(Wakes, b)
    <3> HIDE DEF b
    <3> QED
      BY <1>1, <2>1, <2>2, AppendLast
  <2>4. Append(Wakes, b) \in Seq(AnyPost)
    BY <2>1
  <2>5. Keeps(1)
    BY <1>1, <2>3, <2>4, TailKeeps
  <2>6. posts' = Append(Tail(posts) \o Wakes, b) /\ Tail(posts) \o Wakes \in Seq(AnyPost)
    <3> HIDE DEF b
    <3> QED
      BY <1>1, <2>1, <2>2
  <2> QED
    BY <2>5, <2>6
<1>3. Follows(1, {Post("wake", active), b})
  BY <1>1, WakesAndBeginFollow
<1>4. \A x \in {Post("wake", active), b} : x.do # "start"
  BY DEF Post
<1>5. StartedIsQueued'
  <2> SUFFICES ASSUME NEW r \in Run, run[r] = "started"
               PROVE  \E i \in 1..Len(posts') : posts'[i] \in {Post("start", r), Post("begin", r)}
    BY <1>1 DEF StartedIsQueued
  <2>1. CASE r = q
    BY <1>2, <2>1
  <2>2. CASE r # q
    <3>1. posts[1] \notin {Post("start", r), Post("begin", r)}
      BY <1>1, <2>2 DEF Post
    <3> QED
      BY <1>2, <3>1, StartStaysQueued DEF AttendedInv
  <2> QED
    BY <2>1, <2>2
<1>6. SuccessIsOver'
  BY <1>1 DEF AttendedInv, SuccessIsOver, Succeeded, Over
<1> QED
  BY <1>1, <1>2, <1>3, <1>4, <1>5, <1>6, RaisedEndsActive, HandledKeepsAttended

(* The other handlers raise no flag, and no recipe that was not in         *)
(* progress before.                                                        *)
LEMMA HandlersKeepAttended ==
  ASSUME TypeOK, TypeOK', QueueInv, AttendedInv, NEW q \in Run, BeginRecipe(q) \/ Wake(q) \/ BeginSweep(q),
         displaced \subseteq displaced'
  PROVE  AttendedInv'
<1>1. /\ posts # <<>> /\ posts' = Tail(posts) /\ UNCHANGED <<page, events, result, flag>>
      /\ \E handler \in {"begin", "wake", "sweep"} : posts[1] = Post(handler, q)
      /\ run \in [Run -> RunState] /\ posts \in Seq(AnyPost)
  BY DEF BeginRecipe, Wake, BeginSweep, NextPost, TypeOK, uiVars, RunState, AnyPost
<1>2. Follows(1, {}) /\ Keeps(1)
  <2>1. \A i \in 1..Len(posts) : i > 1 => i - 1 \in 1..Len(posts') /\ posts'[i - 1] = posts[i]
    BY <1>1
  <2> QED
    BY <1>1, <2>1, TailFollows DEF Keeps
<1>3. /\ PostIsTimely(posts[1]) /\ posts[1].do \notin {"abort", "start"}
      /\ \A r \in Run : r # q => posts[1] \notin {Post("start", r), Post("begin", r)}
      /\ \A handler \in Handlers : posts[1] = Post(handler, q) => posts[1].do = handler /\ posts[1].run = q
  <2>1. 1 \in 1..Len(posts)
    BY <1>1
  <2> QED
    BY <1>1, <2>1 DEF QueueInv, PostsAreTimely, Post
<1>4. \/ run[q] = "started" /\ posts[1].do = "begin" /\ run' = [run EXCEPT ![q] = IF flag[q] THEN "stopping" ELSE "running"]
      \/ posts[1].do = "wake" /\ run' = [run EXCEPT ![q] = IF @ = "running" THEN "stopping" ELSE @]
      \/ run[q] \in {"stopped", "swept"} /\ posts[1].do = "sweep" /\ run' = [run EXCEPT ![q] = "swept"]
  <2>1. CASE BeginRecipe(q)
    BY <1>1, <1>3, <2>1 DEF BeginRecipe, NextPost, PostIsTimely, Post
  <2>2. CASE Wake(q)
    BY <1>1, <1>3, <2>2 DEF Wake, NextPost, Post
  <2>3. CASE BeginSweep(q)
    BY <1>1, <1>3, <2>3 DEF BeginSweep, NextPost, PostIsTimely, Post
  <2> QED
    BY <2>1, <2>2, <2>3
<1>5. SuccessIsOver'
  BY <1>1, <1>4 DEF AttendedInv, SuccessIsOver, Succeeded, Over
<1>6. StartedIsQueued'
  <2> SUFFICES ASSUME NEW r \in Run, run'[r] = "started"
               PROVE  \E i \in 1..Len(posts') : posts'[i] \in {Post("start", r), Post("begin", r)}
    BY DEF StartedIsQueued
  <2>1. run[r] = "started" /\ posts[1] \notin {Post("start", r), Post("begin", r)}
    BY <1>1, <1>3, <1>4 DEF Post
  <2> QED
    BY <1>2, <2>1, StartStaysQueued DEF AttendedInv
<1>7. \A r \in Run : Live(r)' => Live(r)
  BY <1>1, <1>4 DEF Live
<1> QED
  BY <1>1, <1>2, <1>3, <1>5, <1>6, <1>7, HandledKeepsAttended

LEMMA EndKeepsAttended ==
  ASSUME TypeOK, TypeOK', QueueInv, AttendedInv, NEW r \in Run, EndGroup(r), displaced \subseteq displaced'
  PROVE  AttendedInv'
<1>1. run[r] \in Processing /\ UNCHANGED <<page, flag>> /\ run \in [Run -> RunState]
  BY RecipeAdvances DEF TypeOK, RunState
<1>2. CASE UNCHANGED <<events, posts, run, result>>
  BY <1>1, <1>2, RestKeepsAttended
<1>3. ASSUME NEW outcome \in {"success", "error", "stopped"},
             result' = [result EXCEPT ![r] = outcome],
             events' = IF outcome = "stopped" THEN events ELSE Append(events, outcome),
             \/ run' = [run EXCEPT ![r] = "finished"] /\ posts' = posts
             \/ run' = [run EXCEPT ![r] = "stopped"] /\ posts' = Append(posts, Post("sweep", r))
      PROVE  AttendedInv'
  <2>1. /\ \A q \in Run : Succeeded(q)' <=> (q # r /\ Succeeded(q)) \/ (q = r /\ outcome = "success")
        /\ ~Succeeded(r)
    BY <1>1, <1>3 DEF TypeOK, Succeeded, AttendedInv, SuccessIsOver, Over, Processing
  <2>2. SuccessIsOver'
    BY <1>1, <1>3, <2>1 DEF AttendedInv, SuccessIsOver, Over
  <2>3. SuccessIsShown'
    <3> SUFFICES ASSUME NEW i \in 1..Len(events'), events'[i] = "success" PROVE \E q \in Run : Succeeded(q)'
      BY DEF SuccessIsShown
    <3>1. CASE outcome = "success"
      BY <2>1, <3>1
    <3>2. CASE outcome # "success"
      <4>1. i \in 1..Len(events) /\ events[i] = "success"
        <5>1. events \in Seq({"success", "error"})
          BY DEF TypeOK
        <5> QED
          BY <1>3, <3>2, <5>1
      <4> QED
        BY <2>1, <4>1 DEF AttendedInv, SuccessIsShown
    <3> QED
      BY <3>1, <3>2
  <2>4. Keeps(0) /\ Follows(0, {Post("sweep", r)})
    <3>1. CASE posts' = posts
      BY <3>1 DEF Keeps, Follows, TypeOK
    <3>2. CASE posts' = Append(posts, Post("sweep", r))
      BY <3>2, AppendKeeps, AppendFollows
    <3> QED
      BY <1>3, <3>1, <3>2
  <2>5. StartedIsQueued'
    BY <1>1, <1>3, <2>4, StartStaysQueued DEF AttendedInv, StartedIsQueued
  <2>6. LiveAreAttended'
    <3> SUFFICES ASSUME NEW q \in Run, Live(q)'
                 PROVE  page = "mix" \/ AbortIsBehind(q)' \/ q \in displaced'
      BY <1>1 DEF LiveAreAttended
    <3>1. Live(q)
      BY <1>1, <1>3 DEF Live
    <3>2. Post("sweep", r).do # "start"
      BY DEF Post
    <3>3. AbortIsBehind(q) => AbortIsBehind(q)'
      BY <2>4, <3>2, AbortStaysBehind
    <3> QED
      BY <3>1, <3>3 DEF AttendedInv, LiveAreAttended
  <2> QED
    BY <2>2, <2>3, <2>5, <2>6 DEF AttendedInv
<1> QED
  BY <1>2, <1>3, RecipeAdvances

LEMMA AttendedStep ==
  ASSUME TypeOK, TypeOK', QueueInv, AttendedInv, [AttendanceNext]_attendanceVars
  PROVE  AttendedInv'
<1>0. displaced \subseteq displaced'
  BY DEF AttendanceNext, attendanceVars, Remember
<1>1. ASSUME NEW r \in Run, NEW c \in Command, CommandStep(r, c)
      PROVE  UNCHANGED <<page, posts, flag, run, result, events>>
  BY <1>1, CommandMoves DEF CommandStep, Moves, PourEnds, uiVars
<1>2. ASSUME NEW p \in Pod, \/ UnregisterPod(p) \/ RegisterPod(p)
                            \/ \E r \in Run, lost \in BOOLEAN : ForceSafeState(r, p, lost)
      PROVE  UNCHANGED <<page, posts, flag, run, result, events>>
  BY <1>2 DEF UnregisterPod, RegisterPod, ForceSafeState, uiVars
<1>3. AbortButton => UNCHANGED <<page, posts, flag, run, result>> /\ events' = Append(events, "error")
  BY DEF AbortButton
<1>4. CASE UNCHANGED attendanceVars
  <2>1. UNCHANGED <<page, posts, flag, run, result, events>>
    BY <1>4 DEF attendanceVars, recipeVars
  <2> QED
    BY <1>0, <2>1, RestKeepsAttended
<1>5. CASE Next /\ Remember
  BY <1>0, <1>1, <1>2, <1>3, <1>5, RestKeepsAttended, NavigationKeepsAttended, ProcessKeepsAttended,
     AbortKeepsAttended, StartKeepsAttended, HandlersKeepAttended, EndKeepsAttended DEF Next, Guest, Handler
<1> QED
  BY <1>4, <1>5 DEF AttendanceNext

LEMMA AttendanceIsRecipe == AttendanceSpec => Spec
<1>1. AttendanceInit => Init
  BY DEF AttendanceInit
<1>2. [AttendanceNext]_attendanceVars => [Next]_recipeVars
  BY DEF AttendanceNext, attendanceVars
<1> QED
  BY <1>1, <1>2, PTL DEF AttendanceSpec, Spec

(* Who attends a recipe, in every reachable state.                         *)
THEOREM AttendanceCorrect == AttendanceSpec => []AttendedInv
<1>1. AttendanceInit => AttendedInv
  <2> SUFFICES ASSUME Init PROVE AttendedInv
    BY DEF AttendanceInit
  <2>1. Len(events) = 0 /\ \A r \in Run : run[r] = "idle" /\ result[r] = "none"
    BY DEF Init
  <2> QED
    BY <2>1 DEF AttendedInv, SuccessIsOver, SuccessIsShown, Succeeded, StartedIsQueued, LiveAreAttended, Live
<1>2. TypeOK /\ TypeOK' /\ QueueInv /\ AttendedInv /\ [AttendanceNext]_attendanceVars => AttendedInv'
  BY AttendedStep
<1> QED
  BY <1>1, <1>2, AttendanceIsRecipe, TypeCorrect, QueueCorrect, PTL DEF AttendanceSpec

(* A recipe in progress that was not aborted has the mix page, or its      *)
(* abort is queued, unless it is among those whose own mix page was        *)
(* replaced by the success page of an earlier recipe.                      *)
THEOREM NoneIsUnattended == AttendanceSpec => []NoUnattendedRecipe
<1>1. AttendedInv => NoUnattendedRecipe
  BY DEF AttendedInv, LiveAreAttended, Live, AbortIsBehind, AbortQueued, NoUnattendedRecipe
<1> QED
  BY <1>1, AttendanceCorrect, PTL
-----------------------------------------------------------------------------
(* What the guest sees.  The queue: a wait is woken when its flag has been *)
(* raised, and a run begins after all that have begun were queued.         *)
WakesAreFlagged == \A i \in 1..Len(posts) : posts[i].do = "wake" => flag[posts[i].run]

BeginsAreOrdered ==
  \A i \in 1..Len(posts), q \in Run :
    posts[i].do = "begin" /\ run[q] \notin {"idle", "started"} => q < posts[i].run

(* A run that is told to stop was aborted.                                 *)
StoppingIsFlagged == \A r \in Run : run[r] = "stopping" => flag[r]

AbortInv == WakesAreFlagged /\ BeginsAreOrdered /\ StoppingIsFlagged

(* A run that waits has done nothing, and one that is in a group has       *)
(* carried out every command before.                                       *)
TodoUntilBegun ==
  \A r \in Run, c \in Command : run[r] \in {"idle", "started"} => cmd[r][c] = "todo"

GroupsAreDone ==
  \A r \in Run : run[r] \in Processing =>
    step[r] >= 1 /\ \A h \in 1..(step[r] - 1) : \A c \in Program[h] : cmd[r][c] = "done"

(* A command stops because the recipe does, or a command beside it failed. *)
StopsHaveReasons ==
  \A r \in Run, c \in Command : run[r] \in Processing /\ cmd[r][c] = "stopped" => Halted(r)

OrderInv == TodoUntilBegun /\ GroupsAreDone /\ StopsHaveReasons

(* What is posted behind the queue wakes only what is flagged, and begins  *)
(* only what none that has begun is numbered above.                        *)
LEMMA FollowersKeepAborts ==
  ASSUME TypeOK, TypeOK', QueueInv, AbortInv, NEW k \in {0, 1}, NEW new, Follows(k, new),
         \A r \in Run : flag[r] => flag'[r],
         \A r \in Run : run'[r] = "stopping" => flag'[r],
         \A x \in new : x.do = "wake" => flag'[x.run],
         \A x \in new, q \in Run : x.do = "begin" /\ run'[q] \notin {"idle", "started"} => q < x.run,
         \A i \in 1..Len(posts), q \in Run :
           k < i /\ posts[i].do = "begin" /\ run'[q] \notin {"idle", "started"} => q < posts[i].run
  PROVE  AbortInv'
<1>1. ASSUME NEW i \in 1..Len(posts')
      PROVE  \/ i + k \in 1..Len(posts) /\ k < i + k /\ posts'[i] = posts[i + k]
             \/ posts'[i] \in new
  <2>1. Len(posts) \in Nat /\ Len(posts') \in Nat
    BY DEF TypeOK
  <2> QED
    BY <2>1 DEF Follows
<1>2. WakesAreFlagged'
  <2> SUFFICES ASSUME NEW i \in 1..Len(posts'), posts'[i].do = "wake" PROVE flag'[posts'[i].run]
    BY DEF WakesAreFlagged
  <2>1. CASE i + k \in 1..Len(posts) /\ posts'[i] = posts[i + k]
    <3>1. posts[i + k].run \in Run /\ flag[posts[i + k].run]
      BY <2>1 DEF QueueInv, PostsAreTimely, PostIsTimely, AbortInv, WakesAreFlagged
    <3> QED
      BY <2>1, <3>1
  <2> QED
    BY <1>1, <2>1
<1>3. BeginsAreOrdered'
  <2> SUFFICES ASSUME NEW i \in 1..Len(posts'), NEW q \in Run, posts'[i].do = "begin", run'[q] \notin {"idle", "started"}
               PROVE  q < posts'[i].run
    BY DEF BeginsAreOrdered
  <2> QED
    BY <1>1
<1> QED
  BY <1>2, <1>3 DEF AbortInv, StoppingIsFlagged

(* Posts of guests and of ending recipes.                                  *)
LEMMA PostsKeepAborts ==
  ASSUME TypeOK, TypeOK', QueueInv, AbortInv, UNCHANGED flag,
         \A r \in Run : run'[r] \notin {"idle", "started"} => run[r] \notin {"idle", "started"},
         \A r \in Run : run'[r] = "stopping" => flag[r],
         \/ UNCHANGED posts
         \/ \E x : posts' = Append(posts, x) /\ x.do \notin {"wake", "begin"}
         \/ posts # <<>> /\ posts' = Tail(posts)
  PROVE  AbortInv'
<1>1. \A i \in 1..Len(posts), q \in Run :
        posts[i].do = "begin" /\ run'[q] \notin {"idle", "started"} => q < posts[i].run
  BY DEF AbortInv, BeginsAreOrdered
<1>2. CASE UNCHANGED posts
  <2>1. Follows(0, {})
    BY <1>2 DEF Follows, TypeOK
  <2> QED
    BY <1>1, <2>1, FollowersKeepAborts
<1>3. ASSUME NEW x, posts' = Append(posts, x), x.do \notin {"wake", "begin"} PROVE AbortInv'
  <2>1. Follows(0, {x})
    BY <1>3, AppendFollows
  <2> QED
    BY <1>1, <1>3, <2>1, FollowersKeepAborts
<1>4. CASE posts # <<>> /\ posts' = Tail(posts)
  <2>1. Follows(1, {})
    BY <1>4, TailFollows
  <2> QED
    BY <1>1, <2>1, FollowersKeepAborts
<1> QED
  BY <1>2, <1>3, <1>4

(* An abort raises the flag before it wakes the wait on it; a start begins *)
(* its run behind all that have begun.                                     *)
LEMMA RaisesKeepAborts ==
  ASSUME TypeOK, TypeOK', QueueInv, AbortInv, AbortActiveRecipe \/ \E r \in Run : StartRecipe(r)
  PROVE  AbortInv'
<1>1. flag' = Raised /\ UNCHANGED run /\ posts # <<>>
  BY DEF AbortActiveRecipe, StartRecipe, NextPost
<1>2. /\ \A r \in Run : flag[r] => flag'[r]
      /\ active # 0 => active \in Run /\ flag'[active]
  BY <1>1, RecipeAssumption DEF Raised, TypeOK, Run
<1>3. \A r \in Run : run'[r] = "stopping" => flag'[r]
  BY <1>1, <1>2 DEF AbortInv, StoppingIsFlagged
<1>4. \A i \in 1..Len(posts), q \in Run :
        posts[i].do = "begin" /\ run'[q] \notin {"idle", "started"} => q < posts[i].run
  BY <1>1 DEF AbortInv, BeginsAreOrdered
<1>5. Post("wake", active).do = "wake" /\ Post("wake", active).run = active
  BY DEF Post
<1>6. CASE AbortActiveRecipe
  <2>1. Follows(1, {Post("wake", active)}) /\ (active = 0 => Follows(1, {}))
    BY <1>6, WakesFollow DEF AbortActiveRecipe, NextPost
  <2>2. CASE active = 0
    BY <1>2, <1>3, <1>4, <2>1, <2>2, FollowersKeepAborts
  <2>3. CASE active # 0
    BY <1>2, <1>3, <1>4, <1>5, <2>1, <2>3, FollowersKeepAborts
  <2> QED
    BY <2>2, <2>3
<1>7. ASSUME NEW r \in Run, StartRecipe(r) PROVE AbortInv'
  <2> DEFINE b == Post("begin", r)
  <2>1. b.do = "begin" /\ b.run = r
    BY DEF Post
  <2>2. Follows(1, {Post("wake", active), b}) /\ (active = 0 => Follows(1, {b}))
    BY <1>7, WakesAndBeginFollow DEF StartRecipe, NextPost
  <2>3. \A q \in Run : run'[q] \notin {"idle", "started"} => q < b.run
    <3>1. posts[1] = Post("start", r) /\ 1 \in 1..Len(posts)
      BY <1>7 DEF StartRecipe, NextPost, TypeOK
    <3>2. posts[1].do = "start" /\ posts[1].run = r
      BY <3>1 DEF Post
    <3>3. \A q \in Run : run'[q] \notin {"idle", "started"} => Begun(q)
      BY <1>1 DEF Begun
    <3> QED
      BY <2>1, <3>1, <3>2, <3>3 DEF QueueInv, RunsAreOrdered
  <2> HIDE DEF b
  <2>4. CASE active = 0
    BY <1>2, <1>3, <1>4, <2>1, <2>2, <2>3, <2>4, FollowersKeepAborts
  <2>5. CASE active # 0
    BY <1>2, <1>3, <1>4, <1>5, <2>1, <2>2, <2>3, <2>5, FollowersKeepAborts
  <2> QED
    BY <2>4, <2>5
<1> QED
  BY <1>6, <1>7

(* The run that begins is the next of those that wait.                     *)
LEMMA BeginKeepsAborts ==
  ASSUME TypeOK, TypeOK', QueueInv, AbortInv, NEW r \in Run, BeginRecipe(r)
  PROVE  AbortInv'
<1>1. /\ posts # <<>> /\ posts' = Tail(posts) /\ posts[1] = Post("begin", r) /\ 1 \in 1..Len(posts)
      /\ UNCHANGED flag /\ run' = [run EXCEPT ![r] = IF flag[r] THEN "stopping" ELSE "running"]
      /\ run \in [Run -> RunState]
  BY DEF BeginRecipe, NextPost, TypeOK, RunState
<1>2. posts[1].do = "begin" /\ posts[1].run = r
  BY <1>1 DEF Post
<1>3. \A i \in 1..Len(posts), q \in Run :
        1 < i /\ posts[i].do = "begin" /\ run'[q] \notin {"idle", "started"} => q < posts[i].run
  <2> SUFFICES ASSUME NEW i \in 1..Len(posts), NEW q \in Run, 1 < i, posts[i].do = "begin",
                      run'[q] \notin {"idle", "started"}
               PROVE  q < posts[i].run
    OBVIOUS
  <2>1. CASE q = r
    BY <1>1, <1>2, <2>1 DEF QueueInv, PostsAreOrdered
  <2>2. CASE q # r
    BY <1>1, <2>2 DEF AbortInv, BeginsAreOrdered
  <2> QED
    BY <2>1, <2>2
<1>4. Follows(1, {})
  BY <1>1, TailFollows
<1>5. \A q \in Run : run'[q] = "stopping" => flag'[q]
  BY <1>1 DEF AbortInv, StoppingIsFlagged
<1> QED
  BY <1>1, <1>3, <1>4, <1>5, FollowersKeepAborts

LEMMA AbortStep == ASSUME TypeOK, TypeOK', QueueInv, AbortInv, [Next]_recipeVars PROVE AbortInv'
<1> USE DEF AbortInv, StoppingIsFlagged
<1>1. CASE UNCHANGED <<posts, flag, run>>
  BY <1>1, PostsKeepAborts
<1>2. CASE LeavePage \/ ShowResult
  <2>1. \/ UNCHANGED posts
        \/ \E x : posts' = Append(posts, x) /\ x.do \notin {"wake", "begin"}
    <3>1. Post("abort", 0).do \notin {"wake", "begin"}
      BY DEF Post
    <3> QED
      BY <1>2, <3>1 DEF LeavePage, ShowResult, Navigate
  <2>2. UNCHANGED <<flag, run>>
    BY <1>2 DEF LeavePage, ShowResult
  <2> QED
    BY <2>1, <2>2, PostsKeepAborts
<1>3. ASSUME NEW r \in Run, ProcessActiveRecipe(r) PROVE AbortInv'
  <2>1. Post("start", r).do \notin {"wake", "begin"}
    BY DEF Post
  <2>2. run' = [run EXCEPT ![r] = "started"] /\ run[r] = "idle" /\ UNCHANGED flag /\ posts' = Append(posts, Post("start", r))
    BY <1>3 DEF ProcessActiveRecipe
  <2>3. run \in [Run -> RunState]
    BY DEF TypeOK, RunState
  <2>4. \E x : posts' = Append(posts, x) /\ x.do \notin {"wake", "begin"}
    BY <2>1, <2>2
  <2>5. \A q \in Run : /\ run'[q] \notin {"idle", "started"} => run[q] \notin {"idle", "started"}
                       /\ run'[q] = "stopping" => flag[q]
    BY <2>2, <2>3
  <2> QED
    BY <2>2, <2>4, <2>5, PostsKeepAborts
<1>4. ASSUME NEW r \in Run, Wake(r) PROVE AbortInv'
  <2>1. /\ run' = [run EXCEPT ![r] = IF @ = "running" THEN "stopping" ELSE @]
        /\ run \in [Run -> RunState] /\ UNCHANGED flag /\ posts # <<>> /\ posts' = Tail(posts)
        /\ posts[1] = Post("wake", r) /\ 1 \in 1..Len(posts)
    BY <1>4 DEF Wake, NextPost, TypeOK, RunState
  <2>2. flag[r]
    BY <2>1 DEF WakesAreFlagged, Post
  <2>3. \A q \in Run : /\ run'[q] \notin {"idle", "started"} => run[q] \notin {"idle", "started"}
                       /\ run'[q] = "stopping" => flag[q]
    BY <2>1, <2>2
  <2> QED
    BY <2>1, <2>3, PostsKeepAborts
<1>5. ASSUME NEW r \in Run, BeginSweep(r) PROVE AbortInv'
  <2>1. /\ run' = [run EXCEPT ![r] = "swept"] /\ run \in [Run -> RunState]
        /\ UNCHANGED flag /\ posts # <<>> /\ posts' = Tail(posts)
        /\ posts[1] = Post("sweep", r) /\ 1 \in 1..Len(posts)
    BY <1>5 DEF BeginSweep, NextPost, TypeOK, RunState
  <2>2. run[r] \in {"stopped", "swept"}
    BY <2>1 DEF QueueInv, PostsAreTimely, PostIsTimely, Post
  <2>3. \A q \in Run : /\ run'[q] \notin {"idle", "started"} => run[q] \notin {"idle", "started"}
                       /\ run'[q] = "stopping" => flag[q]
    BY <2>1, <2>2
  <2> QED
    BY <2>1, <2>3, PostsKeepAborts
<1>6. ASSUME NEW r \in Run, EndGroup(r) PROVE AbortInv'
  <2>1. Post("sweep", r).do \notin {"wake", "begin"} /\ run \in [Run -> RunState] /\ run[r] \in Processing /\ UNCHANGED flag
    BY <1>6, RecipeAdvances DEF Post, TypeOK, RunState
  <2>2. CASE UNCHANGED <<posts, run>>
    BY <1>1, <2>1, <2>2
  <2>3. CASE run' = [run EXCEPT ![r] = "finished"] /\ posts' = posts
    <3>1. \A q \in Run : /\ run'[q] \notin {"idle", "started"} => run[q] \notin {"idle", "started"}
                         /\ run'[q] = "stopping" => flag[q]
      BY <2>1, <2>3 DEF Processing
    <3> QED
      BY <2>1, <2>3, <3>1, PostsKeepAborts
  <2>4. CASE run' = [run EXCEPT ![r] = "stopped"] /\ posts' = Append(posts, Post("sweep", r))
    <3>1. \A q \in Run : /\ run'[q] \notin {"idle", "started"} => run[q] \notin {"idle", "started"}
                         /\ run'[q] = "stopping" => flag[q]
      BY <2>1, <2>4 DEF Processing
    <3>2. \E x : posts' = Append(posts, x) /\ x.do \notin {"wake", "begin"}
      BY <2>1, <2>4
    <3> QED
      BY <2>1, <3>1, <3>2, PostsKeepAborts
  <2> QED
    BY <1>6, <2>2, <2>3, <2>4, RecipeAdvances
<1>7. ASSUME NEW r \in Run, NEW c \in Command, CommandStep(r, c) PROVE UNCHANGED <<posts, flag, run>>
  BY <1>7, CommandMoves DEF CommandStep, Moves, PourEnds
<1>8. ASSUME NEW p \in Pod, \/ UnregisterPod(p) \/ RegisterPod(p)
                            \/ \E r \in Run, lost \in BOOLEAN : ForceSafeState(r, p, lost)
      PROVE  UNCHANGED <<posts, flag, run>>
  BY <1>8 DEF UnregisterPod, RegisterPod, ForceSafeState
<1>9. AbortButton \/ UNCHANGED recipeVars => UNCHANGED <<posts, flag, run>>
  BY DEF AbortButton, recipeVars
<1> QED
  BY <1>1, <1>2, <1>3, <1>4, <1>5, <1>6, <1>7, <1>8, <1>9, RaisesKeepAborts, BeginKeepsAborts DEF Next, Guest, Handler
-----------------------------------------------------------------------------
(* What becomes of a command that is carried out: it goes on from where it *)
(* was, in the group its recipe is in, and is stopped only if that is.     *)
Becomes(r, c, s) ==
  /\ run[r] \in Processing /\ c \in Group(r)
  /\ cmd' = [cmd EXCEPT ![r][c] = s]
  /\ \/ cmd[r][c] = "todo" /\ s \in Active \cup {"failed"}
     \/ cmd[r][c] \in Active /\ s \in Active \cup Failures \cup {"done"}
     \/ cmd[r][c] \in Active \cup {"todo"} /\ s = "stopped" /\ Halted(r)
  /\ UNCHANGED <<posts, flag, run, result, step>>

LEMMA CommandBecomes ==
  ASSUME CommandInv, NEW r \in Run, NEW c \in Command, Start(r, c) \/ Answer(r, c) \/ Confirm(r, c) \/ StopCommand(r, c)
  PROVE  \E s \in CmdState : Becomes(r, c, s)
<1> USE DEF CmdState, Active, Ended, Failures
<1>1. UNCHANGED <<posts, flag, run, result, step>>
  BY CommandMoves DEF Moves
<1>2. cmd[r][c] \in Active => run[r] \in Processing /\ c \in Group(r)
  BY DEF CommandInv, ActiveInGroup
<1>3. ASSUME NEW state \in {"dispensing", "refilling"}, Pour(r, c, state)
      PROVE  \E s \in {state, "failed"} : cmd' = [cmd EXCEPT ![r][c] = s]
  BY <1>3 DEF Pour, Set
<1>4. ASSUME OpenPopup(r, c)
      PROVE  \/ cmd' = [cmd EXCEPT ![r][c] = "popup"]
             \/ Halted(r) /\ cmd' = [cmd EXCEPT ![r][c] = "stopped"]
  BY <1>4 DEF OpenPopup, Set
<1>5. CASE Start(r, c)
  <2>1. run[r] \in Processing /\ c \in Group(r) /\ cmd[r][c] = "todo"
    BY <1>5 DEF Start
  <2>2. Pour(r, c, "dispensing") \/ OpenPopup(r, c)
    BY <1>5 DEF Start
  <2> QED
    BY <1>1, <1>3, <1>4, <2>1, <2>2 DEF Becomes
<1>6. ASSUME NEW short \in BOOLEAN, Poured(r, c, short) PROVE \E s \in CmdState : Becomes(r, c, s)
  <2>1. cmd[r][c] \in Active /\ (OpenPopup(r, c) \/ Set(r, c, "done"))
    BY <1>6 DEF Poured
  <2> QED
    BY <1>1, <1>2, <1>4, <2>1 DEF Becomes, Set
<1>7. ASSUME NEW empty \in BOOLEAN, Refused(r, c, empty) PROVE \E s \in CmdState : Becomes(r, c, s)
  <2>1. cmd[r][c] \in Active /\ (OpenPopup(r, c) \/ Set(r, c, "empty") \/ Set(r, c, "failed"))
    BY <1>7 DEF Refused
  <2> QED
    BY <1>1, <1>2, <1>4, <2>1 DEF Becomes, Set
<1>8. CASE Unanswered(r, c) \/ StopCommand(r, c)
  <2>1. cmd[r][c] \in Active /\ (Set(r, c, "failed") \/ (Halted(r) /\ Set(r, c, "stopped")))
    BY <1>8 DEF Unanswered, StopCommand
  <2> QED
    BY <1>1, <1>2, <2>1 DEF Becomes, Set
<1>9. CASE Confirm(r, c)
  <2>1. cmd[r][c] \in Active /\ (Pour(r, c, "refilling") \/ Set(r, c, "done"))
    BY <1>9 DEF Confirm
  <2> QED
    BY <1>1, <1>2, <1>3, <2>1 DEF Becomes, Set
<1> QED
  BY <1>5, <1>6, <1>7, <1>8, <1>9 DEF Answer

LEMMA BecomesKeepsOrder ==
  ASSUME TypeOK, OrderInv, NEW r \in Run, NEW c \in Command, NEW s \in CmdState, Becomes(r, c, s)
  PROVE  OrderInv'
<1>1. /\ run[r] \in Processing /\ c \in Group(r) /\ UNCHANGED <<run, step>>
      /\ cmd[r][c] \notin Failures \cup {"done", "stopped"}
      /\ s = "stopped" => Halted(r)
  BY DEF Becomes, Active, Failures
<1>2. /\ cmd'[r][c] = s
      /\ \A q \in Run, d \in Command : q # r \/ d # c => cmd'[q][d] = cmd[q][d]
  BY DEF TypeOK, Becomes
<1>3. \A q \in Run : Group(q)' = Group(q) /\ Group(q) \subseteq Command
  BY <1>1, GroupIsOfCommands DEF Group
<1>4. \A q \in Run : Halted(q) => Halted(q)'
  BY <1>1, <1>2, <1>3 DEF Halted
<1>5. TodoUntilBegun'
  BY <1>1, <1>2 DEF OrderInv, TodoUntilBegun, Processing
<1>6. GroupsAreDone'
  <2> SUFFICES ASSUME NEW q \in Run, run[q] \in Processing, NEW h \in 1..(step[q] - 1), NEW d \in Program[h]
               PROVE  cmd'[q][d] = "done"
    BY <1>1 DEF OrderInv, GroupsAreDone
  <2>1. cmd[q][d] = "done"
    BY DEF OrderInv, GroupsAreDone
  <2>2. d \in Command
    <3>1. h \in 1..Len(Program)
      <4>1. step[q] \in 0..Len(Program) \cup {1} /\ Len(Program) \in Nat
        BY RecipeAssumption DEF TypeOK
      <4> QED
        BY <4>1
    <3> QED
      BY <3>1, RecipeAssumption
  <2> QED
    BY <1>1, <1>2, <2>1, <2>2
<1>7. StopsHaveReasons'
  BY <1>1, <1>2, <1>4 DEF OrderInv, StopsHaveReasons
<1> QED
  BY <1>5, <1>6, <1>7 DEF OrderInv

(* A group that is followed by another one has been carried out.           *)
LEMMA NextGroup ==
  ASSUME TypeOK, NEW r \in Run, EndGroup(r), step' # step
  PROVE  /\ UNCHANGED <<posts, flag, run, result, cmd>>
         /\ step[r] < Len(Program) /\ step' = [step EXCEPT ![r] = @ + 1]
         /\ \A c \in Group(r) : cmd[r][c] = "done"
<1>1. \A outcome : EndRecipe(r, outcome) => step' = step
  BY DEF EndRecipe
<1>2. /\ Joined(r) /\ ~LastGroup(r) /\ step' = [step EXCEPT ![r] = @ + 1]
      /\ ~ \E c \in Group(r) : cmd[r][c] \in Failures \cup {"stopped"}
      /\ UNCHANGED <<posts, flag, run, result, cmd>>
  BY <1>1 DEF EndGroup
<1>3. step[r] \in Nat /\ Len(Program) \in Nat
  BY RecipeAssumption DEF TypeOK
<1> QED
  BY <1>2, <1>3 DEF Joined, Ended, LastGroup

(* The runs of recipes that are not being processed are changed at will.   *)
LEMMA RunsKeepOrder ==
  ASSUME TypeOK, TypeOK', OrderInv, NEW r \in Run, UNCHANGED <<step, cmd>>,
         \A q \in Run : q # r => run'[q] = run[q],
         \/ run[r] = "idle" /\ run'[r] = "started"
         \/ run[r] \in Processing /\ run'[r] = "stopping"
         \/ run[r] \notin {"idle", "started"} /\ run'[r] \notin {"idle", "started"} \cup Processing
  PROVE  OrderInv'
<1>1. TodoUntilBegun'
  BY DEF OrderInv, TodoUntilBegun, Processing
<1>2. GroupsAreDone'
  BY DEF OrderInv, GroupsAreDone, Processing
<1>3. \A q \in Run : run'[q] \in Processing /\ Halted(q) => Halted(q)'
  BY DEF Halted, Group, Processing
<1>4. StopsHaveReasons'
  BY <1>3 DEF OrderInv, StopsHaveReasons, Processing
<1> QED
  BY <1>1, <1>2, <1>4 DEF OrderInv

LEMMA EndKeepsOrder ==
  ASSUME TypeOK, TypeOK', OrderInv, NEW r \in Run, EndGroup(r)
  PROVE  OrderInv'
<1>1. run[r] \in Processing /\ run \in [Run -> RunState] /\ UNCHANGED cmd
  BY RecipeAdvances DEF TypeOK, RunState
<1>2. CASE step' = step
  <2>1. CASE UNCHANGED run
    BY <1>1, <1>2, <2>1 DEF OrderInv, TodoUntilBegun, GroupsAreDone, StopsHaveReasons, Halted, Group
  <2>2. CASE run' = [run EXCEPT ![r] = "finished"] \/ run' = [run EXCEPT ![r] = "stopped"]
    <3>1. /\ \A q \in Run : q # r => run'[q] = run[q]
          /\ run[r] \notin {"idle", "started"} /\ run'[r] \notin {"idle", "started"} \cup Processing
      BY <1>1, <2>2 DEF Processing
    <3> QED
      BY <1>1, <1>2, <3>1, RunsKeepOrder
  <2> QED
    BY <2>1, <2>2, RecipeAdvances
<1>3. CASE step' # step
  <2>1. /\ UNCHANGED run /\ step[r] < Len(Program) /\ step[r] >= 1 /\ step[r] \in Nat /\ Len(Program) \in Nat
        /\ step'[r] = step[r] + 1 /\ \A q \in Run : q # r => step'[q] = step[q]
        /\ \A c \in Group(r) : cmd[r][c] = "done"
    <3>1. step[r] >= 1
      BY <1>1 DEF OrderInv, GroupsAreDone
    <3> QED
      BY <1>3, <3>1, NextGroup, RecipeAssumption DEF TypeOK
  <2>2. Group(r) = Program[step[r]]
    BY <2>1 DEF Group
  <2>3. GroupsAreDone'
    <3> SUFFICES ASSUME NEW q \in Run, run[q] \in Processing
                 PROVE  step'[q] >= 1 /\ \A h \in 1..(step'[q] - 1) : \A c \in Program[h] : cmd[q][c] = "done"
      BY <1>1, <2>1 DEF GroupsAreDone
    <3>1. CASE q = r
      <4>1. \A h \in 1..(step'[r] - 1) : h \in 1..(step[r] - 1) \/ h = step[r]
        BY <2>1
      <4> QED
        BY <1>1, <2>1, <2>2, <3>1, <4>1 DEF OrderInv, GroupsAreDone
    <3>2. CASE q # r
      BY <2>1, <3>2 DEF OrderInv, GroupsAreDone
    <3> QED
      BY <3>1, <3>2
  <2>4. StopsHaveReasons'
    <3> SUFFICES ASSUME NEW q \in Run, NEW c \in Command, run[q] \in Processing, cmd[q][c] = "stopped"
                 PROVE  Halted(q)'
      BY <1>1, <2>1 DEF StopsHaveReasons
    <3>1. Halted(q)
      BY DEF OrderInv, StopsHaveReasons
    <3>2. CASE q = r
      BY <2>1, <3>1, <3>2 DEF Halted, Failures
    <3>3. CASE q # r
      BY <1>1, <2>1, <3>1, <3>3 DEF Halted, Group
    <3> QED
      BY <3>2, <3>3
  <2> QED
    BY <1>1, <2>1, <2>3, <2>4 DEF OrderInv, TodoUntilBegun
<1> QED
  BY <1>2, <1>3

LEMMA HandlersKeepOrder ==
  ASSUME TypeOK, TypeOK', QueueInv, OrderInv, NEW r \in Run, BeginRecipe(r) \/ Wake(r) \/ BeginSweep(r)
  PROVE  OrderInv'
<1>1. /\ UNCHANGED cmd /\ run \in [Run -> RunState] /\ 1 \in 1..Len(posts)
      /\ \E handler \in Handlers : posts[1] = Post(handler, r)
  BY DEF BeginRecipe, Wake, BeginSweep, NextPost, TypeOK, RunState, Handlers
<1>2. PostIsTimely(posts[1])
  BY <1>1 DEF QueueInv, PostsAreTimely
<1>3. CASE BeginRecipe(r)
  <2>1. /\ posts[1] = Post("begin", r) /\ step' = [step EXCEPT ![r] = 1]
        /\ run'[r] \in Processing /\ \A q \in Run : q # r => run'[q] = run[q]
    BY <1>1, <1>3 DEF BeginRecipe, NextPost, TypeOK, Processing
  <2>2. run[r] = "started" /\ \A c \in Command : cmd[r][c] = "todo"
    BY <1>2, <2>1 DEF PostIsTimely, Post, OrderInv, TodoUntilBegun
  <2>3. step'[r] = 1 /\ \A q \in Run : q # r => step'[q] = step[q]
    BY <2>1 DEF TypeOK
  <2>4. TodoUntilBegun'
    BY <1>1, <2>1, <2>2 DEF OrderInv, TodoUntilBegun
  <2>5. GroupsAreDone'
    <3> SUFFICES ASSUME NEW q \in Run, run'[q] \in Processing
                 PROVE  step'[q] >= 1 /\ \A h \in 1..(step'[q] - 1) : \A c \in Program[h] : cmd[q][c] = "done"
      BY <1>1 DEF GroupsAreDone
    <3>1. CASE q = r
      BY <2>3, <3>1
    <3>2. CASE q # r
      BY <2>1, <2>3, <3>2 DEF OrderInv, GroupsAreDone
    <3> QED
      BY <3>1, <3>2
  <2>6. StopsHaveReasons'
    BY <1>1, <2>1, <2>2, <2>3 DEF OrderInv, StopsHaveReasons, Halted, Group
  <2> QED
    BY <2>4, <2>5, <2>6 DEF OrderInv
<1>4. CASE Wake(r)
  <2>1. UNCHANGED step /\ run' = [run EXCEPT ![r] = IF @ = "running" THEN "stopping" ELSE @]
    BY <1>4 DEF Wake
  <2>2. CASE run' = run
    BY <1>1, <2>1, <2>2 DEF OrderInv, TodoUntilBegun, GroupsAreDone, StopsHaveReasons, Halted, Group
  <2>3. CASE run[r] = "running" /\ run'[r] = "stopping" /\ \A q \in Run : q # r => run'[q] = run[q]
    BY <1>1, <2>1, <2>3, RunsKeepOrder DEF Processing
  <2> QED
    BY <1>1, <2>1, <2>2, <2>3
<1>5. CASE BeginSweep(r)
  <2>1. /\ posts[1] = Post("sweep", r) /\ UNCHANGED step
        /\ run'[r] = "swept" /\ \A q \in Run : q # r => run'[q] = run[q]
    BY <1>1, <1>5 DEF BeginSweep, NextPost, TypeOK
  <2>2. run[r] \in {"stopped", "swept"}
    BY <1>2, <2>1 DEF PostIsTimely, Post
  <2> QED
    BY <1>1, <2>1, <2>2, RunsKeepOrder DEF Processing
<1> QED
  BY <1>3, <1>4, <1>5

LEMMA OrderStep == ASSUME TypeOK, TypeOK', QueueInv, CommandInv, OrderInv, [Next]_recipeVars PROVE OrderInv'
<1>1. CASE UNCHANGED <<run, step, cmd>>
  BY <1>1 DEF OrderInv, TodoUntilBegun, GroupsAreDone, StopsHaveReasons, Halted, Group
<1>2. ASSUME NEW r \in Run, ProcessActiveRecipe(r) PROVE OrderInv'
  <2>1. /\ UNCHANGED <<step, cmd>> /\ run[r] = "idle" /\ run'[r] = "started"
        /\ \A q \in Run : q # r => run'[q] = run[q]
    BY <1>2 DEF ProcessActiveRecipe, TypeOK
  <2> QED
    BY <2>1, RunsKeepOrder
<1>3. ASSUME NEW r \in Run, NEW c \in Command, CommandStep(r, c) PROVE OrderInv'
  <2>1. PourEnds(r, c) => UNCHANGED <<run, step, cmd>>
    BY DEF PourEnds
  <2> QED
    BY <1>1, <1>3, <2>1, CommandBecomes, BecomesKeepsOrder DEF CommandStep
<1>4. ASSUME NEW p \in Pod, \/ UnregisterPod(p) \/ RegisterPod(p)
                            \/ \E r \in Run, lost \in BOOLEAN : ForceSafeState(r, p, lost)
      PROVE  UNCHANGED <<run, step, cmd>>
  BY <1>4 DEF UnregisterPod, RegisterPod, ForceSafeState
<1>5. ASSUME NEW r \in Run, StartRecipe(r) PROVE UNCHANGED <<run, step, cmd>>
  BY <1>5 DEF StartRecipe
<1>6. AbortButton \/ LeavePage \/ ShowResult \/ AbortActiveRecipe \/ UNCHANGED recipeVars => UNCHANGED <<run, step, cmd>>
  BY DEF AbortButton, LeavePage, ShowResult, AbortActiveRecipe, recipeVars
<1> QED
  BY <1>1, <1>2, <1>3, <1>4, <1>5, <1>6, HandlersKeepOrder, EndKeepsOrder DEF Next, Guest, Handler

MixInv == AbortInv /\ OrderInv

(* A recipe that is told to stop was aborted, its groups are carried out   *)
(* in order, and its commands stop for a reason.                           *)
THEOREM MixCorrect == Spec => []MixInv
<1>1. Init => MixInv
  <2> SUFFICES ASSUME Init PROVE MixInv
    OBVIOUS
  <2>1. Len(posts) = 0 /\ \A r \in Run : run[r] = "idle" /\ \A c \in Command : cmd[r][c] = "todo"
    BY DEF Init
  <2> QED
    BY <2>1 DEF MixInv, AbortInv, WakesAreFlagged, BeginsAreOrdered, StoppingIsFlagged, OrderInv, TodoUntilBegun,
                GroupsAreDone, StopsHaveReasons, Processing
<1>2. TypeOK /\ TypeOK' /\ QueueInv /\ CommandInv /\ MixInv /\ [Next]_recipeVars => MixInv'
  BY AbortStep, OrderStep DEF MixInv
<1> QED
  BY <1>1, <1>2, TypeCorrect, QueueCorrect, CommandsCorrect, PTL DEF Spec
-----------------------------------------------------------------------------
(* The recipe implements Mixing: what each step looks like to the guest.   *)
Stages == [r \in Run |-> Stage(r)]
Progress == [r \in Run |-> [c \in Command |-> Seen(cmd[r][c])]]

LEMMA StagesAreSeen ==
  ASSUME NEW r \in Run
  PROVE  /\ run[r] \in {"idle", "started"} => Stages[r] = "waiting"
         /\ run[r] \in Processing => Stages[r] = "mixing"
         /\ run[r] \in {"finished", "stopped", "swept"} => Stages[r] = result[r]
BY DEF Stages, Stage, Processing

LEMMA ProgressIsSeen ==
  ASSUME NEW r \in Run, NEW c \in Command, cmd[r][c] \in CmdState
  PROVE  /\ Progress[r][c] = "begun" <=> cmd[r][c] \in Active
         /\ Progress[r][c] = "failed" <=> cmd[r][c] \in Failures
         /\ cmd[r][c] \in {"todo", "done", "stopped"} => Progress[r][c] = cmd[r][c]
<1>1. Progress[r][c] = Seen(cmd[r][c])
  BY DEF Progress
<1> QED
  BY <1>1 DEF Seen, CmdState, Active, Ended, Failures

LEMMA UnseenSteps ==
  ASSUME UNCHANGED <<flag, cmd>>, \A r \in Run : Stage(r)' = Stage(r)
  PROVE  UNCHANGED Mix!mixingVars
BY DEF Mix!mixingVars

(* A recipe begins after the one before it was aborted.                    *)
LEMMA BeginIsSeen ==
  ASSUME TypeOK, TypeOK', QueueInv, MixInv, NEW r \in Run, BeginRecipe(r)
  PROVE  Mix!BeginMixing(r)
<1>1. /\ posts[1] = Post("begin", r) /\ 1 \in 1..Len(posts) /\ UNCHANGED <<flag, cmd, result>>
      /\ run'[r] \in Processing /\ \A q \in Run : q # r => run'[q] = run[q]
  BY DEF BeginRecipe, NextPost, TypeOK, Processing
<1>2. posts[1].do = "begin" /\ posts[1].run = r
  BY <1>1 DEF Post
<1>3. run[r] = "started" /\ Begun(r)
  BY <1>1, <1>2 DEF QueueInv, PostsAreTimely, PostIsTimely, Begun
<1>4. Stages[r] = "waiting"
  BY <1>3, StagesAreSeen
<1>5. ASSUME NEW q \in Run, Stages[q] = "mixing" PROVE flag[q]
  <2> SUFFICES ASSUME ~flag[q] PROVE FALSE
    OBVIOUS
  <2>1. run[q] \notin {"idle", "started"}
    BY <1>5, StagesAreSeen
  <2>2. q < r
    BY <1>1, <1>2, <2>1 DEF MixInv, AbortInv, BeginsAreOrdered
  <2>3. active = q
    BY <2>1 DEF QueueInv, OthersAreFlagged, Begun
  <2>4. r <= active
    BY <1>3, <2>3, RunsAreNumbers DEF QueueInv, OthersAreFlagged
  <2> QED
    BY <2>2, <2>3, <2>4, RunsAreNumbers
<1>6. Stages' = [Stages EXCEPT ![r] = "mixing"]
  <2>1. Stage(r)' = "mixing" /\ \A q \in Run : q # r => Stage(q)' = Stage(q)
    BY <1>1 DEF Stage, Processing
  <2> QED
    BY <2>1 DEF Stages
<1>7. UNCHANGED Progress
  BY <1>1 DEF Progress
<1> QED
  BY <1>1, <1>4, <1>5, <1>6, <1>7 DEF Mix!BeginMixing, Stages, Progress

LEMMA AbortIsSeen ==
  ASSUME TypeOK, AbortActiveRecipe \/ \E r \in Run : StartRecipe(r)
  PROVE  (\E q \in Run : Mix!Abort(q)) \/ UNCHANGED Mix!mixingVars
<1>1. flag' = Raised /\ UNCHANGED <<run, cmd, result>>
  BY DEF AbortActiveRecipe, StartRecipe
<1>2. \A q \in Run : Stage(q)' = Stage(q)
  BY <1>1 DEF Stage
<1>3. UNCHANGED <<Stages, Progress>>
  BY <1>1, <1>2 DEF Stages, Progress
<1>4. CASE flag' = flag
  BY <1>1, <1>2, <1>4, UnseenSteps
<1>5. CASE flag' # flag
  <2>1. active \in Run /\ flag' = [flag EXCEPT ![active] = TRUE]
    BY <1>1, <1>5, RecipeAssumption DEF Raised, TypeOK, Run
  <2>2. ~flag[active]
    BY <1>5, <2>1 DEF TypeOK
  <2>3. Mix!Abort(active)
    BY <1>3, <2>1, <2>2 DEF Mix!Abort, Stages, Progress
  <2> QED
    BY <2>1, <2>3
<1> QED
  BY <1>4, <1>5

(* A command moves when it is its turn, and is given up for a reason.      *)
LEMMA TurnIsSeen ==
  ASSUME TypeOK, MixInv, NEW r \in Run, NEW c \in Command, run[r] \in Processing, c \in Group(r)
  PROVE  Mix!ItsTurn(r, c)
<1>1. step[r] \in DOMAIN Program /\ c \in Program[step[r]]
  BY RecipeAssumption DEF Group
<1>2. ASSUME NEW h \in 1..(step[r] - 1), NEW d \in Program[h] PROVE Progress[r][d] = "done"
  <2>1. cmd[r][d] = "done"
    BY DEF MixInv, OrderInv, GroupsAreDone
  <2>2. d \in Command
    <3>1. h \in 1..Len(Program)
      BY <1>1, RecipeAssumption
    <3> QED
      BY <3>1, RecipeAssumption
  <2> QED
    BY <2>1, <2>2 DEF Progress, Seen, Active, Failures
<1> QED
  BY <1>1, <1>2 DEF Mix!ItsTurn, Progress

LEMMA CommandIsSeen ==
  ASSUME TypeOK, MixInv, NEW r \in Run, NEW c \in Command, NEW s \in CmdState, Becomes(r, c, s)
  PROVE  Mix!CarryOut(r) \/ UNCHANGED Mix!mixingVars
<1>1. /\ run[r] \in Processing /\ c \in Group(r) /\ cmd[r][c] \in CmdState
      /\ UNCHANGED <<flag, run, result>> /\ cmd' = [cmd EXCEPT ![r][c] = s]
  BY DEF Becomes, TypeOK, CmdState
<1>2. Stages[r] = "mixing" /\ UNCHANGED Stages
  <2>1. \A q \in Run : Stage(q)' = Stage(q)
    BY <1>1 DEF Stage
  <2> QED
    BY <1>1, <2>1, StagesAreSeen DEF Stages
<1>3. Mix!ItsTurn(r, c)
  BY <1>1, TurnIsSeen
<1>4. Progress' = [Progress EXCEPT ![r][c] = Seen(s)] /\ Progress[r][c] = Seen(cmd[r][c])
  BY <1>1 DEF TypeOK, Progress
<1>5. ASSUME NEW from, NEW to, Seen(cmd[r][c]) \in from, Seen(s) = to PROVE Mix!Advance(r, c, from, to)
  BY <1>1, <1>2, <1>3, <1>4, <1>5 DEF Mix!Advance, Stages, Progress
<1>6. CASE cmd[r][c] = "todo" /\ s \in Active \cup {"failed"}
  <2>1. Seen(cmd[r][c]) = "todo" /\ Seen(s) \in {"begun", "failed"}
    BY <1>6 DEF Seen, Active, Failures
  <2>2. Mix!BeginCommand(r, c) \/ Mix!FailCommand(r, c)
    BY <1>5, <2>1 DEF Mix!BeginCommand, Mix!FailCommand
  <2> QED
    BY <1>2, <2>2 DEF Mix!CarryOut, Stages
<1>7. CASE cmd[r][c] \in Active /\ s \in Active
  <2>1. Progress' = Progress
    <3>1. Seen(cmd[r][c]) = "begun" /\ Seen(s) = "begun"
      BY <1>7 DEF Seen, Active, Failures
    <3>2. \A q \in Run, d \in Command : Seen(cmd'[q][d]) = Seen(cmd[q][d])
      <4>1. \A q \in Run, d \in Command : cmd'[q][d] = cmd[q][d] \/ (q = r /\ d = c /\ cmd'[q][d] = s)
        BY <1>1 DEF TypeOK
      <4> QED
        BY <3>1, <4>1
    <3> QED
      BY <3>2, Zenon DEF Progress
  <2> QED
    BY <1>1, <1>2, <2>1 DEF Mix!mixingVars, Stages, Progress
<1>8. CASE cmd[r][c] \in Active /\ s \in Failures \cup {"done"}
  <2>1. Seen(cmd[r][c]) = "begun" /\ Seen(s) \in {"done", "failed"}
    BY <1>8 DEF Seen, Active, Failures
  <2>2. Mix!FinishCommand(r, c) \/ Mix!FailCommand(r, c)
    BY <1>5, <2>1 DEF Mix!FinishCommand, Mix!FailCommand
  <2> QED
    BY <1>2, <2>2 DEF Mix!CarryOut, Stages
<1>9. CASE cmd[r][c] \in Active \cup {"todo"} /\ s = "stopped" /\ Halted(r)
  <2>1. Seen(cmd[r][c]) \in {"todo", "begun"} /\ Seen(s) = "stopped"
    BY <1>9 DEF Seen, Active, Failures
  <2>2. flag[r] \/ \E d \in Command : Progress[r][d] = "failed"
    <3>1. CASE run[r] = "stopping"
      BY <3>1 DEF MixInv, AbortInv, StoppingIsFlagged
    <3>2. ASSUME NEW d \in Group(r), cmd[r][d] \in Failures PROVE d \in Command /\ Progress[r][d] = "failed"
      BY <3>2, GroupIsOfCommands DEF Progress, Seen, Active, Failures
    <3> QED
      BY <1>9, <3>1, <3>2 DEF Halted
  <2>3. Mix!GiveUpCommand(r, c)
    BY <1>5, <2>1, <2>2 DEF Mix!GiveUpCommand, Progress
  <2> QED
    BY <1>2, <2>3 DEF Mix!CarryOut, Stages
<1> QED
  BY <1>6, <1>7, <1>8, <1>9 DEF Becomes

(* A recipe ends with a result that is true.                               *)
LEMMA EndIsSeen ==
  ASSUME TypeOK, TypeOK', CommandInv, MixInv, NEW r \in Run, EndGroup(r)
  PROVE  (\E outcome \in {"success", "error", "stopped"} : Mix!EndMixing(r, outcome)) \/ UNCHANGED Mix!mixingVars
<1> DEFINE Failed == \E c \in Group(r) : cmd[r][c] \in Failures
           GivenUp == \E c \in Group(r) : cmd[r][c] = "stopped"
<1>1. /\ run[r] \in Processing /\ Joined(r) /\ UNCHANGED <<flag, cmd>>
      /\ Group(r) \subseteq Command /\ cmd[r] \in [Command -> CmdState]
  BY RecipeAdvances, GroupIsOfCommands DEF TypeOK, CmdState
<1>2. ASSUME NEW outcome \in {"success", "error", "stopped"}, EndRecipe(r, outcome),
             outcome = "success" => \A g \in DOMAIN Program : \A c \in Program[g] : Progress[r][c] = "done",
             outcome = "error" => Failed,
             outcome = "stopped" => flag[r]
      PROVE  Mix!EndMixing(r, outcome)
  <2>1. Stages[r] = "mixing"
    BY <1>1, StagesAreSeen
  <2>2. \A c \in Command : Progress[r][c] # "begun"
    <3> SUFFICES ASSUME NEW c \in Command, cmd[r][c] \in Active PROVE FALSE
      BY <1>1, ProgressIsSeen
    <3>1. c \in Group(r)
      BY DEF CommandInv, ActiveInGroup
    <3> QED
      BY <1>1, <3>1 DEF Joined, Active, Ended, Failures
  <2>3. outcome = "error" => \E c \in Command : Progress[r][c] = "failed"
    BY <1>1, <1>2, ProgressIsSeen
  <2>4. Stages' = [Stages EXCEPT ![r] = outcome]
    <3>1. /\ result' = [result EXCEPT ![r] = outcome]
          /\ run' = [run EXCEPT ![r] = IF @ = "running" THEN "finished" ELSE "stopped"]
      BY <1>2 DEF EndRecipe
    <3>2. Stage(r)' = outcome /\ \A q \in Run : q # r => Stage(q)' = Stage(q)
      BY <3>1 DEF TypeOK, Stage, Processing
    <3> QED
      BY <3>2 DEF Stages
  <2>5. UNCHANGED Progress
    BY <1>1 DEF Progress
  <2> QED
    BY <1>1, <1>2, <2>1, <2>2, <2>3, <2>4, <2>5 DEF Mix!EndMixing, Stages, Progress
<1>3. GivenUp /\ ~Failed => run[r] = "stopping"
  BY <1>1 DEF MixInv, OrderInv, StopsHaveReasons, Halted
<1>4. run[r] = "stopping" => flag[r]
  BY DEF MixInv, AbortInv, StoppingIsFlagged
<1>5. ASSUME ~Failed, ~GivenUp, LastGroup(r), NEW g \in DOMAIN Program, NEW c \in Program[g]
      PROVE  Progress[r][c] = "done"
  <2>1. c \in Command /\ g \in 1..Len(Program) /\ Len(Program) \in Nat
    BY RecipeAssumption
  <2>2. step[r] = Len(Program) /\ Group(r) = Program[step[r]]
    BY <1>5, <2>1 DEF TypeOK, LastGroup, Group
  <2>3. cmd[r][c] = "done"
    <3>1. CASE g = step[r]
      BY <1>1, <1>5, <2>2, <3>1 DEF Joined, Ended
    <3>2. CASE g # step[r]
      <4>1. g \in 1..(step[r] - 1)
        BY <2>1, <2>2, <3>2
      <4> QED
        BY <1>1, <4>1 DEF MixInv, OrderInv, GroupsAreDone
    <3> QED
      BY <3>1, <3>2
  <2> QED
    BY <1>1, <2>1, <2>3, ProgressIsSeen
<1>6. CASE Failed
  <2>1. EndRecipe(r, "error")
    BY <1>6 DEF EndGroup
  <2> QED
    BY <1>2, <1>6, <2>1
<1>7. CASE ~Failed /\ (GivenUp \/ (run[r] = "stopping" /\ Cardinality(Group(r)) > 1))
  <2>1. EndRecipe(r, "stopped")
    BY <1>7 DEF EndGroup
  <2> QED
    BY <1>2, <1>3, <1>4, <1>7, <2>1
<1>8. CASE ~Failed /\ ~GivenUp /\ ~(run[r] = "stopping" /\ Cardinality(Group(r)) > 1) /\ LastGroup(r)
  <2>1. EndRecipe(r, "success")
    BY <1>8 DEF EndGroup
  <2> QED
    BY <1>2, <1>5, <1>8, <2>1
<1>9. CASE ~Failed /\ ~GivenUp /\ ~(run[r] = "stopping" /\ Cardinality(Group(r)) > 1) /\ ~LastGroup(r)
  <2>1. UNCHANGED <<run, result>>
    BY <1>9 DEF EndGroup
  <2> QED
    BY <1>1, <2>1, UnseenSteps DEF Stage
<1> QED
  BY <1>6, <1>7, <1>8, <1>9

(* Nothing else is seen by the guest.                                      *)
LEMMA RestIsUnseen ==
  ASSUME TypeOK, QueueInv, NEW r \in Run, ProcessActiveRecipe(r) \/ Wake(r) \/ BeginSweep(r)
  PROVE  UNCHANGED Mix!mixingVars
<1>1. UNCHANGED <<flag, cmd, result>> /\ run \in [Run -> RunState]
  BY DEF ProcessActiveRecipe, Wake, BeginSweep, TypeOK, RunState
<1>2. \/ run[r] = "idle" /\ run' = [run EXCEPT ![r] = "started"]
      \/ run' = [run EXCEPT ![r] = IF @ = "running" THEN "stopping" ELSE @]
      \/ run[r] \in {"stopped", "swept"} /\ run' = [run EXCEPT ![r] = "swept"]
  <2>1. CASE ProcessActiveRecipe(r) \/ Wake(r)
    BY <2>1 DEF ProcessActiveRecipe, Wake
  <2>2. CASE BeginSweep(r)
    <3>1. posts[1] = Post("sweep", r) /\ 1 \in 1..Len(posts)
      BY <2>2 DEF BeginSweep, NextPost, TypeOK
    <3>2. run[r] \in {"stopped", "swept"}
      BY <3>1 DEF QueueInv, PostsAreTimely, PostIsTimely, Post
    <3> QED
      BY <2>2, <3>2 DEF BeginSweep
  <2> QED
    BY <2>1, <2>2
<1>3. \A q \in Run : Stage(q)' = Stage(q)
  BY <1>1, <1>2 DEF Stage, Processing
<1> QED
  BY <1>1, <1>3, UnseenSteps

LEMMA MixStep ==
  ASSUME TypeOK, TypeOK', QueueInv, CommandInv, MixInv, [Next]_recipeVars
  PROVE  Mix!MixingNext \/ UNCHANGED Mix!mixingVars
<1>1. ASSUME UNCHANGED <<run, result, flag, cmd>> PROVE UNCHANGED Mix!mixingVars
  BY <1>1, UnseenSteps DEF Stage
<1>2. ASSUME NEW r \in Run, BeginRecipe(r) PROVE Mix!MixingNext
  BY <1>2, BeginIsSeen DEF Mix!MixingNext
<1>3. CASE AbortActiveRecipe \/ \E r \in Run : StartRecipe(r)
  BY <1>3, AbortIsSeen DEF Mix!MixingNext
<1>4. ASSUME NEW r \in Run, NEW c \in Command, CommandStep(r, c) PROVE Mix!MixingNext \/ UNCHANGED Mix!mixingVars
  <2>1. PourEnds(r, c) => UNCHANGED <<run, result, flag, cmd>>
    BY DEF PourEnds
  <2>2. ASSUME NEW s \in CmdState, Becomes(r, c, s) PROVE Mix!MixingNext \/ UNCHANGED Mix!mixingVars
    BY <2>2, CommandIsSeen DEF Mix!MixingNext
  <2> QED
    BY <1>1, <1>4, <2>1, <2>2, CommandBecomes DEF CommandStep
<1>5. ASSUME NEW r \in Run, EndGroup(r) PROVE Mix!MixingNext \/ UNCHANGED Mix!mixingVars
  BY <1>5, EndIsSeen DEF Mix!MixingNext, Mix!Results
<1>6. ASSUME NEW p \in Pod, \/ UnregisterPod(p) \/ RegisterPod(p)
                            \/ \E r \in Run, lost \in BOOLEAN : ForceSafeState(r, p, lost)
      PROVE  UNCHANGED <<run, result, flag, cmd>>
  BY <1>6 DEF UnregisterPod, RegisterPod, ForceSafeState
<1>7. AbortButton \/ LeavePage \/ ShowResult \/ UNCHANGED recipeVars => UNCHANGED <<run, result, flag, cmd>>
  BY DEF AbortButton, LeavePage, ShowResult, recipeVars
<1> QED
  BY <1>1, <1>2, <1>3, <1>4, <1>5, <1>6, <1>7, RestIsUnseen DEF Next, Guest, Handler

(* What the guest sees of threads, queues and Pods is Mixing: recipes one  *)
(* at a time, their groups in order, and results that are true.            *)
THEOREM MixingImplemented == Spec => MixingRefined
<1>1. Init => Mix!MixingInit
  <2> SUFFICES ASSUME Init PROVE Mix!MixingInit
    OBVIOUS
  <2>1. \A r \in Run : Stage(r) = "waiting" /\ \A c \in Command : Seen(cmd[r][c]) = "todo"
    <3>1. Seen("todo") = "todo"
      BY DEF Seen, Active, Failures
    <3>2. \A r \in Run : run[r] = "idle" /\ \A c \in Command : cmd[r][c] = "todo"
      BY DEF Init
    <3> QED
      BY <3>1, <3>2 DEF Stage, Processing
  <2>2. Stages = [r \in Run |-> "waiting"] /\ Progress = [r \in Run |-> [c \in Command |-> "todo"]]
    BY <2>1 DEF Stages, Progress
  <2> QED
    BY <2>2 DEF Init, Mix!MixingInit, Stages, Progress
<1>2. TypeOK /\ TypeOK' /\ QueueInv /\ CommandInv /\ MixInv /\ [Next]_recipeVars => [Mix!MixingNext]_(Mix!mixingVars)
  BY MixStep
<1> QED
  BY <1>1, <1>2, TypeCorrect, QueueCorrect, CommandsCorrect, MixCorrect, PTL DEF Spec, MixingRefined, Mix!MixingSpec
-----------------------------------------------------------------------------
(* What is posted for a run is handled by the one handler it is for.       *)
LEMMA QueuedStays ==
  ASSUME TypeOK, NEW k \in {0, 1}, Keeps(k), NEW handler, NEW r, Queued(handler, r),
         k = 1 => posts[1] # Post(handler, r)
  PROVE  Queued(handler, r)'
<1>1. PICK i \in 1..Len(posts) : posts[i] = Post(handler, r)
  BY DEF Queued
<1>2. i > k
  BY <1>1 DEF TypeOK
<1> QED
  BY <1>1, <1>2 DEF Keeps, Queued

(* A step that keeps the queue, stops no recipe and raises no flag.        *)
LEMMA QueueKeepsAborts ==
  ASSUME TypeOK, NoAbortIsLost, NEW k \in {0, 1}, Keeps(k),
         \A r \in Run : run'[r] = "running" /\ flag'[r] => run[r] = "running" /\ flag[r],
         \A r \in Run : run'[r] = "stopped" => run[r] = "stopped",
         k = 1 => \A r \in Run : /\ run'[r] = "running" /\ flag'[r] => posts[1] # Post("wake", r)
                                 /\ run'[r] = "stopped" => posts[1] # Post("sweep", r)
  PROVE  NoAbortIsLost'
<1>1. ASSUME NEW r \in Run, run'[r] = "running", flag'[r] PROVE Queued("wake", r)'
  BY <1>1, QueuedStays DEF NoAbortIsLost
<1>2. ASSUME NEW r \in Run, run'[r] = "stopped" PROVE Queued("sweep", r)'
  BY <1>2, QueuedStays DEF NoAbortIsLost
<1> QED
  BY <1>1, <1>2 DEF NoAbortIsLost

(* Raising the flag of a recipe in progress posts its wake.                *)
LEMMA RaiseIsHeard ==
  ASSUME TypeOK, NoAbortIsLost, NEW new \in Seq(AnyPost), posts # <<>>, posts' = Tail(posts) \o new, posts[1].do \in {"abort", "start"},
         UNCHANGED run, flag' = Raised,
         Wakes # <<>> => \E i \in 1..Len(new) : new[i] = Post("wake", active)
  PROVE  NoAbortIsLost'
<1>1. Keeps(1) /\ \A r \in Run : posts[1] \notin {Post("wake", r), Post("sweep", r)}
  BY TailKeeps DEF Post
<1>2. ASSUME NEW r \in Run, run[r] = "running", flag'[r] PROVE Queued("wake", r)'
  <2>1. CASE flag[r]
    BY <1>1, <1>2, <2>1, QueuedStays DEF NoAbortIsLost
  <2>2. CASE ~flag[r]
    <3>1. r = active /\ active # 0
      BY <1>2, <2>2 DEF Raised, TypeOK
    <3>2. Wakes = <<Post("wake", active)>>
      BY <1>2, <2>2, <3>1 DEF Wakes, Processing
    <3>3. PICK i \in 1..Len(new) : new[i] = Post("wake", r)
      BY <3>1, <3>2
    <3>4. Tail(posts) \in Seq(AnyPost)
      BY DEF TypeOK, AnyPost
    <3>5. Len(Tail(posts)) + i \in 1..Len(posts') /\ posts'[Len(Tail(posts)) + i] = new[i]
      BY <3>4
    <3> QED
      BY <3>3, <3>5 DEF Queued
  <2> QED
    BY <2>1, <2>2
<1>3. ASSUME NEW r \in Run, run[r] = "stopped" PROVE Queued("sweep", r)'
  BY <1>1, <1>3, QueuedStays DEF NoAbortIsLost
<1> QED
  BY <1>2, <1>3 DEF NoAbortIsLost

LEMMA AppendIsLast ==
  ASSUME NEW S, NEW s \in Seq(S), NEW t \in Seq(S), NEW x \in S
  PROVE  s \o t \o <<x>> = s \o Append(t, x)
OBVIOUS

LEMMA HandlersKeepHeard ==
  ASSUME TypeOK, QueueInv, NoAbortIsLost, Handler
  PROVE  NoAbortIsLost'
<1>1. posts # <<>> /\ 1 \in 1..Len(posts) /\ posts[1] = Head(posts) /\ posts \in Seq(AnyPost) /\ PostIsTimely(posts[1])
  <2>1. posts # <<>> /\ posts \in Seq(AnyPost)
    BY DEF Handler, AbortActiveRecipe, StartRecipe, BeginRecipe, Wake, BeginSweep, NextPost, TypeOK, AnyPost
  <2> QED
    BY <2>1 DEF QueueInv, PostsAreTimely
<1>2. CASE AbortActiveRecipe
  <2>1. /\ posts' = Tail(posts) \o Wakes /\ UNCHANGED run /\ flag' = Raised /\ posts[1].do = "abort"
        /\ Wakes \in Seq(AnyPost)
    BY <1>1, <1>2, WakesIsTyped DEF AbortActiveRecipe, NextPost, Post
  <2>2. Wakes # <<>> => \E i \in 1..Len(Wakes) : Wakes[i] = Post("wake", active)
    BY DEF Wakes
  <2> QED
    BY <1>1, <2>1, <2>2, RaiseIsHeard
<1>3. ASSUME NEW r \in Run, StartRecipe(r) PROVE NoAbortIsLost'
  <2> DEFINE b == Post("begin", r)
  <2>1. /\ posts' = Tail(posts) \o Wakes \o <<b>> /\ UNCHANGED run /\ flag' = Raised /\ posts[1].do = "start"
        /\ Wakes \in Seq(AnyPost) /\ b \in AnyPost
    BY <1>1, <1>3, WakesIsTyped, RunsAreNumbers, PostsAreTyped DEF StartRecipe, NextPost, Post, Handlers
  <2> HIDE DEF b
  <2>2. Append(Wakes, b) \in Seq(AnyPost) /\ posts' = Tail(posts) \o Append(Wakes, b)
    <3>1. Tail(posts) \in Seq(AnyPost)
      BY <1>1
    <3>2. posts' = Tail(posts) \o Append(Wakes, b)
      BY <2>1, <3>1, AppendIsLast
    <3>3. Append(Wakes, b) \in Seq(AnyPost)
      BY <2>1
    <3> QED
      BY <3>2, <3>3
  <2>3. Wakes # <<>> => \E i \in 1..Len(Append(Wakes, b)) : Append(Wakes, b)[i] = Post("wake", active)
    <3> SUFFICES ASSUME Wakes # <<>> PROVE 1 \in 1..Len(Append(Wakes, b)) /\ Append(Wakes, b)[1] = Post("wake", active)
      OBVIOUS
    <3>1. Wakes = <<Post("wake", active)>>
      BY DEF Wakes
    <3> QED
      BY <2>1, <3>1
  <2> QED
    BY <1>1, <2>1, <2>2, <2>3, RaiseIsHeard
<1>4. ASSUME posts' = Tail(posts) PROVE Keeps(1)
  BY <1>1, <1>4 DEF Keeps
<1>5. ASSUME NEW r \in Run, BeginRecipe(r) PROVE NoAbortIsLost'
  <2>1. /\ posts[1] = Post("begin", r) /\ posts' = Tail(posts) /\ UNCHANGED flag
        /\ run' = [run EXCEPT ![r] = IF flag[r] THEN "stopping" ELSE "running"] /\ run \in [Run -> RunState]
    BY <1>1, <1>5 DEF BeginRecipe, NextPost, TypeOK, RunState
  <2>2. \A q \in Run : posts[1] \notin {Post("wake", q), Post("sweep", q)}
    BY <2>1 DEF Post
  <2> QED
    BY <1>4, <2>1, <2>2, QueueKeepsAborts
<1>6. ASSUME NEW r \in Run, Wake(r) PROVE NoAbortIsLost'
  <2>1. /\ posts[1] = Post("wake", r) /\ posts' = Tail(posts) /\ UNCHANGED flag
        /\ run' = [run EXCEPT ![r] = IF @ = "running" THEN "stopping" ELSE @] /\ run \in [Run -> RunState]
    BY <1>1, <1>6 DEF Wake, NextPost, TypeOK, RunState
  <2>2. \A q \in Run : posts[1] # Post("sweep", q) /\ (q # r => posts[1] # Post("wake", q))
    BY <2>1 DEF Post
  <2> QED
    BY <1>4, <2>1, <2>2, QueueKeepsAborts
<1>7. ASSUME NEW r \in Run, BeginSweep(r) PROVE NoAbortIsLost'
  <2>1. /\ posts[1] = Post("sweep", r) /\ posts' = Tail(posts) /\ UNCHANGED flag
        /\ run' = [run EXCEPT ![r] = "swept"] /\ run \in [Run -> RunState]
    BY <1>1, <1>7 DEF BeginSweep, NextPost, TypeOK, RunState
  <2>2. \A q \in Run : posts[1] # Post("wake", q) /\ (q # r => posts[1] # Post("sweep", q))
    BY <2>1 DEF Post
  <2> QED
    BY <1>4, <2>1, <2>2, QueueKeepsAborts
<1> QED
  BY <1>2, <1>3, <1>5, <1>6, <1>7 DEF Handler

LEMMA HeardStep == ASSUME TypeOK, QueueInv, NoAbortIsLost, [Next]_recipeVars PROVE NoAbortIsLost'
<1>1. CASE UNCHANGED <<posts, flag, run>>
  <2>1. Keeps(0)
    BY <1>1 DEF Keeps, TypeOK
  <2> QED
    BY <1>1, <2>1, QueueKeepsAborts
<1>2. CASE LeavePage \/ ShowResult
  <2>1. UNCHANGED <<run, flag>> /\ (UNCHANGED posts \/ posts' = Append(posts, Post("abort", 0)))
    BY <1>2 DEF LeavePage, ShowResult, Navigate
  <2>2. CASE posts' = Append(posts, Post("abort", 0))
    BY <2>1, <2>2, AppendKeeps, QueueKeepsAborts
  <2> QED
    BY <1>1, <2>1, <2>2
<1>3. ASSUME NEW r \in Run, ProcessActiveRecipe(r) PROVE NoAbortIsLost'
  <2>1. /\ run' = [run EXCEPT ![r] = "started"] /\ run \in [Run -> RunState] /\ UNCHANGED flag
        /\ posts' = Append(posts, Post("start", r))
    BY <1>3 DEF ProcessActiveRecipe, TypeOK, RunState
  <2>2. Keeps(0)
    BY <2>1, AppendKeeps
  <2> QED
    BY <2>1, <2>2, QueueKeepsAborts
<1>4. ASSUME NEW r \in Run, EndGroup(r) PROVE NoAbortIsLost'
  <2>1. UNCHANGED flag /\ run[r] \in Processing /\ run \in [Run -> RunState]
    BY <1>4, RecipeAdvances DEF TypeOK, RunState
  <2>2. CASE run' = [run EXCEPT ![r] = "finished"] /\ posts' = posts
    <3>1. Keeps(0)
      BY <2>2 DEF Keeps, TypeOK
    <3> QED
      BY <2>1, <2>2, <3>1, QueueKeepsAborts
  <2>3. CASE run' = [run EXCEPT ![r] = "stopped"] /\ posts' = Append(posts, Post("sweep", r))
    <3>1. Keeps(0) /\ Len(posts) + 1 \in 1..Len(posts') /\ posts'[Len(posts) + 1] = Post("sweep", r)
      BY <2>3, AppendKeeps DEF TypeOK
    <3>2. \A q \in Run : run'[q] = "running" /\ flag'[q] => Queued("wake", q)'
      BY <2>1, <2>3, <3>1, QueuedStays DEF NoAbortIsLost
    <3>3. \A q \in Run : run'[q] = "stopped" => Queued("sweep", q)'
      <4>1. Queued("sweep", r)'
        BY <3>1 DEF Queued
      <4>2. ASSUME NEW q \in Run, q # r, run'[q] = "stopped" PROVE Queued("sweep", q)'
        BY <2>1, <2>3, <3>1, <4>2, QueuedStays DEF NoAbortIsLost
      <4> QED
        BY <4>1, <4>2
    <3> QED
      BY <3>2, <3>3 DEF NoAbortIsLost
  <2> QED
    BY <1>1, <1>4, <2>1, <2>2, <2>3, RecipeAdvances
<1>5. ASSUME NEW r \in Run, NEW c \in Command, CommandStep(r, c) PROVE UNCHANGED <<posts, flag, run>>
  BY <1>5, CommandMoves DEF CommandStep, Moves, PourEnds
<1>6. ASSUME NEW p \in Pod, \/ UnregisterPod(p) \/ RegisterPod(p)
                            \/ \E r \in Run, lost \in BOOLEAN : ForceSafeState(r, p, lost)
      PROVE  UNCHANGED <<posts, flag, run>>
  BY <1>6 DEF UnregisterPod, RegisterPod, ForceSafeState
<1>7. AbortButton \/ UNCHANGED recipeVars => UNCHANGED <<posts, flag, run>>
  BY DEF AbortButton, recipeVars
<1> QED
  BY <1>1, <1>2, <1>3, <1>4, <1>5, <1>6, <1>7, HandlersKeepHeard DEF Next, Guest

(* An abort that came before, during or after the start of the wait for it *)
(* is heard, and a recipe that it has stopped is swept.                    *)
THEOREM AbortsAreHeard == Spec => []NoAbortIsLost
<1>1. Init => NoAbortIsLost
  BY DEF Init, NoAbortIsLost
<1>2. TypeOK /\ QueueInv /\ NoAbortIsLost /\ [Next]_recipeVars => NoAbortIsLost'
  BY HeardStep
<1> QED
  BY <1>1, <1>2, TypeCorrect, QueueCorrect, PTL DEF Spec
=============================================================================
