------------------------------ MODULE Mixing ------------------------------
(***************************************************************************)
(* What the guest may rely on when a recipe is mixed, stated without       *)
(* threads, queues, Pods or popups: recipes are mixed one at a time, the   *)
(* commands of a recipe are carried out group by group, and the result     *)
(* says what has become of them.                                           *)
(*                                                                         *)
(*   "success"  every command of the recipe has been carried out;          *)
(*   "error"    a command has failed;                                      *)
(*   "stopped"  the recipe was aborted.                                    *)
(*                                                                         *)
(* A command is given up only when it fails itself, when the recipe was    *)
(* aborted, or when another command of it has failed; and no command       *)
(* begins, or is still in progress, when there is a result.                *)
(* RecipeProcess implements this specification.                            *)
(***************************************************************************)
EXTENDS Naturals, Sequences

CONSTANTS Run,       \* the recipes that are started, one after another
          Command,   \* the commands of a recipe
          Program    \* its groups of parallel commands, in order

VARIABLES
  stage,     \* "waiting", "mixing" or the result of each run
  aborted,   \* it was aborted, by the guest or by a later start
  progress   \* what has become of each of its commands

mixingVars == <<stage, aborted, progress>>

Results == {"success", "error", "stopped"}

(* Every command of the groups before it has been carried out.             *)
ItsTurn(r, c) ==
  \E g \in DOMAIN Program :
     /\ c \in Program[g]
     /\ \A h \in 1..(g - 1) : \A d \in Program[h] : progress[r][d] = "done"

MixingInit ==
  /\ stage = [r \in Run |-> "waiting"]
  /\ aborted = [r \in Run |-> FALSE]
  /\ progress = [r \in Run |-> [c \in Command |-> "todo"]]

(* A recipe begins when every other one that is not over was aborted.      *)
BeginMixing(r) ==
  /\ stage[r] = "waiting"
  /\ \A q \in Run : stage[q] = "mixing" => aborted[q]
  /\ stage' = [stage EXCEPT ![r] = "mixing"]
  /\ UNCHANGED <<aborted, progress>>

Abort(r) ==
  /\ ~aborted[r]
  /\ aborted' = [aborted EXCEPT ![r] = TRUE]
  /\ UNCHANGED <<stage, progress>>

Advance(r, c, from, to) ==
  /\ progress[r][c] \in from /\ ItsTurn(r, c)
  /\ progress' = [progress EXCEPT ![r][c] = to]
  /\ UNCHANGED <<stage, aborted>>

BeginCommand(r, c)  == Advance(r, c, {"todo"}, "begun")
FinishCommand(r, c) == Advance(r, c, {"begun"}, "done")
FailCommand(r, c)   == Advance(r, c, {"todo", "begun"}, "failed")

GiveUpCommand(r, c) ==
  /\ Advance(r, c, {"todo", "begun"}, "stopped")
  /\ aborted[r] \/ \E d \in Command : progress[r][d] = "failed"

EndMixing(r, result) ==
  /\ stage[r] = "mixing"
  /\ \A c \in Command : progress[r][c] # "begun"
  /\ result = "success" => \A g \in DOMAIN Program : \A c \in Program[g] : progress[r][c] = "done"
  /\ result = "error" => \E c \in Command : progress[r][c] = "failed"
  /\ result = "stopped" => aborted[r]
  /\ stage' = [stage EXCEPT ![r] = result]
  /\ UNCHANGED <<aborted, progress>>

(* Commands are only carried out between the beginning and the result.     *)
CarryOut(r) ==
  /\ stage[r] = "mixing"
  /\ \E c \in Command : BeginCommand(r, c) \/ FinishCommand(r, c) \/ FailCommand(r, c) \/ GiveUpCommand(r, c)

MixingNext ==
  \E r \in Run :
     \/ BeginMixing(r) \/ Abort(r) \/ CarryOut(r)
     \/ \E result \in Results : EndMixing(r, result)

MixingSpec == MixingInit /\ [][MixingNext]_mixingVars
=============================================================================
