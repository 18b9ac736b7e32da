---------------------------- MODULE ManualPopup ----------------------------
(***************************************************************************)
(* The popup of a manual command (gui/src/async_ui.cppm): operations that  *)
(* wait on the io thread share the one popup of the window, and the one    *)
(* callback behind its button, on the Slint thread.  The io thread (a stop *)
(* request) and the Slint thread (the button) race for each operation.     *)
(*                                                                         *)
(* The steps of a closure of the Slint thread are separate here, so that   *)
(* the io thread can come in between wherever no mutex is held.            *)
(***************************************************************************)
EXTENDS Naturals, Sequences, FiniteSets

CONSTANTS
  Operation,   \* the popup operations of a run of the station
  NoOperation, \* a null pointer, an empty closure
  MaxOpen      \* how many commands of a recipe wait for the guest at once

ASSUME PopupAssumption ==
  /\ NoOperation \notin Operation
  /\ MaxOpen \in Nat

VARIABLES
  stop,        \* the commands of the current recipe are asked to stop
  state,       \* how far each operation is
  completed,   \* PopupState::completed
  pointer,     \* PopupState::operation
  closures,    \* invoke_from_event_loop(): closures of the Slint thread
  slint,       \* the closure the Slint thread is in the middle of
  popup,       \* the operation whose command the open popup shows
  handler,     \* the operation on_manual_command_confirmed() would confirm
  completions  \* posted to the io thread

popupVars == <<stop, state, completed, pointer, closures, slint, popup, handler, completions>>

Closure(name, o) == [do |-> name, op |-> o]
Idle    == Closure("idle", NoOperation)
Asking == {o \in Operation : state[o] = "waiting"}
Settled   == {"confirmed", "stopped"}

PopupInit ==
  /\ stop = FALSE
  /\ state = [o \in Operation |-> "idle"]
  /\ completed = [o \in Operation |-> FALSE]
  /\ pointer = [o \in Operation |-> NoOperation]
  /\ closures = <<>>
  /\ slint = Idle
  /\ popup = NoOperation
  /\ handler = NoOperation
  /\ completions = <<>>
-----------------------------------------------------------------------------
(* The io thread.                                                          *)

(* An abort or a failed sibling stops every command of the recipe, through *)
(* one stop token.  The next recipe has a token of its own.                *)
RequestStop ==
  /\ ~stop
  /\ stop' = TRUE
  /\ UNCHANGED <<state, completed, pointer, closures, slint, popup, handler, completions>>

NextRecipe ==
  /\ stop /\ Asking = {}
  /\ stop' = FALSE
  /\ UNCHANGED <<state, completed, pointer, closures, slint, popup, handler, completions>>

ShowManualCommand(o) ==
  /\ state[o] = "idle" /\ ~stop
  /\ Cardinality(Asking) < MaxOpen
  /\ state' = [state EXCEPT ![o] = "waiting"]
  /\ pointer' = [pointer EXCEPT ![o] = o]
  /\ closures' = Append(closures, Closure("open", o))
  /\ UNCHANGED <<stop, completed, slint, popup, handler, completions>>

(* A command that is started after the stop request shows nothing.         *)
StartStopped(o) ==
  /\ state[o] = "idle" /\ stop
  /\ state' = [state EXCEPT ![o] = "stopped"]
  /\ UNCHANGED <<stop, completed, pointer, closures, slint, popup, handler, completions>>

(* Mutant: a stop request does not ask whether the guest was first. *)
FinishStopped_Unclaimed(o) ==
  /\ state[o] = "waiting" /\ stop
  /\ completed' = [completed EXCEPT ![o] = TRUE]
  /\ closures' = Append(closures, Closure("close", o))
  /\ state' = [state EXCEPT ![o] = "stopped"]
  /\ UNCHANGED <<stop, pointer, slint, popup, handler, completions>>

(* Mutant: a stopped operation leaves its popup on the screen. *)
FinishStopped_NoClose(o) ==
  /\ state[o] = "waiting" /\ stop
  /\ ~completed[o]
  /\ completed' = [completed EXCEPT ![o] = TRUE]
  /\ state' = [state EXCEPT ![o] = "stopped"]
  /\ UNCHANGED <<stop, pointer, closures, slint, popup, handler, completions>>

(* A stop request, unless the guest was first: claim_completion().         *)
FinishStopped(o) ==
  /\ state[o] = "waiting" /\ stop
  /\ ~completed[o]
  /\ completed' = [completed EXCEPT ![o] = TRUE]
  /\ closures' = Append(closures, Closure("close", o))
  /\ state' = [state EXCEPT ![o] = "stopped"]
  /\ UNCHANGED <<stop, pointer, slint, popup, handler, completions>>

FinishConfirmed ==
  /\ completions # <<>>
  /\ completions' = Tail(completions)
  /\ state' = [state EXCEPT ![Head(completions)] = "confirmed"]
  /\ UNCHANGED <<stop, completed, pointer, closures, slint, popup, handler>>
-----------------------------------------------------------------------------
(* The Slint thread.                                                       *)

(* The next closure begins: `completed' is read under the mutex, and the   *)
(* popup is opened after it was unlocked.                                  *)
OpenOperation(o) ==
  /\ slint = Idle
  /\ closures # <<>> /\ Head(closures) = Closure("open", o)
  /\ closures' = Tail(closures)
  /\ slint' = IF completed[o] THEN Idle ELSE Closure("show", o)
  /\ UNCHANGED <<stop, state, completed, pointer, popup, handler, completions>>

ShowPopup(o) ==
  /\ slint = Closure("show", o)
  /\ slint' = Idle
  /\ popup' = o
  /\ handler' = o
  /\ UNCHANGED <<stop, state, completed, pointer, closures, completions>>

(* close_popup() names no operation: it closes whatever popup is open.     *)
ClosePopup(o) ==
  /\ slint = Idle
  /\ closures # <<>> /\ Head(closures) = Closure("close", o)
  /\ closures' = Tail(closures)
  /\ popup' = NoOperation
  /\ handler' = NoOperation
  /\ UNCHANGED <<stop, state, completed, pointer, slint, completions>>

(* The guest presses the button: the popup closes itself, then confirm()   *)
(* claims the operation.                                                   *)
PressButton ==
  /\ slint = Idle
  /\ popup # NoOperation
  /\ popup' = NoOperation
  /\ IF handler # NoOperation /\ ~completed[handler]
     THEN /\ completed' = [completed EXCEPT ![handler] = TRUE]
          /\ slint' = Closure("claimed", handler)
     ELSE UNCHANGED <<completed, slint>>
  /\ UNCHANGED <<stop, state, pointer, closures, handler, completions>>

(* Mutant: the operation is completed before its popup is torn down. *)
FinishConfirm_PostsFirst(o) ==
  \/ /\ slint = Closure("claimed", o)
     /\ completions' = Append(completions, pointer[o])
     /\ slint' = Closure("closing", o)
     /\ UNCHANGED <<stop, state, completed, pointer, closures, popup, handler>>
  \/ /\ slint = Closure("closing", o)
     /\ closures' = Append(closures, Closure("close", o))
     /\ slint' = Idle
     /\ UNCHANGED <<stop, state, completed, pointer, popup, handler, completions>>

(* The rest of confirm(): the closing is queued before the completion.     *)
FinishConfirm(o) ==
  \/ /\ slint = Closure("claimed", o)
     /\ closures' = Append(closures, Closure("close", o))
     /\ slint' = Closure("closing", o)
     /\ UNCHANGED <<stop, state, completed, pointer, popup, handler, completions>>
  \/ /\ slint = Closure("closing", o)
     /\ completions' = Append(completions, pointer[o])
     /\ slint' = Idle
     /\ UNCHANGED <<stop, state, completed, pointer, closures, popup, handler>>
-----------------------------------------------------------------------------
SlintStep == \E o \in Operation :
  OpenOperation(o) \/ ShowPopup(o) \/ ClosePopup(o) \/ FinishConfirm(o)

PopupNext ==
  \/ \E o \in Operation : ShowManualCommand(o) \/ StartStopped(o) \/ FinishStopped(o)
  \/ RequestStop \/ NextRecipe
  \/ FinishConfirmed
  \/ SlintStep
  \/ PressButton

(* Both event loops run, a stop request reaches every operation, and the   *)
(* guest answers a popup that stays open.  Nobody needs to stop a recipe.  *)
PopupFairness ==
  /\ WF_popupVars(\E o \in Operation : FinishStopped(o))
  /\ WF_popupVars(FinishConfirmed)
  /\ WF_popupVars(SlintStep)
  /\ WF_popupVars(PressButton)

PopupSpec == PopupInit /\ [][PopupNext]_popupVars
FairPopupSpec == PopupSpec /\ PopupFairness
-----------------------------------------------------------------------------
Closures == [do : {"open", "close"}, op : Operation]

PopupTypeOK ==
  /\ stop \in BOOLEAN
  /\ state \in [Operation -> {"idle", "waiting"} \cup Settled]
  /\ completed \in [Operation -> BOOLEAN]
  /\ pointer \in [Operation -> Operation \cup {NoOperation}]
  /\ closures \in Seq(Closures)
  /\ slint \in [do : {"show", "claimed", "closing"}, op : Operation] \cup {Idle}
  /\ popup \in Operation \cup {NoOperation}
  /\ handler \in Operation \cup {NoOperation}
  /\ completions \in Seq(Operation)

(* A completion runs on a raw pointer: the operation must still wait when  *)
(* it does, and must not be completed twice.                               *)
CompletionFindsItsOperation ==
  /\ \A i \in 1..Len(completions) : state[completions[i]] = "waiting"
  /\ \A i, j \in 1..Len(completions) : completions[i] = completions[j] => i = j

(* No ghost popup: the popup on the screen belongs to a command that waits *)
(* for the guest, or its closing is already queued.                        *)
ShownPopupIsWanted ==
  popup # NoOperation =>
    \/ handler = popup /\ ~completed[popup]
    \/ \E i \in 1..Len(closures) : closures[i].do = "close"

ClosesBehind(i) == \E j \in (i + 1)..Len(closures) : closures[j].do = "close"

(* With one command at a time, an operation that waits is not forgotten:   *)
(* its popup is queued, open or answered, and nothing that is queued will  *)
(* close it before the guest has seen it.                                  *)
NoWaitIsForgotten ==
  \A o \in Asking :
    \/ /\ ~completed[o]
       /\ \/ \E i \in 1..Len(closures) : closures[i] = Closure("open", o) /\ ~ClosesBehind(i)
          \/ slint = Closure("show", o) /\ ~ClosesBehind(0)
          \/ slint = Idle /\ popup = o /\ handler = o /\ ~ClosesBehind(0)
    \/ slint \in {Closure("claimed", o), Closure("closing", o)}
    \/ \E i \in 1..Len(completions) : completions[i] = o

(* "This sender shows the manual command popup and completes once the      *)
(* operator confirmed it": with a guest who answers every popup, every     *)
(* operation completes.                                                    *)
EveryPopupIsAnswered ==
  \A o \in Operation : state[o] = "waiting" ~> state[o] \in Settled
=============================================================================
