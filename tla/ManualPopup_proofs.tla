------------------------ MODULE ManualPopup_proofs ------------------------
(***************************************************************************)
(* Theorems about ManualPopup, for any set of operations and any number of *)
(* them that wait at the same time; and, with one at a time, that none is  *)
(* forgotten.                                                              *)
(***************************************************************************)
EXTENDS ManualPopup, FiniteSetTheorems, TLAPS

(* A waiting operation can be completed through its pointer.               *)
WaitersArePointedTo ==
  \A o \in Operation : state[o] = "waiting" => pointer[o] = o

(* The operation waits and is claimed: nobody else completes it.           *)
Claimed(o) == state[o] = "waiting" /\ completed[o]

(* A completion that is posted, or that confirm() is about to post, is for *)
(* a claimed operation, and there is one completion for it.                *)
PostsAreClaimed ==
  /\ \A i \in 1..Len(completions) : Claimed(completions[i])
  /\ \A i, j \in 1..Len(completions) : completions[i] = completions[j] => i = j
ConfirmIsClaimed ==
  slint.do \in {"claimed", "closing"} =>
     /\ Claimed(slint.op)
     /\ \A i \in 1..Len(completions) : completions[i] # slint.op

(* What the Slint thread may confirm has begun to wait.                    *)
Known(o) == state[o] = "waiting" \/ completed[o]
ClosuresAreKnown == \A i \in 1..Len(closures) : Known(closures[i].op)
ShownIsKnown     == slint.do = "show" => Known(slint.op)
HandlerIsKnown   == handler # NoOperation => Known(handler)
SlintIsKnown     == ClosuresAreKnown /\ ShownIsKnown /\ HandlerIsKnown

(* The inductive invariant.                                                *)
PopupInv ==
  /\ PopupTypeOK
  /\ WaitersArePointedTo
  /\ PostsAreClaimed
  /\ ConfirmIsClaimed
  /\ SlintIsKnown

USE DEF Closure, Idle, Settled

(* What an operation of the io thread may do to the state of the others.   *)
LEMMA KnownStaysKnown ==
  ASSUME PopupTypeOK, NEW q \in Operation, Known(q), [PopupNext]_popupVars,
         \A i \in 1..Len(completions) : completed[completions[i]]
  PROVE  Known(q)'
<1>1. ASSUME NEW o \in Operation, ShowManualCommand(o) \/ StartStopped(o) \/ FinishStopped(o)
      PROVE  Known(q)'
  BY <1>1 DEF ShowManualCommand, StartStopped, FinishStopped, Known, PopupTypeOK
<1>2. CASE FinishConfirmed
  <2>1. completions[1] \in Operation /\ completed[completions[1]] /\ Head(completions) = completions[1]
    BY <1>2 DEF FinishConfirmed, PopupTypeOK
  <2> QED
    BY <1>2, <2>1 DEF FinishConfirmed, Known, PopupTypeOK
<1>3. CASE PressButton
  BY <1>3 DEF PressButton, Known, PopupTypeOK
<1>4. CASE RequestStop \/ NextRecipe \/ SlintStep \/ UNCHANGED popupVars
  BY <1>4 DEF RequestStop, NextRecipe, SlintStep, OpenOperation, ShowPopup, ClosePopup,
              FinishConfirm, popupVars, Known
<1> QED
  BY <1>1, <1>2, <1>3, <1>4 DEF PopupNext
-----------------------------------------------------------------------------
(* The type alone is not inductive: confirm() posts the pointer.           *)
LEMMA TypeStep ==
  ASSUME PopupTypeOK, [PopupNext]_popupVars,
         \A o \in Operation : slint = Closure("closing", o) => pointer[o] = o
  PROVE  PopupTypeOK'
<1> USE DEF PopupTypeOK, Closures
<1>1. ASSUME NEW o \in Operation, ShowManualCommand(o) PROVE PopupTypeOK'
  BY <1>1 DEF ShowManualCommand
<1>2. ASSUME NEW o \in Operation, StartStopped(o) PROVE PopupTypeOK'
  BY <1>2 DEF StartStopped
<1>3. ASSUME NEW o \in Operation, FinishStopped(o) PROVE PopupTypeOK'
  BY <1>3 DEF FinishStopped
<1>4. CASE RequestStop \/ NextRecipe
  BY <1>4 DEF RequestStop, NextRecipe
<1>5. CASE FinishConfirmed
  BY <1>5 DEF FinishConfirmed
<1>6. ASSUME NEW o \in Operation, OpenOperation(o) PROVE PopupTypeOK'
  BY <1>6 DEF OpenOperation
<1>7. ASSUME NEW o \in Operation, ShowPopup(o) PROVE PopupTypeOK'
  BY <1>7 DEF ShowPopup
<1>8. ASSUME NEW o \in Operation, ClosePopup(o) PROVE PopupTypeOK'
  BY <1>8 DEF ClosePopup
<1>9. ASSUME NEW o \in Operation, FinishConfirm(o) PROVE PopupTypeOK'
  <2> DEFINE to(name) == [do |-> name, op |-> o]
  <2>1. CASE /\ closures' = Append(closures, to("close"))
             /\ slint' = to("closing")
             /\ UNCHANGED <<stop, state, completed, pointer, popup, handler, completions>>
    <3>1. to("close") \in Closures /\ to("closing") \in [do : {"show", "claimed", "closing"}, op : Operation]
      OBVIOUS
    <3> QED
      BY <2>1, <3>1
  <2>2. CASE /\ slint = to("closing")
             /\ completions' = Append(completions, pointer[o])
             /\ slint' = Idle
             /\ UNCHANGED <<stop, state, completed, pointer, closures, popup, handler>>
    <3>1. pointer[o] = o
      BY <2>2
    <3> QED
      BY <2>2, <3>1
  <2> QED
    BY <1>9, <2>1, <2>2 DEF FinishConfirm
<1>10. CASE PressButton
  <2>1. CASE handler # NoOperation /\ ~completed[handler]
    <3>1. /\ handler \in Operation
          /\ completed' = [completed EXCEPT ![handler] = TRUE]
          /\ slint' = [do |-> "claimed", op |-> handler]
          /\ popup' = NoOperation
          /\ UNCHANGED <<stop, state, pointer, closures, handler, completions>>
      BY <1>10, <2>1 DEF PressButton
    <3>2. slint' \in [do : {"show", "claimed", "closing"}, op : Operation]
      BY <3>1
    <3> QED
      BY <3>1, <3>2
  <2>2. CASE ~(handler # NoOperation /\ ~completed[handler])
    BY <1>10, <2>2 DEF PressButton
  <2> QED
    BY <2>1, <2>2
<1>11. CASE UNCHANGED popupVars
  BY <1>11 DEF popupVars
<1> QED
  BY <1>1, <1>2, <1>3, <1>4, <1>5, <1>6, <1>7, <1>8, <1>9, <1>10, <1>11
     DEF PopupNext, SlintStep
-----------------------------------------------------------------------------
LEMMA PointersStep ==
  ASSUME PopupTypeOK, WaitersArePointedTo, [PopupNext]_popupVars
  PROVE  WaitersArePointedTo'
<1> USE DEF PopupTypeOK, WaitersArePointedTo
<1>1. ASSUME NEW o \in Operation, ShowManualCommand(o) \/ StartStopped(o) \/ FinishStopped(o)
      PROVE  WaitersArePointedTo'
  BY <1>1 DEF ShowManualCommand, StartStopped, FinishStopped
<1>2. CASE FinishConfirmed
  <2>1. Head(completions) \in Operation
    BY <1>2 DEF FinishConfirmed
  <2> QED
    BY <1>2, <2>1 DEF FinishConfirmed
<1>3. CASE UNCHANGED <<state, pointer>>
  BY <1>3
<1> QED
  BY <1>1, <1>2, <1>3 DEF PopupNext, RequestStop, NextRecipe, SlintStep, OpenOperation,
     ShowPopup, ClosePopup, FinishConfirm, PressButton, popupVars

(* The two ways to complete an operation exclude each other.               *)
LEMMA ClaimsStep ==
  ASSUME PopupTypeOK, WaitersArePointedTo, PostsAreClaimed, ConfirmIsClaimed,
         SlintIsKnown, [PopupNext]_popupVars
  PROVE  PostsAreClaimed' /\ ConfirmIsClaimed'
<1> USE DEF PopupTypeOK, PostsAreClaimed, ConfirmIsClaimed, Claimed
<1>1. ASSUME NEW o \in Operation, ShowManualCommand(o) PROVE PostsAreClaimed' /\ ConfirmIsClaimed'
  BY <1>1 DEF ShowManualCommand
<1>2. ASSUME NEW o \in Operation, StartStopped(o)
      PROVE  PostsAreClaimed' /\ ConfirmIsClaimed'
  BY <1>2 DEF StartStopped
<1>3. ASSUME NEW o \in Operation, FinishStopped(o)
      PROVE  PostsAreClaimed' /\ ConfirmIsClaimed'
  BY <1>3 DEF FinishStopped
<1>4. CASE FinishConfirmed
  <2>1. /\ completions # <<>> /\ completions' = Tail(completions)
        /\ state' = [state EXCEPT ![completions[1]] = "confirmed"]
        /\ UNCHANGED <<completed, slint>>
    BY <1>4 DEF FinishConfirmed
  <2>2. /\ Len(completions') = Len(completions) - 1
        /\ \A i \in 1..Len(completions') : completions'[i] = completions[i + 1] /\ i + 1 \in 1..Len(completions)
    BY <2>1
  <2>3. 1 \in 1..Len(completions)
    BY <2>1
  <2>4. \A i \in 1..Len(completions') : completions'[i] # completions[1]
    BY <2>2, <2>3
  <2>5. PostsAreClaimed'
    <3>1. \A i \in 1..Len(completions') : state'[completions'[i]] = "waiting" /\ completed'[completions'[i]]
      BY <2>1, <2>2, <2>4
    <3>2. \A i, j \in 1..Len(completions') : completions'[i] = completions'[j] => i = j
      BY <2>2
    <3> QED
      BY <3>1, <3>2
  <2>6. ConfirmIsClaimed'
    BY <2>1, <2>2, <2>3
  <2> QED
    BY <2>5, <2>6
<1>5. CASE PressButton
  <2>1. CASE handler # NoOperation /\ ~completed[handler]
    <3>1. /\ handler \in Operation /\ state[handler] = "waiting"
          /\ completed' = [completed EXCEPT ![handler] = TRUE]
          /\ slint' = [do |-> "claimed", op |-> handler]
          /\ UNCHANGED <<state, completions>>
      BY <1>5, <2>1 DEF PressButton, SlintIsKnown, HandlerIsKnown, Known
    <3>2. \A i \in 1..Len(completions) : completions[i] # handler
      BY <2>1
    <3> QED
      BY <3>1, <3>2
  <2>2. CASE ~(handler # NoOperation /\ ~completed[handler])
    BY <1>5, <2>2 DEF PressButton
  <2> QED
    BY <2>1, <2>2
<1>6. ASSUME NEW o \in Operation, FinishConfirm(o)
      PROVE  PostsAreClaimed' /\ ConfirmIsClaimed'
  <2>1. CASE /\ slint = [do |-> "claimed", op |-> o]
             /\ slint' = [do |-> "closing", op |-> o]
             /\ UNCHANGED <<state, completed, completions>>
    BY <2>1
  <2>2. CASE /\ slint = [do |-> "closing", op |-> o]
             /\ completions' = Append(completions, pointer[o])
             /\ slint' = Idle
             /\ UNCHANGED <<state, completed>>
    <3>1. pointer[o] = o /\ Claimed(o) /\ \A i \in 1..Len(completions) : completions[i] # o
      BY <2>2 DEF WaitersArePointedTo
    <3>2. /\ Len(completions') = Len(completions) + 1 /\ completions'[Len(completions) + 1] = o
          /\ \A i \in 1..Len(completions) : completions'[i] = completions[i]
      BY <2>2, <3>1
    <3>3. PostsAreClaimed'
      BY <2>2, <3>1, <3>2
    <3> QED
      BY <2>2, <3>3
  <2> QED
    BY <1>6, <2>1, <2>2 DEF FinishConfirm
<1>7. ASSUME NEW o \in Operation, OpenOperation(o) \/ ShowPopup(o) \/ ClosePopup(o)
      PROVE  PostsAreClaimed' /\ ConfirmIsClaimed'
  BY <1>7 DEF OpenOperation, ShowPopup, ClosePopup
<1>8. CASE RequestStop \/ NextRecipe \/ UNCHANGED popupVars
  BY <1>8 DEF RequestStop, NextRecipe, popupVars
<1> QED
  BY <1>1, <1>2, <1>3, <1>4, <1>5, <1>6, <1>7, <1>8 DEF PopupNext, SlintStep

LEMMA HandlerStep ==
  ASSUME PopupTypeOK, PostsAreClaimed, ConfirmIsClaimed, SlintIsKnown, [PopupNext]_popupVars
  PROVE  SlintIsKnown'
<1> USE DEF PopupTypeOK
<1>1. ASSUME NEW q \in Operation, Known(q) PROVE Known(q)'
  <2>1. \A i \in 1..Len(completions) : completed[completions[i]]
    BY DEF PostsAreClaimed, Claimed
  <2> QED
    BY <1>1, <2>1, KnownStaysKnown
<1>2. \A i \in 1..Len(closures) : closures[i].op \in Operation
  <2>1. \A c \in Closures : c.op \in Operation
    BY DEF Closures
  <2> QED
    BY <2>1
<1>3. ASSUME NEW o \in Operation, Known(o)', NEW name \in {"open", "close"},
             closures' = Append(closures, [do |-> name, op |-> o])
      PROVE  ClosuresAreKnown'
  <2>1. /\ Len(closures') = Len(closures) + 1
        /\ closures'[Len(closures) + 1].op = o
        /\ \A i \in 1..Len(closures) : closures'[i] = closures[i]
    BY <1>3
  <2> QED
    BY <1>1, <1>2, <1>3, <2>1 DEF SlintIsKnown, ClosuresAreKnown, ShownIsKnown, HandlerIsKnown
<1>4. ASSUME closures # <<>>, closures' = Tail(closures)
      PROVE  ClosuresAreKnown'
  <2>1. \A i \in 1..Len(closures') : closures'[i] = closures[i + 1] /\ i + 1 \in 1..Len(closures)
    BY <1>4
  <2> QED
    BY <1>1, <1>2, <2>1 DEF SlintIsKnown, ClosuresAreKnown, ShownIsKnown, HandlerIsKnown
<1>5. ASSUME UNCHANGED closures
      PROVE  ClosuresAreKnown'
  BY <1>1, <1>2, <1>5 DEF SlintIsKnown, ClosuresAreKnown, ShownIsKnown, HandlerIsKnown
<1>6. ASSUME UNCHANGED <<slint, handler>>
      PROVE  /\ ShownIsKnown'
             /\ HandlerIsKnown'
  <2>1. slint.do = "show" => slint.op \in Operation
    OBVIOUS
  <2> QED
    BY <1>1, <1>6, <2>1 DEF SlintIsKnown, ClosuresAreKnown, ShownIsKnown, HandlerIsKnown
<1>7. ASSUME NEW o \in Operation, ShowManualCommand(o) PROVE SlintIsKnown'
  <2>1. /\ Known(o)' /\ UNCHANGED <<slint, handler>>
        /\ closures' = Append(closures, [do |-> "open", op |-> o])
    BY <1>7 DEF ShowManualCommand, Known
  <2> QED
    BY <1>3, <1>6, <2>1 DEF SlintIsKnown, ClosuresAreKnown, ShownIsKnown, HandlerIsKnown
<1>8. ASSUME NEW o \in Operation, FinishStopped(o) PROVE SlintIsKnown'
  <2>1. /\ Known(o)' /\ UNCHANGED <<slint, handler>>
        /\ closures' = Append(closures, [do |-> "close", op |-> o])
    BY <1>8 DEF FinishStopped, Known
  <2> QED
    BY <1>3, <1>6, <2>1 DEF SlintIsKnown, ClosuresAreKnown, ShownIsKnown, HandlerIsKnown
<1>9. ASSUME NEW o \in Operation, OpenOperation(o) PROVE SlintIsKnown'
  <2>1. /\ closures # <<>> /\ closures' = Tail(closures) /\ UNCHANGED handler
        /\ slint' \in {Idle, [do |-> "show", op |-> o]}
        /\ Head(closures) = [do |-> "open", op |-> o]
    BY <1>9 DEF OpenOperation
  <2>2. Known(o)
    <3>1. closures[1].op = o /\ 1 \in 1..Len(closures)
      BY <2>1
    <3> QED
      BY <3>1 DEF SlintIsKnown, ClosuresAreKnown, ShownIsKnown, HandlerIsKnown
  <2>3. HandlerIsKnown'
    BY <1>1, <2>1 DEF SlintIsKnown, ClosuresAreKnown, ShownIsKnown, HandlerIsKnown
  <2>4. ShownIsKnown'
    BY <1>1, <2>1, <2>2 DEF ShownIsKnown
  <2> QED
    BY <1>4, <2>1, <2>3, <2>4 DEF SlintIsKnown, ClosuresAreKnown, ShownIsKnown, HandlerIsKnown
<1>10. ASSUME NEW o \in Operation, ShowPopup(o) PROVE SlintIsKnown'
  <2>1. UNCHANGED closures /\ handler' = o /\ slint' = Idle /\ Known(o)
    BY <1>10 DEF ShowPopup, SlintIsKnown, ShownIsKnown
  <2> QED
    BY <1>1, <1>5, <2>1 DEF SlintIsKnown, ClosuresAreKnown, ShownIsKnown, HandlerIsKnown
<1>11. ASSUME NEW o \in Operation, ClosePopup(o) PROVE SlintIsKnown'
  <2>1. /\ closures # <<>> /\ closures' = Tail(closures)
        /\ handler' = NoOperation /\ slint' = Idle
    BY <1>11 DEF ClosePopup
  <2> QED
    BY <1>4, <2>1 DEF SlintIsKnown, ClosuresAreKnown, ShownIsKnown, HandlerIsKnown
<1>12. ASSUME NEW o \in Operation, FinishConfirm(o) PROVE SlintIsKnown'
  <2>1. Known(o)
    BY <1>12 DEF FinishConfirm, ConfirmIsClaimed, Claimed, Known
  <2>2. /\ slint'.do # "show" /\ UNCHANGED handler
        /\ \/ closures' = Append(closures, [do |-> "close", op |-> o])
           \/ UNCHANGED closures
    BY <1>12 DEF FinishConfirm
  <2>3. HandlerIsKnown'
    BY <1>1, <2>2 DEF SlintIsKnown, ClosuresAreKnown, ShownIsKnown, HandlerIsKnown
  <2> QED
    BY <1>1, <1>3, <1>5, <2>1, <2>2, <2>3 DEF SlintIsKnown, ClosuresAreKnown, ShownIsKnown, HandlerIsKnown
<1>13. CASE PressButton
  <2>1. UNCHANGED <<closures, handler>> /\ (slint' = slint \/ slint'.do = "claimed")
    BY <1>13 DEF PressButton
  <2>2. HandlerIsKnown'
    BY <1>1, <2>1 DEF SlintIsKnown, ClosuresAreKnown, ShownIsKnown, HandlerIsKnown
  <2>3. ShownIsKnown'
    BY <1>1, <1>13, <2>1 DEF SlintIsKnown, ClosuresAreKnown, ShownIsKnown, HandlerIsKnown, PressButton
  <2> QED
    BY <1>5, <2>1, <2>2, <2>3 DEF SlintIsKnown, ClosuresAreKnown, ShownIsKnown, HandlerIsKnown
<1>14. CASE UNCHANGED <<closures, slint, handler>>
  BY <1>5, <1>6, <1>14 DEF SlintIsKnown, ClosuresAreKnown, ShownIsKnown, HandlerIsKnown
<1> QED
  <2>1. \A o \in Operation : StartStopped(o) => UNCHANGED <<closures, slint, handler>>
    BY DEF StartStopped
  <2>2. FinishConfirmed \/ RequestStop \/ NextRecipe \/ UNCHANGED popupVars
          => UNCHANGED <<closures, slint, handler>>
    BY DEF FinishConfirmed, RequestStop, NextRecipe, popupVars
  <2> QED
    BY <1>7, <1>8, <1>9, <1>10, <1>11, <1>12, <1>13, <1>14, <2>1, <2>2 DEF PopupNext, SlintStep
-----------------------------------------------------------------------------
LEMMA InvInductive == PopupSpec => []PopupInv
<1>1. PopupInit => PopupInv
  <2> SUFFICES ASSUME PopupInit PROVE PopupInv
    OBVIOUS
  <2>1. PopupTypeOK
    <3>1. closures \in Seq(Closures) /\ completions \in Seq(Operation)
      BY DEF PopupInit
    <3>2. slint = Idle /\ popup = NoOperation /\ handler = NoOperation /\ stop \in BOOLEAN
      BY DEF PopupInit
    <3>3. /\ state \in [Operation -> {"idle", "waiting"} \cup Settled]
          /\ completed \in [Operation -> BOOLEAN]
          /\ pointer \in [Operation -> Operation \cup {NoOperation}]
      BY DEF PopupInit
    <3> QED
      BY <3>1, <3>2, <3>3 DEF PopupTypeOK
  <2>2. WaitersArePointedTo /\ PostsAreClaimed /\ ConfirmIsClaimed /\ SlintIsKnown
    BY DEF PopupInit, WaitersArePointedTo, PostsAreClaimed, ConfirmIsClaimed, SlintIsKnown,
           ClosuresAreKnown, ShownIsKnown, HandlerIsKnown
  <2> QED
    BY <2>1, <2>2 DEF PopupInv
<1>2. PopupInv /\ [PopupNext]_popupVars => PopupInv'
  <2> SUFFICES ASSUME PopupInv, [PopupNext]_popupVars PROVE PopupInv'
    OBVIOUS
  <2>1. \A o \in Operation : slint = Closure("closing", o) => pointer[o] = o
    BY DEF PopupInv, ConfirmIsClaimed, Claimed, WaitersArePointedTo
  <2>2. PopupTypeOK'
    BY <2>1, TypeStep DEF PopupInv
  <2> QED
    BY <2>2, PointersStep, ClaimsStep, HandlerStep DEF PopupInv
<1> QED
  BY <1>1, <1>2, PTL DEF PopupSpec

(* The popup's state always has its type.                                  *)
THEOREM TypeCorrect == PopupSpec => []PopupTypeOK
<1>1. PopupInv => PopupTypeOK
  BY DEF PopupInv
<1> QED
  BY <1>1, InvInductive, PTL

(* The button and a stop request race for an operation, and exactly one of *)
(* them completes it, once, while it still waits.                          *)
THEOREM CompletionCorrect == PopupSpec => []CompletionFindsItsOperation
<1>1. PopupInv => CompletionFindsItsOperation
  BY DEF PopupInv, PostsAreClaimed, Claimed, CompletionFindsItsOperation
<1> QED
  BY <1>1, InvInductive, PTL

(* An open popup whose operation has ended is about to be closed; so is    *)
(* one that ShowPopup is about to open after the operation was stopped.    *)
CloseIsQueued == \E i \in 1..Len(closures) : closures[i].do = "close"
ShowIsWanted  == slint.do = "show" => ~completed[slint.op] \/ CloseIsQueued
WantedInv     == ShownPopupIsWanted /\ ShowIsWanted

LEMMA WantedStep ==
  ASSUME PopupTypeOK, WantedInv, [PopupNext]_popupVars
  PROVE  WantedInv'
<1> USE DEF PopupTypeOK
<1>1. ASSUME NEW c \in Closures, closures' = Append(closures, c)
      PROVE  /\ CloseIsQueued => CloseIsQueued'
             /\ c.do = "close" => CloseIsQueued'
  <2>1. /\ Len(closures') = Len(closures) + 1 /\ closures'[Len(closures) + 1] = c
        /\ Len(closures) \in Nat /\ \A i \in 1..Len(closures) : closures'[i] = closures[i]
    BY <1>1
  <2> QED
    BY <2>1 DEF CloseIsQueued
<1>2. ASSUME NEW o \in Operation, closures # <<>>, Head(closures) = Closure("open", o),
             closures' = Tail(closures), CloseIsQueued
      PROVE  CloseIsQueued'
  <2>1. PICK i \in 1..Len(closures) : closures[i].do = "close"
    BY <1>2 DEF CloseIsQueued
  <2>2. i # 1
    BY <1>2, <2>1
  <2>3. i - 1 \in 1..Len(closures') /\ closures'[i - 1] = closures[i]
    BY <1>2, <2>2
  <2> QED
    BY <2>1, <2>3 DEF CloseIsQueued
<1>3. ASSUME NEW o \in Operation, ShowManualCommand(o) \/ StartStopped(o) PROVE WantedInv'
  <2>1. /\ UNCHANGED <<completed, slint, popup, handler>>
        /\ UNCHANGED closures \/ closures' = Append(closures, [do |-> "open", op |-> o])
    BY <1>3 DEF ShowManualCommand, StartStopped
  <2>2. [do |-> "open", op |-> o] \in Closures
    BY DEF Closures
  <2>3. CloseIsQueued => CloseIsQueued'
    BY <1>1, <2>1, <2>2 DEF CloseIsQueued
  <2> QED
    BY <2>1, <2>3 DEF WantedInv, ShownPopupIsWanted, ShowIsWanted, CloseIsQueued
<1>4. ASSUME NEW o \in Operation, FinishStopped(o) PROVE WantedInv'
  <2>1. [do |-> "close", op |-> o] \in Closures /\ [do |-> "close", op |-> o].do = "close"
    BY DEF Closures
  <2>2. CloseIsQueued' /\ UNCHANGED <<popup, handler, slint>>
    BY <1>1, <1>4, <2>1 DEF FinishStopped
  <2> QED
    BY <2>2 DEF WantedInv, ShownPopupIsWanted, ShowIsWanted, CloseIsQueued
<1>5. ASSUME NEW o \in Operation, OpenOperation(o) PROVE WantedInv'
  <2>1. /\ closures # <<>> /\ Head(closures) = Closure("open", o) /\ closures' = Tail(closures)
        /\ slint' = IF completed[o] THEN Idle ELSE Closure("show", o)
        /\ UNCHANGED <<completed, popup, handler>>
    BY <1>5 DEF OpenOperation
  <2>2. CloseIsQueued => CloseIsQueued'
    BY <1>2, <2>1
  <2>3. ShowIsWanted'
    BY <2>1 DEF ShowIsWanted
  <2> QED
    BY <2>1, <2>2, <2>3 DEF WantedInv, ShownPopupIsWanted, CloseIsQueued
<1>6. ASSUME NEW o \in Operation, ShowPopup(o) PROVE WantedInv'
  BY <1>6 DEF ShowPopup, WantedInv, ShownPopupIsWanted, ShowIsWanted, CloseIsQueued
<1>7. ASSUME NEW o \in Operation, ClosePopup(o) PROVE WantedInv'
  BY <1>7 DEF ClosePopup, WantedInv, ShownPopupIsWanted, ShowIsWanted
<1>8. CASE PressButton
  <2>1. popup' = NoOperation /\ ((slint' = slint /\ slint = Idle) \/ slint'.do = "claimed")
    BY <1>8 DEF PressButton
  <2> QED
    BY <2>1 DEF WantedInv, ShownPopupIsWanted, ShowIsWanted
<1>9. ASSUME NEW o \in Operation, FinishConfirm(o) PROVE WantedInv'
  <2>1. /\ UNCHANGED <<completed, popup, handler>> /\ slint'.do # "show"
        /\ UNCHANGED closures \/ closures' = Append(closures, [do |-> "close", op |-> o])
    BY <1>9 DEF FinishConfirm
  <2>2. [do |-> "close", op |-> o] \in Closures
    BY DEF Closures
  <2>3. CloseIsQueued => CloseIsQueued'
    BY <1>1, <2>1, <2>2 DEF CloseIsQueued
  <2> QED
    BY <2>1, <2>3 DEF WantedInv, ShownPopupIsWanted, ShowIsWanted, CloseIsQueued
<1>10. CASE RequestStop \/ NextRecipe \/ FinishConfirmed \/ UNCHANGED popupVars
  <2>1. UNCHANGED <<completed, closures, slint, popup, handler>>
    BY <1>10 DEF RequestStop, NextRecipe, FinishConfirmed, popupVars
  <2> QED
    BY <2>1 DEF WantedInv, ShownPopupIsWanted, ShowIsWanted, CloseIsQueued
<1> QED
  BY <1>3, <1>4, <1>5, <1>6, <1>7, <1>8, <1>9, <1>10 DEF PopupNext, SlintStep

(* No ghost popup: whatever is on the screen waits for the guest, or its   *)
(* closing is queued, for any number of operations that wait at once.      *)
THEOREM PopupIsWanted == PopupSpec => []ShownPopupIsWanted
<1>1. PopupInit => WantedInv
  BY DEF PopupInit, WantedInv, ShownPopupIsWanted, ShowIsWanted
<1>2. PopupTypeOK /\ WantedInv /\ [PopupNext]_popupVars => WantedInv'
  BY WantedStep
<1>3. WantedInv => ShownPopupIsWanted
  BY DEF WantedInv
<1> QED
  BY <1>1, <1>2, <1>3, TypeCorrect, PTL DEF PopupSpec
-----------------------------------------------------------------------------
(* Where a command that waits for the guest can be found.                  *)
OpenIsQueued(o)  == \E i \in 1..Len(closures) : closures[i] = Closure("open", o) /\ ~ClosesBehind(i)
IsShowing(o)     == slint = Closure("show", o) /\ ~ClosesBehind(0)
IsShown(o)       == slint = Idle /\ popup = o /\ handler = o /\ ~ClosesBehind(0)
IsClaimed(o)     == slint \in {Closure("claimed", o), Closure("closing", o)}
IsPosted(o)      == \E i \in 1..Len(completions) : completions[i] = o
Remembered(o)    ==
  \/ ~completed[o] /\ (OpenIsQueued(o) \/ IsShowing(o) \/ IsShown(o))
  \/ IsClaimed(o) \/ IsPosted(o)

(* The strengthening, with one command at a time.                          *)
OneWaits    == \A o, q \in Operation : state[o] = "waiting" /\ state[q] = "waiting" => o = q
IdleIsFresh == \A o \in Operation : state[o] = "idle" => ~completed[o]
ForgetInv   ==
  /\ OneWaits /\ IdleIsFresh
  /\ \A o \in Operation : state[o] = "waiting" => Remembered(o)

LEMMA OneAtATime ==
  ASSUME PopupTypeOK, OneWaits, MaxOpen = 1, Cardinality(Asking) < MaxOpen, NEW q \in Operation
  PROVE  state[q] # "waiting"
<1> SUFFICES ASSUME state[q] = "waiting" PROVE FALSE
  OBVIOUS
<1>1. Asking = {q}
  BY DEF Asking, OneWaits
<1>2. Cardinality({q}) = 1
  BY FS_Singleton
<1> QED
  BY <1>1, <1>2

(* The Slint thread takes a closure from the front of the queue.           *)
LEMMA TakingAClosure ==
  ASSUME PopupTypeOK, closures # <<>>, closures' = Tail(closures)
  PROVE  /\ \A i \in 1..Len(closures) : ~ClosesBehind(i) => ~ClosesBehind(i - 1)'
         /\ ~ClosesBehind(0) => ~ClosesBehind(0)' /\ closures[1].do # "close"
         /\ \A o \in Operation : closures[1] # Closure("open", o) /\ OpenIsQueued(o) => OpenIsQueued(o)'
<1>1. /\ Len(closures) \in Nat \ {0} /\ Len(closures') = Len(closures) - 1
      /\ \A i \in 1..Len(closures') : closures'[i] = closures[i + 1]
  BY DEF PopupTypeOK
<1>2. ASSUME NEW i \in 0..Len(closures), NEW k \in 0..i, k + 1 >= i, ~ClosesBehind(i) PROVE ~ClosesBehind(k)'
  <2> SUFFICES ASSUME NEW j \in (k + 1)..Len(closures'), closures'[j].do = "close" PROVE FALSE
    BY DEF ClosesBehind
  <2>1. j + 1 \in (i + 1)..Len(closures) /\ closures[j + 1].do = "close"
    BY <1>1, <1>2
  <2> QED
    BY <1>2, <2>1 DEF ClosesBehind
<1>3. \A i \in 1..Len(closures) : ~ClosesBehind(i) => ~ClosesBehind(i - 1)'
  BY <1>1, <1>2
<1>4. ~ClosesBehind(0) => ~ClosesBehind(0)' /\ closures[1].do # "close"
  <2>1. 1 \in (0 + 1)..Len(closures)
    BY <1>1
  <2> QED
    BY <1>1, <1>2, <2>1 DEF ClosesBehind
<1>5. ASSUME NEW o \in Operation, closures[1] # Closure("open", o), OpenIsQueued(o) PROVE OpenIsQueued(o)'
  <2>1. PICK i \in 1..Len(closures) : closures[i] = Closure("open", o) /\ ~ClosesBehind(i)
    BY <1>5 DEF OpenIsQueued
  <2>2. i - 1 \in 1..Len(closures') /\ closures'[i - 1] = Closure("open", o) /\ ~ClosesBehind(i - 1)'
    BY <1>1, <1>3, <1>5, <2>1
  <2> QED
    BY <2>2 DEF OpenIsQueued
<1> QED
  BY <1>3, <1>4, <1>5

(* What is remembered apart from the closures does not depend on them.     *)
LEMMA RememberedElsewhere ==
  ASSUME NEW o \in Operation, UNCHANGED <<completed, closures, slint, popup, handler>>, IsPosted(o) => IsPosted(o)', Remembered(o)
  PROVE  Remembered(o)'
<1>1. ClosesBehind(0)' <=> ClosesBehind(0)
  BY DEF ClosesBehind
<1>2. OpenIsQueued(o) => OpenIsQueued(o)'
  BY DEF OpenIsQueued, ClosesBehind
<1> QED
  BY <1>1, <1>2 DEF Remembered, IsShowing, IsShown, IsClaimed

LEMMA ForgetStep ==
  ASSUME MaxOpen = 1, PopupInv, ForgetInv, [PopupNext]_popupVars
  PROVE  ForgetInv'
<1> USE DEF PopupTypeOK
<1>0. PopupTypeOK /\ WaitersArePointedTo /\ PostsAreClaimed /\ ConfirmIsClaimed /\ SlintIsKnown /\ OneWaits /\ IdleIsFresh
  BY DEF PopupInv, ForgetInv
(* A step that begins no wait and claims only for operations that waited.  *)
<1>1. ASSUME NEW o \in Operation, ShowManualCommand(o) PROVE ForgetInv'
  <2>1. \A q \in Operation : state[q] # "waiting"
    BY <1>0, <1>1, OneAtATime DEF ShowManualCommand
  <2>2. /\ UNCHANGED <<completed, slint, popup, handler, completions>>
        /\ closures' = Append(closures, Closure("open", o))
        /\ state' = [state EXCEPT ![o] = "waiting"] /\ state[o] = "idle"
    BY <1>1 DEF ShowManualCommand
  <2>3. OneWaits' /\ IdleIsFresh'
    BY <1>0, <2>1, <2>2 DEF OneWaits, IdleIsFresh
  <2>4. OpenIsQueued(o)'
    <3>1. /\ Len(closures) \in Nat /\ Len(closures') = Len(closures) + 1
          /\ closures'[Len(closures) + 1] = Closure("open", o)
      BY <1>0, <2>2
    <3>2. PICK n \in Nat : n = Len(closures')
      BY <3>1
    <3>3. n \in 1..n /\ closures'[n] = Closure("open", o)
      BY <3>1, <3>2
    <3>4. ~ClosesBehind(n)'
      BY <3>2 DEF ClosesBehind
    <3> QED
      BY <3>2, <3>3, <3>4 DEF OpenIsQueued
  <2>5. ~completed'[o]
    BY <1>0, <2>2 DEF IdleIsFresh
  <2> QED
    BY <1>0, <2>1, <2>2, <2>3, <2>4, <2>5 DEF ForgetInv, Remembered
<1>2. ASSUME NEW o \in Operation, StartStopped(o) PROVE ForgetInv'
  <2>1. /\ UNCHANGED <<completed, closures, slint, popup, handler, completions>>
        /\ \A q \in Operation : (state'[q] = "waiting" => state[q] = "waiting") /\ (state'[q] = "idle" => state[q] = "idle")
    BY <1>0, <1>2 DEF StartStopped
  <2>2. \A q \in Operation : state[q] = "waiting" => Remembered(q)'
    BY <2>1, RememberedElsewhere DEF ForgetInv, IsPosted
  <2> QED
    BY <1>0, <2>1, <2>2 DEF ForgetInv, OneWaits, IdleIsFresh
<1>3. ASSUME NEW o \in Operation, state[o] = "waiting", NEW end \in Settled, state' = [state EXCEPT ![o] = end],
             \A q \in Operation : completed'[q] # completed[q] => q = o
      PROVE  ForgetInv'
  <2>1. \A q \in Operation : state'[q] # "waiting"
    BY <1>0, <1>3 DEF OneWaits
  <2>2. IdleIsFresh'
    BY <1>0, <1>3 DEF IdleIsFresh
  <2> QED
    BY <2>1, <2>2 DEF ForgetInv, OneWaits
<1>4. ASSUME NEW o \in Operation, FinishStopped(o) PROVE ForgetInv'
  BY <1>0, <1>3, <1>4 DEF FinishStopped
<1>5. CASE FinishConfirmed
  <2>1. completions[1] \in Operation /\ state[completions[1]] = "waiting" /\ Head(completions) = completions[1]
    BY <1>0, <1>5 DEF FinishConfirmed, PostsAreClaimed, Claimed
  <2> QED
    BY <1>3, <1>5, <2>1 DEF FinishConfirmed
<1>6. ASSUME UNCHANGED state, \A q \in Operation : completed'[q] # completed[q] => state[q] = "waiting",
             \A o \in Operation : state[o] = "waiting" /\ Remembered(o) => Remembered(o)'
      PROVE  ForgetInv'
  BY <1>0, <1>6 DEF ForgetInv, OneWaits, IdleIsFresh
<1>7. ASSUME NEW q \in Operation, OpenOperation(q) PROVE ForgetInv'
  <2>1. /\ slint = Idle /\ closures # <<>> /\ closures[1] = Closure("open", q) /\ closures' = Tail(closures)
        /\ slint' = IF completed[q] THEN Idle ELSE Closure("show", q)
        /\ UNCHANGED <<state, completed, popup, handler, completions>>
    BY <1>7 DEF OpenOperation
  <2>2. 1 \in 1..Len(closures) /\ (state[q] = "waiting" \/ completed[q])
    BY <1>0, <2>1 DEF SlintIsKnown, ClosuresAreKnown, Known
  <2>3. ASSUME NEW o \in Operation, state[o] = "waiting", ~completed[o], OpenIsQueued(o) \/ IsShown(o) PROVE Remembered(o)'
    <3>1. CASE q = o
      <4>1. slint' = Closure("show", o)
        BY <2>1, <2>3, <3>1
      <4>2. ~ClosesBehind(0)' \/ OpenIsQueued(o)'
        <5>1. CASE IsShown(o)
          BY <1>0, <2>1, <5>1, TakingAClosure DEF IsShown
        <5>2. CASE OpenIsQueued(o)
          <6>1. PICK i \in 1..Len(closures) : closures[i] = Closure("open", o) /\ ~ClosesBehind(i)
            BY <5>2 DEF OpenIsQueued
          <6>2. ~ClosesBehind(i - 1)'
            BY <1>0, <2>1, <6>1, TakingAClosure
          <6>3. CASE i = 1
            BY <6>2, <6>3
          <6>4. CASE i # 1
            <7>1. i - 1 \in 1..Len(closures') /\ closures'[i - 1] = closures[i]
              BY <1>0, <2>1, <6>4
            <7> QED
              BY <6>1, <6>2, <7>1 DEF OpenIsQueued
          <6> QED
            BY <6>3, <6>4
        <5> QED
          BY <2>3, <5>1, <5>2
      <4> QED
        BY <2>1, <2>3, <4>1, <4>2 DEF Remembered, IsShowing
    <3>2. CASE q # o
      <4>1. slint' = Idle
        BY <1>0, <2>1, <2>2, <2>3, <3>2 DEF OneWaits
      <4>2. closures[1] # Closure("open", o)
        BY <2>1, <3>2
      <4>3. OpenIsQueued(o) => OpenIsQueued(o)'
        BY <1>0, <2>1, <4>2, TakingAClosure
      <4>4. IsShown(o) => IsShown(o)'
        BY <1>0, <2>1, <4>1, TakingAClosure DEF IsShown
      <4> QED
        BY <2>1, <2>3, <4>3, <4>4 DEF Remembered
    <3> QED
      BY <3>1, <3>2
  <2>4. \A o \in Operation : state[o] = "waiting" /\ Remembered(o) => Remembered(o)'
    <3> SUFFICES ASSUME NEW o \in Operation, state[o] = "waiting", Remembered(o) PROVE Remembered(o)'
      OBVIOUS
    <3>1. ~IsShowing(o) /\ ~IsClaimed(o)
      BY <2>1 DEF IsShowing, IsClaimed
    <3>2. IsPosted(o) => IsPosted(o)'
      BY <2>1 DEF IsPosted
    <3> QED
      BY <2>3, <3>1, <3>2 DEF Remembered
  <2> QED
    BY <1>6, <2>1, <2>4
<1>8. ASSUME NEW q \in Operation, ShowPopup(q) PROVE ForgetInv'
  <2>1. /\ slint = Closure("show", q) /\ slint' = Idle /\ popup' = q /\ handler' = q
        /\ UNCHANGED <<state, completed, closures, completions>>
    BY <1>8 DEF ShowPopup
  <2>2. ASSUME NEW o \in Operation, Remembered(o) PROVE Remembered(o)'
    <3>1. ~IsShown(o) /\ ~IsClaimed(o)
      BY <2>1 DEF IsShown, IsClaimed
    <3>2. (ClosesBehind(0)' <=> ClosesBehind(0)) /\ (OpenIsQueued(o) => OpenIsQueued(o)') /\ (IsPosted(o) => IsPosted(o)')
      BY <2>1 DEF ClosesBehind, OpenIsQueued, IsPosted
    <3>3. IsShowing(o) => IsShown(o)'
      BY <2>1, <3>2 DEF IsShowing, IsShown
    <3> QED
      BY <2>1, <2>2, <3>1, <3>2, <3>3 DEF Remembered
  <2> QED
    BY <1>6, <2>1, <2>2
<1>9. ASSUME NEW q \in Operation, ClosePopup(q) PROVE ForgetInv'
  <2>1. /\ slint = Idle /\ closures # <<>> /\ closures[1] = Closure("close", q) /\ closures' = Tail(closures)
        /\ UNCHANGED <<state, completed, slint, completions>>
    BY <1>9 DEF ClosePopup
  <2>2. ASSUME NEW o \in Operation, Remembered(o) PROVE Remembered(o)'
    <3>1. ~IsShowing(o) /\ ~IsClaimed(o)
      BY <2>1 DEF IsShowing, IsClaimed
    <3>2. closures[1].do = "close" /\ closures[1] # Closure("open", o)
      BY <2>1
    <3>3. ~IsShown(o) /\ (OpenIsQueued(o) => OpenIsQueued(o)')
      BY <1>0, <2>1, <3>2, TakingAClosure DEF IsShown
    <3>4. IsPosted(o) => IsPosted(o)'
      BY <2>1 DEF IsPosted
    <3> QED
      BY <2>1, <2>2, <3>1, <3>3, <3>4 DEF Remembered
  <2> QED
    BY <1>6, <2>1, <2>2
<1>10. ASSUME NEW q \in Operation, FinishConfirm(q) PROVE ForgetInv'
  <2>1. UNCHANGED <<state, completed>> /\ slint \in {Closure("claimed", q), Closure("closing", q)}
    BY <1>10 DEF FinishConfirm
  <2>2. state[q] = "waiting"
    BY <1>0, <2>1 DEF ConfirmIsClaimed, Claimed
  <2>3. IsClaimed(q)' \/ IsPosted(q)'
    <3>1. CASE slint = Closure("claimed", q)
      BY <1>10, <3>1 DEF FinishConfirm, IsClaimed
    <3>2. CASE slint = Closure("closing", q)
      <4>1. completions' = Append(completions, q)
        BY <1>0, <1>10, <2>2, <3>2 DEF FinishConfirm, WaitersArePointedTo
      <4>2. Len(completions) + 1 \in 1..Len(completions') /\ completions'[Len(completions) + 1] = q
        BY <1>0, <4>1
      <4> QED
        BY <4>2 DEF IsPosted
    <3> QED
      BY <2>1, <3>1, <3>2
  <2>4. \A o \in Operation : state[o] = "waiting" => Remembered(o)'
    BY <1>0, <2>2, <2>3 DEF OneWaits, Remembered
  <2> QED
    BY <1>6, <2>1, <2>4
<1>11. CASE PressButton
  <2>1. slint = Idle /\ UNCHANGED <<state, closures, handler, completions>>
    BY <1>11 DEF PressButton
  <2>2. CASE handler # NoOperation /\ ~completed[handler]
    <3>1. /\ handler \in Operation /\ state[handler] = "waiting"
          /\ completed' = [completed EXCEPT ![handler] = TRUE] /\ slint' = Closure("claimed", handler)
      BY <1>0, <1>11, <2>2 DEF PressButton, SlintIsKnown, HandlerIsKnown, Known
    <3>2. IsClaimed(handler)'
      BY <2>1, <3>1 DEF IsClaimed
    <3>3. \A o \in Operation : state[o] = "waiting" => Remembered(o)'
      <4> SUFFICES ASSUME NEW o \in Operation, state[o] = "waiting" PROVE Remembered(o)'
        OBVIOUS
      <4>1. o = handler
        BY <1>0, <3>1 DEF OneWaits
      <4>2. IsClaimed(o)'
        BY <2>1, <3>1, <4>1 DEF IsClaimed
      <4> QED
        BY <4>2 DEF Remembered
    <3>4. \A o \in Operation : completed'[o] # completed[o] => state[o] = "waiting"
      BY <1>0, <3>1
    <3> QED
      BY <1>6, <2>1, <3>3, <3>4
  <2>3. CASE ~(handler # NoOperation /\ ~completed[handler])
    <3>1. UNCHANGED <<completed, slint>>
      BY <1>11, <2>3 DEF PressButton
    <3>2. ASSUME NEW o \in Operation, Remembered(o) PROVE Remembered(o)'
      <4>1. ~completed[o] => ~IsShown(o)
        BY <2>3, PopupAssumption DEF IsShown
      <4>2. /\ OpenIsQueued(o) => OpenIsQueued(o)'
            /\ IsPosted(o) => IsPosted(o)'
        BY <2>1 DEF OpenIsQueued, IsPosted, ClosesBehind
      <4>3. ~IsShowing(o) /\ ~IsClaimed(o)
        BY <2>1 DEF IsShowing, IsClaimed
      <4> QED
        BY <3>1, <3>2, <4>1, <4>2, <4>3 DEF Remembered
    <3> QED
      BY <1>6, <2>1, <3>1, <3>2
  <2> QED
    BY <2>2, <2>3
<1>12. CASE RequestStop \/ NextRecipe \/ UNCHANGED popupVars
  <2>1. UNCHANGED <<state, completed, closures, slint, popup, handler, completions>>
    BY <1>12 DEF RequestStop, NextRecipe, popupVars
  <2>2. \A o \in Operation : Remembered(o) => Remembered(o)'
    BY <2>1, RememberedElsewhere DEF IsPosted
  <2> QED
    BY <1>6, <2>1, <2>2
<1> QED
  BY <1>1, <1>2, <1>4, <1>5, <1>7, <1>8, <1>9, <1>10, <1>11, <1>12 DEF PopupNext, SlintStep

(* With one command at a time, as the recipes of the station have them, no *)
(* operation that waits is forgotten: its popup comes, is open, or was     *)
(* answered, and no closing that was meant for another one hides it.       *)
THEOREM NoWaitForgotten == MaxOpen = 1 => (PopupSpec => []NoWaitIsForgotten)
<1> SUFFICES ASSUME MaxOpen = 1 PROVE PopupSpec => []NoWaitIsForgotten
  OBVIOUS
<1>1. PopupInit => ForgetInv
  BY DEF PopupInit, ForgetInv, OneWaits, IdleIsFresh
<1>2. PopupInv /\ ForgetInv /\ [PopupNext]_popupVars => ForgetInv'
  BY ForgetStep
<1>3. ForgetInv => NoWaitIsForgotten
  BY DEF ForgetInv, NoWaitIsForgotten, Asking, Remembered, OpenIsQueued, IsShowing, IsShown, IsClaimed, IsPosted
<1> QED
  BY <1>1, <1>2, <1>3, InvInductive, PTL DEF PopupSpec
=============================================================================
