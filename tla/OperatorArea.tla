---------------------------- MODULE OperatorArea ----------------------------
(***************************************************************************)
(* The PIN pad and the admin area behind it (gui/src/operator_auth.cppm,   *)
(* station_state_bridge.cpp).  OperatorAuth belongs to the Slint thread;   *)
(* while a lockout lasts, a countdown task of the io thread reads it too.  *)
(* Nothing but the state of the pad keeps the two apart.                   *)
(***************************************************************************)
EXTENDS Integers

CONSTANTS
  MaxAttempts,   \* wrong PINs that lock the pad
  LockTicks,     \* ticks of the clock that a lockout lasts
  MaxFailed      \* bound of failed_attempts_

ASSUME AreaAssumption ==
  /\ MaxAttempts \in Nat \ {0}
  /\ LockTicks \in Nat \ {0}
  /\ MaxFailed \in Nat /\ MaxFailed > MaxAttempts

VARIABLES
  inArea,          \* the active screen is the admin area
  authenticated,   \* operator_authenticated_
  failed,          \* failed_attempts_
  lockLeft,        \* ticks until locked_until_
  padLocked,       \* operator-locked-out: the buttons of the pad are disabled
  countdowns,      \* running tasks async_handle_operator_lockout()
  releases,        \* their last closures, queued for the Slint thread
  streak           \* observed: wrong PINs checked since a right one or a lockout

areaVars == <<inArea, authenticated, failed, lockLeft, padLocked, countdowns, releases, streak>>

IsLockedOut == lockLeft > 0

AreaInit ==
  /\ inArea = FALSE /\ authenticated = FALSE
  /\ failed = 0 /\ lockLeft = 0 /\ streak = 0
  /\ padLocked = FALSE /\ countdowns = 0 /\ releases = 0

(* Mutant: only the attempt that reaches the limit locks the pad. *)
Locks_Once(attempts) == attempts = MaxAttempts

Locks(attempts) == attempts >= MaxAttempts

(* Mutant: the pad is not told that it is locked. *)
ShowLockout_PadOpen == countdowns' = countdowns + 1 /\ UNCHANGED padLocked

(* Mutant: a later lockout starts no countdown. *)
ShowLockout_OneCountdown ==
  /\ padLocked' = TRUE
  /\ countdowns' = IF failed' = MaxAttempts THEN countdowns + 1 ELSE countdowns

ShowLockout == padLocked' = TRUE /\ countdowns' = countdowns + 1

(* The right PIN, from any page, the admin area included.                  *)
SubmitRight ==
  /\ ~padLocked /\ ~IsLockedOut
  /\ inArea' = TRUE /\ authenticated' = TRUE
  /\ failed' = 0 /\ streak' = 0
  /\ UNCHANGED <<lockLeft, padLocked, countdowns, releases>>

(* A wrong PIN, which is not even looked at during a lockout.  The count   *)
(* of failed attempts is not reset when a lockout has expired.             *)
SubmitWrong ==
  /\ ~padLocked /\ failed < MaxFailed
  /\ authenticated' = FALSE
  /\ failed' = IF IsLockedOut THEN failed ELSE failed + 1
  /\ IF Locks(failed')
     THEN lockLeft' = (IF IsLockedOut THEN lockLeft ELSE LockTicks) /\ streak' = 0 /\ ShowLockout
     ELSE streak' = streak + 1 /\ UNCHANGED <<lockLeft, padLocked, countdowns>>
  /\ UNCHANGED <<inArea, releases>>

(* Any other page is navigated to, by a button or by a late closure.       *)
LeaveArea ==
  /\ inArea
  /\ inArea' = FALSE /\ authenticated' = FALSE
  /\ UNCHANGED <<failed, lockLeft, padLocked, countdowns, releases, streak>>

Tick ==
  /\ IsLockedOut
  /\ lockLeft' = lockLeft - 1
  /\ UNCHANGED <<inArea, authenticated, failed, padLocked, countdowns, releases, streak>>

(* The loop of a countdown ends: its last read of OperatorAuth.            *)
CountdownEnds ==
  /\ countdowns > 0 /\ ~IsLockedOut
  /\ countdowns' = countdowns - 1
  /\ releases' = releases + 1
  /\ UNCHANGED <<inArea, authenticated, failed, lockLeft, padLocked, streak>>

ReleasePad ==
  /\ releases > 0
  /\ releases' = releases - 1
  /\ padLocked' = IsLockedOut
  /\ UNCHANGED <<inArea, authenticated, failed, lockLeft, countdowns, streak>>

AreaNext == SubmitRight \/ SubmitWrong \/ LeaveArea \/ Tick \/ CountdownEnds \/ ReleasePad

(* Time passes and the two event loops run; nobody has to touch the pad.   *)
AreaFairness ==
  /\ WF_areaVars(Tick)
  /\ WF_areaVars(CountdownEnds)
  /\ WF_areaVars(ReleasePad)

AreaSpec == AreaInit /\ [][AreaNext]_areaVars
-----------------------------------------------------------------------------
AreaTypeOK ==
  /\ inArea \in BOOLEAN /\ authenticated \in BOOLEAN /\ padLocked \in BOOLEAN
  /\ failed \in 0..MaxFailed
  /\ lockLeft \in 0..LockTicks
  /\ countdowns \in Nat /\ releases \in Nat /\ streak \in Nat

(* The admin area relocks: whoever leaves it, by a button or because a     *)
(* late closure replaced the page, has to enter the PIN again.             *)
RelockedOutside == authenticated => inArea

(* OperatorAuth has no mutex.  Whenever the pad can call verify(), no      *)
(* countdown of the io thread reads it or is about to, and no closure of   *)
(* an earlier lockout can still unlock the pad of the next one.            *)
PadExcludesCountdown == ~padLocked => countdowns = 0 /\ releases = 0 /\ ~IsLockedOut

(* Guessing is slow: between two lockouts there are fewer wrong PINs than  *)
(* MaxAttempts, and once there was a lockout every further wrong PIN is    *)
(* one, until the right PIN has been entered.                              *)
GuessesArePaced == streak < MaxAttempts /\ (failed >= MaxAttempts => streak = 0)

(* A lockout ends: the pad of a locked-out operator becomes usable again.  *)
LockoutEnds == padLocked ~> ~padLocked
=============================================================================
