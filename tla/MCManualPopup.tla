-------------------------- MODULE MCManualPopup --------------------------
(* The instances of ManualPopup that TLC checks: the commands of a recipe  *)
(* one after another, and two that wait for the guest at the same time.    *)
EXTENDS ManualPopup
=============================================================================
