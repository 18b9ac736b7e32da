----------------------------- MODULE MCStation -----------------------------
(***************************************************************************)
(* The small components of the station, checked by one run.  They share no *)
(* variable, so their product would add nothing: part names the one that   *)
(* takes the steps of a behaviour while the others rest as they started.   *)
(***************************************************************************)
EXTENDS OperatorArea, Calibration, StationConfig, OrderFlow, ManualPopup

(* One glass with one common volume, and one with a choice of volumes.     *)
MCCommon == [g \in Glass |-> IF g = "tumbler" THEN {3} ELSE {1, 2}]

(* One recipe with a slider, with a nominal serving that is no volume of   *)
(* any glass, and one without a slider.                                    *)
MCContent ==
  [r \in Recipe |->
     IF r = "sour"
     THEN [nominal |-> 4, ml |-> <<1, 2, 1>>, category |-> <<"boostable", "reducible", "fixed">>]
     ELSE [nominal |-> 3, ml |-> <<1, 1>>, category |-> <<"reducible", "fixed">>]]

MCBoost == {-4, 0, 4}

VARIABLE part

Part == {"operator", "calibration", "config", "glasses", "order", "reconfigure", "popup"}

(* The guests order from a station whose glasses are offered as the        *)
(* catalog has them and whose saves work.                                  *)
Offered == stored = Common

Init ==
  /\ part \in Part
  /\ AreaInit /\ CalibrationInit /\ ConfigInit /\ GlassInit /\ OrderInit /\ PopupInit
  /\ part # "glasses" => Offered

Order == Ordering /\ intact'

(* Orders that follow each other closely, of guests who leave the slider   *)
(* alone; and orders one at a time with every boost, by an operator who    *)
(* changes the glasses in between.                                         *)
OrderQuickly == Order /\ page' # "admin" /\ slider' = 0
OrderBetweenEdits == Order /\ Len(ioQueue') <= 1

Next ==
  /\ UNCHANGED part
  /\ \/ part = "operator" /\ AreaNext /\ UNCHANGED <<calibrationVars, configVars, glassVars, orderVars, popupVars>>
     \/ part = "calibration" /\ CalibrationNext /\ UNCHANGED <<areaVars, configVars, glassVars, orderVars, popupVars>>
     \/ part = "config" /\ ConfigNext /\ UNCHANGED <<areaVars, calibrationVars, glassVars, orderVars, popupVars>>
     \/ part = "glasses" /\ GlassNext /\ UNCHANGED <<areaVars, calibrationVars, configVars, orderVars, popupVars>>
     \/ part = "order" /\ OrderQuickly /\ UNCHANGED <<areaVars, calibrationVars, configVars, popupVars>>
     \/ part = "reconfigure" /\ OrderBetweenEdits /\ UNCHANGED <<areaVars, calibrationVars, configVars, popupVars>>
     \/ part = "popup" /\ PopupNext /\ UNCHANGED <<areaVars, calibrationVars, configVars, glassVars, orderVars>>

vars == <<part, areaVars, calibrationVars, configVars, glassVars, orderVars, popupVars>>

(* The loops of a component that rests have nothing to do.                 *)
Spec == Init /\ [][Next]_vars /\ AreaFairness /\ CalibrationFairness /\ PopupFairness

(* The assignments alone.                                                  *)
AssignNext == Next /\ part = "config"
AssignSpec == Init /\ [][AssignNext]_vars
=============================================================================
