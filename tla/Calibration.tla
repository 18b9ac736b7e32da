---------------------------- MODULE Calibration ----------------------------
(***************************************************************************)
(* The calibration popup (gui/src/dispenser_calibration_bridge.cpp): three *)
(* steps, each a task of the io thread that reports through closures of    *)
(* the Slint thread.  The popup is opened for one dispenser after another; *)
(* a task of an earlier one reports to whatever popup is open.             *)
(***************************************************************************)
EXTENDS Naturals, Sequences, Functions

CONSTANTS
  MaxTasks,    \* bound: calibration tasks at the same time
  MaxReports   \* bound: closures queued when a further task is started

ASSUME CalibrationAssumption == MaxTasks \in Nat \ {0} /\ MaxReports \in Nat

VARIABLES
  status,     \* of each step, as the popup shows it
  message,    \* the popup shows an error message
  spawned,    \* tasks of a step that have not begun
  awaiting,   \* tasks of a step that wait for the Pod's answer
  reports     \* closures of the Slint thread

calibrationVars == <<status, message, spawned, awaiting, reports>>

Step == {"tare", "weight", "pump"}
Report(s, value) == [step |-> s, value |-> value]
Failed(s) == <<Report(s, "error"), Report(s, "message")>>
Tasks == FoldFunction(+, 0, spawned) + FoldFunction(+, 0, awaiting)

CalibrationInit ==
  /\ status = [s \in Step |-> "idle"] /\ message = FALSE
  /\ spawned = [s \in Step |-> 0] /\ awaiting = [s \in Step |-> 0]
  /\ reports = <<>>

(* The operator opens the popup, for this or another dispenser.            *)
OpenCalibration ==
  /\ status' = [s \in Step |-> "idle"] /\ message' = FALSE
  /\ UNCHANGED <<spawned, awaiting, reports>>

(* The button of a step is enabled until "running" has come back.          *)
StartStep(s) ==
  /\ Tasks < MaxTasks /\ Len(reports) <= MaxReports
  /\ status[s] # "running"
  /\ s = "pump" => status["weight"] = "success"
  /\ spawned' = [spawned EXCEPT ![s] = @ + 1]
  /\ UNCHANGED <<status, message, awaiting, reports>>

Begin(s) ==
  /\ spawned[s] > 0
  /\ spawned' = [spawned EXCEPT ![s] = @ - 1]
  /\ awaiting' = [awaiting EXCEPT ![s] = @ + 1]
  /\ reports' = Append(reports, Report(s, "running"))
  /\ UNCHANGED <<status, message>>

(* Mutant: a dispenser that is not found is only logged. *)
BeginWithoutDispenser_Silent(s) ==
  /\ spawned[s] > 0
  /\ spawned' = [spawned EXCEPT ![s] = @ - 1]
  /\ reports' = Append(reports, Report(s, "running"))
  /\ UNCHANGED <<status, message, awaiting>>

(* The Pod was unplugged after the popup was opened.                       *)
BeginWithoutDispenser(s) ==
  /\ spawned[s] > 0
  /\ spawned' = [spawned EXCEPT ![s] = @ - 1]
  /\ reports' = Append(reports, Report(s, "running")) \o Failed(s)
  /\ UNCHANGED <<status, message, awaiting>>

Succeed(s) ==
  /\ awaiting[s] > 0
  /\ awaiting' = [awaiting EXCEPT ![s] = @ - 1]
  /\ reports' = Append(reports, Report(s, "success"))
  /\ UNCHANGED <<status, message, spawned>>

(* Mutant: the exception of a request is not shown. *)
Fail_NoMessage(s) ==
  /\ awaiting[s] > 0
  /\ awaiting' = [awaiting EXCEPT ![s] = @ - 1]
  /\ reports' = Append(reports, Report(s, "error"))
  /\ UNCHANGED <<status, message, spawned>>

Fail(s) ==
  /\ awaiting[s] > 0
  /\ awaiting' = [awaiting EXCEPT ![s] = @ - 1]
  /\ reports' = reports \o Failed(s)
  /\ UNCHANGED <<status, message, spawned>>

ShowReport ==
  /\ reports # <<>>
  /\ reports' = Tail(reports)
  /\ LET r == Head(reports) IN
     IF r.value = "message"
     THEN message' = TRUE /\ UNCHANGED status
     ELSE status' = [status EXCEPT ![r.step] = r.value] /\ UNCHANGED message
  /\ UNCHANGED <<spawned, awaiting>>

CalibrationNext ==
  \/ OpenCalibration \/ ShowReport
  \/ \E s \in Step : \/ StartStep(s) \/ Begin(s) \/ BeginWithoutDispenser(s)
                     \/ Succeed(s) \/ Fail(s)

(* Every request of a Pod ends: EveryRequestEnds of PodSession.            *)
CalibrationFairness ==
  /\ \A s \in Step : /\ WF_calibrationVars(Begin(s) \/ BeginWithoutDispenser(s))
                     /\ WF_calibrationVars(Succeed(s) \/ Fail(s))
  /\ WF_calibrationVars(ShowReport)

CalibrationSpec == CalibrationInit /\ [][CalibrationNext]_calibrationVars
-----------------------------------------------------------------------------
(* No step stays "running" (and its button disabled), whichever tasks of   *)
(* this or an earlier dispenser report in between.                         *)
StepsSettle == \A s \in Step : status[s] = "running" ~> status[s] # "running"

(* A step that shows "running" waits for its Pod, or its result is queued, *)
(* whichever tasks of this or an earlier dispenser report in between.      *)
RunningIsAnswered ==
  \A s \in Step : status[s] = "running" =>
    \/ awaiting[s] > 0
    \/ \E i \in 1..Len(reports) : reports[i] \in {Report(s, "success"), Report(s, "error")}

(* A step that shows an error shows a reason as well, once the closures    *)
(* that are queued have run.                                               *)
ErrorsAreExplained ==
  reports = <<>> /\ (\E s \in Step : status[s] = "error") => message
=============================================================================
