------------------------- MODULE AdminArea_proofs --------------------------
(***************************************************************************)
(* The admin area: its pad and the countdown exclude each other, and       *)
(* guessing is slow, for every number of attempts and every duration of a  *)
(* lockout; and its calibration popup explains every error and waits for   *)
(* an answer that comes, whatever the number of tasks and of reports.      *)
(***************************************************************************)
EXTENDS OperatorArea, Calibration, TLAPS

(* A locked pad waits for one countdown or for its last closure, and that  *)
(* closure is posted after the lockout.                                    *)
PadWaits ==
  /\ padLocked => countdowns + releases = 1
  /\ releases > 0 => lockLeft = 0

(* The wrong PINs that are observed are a part of those that are counted.  *)
StreakIsCounted == streak <= failed

AreaInv ==
  /\ AreaTypeOK /\ RelockedOutside /\ PadExcludesCountdown /\ GuessesArePaced
  /\ PadWaits /\ StreakIsCounted
-----------------------------------------------------------------------------
LEMMA InitArea == AreaInit => AreaInv
<1> SUFFICES ASSUME AreaInit PROVE AreaInv
  OBVIOUS
<1> USE AreaAssumption DEF AreaInit, IsLockedOut
<1>1. AreaTypeOK
  <2>1. inArea \in BOOLEAN /\ authenticated \in BOOLEAN /\ padLocked \in BOOLEAN
    BY Zenon
  <2>2. /\ failed \in 0..MaxFailed /\ lockLeft \in 0..LockTicks
        /\ countdowns \in Nat /\ releases \in Nat /\ streak \in Nat
    OBVIOUS
  <2> QED
    BY <2>1, <2>2 DEF AreaTypeOK
<1>2. RelockedOutside
  BY DEF RelockedOutside
<1>4. PadExcludesCountdown /\ PadWaits
  BY DEF PadExcludesCountdown, PadWaits
<1>3. GuessesArePaced /\ StreakIsCounted
  BY DEF GuessesArePaced, StreakIsCounted
<1> QED
  BY <1>1, <1>2, <1>3, <1>4 DEF AreaInv

(* The wrong PIN is the one step that starts a countdown: the pad is open  *)
(* then, so there is none.                                                 *)
LEMMA WrongKeepsArea == AreaInv /\ SubmitWrong => AreaInv'
<1> SUFFICES ASSUME AreaInv, SubmitWrong PROVE AreaInv'
  OBVIOUS
<1> USE AreaAssumption DEF AreaInv, IsLockedOut
<1>1. /\ ~padLocked /\ countdowns = 0 /\ releases = 0 /\ lockLeft = 0
      /\ failed < MaxFailed /\ failed' = failed + 1 /\ releases' = releases
      /\ authenticated' = FALSE /\ inArea' = inArea
  BY DEF SubmitWrong, PadExcludesCountdown, AreaTypeOK
<1>2. CASE Locks(failed')
  <2>1. /\ failed' >= MaxAttempts /\ streak' = 0
        /\ lockLeft' = LockTicks /\ padLocked' = TRUE /\ countdowns' = 1
    BY <1>1, <1>2 DEF SubmitWrong, ShowLockout, Locks
  <2>2. AreaTypeOK'
    <3>1. inArea' \in BOOLEAN /\ authenticated' \in BOOLEAN /\ padLocked' \in BOOLEAN
      BY <1>1, <2>1, Zenon DEF AreaTypeOK
    <3>2. /\ failed' \in 0..MaxFailed /\ lockLeft' \in 0..LockTicks
          /\ countdowns' \in Nat /\ releases' \in Nat /\ streak' \in Nat
      BY <1>1, <2>1 DEF AreaTypeOK
    <3> QED
      BY <3>1, <3>2 DEF AreaTypeOK
  <2>3. RelockedOutside'
    BY <1>1 DEF RelockedOutside
  <2>5. PadExcludesCountdown' /\ PadWaits'
    BY <1>1, <2>1 DEF PadExcludesCountdown, PadWaits
  <2>4. GuessesArePaced' /\ StreakIsCounted'
    BY <1>1, <2>1 DEF GuessesArePaced, StreakIsCounted, AreaTypeOK
  <2> QED
    BY <2>2, <2>3, <2>4, <2>5
<1>3. CASE ~Locks(failed')
  <2>1. /\ failed' < MaxAttempts /\ streak' = streak + 1
        /\ lockLeft' = lockLeft /\ padLocked' = padLocked /\ countdowns' = countdowns
    BY <1>1, <1>3 DEF SubmitWrong, Locks, AreaTypeOK
  <2>2. AreaTypeOK'
    <3>1. inArea' \in BOOLEAN /\ authenticated' \in BOOLEAN /\ padLocked' \in BOOLEAN
      BY <1>1, <2>1, Zenon DEF AreaTypeOK
    <3>2. /\ failed' \in 0..MaxFailed /\ lockLeft' \in 0..LockTicks
          /\ countdowns' \in Nat /\ releases' \in Nat /\ streak' \in Nat
      BY <1>1, <2>1 DEF AreaTypeOK
    <3> QED
      BY <3>1, <3>2 DEF AreaTypeOK
  <2>3. RelockedOutside'
    BY <1>1 DEF RelockedOutside
  <2>5. PadExcludesCountdown' /\ PadWaits'
    BY <1>1, <2>1 DEF PadExcludesCountdown, PadWaits
  <2>4. GuessesArePaced' /\ StreakIsCounted'
    BY <1>1, <2>1 DEF GuessesArePaced, StreakIsCounted, AreaTypeOK
  <2> QED
    BY <2>2, <2>3, <2>4, <2>5
<1> QED
  BY <1>2, <1>3

LEMMA StepArea == AreaInv /\ [AreaNext]_areaVars => AreaInv'
<1> SUFFICES ASSUME AreaInv, [AreaNext]_areaVars PROVE AreaInv'
  OBVIOUS
<1> USE AreaAssumption DEF IsLockedOut
<1>1. CASE SubmitRight
  BY <1>1 DEF SubmitRight, AreaInv, AreaTypeOK, RelockedOutside, PadExcludesCountdown, GuessesArePaced,
              PadWaits, StreakIsCounted
<1>2. CASE SubmitWrong
  BY <1>2, WrongKeepsArea
<1>3. CASE LeaveArea
  BY <1>3 DEF LeaveArea, AreaInv, AreaTypeOK, RelockedOutside, PadExcludesCountdown, GuessesArePaced,
              PadWaits, StreakIsCounted
<1>4. CASE Tick
  BY <1>4 DEF Tick, AreaInv, AreaTypeOK, RelockedOutside, PadExcludesCountdown, GuessesArePaced,
              PadWaits, StreakIsCounted
<1>5. CASE CountdownEnds
  BY <1>5 DEF CountdownEnds, AreaInv, AreaTypeOK, RelockedOutside, PadExcludesCountdown, GuessesArePaced,
              PadWaits, StreakIsCounted
<1>6. CASE ReleasePad
  <2>1. lockLeft = 0 /\ countdowns = 0 /\ releases = 1
    BY <1>6 DEF ReleasePad, AreaInv, AreaTypeOK, PadExcludesCountdown, PadWaits
  <2>2. IsLockedOut = FALSE
    BY <2>1
  <2>3. padLocked' = FALSE
    BY <1>6, <2>2, Zenon DEF ReleasePad
  <2> QED
    BY <1>6, <2>1, <2>3 DEF ReleasePad, AreaInv, AreaTypeOK, RelockedOutside, PadExcludesCountdown,
                            GuessesArePaced, PadWaits, StreakIsCounted
<1>7. CASE UNCHANGED areaVars
  BY <1>7 DEF areaVars, AreaInv, AreaTypeOK, RelockedOutside, PadExcludesCountdown, GuessesArePaced,
              PadWaits, StreakIsCounted
<1> QED
  BY <1>1, <1>2, <1>3, <1>4, <1>5, <1>6, <1>7 DEF AreaNext

(* Every reachable state of the operator area satisfies the invariant.     *)
THEOREM AreaCorrect == AreaSpec => []AreaInv
<1>1. AreaInit => AreaInv
  BY InitArea
<1>2. AreaInv /\ [AreaNext]_areaVars => AreaInv'
  BY StepArea
<1> QED
  BY <1>1, <1>2, PTL DEF AreaSpec

(* The variables have their types.                                         *)
THEOREM AreaTypeCorrect == AreaSpec => []AreaTypeOK
<1>1. AreaInv => AreaTypeOK
  BY DEF AreaInv
<1> QED
  BY <1>1, AreaCorrect, PTL

(* The Slint thread changes OperatorAuth only while no countdown of the io *)
(* thread reads it and no closure of an earlier lockout is queued.         *)
THEOREM PadAndCountdownExclude == AreaSpec => []PadExcludesCountdown
<1>1. AreaInv => PadExcludesCountdown
  BY DEF AreaInv
<1> QED
  BY <1>1, AreaCorrect, PTL

(* Fewer than MaxAttempts wrong PINs between two lockouts, and one each    *)
(* after the first lockout.                                                *)
THEOREM GuessingIsSlow == AreaSpec => []GuessesArePaced
<1>1. AreaInv => GuessesArePaced
  BY DEF AreaInv
<1> QED
  BY <1>1, AreaCorrect, PTL

(* Nobody is authenticated outside the admin area: it relocks on leaving,  *)
(* also when the lockout screen or the end of a countdown comes between.   *)
THEOREM AreaRelocks == AreaSpec => []RelockedOutside
<1>1. AreaInv => RelockedOutside
  BY DEF AreaInv
<1> QED
  BY <1>1, AreaCorrect, PTL
-----------------------------------------------------------------------------
Reports == [step : Step, value : {"running", "success", "error", "message"}]

CalibrationTypes ==
  /\ status \in [Step -> {"idle", "running", "success", "error"}] /\ message \in BOOLEAN
  /\ reports \in Seq(Reports)

(* The closure of an error is followed by the one of its message.          *)
ErrorsHaveMessages ==
  \A i \in 1..Len(reports) :
    reports[i].value = "error" => i + 1 \in 1..Len(reports) /\ reports[i + 1].value = "message"

(* A popup that is opened again forgets errors and message together, and   *)
(* no other step takes a message back.                                     *)
ShownErrorsAreExplained ==
  (\E s \in Step : status[s] = "error") =>
    message \/ \E i \in 1..Len(reports) : reports[i].value = "message"

CalibrationInv == CalibrationTypes /\ ErrorsHaveMessages /\ ShownErrorsAreExplained

LEMMA InitCalibration == CalibrationInit => CalibrationInv
<1> SUFFICES ASSUME CalibrationInit PROVE CalibrationInv
  OBVIOUS
<1>1. status = [s \in Step |-> "idle"] /\ message = FALSE /\ reports = <<>>
  BY DEF CalibrationInit
<1>2. CalibrationTypes
  <2>1. message \in BOOLEAN
    BY <1>1, Zenon
  <2> QED
    BY <1>1, <2>1 DEF CalibrationTypes
<1> QED
  BY <1>1, <1>2 DEF CalibrationInv, ErrorsHaveMessages, ShownErrorsAreExplained

(* A task reports that it runs or has succeeded.                           *)
LEMMA ReportKeepsCalibration ==
  ASSUME CalibrationInv, UNCHANGED <<status, message>>, NEW s \in Step, NEW value \in {"running", "success"},
         reports' = Append(reports, Report(s, value))
  PROVE  CalibrationInv'
<1> DEFINE r == Report(s, value)
<1>1. r \in Reports /\ r.value # "error"
  BY DEF Report, Reports
<1> HIDE DEF r
<1>2. reports \in Seq(Reports)
  BY DEF CalibrationInv, CalibrationTypes
<1>3. /\ reports' \in Seq(Reports) /\ Len(reports) \in Nat /\ Len(reports') = Len(reports) + 1
      /\ \A i \in 1..Len(reports) : reports'[i] = reports[i]
      /\ reports'[Len(reports) + 1] = r
  <2>1. reports' = Append(reports, r)
    BY DEF r
  <2> QED
    BY <1>1, <1>2, <2>1
<1> QED
  BY <1>1, <1>3 DEF CalibrationInv, CalibrationTypes, ErrorsHaveMessages, ShownErrorsAreExplained

(* A task reports that it has failed, with the message behind; one that    *)
(* finds no dispenser reports at once that it runs and that it has failed. *)
LEMMA FailureKeepsCalibration ==
  ASSUME CalibrationInv, UNCHANGED <<status, message>>, NEW s \in Step,
         \/ reports' = reports \o Failed(s)
         \/ reports' = Append(reports, Report(s, "running")) \o Failed(s)
  PROVE  CalibrationInv'
<1>0. PICK q \in {reports, Append(reports, Report(s, "running"))} : reports' = q \o Failed(s)
  OBVIOUS
<1> DEFINE e == Report(s, "error")
           m == Report(s, "message")
           r == Report(s, "running")
<1>1. /\ e \in Reports /\ m \in Reports /\ r \in Reports
      /\ e.value = "error" /\ m.value = "message" /\ r.value = "running"
  BY DEF Report, Reports
<1>2. reports' = q \o <<e, m>> /\ q \in {reports, Append(reports, r)}
  BY <1>0 DEF Failed
<1> HIDE DEF e, m, r
<1>3. reports \in Seq(Reports) /\ ErrorsHaveMessages /\ ShownErrorsAreExplained
  BY DEF CalibrationInv, CalibrationTypes
<1>4. /\ q \in Seq(Reports) /\ Len(q) \in Nat /\ Len(reports) \in Nat /\ Len(reports) <= Len(q)
      /\ \A i \in 1..Len(reports) : q[i] = reports[i]
      /\ \A i \in 1..Len(q) : i \in 1..Len(reports) \/ q[i] = r
  <2>1. CASE q = reports
    BY <1>3, <2>1
  <2>2. CASE q = Append(reports, r)
    BY <1>1, <1>3, <2>2
  <2> QED
    BY <1>2, <2>1, <2>2
<1>5. /\ reports' \in Seq(Reports) /\ Len(reports') = Len(q) + 2
      /\ \A i \in 1..Len(q) : reports'[i] = q[i]
      /\ reports'[Len(q) + 1] = e /\ reports'[Len(q) + 2] = m
  BY <1>1, <1>2, <1>4
<1>6. ErrorsHaveMessages'
  <2> SUFFICES ASSUME NEW i \in 1..Len(reports'), reports'[i].value = "error"
               PROVE  i + 1 \in 1..Len(reports') /\ reports'[i + 1].value = "message"
    BY DEF ErrorsHaveMessages
  <2>1. CASE i \in 1..Len(q)
    <3>1. i \in 1..Len(reports) /\ reports[i].value = "error"
      BY <1>1, <1>4, <1>5, <2>1
    <3>2. i + 1 \in 1..Len(reports) /\ reports[i + 1].value = "message"
      BY <1>3, <3>1 DEF ErrorsHaveMessages
    <3> QED
      BY <1>4, <1>5, <3>2
  <2>2. CASE i = Len(q) + 1
    BY <1>1, <1>4, <1>5, <2>2
  <2>3. CASE i = Len(q) + 2
    BY <1>1, <1>5, <2>3
  <2> QED
    BY <1>4, <1>5, <2>1, <2>2, <2>3
<1>7. ShownErrorsAreExplained'
  <2>1. Len(q) + 2 \in 1..Len(reports') /\ reports'[Len(q) + 2].value = "message"
    BY <1>1, <1>4, <1>5
  <2> QED
    BY <2>1 DEF ShownErrorsAreExplained
<1> QED
  BY <1>5, <1>6, <1>7 DEF CalibrationInv, CalibrationTypes

LEMMA ShowKeepsCalibration == CalibrationInv /\ ShowReport => CalibrationInv'
<1> SUFFICES ASSUME CalibrationInv, ShowReport PROVE CalibrationInv'
  OBVIOUS
<1>1. /\ CalibrationTypes /\ ErrorsHaveMessages /\ ShownErrorsAreExplained
      /\ reports # <<>> /\ reports' = Tail(reports)
  BY DEF CalibrationInv, ShowReport
<1>2. /\ Head(reports) = reports[1] /\ reports[1] \in Reports /\ reports' \in Seq(Reports)
      /\ Len(reports) \in Nat \ {0} /\ Len(reports') = Len(reports) - 1
      /\ \A i \in 1..Len(reports') : reports'[i] = reports[i + 1]
  BY <1>1 DEF CalibrationTypes
<1>3. IF reports[1].value = "message"
      THEN message' = TRUE /\ UNCHANGED status
      ELSE status' = [status EXCEPT ![reports[1].step] = reports[1].value] /\ UNCHANGED message
  BY <1>2 DEF ShowReport
<1>4. CalibrationTypes'
  <2>1. CASE reports[1].value = "message"
    <3>1. message' \in BOOLEAN
      BY <1>3, <2>1, Zenon
    <3> QED
      BY <1>1, <1>2, <1>3, <2>1, <3>1 DEF CalibrationTypes
  <2>2. CASE reports[1].value # "message"
    <3>1. reports[1].step \in Step /\ reports[1].value \in {"running", "success", "error"}
      BY <1>2, <2>2 DEF Reports
    <3>2. status' \in [Step -> {"idle", "running", "success", "error"}]
      BY <1>1, <1>3, <2>2, <3>1 DEF CalibrationTypes
    <3> QED
      BY <1>1, <1>2, <1>3, <2>2, <3>2 DEF CalibrationTypes
  <2> QED
    BY <2>1, <2>2
<1>5. ErrorsHaveMessages'
  BY <1>1, <1>2 DEF ErrorsHaveMessages
<1>6. ShownErrorsAreExplained'
  <2>1. CASE reports[1].value = "message"
    BY <1>3, <2>1 DEF ShownErrorsAreExplained
  <2>2. CASE reports[1].value = "error"
    <3>1. 2 \in 1..Len(reports) /\ reports[2].value = "message"
      BY <1>1, <1>2, <2>2 DEF ErrorsHaveMessages
    <3>2. 1 \in 1..Len(reports') /\ reports'[1].value = "message"
      BY <1>2, <3>1
    <3> QED
      BY <3>2 DEF ShownErrorsAreExplained
  <2>3. CASE reports[1].value \in {"running", "success"}
    <3> SUFFICES ASSUME NEW s \in Step, status'[s] = "error", ~message
                 PROVE  \E i \in 1..Len(reports') : reports'[i].value = "message"
      BY <1>3, <2>3 DEF ShownErrorsAreExplained
    <3>1. status[s] = "error"
      BY <1>1, <1>3, <2>3 DEF CalibrationTypes
    <3>2. PICK i \in 1..Len(reports) : reports[i].value = "message"
      BY <1>1, <3>1 DEF ShownErrorsAreExplained
    <3>3. i - 1 \in 1..Len(reports') /\ reports'[i - 1] = reports[i]
      BY <1>2, <2>3, <3>2
    <3> QED
      BY <3>2, <3>3
  <2> QED
    BY <1>2, <2>1, <2>2, <2>3 DEF Reports
<1> QED
  BY <1>4, <1>5, <1>6 DEF CalibrationInv

LEMMA StepCalibration == CalibrationInv /\ [CalibrationNext]_calibrationVars => CalibrationInv'
<1> SUFFICES ASSUME CalibrationInv, [CalibrationNext]_calibrationVars PROVE CalibrationInv'
  OBVIOUS
<1>1. CASE OpenCalibration
  <2>1. status' = [s \in Step |-> "idle"] /\ message' = FALSE /\ reports' = reports
    BY <1>1 DEF OpenCalibration
  <2>2. CalibrationTypes'
    BY <2>1 DEF CalibrationInv, CalibrationTypes
  <2> QED
    BY <2>1, <2>2 DEF CalibrationInv, ErrorsHaveMessages, ShownErrorsAreExplained
<1>2. CASE ShowReport
  BY <1>2, ShowKeepsCalibration
<1>3. CASE UNCHANGED <<status, message, reports>>
  BY <1>3 DEF CalibrationInv, CalibrationTypes, ErrorsHaveMessages, ShownErrorsAreExplained
<1>4. ASSUME NEW s \in Step, StartStep(s) PROVE CalibrationInv'
  BY <1>3, <1>4 DEF StartStep
<1>5. ASSUME NEW s \in Step, Begin(s) \/ Succeed(s) PROVE CalibrationInv'
  BY <1>5, ReportKeepsCalibration DEF Begin, Succeed
<1>6. ASSUME NEW s \in Step, Fail(s) PROVE CalibrationInv'
  BY <1>6, FailureKeepsCalibration DEF Fail
<1>7. ASSUME NEW s \in Step, BeginWithoutDispenser(s) PROVE CalibrationInv'
  BY <1>7, FailureKeepsCalibration DEF BeginWithoutDispenser
<1> QED
  BY <1>1, <1>2, <1>3, <1>4, <1>5, <1>6, <1>7 DEF CalibrationNext, calibrationVars

LEMMA CalibrationCorrect == CalibrationSpec => []CalibrationInv
  BY InitCalibration, StepCalibration, PTL DEF CalibrationSpec

(* Whatever tasks of this or an earlier dispenser report to the popup, and *)
(* however often it is opened in between: a step that shows an error is    *)
(* explained once the queued closures have run.                            *)
THEOREM CalibrationExplainsErrors == CalibrationSpec => []ErrorsAreExplained
<1>1. CalibrationInv => ErrorsAreExplained
  BY DEF CalibrationInv, ShownErrorsAreExplained, ErrorsAreExplained
<1> QED
  BY <1>1, CalibrationCorrect, PTL
-----------------------------------------------------------------------------
(* Every "running" has its result, or its task still waits for the Pod: at *)
(* the position of the report, and for the status that is shown.           *)
Result(s) == {Report(s, "success"), Report(s, "error")}
AnsweredAfter(s, i) == awaiting[s] > 0 \/ \E j \in (i + 1)..Len(reports) : reports[j] \in Result(s)

RunningInv ==
  /\ awaiting \in [Step -> Nat]
  /\ \A s \in Step : status[s] = "running" => AnsweredAfter(s, 0)
  /\ \A s \in Step, i \in 1..Len(reports) : reports[i] = Report(s, "running") => AnsweredAfter(s, i)

LEMMA ResultsAreReports ==
  ASSUME NEW s \in Step
  PROVE  /\ Result(s) \subseteq Reports /\ Report(s, "running") \in Reports
         /\ Failed(s) \in Seq(Reports) /\ Len(Failed(s)) = 2 /\ Failed(s)[1] = Report(s, "error")
         /\ \A q \in Step : Report(q, "running") \notin Result(s) /\ \A i \in 1..2 : Failed(s)[i] # Report(q, "running")
         /\ \A q \in Step : Report(q, "running") = Report(s, "running") => q = s
BY DEF Result, Report, Reports, Failed

(* Reports that are added behind the queue keep what was answered, if no   *)
(* task is given up; a result answers all that its step has reported.      *)
LEMMA AddedKeepsRunning ==
  ASSUME CalibrationTypes, RunningInv, NEW s \in Step, NEW new \in Seq(Reports), Len(new) > 0, reports' = reports \o new,
         UNCHANGED status, awaiting' \in [Step -> Nat],
         \A q \in Step : q # s => awaiting'[q] = awaiting[q],
         awaiting'[s] > 0 \/ \E j \in 1..Len(new) : new[j] \in Result(s) /\ \A i \in 1..Len(new) : new[i] = Report(s, "running") => i < j,
         awaiting'[s] >= awaiting[s] \/ \E j \in 1..Len(new) : new[j] \in Result(s),
         \A q \in Step, i \in 1..Len(new) : new[i] = Report(q, "running") => q = s
  PROVE  RunningInv'
<1>1. /\ reports \in Seq(Reports) /\ Len(reports) \in Nat /\ Len(new) \in Nat \ {0} /\ Len(reports') = Len(reports) + Len(new)
      /\ \A i \in 1..Len(reports) : reports'[i] = reports[i]
      /\ \A i \in 1..Len(new) : reports'[Len(reports) + i] = new[i]
  BY DEF CalibrationTypes
<1>2. awaiting \in [Step -> Nat]
  BY DEF RunningInv
<1>3. ASSUME NEW q \in Step, NEW i \in 0..Len(reports), AnsweredAfter(q, i) PROVE AnsweredAfter(q, i)'
  <2>1. ASSUME NEW j \in (i + 1)..Len(reports), reports[j] \in Result(q) PROVE AnsweredAfter(q, i)'
    <3>1. j \in (i + 1)..Len(reports') /\ reports'[j] \in Result(q)
      BY <1>1, <2>1
    <3> QED
      BY <3>1 DEF AnsweredAfter, Result
  <2>2. CASE awaiting[q] > 0 /\ (q # s \/ awaiting'[s] >= awaiting[s])
    BY <1>2, <2>2 DEF AnsweredAfter
  <2>3. ASSUME NEW j \in 1..Len(new), new[j] \in Result(s), q = s PROVE AnsweredAfter(q, i)'
    <3>1. Len(reports) + j \in (i + 1)..Len(reports') /\ reports'[Len(reports) + j] \in Result(q)
      BY <1>1, <2>3
    <3> QED
      BY <3>1 DEF AnsweredAfter, Result
  <2> QED
    BY <1>3, <2>1, <2>2, <2>3 DEF AnsweredAfter
<1>4. ASSUME NEW q \in Step, status[q] = "running" PROVE AnsweredAfter(q, 0)'
  BY <1>1, <1>3, <1>4 DEF RunningInv
<1>5. ASSUME NEW q \in Step, NEW i \in 1..Len(reports'), reports'[i] = Report(q, "running") PROVE AnsweredAfter(q, i)'
  <2>1. CASE i \in 1..Len(reports)
    BY <1>1, <1>3, <1>5, <2>1 DEF RunningInv
  <2>2. CASE i \notin 1..Len(reports)
    <3>1. PICK k \in 1..Len(new) : i = Len(reports) + k
      <4>1. i - Len(reports) \in 1..Len(new)
        BY <1>1, <2>2
      <4> QED
        BY <1>1, <4>1
    <3>2. new[k] = Report(s, "running") /\ q = s
      BY <1>1, <1>5, <3>1
    <3>3. CASE awaiting'[s] > 0
      BY <3>2, <3>3 DEF AnsweredAfter
    <3>4. ASSUME NEW j \in 1..Len(new), new[j] \in Result(s), k < j PROVE AnsweredAfter(q, i)'
      <4>1. Len(reports) + j \in (i + 1)..Len(reports') /\ reports'[Len(reports) + j] \in Result(q)
        BY <1>1, <3>1, <3>2, <3>4
      <4> QED
        BY <4>1 DEF AnsweredAfter, Result
    <3> QED
      BY <3>2, <3>3, <3>4
  <2> QED
    BY <2>1, <2>2
<1> QED
  BY <1>4, <1>5 DEF RunningInv

LEMMA ShowKeepsRunning == ASSUME CalibrationTypes, RunningInv, ShowReport PROVE RunningInv'
<1>1. /\ reports' = Tail(reports) /\ UNCHANGED awaiting /\ reports[1] \in Reports
      /\ Len(reports) \in Nat \ {0} /\ Len(reports') = Len(reports) - 1
      /\ \A i \in 1..Len(reports') : reports'[i] = reports[i + 1]
      /\ IF reports[1].value = "message" THEN UNCHANGED status
         ELSE status' = [status EXCEPT ![reports[1].step] = reports[1].value]
  BY DEF ShowReport, CalibrationTypes
<1>2. ASSUME NEW s \in Step, NEW i \in 1..Len(reports), AnsweredAfter(s, i) PROVE AnsweredAfter(s, i - 1)'
  <2>1. ASSUME NEW j \in (i + 1)..Len(reports), reports[j] \in Result(s) PROVE AnsweredAfter(s, i - 1)'
    <3>1. j - 1 \in i..Len(reports') /\ reports'[j - 1] \in Result(s)
      BY <1>1, <2>1
    <3>2. i - 1 + 1 = i
      OBVIOUS
    <3> QED
      BY <3>1, <3>2 DEF AnsweredAfter, Result
  <2> QED
    BY <1>1, <1>2, <2>1 DEF AnsweredAfter
<1>3. ASSUME NEW s \in Step, status'[s] = "running" PROVE AnsweredAfter(s, 0)'
  <2>1. CASE reports[1] = Report(s, "running")
    <3>1. AnsweredAfter(s, 1) /\ 1 \in 1..Len(reports)
      BY <1>1, <2>1 DEF RunningInv
    <3> QED
      BY <1>2, <3>1
  <2>2. CASE reports[1] # Report(s, "running")
    <3>1. status[s] = "running" /\ reports[1] \notin Result(s)
      BY <1>1, <1>3, <2>2 DEF CalibrationTypes, Reports, Report, Result
    <3>2. AnsweredAfter(s, 0)
      BY <3>1 DEF RunningInv
    <3>3. AnsweredAfter(s, 1)
      BY <1>1, <3>1, <3>2 DEF AnsweredAfter
    <3>4. 1 \in 1..Len(reports)
      BY <1>1
    <3> QED
      BY <1>2, <3>3, <3>4
  <2> QED
    BY <2>1, <2>2
<1>4. ASSUME NEW s \in Step, NEW i \in 1..Len(reports'), reports'[i] = Report(s, "running") PROVE AnsweredAfter(s, i)'
  <2>1. i + 1 \in 1..Len(reports) /\ reports[i + 1] = Report(s, "running") /\ (i + 1) - 1 = i
    BY <1>1, <1>4
  <2>2. AnsweredAfter(s, i + 1)
    BY <2>1 DEF RunningInv
  <2> QED
    BY <1>2, <2>1, <2>2
<1> QED
  BY <1>1, <1>3, <1>4 DEF RunningInv

LEMMA Appending ==
  ASSUME NEW S, NEW s \in Seq(S), NEW x \in S
  PROVE  Append(s, x) = s \o <<x>> /\ <<x>> \in Seq(S)
OBVIOUS

LEMMA AppendingTwice ==
  ASSUME NEW S, NEW s \in Seq(S), NEW x \in S, NEW t \in Seq(S)
  PROVE  /\ Append(s, x) \o t = s \o (<<x>> \o t) /\ <<x>> \o t \in Seq(S)
         /\ Len(<<x>> \o t) = Len(t) + 1 /\ (<<x>> \o t)[1] = x
         /\ \A i \in 1..Len(t) : (<<x>> \o t)[i + 1] = t[i]
OBVIOUS

LEMMA AddingThree ==
  ASSUME NEW R, NEW x \in R, NEW t \in Seq(R), NEW s \in Seq(R), Len(t) = 2
  PROVE  \E new \in Seq(R) :
           /\ Append(s, x) \o t = s \o new
           /\ Len(new) = 3 /\ new[1] = x /\ new[2] = t[1] /\ new[3] = t[2]
<1>1. /\ Append(s, x) \o t = s \o (<<x>> \o t)
      /\ <<x>> \o t \in Seq(R)
  <2>1. Append(s, x) \o t = s \o (<<x>> \o t)
    BY AppendingTwice
  <2>2. <<x>> \o t \in Seq(R)
    OBVIOUS
  <2> QED BY <2>1, <2>2
<1>2.   Len(<<x>> \o t) = Len(t) + 1
  OBVIOUS
<1>3.  (<<x>> \o t)[1] = x
  OBVIOUS
<1>4. \A i \in 1..Len(t) : (<<x>> \o t)[i + 1] = t[i]
  <2> SUFFICES ASSUME NEW i \in 1..Len(t) PROVE (<<x>> \o t)[i + 1] = t[i]
    OBVIOUS
  <2>1. Len(<<x>>) = 1 /\ i + 1 \in 1..(Len(<<x>>) + Len(t)) /\ i + 1 > Len(<<x>>)
    OBVIOUS
  <2> QED
    BY <2>1
<1> DEFINE new == <<x>> \o t
<1> HIDE DEF new
<1>5. /\ Append(s, x) \o t = s \o new /\ new \in Seq(R)
      /\ Len(new) = 3 /\ new[1] = x /\ \A i \in 1..2 : new[i + 1] = t[i]
  BY <1>1, <1>2, <1>3, <1>4 DEF new
<1>6. new[2] = t[1] /\ new[3] = t[2]
  <2>1. new[1 + 1] = t[1] /\ new[2 + 1] = t[2]
    BY <1>5
  <2> QED
    BY <2>1
<1> QED
  BY <1>5, <1>6

LEMMA StepRunning ==
  ASSUME CalibrationTypes, RunningInv, [CalibrationNext]_calibrationVars
  PROVE  RunningInv'
<1>0. awaiting \in [Step -> Nat] /\ reports \in Seq(Reports)
  BY DEF RunningInv, CalibrationTypes
<1>1. CASE OpenCalibration
  <2>1. status' = [s \in Step |-> "idle"] /\ UNCHANGED <<reports, awaiting>>
    BY <1>1 DEF OpenCalibration
  <2> QED
    BY <2>1 DEF RunningInv, AnsweredAfter, Result
<1>2. CASE UNCHANGED <<status, reports, awaiting>>
  BY <1>2 DEF RunningInv, AnsweredAfter, Result
<1>3. ASSUME NEW s \in Step, Begin(s) PROVE RunningInv'
  <2> DEFINE new == <<Report(s, "running")>>
  <2>1. new \in Seq(Reports) /\ Len(new) = 1 /\ new[1] = Report(s, "running")
    BY ResultsAreReports
  <2>2. reports' = reports \o new /\ UNCHANGED status /\ awaiting' = [awaiting EXCEPT ![s] = @ + 1]
    BY <1>0, <1>3, ResultsAreReports, Appending DEF Begin
  <2> HIDE DEF new
  <2>3. \A q \in Step, i \in 1..Len(new) : new[i] = Report(q, "running") => q = s
    BY <2>1, ResultsAreReports
  <2>4. /\ awaiting' \in [Step -> Nat] /\ awaiting'[s] = awaiting[s] + 1 /\ awaiting[s] \in Nat
        /\ \A q \in Step : q # s => awaiting'[q] = awaiting[q]
    BY <1>0, <2>2
  <2>5. awaiting'[s] > 0 /\ awaiting'[s] >= awaiting[s] /\ Len(new) > 0
    BY <2>1, <2>4
  <2> QED
    BY <2>1, <2>2, <2>3, <2>4, <2>5, AddedKeepsRunning
<1>4. ASSUME NEW s \in Step, BeginWithoutDispenser(s) PROVE RunningInv'
  <2>1. PICK r \in Reports, f \in Seq(Reports) :
          /\ reports' = Append(reports, r) \o f /\ UNCHANGED <<status, awaiting>>
          /\ Len(f) = 2 /\ f[1] \in Result(s)
          /\ \A q \in Step, i \in 1..2 : f[i] # Report(q, "running")
          /\ \A q \in Step : r = Report(q, "running") => q = s
    <3>1. reports' = Append(reports, Report(s, "running")) \o Failed(s) /\ UNCHANGED <<status, awaiting>>
      BY <1>4 DEF BeginWithoutDispenser
    <3> DEFINE r == Report(s, "running")
               f == Failed(s)
    <3>2. /\ r \in Reports /\ f \in Seq(Reports) /\ Len(f) = 2 /\ f[1] \in Result(s)
          /\ \A q \in Step, i \in 1..2 : f[i] # Report(q, "running")
          /\ \A q \in Step : r = Report(q, "running") => q = s
      BY ResultsAreReports DEF Result
    <3>3. reports' = Append(reports, r) \o f /\ UNCHANGED <<status, awaiting>>
      BY <3>1
    <3> HIDE DEF r, f
    <3> QED
      BY <3>2, <3>3
  <2>3. PICK new \in Seq(Reports) :
          /\ reports' = reports \o new
          /\ Len(new) = 3 /\ new[1] = r /\ new[2] = f[1] /\ new[3] = f[2]
    <3>1. reports \in Seq(Reports)
      BY <1>0
    <3>2. Len(f) = 2 /\ f \in Seq(Reports) /\ r \in Reports
      BY <2>1
    <3>3. \E new \in Seq(Reports) : /\ Append(reports, r) \o f = reports \o new
                                    /\ Len(new) = 3 /\ new[1] = r /\ new[2] = f[1] /\ new[3] = f[2]
      BY <3>1, <3>2, AddingThree
    <3> QED
      BY <2>1, <3>3
  <2>4. \A q \in Step, i \in 1..Len(new) : new[i] = Report(q, "running") => q = s /\ i = 1
    BY <2>1, <2>3
  <2>5. 2 \in 1..Len(new) /\ new[2] \in Result(s) /\ \A i \in 1..Len(new) : new[i] = Report(s, "running") => i < 2
    BY <2>1, <2>3, <2>4
  <2>6. /\ awaiting' \in [Step -> Nat] /\ awaiting'[s] >= awaiting[s] /\ Len(new) > 0
        /\ \A q \in Step : q # s => awaiting'[q] = awaiting[q]
    BY <1>0, <2>1, <2>3
  <2> QED
    BY <2>1, <2>3, <2>4, <2>5, <2>6, AddedKeepsRunning
<1>5. ASSUME NEW s \in Step, Succeed(s) \/ Fail(s) PROVE RunningInv'
  <2>1. PICK new \in {<<Report(s, "success")>>, Failed(s)} : reports' = reports \o new
    <3>1. Report(s, "success") \in Reports
      BY ResultsAreReports DEF Result
    <3> QED
      BY <1>0, <1>5, <3>1, Appending DEF Succeed, Fail
  <2>2. /\ new \in Seq(Reports) /\ Len(new) > 0 /\ new[1] \in Result(s) /\ 1 \in 1..Len(new)
        /\ \A q \in Step, i \in 1..Len(new) : new[i] # Report(q, "running")
    <3>1. CASE new = <<Report(s, "success")>>
      BY <3>1, ResultsAreReports DEF Result
    <3>2. CASE new = Failed(s)
      BY <3>2, ResultsAreReports DEF Result
    <3> QED
      BY <3>1, <3>2
  <2>3. awaiting[s] > 0 /\ awaiting' = [awaiting EXCEPT ![s] = @ - 1] /\ UNCHANGED status
    BY <1>5 DEF Succeed, Fail
  <2>4. awaiting' \in [Step -> Nat] /\ \A q \in Step : q # s => awaiting'[q] = awaiting[q]
    BY <1>0, <2>3
  <2>5. \E j \in 1..Len(new) : new[j] \in Result(s) /\ \A i \in 1..Len(new) : new[i] = Report(s, "running") => i < j
    BY <2>2
  <2>6. \A q \in Step, i \in 1..Len(new) : new[i] = Report(q, "running") => q = s
    BY <2>2
  <2> QED
    BY <2>1, <2>2, <2>3, <2>4, <2>5, <2>6, AddedKeepsRunning
<1> QED
  BY <1>1, <1>2, <1>3, <1>4, <1>5, ShowKeepsRunning DEF CalibrationNext, StartStep, calibrationVars

(* No step of the popup waits for a task that has already reported, or     *)
(* that was never started: for any number of tasks and openings.           *)
THEOREM CalibrationAnswers == CalibrationSpec => []RunningIsAnswered
<1>1. CalibrationInit => RunningInv
  <2> SUFFICES ASSUME CalibrationInit PROVE RunningInv
    OBVIOUS
  <2>1. Len(reports) = 0 /\ awaiting = [s \in Step |-> 0] /\ \A s \in Step : status[s] = "idle"
    BY DEF CalibrationInit
  <2> QED
    BY <2>1 DEF RunningInv
<1>2. CalibrationInv /\ RunningInv /\ [CalibrationNext]_calibrationVars => RunningInv'
  BY StepRunning DEF CalibrationInv
<1>3. RunningInv => RunningIsAnswered
  <2> SUFFICES ASSUME RunningInv, NEW s \in Step, status[s] = "running"
               PROVE  awaiting[s] > 0 \/ \E i \in 1..Len(reports) : reports[i] \in {Report(s, "success"), Report(s, "error")}
    BY DEF RunningIsAnswered
  <2>1. AnsweredAfter(s, 0) /\ 0 + 1 = 1
    BY DEF RunningInv
  <2> QED
    BY <2>1 DEF AnsweredAfter, Result
<1> QED
  BY <1>1, <1>2, <1>3, CalibrationCorrect, PTL DEF CalibrationSpec
=============================================================================
