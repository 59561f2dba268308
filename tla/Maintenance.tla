------------------------------ MODULE Maintenance ------------------------------
(***************************************************************************)
(* A maintenance schedule and its completions.  A completion reads the     *)
(* schedule, and commits in one transaction a history row and the          *)
(* schedule's next targets: the mileage target moves by its interval from  *)
(* what it is by then, the date target from what was read.                 *)
(*                                                                         *)
(* Days, kilometres and engine hours count intervals from the start; what  *)
(* is read of the vehicle are the counters of its record.                  *)
(***************************************************************************)
EXTENDS Integers

CONSTANTS
    MRequests,    \* completions served at the same time
    MMaxServices, \* bound on the completions
    MSoon,        \* days, kilometres or hours left that count as due soon
    MMaxNow       \* bound on the day, the odometer and the engine hours

ASSUME MAssumption == MMaxServices \in Nat /\ MSoon \in Nat /\ MMaxNow \in Nat

VARIABLES
    mPlan,      \* the row of maintenance_schedule
    mHistory,   \* rows of maintenance_history
    mDocuments, \* rows of maintenance_attachments
    mRequest,   \* what each completion has read
    mDay, mOdometer, mHours,
    mLost       \* ghost: completions whose date was overwritten by another's

upkeep == <<mPlan, mHistory, mDocuments, mRequest, mDay, mOdometer, mHours, mLost>>

MNull == -1
MNoPlan == [status |-> "none", recurring |-> FALSE, date |-> MNull, mileage |-> MNull,
            hours |-> MNull, everyDays |-> FALSE, everyKm |-> FALSE]
MWaiting == [step |-> "idle", date |-> MNull, at |-> 0]

MInit ==
    /\ mPlan = MNoPlan /\ mHistory = 0 /\ mDocuments = 0 /\ mLost = 0
    /\ mRequest = [q \in MRequests |-> MWaiting]
    /\ mDay = 0 /\ mOdometer = 0 /\ mHours = 0

-----------------------------------------------------------------------------
(* Every field but the vehicle and the service is optional.                   *)
CreateMaintenanceSchedule ==
    /\ mPlan = MNoPlan
    /\ \E r, d, k \in BOOLEAN, date, mileage, hours \in {MNull, 1} :
          mPlan' = [status |-> "planned", recurring |-> r, date |-> date, mileage |-> mileage,
                    hours |-> hours, everyDays |-> d, everyKm |-> k]
    /\ UNCHANGED <<mHistory, mDocuments, mRequest, mDay, mOdometer, mHours, mLost>>

(* complete_maintenance finds the schedule, whatever its status.              *)
FetchSchedule(q) ==
    /\ mRequest[q] = MWaiting /\ mPlan # MNoPlan /\ mHistory < MMaxServices
    /\ mRequest' = [mRequest EXCEPT ![q] = [step |-> "read", date |-> mPlan.date, at |-> mHistory]]
    /\ UNCHANGED <<mPlan, mHistory, mDocuments, mDay, mOdometer, mHours, mLost>>

(* Bug: the mileage target starts again from the odometer, as the date may.   *)
NextTargetsBug(seen) ==
    IF mPlan.recurring
    THEN [mPlan EXCEPT !.status = "planned",
                       !.date = IF mPlan.everyDays /\ seen.date # MNull THEN seen.date + 1 ELSE MNull,
                       !.mileage = IF @ # MNull /\ mPlan.everyKm THEN mOdometer + 1 ELSE @]
    ELSE [mPlan EXCEPT !.status = "completed"]

(* A recurring schedule is planned again: without an interval its date is     *)
(* lost, and its target of engine hours stays as it is, whatever was served.  *)
NextTargets(seen) ==
    IF mPlan.recurring
    THEN [mPlan EXCEPT !.status = "planned",
                       !.date = IF mPlan.everyDays /\ seen.date # MNull THEN seen.date + 1 ELSE MNull,
                       !.mileage = IF @ # MNull /\ mPlan.everyKm THEN @ + 1 ELSE @]
    ELSE [mPlan EXCEPT !.status = "completed"]

CompleteMaintenance(q) ==
    /\ mRequest[q].step = "read" /\ mHistory < MMaxServices
    /\ mPlan' = NextTargets(mRequest[q]) /\ mHistory' = mHistory + 1
    /\ \E files \in 0..1 : mDocuments' = mDocuments + files
    /\ mLost' = IF mHistory # mRequest[q].at THEN mLost + mHistory - mRequest[q].at ELSE mLost
    /\ mRequest' = [mRequest EXCEPT ![q] = MWaiting]
    /\ UNCHANGED <<mDay, mOdometer, mHours>>

(* An exception rolls back.                                                   *)
RollBack(q) ==
    /\ mRequest[q].step = "read" /\ mRequest' = [mRequest EXCEPT ![q] = MWaiting]
    /\ UNCHANGED <<mPlan, mHistory, mDocuments, mDay, mOdometer, mHours, mLost>>

MDayPasses == mDay < MMaxNow /\ mDay' = mDay + 1
              /\ UNCHANGED <<mPlan, mHistory, mDocuments, mRequest, mOdometer, mHours, mLost>>
MDrives    == mOdometer < MMaxNow /\ mOdometer' = mOdometer + 1
              /\ UNCHANGED <<mPlan, mHistory, mDocuments, mRequest, mDay, mHours, mLost>>
MRuns      == mHours < MMaxNow /\ mHours' = mHours + 1
              /\ UNCHANGED <<mPlan, mHistory, mDocuments, mRequest, mDay, mOdometer, mLost>>

MNext == \/ CreateMaintenanceSchedule \/ MDayPasses \/ MDrives \/ MRuns
         \/ \E q \in MRequests : FetchSchedule(q) \/ CompleteMaintenance(q) \/ RollBack(q)

MSpec == MInit /\ [][MNext]_upkeep

-----------------------------------------------------------------------------
(* get_upcoming_maintenance_with_alerts: of a planned schedule.               *)
LiveStatus ==
    LET left == (IF mPlan.date = MNull THEN {} ELSE {mPlan.date - mDay})
                \cup (IF mPlan.mileage = MNull THEN {} ELSE {mPlan.mileage - mOdometer})
                \cup (IF mPlan.hours = MNull THEN {} ELSE {mPlan.hours - mHours})
    IN  IF mPlan.status # "planned" THEN "none"
        ELSE IF \E l \in left : l < 0 THEN "overdue"
        ELSE IF \E l \in left : l <= MSoon THEN "due" ELSE "planned"

MTypeOK ==
    /\ mPlan \in [status : {"none", "planned", "completed"}, recurring : BOOLEAN,
                  date : MNull..MMaxServices + 1, mileage : MNull..MMaxServices + 1,
                  hours : {MNull, 1}, everyDays : BOOLEAN, everyKm : BOOLEAN]
    /\ mHistory \in 0..MMaxServices /\ mDocuments \in 0..mHistory /\ mLost \in Nat
    /\ mRequest \in [MRequests -> [step : {"idle", "read"}, date : MNull..MMaxServices + 1, at : 0..MMaxServices]]
    /\ mDay \in 0..MMaxNow /\ mOdometer \in 0..MMaxNow /\ mHours \in 0..MMaxNow

(* Every service done moves a recurring plan on by one interval: the mileage  *)
(* target always, the date target unless completions overlapped, and then at  *)
(* least once and never too far.  So a plan that was served in every interval *)
(* so far is not overdue by its mileage: but by its engine hours it is, for   *)
(* no service moves their target, and once they are passed the plan stays     *)
(* overdue.                                                                   *)
ServiceMovesThePlan ==
    /\ mPlan.mileage # MNull /\ mPlan.everyKm /\ mPlan.recurring =>
          /\ mPlan.mileage = 1 + mHistory
          /\ LiveStatus = "overdue" /\ mPlan.date = MNull =>
                mOdometer > 1 + mHistory \/ (mPlan.hours = 1 /\ mHours > 1)
    /\ mPlan.hours = 1 /\ mHours > 1 /\ mPlan.recurring => LiveStatus = "overdue"
    /\ mPlan.date # MNull /\ mPlan.everyDays /\ mPlan.recurring =>
          /\ mPlan.date <= 1 + mHistory /\ mPlan.date >= 1 + mHistory - mLost
          /\ mHistory > 0 => mPlan.date > 1
    /\ ~mPlan.recurring /\ mHistory > 0 => mPlan.status = "completed" /\ LiveStatus = "none"
=============================================================================
