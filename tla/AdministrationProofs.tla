------------------------- MODULE AdministrationProofs -------------------------
(* Theorems about the administration of a fleet and the limits of its API,    *)
(* for any number of overlapping requests: maintenance schedules, the limits  *)
(* of an account, the rate limiter and the answers of the copilot.            *)
EXTENDS Maintenance, AccountLimits, RateLimiter, CopilotChat, KnowledgeBase, AccountTree,
        Counting, FunctionTheorems, SequenceTheorems

-----------------------------------------------------------------------------
(* Maintenance schedules.                                                     *)

MPlanType == [status : {"none", "planned", "completed"}, recurring : BOOLEAN,
              date : Int, mileage : Int, hours : {MNull, 1}, everyDays : BOOLEAN, everyKm : BOOLEAN]
MRequestType == [step : {"idle", "read"}, date : Int, at : Nat]

MTypes ==
    /\ mPlan \in MPlanType /\ mRequest \in [MRequests -> MRequestType]
    /\ mHistory \in Nat /\ mLost \in Nat /\ mDay \in Nat /\ mOdometer \in Nat /\ mHours \in Nat

(* Without a schedule nothing was read or served.                             *)
NothingServed ==
    mPlan.status = "none" => /\ mPlan = MNoPlan /\ mHistory = 0
                             /\ \A q \in MRequests : mRequest[q].step = "idle"

MileageMoves ==
    mPlan.mileage # MNull /\ mPlan.everyKm /\ mPlan.recurring => mPlan.mileage = 1 + mHistory

(* A date that was right after the first `at` services, of which `lost` did   *)
(* not count.                                                                 *)
Dated(date, at, lost) == date # MNull => date <= 1 + at /\ date >= 1 + at - lost /\ date >= 1

DateMoves ==
    mPlan.everyDays /\ mPlan.recurring =>
        /\ Dated(mPlan.date, mHistory, mLost)
        /\ mHistory > 0 /\ mPlan.date # MNull => mPlan.date > 1

ReadIsDated ==
    \A q \in MRequests : mRequest[q].step = "read" =>
        /\ mRequest[q].at <= mHistory
        /\ mPlan.everyDays /\ mPlan.recurring => Dated(mRequest[q].date, mRequest[q].at, mLost)

OnceIsDone ==
    /\ ~mPlan.recurring /\ mHistory > 0 => mPlan.status = "completed"
    /\ mPlan.recurring => mPlan.status = "planned"

MInv == MTypes /\ NothingServed /\ MileageMoves /\ DateMoves /\ ReadIsDated /\ OnceIsDone

USE DEF MNull

LEMMA MInitInv == MInit => MInv
<1> SUFFICES ASSUME MInit PROVE MInv
  OBVIOUS
<1>1. /\ MNoPlan \in MPlanType /\ MNoPlan.status = "none" /\ ~MNoPlan.recurring
      /\ MNoPlan.date = MNull /\ MNoPlan.mileage = MNull /\ MNoPlan.hours = MNull
      /\ MWaiting \in MRequestType /\ MWaiting.step = "idle"
  BY DEF MNoPlan, MWaiting, MPlanType, MRequestType
<1>2. /\ mPlan = MNoPlan /\ mHistory = 0 /\ mLost = 0 /\ mDay = 0 /\ mOdometer = 0 /\ mHours = 0
      /\ mRequest \in [MRequests -> MRequestType] /\ \A q \in MRequests : mRequest[q].step = "idle"
  BY <1>1 DEF MInit
<1> QED BY <1>1, <1>2 DEF MInv, MTypes, NothingServed, MileageMoves, DateMoves, ReadIsDated,
                          OnceIsDone

LEMMA CreateKeeps == ASSUME MInv, CreateMaintenanceSchedule PROVE MInv'
<1>1. PICK r \in BOOLEAN, d \in BOOLEAN, k \in BOOLEAN, date \in {MNull, 1}, mileage \in {MNull, 1},
          hours \in {MNull, 1} :
          mPlan' = [status |-> "planned", recurring |-> r, date |-> date, mileage |-> mileage,
                    hours |-> hours, everyDays |-> d, everyKm |-> k]
  BY DEF CreateMaintenanceSchedule
<1>2. mPlan.status = "none" /\ UNCHANGED <<mHistory, mRequest, mDay, mOdometer, mHours, mLost>>
  BY DEF CreateMaintenanceSchedule, MNoPlan
<1>3. /\ mHistory = 0 /\ mLost \in Nat
      /\ \A q \in MRequests : mRequest[q].step = "idle"
  BY <1>2 DEF MInv, MTypes, NothingServed
<1>4. mPlan' \in MPlanType /\ mPlan'.status = "planned" /\ mPlan'.date \in {MNull, 1}
      /\ mPlan'.mileage \in {MNull, 1}
  BY <1>1 DEF MPlanType
<1> QED BY <1>2, <1>3, <1>4 DEF MInv, MTypes, NothingServed, MileageMoves, DateMoves, Dated,
                                ReadIsDated, OnceIsDone

(* A completion that reads the schedule reads a date that counts all services.*)
LEMMA FetchKeeps == ASSUME MInv, NEW q \in MRequests, FetchSchedule(q) PROVE MInv'
<1> DEFINE seen == [step |-> "read", date |-> mPlan.date, at |-> mHistory]
<1>1. /\ mPlan # MNoPlan /\ mRequest' = [mRequest EXCEPT ![q] = seen]
      /\ UNCHANGED <<mPlan, mHistory, mDay, mOdometer, mHours, mLost>>
  BY DEF FetchSchedule
<1>2. /\ seen \in MRequestType
      /\ seen.step = "read" /\ seen.date = mPlan.date /\ seen.at = mHistory
  BY DEF MInv, MTypes, MPlanType, MRequestType
<1> HIDE DEF seen
<1>3. MTypes' /\ mRequest'[q] = seen /\ \A p \in MRequests \ {q} : mRequest'[p] = mRequest[p]
  BY <1>1, <1>2 DEF MInv, MTypes
<1>4. ReadIsDated'
  BY <1>1, <1>2, <1>3 DEF MInv, MTypes, DateMoves, ReadIsDated, Dated
<1>5. (mPlan.status # "none")'
  BY <1>1 DEF MInv, NothingServed
<1> QED BY <1>1, <1>3, <1>4, <1>5 DEF MInv, NothingServed, MileageMoves, DateMoves, OnceIsDone

(* The targets after a completion.                                            *)
LEMMA NextTargetsFields ==
    ASSUME MTypes, NEW s \in MRequestType
    PROVE  LET next == NextTargets(s) IN
           /\ next \in MPlanType /\ next.status # "none"
           /\ next.recurring = mPlan.recurring /\ next.everyDays = mPlan.everyDays
           /\ next.everyKm = mPlan.everyKm
           /\ next.status = IF mPlan.recurring THEN "planned" ELSE "completed"
           /\ mPlan.recurring =>
                 /\ next.date = IF mPlan.everyDays /\ s.date # MNull THEN s.date + 1 ELSE MNull
                 /\ next.mileage = IF mPlan.mileage # MNull /\ mPlan.everyKm
                                   THEN mPlan.mileage + 1 ELSE mPlan.mileage
<1>1. mPlan \in MPlanType /\ s.date \in Int
  BY DEF MTypes, MRequestType
<1> DEFINE date == IF mPlan.everyDays /\ s.date # MNull THEN s.date + 1 ELSE MNull
           mileage == IF mPlan.mileage # MNull /\ mPlan.everyKm THEN mPlan.mileage + 1
                      ELSE mPlan.mileage
<1>2. date \in Int /\ mileage \in Int
  BY <1>1 DEF MPlanType
<1>3. CASE mPlan.recurring
  <2>1. NextTargets(s) = [mPlan EXCEPT !.status = "planned", !.date = date, !.mileage = mileage]
    BY <1>1, <1>3 DEF NextTargets, MPlanType
  <2> HIDE DEF date, mileage
  <2>2. /\ NextTargets(s) \in MPlanType /\ NextTargets(s).status = "planned"
        /\ NextTargets(s).recurring = mPlan.recurring
        /\ NextTargets(s).everyDays = mPlan.everyDays
        /\ NextTargets(s).everyKm = mPlan.everyKm
        /\ NextTargets(s).date = date /\ NextTargets(s).mileage = mileage
    BY <1>1, <1>2, <2>1 DEF MPlanType
  <2> QED BY <1>3, <2>2 DEF date, mileage
<1>4. CASE ~mPlan.recurring
  <2>1. NextTargets(s) = [mPlan EXCEPT !.status = "completed"]
    BY <1>4 DEF NextTargets
  <2> QED BY <1>1, <1>4, <2>1 DEF MPlanType
<1> QED BY <1>3, <1>4

LEMMA CompleteKeeps == ASSUME MInv, NEW q \in MRequests, CompleteMaintenance(q) PROVE MInv'
<1> DEFINE s == mRequest[q]
           next == NextTargets(s)
<1>1. /\ s.step = "read" /\ mPlan' = next /\ mHistory' = mHistory + 1
      /\ mLost' = IF mHistory # s.at THEN mLost + mHistory - s.at ELSE mLost
      /\ mRequest' = [mRequest EXCEPT ![q] = MWaiting] /\ UNCHANGED <<mDay, mOdometer, mHours>>
  BY DEF CompleteMaintenance
<1>2. /\ s \in MRequestType /\ s.at \in Nat /\ s.date \in Int /\ s.at <= mHistory
      /\ mHistory \in Nat /\ mLost \in Nat
  BY <1>1 DEF MInv, MTypes, ReadIsDated, MRequestType
<1>3. mPlan.everyDays /\ mPlan.recurring => Dated(s.date, s.at, mLost)
  BY <1>1 DEF MInv, ReadIsDated
<1> HIDE DEF s
<1>4. /\ next \in MPlanType /\ next.status # "none"
      /\ next.recurring = mPlan.recurring /\ next.everyDays = mPlan.everyDays
      /\ next.everyKm = mPlan.everyKm
      /\ next.status = IF mPlan.recurring THEN "planned" ELSE "completed"
      /\ mPlan.recurring =>
            /\ next.date = IF mPlan.everyDays /\ s.date # MNull THEN s.date + 1 ELSE MNull
            /\ next.mileage = IF mPlan.mileage # MNull /\ mPlan.everyKm
                              THEN mPlan.mileage + 1 ELSE mPlan.mileage
  BY <1>2, NextTargetsFields DEF MInv
<1>5. next.date \in Int /\ next.mileage \in Int /\ mPlan.mileage \in Int
  BY <1>4 DEF MInv, MTypes, MPlanType
<1> HIDE DEF next
<1>6. mLost' = mLost + (mHistory - s.at) /\ mLost' \in Nat /\ mLost' >= mLost
  BY <1>1, <1>2
<1>7. MWaiting \in MRequestType /\ MWaiting.step = "idle"
  BY DEF MWaiting, MRequestType
<1>8. MTypes' /\ mRequest'[q] = MWaiting /\ \A p \in MRequests \ {q} : mRequest'[p] = mRequest[p]
  BY <1>1, <1>2, <1>4, <1>6, <1>7 DEF MInv, MTypes
<1>9. NothingServed' /\ OnceIsDone'
  BY <1>1, <1>4 DEF NothingServed, OnceIsDone
<1>10. MileageMoves'
  BY <1>1, <1>2, <1>4, <1>5 DEF MInv, MileageMoves
<1>11. DateMoves'
  <2> SUFFICES ASSUME mPlan.everyDays, mPlan.recurring, next.date # MNull
               PROVE  /\ next.date <= 1 + mHistory' /\ next.date >= 1 + mHistory' - mLost'
                      /\ next.date > 1
    BY <1>1, <1>4, <1>5 DEF DateMoves, Dated
  <2>1. s.date # MNull /\ next.date = s.date + 1
    BY <1>4
  <2>2. s.date <= 1 + s.at /\ s.date >= 1 + s.at - mLost /\ s.date >= 1
    BY <1>3, <2>1 DEF Dated
  <2> QED BY <1>1, <1>2, <1>6, <2>1, <2>2
<1>12. ReadIsDated'
  <2> SUFFICES ASSUME NEW p \in MRequests, mRequest'[p].step = "read"
               PROVE  /\ mRequest'[p].at <= mHistory'
                      /\ mPlan.everyDays /\ mPlan.recurring =>
                            Dated(mRequest'[p].date, mRequest'[p].at, mLost')
    BY <1>1, <1>4 DEF ReadIsDated, Dated
  <2>1. /\ mRequest'[p] = mRequest[p] /\ mRequest[p].step = "read"
        /\ mRequest[p].at \in Nat /\ mRequest[p].date \in Int
    BY <1>7, <1>8 DEF MInv, MTypes, MRequestType
  <2>2. /\ mRequest[p].at <= mHistory
        /\ mPlan.everyDays /\ mPlan.recurring => Dated(mRequest[p].date, mRequest[p].at, mLost)
    BY <2>1 DEF MInv, ReadIsDated
  <2> QED BY <1>1, <1>2, <1>6, <2>1, <2>2 DEF Dated
<1> QED BY <1>8, <1>9, <1>10, <1>11, <1>12 DEF MInv

LEMMA RollBackKeeps == ASSUME MInv, NEW q \in MRequests, RollBack(q) PROVE MInv'
<1>1. /\ mRequest' = [mRequest EXCEPT ![q] = MWaiting]
      /\ UNCHANGED <<mPlan, mHistory, mDay, mOdometer, mHours, mLost>>
  BY DEF RollBack
<1>2. MWaiting \in MRequestType /\ MWaiting.step = "idle"
  BY DEF MWaiting, MRequestType
<1>3. MTypes' /\ mRequest'[q] = MWaiting /\ \A p \in MRequests \ {q} : mRequest'[p] = mRequest[p]
  BY <1>1, <1>2 DEF MInv, MTypes
<1>4. NothingServed' /\ ReadIsDated'
  BY <1>1, <1>2, <1>3 DEF MInv, NothingServed, ReadIsDated, Dated
<1> QED BY <1>1, <1>3, <1>4 DEF MInv, MileageMoves, DateMoves, Dated, OnceIsDone

LEMMA MStepInv == MInv /\ [MNext]_upkeep => MInv'
<1> SUFFICES ASSUME MInv, [MNext]_upkeep PROVE MInv'
  OBVIOUS
<1>1. ASSUME NEW q \in MRequests, FetchSchedule(q) \/ CompleteMaintenance(q) \/ RollBack(q)
      PROVE  MInv'
  BY <1>1, FetchKeeps, CompleteKeeps, RollBackKeeps
<1>2. ASSUME MDayPasses \/ MDrives \/ MRuns PROVE MInv'
  BY <1>2 DEF MDayPasses, MDrives, MRuns, MInv, MTypes, NothingServed, MileageMoves, DateMoves, Dated,
              ReadIsDated, OnceIsDone
<1>3. CASE UNCHANGED upkeep
  BY <1>3 DEF upkeep, MInv, MTypes, NothingServed, MileageMoves, DateMoves, Dated, ReadIsDated,
              OnceIsDone
<1> QED BY <1>1, <1>2, <1>3, CreateKeeps DEF MNext

(* Without a date, overdue means driven past the mileage target or run past   *)
(* that of the engine hours; and past the latter means overdue.               *)
LEMMA OverdueIsDriven ==
    ASSUME MTypes, LiveStatus = "overdue", mPlan.date = MNull
    PROVE  mOdometer > mPlan.mileage \/ (mPlan.hours = 1 /\ mHours > 1)
<1>1. mPlan.mileage \in Int /\ mOdometer \in Nat /\ mPlan.hours \in {MNull, 1} /\ mHours \in Nat
  BY DEF MTypes, MPlanType
<1>2. \/ mPlan.mileage # MNull /\ mPlan.mileage - mOdometer < 0
      \/ mPlan.hours # MNull /\ mPlan.hours - mHours < 0
  BY DEF LiveStatus
<1> QED BY <1>1, <1>2

LEMMA HoursPassed ==
    ASSUME MTypes, mPlan.status = "planned", mPlan.hours = 1, mHours > 1
    PROVE  LiveStatus = "overdue"
<1>1. mHours \in Nat /\ 1 - mHours < 0 /\ mPlan.hours # MNull /\ mPlan.hours - mHours < 0
  BY DEF MTypes
<1> QED BY <1>1 DEF LiveStatus

(* Whatever completions overlap or fail, every service moves the mileage      *)
(* target by its interval and the date by one at least, never too far, and    *)
(* none moves the target of engine hours, past which a plan stays overdue:    *)
(* maintenance_service.py, complete_maintenance and                           *)
(* get_upcoming_maintenance_with_alerts.                                      *)
THEOREM EveryServiceCounts == MSpec => []ServiceMovesThePlan
<1>1. ASSUME MInv PROVE ServiceMovesThePlan
  <2>1. LiveStatus = "overdue" /\ mPlan.date = MNull =>
            mOdometer > mPlan.mileage \/ (mPlan.hours = 1 /\ mHours > 1)
    BY <1>1, OverdueIsDriven DEF MInv
  <2>2. mPlan.status = "completed" => LiveStatus = "none"
    BY DEF LiveStatus
  <2>3. mPlan.hours = 1 /\ mHours > 1 /\ mPlan.recurring => LiveStatus = "overdue"
    BY <1>1, HoursPassed DEF MInv, OnceIsDone
  <2> QED BY <1>1, <2>1, <2>2, <2>3 DEF MInv, MileageMoves, DateMoves, Dated, OnceIsDone,
                                  ServiceMovesThePlan
<1> QED BY <1>1, MInitInv, MStepInv, PTL DEF MSpec

(* Targets are dates and odometers that the services done so far allow.       *)
MBounded ==
    /\ mHistory <= MMaxServices /\ mDocuments \in 0..mHistory
    /\ mDay <= MMaxNow /\ mOdometer <= MMaxNow /\ mHours <= MMaxNow
    /\ mPlan.date \in MNull..(mHistory + 1) /\ mPlan.mileage \in MNull..(mHistory + 1)
    /\ \A q \in MRequests : /\ mRequest[q].at <= mHistory
                            /\ mRequest[q].date \in MNull..(mRequest[q].at + 1)

LEMMA MBoundedStep == MInv /\ MBounded /\ [MNext]_upkeep => MBounded'
<1> SUFFICES ASSUME MInv, MBounded, [MNext]_upkeep PROVE MBounded'
  OBVIOUS
<1>0. /\ MMaxServices \in Nat /\ MMaxNow \in Nat
      /\ mPlan \in MPlanType /\ mRequest \in [MRequests -> MRequestType]
      /\ mHistory \in Nat /\ mDay \in Nat /\ mOdometer \in Nat /\ mHours \in Nat
  BY MAssumption DEF MInv, MTypes
<1>1. MWaiting.at = 0 /\ MWaiting.date = MNull /\ MNoPlan.date = MNull
  BY DEF MWaiting, MNoPlan
<1>2. CASE UNCHANGED upkeep
  BY <1>2 DEF MBounded, upkeep
<1>3. CASE CreateMaintenanceSchedule
  <2>1. mPlan'.date \in {MNull, 1} /\ mPlan'.mileage \in {MNull, 1}
    BY <1>3 DEF CreateMaintenanceSchedule
  <2>2. UNCHANGED <<mHistory, mDocuments, mRequest, mDay, mOdometer, mHours>>
    BY <1>3 DEF CreateMaintenanceSchedule
  <2>3. mPlan'.date \in MNull..(mHistory + 1) /\ mPlan'.mileage \in MNull..(mHistory + 1)
    BY <1>0, <2>1
  <2> QED BY <2>2, <2>3 DEF MBounded
<1>4. CASE MDayPasses
  BY <1>0, <1>4 DEF MBounded, MDayPasses
<1>5. CASE MDrives
  BY <1>0, <1>5 DEF MBounded, MDrives
<1>6. ASSUME NEW q \in MRequests, FetchSchedule(q) PROVE MBounded'
  <2>1. /\ mRequest' = [mRequest EXCEPT ![q] = [step |-> "read", date |-> mPlan.date, at |-> mHistory]]
        /\ UNCHANGED <<mPlan, mHistory, mDocuments, mDay, mOdometer, mHours>>
    BY <1>6 DEF FetchSchedule
  <2>2. mRequest'[q].date = mPlan.date /\ mRequest'[q].at = mHistory
    BY <1>0, <2>1
  <2>3. \A r \in MRequests \ {q} : mRequest'[r] = mRequest[r]
    BY <1>0, <2>1
  <2>4. mRequest'[q].at <= mHistory /\ mRequest'[q].date \in MNull..(mRequest'[q].at + 1)
    BY <1>0, <2>2 DEF MBounded
  <2> QED BY <2>1, <2>3, <2>4 DEF MBounded
<1>7. ASSUME NEW q \in MRequests, CompleteMaintenance(q) PROVE MBounded'
  <2> DEFINE s == mRequest[q]
             next == NextTargets(s)
  <2>1. /\ mHistory < MMaxServices /\ mPlan' = next /\ mHistory' = mHistory + 1
        /\ mDocuments' \in {mDocuments, mDocuments + 1}
        /\ mRequest' = [mRequest EXCEPT ![q] = MWaiting] /\ UNCHANGED <<mDay, mOdometer, mHours>>
    BY <1>0, <1>7 DEF CompleteMaintenance, MBounded
  <2>2. s \in MRequestType /\ s.at \in Nat /\ s.date \in Int /\ s.at <= mHistory /\ s.date <= mHistory + 1
    BY <1>0 DEF MBounded, MRequestType
  <2>3. s.date >= MNull /\ mPlan.date \in MNull..(mHistory + 1) /\ mPlan.mileage \in MNull..(mHistory + 1)
    BY DEF MBounded
  <2>4. /\ mPlan.recurring =>
              /\ next.date = IF mPlan.everyDays /\ s.date # MNull THEN s.date + 1 ELSE MNull
              /\ next.mileage = IF mPlan.mileage # MNull /\ mPlan.everyKm
                                THEN mPlan.mileage + 1 ELSE mPlan.mileage
    BY <2>2, NextTargetsFields DEF MInv
  <2>5. ~mPlan.recurring => next.date = mPlan.date /\ next.mileage = mPlan.mileage
    BY <1>0 DEF NextTargets, MPlanType
  <2> HIDE DEF s, next
  <2>6. next.date \in MNull..(mHistory + 2) /\ next.mileage \in MNull..(mHistory + 2)
    BY <1>0, <2>2, <2>3, <2>4, <2>5
  <2>7. mPlan'.date \in MNull..(mHistory' + 1) /\ mPlan'.mileage \in MNull..(mHistory' + 1)
    BY <1>0, <2>1, <2>6
  <2>8. mHistory' <= MMaxServices /\ mDocuments' \in 0..mHistory'
    BY <1>0, <2>1 DEF MBounded
  <2>9. ASSUME NEW r \in MRequests
        PROVE  mRequest'[r].at <= mHistory' /\ mRequest'[r].date \in MNull..(mRequest'[r].at + 1)
    <3>1. CASE r = q
      <4>1. mRequest'[r] = MWaiting
        BY <1>0, <2>1, <3>1
      <4> QED BY <1>0, <1>1, <2>1, <4>1
    <3>2. CASE r # q
      <4>1. mRequest'[r] = mRequest[r] /\ mRequest[r].at \in Nat
        BY <1>0, <2>1, <3>2 DEF MRequestType
      <4>2. mRequest[r].at <= mHistory /\ mRequest[r].date \in MNull..(mRequest[r].at + 1)
        BY DEF MBounded
      <4> QED BY <1>0, <2>1, <4>1, <4>2
    <3> QED BY <3>1, <3>2
  <2>10. mDay' <= MMaxNow /\ mOdometer' <= MMaxNow /\ mHours' <= MMaxNow
    BY <2>1 DEF MBounded
  <2> QED BY <2>7, <2>8, <2>9, <2>10 DEF MBounded
<1>8. ASSUME NEW q \in MRequests, RollBack(q) PROVE MBounded'
  <2>1. /\ mRequest' = [mRequest EXCEPT ![q] = MWaiting]
        /\ UNCHANGED <<mPlan, mHistory, mDocuments, mDay, mOdometer, mHours>>
    BY <1>8 DEF RollBack
  <2>2. \A r \in MRequests : mRequest'[r] = MWaiting \/ mRequest'[r] = mRequest[r]
    BY <1>0, <2>1
  <2>3. MWaiting.at <= mHistory /\ MWaiting.date \in MNull..(MWaiting.at + 1)
    BY <1>0, <1>1
  <2> QED BY <2>1, <2>2, <2>3 DEF MBounded
<1>9. CASE MRuns
  BY <1>0, <1>9 DEF MBounded, MRuns
<1> QED BY <1>2, <1>3, <1>4, <1>5, <1>6, <1>7, <1>8, <1>9 DEF MNext

(* A plan and its completions keep their types: no target is more than one    *)
(* interval past the services done (create, complete_maintenance).            *)
THEOREM UpkeepTypeCorrect == MSpec => []MTypeOK
<1>1. MInit => MBounded
  <2> SUFFICES ASSUME MInit PROVE MBounded
    OBVIOUS
  <2>1. /\ MNoPlan.date = MNull /\ MNoPlan.mileage = MNull
        /\ MWaiting.at = 0 /\ MWaiting.date = MNull
    BY DEF MNoPlan, MWaiting
  <2>2. /\ mPlan = MNoPlan /\ mHistory = 0 /\ mDocuments = 0 /\ mDay = 0 /\ mOdometer = 0 /\ mHours = 0
        /\ \A q \in MRequests : mRequest[q] = MWaiting
    BY DEF MInit
  <2> QED BY <2>1, <2>2, MAssumption DEF MBounded
<1>2. MInv /\ MBounded => MTypeOK
  <2> SUFFICES ASSUME MInv, MBounded PROVE MTypeOK
    OBVIOUS
  <2>0. /\ MMaxServices \in Nat /\ MMaxNow \in Nat
        /\ mPlan \in MPlanType /\ mRequest \in [MRequests -> MRequestType]
        /\ mHistory \in Nat /\ mDay \in Nat /\ mOdometer \in Nat /\ mHours \in Nat /\ mLost \in Nat
    BY MAssumption DEF MInv, MTypes
  <2>1. mPlan.date \in MNull..(MMaxServices + 1) /\ mPlan.mileage \in MNull..(MMaxServices + 1)
    BY <2>0 DEF MBounded
  <2>2. mPlan \in [status : {"none", "planned", "completed"}, recurring : BOOLEAN,
                   date : MNull..MMaxServices + 1, mileage : MNull..MMaxServices + 1,
                   hours : {MNull, 1}, everyDays : BOOLEAN, everyKm : BOOLEAN]
    BY <2>0, <2>1 DEF MPlanType
  <2>3. ASSUME NEW q \in MRequests
        PROVE  mRequest[q] \in [step : {"idle", "read"}, date : MNull..MMaxServices + 1, at : 0..MMaxServices]
    <3>1. mRequest[q] \in MRequestType /\ mRequest[q].at \in Nat
      BY <2>0 DEF MRequestType
    <3>2. /\ mRequest[q].at <= mHistory /\ mHistory <= MMaxServices
          /\ mRequest[q].date \in MNull..(mRequest[q].at + 1)
      BY DEF MBounded
    <3>3. mRequest[q].at \in 0..MMaxServices /\ mRequest[q].date \in MNull..(MMaxServices + 1)
      BY <2>0, <3>1, <3>2
    <3> QED BY <3>1, <3>3 DEF MRequestType
  <2>4. /\ mHistory \in 0..MMaxServices /\ mDocuments \in 0..mHistory /\ mLost \in Nat
        /\ mDay \in 0..MMaxNow /\ mOdometer \in 0..MMaxNow /\ mHours \in 0..MMaxNow
    BY <2>0 DEF MBounded
  <2> QED BY <2>0, <2>2, <2>3, <2>4 DEF MTypeOK
<1> QED BY <1>1, <1>2, MInitInv, MStepInv, MBoundedStep, PTL DEF MSpec

-----------------------------------------------------------------------------
(* Limits of an account.                                                      *)

AChanges == UNION {[K -> Nat] : K \in SUBSET Kinds}
AFields ==
    [op : {"none", "register", "approve", "update", "user", "edit", "draft", "declined", "active"},
     id : AVehicles \cup AEmails \cup AParents \cup {ANone}, parent : AParents \cup {ANone},
     step : {"none", "remove", "find", "count", "write", "read", "save"}, limits : AChanges]
AVehicle == {Absent} \cup [status : {"draft", "declined", "active"}, parent : AParents]

(* What a request is about, by its step.                                      *)
AFits(r) ==
    /\ r.step = "none" => r.op = "none"
    /\ r.step \in {"remove", "find"} => r.op \in {"register", "update"} /\ r.id \in AVehicles
    /\ r.step = "remove" => r.op = "register"
    /\ r.step = "find" => r.op = "update"
    /\ r.step = "count" => r.op \in {"register", "approve", "user"}
    /\ r.step = "write" => r.op \in {"register", "approve", "user", "draft", "declined", "active"}
    /\ r.step \in {"read", "save"} => r.op = "edit" /\ r.id \in AParents
    /\ r.step \in {"remove", "find", "count", "write"} =>
           /\ r.parent \in AParents
           /\ r.op = "user" => r.id \in AEmails
           /\ r.op # "user" => r.id \in AVehicles
    /\ r.step = "save" => r.limits \in [Kinds -> Nat]

ATypes ==
    /\ aFleet \in [AVehicles -> AVehicle] /\ aUsers \in [AEmails -> AParents \cup {ANone}]
    /\ aLimit \in [AParents -> [Kinds -> Nat]] /\ aHighest \in [AParents -> [Kinds -> Nat]]
    /\ aSet \in [AParents -> [Kinds -> Nat]]
    /\ aRequest \in [ARequests -> AFields] /\ \A q \in ARequests : AFits(aRequest[q])
    /\ aCrossed \subseteq AParents /\ aBlind \in BOOLEAN

(* Vehicles or users an administrator has, and those it will have when the    *)
(* requests that were allowed are written.                                    *)
Owned(k, p) == IF k = "vehicles" THEN {v \in AVehicles : aFleet[v] = [status |-> "active", parent |-> p]}
               ELSE {e \in AEmails : aUsers[e] = p}
Grants(r, k, p) == /\ r.step = "write" /\ r.parent = p /\ KindOf(r) = k
                   /\ r.op \in {"register", "approve", "active", "user"}
Granted(k, p) == {q \in ARequests : Grants(aRequest[q], k, p)}
Claimed(k, p) == Owned(k, p) \cup {aRequest[q].id : q \in Granted(k, p)}

ClaimsBounded ==
    \A p \in AParents, k \in Kinds :
        /\ Cardinality(Claimed(k, p)) < aHighest[p][k] + Cardinality(ARequests)
        /\ aLimit[p][k] <= aHighest[p][k]

(* Between the read and the write of an administrator's record, the one       *)
(* request that edits it holds the limits that were last given.               *)
Saves(q, p) == aRequest[q].step = "save" /\ aRequest[q].id = p
LimitsHeld ==
    \A p \in AParents \ aCrossed :
        /\ (\A q \in ARequests : ~Saves(q, p)) => aLimit[p] = aSet[p]
        /\ \A q \in ARequests : Saves(q, p) =>
               aRequest[q].limits = aSet[p] /\ \A o \in ARequests \ {q} : ~Saves(o, p)

AInv == ATypes /\ (~aBlind => ClaimsBounded /\ LimitsHeld)

LEMMA NoChangeIsOne == NoChange \in AChanges /\ DOMAIN NoChange = {}
<1>1. <<>> \in Seq(Nat) /\ Len(<<>>) = 0
  OBVIOUS
<1>2. <<>> \in [1..0 -> Nat]
  BY <1>1, LenProperties
<1>3. 1..0 = {} /\ {} \in SUBSET Kinds
  OBVIOUS
<1>4. <<>> \in [{} -> Nat]
  BY <1>2, <1>3
<1> QED BY <1>3, <1>4 DEF NoChange, AChanges

LEMMA RestingFits == Resting \in AFields /\ AFits(Resting)
BY NoChangeIsOne DEF Resting, AFields, AFits

LEMMA ClaimsAreFew ==
    ASSUME NEW O, IsFiniteSet(O), NEW R, NEW C, \A x \in C : x \in O \/ \E q \in ARequests : x = R[q].id
    PROVE  /\ IsFiniteSet(C) /\ Cardinality(C) \in Nat /\ Cardinality(O) \in Nat
           /\ Cardinality(ARequests) \in Nat
           /\ Cardinality(C) <= Cardinality(O) + Cardinality(ARequests)
<1> DEFINE f == [q \in ARequests |-> R[q].id]
           I == {f[q] : q \in ARequests}
<1>1. IsFiniteSet(ARequests) /\ Cardinality(ARequests) \in Nat
  BY AAssumption, FS_CardinalityType
<1>2. IsFiniteSet(I) /\ Cardinality(I) <= Cardinality(ARequests)
  <2>1. DOMAIN f = ARequests /\ f = [q \in ARequests |-> f[q]]
    OBVIOUS
  <2> HIDE DEF f
  <2> QED BY <1>1, <2>1, ImageIsSmaller
<1>3. C \subseteq O \cup I
  OBVIOUS
<1> HIDE DEF I
<1>4. Cardinality(I) \in Nat /\ Cardinality(O) \in Nat
  BY <1>2, FS_CardinalityType
<1>5. IsFiniteSet(O \cup I) /\ Cardinality(O \cup I) <= Cardinality(O) + Cardinality(I)
  BY <1>2, UnionIsBounded
<1>6. Cardinality(O \cup I) \in Nat
  BY <1>5, FS_CardinalityType
<1>7. IsFiniteSet(C) /\ Cardinality(C) \in Nat /\ Cardinality(C) <= Cardinality(O \cup I)
  BY <1>3, <1>5, PartIsSmaller
<1> QED BY <1>1, <1>2, <1>4, <1>5, <1>6, <1>7

LEMMA OwnedFinite == ASSUME NEW k, NEW p PROVE IsFiniteSet(Owned(k, p))
<1>1. Owned(k, p) \subseteq AVehicles \/ Owned(k, p) \subseteq AEmails
  BY DEF Owned
<1> QED BY <1>1, AAssumption, PartIsSmaller

(* Fewer claims, and limits that were not lowered, keep the bound.            *)
LEMMA FewerClaims ==
    ASSUME ATypes, ClaimsBounded, NEW k \in Kinds, NEW p \in AParents,
           Claimed(k, p)' \subseteq Claimed(k, p), aHighest[p][k] <= aHighest'[p][k], aHighest'[p][k] \in Nat
    PROVE  Cardinality(Claimed(k, p))' < aHighest'[p][k] + Cardinality(ARequests)
<1>1. /\ IsFiniteSet(Claimed(k, p)) /\ Cardinality(Claimed(k, p)) \in Nat
      /\ Cardinality(ARequests) \in Nat /\ aHighest[p][k] \in Nat
  <2>1. \A x \in Claimed(k, p) : x \in Owned(k, p) \/ \E q \in ARequests : x = aRequest[q].id
    BY DEF Granted, Claimed
  <2>2. IsFiniteSet(Claimed(k, p)) /\ Cardinality(Claimed(k, p)) \in Nat /\ Cardinality(ARequests) \in Nat
    BY <2>1, OwnedFinite, ClaimsAreFew
  <2> QED BY <2>2 DEF ATypes
<1>2. Cardinality(Claimed(k, p)') <= Cardinality(Claimed(k, p)) /\ Cardinality(Claimed(k, p)') \in Nat
  BY <1>1, PartIsSmaller
<1>3. Cardinality(Claimed(k, p)) < aHighest[p][k] + Cardinality(ARequests)
  BY DEF ClaimsBounded
<1> QED BY <1>1, <1>2, <1>3

(* What a request does next gives no new claim but to what is claimed.        *)
LEMMA ClaimsKept ==
    ASSUME NEW k \in Kinds, NEW p \in AParents, aRequest \in [ARequests -> AFields],
           NEW q \in ARequests, NEW n, aRequest' = [aRequest EXCEPT ![q] = n],
           Owned(k, p)' \subseteq Claimed(k, p), Grants(n, k, p) => n.id \in Claimed(k, p)
    PROVE  Claimed(k, p)' \subseteq Claimed(k, p)
<1>1. ASSUME NEW o \in ARequests, Grants(aRequest'[o], k, p) PROVE aRequest'[o].id \in Claimed(k, p)
  <2>1. CASE o = q
    BY <1>1, <2>1
  <2>2. CASE o # q
    BY <1>1, <2>2 DEF Claimed, Granted
  <2> QED BY <2>1, <2>2
<1>2. \A x \in Claimed(k, p)' : \/ x \in Owned(k, p)'
                                 \/ \E o \in ARequests : Grants(aRequest'[o], k, p) /\ x = aRequest'[o].id
  BY DEF Claimed, Granted, Grants, KindOf
<1> QED BY <1>1, <1>2

(* A request that was and is not about to save a record leaves the limits of  *)
(* administrators to the others.                                              *)
LEMMA LimitsKept ==
    ASSUME LimitsHeld, aRequest \in [ARequests -> AFields], UNCHANGED <<aLimit, aSet, aCrossed>>,
           NEW q \in ARequests, NEW n, aRequest' = [aRequest EXCEPT ![q] = n],
           aRequest[q].step # "save", n.step # "save"
    PROVE  LimitsHeld'
<1>1. \A o \in ARequests, p \in AParents : /\ Saves(o, p)' <=> Saves(o, p)
                                           /\ Saves(o, p) => aRequest'[o] = aRequest[o]
  BY DEF Saves
<1> QED BY <1>1 DEF LimitsHeld

LEMMA RequestTyped ==
    ASSUME ATypes, NEW q \in ARequests, NEW n \in AFields, AFits(n), aRequest' = [aRequest EXCEPT ![q] = n]
    PROVE  aRequest' \in [ARequests -> AFields] /\ \A o \in ARequests : AFits(aRequest[o])'
<1>1. aRequest' \in [ARequests -> AFields] /\ \A o \in ARequests : aRequest'[o] = n \/ aRequest'[o] = aRequest[o]
  BY DEF ATypes
<1>2. \A o \in ARequests : AFits(aRequest'[o])
  BY <1>1 DEF ATypes
<1> QED BY <1>1, <1>2 DEF AFits

(* The steps that leave limits alone.                                         *)
LEMMA IdleStepKeeps ==
    ASSUME AInv, NEW q \in ARequests, NEW n \in AFields, AFits(n), aRequest' = [aRequest EXCEPT ![q] = n],
           aRequest[q].step # "save", n.step # "save", UNCHANGED aghosts, UNCHANGED aLimit,
           aFleet' \in [AVehicles -> AVehicle], aUsers' \in [AEmails -> AParents \cup {ANone}],
           \A k \in Kinds, p \in AParents :
               Owned(k, p)' \subseteq Claimed(k, p) /\ (Grants(n, k, p) => n.id \in Claimed(k, p))
    PROVE  AInv'
<1>1. ATypes /\ ATypes'
  BY RequestTyped DEF AInv, ATypes, aghosts
<1>2. ASSUME ~aBlind PROVE ClaimsBounded' /\ LimitsHeld'
  <2>1. ClaimsBounded /\ LimitsHeld
    BY <1>2 DEF AInv
  <2>2. LimitsHeld'
    BY <1>1, <2>1, LimitsKept DEF ATypes, aghosts
  <2>3. ASSUME NEW k \in Kinds, NEW p \in AParents
        PROVE  Cardinality(Claimed(k, p))' < aHighest'[p][k] + Cardinality(ARequests)
    <3>1. Claimed(k, p)' \subseteq Claimed(k, p)
      BY <1>1, ClaimsKept DEF ATypes
    <3>2. aHighest[p][k] <= aHighest'[p][k] /\ aHighest'[p][k] \in Nat
      BY <1>1 DEF ATypes, aghosts
    <3> QED BY <1>1, <2>1, <3>1, <3>2, FewerClaims
  <2>4. ClaimsBounded'
    BY <2>1, <2>3 DEF ClaimsBounded, aghosts
  <2> QED BY <2>2, <2>4
<1>3. aBlind' = aBlind
  BY DEF aghosts
<1> QED BY <1>1, <1>2, <1>3 DEF AInv

LEMMA BeginKeeps ==
    ASSUME AInv, NEW q \in ARequests, NEW op, NEW id, NEW p, NEW step, Begin(q, op, id, p, step),
           [Resting EXCEPT !.op = op, !.id = id, !.parent = p, !.step = step] \in AFields,
           AFits([Resting EXCEPT !.op = op, !.id = id, !.parent = p, !.step = step]),
           step # "save", step = "write" => op = "declined"
    PROVE  AInv'
<1> DEFINE n == [Resting EXCEPT !.op = op, !.id = id, !.parent = p, !.step = step]
<1>1. n.step = step /\ n.op = op
  BY DEF Resting
<1>2. aRequest' = [aRequest EXCEPT ![q] = n] /\ aRequest[q].step # "save"
      /\ UNCHANGED <<aFleet, aUsers, aLimit, aghosts>>
  BY DEF Begin, Resting
<1>3. n \in AFields /\ AFits(n) /\ n.step # "save" /\ \A k \in Kinds, o \in AParents : ~Grants(n, k, o)
  BY <1>1 DEF Grants
<1> HIDE DEF n
<1>4. \A k \in Kinds, o \in AParents : Owned(k, o)' \subseteq Claimed(k, o)
  BY <1>2 DEF Owned, Claimed
<1>5. aFleet' \in [AVehicles -> AVehicle] /\ aUsers' \in [AEmails -> AParents \cup {ANone}]
  BY <1>2 DEF AInv, ATypes
<1> QED BY <1>2, <1>3, <1>4, <1>5, IdleStepKeeps

LEMMA BeginsKeep ==
    ASSUME AInv, NEW q \in ARequests,
           \/ RegisterVehicle(q) \/ ApproveDraft(q) \/ DeclineDraft(q) \/ UpdateVehicle(q) \/ AddUser(q)
    PROVE  AInv'
<1>1. ATypes
  BY DEF AInv
<1>2. ASSUME NEW v \in AVehicles PROVE aFleet[v].status \in {"draft", "active"} => aFleet[v].parent \in AParents
  BY <1>1 DEF ATypes, AVehicle, Absent
<1> DEFINE n(op, id, p, step) == [Resting EXCEPT !.op = op, !.id = id, !.parent = p, !.step = step]
<1>3. ASSUME NEW op \in {"register", "approve", "declined", "update"}, NEW v \in AVehicles, NEW p \in AParents,
             NEW step \in {"remove", "count", "write", "find"},
             step = "remove" => op = "register", step = "find" <=> op = "update", step = "write" <=> op = "declined"
      PROVE  n(op, v, p, step) \in AFields /\ AFits(n(op, v, p, step))
  BY <1>3, NoChangeIsOne DEF Resting, AFields, AFits
<1>4. ASSUME NEW e \in AEmails, NEW p \in AParents
      PROVE  n("user", e, p, "count") \in AFields /\ AFits(n("user", e, p, "count"))
  BY NoChangeIsOne DEF Resting, AFields, AFits
<1>5. CASE RegisterVehicle(q)
  <2>1. PICK v \in AVehicles, p \in AParents, step \in {"count", "remove"} : Begin(q, "register", v, p, step)
    BY <1>5 DEF RegisterVehicle
  <2>2. n("register", v, p, step) \in AFields /\ AFits(n("register", v, p, step))
    BY <1>3
  <2>3. step # "save" /\ step # "write"
    OBVIOUS
  <2> QED BY <2>1, <2>2, <2>3, BeginKeeps, Zenon
<1>6. CASE ApproveDraft(q)
  <2>1. PICK v \in AVehicles : aFleet[v].status = "draft" /\ Begin(q, "approve", v, aFleet[v].parent, "count")
    BY <1>6 DEF ApproveDraft
  <2>2. n("approve", v, aFleet[v].parent, "count") \in AFields /\ AFits(n("approve", v, aFleet[v].parent, "count"))
    BY <1>2, <1>3, <2>1
  <2>3. "count" # "save" /\ "count" # "write"
    OBVIOUS
  <2> QED BY <2>1, <2>2, <2>3, BeginKeeps, Zenon
<1>7. CASE DeclineDraft(q)
  <2>1. PICK v \in AVehicles : aFleet[v].status = "draft" /\ Begin(q, "declined", v, aFleet[v].parent, "write")
    BY <1>7 DEF DeclineDraft
  <2>2. n("declined", v, aFleet[v].parent, "write") \in AFields /\ AFits(n("declined", v, aFleet[v].parent, "write"))
    BY <1>2, <1>3, <2>1
  <2>3. "write" # "save"
    OBVIOUS
  <2> QED BY <2>1, <2>2, <2>3, BeginKeeps, Zenon
<1>8. CASE UpdateVehicle(q)
  <2>1. PICK v \in AVehicles : aFleet[v].status = "active" /\ Begin(q, "update", v, aFleet[v].parent, "find")
    BY <1>8 DEF UpdateVehicle
  <2>2. n("update", v, aFleet[v].parent, "find") \in AFields /\ AFits(n("update", v, aFleet[v].parent, "find"))
    BY <1>2, <1>3, <2>1
  <2>3. "find" # "save" /\ "find" # "write"
    OBVIOUS
  <2> QED BY <2>1, <2>2, <2>3, BeginKeeps, Zenon
<1>9. CASE AddUser(q)
  <2>1. PICK e \in AEmails, p \in AParents : Begin(q, "user", e, p, "count")
    BY <1>9 DEF AddUser
  <2> QED BY <1>4, <2>1, BeginKeeps
<1> QED BY <1>5, <1>6, <1>7, <1>8, <1>9

LEMMA RemoveKeeps == ASSUME AInv, NEW q \in ARequests, RemoveDeclined(q) PROVE AInv'
<1> DEFINE r == aRequest[q]
           n == [r EXCEPT !.step = "count"]
<1>1. ATypes /\ r \in AFields /\ AFits(r) /\ r.step = "remove"
  BY DEF AInv, ATypes, RemoveDeclined
<1>2. n \in AFields /\ AFits(n) /\ n.step = "count"
  BY <1>1 DEF AFields, AFits
<1>3. aRequest' = [aRequest EXCEPT ![q] = n]
  BY <1>1 DEF RemoveDeclined, Continue, ATypes, AFields
<1>4. aFleet' \in [AVehicles -> AVehicle] /\ aUsers' \in [AEmails -> AParents \cup {ANone}]
  BY <1>1 DEF RemoveDeclined, ATypes, AVehicle
<1>5. ASSUME NEW v \in AVehicles PROVE aFleet'[v] = aFleet[v] \/ aFleet'[v] = Absent
  BY <1>1 DEF RemoveDeclined, ATypes
<1>6. \A k \in Kinds, p \in AParents : Owned(k, p)' \subseteq Claimed(k, p) /\ ~Grants(n, k, p)
  BY <1>2, <1>5 DEF Owned, Claimed, Grants, Absent, RemoveDeclined
<1>7. UNCHANGED <<aLimit, aghosts>>
  BY DEF RemoveDeclined
<1> QED BY <1>1, <1>2, <1>3, <1>4, <1>6, <1>7, IdleStepKeeps

(* The record an edit found is written back: an active vehicle is one of its  *)
(* administrator's already.                                                   *)
LEMMA FindKeeps == ASSUME AInv, NEW q \in ARequests, FindVehicle(q) PROVE AInv'
<1> DEFINE r == aRequest[q]
           found == aFleet[r.id]
<1>1. /\ ATypes /\ r \in AFields /\ r.step = "find" /\ r.id \in AVehicles /\ r.op = "update" /\ found \in AVehicle
      /\ UNCHANGED <<aFleet, aUsers, aLimit, aghosts>>
  BY DEF AInv, ATypes, FindVehicle, AFits
<1>2. \A k \in Kinds, p \in AParents : Owned(k, p)' \subseteq Claimed(k, p)
  BY <1>1 DEF Owned, Claimed
<1>3. aFleet' \in [AVehicles -> AVehicle] /\ aUsers' \in [AEmails -> AParents \cup {ANone}]
  BY <1>1 DEF ATypes
<1>4. CASE found = Absent
  <2>1. aRequest' = [aRequest EXCEPT ![q] = Resting]
    BY <1>4 DEF FindVehicle, End
  <2>2. Resting.step # "save" /\ \A k \in Kinds, p \in AParents : ~Grants(Resting, k, p)
    BY DEF Resting, Grants
  <2> QED BY <1>1, <1>2, <1>3, <2>1, <2>2, RestingFits, IdleStepKeeps
<1>5. CASE found # Absent
  <2> DEFINE n == [r EXCEPT !.op = found.status, !.parent = found.parent, !.step = "write"]
  <2>1. found.status \in {"draft", "declined", "active"} /\ found.parent \in AParents
        /\ found = [status |-> found.status, parent |-> found.parent]
    BY <1>1, <1>5 DEF AVehicle
  <2>2. n \in AFields /\ n.op = found.status /\ n.parent = found.parent /\ n.step = "write" /\ n.id = r.id
    BY <1>1, <2>1 DEF AFields
  <2>3. aRequest' = [aRequest EXCEPT ![q] = n]
    BY <1>5 DEF FindVehicle
  <2> HIDE DEF n
  <2>4. AFits(n)
    BY <1>1, <2>1, <2>2 DEF AFits
  <2>5. ASSUME NEW k \in Kinds, NEW p \in AParents, Grants(n, k, p) PROVE n.id \in Claimed(k, p)
    <3>1. k = "vehicles" /\ n.op = "active" /\ n.parent = p
      BY <2>1, <2>2, <2>5 DEF Grants, KindOf
    <3>2. n.id \in Owned(k, p)
      BY <1>1, <2>1, <2>2, <3>1 DEF Owned
    <3> QED BY <3>2 DEF Claimed
  <2> QED BY <1>1, <1>2, <1>3, <2>2, <2>3, <2>4, <2>5, IdleStepKeeps
<1> QED BY <1>4, <1>5

LEMMA WriteVehicleKeeps == ASSUME AInv, NEW q \in ARequests, WriteVehicle(q) PROVE AInv'
<1> DEFINE r == aRequest[q]
<1>1. /\ ATypes /\ r \in AFields /\ r.step = "write" /\ r.id \in AVehicles /\ r.parent \in AParents
      /\ r.op \in {"register", "approve", "draft", "declined", "active"}
      /\ UNCHANGED <<aUsers, aLimit, aghosts>>
  BY DEF AInv, ATypes, WriteVehicle, AFits
<1>2. aRequest' = [aRequest EXCEPT ![q] = Resting]
  BY DEF WriteVehicle, End
<1>3. Resting.step # "save" /\ \A k \in Kinds, p \in AParents : ~Grants(Resting, k, p)
  BY DEF Resting, Grants
<1> DEFINE w == VehicleWritten(r)
<1>4. /\ w \in AVehicle
      /\ \A p \in AParents : w = [status |-> "active", parent |-> p] =>
             p = r.parent /\ r.op \in {"register", "approve", "active"}
  <2>1. PICK s \in {"draft", "declined", "active"} :
            /\ w = Absent \/ w = [status |-> s, parent |-> r.parent]
            /\ s = "active" => r.op \in {"register", "approve", "active"}
    BY <1>1 DEF VehicleWritten
  <2>2. \A p \in AParents : w = [status |-> "active", parent |-> p] => s = "active" /\ p = r.parent
    BY <2>1 DEF Absent
  <2> QED BY <1>1, <2>1, <2>2 DEF AVehicle
<1>5. aFleet' = aFleet \/ aFleet' = [aFleet EXCEPT ![r.id] = w]
  BY DEF WriteVehicle
<1> HIDE DEF w
<1>6. aFleet' \in [AVehicles -> AVehicle] /\ aUsers' \in [AEmails -> AParents \cup {ANone}]
  BY <1>1, <1>4, <1>5 DEF ATypes
<1>7. ASSUME NEW k \in Kinds, NEW p \in AParents, NEW x \in Owned(k, p)' PROVE x \in Claimed(k, p)
  <2>1. CASE x \in Owned(k, p)
    BY <2>1 DEF Claimed
  <2>2. CASE x \notin Owned(k, p)
    <3>1. k = "vehicles" /\ x = r.id /\ w = [status |-> "active", parent |-> p]
      BY <1>1, <1>5, <1>7, <2>2 DEF Owned, ATypes
    <3>2. Grants(r, k, p)
      BY <1>1, <1>4, <3>1 DEF Grants, KindOf
    <3> QED BY <3>1, <3>2 DEF Claimed, Granted
  <2> QED BY <2>1, <2>2
<1> QED BY <1>1, <1>2, <1>3, <1>6, <1>7, RestingFits, IdleStepKeeps

LEMMA WriteUserKeeps == ASSUME AInv, NEW q \in ARequests, WriteUser(q) PROVE AInv'
<1> DEFINE r == aRequest[q]
<1>1. /\ ATypes /\ r \in AFields /\ r.step = "write" /\ r.op = "user" /\ r.id \in AEmails /\ r.parent \in AParents
      /\ UNCHANGED <<aFleet, aLimit, aghosts>>
  BY DEF AInv, ATypes, WriteUser, AFits
<1>2. aRequest' = [aRequest EXCEPT ![q] = Resting]
  BY DEF WriteUser, End
<1>3. Resting.step # "save" /\ \A k \in Kinds, p \in AParents : ~Grants(Resting, k, p)
  BY DEF Resting, Grants
<1>4. aUsers' = aUsers \/ aUsers' = [aUsers EXCEPT ![r.id] = r.parent]
  BY DEF WriteUser
<1>5. aFleet' \in [AVehicles -> AVehicle] /\ aUsers' \in [AEmails -> AParents \cup {ANone}]
  BY <1>1, <1>4 DEF ATypes
<1>6. ASSUME NEW k \in Kinds, NEW p \in AParents, NEW x \in Owned(k, p)' PROVE x \in Claimed(k, p)
  <2>1. CASE x \in Owned(k, p)
    BY <2>1 DEF Claimed
  <2>2. CASE x \notin Owned(k, p)
    <3>1. k = "users" /\ x = r.id /\ p = r.parent
      BY <1>1, <1>4, <1>6, <2>2 DEF Owned, ATypes, Kinds
    <3>2. Grants(r, k, p)
      BY <1>1, <3>1 DEF Grants, KindOf
    <3> QED BY <3>1, <3>2 DEF Claimed, Granted
  <2> QED BY <2>1, <2>2
<1> QED BY <1>1, <1>2, <1>3, <1>5, <1>6, RestingFits, IdleStepKeeps

LEMMA DeletesKeep ==
    ASSUME AInv, (\E v \in AVehicles : DeleteVehicle(v)) \/ (\E e \in AEmails : DeleteUser(e))
    PROVE  AInv'
<1>1. ATypes /\ UNCHANGED <<aRequest, aLimit, aghosts>>
  BY DEF AInv, DeleteVehicle, DeleteUser
<1>2. /\ aFleet' \in [AVehicles -> AVehicle] /\ aUsers' \in [AEmails -> AParents \cup {ANone}]
      /\ \A v \in AVehicles : aFleet'[v] = aFleet[v] \/ aFleet'[v] = Absent
      /\ \A e \in AEmails : aUsers'[e] = aUsers[e] \/ aUsers'[e] = ANone
  BY <1>1 DEF ATypes, AVehicle, DeleteVehicle, DeleteUser
<1>3. ASSUME NEW k \in Kinds, NEW p \in AParents PROVE Claimed(k, p)' \subseteq Claimed(k, p)
  <2>1. Owned(k, p)' \subseteq Owned(k, p)
    BY <1>2, AAssumption DEF Owned, Absent, ANone
  <2>2. Granted(k, p)' = Granted(k, p)
    BY <1>1 DEF Granted, Grants, KindOf
  <2> QED BY <1>1, <2>1, <2>2 DEF Claimed
<1>4. ATypes'
  BY <1>1, <1>2 DEF ATypes, aghosts, AFits
<1>5. ASSUME ~aBlind PROVE ClaimsBounded' /\ LimitsHeld'
  <2>1. ClaimsBounded /\ LimitsHeld
    BY <1>5 DEF AInv
  <2>2. LimitsHeld'
    BY <1>1, <2>1 DEF LimitsHeld, Saves, aghosts
  <2>3. ASSUME NEW k \in Kinds, NEW p \in AParents
        PROVE  Cardinality(Claimed(k, p))' < aHighest'[p][k] + Cardinality(ARequests)
    <3>1. aHighest[p][k] <= aHighest'[p][k] /\ aHighest'[p][k] \in Nat
      BY <1>1 DEF ATypes, aghosts
    <3> QED BY <1>1, <1>3, <2>1, <3>1, FewerClaims
  <2>4. ClaimsBounded'
    BY <1>1, <2>1, <2>3 DEF ClaimsBounded, aghosts
  <2> QED BY <2>2, <2>4
<1> QED BY <1>1, <1>4, <1>5 DEF AInv, aghosts

(* A request that is allowed found room below the limit, and the others can   *)
(* each be about to claim one.                                                *)
LEMMA ValidateKeeps == ASSUME AInv, NEW q \in ARequests, ValidateLimit(q) PROVE AInv'
<1> DEFINE r == aRequest[q]
           n == [r EXCEPT !.step = "write"]
<1>1. /\ ATypes /\ r \in AFields /\ AFits(r) /\ r.step = "count"
      /\ UNCHANGED <<aFleet, aUsers, aLimit, aHighest, aSet, aCrossed>>
  BY DEF AInv, ATypes, ValidateLimit
<1>2. /\ aFleet' \in [AVehicles -> AVehicle] /\ aUsers' \in [AEmails -> AParents \cup {ANone}]
      /\ \A k \in Kinds, p \in AParents : Owned(k, p)' \subseteq Claimed(k, p)
  BY <1>1 DEF ATypes, Owned, Claimed
<1>3. n \in AFields /\ AFits(n) /\ n.step = "write" /\ n.parent = r.parent /\ KindOf(n) = KindOf(r)
  BY <1>1 DEF AFields, AFits, KindOf
<1>4. [aRequest EXCEPT ![q].step = "write"] = [aRequest EXCEPT ![q] = n]
  BY <1>1 DEF ATypes, AFields
<1>5. CASE End(q) /\ UNCHANGED aBlind
  <2>1. Resting.step # "save" /\ \A k \in Kinds, p \in AParents : ~Grants(Resting, k, p)
    BY DEF Resting, Grants
  <2>2. aRequest' = [aRequest EXCEPT ![q] = Resting] /\ UNCHANGED aghosts
    BY <1>1, <1>5 DEF End, aghosts
  <2> QED BY <1>1, <1>2, <2>1, <2>2, RestingFits, IdleStepKeeps
<1>6. CASE aRequest' = [aRequest EXCEPT ![q] = n] /\ aBlind' = TRUE
  <2>1. ATypes'
    BY <1>1, <1>3, <1>6, RequestTyped DEF ATypes
  <2> QED BY <1>6, <2>1 DEF AInv
<1>7. CASE /\ aRequest' = [aRequest EXCEPT ![q] = n] /\ UNCHANGED aBlind
           /\ ~(InUse(KindOf(r), r.parent) >= aLimit[r.parent][KindOf(r)])
  <2>1. ATypes'
    BY <1>1, <1>3, <1>7, RequestTyped DEF ATypes
  <2>2. ASSUME ~aBlind PROVE ClaimsBounded' /\ LimitsHeld'
    <3>1. ClaimsBounded /\ LimitsHeld
      BY <2>2 DEF AInv
    <3>2. LimitsHeld'
      BY <1>1, <1>3, <1>7, <3>1, LimitsKept DEF ATypes
    <3>3. ASSUME NEW k \in Kinds, NEW p \in AParents
          PROVE  Cardinality(Claimed(k, p))' < aHighest'[p][k] + Cardinality(ARequests)
      <4>1. CASE k = KindOf(r) /\ p = r.parent
        <5>1. InUse(k, p) = Cardinality(Owned(k, p)) /\ Owned(k, p)' = Owned(k, p)
          BY <1>1 DEF InUse, Owned
        <5>2. /\ Cardinality(Owned(k, p)) \in Nat /\ Cardinality(ARequests) \in Nat
              /\ Cardinality(Claimed(k, p))' <= Cardinality(Owned(k, p))' + Cardinality(ARequests)
              /\ Cardinality(Claimed(k, p))' \in Nat
          <6> DEFINE C == Claimed(k, p)'
          <6>1. \A x \in C : x \in Owned(k, p) \/ \E o \in ARequests : x = aRequest'[o].id
            BY <5>1 DEF Granted, Claimed
          <6>2. IsFiniteSet(Owned(k, p))
            BY OwnedFinite
          <6> HIDE DEF C
          <6>3. /\ Cardinality(C) \in Nat /\ Cardinality(Owned(k, p)) \in Nat /\ Cardinality(ARequests) \in Nat
                /\ Cardinality(C) <= Cardinality(Owned(k, p)) + Cardinality(ARequests)
            BY <6>1, <6>2, ClaimsAreFew
          <6> QED BY <5>1, <6>3 DEF C
        <5>3. aLimit[p][k] \in Nat /\ aHighest[p][k] \in Nat /\ aLimit[p][k] <= aHighest[p][k]
          BY <1>1, <3>1 DEF ATypes, ClaimsBounded
        <5>4. Cardinality(Owned(k, p)) < aLimit[p][k]
          BY <1>7, <4>1, <5>1, <5>2, <5>3
        <5> QED BY <1>1, <5>1, <5>2, <5>3, <5>4
      <4>2. CASE ~(k = KindOf(r) /\ p = r.parent)
        <5>1. ~Grants(n, k, p)
          BY <1>3, <4>2 DEF Grants
        <5>2. Claimed(k, p)' \subseteq Claimed(k, p)
          BY <1>1, <1>2, <1>7, <5>1, ClaimsKept DEF ATypes
        <5>3. aHighest[p][k] <= aHighest'[p][k] /\ aHighest'[p][k] \in Nat
          BY <1>1 DEF ATypes
        <5> QED BY <1>1, <3>1, <5>2, <5>3, FewerClaims
      <4> QED BY <4>1, <4>2
    <3>4. ClaimsBounded'
      BY <1>1, <3>1, <3>3 DEF ClaimsBounded
    <3> QED BY <3>2, <3>4
  <2> QED BY <1>7, <2>1, <2>2 DEF AInv
<1> QED BY <1>4, <1>5, <1>6, <1>7 DEF ValidateLimit, Continue

LEMMA AccountEditKeeps ==
    ASSUME AInv, NEW q \in ARequests, UpdateProfile(q) \/ SaveSettings(q)
    PROVE  AInv'
<1>1. PICK p \in AParents, limits \in AChanges : Edit(q, p, limits)
  <2>1. \A k \in Kinds, l \in ALimits : [kind \in {k} |-> l] \in AChanges
    <3> TAKE k \in Kinds, l \in ALimits
    <3>1. [kind \in {k} |-> l] \in [{k} -> Nat] /\ {k} \in SUBSET Kinds
      BY AAssumption
    <3> QED BY <3>1 DEF AChanges
  <2> QED BY <2>1, NoChangeIsOne DEF UpdateProfile, SaveSettings
<1> DEFINE n == [op |-> "edit", id |-> p, parent |-> p, step |-> "read", limits |-> limits]
<1>2. n \in AFields /\ AFits(n) /\ \A k \in Kinds, o \in AParents : ~Grants(n, k, o)
  BY DEF AFields, AFits, Grants
<1>3. aRequest' = [aRequest EXCEPT ![q] = n] /\ UNCHANGED <<aFleet, aUsers, aLimit, aghosts>>
  BY <1>1 DEF Edit
<1>4. aRequest[q].step # "save" /\ n.step # "save"
  BY <1>1 DEF Edit, Resting
<1>5. \A k \in Kinds, o \in AParents : Owned(k, o)' \subseteq Claimed(k, o)
  BY <1>3 DEF Owned, Claimed
<1>6. aFleet' \in [AVehicles -> AVehicle] /\ aUsers' \in [AEmails -> AParents \cup {ANone}]
  BY <1>3 DEF AInv, ATypes
<1> HIDE DEF n
<1> QED BY <1>2, <1>3, <1>4, <1>5, <1>6, IdleStepKeeps

(* The record is read: the limits it will write are the ones last given,      *)
(* unless another request is about to write an older record.                  *)
LEMMA ReadUserKeeps == ASSUME AInv, NEW q \in ARequests, ReadUser(q) PROVE AInv'
<1> DEFINE r == aRequest[q]
           Merged(record) == [k \in Kinds |-> IF k \in DOMAIN r.limits THEN r.limits[k] ELSE record[k]]
           crossed == \E o \in ARequests \ {q} : Saves(o, r.id)
<1>1. /\ ATypes /\ r \in AFields /\ AFits(r) /\ r.step = "read" /\ r.op = "edit" /\ r.id \in AParents
      /\ UNCHANGED <<aFleet, aUsers, aLimit, aHighest>>
      /\ aSet' = [aSet EXCEPT ![r.id] = Merged(aSet[r.id])]
      /\ aCrossed' = IF crossed THEN aCrossed \cup {r.id} ELSE aCrossed
  BY DEF AInv, ATypes, AFits, ReadUser, Saves
<1>2. \A k \in Kinds : k \in DOMAIN r.limits => r.limits[k] \in Nat
  BY <1>1 DEF AFields, AChanges
<1>3. ASSUME NEW record \in [Kinds -> Nat] PROVE Merged(record) \in [Kinds -> Nat]
  BY <1>2, <1>3
<1>4. PICK read \in BOOLEAN :
          /\ aRequest' = [aRequest EXCEPT ![q].step = "save",
                              ![q].limits = Merged(IF read THEN aLimit[r.id] ELSE [k \in Kinds |-> 0])]
          /\ aBlind' = (aBlind \/ ~read)
  BY DEF ReadUser
<1> DEFINE record == IF read THEN aLimit[r.id] ELSE [k \in Kinds |-> 0]
           n == [r EXCEPT !.step = "save", !.limits = Merged(record)]
<1>5. record \in [Kinds -> Nat]
  BY <1>1 DEF ATypes
<1>6. Merged(record) \in [Kinds -> Nat] /\ Merged(record) \in AChanges
  BY <1>3, <1>5 DEF AChanges
<1> HIDE DEF Merged, record
<1>7. n \in AFields /\ n.step = "save" /\ n.op = "edit" /\ n.id = r.id /\ n.limits = Merged(record)
  BY <1>1, <1>6 DEF AFields
<1>8. aRequest' = [aRequest EXCEPT ![q] = n]
  <2>1. aRequest[q] \in AFields /\ aRequest \in [ARequests -> AFields]
    BY <1>1 DEF ATypes
  <2> QED BY <1>4, <2>1 DEF AFields, record
<1> HIDE DEF n
<1>9. AFits(n)
  BY <1>1, <1>6, <1>7 DEF AFits
<1>10. ATypes'
  <2>1. aSet' \in [AParents -> [Kinds -> Nat]]
    <3>1. Merged(aSet[r.id]) \in [Kinds -> Nat]
      BY <1>1, <1>3 DEF ATypes
    <3> QED BY <1>1, <3>1 DEF ATypes
  <2>2. aRequest' \in [ARequests -> AFields] /\ \A o \in ARequests : AFits(aRequest[o])'
    BY <1>1, <1>7, <1>8, <1>9, RequestTyped
  <2>3. aCrossed' \subseteq AParents
    BY <1>1 DEF ATypes
  <2>4. aBlind' \in BOOLEAN
    BY <1>4
  <2> QED BY <1>1, <2>1, <2>2, <2>3, <2>4 DEF ATypes
<1>11. ASSUME ~aBlind' PROVE ClaimsBounded' /\ LimitsHeld'
  <2>1. ClaimsBounded /\ LimitsHeld /\ read /\ record = aLimit[r.id]
    BY <1>4, <1>11 DEF AInv, record
  <2>2. ASSUME NEW k \in Kinds, NEW p \in AParents
        PROVE  Cardinality(Claimed(k, p))' < aHighest'[p][k] + Cardinality(ARequests)
    <3>1. ~Grants(n, k, p) /\ Owned(k, p)' \subseteq Claimed(k, p)
      BY <1>1, <1>7 DEF Grants, Owned, Claimed
    <3>2. Claimed(k, p)' \subseteq Claimed(k, p)
      BY <1>1, <1>8, <3>1, ClaimsKept DEF ATypes
    <3>3. aHighest[p][k] <= aHighest'[p][k] /\ aHighest'[p][k] \in Nat
      BY <1>1 DEF ATypes
    <3> QED BY <1>1, <2>1, <3>2, <3>3, FewerClaims
  <2>3. ClaimsBounded'
    BY <1>1, <2>1, <2>2 DEF ClaimsBounded
  <2>4. \A o \in ARequests, p \in AParents : o # q => /\ aRequest'[o] = aRequest[o]
                                                      /\ Saves(o, p)' <=> Saves(o, p)
    BY <1>1, <1>8 DEF ATypes, Saves
  <2>5. \A p \in AParents : Saves(q, p)' <=> p = r.id
    BY <1>1, <1>7, <1>8 DEF ATypes, Saves
  <2>6. \A p \in AParents : ~Saves(q, p)
    BY <1>1 DEF Saves
  <2>7. ASSUME NEW p \in AParents \ aCrossed'
        PROVE  /\ (\A o \in ARequests : ~Saves(o, p)') => aLimit'[p] = aSet'[p]
               /\ \A o \in ARequests : Saves(o, p)' =>
                      aRequest'[o].limits = aSet'[p] /\ \A u \in ARequests \ {o} : ~Saves(u, p)'
    <3>0. p \in AParents \ aCrossed
      BY <1>1, <2>7
    <3>1. CASE p = r.id
      <4>1. \A o \in ARequests \ {q} : ~Saves(o, p)
        BY <1>1, <2>7, <3>1
      <4>2. aLimit[p] = aSet[p]
        BY <2>1, <2>6, <3>0, <4>1 DEF LimitsHeld
      <4>3. aSet'[p] = Merged(aSet[p]) /\ aRequest'[q].limits = Merged(aLimit[p])
        BY <1>1, <1>7, <1>8, <2>1, <3>1 DEF ATypes
      <4>4. Saves(q, p)' /\ \A o \in ARequests \ {q} : ~Saves(o, p)'
        BY <3>0, <2>4, <2>5, <3>1, <4>1
      <4>5. aRequest'[q].limits = aSet'[p]
        BY <4>2, <4>3
      <4> QED BY <4>4, <4>5
    <3>2. CASE p # r.id
      <4>1. aSet'[p] = aSet[p] /\ aLimit'[p] = aLimit[p]
        BY <1>1, <3>2 DEF ATypes
      <4>2. \A o \in ARequests : Saves(o, p)' <=> Saves(o, p)
        BY <3>0, <2>4, <2>5, <2>6, <3>2
      <4>3. \A o \in ARequests : Saves(o, p) => aRequest'[o] = aRequest[o]
        BY <2>4, <2>6
      <4>4. (\A o \in ARequests : ~Saves(o, p)) => aLimit[p] = aSet[p]
        BY <2>1, <3>0 DEF LimitsHeld
      <4>5. ASSUME NEW o \in ARequests, Saves(o, p)
            PROVE  aRequest[o].limits = aSet[p] /\ \A u \in ARequests \ {o} : ~Saves(u, p)
        BY <2>1, <3>0, <4>5 DEF LimitsHeld
      <4>6. (\A o \in ARequests : ~Saves(o, p)') => aLimit'[p] = aSet'[p]
        BY <4>1, <4>2, <4>4
      <4>7. ASSUME NEW o \in ARequests, Saves(o, p)'
            PROVE  aRequest'[o].limits = aSet'[p] /\ \A u \in ARequests \ {o} : ~Saves(u, p)'
        BY <4>1, <4>2, <4>3, <4>5, <4>7
      <4> QED BY <4>6, <4>7
    <3> QED BY <3>1, <3>2
  <2>8. LimitsHeld'
    BY <2>7 DEF LimitsHeld
  <2> QED BY <2>3, <2>8
<1> QED BY <1>10, <1>11 DEF AInv

LEMMA SaveUserKeeps == ASSUME AInv, NEW q \in ARequests, SaveUser(q) PROVE AInv'
<1> DEFINE r == aRequest[q]
<1>1. /\ ATypes /\ r.step = "save" /\ r.op = "edit" /\ r.id \in AParents /\ r.limits \in [Kinds -> Nat]
      /\ UNCHANGED <<aFleet, aUsers, aCrossed, aBlind>> /\ Saves(q, r.id)
      /\ aRequest' = [aRequest EXCEPT ![q] = Resting]
  BY DEF AInv, ATypes, AFits, SaveUser, End, Saves
<1> DEFINE top == [k \in Kinds |-> IF r.limits[k] > aHighest[r.id][k] THEN r.limits[k] ELSE aHighest[r.id][k]]
<1>2. top \in [Kinds -> Nat] /\ aHighest[r.id] \in [Kinds -> Nat]
      /\ \A k \in Kinds : r.limits[k] <= top[k] /\ aHighest[r.id][k] <= top[k]
  BY <1>1 DEF ATypes
<1>3. \/ /\ aLimit' = [aLimit EXCEPT ![r.id] = r.limits] /\ aHighest' = [aHighest EXCEPT ![r.id] = top]
         /\ UNCHANGED aSet
      \/ aSet' = [aSet EXCEPT ![r.id] = aLimit[r.id]] /\ UNCHANGED <<aLimit, aHighest>>
  BY DEF SaveUser
<1> HIDE DEF top
<1>4. ATypes'
  <2>1. aRequest' \in [ARequests -> AFields] /\ \A o \in ARequests : AFits(aRequest[o])'
    BY <1>1, RestingFits, RequestTyped
  <2>2. /\ aLimit' \in [AParents -> [Kinds -> Nat]] /\ aHighest' \in [AParents -> [Kinds -> Nat]]
        /\ aSet' \in [AParents -> [Kinds -> Nat]]
    BY <1>1, <1>2, <1>3 DEF ATypes
  <2> QED BY <1>1, <2>1, <2>2 DEF ATypes
<1>5. ASSUME ~aBlind PROVE ClaimsBounded' /\ LimitsHeld'
  <2>1. ClaimsBounded /\ LimitsHeld
    BY <1>5 DEF AInv
  <2>2. ASSUME NEW k \in Kinds, NEW p \in AParents
        PROVE  /\ Cardinality(Claimed(k, p))' < aHighest'[p][k] + Cardinality(ARequests)
               /\ aLimit'[p][k] <= aHighest'[p][k]
    <3>1. ~Grants(Resting, k, p) /\ Owned(k, p)' \subseteq Claimed(k, p)
      BY <1>1 DEF Grants, Owned, Claimed, Resting
    <3>2. Claimed(k, p)' \subseteq Claimed(k, p)
      BY <1>1, <3>1, ClaimsKept DEF ATypes
    <3>3. aHighest[p][k] \in Nat /\ aLimit[p][k] \in Nat /\ aLimit[p][k] <= aHighest[p][k]
      BY <1>1, <2>1 DEF ATypes, ClaimsBounded
    <3>4. /\ aHighest[p][k] <= aHighest'[p][k] /\ aHighest'[p][k] \in Nat
          /\ aLimit'[p][k] <= aHighest'[p][k]
      <4>1. CASE p = r.id /\ aLimit' = [aLimit EXCEPT ![r.id] = r.limits] /\ aHighest' = [aHighest EXCEPT ![r.id] = top]
        <5>1. aLimit'[p] = r.limits /\ aHighest'[p] = top
          BY <1>1, <4>1 DEF ATypes
        <5> QED BY <1>2, <4>1, <5>1
      <4>2. CASE aLimit'[p] = aLimit[p] /\ aHighest'[p] = aHighest[p]
        BY <3>3, <4>2
      <4> QED BY <1>1, <1>3, <4>1, <4>2 DEF ATypes
    <3> QED BY <1>1, <2>1, <3>2, <3>4, FewerClaims
  <2>3. ClaimsBounded'
    BY <2>2 DEF ClaimsBounded
  <2>4. \A o \in ARequests, p \in AParents : /\ Saves(o, p)' <=> Saves(o, p) /\ o # q
                                             /\ o # q => aRequest'[o] = aRequest[o]
    BY <1>1 DEF ATypes, Saves, Resting
  <2>5. ASSUME NEW p \in AParents \ aCrossed'
        PROVE  /\ (\A o \in ARequests : ~Saves(o, p)') => aLimit'[p] = aSet'[p]
               /\ \A o \in ARequests : Saves(o, p)' =>
                      aRequest'[o].limits = aSet'[p] /\ \A u \in ARequests \ {o} : ~Saves(u, p)'
    <3>0. p \in AParents \ aCrossed
      BY <1>1, <2>5
    <3>1. CASE p = r.id
      <4>1. r.limits = aSet[p] /\ \A o \in ARequests \ {q} : ~Saves(o, p)
        BY <1>1, <2>1, <3>0, <3>1 DEF LimitsHeld
      <4>2. \A o \in ARequests : ~Saves(o, p)'
        BY <2>4, <4>1
      <4>3. aLimit'[p] = aSet'[p]
        BY <1>1, <1>3, <3>1, <4>1 DEF ATypes
      <4> QED BY <4>2, <4>3
    <3>2. CASE p # r.id
      <4>1. aSet'[p] = aSet[p] /\ aLimit'[p] = aLimit[p]
        BY <1>1, <1>3, <3>2 DEF ATypes
      <4>2. ~Saves(q, p)
        BY <3>2 DEF Saves
      <4> QED BY <2>1, <2>4, <3>0, <4>1, <4>2 DEF LimitsHeld
    <3> QED BY <3>1, <3>2
  <2>6. LimitsHeld'
    BY <2>5 DEF LimitsHeld
  <2> QED BY <2>3, <2>6
<1> QED BY <1>1, <1>4, <1>5 DEF AInv

LEMMA AInitInv == AInit => AInv
<1> SUFFICES ASSUME AInit PROVE AInv
  OBVIOUS
<1> DEFINE lowest  == CHOOSE l \in ALimits : \A m \in ALimits : l <= m
           highest == CHOOSE l \in ALimits : \A m \in ALimits : l >= m
<1>1. ALimits \in SUBSET Nat /\ ALimits # {} /\ IsFiniteSet(ALimits) /\ ARequests # {} /\ IsFiniteSet(ARequests)
  BY AAssumption
<1>2. lowest \in Nat
  <2>1. \E l \in ALimits : \A m \in ALimits : l <= m
    BY <1>1, LeastNatural
  <2>2. lowest \in ALimits
    BY <2>1
  <2> QED BY <1>1, <2>2
<1>3. highest \in Nat
  <2>1. PICK l \in ALimits : \A m \in ALimits : m <= l
    BY <1>1, FiniteHasGreatest
  <2>2. \A m \in ALimits : l >= m
    BY <1>1, <2>1
  <2>3. highest \in ALimits
    BY <2>1, <2>2
  <2> QED BY <1>1, <2>3
<1>4. aLimit = [p \in AParents |-> [k \in Kinds |-> IF p \in AMain THEN highest ELSE lowest]]
  BY DEF AInit
<1> HIDE DEF lowest, highest
<1>5. aLimit \in [AParents -> [Kinds -> Nat]]
  BY <1>2, <1>3, <1>4
<1>6. ATypes
  BY <1>5, RestingFits DEF AInit, ATypes, AVehicle
<1>7. \A q \in ARequests : aRequest[q] = Resting
  BY DEF AInit
<1>8. LimitsHeld
  BY <1>7 DEF AInit, LimitsHeld, Saves, Resting
<1>9. ASSUME NEW k \in Kinds, NEW p \in AParents
      PROVE  Cardinality(Claimed(k, p)) < aHighest[p][k] + Cardinality(ARequests) /\ aLimit[p][k] <= aHighest[p][k]
  <2>1. Owned(k, p) = {}
    BY AAssumption DEF AInit, Owned, Absent, ANone
  <2>2. Granted(k, p) = {}
    BY <1>7 DEF Granted, Grants, Resting
  <2>3. Claimed(k, p) = {}
    BY <2>1, <2>2 DEF Claimed
  <2>4. Cardinality(Claimed(k, p)) = 0
    BY <2>3, FS_EmptySet
  <2>5. Cardinality(ARequests) \in Nat /\ Cardinality(ARequests) # 0
    BY <1>1, FS_EmptySet, FS_CardinalityType
  <2>6. aHighest[p][k] \in Nat /\ aLimit[p][k] = aHighest[p][k]
    <3>1. aHighest = aLimit
      BY DEF AInit
    <3>2. aLimit[p] \in [Kinds -> Nat]
      BY <1>5
    <3> QED BY <3>1, <3>2
  <2> QED BY <2>4, <2>5, <2>6
<1>10. ClaimsBounded
  BY <1>9 DEF ClaimsBounded
<1> QED BY <1>6, <1>8, <1>10 DEF AInv

LEMMA AStepInv == AInv /\ [ANext]_accounts => AInv'
<1> SUFFICES ASSUME AInv, [ANext]_accounts PROVE AInv'
  OBVIOUS
<1>1. CASE UNCHANGED accounts
  <2>1. /\ \A k \in Kinds, p \in AParents : Claimed(k, p)' = Claimed(k, p)
        /\ \A q \in ARequests, p \in AParents : Saves(q, p)' <=> Saves(q, p)
    BY <1>1 DEF accounts, aghosts, Claimed, Owned, Granted, Grants, KindOf, Saves
  <2>2. ATypes'
    BY <1>1 DEF AInv, ATypes, AFits, accounts, aghosts
  <2>3. ~aBlind => ClaimsBounded' /\ LimitsHeld'
    BY <1>1, <2>1 DEF AInv, ClaimsBounded, LimitsHeld, accounts, aghosts
  <2> QED BY <1>1, <2>2, <2>3 DEF AInv, accounts, aghosts
<1>2. ASSUME NEW q \in ARequests,
             \/ RegisterVehicle(q) \/ RemoveDeclined(q) \/ ApproveDraft(q) \/ DeclineDraft(q)
             \/ UpdateVehicle(q) \/ FindVehicle(q)
             \/ AddUser(q) \/ ValidateLimit(q) \/ WriteVehicle(q) \/ WriteUser(q)
             \/ UpdateProfile(q) \/ SaveSettings(q) \/ ReadUser(q) \/ SaveUser(q)
      PROVE  AInv'
  BY <1>2, BeginsKeep, RemoveKeeps, FindKeeps, ValidateKeeps, WriteVehicleKeeps, WriteUserKeeps,
     AccountEditKeeps, ReadUserKeeps, SaveUserKeeps
<1> QED BY <1>1, <1>2, DeletesKeep DEF ANext

(* An administrator has less than its highest limit and one for every request *)
(* that can be between check and write, whatever is registered, approved,     *)
(* edited and deleted at once; and keeps the limits it was last given.        *)
THEOREM LimitsAreHardlyExceeded == ASpec => []OverrunIsBounded
<1>1. ASpec => []AInv
  BY AInitInv, AStepInv, PTL DEF ASpec
<1>2. ASSUME AInv PROVE OverrunIsBounded
  <2>1. ASSUME ~aBlind, NEW p \in AParents, NEW k \in Kinds
        PROVE  InUse(k, p) < aHighest[p][k] + Cardinality(ARequests)
    <3>1. /\ IsFiniteSet(Owned(k, p)) /\ Owned(k, p) \subseteq Claimed(k, p)
          /\ \A x \in Claimed(k, p) : x \in Owned(k, p) \/ \E q \in ARequests : x = aRequest[q].id
      BY OwnedFinite DEF Granted, Claimed
    <3>2. IsFiniteSet(Claimed(k, p)) /\ Cardinality(ARequests) \in Nat
      BY <3>1, ClaimsAreFew
    <3>3. /\ Cardinality(Owned(k, p)) <= Cardinality(Claimed(k, p))
          /\ Cardinality(Owned(k, p)) \in Nat /\ Cardinality(Claimed(k, p)) \in Nat
      BY <3>1, <3>2, PartIsSmaller
    <3>4. aHighest[p][k] \in Nat /\ Cardinality(Claimed(k, p)) < aHighest[p][k] + Cardinality(ARequests)
      BY <1>2, <2>1 DEF AInv, ATypes, ClaimsBounded
    <3>5. InUse(k, p) = Cardinality(Owned(k, p))
      BY DEF InUse, Owned
    <3> QED BY <3>2, <3>3, <3>4, <3>5
  <2>2. ASSUME ~aBlind, NEW p \in AParents \ aCrossed,
               \A q \in ARequests : aRequest[q].step # "save" \/ aRequest[q].id # p
        PROVE  aLimit[p] = aSet[p]
    BY <1>2, <2>2 DEF AInv, LimitsHeld, Saves
  <2> QED BY <2>1, <2>2 DEF OverrunIsBounded
<1> QED BY <1>1, <1>2, PTL

(* Limits are those that may be given, or none.                               *)
AGiven == ALimits \cup {0}
Given(limits) == \A k \in DOMAIN limits : limits[k] \in AGiven

ABounded ==
    /\ aLimit \in [AParents -> [Kinds -> AGiven]] /\ aHighest \in [AParents -> [Kinds -> AGiven]]
    /\ aSet \in [AParents -> [Kinds -> AGiven]]
    /\ \A q \in ARequests : Given(aRequest[q].limits)

LEMMA RestingIsGiven == Given(Resting.limits) /\ Given(NoChange)
<1>1. Resting.limits = NoChange
  BY DEF Resting
<1> QED BY <1>1, NoChangeIsOne DEF Given

(* A request at its next step, which leaves the limits alone.                 *)
LEMMA NextIsGiven ==
    ASSUME AInv, ABounded, NEW q \in ARequests, NEW n, Given(n.limits),
           aRequest' = [aRequest EXCEPT ![q] = n]
    PROVE  \A o \in ARequests : Given(aRequest'[o].limits)
<1>1. \A o \in ARequests : aRequest'[o] = n \/ aRequest'[o] = aRequest[o]
  BY DEF AInv, ATypes
<1> QED BY <1>1 DEF ABounded

LEMMA ReadIsGiven == ASSUME AInv, ABounded, NEW q \in ARequests, ReadUser(q) PROVE ABounded'
<1> DEFINE r == aRequest[q]
           Merged(record) == [k \in Kinds |-> IF k \in DOMAIN r.limits THEN r.limits[k] ELSE record[k]]
           none == [k \in Kinds |-> 0]
<1>0. /\ aSet \in [AParents -> [Kinds -> AGiven]] /\ aLimit \in [AParents -> [Kinds -> AGiven]]
      /\ Given(r.limits) /\ aRequest \in [ARequests -> AFields] /\ r \in AFields
  BY DEF ABounded, AInv, ATypes
<1>1. r.id \in AParents
  BY DEF ReadUser, AInv, ATypes, AFits
<1>2. ASSUME NEW record \in [Kinds -> AGiven] PROVE Merged(record) \in [Kinds -> AGiven]
  BY <1>0 DEF Given
<1>3. aSet' = [aSet EXCEPT ![r.id] = Merged(@)] /\ UNCHANGED <<aLimit, aHighest>>
  BY DEF ReadUser
<1>4. none \in [Kinds -> AGiven] /\ aLimit[r.id] \in [Kinds -> AGiven] /\ aSet[r.id] \in [Kinds -> AGiven]
  BY <1>0, <1>1 DEF AGiven
<1>5. PICK read \in BOOLEAN :
          aRequest' = [aRequest EXCEPT ![q].step = "save",
                           ![q].limits = Merged(IF read THEN aLimit[r.id] ELSE none)]
  BY DEF ReadUser
<1> DEFINE record == IF read THEN aLimit[r.id] ELSE none
           limits == Merged(record)
           n == [r EXCEPT !.step = "save", !.limits = limits]
<1>6. limits \in [Kinds -> AGiven] /\ aRequest' = [aRequest EXCEPT ![q] = n]
  BY <1>0, <1>2, <1>4, <1>5
<1>7. aSet' \in [AParents -> [Kinds -> AGiven]]
  <2>1. Merged(aSet[r.id]) \in [Kinds -> AGiven]
    BY <1>2, <1>4
  <2> HIDE DEF Merged
  <2> QED BY <1>0, <1>1, <1>3, <2>1
<1> HIDE DEF limits, record, Merged
<1>8. n.limits = limits
  BY <1>0 DEF AFields
<1>9. Given(n.limits)
  BY <1>6, <1>8 DEF Given
<1> HIDE DEF n
<1>10. \A o \in ARequests : Given(aRequest'[o].limits)
  BY <1>6, <1>9, NextIsGiven
<1> QED BY <1>3, <1>7, <1>10 DEF ABounded

LEMMA SaveIsGiven == ASSUME AInv, ABounded, NEW q \in ARequests, SaveUser(q) PROVE ABounded'
<1> DEFINE r == aRequest[q]
<1>0. /\ aSet \in [AParents -> [Kinds -> AGiven]] /\ aLimit \in [AParents -> [Kinds -> AGiven]]
      /\ aHighest \in [AParents -> [Kinds -> AGiven]] /\ Given(r.limits)
  BY DEF ABounded
<1>1. r.id \in AParents /\ r.limits \in [Kinds -> Nat]
  BY DEF SaveUser, AInv, ATypes, AFits
<1>2. r.limits \in [Kinds -> AGiven]
  BY <1>0, <1>1 DEF Given
<1>3. aRequest' = [aRequest EXCEPT ![q] = Resting]
  BY DEF SaveUser, End
<1>4. \A o \in ARequests : Given(aRequest'[o].limits)
  BY <1>3, RestingIsGiven, NextIsGiven
<1> DEFINE highest == [k \in Kinds |-> IF r.limits[k] > aHighest[r.id][k] THEN r.limits[k] ELSE aHighest[r.id][k]]
<1>5. highest \in [Kinds -> AGiven]
  BY <1>0, <1>1, <1>2
<1>6. \/ /\ aLimit' = [aLimit EXCEPT ![r.id] = r.limits]
         /\ aHighest' = [aHighest EXCEPT ![r.id] = highest]
         /\ UNCHANGED aSet
      \/ aSet' = [aSet EXCEPT ![r.id] = aLimit[r.id]] /\ UNCHANGED <<aLimit, aHighest>>
  BY <1>0, <1>1 DEF SaveUser
<1> HIDE DEF highest
<1>7. aLimit' \in [AParents -> [Kinds -> AGiven]]
  BY <1>0, <1>1, <1>2, <1>6
<1>8. aHighest' \in [AParents -> [Kinds -> AGiven]]
  BY <1>0, <1>1, <1>5, <1>6
<1>9. aSet' \in [AParents -> [Kinds -> AGiven]]
  BY <1>0, <1>1, <1>6
<1> QED BY <1>4, <1>7, <1>8, <1>9 DEF ABounded

LEMMA ABoundedStep == AInv /\ ABounded /\ [ANext]_accounts => ABounded'
<1> SUFFICES ASSUME AInv, ABounded, [ANext]_accounts PROVE ABounded'
  OBVIOUS
<1>0. aRequest \in [ARequests -> AFields]
  BY DEF AInv, ATypes
<1>1. ASSUME UNCHANGED <<aLimit, aHighest, aSet>>, \A o \in ARequests : Given(aRequest'[o].limits)
      PROVE  ABounded'
  BY <1>1 DEF ABounded
<1>2. CASE UNCHANGED accounts
  BY <1>2 DEF accounts, aghosts, ABounded
<1>3. ASSUME NEW q \in ARequests, NEW n, Given(n.limits), aRequest' = [aRequest EXCEPT ![q] = n],
             UNCHANGED <<aLimit, aHighest, aSet>>
      PROVE  ABounded'
  BY <1>1, <1>3, NextIsGiven
<1>4. ASSUME NEW q \in ARequests, End(q), UNCHANGED <<aLimit, aHighest, aSet>> PROVE ABounded'
  BY <1>3, <1>4, RestingIsGiven DEF End
<1>5. ASSUME NEW q \in ARequests, NEW step, Continue(q, step), UNCHANGED <<aLimit, aHighest, aSet>>
      PROVE  ABounded'
  <2> DEFINE n == [aRequest[q] EXCEPT !.step = step]
  <2>1. aRequest' = [aRequest EXCEPT ![q] = n]
    BY <1>5 DEF Continue
  <2>2. n.limits = aRequest[q].limits
    BY <1>0 DEF AFields
  <2>3. Given(n.limits)
    BY <2>2 DEF ABounded
  <2> HIDE DEF n
  <2> QED BY <1>3, <1>5, <2>1, <2>3
<1>6. ASSUME NEW q \in ARequests, NEW op, NEW id, NEW p, NEW step, Begin(q, op, id, p, step)
      PROVE  ABounded'
  <2> DEFINE n == [Resting EXCEPT !.op = op, !.id = id, !.parent = p, !.step = step]
  <2>1. aRequest' = [aRequest EXCEPT ![q] = n] /\ UNCHANGED <<aLimit, aHighest, aSet>>
    BY <1>6 DEF Begin, aghosts
  <2>2. n.limits = Resting.limits
    BY DEF Resting
  <2>3. Given(n.limits)
    BY <2>2, RestingIsGiven
  <2> HIDE DEF n
  <2> QED BY <1>3, <2>1, <2>3
<1>7. ASSUME NEW q \in ARequests, NEW p, NEW limits, Given(limits), Edit(q, p, limits) PROVE ABounded'
  <2> DEFINE n == [op |-> "edit", id |-> p, parent |-> p, step |-> "read", limits |-> limits]
  <2>1. aRequest' = [aRequest EXCEPT ![q] = n] /\ UNCHANGED <<aLimit, aHighest, aSet>>
    BY <1>7 DEF Edit, aghosts
  <2>2. Given(n.limits)
    BY <1>7
  <2> HIDE DEF n
  <2> QED BY <1>3, <2>1, <2>2
<1>8. ASSUME NEW q \in ARequests,
             RegisterVehicle(q) \/ ApproveDraft(q) \/ DeclineDraft(q) \/ UpdateVehicle(q) \/ AddUser(q)
      PROVE  ABounded'
  <2>1. \E op, id, p, step : Begin(q, op, id, p, step)
    BY <1>8 DEF RegisterVehicle, ApproveDraft, DeclineDraft, UpdateVehicle, AddUser
  <2> QED BY <1>6, <2>1
<1>9. ASSUME NEW q \in ARequests,
             RemoveDeclined(q) \/ ValidateLimit(q) \/ WriteVehicle(q) \/ WriteUser(q)
      PROVE  ABounded'
  <2>1. UNCHANGED <<aLimit, aHighest, aSet>>
    BY <1>9 DEF RemoveDeclined, ValidateLimit, WriteVehicle, WriteUser, aghosts
  <2>2. End(q) \/ \E step : Continue(q, step)
    BY <1>9 DEF RemoveDeclined, ValidateLimit, WriteVehicle, WriteUser
  <2> QED BY <1>4, <1>5, <2>1, <2>2
<1>10. ASSUME NEW q \in ARequests, FindVehicle(q) PROVE ABounded'
  <2> DEFINE found == aFleet[aRequest[q].id]
             n == [aRequest[q] EXCEPT !.op = found.status, !.parent = found.parent, !.step = "write"]
  <2>1. UNCHANGED <<aLimit, aHighest, aSet>> /\ (End(q) \/ aRequest' = [aRequest EXCEPT ![q] = n])
    BY <1>10 DEF FindVehicle, aghosts
  <2>2. n.limits = aRequest[q].limits
    BY <1>0 DEF AFields
  <2>3. Given(n.limits)
    BY <2>2 DEF ABounded
  <2> HIDE DEF n, found
  <2> QED BY <1>3, <1>4, <2>1, <2>3
<1>11. ASSUME NEW q \in ARequests, UpdateProfile(q) PROVE ABounded'
  <2>1. PICK p \in AParents \ AMain, k \in Kinds, l \in ALimits : Edit(q, p, [kind \in {k} |-> l])
    BY <1>11 DEF UpdateProfile
  <2>2. Given([kind \in {k} |-> l])
    BY DEF Given, AGiven
  <2> QED BY <1>7, <2>1, <2>2
<1>12. ASSUME NEW q \in ARequests, SaveSettings(q) PROVE ABounded'
  BY <1>7, <1>12, RestingIsGiven DEF SaveSettings
<1>13. ASSUME NEW x, DeleteVehicle(x) \/ DeleteUser(x) PROVE ABounded'
  BY <1>13 DEF DeleteVehicle, DeleteUser, aghosts, ABounded
<1> QED BY <1>2, <1>8, <1>9, <1>10, <1>11, <1>12, <1>13, ReadIsGiven, SaveIsGiven DEF ANext

(* The tables keep their types, and the limits of an administrator, also the  *)
(* ones an edit is about to write, are limits that may be given, or 0.        *)
THEOREM AccountsTypeCorrect == ASpec => []ATypeOK
<1>1. AInit => ABounded
  <2> SUFFICES ASSUME AInit PROVE ABounded
    OBVIOUS
  <2> DEFINE lowest  == CHOOSE l \in ALimits : \A m \in ALimits : l <= m
             highest == CHOOSE l \in ALimits : \A m \in ALimits : l >= m
  <2>1. ALimits \in SUBSET Nat /\ ALimits # {} /\ IsFiniteSet(ALimits)
    BY AAssumption
  <2>2. lowest \in ALimits
    <3>1. \E l \in ALimits : \A m \in ALimits : l <= m
      BY <2>1, LeastNatural
    <3> QED BY <3>1
  <2>3. highest \in ALimits
    <3>1. PICK l \in ALimits : \A m \in ALimits : m <= l
      BY <2>1, FiniteHasGreatest
    <3>2. \A m \in ALimits : l >= m
      BY <2>1, <3>1
    <3> QED BY <3>1, <3>2
  <2>4. aLimit = [p \in AParents |-> [k \in Kinds |-> IF p \in AMain THEN highest ELSE lowest]]
        /\ aHighest = aLimit /\ aSet = aLimit
    BY DEF AInit
  <2> HIDE DEF lowest, highest
  <2>5. aLimit \in [AParents -> [Kinds -> AGiven]]
    BY <2>2, <2>3, <2>4 DEF AGiven
  <2>6. \A q \in ARequests : aRequest[q] = Resting
    BY DEF AInit
  <2> QED BY <2>4, <2>5, <2>6, RestingIsGiven DEF ABounded
<1>2. AInv /\ ABounded => ATypeOK
  <2> SUFFICES ASSUME AInv, ABounded PROVE ATypeOK
    OBVIOUS
  <2> DEFINE Changes == UNION {[K -> ALimits \cup {0}] : K \in SUBSET Kinds}
  <2>1. ASSUME NEW limits \in AChanges, Given(limits) PROVE limits \in Changes
    <3>1. PICK K \in SUBSET Kinds : limits \in [K -> Nat]
      BY DEF AChanges
    <3>2. limits \in [K -> ALimits \cup {0}]
      BY <2>1, <3>1 DEF Given, AGiven
    <3> QED BY <3>2
  <2> HIDE DEF Changes
  <2>2. ASSUME NEW q \in ARequests
        PROVE  aRequest[q] \in [op : {"none", "register", "approve", "update", "user", "edit",
                                      "draft", "declined", "active"},
                                id : AVehicles \cup AEmails \cup AParents \cup {ANone},
                                parent : AParents \cup {ANone},
                                step : {"none", "remove", "find", "count", "write", "read", "save"},
                                limits : Changes]
    <3>1. aRequest[q] \in AFields /\ Given(aRequest[q].limits)
      BY DEF AInv, ATypes, ABounded
    <3>2. aRequest[q].limits \in Changes
      BY <2>1, <3>1 DEF AFields
    <3> QED BY <3>1, <3>2 DEF AFields
  <2>3. aRequest \in [ARequests -> AFields]
    BY DEF AInv, ATypes
  <2>4. aRequest \in [ARequests -> [op : {"none", "register", "approve", "update", "user", "edit",
                                          "draft", "declined", "active"},
                                    id : AVehicles \cup AEmails \cup AParents \cup {ANone},
                                    parent : AParents \cup {ANone},
                                    step : {"none", "remove", "find", "count", "write", "read", "save"},
                                    limits : Changes]]
    BY <2>2, <2>3
  <2>5. /\ aFleet \in [AVehicles -> {Absent} \cup [status : {"draft", "declined", "active"}, parent : AParents]]
        /\ aUsers \in [AEmails -> AParents \cup {ANone}]
        /\ aCrossed \subseteq AParents /\ aBlind \in BOOLEAN
    BY DEF AInv, ATypes, AVehicle
  <2>6. {aLimit, aHighest, aSet} \subseteq [AParents -> [Kinds -> ALimits \cup {0}]]
    BY DEF ABounded, AGiven
  <2> QED BY <2>4, <2>5, <2>6 DEF ATypeOK, Changes
<1> QED BY <1>1, <1>2, AInitInv, AStepInv, ABoundedStep, PTL DEF ASpec

-----------------------------------------------------------------------------
(* Rate limiter.                                                              *)

LTypes ==
    /\ lClock \in Nat /\ lWorker \in [LWorkers -> {LResting} \cup 0..lClock]
    /\ lBucket \subseteq 0..lClock /\ lServed \subseteq 0..lClock
    /\ lLate \in BOOLEAN /\ (lLate => LWorkers # {})

(* Workers that hold a time of a window.                                      *)
InWindow(t, from) == from < t /\ t <= from + LPeriod
Holding(from) == {w \in LWorkers : lWorker[w] # LResting /\ InWindow(lWorker[w], from)}

(* A window is whole while the bucket still has all that was let through in   *)
(* it: then the count saw all of it.  It is past when a transaction has cut   *)
(* into it: then only workers that read the clock before can still enter it,  *)
(* and if none was overtaken so far, a later time bars them from it.          *)
Whole(from) == Window(from) \subseteq lBucket /\ Cardinality(Window(from)) <= LLimit + 1
IsPast(from) ==
    /\ from + LPeriod < lClock
    /\ Cardinality(Window(from)) + Cardinality(Holding(from)) <= LLimit + Cardinality(LWorkers)
    /\ ~lLate => /\ Cardinality(Window(from)) <= LLimit + 1
                 /\ \E t \in lBucket : from + LPeriod < t

LInv == LTypes /\ \A from \in LResting..LMaxClock : Whole(from) \/ IsPast(from)

LEMMA LFinite ==
    ASSUME LTypes, NEW from
    PROVE  /\ IsFiniteSet(lBucket) /\ IsFiniteSet(Window(from)) /\ Cardinality(Window(from)) \in Nat
           /\ IsFiniteSet(Holding(from)) /\ Cardinality(Holding(from)) \in Nat
           /\ Cardinality(Holding(from)) <= Cardinality(LWorkers)
           /\ IsFiniteSet(LWorkers) /\ Cardinality(LWorkers) \in Nat
<1>1. IsFiniteSet(0..lClock)
  BY FS_Interval DEF LTypes
<1>2. lBucket \subseteq 0..lClock /\ Window(from) \subseteq 0..lClock /\ Holding(from) \subseteq LWorkers
  BY DEF LTypes, Window, Holding
<1>3. IsFiniteSet(LWorkers)
  BY LAssumption
<1> QED BY <1>1, <1>2, <1>3, PartIsSmaller

LEMMA LRemoved ==
    ASSUME NEW S, IsFiniteSet(S), NEW x \in S
    PROVE  /\ IsFiniteSet(S \ {x}) /\ Cardinality(S \ {x}) \in Nat /\ Cardinality(S) \in Nat
           /\ Cardinality(S \ {x}) = Cardinality(S) - 1
BY FS_RemoveElement, FS_CardinalityType

LEMMA LAdded ==
    ASSUME NEW S, IsFiniteSet(S), NEW x
    PROVE  /\ IsFiniteSet(S \cup {x}) /\ Cardinality(S \cup {x}) \in Nat /\ Cardinality(S) \in Nat
           /\ Cardinality(S \cup {x}) <= Cardinality(S) + 1
<1>1. IsFiniteSet(S \cup {x}) /\ Cardinality(S \cup {x}) = IF x \in S THEN Cardinality(S) ELSE Cardinality(S) + 1
  BY FS_AddElement
<1>2. Cardinality(S) \in Nat /\ Cardinality(S \cup {x}) \in Nat
  BY <1>1, FS_CardinalityType
<1> QED BY <1>1, <1>2

(* A transaction, seen from one window.                                       *)
LEMMA CheckKeepsWindow ==
    ASSUME LTypes, LTypes', NEW w \in LWorkers, CheckRateLimit(w), NEW from \in LResting..LMaxClock,
           Whole(from) \/ IsPast(from)
    PROVE  Whole(from)' \/ IsPast(from)'
<1> DEFINE now == lWorker[w]
<1>1. /\ now \in 0..lClock /\ now \in Nat /\ lClock' = lClock /\ lClock \in Nat
      /\ lWorker' = [lWorker EXCEPT ![w] = LResting]
      /\ lBucket' = Recent(now) \cup {now} /\ lBucket \subseteq Nat
      /\ lServed' = IF Cardinality(Recent(now)) > LLimit THEN lServed ELSE lServed \cup {now}
      /\ from \in Int /\ LPeriod \in Nat /\ LLimit \in Nat
  BY LAssumption DEF CheckRateLimit, LTypes, LResting
<1>2. lLate' <=> (lLate \/ \E t \in lBucket : t > now)
  BY DEF CheckRateLimit, LTypes
<1>3. Holding(from)' = Holding(from) \ {w}
  BY <1>1 DEF Holding, InWindow, LTypes, LResting
<1>4. w \in Holding(from) <=> InWindow(now, from)
  BY <1>1 DEF Holding, LResting
<1>5. Window(from)' = Window(from) \/ (InWindow(now, from) /\ Window(from)' = Window(from) \cup {now})
  BY <1>1 DEF Window, InWindow
<1> DEFINE S == Window(from) U == Window(from)' H == Holding(from) G == Holding(from)'
<1>6. /\ IsFiniteSet(S) /\ Cardinality(S) \in Nat /\ IsFiniteSet(H) /\ Cardinality(H) \in Nat
      /\ Cardinality(H) <= Cardinality(LWorkers) /\ Cardinality(LWorkers) \in Nat /\ IsFiniteSet(lBucket)
      /\ IsFiniteSet(LWorkers)
  BY LFinite
<1>7. IsFiniteSet(Recent(now)) /\ Cardinality(Recent(now)) \in Nat /\ IsFiniteSet(U) /\ Cardinality(U) \in Nat
      /\ Cardinality(U) <= Cardinality(S) + 1
  <2>1. Recent(now) \subseteq lBucket
    BY DEF Recent
  <2>2. IsFiniteSet(Recent(now)) /\ Cardinality(Recent(now)) \in Nat
    BY <1>6, <2>1, PartIsSmaller
  <2>3. IsFiniteSet(S \cup {now}) /\ Cardinality(S \cup {now}) \in Nat /\ Cardinality(S \cup {now}) <= Cardinality(S) + 1
    BY <1>6, LAdded
  <2> QED BY <1>5, <1>6, <2>2, <2>3
<1>8. CASE Whole(from) /\ InWindow(now, from)
  <2>1. S \subseteq Recent(now)
    <3> SUFFICES ASSUME NEW t \in S PROVE t \in Recent(now)
      OBVIOUS
    <3>1. t \in lBucket /\ t \in Nat /\ from < t
      BY <1>1, <1>8 DEF Whole, Window
    <3>2. t > now - LPeriod
      BY <1>1, <1>8, <3>1 DEF InWindow
    <3> QED BY <3>1, <3>2 DEF Recent
  <2>2. U \subseteq lBucket'
    BY <1>1, <1>5, <2>1
  <2>3. Cardinality(U) <= LLimit + 1
    <3>1. CASE Cardinality(Recent(now)) > LLimit
      <4>1. U = S
        BY <1>1, <3>1 DEF Window
      <4> QED BY <1>8, <4>1 DEF Whole
    <3>2. CASE ~(Cardinality(Recent(now)) > LLimit)
      <4>1. Cardinality(S) <= Cardinality(Recent(now))
        BY <1>7, <2>1, PartIsSmaller
      <4> HIDE DEF U, S
      <4> QED BY <1>1, <1>6, <1>7, <3>2, <4>1
    <3> QED BY <3>1, <3>2
  <2> QED BY <2>2, <2>3 DEF Whole
<1>9. CASE Whole(from) /\ ~InWindow(now, from) /\ S \subseteq Recent(now)
  <2>1. U = S
    BY <1>5, <1>9
  <2> QED BY <1>1, <1>9, <2>1 DEF Whole
<1>10. CASE Whole(from) /\ ~InWindow(now, from) /\ ~(S \subseteq Recent(now))
  <2>1. U = S
    BY <1>5, <1>10
  <2>2. PICK e \in S : e \notin Recent(now)
    BY <1>10
  <2>3. e \in lBucket /\ e \in Nat /\ from < e
    BY <1>1, <1>10, <2>2 DEF Whole, Window
  <2>4. e + LPeriod <= now
    BY <1>1, <2>2, <2>3 DEF Recent
  <2>5. from + LPeriod < now /\ from + LPeriod < lClock'
    BY <1>1, <2>3, <2>4
  <2>6. Cardinality(G) \in Nat /\ Cardinality(G) <= Cardinality(LWorkers) - 1
    <3>1. G \subseteq LWorkers \ {w}
      BY <1>3 DEF Holding
    <3>2. IsFiniteSet(LWorkers \ {w}) /\ Cardinality(LWorkers \ {w}) = Cardinality(LWorkers) - 1
      BY <1>6, LRemoved
    <3> HIDE DEF G
    <3> QED BY <3>1, <3>2, PartIsSmaller
  <2>7. Cardinality(S) <= LLimit + 1
    BY <1>10 DEF Whole
  <2>8. Cardinality(U) + Cardinality(G) <= LLimit + Cardinality(LWorkers)
    <3> HIDE DEF U, S, G
    <3> QED BY <1>1, <1>6, <2>1, <2>6, <2>7
  <2>9. \E t \in lBucket' : from + LPeriod < t
    BY <1>1, <2>5
  <2> QED BY <2>1, <2>5, <2>7, <2>8, <2>9 DEF IsPast
<1>11. CASE IsPast(from) /\ InWindow(now, from)
  <2>1. Cardinality(G) = Cardinality(H) - 1
    <3>1. w \in H /\ G = H \ {w}
      BY <1>3, <1>4, <1>11
    <3> HIDE DEF G, H
    <3> QED BY <1>6, <3>1, LRemoved
  <2>2. Cardinality(S) + Cardinality(H) <= LLimit + Cardinality(LWorkers) /\ from + LPeriod < lClock
    BY <1>11 DEF IsPast
  <2>3. Cardinality(U) + Cardinality(G) <= LLimit + Cardinality(LWorkers)
    <3> HIDE DEF U, S, G, H
    <3> QED BY <1>1, <1>6, <1>7, <2>1, <2>2
  <2>4. lLate'
    <3>1. CASE ~lLate
      <4>1. PICK t \in lBucket : from + LPeriod < t
        BY <1>11, <3>1 DEF IsPast
      <4>2. t > now
        BY <1>1, <1>11, <4>1 DEF InWindow
      <4> QED BY <1>2, <4>2
    <3> QED BY <1>2, <3>1
  <2> QED BY <1>1, <2>2, <2>3, <2>4 DEF IsPast
<1>12. CASE IsPast(from) /\ ~InWindow(now, from)
  <2>1. U = S /\ G = H
    BY <1>3, <1>4, <1>5, <1>12
  <2>2. ASSUME ~lLate' PROVE \E t \in lBucket' : from + LPeriod < t
    <3>1. ~lLate /\ \A t \in lBucket : ~(t > now)
      BY <1>2, <2>2
    <3>2. PICK t \in lBucket : from + LPeriod < t
      BY <1>12, <3>1 DEF IsPast
    <3>3. from + LPeriod < now
      BY <1>1, <3>1, <3>2
    <3> QED BY <1>1, <3>3
  <2> QED BY <1>1, <1>2, <1>12, <2>1, <2>2 DEF IsPast
<1> QED BY <1>8, <1>9, <1>10, <1>11, <1>12

(* A worker that gives up holds no time any more.                             *)
LEMMA LInvStep == LInv /\ [LNext]_limiter => LInv'
<1> SUFFICES ASSUME LInv, [LNext]_limiter PROVE LInv'
  OBVIOUS
<1>1. LTypes
  BY DEF LInv
<1>2. CASE UNCHANGED limiter
  BY <1>2 DEF LInv, LTypes, Whole, IsPast, Window, Holding, InWindow, limiter
<1>3. CASE LTick
  <2>1. /\ lClock' = lClock + 1 /\ UNCHANGED <<lWorker, lBucket, lServed, lLate>> /\ lClock \in Nat
    BY <1>1, <1>3 DEF LTick, LTypes
  <2>2. LTypes'
    BY <1>1, <2>1 DEF LTypes
  <2>3. ASSUME NEW from \in LResting..LMaxClock PROVE Whole(from)' \/ IsPast(from)'
    <3>1. Window(from)' = Window(from) /\ Holding(from)' = Holding(from)
      BY <2>1 DEF Window, Holding, InWindow
    <3>2. from \in Int /\ LPeriod \in Nat
      BY LAssumption DEF LResting
    <3>3. IsPast(from) => IsPast(from)'
      BY <2>1, <3>1, <3>2 DEF IsPast
    <3>4. Whole(from) => Whole(from)'
      BY <2>1, <3>1 DEF Whole
    <3> QED BY <3>3, <3>4 DEF LInv
  <2> QED BY <2>2, <2>3 DEF LInv
<1>4. ASSUME NEW w \in LWorkers, ReadClock(w) \/ FailOpen(w) PROVE LInv'
  <2>1. PICK n \in {lClock, LResting} : lWorker' = [lWorker EXCEPT ![w] = n]
    BY <1>4 DEF ReadClock, FailOpen
  <2>2. UNCHANGED <<lClock, lBucket, lServed, lLate>> /\ lClock \in Nat
    BY <1>1, <1>4 DEF ReadClock, FailOpen, LTypes
  <2>3. LTypes'
    BY <1>1, <2>1, <2>2 DEF LTypes
  <2>4. ASSUME NEW from \in LResting..LMaxClock PROVE Whole(from)' \/ IsPast(from)'
    <3>1. Window(from)' = Window(from) /\ from \in Int /\ LPeriod \in Nat /\ LLimit \in Nat
      BY <2>2, LAssumption DEF Window, LResting
    <3>2. Whole(from) => Whole(from)'
      BY <2>2, <3>1 DEF Whole
    <3>3. ASSUME IsPast(from) PROVE IsPast(from)'
      <4>1. Holding(from)' \subseteq Holding(from)
        BY <1>1, <2>1, <2>2, <3>1, <3>3 DEF Holding, InWindow, LTypes, LResting, IsPast
      <4>2. /\ Cardinality(Holding(from)') <= Cardinality(Holding(from))
            /\ Cardinality(Holding(from)') \in Nat /\ Cardinality(Holding(from)) \in Nat
        BY <1>1, <4>1, LFinite, PartIsSmaller
      <4>3. /\ Cardinality(Window(from)) \in Nat /\ Cardinality(LWorkers) \in Nat
            /\ Cardinality(Window(from)) + Cardinality(Holding(from)) <= LLimit + Cardinality(LWorkers)
        BY <1>1, <3>3, LFinite DEF IsPast
      <4>4. Cardinality(Window(from)) + Cardinality(Holding(from)') <= LLimit + Cardinality(LWorkers)
        BY <3>1, <4>2, <4>3
      <4> QED BY <2>2, <3>1, <3>3, <4>4 DEF IsPast
    <3> QED BY <3>2, <3>3 DEF LInv
  <2> QED BY <2>3, <2>4 DEF LInv
<1>5. ASSUME NEW w \in LWorkers, CheckRateLimit(w) PROVE LInv'
  <2>1. LTypes'
    <3>1. lClock' = lClock /\ lWorker' \in [LWorkers -> {LResting} \cup 0..lClock]
      BY <1>1, <1>5 DEF CheckRateLimit, LTypes
    <3>2. lWorker[w] \in 0..lClock
      BY <1>1, <1>5 DEF CheckRateLimit, LTypes
    <3>3. lBucket' \subseteq 0..lClock /\ lServed' \subseteq 0..lClock
      BY <1>1, <1>5, <3>2 DEF CheckRateLimit, LTypes, Recent
    <3>4. lLate' \in BOOLEAN /\ LWorkers # {}
      BY <1>5 DEF CheckRateLimit
    <3> QED BY <1>1, <3>1, <3>3, <3>4 DEF LTypes
  <2>2. \A from \in LResting..LMaxClock : Whole(from)' \/ IsPast(from)'
    BY <1>1, <1>5, <2>1, CheckKeepsWindow DEF LInv
  <2> QED BY <2>1, <2>2 DEF LInv
<1> QED BY <1>2, <1>3, <1>4, <1>5 DEF LNext

LEMMA LInitInv == LInit => LInv
<1> SUFFICES ASSUME LInit PROVE LInv
  OBVIOUS
<1>1. LTypes
  BY DEF LInit, LTypes
<1>2. ASSUME NEW from PROVE Whole(from)
  <2>1. Window(from) = {}
    BY DEF LInit, Window
  <2>2. Cardinality(Window(from)) = 0
    BY <2>1, FS_EmptySet
  <2> QED BY <2>1, <2>2, LAssumption DEF Whole
<1> QED BY <1>1, <1>2 DEF LInv

(* In no window does the limiter let through more requests of different times *)
(* than one above the limit, and one for each further worker when one         *)
(* transaction overtook another, however many workers, whatever the limit and *)
(* the period.                                                                *)
THEOREM WindowsAreLimited == LSpec => []WindowIsBounded
<1>1. LSpec => []LInv
  BY LInitInv, LInvStep, PTL DEF LSpec
<1>2. ASSUME LInv PROVE WindowIsBounded
  <2>1. LTypes /\ LLimit \in Nat
    BY <1>2, LAssumption DEF LInv
  <2>2. ASSUME NEW from \in LResting..LMaxClock
        PROVE  Cardinality(Window(from)) <= LLimit + (IF lLate THEN Cardinality(LWorkers) ELSE 1)
    <3>1. /\ Cardinality(Window(from)) \in Nat /\ Cardinality(Holding(from)) \in Nat
          /\ Cardinality(LWorkers) \in Nat /\ IsFiniteSet(LWorkers)
      BY <2>1, LFinite
    <3>2. lLate => Cardinality(LWorkers) >= 1
      BY <2>1, <3>1, FS_EmptySet DEF LTypes
    <3>3. Whole(from) \/ IsPast(from)
      BY <1>2 DEF LInv
    <3>4. CASE Whole(from)
      BY <2>1, <3>1, <3>2, <3>4 DEF Whole
    <3>5. CASE IsPast(from)
      BY <2>1, <3>1, <3>5 DEF IsPast
    <3> QED BY <3>3, <3>4, <3>5
  <2> QED BY <2>2 DEF WindowIsBounded
<1> QED BY <1>1, <1>2, PTL

(* What is entered and let through lies within the clock's bound.             *)
THEOREM LimiterTypeCorrect == LSpec => []LTypeOK
<1>0. LMaxClock \in Nat
  BY LAssumption
<1> DEFINE InBound == lClock <= LMaxClock
<1>1. LInit => InBound
  BY <1>0 DEF LInit
<1>2. LInv /\ InBound /\ [LNext]_limiter => InBound'
  <2> SUFFICES ASSUME LInv, InBound, [LNext]_limiter PROVE InBound'
    OBVIOUS
  <2>1. lClock' = lClock \/ LTick
    BY DEF LNext, limiter, ReadClock, CheckRateLimit, FailOpen
  <2> QED BY <1>0, <2>1 DEF LTick, LInv, LTypes
<1>3. LInv /\ InBound => LTypeOK
  <2> SUFFICES ASSUME LInv, InBound PROVE LTypeOK
    OBVIOUS
  <2>1. LTypes /\ lClock \in Nat /\ lClock <= LMaxClock
    BY DEF LInv, LTypes
  <2>2. /\ 0..lClock \subseteq 0..LMaxClock
        /\ {LResting} \cup 0..lClock \subseteq LResting..LMaxClock
        /\ lClock \in 0..LMaxClock
    BY <1>0, <2>1 DEF LResting
  <2>3. lWorker \in [LWorkers -> LResting..LMaxClock]
    BY <2>1, <2>2 DEF LTypes
  <2> QED BY <2>1, <2>2, <2>3 DEF LTypes, LTypeOK
<1> HIDE DEF InBound
<1> QED BY <1>1, <1>2, <1>3, LInitInv, LInvStep, PTL DEF LSpec

-----------------------------------------------------------------------------
(* Answers of the copilot.                                                    *)

QTypes ==
    /\ qClock \in Nat /\ qOldest \in Int /\ qShown \in [QIntents -> Int]
    /\ qCache \in [QIntents -> [at : Int, rows : Int]]
    /\ qRequest \in [QRequests -> [step : Calling \cup {"idle"}, since : Int,
                                   intent : QIntents \cup {NoIntent}, rows : Int]]

Wording(r, i) == qRequest[r].step = "word" /\ qRequest[r].intent = i

(* Rows are worded within the time a call may take, and so is an answer at    *)
(* most that much younger than its rows when it enters the cache.             *)
QDated ==
    /\ \A r \in QRequests : qRequest[r].step = "word" =>
           /\ qRequest[r].intent \in QIntents /\ qRequest[r].rows = qRequest[r].since
           /\ 0 <= qRequest[r].since /\ qRequest[r].since <= qClock /\ qClock - qRequest[r].since <= QPatience
    /\ \A i \in QIntents :
           /\ qShown[i] <= qClock /\ qCache[i].rows <= qClock
           /\ qCache[i].rows # Nothing => qCache[i].at <= qClock /\ qCache[i].at - qCache[i].rows <= QPatience
    /\ qOldest < QTTL + QPatience

(* Of an intent that was never worded twice at once, the cache has the newest *)
(* rows shown, and the one request that words it has newer ones.              *)
QForward ==
    \A i \in QIntents \ qOverlap :
        /\ qCache[i].rows = Nothing \/ qShown[i] <= qCache[i].rows
        /\ \A r \in QRequests : Wording(r, i) =>
               /\ qShown[i] <= qRequest[r].rows /\ qCache[i].rows <= qRequest[r].rows
               /\ \A q \in QRequests \ {r} : ~Wording(q, i)

QInv == QTypes /\ QDated /\ QForward /\ qBack \subseteq qOverlap

LEMMA QConstants == QTTL \in Nat \ {0} /\ QPatience \in Nat \ {0} /\ Nothing \in Int /\ Nothing < 0
BY QAssumption DEF Nothing

(* A request that ends or asks for something else than a wording.             *)
LEMMA UnshownKeeps ==
    ASSUME QInv, NEW r \in QRequests, NEW n, n \in [step : Calling \cup {"idle"}, since : Int,
                                                    intent : QIntents \cup {NoIntent}, rows : Int],
           n.step # "word", qRequest' = [qRequest EXCEPT ![r] = n],
           UNCHANGED <<qClock, qCache, qShown, qBack, qOverlap, qOldest>>
    PROVE  QInv'
<1>1. QTypes'
  BY DEF QInv, QTypes
<1>2. \A q \in QRequests : /\ qRequest'[q].step = "word" => qRequest'[q] = qRequest[q]
                           /\ \A i \in QIntents : Wording(q, i)' => Wording(q, i) /\ qRequest'[q] = qRequest[q]
  BY DEF QInv, QTypes, Wording
<1>3. QDated'
  BY <1>2 DEF QInv, QDated
<1>4. QForward'
  BY <1>2 DEF QInv, QForward
<1> QED BY <1>1, <1>3, <1>4 DEF QInv

LEMMA IdleTyped == QIdle \in [step : Calling \cup {"idle"}, since : Int, intent : QIntents \cup {NoIntent}, rows : Int]
                   /\ QIdle.step # "word"
BY QConstants DEF QIdle

LEMMA TickKeeps == ASSUME QInv, QTick PROVE QInv'
<1>1. /\ qClock' = qClock + 1 /\ qClock \in Nat /\ UNCHANGED <<qCache, qRequest, qShown, qBack, qOverlap, qOldest>>
      /\ \A r \in QRequests : qRequest[r].step = "word" => qClock - qRequest[r].since < QPatience
  BY DEF QTick, Calling, QInv, QTypes
<1>2. QTypes'
  BY <1>1 DEF QInv, QTypes
<1>3. QDated'
  <2>1. ASSUME NEW r \in QRequests, qRequest[r].step = "word"
        PROVE  qRequest[r].since <= qClock' /\ qClock' - qRequest[r].since <= QPatience
    <3>1. qRequest[r].since \in Int /\ qRequest[r].since <= qClock /\ qClock - qRequest[r].since < QPatience
      BY <1>1, <2>1 DEF QInv, QTypes, QDated
    <3> QED BY <1>1, <3>1, QConstants
  <2>2. ASSUME NEW i \in QIntents
        PROVE  /\ qShown[i] <= qClock' /\ qCache[i].rows <= qClock'
               /\ qCache[i].rows # Nothing => qCache[i].at <= qClock'
    <3>1. qShown[i] \in Int /\ qCache[i].rows \in Int /\ qCache[i].at \in Int
      BY DEF QInv, QTypes
    <3> QED BY <1>1, <3>1 DEF QInv, QDated
  <2> QED BY <1>1, <2>1, <2>2 DEF QInv, QDated
<1>4. QForward'
  BY <1>1 DEF QInv, QForward, Wording
<1> QED BY <1>1, <1>2, <1>3, <1>4 DEF QInv

(* An answer that shows rows of an intent, from the cache or just worded.     *)
LEMMA ShowKeeps ==
    ASSUME QInv, NEW r \in QRequests, NEW i \in QIntents, NEW rows \in Int, Show(r, i, rows),
           UNCHANGED <<qClock, qOverlap>>, rows <= qClock,
           rows # Nothing => qClock - rows < QTTL + QPatience,
           i \notin qOverlap => rows = Nothing \/ qShown[i] <= rows,
           NEW at \in Int, at <= qClock, rows # Nothing => at - rows <= QPatience,
           \/ qCache' = qCache /\ qCache[i].rows = rows
           \/ qCache' = [qCache EXCEPT ![i] = [at |-> at, rows |-> rows]] /\ Wording(r, i) /\ qRequest[r].rows = rows
    PROVE  QInv'
<1>1. qRequest' = [qRequest EXCEPT ![r] = QIdle] /\ QTypes /\ qClock \in Nat
  BY DEF Show, Reply, QInv, QTypes
<1>2. /\ qShown' = IF rows = Nothing THEN qShown ELSE [qShown EXCEPT ![i] = IF rows > qShown[i] THEN rows ELSE qShown[i]]
      /\ qBack' = IF rows = Nothing \/ ~(rows < qShown[i]) THEN qBack ELSE qBack \cup {i}
      /\ qOldest' = IF rows = Nothing \/ ~(qClock - rows > qOldest) THEN qOldest ELSE qClock - rows
  BY DEF Show
<1>3. QTypes'
  <2>1. qRequest' \in [QRequests -> [step : Calling \cup {"idle"}, since : Int,
                                     intent : QIntents \cup {NoIntent}, rows : Int]]
    BY <1>1, IdleTyped DEF QTypes
  <2>2. qShown' \in [QIntents -> Int] /\ qOldest' \in Int
    BY <1>1, <1>2 DEF QTypes
  <2>3. qCache' \in [QIntents -> [at : Int, rows : Int]]
    BY <1>1 DEF QTypes
  <2> QED BY <1>1, <2>1, <2>2, <2>3 DEF QTypes
<1>4. \A q \in QRequests : /\ qRequest'[q].step = "word" => qRequest'[q] = qRequest[q] /\ q # r
                           /\ \A j \in QIntents : Wording(q, j)' => Wording(q, j) /\ qRequest'[q] = qRequest[q] /\ q # r
  BY <1>1, IdleTyped DEF QTypes, Wording
<1>5. \A j \in QIntents \ {i} : qShown'[j] = qShown[j] /\ qCache'[j] = qCache[j]
  BY <1>1, <1>2 DEF QTypes
<1>6. qShown'[i] = IF rows # Nothing /\ rows > qShown[i] THEN rows ELSE qShown[i]
  BY <1>1, <1>2 DEF QTypes
<1>7. qCache'[i].rows = rows /\ (qCache' = qCache \/ qCache'[i].at = at)
  BY <1>1 DEF QTypes
<1>8. qShown[i] \in Int /\ qShown[i] <= qClock
  BY <1>1 DEF QInv, QTypes, QDated
<1>9. QDated'
  <2>1. qOldest' < QTTL + QPatience
    BY <1>2 DEF QInv, QDated
  <2>2. /\ qShown'[i] <= qClock /\ qCache'[i].rows <= qClock
        /\ qCache'[i].rows # Nothing => qCache'[i].at <= qClock /\ qCache'[i].at - qCache'[i].rows <= QPatience
    <3>1. qShown'[i] <= qClock
      BY <1>6, <1>8
    <3>2. qCache' = qCache => (qCache[i].rows # Nothing => qCache[i].at <= qClock /\ qCache[i].at - qCache[i].rows <= QPatience)
      BY DEF QInv, QDated
    <3> QED BY <1>7, <3>1, <3>2
  <2>3. \A j \in QIntents : /\ qShown'[j] <= qClock /\ qCache'[j].rows <= qClock
                            /\ qCache'[j].rows # Nothing => qCache'[j].at <= qClock /\ qCache'[j].at - qCache'[j].rows <= QPatience
    BY <1>5, <2>2 DEF QInv, QDated
  <2> QED BY <1>1, <1>4, <2>1, <2>3 DEF QInv, QDated
<1>10. ASSUME NEW j \in QIntents \ qOverlap, j # i
       PROVE  /\ qCache'[j].rows = Nothing \/ qShown'[j] <= qCache'[j].rows
              /\ \A q \in QRequests : Wording(q, j)' =>
                     /\ qShown'[j] <= qRequest'[q].rows /\ qCache'[j].rows <= qRequest'[q].rows
                     /\ \A o \in QRequests \ {q} : ~Wording(o, j)'
  <2>1. qShown'[j] = qShown[j] /\ qCache'[j] = qCache[j]
    BY <1>5, <1>10
  <2> QED BY <1>4, <1>10, <2>1 DEF QInv, QForward
<1>11. ASSUME i \notin qOverlap
       PROVE  /\ qCache'[i].rows = Nothing \/ qShown'[i] <= qCache'[i].rows
              /\ \A q \in QRequests : Wording(q, i)' =>
                     /\ qShown'[i] <= qRequest'[q].rows /\ qCache'[i].rows <= qRequest'[q].rows
                     /\ \A o \in QRequests \ {q} : ~Wording(o, i)'
  <2>1. rows = Nothing \/ qShown'[i] <= rows
    BY <1>6, <1>8, <1>11
  <2>2. ASSUME NEW q \in QRequests, Wording(q, i)'
        PROVE  /\ qShown'[i] <= qRequest'[q].rows /\ qCache'[i].rows <= qRequest'[q].rows
               /\ \A o \in QRequests \ {q} : ~Wording(o, i)'
    <3>1. Wording(q, i) /\ qRequest'[q] = qRequest[q] /\ q # r
      BY <1>4, <2>2
    <3>2. /\ qShown[i] <= qRequest[q].rows /\ qCache[i].rows <= qRequest[q].rows
          /\ \A o \in QRequests \ {q} : ~Wording(o, i)
      BY <1>11, <3>1 DEF QInv, QForward
    <3>3. qCache' = qCache /\ qCache[i].rows = rows
      BY <3>1, <3>2
    <3>4. \A o \in QRequests \ {q} : ~Wording(o, i)'
      BY <1>4, <3>2
    <3> QED BY <1>6, <1>8, <3>1, <3>2, <3>3, <3>4
  <2> QED BY <1>7, <2>1, <2>2
<1>12. QForward'
  BY <1>10, <1>11 DEF QForward
<1>13. qBack' \subseteq qOverlap'
  <2>1. qBack \subseteq qOverlap /\ qOverlap' = qOverlap
    BY DEF QInv
  <2>2. CASE i \in qOverlap
    BY <1>2, <2>1, <2>2
  <2>3. CASE i \notin qOverlap
    <3>1. rows = Nothing \/ ~(rows < qShown[i])
      BY <1>8, <2>3
    <3> QED BY <1>2, <2>1, <3>1
  <2> QED BY <2>2, <2>3
<1> QED BY <1>3, <1>9, <1>12, <1>13 DEF QInv

LEMMA AnswersKeep ==
    ASSUME QInv, NEW r \in QRequests, CacheAnswer(r) \/ \E i \in QIntents : AnswerFromCache(r, i)
    PROVE  QInv'
<1>1. QTypes /\ qClock \in Nat
  BY DEF QInv, QTypes
<1>2. ASSUME NEW i \in QIntents, AnswerFromCache(r, i) PROVE QInv'
  <2>1. Show(r, i, qCache[i].rows) /\ UNCHANGED <<qClock, qCache, qOverlap>> /\ qClock - qCache[i].at < QTTL
    BY <1>2 DEF AnswerFromCache, Fresh
  <2>2. /\ qCache[i].rows \in Int /\ qCache[i].at \in Int /\ qCache[i].rows <= qClock
        /\ qCache[i].rows # Nothing => qCache[i].at <= qClock /\ qCache[i].at - qCache[i].rows <= QPatience
        /\ i \notin qOverlap => qCache[i].rows = Nothing \/ qShown[i] <= qCache[i].rows
    BY <1>1 DEF QInv, QTypes, QDated, QForward
  <2>3. qCache[i].rows # Nothing => qClock - qCache[i].rows < QTTL + QPatience
    BY <1>1, <2>1, <2>2, QConstants
  <2> DEFINE at == IF qCache[i].at <= qClock THEN qCache[i].at ELSE qClock
  <2>4. at \in Int /\ at <= qClock /\ (qCache[i].rows # Nothing => at - qCache[i].rows <= QPatience)
    BY <1>1, <2>2
  <2> HIDE DEF at
  <2> QED BY <2>1, <2>2, <2>3, <2>4, ShowKeeps
<1>3. CASE CacheAnswer(r)
  <2> DEFINE i == qRequest[r].intent
             rows == qRequest[r].rows
  <2>1. /\ qRequest[r].step = "word" /\ Show(r, i, rows) /\ UNCHANGED <<qClock, qOverlap>>
        /\ qCache' = [qCache EXCEPT ![i] = [at |-> qClock, rows |-> rows]]
    BY <1>3 DEF CacheAnswer
  <2>2. i \in QIntents /\ rows \in Int /\ rows <= qClock /\ qClock - rows <= QPatience /\ Wording(r, i)
    BY <1>1, <2>1 DEF QInv, QTypes, QDated, Wording
  <2>3. i \notin qOverlap => qShown[i] <= rows
    BY <2>2 DEF QInv, QForward
  <2>4. qClock - rows < QTTL + QPatience /\ qClock \in Int /\ qClock <= qClock /\ qRequest[r].rows = rows
    BY <1>1, <2>2, QConstants
  <2> HIDE DEF i, rows
  <2> QED BY <2>1, <2>2, <2>3, <2>4, ShowKeeps
<1> QED BY <1>2, <1>3

LEMMA RunKeeps == ASSUME QInv, NEW r \in QRequests, NEW i \in QIntents, RunSafeQuery(r, i) PROVE QInv'
<1>1. QTypes /\ qClock \in Nat /\ qClock' = qClock /\ qRequest[r].step = "detect" /\ UNCHANGED <<qShown, qBack, qOldest>>
  BY DEF QInv, QTypes, RunSafeQuery, ShowNothing
<1>2. CASE /\ qCache' = [qCache EXCEPT ![i] = [at |-> qClock, rows |-> Nothing]]
           /\ ShowNothing(r) /\ UNCHANGED qOverlap
  <2>1. qRequest' = [qRequest EXCEPT ![r] = QIdle]
    BY <1>2 DEF ShowNothing, Reply
  <2>2. \A q \in QRequests : /\ qRequest'[q].step = "word" => qRequest'[q] = qRequest[q]
                             /\ \A j \in QIntents : Wording(q, j)' => Wording(q, j) /\ qRequest'[q] = qRequest[q]
    BY <1>1, <2>1, IdleTyped DEF QTypes, Wording
  <2>3. \A j \in QIntents : qCache'[j] = qCache[j] \/ qCache'[j].rows = Nothing
    BY <1>1, <1>2 DEF QTypes
  <2>4. QTypes'
    <3>1. qCache' \in [QIntents -> [at : Int, rows : Int]]
      BY <1>1, <1>2, QConstants DEF QTypes
    <3>2. qRequest' \in [QRequests -> [step : Calling \cup {"idle"}, since : Int,
                                       intent : QIntents \cup {NoIntent}, rows : Int]]
      BY <1>1, <2>1, IdleTyped DEF QTypes
    <3> QED BY <1>1, <3>1, <3>2 DEF QTypes
  <2>5. \A j \in QIntents : Nothing <= qClock
    BY <1>1, QConstants
  <2>6. QDated'
    BY <1>1, <2>2, <2>3, <2>5 DEF QInv, QDated
  <2>7. ASSUME NEW j \in QIntents, NEW q \in QRequests, Wording(q, j) PROVE Nothing <= qRequest[q].rows
    <3>1. qRequest[q].rows \in Int /\ 0 <= qRequest[q].rows
      BY <1>1, <2>7 DEF QInv, QTypes, QDated, Wording
    <3> QED BY <3>1, QConstants
  <2>8. QForward'
    BY <1>1, <1>2, <2>2, <2>3, <2>7 DEF QInv, QForward
  <2> QED BY <1>1, <1>2, <2>4, <2>6, <2>8 DEF QInv
<1>3. CASE /\ AskAi(r, "word", i, qClock) /\ UNCHANGED <<qCache, qShown, qBack, qOldest>>
           /\ qOverlap' = IF \E q \in QRequests \ {r} : qRequest[q].step = "word" /\ qRequest[q].intent = i
                          THEN qOverlap \cup {i} ELSE qOverlap
  <2> DEFINE n == [step |-> "word", since |-> qClock, intent |-> i, rows |-> qClock]
  <2>1. qRequest' = [qRequest EXCEPT ![r] = n] /\ "word" \in Calling
    BY <1>3 DEF AskAi, Calling
  <2>2. n \in [step : Calling \cup {"idle"}, since : Int, intent : QIntents \cup {NoIntent}, rows : Int]
        /\ n.step = "word" /\ n.intent = i /\ n.rows = qClock /\ n.since = qClock
    BY <1>1, <2>1
  <2> HIDE DEF n
  <2>3. QTypes'
    BY <1>1, <1>3, <2>1, <2>2 DEF QTypes
  <2>4. \A q \in QRequests : IF q = r THEN qRequest'[q] = n ELSE qRequest'[q] = qRequest[q]
    BY <1>1, <2>1 DEF QTypes
  <2>5. QDated'
    <3>1. 0 <= qClock /\ qClock <= qClock /\ qClock - qClock <= QPatience
      BY <1>1, QConstants
    <3> QED BY <1>1, <1>3, <2>2, <2>4, <3>1 DEF QInv, QDated
  <2>6. qOverlap \subseteq qOverlap'
    BY <1>3
  <2>7. ASSUME NEW j \in QIntents \ qOverlap'
        PROVE  /\ qCache'[j].rows = Nothing \/ qShown'[j] <= qCache'[j].rows
               /\ \A q \in QRequests : Wording(q, j)' =>
                      /\ qShown'[j] <= qRequest'[q].rows /\ qCache'[j].rows <= qRequest'[q].rows
                      /\ \A o \in QRequests \ {q} : ~Wording(o, j)'
    <3>1. j \notin qOverlap /\ qCache' = qCache /\ qShown' = qShown
      BY <1>1, <1>3, <2>6, <2>7
    <3>2. ~Wording(r, j)
      BY <1>1 DEF Wording
    <3>3. CASE j = i
      <4>1. \A q \in QRequests \ {r} : ~Wording(q, i)
        BY <1>3, <2>7, <3>3 DEF Wording
      <4>2. \A q \in QRequests : Wording(q, i)' <=> q = r
        BY <2>2, <2>4, <4>1 DEF Wording
      <4>3. qRequest'[r].rows = qClock /\ qShown[i] <= qClock /\ qCache[i].rows <= qClock
        BY <2>2, <2>4 DEF QInv, QDated
      <4> QED BY <3>1, <3>3, <4>2, <4>3 DEF QInv, QForward
    <3>4. CASE j # i
      <4>1. \A q \in QRequests : /\ Wording(q, j)' <=> Wording(q, j)
                                 /\ Wording(q, j) => qRequest'[q] = qRequest[q]
        BY <2>2, <2>4, <3>2, <3>4 DEF Wording
      <4> QED BY <3>1, <4>1 DEF QInv, QForward
    <3> QED BY <3>3, <3>4
  <2>8. QForward'
    BY <2>7 DEF QForward
  <2>9. qBack' \subseteq qOverlap'
    BY <1>3, <2>6 DEF QInv
  <2> QED BY <2>3, <2>5, <2>8, <2>9 DEF QInv
<1> QED BY <1>1, <1>2, <1>3 DEF RunSafeQuery

LEMMA QInitInv == QInit => QInv
<1> SUFFICES ASSUME QInit PROVE QInv
  OBVIOUS
<1>1. QTypes
  <2>1. Never \in Int /\ Nothing \in Int
    BY DEF Never, Nothing
  <2> QED BY <2>1, IdleTyped DEF QInit, QTypes
<1>2. \A r \in QRequests : qRequest[r].step # "word"
  BY IdleTyped DEF QInit
<1>3. QDated
  BY <1>2, QConstants DEF QInit, QDated
<1>4. QForward
  BY <1>2 DEF QInit, QForward, Wording
<1> QED BY <1>1, <1>3, <1>4 DEF QInit, QInv

LEMMA QStepInv == QInv /\ [QNext]_copilot => QInv'
<1> SUFFICES ASSUME QInv, [QNext]_copilot PROVE QInv'
  OBVIOUS
<1>1. CASE UNCHANGED copilot
  BY <1>1 DEF copilot, QInv, QTypes, QDated, QForward, Wording
<1>2. ASSUME NEW r \in QRequests, WordingFails(r) \/ Unsupported(r) \/ FollowUp(r) \/ ConversationEnds(r) PROVE QInv'
  <2>1. qRequest' = [qRequest EXCEPT ![r] = QIdle] /\ UNCHANGED <<qClock, qCache, qShown, qBack, qOverlap, qOldest>>
    BY <1>2 DEF WordingFails, Unsupported, FollowUp, ConversationEnds, ShowNothing, Reply
  <2> QED BY <2>1, IdleTyped, UnshownKeeps
<1>3. ASSUME NEW r \in QRequests, ProcessChatQuery(r) \/ Converse(r) PROVE QInv'
  <2>1. PICK step \in {"detect", "converse"} : AskAi(r, step, NoIntent, Nothing)
    BY <1>3 DEF ProcessChatQuery, Converse
  <2> DEFINE n == [step |-> step, since |-> qClock, intent |-> NoIntent, rows |-> Nothing]
  <2>2. qRequest' = [qRequest EXCEPT ![r] = n] /\ UNCHANGED <<qClock, qCache, qShown, qBack, qOverlap, qOldest>>
    BY <1>3, <2>1 DEF ProcessChatQuery, Converse, AskAi
  <2>3. n \in [step : Calling \cup {"idle"}, since : Int, intent : QIntents \cup {NoIntent}, rows : Int]
        /\ n.step # "word"
    BY QConstants DEF QInv, QTypes, Calling
  <2> HIDE DEF n
  <2> QED BY <2>2, <2>3, UnshownKeeps
<1> QED BY <1>1, <1>2, <1>3, TickKeeps, AnswersKeep, RunKeeps DEF QNext

(* No answer shows rows older than the cache's lifetime and one call of the   *)
(* model, and none goes back in time unless two were worded at once, for any  *)
(* number of requests and any lifetimes.                                      *)
THEOREM AnswersStayFresh == QSpec => []AnswersAreFresh
<1>1. QSpec => []QInv
  BY QInitInv, QStepInv, PTL DEF QSpec
<1>2. QInv => AnswersAreFresh
  BY DEF QInv, QDated, AnswersAreFresh
<1> QED BY <1>1, <1>2, PTL

(* Rows, real or none, of a time that has been.                               *)
Seen(rows) == rows = Nothing \/ (rows \in Nat /\ rows <= qClock)

QBounded ==
    /\ qClock <= QMaxClock /\ qOldest \in Nat /\ qOldest <= qClock
    /\ qMemory = Never \/ (qMemory \in Nat /\ qMemory <= qClock)
    /\ \A i \in QIntents : /\ Seen(qCache[i].rows) /\ Seen(qShown[i])
                           /\ qCache[i].at = Never \/ (qCache[i].at \in Nat /\ qCache[i].at <= qClock)
    /\ \A r \in QRequests : /\ Seen(qRequest[r].rows)
                            /\ qRequest[r].since \in Nat /\ qRequest[r].since <= qClock
    /\ qBack \subseteq QIntents /\ qOverlap \subseteq QIntents

LEMMA IdleIsSeen == QIdle.rows = Nothing /\ QIdle.since = 0 /\ Seen(QIdle.rows)
BY DEF QIdle, Seen

(* A request at its next step.                                                *)
LEMMA NextIsBounded ==
    ASSUME QInv, QBounded, NEW r \in QRequests, NEW n, qRequest' = [qRequest EXCEPT ![r] = n],
           Seen(n.rows), n.since \in Nat, n.since <= qClock, UNCHANGED qClock
    PROVE  \A q \in QRequests : /\ Seen(qRequest[q].rows)'
                                /\ qRequest'[q].since \in Nat /\ qRequest'[q].since <= qClock'
<1> SUFFICES ASSUME NEW q \in QRequests
             PROVE  /\ Seen(qRequest[q].rows)'
                    /\ qRequest'[q].since \in Nat /\ qRequest'[q].since <= qClock'
  OBVIOUS
<1>0. qRequest \in [QRequests -> [step : Calling \cup {"idle"}, since : Int,
                                   intent : QIntents \cup {NoIntent}, rows : Int]]
  BY DEF QInv, QTypes
<1>1. qRequest'[q] = n \/ qRequest'[q] = qRequest[q]
  BY <1>0
<1>2. Seen(qRequest[q].rows) /\ qRequest[q].since \in Nat /\ qRequest[q].since <= qClock
  BY DEF QBounded
<1> QED BY <1>1, <1>2 DEF Seen

LEMMA ShowIsBounded ==
    ASSUME QInv, QBounded, NEW r \in QRequests, NEW i \in QIntents, NEW rows, Seen(rows), rows \in Int,
           Show(r, i, rows), UNCHANGED qClock
    PROVE  /\ qOldest' \in Nat /\ qOldest' <= qClock'
           /\ qBack' \subseteq QIntents
           /\ \A j \in QIntents : Seen(qShown[j])'
<1>0. /\ qClock \in Nat /\ qShown \in [QIntents -> Int] /\ qOldest \in Nat /\ qOldest <= qClock
      /\ qBack \subseteq QIntents /\ \A j \in QIntents : Seen(qShown[j])
  BY DEF QInv, QTypes, QBounded
<1>1. CASE rows = Nothing
  <2>1. UNCHANGED <<qShown, qBack, qOldest>>
    BY <1>1 DEF Show
  <2> QED BY <1>0, <2>1 DEF Seen
<1>2. CASE rows # Nothing
  <2>1. /\ qShown' = [qShown EXCEPT ![i] = IF rows > @ THEN rows ELSE @]
        /\ qBack' = IF rows < qShown[i] THEN qBack \cup {i} ELSE qBack
        /\ qOldest' = IF qClock - rows > qOldest THEN qClock - rows ELSE qOldest
    BY <1>2 DEF Show
  <2>2. rows \in Nat /\ rows <= qClock
    BY <1>2 DEF Seen
  <2>3. qOldest' \in Nat /\ qOldest' <= qClock'
    BY <1>0, <2>1, <2>2
  <2>4. qBack' \subseteq QIntents
    BY <1>0, <2>1
  <2>5. \A j \in QIntents : qShown'[j] = qShown[j] \/ qShown'[j] = rows
    BY <1>0, <2>1
  <2>6. \A j \in QIntents : Seen(qShown[j])'
    BY <1>0, <2>5 DEF Seen
  <2> QED BY <2>3, <2>4, <2>6
<1> QED BY <1>1, <1>2

LEMMA QBoundedStep == QInv /\ QBounded /\ [QNext]_copilot => QBounded'
<1> SUFFICES ASSUME QInv, QBounded, [QNext]_copilot PROVE QBounded'
  OBVIOUS
<1>0. /\ QMaxClock \in Nat /\ qClock \in Nat /\ qShown \in [QIntents -> Int]
      /\ qCache \in [QIntents -> [at : Int, rows : Int]]
  BY QAssumption DEF QInv, QTypes
<1> DEFINE Requests == \A q \in QRequests : /\ Seen(qRequest[q].rows)
                                            /\ qRequest[q].since \in Nat /\ qRequest[q].since <= qClock
           Rest == UNCHANGED <<qClock, qCache, qMemory, qOverlap>>
           Quiet0 == UNCHANGED <<qShown, qBack, qOldest>>
<1>1. CASE UNCHANGED copilot
  BY <1>1 DEF copilot, QBounded, Seen
<1>2. CASE QTick
  <2>1. qClock' = qClock + 1 /\ qClock' <= QMaxClock
        /\ UNCHANGED <<qCache, qMemory, qRequest, qShown, qBack, qOverlap, qOldest>>
    BY <1>0, <1>2 DEF QTick
  <2>2. \A n \in Nat : n <= qClock => n <= qClock'
    BY <1>0, <2>1
  <2>3. ASSUME NEW rows, Seen(rows) PROVE rows = Nothing \/ (rows \in Nat /\ rows <= qClock')
    BY <2>2, <2>3 DEF Seen
  <2>4. ASSUME NEW i \in QIntents
        PROVE  /\ Seen(qCache[i].rows)' /\ Seen(qShown[i])'
               /\ qCache'[i].at = Never \/ (qCache'[i].at \in Nat /\ qCache'[i].at <= qClock')
    <3>1. /\ Seen(qCache[i].rows) /\ Seen(qShown[i])
          /\ qCache[i].at = Never \/ (qCache[i].at \in Nat /\ qCache[i].at <= qClock)
      BY DEF QBounded
    <3> QED BY <2>1, <2>2, <2>3, <3>1 DEF Seen
  <2>5. ASSUME NEW r \in QRequests
        PROVE  /\ Seen(qRequest[r].rows)' /\ qRequest'[r].since \in Nat /\ qRequest'[r].since <= qClock'
    <3>1. Seen(qRequest[r].rows) /\ qRequest[r].since \in Nat /\ qRequest[r].since <= qClock
      BY DEF QBounded
    <3> QED BY <2>1, <2>2, <2>3, <3>1 DEF Seen
  <2>6. /\ qOldest' \in Nat /\ qOldest' <= qClock'
        /\ qMemory' = Never \/ (qMemory' \in Nat /\ qMemory' <= qClock')
    BY <2>1, <2>2 DEF QBounded
  <2>7. qBack' \subseteq QIntents /\ qOverlap' \subseteq QIntents
    BY <2>1 DEF QBounded
  <2> QED BY <2>1, <2>4, <2>5, <2>6, <2>7 DEF QBounded
(* A request that shows nothing.                                              *)
<1>3. ASSUME Requests', UNCHANGED <<qClock, qCache, qShown, qBack, qOverlap, qOldest>>,
             qMemory' \in {qMemory, qClock}
      PROVE  QBounded'
  <2>1. qMemory' = Never \/ (qMemory' \in Nat /\ qMemory' <= qClock')
    BY <1>0, <1>3 DEF QBounded
  <2>2. \A i \in QIntents : /\ Seen(qCache[i].rows)' /\ Seen(qShown[i])'
                            /\ qCache'[i].at = Never \/ (qCache'[i].at \in Nat /\ qCache'[i].at <= qClock')
    BY <1>3 DEF QBounded, Seen
  <2> QED BY <1>3, <2>1, <2>2 DEF QBounded
(* A request that shows rows, or caches what it found.                        *)
<1>4. ASSUME Requests', UNCHANGED <<qClock, qMemory, qOverlap>>,
             qOldest' \in Nat /\ qOldest' <= qClock' /\ qBack' \subseteq QIntents,
             \A j \in QIntents : Seen(qShown[j])',
             NEW i \in QIntents, NEW rows, Seen(rows),
             qCache' \in {qCache, [qCache EXCEPT ![i] = [at |-> qClock, rows |-> rows]]}
      PROVE  QBounded'
  <2>1. ASSUME NEW j \in QIntents
        PROVE  /\ Seen(qCache[j].rows)'
               /\ qCache'[j].at = Never \/ (qCache'[j].at \in Nat /\ qCache'[j].at <= qClock')
    <3>1. qCache'[j] = qCache[j] \/ qCache'[j] = [at |-> qClock, rows |-> rows]
      BY <1>0, <1>4
    <3>2. Seen(qCache[j].rows) /\ (qCache[j].at = Never \/ (qCache[j].at \in Nat /\ qCache[j].at <= qClock))
      BY DEF QBounded
    <3>3. CASE qCache'[j] = qCache[j]
      BY <1>4, <3>2, <3>3 DEF Seen
    <3>4. CASE qCache'[j] = [at |-> qClock, rows |-> rows]
      BY <1>0, <1>4, <3>4 DEF Seen
    <3> QED BY <3>1, <3>3, <3>4
  <2> QED BY <1>4, <2>1 DEF QBounded
<1>5. ASSUME NEW r \in QRequests PROVE Reply(r) /\ UNCHANGED qClock => Requests'
  <2> SUFFICES ASSUME Reply(r), UNCHANGED qClock PROVE Requests'
    OBVIOUS
  <2>1. qRequest' = [qRequest EXCEPT ![r] = QIdle]
    BY DEF Reply
  <2>2. QIdle.since \in Nat /\ QIdle.since <= qClock /\ Seen(QIdle.rows)
    BY <1>0, IdleIsSeen
  <2> QED BY <2>1, <2>2, NextIsBounded
<1>6. ASSUME NEW r \in QRequests, NEW step, NEW intent, NEW rows, Seen(rows)
      PROVE  AskAi(r, step, intent, rows) /\ UNCHANGED qClock => Requests'
  <2> SUFFICES ASSUME AskAi(r, step, intent, rows), UNCHANGED qClock PROVE Requests'
    OBVIOUS
  <2> DEFINE n == [step |-> step, since |-> qClock, intent |-> intent, rows |-> rows]
  <2>1. qRequest' = [qRequest EXCEPT ![r] = n]
    BY DEF AskAi
  <2>2. Seen(n.rows) /\ n.since \in Nat /\ n.since <= qClock
    BY <1>0, <1>6
  <2> HIDE DEF n
  <2> QED BY <2>1, <2>2, NextIsBounded
<1> HIDE DEF Requests
<1>7. Seen(Nothing) /\ Seen(qClock)
  BY <1>0 DEF Seen
<1>8. ASSUME NEW r \in QRequests, ProcessChatQuery(r) \/ Converse(r) PROVE QBounded'
  <2>1. \E step : AskAi(r, step, NoIntent, Nothing)
    BY <1>8 DEF ProcessChatQuery, Converse
  <2>2. UNCHANGED <<qClock, qCache, qMemory, qShown, qBack, qOverlap, qOldest>>
    BY <1>8 DEF ProcessChatQuery, Converse
  <2>3. Requests'
    BY <1>6, <1>7, <2>1, <2>2
  <2> QED BY <1>3, <2>2, <2>3
<1>9. ASSUME NEW r \in QRequests, WordingFails(r) \/ Unsupported(r) \/ FollowUp(r) \/ ConversationEnds(r)
      PROVE  QBounded'
  <2>1. Reply(r) /\ UNCHANGED <<qClock, qCache, qShown, qBack, qOverlap, qOldest>>
        /\ qMemory' \in {qMemory, qClock}
    BY <1>9 DEF WordingFails, Unsupported, FollowUp, ConversationEnds, ShowNothing
  <2>2. Requests'
    BY <1>5, <2>1
  <2> QED BY <1>3, <2>1, <2>2
<1>10. ASSUME NEW r \in QRequests, CacheAnswer(r) PROVE QBounded'
  <2> DEFINE i == qRequest[r].intent
             rows == qRequest[r].rows
  <2>1. i \in QIntents /\ rows \in Int /\ Seen(rows)
    BY <1>10 DEF CacheAnswer, QInv, QDated, QTypes, QBounded
  <2>2. Show(r, i, rows) /\ qCache' = [qCache EXCEPT ![i] = [at |-> qClock, rows |-> rows]]
        /\ UNCHANGED <<qClock, qMemory, qOverlap>>
    BY <1>10 DEF CacheAnswer
  <2> HIDE DEF i, rows
  <2>3. /\ qOldest' \in Nat /\ qOldest' <= qClock' /\ qBack' \subseteq QIntents
        /\ \A j \in QIntents : Seen(qShown[j])'
    BY <2>1, <2>2, ShowIsBounded
  <2>4. Requests'
    BY <1>5, <2>2 DEF Show
  <2> QED BY <1>4, <2>1, <2>2, <2>3, <2>4
<1>11. ASSUME NEW r \in QRequests, NEW i \in QIntents, AnswerFromCache(r, i) PROVE QBounded'
  <2> DEFINE rows == qCache[i].rows
  <2>1. rows \in Int /\ Seen(rows)
    BY <1>0 DEF QBounded
  <2>2. Show(r, i, rows) /\ UNCHANGED <<qClock, qCache, qMemory, qOverlap>>
    BY <1>11 DEF AnswerFromCache
  <2> HIDE DEF rows
  <2>3. /\ qOldest' \in Nat /\ qOldest' <= qClock' /\ qBack' \subseteq QIntents
        /\ \A j \in QIntents : Seen(qShown[j])'
    BY <2>1, <2>2, ShowIsBounded
  <2>4. Requests'
    BY <1>5, <2>2 DEF Show
  <2> QED BY <1>4, <2>1, <2>2, <2>3, <2>4
<1>12. ASSUME NEW r \in QRequests, NEW i \in QIntents, RunSafeQuery(r, i) PROVE QBounded'
  <2>0. UNCHANGED <<qClock, qMemory>>
    BY <1>12 DEF RunSafeQuery
  <2>1. CASE /\ qCache' = [qCache EXCEPT ![i] = [at |-> qClock, rows |-> Nothing]]
             /\ ShowNothing(r) /\ UNCHANGED qOverlap
    <3>1. Requests' /\ UNCHANGED <<qShown, qBack, qOldest>>
      BY <1>5, <2>0, <2>1 DEF ShowNothing
    <3>2. /\ qOldest' \in Nat /\ qOldest' <= qClock' /\ qBack' \subseteq QIntents
          /\ \A j \in QIntents : Seen(qShown[j])'
      BY <2>0, <3>1 DEF QBounded, Seen
    <3> QED BY <1>4, <1>7, <2>0, <2>1, <3>1, <3>2
  <2>2. CASE /\ AskAi(r, "word", i, qClock)
             /\ qOverlap' = (IF \E q \in QRequests \ {r} : qRequest[q].step = "word" /\ qRequest[q].intent = i
                             THEN qOverlap \cup {i} ELSE qOverlap)
             /\ UNCHANGED <<qCache, qShown, qBack, qOldest>>
    <3>1. Requests'
      BY <1>6, <1>7, <2>0, <2>2
    <3>2. qOverlap' \subseteq QIntents
      BY <2>2 DEF QBounded
    <3>3. \A j \in QIntents : /\ Seen(qCache[j].rows)' /\ Seen(qShown[j])'
                              /\ qCache'[j].at = Never \/ (qCache'[j].at \in Nat /\ qCache'[j].at <= qClock')
      BY <2>0, <2>2 DEF QBounded, Seen
    <3>4. /\ qClock' <= QMaxClock /\ qOldest' \in Nat /\ qOldest' <= qClock'
          /\ qMemory' = Never \/ (qMemory' \in Nat /\ qMemory' <= qClock')
          /\ qBack' \subseteq QIntents
      BY <2>0, <2>2 DEF QBounded
    <3> QED BY <3>1, <3>2, <3>3, <3>4 DEF QBounded, Requests
  <2> QED BY <1>12, <2>1, <2>2 DEF RunSafeQuery
<1> QED BY <1>1, <1>2, <1>8, <1>9, <1>10, <1>11, <1>12 DEF QNext

(* Whatever the copilot remembers, caches and shows is of a time within the   *)
(* clock's bound, and rows are shown of intents that have a query.            *)
THEOREM CopilotTypeCorrect == QSpec => []QTypeOK
<1>1. QInit => QBounded
  <2> SUFFICES ASSUME QInit PROVE QBounded
    OBVIOUS
  <2>1. /\ qClock = 0 /\ qMemory = Never /\ qOldest = 0 /\ qBack = {} /\ qOverlap = {}
        /\ \A i \in QIntents : qCache[i].at = Never /\ qCache[i].rows = Nothing /\ qShown[i] = Nothing
        /\ \A r \in QRequests : qRequest[r] = QIdle
    BY DEF QInit
  <2> QED BY <2>1, IdleIsSeen, QAssumption DEF QBounded, Seen
<1>2. QInv /\ QBounded => QTypeOK
  <2> SUFFICES ASSUME QInv, QBounded PROVE QTypeOK
    OBVIOUS
  <2>0. /\ QMaxClock \in Nat /\ qClock \in Nat /\ qClock <= QMaxClock /\ qShown \in [QIntents -> Int]
        /\ qCache \in [QIntents -> [at : Int, rows : Int]]
        /\ qRequest \in [QRequests -> [step : Calling \cup {"idle"}, since : Int,
                                       intent : QIntents \cup {NoIntent}, rows : Int]]
    BY QAssumption DEF QInv, QTypes, QBounded
  <2>1. ASSUME NEW rows, Seen(rows) PROVE rows \in Nothing..QMaxClock
    BY <2>0, <2>1 DEF Seen, Nothing
  <2>2. ASSUME NEW t, t = Never \/ (t \in Nat /\ t <= qClock) PROVE t \in Never..QMaxClock
    BY <2>0, <2>2 DEF Never
  <2>3. ASSUME NEW t \in Nat, t <= qClock PROVE t \in 0..QMaxClock
    BY <2>0, <2>3
  <2>4. ASSUME NEW i \in QIntents PROVE qCache[i] \in [at : Never..QMaxClock, rows : Nothing..QMaxClock]
    <3>1. qCache[i].rows \in Nothing..QMaxClock /\ qCache[i].at \in Never..QMaxClock
      BY <2>1, <2>2 DEF QBounded
    <3> QED BY <2>0, <3>1
  <2>5. ASSUME NEW r \in QRequests
        PROVE  qRequest[r] \in [step : Calling \cup {"idle"}, since : 0..QMaxClock,
                                intent : QIntents \cup {NoIntent}, rows : Nothing..QMaxClock]
    <3>1. qRequest[r].rows \in Nothing..QMaxClock /\ qRequest[r].since \in 0..QMaxClock
      BY <2>1, <2>3 DEF QBounded
    <3> QED BY <2>0, <3>1
  <2>6. qShown \in [QIntents -> Nothing..QMaxClock]
    BY <2>0, <2>1 DEF QBounded
  <2>7. qMemory \in Never..QMaxClock /\ qOldest \in 0..QMaxClock /\ qClock \in 0..QMaxClock
    BY <2>0, <2>2, <2>3 DEF QBounded
  <2>8. qBack \cup qOverlap \subseteq QIntents
    BY DEF QBounded
  <2> QED BY <2>0, <2>4, <2>5, <2>6, <2>7, <2>8 DEF QTypeOK
<1> QED BY <1>1, <1>2, QInitInv, QStepInv, QBoundedStep, PTL DEF QSpec

-----------------------------------------------------------------------------
(* The knowledge base of the copilot.                                         *)

KStore == [metadata : SUBSET KDocuments, index : SUBSET KDocuments]
KFiles == [metadata : (SUBSET KDocuments) \cup {Broken},
           index    : (SUBSET KDocuments) \cup {Broken}]
KLive ==
    [at : KWorkers, op : {"upload", "delete", "reindex"},
     step : {"list", "dump list", "remove", "filter", "index", "dump index", "next"},
     doc : KDocuments \cup {KNone}, todo : SUBSET KDocuments, kept : SUBSET KDocuments,
     beside : {"nobody", "elsewhere", "here"}]

KTypes ==
    /\ kBlank \in SUBSET KDocuments /\ kDisk \in SUBSET KDocuments
    /\ kFile \in KFiles /\ kMemory \in [KWorkers -> KStore]
    /\ kRequest \in [KRequests -> KLive \cup {KIdle}]

(* Only a re-indexing has documents left, and no document before the first    *)
(* and after the last.                                                        *)
KOrder(me) ==
    /\ me.op # "reindex" => me.todo = {} /\ me.step # "next"
    /\ me.step = "remove" => me.op = "delete"
    /\ me.doc = KNone => me.op = "reindex" /\ me.step \in {"next", "dump list"}
    /\ me.doc = KNone /\ me.step = "dump list" => me.todo = {}

(* What a request leaves in its worker's memory between two of its steps: but *)
(* for the document in hand and those to come, what is searched is listed.    *)
Settled(me) == me.step \in {"next", "dump index"} \/ me.doc = KNone
Fits(blank, me, m) ==
    LET searched == (m.metadata \ me.todo) \ blank IN
    /\ Settled(me) => m.index = searched
    /\ ~Settled(me) => /\ me.doc \notin me.todo
                       /\ me.step # "list" => (me.doc \in m.metadata <=> me.op # "delete")
                       /\ me.step # "index" => m.index \ {me.doc} = searched \ {me.doc}
                       /\ me.step = "index" => me.kept = searched \ {me.doc}

(* And a re-indexing that is served alone in the files: what it has listed is *)
(* on the disk, the file it is about to dump is empty, and the index is saved *)
(* once there is one.                                                         *)
Heals(me, m, file, disk) ==
    /\ m.metadata \ me.todo \subseteq disk /\ (~Settled(me) => me.doc \in disk)
    /\ me.step = "dump list" => file.metadata = Broken
    /\ me.step = "dump index" => file.index = Broken
    /\ me.step = "next" \/ me.doc = KNone => (m.metadata \ me.todo # {} => file.index = m.index)

(* A request whose worker nothing has torn, or that mends it, is alone in it. *)
Mends(me) == me.op = "reindex" /\ me.beside # "here"
KRuns(r) ==
    LET me == kRequest[r] IN
    /\ KOrder(me)
    /\ me.at \notin kTorn \/ Mends(me) =>
          /\ \A q \in KRequests : q # r => kRequest[q].at # me.at
          /\ Fits(kBlank, me, kMemory[me.at])
    /\ me.beside = "nobody" =>
          /\ \A q \in KRequests : q # r => kRequest[q].at = KNone
          /\ me.op = "reindex" => Heals(me, kMemory[me.at], kFile, kDisk)

Rests(w) == (\A r \in KRequests : kRequest[r].at # w) => kMemory[w].index = kMemory[w].metadata \ kBlank

Repaired(m, file, disk) ==
    /\ file.metadata = m.metadata /\ file.metadata \subseteq disk
    /\ file.metadata # {} => file.index = file.metadata \ kBlank

KHeals ==
    kHealed # KNone => /\ kHealed \in KWorkers /\ \A r \in KRequests : kRequest[r].at = KNone
                       /\ Repaired(kMemory[kHealed], kFile, kDisk)

KInv ==
    /\ KTypes /\ KHeals
    /\ \A r \in KRequests : kRequest[r].at # KNone => KRuns(r)
    /\ \A w \in KWorkers : w \notin kTorn => Rests(w)

(* A request that nobody is served beside has its list saved before it goes   *)
(* on to the chunks, and opens no file it does not write; so the files agree  *)
(* when nobody is served, unless the last request split them.                 *)
KSaves(r) ==
    LET me == kRequest[r] IN
    me.at # KNone /\ me.op # "reindex" /\ me.beside = "nobody" =>
        /\ me.step = "dump list" => kFile.metadata = Broken
        /\ me.step \in {"remove", "filter", "index", "dump index"} => kFile.metadata = kMemory[me.at].metadata
        /\ me.step = "dump index" => kFile.index = Broken

KWhole ==
    /\ kSplit \in BOOLEAN
    /\ ~kSplit /\ (\A r \in KRequests : kRequest[r].at = KNone) => Loaded.index = Loaded.metadata \ kBlank
    /\ \A r \in KRequests : KSaves(r)

LEMMA NoneIsNoWorker == KNone \notin KWorkers /\ KNone \notin KDocuments
BY KAssumption

LEMMA LiveIs ==
    ASSUME KTypes, NEW r \in KRequests
    PROVE  /\ kRequest[r] = KIdle <=> kRequest[r].at = KNone
           /\ kRequest[r] # KIdle => kRequest[r] \in KLive /\ kRequest[r].at \in KWorkers
           /\ kRequest[r].step # "none" => kRequest[r] # KIdle
<1>1. kRequest[r] \in KLive \cup {KIdle} BY DEF KTypes
<1>2. KIdle.at = KNone /\ KIdle.step = "none" BY DEF KIdle
<1>3. ASSUME kRequest[r] \in KLive PROVE kRequest[r].at \in KWorkers /\ kRequest[r].at # KNone
  BY <1>3, NoneIsNoWorker DEF KLive
<1> QED BY <1>1, <1>2, <1>3

LEMMA QuietIs ==
    ASSUME KTypes, NEW w \in KWorkers
    PROVE  Quiet(w) <=> \A r \in KRequests : kRequest[r].at # w
BY LiveIs, NoneIsNoWorker DEF Quiet, Active

LEMMA KInitInv == KInit => KInv
<1> SUFFICES ASSUME KInit PROVE KInv OBVIOUS
<1>1. KTypes
  BY DEF KInit, KTypes, KFiles, KStore
<1>2. \A r \in KRequests : kRequest[r].at = KNone BY DEF KInit, KIdle
<1>3. \A w \in KWorkers : Rests(w) BY DEF KInit, Rests
<1>4. KHeals BY DEF KInit, KHeals
<1> QED BY <1>1, <1>2, <1>3, <1>4 DEF KInv

(* A request that goes on leaves alone what others rest on.                   *)
LEMMA MovesOn ==
    ASSUME KInv, NEW r \in KRequests, NEW me \in KLive, kRequest[r] = me, NEW new \in KLive,
           new.at = me.at, new.op = me.op, new.beside = me.beside,
           kRequest' = [kRequest EXCEPT ![r] = new],
           kMemory' \in [KWorkers -> KStore], \A v \in KWorkers : v # me.at => kMemory'[v] = kMemory[v],
           kFile' \in KFiles, kDisk' \in SUBSET KDocuments, UNCHANGED <<kBlank, kTorn, kHealed>>,
           KOrder(new), Fits(kBlank, me, kMemory[me.at]) => Fits(kBlank, new, kMemory'[me.at]),
           me.op = "reindex" /\ Fits(kBlank, me, kMemory[me.at]) /\ Heals(me, kMemory[me.at], kFile, kDisk)
              => Heals(new, kMemory'[me.at], kFile', kDisk')
    PROVE  KInv'
<1>1. me.at \in KWorkers /\ me.at # KNone BY NoneIsNoWorker DEF KLive
<1>2. KTypes' BY DEF KInv, KTypes
<1>3. KRuns(r) BY <1>1 DEF KInv
<1>4. /\ kRequest'[r] = new /\ \A q \in KRequests : q # r => kRequest'[q] = kRequest[q]
      /\ \A q \in KRequests : kRequest'[q].at = kRequest[q].at
  BY DEF KInv, KTypes
<1>5. KRuns(r)'
  <2>1. me.at \notin kTorn \/ Mends(me) =>
          /\ \A q \in KRequests : q # r => kRequest'[q].at # me.at
          /\ Fits(kBlank, new, kMemory'[me.at])
    BY <1>3, <1>4 DEF KRuns
  <2>2. Mends(new) <=> Mends(me) BY DEF Mends
  <2>3. me.beside = "nobody" =>
          /\ \A q \in KRequests : q # r => kRequest'[q].at = KNone
          /\ me.op = "reindex" => Heals(new, kMemory'[me.at], kFile', kDisk')
    BY <1>3, <1>4 DEF KRuns, Mends
  <2> QED BY <1>4, <2>1, <2>2, <2>3 DEF KRuns
<1>6. ASSUME NEW q \in KRequests, q # r, kRequest'[q].at # KNone PROVE KRuns(q)'
  <2>1. KRuns(q) BY <1>4, <1>6 DEF KInv
  <2>2. kRequest[q].beside # "nobody" BY <1>1, <1>6, <2>1 DEF KRuns
  <2>3. kRequest[q] \in KLive BY <1>4, <1>6, LiveIs DEF KInv
  <2>4. kRequest[q].at \in KWorkers BY <2>3 DEF KLive
  <2>5. kRequest[q].at \notin kTorn \/ Mends(kRequest[q]) => kMemory'[kRequest[q].at] = kMemory[kRequest[q].at]
    BY <1>6, <2>1, <2>4 DEF KRuns
  <2> QED BY <1>4, <1>6, <2>1, <2>2, <2>5 DEF KRuns
<1>7. ASSUME NEW w \in KWorkers, w \notin kTorn' PROVE Rests(w)'
  <2>1. CASE w = me.at BY <1>4, <2>1 DEF Rests
  <2>2. CASE w # me.at BY <1>4, <1>7, <2>2 DEF Rests, KInv
  <2> QED BY <2>1, <2>2
<1>8. kHealed = KNone BY <1>1 DEF KInv, KHeals
<1>9. KHeals' BY <1>8 DEF KHeals
<1> QED BY <1>2, <1>5, <1>6, <1>7, <1>9 DEF KInv

(* A request that ends leaves its worker, or the files, as it should.         *)
LEMMA Ends ==
    ASSUME KInv, NEW r \in KRequests, NEW me \in KLive, kRequest[r] = me,
           kRequest' = [kRequest EXCEPT ![r] = KIdle], UNCHANGED <<kBlank, kMemory, kDisk>>, kFile' \in KFiles,
           kTorn' = IF Mends(me) THEN kTorn \ {me.at} ELSE kTorn,
           kHealed' = IF me.op = "reindex" /\ me.beside = "nobody" THEN me.at ELSE kHealed,
           Fits(kBlank, me, kMemory[me.at])
              => kMemory[me.at].index = kMemory[me.at].metadata \ kBlank,
           me.op = "reindex" /\ Fits(kBlank, me, kMemory[me.at]) /\ Heals(me, kMemory[me.at], kFile, kDisk)
              => Repaired(kMemory[me.at], kFile', kDisk)
    PROVE  KInv'
<1>1. me.at \in KWorkers /\ me.at # KNone BY NoneIsNoWorker DEF KLive
<1>2. KTypes' BY DEF KInv, KTypes
<1>3. KRuns(r) BY <1>1 DEF KInv
<1>4. kRequest'[r].at = KNone /\ \A q \in KRequests : q # r => kRequest'[q] = kRequest[q]
  BY DEF KInv, KTypes, KIdle
<1>5. ASSUME NEW q \in KRequests, kRequest'[q].at # KNone PROVE KRuns(q)'
  <2>0. q # r BY <1>4, <1>5
  <2>1. KRuns(q) BY <1>4, <1>5, <2>0 DEF KInv
  <2>2. kRequest[q].beside # "nobody" BY <1>1, <2>0, <2>1 DEF KRuns
  <2>3. kRequest[q].at \notin kTorn' => kRequest[q].at \notin kTorn
    BY <1>3, <2>0 DEF KRuns
  <2>4. \A p \in KRequests : kRequest'[p].at = kRequest[p].at \/ kRequest'[p].at = KNone BY <1>4
  <2> QED BY <1>4, <1>5, <2>0, <2>1, <2>2, <2>3, <2>4 DEF KRuns
<1>6. ASSUME NEW w \in KWorkers, w \notin kTorn' PROVE Rests(w)'
  <2>1. CASE w = me.at
    <3>1. Fits(kBlank, me, kMemory[me.at]) BY <1>3, <1>6, <2>1 DEF KRuns
    <3> QED BY <2>1, <3>1 DEF Rests
  <2>2. CASE w # me.at
    <3>1. w \notin kTorn BY <1>6, <2>2
    <3> QED BY <1>4, <2>2, <3>1 DEF Rests, KInv
  <2> QED BY <2>1, <2>2
<1>7. KHeals'
  <2>1. CASE me.op = "reindex" /\ me.beside = "nobody"
    <3>1. Fits(kBlank, me, kMemory[me.at]) /\ Heals(me, kMemory[me.at], kFile, kDisk)
      BY <1>3, <2>1 DEF KRuns, Mends
    <3>2. Repaired(kMemory[me.at], kFile', kDisk) BY <2>1, <3>1
    <3>3. \A q \in KRequests : kRequest'[q].at = KNone BY <1>3, <1>4, <2>1 DEF KRuns
    <3> QED BY <1>1, <2>1, <3>2, <3>3 DEF KHeals, Repaired
  <2>2. CASE ~(me.op = "reindex" /\ me.beside = "nobody")
    <3>1. kHealed = KNone BY <1>1 DEF KInv, KHeals
    <3> QED BY <2>2, <3>1 DEF KHeals
  <2> QED BY <2>1, <2>2
<1> QED BY <1>2, <1>5, <1>6, <1>7 DEF KInv

-----------------------------------------------------------------------------
LEMMA KBeginKeeps ==
    ASSUME KInv, NEW r \in KRequests, NEW w \in KWorkers, NEW op \in {"upload", "delete", "reindex"},
           NEW step \in {"list", "next"}, NEW d \in KDocuments \cup {KNone}, KBegin(r, w, op, step, d),
           op = "reindex" => step = "next", op # "reindex" => step = "list" /\ d \in KDocuments,
           kMemory' \in [KWorkers -> KStore], \A v \in KWorkers : v # w => kMemory'[v] = kMemory[v],
           kDisk \subseteq kDisk', kDisk' \in SUBSET KDocuments, UNCHANGED <<kBlank, kFile>>,
           op # "reindex" => kMemory'[w] = kMemory[w],
           op = "reindex" => kMemory'[w] = [metadata |-> Load(kFile.metadata), index |-> {}]
    PROVE  KInv'
<1> DEFINE new == kRequest'[r]
<1>0. KTypes /\ w # KNone BY NoneIsNoWorker DEF KInv
<1>1. /\ kRequest[r] = KIdle /\ kRequest[r].at = KNone
      /\ kTorn' = IF Quiet(w) THEN kTorn ELSE kTorn \cup {w}
      /\ kHealed' = KNone
  BY DEF KBegin, KIdle
<1>2. Load(kFile.metadata) \in SUBSET KDocuments
  BY <1>0 DEF KTypes, KFiles, Load
<1>3. /\ new.at = w /\ new.op = op /\ new.step = step /\ new.doc = d /\ new.kept = {}
      /\ new.todo = (IF op = "reindex" THEN Load(kFile.metadata) ELSE {})
      /\ ~Quiet(w) => new.beside = "here"
      /\ new.beside = "nobody" => Active = {}
      /\ new \in KLive
  BY <1>2 DEF KBegin, KLive
<1>4. ASSUME NEW q \in KRequests, q # r
      PROVE  /\ kRequest'[q].at = kRequest[q].at
             /\ kRequest[q].at = KNone => kRequest'[q] = KIdle
             /\ kRequest[q].at # KNone =>
                   /\ kRequest'[q] = [kRequest[q] EXCEPT !.beside =
                         IF kRequest[q].at = w THEN "here"
                         ELSE IF kRequest[q].beside = "nobody" THEN "elsewhere" ELSE kRequest[q].beside]
                   /\ kRequest[q] \in KLive
  <2>1. kRequest[q] = KIdle <=> kRequest[q].at = KNone BY <1>0, LiveIs
  <2>2. kRequest[q] # KIdle => kRequest[q] \in KLive BY <1>0, LiveIs
  <2>3. CASE kRequest[q] = KIdle
    <3>1. q \notin Active BY <2>3 DEF Active
    <3>2. kRequest'[q] = KIdle BY <1>4, <3>1 DEF KBegin
    <3> QED BY <2>1, <2>3, <3>2
  <2>4. CASE kRequest[q] # KIdle
    <3>1. q \in Active BY <2>4 DEF Active
    <3>2. kRequest'[q] = [kRequest[q] EXCEPT !.beside =
                         IF kRequest[q].at = w THEN "here"
                         ELSE IF kRequest[q].beside = "nobody" THEN "elsewhere" ELSE kRequest[q].beside]
      BY <1>4, <3>1 DEF KBegin
    <3>3. kRequest'[q].at = kRequest[q].at BY <2>2, <2>4, <3>2 DEF KLive
    <3> QED BY <2>1, <2>2, <2>4, <3>2, <3>3
  <2> QED BY <2>3, <2>4
<1>5. ASSUME NEW q \in KRequests, q # r, kRequest[q].at # KNone
      PROVE  /\ kRequest'[q] \in KLive /\ kRequest'[q].op = kRequest[q].op /\ kRequest'[q].step = kRequest[q].step
             /\ kRequest'[q].doc = kRequest[q].doc /\ kRequest'[q].todo = kRequest[q].todo
             /\ kRequest'[q].kept = kRequest[q].kept /\ kRequest'[q].beside # "nobody"
             /\ kRequest[q].at = w => kRequest'[q].beside = "here"
             /\ kRequest'[q].beside = "here" => kRequest[q].at = w \/ kRequest[q].beside = "here"
             /\ kRequest[q].beside = "here" => kRequest'[q].beside = "here"
  <2> DEFINE old == kRequest[q]
             x   == IF old.at = w THEN "here" ELSE IF old.beside = "nobody" THEN "elsewhere" ELSE old.beside
  <2>1. old \in KLive /\ kRequest'[q] = [old EXCEPT !.beside = x] BY <1>4, <1>5
  <2>2. old.beside \in {"nobody", "elsewhere", "here"} BY <2>1 DEF KLive
  <2>3. /\ x \in {"elsewhere", "here"} /\ (old.at = w => x = "here")
        /\ x = "here" => old.at = w \/ old.beside = "here"
        /\ old.beside = "here" => x = "here"
    BY <2>2
  <2> HIDE DEF x, old
  <2>4. /\ kRequest'[q] \in KLive /\ kRequest'[q].op = old.op /\ kRequest'[q].step = old.step
        /\ kRequest'[q].doc = old.doc /\ kRequest'[q].todo = old.todo
        /\ kRequest'[q].kept = old.kept /\ kRequest'[q].beside = x
    BY <2>1, <2>3 DEF KLive
  <2> QED BY <2>3, <2>4 DEF old
<1>6. KTypes'
  <2>1. kRequest' \in [KRequests -> KLive \cup {KIdle}]
    <3>1. \A q \in KRequests : kRequest'[q] \in KLive \cup {KIdle} BY <1>3, <1>4, <1>5
    <3>2. DOMAIN kRequest' = KRequests /\ kRequest' = [q \in DOMAIN kRequest' |-> kRequest'[q]] BY DEF KBegin
    <3> QED BY <3>1, <3>2
  <2> QED BY <1>0, <2>1 DEF KTypes
<1> HIDE DEF new
<1>11. \A q \in KRequests : q # r => kRequest'[q].at = kRequest[q].at BY <1>4, Zenon
<1>7. Quiet(w) <=> \A q \in KRequests : kRequest[q].at # w BY <1>0, QuietIs
<1>8. KRuns(r)'
  <2>1. KOrder(new) BY <1>3, NoneIsNoWorker DEF KOrder
  <2>2. ASSUME w \notin kTorn' \/ Mends(new)
        PROVE  /\ \A q \in KRequests : q # r => kRequest'[q].at # w
               /\ Fits(kBlank, new, kMemory'[w])
    <3>1. Quiet(w) BY <1>1, <1>3, <2>2 DEF Mends
    <3>2. CASE op = "reindex"
      <4>1. Settled(new) /\ kMemory'[w].index = (kMemory'[w].metadata \ new.todo) \ kBlank BY <1>3, <3>2 DEF Settled
      <4> QED BY <1>4, <1>7, <3>1, <4>1 DEF Fits
    <3>3. CASE op # "reindex"
      <4>1. w \notin kTorn BY <1>1, <1>3, <2>2, <3>1, <3>3 DEF Mends
      <4>2. kMemory[w].index = kMemory[w].metadata \ kBlank BY <1>7, <3>1, <4>1 DEF KInv, Rests
      <4>3. ~Settled(new) /\ new.step = "list" /\ new.todo = {} BY <1>3, <3>3, NoneIsNoWorker DEF Settled
      <4> QED BY <1>4, <1>7, <3>1, <3>3, <4>2, <4>3 DEF Fits
    <3> QED BY <3>2, <3>3
  <2>3. ASSUME new.beside = "nobody" PROVE \A q \in KRequests : q # r => kRequest'[q].at = KNone
    <3>1. \A q \in KRequests : kRequest[q] = KIdle BY <1>3, <2>3 DEF Active
    <3>2. KIdle.at = KNone BY DEF KIdle
    <3>3. \A q \in KRequests : kRequest[q].at = KNone BY <3>1, <3>2, Zenon
    <3> QED BY <1>11, <3>3, Zenon
  <2>4. ASSUME op = "reindex" PROVE Heals(new, kMemory'[w], kFile, kDisk')
    <3>1. Settled(new) /\ new.step = "next" /\ kMemory'[w].metadata \ new.todo = {} BY <1>3, <2>4 DEF Settled
    <3> QED BY <3>1 DEF Heals
  <2> QED BY <1>3, <2>1, <2>2, <2>3, <2>4 DEF KRuns, new
<1>9. ASSUME NEW q \in KRequests, q # r, kRequest'[q].at # KNone PROVE KRuns(q)'
  <2>0. kRequest[q].at # KNone /\ kRequest'[q].at = kRequest[q].at /\ kRequest[q].at \in KWorkers
    BY <1>0, <1>4, <1>9, LiveIs
  <2>1. KRuns(q) BY <2>0 DEF KInv
  <2>2. KOrder(kRequest'[q]) BY <1>5, <1>9, <2>0, <2>1 DEF KRuns, KOrder
  <2>3. kRequest'[q].beside # "nobody" BY <1>5, <1>9, <2>0
  <2>4. ASSUME kRequest[q].at \notin kTorn' \/ Mends(kRequest'[q])
        PROVE  /\ \A p \in KRequests : p # q => kRequest'[p].at # kRequest[q].at
               /\ Fits(kBlank, kRequest'[q], kMemory'[kRequest[q].at])
    <3>1. kRequest[q].at # w
      <4>1. CASE Mends(kRequest'[q]) BY <1>5, <1>9, <2>0, <4>1 DEF Mends
      <4>2. CASE kRequest[q].at \notin kTorn' BY <1>1, <1>7, <4>2
      <4> QED BY <2>4, <4>1, <4>2
    <3>2. kRequest[q].at \notin kTorn \/ Mends(kRequest[q])
      BY <1>1, <1>5, <1>9, <2>0, <2>4, <3>1 DEF Mends
    <3>3. /\ \A p \in KRequests : p # q => kRequest[p].at # kRequest[q].at
          /\ Fits(kBlank, kRequest[q], kMemory[kRequest[q].at])
      BY <2>1, <3>2 DEF KRuns
    <3>4. \A p \in KRequests : p # q => kRequest'[p].at # kRequest[q].at
      BY <1>3, <1>4, <3>1, <3>3 DEF new
    <3>5. Fits(kBlank, kRequest'[q], kMemory[kRequest[q].at])
      BY <1>5, <1>9, <2>0, <3>3 DEF Fits, Settled
    <3> QED BY <2>0, <3>1, <3>4, <3>5
  <2> QED BY <2>0, <2>2, <2>3, <2>4 DEF KRuns
<1>10. ASSUME NEW v \in KWorkers, v \notin kTorn' PROVE Rests(v)'
  <2>1. CASE v = w BY <1>3, <2>1 DEF Rests, new
  <2>2. CASE v # w
    <3>1. v \notin kTorn BY <1>1, <1>10
    <3>2. (\A q \in KRequests : kRequest'[q].at # v) => \A q \in KRequests : kRequest[q].at # v
      BY <1>0, <1>1, <1>11, NoneIsNoWorker
    <3> QED BY <2>2, <3>1, <3>2 DEF Rests, KInv
  <2> QED BY <2>1, <2>2
<1> QED BY <1>1, <1>6, <1>8, <1>9, <1>10 DEF KInv, KHeals

LEMMA FailsKeeps == ASSUME KInv, UNCHANGED kBlank, NEW r \in KRequests, RequestFails(r) PROVE KInv'
<1>1. /\ kRequest[r] # KIdle /\ kRequest' = [kRequest EXCEPT ![r] = KIdle] /\ kTorn' = kTorn \cup {kRequest[r].at}
      /\ UNCHANGED <<kDisk, kFile, kMemory, kHealed>>
  BY DEF RequestFails, Active
<1>2. KTypes' BY <1>1 DEF KInv, KTypes
<1>3. kRequest'[r].at = KNone /\ \A q \in KRequests : q # r => kRequest'[q] = kRequest[q]
  BY <1>1 DEF KInv, KTypes, KIdle
<1>4. kRequest[r].at # KNone BY <1>1, LiveIs DEF KInv
<1>5. ASSUME NEW q \in KRequests, kRequest'[q].at # KNone PROVE KRuns(q)'
  <2>0. q # r BY <1>3, <1>5
  <2>1. KRuns(q) BY <1>3, <1>5, <2>0 DEF KInv
  <2>2. kRequest[q].beside # "nobody" BY <1>4, <2>0, <2>1 DEF KRuns
  <2>4. \A p \in KRequests : kRequest'[p].at = kRequest[p].at \/ kRequest'[p].at = KNone BY <1>3
  <2>5. kRequest[q].at \notin kTorn' => kRequest[q].at \notin kTorn BY <1>1
  <2> QED BY <1>1, <1>3, <1>5, <2>0, <2>1, <2>2, <2>4, <2>5 DEF KRuns
<1>6. ASSUME NEW w \in KWorkers, w \notin kTorn' PROVE Rests(w)'
  <2>1. w \notin kTorn /\ w # kRequest[r].at BY <1>1, <1>6
  <2> QED BY <1>1, <1>3, <2>1 DEF Rests, KInv
<1>7. KHeals'
  <2>1. kHealed = KNone BY <1>4 DEF KInv, KHeals
  <2> QED BY <1>1, <2>1 DEF KHeals
<1> QED BY <1>2, <1>5, <1>6, <1>7 DEF KInv

(* A worker that starts while nobody is served loads files that agree, unless *)
(* they are split.                                                            *)
LEMMA RestartKeeps == ASSUME KInv, KWhole, UNCHANGED kBlank, NEW w \in KWorkers, WorkerRestarts(w) PROVE KInv'
<1>1. /\ \A r \in KRequests : kRequest'[r] = IF kRequest[r].at = w THEN KIdle ELSE kRequest[r]
      /\ kMemory' = [kMemory EXCEPT ![w] = Loaded] /\ kHealed' = KNone /\ UNCHANGED <<kDisk, kFile>>
      /\ kTorn' = IF Active = {} /\ ~kSplit THEN kTorn \ {w} ELSE kTorn \cup {w}
  BY DEF WorkerRestarts
<1>2. Loaded \in KStore BY DEF KInv, KTypes, KFiles, KStore, Loaded, Load
<1>3. KTypes'
  <2>1. kRequest' \in [KRequests -> KLive \cup {KIdle}] BY DEF WorkerRestarts, KInv, KTypes
  <2> QED BY <1>1, <1>2, <2>1 DEF KInv, KTypes
<1>4. kMemory'[w] = Loaded /\ \A v \in KWorkers : v # w => kMemory'[v] = kMemory[v]
  BY <1>1 DEF KInv, KTypes
<1>5. ASSUME NEW q \in KRequests, kRequest'[q].at # KNone PROVE KRuns(q)'
  <2>0. kRequest'[q] = kRequest[q] /\ kRequest[q].at # w BY <1>1, <1>5 DEF KIdle
  <2>1. KRuns(q) BY <1>5, <2>0 DEF KInv
  <2>2. kRequest[q].at \in KWorkers BY <1>5, <2>0, LiveIs DEF KInv
  <2>3. \A p \in KRequests : kRequest'[p].at = kRequest[p].at \/ kRequest'[p].at = KNone BY <1>1 DEF KIdle
  <2>4. kRequest[q].at \notin kTorn' => kRequest[q].at \notin kTorn BY <1>1, <2>0
  <2> QED BY <1>1, <1>4, <1>5, <2>0, <2>1, <2>2, <2>3, <2>4 DEF KRuns
<1>6. ASSUME NEW v \in KWorkers, v \notin kTorn' PROVE Rests(v)'
  <2>1. CASE v = w
    <3>1. Active = {} /\ ~kSplit BY <1>1, <1>6, <2>1
    <3>2. \A q \in KRequests : kRequest[q].at = KNone
      <4>1. \A q \in KRequests : kRequest[q] = KIdle BY <3>1 DEF Active
      <4> QED BY <4>1 DEF KIdle
    <3>3. Loaded.index = Loaded.metadata \ kBlank BY <3>1, <3>2 DEF KWhole
    <3> QED BY <1>4, <2>1, <3>3 DEF Rests
  <2>2. CASE v # w
    <3>1. v \notin kTorn BY <1>1, <1>6, <2>2
    <3>2. (\A q \in KRequests : kRequest'[q].at # v) => \A q \in KRequests : kRequest[q].at # v
      BY <1>1, <2>2
    <3> QED BY <1>4, <2>2, <3>1, <3>2 DEF Rests, KInv
  <2> QED BY <2>1, <2>2
<1> QED BY <1>1, <1>3, <1>5, <1>6 DEF KInv, KHeals

-----------------------------------------------------------------------------
KSteps == {"list", "dump list", "remove", "filter", "index", "dump index", "next"}
SameBut(new, me) == new.at = me.at /\ new.op = me.op /\ new.beside = me.beside

LEMMA GoIs ==
    ASSUME KTypes, NEW r \in KRequests, NEW step \in KSteps, kRequest[r] \in KLive, Go(r, step)
    PROVE  /\ kRequest'[r] \in KLive /\ kRequest' = [kRequest EXCEPT ![r] = kRequest'[r]]
           /\ SameBut(kRequest'[r], kRequest[r]) /\ kRequest'[r].step = step
           /\ kRequest'[r].doc = kRequest[r].doc /\ kRequest'[r].todo = kRequest[r].todo
           /\ kRequest'[r].kept = kRequest[r].kept
           /\ UNCHANGED <<kTorn, kHealed>>
<1>1. kRequest'[r] = [kRequest[r] EXCEPT !.step = step] BY DEF Go, KTypes
<1>2. \A q \in KRequests : q # r => kRequest'[q] = kRequest[q] BY DEF Go, KTypes
<1>3. kRequest' = [kRequest EXCEPT ![r] = kRequest'[r]]
  BY <1>1, <1>2 DEF Go, KTypes
<1>4. kRequest'[r] \in KLive /\ SameBut(kRequest'[r], kRequest[r]) /\ kRequest'[r].step = step
      /\ kRequest'[r].doc = kRequest[r].doc /\ kRequest'[r].todo = kRequest[r].todo
      /\ kRequest'[r].kept = kRequest[r].kept
  BY <1>1 DEF KLive, KSteps, SameBut
<1> QED BY <1>3, <1>4 DEF Go

LEMMA MeIs ==
    ASSUME KInv, NEW r \in KRequests, kRequest[r].step # "none"
    PROVE  /\ kRequest[r] \in KLive /\ KOrder(kRequest[r])
           /\ kRequest[r].at \in KWorkers /\ kRequest[r].doc \in KDocuments \cup {KNone}
           /\ kRequest[r].todo \in SUBSET KDocuments /\ kRequest[r].kept \in SUBSET KDocuments
           /\ kRequest[r].op \in {"upload", "delete", "reindex"}
           /\ kMemory[kRequest[r].at] \in KStore
           /\ kMemory[kRequest[r].at].metadata \in SUBSET KDocuments
           /\ kMemory[kRequest[r].at].index \in SUBSET KDocuments
<1>1. kRequest[r] \in KLive /\ kRequest[r].at # KNone BY LiveIs DEF KInv
<1>2. KOrder(kRequest[r]) BY <1>1 DEF KInv, KRuns
<1>3. /\ kRequest[r].at \in KWorkers /\ kRequest[r].doc \in KDocuments \cup {KNone}
      /\ kRequest[r].todo \in SUBSET KDocuments /\ kRequest[r].kept \in SUBSET KDocuments
      /\ kRequest[r].op \in {"upload", "delete", "reindex"}
  BY <1>1 DEF KLive
<1>4. kMemory[kRequest[r].at] \in KStore BY <1>3 DEF KInv, KTypes
<1> QED BY <1>1, <1>2, <1>3, <1>4 DEF KStore

LEMMA ChangeListKeeps == ASSUME KInv, UNCHANGED kBlank, NEW r \in KRequests, ChangeList(r) PROVE KInv'
<1> DEFINE me == kRequest[r]
           new == kRequest'[r]
           m == kMemory[me.at]
           n == kMemory'[me.at]
<1>1. me.step = "list" /\ Go(r, "dump list") /\ UNCHANGED kDisk
  BY DEF ChangeList
<1>2. /\ me \in KLive /\ KOrder(me) /\ me.at \in KWorkers /\ me.doc \in KDocuments \cup {KNone}
      /\ m \in KStore /\ m.metadata \in SUBSET KDocuments
  BY <1>1, MeIs
<1>3. me.doc # KNone BY <1>1, <1>2 DEF KOrder
<1>4. /\ new \in KLive /\ kRequest' = [kRequest EXCEPT ![r] = new]
      /\ SameBut(new, me) /\ new.step = "dump list" /\ new.doc = me.doc /\ new.todo = me.todo
      /\ UNCHANGED <<kTorn, kHealed>>
  BY <1>1, <1>2, GoIs DEF KInv, KSteps
<1>5. /\ n.metadata = (IF me.op = "delete" THEN m.metadata \ {me.doc} ELSE m.metadata \cup {me.doc})
      /\ n.index = m.index
      /\ n \in KStore
      /\ \A v \in KWorkers : v # me.at => kMemory'[v] = kMemory[v]
      /\ kMemory' \in [KWorkers -> KStore]
  BY <1>2, <1>3 DEF ChangeList, KInv, KTypes, KStore
<1>6. kFile' \in KFiles /\ kFile'.metadata = Broken /\ kFile'.index = kFile.index
  BY DEF ChangeList, KInv, KTypes, KFiles
<1> HIDE DEF me, new, m, n
<1>7. ~Settled(me) /\ ~Settled(new) BY <1>1, <1>3, <1>4 DEF Settled
<1>8. KOrder(new) BY <1>2, <1>3, <1>4 DEF KOrder, SameBut
<1>9. ASSUME Fits(kBlank, me, m) PROVE Fits(kBlank, new, n)
  BY <1>1, <1>4, <1>5, <1>7, <1>9 DEF Fits, SameBut
<1>10. ASSUME Heals(me, m, kFile, kDisk) PROVE Heals(new, n, kFile', kDisk')
  BY <1>1, <1>3, <1>4, <1>5, <1>6, <1>7, <1>10 DEF Heals
<1>11. kDisk' \in SUBSET KDocuments BY <1>1 DEF KInv, KTypes
<1> QED BY <1>1, <1>2, <1>4, <1>5, <1>6, <1>8, <1>9, <1>10, <1>11, MovesOn DEF me, new, m, n, SameBut

LEMMA DumpedIs == ASSUME NEW file, NEW content, NEW x \in Dumped(file, content)
                  PROVE  x \in {content, Broken} /\ (file = Broken => x = content)
BY DEF Dumped

LEMMA DumpListKeeps == ASSUME KInv, UNCHANGED kBlank, NEW r \in KRequests, DumpList(r) PROVE KInv'
<1> DEFINE me == kRequest[r]
           new == kRequest'[r]
           m == kMemory[me.at]
<1>1. me.step = "dump list" /\ UNCHANGED <<kDisk, kMemory>>
  BY DEF DumpList
<1>2. /\ me \in KLive /\ KOrder(me) /\ me.at \in KWorkers /\ me.doc \in KDocuments \cup {KNone}
      /\ m \in KStore /\ m.metadata \in SUBSET KDocuments
  BY <1>1, MeIs
<1>3. PICK content \in Dumped(kFile.metadata, m.metadata) : kFile' = [kFile EXCEPT !.metadata = content]
  BY DEF DumpList
<1>4. /\ kFile' \in KFiles /\ kFile'.metadata = content /\ kFile'.index = kFile.index
      /\ kFile.metadata = Broken => kFile'.metadata = m.metadata
  BY <1>2, <1>3, DumpedIs DEF KInv, KTypes, KFiles
<1>5. kDisk \in SUBSET KDocuments /\ kMemory \in [KWorkers -> KStore] BY DEF KInv, KTypes
<1>6. CASE me.doc = KNone
  <2>1. Finish(r) BY <1>6 DEF DumpList
  <2>2. /\ kRequest' = [kRequest EXCEPT ![r] = KIdle]
        /\ kTorn' = IF Mends(me) THEN kTorn \ {me.at} ELSE kTorn
        /\ kHealed' = IF me.op = "reindex" /\ me.beside = "nobody" THEN me.at ELSE kHealed
    BY <2>1 DEF Finish, Mends
  <2>3. me.todo = {} /\ Settled(me) BY <1>1, <1>2, <1>6 DEF KOrder, Settled
  <2>4. m.metadata \ {} = m.metadata OBVIOUS
  <2> HIDE DEF me, m
  <2>5. ASSUME Fits(kBlank, me, m) PROVE m.index = m.metadata \ kBlank
    BY <2>3, <2>4, <2>5 DEF Fits
  <2>6. ASSUME Fits(kBlank, me, m), Heals(me, m, kFile, kDisk) PROVE Repaired(m, kFile', kDisk)
    BY <1>1, <1>4, <1>6, <2>3, <2>4, <2>5, <2>6 DEF Heals, Repaired
  <2> QED BY <1>1, <1>2, <1>4, <2>2, <2>5, <2>6, Ends DEF me, m
<1>7. CASE me.doc # KNone
  <2>1. /\ new \in KLive /\ kRequest' = [kRequest EXCEPT ![r] = new]
        /\ SameBut(new, me) /\ new.step = (IF me.op = "delete" THEN "remove" ELSE "filter")
        /\ new.doc = me.doc /\ new.todo = me.todo
        /\ UNCHANGED <<kTorn, kHealed>>
    <3>1. Go(r, IF me.op = "delete" THEN "remove" ELSE "filter") BY <1>7 DEF DumpList
    <3> QED BY <1>2, <3>1, GoIs DEF KInv, KSteps
  <2> HIDE DEF me, new, m
  <2>2. ~Settled(me) /\ ~Settled(new) BY <1>1, <1>7, <2>1 DEF Settled
  <2>3. KOrder(new) BY <1>2, <1>7, <2>1 DEF KOrder, SameBut
  <2>4. ASSUME Fits(kBlank, me, m) PROVE Fits(kBlank, new, m)
    BY <1>1, <2>1, <2>2, <2>4 DEF Fits, SameBut
  <2>5. ASSUME Heals(me, m, kFile, kDisk) PROVE Heals(new, m, kFile', kDisk)
    BY <1>1, <1>7, <2>1, <2>2, <2>5 DEF Heals
  <2> QED BY <1>1, <1>2, <1>4, <1>5, <2>1, <2>3, <2>4, <2>5, MovesOn DEF me, new, m, SameBut
<1> QED BY <1>6, <1>7

LEMMA RemoveFileKeeps == ASSUME KInv, UNCHANGED kBlank, NEW r \in KRequests, RemoveFile(r) PROVE KInv'
<1> DEFINE me == kRequest[r]
           new == kRequest'[r]
           m == kMemory[me.at]
<1>1. me.step = "remove" /\ Go(r, "filter") /\ UNCHANGED <<kFile, kMemory>> /\ kDisk' = kDisk \ {me.doc}
  BY DEF RemoveFile
<1>2. /\ me \in KLive /\ KOrder(me) /\ me.at \in KWorkers /\ me.doc \in KDocuments \cup {KNone}
      /\ m \in KStore /\ m.metadata \in SUBSET KDocuments
  BY <1>1, MeIs
<1>3. kDisk' \in SUBSET KDocuments /\ kMemory \in [KWorkers -> KStore] /\ kFile \in KFiles BY <1>1 DEF KInv, KTypes
<1>4. /\ new \in KLive /\ kRequest' = [kRequest EXCEPT ![r] = new]
      /\ SameBut(new, me) /\ new.step = "filter" /\ new.doc = me.doc /\ new.todo = me.todo
      /\ UNCHANGED <<kTorn, kHealed>>
  BY <1>1, <1>2, GoIs DEF KInv, KSteps
<1> HIDE DEF me, new, m
<1>5. me.op = "delete" /\ me.doc # KNone BY <1>1, <1>2 DEF KOrder
<1>6. ~Settled(me) /\ ~Settled(new) BY <1>1, <1>4, <1>5 DEF Settled
<1>7. KOrder(new) BY <1>2, <1>4, <1>5 DEF KOrder, SameBut
<1>8. ASSUME Fits(kBlank, me, m) PROVE Fits(kBlank, new, m)
  BY <1>1, <1>4, <1>6, <1>8 DEF Fits, SameBut
<1> QED BY <1>1, <1>2, <1>3, <1>4, <1>5, <1>7, <1>8, MovesOn DEF me, new, m, SameBut

LEMMA FilterChunksKeeps == ASSUME KInv, UNCHANGED kBlank, NEW r \in KRequests, FilterChunks(r) PROVE KInv'
<1> DEFINE me == kRequest[r]
           new == kRequest'[r]
           m == kMemory[me.at]
<1>1. me.step = "filter" /\ UNCHANGED <<kDisk, kFile, kMemory, kTorn, kHealed>> BY DEF FilterChunks
<1>2. /\ me \in KLive /\ KOrder(me) /\ me.at \in KWorkers /\ me.doc \in KDocuments \cup {KNone}
      /\ m \in KStore /\ m.index \in SUBSET KDocuments
  BY <1>1, MeIs
<1>3. kDisk \in SUBSET KDocuments /\ kMemory \in [KWorkers -> KStore] /\ kFile \in KFiles BY DEF KInv, KTypes
<1>4. /\ new \in KLive /\ kRequest' = [kRequest EXCEPT ![r] = new]
      /\ SameBut(new, me) /\ new.step = "index" /\ new.doc = me.doc /\ new.todo = me.todo
      /\ new.kept = m.index \ {me.doc}
  <2>1. new = [me EXCEPT !.step = "index", !.kept = m.index \ {me.doc}]
    BY DEF FilterChunks, KInv, KTypes
  <2>2. \A q \in KRequests : q # r => kRequest'[q] = kRequest[q] BY DEF FilterChunks, KInv, KTypes
  <2>3. kRequest' = [kRequest EXCEPT ![r] = new]
    BY <2>1, <2>2 DEF FilterChunks, KInv, KTypes
  <2> HIDE DEF m
  <2>4. m.index \ {me.doc} \in SUBSET KDocuments BY <1>2
  <2> QED BY <1>2, <2>1, <2>3, <2>4 DEF KLive, SameBut
<1> HIDE DEF me, new, m
<1>5. me.doc # KNone BY <1>1, <1>2 DEF KOrder
<1>6. ~Settled(me) /\ ~Settled(new) BY <1>1, <1>4, <1>5 DEF Settled
<1>7. KOrder(new) BY <1>2, <1>4, <1>5 DEF KOrder, SameBut
<1>8. ASSUME Fits(kBlank, me, m) PROVE Fits(kBlank, new, m)
  BY <1>1, <1>4, <1>6, <1>8 DEF Fits, SameBut
<1>9. ASSUME Heals(me, m, kFile, kDisk) PROVE Heals(new, m, kFile, kDisk)
  BY <1>1, <1>4, <1>5, <1>6, <1>9 DEF Heals
<1> QED BY <1>1, <1>2, <1>3, <1>4, <1>7, <1>8, <1>9, MovesOn DEF me, new, m, SameBut

LEMMA ReplaceChunksKeeps == ASSUME KInv, UNCHANGED kBlank, NEW r \in KRequests, ReplaceChunks(r) PROVE KInv'
<1> DEFINE me == kRequest[r]
           new == kRequest'[r]
           m == kMemory[me.at]
           n == kMemory'[me.at]
           chunks == IF me.op = "delete" \/ me.doc \in kBlank THEN {} ELSE {me.doc}
<1>1. me.step = "index" /\ Go(r, "dump index") /\ UNCHANGED kDisk
  BY DEF ReplaceChunks
<1>2. /\ me \in KLive /\ KOrder(me) /\ me.at \in KWorkers /\ me.doc \in KDocuments \cup {KNone}
      /\ m \in KStore /\ m.metadata \in SUBSET KDocuments /\ me.kept \in SUBSET KDocuments
  BY <1>1, MeIs
<1>3. me.doc # KNone BY <1>1, <1>2 DEF KOrder
<1>4. /\ new \in KLive /\ kRequest' = [kRequest EXCEPT ![r] = new]
      /\ SameBut(new, me) /\ new.step = "dump index" /\ new.doc = me.doc /\ new.todo = me.todo
      /\ UNCHANGED <<kTorn, kHealed>>
  BY <1>1, <1>2, GoIs DEF KInv, KSteps
<1>5. kMemory' = [kMemory EXCEPT ![me.at].index = me.kept \cup chunks]
  BY DEF ReplaceChunks, ChunkText, ExtractTextFromFile
<1>6. me.kept \cup chunks \in SUBSET KDocuments BY <1>2, <1>3
<1> HIDE DEF chunks
<1>7. /\ n.metadata = m.metadata /\ n.index = me.kept \cup chunks
      /\ n \in KStore
      /\ \A v \in KWorkers : v # me.at => kMemory'[v] = kMemory[v]
      /\ kMemory' \in [KWorkers -> KStore]
  BY <1>2, <1>5, <1>6 DEF KInv, KTypes, KStore
<1>8. kFile' \in KFiles /\ kFile'.metadata = kFile.metadata /\ kFile'.index = Broken
  BY DEF ReplaceChunks, KInv, KTypes, KFiles
<1> HIDE DEF me, new, m, n
<1>9. ~Settled(me) /\ Settled(new) BY <1>1, <1>3, <1>4 DEF Settled
<1>10. KOrder(new) BY <1>2, <1>3, <1>4 DEF KOrder, SameBut
<1>11. ASSUME Fits(kBlank, me, m) PROVE Fits(kBlank, new, n)
  <2>1. /\ me.kept = ((m.metadata \ me.todo) \ kBlank) \ {me.doc} /\ me.doc \notin me.todo
        /\ me.doc \in m.metadata <=> me.op # "delete"
    BY <1>1, <1>9, <1>11 DEF Fits
  <2>2. me.kept \cup chunks = (m.metadata \ me.todo) \ kBlank
    BY <2>1 DEF chunks, me, m
  <2> QED BY <1>4, <1>7, <1>9, <2>2 DEF Fits
<1>12. ASSUME Heals(me, m, kFile, kDisk) PROVE Heals(new, n, kFile', kDisk')
  BY <1>1, <1>3, <1>4, <1>7, <1>8, <1>9, <1>12 DEF Heals
<1>13. kDisk' \in SUBSET KDocuments BY <1>1 DEF KInv, KTypes
<1> QED BY <1>1, <1>2, <1>4, <1>7, <1>8, <1>10, <1>11, <1>12, <1>13, MovesOn DEF me, new, m, n, SameBut

LEMMA DumpIndexKeeps == ASSUME KInv, UNCHANGED kBlank, NEW r \in KRequests, DumpIndex(r) PROVE KInv'
<1> DEFINE me == kRequest[r]
           new == kRequest'[r]
           m == kMemory[me.at]
<1>1. me.step = "dump index" /\ UNCHANGED <<kDisk, kMemory>>
  BY DEF DumpIndex
<1>2. /\ me \in KLive /\ KOrder(me) /\ me.at \in KWorkers /\ me.doc \in KDocuments \cup {KNone}
      /\ m \in KStore /\ m.index \in SUBSET KDocuments
  BY <1>1, MeIs
<1>3. PICK content \in Dumped(kFile.index, m.index) : kFile' = [kFile EXCEPT !.index = content]
  BY DEF DumpIndex
<1>4. /\ kFile' \in KFiles /\ kFile'.index = content /\ kFile'.metadata = kFile.metadata
      /\ kFile.index = Broken => kFile'.index = m.index
  BY <1>2, <1>3, DumpedIs DEF KInv, KTypes, KFiles
<1>5. kDisk \in SUBSET KDocuments /\ kMemory \in [KWorkers -> KStore] BY DEF KInv, KTypes
<1>6. CASE me.op # "reindex"
  <2>1. Finish(r) BY <1>6 DEF DumpIndex
  <2>2. /\ kRequest' = [kRequest EXCEPT ![r] = KIdle]
        /\ kTorn' = IF Mends(me) THEN kTorn \ {me.at} ELSE kTorn
        /\ kHealed' = IF me.op = "reindex" /\ me.beside = "nobody" THEN me.at ELSE kHealed
    BY <2>1 DEF Finish, Mends
  <2>3. me.todo = {} /\ Settled(me) BY <1>1, <1>2, <1>6 DEF KOrder, Settled
  <2>4. m.metadata \ {} = m.metadata OBVIOUS
  <2> HIDE DEF me, m
  <2>5. ASSUME Fits(kBlank, me, m) PROVE m.index = m.metadata \ kBlank
    BY <2>3, <2>4, <2>5 DEF Fits
  <2> QED BY <1>1, <1>2, <1>4, <1>6, <2>2, <2>5, Ends DEF me, m
<1>7. CASE me.op = "reindex"
  <2>1. /\ new \in KLive /\ kRequest' = [kRequest EXCEPT ![r] = new]
        /\ SameBut(new, me) /\ new.step = "next" /\ new.doc = me.doc /\ new.todo = me.todo
        /\ UNCHANGED <<kTorn, kHealed>>
    <3>1. Go(r, "next") BY <1>7 DEF DumpIndex
    <3> QED BY <1>2, <3>1, GoIs DEF KInv, KSteps
  <2> HIDE DEF me, new, m
  <2>2. Settled(me) /\ Settled(new) BY <1>1, <2>1 DEF Settled
  <2>3. KOrder(new) BY <1>2, <1>7, <2>1 DEF KOrder, SameBut
  <2>4. ASSUME Fits(kBlank, me, m) PROVE Fits(kBlank, new, m)
    BY <1>1, <2>1, <2>2, <2>4 DEF Fits
  <2>5. ASSUME Heals(me, m, kFile, kDisk) PROVE Heals(new, m, kFile', kDisk)
    BY <1>1, <1>4, <2>1, <2>2, <2>5 DEF Heals
  <2> QED BY <1>1, <1>2, <1>4, <1>5, <2>1, <2>3, <2>4, <2>5, MovesOn DEF me, new, m, SameBut
<1> QED BY <1>6, <1>7

LEMMA NextDocumentKeeps == ASSUME KInv, UNCHANGED kBlank, NEW r \in KRequests, NextDocument(r) PROVE KInv'
<1> DEFINE me == kRequest[r]
           new == kRequest'[r]
           m == kMemory[me.at]
           n == kMemory'[me.at]
<1>1. me.step = "next" /\ UNCHANGED <<kDisk, kTorn, kHealed>>
  BY DEF NextDocument
<1>2. /\ me \in KLive /\ KOrder(me) /\ me.at \in KWorkers /\ me.todo \in SUBSET KDocuments
      /\ m \in KStore /\ m.metadata \in SUBSET KDocuments
  BY <1>1, MeIs
<1>3. kDisk \in SUBSET KDocuments /\ kMemory \in [KWorkers -> KStore] /\ kFile \in KFiles BY DEF KInv, KTypes
<1>4. me.op = "reindex" /\ Settled(me) BY <1>1, <1>2 DEF KOrder, Settled
<1>5. ASSUME NEW d \in me.todo, d \in kDisk, UNCHANGED <<kFile, kMemory>>,
             kRequest' = [kRequest EXCEPT ![r] = [me EXCEPT !.doc = d, !.todo = @ \ {d}, !.step = "list"]]
      PROVE  KInv'
  <2>1. new = [me EXCEPT !.doc = d, !.todo = me.todo \ {d}, !.step = "list"] BY <1>5 DEF KInv, KTypes
  <2>2. d \in KDocuments /\ me.todo \ {d} \in SUBSET KDocuments /\ d # KNone
    BY <1>2, <1>5, NoneIsNoWorker
  <2>30. kRequest' = [kRequest EXCEPT ![r] = new] BY <1>5, <2>1
  <2>31. me \in KLive BY <1>2
  <2> HIDE DEF me, new
  <2>32. new \in KLive BY <2>1, <2>2, <2>31 DEF KLive
  <2>33. SameBut(new, me) /\ new.step = "list" /\ new.doc = d /\ new.todo = me.todo \ {d}
    BY <2>1, <2>31 DEF KLive, SameBut
  <2>3. /\ new \in KLive /\ kRequest' = [kRequest EXCEPT ![r] = new]
        /\ SameBut(new, me) /\ new.step = "list" /\ new.doc = d /\ new.todo = me.todo \ {d}
    BY <2>30, <2>32, <2>33
  <2> HIDE DEF me, new, m
  <2>4. ~Settled(new) BY <2>2, <2>3 DEF Settled
  <2>5. KOrder(new) BY <1>4, <2>2, <2>3 DEF KOrder, SameBut
  <2>6. ASSUME Fits(kBlank, me, m) PROVE Fits(kBlank, new, m)
    BY <1>4, <2>3, <2>4, <2>6 DEF Fits
  <2>7. ASSUME Heals(me, m, kFile, kDisk) PROVE Heals(new, m, kFile, kDisk)
    BY <1>4, <1>5, <2>2, <2>3, <2>4, <2>7 DEF Heals
  <2> QED BY <1>1, <1>2, <1>3, <1>5, <2>3, <2>5, <2>6, <2>7, MovesOn DEF me, new, m, SameBut
<1>6. ASSUME NEW d \in me.todo \ kDisk, kMemory' = [kMemory EXCEPT ![me.at].metadata = @ \ {d}], UNCHANGED kFile,
             kRequest' = [kRequest EXCEPT ![r].todo = @ \ {d}]
      PROVE  KInv'
  <2>1. new = [me EXCEPT !.todo = me.todo \ {d}] BY <1>6 DEF KInv, KTypes
  <2>2. \A q \in KRequests : q # r => kRequest'[q] = kRequest[q] BY <1>6 DEF KInv, KTypes
  <2>3. kRequest' = [kRequest EXCEPT ![r] = new] BY <1>6, <2>1, <2>2 DEF KInv, KTypes
  <2>4. me.todo \ {d} \in SUBSET KDocuments BY <1>2
  <2>5. /\ new \in KLive /\ SameBut(new, me) /\ new.step = "next" /\ new.doc = me.doc /\ new.todo = me.todo \ {d}
    BY <1>1, <1>2, <2>1, <2>4 DEF KLive, SameBut
  <2>6. /\ n.metadata = m.metadata \ {d} /\ n.index = m.index /\ n \in KStore
        /\ \A v \in KWorkers : v # me.at => kMemory'[v] = kMemory[v]
        /\ kMemory' \in [KWorkers -> KStore]
    BY <1>2, <1>3, <1>6 DEF KStore
  <2> HIDE DEF me, new, m, n
  <2>7. Settled(new) BY <2>5 DEF Settled
  <2>8. KOrder(new) BY <1>2, <1>4, <2>5 DEF KOrder, SameBut
  <2>9. n.metadata \ new.todo = m.metadata \ me.todo BY <1>6, <2>5, <2>6
  <2>10. ASSUME Fits(kBlank, me, m) PROVE Fits(kBlank, new, n)
    BY <1>4, <2>6, <2>7, <2>9, <2>10 DEF Fits
  <2>11. ASSUME Heals(me, m, kFile, kDisk) PROVE Heals(new, n, kFile, kDisk)
    BY <1>1, <1>4, <2>5, <2>6, <2>7, <2>9, <2>11 DEF Heals
  <2>12. UNCHANGED kFile BY <1>6
  <2> QED BY <1>1, <1>2, <1>3, <2>3, <2>5, <2>6, <2>8, <2>10, <2>11, <2>12, MovesOn DEF me, new, m, n, SameBut
<1>7. ASSUME me.todo = {}, kFile' = [kFile EXCEPT !.metadata = Broken], UNCHANGED kMemory,
             kRequest' = [kRequest EXCEPT ![r].doc = KNone, ![r].step = "dump list"]
      PROVE  KInv'
  <2>1. new = [me EXCEPT !.doc = KNone, !.step = "dump list"] BY <1>7 DEF KInv, KTypes
  <2>2. \A q \in KRequests : q # r => kRequest'[q] = kRequest[q] BY <1>7 DEF KInv, KTypes
  <2>3. kRequest' = [kRequest EXCEPT ![r] = new] BY <1>7, <2>1, <2>2 DEF KInv, KTypes
  <2>4. me \in KLive /\ me.todo = {} BY <1>2, <1>7
  <2> HIDE DEF me, new
  <2>40. new \in KLive BY <2>1, <2>4 DEF KLive
  <2>5. /\ new \in KLive /\ SameBut(new, me) /\ new.step = "dump list" /\ new.doc = KNone /\ new.todo = {}
    BY <2>1, <2>4, <2>40 DEF KLive, SameBut
  <2>6. kFile' \in KFiles /\ kFile'.metadata = Broken /\ kFile'.index = kFile.index
    BY <1>3, <1>7 DEF KFiles
  <2> HIDE DEF me, new, m
  <2>7. Settled(new) BY <2>5 DEF Settled
  <2>8. KOrder(new) BY <1>4, <2>5 DEF KOrder, SameBut
  <2>10. ASSUME Fits(kBlank, me, m) PROVE Fits(kBlank, new, m)
    BY <1>4, <1>7, <2>5, <2>7, <2>10 DEF Fits
  <2>11. ASSUME Heals(me, m, kFile, kDisk) PROVE Heals(new, m, kFile', kDisk)
    BY <1>1, <1>4, <1>7, <2>5, <2>6, <2>7, <2>11 DEF Heals
  <2> QED BY <1>1, <1>2, <1>3, <1>7, <2>3, <2>5, <2>6, <2>8, <2>10, <2>11, MovesOn DEF me, new, m, SameBut
<1> QED BY <1>5, <1>6, <1>7 DEF NextDocument

LEMMA KStepInv == KInv /\ KWhole /\ [KNext]_knowledge => KInv'
<1> SUFFICES ASSUME KInv, KWhole, [KNext]_knowledge PROVE KInv' OBVIOUS
<1>1. CASE UNCHANGED knowledge
  <2>1. /\ kBlank' = kBlank /\ kDisk' = kDisk /\ kFile' = kFile /\ kMemory' = kMemory /\ kRequest' = kRequest
        /\ kTorn' = kTorn /\ kHealed' = kHealed
    BY <1>1 DEF knowledge
  <2>2. KTypes' BY <2>1 DEF KInv, KTypes
  <2>3. KHeals'
    <3>1. KHeals BY DEF KInv
    <3> QED BY <2>1, <3>1 DEF KHeals, Repaired
  <2>4. ASSUME NEW r \in KRequests, kRequest'[r].at # KNone PROVE KRuns(r)'
    <3>1. KRuns(r) BY <2>1, <2>4 DEF KInv
    <3> QED BY <2>1, <3>1 DEF KRuns
  <2>5. ASSUME NEW w \in KWorkers, w \notin kTorn' PROVE Rests(w)'
    <3>1. Rests(w) BY <2>1, <2>5 DEF KInv
    <3> QED BY <2>1, <3>1 DEF Rests
  <2> QED BY <2>2, <2>3, <2>4, <2>5 DEF KInv
<1>2. kMemory \in [KWorkers -> KStore] /\ kDisk \in SUBSET KDocuments BY DEF KInv, KTypes
<1>3. ASSUME UNCHANGED kBlank, NEW r \in KRequests, NEW w \in KWorkers, NEW d \in KDocuments, RagUpload(r, w, d)
      PROVE  KInv'
  <2>1. kDisk' \in SUBSET KDocuments /\ kDisk \subseteq kDisk' BY <1>2, <1>3 DEF RagUpload
  <2> QED BY <1>2, <1>3, <2>1, KBeginKeeps DEF RagUpload
<1>4. ASSUME UNCHANGED kBlank, NEW r \in KRequests, NEW w \in KWorkers, NEW d \in KDocuments, RagDelete(r, w, d)
      PROVE  KInv'
  BY <1>2, <1>4, KBeginKeeps DEF RagDelete
<1>5. ASSUME UNCHANGED kBlank, NEW r \in KRequests, NEW w \in KWorkers, RagReindex(r, w)
      PROVE  KInv'
  <2>1. [metadata |-> Load(kFile.metadata), index |-> {}] \in KStore
    BY DEF KInv, KTypes, KFiles, KStore, Load
  <2>2. /\ kMemory' \in [KWorkers -> KStore] /\ \A v \in KWorkers : v # w => kMemory'[v] = kMemory[v]
        /\ kMemory'[w] = [metadata |-> Load(kFile.metadata), index |-> {}]
    BY <1>2, <1>5, <2>1 DEF RagReindex
  <2> QED BY <1>2, <1>5, <2>2, KBeginKeeps DEF RagReindex
<1>6. CASE KNext
  BY <1>3, <1>4, <1>5, <1>6, ChangeListKeeps, DumpListKeeps, RemoveFileKeeps, FilterChunksKeeps, ReplaceChunksKeeps,
     DumpIndexKeeps, NextDocumentKeeps, FailsKeeps, RestartKeeps DEF KNext
<1> QED BY <1>1, <1>6

-----------------------------------------------------------------------------
(* Of the requests, only the one that moves on may be alone.                  *)
LEMMA OthersAreNotAlone ==
    ASSUME KInv, NEW r \in KRequests, kRequest[r].at # KNone, NEW q \in KRequests, q # r,
           kRequest'[q] = kRequest[q]
    PROVE  KSaves(q)'
<1> SUFFICES ASSUME kRequest[q].at # KNone, kRequest[q].beside = "nobody" PROVE FALSE
  BY DEF KSaves
<1>1. KRuns(q) BY DEF KInv
<1> QED BY <1>1 DEF KRuns

LEMMA WholeMoves ==
    ASSUME KInv, KWhole, NEW r \in KRequests, kRequest[r].at # KNone, kRequest'[r].at # KNone,
           \A q \in KRequests : q # r => kRequest'[q] = kRequest[q], KSaves(r)', UNCHANGED kSplit
    PROVE  KWhole'
<1>1. ASSUME NEW q \in KRequests, q # r PROVE KSaves(q)'
  BY <1>1, OthersAreNotAlone
<1> QED BY <1>1 DEF KWhole

(* At the end both files hold what the worker has in memory.                  *)
LEMMA WholeEnds ==
    ASSUME KInv, KInv', KWhole, UNCHANGED <<kBlank, kMemory>>, NEW r \in KRequests, kRequest[r] \in KLive, Finish(r),
           kRequest[r].op # "reindex" /\ kRequest[r].beside = "nobody" =>
               kFile' = kMemory[kRequest[r].at]
    PROVE  KWhole'
<1> DEFINE me == kRequest[r]
           m == kMemory[me.at]
<1>1. /\ kRequest'[r].at = KNone /\ \A q \in KRequests : q # r => kRequest'[q] = kRequest[q]
      /\ me.at \in KWorkers /\ me.at # KNone
  BY NoneIsNoWorker DEF Finish, KInv, KTypes, KIdle, KLive
<1>2. \A q \in KRequests : KSaves(q)'
  <2>1. ASSUME NEW q \in KRequests, q # r PROVE KSaves(q)' BY <1>1, <2>1, OthersAreNotAlone
  <2>2. KSaves(r)' BY <1>1 DEF KSaves
  <2> QED BY <2>1, <2>2
<1>3. kSplit' \in BOOLEAN /\ (~kSplit' => /\ me.beside = "nobody"
                                         /\ IF me.op = "reindex" THEN m.metadata # {} ELSE me.at \notin kTorn)
  BY DEF Finish
<1>4. /\ m \in KStore /\ m.metadata \in SUBSET KDocuments /\ m.index \in SUBSET KDocuments
      /\ m = [metadata |-> m.metadata, index |-> m.index]
  BY <1>1 DEF KInv, KTypes, KStore
<1>5. ASSUME ~kSplit' PROVE Loaded'.index = Loaded'.metadata \ kBlank
  <2>1. me.beside = "nobody" BY <1>3, <1>5
  <2>2. \A q \in KRequests : kRequest'[q].at = KNone
    <3>1. KRuns(r) BY <1>1 DEF KInv
    <3> QED BY <1>1, <2>1, <3>1 DEF KRuns
  <2>3. kFile'.metadata = m.metadata /\ kFile'.index = m.metadata \ kBlank
    <3>1. CASE me.op = "reindex"
      <4>1. kHealed' = me.at BY <2>1, <3>1 DEF Finish
      <4>2. kFile'.metadata = m.metadata /\ (kFile'.metadata # {} => kFile'.index = kFile'.metadata \ kBlank)
        <5>1. KHeals' BY DEF KInv
        <5> QED BY <1>1, <4>1, <5>1 DEF KHeals, Repaired
      <4>3. m.metadata # {} BY <1>3, <1>5, <3>1
      <4> QED BY <4>2, <4>3
    <3>2. CASE me.op # "reindex"
      <4>1. kFile' = m BY <2>1, <3>2
      <4>2. me.at \notin kTorn' BY <1>3, <1>5, <3>2 DEF Finish
      <4>3. m.index = m.metadata \ kBlank BY <1>1, <2>2, <4>2 DEF KInv, Rests
      <4> QED BY <4>1, <4>3
    <3> QED BY <3>1, <3>2
  <2>4. kFile'.metadata # Broken /\ kFile'.index # Broken
    BY <1>4, <2>3, NoneIsNoWorker DEF Broken
  <2> QED BY <2>3, <2>4 DEF Loaded, Load
<1> QED BY <1>2, <1>3, <1>5 DEF KWhole

LEMMA StoreHas ==
    ASSUME KTypes, NEW r \in KRequests, kRequest[r] \in KLive
    PROVE  /\ kFile = [metadata |-> kFile.metadata, index |-> kFile.index]
           /\ kRequest[r].at \in KWorkers /\ kRequest[r].at # KNone
           /\ kMemory[kRequest[r].at] = [metadata |-> kMemory[kRequest[r].at].metadata,
                                         index |-> kMemory[kRequest[r].at].index]
           /\ \A step : Go(r, step) => /\ kRequest'[r] = [kRequest[r] EXCEPT !.step = step]
                                       /\ \A q \in KRequests : q # r => kRequest'[q] = kRequest[q]
<1>1. kRequest[r].at \in KWorkers /\ kRequest[r].at # KNone BY NoneIsNoWorker DEF KLive
<1>2. kMemory[kRequest[r].at] \in KStore /\ kFile \in KFiles BY <1>1 DEF KTypes
<1> QED BY <1>1, <1>2 DEF KTypes, KStore, KFiles, Go

LEMMA WholeStep == KInv /\ KWhole /\ [KNext]_knowledge => KWhole'
<1> SUFFICES ASSUME KInv, KWhole, [KNext]_knowledge PROVE KWhole' OBVIOUS
<1>0. KTypes /\ KInv' BY KStepInv DEF KInv
<1>1. CASE UNCHANGED knowledge
  <2>1. UNCHANGED <<kBlank, kFile, kMemory, kRequest, kSplit>> BY <1>1 DEF knowledge
  <2>2. UNCHANGED Loaded BY <2>1 DEF Loaded, Load
  <2>3. \A r \in KRequests : KSaves(r) => KSaves(r)' BY <2>1 DEF KSaves
  <2> QED BY <2>1, <2>2, <2>3 DEF KWhole
<1>2. ASSUME NEW r \in KRequests, NEW w \in KWorkers, UNCHANGED kFile, NEW op, NEW step, NEW d, KBegin(r, w, op, step, d),
             step \in {"list", "next"}
      PROVE  KWhole'
  <2>1. kRequest'[r].at = w /\ kRequest'[r].step = step /\ w # KNone /\ UNCHANGED kSplit
    BY <1>2, NoneIsNoWorker DEF KBegin
  <2>2. KSaves(r)' BY <1>2, <2>1 DEF KSaves
  <2>3. ASSUME NEW q \in KRequests, q # r PROVE KSaves(q)'
    <3>1. CASE kRequest[q] = KIdle
      <4>1. kRequest'[q] = KIdle BY <1>2, <2>3, <3>1 DEF KBegin, Active
      <4> QED BY <4>1 DEF KSaves, KIdle
    <3>2. CASE kRequest[q] # KIdle
      <4> DEFINE x == IF kRequest[q].at = w THEN "here"
                      ELSE IF kRequest[q].beside = "nobody" THEN "elsewhere" ELSE kRequest[q].beside
      <4>1. kRequest[q] \in KLive BY <1>0, <3>2, LiveIs
      <4>2. kRequest'[q] = [kRequest[q] EXCEPT !.beside = x] BY <1>2, <2>3, <3>2 DEF KBegin, Active
      <4>3. x # "nobody" OBVIOUS
      <4> HIDE DEF x
      <4>4. kRequest'[q].beside # "nobody" BY <4>1, <4>2, <4>3 DEF KLive
      <4> QED BY <4>4 DEF KSaves
    <3> QED BY <3>1, <3>2
  <2> QED BY <2>1, <2>2, <2>3 DEF KWhole
<1>3. ASSUME NEW r \in KRequests, ChangeList(r) PROVE KWhole'
  <2>1. kRequest[r].step = "list" /\ Go(r, "dump list") /\ kFile' = [kFile EXCEPT !.metadata = Broken]
    BY <1>3 DEF ChangeList
  <2>2. kRequest[r] \in KLive BY <2>1, MeIs
  <2>3. /\ kRequest'[r] = [kRequest[r] EXCEPT !.step = "dump list"] /\ kRequest[r].at # KNone
        /\ \A q \in KRequests : q # r => kRequest'[q] = kRequest[q]
        /\ kFile'.metadata = Broken /\ UNCHANGED kSplit
    BY <1>0, <2>1, <2>2, StoreHas DEF Go
  <2>4. kRequest'[r].step = "dump list" /\ kRequest'[r].at = kRequest[r].at BY <2>2, <2>3 DEF KLive
  <2>5. KSaves(r)' BY <2>3, <2>4 DEF KSaves
  <2> QED BY <2>3, <2>4, <2>5, WholeMoves
<1>4. ASSUME UNCHANGED kBlank, NEW r \in KRequests, DumpList(r) PROVE KWhole'
  <2> DEFINE me == kRequest[r]
             m == kMemory[me.at]
  <2>1. me.step = "dump list" /\ UNCHANGED kMemory BY <1>4 DEF DumpList
  <2>2. me \in KLive /\ KOrder(me) BY <2>1, MeIs
  <2>3. CASE me.doc = KNone
    <3>1. Finish(r) /\ me.op = "reindex" BY <1>4, <2>2, <2>3 DEF DumpList, KOrder
    <3> QED BY <1>0, <1>4, <2>1, <2>2, <3>1, WholeEnds
  <2>4. CASE me.doc # KNone
    <3>1. PICK step \in {"remove", "filter"} : Go(r, step) BY <1>4, <2>4 DEF DumpList
    <3>2. /\ kRequest'[r] = [me EXCEPT !.step = step] /\ me.at # KNone
          /\ \A q \in KRequests : q # r => kRequest'[q] = kRequest[q]
          /\ UNCHANGED kSplit
      BY <1>0, <2>2, <3>1, StoreHas DEF Go
    <3>3. /\ kRequest'[r].step \in {"remove", "filter"} /\ kRequest'[r].at = me.at
          /\ kRequest'[r].op = me.op /\ kRequest'[r].beside = me.beside
      BY <2>2, <3>2 DEF KLive
    <3>4. kFile.metadata = Broken => kFile'.metadata = m.metadata
      <4>1. PICK content \in Dumped(kFile.metadata, m.metadata) : kFile' = [kFile EXCEPT !.metadata = content]
        BY <1>4 DEF DumpList
      <4> QED BY <1>0, <4>1, DumpedIs DEF KTypes, KFiles
    <3>5. KSaves(r)' BY <2>1, <3>2, <3>3, <3>4 DEF KSaves, KWhole
    <3> QED BY <3>2, <3>3, <3>5, WholeMoves
  <2> QED BY <2>3, <2>4
<1>5. ASSUME NEW r \in KRequests, RemoveFile(r) \/ FilterChunks(r) PROVE KWhole'
  <2> DEFINE me == kRequest[r]
  <2>1. me.step \in {"remove", "filter"} /\ UNCHANGED <<kFile, kMemory, kSplit>>
    BY <1>5 DEF RemoveFile, FilterChunks, Go
  <2>2. me \in KLive BY <2>1, MeIs
  <2>3. /\ \A q \in KRequests : q # r => kRequest'[q] = kRequest[q]
        /\ me.at # KNone /\ kRequest'[r].at = me.at
        /\ kRequest'[r].op = me.op /\ kRequest'[r].beside = me.beside
        /\ kRequest'[r].step \in {"filter", "index"}
    <3>1. CASE RemoveFile(r)
      <4>1. kRequest'[r] = [me EXCEPT !.step = "filter"] BY <1>0, <2>2, <3>1, StoreHas DEF RemoveFile
      <4>2. (\A q \in KRequests : q # r => kRequest'[q] = kRequest[q]) /\ me.at # KNone
        BY <1>0, <2>2, <3>1, StoreHas DEF RemoveFile
      <4> QED BY <2>2, <4>1, <4>2 DEF KLive
    <3>2. CASE FilterChunks(r)
      <4>1. PICK kept : kRequest'[r] = [me EXCEPT !.step = "index", !.kept = kept]
        BY <1>0, <3>2 DEF FilterChunks, KTypes
      <4>2. (\A q \in KRequests : q # r => kRequest'[q] = kRequest[q]) /\ me.at # KNone
        BY <1>0, <2>2, <3>2, StoreHas DEF FilterChunks, KTypes
      <4> QED BY <2>2, <4>1, <4>2 DEF KLive
    <3> QED BY <1>5, <3>1, <3>2
  <2>4. KSaves(r)' BY <2>1, <2>3 DEF KSaves, KWhole
  <2> QED BY <2>1, <2>3, <2>4, WholeMoves
<1>6. ASSUME NEW r \in KRequests, ReplaceChunks(r) PROVE KWhole'
  <2> DEFINE me == kRequest[r]
             m == kMemory[me.at]
  <2>1. me.step = "index" /\ Go(r, "dump index") BY <1>6 DEF ReplaceChunks
  <2>2. me \in KLive BY <2>1, MeIs
  <2>3. /\ kRequest'[r] = [me EXCEPT !.step = "dump index"] /\ me.at # KNone /\ me.at \in KWorkers
        /\ \A q \in KRequests : q # r => kRequest'[q] = kRequest[q]
        /\ UNCHANGED kSplit
    BY <1>0, <2>1, <2>2, StoreHas DEF Go
  <2>4. /\ kRequest'[r].step = "dump index" /\ kRequest'[r].at = me.at
        /\ kRequest'[r].op = me.op /\ kRequest'[r].beside = me.beside
    BY <2>2, <2>3 DEF KLive
  <2>5. kFile'.index = Broken /\ kFile'.metadata = kFile.metadata
    BY <1>0, <1>6 DEF ReplaceChunks, KTypes, KFiles
  <2>6. kMemory'[me.at].metadata = m.metadata
    <3>1. PICK x : kMemory' = [kMemory EXCEPT ![me.at].index = x] BY <1>6 DEF ReplaceChunks
    <3>2. kMemory \in [KWorkers -> KStore] BY <1>0 DEF KTypes
    <3> HIDE DEF me
    <3>3. kMemory'[me.at] = [m EXCEPT !.index = x] /\ m \in KStore BY <2>3, <3>1, <3>2
    <3> HIDE DEF m
    <3> QED BY <3>3 DEF KStore
  <2>7. KSaves(r)' BY <2>1, <2>3, <2>4, <2>5, <2>6 DEF KSaves, KWhole
  <2> QED BY <2>3, <2>4, <2>7, WholeMoves
<1>7. ASSUME UNCHANGED kBlank, NEW r \in KRequests, DumpIndex(r) PROVE KWhole'
  <2> DEFINE me == kRequest[r]
             m == kMemory[me.at]
  <2>1. me.step = "dump index" /\ UNCHANGED kMemory BY <1>7 DEF DumpIndex
  <2>2. me \in KLive BY <2>1, MeIs
  <2>3. CASE me.op = "reindex"
    <3>1. Go(r, "next") BY <1>7, <2>3 DEF DumpIndex
    <3>2. /\ kRequest'[r] = [me EXCEPT !.step = "next"] /\ me.at # KNone
          /\ \A q \in KRequests : q # r => kRequest'[q] = kRequest[q]
          /\ UNCHANGED kSplit
      BY <1>0, <2>2, <3>1, StoreHas DEF Go
    <3>3. kRequest'[r].at = me.at /\ kRequest'[r].op = "reindex" BY <2>2, <2>3, <3>2 DEF KLive
    <3>4. KSaves(r)' BY <3>3 DEF KSaves
    <3> QED BY <3>2, <3>3, <3>4, WholeMoves
  <2>4. CASE me.op # "reindex"
    <3>1. Finish(r) BY <1>7, <2>4 DEF DumpIndex
    <3>2. ASSUME me.beside = "nobody" PROVE kFile' = m
      <4>1. me.at # KNone /\ kFile.metadata = m.metadata /\ kFile.index = Broken
        BY <1>0, <2>1, <2>2, <2>4, <3>2, StoreHas DEF KSaves, KWhole
      <4>2. PICK content \in Dumped(kFile.index, m.index) : kFile' = [kFile EXCEPT !.index = content]
        BY <1>7 DEF DumpIndex
      <4>3. content = m.index BY <4>1, <4>2, DumpedIs
      <4> QED BY <1>0, <2>2, <4>1, <4>2, <4>3, StoreHas DEF KTypes, KFiles
    <3> QED BY <1>0, <1>7, <2>1, <2>2, <2>4, <3>1, <3>2, WholeEnds
  <2> QED BY <2>3, <2>4
<1>8. ASSUME NEW r \in KRequests, NextDocument(r) PROVE KWhole'
  <2> DEFINE me == kRequest[r]
  <2>1. me.step = "next" /\ UNCHANGED kSplit BY <1>8 DEF NextDocument
  <2>2. me \in KLive /\ me.op = "reindex" /\ me.at # KNone BY <1>0, <2>1, MeIs, StoreHas DEF KOrder
  <2>3. /\ \A q \in KRequests : q # r => kRequest'[q] = kRequest[q]
        /\ kRequest'[r].at = me.at /\ kRequest'[r].op = me.op
    <3>1. \A q \in KRequests : q # r => kRequest'[q] = kRequest[q]
      BY <1>0, <1>8 DEF NextDocument, KTypes
    <3>2. \/ \E d : kRequest'[r] = [me EXCEPT !.doc = d, !.todo = @ \ {d}, !.step = "list"]
          \/ \E d : kRequest'[r] = [me EXCEPT !.todo = @ \ {d}]
          \/ kRequest'[r] = [me EXCEPT !.doc = KNone, !.step = "dump list"]
      BY <1>0, <1>8 DEF NextDocument, KTypes
    <3> QED BY <2>2, <3>1, <3>2 DEF KLive
  <2>4. KSaves(r)' BY <2>2, <2>3 DEF KSaves
  <2> QED BY <2>1, <2>2, <2>3, <2>4, WholeMoves
<1>9. ASSUME NEW r \in KRequests, RequestFails(r) PROVE KWhole'
  <2>1. kRequest[r] # KIdle /\ kSplit' = TRUE BY <1>9 DEF RequestFails, Active
  <2>2. kRequest[r].at # KNone BY <1>0, <2>1, LiveIs
  <2>3. kRequest'[r].at = KNone /\ \A q \in KRequests : q # r => kRequest'[q] = kRequest[q]
    BY <1>0, <1>9 DEF RequestFails, KTypes, KIdle
  <2>4. KSaves(r)' BY <2>3 DEF KSaves
  <2>5. ASSUME NEW q \in KRequests, q # r PROVE KSaves(q)' BY <2>2, <2>3, <2>5, OthersAreNotAlone
  <2> QED BY <2>1, <2>4, <2>5 DEF KWhole
<1>10. ASSUME UNCHANGED kBlank, NEW w \in KWorkers, WorkerRestarts(w) PROVE KWhole'
  <2>1. /\ \A q \in KRequests : kRequest'[q] = IF kRequest[q].at = w THEN KIdle ELSE kRequest[q]
        /\ kMemory' = [kMemory EXCEPT ![w] = Loaded] /\ UNCHANGED kFile
        /\ kSplit' = (kSplit \/ ~Quiet(w))
    BY <1>10 DEF WorkerRestarts
  <2>2. ASSUME NEW q \in KRequests PROVE KSaves(q)'
    <3>1. CASE kRequest[q].at = w
      <4>1. kRequest'[q] = KIdle BY <2>1, <3>1
      <4> QED BY <4>1 DEF KSaves, KIdle
    <3>2. CASE kRequest[q].at # w
      <4>1. kMemory'[kRequest[q].at] = kMemory[kRequest[q].at] BY <1>0, <2>1, <3>2 DEF KTypes
      <4> QED BY <2>1, <3>2, <4>1 DEF KSaves, KWhole
    <3> QED BY <3>1, <3>2
  <2>3. ASSUME ~kSplit', \A q \in KRequests : kRequest'[q].at = KNone
        PROVE  Loaded'.index = Loaded'.metadata \ kBlank
    <3>1. ~kSplit /\ \A q \in KRequests : kRequest[q].at # w BY <1>0, <2>1, <2>3, QuietIs DEF KWhole
    <3>2. \A q \in KRequests : kRequest[q].at = KNone BY <2>1, <2>3, <3>1
    <3>3. UNCHANGED Loaded BY <2>1 DEF Loaded, Load
    <3> QED BY <3>1, <3>2, <3>3 DEF KWhole
  <2>4. kSplit' \in BOOLEAN BY <2>1 DEF KWhole
  <2> QED BY <1>10, <2>2, <2>3, <2>4 DEF KWhole
<1>11. CASE KNext
  <2>1. UNCHANGED kBlank BY <1>11 DEF KNext
  <2>2. ASSUME NEW r \in KRequests, NEW w \in KWorkers, NEW d \in KDocuments, RagUpload(r, w, d) \/ RagDelete(r, w, d)
        PROVE  KWhole'
    <3>1. UNCHANGED kFile /\ \E op : KBegin(r, w, op, "list", d) BY <2>2 DEF RagUpload, RagDelete
    <3> QED BY <1>2, <3>1
  <2>3. ASSUME NEW r \in KRequests, NEW w \in KWorkers, RagReindex(r, w) PROVE KWhole'
    <3>1. UNCHANGED kFile /\ KBegin(r, w, "reindex", "next", KNone) BY <2>3 DEF RagReindex
    <3> QED BY <1>2, <3>1
  <2> QED BY <1>3, <1>4, <1>5, <1>6, <1>7, <1>8, <1>9, <1>10, <1>11, <2>1, <2>2, <2>3 DEF KNext
<1> QED BY <1>1, <1>11

LEMMA WholeInit == KInit => KWhole
<1> SUFFICES ASSUME KInit PROVE KWhole OBVIOUS
<1>1. kFile = [metadata |-> {}, index |-> {}] /\ kSplit = FALSE /\ \A r \in KRequests : kRequest[r].at = KNone
  BY DEF KInit, KIdle
<1>2. Loaded.index = {} /\ Loaded.metadata = {} BY <1>1 DEF Loaded, Load
<1> QED BY <1>1, <1>2 DEF KWhole, KSaves

(* What a worker at rest searches is what it lists, unless requests           *)
(* overlapped or failed in it, or it started from files that one was writing  *)
(* or that the last one had split; workers that write the files in turn, each *)
(* from a list of its own, leave files that agree.  And a re-indexing that    *)
(* nobody disturbs makes memory, files and disk agree.  For any number of     *)
(* workers, requests and documents: rag_service.py, add_document,             *)
(* delete_document, reindex_all, and the loading of the files.                *)
THEOREM SearchFindsTheList == KSpec => []SearchedIsListed
<1>1. KInv => SearchedIsListed
  <2> SUFFICES ASSUME KInv PROVE SearchedIsListed OBVIOUS
  <2>1. ASSUME NEW w \in KWorkers \ kTorn, Quiet(w) PROVE RetrieveContext(w) = kMemory[w].metadata \ kBlank
    BY <2>1, QuietIs DEF KInv, Rests, RetrieveContext
  <2> QED BY <2>1 DEF KInv, KHeals, Repaired, SearchedIsListed
<1> QED BY <1>1, KInitInv, KStepInv, WholeInit, WholeStep, PTL DEF KSpec

(* What torn and re-indexed workers there are.                                *)
KBounded == kTorn \subseteq KWorkers /\ kServed \in 0..KMaxServed

LEMMA KBoundedStep == KInv /\ KBounded /\ [KNext]_knowledge => KBounded'
<1> SUFFICES ASSUME KInv, KBounded, [KNext]_knowledge PROVE KBounded'
  OBVIOUS
<1>0. KMaxServed \in Nat /\ KTypes
  BY KAssumption DEF KInv
<1>1. CASE UNCHANGED knowledge
  BY <1>1 DEF knowledge, KBounded
<1>2. ASSUME UNCHANGED <<kTorn, kServed>> PROVE KBounded'
  BY <1>2 DEF KBounded
<1>3. ASSUME kServed < KMaxServed, kServed' = kServed + 1, kTorn' \subseteq KWorkers PROVE KBounded'
  BY <1>0, <1>3 DEF KBounded
<1>4. ASSUME NEW r \in KRequests, NEW w \in KWorkers,
             \/ RagReindex(r, w)
             \/ \E d \in KDocuments : RagUpload(r, w, d) \/ RagDelete(r, w, d)
      PROVE  KBounded'
  <2>1. \E op, step, doc : KBegin(r, w, op, step, doc)
    BY <1>4 DEF RagReindex, RagUpload, RagDelete
  <2>2. /\ kServed < KMaxServed /\ kServed' = kServed + 1
        /\ kTorn' = IF Quiet(w) THEN kTorn ELSE kTorn \cup {w}
    BY <2>1 DEF KBegin
  <2>3. kTorn' \subseteq KWorkers
    BY <2>2 DEF KBounded
  <2> QED BY <1>3, <2>2, <2>3
<1>5. ASSUME NEW r \in KRequests, NEW step, Go(r, step) PROVE KBounded'
  BY <1>2, <1>5 DEF Go
<1>6. ASSUME NEW r \in KRequests, Finish(r) PROVE KBounded'
  <2>1. kTorn' \subseteq kTorn /\ UNCHANGED kServed
    BY <1>6 DEF Finish
  <2> QED BY <2>1 DEF KBounded
<1>7. ASSUME NEW r \in KRequests,
             ChangeList(r) \/ DumpList(r) \/ RemoveFile(r) \/ ReplaceChunks(r) \/ DumpIndex(r)
      PROVE  KBounded'
  <2>1. Finish(r) \/ \E step : Go(r, step)
    BY <1>7 DEF ChangeList, DumpList, RemoveFile, ReplaceChunks, DumpIndex
  <2> QED BY <1>5, <1>6, <2>1
<1>8. ASSUME NEW r \in KRequests, FilterChunks(r) \/ NextDocument(r) PROVE KBounded'
  BY <1>2, <1>8 DEF FilterChunks, NextDocument
<1>9. ASSUME NEW r \in KRequests, RequestFails(r) PROVE KBounded'
  <2>1. kTorn' = kTorn \cup {kRequest[r].at} /\ UNCHANGED kServed /\ kRequest[r] # KIdle
    BY <1>9 DEF RequestFails, Active
  <2>2. kRequest[r].at \in KWorkers
    BY <1>0, <2>1, LiveIs
  <2> QED BY <2>1, <2>2 DEF KBounded
<1>10. ASSUME NEW w \in KWorkers, WorkerRestarts(w) PROVE KBounded'
  <2>1. kServed < KMaxServed /\ kServed' = kServed + 1 /\ kTorn' \subseteq kTorn \cup {w}
    BY <1>10 DEF WorkerRestarts
  <2> QED BY <1>3, <2>1 DEF KBounded
<1> QED BY <1>1, <1>4, <1>7, <1>8, <1>9, <1>10 DEF KNext

(* The knowledge base keeps its types: the files hold documents or nothing    *)
(* that can be read, each worker's memory and what a request carries hold     *)
(* documents, and only workers are torn or have re-indexed.                   *)
THEOREM KnowledgeTypeCorrect == KSpec => []KTypeOK
<1>1. KInit => KBounded
  BY KAssumption DEF KInit, KBounded
<1>2. KInv /\ KWhole /\ KBounded => KTypeOK
  <2> SUFFICES ASSUME KInv, KWhole, KBounded PROVE KTypeOK
    OBVIOUS
  <2>1. KTypes /\ KHeals
    BY DEF KInv
  <2>2. kBlank \cup kDisk \subseteq KDocuments /\ kTorn \subseteq KWorkers /\ kServed \in 0..KMaxServed
    BY <2>1 DEF KTypes, KBounded
  <2>3. kHealed \in KWorkers \cup {KNone}
    BY <2>1 DEF KHeals
  <2>4. /\ kFile.metadata \in (SUBSET KDocuments) \cup {Broken}
        /\ kFile.index \in (SUBSET KDocuments) \cup {Broken}
    BY <2>1 DEF KTypes, KFiles
  <2>5. ASSUME NEW w \in KWorkers
        PROVE  kMemory[w].metadata \subseteq KDocuments /\ kMemory[w].index \subseteq KDocuments
    <3>1. kMemory[w] \in KStore
      BY <2>1 DEF KTypes
    <3> QED BY <3>1 DEF KStore
  <2>6. ASSUME NEW t \in {"metadata", "index"}
        PROVE  /\ kFile[t] \in (SUBSET KDocuments) \cup {Broken}
               /\ \A w \in KWorkers : kMemory[w][t] \subseteq KDocuments
    <3>1. CASE t = "metadata"
      BY <2>4, <2>5, <3>1
    <3>2. CASE t = "index"
      BY <2>4, <2>5, <3>2
    <3> QED BY <3>1, <3>2
  <2>7. ASSUME NEW r \in Active
        PROVE  /\ kRequest[r].at \in KWorkers /\ kRequest[r].doc \in KDocuments \cup {KNone}
               /\ kRequest[r].todo \cup kRequest[r].kept \subseteq KDocuments
               /\ kRequest[r].beside \in {"nobody", "elsewhere", "here"}
    <3>1. r \in KRequests /\ kRequest[r] # KIdle
      BY DEF Active
    <3>2. kRequest[r] \in KLive
      BY <2>1, <3>1, LiveIs
    <3> QED BY <3>2 DEF KLive
  <2>8. kSplit \in BOOLEAN
    BY DEF KWhole
  <2> QED BY <2>2, <2>3, <2>6, <2>7, <2>8 DEF KTypeOK
<1> QED BY <1>1, <1>2, KInitInv, KStepInv, WholeInit, WholeStep, KBoundedStep, PTL DEF KSpec

-----------------------------------------------------------------------------
(* The subtree of an account.                                                 *)

LEMMA PopIs ==
    ASSUME NEW S, NEW s \in Seq(S), s # <<>>
    PROVE  /\ Last(s) \in S /\ Front(s) \in Seq(S)
           /\ Range(s) = Range(Front(s)) \cup {Last(s)}
<1>1. Len(s) \in Nat \ {0} /\ DOMAIN s = 1..Len(s) /\ Last(s) = s[Len(s)]
  BY DEF Last
<1>2. Last(s) \in S BY <1>1
<1>3. /\ Front(s) \in Seq(S) /\ DOMAIN Front(s) = 1..Len(s) - 1
      /\ \A i \in 1..Len(s) - 1 : Front(s)[i] = s[i]
  BY <1>1 DEF Front
<1>4. ASSUME NEW i \in DOMAIN s PROVE s[i] \in Range(Front(s)) \cup {Last(s)}
  <2>1. CASE i = Len(s) BY <1>1, <2>1
  <2>2. CASE i # Len(s)
    <3>1. i \in 1..Len(s) - 1 BY <1>1, <2>2
    <3> QED BY <1>3, <3>1 DEF Range
  <2> QED BY <2>1, <2>2
<1>5. Range(s) \subseteq Range(Front(s)) \cup {Last(s)} BY <1>4 DEF Range
<1>6. ASSUME NEW i \in DOMAIN Front(s) PROVE Front(s)[i] \in Range(s)
  <2>1. i \in DOMAIN s /\ Front(s)[i] = s[i] BY <1>1, <1>3
  <2> QED BY <2>1 DEF Range
<1>7. Last(s) \in Range(s)
  <2>1. Len(s) \in DOMAIN s BY <1>1
  <2> QED BY <1>1, <2>1 DEF Range
<1>8. Range(Front(s)) \cup {Last(s)} \subseteq Range(s) BY <1>6, <1>7 DEF Range
<1> QED BY <1>2, <1>3, <1>5, <1>8

LEMMA JoinIs ==
    ASSUME NEW S, NEW s \in Seq(S), NEW t \in Seq(S)
    PROVE  /\ s \o t \in Seq(S) /\ Range(s \o t) = Range(s) \cup Range(t)
           /\ IsInjective(s) /\ IsInjective(t) /\ Range(s) \cap Range(t) = {} => IsInjective(s \o t)
<1> DEFINE r == s \o t
<1>1. /\ r \in Seq(S) /\ Len(s) \in Nat /\ Len(t) \in Nat
      /\ DOMAIN s = 1..Len(s) /\ DOMAIN t = 1..Len(t) /\ DOMAIN r = 1..Len(s) + Len(t)
      /\ \A i \in 1..Len(s) + Len(t) : r[i] = IF i <= Len(s) THEN s[i] ELSE t[i - Len(s)]
  OBVIOUS
<1> HIDE DEF r
<1>2. ASSUME NEW i \in DOMAIN r
      PROVE  \/ i \in DOMAIN s /\ r[i] = s[i]
             \/ i - Len(s) \in DOMAIN t /\ r[i] = t[i - Len(s)] /\ i > Len(s)
  BY <1>1
<1>3. ASSUME NEW i \in DOMAIN s PROVE i \in DOMAIN r /\ r[i] = s[i]
  BY <1>1
<1>4. ASSUME NEW i \in DOMAIN t PROVE i + Len(s) \in DOMAIN r /\ r[i + Len(s)] = t[i]
  <2>1. i + Len(s) \in 1..Len(s) + Len(t) /\ ~(i + Len(s) <= Len(s)) /\ i + Len(s) - Len(s) = i BY <1>1
  <2> QED BY <1>1, <2>1
<1>5. Range(r) \subseteq Range(s) \cup Range(t) BY <1>2 DEF Range
<1>6. Range(s) \subseteq Range(r) BY <1>3 DEF Range
<1>7. Range(t) \subseteq Range(r) BY <1>4 DEF Range
<1>8. ASSUME IsInjective(s), IsInjective(t), Range(s) \cap Range(t) = {} PROVE IsInjective(r)
  <2> SUFFICES ASSUME NEW i \in DOMAIN r, NEW j \in DOMAIN r, r[i] = r[j] PROVE i = j BY DEF IsInjective
  <2>0. i \in Int /\ j \in Int /\ Len(s) \in Int BY <1>1
  <2>1. CASE i \in DOMAIN s /\ r[i] = s[i] /\ j \in DOMAIN s /\ r[j] = s[j]
    BY <1>8, <2>1 DEF IsInjective
  <2>2. CASE i - Len(s) \in DOMAIN t /\ r[i] = t[i - Len(s)] /\ j - Len(s) \in DOMAIN t /\ r[j] = t[j - Len(s)]
    <3>1. i - Len(s) = j - Len(s) BY <1>8, <2>2 DEF IsInjective
    <3> QED BY <2>0, <3>1
  <2>3. CASE i \in DOMAIN s /\ r[i] = s[i] /\ j - Len(s) \in DOMAIN t /\ r[j] = t[j - Len(s)]
    <3>1. r[i] \in Range(s) /\ r[i] \in Range(t) BY <2>3 DEF Range
    <3> QED BY <1>8, <3>1
  <2>4. CASE j \in DOMAIN s /\ r[j] = s[j] /\ i - Len(s) \in DOMAIN t /\ r[i] = t[i - Len(s)]
    <3>1. r[i] \in Range(s) /\ r[i] \in Range(t) BY <2>4 DEF Range
    <3> QED BY <1>8, <3>1
  <2> QED BY <1>2, <2>1, <2>2, <2>3, <2>4
<1> QED BY <1>1, <1>5, <1>6, <1>7, <1>8 DEF r

LEMMA SetSeqIs ==
    ASSUME NEW S, IsFiniteSet(S)
    PROVE  /\ SetToSeq(S) \in Seq(S) /\ Range(SetToSeq(S)) = S
           /\ IsInjective(SetToSeq(S)) /\ Len(SetToSeq(S)) = Cardinality(S)
<1> DEFINE n == Cardinality(S)
           q == SetToSeq(S)
<1>1. n \in Nat /\ ExistsBijection(1..n, S) BY FS_CardinalityType
<1>2. PICK f : f \in Bijection(1..n, S) BY <1>1 DEF ExistsBijection
<1>3. f \in [1..n -> S] /\ IsInjective(f) BY <1>2 DEF Bijection, Injection
<1>4. q \in [1..n -> S] /\ IsInjective(q) BY <1>3 DEF SetToSeq
<1> HIDE DEF q
<1>5. Cardinality(1..n) = n /\ IsFiniteSet(1..n) BY <1>1, FS_Interval
<1> HIDE DEF n
<1>6. q \in Injection(1..n, S) BY <1>4 DEF Injection
<1>7. q \in Surjection(1..n, S) BY <1>5, <1>6, FS_Injection DEF n
<1>8. \A x \in S : \E i \in 1..n : q[i] = x BY <1>7 DEF Surjection
<1>9. DOMAIN q = 1..n BY <1>4
<1>10. Range(q) = S BY <1>4, <1>8, <1>9 DEF Range
<1>11. q \in Seq(S) BY <1>1, <1>4
<1>12. Len(q) = n BY <1>1, <1>9, <1>11
<1> QED BY <1>4, <1>10, <1>11, <1>12 DEF q, n

-----------------------------------------------------------------------------
UTypes ==
    /\ uParent \in [UUsers -> UAddresses \cup {UNone}]
    /\ uStack \in Seq(UUsers) /\ uPending \in Seq(UUsers) /\ uListed \in Seq(UUsers)
    /\ uSubtree \subseteq UUsers /\ uVisited \subseteq UUsers

Under(root) == {root} \cup Below({root})

(* The set has only who is below, and everybody right below one that is off   *)
(* the stack.                                                                 *)
UCollected(root) ==
    /\ root \in uSubtree /\ uSubtree \subseteq Under(root) /\ Range(uStack) \subseteq uSubtree
    /\ \A u \in uSubtree : u \in Range(uStack) \/ Children(u) \subseteq uSubtree

(* The list has once whoever is right below one that was visited, and all of  *)
(* them were visited or are pending.                                          *)
UListing(root) ==
    /\ root \in uVisited \cup Range(uPending)
    /\ uVisited \cup Range(uPending) \subseteq Under(root)
    /\ Range(uListed) = {u \in UUsers : uParent[u] \in uVisited} /\ IsInjective(uListed)
    /\ Range(uListed) \subseteq uVisited \cup Range(uPending)

UInv == UTypes /\ \E root \in UUsers : UCollected(root) /\ UListing(root)

(* Below: closed under children, and in every set that is.                    *)
LEMMA BelowIsClosed ==
    ASSUME NEW root \in UUsers
    PROVE  /\ Below({root}) \subseteq UUsers
           /\ \A u \in Under(root) : Children(u) \subseteq Below({root})
<1>1. Below({root}) \subseteq UUsers BY DEF Below
<1>2. ASSUME NEW u \in Under(root), NEW w \in Children(u) PROVE w \in Below({root})
  <2>1. w \in UUsers /\ uParent[w] = u BY <1>2 DEF Children
  <2>2. ASSUME NEW S \in SUBSET UUsers, \A x \in UUsers : uParent[x] \in {root} \cup S => x \in S PROVE w \in S
    <3>1. u \in {root} \cup S BY <1>2, <2>2 DEF Under, Below
    <3> QED BY <2>1, <2>2, <3>1
  <2> QED BY <2>1, <2>2 DEF Below
<1> QED BY <1>1, <1>2

LEMMA BelowIsLeast ==
    ASSUME NEW root \in UUsers, NEW S \in SUBSET UUsers,
           \A w \in UUsers : uParent[w] \in {root} \cup S => w \in S
    PROVE  Below({root}) \subseteq S
BY DEF Below

LEMMA ParentIsAbove ==
    ASSUME NEW root \in UUsers, NEW u \in Below({root}) PROVE uParent[u] \in Under(root)
<1> SUFFICES ASSUME uParent[u] \notin Under(root) PROVE FALSE OBVIOUS
<1> DEFINE S == Below({root}) \ {u}
<1>1. ASSUME NEW w \in UUsers, uParent[w] \in {root} \cup S PROVE w \in S
  <2>1. uParent[w] \in Under(root) BY <1>1 DEF Under
  <2>2. w \in Below({root}) BY <2>1, BelowIsClosed DEF Children
  <2> QED BY <2>1, <2>2
<1>2. S \in SUBSET UUsers BY BelowIsClosed
<1>3. Below({root}) \subseteq S BY <1>1, <1>2, BelowIsLeast
<1> QED BY <1>3

LEMMA ChildrenAreFinite == ASSUME NEW u PROVE Children(u) \subseteq UUsers /\ IsFiniteSet(Children(u))
BY UAssumption, FS_Subset DEF Children

LEMMA OneIs == ASSUME NEW S, NEW x \in S PROVE <<x>> \in Seq(S) /\ Range(<<x>>) = {x}
BY DEF Range

LEMMA EmptyIs == ASSUME NEW S PROVE <<>> \in Seq(S) /\ Range(<<>>) = {} /\ IsInjective(<<>>)
BY DEF Range, IsInjective

LEMMA UInitInv == UInit => UInv
<1> SUFFICES ASSUME UInit PROVE UInv OBVIOUS
<1>1. PICK u \in UUsers : /\ uStack = <<u>> /\ uSubtree = {u}
                          /\ uPending = <<u>> /\ uVisited = {} /\ uListed = <<>>
  BY DEF UInit
<1>2. UTypes BY <1>1, OneIs, EmptyIs DEF UInit, UTypes
<1>3. UCollected(u) BY <1>1, OneIs DEF UCollected, Under
<1>4. UListing(u) BY <1>1, OneIs, EmptyIs DEF UListing, Under
<1> QED BY <1>2, <1>3, <1>4 DEF UInv

LEMMA CollectKeeps == ASSUME UInv, CollectSubtree PROVE UInv'
<1> DEFINE top == Last(uStack)
           new == Children(top) \ uSubtree
<1>1. PICK root \in UUsers : UCollected(root) /\ UListing(root) BY DEF UInv
<1>2. /\ uSubtree' = uSubtree \cup new /\ uStack' = Front(uStack) \o SetToSeq(new)
      /\ UNCHANGED <<uParent, uPending, uVisited, uListed>>
  BY DEF CollectSubtree
<1>3. /\ top \in UUsers /\ Front(uStack) \in Seq(UUsers)
      /\ Range(uStack) = Range(Front(uStack)) \cup {top}
  BY PopIs DEF CollectSubtree, UInv, UTypes
<1>4. IsFiniteSet(new) /\ new \subseteq UUsers
  <2>1. new \in SUBSET Children(top) OBVIOUS
  <2> QED BY <2>1, ChildrenAreFinite, FS_Subset
<1>5. SetToSeq(new) \in Seq(UUsers) /\ Range(SetToSeq(new)) = new
  <2>1. SetToSeq(new) \in Seq(new) /\ Range(SetToSeq(new)) = new BY <1>4, SetSeqIs
  <2>2. Seq(new) \subseteq Seq(UUsers) BY <1>4
  <2> QED BY <2>1, <2>2
<1>6. uStack' \in Seq(UUsers) /\ Range(uStack') = Range(Front(uStack)) \cup new
  <2> DEFINE a == Front(uStack)
             b == SetToSeq(new)
  <2>1. a \in Seq(UUsers) /\ b \in Seq(UUsers) /\ uStack' = a \o b /\ Range(b) = new BY <1>2, <1>3, <1>5
  <2> HIDE DEF a, b
  <2>2. a \o b \in Seq(UUsers) /\ Range(a \o b) = Range(a) \cup Range(b) BY <2>1, JoinIs
  <2> QED BY <2>1, <2>2 DEF a
<1>7. UTypes' BY <1>2, <1>4, <1>6 DEF UInv, UTypes
<1>8. \A u : Children(u)' = Children(u) BY <1>2 DEF Children
<1>9. Under(root)' = Under(root) BY <1>2 DEF Under, Below
<1>10. top \in Range(uStack) BY <1>3
<1> HIDE DEF top, new
<1>11. top \in uSubtree /\ top \in Under(root) BY <1>1, <1>10 DEF UCollected
<1>12. new \subseteq Under(root) BY <1>11, BelowIsClosed DEF new, Under
<1>13. UCollected(root)'
  <2>1. root \in uSubtree' /\ uSubtree' \subseteq Under(root)' BY <1>1, <1>2, <1>9, <1>12 DEF UCollected
  <2>2. Range(uStack') \subseteq uSubtree'
    BY <1>1, <1>2, <1>3, <1>6 DEF UCollected
  <2>3. ASSUME NEW u \in uSubtree' PROVE u \in Range(uStack') \/ Children(u)' \subseteq uSubtree'
    <3>1. CASE u = top
      <4>1. Children(u) \subseteq uSubtree' BY <1>2, <3>1 DEF new
      <4> QED BY <1>8, <4>1
    <3>2. CASE u \in new BY <1>6, <3>2
    <3>3. CASE u \in uSubtree /\ u # top
      <4>1. u \in Range(uStack) \/ Children(u) \subseteq uSubtree BY <1>1, <3>3 DEF UCollected
      <4>2. u \in Range(uStack) => u \in Range(uStack') BY <1>3, <1>6, <3>3
      <4> QED BY <1>2, <1>8, <4>1, <4>2
    <3> QED BY <1>2, <2>3, <3>1, <3>2, <3>3
  <2> QED BY <2>1, <2>2, <2>3 DEF UCollected
<1>14. UListing(root)' BY <1>1, <1>2, <1>9 DEF UListing
<1> QED BY <1>7, <1>13, <1>14 DEF UInv

LEMMA ListKeeps == ASSUME UInv, ListDescendants PROVE UInv'
<1> DEFINE current == Last(uPending)
           rest == Front(uPending)
           below == SetToSeq(Children(current))
<1>1. PICK root \in UUsers : UCollected(root) /\ UListing(root) BY DEF UInv
<1>2. /\ UNCHANGED <<uParent, uStack, uSubtree>>
      /\ current \in uVisited => uPending' = rest /\ UNCHANGED <<uVisited, uListed>>
      /\ current \notin uVisited => /\ uVisited' = uVisited \cup {current}
                                   /\ uListed' = uListed \o below
                                   /\ uPending' = rest \o below
  BY DEF ListDescendants
<1>3. /\ current \in UUsers /\ rest \in Seq(UUsers) /\ uListed \in Seq(UUsers)
      /\ Range(uPending) = Range(rest) \cup {current}
  BY PopIs DEF ListDescendants, UInv, UTypes
<1>4. below \in Seq(UUsers) /\ Range(below) = Children(current) /\ IsInjective(below)
  <2>1. /\ below \in Seq(Children(current)) /\ Range(below) = Children(current) /\ IsInjective(below)
        /\ Children(current) \subseteq UUsers
    BY ChildrenAreFinite, SetSeqIs
  <2>2. Seq(Children(current)) \subseteq Seq(UUsers) BY <2>1
  <2> QED BY <2>1, <2>2
<1>5. \A u : Children(u)' = Children(u) BY <1>2 DEF Children
<1>6. Under(root)' = Under(root) BY <1>2 DEF Under, Below
<1> HIDE DEF current, rest, below
<1>7. UCollected(root)' BY <1>1, <1>2, <1>5, <1>6 DEF UCollected
<1>8. CASE current \in uVisited
  <2>1. UListing(root)' BY <1>1, <1>2, <1>3, <1>6, <1>8 DEF UListing
  <2>2. UTypes' BY <1>2, <1>3, <1>8 DEF UInv, UTypes
  <2> QED BY <1>7, <2>1, <2>2 DEF UInv
<1>9. CASE current \notin uVisited
  <2>1. rest \o below \in Seq(UUsers) /\ Range(rest \o below) = Range(rest) \cup Children(current)
    BY <1>3, <1>4, JoinIs
  <2>2. current \in Under(root) BY <1>1, <1>3 DEF UListing
  <2>3. Range(uListed) \cap Children(current) = {}
    BY <1>1, <1>9 DEF UListing, Children
  <2>4. /\ uListed \o below \in Seq(UUsers) /\ Range(uListed \o below) = Range(uListed) \cup Children(current)
        /\ IsInjective(uListed \o below)
    <3>1. IsInjective(uListed) BY <1>1 DEF UListing
    <3> QED BY <1>3, <1>4, <2>3, <3>1, JoinIs
  <2>5. UTypes' BY <1>2, <1>3, <1>9, <2>1, <2>4 DEF UInv, UTypes
  <2>6. Children(current) \subseteq Under(root) BY <2>2, BelowIsClosed DEF Under
  <2>7. UListing(root)'
    <3>1. root \in uVisited' \cup Range(uPending') BY <1>1, <1>2, <1>3, <1>9, <2>1 DEF UListing
    <3>2. uVisited' \cup Range(uPending') \subseteq Under(root)'
      BY <1>1, <1>2, <1>3, <1>6, <1>9, <2>1, <2>2, <2>6 DEF UListing
    <3>3. Range(uListed') = {u \in UUsers : uParent'[u] \in uVisited'}
      BY <1>1, <1>2, <1>9, <2>4 DEF UListing, Children
    <3>4. IsInjective(uListed') BY <1>2, <1>9, <2>4
    <3>5. Range(uListed') \subseteq uVisited' \cup Range(uPending')
      BY <1>1, <1>2, <1>3, <1>9, <2>1, <2>4 DEF UListing
    <3> QED BY <3>1, <3>2, <3>3, <3>4, <3>5 DEF UListing
  <2> QED BY <1>7, <2>5, <2>7 DEF UInv
<1> QED BY <1>8, <1>9

LEMMA UStepInv == UInv /\ [UNext]_walk => UInv'
<1> SUFFICES ASSUME UInv, [UNext]_walk PROVE UInv' OBVIOUS
<1>1. CASE UNCHANGED walk
  <2>1. PICK root \in UUsers : UCollected(root) /\ UListing(root) BY DEF UInv
  <2>2. /\ uParent' = uParent /\ uStack' = uStack /\ uSubtree' = uSubtree
        /\ uPending' = uPending /\ uVisited' = uVisited /\ uListed' = uListed
    BY <1>1 DEF walk
  <2>3. Under(root)' = Under(root) /\ \A u : Children(u)' = Children(u) BY <2>2 DEF Under, Below, Children
  <2>4. UCollected(root)' /\ UListing(root)' BY <2>1, <2>2, <2>3 DEF UCollected, UListing
  <2>5. UTypes' BY <2>2 DEF UInv, UTypes
  <2> QED BY <2>4, <2>5 DEF UInv
<1> QED BY <1>1, CollectKeeps, ListKeeps DEF UNext

(* Whatever the table of users says, both walks find exactly who is below an  *)
(* account, the list each of them once, and the account sees every active     *)
(* vehicle that they see: resolve_filtered_vehicles,                          *)
(* get_all_descendant_users_logic.                                            *)
THEOREM WalksFindTheSubtree == USpec => []SubtreeIsComplete
<1>1. UInv => SubtreeIsComplete
  <2> SUFFICES ASSUME UInv, uStack = <<>>, uPending = <<>> PROVE
        \E root \in uSubtree :
            /\ uSubtree = {root} \cup Below({root})
            /\ {uListed[i] : i \in DOMAIN uListed} = Below({root})
            /\ Len(uListed) = Cardinality(Below({root}))
            /\ \A u \in Below({root}) : SeenByAdmin(u) \cup SeenByUser(u) \subseteq SeenByMain
    BY DEF SubtreeIsComplete
  <2>1. PICK root \in UUsers : UCollected(root) /\ UListing(root) BY DEF UInv
  <2>2. Range(uStack) = {} /\ Range(uPending) = {} BY DEF Range
  <2>3. \A w \in UUsers : uParent[w] \in {root} \cup uSubtree => w \in uSubtree
    BY <2>1, <2>2 DEF UCollected, Children
  <2>4. uSubtree = Under(root)
    <3>1. Below({root}) \subseteq uSubtree BY <2>3, BelowIsLeast DEF UInv, UTypes
    <3> QED BY <2>1, <3>1 DEF UCollected, Under
  <2>5. Range(uListed) = Below({root})
    <3>1. uVisited \subseteq Under(root) /\ root \in uVisited /\ Range(uListed) \subseteq uVisited
          /\ Range(uListed) = {u \in UUsers : uParent[u] \in uVisited}
      BY <2>1, <2>2 DEF UListing
    <3>2. Range(uListed) \subseteq Below({root})
      BY <3>1, BelowIsClosed DEF Children
    <3>3. \A w \in UUsers : uParent[w] \in {root} \cup Range(uListed) => w \in Range(uListed) BY <3>1
    <3>4. Below({root}) \subseteq Range(uListed)
      <4>1. Range(uListed) \in SUBSET UUsers BY <3>1
      <4> QED BY <3>3, <4>1, BelowIsLeast
    <3> QED BY <3>2, <3>4
  <2>6. Len(uListed) = Cardinality(Range(uListed))
    <3>1. uListed \in [1..Len(uListed) -> UUsers] /\ IsInjective(uListed) /\ Len(uListed) \in Nat
      BY <2>1 DEF UInv, UTypes, UListing
    <3>2. uListed \in Injection(1..Len(uListed), UUsers) BY <3>1 DEF Injection
    <3>3. uListed \in Bijection(1..Len(uListed), Range(uListed)) BY <3>2, Fun_InjMeansBijImage
    <3>4. ExistsBijection(1..Len(uListed), Range(uListed)) BY <3>3 DEF ExistsBijection
    <3>5. IsFiniteSet(1..Len(uListed)) /\ Cardinality(1..Len(uListed)) = Len(uListed)
      <4> DEFINE n == Len(uListed)
      <4>1. n \in Nat BY <3>1
      <4> HIDE DEF n
      <4>2. IsFiniteSet(1..n) /\ Cardinality(1..n) = n BY <4>1, FS_Interval
      <4> QED BY <4>2 DEF n
    <3> QED BY <3>4, <3>5, FS_Bijection
  <2>7. ASSUME NEW u \in Below({root}) PROVE SeenByAdmin(u) \cup SeenByUser(u) \subseteq SeenByMain
    <3>1. u \in UUsers /\ u \in uSubtree BY <2>4, <2>7, BelowIsClosed DEF Under
    <3>2. uParent[u] \in uSubtree
      <4>1. uParent[u] \in Under(root) BY <2>7, ParentIsAbove
      <4> QED BY <2>4, <4>1
    <3> QED BY <3>1, <3>2 DEF SeenByAdmin, SeenByUser, SeenByMain
  <2> QED BY <2>1, <2>4, <2>5, <2>6, <2>7 DEF UCollected, Under, Range
<1> QED BY <1>1, UInitInv, UStepInv, PTL DEF USpec

(* The walks go over users only, and write nothing of the table they walk.    *)
THEOREM WalkTypeCorrect == USpec => []UTypeOK
<1> DEFINE Owners == uOwner \in [UVehicles -> UAddresses]
<1>1. UInit => Owners
  BY DEF UInit
<1>2. Owners /\ [UNext]_walk => Owners'
  BY DEF UNext, CollectSubtree, ListDescendants, walk
<1>3. UInv /\ Owners => UTypeOK
  BY DEF UInv, UTypes, UTypeOK
<1> HIDE DEF Owners
<1> QED BY <1>1, <1>2, <1>3, UInitInv, UStepInv, PTL DEF USpec

=============================================================================
