---------------------------- MODULE TaskStatusProofs ----------------------------
(***************************************************************************)
(* Theorems about TaskStatus: its types, and that the schedule time is     *)
(* never lost, for any number of Jobs, edits and lost CronJobs.            *)
(***************************************************************************)
EXTENDS TaskStatus, TLAPS

LEMMA NothingTyped == NoStatus \in StatusType /\ NoCronJob \in CronJobType
BY DEF NoStatus, NoCronJob, StatusType, CronJobType

(* What a status becomes is a status. *)
LEMMA UpdatedTyped ==
    ASSUME NEW c \in CronJobType, NEW st \in StatusType, clock \in Nat
    PROVE  /\ UpdatedStatus(c, st) \in StatusType
           /\ UpdatedStatus(c, st).lastScheduled = LastScheduled(c, st)
           /\ UpdatedStatus(c, st).scheduled = (LastScheduled(c, st) # 0)
           /\ LastScheduled(c, st) \in Nat
<1>1. /\ PhaseOf(c) \in {"None", "Pending", "Running", "Completed"}
      /\ LastScheduled(c, st) \in Nat /\ ActiveJob(c, st) \in Nat
    BY DEF PhaseOf, LastScheduled, ActiveJob, CronJobType, StatusType
<1> QED BY <1>1 DEF UpdatedStatus, StatusType

LEMMA TypeOKStep ==
    TypeOK /\ [Next]_vars => TypeOK'
<1> SUFFICES ASSUME TypeOK, [Next]_vars PROVE TypeOK'
    OBVIOUS
<1> USE DEF TypeOK, taskVars, jobVars, passVars
<1>1. CASE WriteCronJob
    <2>1. cronJob' \in CronJobType
        BY <1>1 DEF WriteCronJob, CronJobType
    <2> QED BY <1>1, <2>1 DEF WriteCronJob
<1>2. CASE WriteStatus
    <2>1. UpdatedStatus(seen, latest) \in StatusType
        BY UpdatedTyped
    <2> QED BY <1>2, <2>1, NothingTyped DEF WriteStatus
<1>3. CASE SyncCache
    BY <1>3 DEF SyncCache
<1>4. CASE EditTask
    <2>1. edits' \in Nat
        BY <1>4 DEF EditTask
    <2> QED BY <1>4, <2>1 DEF EditTask
<1>5. CASE EditCronJob \/ StartJob \/ EndJob \/ LoseCronJob
    <2>1. CASE EditCronJob
        <3>1. (~cronJob.suspend) \in BOOLEAN
            OBVIOUS
        <3>2. cronJob' \in CronJobType
            BY <2>1, <3>1, Zenon DEF EditCronJob, CronJobType
        <3>3. edits' \in Nat
            BY <2>1 DEF EditCronJob
        <3> QED BY <2>1, <3>2, <3>3 DEF EditCronJob
    <2>2. CASE StartJob
        <3>1. runs' \in Nat /\ runs + 1 \in Nat
            BY <2>2 DEF StartJob
        <3>2. cronJob' \in CronJobType
            BY <2>2, <3>1, Zenon DEF StartJob, CronJobType
        <3> QED BY <2>2, <3>1, <3>2 DEF StartJob
    <2>3. CASE EndJob
        <3>1. cronJob' \in CronJobType
            BY <2>3 DEF EndJob, CronJobType
        <3> QED BY <2>3, <3>1 DEF EndJob
    <2>4. CASE LoseCronJob
        <3>1. losses' \in Nat
            BY <2>4 DEF LoseCronJob
        <3> QED BY <2>4, <3>1, NothingTyped DEF LoseCronJob
    <2> QED BY <1>5, <2>1, <2>2, <2>3, <2>4
<1>6. CASE Tick
    BY <1>6 DEF Tick
<1>7. CASE UNCHANGED vars
    BY <1>7 DEF vars
<1> QED BY <1>1, <1>2, <1>3, <1>4, <1>5, <1>6, <1>7 DEF Next

(* Every state of status, caches and CronJob is well-typed. *)
THEOREM StatusTypeCorrect ==
    Spec => []TypeOK
<1>1. Init => TypeOK
    <2>1. Init => clock \in Nat /\ runs \in Nat /\ edits \in Nat /\ losses \in Nat
        BY DEF Init
    <2> QED BY <2>1, NothingTyped, Zenon DEF Init, TypeOK
<1> QED BY <1>1, TypeOKStep, PTL DEF Spec

-----------------------------------------------------------------------------
(* The schedule *)

(* Copies that count as current are. *)
CopiesCurrent ==
    /\ fresh => cache = status
    /\ latestFresh => latest = status

(* Schedule times only grow along the way from the clock through the       *)
(* CronJob and its copy to the status; a CronJob with no history is no     *)
(* step of that way.                                                       *)
TimesOrdered ==
    /\ status.lastScheduled <= clock /\ seen.last <= clock
    /\ cronJob.last # 0 => status.lastScheduled <= cronJob.last /\ seen.last <= cronJob.last
    /\ seen.last # 0 => status.lastScheduled <= seen.last
    /\ cronJob.last <= clock
    /\ status.scheduled => status.lastScheduled # 0

StatusInv == CopiesCurrent /\ TimesOrdered

LEMMA StatusInvStep ==
    TypeOK /\ StatusInv /\ [Next]_vars => StatusInv'
<1> SUFFICES ASSUME TypeOK, StatusInv, [Next]_vars PROVE StatusInv'
    OBVIOUS
<1> USE DEF TypeOK, StatusInv, CopiesCurrent, TimesOrdered, taskVars, jobVars, passVars
<1>0. /\ clock \in Nat /\ status.lastScheduled \in Nat /\ seen.last \in Nat
      /\ cronJob.last \in Nat
    BY DEF StatusType, CronJobType
<1>1. CASE WriteCronJob
    <2>1. cronJob'.last = cronJob.last
        BY <1>1 DEF WriteCronJob, CronJobType
    <2> QED BY <1>0, <1>1, <2>1 DEF WriteCronJob
<1>2. CASE WriteStatus
    <2>1. seen'.last = 0
        BY <1>2 DEF WriteStatus, NoCronJob
    <2>2. CASE latestFresh
        <3>1. /\ status' = UpdatedStatus(seen, status)
              /\ status'.lastScheduled = LastScheduled(seen, status)
              /\ status'.scheduled = (LastScheduled(seen, status) # 0)
            BY <1>2, <2>2, UpdatedTyped DEF WriteStatus
        <3>2. /\ LastScheduled(seen, status) <= clock
              /\ cronJob.last # 0 => LastScheduled(seen, status) <= cronJob.last
            BY <1>0 DEF LastScheduled
        <3>3. CopiesCurrent'
            BY <1>2, <2>2, <3>1 DEF WriteStatus
        <3>4. LastScheduled(seen, status) \in Nat
            BY <1>0 DEF LastScheduled
        <3>5. status'.scheduled => status'.lastScheduled # 0
            BY <3>1, Zenon
        <3>6. clock' = clock /\ cronJob' = cronJob
            BY <1>2 DEF WriteStatus
        <3>7. status'.lastScheduled <= clock
            BY <3>1, <3>2
        <3>8. cronJob.last # 0 => status'.lastScheduled <= cronJob.last /\ seen'.last <= cronJob.last
            BY <1>0, <2>1, <3>1, <3>2
        <3>9. TimesOrdered'
            BY <1>0, <2>1, <3>5, <3>6, <3>7, <3>8
        <3> QED BY <3>3, <3>9
    <2>3. CASE ~latestFresh
        BY <1>0, <1>2, <2>1, <2>3 DEF WriteStatus
    <2> QED BY <2>2, <2>3
<1>3. CASE SyncCache
    BY <1>3 DEF SyncCache
<1>4. CASE EditTask
    BY <1>4 DEF EditTask
<1>5. CASE EditCronJob \/ EndJob
    <2>1. cronJob'.last = cronJob.last
        BY <1>5 DEF EditCronJob, EndJob, CronJobType
    <2> QED BY <1>5, <2>1 DEF EditCronJob, EndJob
<1>6. CASE StartJob
    <2>1. cronJob'.last = clock
        BY <1>6 DEF StartJob, CronJobType
    <2> QED BY <1>0, <1>6, <2>1 DEF StartJob
<1>7. CASE LoseCronJob
    <2>1. cronJob'.last = 0
        BY <1>7 DEF LoseCronJob, NoCronJob
    <2> QED BY <1>0, <1>7, <2>1 DEF LoseCronJob
<1>8. CASE Tick
    BY <1>0, <1>8 DEF Tick
<1>9. CASE UNCHANGED vars
    BY <1>9 DEF vars
<1> QED BY <1>1, <1>2, <1>3, <1>4, <1>5, <1>6, <1>7, <1>8, <1>9 DEF Next

LEMMA StatusInvariant ==
    Spec => []StatusInv
<1>1. Init => StatusInv
    BY DEF Init, StatusInv, CopiesCurrent, TimesOrdered, NoStatus, NoCronJob
<1> QED BY <1>1, StatusTypeCorrect, StatusInvStep, PTL DEF Spec

(* updateBackupTaskStatus never takes the schedule time or the condition   *)
(* Scheduled back, although the CronJob may be deleted and created again   *)
(* without history and the status is computed from two copies of different *)
(* ages.                                                                   *)
THEOREM ScheduleKept ==
    Spec => ScheduleNeverForgotten
<1> DEFINE Kept == /\ status'.lastScheduled >= status.lastScheduled
                   /\ status.scheduled => status'.scheduled
<1>1. TypeOK /\ StatusInv /\ [Next]_vars => [Kept]_vars
    <2> SUFFICES ASSUME TypeOK, StatusInv, Next PROVE Kept
        OBVIOUS
    <2>0. status.lastScheduled \in Nat /\ seen.last \in Nat
        BY DEF TypeOK, StatusType, CronJobType
    <2>1. CASE status' = status
        BY <2>0, <2>1
    <2>2. CASE WriteStatus /\ latestFresh
        <3>1. /\ status'.lastScheduled = LastScheduled(seen, status)
              /\ status'.scheduled = (LastScheduled(seen, status) # 0)
            BY <2>2, UpdatedTyped DEF WriteStatus, TypeOK, StatusInv, CopiesCurrent
        <3>2. LastScheduled(seen, status) >= status.lastScheduled
            BY <2>0 DEF LastScheduled, StatusInv, TimesOrdered
        <3>3. status.scheduled => LastScheduled(seen, status) # 0
            BY <2>0, <3>2 DEF StatusInv, TimesOrdered, LastScheduled
        <3> QED BY <3>1, <3>2, <3>3
    <2>3. status' = status \/ (WriteStatus /\ latestFresh)
        BY DEF Next, WriteCronJob, WriteStatus, SyncCache, EditTask, EditCronJob, StartJob,
               EndJob, LoseCronJob, Tick, taskVars
    <2> QED BY <2>1, <2>2, <2>3
<1> QED BY <1>1, StatusTypeCorrect, StatusInvariant, PTL DEF Spec, ScheduleNeverForgotten
=============================================================================
