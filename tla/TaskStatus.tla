------------------------------ MODULE TaskStatus ------------------------------
(***************************************************************************)
(* The status of a BackupTask: what updateBackupTaskStatus and             *)
(* updateConditions make of the CronJob, for Jobs that start and end, a    *)
(* CronJob that others suspend, resume or delete, edits of the task, and   *)
(* status writes that meet a stale cache.  How a Job ended plays no part:  *)
(* nothing reads it, and lastSuccessfulTime is never written.  A task has  *)
(* no suspend field: buildCronJobSpec always writes suspend = false.       *)
(* Deletion of the task, and what else a pass does, is BackupTaskReconcile. *)
(***************************************************************************)
EXTENDS Naturals

CONSTANTS
    MaxClock,    \* bound: ticks of the clock
    MaxRuns,     \* bound: Jobs started
    MaxEdits,    \* bound: edits of the task, or of the CronJob's suspend flag
    MaxLosses    \* bound: times others delete the CronJob

ASSUME StatusAssumption ==
    MaxClock \in Nat /\ MaxRuns \in Nat /\ MaxEdits \in Nat /\ MaxLosses \in Nat

VARIABLES
    clock,
    status,       \* status of the task
    cache,        \* the status as the operator's cache has it
    fresh,        \* is the cached task the stored version?
    cronJob,      \* the CronJob: its suspend, status.active, status.lastScheduleTime
    runs, edits, losses,
    pc,           \* the call the pass makes next
    seen,         \* cronJob as CreateOrUpdate returned it
    latest,       \* the status of latestBackupTask
    latestFresh   \* is its resourceVersion current?

taskVars == <<status, cache, fresh>>
jobVars  == <<cronJob, runs>>
passVars == <<pc, seen, latest, latestFresh>>
vars == <<clock, taskVars, jobVars, edits, losses, passVars>>

StatusType ==
    [phase : {"None", "Pending", "Running", "Completed"},
     lastScheduled : Nat,       \* lastScheduledTime, 0 for none
     activeJob : Nat,           \* activeBackupJob, 0 for none
     scheduled : BOOLEAN,       \* condition Scheduled
     running : BOOLEAN,         \* condition Running
     since : Nat]               \* their lastTransitionTime

CronJobType == [exists : BOOLEAN, suspend : BOOLEAN, active : Nat, last : Nat]

NoStatus == [phase |-> "None", lastScheduled |-> 0, activeJob |-> 0, scheduled |-> FALSE,
              running |-> FALSE, since |-> 0]
NoCronJob == [exists |-> FALSE, suspend |-> FALSE, active |-> 0, last |-> 0]

TypeOK ==
    /\ clock \in Nat /\ runs \in Nat /\ edits \in Nat /\ losses \in Nat
    /\ status \in StatusType /\ cache \in StatusType /\ fresh \in BOOLEAN
    /\ cronJob \in CronJobType
    /\ pc \in {"idle", "writeStatus"}
    /\ seen \in CronJobType /\ latest \in StatusType /\ latestFresh \in BOOLEAN

Init ==
    /\ clock = 1
    /\ status = NoStatus /\ cache = NoStatus /\ fresh = TRUE
    /\ cronJob = NoCronJob /\ runs = 0
    /\ edits = 0 /\ losses = 0
    /\ pc = "idle" /\ seen = NoCronJob /\ latest = NoStatus /\ latestFresh = FALSE

-----------------------------------------------------------------------------
(* updateBackupTaskStatus and updateConditions *)

PhaseOf_ReportsFailure(c) ==
    IF c.suspend THEN "Pending"
    ELSE IF c.active # 0 THEN "Running"
    ELSE IF c.last # 0 THEN "Failed"
    ELSE "Pending"

PhaseOf(c) ==
    IF c.suspend THEN "Pending"
    ELSE IF c.active # 0 THEN "Running"
    ELSE IF c.last # 0 THEN "Completed"
    ELSE "Pending"

(* The schedule time is copied only when the CronJob has one. *)
LastScheduled_Overwritten(c, st) == c.last

LastScheduled(c, st) == IF c.last # 0 THEN c.last ELSE st.lastScheduled

ActiveJob_Kept(c, st) == IF c.active # 0 THEN c.active ELSE st.activeJob

ActiveJob(c, st) == c.active

UpdatedStatus(c, st) ==
    [st EXCEPT !.phase = PhaseOf(c),
               !.lastScheduled = LastScheduled(c, st),
               !.activeJob = ActiveJob(c, st),
               !.scheduled = (LastScheduled(c, st) # 0),
               !.running = (PhaseOf(c) = "Running"),
               !.since = clock]

(* A pass up to the CronJob: its specification is built anew, the answer   *)
(* carries its status as it is now; then the task is read from the cache.  *)
(* A write that is refused ends the pass, and changes nothing here.        *)
WriteCronJob ==
    /\ pc = "idle"
    /\ cronJob' = [cronJob EXCEPT !.exists = TRUE, !.suspend = FALSE]
    /\ seen' = cronJob'
    /\ latest' = cache /\ latestFresh' = fresh
    /\ pc' = "writeStatus"
    /\ UNCHANGED <<clock, taskVars, runs, edits, losses>>

WriteStatus ==
    /\ pc = "writeStatus"
    /\ IF latestFresh
       THEN /\ status' = UpdatedStatus(seen, latest)
            /\ fresh' = (fresh /\ status' = status)
       ELSE UNCHANGED <<status, fresh>>
    /\ pc' = "idle" /\ seen' = NoCronJob /\ latest' = NoStatus /\ latestFresh' = FALSE
    /\ UNCHANGED <<clock, cache, jobVars, edits, losses>>

SyncCache ==
    /\ ~fresh
    /\ cache' = status /\ fresh' = TRUE
    /\ UNCHANGED <<clock, status, jobVars, edits, losses, passVars>>

-----------------------------------------------------------------------------
(* The user, the CronJob controller, third parties, time *)

EditTask ==
    /\ edits < MaxEdits /\ edits' = edits + 1
    /\ fresh' = FALSE /\ latestFresh' = FALSE
    /\ UNCHANGED <<clock, status, cache, jobVars, losses, pc, seen, latest>>

(* Somebody suspends the CronJob itself, or resumes it. *)
EditCronJob ==
    /\ cronJob.exists
    /\ edits < MaxEdits /\ edits' = edits + 1
    /\ cronJob' = [cronJob EXCEPT !.suspend = ~@]
    /\ UNCHANGED <<clock, taskVars, runs, losses, passVars>>

StartJob ==
    /\ cronJob.exists /\ cronJob.active = 0 /\ ~cronJob.suspend
    /\ runs < MaxRuns /\ runs' = runs + 1
    /\ cronJob' = [cronJob EXCEPT !.active = runs + 1, !.last = clock]
    /\ UNCHANGED <<clock, taskVars, edits, losses, passVars>>

EndJob ==
    /\ cronJob.active # 0
    /\ cronJob' = [cronJob EXCEPT !.active = 0]
    /\ UNCHANGED <<clock, taskVars, runs, edits, losses, passVars>>

(* The next pass creates it again.  The Job it had is forgotten with it. *)
LoseCronJob ==
    /\ cronJob.exists
    /\ losses < MaxLosses /\ losses' = losses + 1
    /\ cronJob' = NoCronJob
    /\ UNCHANGED <<clock, taskVars, runs, edits, passVars>>

Tick ==
    /\ clock < MaxClock /\ clock' = clock + 1
    /\ UNCHANGED <<taskVars, jobVars, edits, losses, passVars>>

Next ==
    \/ WriteCronJob \/ WriteStatus \/ SyncCache
    \/ EditTask \/ EditCronJob \/ StartJob \/ EndJob \/ LoseCronJob \/ Tick

Spec == Init /\ [][Next]_vars

(* A live task is always due again: each pass ends with a RequeueAfter or  *)
(* a back-off.  The watch delivers.                                        *)
FairSpec == Spec /\ WF_vars(WriteCronJob) /\ WF_vars(WriteStatus) /\ WF_vars(SyncCache)

-----------------------------------------------------------------------------
(* Properties *)

(* STEPS.  The schedule time a user sees never goes back, nor does the     *)
(* Scheduled condition, though the CronJob may be deleted and come back    *)
(* with no history, and though the status is computed from two copies      *)
(* taken at different moments.                                             *)
ScheduleNeverForgotten ==
    [][/\ status'.lastScheduled >= status.lastScheduled
       /\ status.scheduled => status'.scheduled]_vars

(* LIVENESS.  Once users and Jobs come to rest, the CronJob runs again     *)
(* even if somebody suspended it, and the task names the Job that runs, or *)
(* none, in both its phase and its conditions.                             *)
StatusCatchesUp ==
    <>[](/\ cronJob.exists /\ ~cronJob.suspend
         /\ status.activeJob = cronJob.active
         /\ status.phase = PhaseOf(cronJob)
         /\ status.running <=> cronJob.active # 0)
=============================================================================
