------------------------- MODULE BackupTaskReconcile -------------------------
(***************************************************************************)
(* The BackupTask controller of internal/controller, for one task name:    *)
(* the objects it keeps on the API server, the informer caches it reads    *)
(* them through, the work queue, and one worker that runs Reconcile as a   *)
(* sequence of API calls.                                                  *)
(*                                                                         *)
(* One step of the worker is one call that writes to the API server.  A    *)
(* cached read belongs to the step before it: it touches other objects     *)
(* than the call just made, so nothing is lost by reading at once.         *)
(*                                                                         *)
(* Optimistic concurrency is modelled without counters.  A copy of an      *)
(* object carries one bit, "the resourceVersion I hold is the stored one": *)
(* set when the copy is taken from a current one, cleared by every write.  *)
(* An update that carries a resourceVersion succeeds iff its bit is set.   *)
(*                                                                         *)
(* Covered: creation, edits, deletion (background and foreground) and      *)
(* re-creation of the task; lagging caches; conflicts; failed calls and    *)
(* lost replies; restarts of the operator; deletions of the owned objects  *)
(* by third parties; running Jobs and the records their agents write.      *)
(* Not covered here: what a specification contains beyond its generation,  *)
(* the age limit of the retention policy, the times and conditions of the  *)
(* status and CronJobs suspended by hand (see RecordRetention, TaskStatus).*)
(***************************************************************************)
EXTENDS Naturals, FiniteSets

CONSTANTS
    Records,          \* names of BackupRecords; the agent uses each at most once
    MaxBackupCount,   \* spec.retention.maxBackupCount; "none" is any number >= |Records|
    ThirdParty,       \* may others delete the ConfigMap and the CronJob?
    MaxUid,           \* bound: incarnations of the task
    MaxGen,           \* bound: generations of one incarnation
    MaxRuns,          \* bound: Jobs the CronJob controller starts
    MaxDisruptions    \* bound: failed calls, lost replies, restarts, third-party deletions

ASSUME ConstantsAssumption ==
    /\ IsFiniteSet(Records)
    /\ MaxBackupCount \in Nat
    /\ ThirdParty \in BOOLEAN
    /\ MaxUid \in Nat /\ MaxGen \in Nat
    /\ MaxRuns \in Nat /\ MaxDisruptions \in Nat

VARIABLES
    \* --- the API server
    task,             \* the BackupTask; uid 0 when there is none
    cronJob,          \* the CronJob "backup-<task>"; uid is its owner's, 0 when absent
    configMap,        \* the ConfigMap "<task>-targets": whose specification it holds
    records,          \* the BackupRecords that exist
    recordOf,         \* the incarnation whose Job wrote each record, 0 before that
    jobs,             \* the incarnations with a Job that still runs
    \* --- the operator's informer caches
    cTask, taskFresh,       \* the cached BackupTask; is it the stored version?
    cCronJob, cronJobFresh, \* the cached CronJob; is it the stored version?
    cRecords,               \* the cached BackupRecords
    \* --- the work queue (one key)
    queued,           \* the key waits in the queue
    timer,            \* the key will be added later (RequeueAfter, or back-off)
    \* --- the worker
    pc,               \* the call Reconcile makes next, "idle" between passes
    wTask,            \* backupTask: incarnation and generation being reconciled
    wTaskFresh,       \* is the resourceVersion the next task write carries current?
    wCronJob,         \* cronJob: as read from the cache, then as the API server answered
    wCronJobFresh,    \* is the resourceVersion of wCronJob current?
    todo,             \* records the pass has still to delete
    \* --- bounds
    lastUid,          \* the newest incarnation so far
    runs,             \* Jobs started so far
    disruptions       \* disruptions so far

objectVars == <<task, cronJob, configMap, records, recordOf, jobs>>
cacheVars  == <<cTask, taskFresh, cCronJob, cronJobFresh, cRecords>>
queueVars  == <<queued, timer>>
workerVars == <<pc, wTask, wTaskFresh, wCronJob, wCronJobFresh, todo>>
boundVars  == <<lastUid, runs, disruptions>>
vars == <<objectVars, cacheVars, queueVars, workerVars, boundVars>>

-----------------------------------------------------------------------------
(* Types *)

(* No phase, and those of the five this controller ever writes. *)
Phases == {"None", "Pending", "Running", "Completed"}

TaskType == [uid : Nat, gen : Nat,     \* metadata.uid, metadata.generation
             fin : BOOLEAN,            \* the operator's finalizer is present
             hold : BOOLEAN,           \* the garbage collector's foregroundDeletion is
             del : BOOLEAN,            \* deletionTimestamp is set
             obs : Nat, phase : Phases]  \* status.observedGeneration, status.phase

CronJobType == [uid : Nat,             \* the controller owner's uid
                gen : Nat,             \* the generation its spec was built from
                active : BOOLEAN,      \* status.active is non-empty
                scheduled : BOOLEAN]   \* status.lastScheduleTime is set

NoTask == [uid |-> 0, gen |-> 0, fin |-> FALSE, hold |-> FALSE, del |-> FALSE,
           obs |-> 0, phase |-> "None"]
NoCronJob == [uid |-> 0, gen |-> 0, active |-> FALSE, scheduled |-> FALSE]
NoSpec == [uid |-> 0, gen |-> 0]       \* no ConfigMap, or no pass under way

Exists(object) == object.uid # 0

ApplySteps == {"createConfigMap", "updateConfigMap", "writeCronJob", "writeStatus", "prune"}
FinalizeSteps == {"deleteCronJob", "deleteRecords"}
Steps == {"idle", "addFinalizer"} \cup ApplySteps \cup FinalizeSteps

TypeOK ==
    /\ task \in TaskType
    /\ cronJob \in CronJobType
    /\ configMap \in [uid : Nat, gen : Nat]
    /\ records \subseteq Records
    /\ recordOf \in [Records -> Nat]
    /\ jobs \subseteq Nat
    /\ cTask \in TaskType /\ taskFresh \in BOOLEAN
    /\ cCronJob \in CronJobType /\ cronJobFresh \in BOOLEAN
    /\ cRecords \subseteq Records
    /\ queued \in BOOLEAN /\ timer \in BOOLEAN
    /\ pc \in Steps
    /\ wTask \in [uid : Nat, gen : Nat] /\ wTaskFresh \in BOOLEAN
    /\ wCronJob \in CronJobType /\ wCronJobFresh \in BOOLEAN
    /\ todo \subseteq Records
    /\ lastUid \in Nat /\ runs \in Nat /\ disruptions \in Nat

Init ==
    /\ task = NoTask /\ cronJob = NoCronJob /\ configMap = NoSpec
    /\ records = {} /\ recordOf = [r \in Records |-> 0] /\ jobs = {}
    /\ cTask = NoTask /\ taskFresh = TRUE
    /\ cCronJob = NoCronJob /\ cronJobFresh = TRUE
    /\ cRecords = {}
    /\ queued = FALSE /\ timer = FALSE
    /\ pc = "idle" /\ wTask = NoSpec /\ wTaskFresh = FALSE
    /\ wCronJob = NoCronJob /\ wCronJobFresh = FALSE /\ todo = {}
    /\ lastUid = 0 /\ runs = 0 /\ disruptions = 0

-----------------------------------------------------------------------------
(* Writes to the API server.  An update that changes nothing keeps the     *)
(* resourceVersion, and with it every copy's freshness.                    *)

StoreTask(t) ==
    /\ task' = t
    /\ taskFresh' = (taskFresh /\ t = task)

StoreCronJob(c) ==
    /\ cronJob' = c
    /\ cronJobFresh' = (cronJobFresh /\ c = cronJob)

Disrupt ==
    /\ disruptions < MaxDisruptions
    /\ disruptions' = disruptions + 1

(* A task loses its finalizer, or is deleted without one. *)
WithoutFinalizers(t) == IF t.fin \/ t.hold THEN t ELSE NoTask

-----------------------------------------------------------------------------
(* The end of a pass.  Locals are dropped. *)

Idle ==
    /\ pc' = "idle" /\ wTask' = NoSpec /\ wTaskFresh' = FALSE
    /\ wCronJob' = NoCronJob /\ wCronJobFresh' = FALSE /\ todo' = {}

(* Reconcile returns an error, or panics on the nil Recorder and is        *)
(* recovered: the key comes back after the back-off.                       *)
Fail ==
    /\ Idle
    /\ timer' = TRUE /\ UNCHANGED queued

(* Reconcile returns RequeueAfter: 30 seconds with an active Job, else 5   *)
(* minutes.                                                                *)
Requeue_Forgotten ==
    /\ Idle
    /\ UNCHANGED queueVars

Requeue ==
    /\ Idle
    /\ timer' = TRUE /\ UNCHANGED queued

(* Reconcile returns an empty Result and no error. *)
Done ==
    /\ Idle
    /\ UNCHANGED queueVars

Goto(step) ==
    /\ pc' = step
    /\ UNCHANGED queueVars

-----------------------------------------------------------------------------
(* The worker: one pass of Reconcile *)

(* What a pass does first with the task it read: nothing when it is gone   *)
(* or held only by the finalizers of others, finalize it when it is being  *)
(* deleted, register the finalizer before anything else is created.        *)
FirstStep_NoFinalizer(t) ==
    CASE ~Exists(t) \/ (t.del /\ ~t.fin) -> "idle"
      [] Exists(t) /\ t.del /\ t.fin     -> "deleteCronJob"
      [] Exists(t) /\ ~t.del             -> "createConfigMap"

FirstStep_AlwaysFinalizes(t) ==
    CASE ~Exists(t)          -> "idle"
      [] Exists(t) /\ t.fin  -> "deleteCronJob"
      [] Exists(t) /\ ~t.fin -> "addFinalizer"

FirstStep(t) ==
    CASE ~Exists(t) \/ (t.del /\ ~t.fin)  -> "idle"
      [] Exists(t) /\ t.del /\ t.fin      -> "deleteCronJob"
      [] Exists(t) /\ ~t.del /\ ~t.fin    -> "addFinalizer"
      [] Exists(t) /\ ~t.del /\ t.fin     -> "createConfigMap"

(* The key is taken from the queue, the task is read from the cache.  Only *)
(* the first and the last of the calls that follow carry the               *)
(* resourceVersion read here.                                              *)
StartReconcile ==
    /\ pc = "idle" /\ queued
    /\ queued' = FALSE
    /\ pc' = FirstStep(cTask)
    /\ IF pc' = "idle"
       THEN UNCHANGED <<wTask, wTaskFresh>>
       ELSE /\ wTask' = [uid |-> cTask.uid, gen |-> cTask.gen]
            /\ wTaskFresh' = (pc' # "createConfigMap" /\ taskFresh)
    /\ UNCHANGED <<objectVars, cacheVars, timer, wCronJob, wCronJobFresh, todo, boundVars>>

(* Any call can be refused or lost on its way: the pass ends with an       *)
(* error.  Failed deletions of records are not among them, see             *)
(* DeleteRecord.                                                           *)
CallFails ==
    /\ pc \in Steps \ {"idle", "prune", "deleteRecords"}
    /\ Disrupt
    /\ Fail
    /\ UNCHANGED <<objectVars, cacheVars, lastUid, runs>>

(* A call took effect; its reply arrives and the pass goes on as `next`    *)
(* says, or the reply is lost and the pass ends with an error.             *)
AddFinalizer ==
    /\ pc = "addFinalizer"
    /\ IF wTaskFresh
       THEN /\ StoreTask([task EXCEPT !.fin = TRUE])
            /\ \/ /\ Goto("createConfigMap")
                  /\ wTaskFresh' = FALSE
                  /\ UNCHANGED <<wTask, wCronJob, wCronJobFresh, todo, disruptions>>
               \/ Disrupt /\ Fail
       ELSE Fail /\ UNCHANGED <<task, taskFresh, disruptions>>
    /\ UNCHANGED <<cronJob, configMap, records, recordOf, jobs,
                   cTask, cCronJob, cronJobFresh, cRecords, lastUid, runs>>

(* createTargetConfigMap and Create.  With the ConfigMap stored, the       *)
(* CronJob is read from the cache (first half of CreateOrUpdate).          *)
ReadCronJob ==
    /\ Goto("writeCronJob")
    /\ wCronJob' = cCronJob
    /\ wCronJobFresh' = cronJobFresh
    /\ UNCHANGED <<wTask, wTaskFresh, todo, disruptions>>

CreateConfigMap ==
    /\ pc = "createConfigMap"
    /\ IF Exists(configMap)
       THEN /\ Goto("updateConfigMap")
            /\ UNCHANGED <<configMap, wTask, wTaskFresh, wCronJob, wCronJobFresh,
                           todo, disruptions>>
       ELSE /\ configMap' = wTask
            /\ ReadCronJob \/ (Disrupt /\ Fail)
    /\ UNCHANGED <<task, cronJob, records, recordOf, jobs, cacheVars, lastUid, runs>>

(* Update after AlreadyExists.  The object carries no resourceVersion: the *)
(* update is unconditional, and fails only when the ConfigMap is gone.     *)
UpdateConfigMap ==
    /\ pc = "updateConfigMap"
    /\ IF Exists(configMap)
       THEN /\ configMap' = wTask
            /\ ReadCronJob \/ (Disrupt /\ Fail)
       ELSE Fail /\ UNCHANGED <<configMap, disruptions>>
    /\ UNCHANGED <<task, cronJob, records, recordOf, jobs, cacheVars, lastUid, runs>>

(* Second half of CreateOrUpdate: Create when the cache showed no CronJob  *)
(* (AlreadyExists is an error), else Update under the resourceVersion      *)
(* read.  SetControllerReference makes the task its owner.  Then the task  *)
(* is read again from the cache, for its status.                           *)
CronJobWritable ==
    IF Exists(wCronJob) THEN wCronJobFresh ELSE ~Exists(cronJob)

WriteCronJob ==
    /\ pc = "writeCronJob"
    /\ IF CronJobWritable
       THEN /\ StoreCronJob([cronJob EXCEPT !.uid = wTask.uid, !.gen = wTask.gen])
            /\ \/ /\ Goto("writeStatus")
                  /\ wCronJob' = cronJob' /\ wCronJobFresh' = FALSE
                  /\ wTaskFresh' = taskFresh
                  /\ UNCHANGED <<wTask, todo, disruptions>>
               \/ Disrupt /\ Fail
       ELSE Fail /\ UNCHANGED <<cronJob, cronJobFresh, disruptions>>
    /\ UNCHANGED <<task, configMap, records, recordOf, jobs,
                   cTask, taskFresh, cCronJob, cRecords, lastUid, runs>>

PhaseOf_ReportsFailure(c) ==
    IF c.active THEN "Running"
    ELSE IF c.scheduled THEN "Failed"
    ELSE "Pending"

(* updateBackupTaskStatus.  The branch for a suspended CronJob is left     *)
(* out: the spec just written says suspend = false (see TaskStatus).       *)
PhaseOf(c) ==
    IF c.active THEN "Running"
    ELSE IF c.scheduled THEN "Completed"
    ELSE "Pending"

(* filterRecordsToDelete on the cached list, which comes in no particular  *)
(* order: any records beyond the first MaxBackupCount.                     *)
Surplus(S) ==
    IF Cardinality(S) <= MaxBackupCount THEN {{}}
    ELSE {T \in SUBSET S : Cardinality(T) = Cardinality(S) - MaxBackupCount}

(* updateBackupTaskStatus.  The conditions carry the present second, so    *)
(* the write may change the object even when nothing shown here does.      *)
StoreStatus_LatestGeneration ==
    LET t == [task EXCEPT !.obs = task.gen, !.phase = PhaseOf(wCronJob)]
    IN  /\ task' = t
        /\ \E touched \in BOOLEAN :
              taskFresh' = (taskFresh /\ t = task /\ ~touched)

StoreStatus ==
    LET t == [task EXCEPT !.obs = wTask.gen, !.phase = PhaseOf(wCronJob)]
    IN  /\ task' = t
        /\ \E touched \in BOOLEAN :
              taskFresh' = (taskFresh /\ t = task /\ ~touched)

WriteStatus ==
    /\ pc = "writeStatus"
    /\ IF wTaskFresh
       THEN /\ StoreStatus
            /\ \/ /\ wCronJob.active /\ Requeue
                  /\ UNCHANGED disruptions
               \/ /\ ~wCronJob.active
                  /\ todo' \in Surplus(cRecords)
                  /\ Goto("prune")
                  /\ wTaskFresh' = FALSE
                  /\ UNCHANGED <<wTask, wCronJob, wCronJobFresh, disruptions>>
               \/ Disrupt /\ Fail
       ELSE Fail /\ UNCHANGED <<task, taskFresh, disruptions>>
    /\ UNCHANGED <<cronJob, configMap, records, recordOf, jobs,
                   cTask, cCronJob, cronJobFresh, cRecords, lastUid, runs>>

(* The loops of applyRetentionPolicy and finalizeBackupTask.  A record     *)
(* that cannot be deleted is logged and skipped.                           *)
DeleteRecord_TriedAgain ==
    /\ pc \in {"prune", "deleteRecords"}
    /\ \E r \in todo :
          \/ records' = records \ {r} /\ todo' = todo \ {r} /\ UNCHANGED disruptions
          \/ Disrupt /\ UNCHANGED <<records, todo>>
    /\ UNCHANGED <<task, cronJob, configMap, recordOf, jobs, cacheVars, queueVars,
                   pc, wTask, wTaskFresh, wCronJob, wCronJobFresh, lastUid, runs>>

DeleteRecord ==
    /\ pc \in {"prune", "deleteRecords"}
    /\ \E r \in todo :
          /\ todo' = todo \ {r}
          /\ \/ records' = records \ {r} /\ UNCHANGED disruptions
             \/ Disrupt /\ UNCHANGED records
    /\ UNCHANGED <<task, cronJob, configMap, recordOf, jobs, cacheVars, queueVars,
                   pc, wTask, wTaskFresh, wCronJob, wCronJobFresh, lastUid, runs>>

EndPass ==
    /\ pc = "prune" /\ todo = {}
    /\ Requeue
    /\ UNCHANGED <<objectVars, cacheVars, boundVars>>

(* finalizeBackupTask: the deletion needs no copy and NotFound is no error; *)
(* then the records are listed from the cache.                             *)
CronJobAfterDelete_IfCached == IF Exists(cCronJob) THEN NoCronJob ELSE cronJob

CronJobAfterDelete == NoCronJob

DeleteCronJob ==
    /\ pc = "deleteCronJob"
    /\ StoreCronJob(CronJobAfterDelete)
    /\ \/ /\ Goto("deleteRecords")
          /\ todo' = cRecords
          /\ UNCHANGED <<wTask, wTaskFresh, wCronJob, wCronJobFresh, disruptions>>
       \/ Disrupt /\ Fail
    /\ UNCHANGED <<task, configMap, records, recordOf, jobs,
                   cTask, taskFresh, cCronJob, cRecords, lastUid, runs>>

RemoveFinalizer ==
    /\ pc = "deleteRecords" /\ todo = {}
    /\ IF wTaskFresh
       THEN /\ StoreTask(WithoutFinalizers([task EXCEPT !.fin = FALSE]))
            /\ \/ Done /\ UNCHANGED disruptions
               \/ Disrupt /\ Fail
       ELSE Fail /\ UNCHANGED <<task, taskFresh, disruptions>>
    /\ UNCHANGED <<cronJob, configMap, records, recordOf, jobs,
                   cTask, cCronJob, cronJobFresh, cRecords, lastUid, runs>>

Worker ==
    \/ StartReconcile \/ CallFails
    \/ AddFinalizer \/ CreateConfigMap \/ UpdateConfigMap
    \/ WriteCronJob \/ WriteStatus \/ DeleteRecord \/ EndPass
    \/ DeleteCronJob \/ RemoveFinalizer

-----------------------------------------------------------------------------
(* The manager around the worker: informers, queue, restart *)

(* The caches catch up, each at its own time.  Events of the task and of   *)
(* the CronJobs it owns put the key in the queue; records are not watched  *)
(* for that, and ConfigMaps are not watched at all.                        *)
SyncTask ==
    /\ ~taskFresh
    /\ cTask' = task /\ taskFresh' = TRUE
    /\ queued' = TRUE
    /\ UNCHANGED <<objectVars, cCronJob, cronJobFresh, cRecords, timer, workerVars, boundVars>>

SyncCronJob ==
    /\ ~cronJobFresh
    /\ cCronJob' = cronJob /\ cronJobFresh' = TRUE
    /\ queued' = (queued \/ Exists(cronJob) \/ Exists(cCronJob))
    /\ UNCHANGED <<objectVars, cTask, taskFresh, cRecords, timer, workerVars, boundVars>>

SyncRecords ==
    /\ cRecords # records
    /\ cRecords' = records
    /\ UNCHANGED <<objectVars, cTask, taskFresh, cCronJob, cronJobFresh,
                   queueVars, workerVars, boundVars>>

TimerFires ==
    /\ timer
    /\ timer' = FALSE /\ queued' = TRUE
    /\ UNCHANGED <<objectVars, cacheVars, workerVars, boundVars>>

(* The operator stops in the middle of anything and comes back: queue and  *)
(* locals are lost, the caches are listed anew, every object listed is an  *)
(* event.                                                                  *)
Restart ==
    /\ Disrupt
    /\ Idle
    /\ cTask' = task /\ taskFresh' = TRUE
    /\ cCronJob' = cronJob /\ cronJobFresh' = TRUE
    /\ cRecords' = records
    /\ queued' = (Exists(task) \/ Exists(cronJob)) /\ timer' = FALSE
    /\ UNCHANGED <<objectVars, lastUid, runs>>

Manager == SyncTask \/ SyncCronJob \/ SyncRecords \/ TimerFires \/ Restart

-----------------------------------------------------------------------------
(* Everybody else: users, the CronJob controller, the garbage collector,   *)
(* backup agents, third parties.                                           *)

OthersStoreTask(t) ==
    /\ StoreTask(t)
    /\ wTaskFresh' = FALSE
    /\ UNCHANGED <<cronJob, configMap, records, recordOf, jobs,
                   cTask, cCronJob, cronJobFresh, cRecords, queueVars,
                   pc, wTask, wCronJob, wCronJobFresh, todo, runs, disruptions>>

OthersStoreCronJob(c) ==
    /\ StoreCronJob(c)
    /\ wCronJobFresh' = FALSE
    /\ UNCHANGED <<task, configMap, records, recordOf, cTask, taskFresh, cCronJob, cRecords,
                   queueVars, pc, wTask, wTaskFresh, wCronJob, todo, lastUid>>

CreateTask ==
    /\ ~Exists(task) /\ lastUid < MaxUid
    /\ lastUid' = lastUid + 1
    /\ OthersStoreTask([NoTask EXCEPT !.uid = lastUid + 1, !.gen = 1])

EditTask ==
    /\ Exists(task) /\ ~task.del /\ task.gen < MaxGen
    /\ OthersStoreTask([task EXCEPT !.gen = @ + 1])
    /\ UNCHANGED lastUid

(* Background deletion, or foreground deletion with its own finalizer. *)
DeleteTask ==
    /\ Exists(task) /\ ~task.del
    /\ \E foreground \in BOOLEAN :
          OthersStoreTask(WithoutFinalizers([task EXCEPT !.del = TRUE, !.hold = foreground]))
    /\ UNCHANGED lastUid

(* In a foreground deletion the garbage collector removes the CronJob, and *)
(* lets the task go once it is gone.                                       *)
CollectCronJob ==
    /\ task.hold /\ Exists(cronJob)
    /\ OthersStoreCronJob(NoCronJob)
    /\ UNCHANGED <<jobs, runs, disruptions>>

ReleaseForeground ==
    /\ task.hold /\ ~Exists(cronJob)
    /\ OthersStoreTask(WithoutFinalizers([task EXCEPT !.hold = FALSE]))
    /\ UNCHANGED lastUid

(* The CronJob controller, under ForbidConcurrent.  A Job outlives its     *)
(* CronJob until it ends.                                                  *)
StartJob ==
    /\ Exists(cronJob) /\ ~cronJob.active
    /\ runs < MaxRuns /\ runs' = runs + 1
    /\ jobs' = jobs \cup {cronJob.uid}
    /\ OthersStoreCronJob([cronJob EXCEPT !.active = TRUE, !.scheduled = TRUE])
    /\ UNCHANGED disruptions

EndJob ==
    /\ \E u \in jobs :
          /\ jobs' = jobs \ {u}
          /\ IF cronJob.uid = u /\ cronJob.active
             THEN OthersStoreCronJob([cronJob EXCEPT !.active = FALSE])
             ELSE UNCHANGED <<task, cronJob, configMap, records, recordOf, cacheVars,
                              queueVars, workerVars, lastUid>>
    /\ UNCHANGED <<runs, disruptions>>

(* A backup agent reports: a new BackupRecord, labelled with the task's    *)
(* name.                                                                   *)
WriteRecord ==
    /\ \E r \in Records, u \in jobs :
          /\ recordOf[r] = 0
          /\ recordOf' = [recordOf EXCEPT ![r] = u]
          /\ records' = records \cup {r}
    /\ UNCHANGED <<task, cronJob, configMap, jobs, cacheVars, queueVars, workerVars, boundVars>>

LoseConfigMap ==
    /\ ThirdParty /\ Exists(configMap)
    /\ Disrupt
    /\ configMap' = NoSpec
    /\ UNCHANGED <<task, cronJob, records, recordOf, jobs, cacheVars, queueVars,
                   workerVars, lastUid, runs>>

LoseCronJob ==
    /\ ThirdParty /\ Exists(cronJob)
    /\ Disrupt
    /\ OthersStoreCronJob(NoCronJob)
    /\ UNCHANGED <<jobs, runs>>

Others ==
    \/ CreateTask \/ EditTask \/ DeleteTask
    \/ CollectCronJob \/ ReleaseForeground
    \/ StartJob \/ EndJob \/ WriteRecord
    \/ LoseConfigMap \/ LoseCronJob

-----------------------------------------------------------------------------

Next == Worker \/ Manager \/ Others

Spec == Init /\ [][Next]_vars

(* The worker does not stop in the middle of a pass while the operator     *)
(* runs, watches deliver, timers fire, and the garbage collector does its  *)
(* part of a foreground deletion.                                          *)
Fairness ==
    /\ WF_vars(Worker)
    /\ WF_vars(SyncTask) /\ WF_vars(SyncCronJob) /\ WF_vars(TimerFires)
    /\ WF_vars(CollectCronJob) /\ WF_vars(ReleaseForeground)

FairSpec == Spec /\ Fairness

-----------------------------------------------------------------------------
(* Properties *)

(* SAFETY.  A CronJob exists only while the task that owns it exists and   *)
(* carries the operator's finalizer: no interleaving of a pass with edits, *)
(* deletions, re-creations, lagging caches, lost replies and restarts      *)
(* leaves backups running for a task that is gone, or under the owner of   *)
(* an earlier incarnation.                                                 *)
CronJobHasLiveOwner ==
    Exists(cronJob) => task.uid = cronJob.uid /\ task.fin

(* INDUCTIVE.  Why CronJobHasLiveOwner holds: the cached task is a past    *)
(* version of the stored one, so a cached finalizer without a deletion     *)
(* mark is still there; an applying pass works for the incarnation that    *)
(* holds the finalizer; a finalizing pass can release only a task it has   *)
(* seen marked for deletion, which no cache will show unmarked again; and  *)
(* only the worker itself, which is then busy, would create a CronJob      *)
(* after its deletion.                                                     *)
UidsBounded ==
    task.uid <= lastUid /\ cTask.uid <= lastUid /\ wTask.uid <= lastUid

CacheIsPast ==
    /\ taskFresh => cTask = task
    /\ Exists(cTask) /\ cTask.del /\ task.uid = cTask.uid => task.del
    /\ Exists(cTask) /\ cTask.fin /\ ~cTask.del => task.uid = cTask.uid /\ task.fin

PassKnowsTask ==
    /\ pc # "idle" => Exists(wTask)
    /\ pc = "addFinalizer" /\ wTaskFresh => task.uid = wTask.uid
    /\ pc \in ApplySteps => task.uid = wTask.uid /\ task.fin
    /\ pc \in FinalizeSteps =>
          /\ task.uid = wTask.uid => task.del
          /\ cTask.uid = wTask.uid => cTask.del
          /\ wTaskFresh => task.uid = wTask.uid
    /\ pc = "deleteRecords" => ~Exists(cronJob)

OwnershipInv ==
    UidsBounded /\ CacheIsPast /\ PassKnowsTask /\ CronJobHasLiveOwner

(* SAFETY.  What status.observedGeneration acknowledges is in force: the   *)
(* CronJob and the ConfigMap of a live task are this incarnation's and not *)
(* older than the generation acknowledged (updateBackupTaskStatus writes   *)
(* the generation of the copy the pass began with into an object it reads  *)
(* anew).  Holds when nobody else deletes the two.                         *)
ObservedGenerationApplied ==
    task.obs > 0 /\ ~task.del =>
        /\ cronJob.uid = task.uid /\ cronJob.gen >= task.obs
        /\ configMap.uid = task.uid /\ configMap.gen >= task.obs

(* SAFETY.  A task the operator has still to do with is never forgotten:   *)
(* the pass is under way, or the key is in the queue or comes back to it,  *)
(* or the watch has an event to deliver; whatever way the last pass ended, *)
(* and though the one before may have read a task that was gone.           *)
NeverForgotten ==
    Exists(task) /\ (task.fin \/ ~task.del) =>
        queued \/ timer \/ pc # "idle" \/ ~taskFresh

(* STEPS.  Finalization selects records by the name of the task alone; yet *)
(* it never deletes one that a live task's own Job has written, not even   *)
(* when it repeats the finalization of an earlier incarnation from a       *)
(* lagging cache while the task has been created again.                    *)
FinalizationSparesLiveTask ==
    [][\A r \in records \ records' :
          pc = "deleteRecords" => task.uid # recordOf[r] \/ task.del]_vars

(* LIVENESS.  Once users, Jobs and disturbances come to rest, the task is  *)
(* either gone, with no CronJob left behind, or fully applied: ConfigMap,  *)
(* CronJob and acknowledgement are those of its last generation, whatever  *)
(* was lost, refused, interrupted or deleted by others before.             *)
Settled ==
    IF Exists(task)
    THEN /\ ~task.del /\ task.fin
         /\ task.obs = task.gen
         /\ cronJob.uid = task.uid /\ cronJob.gen = task.gen
         /\ configMap = [uid |-> task.uid, gen |-> task.gen]
    ELSE ~Exists(cronJob)

Converges == <>[]Settled

(* STEPS.  What is settled stays so.  Once cache and pass have left older  *)
(* versions behind, no call of a pass, no failure, lost reply or restart   *)
(* in the middle of one, no late event and no Job takes any of it back:    *)
(* only a write by a user does, or a deletion by others.                   *)
CaughtUp ==
    /\ Settled
    /\ Exists(task) =>
          /\ cTask.uid = task.uid /\ cTask.gen = task.gen /\ ~cTask.del
          /\ pc # "idle" => wTask = [uid |-> task.uid, gen |-> task.gen]

Interference == CreateTask \/ EditTask \/ DeleteTask \/ LoseConfigMap \/ LoseCronJob

SettledStays ==
    [][CaughtUp => CaughtUp' \/ Interference]_vars

(* STEPS.  A pass ends: each of its calls, refused, lost or carried out,   *)
(* leaves fewer to make, and nothing that happens meanwhile adds one.      *)
CallsLeft ==
    LET n == Cardinality(Records)
    IN  CASE pc = "idle"                             -> 0
          [] pc \in {"prune", "deleteRecords"}       -> 1 + Cardinality(todo)
          [] pc \in {"writeStatus", "deleteCronJob"} -> 2 + n
          [] pc = "writeCronJob"                     -> 3 + n
          [] pc = "updateConfigMap"                  -> 4 + n
          [] pc = "createConfigMap"                  -> 5 + n
          [] pc = "addFinalizer"                     -> 6 + n

PassEnds ==
    [][pc # "idle" => /\ CallsLeft' <= CallsLeft
                      /\ Worker => CallsLeft' < CallsLeft]_vars

-----------------------------------------------------------------------------
(* What the repository says of the program, and the program does not do    *)

(* internal/controller/backuptask_controller.go:784 announces the deletion *)
(* of the BackupRecords of a finalized task.  The deletion's errors are    *)
(* only logged and the list may be stale, so records can outlive the       *)
(* finalizer even when no Job is left that could write one.                *)
RecordsGoWithTask ==
    [][task.fin /\ ~task'.fin /\ jobs = {} => records = {}]_vars

(* api/v1alpha1/backuptask_types.go:105: maxBackupCount is the number of   *)
(* backups to keep.  Two passes over the same lagging cache choose         *)
(* different records, and together delete more than the surplus.           *)
RetentionKeepsCount ==
    [][pc = "prune" /\ records' # records => Cardinality(records') >= MaxBackupCount]_vars
=============================================================================
