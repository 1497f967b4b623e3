--------------------------- MODULE BackupTaskProofs ---------------------------
(***************************************************************************)
(* Theorems about BackupTaskReconcile, for every set of records and every  *)
(* value of the bounds.                                                    *)
(***************************************************************************)
EXTENDS BackupTaskReconcile, FiniteSetTheorems, TLAPS

(* What the helpers return has the type of what they are given. *)
LEMMA AbsentObjectsTyped ==
    /\ NoTask \in TaskType
    /\ NoCronJob \in CronJobType
    /\ NoSpec \in [uid : Nat, gen : Nat]
BY DEF NoTask, NoCronJob, NoSpec, TaskType, CronJobType, Phases

LEMMA PhaseOfTyped ==
    ASSUME NEW c PROVE PhaseOf(c) \in Phases
BY DEF PhaseOf, Phases

LEMMA WithoutFinalizersTyped ==
    ASSUME NEW t \in TaskType PROVE WithoutFinalizers(t) \in TaskType
BY AbsentObjectsTyped DEF WithoutFinalizers

LEMMA FirstStepIsStep ==
    ASSUME NEW t \in TaskType
    PROVE FirstStep(t) \in {"idle", "deleteCronJob", "addFinalizer", "createConfigMap"}
BY DEF FirstStep, Exists, TaskType

(* Every pruning choice is among the records it was offered. *)
LEMMA SurplusSubset ==
    ASSUME NEW S, NEW T \in Surplus(S) PROVE T \subseteq S
BY DEF Surplus

LEMMA IdleTyped ==
    ASSUME Idle
    PROVE /\ pc' \in Steps /\ wTask' \in [uid : Nat, gen : Nat] /\ wTaskFresh' \in BOOLEAN
          /\ wCronJob' \in CronJobType /\ wCronJobFresh' \in BOOLEAN /\ todo' \subseteq Records
BY AbsentObjectsTyped DEF Idle, Steps

(* A stored object has its type, and leaves the freshness of its cached    *)
(* copy a truth value.                                                     *)
LEMMA StoreTaskTyped ==
    ASSUME NEW t \in TaskType, StoreTask(t)
    PROVE  task' \in TaskType /\ taskFresh' \in BOOLEAN
BY DEF StoreTask

LEMMA StoreCronJobTyped ==
    ASSUME NEW c \in CronJobType, StoreCronJob(c)
    PROVE  cronJob' \in CronJobType /\ cronJobFresh' \in BOOLEAN
BY DEF StoreCronJob

LEMMA StoreStatusTyped ==
    ASSUME task \in TaskType, wTask.gen \in Nat, StoreStatus
    PROVE  task' \in TaskType /\ taskFresh' \in BOOLEAN
<1>1. [task EXCEPT !.obs = wTask.gen, !.phase = PhaseOf(wCronJob)] \in TaskType
    BY PhaseOfTyped DEF TaskType
<1> QED BY <1>1 DEF StoreStatus

-----------------------------------------------------------------------------
(* TYPES *)

LEMMA TypeOKInit ==
    Init => TypeOK
<1> SUFFICES ASSUME Init PROVE TypeOK
    OBVIOUS
<1>1. recordOf \in [Records -> Nat]
    BY DEF Init
<1> QED BY <1>1, AbsentObjectsTyped DEF Init, TypeOK, Steps

(* A step of the worker keeps the types. *)
LEMMA TypeOKWorker ==
    ASSUME TypeOK, Worker PROVE TypeOK'
<1> USE ConstantsAssumption DEF TypeOK
<1>1. CASE StartReconcile
    <2>1. pc' \in Steps
        BY <1>1, FirstStepIsStep DEF StartReconcile, Steps, ApplySteps, FinalizeSteps
    <2>2. wTask' \in [uid : Nat, gen : Nat]
        BY <1>1 DEF StartReconcile, TaskType
    <2>3. wTaskFresh' \in BOOLEAN
        BY <1>1, Zenon DEF StartReconcile
    <2> QED BY <1>1, <2>1, <2>2, <2>3 DEF StartReconcile, objectVars, cacheVars, boundVars
<1>2. CASE CallFails
    BY <1>2, IdleTyped DEF CallFails, Disrupt, Fail, objectVars, cacheVars
<1>3. CASE AddFinalizer
    <2>1. [task EXCEPT !.fin = TRUE] \in TaskType
        BY DEF TaskType
    <2>2. task' \in TaskType /\ taskFresh' \in BOOLEAN /\ disruptions' \in Nat
        <3>1. disruptions' \in Nat
            BY <1>3 DEF AddFinalizer, Disrupt
        <3>2. task' \in TaskType /\ taskFresh' \in BOOLEAN
            BY <1>3, <2>1, StoreTaskTyped DEF AddFinalizer
        <3> QED BY <3>1, <3>2
    <2>3. CASE Fail
        BY <1>3, <2>2, <2>3, IdleTyped DEF AddFinalizer, Fail
    <2>4. CASE Goto("createConfigMap") /\ wTaskFresh' = FALSE
               /\ UNCHANGED <<wTask, wCronJob, wCronJobFresh, todo, disruptions>>
        BY <1>3, <2>2, <2>4 DEF AddFinalizer, Goto, Steps, ApplySteps, queueVars
    <2> QED BY <1>3, <2>3, <2>4 DEF AddFinalizer
<1>4. CASE CreateConfigMap
    <2>1. CASE Fail /\ Disrupt /\ configMap' = wTask
        BY <1>4, <2>1, IdleTyped DEF CreateConfigMap, Fail, Disrupt, cacheVars
    <2>2. CASE ReadCronJob /\ configMap' = wTask
        BY <1>4, <2>2 DEF CreateConfigMap, ReadCronJob, Goto, Steps, ApplySteps, cacheVars, queueVars
    <2>3. CASE Exists(configMap)
        BY <1>4, <2>3 DEF CreateConfigMap, Goto, Steps, ApplySteps, cacheVars, queueVars
    <2> QED BY <1>4, <2>1, <2>2, <2>3 DEF CreateConfigMap
<1>5. CASE UpdateConfigMap
    <2>1. CASE Fail
        BY <1>5, <2>1, IdleTyped DEF UpdateConfigMap, Fail, Disrupt, ReadCronJob, cacheVars
    <2>2. CASE ReadCronJob /\ configMap' = wTask
        BY <1>5, <2>2 DEF UpdateConfigMap, ReadCronJob, Goto, Steps, ApplySteps, cacheVars, queueVars
    <2> QED BY <1>5, <2>1, <2>2 DEF UpdateConfigMap
<1>6. CASE WriteCronJob
    <2>1. [cronJob EXCEPT !.uid = wTask.uid, !.gen = wTask.gen] \in CronJobType
        BY DEF CronJobType
    <2>2. cronJob' \in CronJobType /\ cronJobFresh' \in BOOLEAN /\ disruptions' \in Nat
        <3>1. disruptions' \in Nat
            BY <1>6 DEF WriteCronJob, Disrupt
        <3>2. cronJob' \in CronJobType /\ cronJobFresh' \in BOOLEAN
            BY <1>6, <2>1, StoreCronJobTyped DEF WriteCronJob
        <3> QED BY <3>1, <3>2
    <2>3. CASE Fail
        BY <1>6, <2>2, <2>3, IdleTyped DEF WriteCronJob, Fail
    <2>4. CASE /\ Goto("writeStatus")
               /\ wCronJob' = cronJob' /\ wCronJobFresh' = FALSE /\ wTaskFresh' = taskFresh
               /\ UNCHANGED <<wTask, todo, disruptions>>
        BY <1>6, <2>2, <2>4 DEF WriteCronJob, Goto, Steps, ApplySteps, queueVars
    <2> QED BY <1>6, <2>3, <2>4 DEF WriteCronJob
<1>7. CASE WriteStatus
    <2>2. task' \in TaskType /\ taskFresh' \in BOOLEAN /\ disruptions' \in Nat
        <3>1. disruptions' \in Nat
            BY <1>7 DEF WriteStatus, Disrupt
        <3>2. task' \in TaskType /\ taskFresh' \in BOOLEAN
            BY <1>7, StoreStatusTyped DEF WriteStatus
        <3> QED BY <3>1, <3>2
    <2>3. CASE Fail \/ Requeue
        BY <1>7, <2>2, <2>3, IdleTyped DEF WriteStatus, Fail, Requeue
    <2>4. CASE /\ todo' \in Surplus(cRecords) /\ Goto("prune") /\ wTaskFresh' = FALSE
               /\ UNCHANGED <<wTask, wCronJob, wCronJobFresh, disruptions>>
        <3>1. todo' \subseteq Records
            BY <2>4, SurplusSubset
        <3> QED BY <1>7, <2>2, <2>4, <3>1 DEF WriteStatus, Goto, Steps, ApplySteps, queueVars
    <2> QED BY <1>7, <2>3, <2>4 DEF WriteStatus
<1>8. CASE DeleteRecord
    BY <1>8 DEF DeleteRecord, Disrupt, cacheVars, queueVars
<1>9. CASE EndPass
    BY <1>9, IdleTyped DEF EndPass, Requeue, objectVars, cacheVars, boundVars
<1>10. CASE DeleteCronJob
    <2>1. cronJob' \in CronJobType /\ cronJobFresh' \in BOOLEAN /\ disruptions' \in Nat
        BY <1>10, AbsentObjectsTyped DEF DeleteCronJob, StoreCronJob, CronJobAfterDelete, Disrupt
    <2>2. CASE Fail
        BY <1>10, <2>1, <2>2, IdleTyped DEF DeleteCronJob, Fail
    <2>3. CASE /\ Goto("deleteRecords") /\ todo' = cRecords
               /\ UNCHANGED <<wTask, wTaskFresh, wCronJob, wCronJobFresh, disruptions>>
        BY <1>10, <2>1, <2>3 DEF DeleteCronJob, Goto, Steps, FinalizeSteps, queueVars
    <2> QED BY <1>10, <2>2, <2>3 DEF DeleteCronJob
<1>11. CASE RemoveFinalizer
    <2>1. WithoutFinalizers([task EXCEPT !.fin = FALSE]) \in TaskType
        <3>1. [task EXCEPT !.fin = FALSE] \in TaskType
            BY DEF TaskType
        <3> QED BY <3>1, WithoutFinalizersTyped
    <2>2. task' \in TaskType /\ taskFresh' \in BOOLEAN /\ disruptions' \in Nat
        <3>1. disruptions' \in Nat
            BY <1>11 DEF RemoveFinalizer, Disrupt
        <3>2. task' \in TaskType /\ taskFresh' \in BOOLEAN
            BY <1>11, <2>1, StoreTaskTyped DEF RemoveFinalizer
        <3> QED BY <3>1, <3>2
    <2>3. queued' \in BOOLEAN /\ timer' \in BOOLEAN
        BY <1>11 DEF RemoveFinalizer, Done, Fail, queueVars
    <2>4. Idle
        BY <1>11 DEF RemoveFinalizer, Done, Fail
    <2> QED BY <1>11, <2>2, <2>3, <2>4, IdleTyped DEF RemoveFinalizer
<1> QED BY <1>1, <1>2, <1>3, <1>4, <1>5, <1>6, <1>7, <1>8, <1>9, <1>10, <1>11 DEF Worker

(* So does a step of the manager around it. *)
LEMMA TypeOKManager ==
    ASSUME TypeOK, Manager PROVE TypeOK'
<1> USE DEF TypeOK
<1>1. CASE SyncTask
    BY <1>1 DEF SyncTask, objectVars, workerVars, boundVars
<1>2. CASE SyncCronJob
    BY <1>2 DEF SyncCronJob, objectVars, workerVars, boundVars
<1>3. CASE SyncRecords
    BY <1>3 DEF SyncRecords, objectVars, queueVars, workerVars, boundVars
<1>4. CASE TimerFires
    BY <1>4 DEF TimerFires, objectVars, cacheVars, workerVars, boundVars
<1>5. CASE Restart
    <2>1. queued' \in BOOLEAN
        BY <1>5, Zenon DEF Restart
    <2>2. disruptions' \in Nat
        BY <1>5 DEF Restart, Disrupt
    <2>3. Idle
        BY <1>5 DEF Restart
    <2> QED BY <1>5, <2>1, <2>2, <2>3, IdleTyped DEF Restart, objectVars
<1> QED BY <1>1, <1>2, <1>3, <1>4, <1>5 DEF Manager

(* What others store is a task, or a CronJob. *)
LEMMA OthersStoreTaskTyped ==
    ASSUME TypeOK, NEW t \in TaskType, OthersStoreTask(t), lastUid' \in Nat PROVE TypeOK'
BY DEF TypeOK, OthersStoreTask, StoreTask, queueVars

LEMMA OthersStoreCronJobTyped ==
    ASSUME TypeOK, NEW c \in CronJobType, OthersStoreCronJob(c),
           jobs' \subseteq Nat, runs' \in Nat, disruptions' \in Nat
    PROVE  TypeOK'
BY DEF TypeOK, OthersStoreCronJob, StoreCronJob, queueVars

LEMMA TypeOKOthers ==
    ASSUME TypeOK, Others PROVE TypeOK'
<1>1. CASE CreateTask
    <2>1. [NoTask EXCEPT !.uid = lastUid + 1, !.gen = 1] \in TaskType
        <3>1. lastUid + 1 \in Nat
            BY DEF TypeOK
        <3> QED BY <3>1, AbsentObjectsTyped DEF TaskType
    <2> QED BY <1>1, <2>1, OthersStoreTaskTyped DEF CreateTask, TypeOK
<1>2. CASE EditTask
    <2>1. [task EXCEPT !.gen = @ + 1] \in TaskType
        BY DEF TypeOK, TaskType
    <2> QED BY <1>2, <2>1, OthersStoreTaskTyped DEF EditTask, TypeOK
<1>3. CASE DeleteTask
    <2>1. PICK foreground \in BOOLEAN :
              OthersStoreTask(WithoutFinalizers([task EXCEPT !.del = TRUE, !.hold = foreground]))
        BY <1>3 DEF DeleteTask
    <2>2. [task EXCEPT !.del = TRUE, !.hold = foreground] \in TaskType
        BY DEF TypeOK, TaskType
    <2>3. WithoutFinalizers([task EXCEPT !.del = TRUE, !.hold = foreground]) \in TaskType
        BY <2>2, WithoutFinalizersTyped
    <2> QED BY <1>3, <2>1, <2>3, OthersStoreTaskTyped DEF DeleteTask, TypeOK
<1>4. CASE CollectCronJob
    BY <1>4, AbsentObjectsTyped, OthersStoreCronJobTyped DEF CollectCronJob, TypeOK
<1>5. CASE ReleaseForeground
    <2>1. [task EXCEPT !.hold = FALSE] \in TaskType
        BY DEF TypeOK, TaskType
    <2>2. WithoutFinalizers([task EXCEPT !.hold = FALSE]) \in TaskType
        BY <2>1, WithoutFinalizersTyped
    <2> QED BY <1>5, <2>2, OthersStoreTaskTyped DEF ReleaseForeground, TypeOK
<1>6. CASE StartJob
    <2>1. [cronJob EXCEPT !.active = TRUE, !.scheduled = TRUE] \in CronJobType
        BY DEF TypeOK, CronJobType
    <2>2. jobs' \subseteq Nat /\ runs' \in Nat /\ disruptions' \in Nat
        BY <1>6, ConstantsAssumption DEF StartJob, TypeOK, CronJobType
    <2> QED BY <1>6, <2>1, <2>2, OthersStoreCronJobTyped DEF StartJob
<1>7. CASE EndJob
    <2>1. jobs' \subseteq Nat /\ runs' \in Nat /\ disruptions' \in Nat
        BY <1>7 DEF EndJob, TypeOK
    <2>2. CASE OthersStoreCronJob([cronJob EXCEPT !.active = FALSE])
        <3>1. [cronJob EXCEPT !.active = FALSE] \in CronJobType
            BY DEF TypeOK, CronJobType
        <3> QED BY <2>1, <2>2, <3>1, OthersStoreCronJobTyped
    <2>3. CASE UNCHANGED <<task, cronJob, configMap, records, recordOf, cacheVars,
                           queueVars, workerVars, lastUid>>
        BY <2>1, <2>3 DEF TypeOK, cacheVars, queueVars, workerVars
    <2> QED BY <1>7, <2>2, <2>3 DEF EndJob
<1>8. CASE WriteRecord
    BY <1>8 DEF WriteRecord, TypeOK, cacheVars, queueVars, workerVars, boundVars
<1>9. CASE LoseConfigMap
    BY <1>9, AbsentObjectsTyped, ConstantsAssumption
    DEF LoseConfigMap, Disrupt, TypeOK, cacheVars, queueVars, workerVars
<1>10. CASE LoseCronJob
    <2>1. disruptions' \in Nat
        BY <1>10 DEF LoseCronJob, Disrupt, TypeOK
    <2> QED BY <1>10, <2>1, AbsentObjectsTyped, OthersStoreCronJobTyped DEF LoseCronJob, TypeOK
<1> QED BY <1>1, <1>2, <1>3, <1>4, <1>5, <1>6, <1>7, <1>8, <1>9, <1>10 DEF Others

(* Every variable keeps its type; among them: status.phase is only ever    *)
(* one of the three the controller sets.                                   *)
THEOREM TypeCorrect ==
    Spec => []TypeOK
<1>1. ASSUME TypeOK, [Next]_vars PROVE TypeOK'
    <2>1. CASE UNCHANGED vars
        BY <1>1, <2>1 DEF TypeOK, vars, objectVars, cacheVars, queueVars, workerVars, boundVars
    <2> QED BY <1>1, <2>1, TypeOKWorker, TypeOKManager, TypeOKOthers DEF Next
<1> QED BY TypeOKInit, <1>1, PTL DEF Spec

-----------------------------------------------------------------------------
(* OWNERSHIP *)

LEMMA OwnershipInit ==
    Init => OwnershipInv
BY DEF Init, OwnershipInv, UidsBounded, CacheIsPast, PassKnowsTask, CronJobHasLiveOwner,
       NoTask, NoSpec, NoCronJob, Exists, ApplySteps, FinalizeSteps

(* Steps that touch neither the two objects, nor the cached task, nor the  *)
(* pass.                                                                   *)
LEMMA OwnershipUntouched ==
    ASSUME OwnershipInv,
           UNCHANGED <<task, taskFresh, cTask, cronJob, lastUid, pc, wTask, wTaskFresh>>
    PROVE  OwnershipInv'
BY DEF OwnershipInv, UidsBounded, CacheIsPast, PassKnowsTask, CronJobHasLiveOwner, Exists

(* The end of a pass leaves nothing to know, whatever it did to the two    *)
(* objects.                                                                *)
LEMMA OwnershipIdle ==
    ASSUME TypeOK, Idle, lastUid' \in Nat,
           CacheIsPast', CronJobHasLiveOwner', task'.uid <= lastUid', cTask'.uid <= lastUid'
    PROVE  OwnershipInv'
BY DEF TypeOK, Idle, OwnershipInv, UidsBounded, PassKnowsTask,
       NoSpec, Exists, ApplySteps, FinalizeSteps

(* A pass that ends without having written the task or the CronJob. *)
LEMMA OwnershipIdleUntouched ==
    ASSUME TypeOK, OwnershipInv, Idle, UNCHANGED <<task, taskFresh, cTask, cronJob, lastUid>>
    PROVE  OwnershipInv'
<1>1. CacheIsPast' /\ CronJobHasLiveOwner' /\ task'.uid <= lastUid' /\ cTask'.uid <= lastUid'
    BY DEF OwnershipInv, UidsBounded, CacheIsPast, CronJobHasLiveOwner, Exists
<1> QED BY <1>1, OwnershipIdle DEF TypeOK

(* A task write by the pass that keeps incarnation and deletion mark, and  *)
(* the finalizer if the cache still shows it unmarked.                     *)
LEMMA CacheStaysPast ==
    ASSUME TypeOK, OwnershipInv, NEW t \in TaskType, task' = t, UNCHANGED cTask,
           taskFresh' => taskFresh /\ t = task,
           t.uid = task.uid, t.del = task.del,
           Exists(cTask) /\ cTask.fin /\ ~cTask.del => t.fin
    PROVE  CacheIsPast'
BY DEF TypeOK, OwnershipInv, CacheIsPast, Exists

LEMMA OwnershipWorker ==
    ASSUME TypeOK, OwnershipInv, Worker PROVE OwnershipInv'
<1>1. CASE StartReconcile
    <2>1. pc' = FirstStep(cTask) /\ UNCHANGED <<task, taskFresh, cTask, cronJob, lastUid>>
        BY <1>1 DEF StartReconcile, objectVars, cacheVars, boundVars
    <2>2. CASE pc' = "idle"
        <3>1. pc = "idle" /\ UNCHANGED <<wTask, wTaskFresh>>
            BY <1>1, <2>2 DEF StartReconcile
        <3> QED BY <2>1, <2>2, <3>1, OwnershipUntouched
    <2>3. CASE pc' # "idle"
        <3>1. /\ wTask' = [uid |-> cTask.uid, gen |-> cTask.gen]
              /\ wTaskFresh' => taskFresh
              /\ Exists(cTask)
            BY <1>1, <2>3 DEF StartReconcile, FirstStep, TypeOK, TaskType, Exists
        <3>2. UidsBounded'
            BY <2>1, <3>1 DEF OwnershipInv, UidsBounded
        <3>3. CacheIsPast' /\ CronJobHasLiveOwner'
            BY <2>1 DEF OwnershipInv, CacheIsPast, CronJobHasLiveOwner, Exists
        <3>4. CASE pc' = "addFinalizer"
            BY <2>1, <3>1, <3>2, <3>3, <3>4
            DEF OwnershipInv, CacheIsPast, PassKnowsTask, ApplySteps, FinalizeSteps, Exists
        <3>5. CASE pc' = "createConfigMap"
            <4>1. cTask.fin /\ ~cTask.del
                BY <2>1, <3>5, Zenon DEF FirstStep, TypeOK, TaskType
            <4> QED BY <2>1, <3>1, <3>2, <3>3, <3>5, <4>1
                    DEF OwnershipInv, CacheIsPast, PassKnowsTask, FinalizeSteps, Exists
        <3>6. CASE pc' = "deleteCronJob"
            <4>1. cTask.del
                BY <2>1, <3>6, Zenon DEF FirstStep, TypeOK, TaskType
            <4> QED BY <2>1, <3>1, <3>2, <3>3, <3>6, <4>1
                    DEF OwnershipInv, CacheIsPast, PassKnowsTask, ApplySteps, Exists
        <3> QED BY <2>1, <2>3, <3>4, <3>5, <3>6, FirstStepIsStep DEF TypeOK
    <2> QED BY <2>2, <2>3
<1>2. CASE CallFails
    BY <1>2, OwnershipIdleUntouched DEF CallFails, Fail, objectVars, cacheVars
<1>3. CASE AddFinalizer
    <2>1. CASE ~wTaskFresh
        BY <1>3, <2>1, OwnershipIdleUntouched DEF AddFinalizer, Fail
    <2>2. CASE wTaskFresh
        <3> DEFINE t == [task EXCEPT !.fin = TRUE]
        <3>1. t \in TaskType /\ t.uid = task.uid /\ t.del = task.del /\ t.fin
            BY DEF TypeOK, TaskType
        <3>2. /\ task' = t /\ UNCHANGED <<cTask, cronJob, lastUid>>
              /\ taskFresh' => taskFresh /\ t = task
            BY <1>3, <2>2 DEF AddFinalizer, StoreTask
        <3>3. CacheIsPast'
            BY <3>1, <3>2, CacheStaysPast
        <3>4. CronJobHasLiveOwner' /\ task'.uid <= lastUid' /\ cTask'.uid <= lastUid'
            BY <3>1, <3>2 DEF OwnershipInv, UidsBounded, CronJobHasLiveOwner, Exists
        <3>5. CASE Idle
            BY <3>2, <3>3, <3>4, <3>5, OwnershipIdle DEF TypeOK
        <3>6. CASE pc' = "createConfigMap" /\ UNCHANGED wTask
            <4>1. task.uid = wTask.uid /\ Exists(wTask)
                BY <1>3, <2>2 DEF AddFinalizer, OwnershipInv, PassKnowsTask
            <4> QED BY <3>1, <3>2, <3>3, <3>4, <3>6, <4>1
                    DEF OwnershipInv, UidsBounded, PassKnowsTask, FinalizeSteps, Exists
        <3> QED BY <1>3, <2>2, <3>5, <3>6 DEF AddFinalizer, Goto, Fail
    <2> QED BY <2>1, <2>2
<1>4. CASE CreateConfigMap \/ UpdateConfigMap
    <2>1. UNCHANGED <<task, taskFresh, cTask, cronJob, lastUid>>
        BY <1>4 DEF CreateConfigMap, UpdateConfigMap, cacheVars
    <2>2. CASE Idle
        BY <2>1, <2>2, OwnershipIdleUntouched
    <2>3. CASE pc' \in {"updateConfigMap", "writeCronJob"} /\ UNCHANGED wTask
        BY <1>4, <2>1, <2>3
        DEF CreateConfigMap, UpdateConfigMap, OwnershipInv, UidsBounded, CacheIsPast,
            PassKnowsTask, CronJobHasLiveOwner, ApplySteps, FinalizeSteps, Exists
    <2> QED BY <1>4, <2>2, <2>3
            DEF CreateConfigMap, UpdateConfigMap, ReadCronJob, Goto, Fail
<1>5. CASE WriteCronJob
    <2>1. CASE ~CronJobWritable
        BY <1>5, <2>1, OwnershipIdleUntouched DEF WriteCronJob, Fail
    <2>2. CASE CronJobWritable
        <3>1. /\ cronJob' = [cronJob EXCEPT !.uid = wTask.uid, !.gen = wTask.gen]
              /\ UNCHANGED <<task, taskFresh, cTask, lastUid>>
            BY <1>5, <2>2 DEF WriteCronJob, StoreCronJob
        <3>2. task.uid = wTask.uid /\ task.fin /\ Exists(wTask)
            BY <1>5 DEF WriteCronJob, OwnershipInv, PassKnowsTask, ApplySteps
        <3>3. CronJobHasLiveOwner'
            BY <3>1, <3>2 DEF TypeOK, CronJobType, CronJobHasLiveOwner
        <3>4. CacheIsPast' /\ task'.uid <= lastUid' /\ cTask'.uid <= lastUid'
            BY <3>1 DEF OwnershipInv, UidsBounded, CacheIsPast, Exists
        <3>5. CASE Idle
            BY <3>1, <3>3, <3>4, <3>5, OwnershipIdle DEF TypeOK
        <3>6. CASE pc' = "writeStatus" /\ UNCHANGED wTask
            BY <3>1, <3>2, <3>3, <3>4, <3>6
            DEF OwnershipInv, UidsBounded, PassKnowsTask, FinalizeSteps, Exists
        <3> QED BY <1>5, <2>2, <3>5, <3>6 DEF WriteCronJob, Goto, Fail
    <2> QED BY <2>1, <2>2
<1>6. CASE WriteStatus
    <2>1. CASE ~wTaskFresh
        BY <1>6, <2>1, OwnershipIdleUntouched DEF WriteStatus, Fail
    <2>2. CASE wTaskFresh
        <3> DEFINE t == [task EXCEPT !.obs = wTask.gen, !.phase = PhaseOf(wCronJob)]
        <3>1. t \in TaskType /\ t.uid = task.uid /\ t.del = task.del /\ t.fin = task.fin
            BY PhaseOfTyped DEF TypeOK, TaskType
        <3>2. /\ task' = t /\ UNCHANGED <<cTask, cronJob, lastUid>>
              /\ taskFresh' => taskFresh /\ t = task
            BY <1>6, <2>2 DEF WriteStatus, StoreStatus
        <3>3. task.uid = wTask.uid /\ task.fin /\ Exists(wTask)
            BY <1>6 DEF WriteStatus, OwnershipInv, PassKnowsTask, ApplySteps
        <3>4. CacheIsPast'
            BY <3>1, <3>2, <3>3, CacheStaysPast
        <3>5. CronJobHasLiveOwner' /\ task'.uid <= lastUid' /\ cTask'.uid <= lastUid'
            BY <3>1, <3>2 DEF OwnershipInv, UidsBounded, CronJobHasLiveOwner, Exists
        <3>6. CASE Idle
            BY <3>2, <3>4, <3>5, <3>6, OwnershipIdle DEF TypeOK
        <3>7. CASE pc' = "prune" /\ UNCHANGED wTask
            BY <3>1, <3>2, <3>3, <3>4, <3>5, <3>7
            DEF OwnershipInv, UidsBounded, PassKnowsTask, FinalizeSteps, Exists
        <3> QED BY <1>6, <2>2, <3>6, <3>7 DEF WriteStatus, Goto, Fail, Requeue
    <2> QED BY <2>1, <2>2
<1>7. CASE DeleteRecord
    BY <1>7, OwnershipUntouched DEF DeleteRecord, cacheVars
<1>8. CASE EndPass
    BY <1>8, OwnershipIdleUntouched DEF EndPass, Requeue, objectVars, cacheVars, boundVars
<1>9. CASE DeleteCronJob
    <2>1. ~Exists(cronJob') /\ UNCHANGED <<task, taskFresh, cTask, lastUid>>
        BY <1>9 DEF DeleteCronJob, StoreCronJob, CronJobAfterDelete, NoCronJob, Exists
    <2>2. CronJobHasLiveOwner'
        BY <2>1 DEF CronJobHasLiveOwner, Exists
    <2>3. CacheIsPast' /\ task'.uid <= lastUid' /\ cTask'.uid <= lastUid'
        BY <2>1 DEF OwnershipInv, UidsBounded, CacheIsPast, Exists
    <2>4. CASE Idle
        BY <2>1, <2>2, <2>3, <2>4, OwnershipIdle DEF TypeOK
    <2>5. CASE pc' = "deleteRecords" /\ UNCHANGED <<wTask, wTaskFresh>>
        BY <1>9, <2>1, <2>2, <2>3, <2>5
        DEF DeleteCronJob, OwnershipInv, UidsBounded, PassKnowsTask, ApplySteps, FinalizeSteps, Exists
    <2> QED BY <1>9, <2>4, <2>5 DEF DeleteCronJob, Goto, Fail
<1>10. CASE RemoveFinalizer
    <2>1. CASE ~wTaskFresh
        BY <1>10, <2>1, OwnershipIdleUntouched DEF RemoveFinalizer, Fail
    <2>2. CASE wTaskFresh
        <3> DEFINE t == WithoutFinalizers([task EXCEPT !.fin = FALSE])
        <3>1. /\ task' = t /\ UNCHANGED <<cTask, cronJob, lastUid>>
              /\ taskFresh' => taskFresh /\ t = task
              /\ pc = "deleteRecords"
            BY <1>10, <2>2 DEF RemoveFinalizer, StoreTask
        <3>2. Idle
            BY <1>10 DEF RemoveFinalizer, Done, Fail
        <3>3. CronJobHasLiveOwner'
            BY <3>1 DEF OwnershipInv, PassKnowsTask, CronJobHasLiveOwner, Exists
        <3>4. task.uid = wTask.uid /\ (cTask.uid = wTask.uid => cTask.del)
            BY <2>2, <3>1 DEF OwnershipInv, PassKnowsTask, FinalizeSteps
        (* no cached copy shows the finalizer without the deletion mark *)
        <3>5. ~(Exists(cTask) /\ cTask.fin /\ ~cTask.del)
            BY <3>4 DEF OwnershipInv, CacheIsPast
        <3>6. [task EXCEPT !.fin = FALSE] \in TaskType
            BY DEF TypeOK, TaskType
        <3>7. CASE t = NoTask
            BY <3>1, <3>2, <3>3, <3>5, <3>7, OwnershipIdle
            DEF NoTask, TypeOK, OwnershipInv, UidsBounded, CacheIsPast, Exists
        <3>8. CASE t = [task EXCEPT !.fin = FALSE]
            <4>1. t \in TaskType /\ t.uid = task.uid /\ t.del = task.del
                BY <3>6, <3>8 DEF TypeOK, TaskType
            <4>2. CacheIsPast'
                BY <3>1, <3>5, <4>1, CacheStaysPast
            <4> QED BY <3>1, <3>2, <3>3, <4>1, <4>2, OwnershipIdle
                    DEF TypeOK, OwnershipInv, UidsBounded
        <3> QED BY <3>7, <3>8 DEF WithoutFinalizers
    <2> QED BY <2>1, <2>2
<1> QED BY <1>1, <1>2, <1>3, <1>4, <1>5, <1>6, <1>7, <1>8, <1>9, <1>10 DEF Worker

LEMMA OwnershipManager ==
    ASSUME TypeOK, OwnershipInv, Manager PROVE OwnershipInv'
<1>1. CASE SyncTask
    <2>1. /\ cTask' = task
          /\ UNCHANGED <<task, cronJob, lastUid, pc, wTask, wTaskFresh>>
        BY <1>1 DEF SyncTask, objectVars, workerVars, boundVars
    <2>2. CacheIsPast'
        BY <2>1 DEF CacheIsPast, Exists
    <2>3. PassKnowsTask'
        BY <2>1 DEF OwnershipInv, PassKnowsTask, Exists
    <2> QED BY <2>1, <2>2, <2>3
            DEF OwnershipInv, UidsBounded, CronJobHasLiveOwner, Exists
<1>2. CASE SyncCronJob \/ SyncRecords \/ TimerFires
    BY <1>2, OwnershipUntouched
    DEF SyncCronJob, SyncRecords, TimerFires, objectVars, cacheVars, workerVars, boundVars
<1>3. CASE Restart
    <2>1. Idle /\ cTask' = task /\ UNCHANGED <<task, cronJob, lastUid>>
        BY <1>3 DEF Restart, objectVars
    <2>2. CacheIsPast' /\ CronJobHasLiveOwner'
        BY <2>1 DEF OwnershipInv, CacheIsPast, CronJobHasLiveOwner, Exists
    <2> QED BY <2>1, <2>2, OwnershipIdle DEF TypeOK, OwnershipInv, UidsBounded
<1> QED BY <1>1, <1>2, <1>3 DEF Manager

(* Others write the task: its incarnation and finalizer stay and its       *)
(* deletion mark is never taken back, or it had no finalizer of ours and   *)
(* is gone.                                                                *)
LEMMA OwnershipOthersStoreTask ==
    ASSUME TypeOK, OwnershipInv, NEW t \in TaskType, OthersStoreTask(t), lastUid' = lastUid,
           \/ t.uid = task.uid /\ t.fin = task.fin /\ (task.del => t.del)
           \/ ~task.fin /\ t = NoTask
    PROVE  OwnershipInv'
<1>1. /\ task' = t /\ (taskFresh' => taskFresh /\ t = task)
      /\ wTaskFresh' = FALSE
      /\ UNCHANGED <<cTask, cronJob, pc, wTask>>
    BY DEF OthersStoreTask, StoreTask
<1>2. CASE t.uid = task.uid /\ t.fin = task.fin /\ (task.del => t.del)
    BY <1>1, <1>2 DEF TypeOK, TaskType, OwnershipInv, UidsBounded, CacheIsPast, PassKnowsTask,
                      CronJobHasLiveOwner, Exists
<1>3. CASE ~task.fin /\ t = NoTask
    <2>1. NoTask.uid = 0 /\ NoTask.fin = FALSE
        BY DEF NoTask
    <2>2. UidsBounded'
        BY <1>1, <1>3, <2>1 DEF TypeOK, OwnershipInv, UidsBounded
    <2>3. CacheIsPast'
        BY <1>1, <1>3, <2>1 DEF OwnershipInv, CacheIsPast, Exists
    <2>4. PassKnowsTask'
        BY <1>1, <1>3, <2>1 DEF OwnershipInv, PassKnowsTask, FinalizeSteps, Exists
    <2>5. CronJobHasLiveOwner'
        BY <1>1, <1>3 DEF OwnershipInv, CronJobHasLiveOwner, Exists
    <2> QED BY <2>2, <2>3, <2>4, <2>5 DEF OwnershipInv
<1> QED BY <1>2, <1>3

LEMMA OwnershipOthersStoreCronJob ==
    ASSUME TypeOK, OwnershipInv, NEW c \in CronJobType, OthersStoreCronJob(c),
           c.uid \in {0, cronJob.uid}
    PROVE  OwnershipInv'
<1>1. cronJob' = c /\ UNCHANGED <<task, taskFresh, cTask, lastUid, pc, wTask, wTaskFresh>>
    BY DEF OthersStoreCronJob, StoreCronJob
<1> QED BY <1>1 DEF TypeOK, OwnershipInv, UidsBounded, CacheIsPast, PassKnowsTask,
                    CronJobHasLiveOwner, Exists

LEMMA OwnershipOthers ==
    ASSUME TypeOK, OwnershipInv, Others PROVE OwnershipInv'
<1>1. CASE CreateTask
    <2> DEFINE t == [NoTask EXCEPT !.uid = lastUid + 1, !.gen = 1]
    <2>1. t.uid = lastUid + 1 /\ t.fin = FALSE /\ t.del = FALSE
        BY DEF NoTask
    <2>2. /\ task' = t /\ lastUid' = lastUid + 1 /\ ~Exists(task)
          /\ (taskFresh' => taskFresh /\ t = task)
          /\ wTaskFresh' = FALSE
          /\ UNCHANGED <<cTask, cronJob, pc, wTask>>
        BY <1>1 DEF CreateTask, OthersStoreTask, StoreTask
    <2>3. UidsBounded'
        BY <2>1, <2>2 DEF TypeOK, TaskType, OwnershipInv, UidsBounded
    <2>4. CacheIsPast'
        <3>1. cTask.uid # lastUid + 1 /\ lastUid + 1 # 0
            BY DEF TypeOK, TaskType, OwnershipInv, UidsBounded
        <3>2. ~taskFresh'
            BY <2>1, <2>2, <3>1 DEF Exists
        <3>3. ~(Exists(cTask) /\ cTask.fin /\ ~cTask.del)
            BY <2>2 DEF OwnershipInv, CacheIsPast, Exists
        <3> QED BY <2>1, <2>2, <3>1, <3>2, <3>3 DEF CacheIsPast, Exists
    <2>5. PassKnowsTask'
        <3>1. wTask.uid # lastUid + 1
            BY DEF TypeOK, OwnershipInv, UidsBounded
        <3>2. pc \notin ApplySteps
            BY <2>2 DEF OwnershipInv, PassKnowsTask, Exists, ApplySteps
        <3> QED BY <2>1, <2>2, <3>1, <3>2 DEF OwnershipInv, PassKnowsTask, Exists
    <2>6. CronJobHasLiveOwner'
        BY <2>2 DEF OwnershipInv, CronJobHasLiveOwner, Exists
    <2> QED BY <2>3, <2>4, <2>5, <2>6 DEF OwnershipInv
<1>2. CASE EditTask
    <2> DEFINE t == [task EXCEPT !.gen = @ + 1]
    <2>1. t \in TaskType /\ t.uid = task.uid /\ t.fin = task.fin /\ t.del = task.del
        BY DEF TypeOK, TaskType
    <2> QED BY <1>2, <2>1, OwnershipOthersStoreTask DEF EditTask
<1>3. CASE DeleteTask
    <2>1. PICK foreground \in BOOLEAN :
              OthersStoreTask(WithoutFinalizers([task EXCEPT !.del = TRUE, !.hold = foreground]))
        BY <1>3 DEF DeleteTask
    <2> DEFINE marked == [task EXCEPT !.del = TRUE, !.hold = foreground]
    <2>2. marked \in TaskType /\ marked.uid = task.uid /\ marked.fin = task.fin /\ marked.del
        BY DEF TypeOK, TaskType
    <2>3. WithoutFinalizers(marked) \in TaskType
        BY <2>2, WithoutFinalizersTyped
    <2>4. \/ WithoutFinalizers(marked) = marked
          \/ ~task.fin /\ WithoutFinalizers(marked) = NoTask
        BY <2>2 DEF WithoutFinalizers
    <2>5. lastUid' = lastUid
        BY <1>3 DEF DeleteTask
    <2> HIDE DEF marked
    <2> QED BY <2>1, <2>2, <2>3, <2>4, <2>5, OwnershipOthersStoreTask DEF marked
<1>4. CASE CollectCronJob
    <2>1. NoCronJob.uid = 0
        BY DEF NoCronJob
    <2> QED BY <1>4, <2>1, AbsentObjectsTyped, OwnershipOthersStoreCronJob DEF CollectCronJob
<1>5. CASE ReleaseForeground
    <2> DEFINE released == [task EXCEPT !.hold = FALSE]
    <2>1. /\ released \in TaskType /\ released.uid = task.uid
          /\ released.fin = task.fin /\ released.del = task.del
        BY DEF TypeOK, TaskType
    <2>2. WithoutFinalizers(released) \in TaskType
        BY <2>1, WithoutFinalizersTyped
    <2>3. \/ WithoutFinalizers(released) = released
          \/ ~task.fin /\ WithoutFinalizers(released) = NoTask
        BY <2>1 DEF WithoutFinalizers
    <2>4. OthersStoreTask(WithoutFinalizers(released)) /\ lastUid' = lastUid
        BY <1>5 DEF ReleaseForeground
    <2> HIDE DEF released
    <2> QED BY <2>1, <2>2, <2>3, <2>4, OwnershipOthersStoreTask DEF released
<1>6. CASE StartJob
    <2> DEFINE c == [cronJob EXCEPT !.active = TRUE, !.scheduled = TRUE]
    <2>1. c \in CronJobType /\ c.uid = cronJob.uid
        BY DEF TypeOK, CronJobType
    <2> QED BY <1>6, <2>1, OwnershipOthersStoreCronJob DEF StartJob
<1>7. CASE EndJob
    <2>1. CASE OthersStoreCronJob([cronJob EXCEPT !.active = FALSE])
        <3> DEFINE c == [cronJob EXCEPT !.active = FALSE]
        <3>1. c \in CronJobType /\ c.uid = cronJob.uid
            BY DEF TypeOK, CronJobType
        <3> QED BY <2>1, <3>1, OwnershipOthersStoreCronJob
    <2>2. CASE UNCHANGED <<task, cronJob, configMap, records, recordOf, cacheVars,
                           queueVars, workerVars, lastUid>>
        BY <2>2, OwnershipUntouched DEF cacheVars, workerVars
    <2> QED BY <1>7, <2>1, <2>2 DEF EndJob
<1>8. CASE WriteRecord \/ LoseConfigMap
    BY <1>8, OwnershipUntouched DEF WriteRecord, LoseConfigMap, cacheVars, workerVars, boundVars
<1>9. CASE LoseCronJob
    <2>1. NoCronJob.uid = 0
        BY DEF NoCronJob
    <2> QED BY <1>9, <2>1, AbsentObjectsTyped, OwnershipOthersStoreCronJob DEF LoseCronJob
<1> QED BY <1>1, <1>2, <1>3, <1>4, <1>5, <1>6, <1>7, <1>8, <1>9 DEF Others

(* The pass, the cache and the CronJob agree on who owns it, in every      *)
(* reachable state.                                                        *)
THEOREM OwnershipInvariant ==
    Spec => []OwnershipInv
<1>1. ASSUME TypeOK, OwnershipInv, [Next]_vars PROVE OwnershipInv'
    <2>1. CASE UNCHANGED vars
        BY <1>1, <2>1, OwnershipUntouched DEF vars, objectVars, cacheVars, workerVars, boundVars
    <2> QED BY <1>1, <2>1, OwnershipWorker, OwnershipManager, OwnershipOthers DEF Next
<1> QED BY OwnershipInit, TypeCorrect, <1>1, PTL DEF Spec

(* No CronJob outlives its task or belongs to an earlier incarnation, and  *)
(* the finalizer is there as long as the CronJob is: for any number of     *)
(* incarnations, edits, Jobs, failed calls, lost replies and restarts.     *)
THEOREM CronJobOwned ==
    Spec => []CronJobHasLiveOwner
BY OwnershipInvariant, PTL DEF OwnershipInv

-----------------------------------------------------------------------------
(* FINALIZATION *)

(* An incarnation that has, or had, a Job. *)
Started(u) == u \in jobs \/ \E r \in Records : recordOf[r] = u

JobsBounded ==
    /\ \A u \in jobs : u # 0 /\ u <= lastUid
    /\ \A r \in Records : recordOf[r] <= lastUid
    /\ \A r \in records : recordOf[r] # 0

(* A CronJob, and with it a Job, comes from a pass, and a pass from what   *)
(* the cache showed: so there is none of an incarnation the cache has not  *)
(* shown yet, and none of one that a finalizing pass has not seen.         *)
SeenFirst ==
    /\ Exists(cronJob) => cronJob.uid = cTask.uid
    /\ Exists(task) /\ Started(task.uid) => task.uid = cTask.uid
    /\ pc = "addFinalizer" /\ wTaskFresh => wTask.uid = cTask.uid
    /\ pc \in ApplySteps => wTask.uid = cTask.uid
    /\ pc \in FinalizeSteps =>
          /\ Exists(cronJob) => cronJob.uid = wTask.uid
          /\ Exists(task) /\ Started(task.uid) => task.uid = wTask.uid

SeenInv == JobsBounded /\ SeenFirst

LEMMA SeenInit ==
    Init => SeenInv
BY DEF Init, SeenInv, JobsBounded, SeenFirst, Started, NoTask, NoCronJob, NoSpec,
       Exists, ApplySteps, FinalizeSteps

(* Steps of the worker and the manager start no Job and write no record:   *)
(* they leave the bounds, and what has been started.                       *)
LEMMA JobsUntouched ==
    ASSUME JobsBounded, UNCHANGED <<jobs, recordOf, lastUid>>, records' \subseteq records
    PROVE  JobsBounded' /\ \A u : Started(u)' = Started(u)
BY DEF JobsBounded, Started

(* A pass ends, or none of the copies move: nothing new is to be seen.     *)
LEMMA SeenKept ==
    ASSUME SeenInv, UNCHANGED <<jobs, recordOf, lastUid, cTask>>, records' \subseteq records,
           \/ task'.uid = task.uid
           \/ ~Exists(task'),
           \/ cronJob'.uid = cronJob.uid
           \/ ~Exists(cronJob'),
           \/ Idle
           \/ UNCHANGED <<pc, wTask>> /\ (wTaskFresh' => wTaskFresh)
    PROVE  SeenInv'
<1>1. JobsBounded' /\ \A u : Started(u)' = Started(u)
    BY JobsUntouched DEF SeenInv
<1>2. /\ Exists(task') => Exists(task) /\ task'.uid = task.uid
      /\ Exists(cronJob') => Exists(cronJob) /\ cronJob'.uid = cronJob.uid
    BY DEF Exists
<1>3. SeenFirst'
    <2>1. /\ Exists(cronJob)' => cronJob'.uid = cTask'.uid
          /\ Exists(task)' /\ Started(task.uid)' => task'.uid = cTask'.uid
        BY <1>1, <1>2 DEF SeenInv, SeenFirst, Started, Exists
    <2>2. CASE Idle
        BY <2>1, <2>2 DEF SeenFirst, Idle, ApplySteps, FinalizeSteps
    <2>3. CASE UNCHANGED <<pc, wTask>> /\ (wTaskFresh' => wTaskFresh)
        BY <1>1, <1>2, <2>1, <2>3 DEF SeenInv, SeenFirst, Started, Exists
    <2> QED BY <2>2, <2>3
<1> QED BY <1>1, <1>3 DEF SeenInv

LEMMA SeenWorker ==
    ASSUME TypeOK, OwnershipInv, SeenInv, Worker PROVE SeenInv'
<1>0. UNCHANGED <<jobs, recordOf, lastUid, cTask>> /\ records' \subseteq records
    BY DEF Worker, StartReconcile, CallFails, AddFinalizer, CreateConfigMap, UpdateConfigMap,
           WriteCronJob, WriteStatus, DeleteRecord, EndPass, DeleteCronJob, RemoveFinalizer,
           objectVars, cacheVars, boundVars
<1>1. JobsBounded' /\ \A u : Started(u)' = Started(u)
    BY <1>0, JobsUntouched DEF SeenInv
<1>2. CASE StartReconcile
    <2>1. pc' = FirstStep(cTask) /\ UNCHANGED <<task, cronJob>>
        BY <1>2 DEF StartReconcile, objectVars
    <2>2. CASE pc' = "idle"
        <3>1. UNCHANGED <<pc, wTask, wTaskFresh>>
            BY <1>2, <2>2 DEF StartReconcile
        <3> QED BY <1>0, <2>1, <3>1, SeenKept
    <2>3. CASE pc' # "idle"
        <3>1. wTask'.uid = cTask'.uid
            BY <1>0, <1>2, <2>3 DEF StartReconcile
        <3>2. /\ Exists(cronJob)' => cronJob'.uid = cTask'.uid
              /\ Exists(task)' /\ Started(task.uid)' => task'.uid = cTask'.uid
            BY <1>0, <1>1, <2>1 DEF SeenInv, SeenFirst, Started, Exists
        <3> QED BY <1>1, <3>1, <3>2 DEF SeenInv, SeenFirst
    <2> QED BY <2>2, <2>3
<1>3. CASE AddFinalizer
    <2>1. /\ task' \in {task, [task EXCEPT !.fin = TRUE]} /\ UNCHANGED cronJob
          /\ pc = "addFinalizer"
        BY <1>3 DEF AddFinalizer, StoreTask
    <2>2. task'.uid = task.uid
        BY <2>1 DEF TypeOK, TaskType
    <2>3. CASE Idle
        BY <1>0, <2>1, <2>2, <2>3, SeenKept
    <2>4. CASE wTaskFresh /\ pc' = "createConfigMap" /\ UNCHANGED wTask
        <3>1. wTask'.uid = cTask'.uid
            BY <1>0, <2>1, <2>4 DEF SeenInv, SeenFirst
        <3> QED BY <1>0, <1>1, <2>1, <2>2, <2>4, <3>1
                DEF SeenInv, SeenFirst, Started, Exists, FinalizeSteps
    <2> QED BY <1>3, <2>3, <2>4 DEF AddFinalizer, Goto, Fail
<1>4. CASE CreateConfigMap \/ UpdateConfigMap \/ WriteStatus
    <2>1. /\ task' \in {task, [task EXCEPT !.obs = wTask.gen, !.phase = PhaseOf(wCronJob)]}
          /\ UNCHANGED cronJob /\ pc \in ApplySteps
        BY <1>4 DEF CreateConfigMap, UpdateConfigMap, WriteStatus, StoreStatus, cacheVars, ApplySteps
    <2>2. task'.uid = task.uid
        BY <2>1 DEF TypeOK, TaskType
    <2>3. CASE Idle
        BY <1>0, <2>1, <2>2, <2>3, SeenKept
    <2>4. CASE pc' \in ApplySteps /\ UNCHANGED wTask
        BY <1>0, <1>1, <2>1, <2>2, <2>4
        DEF SeenInv, SeenFirst, Started, Exists, ApplySteps, FinalizeSteps
    <2> QED BY <1>4, <2>3, <2>4
            DEF CreateConfigMap, UpdateConfigMap, WriteStatus, ReadCronJob, Goto, Fail, Requeue,
                ApplySteps
<1>5. CASE WriteCronJob
    <2>1. CASE ~CronJobWritable
        BY <1>0, <1>5, <2>1, SeenKept DEF WriteCronJob, Fail
    <2>2. CASE CronJobWritable
        <3>1. /\ cronJob' = [cronJob EXCEPT !.uid = wTask.uid, !.gen = wTask.gen]
              /\ UNCHANGED task /\ pc \in ApplySteps
            BY <1>5, <2>2 DEF WriteCronJob, StoreCronJob, ApplySteps
        <3>2. cronJob'.uid = cTask'.uid /\ wTask.uid = cTask'.uid
            BY <1>0, <3>1 DEF TypeOK, CronJobType, SeenInv, SeenFirst
        <3>3. Exists(task)' /\ Started(task.uid)' => task'.uid = cTask'.uid
            BY <1>0, <1>1, <3>1 DEF SeenInv, SeenFirst, Started, Exists
        <3>4. CASE Idle
            BY <1>1, <3>2, <3>3, <3>4 DEF SeenInv, SeenFirst, Idle, ApplySteps, FinalizeSteps
        <3>5. CASE pc' = "writeStatus" /\ UNCHANGED wTask
            BY <1>1, <3>2, <3>3, <3>5 DEF SeenInv, SeenFirst, FinalizeSteps
        <3> QED BY <1>5, <2>2, <3>4, <3>5 DEF WriteCronJob, Goto, Fail
    <2> QED BY <2>1, <2>2
<1>6. CASE DeleteCronJob
    <2>1. cronJob' = NoCronJob /\ UNCHANGED task /\ pc = "deleteCronJob"
        BY <1>6 DEF DeleteCronJob, StoreCronJob, CronJobAfterDelete
    <2>2. ~Exists(cronJob')
        BY <2>1 DEF NoCronJob, Exists
    <2>3. CASE Idle
        BY <1>0, <2>1, <2>2, <2>3, SeenKept
    <2>4. CASE pc' = "deleteRecords" /\ UNCHANGED wTask
        BY <1>0, <1>1, <2>1, <2>2, <2>4
        DEF SeenInv, SeenFirst, Started, Exists, ApplySteps, FinalizeSteps
    <2> QED BY <1>6, <2>3, <2>4 DEF DeleteCronJob, Goto, Fail
<1>7. CASE RemoveFinalizer
    <2>1. Idle /\ UNCHANGED cronJob
        BY <1>7 DEF RemoveFinalizer, Done, Fail
    <2>2. task' \in {task, [task EXCEPT !.fin = FALSE], NoTask}
        BY <1>7 DEF RemoveFinalizer, StoreTask, WithoutFinalizers
    <2>3. task'.uid = task.uid \/ ~Exists(task')
        BY <2>2 DEF TypeOK, TaskType, NoTask, Exists
    <2> QED BY <1>0, <2>1, <2>3, SeenKept
<1>8. CASE CallFails \/ EndPass
    BY <1>0, <1>8, SeenKept DEF CallFails, EndPass, Fail, Requeue, objectVars
<1>9. CASE DeleteRecord
    BY <1>0, <1>9, SeenKept DEF DeleteRecord
<1> QED BY <1>2, <1>3, <1>4, <1>5, <1>6, <1>7, <1>8, <1>9 DEF Worker

LEMMA SeenManager ==
    ASSUME TypeOK, OwnershipInv, SeenInv, Manager PROVE SeenInv'
<1>1. UNCHANGED <<task, cronJob, jobs, recordOf, records, lastUid>>
    BY DEF Manager, SyncTask, SyncCronJob, SyncRecords, TimerFires, Restart, objectVars, boundVars
<1>2. CASE SyncTask \/ Restart
    <2>1. cTask' = task
        BY <1>2 DEF SyncTask, Restart
    <2>2. JobsBounded' /\ \A u : Started(u)' = Started(u)
        BY <1>1, JobsUntouched DEF SeenInv
    <2>3. /\ Exists(cronJob)' => cronJob'.uid = cTask'.uid
          /\ Exists(task)' /\ Started(task.uid)' => task'.uid = cTask'.uid
        BY <1>1, <2>1 DEF OwnershipInv, CronJobHasLiveOwner, Exists
    <2>4. CASE Idle
        BY <2>2, <2>3, <2>4 DEF SeenInv, SeenFirst, Idle, ApplySteps, FinalizeSteps
    <2>5. CASE UNCHANGED <<pc, wTask, wTaskFresh>>
        BY <1>1, <2>1, <2>2, <2>3, <2>5
        DEF SeenInv, SeenFirst, OwnershipInv, PassKnowsTask, Started, Exists
    <2> QED BY <1>2, <2>4, <2>5 DEF SyncTask, Restart, workerVars
<1>3. CASE SyncCronJob \/ SyncRecords \/ TimerFires
    <2>1. UNCHANGED <<cTask, pc, wTask, wTaskFresh>>
        BY <1>3 DEF SyncCronJob, SyncRecords, TimerFires, cacheVars, workerVars
    <2> QED BY <1>1, <2>1, SeenKept
<1> QED BY <1>2, <1>3 DEF Manager

LEMMA SeenOthers ==
    ASSUME TypeOK, OwnershipInv, SeenInv, Others PROVE SeenInv'
<1>1. CASE CreateTask
    <2>1. /\ task'.uid = lastUid + 1 /\ lastUid' = lastUid + 1 /\ ~Exists(task)
          /\ wTaskFresh' = FALSE
          /\ UNCHANGED <<cTask, cronJob, jobs, records, recordOf, pc, wTask>>
        BY <1>1 DEF CreateTask, OthersStoreTask, StoreTask, NoTask
    <2>2. lastUid \in Nat /\ (\A u \in jobs : u \in Nat) /\ \A r \in Records : recordOf[r] \in Nat
        BY DEF TypeOK
    <2>3. JobsBounded'
        BY <2>1, <2>2 DEF TypeOK, SeenInv, JobsBounded
    <2>4. ~Started(task.uid)'
        BY <2>1, <2>2 DEF SeenInv, JobsBounded, Started
    <2>5. ~Exists(cronJob')
        BY <2>1 DEF OwnershipInv, CronJobHasLiveOwner, Exists
    <2> QED BY <2>1, <2>3, <2>4, <2>5 DEF SeenInv, SeenFirst
<1>2. CASE EditTask \/ DeleteTask \/ ReleaseForeground
    <2>1. /\ wTaskFresh' = FALSE
          /\ UNCHANGED <<cTask, cronJob, jobs, records, recordOf, lastUid, pc, wTask>>
        BY <1>2 DEF EditTask, DeleteTask, ReleaseForeground, OthersStoreTask
    <2>2. task'.uid = task.uid \/ ~Exists(task')
        <3>1. CASE EditTask
            BY <3>1 DEF EditTask, OthersStoreTask, StoreTask, TypeOK, TaskType
        <3>2. CASE DeleteTask
            <4>1. PICK g \in BOOLEAN :
                      task' = WithoutFinalizers([task EXCEPT !.del = TRUE, !.hold = g])
                BY <3>2 DEF DeleteTask, OthersStoreTask, StoreTask
            <4>2. [task EXCEPT !.del = TRUE, !.hold = g].uid = task.uid
                BY DEF TypeOK, TaskType
            <4> QED BY <4>1, <4>2 DEF WithoutFinalizers, NoTask, Exists
        <3>3. CASE ReleaseForeground
            <4>1. task' = WithoutFinalizers([task EXCEPT !.hold = FALSE])
                BY <3>3 DEF ReleaseForeground, OthersStoreTask, StoreTask
            <4>2. [task EXCEPT !.hold = FALSE].uid = task.uid
                BY DEF TypeOK, TaskType
            <4> QED BY <4>1, <4>2 DEF WithoutFinalizers, NoTask, Exists
        <3> QED BY <1>2, <3>1, <3>2, <3>3
    <2> QED BY <2>1, <2>2, SeenKept
<1>3. CASE CollectCronJob \/ LoseCronJob
    <2>1. /\ cronJob' = NoCronJob
          /\ UNCHANGED <<task, cTask, jobs, records, recordOf, lastUid, pc, wTask, wTaskFresh>>
        BY <1>3 DEF CollectCronJob, LoseCronJob, OthersStoreCronJob, StoreCronJob
    <2> QED BY <2>1, SeenKept DEF NoCronJob, Exists
<1>4. CASE EndJob
    <2>1. /\ cronJob' \in {cronJob, [cronJob EXCEPT !.active = FALSE]} /\ jobs' \subseteq jobs
          /\ UNCHANGED <<task, cTask, records, recordOf, lastUid, pc, wTask, wTaskFresh>>
        BY <1>4 DEF EndJob, OthersStoreCronJob, StoreCronJob, cacheVars, workerVars
    <2>2. cronJob'.uid = cronJob.uid
        BY <2>1 DEF TypeOK, CronJobType
    <2>3. \A u : Started(u)' => Started(u)
        BY <2>1 DEF Started
    <2> QED BY <2>1, <2>2, <2>3 DEF SeenInv, JobsBounded, SeenFirst, Started, Exists
<1>5. CASE StartJob
    <2>1. /\ Exists(cronJob) /\ jobs' = jobs \cup {cronJob.uid}
          /\ cronJob' = [cronJob EXCEPT !.active = TRUE, !.scheduled = TRUE]
          /\ UNCHANGED <<task, cTask, records, recordOf, lastUid, pc, wTask, wTaskFresh>>
        BY <1>5 DEF StartJob, OthersStoreCronJob, StoreCronJob
    <2>2. cronJob'.uid = cronJob.uid
        BY <2>1 DEF TypeOK, CronJobType
    <2>3. task.uid = cronJob.uid /\ cronJob.uid # 0 /\ cronJob.uid <= lastUid
        BY <2>1 DEF OwnershipInv, CronJobHasLiveOwner, UidsBounded, Exists
    <2>4. JobsBounded'
        BY <2>1, <2>3 DEF SeenInv, JobsBounded
    <2> QED BY <2>1, <2>2, <2>3, <2>4 DEF SeenInv, SeenFirst, Exists
<1>6. CASE WriteRecord
    <2>1. PICK r \in Records, u \in jobs :
              /\ recordOf' = [recordOf EXCEPT ![r] = u] /\ records' = records \cup {r}
              /\ UNCHANGED <<task, cTask, cronJob, jobs, lastUid, pc, wTask, wTaskFresh>>
        BY <1>6 DEF WriteRecord, cacheVars, workerVars, boundVars
    <2>2. recordOf'[r] = u /\ \A q \in Records \ {r} : recordOf'[q] = recordOf[q]
        BY <2>1 DEF TypeOK
    <2>3. JobsBounded'
        BY <2>1, <2>2 DEF TypeOK, SeenInv, JobsBounded
    <2>4. \A v : Started(v)' => Started(v)
        BY <2>1, <2>2 DEF Started
    <2> QED BY <2>1, <2>3, <2>4 DEF SeenInv, SeenFirst, Started, Exists
<1>7. CASE LoseConfigMap
    BY <1>7, SeenKept DEF LoseConfigMap, cacheVars, workerVars
<1> QED BY <1>1, <1>2, <1>3, <1>4, <1>5, <1>6, <1>7 DEF Others

LEMMA SeenInvariant ==
    Spec => []SeenInv
<1>1. ASSUME TypeOK, OwnershipInv, SeenInv, [Next]_vars PROVE SeenInv'
    <2>1. CASE UNCHANGED vars
        BY <1>1, <2>1, SeenKept DEF vars, objectVars, cacheVars, workerVars, boundVars
    <2> QED BY <1>1, <2>1, SeenWorker, SeenManager, SeenOthers DEF Next
<1> QED BY SeenInit, TypeCorrect, OwnershipInvariant, <1>1, PTL DEF Spec

(* A finalization that runs from a lagging cache while the task has been   *)
(* created again deletes none of the records the new task's Jobs write,    *)
(* although it selects them by the task's name: for any bounds, and        *)
(* whoever deletes what meanwhile.                                         *)
THEOREM LiveTaskSpared ==
    Spec => FinalizationSparesLiveTask
<1>1. ASSUME TypeOK, OwnershipInv, SeenInv, [Next]_vars
      PROVE  [\A r \in records \ records' :
                 pc = "deleteRecords" => task.uid # recordOf[r] \/ task.del]_vars
    <2>1. SUFFICES ASSUME NEW r \in records \ records', pc = "deleteRecords",
                          task.uid = recordOf[r]
                   PROVE  task.del
        OBVIOUS
    <2>2. r \in Records /\ Exists(task) /\ Started(task.uid)
        BY <1>1, <2>1 DEF TypeOK, SeenInv, JobsBounded, Started, Exists
    <2>3. task.uid = wTask.uid
        BY <1>1, <2>1, <2>2 DEF SeenInv, SeenFirst, FinalizeSteps
    <2> QED BY <1>1, <2>1, <2>3 DEF OwnershipInv, PassKnowsTask, FinalizeSteps
<1> QED BY <1>1, TypeCorrect, OwnershipInvariant, SeenInvariant, PTL
        DEF Spec, FinalizationSparesLiveTask

-----------------------------------------------------------------------------
(* THE KEY COMES BACK *)

(* Whatever is done to the stored task, it stays as it is or the cache has *)
(* it to learn.                                                            *)
LEMMA StoredTaskIsNews ==
    ASSUME NEW t, StoreTask(t)
    PROVE  (task' = task /\ taskFresh' = taskFresh) \/ ~taskFresh'
BY DEF StoreTask

LEMMA KeyKeptByWorker ==
    ASSUME TypeOK, OwnershipInv, NeverForgotten, Worker PROVE NeverForgotten'
<1>1. CASE StartReconcile
    <2>1. pc' = FirstStep(cTask) /\ UNCHANGED <<task, taskFresh>>
        BY <1>1 DEF StartReconcile, objectVars, cacheVars
    <2>2. CASE taskFresh
        <3>1. cTask = task
            BY <2>2 DEF OwnershipInv, CacheIsPast
        <3>2. Exists(task) /\ (task.fin \/ ~task.del) => pc' # "idle"
            BY <2>1, <3>1, Zenon DEF FirstStep, TypeOK, TaskType
        <3> QED BY <2>1, <3>2 DEF NeverForgotten, Exists
    <2> QED BY <2>1, <2>2 DEF NeverForgotten
<1>2. CASE RemoveFinalizer
    <2>1. CASE wTaskFresh
        <3>1. /\ pc = "deleteRecords"
              /\ task' = WithoutFinalizers([task EXCEPT !.fin = FALSE])
            BY <1>2, <2>1 DEF RemoveFinalizer, StoreTask
        <3>2. task.del
            BY <2>1, <3>1 DEF OwnershipInv, PassKnowsTask, FinalizeSteps
        <3> QED BY <3>1, <3>2
                DEF NeverForgotten, WithoutFinalizers, NoTask, Exists, TypeOK, TaskType
    <2>2. CASE timer'
        BY <2>2 DEF NeverForgotten
    <2> QED BY <1>2, <2>1, <2>2 DEF RemoveFinalizer, Fail
<1>3. CASE pc' # "idle" \/ timer'
    BY <1>3 DEF NeverForgotten
(* every other way to end a pass asks for the next one *)
<1> QED
    BY <1>1, <1>2, <1>3
    DEF Worker, CallFails, AddFinalizer, CreateConfigMap, UpdateConfigMap, WriteCronJob,
        WriteStatus, DeleteRecord, EndPass, DeleteCronJob, ReadCronJob, Goto, Fail, Requeue

LEMMA KeyKeptByManager ==
    ASSUME NeverForgotten, Manager PROVE NeverForgotten'
<1>1. CASE SyncTask \/ TimerFires
    BY <1>1 DEF SyncTask, TimerFires, NeverForgotten
<1>2. CASE SyncCronJob
    BY <1>2, Zenon DEF SyncCronJob, NeverForgotten, objectVars, workerVars, Exists
<1>3. CASE SyncRecords
    BY <1>3 DEF SyncRecords, NeverForgotten, objectVars, workerVars, queueVars, Exists
<1>4. CASE Restart
    BY <1>4 DEF Restart, NeverForgotten, objectVars, Exists
<1> QED BY <1>1, <1>2, <1>3, <1>4 DEF Manager

LEMMA KeyKeptByOthers ==
    ASSUME NeverForgotten, Others PROVE NeverForgotten'
<1>1. /\ (task' = task /\ taskFresh' = taskFresh) \/ ~taskFresh'
      /\ UNCHANGED <<queued, timer, pc>>
    BY StoredTaskIsNews
    DEF Others, CreateTask, EditTask, DeleteTask, CollectCronJob, ReleaseForeground,
        StartJob, EndJob, WriteRecord, LoseConfigMap, LoseCronJob,
        OthersStoreTask, OthersStoreCronJob, cacheVars, queueVars, workerVars
<1> QED BY <1>1 DEF NeverForgotten, Exists

(* As long as there is a task to apply or to finalize, a pass is under     *)
(* way, or the key waits, or it will come back, or an event will bring it: *)
(* however passes end, whatever is lost, and with any number of restarts.  *)
THEOREM TaskNeverForgotten ==
    Spec => []NeverForgotten
<1>1. Init => NeverForgotten
    BY DEF Init, NeverForgotten, NoTask, Exists
<1>2. ASSUME TypeOK, OwnershipInv, NeverForgotten, [Next]_vars PROVE NeverForgotten'
    <2>1. CASE UNCHANGED vars
        BY <1>2, <2>1 DEF vars, objectVars, cacheVars, queueVars, workerVars, NeverForgotten, Exists
    <2> QED BY <1>2, <2>1, KeyKeptByWorker, KeyKeptByManager, KeyKeptByOthers DEF Next
<1> QED BY <1>1, <1>2, TypeCorrect, OwnershipInvariant, PTL DEF Spec

-----------------------------------------------------------------------------
(* WHAT IS SETTLED STAYS *)

(* The garbage collector's finalizer comes with the deletion alone. *)
HoldIsDeletion == task.hold => task.del

(* The ways the stored task changes. *)
LEMMA TaskWrites ==
    ASSUME TypeOK, [Next]_vars
    PROVE  \/ task' = task
           \/ AddFinalizer /\ wTaskFresh /\ task' = [task EXCEPT !.fin = TRUE]
           \/ /\ WriteStatus /\ wTaskFresh
              /\ task' = [task EXCEPT !.obs = wTask.gen, !.phase = PhaseOf(wCronJob)]
           \/ /\ RemoveFinalizer /\ wTaskFresh
              /\ task' \in {NoTask, [task EXCEPT !.fin = FALSE]}
           \/ CreateTask
           \/ EditTask /\ task' = [task EXCEPT !.gen = @ + 1]
           \/ /\ DeleteTask
              /\ \E g \in BOOLEAN : task' \in {NoTask, [task EXCEPT !.del = TRUE, !.hold = g]}
           \/ /\ ReleaseForeground
              /\ task' \in {NoTask, [task EXCEPT !.hold = FALSE]}
<1>1. CASE Worker
    BY <1>1
    DEF Worker, StartReconcile, CallFails, AddFinalizer, CreateConfigMap, UpdateConfigMap,
        WriteCronJob, WriteStatus, DeleteRecord, EndPass, DeleteCronJob, RemoveFinalizer,
        StoreTask, StoreStatus, WithoutFinalizers, objectVars
<1>2. CASE Manager \/ UNCHANGED vars
    BY <1>2 DEF Manager, SyncTask, SyncCronJob, SyncRecords, TimerFires, Restart, objectVars, vars
<1>3. CASE Others
    <2>1. CASE DeleteTask
        BY <2>1 DEF DeleteTask, OthersStoreTask, StoreTask, WithoutFinalizers
    <2>2. CASE CreateTask
        BY <2>2
    <2>3. CASE EditTask \/ ReleaseForeground
        BY <2>3 DEF EditTask, ReleaseForeground, OthersStoreTask, StoreTask, WithoutFinalizers
    <2>4. CASE CollectCronJob \/ StartJob \/ EndJob \/ WriteRecord \/ LoseConfigMap \/ LoseCronJob
        BY <2>4 DEF CollectCronJob, StartJob, EndJob, WriteRecord, LoseConfigMap, LoseCronJob,
                    OthersStoreCronJob
    <2> QED BY <1>3, <2>1, <2>2, <2>3, <2>4 DEF Others
<1> QED BY <1>1, <1>2, <1>3 DEF Next

LEMMA HoldInvariant ==
    Spec => []HoldIsDeletion
<1>1. Init => HoldIsDeletion
    BY DEF Init, HoldIsDeletion, NoTask
<1>2. ASSUME TypeOK, HoldIsDeletion, [Next]_vars PROVE HoldIsDeletion'
    <2>1. CASE CreateTask
        BY <2>1 DEF CreateTask, OthersStoreTask, StoreTask, HoldIsDeletion, NoTask
    <2>2. CASE task' = NoTask
        BY <2>2 DEF HoldIsDeletion, NoTask
    <2>3. CASE \E g \in BOOLEAN : task' = [task EXCEPT !.del = TRUE, !.hold = g]
        <3>1. task'.del
            BY <1>2, <2>3 DEF TypeOK, TaskType
        <3> QED BY <3>1 DEF HoldIsDeletion
    <2>4. CASE task' = [task EXCEPT !.hold = FALSE]
        <3>1. ~task'.hold
            BY <1>2, <2>4 DEF TypeOK, TaskType
        <3> QED BY <3>1 DEF HoldIsDeletion
    <2>5. CASE \/ task' \in {task, [task EXCEPT !.fin = TRUE], [task EXCEPT !.fin = FALSE],
                             [task EXCEPT !.gen = @ + 1]}
               \/ task' = [task EXCEPT !.obs = wTask.gen, !.phase = PhaseOf(wCronJob)]
        <3>1. task'.hold = task.hold /\ task'.del = task.del
            BY <1>2, <2>5 DEF TypeOK, TaskType
        <3> QED BY <1>2, <3>1 DEF HoldIsDeletion
    <2> QED BY <1>2, <2>1, <2>2, <2>3, <2>4, <2>5, TaskWrites
<1> QED BY <1>1, <1>2, TypeCorrect, PTL DEF Spec

(* A task that is gone stays gone until a user creates it: a pass has      *)
(* nothing to write to.                                                    *)
LEMMA GoneStaysGone ==
    ASSUME TypeOK, OwnershipInv, [Next]_vars, ~Exists(task), Exists(task')
    PROVE  CreateTask
<1>1. ~(pc = "addFinalizer" /\ wTaskFresh) /\ pc \notin ApplySteps
    BY DEF OwnershipInv, PassKnowsTask, Exists, ApplySteps
<1>2. ~(AddFinalizer /\ wTaskFresh) /\ ~WriteStatus
    BY <1>1 DEF AddFinalizer, WriteStatus, ApplySteps
<1>3. ~EditTask /\ ~DeleteTask /\ NoTask.uid = 0
    BY DEF EditTask, DeleteTask, NoTask, Exists
<1>4. task' \notin {task, NoTask, [task EXCEPT !.fin = FALSE], [task EXCEPT !.hold = FALSE]}
    BY <1>3 DEF TypeOK, TaskType, Exists
<1> QED BY <1>2, <1>3, <1>4, TaskWrites

(* The ways CronJob, ConfigMap, cached task and pass change while the task *)
(* is settled: to what they are already.                                   *)
Applied ==
    /\ ~task.del /\ task.fin /\ task.obs = task.gen
    /\ cronJob.uid = task.uid /\ cronJob.gen = task.gen
    /\ configMap = [uid |-> task.uid, gen |-> task.gen]
    /\ cTask.uid = task.uid /\ cTask.gen = task.gen /\ ~cTask.del
    /\ pc # "idle" => wTask = [uid |-> task.uid, gen |-> task.gen]

(* Then a pass only ever applies, and what it writes is there already. *)
LEMMA AppliedAgain ==
    ASSUME TypeOK, OwnershipInv, HoldIsDeletion, Exists(task), Applied,
           [Next]_vars, ~Interference
    PROVE  /\ task'.uid = task.uid /\ task'.gen = task.gen /\ task'.obs = task.obs
           /\ task'.fin /\ ~task'.del
<1>1. pc \notin FinalizeSteps
    BY DEF Applied, OwnershipInv, PassKnowsTask, FinalizeSteps
<1>2. ~RemoveFinalizer /\ ~ReleaseForeground
    BY <1>1 DEF RemoveFinalizer, ReleaseForeground, FinalizeSteps, HoldIsDeletion, Applied
<1>3. WriteStatus => wTask.gen = task.gen
    BY DEF WriteStatus, Applied
<1> QED BY <1>2, <1>3, TaskWrites DEF Interference, Applied, TypeOK, TaskType

LEMMA AppliedStays ==
    ASSUME TypeOK, OwnershipInv, HoldIsDeletion, Exists(task), Applied,
           [Next]_vars, ~Interference
    PROVE  Applied'
<1>1. /\ task'.uid = task.uid /\ task'.gen = task.gen /\ task'.obs = task.obs
      /\ task'.fin /\ ~task'.del
    BY AppliedAgain
<1>2. pc \notin FinalizeSteps
    BY DEF Applied, OwnershipInv, PassKnowsTask, FinalizeSteps
<1>3. configMap' = configMap
    <2>1. CASE CreateConfigMap \/ UpdateConfigMap
        BY <2>1 DEF CreateConfigMap, UpdateConfigMap, Applied, Exists
    <2>2. CASE LoseConfigMap
        BY <2>2 DEF Interference
    <2> QED BY <2>1, <2>2
            DEF Next, Worker, StartReconcile, CallFails, AddFinalizer, WriteCronJob, WriteStatus,
                DeleteRecord, EndPass, DeleteCronJob, RemoveFinalizer,
                Manager, SyncTask, SyncCronJob, SyncRecords, TimerFires, Restart,
                Others, CreateTask, EditTask, DeleteTask, CollectCronJob, ReleaseForeground,
                StartJob, EndJob, WriteRecord, LoseCronJob, OthersStoreTask, OthersStoreCronJob,
                objectVars, vars
<1>4. cronJob'.uid = cronJob.uid /\ cronJob'.gen = cronJob.gen
    <2>1. CASE WriteCronJob
        <3>1. cronJob' \in {cronJob, [cronJob EXCEPT !.uid = wTask.uid, !.gen = wTask.gen]}
            BY <2>1 DEF WriteCronJob, StoreCronJob
        <3>2. wTask.uid = cronJob.uid /\ wTask.gen = cronJob.gen
            BY <2>1 DEF WriteCronJob, Applied
        <3> QED BY <3>1, <3>2 DEF TypeOK, CronJobType
    <2>2. CASE StartJob \/ EndJob
        BY <2>2 DEF StartJob, EndJob, OthersStoreCronJob, StoreCronJob, TypeOK, CronJobType
    <2>3. ~DeleteCronJob /\ ~CollectCronJob /\ ~LoseCronJob
        BY <1>2 DEF DeleteCronJob, FinalizeSteps, CollectCronJob, HoldIsDeletion, Applied, Interference
    <2> QED BY <2>1, <2>2, <2>3
            DEF Next, Worker, StartReconcile, CallFails, AddFinalizer, CreateConfigMap,
                UpdateConfigMap, WriteStatus, DeleteRecord, EndPass, RemoveFinalizer,
                Manager, SyncTask, SyncCronJob, SyncRecords, TimerFires, Restart,
                Others, CreateTask, EditTask, DeleteTask, ReleaseForeground,
                WriteRecord, LoseConfigMap, OthersStoreTask, objectVars, vars
<1>5. cTask' \in {cTask, task}
    BY DEF Next, Worker, StartReconcile, CallFails, AddFinalizer, CreateConfigMap,
           UpdateConfigMap, WriteCronJob, WriteStatus, DeleteRecord, EndPass, DeleteCronJob,
           RemoveFinalizer, Manager, SyncTask, SyncCronJob, SyncRecords, TimerFires, Restart,
           Others, CreateTask, EditTask, DeleteTask, CollectCronJob, ReleaseForeground,
           StartJob, EndJob, WriteRecord, LoseConfigMap, LoseCronJob,
           OthersStoreTask, OthersStoreCronJob, objectVars, cacheVars, vars
<1>6. pc' # "idle" => wTask' = [uid |-> task.uid, gen |-> task.gen]
    <2>1. CASE StartReconcile
        BY <2>1 DEF StartReconcile, Applied
    <2>2. CASE Idle \/ (pc # "idle" /\ wTask' = wTask) \/ UNCHANGED <<pc, wTask>>
        BY <2>2 DEF Idle, Applied
    <2> QED BY <2>1, <2>2
            DEF Next, Worker, CallFails, AddFinalizer, CreateConfigMap, UpdateConfigMap,
                ReadCronJob, WriteCronJob, WriteStatus, DeleteRecord, EndPass, DeleteCronJob,
                RemoveFinalizer, Fail, Requeue, Done,
                Manager, SyncTask, SyncCronJob, SyncRecords, TimerFires, Restart,
                Others, CreateTask, EditTask, DeleteTask, CollectCronJob, ReleaseForeground,
                StartJob, EndJob, WriteRecord, LoseConfigMap, LoseCronJob,
                OthersStoreTask, OthersStoreCronJob, workerVars, vars
<1> QED BY <1>1, <1>3, <1>4, <1>5, <1>6 DEF Applied

(* Once a task is applied, or gone, and the cache and the pass have left   *)
(* its earlier versions behind, no call, failure, restart or late event    *)
(* takes it back; only users do, or those who delete the operator's        *)
(* objects.  For any bounds.                                               *)
THEOREM SettledKept ==
    Spec => SettledStays
<1>1. ASSUME TypeOK, OwnershipInv, OwnershipInv', HoldIsDeletion, [Next]_vars
      PROVE  [CaughtUp => CaughtUp' \/ Interference]_vars
    <2>1. SUFFICES ASSUME CaughtUp, ~Interference PROVE CaughtUp'
        OBVIOUS
    <2>2. CASE ~Exists(task')
        BY <1>1, <2>2 DEF CaughtUp, Settled, OwnershipInv, CronJobHasLiveOwner, Exists
    <2>3. CASE Exists(task')
        <3>1. Exists(task)
            BY <1>1, <2>1, <2>3, GoneStaysGone DEF Interference
        <3>2. Applied'
            BY <1>1, <2>1, <3>1, AppliedStays DEF CaughtUp, Settled, Applied
        <3> QED BY <2>3, <3>2 DEF CaughtUp, Settled, Applied, Exists
    <2> QED BY <2>2, <2>3
<1> QED BY <1>1, TypeCorrect, OwnershipInvariant, HoldInvariant, PTL DEF Spec, SettledStays

-----------------------------------------------------------------------------
(* A PASS ENDS *)

LEMMA TodoBounded ==
    ASSUME NEW S \in SUBSET Records
    PROVE  /\ IsFiniteSet(S) /\ Cardinality(S) \in Nat
           /\ Cardinality(Records) \in Nat /\ Cardinality(S) <= Cardinality(Records)
BY ConstantsAssumption, FS_Subset, FS_CardinalityType

(* How many calls are left at each of them. *)
CallsLeftAt ==
    /\ Cardinality(Records) \in Nat /\ Cardinality(todo) \in Nat
    /\ Cardinality(todo) <= Cardinality(Records)
    /\ CallsLeft \in Nat
    /\ pc = "idle" <=> CallsLeft = 0
    /\ pc \in {"prune", "deleteRecords"} => CallsLeft = 1 + Cardinality(todo)
    /\ pc \in {"writeStatus", "deleteCronJob"} => CallsLeft = 2 + Cardinality(Records)
    /\ pc = "writeCronJob" => CallsLeft = 3 + Cardinality(Records)
    /\ pc = "updateConfigMap" => CallsLeft = 4 + Cardinality(Records)
    /\ pc = "createConfigMap" => CallsLeft = 5 + Cardinality(Records)
    /\ pc = "addFinalizer" => CallsLeft = 6 + Cardinality(Records)

LEMMA CallsCounted ==
    TypeOK => CallsLeftAt
<1> SUFFICES ASSUME TypeOK PROVE CallsLeftAt
    OBVIOUS
<1>1. /\ Cardinality(Records) \in Nat /\ Cardinality(todo) \in Nat
      /\ Cardinality(todo) <= Cardinality(Records)
    BY TodoBounded DEF TypeOK
<1>2. pc \in {"idle", "addFinalizer", "createConfigMap", "updateConfigMap", "writeCronJob",
              "writeStatus", "prune", "deleteCronJob", "deleteRecords"}
    BY DEF TypeOK, Steps, ApplySteps, FinalizeSteps
<1> QED BY <1>1, <1>2 DEF CallsLeft, CallsLeftAt

(* One record fewer. *)
LEMMA OneFewer ==
    ASSUME NEW S \in SUBSET Records, NEW r \in S
    PROVE  Cardinality(S \ {r}) = Cardinality(S) - 1
BY TodoBounded, FS_RemoveElement

(* Nobody but the worker moves it, unless a restart ends its pass. *)
LEMMA PassUndisturbed ==
    ASSUME Manager \/ Others \/ UNCHANGED vars
    PROVE  UNCHANGED <<pc, todo>> \/ pc' = "idle"
BY DEF Manager, SyncTask, SyncCronJob, SyncRecords, TimerFires, Restart, Idle,
       Others, CreateTask, EditTask, DeleteTask, CollectCronJob, ReleaseForeground,
       StartJob, EndJob, WriteRecord, LoseConfigMap, LoseCronJob,
       OthersStoreTask, OthersStoreCronJob, workerVars, vars

(* Its own steps end the pass, or lead to a call further on. *)
LEMMA WorkerMovesOn ==
    ASSUME Worker, pc # "idle"
    PROVE  \/ pc' = "idle"
           \/ pc = "addFinalizer" /\ pc' = "createConfigMap"
           \/ pc = "createConfigMap" /\ pc' \in {"updateConfigMap", "writeCronJob"}
           \/ pc = "updateConfigMap" /\ pc' = "writeCronJob"
           \/ pc = "writeCronJob" /\ pc' = "writeStatus"
           \/ pc = "writeStatus" /\ pc' = "prune"
           \/ pc = "deleteCronJob" /\ pc' = "deleteRecords"
           \/ pc \in {"prune", "deleteRecords"} /\ pc' = pc /\ \E r \in todo : todo' = todo \ {r}
<1>1. CASE DeleteRecord
    BY <1>1 DEF DeleteRecord
<1> QED
    BY <1>1
    DEF Worker, StartReconcile, CallFails, AddFinalizer, CreateConfigMap, UpdateConfigMap,
        WriteCronJob, WriteStatus, EndPass, DeleteCronJob, RemoveFinalizer,
        ReadCronJob, Goto, Idle, Fail, Requeue, Done

(* Every call a pass makes brings it nearer to its end, by whatever answer *)
(* it gets, and nobody puts it back: with any number of records.           *)
THEOREM PassesEnd ==
    Spec => PassEnds
<1>1. ASSUME TypeOK, CallsLeftAt, CallsLeftAt', [Next]_vars
      PROVE  [pc # "idle" => /\ CallsLeft' <= CallsLeft
                             /\ Worker => CallsLeft' < CallsLeft]_vars
    <2>1. SUFFICES ASSUME pc # "idle"
                   PROVE  /\ CallsLeft' <= CallsLeft
                          /\ Worker => CallsLeft' < CallsLeft
        OBVIOUS
    <2>2. CallsLeft \in Nat /\ CallsLeft # 0
        BY <1>1, <2>1 DEF CallsLeftAt
    <2>3. CASE pc' = "idle"
        BY <1>1, <2>2, <2>3 DEF CallsLeftAt
    <2>4. CASE UNCHANGED <<pc, todo>> /\ ~Worker
        <3>1. CallsLeft' = CallsLeft
            BY <2>4, Zenon DEF CallsLeft
        <3> QED BY <2>2, <2>4, <3>1
    <2>5. CASE \/ pc = "addFinalizer" /\ pc' = "createConfigMap"
               \/ pc = "createConfigMap" /\ pc' \in {"updateConfigMap", "writeCronJob"}
               \/ pc = "updateConfigMap" /\ pc' = "writeCronJob"
               \/ pc = "writeCronJob" /\ pc' = "writeStatus"
        BY <1>1, <2>5 DEF CallsLeftAt
    <2>6. CASE \/ pc = "writeStatus" /\ pc' = "prune"
               \/ pc = "deleteCronJob" /\ pc' = "deleteRecords"
        BY <1>1, <2>6 DEF CallsLeftAt
    <2>7. CASE /\ pc \in {"prune", "deleteRecords"} /\ pc' = pc
               /\ \E r \in todo : todo' = todo \ {r}
        <3>1. Cardinality(todo') = Cardinality(todo) - 1
            BY <1>1, <2>7, OneFewer DEF TypeOK
        <3> QED BY <1>1, <2>7, <3>1 DEF CallsLeftAt
    <2>8. CASE Worker
        BY <2>1, <2>3, <2>5, <2>6, <2>7, <2>8, WorkerMovesOn
    <2> QED BY <1>1, <2>3, <2>4, <2>8, PassUndisturbed DEF Next
<1> QED BY <1>1, TypeCorrect, CallsCounted, PTL DEF Spec, PassEnds
=============================================================================
