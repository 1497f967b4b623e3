----------------------- MODULE BackupTaskRefinementProofs -----------------------
(***************************************************************************)
(* The controller implements ScheduledTask, for every value of the         *)
(* constants, as long as nobody else deletes the CronJob and the ConfigMap.*)
(***************************************************************************)
EXTENDS BackupTaskRefinement, BackupTaskProofs

(* Generations only grow, along the way a specification takes: from the    *)
(* stored task to the cached one, to the pass, to ConfigMap and CronJob,   *)
(* and last to the acknowledgement.  What is stored about a schedule is    *)
(* therefore never newer than the cache, ...                               *)
GenerationsGrow ==
    /\ ~Exists(task) => task = NoTask
    /\ task.hold => task.del
    /\ Exists(task) => task.gen >= 1
    /\ Exists(cTask) => cTask.gen >= 1
    /\ Exists(task) /\ cTask.uid = task.uid => cTask.gen <= task.gen
    /\ ~Exists(cronJob) => cronJob.gen = 0
    /\ Exists(cronJob) => cronJob.uid = cTask.uid /\ cronJob.gen <= cTask.gen
    /\ task.obs > 0 => task.uid = cTask.uid /\ task.obs <= cTask.gen
    /\ ObservedGenerationApplied

(* ... and never newer than what a pass is about to write, which it took   *)
(* from the cache.  A finalizing pass meets no CronJob of a newer task.    *)
PassMovesForward ==
    /\ pc = "addFinalizer" /\ wTaskFresh => cTask = task /\ wTask.gen = task.gen
    /\ pc \in ApplySteps =>
          /\ cTask.uid = wTask.uid
          /\ 1 <= wTask.gen /\ wTask.gen <= cTask.gen
          /\ cronJob.gen <= wTask.gen /\ task.obs <= wTask.gen
    /\ pc \in {"writeCronJob", "writeStatus"} => configMap = wTask
    /\ pc = "writeStatus" /\ ~task.del => cronJob.uid = wTask.uid /\ cronJob.gen = wTask.gen
    /\ pc \in FinalizeSteps /\ Exists(cronJob) => cronJob.uid = wTask.uid

GenerationInv == GenerationsGrow /\ PassMovesForward

-----------------------------------------------------------------------------
(* GENERATIONS *)

LEMMA GenerationInit ==
    Init => GenerationInv
BY DEF Init, GenerationInv, GenerationsGrow, PassMovesForward, ObservedGenerationApplied,
       NoTask, NoSpec, NoCronJob, Exists, ApplySteps, FinalizeSteps

(* Steps that touch none of the objects concerned, nor the pass. *)
LEMMA GrowUntouched ==
    ASSUME GenerationsGrow, UNCHANGED <<task, cTask, cronJob, configMap>>
    PROVE  GenerationsGrow'
BY DEF GenerationsGrow, ObservedGenerationApplied, Exists

LEMMA GenerationUntouched ==
    ASSUME GenerationInv,
           UNCHANGED <<task, cTask, cronJob, configMap, pc, wTask, wTaskFresh>>
    PROVE  GenerationInv'
BY GrowUntouched DEF GenerationInv, PassMovesForward, Exists

(* The end of a pass. *)
LEMMA GenerationIdle ==
    ASSUME Idle, GenerationsGrow'
    PROVE  GenerationInv'
BY DEF Idle, GenerationInv, PassMovesForward, ApplySteps, FinalizeSteps

LEMMA GenerationIdleUntouched ==
    ASSUME GenerationInv, Idle, UNCHANGED <<task, cTask, cronJob, configMap>>
    PROVE  GenerationInv'
BY GrowUntouched, GenerationIdle DEF GenerationInv

(* The stored task moves on within its incarnation, or goes when there is  *)
(* no CronJob any more.                                                    *)
SameIncarnation(t) ==
    /\ t.uid = task.uid /\ t.gen >= task.gen /\ t.obs = task.obs
    /\ t.hold => t.del
    /\ task.del => t.del

(* A change of the finalizer alone. *)
LEMMA FinalizerOnly ==
    ASSUME TypeOK, GenerationInv, NEW present \in BOOLEAN
    PROVE  LET t == [task EXCEPT !.fin = present] IN t \in TaskType /\ SameIncarnation(t)
<1> DEFINE t == [task EXCEPT !.fin = present]
<1>1. t \in TaskType
    BY DEF TypeOK, TaskType
<1>2. /\ t.uid = task.uid /\ t.gen = task.gen /\ t.obs = task.obs
      /\ t.hold = task.hold /\ t.del = task.del
    BY DEF TypeOK, TaskType
<1>3. task.gen \in Nat /\ (task.hold => task.del)
    BY DEF TypeOK, TaskType, GenerationInv, GenerationsGrow
<1> QED BY <1>1, <1>2, <1>3 DEF SameIncarnation

LEMMA GrowTaskStored ==
    ASSUME TypeOK, GenerationsGrow, Exists(task), NEW t \in TaskType, SameIncarnation(t),
           task' = t, UNCHANGED <<cTask, cronJob, configMap>>
    PROVE  GenerationsGrow'
BY DEF TypeOK, TaskType, GenerationsGrow, ObservedGenerationApplied, SameIncarnation, Exists

LEMMA GrowTaskGone ==
    ASSUME GenerationsGrow, ~Exists(cronJob),
           task' = NoTask, UNCHANGED <<cTask, cronJob, configMap>>
    PROVE  GenerationsGrow'
BY DEF GenerationsGrow, ObservedGenerationApplied, NoTask, Exists

LEMMA GenerationWorker ==
    ASSUME TypeOK, OwnershipInv, GenerationInv, Worker PROVE GenerationInv'
<1>1. CASE StartReconcile
    <2>1. /\ pc' = FirstStep(cTask)
          /\ UNCHANGED <<task, cTask, cronJob, configMap>>
        BY <1>1 DEF StartReconcile, objectVars, cacheVars, boundVars
    <2>2. GenerationsGrow'
        BY <2>1, GrowUntouched DEF GenerationInv
    <2>3. CASE pc' = "idle"
        BY <2>2, <2>3 DEF GenerationInv, PassMovesForward, ApplySteps, FinalizeSteps
    <2>4. CASE pc' # "idle"
        <3>1. /\ wTask' = [uid |-> cTask.uid, gen |-> cTask.gen]
              /\ wTaskFresh' => taskFresh
              /\ Exists(cTask)
            BY <1>1, <2>4 DEF StartReconcile, FirstStep, TypeOK, TaskType, Exists
        <3>2. CASE pc' = "addFinalizer"
            BY <2>1, <2>2, <3>1, <3>2
            DEF GenerationInv, PassMovesForward, OwnershipInv, CacheIsPast,
                ApplySteps, FinalizeSteps
        <3>3. CASE pc' = "createConfigMap"
            <4>1. cTask \in TaskType /\ task \in TaskType /\ cronJob \in CronJobType
                BY DEF TypeOK
            <4>2. /\ 1 <= cTask.gen /\ cTask.gen <= cTask.gen
                  /\ cronJob.gen <= cTask.gen /\ task.obs <= cTask.gen
                BY <3>1, <4>1 DEF GenerationInv, GenerationsGrow, TaskType, CronJobType, Exists
            <4>3. wTask'.uid = cTask'.uid /\ wTask'.gen = cTask.gen
                BY <2>1, <3>1
            <4> QED BY <2>1, <2>2, <3>3, <4>2, <4>3
                    DEF GenerationInv, PassMovesForward, FinalizeSteps
        <3>4. CASE pc' = "deleteCronJob"
            BY <2>1, <2>2, <3>1, <3>4
            DEF GenerationInv, GenerationsGrow, PassMovesForward, ApplySteps, Exists
        <3> QED BY <2>1, <2>4, <3>2, <3>3, <3>4, FirstStepIsStep DEF TypeOK
    <2> QED BY <2>3, <2>4
<1>2. CASE CallFails
    BY <1>2, GenerationIdleUntouched DEF CallFails, Fail, objectVars, cacheVars
<1>3. CASE AddFinalizer
    <2>1. CASE ~wTaskFresh
        BY <1>3, <2>1, GenerationIdleUntouched DEF AddFinalizer, Fail
    <2>2. CASE wTaskFresh
        <3> DEFINE t == [task EXCEPT !.fin = TRUE]
        <3>1. task' = t /\ UNCHANGED <<cTask, cronJob, configMap>>
            BY <1>3, <2>2 DEF AddFinalizer, StoreTask
        <3>2. /\ Exists(task) /\ task.uid = wTask.uid
              /\ cTask = task /\ wTask.gen = task.gen
            BY <1>3, <2>2
            DEF AddFinalizer, GenerationInv, PassMovesForward, OwnershipInv, PassKnowsTask, Exists
        <3>3. t \in TaskType /\ SameIncarnation(t)
            BY FinalizerOnly
        <3>4. GenerationsGrow'
            BY <3>1, <3>2, <3>3, GrowTaskStored DEF GenerationInv
        <3>5. CASE Idle
            BY <3>4, <3>5, GenerationIdle
        <3>6. CASE pc' = "createConfigMap" /\ UNCHANGED wTask
            <4>1. cTask \in TaskType /\ cronJob \in CronJobType
                BY DEF TypeOK
            <4>2. /\ 1 <= cTask.gen /\ cTask.gen <= cTask.gen
                  /\ cronJob.gen <= cTask.gen /\ task.obs <= cTask.gen
                BY <3>2, <4>1 DEF GenerationInv, GenerationsGrow, TaskType, CronJobType, Exists
            <4>3. task'.obs = task.obs
                BY <3>1, <3>3 DEF SameIncarnation
            <4> QED BY <3>1, <3>2, <3>4, <3>6, <4>2, <4>3
                    DEF GenerationInv, PassMovesForward, FinalizeSteps
        <3> QED BY <1>3, <2>2, <3>5, <3>6 DEF AddFinalizer, Goto, Fail
    <2> QED BY <2>1, <2>2
<1>4. CASE CreateConfigMap \/ UpdateConfigMap
    <2>1. /\ UNCHANGED <<task, cTask, cronJob>> /\ configMap' \in {configMap, wTask}
          /\ pc \in ApplySteps
        BY <1>4 DEF CreateConfigMap, UpdateConfigMap, cacheVars, ApplySteps
    <2>2. /\ task.uid = wTask.uid /\ task.obs <= wTask.gen
        BY <2>1 DEF OwnershipInv, PassKnowsTask, GenerationInv, PassMovesForward
    <2>3. GenerationsGrow'
        BY <2>1, <2>2
        DEF TypeOK, TaskType, GenerationInv, GenerationsGrow, ObservedGenerationApplied, Exists
    <2>4. CASE Idle
        BY <2>3, <2>4, GenerationIdle
    <2>5. CASE pc' \in {"updateConfigMap", "writeCronJob"} /\ UNCHANGED wTask
               /\ (pc' = "writeCronJob" => configMap' = wTask)
        BY <2>1, <2>3, <2>5 DEF GenerationInv, PassMovesForward, ApplySteps, FinalizeSteps
    <2> QED BY <1>4, <2>4, <2>5
            DEF CreateConfigMap, UpdateConfigMap, ReadCronJob, Goto, Fail
<1>5. CASE WriteCronJob
    <2>1. CASE ~CronJobWritable
        BY <1>5, <2>1, GenerationIdleUntouched DEF WriteCronJob, Fail
    <2>2. CASE CronJobWritable
        <3>1. /\ cronJob' = [cronJob EXCEPT !.uid = wTask.uid, !.gen = wTask.gen]
              /\ UNCHANGED <<task, cTask, configMap>>
            BY <1>5, <2>2 DEF WriteCronJob, StoreCronJob
        <3>2. cronJob'.uid = wTask.uid /\ cronJob'.gen = wTask.gen
            BY <3>1 DEF TypeOK, CronJobType
        <3>3. /\ task.uid = wTask.uid /\ Exists(wTask)
              /\ cTask.uid = wTask.uid /\ 1 <= wTask.gen /\ wTask.gen <= cTask.gen
              /\ task.obs <= wTask.gen /\ configMap = wTask
            BY <1>5
            DEF WriteCronJob, OwnershipInv, PassKnowsTask, GenerationInv, PassMovesForward, ApplySteps
        <3>4. GenerationsGrow'
            BY <3>1, <3>2, <3>3
            DEF TypeOK, TaskType, GenerationInv, GenerationsGrow, ObservedGenerationApplied, Exists
        <3>5. CASE Idle
            BY <3>4, <3>5, GenerationIdle
        <3>6. CASE pc' = "writeStatus" /\ UNCHANGED wTask
            <4>1. wTask.gen <= wTask.gen
                BY DEF TypeOK
            <4> QED BY <3>1, <3>2, <3>3, <3>4, <3>6, <4>1
                    DEF GenerationInv, PassMovesForward, FinalizeSteps
        <3> QED BY <1>5, <2>2, <3>5, <3>6 DEF WriteCronJob, Goto, Fail
    <2> QED BY <2>1, <2>2
<1>6. CASE WriteStatus
    <2>1. CASE ~wTaskFresh
        BY <1>6, <2>1, GenerationIdleUntouched DEF WriteStatus, Fail
    <2>2. CASE wTaskFresh
        <3> DEFINE t == [task EXCEPT !.obs = wTask.gen, !.phase = PhaseOf(wCronJob)]
        <3>1. /\ t.uid = task.uid /\ t.gen = task.gen /\ t.del = task.del /\ t.hold = task.hold
              /\ t.obs = wTask.gen
            BY DEF TypeOK, TaskType
        <3>2. task' = t /\ UNCHANGED <<cTask, cronJob, configMap>>
            BY <1>6, <2>2 DEF WriteStatus, StoreStatus
        <3>3. /\ task.uid = wTask.uid /\ Exists(wTask)
              /\ cTask.uid = wTask.uid /\ 1 <= wTask.gen /\ wTask.gen <= cTask.gen
              /\ cronJob.gen <= wTask.gen /\ configMap = wTask
              /\ ~task.del => cronJob.uid = wTask.uid /\ cronJob.gen = wTask.gen
            BY <1>6
            DEF WriteStatus, OwnershipInv, PassKnowsTask, GenerationInv, PassMovesForward, ApplySteps
        <3> HIDE DEF t
        <3>4. GenerationsGrow'
            BY <3>1, <3>2, <3>3
            DEF TypeOK, TaskType, GenerationInv, GenerationsGrow, ObservedGenerationApplied, Exists
        <3>5. CASE Idle
            BY <3>4, <3>5, GenerationIdle
        <3>6. CASE pc' = "prune" /\ UNCHANGED wTask
            <4>1. wTask.gen <= wTask.gen
                BY DEF TypeOK
            <4> QED BY <3>1, <3>2, <3>3, <3>4, <3>6, <4>1
                    DEF GenerationInv, PassMovesForward, FinalizeSteps
        <3> QED BY <1>6, <2>2, <3>5, <3>6 DEF WriteStatus, Goto, Fail, Requeue
    <2> QED BY <2>1, <2>2
<1>7. CASE DeleteRecord
    BY <1>7, GenerationUntouched DEF DeleteRecord, cacheVars
<1>8. CASE EndPass
    BY <1>8, GenerationIdleUntouched DEF EndPass, Requeue, objectVars, cacheVars
<1>9. CASE DeleteCronJob
    <2>1. cronJob' = NoCronJob /\ UNCHANGED <<task, cTask, configMap>>
        BY <1>9 DEF DeleteCronJob, StoreCronJob, CronJobAfterDelete
    (* a CronJob that is deleted is one of the incarnation that is going *)
    <2>2. Exists(cronJob) => task.del
        BY <1>9 DEF DeleteCronJob, GenerationInv, PassMovesForward, FinalizeSteps,
                    OwnershipInv, PassKnowsTask, CronJobHasLiveOwner
    <2>3. GenerationsGrow'
        BY <2>1, <2>2
        DEF TypeOK, TaskType, GenerationInv, GenerationsGrow, ObservedGenerationApplied,
            NoCronJob, NoTask, Exists
    <2>4. CASE Idle
        BY <2>3, <2>4, GenerationIdle
    <2>5. CASE pc' = "deleteRecords"
        BY <2>1, <2>3, <2>5 DEF GenerationInv, PassMovesForward, ApplySteps, NoCronJob, Exists
    <2> QED BY <1>9, <2>4, <2>5 DEF DeleteCronJob, Goto, Fail
<1>10. CASE RemoveFinalizer
    <2>1. CASE ~wTaskFresh
        BY <1>10, <2>1, GenerationIdleUntouched DEF RemoveFinalizer, Fail
    <2>2. CASE wTaskFresh
        <3> DEFINE t == [task EXCEPT !.fin = FALSE]
        <3>1. /\ task' = WithoutFinalizers(t) /\ UNCHANGED <<cTask, cronJob, configMap>>
              /\ Idle
            BY <1>10, <2>2 DEF RemoveFinalizer, StoreTask, Done, Fail
        <3>2. Exists(task) /\ ~Exists(cronJob)
            BY <1>10, <2>2 DEF RemoveFinalizer, OwnershipInv, PassKnowsTask, FinalizeSteps, Exists
        <3>3. t \in TaskType /\ SameIncarnation(t)
            BY FinalizerOnly
        <3> HIDE DEF t
        <3>4. GenerationsGrow'
            BY <3>1, <3>2, <3>3, GrowTaskStored, GrowTaskGone
            DEF GenerationInv, WithoutFinalizers
        <3> QED BY <3>1, <3>4, GenerationIdle
    <2> QED BY <2>1, <2>2
<1> QED BY <1>1, <1>2, <1>3, <1>4, <1>5, <1>6, <1>7, <1>8, <1>9, <1>10 DEF Worker

LEMMA GenerationManager ==
    ASSUME TypeOK, OwnershipInv, GenerationInv, Manager PROVE GenerationInv'
<1>1. CASE SyncTask \/ Restart
    <2>1. cTask' = task /\ UNCHANGED <<task, cronJob, configMap>>
        BY <1>1 DEF SyncTask, Restart, objectVars
    <2>2. task.gen \in Nat /\ task.obs \in Nat /\ cTask.gen \in Nat /\ cronJob.gen \in Nat
        BY DEF TypeOK, TaskType, CronJobType
    <2>3. Exists(cronJob) => Exists(task) /\ cronJob.uid = task.uid /\ cronJob.gen <= task.gen
        BY <2>2 DEF GenerationInv, GenerationsGrow, OwnershipInv, CronJobHasLiveOwner, Exists
    <2>4. task.obs > 0 => task.obs <= task.gen
        BY <2>2 DEF GenerationInv, GenerationsGrow, NoTask, Exists
    <2>5. GenerationsGrow'
        BY <2>1, <2>2, <2>3, <2>4
        DEF GenerationInv, GenerationsGrow, ObservedGenerationApplied, Exists
    <2>6. CASE Idle
        BY <2>5, <2>6, GenerationIdle
    <2>7. CASE UNCHANGED <<pc, wTask, wTaskFresh>>
        <3>1. pc \in ApplySteps =>
                  Exists(task) /\ task.uid = wTask.uid /\ cTask.uid = wTask.uid
                  /\ wTask.gen \in Nat /\ wTask.gen <= task.gen
            BY <2>2 DEF TypeOK, GenerationInv, GenerationsGrow, PassMovesForward,
                        OwnershipInv, PassKnowsTask, Exists, ApplySteps
        <3> QED BY <2>1, <2>5, <2>7, <3>1 DEF GenerationInv, PassMovesForward, Exists
    <2> QED BY <1>1, <2>6, <2>7 DEF SyncTask, Restart, workerVars
<1>2. CASE SyncCronJob \/ SyncRecords \/ TimerFires
    BY <1>2, GenerationUntouched
    DEF SyncCronJob, SyncRecords, TimerFires, objectVars, cacheVars, workerVars
<1> QED BY <1>1, <1>2 DEF Manager

(* Others write the task: within its incarnation, or it goes, which it     *)
(* only can without the operator's finalizer.                              *)
LEMMA GenerationOthersStoreTask ==
    ASSUME TypeOK, OwnershipInv, GenerationInv, Exists(task),
           NEW t \in TaskType, OthersStoreTask(t),
           SameIncarnation(t) \/ (~task.fin /\ t = NoTask)
    PROVE  GenerationInv'
<1>1. /\ task' = t /\ wTaskFresh' = FALSE
      /\ UNCHANGED <<cTask, cronJob, configMap, pc, wTask>>
    BY DEF OthersStoreTask, StoreTask
<1>2. CASE SameIncarnation(t)
    <2>1. GenerationsGrow'
        BY <1>1, <1>2, GrowTaskStored DEF GenerationInv
    <2> QED BY <1>1, <1>2, <2>1 DEF GenerationInv, PassMovesForward, SameIncarnation, Exists
<1>3. CASE ~task.fin /\ t = NoTask
    <2>1. pc \notin ApplySteps /\ ~Exists(cronJob)
        BY <1>3 DEF OwnershipInv, PassKnowsTask, CronJobHasLiveOwner
    <2>2. GenerationsGrow'
        BY <1>1, <1>3, <2>1, GrowTaskGone DEF GenerationInv
    <2> QED BY <1>1, <2>1, <2>2 DEF GenerationInv, PassMovesForward, ApplySteps, Exists
<1> QED BY <1>2, <1>3

(* Others write the CronJob's status, or collect it with the task.         *)
LEMMA GenerationOthersStoreCronJob ==
    ASSUME TypeOK, GenerationInv, NEW c, OthersStoreCronJob(c),
           \/ c.uid = cronJob.uid /\ c.gen = cronJob.gen
           \/ task.del /\ c = NoCronJob
    PROVE  GenerationInv'
<1>1. cronJob' = c /\ UNCHANGED <<task, cTask, configMap, pc, wTask, wTaskFresh>>
    BY DEF OthersStoreCronJob, StoreCronJob
<1>2. CASE c.uid = cronJob.uid /\ c.gen = cronJob.gen
    BY <1>1, <1>2
    DEF GenerationInv, GenerationsGrow, PassMovesForward, ObservedGenerationApplied, Exists
<1>3. CASE task.del /\ c = NoCronJob
    <2>1. GenerationsGrow'
        BY <1>1, <1>3 DEF GenerationInv, GenerationsGrow, ObservedGenerationApplied, NoCronJob, Exists
    <2>2. pc \in ApplySteps => 0 <= wTask.gen
        BY DEF TypeOK, GenerationInv, PassMovesForward
    <2> QED BY <1>1, <1>3, <2>1, <2>2 DEF GenerationInv, PassMovesForward, NoCronJob, Exists
<1> QED BY <1>2, <1>3

(* What users and the garbage collector make of a task. *)
LEMMA OthersKeepIncarnation ==
    ASSUME TypeOK, GenerationInv, NEW g \in BOOLEAN
    PROVE  LET edited   == [task EXCEPT !.gen = @ + 1]
               marked   == [task EXCEPT !.del = TRUE, !.hold = g]
               released == [task EXCEPT !.hold = FALSE]
           IN  /\ edited \in TaskType /\ SameIncarnation(edited)
               /\ marked \in TaskType /\ SameIncarnation(marked) /\ marked.fin = task.fin
               /\ released \in TaskType /\ SameIncarnation(released)
               /\ released.fin = task.fin
<1> DEFINE edited   == [task EXCEPT !.gen = @ + 1]
           marked   == [task EXCEPT !.del = TRUE, !.hold = g]
           released == [task EXCEPT !.hold = FALSE]
<1>1. task.gen \in Nat /\ (task.hold => task.del) /\ task \in TaskType
    BY DEF TypeOK, TaskType, GenerationInv, GenerationsGrow
<1>2. edited \in TaskType /\ SameIncarnation(edited)
    <2>1. edited \in TaskType
        BY <1>1 DEF TaskType
    <2>2. /\ edited.uid = task.uid /\ edited.gen = task.gen + 1 /\ edited.obs = task.obs
          /\ edited.hold = task.hold /\ edited.del = task.del
        BY <1>1 DEF TaskType
    <2> QED BY <1>1, <2>1, <2>2 DEF SameIncarnation
<1>3. marked \in TaskType /\ SameIncarnation(marked) /\ marked.fin = task.fin
    <2>1. marked \in TaskType
        BY <1>1 DEF TaskType
    <2>2. /\ marked.uid = task.uid /\ marked.gen = task.gen /\ marked.obs = task.obs
          /\ marked.del /\ marked.fin = task.fin
        BY <1>1 DEF TaskType
    <2> QED BY <1>1, <2>1, <2>2 DEF SameIncarnation
<1>4. released \in TaskType /\ SameIncarnation(released) /\ released.fin = task.fin
    <2>1. released \in TaskType
        BY <1>1 DEF TaskType
    <2>2. /\ released.uid = task.uid /\ released.gen = task.gen /\ released.obs = task.obs
          /\ ~released.hold /\ released.del = task.del /\ released.fin = task.fin
        BY <1>1 DEF TaskType
    <2> QED BY <1>1, <2>1, <2>2 DEF SameIncarnation
<1> QED BY <1>2, <1>3, <1>4

LEMMA GenerationOthers ==
    ASSUME ~ThirdParty, TypeOK, OwnershipInv, GenerationInv, Others PROVE GenerationInv'
<1>1. CASE CreateTask
    <2> DEFINE t == [NoTask EXCEPT !.uid = lastUid + 1, !.gen = 1]
    <2>1. /\ t.uid = lastUid + 1 /\ t.gen = 1 /\ t.obs = 0 /\ t.hold = FALSE /\ t.del = FALSE
        BY DEF NoTask
    <2>2. /\ task' = t /\ ~Exists(task) /\ wTaskFresh' = FALSE
          /\ UNCHANGED <<cTask, cronJob, configMap, pc, wTask>>
        BY <1>1 DEF CreateTask, OthersStoreTask, StoreTask
    <2>3. cTask.uid # lastUid + 1 /\ lastUid + 1 # 0
        BY DEF TypeOK, TaskType, OwnershipInv, UidsBounded
    <2>4. pc \notin ApplySteps /\ ~Exists(cronJob)
        BY <2>2 DEF OwnershipInv, PassKnowsTask, CronJobHasLiveOwner, Exists, ApplySteps
    <2> HIDE DEF t
    <2>5. GenerationsGrow'
        BY <2>1, <2>2, <2>3, <2>4
        DEF GenerationInv, GenerationsGrow, ObservedGenerationApplied, Exists
    <2> QED BY <2>2, <2>4, <2>5 DEF GenerationInv, PassMovesForward, ApplySteps, Exists
<1>2. CASE EditTask
    BY <1>2, OthersKeepIncarnation, GenerationOthersStoreTask DEF EditTask
<1>3. CASE DeleteTask
    <2>1. PICK foreground \in BOOLEAN :
              OthersStoreTask(WithoutFinalizers([task EXCEPT !.del = TRUE, !.hold = foreground]))
        BY <1>3 DEF DeleteTask
    <2> DEFINE marked == [task EXCEPT !.del = TRUE, !.hold = foreground]
    <2>2. marked \in TaskType /\ SameIncarnation(marked) /\ marked.fin = task.fin
        BY OthersKeepIncarnation
    <2>3. Exists(task) /\ OthersStoreTask(WithoutFinalizers(marked))
        BY <1>3, <2>1 DEF DeleteTask
    <2> HIDE DEF marked
    <2> QED BY <2>2, <2>3, AbsentObjectsTyped, GenerationOthersStoreTask DEF WithoutFinalizers
<1>4. CASE CollectCronJob
    BY <1>4, GenerationOthersStoreCronJob DEF CollectCronJob, GenerationInv, GenerationsGrow
<1>5. CASE ReleaseForeground
    <2> DEFINE released == [task EXCEPT !.hold = FALSE]
    <2>1. released \in TaskType /\ SameIncarnation(released) /\ released.fin = task.fin
        BY OthersKeepIncarnation
    <2>2. Exists(task) /\ OthersStoreTask(WithoutFinalizers(released))
        BY <1>5 DEF ReleaseForeground, GenerationInv, GenerationsGrow, NoTask
    <2> HIDE DEF released
    <2> QED BY <2>1, <2>2, AbsentObjectsTyped, GenerationOthersStoreTask DEF WithoutFinalizers
<1>6. CASE StartJob
    <2> DEFINE c == [cronJob EXCEPT !.active = TRUE, !.scheduled = TRUE]
    <2>1. c.uid = cronJob.uid /\ c.gen = cronJob.gen
        BY DEF TypeOK, CronJobType
    <2> QED BY <1>6, <2>1, GenerationOthersStoreCronJob DEF StartJob
<1>7. CASE EndJob
    <2>1. CASE OthersStoreCronJob([cronJob EXCEPT !.active = FALSE])
        <3> DEFINE c == [cronJob EXCEPT !.active = FALSE]
        <3>1. c.uid = cronJob.uid /\ c.gen = cronJob.gen
            BY DEF TypeOK, CronJobType
        <3> QED BY <2>1, <3>1, GenerationOthersStoreCronJob
    <2>2. CASE UNCHANGED <<task, cronJob, configMap, records, recordOf, cacheVars,
                           queueVars, workerVars, lastUid>>
        BY <2>2, GenerationUntouched DEF cacheVars, workerVars
    <2> QED BY <1>7, <2>1, <2>2 DEF EndJob
<1>8. CASE WriteRecord
    BY <1>8, GenerationUntouched DEF WriteRecord, cacheVars, workerVars
<1>9. CASE LoseConfigMap \/ LoseCronJob
    BY <1>9 DEF LoseConfigMap, LoseCronJob
<1> QED BY <1>1, <1>2, <1>3, <1>4, <1>5, <1>6, <1>7, <1>8, <1>9 DEF Others

LEMMA GenerationInvariant ==
    ASSUME ~ThirdParty
    PROVE  Spec => []GenerationInv
<1>1. ASSUME TypeOK, OwnershipInv, GenerationInv, [Next]_vars PROVE GenerationInv'
    <2>1. CASE UNCHANGED vars
        BY <1>1, <2>1, GenerationUntouched DEF vars, objectVars, cacheVars, workerVars
    <2> QED BY <1>1, <2>1, GenerationWorker, GenerationManager, GenerationOthers DEF Next
<1> QED BY GenerationInit, TypeCorrect, OwnershipInvariant, <1>1, PTL DEF Spec

(* Whatever generation status.observedGeneration acknowledges to the       *)
(* users, ConfigMap and CronJob are of that incarnation and not older: for *)
(* any number of edits, incarnations, lagging caches, failed calls, lost   *)
(* replies and restarts, if nobody else deletes the two.                   *)
THEOREM AcknowledgedIsApplied ==
    ASSUME ~ThirdParty
    PROVE  Spec => []ObservedGenerationApplied
BY GenerationInvariant, PTL DEF GenerationInv, GenerationsGrow

-----------------------------------------------------------------------------
(* REFINEMENT *)

PromiseStep == [Promise!Next]_(Promise!vars)

LEMMA PromiseInit ==
    Init => Promise!Init
BY DEF Init, Promise!Init, Promise!NoSchedule, NoTask, NoCronJob

(* What the abstract specification does not see. *)
LEMMA PromiseStutters ==
    ASSUME task'.uid = task.uid, task'.gen = task.gen, task'.del = task.del,
           task'.obs = task.obs, lastUid' = lastUid,
           cronJob'.uid = cronJob.uid, cronJob'.gen = cronJob.gen
    PROVE  PromiseStep
BY DEF PromiseStep, Promise!vars

(* A task disappears when its CronJob has gone before it. *)
LEMMA PromiseVanish ==
    ASSUME GenerationInv, Exists(task), ~Exists(cronJob), task' = NoTask,
           UNCHANGED <<cronJob, lastUid>>
    PROVE  PromiseStep
<1>1. cronJob.uid = 0 /\ cronJob.gen = 0
    BY DEF GenerationInv, GenerationsGrow, Exists
<1>2. Promise!Vanish
    BY <1>1 DEF Promise!Vanish, Promise!NoSchedule, NoTask, Exists
<1> QED BY <1>2 DEF PromiseStep, Promise!Next

(* A CronJob disappears in a deletion. *)
LEMMA PromiseWithdraw ==
    ASSUME GenerationInv, Exists(cronJob) => task.del, cronJob' = NoCronJob,
           UNCHANGED <<task, lastUid>>
    PROVE  PromiseStep
<1>1. CASE ~Exists(cronJob)
    <2>1. cronJob.uid = 0 /\ cronJob.gen = 0
        BY <1>1 DEF GenerationInv, GenerationsGrow, Exists
    <2> QED BY <2>1, PromiseStutters DEF NoCronJob
<1>2. CASE Exists(cronJob)
    <2>1. Promise!Withdraw
        BY <1>2 DEF Promise!Withdraw, Promise!NoSchedule, NoCronJob, Exists
    <2> QED BY <2>1 DEF PromiseStep, Promise!Next
<1> QED BY <1>1, <1>2

LEMMA PromiseWorker ==
    ASSUME TypeOK, OwnershipInv, GenerationInv, Worker PROVE PromiseStep
<1>1. CASE StartReconcile \/ CallFails \/ DeleteRecord \/ EndPass
           \/ CreateConfigMap \/ UpdateConfigMap
    <2>1. UNCHANGED <<task, cronJob, lastUid>>
        BY <1>1 DEF StartReconcile, CallFails, DeleteRecord, EndPass, CreateConfigMap,
                    UpdateConfigMap, objectVars, boundVars
    <2> QED BY <2>1, PromiseStutters
<1>2. CASE AddFinalizer
    <2>1. task' \in {task, [task EXCEPT !.fin = TRUE]} /\ UNCHANGED <<cronJob, lastUid>>
        BY <1>2 DEF AddFinalizer, StoreTask
    <2>2. /\ task'.uid = task.uid /\ task'.gen = task.gen
          /\ task'.del = task.del /\ task'.obs = task.obs
        BY <2>1 DEF TypeOK, TaskType
    <2> QED BY <2>1, <2>2, PromiseStutters
<1>3. CASE WriteCronJob
    <2>1. CASE ~CronJobWritable
        BY <1>3, <2>1, PromiseStutters DEF WriteCronJob
    <2>2. CASE CronJobWritable
        <3>1. /\ cronJob' = [cronJob EXCEPT !.uid = wTask.uid, !.gen = wTask.gen]
              /\ UNCHANGED <<task, lastUid>>
            BY <1>3, <2>2 DEF WriteCronJob, StoreCronJob
        <3>2. cronJob'.uid = wTask.uid /\ cronJob'.gen = wTask.gen
            BY <3>1 DEF TypeOK, CronJobType
        <3>3. /\ task.uid = wTask.uid /\ Exists(task) /\ 1 <= wTask.gen
              /\ cronJob.gen <= wTask.gen /\ wTask.gen <= cTask.gen /\ cTask.uid = task.uid
            BY <1>3 DEF WriteCronJob, OwnershipInv, PassKnowsTask, GenerationInv,
                        PassMovesForward, ApplySteps, Exists
        <3>4. /\ wTask.gen \in Nat /\ cTask.gen \in Nat /\ task.gen \in Nat /\ cronJob.gen \in Nat
            BY DEF TypeOK, TaskType, CronJobType
        <3>5. wTask.gen <= task.gen
            BY <3>3, <3>4 DEF GenerationInv, GenerationsGrow
        <3>6. CASE cronJob.gen = wTask.gen
            <4>1. cronJob.uid = task.uid
                BY <3>3, <3>6
                DEF OwnershipInv, CronJobHasLiveOwner, GenerationInv, GenerationsGrow, Exists
            <4> QED BY <3>1, <3>2, <3>3, <3>6, <4>1, PromiseStutters
        <3>7. CASE cronJob.gen # wTask.gen
            <4>1. wTask.gen \in cronJob.gen + 1 .. task.gen
                BY <3>3, <3>4, <3>5, <3>7
            <4>2. Promise!Apply
                BY <3>1, <3>2, <3>3, <4>1 DEF Promise!Apply, Exists
            <4> QED BY <4>2 DEF PromiseStep, Promise!Next
        <3> QED BY <3>6, <3>7
    <2> QED BY <2>1, <2>2
<1>4. CASE WriteStatus
    <2>1. CASE ~wTaskFresh
        BY <1>4, <2>1, PromiseStutters DEF WriteStatus
    <2>2. CASE wTaskFresh
        <3> DEFINE t == [task EXCEPT !.obs = wTask.gen, !.phase = PhaseOf(wCronJob)]
        <3>1. t.uid = task.uid /\ t.gen = task.gen /\ t.del = task.del /\ t.obs = wTask.gen
            BY DEF TypeOK, TaskType
        <3>2. task' = t /\ UNCHANGED <<cronJob, lastUid>>
            BY <1>4, <2>2 DEF WriteStatus, StoreStatus
        <3> HIDE DEF t
        <3>3. /\ task.uid = wTask.uid /\ Exists(task)
              /\ task.obs <= wTask.gen /\ wTask.gen <= cTask.gen /\ cTask.uid = task.uid
              /\ ~task.del => cronJob.gen = wTask.gen
            BY <1>4 DEF WriteStatus, OwnershipInv, PassKnowsTask, GenerationInv,
                        PassMovesForward, ApplySteps, Exists
        <3>4. /\ wTask.gen \in Nat /\ cTask.gen \in Nat /\ task.gen \in Nat /\ task.obs \in Nat
            BY DEF TypeOK, TaskType
        <3>5. wTask.gen <= task.gen
            BY <3>3, <3>4 DEF GenerationInv, GenerationsGrow
        <3>6. CASE task.obs = wTask.gen
            BY <3>1, <3>2, <3>6, PromiseStutters
        <3>7. CASE task.obs # wTask.gen
            <4>1. task'.obs \in task.obs + 1 .. (IF task.del THEN task.gen ELSE cronJob.gen)
                BY <3>1, <3>2, <3>3, <3>4, <3>5, <3>7
            <4>2. Promise!Acknowledge
                BY <3>1, <3>2, <3>3, <4>1 DEF Promise!Acknowledge, Exists
            <4> QED BY <4>2 DEF PromiseStep, Promise!Next
        <3> QED BY <3>6, <3>7
    <2> QED BY <2>1, <2>2
<1>5. CASE DeleteCronJob
    <2>1. cronJob' = NoCronJob /\ UNCHANGED <<task, lastUid>>
        BY <1>5 DEF DeleteCronJob, StoreCronJob, CronJobAfterDelete
    <2>2. Exists(cronJob) => task.del
        BY <1>5 DEF DeleteCronJob, GenerationInv, PassMovesForward, FinalizeSteps,
                    OwnershipInv, PassKnowsTask, CronJobHasLiveOwner
    <2> QED BY <2>1, <2>2, PromiseWithdraw
<1>6. CASE RemoveFinalizer
    <2>1. CASE ~wTaskFresh
        BY <1>6, <2>1, PromiseStutters DEF RemoveFinalizer
    <2>2. CASE wTaskFresh
        <3> DEFINE t == [task EXCEPT !.fin = FALSE]
        <3>1. task' = WithoutFinalizers(t) /\ UNCHANGED <<cronJob, lastUid>>
            BY <1>6, <2>2 DEF RemoveFinalizer, StoreTask
        <3>2. Exists(task) /\ ~Exists(cronJob)
            BY <1>6, <2>2 DEF RemoveFinalizer, OwnershipInv, PassKnowsTask, FinalizeSteps, Exists
        <3>3. t.uid = task.uid /\ t.gen = task.gen /\ t.del = task.del /\ t.obs = task.obs
            BY DEF TypeOK, TaskType
        <3> HIDE DEF t
        <3> QED BY <3>1, <3>2, <3>3, PromiseStutters, PromiseVanish DEF WithoutFinalizers
    <2> QED BY <2>1, <2>2
<1> QED BY <1>1, <1>2, <1>3, <1>4, <1>5, <1>6 DEF Worker

LEMMA PromiseManager ==
    ASSUME Manager PROVE PromiseStep
<1>1. UNCHANGED <<task, cronJob, lastUid>>
    BY DEF Manager, SyncTask, SyncCronJob, SyncRecords, TimerFires, Restart, objectVars, boundVars
<1> QED BY <1>1, PromiseStutters

LEMMA PromiseOthers ==
    ASSUME ~ThirdParty, TypeOK, OwnershipInv, GenerationInv, Others PROVE PromiseStep
<1>1. CASE CreateTask
    <2> DEFINE t == [NoTask EXCEPT !.uid = lastUid + 1, !.gen = 1]
    <2>1. t.uid = lastUid + 1 /\ t.gen = 1 /\ t.obs = 0 /\ t.del = FALSE
        BY DEF NoTask
    <2>2. task' = t /\ ~Exists(task) /\ lastUid' = lastUid + 1 /\ UNCHANGED cronJob
        BY <1>1 DEF CreateTask, OthersStoreTask, StoreTask
    <2>3. cronJob.uid = 0 /\ cronJob.gen = 0
        BY <2>2 DEF OwnershipInv, CronJobHasLiveOwner, GenerationInv, GenerationsGrow, Exists
    <2> HIDE DEF t
    <2>4. Promise!Declare
        BY <2>1, <2>2, <2>3 DEF Promise!Declare, Promise!NoSchedule, Exists
    <2> QED BY <2>4 DEF PromiseStep, Promise!Next
<1>2. CASE EditTask
    <2> DEFINE t == [task EXCEPT !.gen = @ + 1]
    <2>1. t.uid = task.uid /\ t.gen = task.gen + 1 /\ t.del = task.del /\ t.obs = task.obs
        BY DEF TypeOK, TaskType
    <2>2. task' = t /\ Exists(task) /\ ~task.del /\ UNCHANGED <<cronJob, lastUid>>
        BY <1>2 DEF EditTask, OthersStoreTask, StoreTask
    <2> HIDE DEF t
    <2>3. Promise!Edit
        BY <2>1, <2>2 DEF Promise!Edit, Exists
    <2> QED BY <2>3 DEF PromiseStep, Promise!Next
<1>3. CASE DeleteTask
    <2>1. PICK foreground \in BOOLEAN :
              OthersStoreTask(WithoutFinalizers([task EXCEPT !.del = TRUE, !.hold = foreground]))
        BY <1>3 DEF DeleteTask
    <2> DEFINE t == [task EXCEPT !.del = TRUE, !.hold = foreground]
    <2>2. /\ t.uid = task.uid /\ t.gen = task.gen /\ t.del = TRUE /\ t.obs = task.obs
          /\ t.fin = task.fin
        BY DEF TypeOK, TaskType
    <2>3. /\ task' = WithoutFinalizers(t) /\ Exists(task) /\ ~task.del
          /\ UNCHANGED <<cronJob, lastUid>>
        BY <1>3, <2>1 DEF DeleteTask, OthersStoreTask, StoreTask
    <2> HIDE DEF t
    <2>4. CASE task' = t
        <3>1. Promise!RequestDeletion
            BY <2>2, <2>3, <2>4 DEF Promise!RequestDeletion, Exists
        <3> QED BY <3>1 DEF PromiseStep, Promise!Next
    <2>5. CASE task' = NoTask /\ ~task.fin
        <3>1. ~Exists(cronJob)
            BY <2>5 DEF OwnershipInv, CronJobHasLiveOwner
        <3> QED BY <2>3, <2>5, <3>1, PromiseVanish
    <2> QED BY <2>2, <2>3, <2>4, <2>5 DEF WithoutFinalizers
<1>4. CASE CollectCronJob
    <2>1. cronJob' = NoCronJob /\ task.del /\ UNCHANGED <<task, lastUid>>
        BY <1>4 DEF CollectCronJob, OthersStoreCronJob, StoreCronJob, GenerationInv, GenerationsGrow
    <2> QED BY <2>1, PromiseWithdraw
<1>5. CASE ReleaseForeground
    <2> DEFINE t == [task EXCEPT !.hold = FALSE]
    <2>1. t.uid = task.uid /\ t.gen = task.gen /\ t.del = task.del /\ t.obs = task.obs
        BY DEF TypeOK, TaskType
    <2>2. /\ task' = WithoutFinalizers(t) /\ Exists(task) /\ ~Exists(cronJob)
          /\ UNCHANGED <<cronJob, lastUid>>
        BY <1>5 DEF ReleaseForeground, OthersStoreTask, StoreTask, GenerationInv,
                    GenerationsGrow, NoTask
    <2> HIDE DEF t
    <2> QED BY <2>1, <2>2, PromiseStutters, PromiseVanish DEF WithoutFinalizers
<1>6. CASE StartJob \/ EndJob
    <2>1. \/ cronJob' = [cronJob EXCEPT !.active = TRUE, !.scheduled = TRUE]
          \/ cronJob' = [cronJob EXCEPT !.active = FALSE]
          \/ UNCHANGED cronJob
        BY <1>6 DEF StartJob, EndJob, OthersStoreCronJob, StoreCronJob
    <2>2. UNCHANGED <<task, lastUid>>
        BY <1>6 DEF StartJob, EndJob, OthersStoreCronJob
    <2>3. cronJob'.uid = cronJob.uid /\ cronJob'.gen = cronJob.gen
        BY <2>1 DEF TypeOK, CronJobType
    <2> QED BY <2>2, <2>3, PromiseStutters
<1>7. CASE WriteRecord
    BY <1>7, PromiseStutters DEF WriteRecord, boundVars
<1>8. CASE LoseConfigMap \/ LoseCronJob
    BY <1>8 DEF LoseConfigMap, LoseCronJob
<1> QED BY <1>1, <1>2, <1>3, <1>4, <1>5, <1>6, <1>7, <1>8 DEF Others

(* The controller implements ScheduledTask: through any number of passes,  *)
(* conflicts, lost replies, lagging caches, restarts, deletions and        *)
(* re-creations, the schedule in force and its acknowledgement only move   *)
(* as the abstract task allows.                                            *)
THEOREM PromiseKept ==
    ASSUME ~ThirdParty
    PROVE  Spec => ImplementsPromise
<1>1. ASSUME TypeOK, OwnershipInv, GenerationInv, [Next]_vars
      PROVE  [Promise!Next]_(Promise!vars)
    <2>1. CASE UNCHANGED vars
        BY <2>1, PromiseStutters DEF PromiseStep, vars, objectVars, boundVars
    <2> QED BY <1>1, <2>1, PromiseWorker, PromiseManager, PromiseOthers DEF Next, PromiseStep
<1> QED BY PromiseInit, TypeCorrect, OwnershipInvariant, GenerationInvariant, <1>1, PTL
        DEF Spec, ImplementsPromise, Promise!Spec
=============================================================================
